--------------------------- MODULE LegoPortProofs ---------------------------
(***************************************************************************)
(* Proofs about LegoPort: its inductive invariant and what follows from    *)
(* it, for every queue length, session bound and bound on wake-ups.        *)
(***************************************************************************)
EXTENDS LegoPort, SequenceTheorems, TLAPS

(* An invalidated queue is a queue of no frames.                           *)
LEMMA EmptyQueue ==
  /\ <<>> \in Seq(0 .. MaxSession)
  /\ Len(<<>>) = 0
  /\ \A i \in 1 .. Len(<<>>) : FALSE
  OBVIOUS

(* The ring never outgrows its capacity: a full one gives up its oldest.   *)
LEMMA RingPush ==
  ASSUME NEW S, NEW s \in Seq(S), NEW x \in S, NEW n \in Nat \ {0},
         Len(s) <= n
  PROVE  LET r == IF Len(s) = n THEN Tail(s) ELSE s
         IN  Append(r, x) \in Seq(S) /\ Len(Append(r, x)) <= n
<1>1. CASE Len(s) = n
  <2>1. s # <<>>
    BY <1>1
  <2>2. Tail(s) \in Seq(S) /\ Len(Tail(s)) = Len(s) - 1
    BY <2>1
  <2> QED
    BY <1>1, <2>2
<1>2. CASE Len(s) # n
  BY <1>2
<1> QED
  BY <1>1, <1>2

(* The invariant holds when the hub has booted: nothing is driven, no      *)
(* session exists and no callback is registered.                           *)
LEMMA InitInv == Init => IInv
<1> SUFFICES ASSUME Init PROVE IInv
  OBVIOUS
<1> USE DEF Init
<1>1. FlagsOK
  BY DEF FlagsOK
<1>2. ValuesOK
  BY LegoPortAssumption, EmptyQueue DEF ValuesOK, UartDevices, Driving
<1>3. PinsExclusive /\ RailHeld /\ MotorDrivable /\ NoOrphanDrive
  BY DEF PinsExclusive, InSession, Inflight, RailHeld, MotorDrivable,
         NoOrphanDrive
<1>4. FramesOfSession
  BY EmptyQueue DEF FramesOfSession
<1>5. Handshake
  BY DEF Handshake, Inflight
<1>6. SessionState
  BY DEF SessionState
<1> QED
  BY <1>1, <1>2, <1>3, <1>4, <1>5, <1>6 DEF IInv, TypeOK

(* Every step keeps the flags Boolean.                                     *)
LEMMA NextFlags == IInv /\ [Next]_vars => FlagsOK'
<1> SUFFICES ASSUME FlagsOK, [Next]_vars
             PROVE  FlagsOK'
  BY DEF IInv, TypeOK
<1> USE DEF FlagsOK, chardev, hbridge, detector, engine, queue
<1>1. CASE \E d \in UartDevices : Plug(d)
  BY <1>1 DEF Plug
<1>2. CASE Unplug
  BY <1>2 DEF Unplug
<1>3. CASE Open
  BY <1>3 DEF Open
<1>4. CASE Close
  BY <1>4 DEF CloseCleanup, Close
<1>5. CASE HandleCommand
  BY <1>5 DEF Command, HandleCommand
<1>6. CASE HandleCoast
  BY <1>6 DEF Coast, HandleCoast
<1>7. CASE KernelCommand
  BY <1>7 DEF Command, Coast, KernelCommand
<1>8. CASE Confirm
  BY <1>8 DEF Confirm
<1>9. CASE HandoffMark
  BY <1>9 DEF HandoffMark
<1>10. CASE HandoffPost
  BY <1>10 DEF HandoffPost
<1>11. CASE HandoffDone
  BY <1>11 DEF Latch, HandoffDone
<1>12. CASE Rescan
  BY <1>12 DEF Rescan
<1>13. CASE Push
  BY <1>13 DEF Push
<1>14. CASE Pop
  BY <1>14 DEF Pop
<1>15. CASE SpuriousWake
  BY <1>15 DEF SpuriousWake
<1>16. CASE Reset
  BY <1>16 DEF Invalidate, Reset
<1>17. CASE Sync
  BY <1>17 DEF Begin, Sync
<1>18. CASE PinSupply
  BY <1>18 DEF PinSupply
<1>19. CASE Watchdog
  BY <1>19 DEF Watchdog
<1>20. CASE EndSession
  BY <1>20 DEF Invalidate, EndSession
<1>21. CASE WakeEndsSession
  BY <1>21 DEF Invalidate, WakeEndsSession
<1>22. CASE ReleaseUart
  BY <1>22 DEF ReleaseUart
<1>23. CASE Drain
  BY <1>23 DEF Drain
<1>24. CASE Register
  BY <1>24 DEF Register
<1>25. CASE Idle
  BY <1>25 DEF Idle
<1>26. CASE UNCHANGED vars
  BY <1>26 DEF vars
<1> QED
  BY <1>1, <1>2, <1>3, <1>4, <1>5, <1>6, <1>7, <1>8, <1>9, <1>10, <1>11, <1>12, <1>13, <1>14, <1>15, <1>16, <1>17, <1>18, <1>19, <1>20, <1>21, <1>22, <1>23, <1>24, <1>25, <1>26 DEF Next, Users, Detector, Engine

(* Every step keeps the other variables in their types, and the queue and  *)
(* the semaphores within their bounds.                                     *)
LEMMA NextValues == IInv /\ [Next]_vars => ValuesOK'
<1> SUFFICES ASSUME ValuesOK, Handshake, [Next]_vars
             PROVE  ValuesOK'
  BY DEF IInv, TypeOK
<1> USE LegoPortAssumption, EmptyQueue
    DEF ValuesOK, Handshake, chardev, hbridge, detector, engine, queue,
        UartDevices, Driving, Inflight
<1>1. CASE \E d \in UartDevices : Plug(d)
  BY <1>1 DEF Plug
<1>2. CASE Unplug
  BY <1>2 DEF Unplug
<1>3. CASE Open
  BY <1>3 DEF Open
<1>4. CASE Close
  BY <1>4 DEF CloseCleanup, Close
<1>5. CASE HandleCommand
  BY <1>5 DEF Command, HandleCommand
<1>6. CASE HandleCoast
  BY <1>6 DEF Coast, HandleCoast
<1>7. CASE KernelCommand
  BY <1>7 DEF Command, Coast, KernelCommand
<1>8. CASE Confirm
  BY <1>8 DEF Confirm
<1>9. CASE HandoffMark
  BY <1>9 DEF HandoffMark
<1>10. CASE HandoffPost
  BY <1>10 DEF HandoffPost
<1>11. CASE HandoffDone
  BY <1>11 DEF Latch, HandoffDone
<1>12. CASE Rescan
  BY <1>12 DEF Rescan
<1>13. CASE Push
  <2>1. frames' \in Seq(0 .. MaxSession) /\ Len(frames') <= QueueLen
    <3> HIDE DEF Handshake
    <3> QED
      BY <1>13, RingPush DEF Push
  <2> QED
    BY <1>13, <2>1 DEF Push
<1>14. CASE Pop
  BY <1>14 DEF Pop
<1>15. CASE SpuriousWake
  BY <1>15 DEF SpuriousWake
<1>16. CASE Reset
  BY <1>16 DEF Invalidate, Reset
<1>17. CASE Sync
  BY <1>17 DEF Begin, Sync
<1>18. CASE PinSupply
  BY <1>18 DEF PinSupply
<1>19. CASE Watchdog
  BY <1>19 DEF Watchdog
<1>20. CASE EndSession
  BY <1>20 DEF Invalidate, EndSession
<1>21. CASE WakeEndsSession
  BY <1>21 DEF Invalidate, WakeEndsSession
<1>22. CASE ReleaseUart
  BY <1>22 DEF ReleaseUart
<1>23. CASE Drain
  BY <1>23 DEF Drain
<1>24. CASE Register
  BY <1>24 DEF Register
<1>25. CASE Idle
  BY <1>25 DEF Idle
<1>26. CASE UNCHANGED vars
  BY <1>26 DEF vars
<1> QED
  BY <1>1, <1>2, <1>3, <1>4, <1>5, <1>6, <1>7, <1>8, <1>9, <1>10, <1>11, <1>12, <1>13, <1>14, <1>15, <1>16, <1>17, <1>18, <1>19, <1>20, <1>21, <1>22, <1>23, <1>24, <1>25, <1>26 DEF Next, Users, Detector, Engine

(* Every step keeps the exclusion of detector and engine.                  *)
LEMMA NextHandshake == IInv /\ [Next]_vars => PinsExclusive' /\ Handshake'
<1> SUFFICES ASSUME IInv, [Next]_vars
             PROVE  PinsExclusive' /\ Handshake'
  OBVIOUS
<1> USE DEF IInv, TypeOK, FlagsOK, ValuesOK, PinsExclusive, Handshake, Inflight, InSession,
            chardev, hbridge, detector, engine, queue
<1>1. CASE \E d \in UartDevices : Plug(d)
  BY <1>1 DEF Plug
<1>2. CASE Unplug
  BY <1>2 DEF Unplug
<1>3. CASE Open
  BY <1>3 DEF Open
<1>4. CASE Close
  BY <1>4 DEF CloseCleanup, Close
<1>5. CASE HandleCommand
  BY <1>5 DEF Command, HandleCommand
<1>6. CASE HandleCoast
  BY <1>6 DEF Coast, HandleCoast
<1>7. CASE KernelCommand
  BY <1>7 DEF Command, Coast, KernelCommand
<1>8. CASE Confirm
  BY <1>8 DEF Confirm
<1>9. CASE HandoffMark
  BY <1>9 DEF HandoffMark
<1>10. CASE HandoffPost
  BY <1>10 DEF HandoffPost
<1>11. CASE HandoffDone
  BY <1>11 DEF Latch, HandoffDone
<1>12. CASE Rescan
  BY <1>12 DEF Rescan
<1>13. CASE Push
  BY <1>13 DEF Push
<1>14. CASE Pop
  BY <1>14 DEF Pop
<1>15. CASE SpuriousWake
  BY <1>15 DEF SpuriousWake
<1>16. CASE Reset
  BY <1>16 DEF Invalidate, Reset
<1>17. CASE Sync
  BY <1>17 DEF Begin, Sync
<1>18. CASE PinSupply
  BY <1>18 DEF PinSupply
<1>19. CASE Watchdog
  BY <1>19 DEF Watchdog
<1>20. CASE EndSession
  BY <1>20 DEF Invalidate, EndSession
<1>21. CASE WakeEndsSession
  BY <1>21 DEF Invalidate, WakeEndsSession
<1>22. CASE ReleaseUart
  BY <1>22 DEF ReleaseUart
<1>23. CASE Drain
  BY <1>23 DEF Drain
<1>24. CASE Register
  BY <1>24 DEF Register
<1>25. CASE Idle
  BY <1>25 DEF Idle
<1>26. CASE UNCHANGED vars
  BY <1>26 DEF vars
<1> QED
  BY <1>1, <1>2, <1>3, <1>4, <1>5, <1>6, <1>7, <1>8, <1>9, <1>10, <1>11, <1>12, <1>13, <1>14, <1>15, <1>16, <1>17, <1>18, <1>19, <1>20, <1>21, <1>22, <1>23, <1>24, <1>25, <1>26 DEF Next, Users, Detector, Engine

(* Every step keeps the promises about the bridge and about the session.   *)
LEMMA NextBridge ==
  IInv /\ [Next]_vars
    => RailHeld' /\ MotorDrivable' /\ NoOrphanDrive' /\ SessionState'
<1> SUFFICES ASSUME IInv, [Next]_vars
             PROVE  /\ RailHeld' /\ MotorDrivable'
                    /\ NoOrphanDrive' /\ SessionState'
  OBVIOUS
<1> USE DEF IInv, RailHeld, MotorDrivable, NoOrphanDrive, SessionState,
            Driving, UartDevices, Handshake,
            chardev, hbridge, detector, engine, queue
<1>1. CASE \E d \in UartDevices : Plug(d)
  BY <1>1 DEF Plug
<1>2. CASE Unplug
  BY <1>2 DEF Unplug
<1>3. CASE Open
  BY <1>3 DEF Open
<1>4. CASE Close
  BY <1>4 DEF CloseCleanup, Close
<1>5. CASE HandleCommand
  BY <1>5 DEF Command, HandleCommand
<1>6. CASE HandleCoast
  BY <1>6 DEF Coast, HandleCoast
<1>7. CASE KernelCommand
  BY <1>7 DEF Command, Coast, KernelCommand
<1>8. CASE Confirm
  BY <1>8 DEF Confirm
<1>9. CASE HandoffMark
  BY <1>9 DEF HandoffMark
<1>10. CASE HandoffPost
  BY <1>10 DEF HandoffPost
<1>11. CASE HandoffDone
  BY <1>11 DEF Latch, HandoffDone
<1>12. CASE Rescan
  BY <1>12 DEF Rescan
<1>13. CASE Push
  BY <1>13 DEF Push
<1>14. CASE Pop
  BY <1>14 DEF Pop
<1>15. CASE SpuriousWake
  BY <1>15 DEF SpuriousWake
<1>16. CASE Reset
  BY <1>16 DEF Invalidate, Reset
<1>17. CASE Sync
  BY <1>17 DEF Begin, Sync
<1>18. CASE PinSupply
  BY <1>18 DEF PinSupply
<1>19. CASE Watchdog
  BY <1>19 DEF Watchdog
<1>20. CASE EndSession
  BY <1>20 DEF Invalidate, EndSession
<1>21. CASE WakeEndsSession
  BY <1>21 DEF Invalidate, WakeEndsSession
<1>22. CASE ReleaseUart
  BY <1>22 DEF ReleaseUart
<1>23. CASE Drain
  BY <1>23 DEF Drain
<1>24. CASE Register
  BY <1>24 DEF Register
<1>25. CASE Idle
  BY <1>25 DEF Idle
<1>26. CASE UNCHANGED vars
  BY <1>26 DEF vars
<1> QED
  BY <1>1, <1>2, <1>3, <1>4, <1>5, <1>6, <1>7, <1>8, <1>9, <1>10, <1>11, <1>12, <1>13, <1>14, <1>15, <1>16, <1>17, <1>18, <1>19, <1>20, <1>21, <1>22, <1>23, <1>24, <1>25, <1>26 DEF Next, Users, Detector, Engine

(* Every step keeps the frames bound to their session.                     *)
LEMMA NextFrames == IInv /\ [Next]_vars => FramesOfSession'
<1> SUFFICES ASSUME IInv, [Next]_vars
             PROVE  FramesOfSession'
  OBVIOUS
<1> USE EmptyQueue, LegoPortAssumption
    DEF IInv, TypeOK, ValuesOK, FramesOfSession, SessionState, UartDevices,
        chardev, hbridge, detector, engine, queue
<1>1. CASE \E d \in UartDevices : Plug(d)
  BY <1>1 DEF Plug
<1>2. CASE Unplug
  BY <1>2 DEF Unplug
<1>3. CASE Open
  BY <1>3 DEF Open
<1>4. CASE Close
  BY <1>4 DEF CloseCleanup, Close
<1>5. CASE HandleCommand
  BY <1>5 DEF Command, HandleCommand
<1>6. CASE HandleCoast
  BY <1>6 DEF Coast, HandleCoast
<1>7. CASE KernelCommand
  BY <1>7 DEF Command, Coast, KernelCommand
<1>8. CASE Confirm
  BY <1>8 DEF Confirm
<1>9. CASE HandoffMark
  BY <1>9 DEF HandoffMark
<1>10. CASE HandoffPost
  BY <1>10 DEF HandoffPost
<1>11. CASE HandoffDone
  BY <1>11 DEF Latch, HandoffDone
<1>12. CASE Rescan
  BY <1>12 DEF Rescan
<1>13. CASE Push
  BY <1>13 DEF Push
<1>14. CASE Pop
  BY <1>14 DEF Pop
<1>15. CASE SpuriousWake
  BY <1>15 DEF SpuriousWake
<1>16. CASE Reset
  BY <1>16 DEF Invalidate, Reset
<1>17. CASE Sync
  BY <1>17 DEF Begin, Sync
<1>18. CASE PinSupply
  BY <1>18 DEF PinSupply
<1>19. CASE Watchdog
  BY <1>19 DEF Watchdog
<1>20. CASE EndSession
  BY <1>20 DEF Invalidate, EndSession
<1>21. CASE WakeEndsSession
  BY <1>21 DEF Invalidate, WakeEndsSession
<1>22. CASE ReleaseUart
  BY <1>22 DEF ReleaseUart
<1>23. CASE Drain
  BY <1>23 DEF Drain
<1>24. CASE Register
  BY <1>24 DEF Register
<1>25. CASE Idle
  BY <1>25 DEF Idle
<1>26. CASE UNCHANGED vars
  BY <1>26 DEF vars
<1> QED
  BY <1>1, <1>2, <1>3, <1>4, <1>5, <1>6, <1>7, <1>8, <1>9, <1>10, <1>11, <1>12, <1>13, <1>14, <1>15, <1>16, <1>17, <1>18, <1>19, <1>20, <1>21, <1>22, <1>23, <1>24, <1>25, <1>26 DEF Next, Users, Detector, Engine

(* The invariant is kept by every step.                                    *)
LEMMA NextInv == IInv /\ [Next]_vars => IInv'
  BY NextFlags, NextValues, NextHandshake, NextBridge, NextFrames
  DEF IInv, TypeOK

(* The inductive invariant holds in every reachable state.                 *)
THEOREM LegoPortInvariant == Spec => []IInv
  BY InitInv, NextInv, PTL DEF Spec

(* Type correctness of detector, engine, bridge and queue: in particular   *)
(* the queue never holds more than QueueLen frames and the semaphore of    *)
(* the drain never collects a second post.                                 *)
THEOREM LegoPortTypeCorrect == Spec => []TypeOK
<1>1. IInv => TypeOK
  BY DEF IInv
<1> QED
  BY <1>1, LegoPortInvariant, PTL

(* The detector and the engine never work on the pins together.            *)
THEOREM PinsAreExclusive == Spec => []PinsExclusive
<1>1. IInv => PinsExclusive
  BY DEF IInv
<1> QED
  BY <1>1, LegoPortInvariant, PTL

(* A pinned rail is never disturbed, and a sensor session has its rail.    *)
THEOREM RailIsHeld == Spec => []RailHeld
<1>1. IInv => RailHeld
  BY DEF IInv
<1> QED
  BY <1>1, LegoPortInvariant, PTL

(* A synchronised motor never meets the rail of an earlier sensor.         *)
THEOREM MotorsAreDrivable == Spec => []MotorDrivable
<1>1. IInv => MotorDrivable
  BY DEF IInv
<1> QED
  BY <1>1, LegoPortInvariant, PTL

(* What a handle drove is stopped when it is closed.                       *)
THEOREM NoDriveOutlivesItsHandle == Spec => []NoOrphanDrive
<1>1. IInv => NoOrphanDrive
  BY DEF IInv
<1> QED
  BY <1>1, LegoPortInvariant, PTL

(* Frames are only ever served under the number of their own session.      *)
THEOREM FramesStayInTheirSession == Spec => []FramesOfSession
<1>1. IInv => FramesOfSession
  BY DEF IInv
<1> QED
  BY <1>1, LegoPortInvariant, PTL

(* A session number is never reused and never taken back.                  *)
THEOREM SessionNumbersAreNew == Spec => SessionsAreNew
<1> DEFINE New == /\ session' >= session
                  /\ active' /\ ~active => session' > session
<1>1. IInv /\ [Next]_vars => [New]_vars
  <2> SUFFICES ASSUME IInv, [Next]_vars
               PROVE  New
    OBVIOUS
  <2> USE DEF IInv, TypeOK, ValuesOK, chardev, hbridge, detector, engine, queue
  <2>1. session \in Nat
    BY LegoPortAssumption
  <2>2. CASE Users
    BY <2>1, <2>2 DEF Users, Plug, Unplug, Open, Close, HandleCommand,
       HandleCoast, KernelCommand, Push, Pop, Watchdog
  <2>3. CASE Detector
    BY <2>1, <2>3 DEF Detector, Confirm, HandoffMark, HandoffPost,
       HandoffDone, Rescan
  <2>4. CASE Sync
    BY <2>1, <2>4 DEF Sync, Begin
  <2>5. CASE Engine /\ ~Sync
    BY <2>1, <2>5 DEF Engine, SpuriousWake, Reset, PinSupply, EndSession,
       WakeEndsSession, ReleaseUart, Drain, Register, Idle, Invalidate
  <2>6. CASE UNCHANGED vars
    BY <2>1, <2>6 DEF vars
  <2> QED
    BY <2>2, <2>3, <2>4, <2>5, <2>6 DEF Next
<1> QED
  BY <1>1, LegoPortInvariant, PTL DEF Spec, SessionsAreNew
=============================================================================
