------------------------------ MODULE LegoPort ------------------------------
(***************************************************************************)
(* One I/O port of the hub: the three kernel parts that share it and the   *)
(* user programs that drive it.                                            *)
(*                                                                         *)
(*   - the detector (stm32_legoport.c, high-priority work queue) scans the *)
(*     pins and, when it confirms a UART device, hands them off by calling *)
(*     the registered callback without its lock;                           *)
(*   - the LUMP engine (stm32_legoport_lump.c, one kernel thread per port) *)
(*     resets its session, synchronises, publishes a DATA session, powers  *)
(*     the rail of sensors that need it, and tears everything down again;  *)
(*   - the H-bridge (stm32_legoport_pwm.c), commanded by the one open      *)
(*     handle of /dev/port* (stm32_legoport_chardev.c), by the kernel's    *)
(*     other callers (sensor class devices, drive base) and by the engine. *)
(*                                                                         *)
(* A step of the detector or of the engine ends where it takes or drops a  *)
(* lock or where the other thread can see what it did.                     *)
(***************************************************************************)
EXTENDS Naturals, Sequences

CONSTANTS
  QueueLen,    \* LUMP_DATA_QUEUE, frames a DATA queue holds
  MaxSession,  \* UINT64_MAX, the last DATA session number
  MaxWakeups   \* bound on unconsumed posts of the engine's semaphore

ASSUME LegoPortAssumption ==
  /\ QueueLen \in Nat \ {0}
  /\ MaxSession \in Nat
  /\ MaxWakeups \in Nat \ {0}

VARIABLES
  dev,      \* what is plugged in: "none", "motor" or "sensor" (needs supply)
  open,     \* chardev: the handle is open
  drove,    \* chardev: this handle has commanded the bridge
  bridge,   \* "coast", "brake", or who is driving: "handle", "kernel", "rail"
  pinned,   \* H-bridge: held as a sensor's supply rail
  dcm,      \* detector: where its thread and its latched state are
  cb,       \* detector: a handoff callback is registered
  stale,    \* detector: the generation moved since the invocation began
  quiet,    \* detector: posts of handoff_quiescent
  eng,      \* engine: where its thread is
  pending,  \* engine: handoff_pending
  wakeup,   \* engine: posts of the wakeup semaphore
  stall,    \* engine: wdog_stall
  info,     \* engine: type published with LUMP_FLAG_SYNCED, "none" without
  session,  \* DATA queue: number of the last session
  active,   \* DATA queue: accepting and serving frames
  frames    \* DATA queue: for each frame, the session it was received in

chardev  == <<open, drove>>
hbridge  == <<bridge, pinned>>
detector == <<dcm, cb, stale, quiet>>
engine   == <<eng, pending, wakeup, stall, info>>
queue    == <<session, active, frames>>
vars     == <<dev, chardev, hbridge, detector, engine, queue>>

UartDevices == {"motor", "sensor"}
Driving     == {"handle", "kernel", "rail"}       \* LEGOPORT_PWM_STATE_PWM

FlagsOK ==
  /\ open \in BOOLEAN
  /\ drove \in BOOLEAN
  /\ pinned \in BOOLEAN
  /\ cb \in BOOLEAN
  /\ stale \in BOOLEAN
  /\ pending \in BOOLEAN
  /\ stall \in BOOLEAN
  /\ active \in BOOLEAN

ValuesOK ==
  /\ dev \in UartDevices \cup {"none"}
  /\ bridge \in {"coast", "brake"} \cup Driving
  /\ dcm \in {"scan", "invoke", "marked", "called", "owned", "unowned"}
  /\ quiet \in 0 .. 1
  /\ eng \in {"boot", "wait", "sync", "pin", "data", "ended", "drain",
              "error", "backoff"}
  /\ wakeup \in 0 .. MaxWakeups
  /\ info \in UartDevices \cup {"none"}
  /\ session \in 0 .. MaxSession
  /\ frames \in Seq(0 .. MaxSession)
  /\ Len(frames) <= QueueLen

(* Every variable has its type and the queue and the semaphores keep their *)
(* bounds.                                                                 *)
TypeOK == FlagsOK /\ ValuesOK

(* The detector runs before the engine registers its callback at boot.     *)
Init ==
  /\ dev \in UartDevices \cup {"none"}
  /\ open = FALSE /\ drove = FALSE
  /\ bridge = "coast" /\ pinned = FALSE
  /\ dcm = "scan" /\ cb = FALSE /\ stale = FALSE /\ quiet = 0
  /\ eng = "boot" /\ pending = FALSE /\ wakeup = 0
  /\ stall = FALSE /\ info = "none"
  /\ session = 0 /\ active = FALSE /\ frames = <<>>

-----------------------------------------------------------------------------
(* The user at the port.                                                   *)

Plug(d) ==
  /\ dev = "none"
  /\ dev' = d
  /\ UNCHANGED <<chardev, hbridge, detector, engine, queue>>

Unplug ==
  /\ dev # "none"
  /\ dev' = "none"
  /\ UNCHANGED <<chardev, hbridge, detector, engine, queue>>

-----------------------------------------------------------------------------
(* The handle of /dev/port*.  A second open is refused with -EBUSY.        *)

Open ==
  /\ ~open
  /\ open' = TRUE
  /\ drove' = FALSE
  /\ UNCHANGED <<dev, hbridge, detector, engine, queue>>

CloseCleanupNever == UNCHANGED bridge

(* stm32_legoport_pwm_close_cleanup: coast what was driven, except a rail. *)
CloseCleanup ==
  bridge' = IF ~pinned /\ bridge \in Driving THEN "coast" ELSE bridge

Close ==
  /\ open
  /\ open' = FALSE
  /\ drove' = FALSE
  /\ IF drove THEN CloseCleanup ELSE UNCHANGED bridge
  /\ UNCHANGED <<dev, pinned, detector, engine, queue>>

(* A command on the bridge: set_duty and brake return -EBUSY on a rail.    *)
Command(b) ==
  /\ ~pinned
  /\ bridge' = b

CoastAlways == bridge' = "coast"

(* coast is silently ignored on a rail, and reports OK.                    *)
Coast == bridge' = IF pinned THEN bridge ELSE "coast"

(* LEGOPORT_PWM_SET_DUTY (a duty of 0 brakes) and LEGOPORT_PWM_BRAKE.  A   *)
(* refused command changes nothing.                                        *)
HandleCommand ==
  /\ open
  /\ \E b \in {"handle", "brake"} : Command(b)
  /\ drove' = TRUE
  /\ UNCHANGED <<dev, open, pinned, detector, engine, queue>>

(* LEGOPORT_PWM_COAST marks the handle as a driver even on a rail.         *)
HandleCoast ==
  /\ open
  /\ Coast
  /\ drove' = TRUE
  /\ UNCHANGED <<dev, open, pinned, detector, engine, queue>>

(* Motor class devices and the drive base's emergency stop call the same   *)
(* three functions without a handle of this port.                          *)
KernelCommand ==
  /\ \/ \E b \in {"kernel", "brake"} : Command(b)
     \/ Coast
  /\ UNCHANGED <<dev, chardev, pinned, detector, engine, queue>>

-----------------------------------------------------------------------------
(* The detector.                                                           *)

(* The callback runs between inflight++ and inflight--, without the lock.  *)
Inflight == dcm \in {"invoke", "marked", "called"}

(* A UART device is confirmed: the callback is snapshotted under the lock; *)
(* without one the port is latched as unowned.                             *)
Confirm ==
  /\ dcm = "scan"
  /\ dev \in UartDevices
  /\ dcm' = IF cb THEN "invoke" ELSE "unowned"
  /\ stale' = FALSE
  /\ UNCHANGED <<dev, chardev, hbridge, cb, quiet, engine, queue>>

(* lump_handoff_cb marks the request, then posts the semaphore.            *)
HandoffMark ==
  /\ dcm = "invoke"
  /\ dcm' = "marked"
  /\ pending' = TRUE
  /\ UNCHANGED <<dev, chardev, hbridge, cb, stale, quiet, eng, wakeup, stall,
                 info, queue>>

HandoffPost ==
  /\ dcm = "marked"
  /\ wakeup < MaxWakeups
  /\ dcm' = "called"
  /\ wakeup' = wakeup + 1
  /\ UNCHANGED <<dev, chardev, hbridge, cb, stale, quiet, eng, pending, stall,
                 info, queue>>

LatchNever == "scan"

(* The result is applied unless the registration changed meanwhile, and a  *)
(* thread that waits for the invocation to end is woken.                   *)
Latch == IF stale THEN "scan" ELSE "owned"

HandoffDoneNoPost ==
  /\ dcm = "called"
  /\ dcm' = Latch
  /\ UNCHANGED <<dev, chardev, hbridge, cb, stale, quiet, engine, queue>>

HandoffDone ==
  /\ dcm = "called"
  /\ dcm' = Latch
  /\ quiet' = IF eng = "drain" THEN quiet + 1 ELSE quiet
  /\ UNCHANGED <<dev, chardev, hbridge, cb, stale, engine, queue>>

(* The gated rescan of an unowned port starts over once the device is      *)
(* gone; it never hands off a device that stayed.                          *)
Rescan ==
  /\ dcm = "unowned"
  /\ dev \notin UartDevices
  /\ dcm' = "scan"
  /\ UNCHANGED <<dev, chardev, hbridge, cb, stale, quiet, engine, queue>>

-----------------------------------------------------------------------------
(* The DATA queue; every operation holds its mutex.                        *)

InvalidateKeepsFrames ==
  /\ active' = FALSE
  /\ frames' = frames

Invalidate ==
  /\ active' = FALSE
  /\ frames' = <<>>

BeginSameSession ==
  /\ session' = session
  /\ active' = TRUE
  /\ frames' = <<>>

(* lump_data_queue_begin: a session number is never used twice.            *)
Begin ==
  /\ session' = session + 1
  /\ active' = TRUE
  /\ frames' = <<>>

PushUnbounded ==
  /\ eng = "data"
  /\ dev \in UartDevices
  /\ active
  /\ frames' = Append(IF Len(frames) > QueueLen THEN Tail(frames) ELSE frames,
                      session)
  /\ UNCHANGED <<dev, chardev, hbridge, detector, engine, session, active>>

(* A received frame; the oldest one is dropped when the queue is full.     *)
Push ==
  /\ eng = "data"
  /\ dev \in UartDevices
  /\ active
  /\ frames' = Append(IF Len(frames) = QueueLen THEN Tail(frames) ELSE frames,
                      session)
  /\ UNCHANGED <<dev, chardev, hbridge, detector, engine, session, active>>

(* LEGOPORT_LUMP_POLL_DATA_SESSION: the oldest frame and the session.      *)
Pop ==
  /\ open
  /\ active
  /\ frames # <<>>
  /\ frames' = Tail(frames)
  /\ UNCHANGED <<dev, chardev, hbridge, detector, engine, session, active>>

-----------------------------------------------------------------------------
(* The engine's thread.                                                    *)

(* A wake-up that no handoff explains is ignored.                          *)
SpuriousWake ==
  /\ eng = "wait"
  /\ wakeup > 0
  /\ ~pending
  /\ wakeup' = wakeup - 1
  /\ UNCHANGED <<dev, chardev, hbridge, detector, eng, pending, stall, info,
                 queue>>

ResetLeavesRail ==
  /\ eng = "wait"
  /\ wakeup > 0
  /\ pending
  /\ wakeup' = wakeup - 1
  /\ pending' = FALSE
  /\ bridge' = "coast"
  /\ info' = "none"
  /\ Invalidate
  /\ eng' = "sync"
  /\ UNCHANGED <<dev, chardev, pinned, detector, stall, session>>

(* lump_reset_session_state and the start of lump_run_session: the rail is *)
(* dropped and the bridge coasts, whoever was driving it.                  *)
Reset ==
  /\ eng = "wait"
  /\ wakeup > 0
  /\ pending
  /\ wakeup' = wakeup - 1
  /\ pending' = FALSE
  /\ pinned' = FALSE
  /\ bridge' = "coast"
  /\ info' = "none"
  /\ Invalidate
  /\ eng' = "sync"
  /\ UNCHANGED <<dev, chardev, detector, stall, session>>

(* lump_sync succeeds: the DATA session is begun before SYNCED is visible. *)
Sync ==
  /\ eng = "sync"
  /\ dev \in UartDevices
  /\ session < MaxSession
  /\ Begin
  /\ info' = dev
  /\ eng' = "pin"
  /\ UNCHANGED <<dev, chardev, hbridge, detector, pending, wakeup, stall>>

(* stm32_legoport_pwm_pin_supply, for a device that announced the need in  *)
(* its capability flags (it may be gone by now).                           *)
PinSupply ==
  /\ eng = "pin"
  /\ IF info = "sensor" THEN pinned' = TRUE /\ bridge' = "rail"
                        ELSE UNCHANGED hbridge
  /\ stall' = FALSE
  /\ eng' = "data"
  /\ UNCHANGED <<dev, chardev, detector, pending, wakeup, info, queue>>

(* The watchdog (interrupt) finds the DATA loop stuck.                     *)
Watchdog ==
  /\ eng = "data"
  /\ ~stall
  /\ wakeup < MaxWakeups
  /\ stall' = TRUE
  /\ wakeup' = wakeup + 1
  /\ UNCHANGED <<dev, chardev, hbridge, detector, eng, pending, info, queue>>

(* The session ends: synchronisation fails, the session numbers are used   *)
(* up, no DATA arrives, the UART fails or the watchdog fired.              *)
EndSession ==
  /\ eng \in {"sync", "data"}
  /\ eng' = "ended"
  /\ Invalidate
  /\ UNCHANGED <<dev, chardev, hbridge, detector, pending, wakeup, stall,
                 info, session>>

(* Any post of the semaphore ends the DATA loop too: the watchdog's, or a  *)
(* leftover of an earlier session.                                         *)
WakeEndsSession ==
  /\ eng = "data"
  /\ wakeup > 0
  /\ wakeup' = wakeup - 1
  /\ eng' = "ended"
  /\ Invalidate
  /\ UNCHANGED <<dev, chardev, hbridge, detector, pending, stall, info,
                 session>>

(* stm32_legoport_release_uart: the callback is withdrawn, an invocation   *)
(* in flight is waited for, and the detector gets the pins back.           *)
ReleaseUart ==
  /\ eng = "ended"
  /\ cb' = FALSE
  /\ stale' = (stale \/ Inflight)
  /\ IF Inflight THEN eng' = "drain" /\ UNCHANGED dcm
                 ELSE eng' = "error" /\ dcm' = "scan"
  /\ UNCHANGED <<dev, chardev, hbridge, quiet, pending, wakeup, stall, info,
                 queue>>

Drain ==
  /\ eng = "drain"
  /\ quiet > 0
  /\ quiet' = quiet - 1
  /\ IF Inflight THEN UNCHANGED <<eng, dcm>>
                 ELSE eng' = "error" /\ dcm' = "scan"
  /\ UNCHANGED <<dev, chardev, hbridge, cb, stale, pending, wakeup, stall,
                 info, queue>>

(* The flags are cleared, on_error has run and the callback is registered  *)
(* again (at boot for the first time).  Nothing can be in flight then.     *)
Register ==
  /\ eng \in {"boot", "error"}
  /\ ~Inflight
  /\ info' = "none"
  /\ cb' = TRUE
  /\ stale' = TRUE
  /\ eng' = IF eng = "boot" THEN "wait" ELSE "backoff"
  /\ UNCHANGED <<dev, chardev, hbridge, dcm, quiet, pending, wakeup, stall,
                 queue>>

IdleForgetsHandoff ==
  /\ eng = "backoff"
  /\ eng' = "wait"
  /\ pending' = FALSE
  /\ UNCHANGED <<dev, chardev, hbridge, detector, wakeup, stall, info,
                 queue>>

(* The pause before the next handoff is accepted is over.                  *)
Idle ==
  /\ eng = "backoff"
  /\ eng' = "wait"
  /\ UNCHANGED <<dev, chardev, hbridge, detector, pending, wakeup, stall,
                 info, queue>>

-----------------------------------------------------------------------------
Detector == Confirm \/ HandoffMark \/ HandoffPost \/ HandoffDone \/ Rescan

Engine ==
  \/ SpuriousWake \/ Reset \/ Sync \/ PinSupply \/ EndSession
  \/ WakeEndsSession \/ ReleaseUart \/ Drain \/ Register \/ Idle

Users ==
  \/ \E d \in UartDevices : Plug(d)
  \/ Unplug \/ Open \/ Close \/ HandleCommand \/ HandleCoast \/ KernelCommand
  \/ Push \/ Pop \/ Watchdog

Next == Users \/ Detector \/ Engine

Spec == Init /\ [][Next]_vars

(* The detector is requeued on every tick and the engine is a thread that  *)
(* no other thread of the port keeps from running.  Neither the end of a   *)
(* DATA session is assumed (a healthy one lasts) nor that of a             *)
(* synchronisation (its header search waits without a limit).              *)
FairSpec ==
  /\ Spec
  /\ WF_vars(Confirm) /\ WF_vars(HandoffMark) /\ WF_vars(HandoffPost)
  /\ WF_vars(HandoffDone) /\ WF_vars(SpuriousWake) /\ WF_vars(Reset)
  /\ WF_vars(PinSupply) /\ WF_vars(ReleaseUart) /\ WF_vars(Drain)
  /\ WF_vars(Register) /\ WF_vars(Idle)

-----------------------------------------------------------------------------
(* Properties.                                                             *)

(* The engine's thread works on the pins as a UART.                        *)
InSession == eng \in {"sync", "pin", "data", "ended"}

(* While the engine runs a session the detector does not scan, so the two  *)
(* never configure the same pins; and when the engine registers its        *)
(* callback no invocation is in flight, so registration never blocks.      *)
PinsExclusive ==
  /\ InSession => dcm \in {"marked", "called", "owned"}
  /\ eng \in {"boot", "error"} => ~Inflight

(* A rail stays at full duty as long as it is pinned, whatever is done     *)
(* through handles and class devices, and a sensor that needs it has it    *)
(* throughout its DATA session.                                            *)
RailHeld ==
  /\ pinned => bridge = "rail"
  /\ eng = "data" /\ info = "sensor" => pinned

(* A synchronised motor can be driven: the rail of the sensor that was     *)
(* plugged in before it is not held against it.                            *)
MotorDrivable == info = "motor" => ~pinned

(* A motor that a handle set in motion is stopped by the close of that     *)
(* handle at the latest: nothing it drove outlives it.                     *)
NoOrphanDrive == bridge = "handle" => open /\ drove

(* Frames are served only while their own session lasts: a reader never    *)
(* gets a frame under the number of another session.                       *)
FramesOfSession ==
  /\ \A i \in 1 .. Len(frames) : frames[i] = session
  /\ ~active => frames = <<>>
  /\ active => info # "none"

(* A DATA session that becomes active has a number no earlier one had, and *)
(* a number is never taken back.                                           *)
SessionsAreNew ==
  [][/\ session' >= session
     /\ active' /\ ~active => session' > session]_vars

(* A handoff that the detector latched is served: the engine starts a      *)
(* session for it.  A lost request would leave the port dead until reboot. *)
OwnedIsServed == (dcm = "owned" /\ eng = "wait") ~> (eng = "sync")

(* Every teardown completes: the engine does not wait for ever for an      *)
(* invocation that has ended.                                              *)
TeardownCompletes == (eng = "ended") ~> (eng = "wait")

(* Strengthening that makes the invariants above inductive: who may be     *)
(* where while a request, a wake-up of the drain or a session is alive.    *)
Handshake ==
  /\ pending => /\ eng \in {"wait", "backoff"}
                /\ dcm \in {"marked", "called", "owned"}
  /\ dcm = "invoke" => eng \in {"wait", "backoff"}
  /\ dcm \in {"marked", "called"} => eng \notin {"boot", "error"}
  /\ Inflight /\ stale => eng = "drain"
  /\ quiet > 0 => eng = "drain" /\ ~Inflight
  /\ cb => eng \notin {"boot", "drain", "error"}

SessionState ==
  /\ eng = "sync" => ~pinned
  /\ info # "none" => eng \in {"pin", "data", "ended", "drain", "error"}
  /\ active => eng \in {"pin", "data"}

IInv ==
  /\ TypeOK
  /\ PinsExclusive
  /\ RailHeld
  /\ MotorDrivable
  /\ NoOrphanDrive
  /\ FramesOfSession
  /\ Handshake
  /\ SessionState

(* What the comments of pin_supply and unpin say: the rail is pinned until *)
(* the session ends.  An engine that waits for its next handoff has no     *)
(* session.                                                                *)
RailEndsWithSession == ~(pinned /\ eng = "wait" /\ ~pending)
=============================================================================
