--------------------------- MODULE MachineProofs ----------------------------
(***************************************************************************)
(* Proofs about six machines of the board, each for every value of its     *)
(* constants: the command ring of the drive base (module DriveDevice), its *)
(* daemon (DriveDaemon), its motion layer (DriveMotion), the line tracer's *)
(* daemon (LineTrace), the battery charger (Charger) and SAVE of the       *)
(* program slot (ProgramStorage).  The machines are instances of their     *)
(* modules over the names below, and a theorem speaks of one of them.      *)
(***************************************************************************)
EXTENDS Integers, SequenceTheorems, FiniteSetTheorems, WellFoundedInduction, TLAPS

CONSTANTS Users, Capacity, Batch, StallLimit, MaxCmd, MaxStop, MaxAttach, User, Preempt,
          MaxPub, MaxTick, MaxLives, MaxResets, Sides, MaxTask, MaxPull, Hasty, DoneWindow,
          SmartHold, MaxCommands, Completions, Verbs, Shells, Tracers, ShellCommands,
          MaxTicks, Buffers, Tasks, MaxVerbs, LapCapacity, NoBuffer, NoTask, Timeout, Pause,
          NSamples, MaxPlugs, Kinds, Programs, Size(_), Id(_), None, Absent

VARIABLES ring, epoch, attached, attaches, pwm, users, daemon, rt, moving, seen, misses,
          cmds, returned, doomed, attachedTo, status, status_seq, state_db, state_active,
          jitter, jitter_reset_pending, pubs, ticks, lives, resets, dm, rt_since, rd, state,
          running, posts, tasks, created, caller, clean, initialised, shimAttached,
          rtThread, rtRun, frozen, rtIdle, pending, todo, stale, out, pulls, wheelPwm, axis,
          command, done, motors, decided, fault, gyro, imu, calm, issued, pc, flags, was,
          params, drive, record, cli, stat, wanted, touched, shellIssued, announced,
          lapDaemon, cap, hint, heap, task, held, lapPlace, crossed, verbs, vbus, plugs,
          exti, prev, mode, iset, bcd, result, count, pause, chg, chargeStatus, led, unsure,
          memory, step, file, tmp, pos, synced, saveResult

-----------------------------------------------------------------------------
(* The command ring and STOP *)

Ring == INSTANCE DriveDevice

Queued == [kind : Ring!Kinds, epoch : Nat, id : Nat]

(* A nonempty set of positions has a first one.                             *)
LEMMA FirstPosition ==
  ASSUME NEW T, T \subseteq Nat, T # {}
  PROVE  \E i \in T : \A j \in T : i <= j
PROOF
  <1> DEFINE R == OpToRel(<, Nat)
  <1>1. IsWellFoundedOn(R, Nat)
    BY NatLessThanWellFounded
  <1>2. \A x, y \in Nat : x < y => <<x, y>> \in R
    BY DEF OpToRel
  <1> HIDE DEF R
  <1>3. PICK i \in T : \A j \in T : ~(<<j, i>> \in R)
    BY <1>1, WFMin
  <1>4. \A j \in T : ~(j < i)
    BY <1>2, <1>3
  <1>5. QED
    BY <1>4

(* Making room for a STOP keeps a sequence and drops at most one envelope.  *)
LEMMA RoomMade ==
  ASSUME NEW s \in Seq(Queued)
  PROVE  /\ Ring!MakeRoom(s) \in Seq(Queued)
         /\ Len(Ring!MakeRoom(s)) = IF Len(s) = Capacity /\ \E i \in DOMAIN s : ~Ring!IsStop(s[i])
                               THEN Len(s) - 1 ELSE Len(s)
PROOF
  <1> DEFINE droppable == {i \in DOMAIN s : ~Ring!IsStop(s[i])}
             i0 == CHOOSE i \in droppable : \A j \in droppable : i <= j
  <1>1. droppable # {} <=> \E i \in DOMAIN s : ~Ring!IsStop(s[i])
    OBVIOUS
  <1>2. CASE Len(s) = Capacity /\ droppable # {}
    <2>1. droppable \subseteq Nat
      OBVIOUS
    <2>2. i0 \in droppable
      <3> HIDE DEF droppable
      <3>1. QED
        BY <1>2, <2>1, FirstPosition
    <2>3. i0 \in 1 .. Len(s)
      BY <2>2
    <2>4. Ring!MakeRoom(s) = SubSeq(s, 1, i0 - 1) \o SubSeq(s, i0 + 1, Len(s))
      BY <1>2 DEF Ring!MakeRoom, Ring!RemoveAt
    <2> HIDE DEF i0, droppable
    <2>5. \A i \in 1 .. Len(s) : s[i] \in Queued
      BY ElementOfSeq
    <2>6. /\ SubSeq(s, 1, i0 - 1) \in Seq(Queued)
          /\ Len(SubSeq(s, 1, i0 - 1)) = i0 - 1
      BY <2>3, <2>5, SubSeqProperties
    <2>7. /\ SubSeq(s, i0 + 1, Len(s)) \in Seq(Queued)
          /\ Len(SubSeq(s, i0 + 1, Len(s))) = Len(s) - i0
      BY <2>3, <2>5, SubSeqProperties
    <2>8. QED
      BY <1>1, <1>2, <2>3, <2>4, <2>6, <2>7, ConcatProperties, SMTT(40)
  <1>3. CASE ~(Len(s) = Capacity /\ droppable # {})
    BY <1>1, <1>3 DEF Ring!MakeRoom
  <1>4. QED
    BY <1>2, <1>3

(* A pushed STOP is the last envelope, and the ring does not grow past its  *)
(* capacity.                                                                *)
LEMMA StopPushed ==
  ASSUME Ring!RingAssumption, NEW s \in Seq(Queued), NEW e \in Queued, Ring!IsStop(e)
  PROVE  /\ Ring!PushStop(s, e) \in Seq(Queued)
         /\ Len(Ring!PushStop(s, e)) > 0 /\ Ring!PushStop(s, e)[Len(Ring!PushStop(s, e))] = e
         /\ Len(s) <= Capacity => Len(Ring!PushStop(s, e)) <= Capacity
PROOF
  <1>1. CASE s # <<>> /\ Ring!IsStop(Ring!Last(s))
    <2>1. Ring!PushStop(s, e) = [s EXCEPT ![Len(s)] = e] /\ Len(s) \in DOMAIN s
      BY <1>1 DEF Ring!PushStop
    <2>2. QED
      BY <2>1, ExceptSeq
  <1>2. CASE ~(s # <<>> /\ Ring!IsStop(Ring!Last(s)))
    <2>1. Ring!PushStop(s, e) = Append(Ring!MakeRoom(s), e)
      BY <1>2 DEF Ring!PushStop
    <2>2. /\ Ring!PushStop(s, e) \in Seq(Queued) /\ Len(Ring!PushStop(s, e)) = Len(Ring!MakeRoom(s)) + 1
          /\ Ring!PushStop(s, e)[Len(Ring!PushStop(s, e))] = e
      BY <2>1, RoomMade, AppendProperties
    <2>3. Len(s) <= Capacity => Len(Ring!MakeRoom(s)) < Capacity
      <3>1. CASE Len(s) = Capacity
        <4>1. Len(s) \in DOMAIN s /\ ~Ring!IsStop(s[Len(s)])
          BY <1>2, <3>1 DEF Ring!RingAssumption, Ring!Last
        <4>2. QED
          BY <3>1, <4>1, RoomMade
      <3>2. CASE Len(s) # Capacity
        BY <3>2, RoomMade DEF Ring!RingAssumption
      <3>3. QED
        BY <3>1, <3>2
    <2>4. QED
      BY <2>2, <2>3, RoomMade DEF Ring!RingAssumption
  <1>3. QED
    BY <1>1, <1>2

Calls == [at : {"idle", "push", "actuate", "pushstop"}, epoch : Nat, id : Nat, before : SUBSET Nat]

(* Types, and the ring's bound.                                             *)
RingTyped ==
  /\ ring \in Seq(Queued) /\ Len(ring) <= Capacity
  /\ epoch \in Nat /\ cmds \in Nat
  /\ users \in [Users -> Calls]
  /\ rt \in [at : {"rest", "drain", "update", "gone"}, taken : Nat]

(* Numbers of commands are given out once: a call that has not pushed its   *)
(* command holds one that no call returned and no STOP can have ended.      *)
NumbersFresh ==
  /\ returned \subseteq 1 .. cmds /\ doomed \subseteq returned
  /\ \A u \in Users : users[u].id <= cmds /\ users[u].before \subseteq returned
  /\ \A u \in Users : users[u].at = "push" => users[u].id \notin returned
  /\ \A u, w \in Users : u # w /\ users[u].at = "push" /\ users[w].at = "push"
                         /\ users[u].id = users[w].id => users[u].id = Ring!Other

(* A detached daemon goes on with its tick: what it shows meanwhile has a   *)
(* STOP waiting for the next attach.                                        *)
OutputEnds == pwm \in doomed /\ (rt.at = "rest" \/ ~attached) => Ring!HasStop(ring)

RingInv == RingTyped /\ NumbersFresh /\ Ring!StopBehindDoomed /\ Ring!StopEndsMotion /\ OutputEnds

(* The ring is empty and nothing is numbered yet when the driver comes up. *)
LEMMA RingInit == ASSUME Ring!RingAssumption, Ring!Init PROVE RingInv
PROOF
  <1>1. ring = <<>> /\ ring \in Seq(Queued) /\ Len(ring) = 0 /\ DOMAIN ring = {}
    BY DEF Ring!Init
  <1>2. RingTyped
    BY <1>1 DEF Ring!Init, RingTyped, Ring!RingAssumption, Calls, Ring!Idle, Ring!Resting
  <1>3. NumbersFresh
    BY DEF Ring!Init, NumbersFresh, Ring!Idle
  <1>4. QED
    BY <1>1, <1>2, <1>3 DEF Ring!Init, RingInv, Ring!StopBehindDoomed, Ring!StopEndsMotion, OutputEnds

(* A STOP that is pushed stands behind everything in the ring.              *)
LEMMA StopBehindAll ==
  ASSUME NEW s \in Seq(Queued), NEW D, 0 \notin D, Len(s) > 0, Ring!IsStop(s[Len(s)]), s[Len(s)].id = 0
  PROVE  /\ Ring!HasStop(s)
         /\ \A i \in DOMAIN s : s[i].id \in D => \E j \in DOMAIN s : j > i /\ Ring!IsStop(s[j])
PROOF
  <1>1. Len(s) \in DOMAIN s /\ \A i \in DOMAIN s : i = Len(s) \/ i < Len(s)
    OBVIOUS
  <1>2. QED
    BY <1>1 DEF Ring!HasStop

(* Appending a command keeps every STOP.                                    *)
LEMMA StopKept ==
  ASSUME NEW s \in Seq(Queued), NEW e \in Queued, NEW t, t = Append(s, e)
  PROVE  /\ t \in Seq(Queued) /\ Len(t) = Len(s) + 1
         /\ Ring!HasStop(s) => Ring!HasStop(t)
         /\ \A D : /\ e.id \notin D
                   /\ \A i \in DOMAIN s : s[i].id \in D => \E j \in DOMAIN s : j > i /\ Ring!IsStop(s[j])
                   => \A i \in DOMAIN t : t[i].id \in D => \E j \in DOMAIN t : j > i /\ Ring!IsStop(t[j])
PROOF
  <1>1. /\ t \in Seq(Queued) /\ Len(t) = Len(s) + 1
        /\ \A i \in DOMAIN s : i \in DOMAIN t /\ t[i] = s[i]
        /\ \A i \in DOMAIN t : i \in DOMAIN s \/ (i = Len(t) /\ t[i] = e)
    BY AppendProperties
  <1>2. QED
    BY <1>1 DEF Ring!HasStop

(* Taking the head leaves the others one place further on.                  *)
LEMMA HeadTaken ==
  ASSUME NEW s \in Seq(Queued), s # <<>>
  PROVE  /\ Tail(s) \in Seq(Queued) /\ Len(Tail(s)) = Len(s) - 1
         /\ Ring!HasStop(s) /\ ~Ring!IsStop(Head(s)) => Ring!HasStop(Tail(s))
         /\ \A D : (\A i \in DOMAIN s : s[i].id \in D => \E j \in DOMAIN s : j > i /\ Ring!IsStop(s[j]))
                   => /\ \A i \in DOMAIN Tail(s) : Tail(s)[i].id \in D =>
                           \E j \in DOMAIN Tail(s) : j > i /\ Ring!IsStop(Tail(s)[j])
                      /\ Head(s).id \in D => Ring!HasStop(Tail(s))
PROOF
  <1>1. /\ Tail(s) \in Seq(Queued) /\ Len(Tail(s)) = Len(s) - 1 /\ Head(s) = s[1] /\ 1 \in DOMAIN s
        /\ \A i \in DOMAIN Tail(s) : i \in Nat /\ i + 1 \in DOMAIN s /\ Tail(s)[i] = s[i + 1]
        /\ \A i \in DOMAIN s : i = 1 \/ (i > 1 /\ i - 1 \in DOMAIN Tail(s) /\ Tail(s)[i - 1] = s[i])
    BY HeadTailProperties
  <1>2. Ring!HasStop(s) /\ ~Ring!IsStop(Head(s)) => Ring!HasStop(Tail(s))
    BY <1>1 DEF Ring!HasStop
  <1>3. ASSUME NEW D, \A i \in DOMAIN s : s[i].id \in D => \E j \in DOMAIN s : j > i /\ Ring!IsStop(s[j])
        PROVE  /\ \A i \in DOMAIN Tail(s) : Tail(s)[i].id \in D =>
                    \E j \in DOMAIN Tail(s) : j > i /\ Ring!IsStop(Tail(s)[j])
               /\ Head(s).id \in D => Ring!HasStop(Tail(s))
    <2>1. ASSUME NEW i \in DOMAIN Tail(s), Tail(s)[i].id \in D
          PROVE  \E j \in DOMAIN Tail(s) : j > i /\ Ring!IsStop(Tail(s)[j])
      <3>1. PICK j \in DOMAIN s : j > i + 1 /\ Ring!IsStop(s[j])
        BY <1>1, <1>3, <2>1
      <3>2. j \in Nat /\ i \in Nat
        BY <1>1, <2>1
      <3>3. j - 1 \in DOMAIN Tail(s) /\ Tail(s)[j - 1] = s[j] /\ j - 1 > i
        BY <1>1, <3>1, <3>2
      <3>4. QED
        BY <3>1, <3>3
    <2>2. ASSUME Head(s).id \in D PROVE Ring!HasStop(Tail(s))
      <3>1. PICK j \in DOMAIN s : j > 1 /\ Ring!IsStop(s[j])
        BY <1>1, <1>3, <2>2
      <3>2. QED
        BY <1>1, <3>1 DEF Ring!HasStop
    <2>3. QED
      BY <2>1, <2>2
  <1>4. QED
    BY <1>1, <1>2, <1>3

(* A step that leaves the ring, the numbers and the calls alone.            *)
LEMMA RingAside ==
  ASSUME RingInv, UNCHANGED <<ring, epoch, users, cmds, returned, doomed>>,
         rt' \in [at : {"rest", "drain", "update", "gone"}, taken : Nat],
         moving' \in {0, moving},
         pwm' \in doomed /\ (rt'.at = "rest" \/ ~attached') => Ring!HasStop(ring)
  PROVE  RingInv'
PROOF
  <1>1. 0 \notin doomed
    BY DEF RingInv, NumbersFresh, RingTyped
  <1>2. RingTyped'
    BY DEF RingInv, RingTyped
  <1>3. NumbersFresh'
    BY DEF RingInv, NumbersFresh
  <1>4. QED
    BY <1>1, <1>2, <1>3 DEF RingInv, Ring!StopBehindDoomed, Ring!StopEndsMotion, OutputEnds

(* The calls of the users.                                                  *)
LEMMA RingCalls ==
  ASSUME Ring!RingAssumption, RingInv, NEW u \in Users,
         Ring!DriveCall(u) \/ Ring!StopCall(u) \/ Ring!UserStep(u)
  PROVE  RingInv'
PROOF
  <1> USE DEF RingInv
  <1>1. 0 \notin doomed /\ 0 \notin returned /\ \A w \in Users : users[w] \in Calls
    BY DEF NumbersFresh, RingTyped
  <1>2. CASE Ring!DriveCall(u)
    <2>1. PICK n \in {0, cmds + 1} :
            users' = [users EXCEPT ![u] = [at |-> "push", epoch |-> epoch, id |-> n, before |-> {}]]
      BY <1>2 DEF Ring!DriveCall, Ring!Idle, Ring!Other
    <2>2. UNCHANGED <<Ring!kernel, pwm, Ring!process, Ring!history>> /\ cmds' = cmds + 1
      BY <1>2 DEF Ring!DriveCall
    <2>3. users'[u] = [at |-> "push", epoch |-> epoch, id |-> n, before |-> {}]
          /\ \A w \in Users \ {u} : users'[w] = users[w]
      BY <2>1 DEF RingTyped
    <2>4. RingTyped'
      BY <2>1, <2>2 DEF RingTyped, Calls, Ring!kernel, Ring!process
    <2>5. NumbersFresh'
      <3>1. cmds \in Nat /\ returned' = returned /\ doomed' = doomed
            /\ \A w \in Users : users[w].id \in Nat
        BY <1>1, <2>2 DEF RingTyped, Ring!history, Calls
      <3>2. returned' \subseteq 1 .. cmds' /\ doomed' \subseteq returned'
        BY <2>2, <3>1 DEF NumbersFresh
      <3>3. \A w \in Users : users'[w].id <= cmds' /\ users'[w].before \subseteq returned'
        BY <2>2, <2>3, <3>1 DEF NumbersFresh
      <3>4. n \notin returned /\ \A w \in Users : users[w].id = n => n = 0
        BY <1>1, <3>1 DEF NumbersFresh
      <3>5. \A w \in Users : users'[w].at = "push" => users'[w].id \notin returned'
        BY <2>3, <3>1, <3>4 DEF NumbersFresh
      <3>6. QED
        BY <2>3, <3>2, <3>3, <3>4, <3>5 DEF NumbersFresh, Ring!Other
    <2>6. QED
      BY <2>2, <2>4, <2>5 DEF Ring!StopBehindDoomed, Ring!StopEndsMotion, OutputEnds, Ring!kernel, Ring!process, Ring!history
  <1>3. CASE Ring!DrivePush(u)
    <2>1. users' = [users EXCEPT ![u] = Ring!Idle] /\ users[u].at = "push"
          /\ UNCHANGED <<epoch, attached, attaches, pwm, Ring!process, cmds, doomed>>
      BY <1>3 DEF Ring!DrivePush
    <2>2. users'[u] = Ring!Idle /\ \A w \in Users \ {u} : users'[w] = users[w]
      BY <2>1 DEF RingTyped
    <2>3. CASE Len(ring) = Capacity
      <3>1. UNCHANGED <<ring, returned>>
        BY <1>3, <2>3 DEF Ring!DrivePush
      <3>2. RingTyped'
        BY <2>1, <3>1 DEF RingTyped, Calls, Ring!Idle, Ring!process
      <3>3. NumbersFresh'
        BY <2>1, <2>2, <3>1 DEF NumbersFresh, RingTyped, Calls, Ring!Idle
      <3>4. QED
        BY <2>1, <3>1, <3>2, <3>3 DEF Ring!StopBehindDoomed, Ring!StopEndsMotion, OutputEnds, Ring!process
    <2>4. CASE Len(ring) # Capacity
      <3> DEFINE e == [kind |-> "cmd", epoch |-> users[u].epoch, id |-> users[u].id]
      <3>1. ring' = Append(ring, e) /\ returned' = returned \cup ({users[u].id} \ {Ring!Other})
        BY <1>3, <2>4 DEF Ring!DrivePush
      <3>2. e \in Queued /\ e.id \notin doomed
        BY <1>1, <2>1 DEF Queued, Ring!Kinds, Calls, NumbersFresh
      <3> HIDE DEF e
      <3>3. /\ ring' \in Seq(Queued) /\ Len(ring') = Len(ring) + 1 /\ (Ring!HasStop(ring) => Ring!HasStop(ring'))
            /\ \A i \in DOMAIN ring' : ring'[i].id \in doomed => \E j \in DOMAIN ring' : j > i /\ Ring!IsStop(ring'[j])
        <4>1. ring \in Seq(Queued)
              /\ \A i \in DOMAIN ring : ring[i].id \in doomed => \E j \in DOMAIN ring : j > i /\ Ring!IsStop(ring[j])
          BY DEF RingTyped, Ring!StopBehindDoomed
        <4>2. QED
          BY <3>1, <3>2, <4>1, StopKept
      <3>4. RingTyped'
        BY <2>1, <2>4, <3>3 DEF RingTyped, Calls, Ring!Idle, Ring!process, Ring!RingAssumption
      <3>5. NumbersFresh'
        <4>1. users[u].id \in 0 .. cmds /\ cmds \in Nat
          BY <1>1 DEF RingTyped, NumbersFresh, Calls
        <4>2. returned' \subseteq 1 .. cmds' /\ doomed' \subseteq returned'
          <5>1. returned \subseteq 1 .. cmds /\ doomed \subseteq returned
            BY DEF NumbersFresh
          <5>2. {users[u].id} \ {Ring!Other} \subseteq 1 .. cmds
            BY <4>1 DEF Ring!Other
          <5>3. QED
            BY <2>1, <3>1, <5>1, <5>2
        <4>3. \A w \in Users : users'[w].id <= cmds' /\ users'[w].before \subseteq returned'
          BY <2>1, <2>2, <3>1, <4>1 DEF NumbersFresh, Ring!Idle
        <4>4. \A w \in Users : users'[w].at = "push" => users'[w].id \notin returned'
          <5>1. ASSUME NEW w \in Users \ {u}, users[w].at = "push" PROVE users[w].id \notin returned'
            BY <2>1, <3>1, <5>1 DEF NumbersFresh
          <5>2. QED
            BY <2>2, <5>1 DEF Ring!Idle
        <4>5. QED
          BY <2>2, <4>2, <4>3, <4>4 DEF NumbersFresh, Ring!Idle
      <3>6. QED
        BY <2>1, <3>3, <3>4, <3>5 DEF Ring!StopBehindDoomed, Ring!StopEndsMotion, OutputEnds, Ring!process
    <2>5. QED
      BY <2>3, <2>4
  <1>4. CASE Ring!StopCall(u)
    <2> DEFINE c == [Ring!Idle EXCEPT !.at = "actuate", !.epoch = epoch + 1, !.before = returned]
    <2>1. users' = [users EXCEPT ![u] = c] /\ epoch' = epoch + 1
          /\ UNCHANGED <<ring, attached, attaches, pwm, Ring!process, cmds, Ring!history>>
      BY <1>4 DEF Ring!StopCall
    <2>2. c.at = "actuate" /\ c.id = 0 /\ c.before = returned
      BY DEF Ring!Idle
    <2>c. ASSUME epoch + 1 \in Nat, returned \in SUBSET Nat PROVE c \in Calls
      <3>1. Ring!Idle \in Calls
        BY DEF Ring!Idle, Calls
      <3>2. QED
        BY <2>c, <3>1 DEF Calls
    <2> HIDE DEF c
    <2>3. users'[u] = c /\ \A w \in Users \ {u} : users'[w] = users[w]
      BY <2>1 DEF RingTyped
    <2>4. returned \in SUBSET Nat
      BY DEF NumbersFresh, RingTyped
    <2>5. RingTyped'
      <3>1. epoch + 1 \in Nat
        BY DEF RingTyped
      <3>2. users'[u] \in Calls
        BY <2>3, <2>4, <2>c, <3>1
      <3>3. users' \in [Users -> Calls]
        BY <2>1, <2>3, <3>2 DEF RingTyped
      <3>4. QED
        BY <2>1, <3>1, <3>3 DEF RingTyped, Ring!process
    <2>6. NumbersFresh'
      BY <2>2, <2>1, <2>3 DEF NumbersFresh, RingTyped, Ring!history
    <2>7. QED
      BY <2>1, <2>5, <2>6 DEF Ring!StopBehindDoomed, Ring!StopEndsMotion, OutputEnds, Ring!process, Ring!history
  <1>5. CASE Ring!StopActuate(u)
    <2>1. users' = [users EXCEPT ![u].at = "pushstop"] /\ pwm' \in {0, pwm}
          /\ UNCHANGED <<Ring!kernel, Ring!process, cmds, Ring!history>>
      BY <1>5 DEF Ring!StopActuate, Ring!EmergencyActuate
    <2>2. users'[u] = [users[u] EXCEPT !.at = "pushstop"] /\ \A w \in Users \ {u} : users'[w] = users[w]
      BY <2>1 DEF RingTyped
    <2>3. RingTyped'
      BY <2>1 DEF RingTyped, Calls, Ring!kernel, Ring!process
    <2>4. users'[u].id = users[u].id /\ users'[u].before = users[u].before /\ users'[u].at = "pushstop"
      BY <1>1, <2>2 DEF Calls
    <2>5. NumbersFresh'
      BY <2>1, <2>2, <2>4 DEF NumbersFresh, Ring!history
    <2>6. QED
      BY <1>1, <2>1, <2>3, <2>5 DEF Ring!StopBehindDoomed, Ring!StopEndsMotion, OutputEnds, Ring!kernel, Ring!process, Ring!history
  <1>6. CASE Ring!StopPush(u)
    <2> DEFINE e == [kind |-> "stop", epoch |-> users[u].epoch, id |-> Ring!Other]
    <2>1. ring' = Ring!PushStop(ring, e) /\ doomed' = doomed \cup users[u].before
          /\ users' = [users EXCEPT ![u] = Ring!Idle]
          /\ UNCHANGED <<epoch, attached, attaches, pwm, Ring!process, cmds, returned>>
      BY <1>6 DEF Ring!StopPush
    <2>2. e \in Queued /\ Ring!IsStop(e) /\ e.id = 0
      BY <1>1 DEF Queued, Ring!Kinds, Calls, Ring!IsStop, Ring!Other
    <2> HIDE DEF e
    <2>3. /\ ring' \in Seq(Queued) /\ Len(ring') <= Capacity
          /\ Len(ring') > 0 /\ ring'[Len(ring')] = e
      BY <2>1, <2>2, StopPushed DEF RingTyped
    <2>4. doomed' \subseteq returned /\ 0 \notin doomed'
      BY <1>1, <2>1 DEF NumbersFresh
    <2>5. Ring!HasStop(ring')
          /\ \A i \in DOMAIN ring' : ring'[i].id \in doomed' => \E j \in DOMAIN ring' : j > i /\ Ring!IsStop(ring'[j])
      BY <2>2, <2>3, <2>4, StopBehindAll
    <2>6. users'[u] = Ring!Idle /\ \A w \in Users \ {u} : users'[w] = users[w]
      BY <2>1 DEF RingTyped
    <2>7. RingTyped'
      BY <2>1, <2>3 DEF RingTyped, Calls, Ring!Idle, Ring!process
    <2>8. NumbersFresh'
      BY <2>1, <2>4, <2>6 DEF NumbersFresh, RingTyped, Ring!Idle
    <2>9. QED
      BY <2>5, <2>7, <2>8 DEF Ring!StopBehindDoomed, Ring!StopEndsMotion, OutputEnds
  <1>7. QED
    BY <1>2, <1>3, <1>4, <1>5, <1>6 DEF Ring!UserStep

(* One envelope is taken and dispatched.                                    *)
LEMMA RingPickUp == ASSUME Ring!RingAssumption, RingInv, Ring!PickUp PROVE RingInv'
PROOF
  <1> USE DEF RingInv
  <1>1. ring' = Tail(ring) /\ ring # <<>> /\ attached /\ rt.at = "drain" /\ rt' = [rt EXCEPT !.taken = @ + 1]
        /\ UNCHANGED <<epoch, attached, attaches, pwm, users, daemon, misses, cmds, Ring!history>>
    BY DEF Ring!PickUp
  <1>2. 0 \notin doomed /\ doomed' = doomed /\ returned' = returned
    BY <1>1 DEF NumbersFresh, RingTyped, Ring!history
  <1>3. /\ ring' \in Seq(Queued) /\ Len(ring') = Len(ring) - 1
        /\ Ring!HasStop(ring) /\ ~Ring!IsStop(Head(ring)) => Ring!HasStop(ring')
        /\ \A i \in DOMAIN ring' : ring'[i].id \in doomed => \E j \in DOMAIN ring' : j > i /\ Ring!IsStop(ring'[j])
        /\ Head(ring).id \in doomed => Ring!HasStop(ring')
    BY <1>1, HeadTaken DEF RingTyped, Ring!StopBehindDoomed
  <1>4. \/ Ring!IsStop(Head(ring)) /\ moving' = 0
        \/ ~Ring!IsStop(Head(ring)) /\ moving' \in {moving, Head(ring).id}
    <2>1. CASE Ring!IsStop(Head(ring))
      BY <2>1 DEF Ring!PickUp, Ring!Dispatch
    <2>2. CASE ~Ring!IsStop(Head(ring))
      BY <2>2 DEF Ring!PickUp, Ring!Dispatch
    <2>3. QED
      BY <2>1, <2>2
  <1>5. Ring!StopEndsMotion'
    BY <1>2, <1>3, <1>4 DEF Ring!StopEndsMotion
  <1>6. RingTyped'
    <2>1. rt' \in [at : {"rest", "drain", "update", "gone"}, taken : Nat]
      BY <1>1 DEF RingTyped
    <2>2. Len(ring') <= Capacity
      <3>1. CASE Capacity \in Int
        BY <1>3, <3>1 DEF RingTyped
      <3>2. QED
        BY <3>1 DEF Ring!RingAssumption
    <2>3. QED
      BY <1>1, <1>3, <2>1, <2>2 DEF RingTyped
  <1>7. NumbersFresh'
    BY <1>1, <1>2 DEF NumbersFresh
  <1>8. OutputEnds'
    BY <1>1 DEF OutputEnds, RingTyped
  <1>9. QED
    BY <1>2, <1>3, <1>5, <1>6, <1>7, <1>8 DEF Ring!StopBehindDoomed

(* Every step of the users, the real-time thread, the daemon and the        *)
(* watchdog.                                                                *)
LEMMA RingStep == ASSUME Ring!RingAssumption, RingInv, [Ring!Next]_(Ring!vars) PROVE RingInv'
PROOF
  <1>1. /\ rt.at \in {"rest", "drain", "update", "gone"} /\ rt.taken \in Nat /\ 0 \notin doomed
        /\ rt \in [at : {"rest", "drain", "update", "gone"}, taken : Nat]
        /\ (moving \in doomed => Ring!HasStop(ring))
        /\ (pwm \in doomed /\ (rt.at = "rest" \/ ~attached) => Ring!HasStop(ring))
    BY DEF RingInv, RingTyped, NumbersFresh, Ring!StopEndsMotion, OutputEnds
  <1>2. ASSUME NEW u \in Users, Ring!DriveCall(u) \/ Ring!StopCall(u) \/ Ring!UserStep(u) PROVE RingInv'
    BY <1>2, RingCalls
  <1>3. CASE Ring!PickUp
    BY <1>3, RingPickUp
  <1> USE DEF Ring!kernel, Ring!process, Ring!history
  <1>4. CASE Ring!TickStart
    BY <1>1, <1>4, RingAside DEF Ring!TickStart
  <1>5. CASE Ring!DrainEnds
    BY <1>1, <1>5, RingAside DEF Ring!DrainEnds
  <1>6. CASE Ring!Update
    <2>1. moving' \in {0, moving} /\ pwm' \in {0, moving'}
          /\ UNCHANGED <<ring, epoch, attached, attaches, users, seen, cmds, returned, doomed>>
      BY <1>6 DEF Ring!Update
    <2>2. rt' \in [at : {"rest", "drain", "update", "gone"}, taken : Nat]
      BY <1>6 DEF Ring!Update, Ring!Resting
    <2>3. QED
      BY <1>1, <2>1, <2>2, RingAside
  <1>7. CASE Ring!Attach
    BY <1>1, <1>7, RingAside DEF Ring!Attach, Ring!Resting
  <1>8. CASE Ring!Stall
    BY <1>1, <1>8, RingAside DEF Ring!Stall
  <1>9. CASE Ring!StopDaemon
    BY <1>1, <1>9, RingAside DEF Ring!StopDaemon
  <1>10. CASE Ring!Teardown
    BY <1>1, <1>10, RingAside DEF Ring!Teardown, Ring!Resting
  <1>11. CASE Ring!Crash
    <2>1. CASE attached
      BY <1>1, <1>11, <2>1, RingAside DEF Ring!Crash, Ring!Detach, Ring!EmergencyActuate, Ring!Resting
    <2>2. CASE ~attached
      BY <1>1, <1>11, <2>2, RingAside DEF Ring!Crash, Ring!Detach, Ring!EmergencyActuate, Ring!Resting
    <2>3. QED
      BY <2>1, <2>2
  <1>12. CASE Ring!Watchdog
    BY <1>1, <1>12, RingAside DEF Ring!Watchdog, Ring!Detach, Ring!EmergencyActuate
  <1>13. CASE UNCHANGED Ring!vars
    BY <1>1, <1>13, RingAside DEF Ring!vars
  <1>14. QED
    BY <1>2, <1>3, <1>4, <1>5, <1>6, <1>7, <1>8, <1>9, <1>10, <1>11, <1>12, <1>13 DEF Ring!Next, Ring!RtStep

(* However many users call, whatever the ring had to drop or merge, and     *)
(* across crashes, detaches and attaches of the daemon: a command that had  *)
(* returned when STOP was called has a STOP behind it in the ring, or the   *)
(* daemon no longer follows it and the bridges no longer show it.           *)
THEOREM StopOvertakes ==
  ASSUME Ring!RingAssumption
  PROVE  Ring!Spec => [](Ring!StopBehindDoomed /\ Ring!StopEndsMotion /\ Ring!StopEndsOutput)
PROOF
  <1>1. Ring!Init => RingInv
    BY RingInit
  <1>2. RingInv /\ [Ring!Next]_(Ring!vars) => RingInv'
    BY RingStep
  <1>3. RingInv => Ring!StopBehindDoomed /\ Ring!StopEndsMotion /\ Ring!StopEndsOutput
    BY DEF RingInv, OutputEnds, Ring!StopEndsOutput
  <1>4. QED
    BY <1>1, <1>2, <1>3, PTL DEF Ring!Spec

(* A STOP finds room in a full ring without making the ring any longer.     *)
THEOREM RingKeepsCapacity ==
  ASSUME Ring!RingAssumption PROVE Ring!Spec => [](Len(ring) <= Capacity)
PROOF
  <1>1. Ring!Init => RingInv
    BY RingInit
  <1>2. RingInv /\ [Ring!Next]_(Ring!vars) => RingInv'
    BY RingStep
  <1>3. RingInv => Len(ring) <= Capacity
    BY DEF RingInv, RingTyped
  <1>4. QED
    BY <1>1, <1>2, <1>3, PTL DEF Ring!Spec

-----------------------------------------------------------------------------
(* The daemon of the drive base *)

Daemon == INSTANCE DriveDaemon WITH
    attached <- shimAttached, pwm <- wheelPwm, rt <- rtThread

Patient == Daemon!DaemonAssumption /\ ~Hasty

(* Some task is at one of these places of daemon_task_main.                *)
TaskAt(places) == \E t \in Daemon!Tasks : tasks[t] \in places

RtPlaces == {"started", "idle", "freeze", "await", "reclaim", "join"}
TaskDriving  == RtPlaces \cup {"down"}
TaskAttached == TaskDriving \cup {"imu", "failchardev"}
TaskHolding  == TaskAttached \cup {"attach", "failmotor"}
TaskBody     == TaskHolding \cup {"motors", "fail", "stopped"}

(* A task that has begun shows in the daemon's state until it is over.     *)
BodyShows == \A t \in Daemon!Tasks : tasks[t] \in TaskBody => state # "stopped"

(* There is at most one task that is not over.                             *)
OneTask ==
  \A t, u \in Daemon!Tasks : tasks[t] \notin Daemon!Over /\ tasks[u] \notin Daemon!Over => t = u

(* What the daemon holds says where its task is.                           *)
HeldByTask ==
  /\ initialised => TaskAt(TaskHolding)
  /\ shimAttached => TaskAt(TaskAttached)
  /\ rtThread # "none" => TaskAt(RtPlaces)
  /\ wheelPwm # {} => TaskAt(TaskDriving)
  /\ pending # {} => TaskAt(TaskDriving)
  /\ frozen => TaskAt({"await", "reclaim"})

(* The motors are open wherever the task may use them.                     *)
TaskHasMotors == \A t \in Daemon!Tasks : tasks[t] \in TaskHolding => initialised

(* The handshake: an answer given since the request means that the RT tick *)
(* is not past its gate, and a frozen one stays before it.                 *)
Handshake ==
  \A t \in Daemon!Tasks :
    /\ tasks[t] \in {"freeze", "await"} => pending # {}
    /\ tasks[t] = "freeze" => ~rtIdle
    /\ tasks[t] = "await" => frozen /\ (rtIdle => rtThread # "use")
    /\ tasks[t] = "reclaim" => frozen /\ rtThread # "use" /\ wheelPwm = {}

DaemonInv ==
  BodyShows /\ OneTask /\ HeldByTask /\ TaskHasMotors /\ Handshake /\ Daemon!PendingIsStill
(* The flags of the daemon and the state it shows.                         *)
FlagsTyped ==
  /\ state \in {"stopped", "init", "running", "teardown"}
  /\ running \in BOOLEAN /\ clean \in BOOLEAN /\ initialised \in BOOLEAN
  /\ shimAttached \in BOOLEAN /\ rtRun \in BOOLEAN
  /\ frozen \in BOOLEAN /\ rtIdle \in BOOLEAN /\ caller \in {"idle", "waiting"}

(* Where its threads are, and what it holds of the motors.                 *)
HoldsTyped ==
  /\ created \in 0 .. MaxTask /\ pulls \in 0 .. MaxPull
  /\ tasks \in [Daemon!Tasks -> Daemon!Places] /\ rtThread \in {"none", "wait", "gate", "use", "gone"}
  /\ pending \subseteq Sides /\ todo \subseteq Sides /\ stale \subseteq Sides
  /\ out \subseteq Sides /\ wheelPwm \subseteq Sides /\ todo \subseteq pending

DaemonTyped == FlagsTyped /\ HoldsTyped

DaemonIInv == DaemonTyped /\ DaemonInv

(* A task that is not over is the only one, before and after its step.     *)
LEMMA TaskMoves ==
  ASSUME tasks \in [Daemon!Tasks -> Daemon!Places], OneTask,
         NEW t \in Daemon!Tasks, tasks[t] \notin Daemon!Over,
         NEW place \in Daemon!Places, Daemon!Goto(t, place)
  PROVE  /\ tasks' \in [Daemon!Tasks -> Daemon!Places] /\ tasks'[t] = place
         /\ \A u \in Daemon!Tasks : u # t => tasks[u] \in Daemon!Over /\ tasks'[u] = tasks[u]
         /\ OneTask'
PROOF
  <1>1. tasks' \in [Daemon!Tasks -> Daemon!Places] /\ tasks'[t] = place
    BY DEF Daemon!Goto
  <1>2. \A u \in Daemon!Tasks : u # t => tasks[u] \in Daemon!Over /\ tasks'[u] = tasks[u]
    BY DEF Daemon!Goto, OneTask
  <1>3. OneTask'
    BY <1>1, <1>2 DEF OneTask
  <1>4. QED
    BY <1>1, <1>2, <1>3

(* Every step of a task keeps the invariant.                               *)
LEMMA TaskStepInv == ASSUME Patient, DaemonIInv, NEW t \in Daemon!Tasks, Daemon!TaskStep(t) PROVE DaemonIInv'
PROOF
  <1> USE DEF DaemonIInv, DaemonInv, DaemonTyped
  <1>1. /\ tasks \in [Daemon!Tasks -> Daemon!Places] /\ OneTask /\ tasks[t] \in Daemon!Places
        /\ MaxTask \in Nat /\ MaxPull \in Nat
    BY DEF FlagsTyped, HoldsTyped, Patient, Daemon!DaemonAssumption
  <1> DEFINE Only == \A u \in Daemon!Tasks : u # t => tasks[u] \in Daemon!Over
             Moved(place) == /\ tasks' \in [Daemon!Tasks -> Daemon!Places] /\ tasks'[t] = place
                             /\ \A u \in Daemon!Tasks : u # t => tasks'[u] \in Daemon!Over
                             /\ OneTask'
  <1>a. ASSUME tasks[t] \notin Daemon!Over PROVE Only
    BY <1>1, <1>a DEF OneTask
  <1>b. ASSUME tasks[t] \notin Daemon!Over, NEW place \in Daemon!Places, Daemon!Goto(t, place)
        PROVE  Moved(place)
    BY <1>1, <1>b, TaskMoves
  <1>c. ASSUME UNCHANGED tasks PROVE tasks' \in [Daemon!Tasks -> Daemon!Places] /\ OneTask'
    BY <1>1, <1>c DEF OneTask
  <1> HIDE DEF Only, Moved
  <1>2. CASE Daemon!Boot(t)
    <2>1. Only /\ Moved("motors")
      BY <1>2, <1>a, <1>b DEF Daemon!Boot, Daemon!Over, Daemon!Places
    <2>2. FlagsTyped'
      BY <1>1, <1>2, <2>1 DEF Daemon!Boot, Daemon!control, Daemon!motor, Daemon!thread, Daemon!handshake, Daemon!ClearRecovery, FlagsTyped
    <2>3. HoldsTyped'
      BY <1>1, <1>2, <2>1 DEF Daemon!Boot, Daemon!control, Daemon!motor, Daemon!thread, Daemon!handshake, Daemon!ClearRecovery, Moved,
        HoldsTyped
    <2>4. BodyShows' /\ TaskHasMotors'
      BY <1>1, <1>2, <2>1 DEF Daemon!Boot, Daemon!control, Daemon!motor, Daemon!thread, Daemon!handshake, Daemon!ClearRecovery, Only, Moved,
        BodyShows, TaskHasMotors, RtPlaces, TaskDriving, TaskAttached, TaskHolding, TaskBody, Daemon!Over
    <2>5. Handshake'
      BY <1>1, <1>2, <2>1 DEF Daemon!Boot, Daemon!control, Daemon!motor, Daemon!thread, Daemon!handshake, Daemon!ClearRecovery, Only, Moved,
        HoldsTyped, Handshake, Daemon!PendingIsStill, Daemon!Over
    <2>6. HeldByTask'
      BY <1>1, <1>2, <2>1 DEF Daemon!Boot, Daemon!control, Daemon!motor, Daemon!thread, Daemon!handshake, Daemon!ClearRecovery, Only, Moved,
        HoldsTyped, HeldByTask, TaskAt, RtPlaces, TaskDriving, TaskAttached, TaskHolding, TaskBody,
        Daemon!Over
    <2>7. Daemon!PendingIsStill'
      BY <1>1, <1>2, <2>1 DEF Daemon!Boot, Daemon!control, Daemon!motor, Daemon!thread, Daemon!handshake, Daemon!ClearRecovery, Only, Moved,
        Handshake, Daemon!PendingIsStill, TaskAt, RtPlaces, TaskDriving, TaskAttached, TaskHolding,
        TaskBody, Daemon!Over
    <2>8. QED
      BY <2>1, <2>2, <2>3, <2>4, <2>5, <2>6, <2>7 DEF Moved
  <1>3. CASE Daemon!MotorInit(t)
    <2>1. CASE Daemon!Goto(t, "fail")
      <3>1. Only /\ Moved("fail")
        BY <1>3, <2>1, <1>a, <1>b DEF Daemon!MotorInit, Daemon!Over, Daemon!Places
      <3>2. FlagsTyped'
        BY <1>1, <1>3, <2>1, <3>1 DEF Daemon!MotorInit, Daemon!control, Daemon!motor, Daemon!thread, Daemon!handshake, Daemon!ClearRecovery,
          FlagsTyped
      <3>3. HoldsTyped'
        BY <1>1, <1>3, <2>1, <3>1 DEF Daemon!MotorInit, Daemon!control, Daemon!motor, Daemon!thread, Daemon!handshake, Daemon!ClearRecovery,
          Moved, HoldsTyped
      <3>4. BodyShows' /\ TaskHasMotors'
        BY <1>1, <1>3, <2>1, <3>1 DEF Daemon!MotorInit, Daemon!Goto, Daemon!control, Daemon!motor, Daemon!thread, Daemon!handshake,
          Daemon!ClearRecovery, Only, Moved, BodyShows, TaskHasMotors, RtPlaces, TaskDriving, TaskAttached,
          TaskHolding, TaskBody, Daemon!Over
      <3>5. Handshake'
        BY <1>1, <1>3, <2>1, <3>1 DEF Daemon!MotorInit, Daemon!Goto, Daemon!control, Daemon!motor, Daemon!thread, Daemon!handshake,
          Daemon!ClearRecovery, Only, Moved, HoldsTyped, Handshake, Daemon!PendingIsStill, Daemon!Over
      <3>6. HeldByTask'
        BY <1>1, <1>3, <2>1, <3>1 DEF Daemon!MotorInit, Daemon!Goto, Daemon!control, Daemon!motor, Daemon!thread, Daemon!handshake,
          Daemon!ClearRecovery, Only, Moved, HoldsTyped, HeldByTask, TaskAt, RtPlaces, TaskDriving,
          TaskAttached, TaskHolding, TaskBody, Daemon!Over
      <3>7. Daemon!PendingIsStill'
        BY <1>1, <1>3, <2>1, <3>1 DEF Daemon!MotorInit, Daemon!Goto, Daemon!control, Daemon!motor, Daemon!thread, Daemon!handshake,
          Daemon!ClearRecovery, Only, Moved, Handshake, Daemon!PendingIsStill, TaskAt, RtPlaces, TaskDriving,
          TaskAttached, TaskHolding, TaskBody, Daemon!Over
      <3>8. QED
        BY <3>1, <3>2, <3>3, <3>4, <3>5, <3>6, <3>7 DEF Moved
    <2>2. CASE Daemon!Goto(t, "attach")
      <3>1. Only /\ Moved("attach")
        BY <1>3, <2>2, <1>a, <1>b DEF Daemon!MotorInit, Daemon!Over, Daemon!Places
      <3>2. FlagsTyped'
        BY <1>1, <1>3, <2>2, <3>1 DEF Daemon!MotorInit, Daemon!control, Daemon!motor, Daemon!thread, Daemon!handshake, Daemon!ClearRecovery,
          FlagsTyped
      <3>3. HoldsTyped'
        BY <1>1, <1>3, <2>2, <3>1 DEF Daemon!MotorInit, Daemon!control, Daemon!motor, Daemon!thread, Daemon!handshake, Daemon!ClearRecovery,
          Moved, HoldsTyped
      <3>4. BodyShows' /\ TaskHasMotors'
        BY <1>1, <1>3, <2>2, <3>1 DEF Daemon!MotorInit, Daemon!Goto, Daemon!control, Daemon!motor, Daemon!thread, Daemon!handshake,
          Daemon!ClearRecovery, Only, Moved, BodyShows, TaskHasMotors, RtPlaces, TaskDriving, TaskAttached,
          TaskHolding, TaskBody, Daemon!Over
      <3>5. Handshake'
        BY <1>1, <1>3, <2>2, <3>1 DEF Daemon!MotorInit, Daemon!Goto, Daemon!control, Daemon!motor, Daemon!thread, Daemon!handshake,
          Daemon!ClearRecovery, Only, Moved, HoldsTyped, Handshake, Daemon!PendingIsStill, Daemon!Over
      <3>6. HeldByTask'
        BY <1>1, <1>3, <2>2, <3>1 DEF Daemon!MotorInit, Daemon!Goto, Daemon!control, Daemon!motor, Daemon!thread, Daemon!handshake,
          Daemon!ClearRecovery, Only, Moved, HoldsTyped, HeldByTask, TaskAt, RtPlaces, TaskDriving,
          TaskAttached, TaskHolding, TaskBody, Daemon!Over
      <3>7. Daemon!PendingIsStill'
        BY <1>1, <1>3, <2>2, <3>1 DEF Daemon!MotorInit, Daemon!Goto, Daemon!control, Daemon!motor, Daemon!thread, Daemon!handshake,
          Daemon!ClearRecovery, Only, Moved, Handshake, Daemon!PendingIsStill, TaskAt, RtPlaces, TaskDriving,
          TaskAttached, TaskHolding, TaskBody, Daemon!Over
      <3>8. QED
        BY <3>1, <3>2, <3>3, <3>4, <3>5, <3>6, <3>7 DEF Moved
    <2>3. QED
      BY <1>3, <2>1, <2>2 DEF Daemon!MotorInit
  <1>4. CASE Daemon!AttachShim(t)
    <2>1. CASE Daemon!Goto(t, "imu")
      <3>1. Only /\ Moved("imu")
        BY <1>4, <2>1, <1>a, <1>b DEF Daemon!AttachShim, Daemon!Over, Daemon!Places
      <3>2. FlagsTyped'
        BY <1>1, <1>4, <2>1, <3>1 DEF Daemon!AttachShim, Daemon!control, Daemon!motor, Daemon!thread, Daemon!handshake, Daemon!ClearRecovery,
          FlagsTyped
      <3>3. HoldsTyped'
        BY <1>1, <1>4, <2>1, <3>1 DEF Daemon!AttachShim, Daemon!control, Daemon!motor, Daemon!thread, Daemon!handshake, Daemon!ClearRecovery,
          Moved, HoldsTyped
      <3>4. BodyShows' /\ TaskHasMotors'
        BY <1>1, <1>4, <2>1, <3>1 DEF Daemon!AttachShim, Daemon!Goto, Daemon!control, Daemon!motor, Daemon!thread, Daemon!handshake,
          Daemon!ClearRecovery, Only, Moved, BodyShows, TaskHasMotors, RtPlaces, TaskDriving, TaskAttached,
          TaskHolding, TaskBody, Daemon!Over
      <3>5. Handshake'
        BY <1>1, <1>4, <2>1, <3>1 DEF Daemon!AttachShim, Daemon!Goto, Daemon!control, Daemon!motor, Daemon!thread, Daemon!handshake,
          Daemon!ClearRecovery, Only, Moved, HoldsTyped, Handshake, Daemon!PendingIsStill, Daemon!Over
      <3>6. HeldByTask'
        BY <1>1, <1>4, <2>1, <3>1 DEF Daemon!AttachShim, Daemon!Goto, Daemon!control, Daemon!motor, Daemon!thread, Daemon!handshake,
          Daemon!ClearRecovery, Only, Moved, HoldsTyped, HeldByTask, TaskAt, RtPlaces, TaskDriving,
          TaskAttached, TaskHolding, TaskBody, Daemon!Over
      <3>7. Daemon!PendingIsStill'
        BY <1>1, <1>4, <2>1, <3>1 DEF Daemon!AttachShim, Daemon!Goto, Daemon!control, Daemon!motor, Daemon!thread, Daemon!handshake,
          Daemon!ClearRecovery, Only, Moved, Handshake, Daemon!PendingIsStill, TaskAt, RtPlaces, TaskDriving,
          TaskAttached, TaskHolding, TaskBody, Daemon!Over
      <3>8. QED
        BY <3>1, <3>2, <3>3, <3>4, <3>5, <3>6, <3>7 DEF Moved
    <2>2. CASE Daemon!Goto(t, "failmotor")
      <3>1. Only /\ Moved("failmotor")
        BY <1>4, <2>2, <1>a, <1>b DEF Daemon!AttachShim, Daemon!Over, Daemon!Places
      <3>2. FlagsTyped'
        BY <1>1, <1>4, <2>2, <3>1 DEF Daemon!AttachShim, Daemon!control, Daemon!motor, Daemon!thread, Daemon!handshake, Daemon!ClearRecovery,
          FlagsTyped
      <3>3. HoldsTyped'
        BY <1>1, <1>4, <2>2, <3>1 DEF Daemon!AttachShim, Daemon!control, Daemon!motor, Daemon!thread, Daemon!handshake, Daemon!ClearRecovery,
          Moved, HoldsTyped
      <3>4. BodyShows' /\ TaskHasMotors'
        BY <1>1, <1>4, <2>2, <3>1 DEF Daemon!AttachShim, Daemon!Goto, Daemon!control, Daemon!motor, Daemon!thread, Daemon!handshake,
          Daemon!ClearRecovery, Only, Moved, BodyShows, TaskHasMotors, RtPlaces, TaskDriving, TaskAttached,
          TaskHolding, TaskBody, Daemon!Over
      <3>5. Handshake'
        BY <1>1, <1>4, <2>2, <3>1 DEF Daemon!AttachShim, Daemon!Goto, Daemon!control, Daemon!motor, Daemon!thread, Daemon!handshake,
          Daemon!ClearRecovery, Only, Moved, HoldsTyped, Handshake, Daemon!PendingIsStill, Daemon!Over
      <3>6. HeldByTask'
        BY <1>1, <1>4, <2>2, <3>1 DEF Daemon!AttachShim, Daemon!Goto, Daemon!control, Daemon!motor, Daemon!thread, Daemon!handshake,
          Daemon!ClearRecovery, Only, Moved, HoldsTyped, HeldByTask, TaskAt, RtPlaces, TaskDriving,
          TaskAttached, TaskHolding, TaskBody, Daemon!Over
      <3>7. Daemon!PendingIsStill'
        BY <1>1, <1>4, <2>2, <3>1 DEF Daemon!AttachShim, Daemon!Goto, Daemon!control, Daemon!motor, Daemon!thread, Daemon!handshake,
          Daemon!ClearRecovery, Only, Moved, Handshake, Daemon!PendingIsStill, TaskAt, RtPlaces, TaskDriving,
          TaskAttached, TaskHolding, TaskBody, Daemon!Over
      <3>8. QED
        BY <3>1, <3>2, <3>3, <3>4, <3>5, <3>6, <3>7 DEF Moved
    <2>3. QED
      BY <1>4, <2>1, <2>2 DEF Daemon!AttachShim
  <1>5. CASE Daemon!StartRt(t)
    <2>1. CASE Daemon!Goto(t, "join")
      <3>1. Only /\ Moved("join")
        BY <1>5, <2>1, <1>a, <1>b DEF Daemon!StartRt, Daemon!Over, Daemon!Places
      <3>2. FlagsTyped'
        BY <1>1, <1>5, <2>1, <3>1 DEF Daemon!StartRt, Daemon!control, Daemon!motor, Daemon!thread, Daemon!handshake, Daemon!ClearRecovery,
          FlagsTyped
      <3>3. HoldsTyped'
        BY <1>1, <1>5, <2>1, <3>1 DEF Daemon!StartRt, Daemon!control, Daemon!motor, Daemon!thread, Daemon!handshake, Daemon!ClearRecovery,
          Moved, HoldsTyped
      <3>4. BodyShows' /\ TaskHasMotors'
        BY <1>1, <1>5, <2>1, <3>1 DEF Daemon!StartRt, Daemon!Goto, Daemon!control, Daemon!motor, Daemon!thread, Daemon!handshake,
          Daemon!ClearRecovery, Only, Moved, BodyShows, TaskHasMotors, RtPlaces, TaskDriving, TaskAttached,
          TaskHolding, TaskBody, Daemon!Over
      <3>5. Handshake'
        BY <1>1, <1>5, <2>1, <3>1 DEF Daemon!StartRt, Daemon!Goto, Daemon!control, Daemon!motor, Daemon!thread, Daemon!handshake,
          Daemon!ClearRecovery, Only, Moved, HoldsTyped, Handshake, Daemon!PendingIsStill, Daemon!Over
      <3>6. HeldByTask'
        BY <1>1, <1>5, <2>1, <3>1 DEF Daemon!StartRt, Daemon!Goto, Daemon!control, Daemon!motor, Daemon!thread, Daemon!handshake,
          Daemon!ClearRecovery, Only, Moved, HoldsTyped, HeldByTask, TaskAt, RtPlaces, TaskDriving,
          TaskAttached, TaskHolding, TaskBody, Daemon!Over
      <3>7. Daemon!PendingIsStill'
        BY <1>1, <1>5, <2>1, <3>1 DEF Daemon!StartRt, Daemon!Goto, Daemon!control, Daemon!motor, Daemon!thread, Daemon!handshake,
          Daemon!ClearRecovery, Only, Moved, Handshake, Daemon!PendingIsStill, TaskAt, RtPlaces, TaskDriving,
          TaskAttached, TaskHolding, TaskBody, Daemon!Over
      <3>8. QED
        BY <3>1, <3>2, <3>3, <3>4, <3>5, <3>6, <3>7 DEF Moved
    <2>2. CASE Daemon!Goto(t, "started")
      <3>1. Only /\ Moved("started")
        BY <1>5, <2>2, <1>a, <1>b DEF Daemon!StartRt, Daemon!Over, Daemon!Places
      <3>2. FlagsTyped'
        BY <1>1, <1>5, <2>2, <3>1 DEF Daemon!StartRt, Daemon!control, Daemon!motor, Daemon!thread, Daemon!handshake, Daemon!ClearRecovery,
          FlagsTyped
      <3>3. HoldsTyped'
        BY <1>1, <1>5, <2>2, <3>1 DEF Daemon!StartRt, Daemon!control, Daemon!motor, Daemon!thread, Daemon!handshake, Daemon!ClearRecovery,
          Moved, HoldsTyped
      <3>4. BodyShows' /\ TaskHasMotors'
        BY <1>1, <1>5, <2>2, <3>1 DEF Daemon!StartRt, Daemon!Goto, Daemon!control, Daemon!motor, Daemon!thread, Daemon!handshake,
          Daemon!ClearRecovery, Only, Moved, BodyShows, TaskHasMotors, RtPlaces, TaskDriving, TaskAttached,
          TaskHolding, TaskBody, Daemon!Over
      <3>5. Handshake'
        BY <1>1, <1>5, <2>2, <3>1 DEF Daemon!StartRt, Daemon!Goto, Daemon!control, Daemon!motor, Daemon!thread, Daemon!handshake,
          Daemon!ClearRecovery, Only, Moved, HoldsTyped, Handshake, Daemon!PendingIsStill, Daemon!Over
      <3>6. HeldByTask'
        BY <1>1, <1>5, <2>2, <3>1 DEF Daemon!StartRt, Daemon!Goto, Daemon!control, Daemon!motor, Daemon!thread, Daemon!handshake,
          Daemon!ClearRecovery, Only, Moved, HoldsTyped, HeldByTask, TaskAt, RtPlaces, TaskDriving,
          TaskAttached, TaskHolding, TaskBody, Daemon!Over
      <3>7. Daemon!PendingIsStill'
        BY <1>1, <1>5, <2>2, <3>1 DEF Daemon!StartRt, Daemon!Goto, Daemon!control, Daemon!motor, Daemon!thread, Daemon!handshake,
          Daemon!ClearRecovery, Only, Moved, Handshake, Daemon!PendingIsStill, TaskAt, RtPlaces, TaskDriving,
          TaskAttached, TaskHolding, TaskBody, Daemon!Over
      <3>8. QED
        BY <3>1, <3>2, <3>3, <3>4, <3>5, <3>6, <3>7 DEF Moved
    <2>3. CASE Daemon!Goto(t, "failchardev")
      <3>1. Only /\ Moved("failchardev")
        BY <1>5, <2>3, <1>a, <1>b DEF Daemon!StartRt, Daemon!Over, Daemon!Places
      <3>2. FlagsTyped'
        BY <1>1, <1>5, <2>3, <3>1 DEF Daemon!StartRt, Daemon!control, Daemon!motor, Daemon!thread, Daemon!handshake, Daemon!ClearRecovery,
          FlagsTyped
      <3>3. HoldsTyped'
        BY <1>1, <1>5, <2>3, <3>1 DEF Daemon!StartRt, Daemon!control, Daemon!motor, Daemon!thread, Daemon!handshake, Daemon!ClearRecovery,
          Moved, HoldsTyped
      <3>4. BodyShows' /\ TaskHasMotors'
        BY <1>1, <1>5, <2>3, <3>1 DEF Daemon!StartRt, Daemon!Goto, Daemon!control, Daemon!motor, Daemon!thread, Daemon!handshake,
          Daemon!ClearRecovery, Only, Moved, BodyShows, TaskHasMotors, RtPlaces, TaskDriving, TaskAttached,
          TaskHolding, TaskBody, Daemon!Over
      <3>5. Handshake'
        BY <1>1, <1>5, <2>3, <3>1 DEF Daemon!StartRt, Daemon!Goto, Daemon!control, Daemon!motor, Daemon!thread, Daemon!handshake,
          Daemon!ClearRecovery, Only, Moved, HoldsTyped, Handshake, Daemon!PendingIsStill, Daemon!Over
      <3>6. HeldByTask'
        BY <1>1, <1>5, <2>3, <3>1 DEF Daemon!StartRt, Daemon!Goto, Daemon!control, Daemon!motor, Daemon!thread, Daemon!handshake,
          Daemon!ClearRecovery, Only, Moved, HoldsTyped, HeldByTask, TaskAt, RtPlaces, TaskDriving,
          TaskAttached, TaskHolding, TaskBody, Daemon!Over
      <3>7. Daemon!PendingIsStill'
        BY <1>1, <1>5, <2>3, <3>1 DEF Daemon!StartRt, Daemon!Goto, Daemon!control, Daemon!motor, Daemon!thread, Daemon!handshake,
          Daemon!ClearRecovery, Only, Moved, Handshake, Daemon!PendingIsStill, TaskAt, RtPlaces, TaskDriving,
          TaskAttached, TaskHolding, TaskBody, Daemon!Over
      <3>8. QED
        BY <3>1, <3>2, <3>3, <3>4, <3>5, <3>6, <3>7 DEF Moved
    <2>4. QED
      BY <1>5, <2>1, <2>2, <2>3 DEF Daemon!StartRt
  <1>6. CASE Daemon!Started(t)
    <2>1. Only /\ Moved("idle")
      BY <1>6, <1>a, <1>b DEF Daemon!Started, Daemon!Over, Daemon!Places
    <2>2. FlagsTyped'
      BY <1>1, <1>6, <2>1 DEF Daemon!Started, Daemon!control, Daemon!motor, Daemon!thread, Daemon!handshake, Daemon!ClearRecovery, FlagsTyped
    <2>3. HoldsTyped'
      BY <1>1, <1>6, <2>1 DEF Daemon!Started, Daemon!control, Daemon!motor, Daemon!thread, Daemon!handshake, Daemon!ClearRecovery, Moved,
        HoldsTyped
    <2>4. BodyShows' /\ TaskHasMotors'
      BY <1>1, <1>6, <2>1 DEF Daemon!Started, Daemon!control, Daemon!motor, Daemon!thread, Daemon!handshake, Daemon!ClearRecovery, Only,
        Moved, BodyShows, TaskHasMotors, RtPlaces, TaskDriving, TaskAttached, TaskHolding, TaskBody,
        Daemon!Over
    <2>5. Handshake'
      BY <1>1, <1>6, <2>1 DEF Daemon!Started, Daemon!control, Daemon!motor, Daemon!thread, Daemon!handshake, Daemon!ClearRecovery, Only,
        Moved, HoldsTyped, Handshake, Daemon!PendingIsStill, Daemon!Over
    <2>6. HeldByTask'
      BY <1>1, <1>6, <2>1 DEF Daemon!Started, Daemon!control, Daemon!motor, Daemon!thread, Daemon!handshake, Daemon!ClearRecovery, Only,
        Moved, HoldsTyped, HeldByTask, TaskAt, RtPlaces, TaskDriving, TaskAttached, TaskHolding,
        TaskBody, Daemon!Over
    <2>7. Daemon!PendingIsStill'
      BY <1>1, <1>6, <2>1 DEF Daemon!Started, Daemon!control, Daemon!motor, Daemon!thread, Daemon!handshake, Daemon!ClearRecovery, Only,
        Moved, Handshake, Daemon!PendingIsStill, TaskAt, RtPlaces, TaskDriving, TaskAttached, TaskHolding,
        TaskBody, Daemon!Over
    <2>8. QED
      BY <2>1, <2>2, <2>3, <2>4, <2>5, <2>6, <2>7 DEF Moved
  <1>7. CASE Daemon!IdleLoop(t)
    <2>1. CASE Daemon!Goto(t, "join")
      <3>1. Only /\ Moved("join")
        BY <1>7, <2>1, <1>a, <1>b DEF Daemon!IdleLoop, Daemon!Over, Daemon!Places
      <3>2. FlagsTyped'
        BY <1>1, <1>7, <2>1, <3>1 DEF Daemon!IdleLoop, Daemon!control, Daemon!motor, Daemon!thread, Daemon!handshake, Daemon!ClearRecovery,
          FlagsTyped
      <3>3. HoldsTyped'
        BY <1>1, <1>7, <2>1, <3>1 DEF Daemon!IdleLoop, Daemon!control, Daemon!motor, Daemon!thread, Daemon!handshake, Daemon!ClearRecovery,
          Moved, HoldsTyped
      <3>4. BodyShows' /\ TaskHasMotors'
        BY <1>1, <1>7, <2>1, <3>1 DEF Daemon!IdleLoop, Daemon!Goto, Daemon!control, Daemon!motor, Daemon!thread, Daemon!handshake,
          Daemon!ClearRecovery, Only, Moved, BodyShows, TaskHasMotors, RtPlaces, TaskDriving, TaskAttached,
          TaskHolding, TaskBody, Daemon!Over
      <3>5. Handshake'
        BY <1>1, <1>7, <2>1, <3>1 DEF Daemon!IdleLoop, Daemon!Goto, Daemon!control, Daemon!motor, Daemon!thread, Daemon!handshake,
          Daemon!ClearRecovery, Only, Moved, HoldsTyped, Handshake, Daemon!PendingIsStill, Daemon!Over
      <3>6. HeldByTask'
        BY <1>1, <1>7, <2>1, <3>1 DEF Daemon!IdleLoop, Daemon!Goto, Daemon!control, Daemon!motor, Daemon!thread, Daemon!handshake,
          Daemon!ClearRecovery, Only, Moved, HoldsTyped, HeldByTask, TaskAt, RtPlaces, TaskDriving,
          TaskAttached, TaskHolding, TaskBody, Daemon!Over
      <3>7. Daemon!PendingIsStill'
        BY <1>1, <1>7, <2>1, <3>1 DEF Daemon!IdleLoop, Daemon!Goto, Daemon!control, Daemon!motor, Daemon!thread, Daemon!handshake,
          Daemon!ClearRecovery, Only, Moved, Handshake, Daemon!PendingIsStill, TaskAt, RtPlaces, TaskDriving,
          TaskAttached, TaskHolding, TaskBody, Daemon!Over
      <3>8. QED
        BY <3>1, <3>2, <3>3, <3>4, <3>5, <3>6, <3>7 DEF Moved
    <2>2. CASE Daemon!Goto(t, "freeze")
      <3>1. Only /\ Moved("freeze")
        BY <1>7, <2>2, <1>a, <1>b DEF Daemon!IdleLoop, Daemon!Over, Daemon!Places
      <3>2. FlagsTyped'
        BY <1>1, <1>7, <2>2, <3>1 DEF Daemon!IdleLoop, Daemon!control, Daemon!motor, Daemon!thread, Daemon!handshake, Daemon!ClearRecovery,
          FlagsTyped
      <3>3. HoldsTyped'
        BY <1>1, <1>7, <2>2, <3>1 DEF Daemon!IdleLoop, Daemon!control, Daemon!motor, Daemon!thread, Daemon!handshake, Daemon!ClearRecovery,
          Moved, HoldsTyped
      <3>4. BodyShows' /\ TaskHasMotors'
        BY <1>1, <1>7, <2>2, <3>1 DEF Daemon!IdleLoop, Daemon!Goto, Daemon!control, Daemon!motor, Daemon!thread, Daemon!handshake,
          Daemon!ClearRecovery, Only, Moved, BodyShows, TaskHasMotors, RtPlaces, TaskDriving, TaskAttached,
          TaskHolding, TaskBody, Daemon!Over
      <3>5. Handshake'
        BY <1>1, <1>7, <2>2, <3>1 DEF Daemon!IdleLoop, Daemon!Goto, Daemon!control, Daemon!motor, Daemon!thread, Daemon!handshake,
          Daemon!ClearRecovery, Only, Moved, HoldsTyped, Handshake, Daemon!PendingIsStill, Daemon!Over
      <3>6. HeldByTask'
        BY <1>1, <1>7, <2>2, <3>1 DEF Daemon!IdleLoop, Daemon!Goto, Daemon!control, Daemon!motor, Daemon!thread, Daemon!handshake,
          Daemon!ClearRecovery, Only, Moved, HoldsTyped, HeldByTask, TaskAt, RtPlaces, TaskDriving,
          TaskAttached, TaskHolding, TaskBody, Daemon!Over
      <3>7. Daemon!PendingIsStill'
        BY <1>1, <1>7, <2>2, <3>1 DEF Daemon!IdleLoop, Daemon!Goto, Daemon!control, Daemon!motor, Daemon!thread, Daemon!handshake,
          Daemon!ClearRecovery, Only, Moved, Handshake, Daemon!PendingIsStill, TaskAt, RtPlaces, TaskDriving,
          TaskAttached, TaskHolding, TaskBody, Daemon!Over
      <3>8. QED
        BY <3>1, <3>2, <3>3, <3>4, <3>5, <3>6, <3>7 DEF Moved
    <2>3. QED
      BY <1>7, <2>1, <2>2 DEF Daemon!IdleLoop
  <1>8. CASE Daemon!Freeze(t)
    <2>1. Only /\ Moved("await")
      BY <1>8, <1>a, <1>b DEF Daemon!Freeze, Daemon!Over, Daemon!Places
    <2>2. FlagsTyped'
      BY <1>1, <1>8, <2>1 DEF Daemon!Freeze, Daemon!control, Daemon!motor, Daemon!thread, Daemon!handshake, Daemon!ClearRecovery, FlagsTyped
    <2>3. HoldsTyped'
      BY <1>1, <1>8, <2>1 DEF Daemon!Freeze, Daemon!control, Daemon!motor, Daemon!thread, Daemon!handshake, Daemon!ClearRecovery, Moved,
        HoldsTyped
    <2>4. BodyShows' /\ TaskHasMotors'
      BY <1>1, <1>8, <2>1 DEF Daemon!Freeze, Daemon!control, Daemon!motor, Daemon!thread, Daemon!handshake, Daemon!ClearRecovery, Only, Moved,
        BodyShows, TaskHasMotors, RtPlaces, TaskDriving, TaskAttached, TaskHolding, TaskBody, Daemon!Over
    <2>5. Handshake'
      BY <1>1, <1>8, <2>1 DEF Daemon!Freeze, Daemon!control, Daemon!motor, Daemon!thread, Daemon!handshake, Daemon!ClearRecovery, Only, Moved,
        HoldsTyped, Handshake, Daemon!PendingIsStill, Daemon!Over
    <2>6. HeldByTask'
      BY <1>1, <1>8, <2>1 DEF Daemon!Freeze, Daemon!control, Daemon!motor, Daemon!thread, Daemon!handshake, Daemon!ClearRecovery, Only, Moved,
        HoldsTyped, HeldByTask, TaskAt, RtPlaces, TaskDriving, TaskAttached, TaskHolding, TaskBody,
        Daemon!Over
    <2>7. Daemon!PendingIsStill'
      BY <1>1, <1>8, <2>1 DEF Daemon!Freeze, Daemon!control, Daemon!motor, Daemon!thread, Daemon!handshake, Daemon!ClearRecovery, Only, Moved,
        Handshake, Daemon!PendingIsStill, TaskAt, RtPlaces, TaskDriving, TaskAttached, TaskHolding,
        TaskBody, Daemon!Over
    <2>8. QED
      BY <2>1, <2>2, <2>3, <2>4, <2>5, <2>6, <2>7 DEF Moved
  <1>9. CASE Daemon!Acked(t)
    <2>1. Only /\ Moved("reclaim")
      BY <1>9, <1>a, <1>b DEF Daemon!Acked, Daemon!Over, Daemon!Places
    <2>2. FlagsTyped'
      BY <1>1, <1>9, <2>1 DEF Daemon!Acked, Daemon!control, Daemon!motor, Daemon!thread, Daemon!handshake, Daemon!ClearRecovery, FlagsTyped
    <2>3. HoldsTyped'
      BY <1>1, <1>9, <2>1 DEF Daemon!Acked, Daemon!control, Daemon!motor, Daemon!thread, Daemon!handshake, Daemon!ClearRecovery, Moved,
        HoldsTyped
    <2>4. BodyShows' /\ TaskHasMotors'
      BY <1>1, <1>9, <2>1 DEF Daemon!Acked, Daemon!control, Daemon!motor, Daemon!thread, Daemon!handshake, Daemon!ClearRecovery, Only, Moved,
        BodyShows, TaskHasMotors, RtPlaces, TaskDriving, TaskAttached, TaskHolding, TaskBody, Daemon!Over
    <2>5. Handshake'
      BY <1>1, <1>9, <2>1 DEF Daemon!Acked, Daemon!control, Daemon!motor, Daemon!thread, Daemon!handshake, Daemon!ClearRecovery, Only, Moved,
        HoldsTyped, Handshake, Daemon!PendingIsStill, Daemon!Over
    <2>6. HeldByTask'
      BY <1>1, <1>9, <2>1 DEF Daemon!Acked, Daemon!control, Daemon!motor, Daemon!thread, Daemon!handshake, Daemon!ClearRecovery, Only, Moved,
        HoldsTyped, HeldByTask, TaskAt, RtPlaces, TaskDriving, TaskAttached, TaskHolding, TaskBody,
        Daemon!Over
    <2>7. Daemon!PendingIsStill'
      BY <1>1, <1>9, <2>1 DEF Daemon!Acked, Daemon!control, Daemon!motor, Daemon!thread, Daemon!handshake, Daemon!ClearRecovery, Only, Moved,
        Handshake, Daemon!PendingIsStill, TaskAt, RtPlaces, TaskDriving, TaskAttached, TaskHolding,
        TaskBody, Daemon!Over
    <2>8. QED
      BY <2>1, <2>2, <2>3, <2>4, <2>5, <2>6, <2>7 DEF Moved
  <1>10. CASE Daemon!AckTimeout(t)
    <2>1. Only /\ Moved("idle")
      BY <1>10, <1>a, <1>b DEF Daemon!AckTimeout, Daemon!Over, Daemon!Places
    <2>2. DaemonTyped'
      <3>1. FlagsTyped'
        BY <1>1, <1>10, <2>1 DEF Daemon!AckTimeout, Daemon!control, Daemon!motor, Daemon!thread, Daemon!handshake, FlagsTyped
      <3>2. HoldsTyped'
        BY <1>1, <1>10, <2>1 DEF Daemon!AckTimeout, Daemon!control, Daemon!motor, Daemon!thread, Daemon!handshake, Moved, HoldsTyped
      <3>3. QED
        BY <3>1, <3>2
    <2>3. BodyShows'
      BY <1>1, <1>10, <2>1
      DEF Daemon!AckTimeout, Daemon!control, Daemon!motor, Daemon!thread, Daemon!handshake, Only, Moved, BodyShows, TaskAt,
          RtPlaces, TaskDriving, TaskAttached, TaskHolding, TaskBody, Daemon!Over
    <2>4. HeldByTask'
      BY <1>1, <1>10, <2>1
      DEF Daemon!AckTimeout, Daemon!control, Daemon!motor, Daemon!thread, Daemon!handshake, Only, Moved, FlagsTyped, HoldsTyped, HeldByTask, TaskAt,
          RtPlaces, TaskDriving, TaskAttached, TaskHolding, TaskBody, Daemon!Over
    <2>5. TaskHasMotors'
      BY <1>1, <1>10, <2>1
      DEF Daemon!AckTimeout, Daemon!control, Daemon!motor, Daemon!thread, Daemon!handshake, Only, Moved, TaskHasMotors, TaskAt,
          RtPlaces, TaskDriving, TaskAttached, TaskHolding, TaskBody, Daemon!Over
    <2>6. Handshake'
      BY <1>1, <1>10, <2>1
      DEF Daemon!AckTimeout, Daemon!control, Daemon!motor, Daemon!thread, Daemon!handshake, Only, Moved, Handshake, TaskAt,
          RtPlaces, TaskDriving, TaskAttached, TaskHolding, TaskBody, Daemon!Over
    <2>7. Daemon!PendingIsStill'
      BY <1>1, <1>10, <2>1
      DEF Daemon!AckTimeout, Daemon!control, Daemon!motor, Daemon!thread, Daemon!handshake, Only, Moved, Handshake, Daemon!PendingIsStill, TaskAt,
          RtPlaces, TaskDriving, TaskAttached, TaskHolding, TaskBody, Daemon!Over
    <2>8. QED
      BY <2>1, <2>2, <2>3, <2>4, <2>5, <2>6, <2>7 DEF Moved
  <1>11. CASE Daemon!Reclaim(t)
    <2>1. tasks[t] = "reclaim" /\ UNCHANGED tasks
      BY <1>11 DEF Daemon!Reclaim
    <2>2. Only /\ tasks' \in [Daemon!Tasks -> Daemon!Places] /\ OneTask'
      BY <2>1, <1>a, <1>c DEF Daemon!Over
    <2>3. FlagsTyped'
      BY <1>1, <1>11, <2>1, <2>2 DEF Daemon!Reclaim, Daemon!control, Daemon!motor, Daemon!thread, Daemon!handshake, Daemon!ClearRecovery,
        FlagsTyped
    <2>4. HoldsTyped'
      BY <1>1, <1>11, <2>1, <2>2 DEF Daemon!Reclaim, Daemon!control, Daemon!motor, Daemon!thread, Daemon!handshake, Daemon!ClearRecovery,
        Moved, HoldsTyped
    <2>5. BodyShows' /\ TaskHasMotors'
      BY <1>1, <1>11, <2>1, <2>2 DEF Daemon!Reclaim, Daemon!control, Daemon!motor, Daemon!thread, Daemon!handshake, Daemon!ClearRecovery,
        Only, Moved, BodyShows, TaskHasMotors, RtPlaces, TaskDriving, TaskAttached, TaskHolding,
        TaskBody, Daemon!Over
    <2>6. Handshake'
      BY <1>1, <1>11, <2>1, <2>2 DEF Daemon!Reclaim, Daemon!control, Daemon!motor, Daemon!thread, Daemon!handshake, Daemon!ClearRecovery,
        Only, Moved, HoldsTyped, Handshake, Daemon!PendingIsStill, Daemon!Over
    <2>7. HeldByTask'
      BY <1>1, <1>11, <2>1, <2>2 DEF Daemon!Reclaim, Daemon!control, Daemon!motor, Daemon!thread, Daemon!handshake, Daemon!ClearRecovery,
        Only, Moved, HoldsTyped, HeldByTask, TaskAt, RtPlaces, TaskDriving, TaskAttached,
        TaskHolding, TaskBody, Daemon!Over
    <2>8. Daemon!PendingIsStill'
      BY <1>1, <1>11, <2>1, <2>2 DEF Daemon!Reclaim, Daemon!control, Daemon!motor, Daemon!thread, Daemon!handshake, Daemon!ClearRecovery,
        Only, Moved, Handshake, Daemon!PendingIsStill, TaskAt, RtPlaces, TaskDriving, TaskAttached,
        TaskHolding, TaskBody, Daemon!Over
    <2>9. QED
      BY <2>1, <2>2, <2>3, <2>4, <2>5, <2>6, <2>7, <2>8 DEF Moved
  <1>12. CASE Daemon!Thaw(t)
    <2>1. Only /\ Moved("idle")
      BY <1>12, <1>a, <1>b DEF Daemon!Thaw, Daemon!Over, Daemon!Places
    <2>2. DaemonTyped'
      <3>1. FlagsTyped'
        BY <1>1, <1>12, <2>1 DEF Daemon!Thaw, Daemon!control, Daemon!motor, Daemon!thread, Daemon!handshake, FlagsTyped
      <3>2. HoldsTyped'
        BY <1>1, <1>12, <2>1 DEF Daemon!Thaw, Daemon!control, Daemon!motor, Daemon!thread, Daemon!handshake, Moved, HoldsTyped
      <3>3. QED
        BY <3>1, <3>2
    <2>3. BodyShows'
      BY <1>1, <1>12, <2>1
      DEF Daemon!Thaw, Daemon!control, Daemon!motor, Daemon!thread, Daemon!handshake, Only, Moved, BodyShows, TaskAt,
          RtPlaces, TaskDriving, TaskAttached, TaskHolding, TaskBody, Daemon!Over
    <2>4. HeldByTask'
      BY <1>1, <1>12, <2>1
      DEF Daemon!Thaw, Daemon!control, Daemon!motor, Daemon!thread, Daemon!handshake, Only, Moved, FlagsTyped, HoldsTyped, HeldByTask, TaskAt,
          RtPlaces, TaskDriving, TaskAttached, TaskHolding, TaskBody, Daemon!Over
    <2>5. TaskHasMotors'
      BY <1>1, <1>12, <2>1
      DEF Daemon!Thaw, Daemon!control, Daemon!motor, Daemon!thread, Daemon!handshake, Only, Moved, TaskHasMotors, TaskAt,
          RtPlaces, TaskDriving, TaskAttached, TaskHolding, TaskBody, Daemon!Over
    <2>6. Handshake'
      BY <1>1, <1>12, <2>1
      DEF Daemon!Thaw, Daemon!control, Daemon!motor, Daemon!thread, Daemon!handshake, Only, Moved, Handshake, TaskAt,
          RtPlaces, TaskDriving, TaskAttached, TaskHolding, TaskBody, Daemon!Over
    <2>7. Daemon!PendingIsStill'
      BY <1>1, <1>12, <2>1
      DEF Daemon!Thaw, Daemon!control, Daemon!motor, Daemon!thread, Daemon!handshake, Only, Moved, Handshake, Daemon!PendingIsStill, TaskAt,
          RtPlaces, TaskDriving, TaskAttached, TaskHolding, TaskBody, Daemon!Over
    <2>8. QED
      BY <2>1, <2>2, <2>3, <2>4, <2>5, <2>6, <2>7 DEF Moved
  <1>13. CASE Daemon!Join(t)
    <2>1. tasks[t] = "join" /\ Only
      BY <1>13, <1>a DEF Daemon!Join, Daemon!Over
    <2>2. (Daemon!Goto(t, "down") /\ Moved("down")) \/ (UNCHANGED tasks /\ tasks' \in [Daemon!Tasks -> Daemon!Places] /\ OneTask')
      BY <1>13, <2>1, <1>b, <1>c DEF Daemon!Join, Daemon!Over, Daemon!Places
    <2>3. DaemonTyped'
      <3>1. FlagsTyped'
        BY <1>1, <1>13, <2>1, <2>2 DEF Daemon!Join, Daemon!control, Daemon!motor, Daemon!thread, Daemon!handshake, FlagsTyped
      <3>2. HoldsTyped'
        BY <1>1, <1>13, <2>1, <2>2 DEF Daemon!Join, Daemon!control, Daemon!motor, Daemon!thread, Daemon!handshake, Moved, HoldsTyped
      <3>3. QED
        BY <3>1, <3>2
    <2>4. BodyShows'
      BY <1>1, <1>13, <2>1, <2>2
      DEF Daemon!Join, Daemon!control, Daemon!motor, Daemon!thread, Daemon!handshake, Only, Moved, BodyShows, TaskAt,
          RtPlaces, TaskDriving, TaskAttached, TaskHolding, TaskBody, Daemon!Over
    <2>5. HeldByTask'
      BY <1>1, <1>13, <2>1, <2>2
      DEF Daemon!Join, Daemon!control, Daemon!motor, Daemon!thread, Daemon!handshake, Only, Moved, FlagsTyped, HoldsTyped, HeldByTask, TaskAt,
          RtPlaces, TaskDriving, TaskAttached, TaskHolding, TaskBody, Daemon!Over
    <2>6. TaskHasMotors'
      BY <1>1, <1>13, <2>1, <2>2
      DEF Daemon!Join, Daemon!control, Daemon!motor, Daemon!thread, Daemon!handshake, Only, Moved, TaskHasMotors, TaskAt,
          RtPlaces, TaskDriving, TaskAttached, TaskHolding, TaskBody, Daemon!Over
    <2>7. Handshake'
      BY <1>1, <1>13, <2>1, <2>2
      DEF Daemon!Join, Daemon!control, Daemon!motor, Daemon!thread, Daemon!handshake, Only, Moved, Handshake, TaskAt,
          RtPlaces, TaskDriving, TaskAttached, TaskHolding, TaskBody, Daemon!Over
    <2>8. Daemon!PendingIsStill'
      BY <1>1, <1>13, <2>1, <2>2
      DEF Daemon!Join, Daemon!control, Daemon!motor, Daemon!thread, Daemon!handshake, Only, Moved, Handshake, Daemon!PendingIsStill, TaskAt,
          RtPlaces, TaskDriving, TaskAttached, TaskHolding, TaskBody, Daemon!Over
    <2>9. QED
      BY <2>1, <2>2, <2>3, <2>4, <2>5, <2>6, <2>7, <2>8 DEF Moved
  <1>14. CASE Daemon!Down(t)
    <2>1. Only /\ Moved("stopped")
      BY <1>14, <1>a, <1>b DEF Daemon!Down, Daemon!Over, Daemon!Places
    <2>2. FlagsTyped'
      BY <1>1, <1>14, <2>1 DEF Daemon!Down, Daemon!control, Daemon!motor, Daemon!thread, Daemon!handshake, Daemon!ClearRecovery, FlagsTyped
    <2>3. HoldsTyped'
      BY <1>1, <1>14, <2>1 DEF Daemon!Down, Daemon!control, Daemon!motor, Daemon!thread, Daemon!handshake, Daemon!ClearRecovery, Moved,
        HoldsTyped
    <2>4. BodyShows' /\ TaskHasMotors'
      BY <1>1, <1>14, <2>1 DEF Daemon!Down, Daemon!control, Daemon!motor, Daemon!thread, Daemon!handshake, Daemon!ClearRecovery, Only, Moved,
        BodyShows, TaskHasMotors, RtPlaces, TaskDriving, TaskAttached, TaskHolding, TaskBody, Daemon!Over
    <2>5. Handshake'
      BY <1>1, <1>14, <2>1 DEF Daemon!Down, Daemon!control, Daemon!motor, Daemon!thread, Daemon!handshake, Daemon!ClearRecovery, Only, Moved,
        HoldsTyped, Handshake, Daemon!PendingIsStill, Daemon!Over
    <2>6. HeldByTask'
      BY <1>1, <1>14, <2>1 DEF Daemon!Down, Daemon!control, Daemon!motor, Daemon!thread, Daemon!handshake, Daemon!ClearRecovery, Only, Moved,
        HoldsTyped, HeldByTask, TaskAt, RtPlaces, TaskDriving, TaskAttached, TaskHolding, TaskBody,
        Daemon!Over
    <2>7. Daemon!PendingIsStill'
      BY <1>1, <1>14, <2>1 DEF Daemon!Down, Daemon!control, Daemon!motor, Daemon!thread, Daemon!handshake, Daemon!ClearRecovery, Only, Moved,
        Handshake, Daemon!PendingIsStill, TaskAt, RtPlaces, TaskDriving, TaskAttached, TaskHolding,
        TaskBody, Daemon!Over
    <2>8. QED
      BY <2>1, <2>2, <2>3, <2>4, <2>5, <2>6, <2>7 DEF Moved
  <1>15. CASE Daemon!Fail(t)
    <2>1. Only /\ Moved("stopped")
      BY <1>15, <1>a, <1>b DEF Daemon!Fail, Daemon!Over, Daemon!Places
    <2>2. FlagsTyped'
      BY <1>1, <1>15, <2>1 DEF Daemon!Fail, Daemon!control, Daemon!motor, Daemon!thread, Daemon!handshake, Daemon!ClearRecovery, FlagsTyped
    <2>3. HoldsTyped'
      BY <1>1, <1>15, <2>1 DEF Daemon!Fail, Daemon!control, Daemon!motor, Daemon!thread, Daemon!handshake, Daemon!ClearRecovery, Moved,
        HoldsTyped
    <2>4. BodyShows' /\ TaskHasMotors'
      BY <1>1, <1>15, <2>1 DEF Daemon!Fail, Daemon!control, Daemon!motor, Daemon!thread, Daemon!handshake, Daemon!ClearRecovery, Only, Moved,
        BodyShows, TaskHasMotors, RtPlaces, TaskDriving, TaskAttached, TaskHolding, TaskBody, Daemon!Over
    <2>5. Handshake'
      BY <1>1, <1>15, <2>1 DEF Daemon!Fail, Daemon!control, Daemon!motor, Daemon!thread, Daemon!handshake, Daemon!ClearRecovery, Only, Moved,
        HoldsTyped, Handshake, Daemon!PendingIsStill, Daemon!Over
    <2>6. HeldByTask'
      BY <1>1, <1>15, <2>1 DEF Daemon!Fail, Daemon!control, Daemon!motor, Daemon!thread, Daemon!handshake, Daemon!ClearRecovery, Only, Moved,
        HoldsTyped, HeldByTask, TaskAt, RtPlaces, TaskDriving, TaskAttached, TaskHolding, TaskBody,
        Daemon!Over
    <2>7. Daemon!PendingIsStill'
      BY <1>1, <1>15, <2>1 DEF Daemon!Fail, Daemon!control, Daemon!motor, Daemon!thread, Daemon!handshake, Daemon!ClearRecovery, Only, Moved,
        Handshake, Daemon!PendingIsStill, TaskAt, RtPlaces, TaskDriving, TaskAttached, TaskHolding,
        TaskBody, Daemon!Over
    <2>8. QED
      BY <2>1, <2>2, <2>3, <2>4, <2>5, <2>6, <2>7 DEF Moved
  <1>16. CASE Daemon!Stopped(t)
    <2>1. Only /\ Moved("post")
      BY <1>16, <1>a, <1>b DEF Daemon!Stopped, Daemon!Over, Daemon!Places
    <2>2. FlagsTyped'
      BY <1>1, <1>16, <2>1 DEF Daemon!Stopped, Daemon!control, Daemon!motor, Daemon!thread, Daemon!handshake, Daemon!ClearRecovery, FlagsTyped
    <2>3. HoldsTyped'
      BY <1>1, <1>16, <2>1 DEF Daemon!Stopped, Daemon!control, Daemon!motor, Daemon!thread, Daemon!handshake, Daemon!ClearRecovery, Moved,
        HoldsTyped
    <2>4. BodyShows' /\ TaskHasMotors'
      BY <1>1, <1>16, <2>1 DEF Daemon!Stopped, Daemon!control, Daemon!motor, Daemon!thread, Daemon!handshake, Daemon!ClearRecovery, Only,
        Moved, BodyShows, TaskHasMotors, RtPlaces, TaskDriving, TaskAttached, TaskHolding, TaskBody,
        Daemon!Over
    <2>5. Handshake'
      BY <1>1, <1>16, <2>1 DEF Daemon!Stopped, Daemon!control, Daemon!motor, Daemon!thread, Daemon!handshake, Daemon!ClearRecovery, Only,
        Moved, HoldsTyped, Handshake, Daemon!PendingIsStill, Daemon!Over
    <2>6. HeldByTask'
      BY <1>1, <1>16, <2>1 DEF Daemon!Stopped, Daemon!control, Daemon!motor, Daemon!thread, Daemon!handshake, Daemon!ClearRecovery, Only,
        Moved, HoldsTyped, HeldByTask, TaskAt, RtPlaces, TaskDriving, TaskAttached, TaskHolding,
        TaskBody, Daemon!Over
    <2>7. Daemon!PendingIsStill'
      BY <1>1, <1>16, <2>1 DEF Daemon!Stopped, Daemon!control, Daemon!motor, Daemon!thread, Daemon!handshake, Daemon!ClearRecovery, Only,
        Moved, Handshake, Daemon!PendingIsStill, TaskAt, RtPlaces, TaskDriving, TaskAttached, TaskHolding,
        TaskBody, Daemon!Over
    <2>8. QED
      BY <2>1, <2>2, <2>3, <2>4, <2>5, <2>6, <2>7 DEF Moved
  <1>17. CASE Daemon!Post(t)
    <2>1. tasks[t] = "post" /\ Daemon!Goto(t, "done")
      BY <1>17 DEF Daemon!Post
    <2>2. tasks' \in [Daemon!Tasks -> Daemon!Places] /\ tasks'[t] = "done"
          /\ \A u \in Daemon!Tasks : u # t => tasks'[u] = tasks[u]
      BY <1>1, <2>1 DEF Daemon!Goto, Daemon!Places
    <2>3. OneTask'
      BY <1>1, <2>1, <2>2 DEF OneTask, Daemon!Over
    <2>4. \A P : (\E u \in Daemon!Tasks : tasks[u] \in P /\ u # t) => \E u \in Daemon!Tasks : tasks'[u] \in P
      BY <2>2
    <2>5. FlagsTyped'
      BY <1>1, <1>17, <2>1, <2>2, <2>3, <2>4 DEF Daemon!Post, Daemon!control, Daemon!motor, Daemon!thread, Daemon!handshake, FlagsTyped
    <2>6. HoldsTyped'
      BY <1>1, <1>17, <2>1, <2>2, <2>3, <2>4 DEF Daemon!Post, Daemon!control, Daemon!motor, Daemon!thread, Daemon!handshake, Moved,
        HoldsTyped
    <2>7. BodyShows' /\ TaskHasMotors'
      BY <1>1, <1>17, <2>1, <2>2, <2>3, <2>4 DEF Daemon!Post, Daemon!control, Daemon!motor, Daemon!thread, Daemon!handshake, Only,
        Moved, BodyShows, TaskHasMotors, RtPlaces, TaskDriving, TaskAttached, TaskHolding, TaskBody,
        Daemon!Over
    <2>8. Handshake'
      BY <1>1, <1>17, <2>1, <2>2, <2>3, <2>4 DEF Daemon!Post, Daemon!control, Daemon!motor, Daemon!thread, Daemon!handshake, Only,
        Moved, HoldsTyped, Handshake, Daemon!PendingIsStill, Daemon!Over
    <2>9. HeldByTask'
      BY <1>1, <1>17, <2>1, <2>2, <2>3, <2>4 DEF Daemon!Post, Daemon!control, Daemon!motor, Daemon!thread, Daemon!handshake, Only,
        Moved, HoldsTyped, HeldByTask, TaskAt, RtPlaces, TaskDriving, TaskAttached, TaskHolding,
        TaskBody, Daemon!Over
    <2>10. Daemon!PendingIsStill'
      BY <1>1, <1>17, <2>1, <2>2, <2>3, <2>4 DEF Daemon!Post, Daemon!control, Daemon!motor, Daemon!thread, Daemon!handshake, Only,
        Moved, Handshake, Daemon!PendingIsStill, TaskAt, RtPlaces, TaskDriving, TaskAttached, TaskHolding,
        TaskBody, Daemon!Over
    <2>11. QED
      BY <2>1, <2>2, <2>3, <2>4, <2>5, <2>6, <2>7, <2>8, <2>9, <2>10 DEF Moved
  <1>18. QED
    BY <1>2, <1>3, <1>4, <1>5, <1>6, <1>7, <1>8, <1>9, <1>10, <1>11, <1>12, <1>13, <1>14, <1>15, <1>16, <1>17 DEF Daemon!TaskStep

(* A start, a stop, the watchdog and what happens to a motor keep it.      *)
LEMMA OutsideInv ==
  ASSUME Patient, DaemonIInv,
         \/ Daemon!Start \/ Daemon!Stop \/ Daemon!StopReturns \/ Daemon!Watchdog
         \/ \E s \in Sides : Daemon!Pull(s) \/ Daemon!Plug(s)
  PROVE  DaemonIInv'
PROOF
  <1> USE DEF DaemonIInv, DaemonInv, DaemonTyped
  <1>1. /\ tasks \in [Daemon!Tasks -> Daemon!Places] /\ OneTask
        /\ MaxTask \in Nat /\ MaxPull \in Nat /\ ~Hasty
    BY DEF FlagsTyped, HoldsTyped, Patient, Daemon!DaemonAssumption
  <1>2. CASE Daemon!Start
    <2>1. created + 1 \in Daemon!Tasks
      BY <1>1, <1>2 DEF Daemon!Start, FlagsTyped, HoldsTyped, Daemon!Tasks
    <2>2. \A u \in Daemon!Tasks : tasks[u] \in Daemon!Over
      BY <1>1, <1>2
      DEF Daemon!Start, BodyShows, Daemon!Places, TaskBody, TaskHolding, TaskAttached, TaskDriving, RtPlaces, Daemon!Over
    <2>3. tasks' \in [Daemon!Tasks -> Daemon!Places] /\ \A u \in Daemon!Tasks : u # created + 1 => tasks'[u] \in Daemon!Over
      BY <1>1, <1>2, <2>1, <2>2 DEF Daemon!Start, Daemon!Goto, Daemon!Places
    <2>4. tasks'[created + 1] = "boot"
      BY <1>1, <1>2, <2>1 DEF Daemon!Start, Daemon!Goto
    <2>5. OneTask'
      BY <2>3 DEF OneTask
    <2>6. /\ ~initialised /\ ~shimAttached /\ rtThread = "none" /\ wheelPwm = {} /\ pending = {} /\ ~frozen
      BY <2>2 DEF FlagsTyped, HoldsTyped, BodyShows, HeldByTask, TaskHasMotors, Handshake,
        Daemon!PendingIsStill, TaskAt, RtPlaces, TaskDriving, TaskAttached, TaskHolding, TaskBody, Daemon!Over
    <2>7. DaemonTyped'
      <3>1. created' \in 0 .. MaxTask
        BY <1>1, <1>2 DEF Daemon!Start, FlagsTyped, HoldsTyped
      <3>2. QED
        BY <1>2, <2>3, <3>1 DEF Daemon!Start, FlagsTyped, HoldsTyped, Daemon!motor, Daemon!thread, Daemon!handshake
    <2>8. BodyShows' /\ TaskHasMotors' /\ Handshake'
      BY <2>3, <2>4
      DEF BodyShows, TaskHasMotors, Handshake, RtPlaces, TaskDriving, TaskAttached, TaskHolding, TaskBody, Daemon!Over
    <2>9. HeldByTask' /\ Daemon!PendingIsStill'
      BY <1>2, <2>6 DEF Daemon!Start, HeldByTask, Daemon!PendingIsStill, Daemon!motor, Daemon!thread, Daemon!handshake
    <2>10. QED
      BY <2>5, <2>7, <2>8, <2>9
  <1>3. CASE Daemon!Stop
    <2>1. DaemonTyped'
      <3>1. FlagsTyped'
        BY <1>1, <1>3 DEF Daemon!Stop, Daemon!motor, Daemon!thread, Daemon!handshake, FlagsTyped
      <3>2. HoldsTyped'
        BY <1>1, <1>3 DEF Daemon!Stop, Daemon!motor, Daemon!thread, Daemon!handshake, HoldsTyped
      <3>3. QED
        BY <3>1, <3>2
    <2>2. BodyShows'
      BY <1>1, <1>3
      DEF Daemon!Stop, Daemon!motor, Daemon!thread, Daemon!handshake, BodyShows
    <2>3. OneTask'
      BY <1>1, <1>3
      DEF Daemon!Stop, Daemon!motor, Daemon!thread, Daemon!handshake, OneTask
    <2>4. HeldByTask'
      BY <1>1, <1>3
      DEF Daemon!Stop, Daemon!motor, Daemon!thread, Daemon!handshake, HeldByTask, TaskAt
    <2>5. TaskHasMotors'
      BY <1>1, <1>3
      DEF Daemon!Stop, Daemon!motor, Daemon!thread, Daemon!handshake, TaskHasMotors
    <2>6. Handshake'
      BY <1>1, <1>3
      DEF Daemon!Stop, Daemon!motor, Daemon!thread, Daemon!handshake, Handshake
    <2>7. Daemon!PendingIsStill'
      BY <1>1, <1>3
      DEF Daemon!Stop, Daemon!motor, Daemon!thread, Daemon!handshake, Daemon!PendingIsStill
    <2>8. QED
      BY <2>1, <2>2, <2>3, <2>4, <2>5, <2>6, <2>7
  <1>4. CASE Daemon!StopReturns
    <2>1. DaemonTyped'
      <3>1. FlagsTyped'
        BY <1>1, <1>4 DEF Daemon!StopReturns, Daemon!motor, Daemon!thread, Daemon!handshake, FlagsTyped
      <3>2. HoldsTyped'
        BY <1>1, <1>4 DEF Daemon!StopReturns, Daemon!motor, Daemon!thread, Daemon!handshake, HoldsTyped
      <3>3. QED
        BY <3>1, <3>2
    <2>2. BodyShows'
      BY <1>1, <1>4
      DEF Daemon!StopReturns, Daemon!motor, Daemon!thread, Daemon!handshake, BodyShows
    <2>3. OneTask'
      BY <1>1, <1>4
      DEF Daemon!StopReturns, Daemon!motor, Daemon!thread, Daemon!handshake, OneTask
    <2>4. HeldByTask'
      BY <1>1, <1>4
      DEF Daemon!StopReturns, Daemon!motor, Daemon!thread, Daemon!handshake, HeldByTask, TaskAt
    <2>5. TaskHasMotors'
      BY <1>1, <1>4
      DEF Daemon!StopReturns, Daemon!motor, Daemon!thread, Daemon!handshake, TaskHasMotors
    <2>6. Handshake'
      BY <1>1, <1>4
      DEF Daemon!StopReturns, Daemon!motor, Daemon!thread, Daemon!handshake, Handshake
    <2>7. Daemon!PendingIsStill'
      BY <1>1, <1>4
      DEF Daemon!StopReturns, Daemon!motor, Daemon!thread, Daemon!handshake, Daemon!PendingIsStill
    <2>8. QED
      BY <2>1, <2>2, <2>3, <2>4, <2>5, <2>6, <2>7
  <1>5. CASE Daemon!Watchdog
    <2>1. DaemonTyped'
      <3>1. FlagsTyped'
        BY <1>1, <1>5 DEF Daemon!Watchdog, Daemon!control, Daemon!motor, Daemon!thread, Daemon!handshake, FlagsTyped
      <3>2. HoldsTyped'
        BY <1>1, <1>5 DEF Daemon!Watchdog, Daemon!control, Daemon!motor, Daemon!thread, Daemon!handshake, HoldsTyped
      <3>3. QED
        BY <3>1, <3>2
    <2>2. BodyShows'
      BY <1>1, <1>5
      DEF Daemon!Watchdog, Daemon!control, Daemon!motor, Daemon!thread, Daemon!handshake, BodyShows
    <2>3. OneTask'
      BY <1>1, <1>5
      DEF Daemon!Watchdog, Daemon!control, Daemon!motor, Daemon!thread, Daemon!handshake, OneTask
    <2>4. HeldByTask'
      BY <1>1, <1>5
      DEF Daemon!Watchdog, Daemon!control, Daemon!motor, Daemon!thread, Daemon!handshake, HeldByTask, TaskAt
    <2>5. TaskHasMotors'
      BY <1>1, <1>5
      DEF Daemon!Watchdog, Daemon!control, Daemon!motor, Daemon!thread, Daemon!handshake, TaskHasMotors
    <2>6. Handshake'
      BY <1>1, <1>5
      DEF Daemon!Watchdog, Daemon!control, Daemon!motor, Daemon!thread, Daemon!handshake, Handshake
    <2>7. Daemon!PendingIsStill'
      BY <1>1, <1>5
      DEF Daemon!Watchdog, Daemon!control, Daemon!motor, Daemon!thread, Daemon!handshake, Daemon!PendingIsStill
    <2>8. QED
      BY <2>1, <2>2, <2>3, <2>4, <2>5, <2>6, <2>7
  <1>6. ASSUME NEW s \in Sides, Daemon!Pull(s) PROVE DaemonIInv'
    <2>1. DaemonTyped'
      <3>1. FlagsTyped'
        BY <1>1, <1>6 DEF Daemon!Pull, Daemon!control, Daemon!thread, Daemon!handshake, FlagsTyped
      <3>2. HoldsTyped'
        BY <1>1, <1>6 DEF Daemon!Pull, Daemon!control, Daemon!thread, Daemon!handshake, HoldsTyped
      <3>3. QED
        BY <3>1, <3>2
    <2>2. BodyShows'
      BY <1>1, <1>6
      DEF Daemon!Pull, Daemon!control, Daemon!thread, Daemon!handshake, BodyShows
    <2>3. OneTask'
      BY <1>1, <1>6
      DEF Daemon!Pull, Daemon!control, Daemon!thread, Daemon!handshake, OneTask
    <2>4. HeldByTask'
      BY <1>1, <1>6
      DEF Daemon!Pull, Daemon!control, Daemon!thread, Daemon!handshake, HeldByTask, TaskAt
    <2>5. TaskHasMotors'
      BY <1>1, <1>6
      DEF Daemon!Pull, Daemon!control, Daemon!thread, Daemon!handshake, TaskHasMotors
    <2>6. Handshake'
      BY <1>1, <1>6
      DEF Daemon!Pull, Daemon!control, Daemon!thread, Daemon!handshake, Handshake
    <2>7. Daemon!PendingIsStill'
      BY <1>1, <1>6
      DEF Daemon!Pull, Daemon!control, Daemon!thread, Daemon!handshake, Daemon!PendingIsStill
    <2>8. QED
      BY <2>1, <2>2, <2>3, <2>4, <2>5, <2>6, <2>7
  <1>7. ASSUME NEW s \in Sides, Daemon!Plug(s) PROVE DaemonIInv'
    <2>1. DaemonTyped'
      <3>1. FlagsTyped'
        BY <1>1, <1>7 DEF Daemon!Plug, Daemon!control, Daemon!thread, Daemon!handshake, FlagsTyped
      <3>2. HoldsTyped'
        BY <1>1, <1>7 DEF Daemon!Plug, Daemon!control, Daemon!thread, Daemon!handshake, HoldsTyped
      <3>3. QED
        BY <3>1, <3>2
    <2>2. BodyShows'
      BY <1>1, <1>7
      DEF Daemon!Plug, Daemon!control, Daemon!thread, Daemon!handshake, BodyShows
    <2>3. OneTask'
      BY <1>1, <1>7
      DEF Daemon!Plug, Daemon!control, Daemon!thread, Daemon!handshake, OneTask
    <2>4. HeldByTask'
      BY <1>1, <1>7
      DEF Daemon!Plug, Daemon!control, Daemon!thread, Daemon!handshake, HeldByTask, TaskAt
    <2>5. TaskHasMotors'
      BY <1>1, <1>7
      DEF Daemon!Plug, Daemon!control, Daemon!thread, Daemon!handshake, TaskHasMotors
    <2>6. Handshake'
      BY <1>1, <1>7
      DEF Daemon!Plug, Daemon!control, Daemon!thread, Daemon!handshake, Handshake
    <2>7. Daemon!PendingIsStill'
      BY <1>1, <1>7
      DEF Daemon!Plug, Daemon!control, Daemon!thread, Daemon!handshake, Daemon!PendingIsStill
    <2>8. QED
      BY <2>1, <2>2, <2>3, <2>4, <2>5, <2>6, <2>7
  <1>8. QED
    BY <1>2, <1>3, <1>4, <1>5, <1>6, <1>7

(* The RT thread keeps it: it reads the freeze flag and answers at once,   *)
(* and a tick that finds a stale claim coasts both wheels.                 *)
LEMMA RtStepInv == ASSUME Patient, DaemonIInv, Daemon!RtStep PROVE DaemonIInv'
PROOF
  <1> USE DEF DaemonIInv, DaemonInv, DaemonTyped
  <1>1. UNCHANGED tasks
    BY DEF Daemon!RtStep, Daemon!RtWake, Daemon!RtGate, Daemon!RtUse
  <1>2. tasks' \in [Daemon!Tasks -> Daemon!Places] /\ OneTask'
    BY <1>1 DEF FlagsTyped, HoldsTyped, OneTask
  <1>3. rtThread # "none" /\ TaskAt(RtPlaces)
    BY DEF Daemon!RtStep, Daemon!RtWake, Daemon!RtGate, Daemon!RtUse, HeldByTask
  <1>4. CASE Daemon!RtWake
    <2>1. DaemonTyped'
      <3>1. FlagsTyped'
        BY <1>1, <1>2, <1>3, <1>4 DEF Daemon!RtWake, Daemon!control, Daemon!motor, FlagsTyped
      <3>2. HoldsTyped'
        BY <1>1, <1>2, <1>3, <1>4 DEF Daemon!RtWake, Daemon!control, Daemon!motor, HoldsTyped
      <3>3. QED
        BY <3>1, <3>2
    <2>2. BodyShows'
      BY <1>1, <1>2, <1>3, <1>4
      DEF Daemon!RtWake, Daemon!control, Daemon!motor, BodyShows
    <2>3. OneTask'
      BY <1>1, <1>2, <1>3, <1>4
      DEF Daemon!RtWake, Daemon!control, Daemon!motor, OneTask
    <2>4. HeldByTask'
      BY <1>1, <1>2, <1>3, <1>4
      DEF Daemon!RtWake, Daemon!control, Daemon!motor, HeldByTask, TaskAt
    <2>5. TaskHasMotors'
      BY <1>1, <1>2, <1>3, <1>4
      DEF Daemon!RtWake, Daemon!control, Daemon!motor, TaskHasMotors
    <2>6. Handshake'
      <3>1. \A t \in Daemon!Tasks : tasks[t] = "freeze" => ~frozen
        BY DEF HeldByTask, OneTask, TaskAt, Daemon!Over
      <3>2. QED
        BY <1>1, <1>4, <3>1 DEF Daemon!RtWake, FlagsTyped, HoldsTyped, Handshake
    <2>7. Daemon!PendingIsStill'
      BY <1>1, <1>2, <1>3, <1>4
      DEF Daemon!RtWake, Daemon!control, Daemon!motor, Daemon!PendingIsStill
    <2>8. QED
      BY <2>1, <2>2, <2>3, <2>4, <2>5, <2>6, <2>7
  <1>5. CASE Daemon!RtGate
    <2>1. DaemonTyped'
      <3>1. FlagsTyped'
        BY <1>1, <1>2, <1>3, <1>5 DEF Daemon!RtGate, Daemon!control, Daemon!motor, Daemon!handshake, FlagsTyped
      <3>2. HoldsTyped'
        BY <1>1, <1>2, <1>3, <1>5 DEF Daemon!RtGate, Daemon!control, Daemon!motor, Daemon!handshake, HoldsTyped
      <3>3. QED
        BY <3>1, <3>2
    <2>2. BodyShows'
      BY <1>1, <1>2, <1>3, <1>5
      DEF Daemon!RtGate, Daemon!control, Daemon!motor, Daemon!handshake, BodyShows
    <2>3. OneTask'
      BY <1>1, <1>2, <1>3, <1>5
      DEF Daemon!RtGate, Daemon!control, Daemon!motor, Daemon!handshake, OneTask
    <2>4. HeldByTask'
      BY <1>1, <1>2, <1>3, <1>5
      DEF Daemon!RtGate, Daemon!control, Daemon!motor, Daemon!handshake, HeldByTask, TaskAt
    <2>5. TaskHasMotors'
      BY <1>1, <1>2, <1>3, <1>5
      DEF Daemon!RtGate, Daemon!control, Daemon!motor, Daemon!handshake, TaskHasMotors
    <2>6. Handshake'
      BY <1>1, <1>2, <1>3, <1>5
      DEF Daemon!RtGate, Daemon!control, Daemon!motor, Daemon!handshake, Handshake
    <2>7. Daemon!PendingIsStill'
      BY <1>1, <1>2, <1>3, <1>5
      DEF Daemon!RtGate, Daemon!control, Daemon!motor, Daemon!handshake, Daemon!PendingIsStill
    <2>8. QED
      BY <2>1, <2>2, <2>3, <2>4, <2>5, <2>6, <2>7
  <1>6. CASE Daemon!RtUse
    <2>1. PICK duty \in SUBSET Sides, stalled \in BOOLEAN :
            /\ wheelPwm' = IF pending' # {} \/ stalled THEN {} ELSE duty
            /\ running' = (running /\ ~stalled)
      BY <1>6 DEF Daemon!RtUse
    <2>2. Daemon!PendingIsStill' /\ wheelPwm' \subseteq Sides /\ running' \in BOOLEAN
      BY <2>1 DEF Daemon!PendingIsStill
    <2>3. TaskAt(RtPlaces)'
      BY <1>1, <1>3 DEF TaskAt
    <2>4. TaskAt(TaskDriving)'
      BY <2>3 DEF TaskAt, TaskDriving
    <2>5. DaemonTyped'
      <3>1. FlagsTyped'
        BY <1>2, <1>6, <2>2 DEF Daemon!RtUse, Daemon!motor, FlagsTyped
      <3>2. HoldsTyped'
        BY <1>2, <1>6, <2>2 DEF Daemon!RtUse, Daemon!motor, HoldsTyped
      <3>3. QED
        BY <3>1, <3>2
    <2>6. BodyShows' /\ TaskHasMotors' /\ Handshake'
      BY <1>1, <1>6
      DEF Daemon!RtUse, Daemon!motor, BodyShows, TaskHasMotors, Handshake
    <2>7. HeldByTask'
      BY <1>1, <1>6, <2>3, <2>4 DEF Daemon!RtUse, Daemon!motor, HeldByTask, TaskAt
    <2>8. QED
      BY <1>2, <2>2, <2>5, <2>6, <2>7
  <1>7. QED
    BY <1>4, <1>5, <1>6 DEF Daemon!RtStep

(* The invariant of the daemon.                                            *)
THEOREM DaemonInvariant == ASSUME Patient PROVE Daemon!Spec => []DaemonIInv
PROOF
  <1>1. Daemon!Init => DaemonIInv
    <2> SUFFICES ASSUME Daemon!Init PROVE DaemonIInv
      OBVIOUS
    <2>1. MaxTask \in Nat /\ MaxPull \in Nat
      BY DEF Patient, Daemon!DaemonAssumption
    <2>2. DaemonTyped
      <3>1. tasks \in [Daemon!Tasks -> Daemon!Places] /\ rtThread \in {"none", "wait", "gate", "use", "gone"}
        BY DEF Daemon!Init, Daemon!Places
      <3>2. created \in 0 .. MaxTask /\ pulls \in 0 .. MaxPull
        BY <2>1 DEF Daemon!Init
      <3>3. /\ running \in BOOLEAN /\ clean \in BOOLEAN /\ initialised \in BOOLEAN
            /\ shimAttached \in BOOLEAN /\ rtRun \in BOOLEAN
            /\ frozen \in BOOLEAN /\ rtIdle \in BOOLEAN
        BY DEF Daemon!Init
      <3>4. QED
        BY <3>1, <3>2, <3>3 DEF Daemon!Init, DaemonTyped, FlagsTyped, HoldsTyped
    <2>3. \A t \in Daemon!Tasks : tasks[t] = "none"
      BY DEF Daemon!Init
    <2>4. DaemonInv
      BY <2>3
      DEF Daemon!Init, DaemonInv, OneTask, DaemonTyped, FlagsTyped, HoldsTyped, BodyShows, HeldByTask, TaskHasMotors, Handshake,
        Daemon!PendingIsStill, TaskAt, RtPlaces, TaskDriving, TaskAttached, TaskHolding, TaskBody, Daemon!Over
    <2>5. QED
      BY <2>2, <2>4 DEF DaemonIInv
  <1>2. DaemonIInv /\ [Daemon!Next]_(Daemon!vars) => DaemonIInv'
    <2> SUFFICES ASSUME DaemonIInv, [Daemon!Next]_(Daemon!vars) PROVE DaemonIInv'
      OBVIOUS
    <2>1. CASE UNCHANGED Daemon!vars
      BY <2>1
      DEF Daemon!vars, Daemon!control, Daemon!motor, Daemon!thread, Daemon!handshake, DaemonIInv, DaemonInv, OneTask, DaemonTyped, FlagsTyped, HoldsTyped,
          BodyShows, HeldByTask, TaskHasMotors, Handshake, Daemon!PendingIsStill, TaskAt
    <2>2. QED
      BY <2>1, TaskStepInv, OutsideInv, RtStepInv DEF Daemon!Next
  <1>3. QED
    BY <1>1, <1>2, PTL DEF Daemon!Spec

(* Whatever the interleaving of freezes, answers, timeouts and stops, the  *)
(* idle loop reclaims a port only while the RT tick is not using it.       *)
THEOREM ReclaimExcludesTick == ASSUME Patient PROVE Daemon!Spec => []Daemon!Exclusive
PROOF
  <1>1. DaemonIInv => Daemon!Exclusive
    BY DEF DaemonIInv, DaemonInv, Handshake, Daemon!Exclusive
  <1>2. QED
    BY <1>1, DaemonInvariant, PTL

(* A daemon that is over has left its motors at rest and closed, and no    *)
(* thread, attachment or recovery flag behind.                             *)
THEOREM StoppedDaemonIsClean == ASSUME Patient PROVE Daemon!Spec => []Daemon!StoppedIsClean
PROOF
  <1>1. DaemonIInv => Daemon!StoppedIsClean
    BY DEF DaemonIInv, DaemonInv, Daemon!StoppedIsClean, Daemon!Live, HeldByTask, TaskAt, RtPlaces, TaskDriving,
           TaskAttached, TaskHolding, Daemon!Over
  <1>2. QED
    BY <1>1, DaemonInvariant, PTL

(* The RT thread never runs without the motors it uses.                    *)
THEOREM RtThreadHasMotors == ASSUME Patient PROVE Daemon!Spec => []Daemon!RtHasMotors
PROOF
  <1>1. DaemonIInv => Daemon!RtHasMotors
    BY DEF DaemonIInv, DaemonInv, Daemon!RtHasMotors, HeldByTask, TaskHasMotors, TaskAt, RtPlaces, TaskDriving,
           TaskAttached, TaskHolding
  <1>2. QED
    BY <1>1, DaemonInvariant, PTL

(* No wheel turns while a lost port waits for its recovery.                *)
THEOREM LostPortStopsWheels == ASSUME Patient PROVE Daemon!Spec => []Daemon!PendingIsStill
  BY DaemonInvariant, PTL DEF DaemonIInv, DaemonInv

(* The module that DriveDaemon counts with is the one the theorems are on. *)
LEMMA SameCount == ASSUME NEW S PROVE Daemon!Cardinality(S) = Cardinality(S)
  BY DEF Cardinality, Daemon!Cardinality, IsFiniteSet, Daemon!IsFiniteSet

(* There is never a second daemon: drivebase_daemon_start refuses while    *)
(* the first one is in its body, and its callers wait for it to get there. *)
THEOREM NeverTwoDaemons == ASSUME Patient PROVE Daemon!Spec => []Daemon!OneDaemon
PROOF
  <1>1. DaemonIInv => Daemon!OneDaemon
    <2> SUFFICES ASSUME DaemonIInv PROVE Daemon!OneDaemon
      OBVIOUS
    <2>1. \A t, u \in Daemon!Live : t = u
      BY DEF DaemonIInv, DaemonInv, OneTask, Daemon!Live
    <2>2. CASE Daemon!Live = {}
      BY <2>2, FS_EmptySet, SameCount DEF Daemon!OneDaemon
    <2>3. CASE Daemon!Live # {}
      <3>1. PICK t : t \in Daemon!Live
        BY <2>3
      <3>2. Daemon!Live = {t}
        BY <2>1, <3>1
      <3>3. Cardinality(Daemon!Live) = 1
        BY <3>2, FS_Singleton
      <3>4. QED
        BY <3>3, SameCount DEF Daemon!OneDaemon
    <2>4. QED
      BY <2>2, <2>3
  <1>2. QED
    BY <1>1, DaemonInvariant, PTL

(* teardown_done counts tasks that have ended: each posts it once.         *)
TasksDone == {t \in Daemon!Tasks : tasks[t] = "done"}
PostsCounted == posts \in Nat /\ posts <= Cardinality(TasksDone)

(* The tasks are finitely many, and so are those that have ended.          *)
LEMMA TasksDoneFinite ==
  ASSUME Patient
  PROVE  /\ IsFiniteSet(TasksDone) /\ Cardinality(TasksDone) \in Nat
         /\ Cardinality(TasksDone) <= MaxTask
PROOF
  <1>1. MaxTask \in Nat /\ 1 \in Int /\ MaxTask \in Int
    BY DEF Patient, Daemon!DaemonAssumption
  <1>2. IsFiniteSet(Daemon!Tasks) /\ Cardinality(Daemon!Tasks) = MaxTask
    <2>1. IsFiniteSet(1 .. MaxTask)
      BY <1>1, FS_Interval
    <2>2. Cardinality(1 .. MaxTask) = IF 1 > MaxTask THEN 0 ELSE MaxTask - 1 + 1
      BY <1>1, FS_Interval
    <2>3. QED
      BY <1>1, <2>1, <2>2 DEF Daemon!Tasks
  <1>3. TasksDone \subseteq Daemon!Tasks
    BY DEF TasksDone
  <1>4. IsFiniteSet(TasksDone) /\ Cardinality(TasksDone) <= Cardinality(Daemon!Tasks)
    BY <1>2, <1>3, FS_Subset
  <1>5. Cardinality(TasksDone) \in Nat
    BY <1>4, FS_CardinalityType
  <1>6. QED
    BY <1>2, <1>4, <1>5

(* A post is counted by the task that becomes done with it.                *)
LEMMA PostsStep ==
  ASSUME Patient, DaemonIInv, PostsCounted, [Daemon!Next]_(Daemon!vars) PROVE PostsCounted'
PROOF
  <1>1. /\ IsFiniteSet(TasksDone) /\ Cardinality(TasksDone) \in Nat
        /\ IsFiniteSet(TasksDone') /\ Cardinality(TasksDone') \in Nat
    <2>1. IsFiniteSet(TasksDone) /\ Cardinality(TasksDone) \in Nat
      BY TasksDoneFinite
    <2>2. IsFiniteSet(TasksDone)' /\ (Cardinality(TasksDone) \in Nat)'
      BY TasksDoneFinite, PTL
    <2>3. QED
      BY <2>1, <2>2
  <1>2. ASSUME UNCHANGED posts, TasksDone' = TasksDone PROVE PostsCounted'
    BY <1>2 DEF PostsCounted
  <1>3. tasks \in [Daemon!Tasks -> Daemon!Places]
    BY DEF DaemonIInv, DaemonTyped, HoldsTyped
  <1>4. CASE Daemon!Start
    BY <1>1, <1>4 DEF Daemon!Start, PostsCounted
  <1>5. CASE Daemon!StopReturns
    <2>1. TasksDone' = TasksDone
      BY <1>5 DEF Daemon!StopReturns, TasksDone
    <2>2. posts' \in Nat /\ posts' <= posts
      BY <1>5 DEF Daemon!StopReturns, PostsCounted
    <2>3. QED
      BY <1>1, <2>1, <2>2 DEF PostsCounted
  <1>6. ASSUME NEW t \in Daemon!Tasks, Daemon!Post(t) PROVE PostsCounted'
    <2>1. TasksDone' = TasksDone \cup {t} /\ t \notin TasksDone
      BY <1>3, <1>6 DEF Daemon!Post, Daemon!Goto, TasksDone
    <2>2. Cardinality(TasksDone') = Cardinality(TasksDone) + 1
      BY <1>1, <2>1, FS_AddElement
    <2>3. QED
      BY <1>1, <1>6, <2>2 DEF Daemon!Post, PostsCounted
  <1>7. ASSUME NEW t \in Daemon!Tasks, Daemon!TaskStep(t), ~Daemon!Post(t) PROVE PostsCounted'
    <2>1. UNCHANGED posts
      BY <1>7
      DEF Daemon!TaskStep, Daemon!Boot, Daemon!MotorInit, Daemon!AttachShim, Daemon!StartRt, Daemon!Started, Daemon!IdleLoop, Daemon!Freeze, Daemon!Acked,
          Daemon!AckTimeout, Daemon!Reclaim, Daemon!Thaw, Daemon!Join, Daemon!Down, Daemon!Fail, Daemon!Stopped, Daemon!control
    <2>2. \/ UNCHANGED tasks
          \/ tasks[t] # "done" /\ \E place \in Daemon!Places \ {"done"} : Daemon!Goto(t, place)
      BY <1>7
      DEF Daemon!TaskStep, Daemon!Boot, Daemon!MotorInit, Daemon!AttachShim, Daemon!StartRt, Daemon!Started, Daemon!IdleLoop, Daemon!Freeze, Daemon!Acked,
          Daemon!AckTimeout, Daemon!Reclaim, Daemon!Thaw, Daemon!Join, Daemon!Down, Daemon!Fail, Daemon!Stopped, Daemon!Places
    <2>3. TasksDone' = TasksDone
      BY <1>3, <2>2 DEF TasksDone, Daemon!Goto
    <2>4. QED
      BY <1>2, <2>1, <2>3
  <1>8. CASE \/ Daemon!Stop \/ Daemon!Watchdog \/ Daemon!RtStep \/ UNCHANGED Daemon!vars
             \/ \E s \in Sides : Daemon!Pull(s) \/ Daemon!Plug(s)
    <2>1. UNCHANGED <<posts, tasks>>
      BY <1>8 DEF Daemon!Stop, Daemon!Watchdog, Daemon!RtStep, Daemon!RtWake, Daemon!RtGate, Daemon!RtUse, Daemon!Pull, Daemon!Plug, Daemon!vars, Daemon!control
    <2>2. QED
      BY <1>2, <2>1 DEF TasksDone
  <1>9. QED
    BY <1>4, <1>5, <1>6, <1>7, <1>8 DEF Daemon!Next

(* The type invariant of the daemon.                                       *)
THEOREM DaemonTypeCorrect == ASSUME Patient PROVE Daemon!Spec => []Daemon!TypeOK
PROOF
  <1>1. Daemon!Init => PostsCounted
    <2> SUFFICES ASSUME Daemon!Init PROVE PostsCounted
      OBVIOUS
    <2>1. Cardinality(TasksDone) \in Nat
      BY TasksDoneFinite
    <2>2. QED
      BY <2>1 DEF Daemon!Init, PostsCounted
  <1>2. DaemonIInv /\ PostsCounted /\ [Daemon!Next]_(Daemon!vars) => PostsCounted'
    BY PostsStep
  <1>3. DaemonIInv /\ PostsCounted => Daemon!TypeOK
    <2> SUFFICES ASSUME DaemonIInv, PostsCounted PROVE Daemon!TypeOK
      OBVIOUS
    <2>1. MaxTask \in Nat /\ Cardinality(TasksDone) \in Nat /\ Cardinality(TasksDone) <= MaxTask
      BY TasksDoneFinite DEF Patient, Daemon!DaemonAssumption
    <2>2. posts \in 0 .. MaxTask
      BY <2>1 DEF PostsCounted
    <2>3. QED
      BY <2>2 DEF DaemonIInv, DaemonTyped, FlagsTyped, HoldsTyped, Daemon!TypeOK
  <1>4. QED
    BY <1>1, <1>2, <1>3, DaemonInvariant, PTL DEF Daemon!Spec

-----------------------------------------------------------------------------
(* The motion layer *)

Motion == INSTANCE DriveMotion

Fields == {"active", "infinite", "ended", "endpoint", "completion", "paused",
           "latch", "done", "streak", "smart"}
Shaped(c) == DOMAIN c = Fields

(* One axis: an endless reference is not latched, a paused one is followed, *)
(* and a recorded endpoint is of a finite move.                             *)
Sound(c) ==
  /\ Shaped(c)
  /\ c.active /\ c.infinite => c.latch = "no"
  /\ c.paused => c.active /\ c.latch = "no"
  /\ c.endpoint => c.active /\ ~c.infinite

(* What a reset, a move, a hold, an endless drive and a stop leave.         *)
LEMMA ResetAxis == ASSUME NEW c, Shaped(c) PROVE Sound(Motion!AxisReset(c)) /\ ~Motion!AxisReset(c).active
  BY DEF Sound, Shaped, Fields, Motion!AxisReset, Motion!PidReset

(* A finite move of one axis leaves it sound.                              *)
LEMMA MovedAxis ==
  ASSUME NEW c, Shaped(c), NEW completion
  PROVE  Sound(Motion!DrivePosition(c, completion)) /\ ~Motion!DrivePosition(c, completion).infinite
  BY DEF Sound, Shaped, Fields, Motion!DrivePosition, Motion!PidReset

(* An axis that is held is sound, and not endless.                         *)
LEMMA HeldAxis == ASSUME NEW c, Shaped(c) PROVE Sound(Motion!DriveHold(c)) /\ ~Motion!DriveHold(c).infinite
  BY DEF Sound, Shaped, Fields, Motion!DriveHold, Motion!PidReset

(* An axis of an endless drive is sound, active and endless.               *)
LEMMA EndlessAxis ==
  ASSUME NEW c, Sound(c)
  PROVE  Sound(Motion!DriveForever(c)) /\ Motion!DriveForever(c).active /\ Motion!DriveForever(c).infinite
PROOF
  <1>1. CASE c.active /\ c.infinite
    BY <1>1 DEF Sound, Shaped, Fields, Motion!DriveForever
  <1>2. CASE ~(c.active /\ c.infinite)
    BY <1>2 DEF Sound, Shaped, Fields, Motion!DriveForever, Motion!PidReset
  <1>3. QED
    BY <1>1, <1>2

(* A stopped axis is sound, not endless, and at rest after a brake.        *)
LEMMA StoppedAxis ==
  ASSUME NEW c, Shaped(c), NEW completion
  PROVE  /\ Sound(Motion!AxisStop(c, completion))
         /\ ~(Motion!AxisStop(c, completion).active /\ Motion!AxisStop(c, completion).infinite)
         /\ completion = "brake" => Motion!AxisStop(c, completion).latch = "brake"
                                    /\ ~Motion!AxisStop(c, completion).active
PROOF
  <1>1. CASE completion \in Motion!Passive \cup Motion!Smart
    BY <1>1 DEF Sound, Shaped, Fields, Motion!AxisStop, Motion!PidReset, Motion!Degraded
  <1>2. CASE completion \notin Motion!Passive \cup Motion!Smart
    BY <1>2, HeldAxis DEF Motion!AxisStop, Motion!Passive
  <1>3. QED
    BY <1>1, <1>2

(* A tick: a latch is kept, and an endless reference neither ends nor       *)
(* latches.                                                                 *)
LEMMA TickedAxis ==
  ASSUME NEW c, Sound(c), NEW ended, NEW within, NEW windup,
         c.active /\ c.infinite => ~ended,
         NEW n, n = Motion!AxisUpdate(c, ended, within, windup)
  PROVE  /\ Sound(n)
         /\ (n.active <=> c.active) /\ (n.infinite <=> c.infinite)
         /\ c.latch # "no" => n.latch = c.latch
         /\ c.active /\ c.infinite => n.latch = "no" /\ ~n.done
PROOF
  <1>1. CASE c.latch # "no"
    BY <1>1 DEF Sound, Shaped, Fields, Motion!AxisUpdate
  <1>2. CASE ~c.active /\ c.latch = "no"
    BY <1>2 DEF Sound, Shaped, Fields, Motion!AxisUpdate
  <1>3. CASE c.active /\ c.latch = "no"
    <2> DEFINE e == [c EXCEPT !.ended = ended]
               s == Motion!PidStreak(e, ended, within)
               p == Motion!PidComplete(s)
    <2>1. Shaped(e) /\ (e.active <=> c.active) /\ (e.infinite <=> c.infinite)
          /\ (e.endpoint <=> c.endpoint) /\ e.latch = c.latch
      BY DEF Sound, Shaped, Fields
    <2> HIDE DEF e
    <2>2. Shaped(s) /\ (s.active <=> e.active) /\ (s.infinite <=> e.infinite)
          /\ (s.endpoint <=> e.endpoint) /\ s.latch = e.latch /\ (~ended => ~s.done)
      BY <2>1 DEF Shaped, Fields, Motion!PidStreak
    <2> HIDE DEF s
    <2>3. Shaped(p) /\ (p.active <=> s.active) /\ (p.infinite <=> s.infinite)
          /\ (p.endpoint <=> s.endpoint) /\ (~s.done => p.latch = s.latch /\ ~p.done)
      BY <2>2 DEF Shaped, Fields, Motion!PidComplete
    <2> HIDE DEF p
    <2>4. n = [p EXCEPT !.paused = windup /\ p.latch = "no"]
      BY <1>3 DEF Motion!AxisUpdate, p, s, e
    <2>5. Shaped(n) /\ (n.active <=> p.active) /\ (n.infinite <=> p.infinite)
          /\ (n.endpoint <=> p.endpoint) /\ n.latch = p.latch /\ (n.done <=> p.done)
          /\ (n.paused => n.latch = "no")
      BY <2>3, <2>4 DEF Shaped, Fields
    <2>6. QED
      BY <1>3, <2>1, <2>2, <2>3, <2>5 DEF Sound
  <1>4. QED
    BY <1>1, <1>2, <1>3

(* Both axes are sound, and both run while drive-forever is the command.    *)
MotionInv ==
  /\ DOMAIN axis = Motion!Axes
  /\ \A a \in Motion!Axes : Sound(axis[a])
  /\ Motion!ForeverDrives /\ Motion!BrakeStopsBoth

(* A command asks nothing of the motors before the next tick.               *)
LEMMA Undecided ==
  ASSUME decided' = [a \in Motion!Axes |-> "drive"] PROVE Motion!BrakeStopsBoth'
  BY DEF Motion!BrakeStopsBoth

(* The axes are idle after drivebase_init.                                 *)
LEMMA MotionInit == ASSUME Motion!Init PROVE MotionInv
  BY DEF Motion!Init, MotionInv, Sound, Shaped, Fields, Motion!Idle, Motion!ForeverDrives, Motion!BrakeStopsBoth

(* What the mechanics may answer for an endless reference.                  *)
LEMMA StepOfAxis ==
  ASSUME NEW a \in Motion!Axes, Sound(axis[a]), NEW n \in Motion!Steps(a)
  PROVE  /\ Sound(n)
         /\ (n.active <=> axis[a].active) /\ (n.infinite <=> axis[a].infinite)
         /\ axis[a].latch # "no" => n.latch = axis[a].latch
         /\ axis[a].active /\ axis[a].infinite => n.latch = "no" /\ ~n.done
PROOF
  <1> DEFINE E == {f \in BOOLEAN : IF axis[a].active THEN Motion!Ends(axis[a], f) ELSE f = axis[a].ended}
             W == IF calm THEN {TRUE} ELSE BOOLEAN
             X == IF calm THEN {FALSE} ELSE BOOLEAN
  <1>1. \A e \in E : axis[a].active /\ axis[a].infinite => ~e
    BY DEF Motion!Ends
  <1>2. Motion!Steps(a) = {Motion!AxisUpdate(axis[a], e, within, windup) : e \in E, within \in W, windup \in X}
    BY DEF Motion!Steps
  <1> HIDE DEF E, W, X
  <1>3. PICK e \in E, within \in W, windup \in X : n = Motion!AxisUpdate(axis[a], e, within, windup)
    BY <1>2
  <1>4. QED
    BY <1>1, <1>3, TickedAxis

(* A tick of both axes.                                                     *)
LEMMA TickStep == ASSUME MotionInv, Motion!Tick PROVE MotionInv' /\ Motion!StaysBraked
PROOF
  <1>1. PICK distance \in Motion!Steps("distance"), heading \in Motion!Steps("heading"), lost \in Motion!Lost :
          LET next == [a \in Motion!Axes |-> IF a = "distance" THEN distance ELSE heading]
              acts == {Motion!Actuation(next[a]) : a \in Motion!Axes}
          IN  /\ Motion!Actuate(next, acts, lost)
              /\ decided' = [a \in Motion!Axes |-> Motion!Actuation(next[a])]
              /\ done' = \A a \in Motion!Axes : Motion!AxisDone(next[a])
    BY DEF Motion!Tick
  <1> DEFINE next == [a \in Motion!Axes |-> IF a = "distance" THEN distance ELSE heading]
             acts == {Motion!Actuation(next[a]) : a \in Motion!Axes}
  <1>2. \A a \in Motion!Axes : next[a] \in Motion!Steps(a)
    BY DEF Motion!Axes
  <1>3. Motion!Actuate(next, acts, lost) /\ decided' = [a \in Motion!Axes |-> Motion!Actuation(next[a])]
        /\ done' = \A a \in Motion!Axes : Motion!AxisDone(next[a])
    BY <1>1
  <1>4. \A a \in Motion!Axes : DOMAIN next = Motion!Axes /\ Sound(next[a])
          /\ (next[a].active <=> axis[a].active) /\ (next[a].infinite <=> axis[a].infinite)
          /\ (axis[a].latch # "no" => next[a].latch = axis[a].latch)
          /\ (axis[a].active /\ axis[a].infinite => next[a].latch = "no" /\ ~next[a].done)
    BY <1>2, StepOfAxis DEF MotionInv
  <1> HIDE DEF next
  <1>5. (\A a \in Motion!Axes : Sound(axis'[a])) /\ DOMAIN axis' = Motion!Axes
        /\ ("brake" \in acts /\ "coast" \notin acts /\ ~fault' =>
              motors' = "brake" /\ \A a \in Motion!Axes : axis'[a].latch = "brake")
        /\ (~("brake" \in acts /\ "coast" \notin acts) => axis' = next)
    <2>1. CASE fault \/ lost = "drain"
      BY <1>3, <1>4, <2>1 DEF Motion!Actuate, Motion!Axes
    <2>2. CASE ~(fault \/ lost = "drain") /\ "brake" \in acts /\ "coast" \notin acts
      <3>1. axis' = [a \in Motion!Axes |-> Motion!AxisStop(next[a], "brake")] /\ motors' = "brake"
        BY <1>3, <2>2 DEF Motion!Actuate
      <3>2. \A a \in Motion!Axes : Shaped(next[a])
        BY <1>4 DEF Sound
      <3>3. QED
        BY <2>2, <3>1, <3>2, StoppedAxis
    <2>3. CASE ~(fault \/ lost = "drain") /\ ~("brake" \in acts /\ "coast" \notin acts)
      BY <1>3, <1>4, <2>3 DEF Motion!Actuate, Motion!Axes
    <2>4. QED
      BY <2>1, <2>2, <2>3
  <1>6. Motion!ForeverDrives'
    <2>1. SUFFICES ASSUME command' = "forever"
                   PROVE  \A a \in Motion!Axes : axis'[a].active /\ axis'[a].infinite /\ axis'[a].latch = "no"
      BY DEF Motion!ForeverDrives
    <2>2. command = "forever"
      BY <2>1 DEF Motion!Tick
    <2>3. \A a \in Motion!Axes : next[a].active /\ next[a].infinite /\ next[a].latch = "no"
      BY <1>4, <2>2 DEF MotionInv, Motion!ForeverDrives
    <2>4. \A a \in Motion!Axes : Motion!Actuation(next[a]) = "drive"
      BY <2>3 DEF Motion!Actuation
    <2>5. axis' = next
      BY <1>5, <2>4
    <2>6. QED
      BY <2>3, <2>5
  <1>7. Motion!BrakeStopsBoth'
    BY <1>3, <1>5 DEF Motion!BrakeStopsBoth
  <1>8. Motion!StaysBraked
    <2>1. SUFFICES ASSUME \A a \in Motion!Axes : axis[a].latch = "brake", ~fault'
                   PROVE  motors' = "brake"
      BY DEF Motion!StaysBraked
    <2>2. \A a \in Motion!Axes : Motion!Actuation(next[a]) = "brake"
      BY <1>4, <2>1 DEF Motion!Actuation
    <2>3. QED
      BY <1>5, <2>1, <2>2 DEF Motion!Axes
  <1>9. QED
    BY <1>5, <1>6, <1>7, <1>8 DEF MotionInv

(* Every command, tick, recovery and change of the IMU.                     *)
LEMMA MotionStep == ASSUME MotionInv, [Motion!Next]_(Motion!vars) PROVE MotionInv' /\ Motion!StaysBraked
PROOF
  <1>1. \A a \in Motion!Axes : Sound(axis[a]) /\ Shaped(axis[a])
    BY DEF MotionInv, Sound
  <1>2. ASSUME NEW primary, NEW c, NEW verb, Motion!Issue(verb), Motion!Position(primary, c), command' # "forever"
        PROVE  MotionInv' /\ Motion!StaysBraked
    <2>1. \A a \in Motion!Axes : Sound(IF a = primary THEN Motion!DrivePosition(axis[a], c) ELSE Motion!DriveHold(axis[a]))
      BY <1>1, MovedAxis, HeldAxis
    <2>2. (DOMAIN axis = Motion!Axes /\ \A a \in Motion!Axes : Sound(axis[a]))'
      BY <1>2, <2>1 DEF Motion!Position
    <2>3. QED
      BY <1>2, <2>2, Undecided DEF MotionInv, Motion!Issue, Motion!Position, Motion!ForeverDrives, Motion!StaysBraked
  <1>3. CASE Motion!Straight
    BY <1>2, <1>3 DEF Motion!Straight
  <1>4. CASE Motion!Turn
    BY <1>2, <1>4 DEF Motion!Turn
  <1>5. CASE Motion!Curve
    <2>1. PICK c : axis' = [a \in Motion!Axes |-> Motion!DrivePosition(axis[a], c)]
      BY <1>5 DEF Motion!Curve
    <2>2. \A a \in Motion!Axes : Sound(Motion!DrivePosition(axis[a], c))
      BY <1>1, MovedAxis
    <2>3. (DOMAIN axis = Motion!Axes /\ \A a \in Motion!Axes : Sound(axis[a]))'
      BY <2>1, <2>2
    <2>4. QED
      BY <1>5, <2>3, Undecided DEF Motion!Curve, MotionInv, Motion!Issue, Motion!ForeverDrives, Motion!StaysBraked
  <1>6. CASE Motion!CurveNowhere
    BY <1>6, Undecided DEF Motion!CurveNowhere, Motion!Issue, MotionInv, Motion!ForeverDrives, Motion!StaysBraked
  <1>7. CASE Motion!Forever
    <2>1. axis' = [a \in Motion!Axes |-> Motion!DriveForever(axis[a])]
      BY <1>7 DEF Motion!Forever
    <2>2. \A a \in Motion!Axes : Sound(Motion!DriveForever(axis[a])) /\ Motion!DriveForever(axis[a]).active
                          /\ Motion!DriveForever(axis[a]).infinite
      BY <1>1, EndlessAxis
    <2>3. DOMAIN axis' = Motion!Axes /\ \A a \in Motion!Axes : Sound(axis'[a]) /\ axis'[a].active /\ axis'[a].infinite
      BY <2>1, <2>2
    <2>4. QED
      BY <1>7, <2>3, Undecided DEF Motion!Forever, MotionInv, Motion!Issue, Motion!ForeverDrives, Motion!StaysBraked, Sound
  <1>8. CASE Motion!Stop
    <2>1. PICK c : axis' = [a \in Motion!Axes |-> Motion!AxisStop(axis[a], c)]
      BY <1>8 DEF Motion!Stop
    <2>2. \A a \in Motion!Axes : Sound(Motion!AxisStop(axis[a], c))
      BY <1>1, StoppedAxis
    <2>3. (DOMAIN axis = Motion!Axes /\ \A a \in Motion!Axes : Sound(axis[a]))'
      BY <2>1, <2>2
    <2>4. QED
      BY <1>8, <2>3, Undecided DEF Motion!Stop, MotionInv, Motion!Issue, Motion!ForeverDrives, Motion!StaysBraked
  <1>9. CASE Motion!SetGyro
    <2>1. axis' \in {axis, [axis EXCEPT !["heading"] = Motion!AxisReset(@)]}
      BY <1>9 DEF Motion!SetGyro
    <2>2. DOMAIN axis' = Motion!Axes /\ \A a \in Motion!Axes : Sound(axis'[a])
      BY <1>1, <2>1, ResetAxis DEF MotionInv
    <2>3. QED
      BY <1>9, <2>2, Undecided DEF Motion!SetGyro, MotionInv, Motion!Issue, Motion!ForeverDrives, Motion!StaysBraked
  <1>10. CASE Motion!SetOrigin
    BY <1>10, Undecided DEF Motion!SetOrigin, Motion!Issue, MotionInv, Motion!ForeverDrives, Motion!StaysBraked
  <1>11. CASE Motion!Tick
    BY <1>11, TickStep
  <1>12. CASE Motion!Recover
    <2>1. axis' = [a \in Motion!Axes |-> Motion!AxisReset(axis[a])]
      BY <1>12 DEF Motion!Recover
    <2>2. \A a \in Motion!Axes : Sound(Motion!AxisReset(axis[a]))
      BY <1>1, ResetAxis
    <2>3. (DOMAIN axis = Motion!Axes /\ \A a \in Motion!Axes : Sound(axis[a]))'
      BY <2>1, <2>2
    <2>4. QED
      BY <1>12, <2>3, Undecided DEF Motion!Recover, MotionInv, Motion!ForeverDrives, Motion!StaysBraked
  <1>13. CASE Motion!ImuChanges \/ Motion!Settle \/ UNCHANGED Motion!vars
    BY <1>13 DEF Motion!ImuChanges, Motion!Settle, Motion!vars, MotionInv, Motion!ForeverDrives, Motion!BrakeStopsBoth, Motion!StaysBraked
  <1>14. QED
    BY <1>3, <1>4, <1>5, <1>6, <1>7, <1>8, <1>9, <1>10, <1>11, <1>12, <1>13 DEF Motion!Next

(* Whatever commands, ticks, lost ports and recoveries follow each other:   *)
(* drive-forever drives both axes, one axis' brake stops both, a reference  *)
(* is paused only while it is followed, and an endpoint a move continues    *)
(* from is of a finite move nobody has stopped.                             *)
THEOREM AxesAgree ==
  Motion!Spec => [](Motion!ForeverDrives /\ Motion!BrakeStopsBoth /\ Motion!PausedFollows /\ Motion!EndpointIsCurrent)
PROOF
  <1>1. Motion!Init => MotionInv
    BY MotionInit
  <1>2. MotionInv /\ [Motion!Next]_(Motion!vars) => MotionInv'
    BY MotionStep
  <1>3. MotionInv => Motion!ForeverDrives /\ Motion!BrakeStopsBoth /\ Motion!PausedFollows /\ Motion!EndpointIsCurrent
    BY DEF MotionInv, Sound, Motion!PausedFollows, Motion!EndpointIsCurrent
  <1>4. QED
    BY <1>1, <1>2, <1>3, PTL DEF Motion!Spec

(* Only a command or a lost port sets braked motors free.                   *)
THEOREM BrakeIsKept == Motion!Spec => [][Motion!StaysBraked]_(Motion!vars)
PROOF
  <1>1. Motion!Init => MotionInv
    BY MotionInit
  <1>2. MotionInv /\ [Motion!Next]_(Motion!vars) => MotionInv' /\ [Motion!StaysBraked]_(Motion!vars)
    BY MotionStep
  <1>3. QED
    BY <1>1, <1>2, PTL DEF Motion!Spec

(* The source of the heading is the one its PID was last reset for.         *)
Sourced == DOMAIN gyro = {"requested", "latched", "origin", "pid"} /\ gyro.latched = gyro.pid

(* The heading follows an endless reference only under drive-forever.       *)
EndlessIsForever == axis["heading"].active /\ axis["heading"].infinite => command = "forever"

SteadyInv == MotionInv /\ Sourced /\ EndlessIsForever

(* Where the latch is refreshed, the controller takes its source.          *)
LEMMA LatchedSource ==
  ASSUME NEW g, DOMAIN g = {"requested", "latched", "origin", "pid"}, NEW fresh
  PROVE  /\ DOMAIN Motion!Latched(g, fresh) = DOMAIN g
         /\ fresh => Motion!Latched(g, fresh).latched = Motion!Latched(g, fresh).pid
  BY DEF Motion!Latched

(* Setting the origin changes neither the latch nor the source.            *)
LEMMA OriginSource ==
  ASSUME Sourced
  PROVE  /\ DOMAIN Motion!Origin(gyro) = DOMAIN gyro
         /\ Motion!Origin(gyro).latched = gyro.latched /\ Motion!Origin(gyro).pid = gyro.pid
  BY DEF Motion!Origin, Sourced

(* A tick ends no endless reference and starts none.                        *)
LEMMA HeadingTick == ASSUME MotionInv, EndlessIsForever, Motion!Tick PROVE EndlessIsForever'
PROOF
  <1>1. PICK distance \in Motion!Steps("distance"), heading \in Motion!Steps("heading"), lost \in Motion!Lost :
          LET next == [a \in Motion!Axes |-> IF a = "distance" THEN distance ELSE heading]
              acts == {Motion!Actuation(next[a]) : a \in Motion!Axes}
          IN  /\ Motion!Actuate(next, acts, lost)
              /\ decided' = [a \in Motion!Axes |-> Motion!Actuation(next[a])]
              /\ done' = \A a \in Motion!Axes : Motion!AxisDone(next[a])
    BY DEF Motion!Tick
  <1> DEFINE next == [a \in Motion!Axes |-> IF a = "distance" THEN distance ELSE heading]
             acts == {Motion!Actuation(next[a]) : a \in Motion!Axes}
  <1>2. "heading" \in Motion!Axes /\ next["heading"] = heading /\ Sound(axis["heading"])
    BY DEF Motion!Axes, MotionInv
  <1>3. Motion!Actuate(next, acts, lost) /\ done' = \A a \in Motion!Axes : Motion!AxisDone(next[a])
    BY <1>1
  <1>4. /\ Sound(heading)
        /\ (heading.active <=> axis["heading"].active) /\ (heading.infinite <=> axis["heading"].infinite)
        /\ (axis["heading"].active /\ axis["heading"].infinite => heading.latch = "no" /\ ~heading.done)
    BY <1>2, StepOfAxis
  <1> HIDE DEF next, acts
  <1>5. SUFFICES ASSUME axis'["heading"].active, axis'["heading"].infinite PROVE command' = "forever"
    BY DEF EndlessIsForever
  <1>6. axis' = next \/ axis' = [a \in Motion!Axes |-> Motion!AxisStop(next[a], "brake")]
    BY <1>3 DEF Motion!Actuate
  <1>7. axis'["heading"] = heading
    <2>1. CASE axis' = [a \in Motion!Axes |-> Motion!AxisStop(next[a], "brake")]
      <3>1. axis'["heading"] = Motion!AxisStop(heading, "brake")
        BY <1>2, <2>1
      <3>2. QED
        BY <1>4, <1>5, <3>1, StoppedAxis DEF Sound
    <2>2. QED
      BY <1>2, <1>6, <2>1
  <1>8. command = "forever" /\ ~Motion!AxisDone(heading)
    BY <1>4, <1>5, <1>7 DEF EndlessIsForever, Motion!AxisDone
  <1>9. ~done'
    BY <1>2, <1>3, <1>8
  <1>10. QED
    BY <1>8, <1>9 DEF Motion!Tick

(* Without the curve of no length, which forgets a running drive-forever.   *)
LEMMA SteadyStep ==
  ASSUME "curve_nowhere" \notin Verbs, SteadyInv, [Motion!Next]_(Motion!vars) PROVE SteadyInv'
PROOF
  <1> USE DEF SteadyInv
  <1>1. MotionInv' /\ \A a \in Motion!Axes : Sound(axis[a]) /\ Shaped(axis[a])
    BY MotionStep DEF MotionInv, Sound
  <1>h. "heading" \in Motion!Axes
    BY DEF Motion!Axes
  <1>2. ASSUME NEW c, gyro' = Motion!Latched(gyro, TRUE),
               axis'["heading"] \in {Motion!DrivePosition(axis["heading"], c), Motion!DriveHold(axis["heading"])}
        PROVE  (Sourced /\ EndlessIsForever)'
    <2>1. ~axis'["heading"].infinite
      BY <1>1, <1>2, <1>h, MovedAxis, HeldAxis
    <2>2. Sourced'
      BY <1>2, LatchedSource DEF Sourced
    <2>3. QED
      BY <2>1, <2>2 DEF EndlessIsForever
  <1>3. CASE Motion!Straight \/ Motion!Turn
    <2>1. PICK primary, c : Motion!Position(primary, c)
      BY <1>3 DEF Motion!Straight, Motion!Turn
    <2>2. axis'["heading"] \in {Motion!DrivePosition(axis["heading"], c), Motion!DriveHold(axis["heading"])}
      BY <1>h, <2>1 DEF Motion!Position
    <2>3. QED
      BY <1>1, <1>2, <2>1, <2>2 DEF Motion!Position
  <1>4. CASE Motion!Curve
    <2>1. PICK c : axis' = [a \in Motion!Axes |-> Motion!DrivePosition(axis[a], c)] /\ gyro' = Motion!Latched(gyro, TRUE)
      BY <1>4 DEF Motion!Curve
    <2>2. axis'["heading"] = Motion!DrivePosition(axis["heading"], c)
      BY <1>h, <2>1
    <2>3. QED
      BY <1>1, <1>2, <2>1, <2>2
  <1>5. CASE Motion!Forever
    <2>1. command' = "forever" /\ axis'["heading"].active
      BY <1>1, <1>5, <1>h DEF Motion!Forever, MotionInv, Motion!ForeverDrives
    <2>2. CASE command = "forever"
      <3>1. gyro' = gyro /\ axis["heading"].active
        BY <1>5, <1>h, <2>2 DEF Motion!Forever, MotionInv, Motion!ForeverDrives
      <3>2. QED
        BY <1>1, <2>1, <3>1 DEF Sourced, EndlessIsForever
    <2>3. CASE command # "forever"
      <3>1. ~(axis["heading"].active /\ axis["heading"].infinite)
        BY <2>3 DEF EndlessIsForever
      <3>2. PICK fresh : fresh /\ gyro' = Motion!Latched(gyro, fresh)
        BY <1>5, <2>3, <3>1 DEF Motion!Forever
      <3>3. Sourced'
        BY <3>2, LatchedSource DEF Sourced
      <3>4. QED
        BY <1>1, <2>1, <3>3 DEF EndlessIsForever
    <2>4. QED
      BY <2>2, <2>3
  <1>6. CASE Motion!Stop
    <2>1. PICK c \in Completions : axis' = [a \in Motion!Axes |-> Motion!AxisStop(axis[a], c)]
      BY <1>6 DEF Motion!Stop
    <2>2. axis'["heading"] = Motion!AxisStop(axis["heading"], c) /\ gyro' = gyro
      BY <1>6, <1>h, <2>1 DEF Motion!Stop
    <2>3. ~(axis'["heading"].active /\ axis'["heading"].infinite)
      BY <1>1, <1>h, <2>2, StoppedAxis
    <2>4. QED
      BY <1>1, <2>2, <2>3 DEF Sourced, EndlessIsForever
  <1>7. CASE Motion!SetGyro
    <2>1. PICK m \in {"none", "3d"} :
            /\ axis' = IF m # gyro.requested THEN [axis EXCEPT !["heading"] = Motion!AxisReset(@)] ELSE axis
            /\ gyro' = [gyro EXCEPT !.requested = m, !.origin = m = "3d" /\ imu]
      BY <1>7 DEF Motion!SetGyro
    <2>2. Sourced'
      BY <2>1 DEF Sourced
    <2>3. EndlessIsForever'
      <3>1. CASE m # gyro.requested
        <4>1. axis'["heading"] = Motion!AxisReset(axis["heading"])
          BY <1>h, <2>1, <3>1 DEF MotionInv
        <4>2. QED
          BY <1>1, <1>h, <4>1, ResetAxis DEF EndlessIsForever
      <3>2. CASE m = gyro.requested
        BY <1>7, <2>1, <3>2 DEF EndlessIsForever, Motion!SetGyro
      <3>3. QED
        BY <3>1, <3>2
    <2>4. QED
      BY <1>1, <2>2, <2>3
  <1>8. CASE Motion!SetOrigin
    BY <1>1, <1>8, OriginSource DEF Motion!SetOrigin, Sourced, EndlessIsForever
  <1>9. CASE Motion!Recover
    <2>1. axis'["heading"] = Motion!AxisReset(axis["heading"])
      BY <1>9, <1>h DEF Motion!Recover
    <2>2. ~axis'["heading"].active
      BY <1>1, <1>h, <2>1, ResetAxis
    <2>3. QED
      BY <1>1, <1>9, <2>2, OriginSource DEF Motion!Recover, Sourced, EndlessIsForever
  <1>10. CASE Motion!Tick
    BY <1>1, <1>10, HeadingTick DEF Motion!Tick, Sourced
  <1>11. CASE Motion!ImuChanges \/ Motion!Settle \/ UNCHANGED Motion!vars
    BY <1>1, <1>11 DEF Motion!ImuChanges, Motion!Settle, Motion!vars, Sourced, EndlessIsForever
  <1>12. CASE Motion!CurveNowhere
    BY <1>12 DEF Motion!CurveNowhere, Motion!Issue
  <1>13. QED
    BY <1>3, <1>4, <1>5, <1>6, <1>7, <1>8, <1>9, <1>10, <1>11, <1>12 DEF Motion!Next

(* As long as no curve of no length is commanded, the heading keeps its     *)
(* source for as long as its PID runs, whenever the IMU comes and goes.     *)
THEOREM HeadingKeepsSource ==
  ASSUME "curve_nowhere" \notin Verbs PROVE Motion!Spec => []Motion!SourceSteady
PROOF
  <1>1. Motion!Init => SteadyInv
    <2>1. ASSUME Motion!Init PROVE Sourced /\ EndlessIsForever
      BY <2>1 DEF Motion!Init, Motion!Idle, Motion!Axes, Sourced, EndlessIsForever
    <2>2. QED
      BY <2>1, MotionInit DEF SteadyInv
  <1>2. SteadyInv /\ [Motion!Next]_(Motion!vars) => SteadyInv'
    BY SteadyStep
  <1>3. SteadyInv => Motion!SourceSteady
    BY DEF SteadyInv, Sourced, Motion!SourceSteady
  <1>4. QED
    BY <1>1, <1>2, <1>3, PTL DEF Motion!Spec

-----------------------------------------------------------------------------
(* The line tracer *)

Line == INSTANCE LineTrace WITH
    MaxCommands <- ShellCommands, Capacity <- LapCapacity, issued <- shellIssued,
    daemon <- lapDaemon, place <- lapPlace

(* The flags of the tracer, as far as the wheels depend on them.           *)
LineTyped ==
  /\ flags \in [running : BOOLEAN, stop : BOOLEAN, calReq : BOOLEAN,
                calDone : BOOLEAN, brakeReq : BOOLEAN, engaged : BOOLEAN]
  /\ pc \in [Tracers -> {"none", "open", "loop", "cal", "braked", "drove"}]
  /\ was \in [Tracers -> BOOLEAN]

(* A brake has a daemon that gave it, lives, and knows that it drives no   *)
(* more, or is about to.                                                   *)
BrakeIsOwned ==
  drive = "brake" => \E d \in Tracers : /\ pc[d] \in {"loop", "cal", "braked", "drove"}
                                        /\ was[d] => pc[d] = "braked"

LineInv == LineTyped /\ Line!DriveIsOwned /\ BrakeIsOwned

(* The tracer starts with its wheels free.                                 *)
LEMMA LineInit == ASSUME Line!Init PROVE LineInv
  BY DEF Line!Init, LineInv, LineTyped, Line!DriveIsOwned, BrakeIsOwned

(* A step that leaves the place and the knowledge of every daemon alone,   *)
(* except for daemons that are not there yet, keeps the owners.            *)
LEMMA OwnersStay ==
  ASSUME LineInv, LineTyped', drive' = drive,
         \A d \in Tracers : pc[d] \in {"none", "open"} \/ (pc'[d] = pc[d] /\ was'[d] = was[d])
  PROVE  LineInv'
  BY DEF LineInv, LineTyped, Line!DriveIsOwned, BrakeIsOwned

(* No verb touches the drive base or a daemon that is in its loop.         *)
LEMMA VerbsLeaveIt ==
  ASSUME LineInv, NEW s \in Shells, Line!Verb(s) \/ Line!Starting(s) \/ Line!Return(s) \/ Line!TimedOut(s)
                                    \/ Line!PidstatRead(s) \/ Line!PidstatEnd(s)
  PROVE  LineInv' /\ Line!BrakeHolds
PROOF
  <1>1. /\ drive' = drive
        /\ LineTyped'
        /\ \A d \in Tracers : pc[d] \in {"none", "open"} \/ (pc'[d] = pc[d] /\ was'[d] = was[d])
    <2> USE DEF LineInv, LineTyped
    <2>1. CASE Line!StartCheck(s) \/ Line!StartOpen(s)
      BY <2>1 DEF Line!StartCheck, Line!StartOpen
    <2>2. CASE Line!StartAnnounce(s)
      BY <2>2 DEF Line!StartAnnounce
    <2>3. CASE Line!StartCreate(s)
      BY <2>3 DEF Line!StartCreate
    <2>4. CASE Line!DoStop(s) \/ Line!DoRun(s) \/ Line!DoSetEdge(s)
      BY <2>4 DEF Line!DoStop, Line!DoRun, Line!DoSetEdge
    <2>5. CASE Line!DoCal(s) \/ Line!DoBrake(s)
      BY <2>5 DEF Line!DoCal, Line!DoBrake
    <2>6. CASE Line!PidstatBegin(s) \/ Line!PidstatRead(s) \/ Line!PidstatEnd(s)
      BY <2>6 DEF Line!PidstatBegin, Line!PidstatRead, Line!PidstatEnd
    <2>7. CASE Line!Return(s) \/ Line!TimedOut(s)
      BY <2>7 DEF Line!Return, Line!TimedOut
    <2>8. QED
      BY <2>1, <2>2, <2>3, <2>4, <2>5, <2>6, <2>7 DEF Line!Verb, Line!Starting
  <1>2. Line!BrakeHolds
    BY <1>1 DEF Line!BrakeHolds
  <1>3. QED
    BY <1>1, <1>2, OwnersStay

(* No step of a daemon breaks it, and none softens a brake to a coast      *)
(* before the daemon is told to stop, unless a second daemon lives.        *)
LEMMA TracerStep ==
  ASSUME LineInv, NEW d \in Tracers, Line!Daemon(d) PROVE LineInv' /\ Line!BrakeHolds
PROOF
  <1> USE DEF LineInv, LineTyped
  <1>1. CASE Line!Open(d)
    <2>1. LineTyped' /\ drive' = drive
      BY <1>1 DEF Line!Open, Line!Ends
    <2>2. \A e \in Tracers : pc[e] \in {"none", "open"} \/ (pc'[e] = pc[e] /\ was'[e] = was[e])
      BY <1>1 DEF Line!Open, Line!Ends
    <2>3. QED
      BY <2>1, <2>2, OwnersStay DEF Line!BrakeHolds
  <1>2. CASE Line!CalBegin(d)
    <2>1. LineTyped' /\ pc[d] = "loop" /\ pc'[d] = "cal" /\ ~was'[d] /\ ~flags.stop
      BY <1>2 DEF Line!CalBegin, Line!Disengage
    <2>2. \A e \in Tracers \ {d} : pc'[e] = pc[e] /\ was'[e] = was[e]
      BY <1>2 DEF Line!CalBegin, Line!Disengage
    <2>3. drive' = IF was[d] THEN "coast" ELSE drive
      BY <1>2 DEF Line!CalBegin, Line!Disengage
    <2>4. Line!DriveIsOwned' /\ BrakeIsOwned'
      BY <2>1, <2>2, <2>3 DEF Line!DriveIsOwned, BrakeIsOwned
    <2>5. Line!BrakeHolds
      BY <2>1, <2>3 DEF BrakeIsOwned, Line!BrakeHolds, Line!Twins
    <2>6. QED
      BY <2>1, <2>4, <2>5
  <1>3. CASE Line!CalEnd(d)
    <2>1. LineTyped' /\ drive' = drive /\ pc[d] = "cal" /\ pc'[d] = "loop" /\ was' = was
      BY <1>3 DEF Line!CalEnd
    <2>2. \A e \in Tracers \ {d} : pc'[e] = pc[e]
      BY <1>3 DEF Line!CalEnd
    <2>3. QED
      BY <2>1, <2>2 DEF Line!DriveIsOwned, BrakeIsOwned, Line!BrakeHolds
  <1>4. CASE Line!BrakeBegin(d)
    BY <1>4 DEF Line!BrakeBegin, Line!DriveIsOwned, BrakeIsOwned, Line!BrakeHolds
  <1>5. CASE Line!BrakeEnd(d)
    <2>1. LineTyped' /\ drive' = drive /\ pc[d] = "braked" /\ pc'[d] = "loop" /\ ~was'[d]
      BY <1>5 DEF Line!BrakeEnd
    <2>2. \A e \in Tracers \ {d} : pc'[e] = pc[e] /\ was'[e] = was[e]
      BY <1>5 DEF Line!BrakeEnd
    <2>3. QED
      BY <2>1, <2>2 DEF Line!DriveIsOwned, BrakeIsOwned, Line!BrakeHolds
  <1>6. CASE Line!IdleTick(d)
    <2>1. LineTyped' /\ pc' = pc /\ pc[d] = "loop" /\ ~was'[d] /\ ~flags.stop
      BY <1>6 DEF Line!IdleTick, Line!Disengage, Line!Ready
    <2>2. \A e \in Tracers \ {d} : was'[e] = was[e]
      BY <1>6 DEF Line!IdleTick, Line!Disengage
    <2>3. drive' = IF was[d] THEN "coast" ELSE drive
      BY <1>6 DEF Line!IdleTick, Line!Disengage
    <2>4. Line!DriveIsOwned' /\ BrakeIsOwned'
      BY <2>1, <2>2, <2>3 DEF Line!DriveIsOwned, BrakeIsOwned
    <2>5. Line!BrakeHolds
      BY <2>1, <2>3 DEF BrakeIsOwned, Line!BrakeHolds, Line!Twins
    <2>6. QED
      BY <2>1, <2>4, <2>5
  <1>7. CASE Line!EngagedTick(d)
    BY <1>7 DEF Line!EngagedTick, Line!Ready, Line!DriveIsOwned, BrakeIsOwned, Line!BrakeHolds
  <1>8. CASE Line!RecordTick(d)
    <2>1. LineTyped' /\ drive' = drive /\ pc[d] = "drove" /\ pc'[d] = "loop" /\ was' = was
      BY <1>8 DEF Line!RecordTick
    <2>2. \A e \in Tracers \ {d} : pc'[e] = pc[e]
      BY <1>8 DEF Line!RecordTick
    <2>3. QED
      BY <2>1, <2>2 DEF Line!DriveIsOwned, BrakeIsOwned, Line!BrakeHolds
  <1>9. CASE Line!Exit(d)
    BY <1>9 DEF Line!Exit, Line!Ends, Line!DriveIsOwned, BrakeIsOwned, Line!BrakeHolds
  <1>10. QED
    BY <1>1, <1>2, <1>3, <1>4, <1>5, <1>6, <1>7, <1>8, <1>9 DEF Line!Daemon

(* So every step keeps the invariant.                                     *)
LEMMA LineStep == ASSUME LineInv, [Line!Next]_(Line!vars) PROVE LineInv' /\ (Line!BrakeHolds \/ UNCHANGED Line!vars)
PROOF
  <1>1. CASE Line!Next
    BY <1>1, VerbsLeaveIt, TracerStep DEF Line!Next
  <1>2. CASE UNCHANGED Line!vars
    BY <1>2 DEF Line!vars, LineInv, LineTyped, Line!DriveIsOwned, BrakeIsOwned
  <1>3. QED
    BY <1>1, <1>2

(* Whatever verbs of however many shells cross the ticks, and however many *)
(* daemons two starts at once have created, nothing moves without a daemon *)
(* in its loop that knows it: the wheels stand while a lone daemon         *)
(* calibrates, and the last one leaves them free.                          *)
THEOREM TracerLeavesNothingMoving == Line!Spec => []Line!DriveIsOwned
PROOF
  <1>1. Line!Init => LineInv
    BY LineInit
  <1>2. LineInv /\ [Line!Next]_(Line!vars) => LineInv'
    BY LineStep
  <1>3. LineInv => Line!DriveIsOwned
    BY DEF LineInv
  <1>4. QED
    BY <1>1, <1>2, <1>3, PTL DEF Line!Spec

(* A brake is kept: no tick and no sweep of a lone daemon softens it, and  *)
(* of two daemons it is the other one that does.                           *)
THEOREM TracerKeepsBrake == Line!Spec => [][Line!BrakeHolds]_(Line!vars)
PROOF
  <1>1. Line!Init => LineInv
    BY LineInit
  <1>2. LineInv /\ [Line!Next]_(Line!vars) => LineInv' /\ [Line!BrakeHolds]_(Line!vars)
    BY LineStep
  <1>3. QED
    BY <1>1, <1>2, PTL DEF Line!Spec

-----------------------------------------------------------------------------
(* The battery charger *)

Charge == INSTANCE Charger WITH status <- chargeStatus

(* What the detection's work item may be.                                  *)
Detections == [queued : BOOLEAN, run : Kinds \cup {"idle"}]

(* The state the charger's pins depend on.                                 *)
ChargeTyped ==
  /\ vbus \in [on : BOOLEAN, kind : Kinds]
  /\ prev \in BOOLEAN
  /\ bcd \in Detections
  /\ iset \in {0, 100, 500, 1500}

(* An edge the worker has not seen has its interrupt pending, and the      *)
(* charger is on only for a plug that was seen.                            *)
EdgesSeen ==
  /\ ~exti => (prev <=> Charge!Present)
  /\ ~prev => ~mode

(* What is asked of a plug that stays: nothing beyond its kind, unless a   *)
(* detection is yet to look at it; one that runs looks at this plug.       *)
AskedOf ==
  prev /\ ~bcd.queued =>
    IF bcd.run = "idle" THEN iset <= Charge!Allowed(vbus.kind) \/ unsure ELSE bcd.run = vbus.kind

ChargeInv == ChargeTyped /\ EdgesSeen /\ Charge!DarkInPause

(* Queueing a detection leaves the one that runs.                          *)
LEMMA Queueing ==
  ASSUME bcd \in Detections
  PROVE  /\ [bcd EXCEPT !.queued = TRUE] \in Detections
         /\ [bcd EXCEPT !.queued = TRUE].queued
  BY DEF Detections

(* The three outcomes of an edge.                                          *)
LEMMA EdgeCases ==
  ASSUME Charge!Present \in BOOLEAN, prev \in BOOLEAN
  PROVE  /\ (Charge!Present <=> prev) =>
              Charge!Edge = [mode |-> mode, iset |-> iset, bcd |-> bcd, result |-> result]
         /\ Charge!Present /\ ~prev =>
              Charge!Edge = [mode |-> TRUE, iset |-> 500, bcd |-> [bcd EXCEPT !.queued = TRUE],
                      result |-> result]
         /\ ~Charge!Present /\ prev =>
              Charge!Edge = [mode |-> FALSE, iset |-> 0, bcd |-> bcd, result |-> "none"]
  BY Zenon DEF Charge!Edge

(* What an edge leaves is of its types.                                    *)
LEMMA EdgeTyped ==
  ASSUME ChargeTyped
  PROVE  /\ Charge!Edge.bcd \in Detections
         /\ Charge!Edge.iset \in {0, 100, 500, 1500}
         /\ ~(Charge!Present <=> prev) => (Charge!Edge.mode <=> Charge!Present)
         /\ (Charge!Present <=> prev) => Charge!Edge.mode = mode /\ Charge!Edge.iset = iset /\ Charge!Edge.bcd = bcd
         /\ Charge!Present /\ ~prev => Charge!Edge.bcd.queued /\ Charge!Edge.iset = 500
PROOF
  <1> DEFINE q == [bcd EXCEPT !.queued = TRUE]
  <1>1. q \in Detections /\ q.queued
    BY Queueing DEF ChargeTyped
  <1>2. Charge!Present \in BOOLEAN /\ prev \in BOOLEAN
    BY DEF ChargeTyped, Charge!Present
  <1> HIDE DEF q
  <1>3. CASE Charge!Present <=> prev
    BY <1>2, <1>3, EdgeCases DEF ChargeTyped
  <1>4. CASE Charge!Present /\ ~prev
    <2>1. Charge!Edge = [mode |-> TRUE, iset |-> 500, bcd |-> q, result |-> result]
      BY <1>2, <1>4, EdgeCases DEF q
    <2>2. QED
      BY <1>1, <1>4, <2>1
  <1>5. CASE ~Charge!Present /\ prev
    <2>1. Charge!Edge = [mode |-> FALSE, iset |-> 0, bcd |-> bcd, result |-> "none"]
      BY <1>2, <1>5, EdgeCases
    <2>2. Charge!Edge.bcd = bcd /\ Charge!Edge.iset = 0
      BY <2>1
    <2>3. Charge!Edge.mode = FALSE
      BY <2>1
    <2>4. QED
      BY <1>5, <2>2, <2>3 DEF ChargeTyped
  <1>6. QED
    BY <1>3, <1>4, <1>5

(* With or without a plug at boot.                                         *)
LEMMA ChargeInit == ASSUME Charge!Init PROVE ChargeInv /\ AskedOf
PROOF
  <1>1. vbus \in [on : BOOLEAN, kind : Kinds] /\ Charge!Present \in BOOLEAN
    BY DEF Charge!Init, Charge!Present
  <1>2. prev = Charge!Present /\ mode = Charge!Present /\ exti = FALSE
    BY DEF Charge!Init
  <1>3. bcd = [queued |-> Charge!Present, run |-> "idle"]
    BY DEF Charge!Init
  <1>4. bcd \in Detections /\ bcd.run = "idle"
    BY <1>1, <1>3 DEF Detections
  <1>5. iset \in {0, 500}
    BY DEF Charge!Init
  <1>6. Charge!DarkInPause
    BY DEF Charge!Init, Charge!DarkInPause
  <1>7. EdgesSeen
    BY <1>2 DEF EdgesSeen
  <1>8. prev \in BOOLEAN
    BY <1>1, <1>2
  <1>9. AskedOf
    <2>1. bcd.run = "idle" /\ (iset = 0 \/ iset = 500)
      BY <1>4, <1>5
    <2>2. iset <= Charge!Allowed(vbus.kind)
      BY <2>1 DEF Charge!Allowed
    <2>3. QED
      BY <2>1, <2>2 DEF AskedOf
  <1>10. QED
    BY <1>1, <1>4, <1>5, <1>6, <1>7, <1>8, <1>9 DEF ChargeInv, ChargeTyped

(* Every plug, interrupt, poll and detection keeps what the edges promise.  *)
LEMMA ChargeStep == ASSUME Charge!ChargerAssumption, ChargeInv, [Charge!Next]_(Charge!vars) PROVE ChargeInv'
PROOF
  <1> USE DEF ChargeInv, ChargeTyped, EdgesSeen, Charge!DarkInPause, Charge!Present
  <1>1. CASE Charge!Plug
    BY <1>1 DEF Charge!Plug
  <1>2. CASE Charge!VbusWorker
    BY <1>2, EdgeTyped DEF Charge!VbusWorker
  <1>3. CASE Charge!PausedPoll
    BY <1>3 DEF Charge!PausedPoll
  <1>4. ASSUME NEW high \in BOOLEAN, NEW full \in BOOLEAN, Charge!Poll(high, full) PROVE ChargeInv'
    <2>1. vbus' = vbus /\ exti' = exti /\ prev' = Charge!Present /\ bcd' = Charge!Edge.bcd /\ ~pause.on
      BY <1>4 DEF Charge!Poll
    <2> DEFINE Expires == (IF Charge!Present THEN count + 1 ELSE 0) >= Timeout
    <2>2. CASE ~Expires
      <3>1. mode' = Charge!Present /\ iset' = Charge!Edge.iset /\ UNCHANGED pause
        BY <1>4, <2>2 DEF Charge!Poll
      <3>2. QED
        BY <2>1, <3>1, EdgeTyped
    <2>3. CASE Expires
      <3>1. mode' = FALSE
        BY <1>4, <2>3 DEF Charge!Poll
      <3>2. iset' = 0
        BY <1>4, <2>3 DEF Charge!Poll
      <3>3. led' = [colour |-> "off", n |-> led.n]
        BY <1>4, <2>3 DEF Charge!Poll, Charge!ExpiredStatus, Charge!Show
      <3>4. QED
        BY <2>1, <3>1, <3>2, <3>3, EdgeTyped
    <2>4. QED
      BY <2>2, <2>3
  <1>5. CASE Charge!BcdStart
    <2> HIDE DEF ChargeInv, ChargeTyped, EdgesSeen, Charge!DarkInPause, Charge!Present
    <2>1. vbus.kind \in Kinds
      BY DEF ChargeInv, ChargeTyped
    <2>2. bcd' \in Detections
      <3>1. CASE Charge!Present
        <4>1. bcd' = [queued |-> FALSE, run |-> vbus.kind]
          BY <1>5, <3>1 DEF Charge!BcdStart
        <4>2. QED
          BY <2>1, <4>1 DEF Detections
      <3>2. CASE ~Charge!Present
        <4>1. bcd' = [queued |-> FALSE, run |-> "idle"]
          BY <1>5, <3>2 DEF Charge!BcdStart
        <4>2. QED
          BY <4>1 DEF Detections
      <3>3. QED
        BY <3>1, <3>2
    <2>3. UNCHANGED <<vbus, exti, prev, mode, iset, pause, led>>
      BY <1>5 DEF Charge!BcdStart
    <2>4. QED
      BY <2>2, <2>3 DEF ChargeInv, ChargeTyped, EdgesSeen, Charge!DarkInPause, Charge!Present
  <1>6. CASE Charge!BcdEnd
    <2>1. bcd' \in Detections
      BY <1>6 DEF Charge!BcdEnd, Detections
    <2>2. QED
      BY <1>6, <2>1 DEF Charge!BcdEnd, Charge!Allowed
  <1>7. CASE Charge!SetCurrent
    BY <1>7 DEF Charge!SetCurrent
  <1>8. CASE UNCHANGED Charge!vars
    BY <1>8 DEF Charge!vars
  <1>9. QED
    BY <1>1, <1>2, <1>3, <1>4, <1>5, <1>6, <1>7, <1>8 DEF Charge!Next, Charge!PollStep

(* And that the current asked for is of this port, bounces or not.         *)
LEMMA AskedStep ==
  ASSUME Charge!ChargerAssumption, ChargeInv, AskedOf, [Charge!Next]_(Charge!vars)
  PROVE  AskedOf'
PROOF
  <1> USE DEF ChargeInv, ChargeTyped, EdgesSeen, AskedOf, Charge!Present, Charge!Allowed
  <1>1. CASE Charge!Plug
    BY <1>1 DEF Charge!Plug
  <1>2. CASE Charge!VbusWorker
    BY <1>2, EdgeTyped DEF Charge!VbusWorker
  <1>3. CASE Charge!PausedPoll
    BY <1>3 DEF Charge!PausedPoll
  <1>4. ASSUME NEW high \in BOOLEAN, NEW full \in BOOLEAN, Charge!Poll(high, full) PROVE AskedOf'
    <2>1. vbus' = vbus /\ prev' = Charge!Present /\ bcd' = Charge!Edge.bcd /\ iset' \in {0, Charge!Edge.iset} /\ unsure' = unsure
      BY <1>4 DEF Charge!Poll
    <2>2. CASE Charge!Present <=> prev
      BY <2>1, <2>2, EdgeTyped
    <2>3. CASE ~(Charge!Present <=> prev)
      BY <2>1, <2>3, EdgeTyped
    <2>4. QED
      BY <2>2, <2>3
  <1>5. CASE Charge!BcdStart
    <2>1. UNCHANGED <<vbus, prev, iset>>
      BY <1>5 DEF Charge!BcdStart
    <2>2. CASE Charge!Present
      <3>1. bcd'.run = vbus.kind /\ vbus.kind # "idle" /\ unsure' = unsure
        BY <1>5, <2>2 DEF Charge!BcdStart, Charge!ChargerAssumption
      <3>2. QED
        BY <2>1, <3>1
    <2>3. CASE ~Charge!Present
      <3>1. bcd'.run = "idle" /\ unsure' = TRUE
        BY <1>5, <2>3 DEF Charge!BcdStart
      <3>2. QED
        BY <2>1, <3>1
    <2>4. QED
      BY <2>2, <2>3
  <1>6. CASE Charge!BcdEnd
    <2>1. /\ bcd.run # "idle" /\ iset' = Charge!Allowed(bcd.run) /\ UNCHANGED <<vbus, prev>>
          /\ bcd'.queued = bcd.queued
      BY <1>6 DEF Charge!BcdEnd, Detections
    <2>2. bcd'.run = "idle"
      BY <1>6 DEF Charge!BcdEnd, Detections
    <2>3. iset' \in Nat /\ (prev /\ ~bcd.queued => iset' = Charge!Allowed(vbus'.kind))
      BY <2>1
    <2> HIDE DEF Charge!Allowed
    <2>4. iset' <= iset'
      BY <2>3
    <2>5. prev' /\ ~bcd'.queued => prev /\ ~bcd.queued
      BY <2>1
    <2>6. prev' /\ ~bcd'.queued => iset' <= Charge!Allowed(vbus'.kind)
      BY <2>3, <2>4, <2>5
    <2>7. QED
      BY <2>2, <2>6
  <1>7. CASE UNCHANGED Charge!vars
    BY <1>7 DEF Charge!vars
  <1>8. CASE Charge!SetCurrent
    BY <1>8 DEF Charge!SetCurrent
  <1>9. QED
    BY <1>1, <1>2, <1>3, <1>4, <1>5, <1>6, <1>7, <1>8 DEF Charge!Next, Charge!PollStep

(* Whatever order plugs, bounces, interrupts, polls, pauses and detections *)
(* come in, a charger whose plug is gone is off as soon as the interrupt   *)
(* has been handled, and in a pause the LED claims no charge.              *)
THEOREM ChargerGoesOff ==
  ASSUME Charge!ChargerAssumption PROVE Charge!Spec => [](Charge!OffWithoutVbus /\ Charge!DarkInPause)
PROOF
  <1>1. Charge!Init => ChargeInv
    BY ChargeInit
  <1>2. ChargeInv /\ [Charge!Next]_(Charge!vars) => ChargeInv'
    BY ChargeStep
  <1>3. ChargeInv => Charge!OffWithoutVbus /\ Charge!DarkInPause
    BY DEF ChargeInv, EdgesSeen, Charge!OffWithoutVbus
  <1>4. QED
    BY <1>1, <1>2, <1>3, PTL DEF Charge!Spec

(* A port is never asked for more than its kind allows once edges and      *)
(* detections are through, however often and quickly ports are exchanged   *)
(* and contacts bounce, unless an ioctl set the current or a detection     *)
(* found no plug, and none has ended since.                                *)
THEOREM PortIsNotOverdrawn == ASSUME Charge!ChargerAssumption PROVE Charge!Spec => []Charge!WithinPort
PROOF
  <1>1. Charge!Init => ChargeInv /\ AskedOf
    BY ChargeInit
  <1>2. ChargeInv /\ AskedOf /\ [Charge!Next]_(Charge!vars) => (ChargeInv /\ AskedOf)'
    BY ChargeStep, AskedStep
  <1>3. ChargeInv /\ AskedOf => Charge!WithinPort
    BY DEF AskedOf, Charge!WithinPort, Charge!Settled
  <1>4. QED
    BY <1>1, <1>2, <1>3, PTL DEF Charge!Spec

-----------------------------------------------------------------------------
(* The program slot *)

Slot == INSTANCE ProgramStorage WITH result <- saveResult

(* Programs have a record of at least one block, None is no program, and   *)
(* a file that does not exist has no content a record could have.          *)
SlotAssumption ==
  /\ Slot!SizeAssumption
  /\ None \notin Programs
  /\ \A p \in Programs : Slot!Record(p) # Absent

(* The steps of a SAVE after the request, in which memory is a program.    *)
Saving == step # "idle"

SaveTyped ==
  /\ memory \in Programs \cup {None}
  /\ step \in Slot!Steps
  /\ Saving => memory \in Programs

(* The slot file is absent or a whole record: rename is the only step that *)
(* touches it.                                                             *)
FileWhole == file # Absent => \E p \in Programs : file = Slot!Record(p)

(* What bw_program_save has behind it: the blocks written so far, and the  *)
(* whole record once the last piece is out.                                *)
TmpFollows ==
  /\ step = "write" =>
       pos \in 0 .. Size(memory) - 1 /\ tmp = SubSeq(Slot!Record(memory), 1, pos)
  /\ step \in {"fsync", "close", "rename"} => tmp = Slot!Record(memory)

(* Only data that survive a loss of power are renamed over the slot file.  *)
RenamesSynced == step \in {"close", "rename"} => synced

StorageInv == SaveTyped /\ FileWhole /\ TmpFollows /\ RenamesSynced /\ Slot!ReportIsTrue

(* A record names its program.                                             *)
LEMMA RecordInjective ==
  ASSUME SlotAssumption, NEW p \in Programs, NEW q \in Programs,
         Slot!Record(p) = Slot!Record(q)
  PROVE  p = q
PROOF
  <1>1. Size(p) \in Nat \ {0} /\ Size(q) \in Nat \ {0}
    BY DEF SlotAssumption, Slot!SizeAssumption
  <1>2. Slot!Record(p)[1] = <<p, 1>> /\ Slot!Record(q)[1] = <<q, 1>>
    BY <1>1 DEF Slot!Record
  <1>3. QED
    BY <1>2

(* A write that follows the pos first blocks of a record gives its n       *)
(* first; the last one gives the record.                                   *)
LEMMA WriteExtends ==
  ASSUME SlotAssumption, NEW p \in Programs, NEW k \in 0 .. Size(p) - 1,
         NEW n \in k + 1 .. Size(p), tmp = SubSeq(Slot!Record(p), 1, k)
  PROVE  /\ SubSeq(Slot!Record(p), 1, n) \o SubSeq(tmp, n + 1, Len(tmp))
              = SubSeq(Slot!Record(p), 1, n)
         /\ SubSeq(Slot!Record(p), 1, Size(p)) = Slot!Record(p)
PROOF
  <1> DEFINE B == Programs \X Nat
             r == Slot!Record(p)
  <1>1. Size(p) \in Nat \ {0}
    BY DEF SlotAssumption, Slot!SizeAssumption
  <1>2. r \in Seq(B) /\ Len(r) = Size(p)
    BY <1>1 DEF Slot!Record
  <1> HIDE DEF r, B
  <1>3. tmp \in Seq(B) /\ Len(tmp) = k
    BY <1>1, <1>2 DEF r
  <1>4. SubSeq(tmp, n + 1, Len(tmp)) = << >>
    BY <1>1, <1>3
  <1>5. SubSeq(r, 1, n) \in Seq(B)
    BY <1>1, <1>2
  <1>6. SubSeq(r, 1, n) \o << >> = SubSeq(r, 1, n)
    BY <1>5
  <1>7. SubSeq(r, 1, Size(p)) = r
    BY <1>1, <1>2
  <1>8. QED
    BY <1>4, <1>6, <1>7 DEF r

(* The states after power-up satisfy the invariant.                        *)
LEMMA StorageInit == ASSUME SlotAssumption, Slot!Init PROVE StorageInv
  BY DEF Slot!Init, StorageInv, SaveTyped, Saving, Slot!Steps, FileWhole, TmpFollows,
         RenamesSynced, Slot!ReportIsTrue

(* Every step, failures and losses of power included, preserves it.        *)
LEMMA StorageStep ==
  ASSUME SlotAssumption, StorageInv, [Slot!Next]_(Slot!vars) PROVE StorageInv'
PROOF
  <1> USE DEF StorageInv, SaveTyped, Saving, Slot!Steps, FileWhole, TmpFollows,
              RenamesSynced, Slot!ReportIsTrue
  <1>1. ASSUME NEW p \in Programs, Slot!Commit(p) PROVE StorageInv'
    BY <1>1 DEF Slot!Commit
  <1>2. ASSUME NEW id \in Slot!Ids, Slot!SaveRequest(id) PROVE StorageInv'
    BY <1>2 DEF Slot!SaveRequest
  <1>3. ASSUME NEW id \in Slot!Ids, Slot!LoadRequest(id) PROVE StorageInv'
    BY <1>3 DEF Slot!LoadRequest, Slot!Restored
  <1>4. CASE Slot!OpenTmp
    <2>1. memory \in Programs /\ Size(memory) \in Nat \ {0}
      BY <1>4 DEF Slot!OpenTmp, SlotAssumption, Slot!SizeAssumption
    <2>2. SubSeq(Slot!Record(memory), 1, 0) = << >>
      BY <2>1
    <2>3. QED
      BY <1>4, <2>1, <2>2 DEF Slot!OpenTmp
  <1>5. ASSUME step = "write", NEW n \in 1 .. Size(memory), Slot!Write(n)
        PROVE  StorageInv'
    <2>1. memory \in Programs /\ Size(memory) \in Nat \ {0}
      BY <1>5 DEF SlotAssumption, Slot!SizeAssumption
    <2>2. /\ pos \in 0 .. Size(memory) - 1 /\ n \in pos + 1 .. Size(memory)
          /\ tmp = SubSeq(Slot!Record(memory), 1, pos)
      BY <1>5 DEF Slot!Write
    <2>3. /\ SubSeq(Slot!Record(memory), 1, n) \o SubSeq(tmp, n + 1, Len(tmp))
               = SubSeq(Slot!Record(memory), 1, n)
          /\ SubSeq(Slot!Record(memory), 1, Size(memory)) = Slot!Record(memory)
      BY <2>1, <2>2, WriteExtends, Zenon
    <2>4. /\ tmp' = SubSeq(Slot!Record(memory), 1, n)
          /\ n = Size(memory) => tmp' = Slot!Record(memory)
      BY <1>5, <2>3 DEF Slot!Write
    <2>5. memory' = memory /\ file' = file /\ saveResult' = saveResult /\ pos' = n
          /\ step' = IF n = Size(memory) THEN "fsync" ELSE "write"
      BY <1>5 DEF Slot!Write
    <2>6. n # Size(memory) => n \in 0 .. Size(memory) - 1
      BY <2>1, <2>2
    <2>7. QED
      BY <2>1, <2>4, <2>5, <2>6
  <1>6. CASE Slot!Fsync
    BY <1>6 DEF Slot!Fsync
  <1>7. CASE Slot!Close
    BY <1>7 DEF Slot!Close
  <1>8. CASE Slot!Rename
    BY <1>8 DEF Slot!Rename
  <1>9. CASE Slot!Fail
    BY <1>9 DEF Slot!Fail
  <1>10. CASE Slot!Unlink
    BY <1>10 DEF Slot!Unlink
  <1>11. CASE Slot!PowerLoss
    BY <1>11 DEF Slot!PowerLoss
  <1>12. CASE UNCHANGED Slot!vars
    BY <1>12 DEF Slot!vars
  <1>13. QED
    BY <1>1, <1>2, <1>3, <1>4, <1>5, <1>6, <1>7, <1>8, <1>9, <1>10, <1>11,
       <1>12 DEF Slot!Next

(* The invariant of the storage machine.                                   *)
THEOREM StorageInvariant == ASSUME SlotAssumption PROVE Slot!Spec => []StorageInv
PROOF
  <1>1. Slot!Init => StorageInv
    BY StorageInit
  <1>2. StorageInv /\ [Slot!Next]_(Slot!vars) => StorageInv'
    BY StorageStep
  <1>3. QED
    BY <1>1, <1>2, PTL DEF Slot!Spec

(* SAVE answers success only while the program in memory is in the slot.   *)
THEOREM SaveReportIsTrue == ASSUME SlotAssumption PROVE Slot!Spec => []Slot!ReportIsTrue
  BY StorageInvariant, PTL DEF StorageInv

(* A loss of power never meets a slot file whose data were not on the      *)
(* flash when rename put them there: bw_program_save renames after fsync.  *)
THEOREM OnlySyncedReplaces == ASSUME SlotAssumption PROVE Slot!Spec => []RenamesSynced
  BY StorageInvariant, PTL DEF StorageInv

(* What the slot shows: the program whose record the file is.              *)
LEMMA ContentOfRecord ==
  ASSUME SlotAssumption, NEW p \in Programs, file = Slot!Record(p)
  PROVE  Slot!SlotContent = p
PROOF
  <1>1. \A q \in Programs : file = Slot!Record(q) => q = p
    BY RecordInjective
  <1>2. QED
    BY <1>1 DEF Slot!SlotContent

(* A missing file shows no program.                                        *)
LEMMA ContentOfAbsent ==
  ASSUME SlotAssumption, file = Absent PROVE Slot!SlotContent = None
  BY DEF Slot!SlotContent, SlotAssumption

(* Every step of SAVE, LOAD, a failure or a loss of power is a step of the *)
(* cell of ProgramSlot, or leaves it alone.                                *)
LEMMA StorageSlotStep ==
  ASSUME SlotAssumption, StorageInv, [Slot!Next]_(Slot!vars) PROVE Slot!SlotStep
PROOF
  <1> USE DEF Slot!SlotStep
  <1>1. ASSUME UNCHANGED <<memory, file>> PROVE UNCHANGED <<memory, Slot!SlotContent>>
    BY <1>1 DEF Slot!SlotContent
  <1>2. ASSUME UNCHANGED file PROVE UNCHANGED Slot!SlotContent
    BY <1>2 DEF Slot!SlotContent
  <1>3. ASSUME NEW p \in Programs, Slot!Commit(p) PROVE Slot!SlotStep
    <2>1. Slot!Abstract!Commit(p)
      BY <1>2, <1>3 DEF Slot!Commit, Slot!Abstract!Commit
    <2>2. QED
      BY <2>1 DEF Slot!Abstract!Next
  <1>4. ASSUME NEW id \in Slot!Ids, Slot!LoadRequest(id) PROVE Slot!SlotStep
    <2>1. PICK p \in Programs : file = Slot!Record(p) /\ memory' = p
      BY <1>4 DEF Slot!LoadRequest, Slot!Restored
    <2>2. Slot!SlotContent = p /\ p # None
      BY <2>1, ContentOfRecord DEF SlotAssumption
    <2>3. Slot!Abstract!Load
      BY <1>2, <1>4, <2>1, <2>2 DEF Slot!LoadRequest, Slot!Abstract!Load
    <2>4. QED
      BY <2>3 DEF Slot!Abstract!Next
  <1>5. CASE Slot!Rename
    <2>1. memory \in Programs /\ tmp = Slot!Record(memory)
      BY <1>5 DEF Slot!Rename, StorageInv, SaveTyped, Saving, TmpFollows
    <2>2. file' = Slot!Record(memory) /\ memory' = memory /\ memory # None
      BY <1>5, <2>1 DEF Slot!Rename, SlotAssumption
    <2>3. \A q \in Programs : file' = Slot!Record(q) <=> q = memory
      BY <2>1, <2>2, RecordInjective
    <2>4. Slot!SlotContent' = memory
      BY <2>1, <2>3 DEF Slot!SlotContent, Slot!Record
    <2>5. Slot!Abstract!Save
      BY <2>2, <2>4 DEF Slot!Abstract!Save
    <2>6. QED
      BY <2>5 DEF Slot!Abstract!Next
  <1>6. CASE Slot!PowerLoss
    <2>1. Slot!Abstract!PowerLoss
      BY <1>2, <1>6 DEF Slot!PowerLoss, Slot!Abstract!PowerLoss
    <2>2. QED
      BY <2>1 DEF Slot!Abstract!Next
  <1>7. ASSUME NEW id \in Slot!Ids, Slot!SaveRequest(id) PROVE Slot!SlotStep
    BY <1>1, <1>7 DEF Slot!SaveRequest
  <1>8. ASSUME NEW n, Slot!Write(n) PROVE Slot!SlotStep
    BY <1>1, <1>8 DEF Slot!Write
  <1>9. CASE Slot!OpenTmp \/ Slot!Fsync \/ Slot!Close \/ Slot!Fail \/ Slot!Unlink \/ UNCHANGED Slot!vars
    BY <1>1, <1>9 DEF Slot!OpenTmp, Slot!Fsync, Slot!Close, Slot!Fail, Slot!Unlink, Slot!vars
  <1>10. QED
    BY <1>3, <1>4, <1>5, <1>6, <1>7, <1>8, <1>9 DEF Slot!Next

(* The slot file of a board that was switched on is absent or a record.    *)
LEMMA SlotInit == ASSUME SlotAssumption, Slot!Init PROVE Slot!Abstract!Init
PROOF
  <1>1. Slot!SlotContent \in Programs \cup {None}
    <2>1. CASE file = Absent
      BY <2>1, ContentOfAbsent
    <2>2. ASSUME NEW p \in Programs, file = Slot!Record(p)
          PROVE  Slot!SlotContent \in Programs \cup {None}
      BY <2>2, ContentOfRecord
    <2>3. QED
      BY <2>1, <2>2 DEF Slot!Init
  <1>2. QED
    BY <1>1 DEF Slot!Init, Slot!Abstract!Init

(* The storage machine implements the slot: whatever fails and whenever    *)
(* power is lost, SAVE replaces the saved program in one step or not at    *)
(* all, and LOAD returns exactly what was saved.                           *)
THEOREM StorageImplementsSlot == ASSUME SlotAssumption PROVE Slot!Spec => Slot!SlotPromise
PROOF
  <1>1. Slot!Init => Slot!Abstract!Init
    BY SlotInit
  <1>2. StorageInv /\ [Slot!Next]_(Slot!vars) => [Slot!Abstract!Next]_<<memory, Slot!SlotContent>>
    BY StorageSlotStep DEF Slot!SlotStep
  <1>3. QED
    BY <1>1, <1>2, StorageInvariant, PTL DEF Slot!Spec, Slot!SlotPromise, Slot!Abstract!Spec
=============================================================================
