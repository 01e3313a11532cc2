---------------------------- MODULE DriveDevice -----------------------------
(***************************************************************************)
(* /dev/drivebase (stm32_drivebase_chardev.c), two state machines.         *)
(*                                                                         *)
(* The command path: the kernel shim (command ring, emergency stop, attach *)
(* state, stale-daemon watchdog) and the daemon's side of it in            *)
(* drivebase_chardev_handler.c, with the tick of drivebase_daemon.c that   *)
(* calls it. A step of a user is one critical section of producer_lock or  *)
(* one access of output_epoch; a step of the RT thread is one PICKUP_CMD,  *)
(* or the update of the motors. A drive command is its number, which is    *)
(* also what the bridge shows while it follows the command; the other      *)
(* kinds do not start a motion and are "other". Arguments that the shim    *)
(* refuses (NULL, -EFAULT, a port index above 5) leave everything          *)
(* unchanged.                                                              *)
(*                                                                         *)
(* The snapshots: the state in a double buffer, the status under a         *)
(* seqlock, the jitter histogram and its reset request. Three priorities   *)
(* on one core. The real-time thread (220) publishes the state and the     *)
(* watchdog (LPWORK, 176) detaches, each without being interrupted by the  *)
(* others modelled here; the daemon's task (100) publishes status and      *)
(* jitter; users (100) read. A copy of several words is one step per       *)
(* Field. A snapshot is named by the number of its publication, 0 being    *)
(* the zeroed one.                                                         *)
(***************************************************************************)
EXTENDS Sequences, SequencesExt, FiniteSets, Integers

CONSTANTS
  Users,      \* threads that issue ioctls
  Capacity,   \* DB_CMD_RING_DEPTH - 1
  Batch,      \* envelopes taken per tick
  StallLimit, \* DAEMON_STALL_LIMIT
  MaxCmd,     \* bound on the drive commands
  MaxStop,    \* bound on output_epoch
  MaxAttach   \* bound on the attaches

RingAssumption == {Capacity, Batch, StallLimit, MaxCmd, MaxStop} \subseteq Nat \ {0}

VARIABLES
  ring,     \* cmd_buf between cmd_tail and cmd_head
  epoch,    \* output_epoch
  attached, attaches,
  pwm,      \* drive command the bridges follow, 0 when coasting or braking
  users,    \* user -> its call in progress
  daemon,   \* "none", "up", or "late": ticks are past their deadline
  rt,       \* [at, taken]: where the RT thread is in its tick
  moving,   \* the command db follows
  seen,     \* output_epoch_seen
  misses,   \* consecutive_misses
  cmds,     \* drive commands issued
  returned, \* history: drive commands whose call succeeded
  doomed    \* history: those of them that returned before a STOP was called

kernel == <<ring, epoch, attached, attaches>>
process == <<daemon, rt, moving, seen, misses>>
history == <<returned, doomed>>
vars == <<kernel, pwm, users, process, cmds, history>>

Other == 0
Kinds == {"cmd", "stop"}
Idle == [at |-> "idle", epoch |-> 0, id |-> 0, before |-> {}]
Resting == [at |-> "rest", taken |-> 0]

Init ==
  /\ ring = <<>> /\ epoch = 0 /\ attached = FALSE /\ attaches = 0 /\ pwm = 0
  /\ users = [u \in Users |-> Idle]
  /\ daemon = "none" /\ rt = Resting /\ moving = 0 /\ seen = 0 /\ misses = 0
  /\ cmds = 0 /\ returned = {} /\ doomed = {}

IsStop(e) == e.kind = "stop"
HasStop(s) == \E i \in DOMAIN s : IsStop(s[i])

(***************************************************************************)
(* The ring                                                                *)
(***************************************************************************)

(* A STOP that finds the ring full drops the oldest envelope that is none. *)
MakeRoom(s) ==
  LET droppable == {i \in DOMAIN s : ~IsStop(s[i])}
  IN IF Len(s) = Capacity /\ droppable # {}
     THEN RemoveAt(s, CHOOSE i \in droppable : \A j \in droppable : i <= j)
     ELSE s

(* Mutant: a STOP is merged with one further ahead in the ring.            *)
PushStopAnywhere(s, e) ==
  IF HasStop(s) THEN [i \in DOMAIN s |-> IF IsStop(s[i]) THEN e ELSE s[i]]
  ELSE Append(MakeRoom(s), e)

(* db_push_envelope of a STOP: merged with a STOP at the tail.             *)
PushStop(s, e) ==
  IF s # <<>> /\ IsStop(Last(s)) THEN [s EXCEPT ![Len(s)] = e]
  ELSE Append(MakeRoom(s), e)

(***************************************************************************)
(* ioctls of the users                                                     *)
(***************************************************************************)

(* db_handle_user_drive up to the load of the epoch.                       *)
DriveCall(u) ==
  /\ users[u].at = "idle" /\ cmds < MaxCmd
  /\ attached
  /\ \E moves \in BOOLEAN :
       users' = [users EXCEPT ![u] = [Idle EXCEPT !.at = "push", !.epoch = epoch,
                                        !.id = IF moves THEN cmds + 1 ELSE Other]]
  /\ cmds' = cmds + 1
  /\ UNCHANGED <<kernel, pwm, process, history>>

(* db_push_envelope: a full ring refuses anything but STOP with -EBUSY.    *)
DrivePush(u) ==
  /\ users[u].at = "push"
  /\ IF Len(ring) = Capacity THEN UNCHANGED <<ring, returned>>
     ELSE /\ ring' = Append(ring, [kind |-> "cmd", epoch |-> users[u].epoch, id |-> users[u].id])
          /\ returned' = returned \cup ({users[u].id} \ {Other})
  /\ users' = [users EXCEPT ![u] = Idle]
  /\ UNCHANGED <<epoch, attached, attaches, pwm, process, cmds, doomed>>

(* db_handle_stop: bump the epoch, actuate, push.                          *)
StopCall(u) ==
  /\ users[u].at = "idle" /\ epoch < MaxStop
  /\ attached
  /\ epoch' = epoch + 1
  /\ users' = [users EXCEPT ![u] = [Idle EXCEPT !.at = "actuate", !.epoch = epoch + 1,
                                                !.before = returned]]
  /\ UNCHANGED <<ring, attached, attaches, pwm, process, cmds, history>>

(* db_emergency_actuate does nothing once the ports are unregistered.      *)
EmergencyActuate == pwm' = IF attached THEN 0 ELSE pwm

StopActuate(u) ==
  /\ users[u].at = "actuate"
  /\ EmergencyActuate
  /\ users' = [users EXCEPT ![u].at = "pushstop"]
  /\ UNCHANGED <<kernel, process, cmds, history>>

StopPush(u) ==
  /\ users[u].at = "pushstop"
  /\ ring' = PushStop(ring, [kind |-> "stop", epoch |-> users[u].epoch, id |-> Other])
  /\ doomed' = doomed \cup users[u].before
  /\ users' = [users EXCEPT ![u] = Idle]
  /\ UNCHANGED <<epoch, attached, attaches, pwm, process, cmds, returned>>

(***************************************************************************)
(* The daemon                                                              *)
(***************************************************************************)

(* db_chardev_handler_attach and DAEMON_ATTACH: the ring survives.         *)
Attach ==
  /\ daemon = "none" /\ ~attached /\ attaches < MaxAttach
  /\ attached' = TRUE /\ attaches' = attaches + 1
  /\ daemon' = "up" /\ rt' = Resting /\ moving' = 0 /\ seen' = 0 /\ misses' = 0
  /\ UNCHANGED <<ring, epoch, pwm, users, cmds, history>>

TickStart ==
  /\ daemon # "none" /\ rt.at = "rest"
  /\ rt' = [at |-> "drain", taken |-> 0]
  /\ UNCHANGED <<kernel, pwm, users, daemon, moving, seen, misses, cmds, history>>

(* Mutant: a STOP only records its epoch.                                  *)
DispatchEpochOnly(e) ==
  IF IsStop(e) THEN seen' = e.epoch /\ UNCHANGED moving
  ELSE /\ moving' = IF e.id # Other /\ e.epoch >= seen THEN e.id ELSE moving
       /\ UNCHANGED seen

(* dispatch_envelope: a motion of an older epoch is dropped.               *)
Dispatch(e) ==
  IF IsStop(e) THEN seen' = e.epoch /\ moving' = 0
  ELSE /\ moving' = IF e.id # Other /\ e.epoch >= seen THEN e.id ELSE moving
       /\ UNCHANGED seen

(* DAEMON_PICKUP_CMD and its dispatch; the drive may also be refused by    *)
(* its own checks and leave db as it was.                                  *)
PickUp ==
  /\ rt.at = "drain" /\ attached /\ rt.taken < Batch /\ ring # <<>>
  /\ \/ Dispatch(Head(ring))
     \/ ~IsStop(Head(ring)) /\ UNCHANGED <<moving, seen>>
  /\ ring' = Tail(ring)
  /\ rt' = [rt EXCEPT !.taken = @ + 1]
  /\ UNCHANGED <<epoch, attached, attaches, pwm, users, daemon, misses, cmds, history>>

(* -EAGAIN, -ENOTCONN or the sixteenth envelope ends the loop.             *)
DrainEnds ==
  /\ rt.at = "drain"
  /\ ~attached \/ rt.taken = Batch \/ ring = <<>>
  /\ rt' = [rt EXCEPT !.at = "update"]
  /\ UNCHANGED <<kernel, pwm, users, daemon, moving, seen, misses, cmds, history>>

(* db_drivebase_update, which completes a motion or goes on with it, and   *)
(* the stall check: DAEMON_STALL_LIMIT late ticks coast and leave.         *)
Update ==
  /\ rt.at = "update"
  /\ IF daemon = "late" /\ misses + 1 >= StallLimit
     THEN pwm' = 0 /\ moving' = 0 /\ misses' = 0 /\ daemon' = "leaving"
     ELSE /\ \E done \in {m \in BOOLEAN : m => moving # 0} :
               moving' = (IF done THEN 0 ELSE moving) /\ pwm' = (IF done THEN 0 ELSE moving)
          /\ misses' = IF daemon = "late" THEN misses + 1 ELSE 0
          /\ UNCHANGED daemon
  /\ rt' = IF daemon' = "leaving" THEN [at |-> "gone", taken |-> 0] ELSE Resting
  /\ UNCHANGED <<kernel, users, seen, cmds, history>>

(* The RT thread does not get to run for DB_STALE_THRESHOLD_MS: its next   *)
(* ticks are late.                                                         *)
Stall ==
  /\ daemon = "up"
  /\ daemon' = "late"
  /\ UNCHANGED <<kernel, pwm, users, rt, moving, seen, misses, cmds, history>>

(* drivebase_daemon_stop ends the RT thread between two ticks.             *)
StopDaemon ==
  /\ daemon \in {"up", "late"} /\ rt.at = "rest"
  /\ daemon' = "leaving" /\ rt' = [at |-> "gone", taken |-> 0]
  /\ UNCHANGED <<kernel, pwm, users, moving, seen, misses, cmds, history>>

(* Teardown coasts both motors and then detaches.                          *)
Teardown ==
  /\ daemon = "leaving"
  /\ pwm' = 0 /\ attached' = FALSE
  /\ daemon' = "none" /\ rt' = Resting /\ moving' = 0
  /\ UNCHANGED <<ring, epoch, attaches, users, seen, misses, cmds, history>>

(* db_detach_locked(dev, true).                                            *)
Detach == EmergencyActuate /\ attached' = FALSE

(* The task dies and its descriptor is closed: db_chardev_close.           *)
Crash ==
  /\ daemon # "none"
  /\ Detach
  /\ daemon' = "none" /\ rt' = Resting /\ moving' = 0
  /\ UNCHANGED <<ring, epoch, attaches, users, seen, misses, cmds, history>>

(* db_watchdog_work finds the last publish 50 ms old.                      *)
Watchdog ==
  /\ daemon = "late" /\ attached
  /\ Detach
  /\ UNCHANGED <<ring, epoch, attaches, users, process, cmds, history>>

RtStep == TickStart \/ PickUp \/ DrainEnds \/ Update
UserStep(u) == DrivePush(u) \/ StopActuate(u) \/ StopPush(u)

Next ==
  \/ \E u \in Users : DriveCall(u) \/ StopCall(u) \/ UserStep(u)
  \/ RtStep \/ Attach \/ Stall \/ StopDaemon \/ Teardown \/ Crash \/ Watchdog

Spec == Init /\ [][Next]_vars

(* The RT thread ticks while its daemon lives, a call in the kernel goes   *)
(* on, and a teardown that began is finished.                              *)
FairSpec ==
  /\ Spec /\ WF_vars(RtStep) /\ WF_vars(Teardown) /\ \A u \in Users : WF_vars(UserStep(u))

-----------------------------------------------------------------------------
Ids == 0 .. MaxCmd
Envelopes == [kind : Kinds, epoch : 0 .. MaxStop, id : Ids]

(* The ring holds at most Capacity envelopes, also when a STOP is pushed   *)
(* into a full one.                                                        *)
TypeOK ==
  /\ ring \in BoundedSeq(Envelopes, Capacity)
  /\ epoch \in 0 .. MaxStop /\ seen \in 0 .. MaxStop
  /\ attached \in BOOLEAN /\ attaches \in 0 .. MaxAttach
  /\ pwm \in Ids /\ moving \in Ids /\ cmds \in Ids
  /\ daemon \in {"none", "up", "late", "leaving"} /\ misses \in 0 .. StallLimit
  /\ rt.at \in {"rest", "drain", "update", "gone"} /\ rt.taken \in 0 .. Batch
  /\ \A u \in Users : users[u].at \in {"idle", "push", "actuate", "pushstop"}
  /\ returned \subseteq 1 .. MaxCmd /\ doomed \subseteq returned

(* A drive command that had returned when STOP was called is overtaken by  *)
(* a STOP as long as it waits in the ring, whatever was dropped or merged. *)
StopBehindDoomed ==
  \A i \in DOMAIN ring : ring[i].id \in doomed =>
    \E j \in DOMAIN ring : j > i /\ IsStop(ring[j])

(* When the daemon has taken every STOP it no longer follows a command     *)
(* that one of them ended, across crashes and attaches of the daemon.      *)
StopEndsMotion == moving \in doomed => HasStop(ring)

(* ... and at the end of its tick the bridges do not show it any more.     *)
StopEndsOutput == pwm \in doomed /\ rt.at = "rest" /\ attached => HasStop(ring)

StopTakesEffectDue(c) == c \in doomed
StopTakesEffectMet(c) == pwm # c \/ daemon = "none"

(* A command that a STOP ended is off the bridges in the end, unless the   *)
(* daemon dies after it was detached.                                      *)
StopTakesEffect == \A c \in 1 .. MaxCmd : StopTakesEffectDue(c) ~> StopTakesEffectMet(c)

DetachedStopsDue == ~attached /\ daemon = "late"
DetachedStopsMet == pwm = 0 \/ daemon = "none"

(* A daemon that the watchdog detached has a motion left that no STOP can  *)
(* reach any more: it comes to rest by itself, unless the task dies first. *)
DetachedStops == DetachedStopsDue ~> DetachedStopsMet

(* A dead daemon's descriptors are closed, and with that the motors rest.  *)
DeadIsStill == daemon = "none" => pwm = 0

(* As soon as STOP has returned, no command that it ended drives a bridge. *)
StopIsImmediate ==
  (\A u \in Users : users[u].at = "idle") => pwm \notin doomed

-----------------------------------------------------------------------------
(* Published snapshots *)

CONSTANTS User,
          Preempt,       \* which operations may be interrupted, see Preemptions
          MaxPub,        \* bound on status publications
          MaxTick,       \* bound on state publications
          MaxLives,      \* bound on daemons
          MaxResets      \* bound on the reset requests

Field == 1..2
\* "user": a user's read by the daemon; "daemon": the daemon's write by a user; "watchdog": the
\* daemon's write by the watchdog; "ticks": one copy of the state by more than one tick
Preemptions == {"user", "daemon", "watchdog", "ticks"}

DriveStatusAssumption == {MaxPub, MaxTick, MaxLives, MaxResets} \subseteq Nat /\ Preempt \subseteq Preemptions

VARIABLES
    attachedTo,            \* the attached daemon, or 0
    status, status_seq,
    state_db, state_active,
    jitter, jitter_reset_pending,
    pubs, ticks, lives, resets,     \* how many there were
    dm,                  \* the daemon: step, what it writes, its histogram's snapshot
    rt_since,            \* requests made before the real-time thread's histogram was last cleared
    rd                   \* each user: step, s1, s2, slot, its copy, ticks during the copy, the last state it had

statusVars == <<attachedTo, status, status_seq, state_db, state_active, jitter, jitter_reset_pending, pubs, ticks, lives,
          resets, dm, rt_since, rd>>
jit == <<jitter, jitter_reset_pending, resets, rt_since>>
stat == <<status, status_seq, pubs>>
st == <<state_db, state_active, ticks>>

Zero == [f \in Field |-> 0]
Whole(c) == \A f, g \in Field : c[f] = c[g]
DmDown == [pc |-> "down", f |-> 0, v |-> 0, since |-> 0]
RdIdle == [pc |-> "idle", s1 |-> 0, s2 |-> -1, slot |-> 0, f |-> 0, copy |-> Zero, during |-> 0, had |-> 0]

StatusInit ==
    /\ attachedTo = 0 /\ status = Zero /\ status_seq = 0 /\ state_db = [s \in 0..1 |-> Zero] /\ state_active = 0
    /\ jitter = [since |-> 0, by |-> 0] /\ jitter_reset_pending = FALSE
    /\ pubs = 0 /\ ticks = 0 /\ lives = 0 /\ resets = 0 /\ dm = DmDown /\ rt_since = 0
    /\ rd = [u \in User |-> RdIdle]

Reading == \E u \in User : rd[u].pc \notin {"idle", "got"}
Writing == dm.pc \in {"publish", "copy", "even"}
DaemonRuns == Reading => "user" \in Preempt
UserRuns == Writing => "daemon" \in Preempt

-----------------------------------------------------------------------------
(* The daemon's task. *)

\* db_handle_daemon_attach; the new real-time thread has an empty histogram
StatusAttach ==
    /\ DaemonRuns /\ dm.pc = "down" /\ attachedTo = 0 /\ lives < MaxLives
    /\ lives' = lives + 1 /\ attachedTo' = lives + 1 /\ dm' = [DmDown EXCEPT !.pc = "loop"] /\ rt_since' = resets
    /\ UNCHANGED <<jitter, jitter_reset_pending, resets, rd>> /\ UNCHANGED stat /\ UNCHANGED st

\* db_chardev_handler_publish_status: the ioctl's test of the attachment
PublishStatus ==
    /\ DaemonRuns /\ dm.pc = "loop"
    /\ dm' = [dm EXCEPT !.pc = IF attachedTo = lives /\ pubs < MaxPub THEN "publish" ELSE "claim", !.v = pubs + 1]
    /\ pubs' = IF attachedTo = lives /\ pubs < MaxPub THEN pubs + 1 ELSE pubs
    /\ UNCHANGED <<attachedTo, status, status_seq, lives, rd>> /\ UNCHANGED st /\ UNCHANGED jit

\* the seqlock's writer: odd, the fields, even
WriteStatus ==
    /\ DaemonRuns
    /\ \/ /\ dm.pc = "publish" /\ status_seq' = status_seq + 1 /\ dm' = [dm EXCEPT !.pc = "copy", !.f = 1] /\ UNCHANGED status
       \/ /\ dm.pc = "copy" /\ status' = [status EXCEPT ![dm.f] = dm.v] /\ UNCHANGED status_seq
          /\ dm' = IF dm.f = 2 THEN [dm EXCEPT !.pc = "even"] ELSE [dm EXCEPT !.f = 2]
       \/ /\ dm.pc = "even" /\ status_seq' = status_seq + 1 /\ UNCHANGED status
          /\ dm' = [dm EXCEPT !.pc = IF dm.v = 0 THEN "down" ELSE "claim", !.f = 0]
    /\ UNCHANGED <<attachedTo, pubs, lives, rd>> /\ UNCHANGED st /\ UNCHANGED jit

\* DRIVEBASE_DAEMON_CLAIM_JITTER_RESET
ClaimReset ==
    /\ DaemonRuns /\ dm.pc = "claim"
    /\ IF attachedTo = lives THEN /\ jitter_reset_pending' = FALSE
                                /\ dm' = [dm EXCEPT !.pc = IF jitter_reset_pending THEN "reset" ELSE "snapshot"]
       ELSE UNCHANGED jitter_reset_pending /\ dm' = [dm EXCEPT !.pc = "snapshot"]
    /\ UNCHANGED <<attachedTo, jitter, resets, rt_since, lives, rd>> /\ UNCHANGED stat /\ UNCHANGED st

\* db_rt_reset_jitter
ResetJitter ==
    /\ DaemonRuns /\ dm.pc = "reset" /\ rt_since' = resets /\ dm' = [dm EXCEPT !.pc = "snapshot"]
    /\ UNCHANGED <<attachedTo, jitter, jitter_reset_pending, resets, lives, rd>> /\ UNCHANGED stat /\ UNCHANGED st

\* db_rt_get_jitter
GetJitter ==
    /\ DaemonRuns /\ dm.pc = "snapshot" /\ dm' = [dm EXCEPT !.pc = "jitter", !.since = rt_since]
    /\ UNCHANGED <<attachedTo, lives, rd>> /\ UNCHANGED stat /\ UNCHANGED st /\ UNCHANGED jit

\* db_chardev_handler_publish_jitter
PublishJitter ==
    /\ DaemonRuns /\ dm.pc = "jitter" /\ dm' = [dm EXCEPT !.pc = "loop"]
    /\ jitter' = IF attachedTo = lives THEN [since |-> dm.since, by |-> lives] ELSE jitter
    /\ UNCHANGED <<attachedTo, jitter_reset_pending, resets, rt_since, lives, rd>> /\ UNCHANGED stat /\ UNCHANGED st

\* DRIVEBASE_DAEMON_DETACH or close: db_detach_locked in the daemon's own task
Leave ==
    /\ DaemonRuns /\ dm.pc = "loop" /\ attachedTo' = 0
    /\ dm' = IF attachedTo = lives THEN [dm EXCEPT !.pc = "publish", !.v = 0] ELSE DmDown
    /\ UNCHANGED <<lives, rd>> /\ UNCHANGED stat /\ UNCHANGED st /\ UNCHANGED jit

-----------------------------------------------------------------------------
\* db_watchdog_work finds the last publication too old
StatusWatchdog ==
    /\ attachedTo # 0 /\ attachedTo' = 0 /\ (Writing => "watchdog" \in Preempt)
    /\ status' = Zero /\ status_seq' = status_seq + 2
    /\ UNCHANGED <<pubs, lives, dm, rd>> /\ UNCHANGED st /\ UNCHANGED jit

\* db_publish_state of the real-time thread: the inactive slot, then the swap
PublishState ==
    /\ lives > 0 /\ attachedTo = lives /\ dm.pc # "down" /\ ticks < MaxTick /\ ticks' = ticks + 1
    /\ \A u \in User : rd[u].pc = "copyState" => rd[u].during = 0 \/ "ticks" \in Preempt
    /\ state_db' = [state_db EXCEPT ![1 - state_active] = [f \in Field |-> ticks + 1]] /\ state_active' = 1 - state_active
    /\ rd' = [u \in User |-> IF rd[u].pc = "copyState" THEN [rd[u] EXCEPT !.during = 1] ELSE rd[u]]
    /\ UNCHANGED <<attachedTo, lives, dm>> /\ UNCHANGED stat /\ UNCHANGED jit

-----------------------------------------------------------------------------
(* The users. *)

UserOnly == UNCHANGED <<attachedTo, lives, dm>> /\ UNCHANGED stat /\ UNCHANGED st

\* DRIVEBASE_JITTER_RESET
AskReset(u) ==
    /\ UserRuns /\ rd[u].pc = "idle" /\ resets < MaxResets /\ resets' = resets + 1 /\ jitter_reset_pending' = TRUE
    /\ UNCHANGED <<jitter, rt_since, rd>> /\ UserOnly

\* DRIVEBASE_GET_STATE: the active slot is chosen
GetState(u) ==
    /\ UserRuns /\ rd[u].pc = "idle" /\ attachedTo # 0
    /\ rd' = [rd EXCEPT ![u] = [RdIdle EXCEPT !.pc = "copyState", !.slot = state_active, !.f = 1, !.had = rd[u].had]]
    /\ UserOnly /\ UNCHANGED jit

\* ... and copied
CopyState(u) ==
    /\ UserRuns /\ rd[u].pc = "copyState"
    /\ LET c == [rd[u].copy EXCEPT ![rd[u].f] = state_db[rd[u].slot][rd[u].f]] IN
       rd' = [rd EXCEPT ![u] = IF rd[u].f = 2 THEN [@ EXCEPT !.copy = c, !.pc = "got"] ELSE [@ EXCEPT !.copy = c, !.f = 2]]
    /\ UserOnly /\ UNCHANGED jit

\* the caller takes the state
TakeState(u) ==
    /\ UserRuns /\ rd[u].pc = "got" /\ rd[u].slot >= 0
    /\ rd' = [rd EXCEPT ![u] = [RdIdle EXCEPT !.had = rd[u].copy[1]]] /\ UserOnly /\ UNCHANGED jit

\* DRIVEBASE_GET_STATUS
GetStatus(u) ==
    /\ UserRuns /\ rd[u].pc = "idle"
    /\ rd' = [rd EXCEPT ![u] = [RdIdle EXCEPT !.pc = "s1", !.slot = -1, !.had = rd[u].had]] /\ UserOnly /\ UNCHANGED jit

\* db_read_status, one round: s1; `continue' goes to the test of the loop
LoadS1(u) ==
    /\ UserRuns /\ rd[u].pc = "s1"
    /\ rd' = [rd EXCEPT ![u] = [@ EXCEPT !.s1 = status_seq, !.f = 1, !.pc = IF status_seq % 2 = 1 THEN "test" ELSE "copy"]]
    /\ UserOnly /\ UNCHANGED jit

CopyStatus(u) ==
    /\ UserRuns /\ rd[u].pc = "copy"
    /\ LET c == [rd[u].copy EXCEPT ![rd[u].f] = status[rd[u].f]] IN
       rd' = [rd EXCEPT ![u] = IF rd[u].f = 2 THEN [@ EXCEPT !.copy = c, !.pc = "s2"] ELSE [@ EXCEPT !.copy = c, !.f = 2]]
    /\ UserOnly /\ UNCHANGED jit

LoadS2(u) ==
    /\ UserRuns /\ rd[u].pc = "s2" /\ rd' = [rd EXCEPT ![u].s2 = status_seq, ![u].pc = "test"] /\ UserOnly /\ UNCHANGED jit

\* any copy is returned
TestOnce(u) ==
    /\ UserRuns /\ rd[u].pc = "test" /\ rd' = [rd EXCEPT ![u].pc = "got"] /\ UserOnly /\ UNCHANGED jit

\* while (s1 != s2)
Test(u) ==
    /\ UserRuns /\ rd[u].pc = "test" /\ rd' = [rd EXCEPT ![u].pc = IF rd[u].s1 # rd[u].s2 THEN "s1" ELSE "got"]
    /\ UserOnly /\ UNCHANGED jit

\* the caller takes the status
TakeStatus(u) ==
    /\ UserRuns /\ rd[u].pc = "got" /\ rd[u].slot = -1
    /\ rd' = [rd EXCEPT ![u] = [RdIdle EXCEPT !.had = rd[u].had]] /\ UserOnly /\ UNCHANGED jit

ReadStep(u) == CopyState(u) \/ TakeState(u) \/ LoadS1(u) \/ CopyStatus(u) \/ LoadS2(u) \/ Test(u) \/ TakeStatus(u)
DaemonStep == PublishStatus \/ WriteStatus \/ ClaimReset \/ ResetJitter \/ GetJitter \/ PublishJitter

StatusNext ==
    \/ StatusAttach \/ DaemonStep \/ Leave \/ StatusWatchdog \/ PublishState
    \/ \E u \in User : AskReset(u) \/ GetState(u) \/ GetStatus(u) \/ ReadStep(u)

StatusSpec == StatusInit /\ [][StatusNext]_statusVars

\* equal priorities share the processor: a reader and the daemon both get on
StatusFairSpec == StatusSpec /\ WF_statusVars(DaemonStep) /\ WF_statusVars(StatusAttach) /\ \A u \in User : WF_statusVars(ReadStep(u))

-----------------------------------------------------------------------------
StatusTypeOK ==
    /\ attachedTo \in 0..MaxLives /\ status \in [Field -> 0..MaxPub] /\ status_seq \in Nat
    /\ state_db \in [0..1 -> [Field -> 0..MaxTick]] /\ state_active \in 0..1
    /\ jitter \in [since : 0..MaxResets, by : 0..MaxLives] /\ jitter_reset_pending \in BOOLEAN
    /\ dm.pc \in {"down", "loop", "publish", "copy", "even", "claim", "reset", "snapshot", "jitter"}
    /\ (status_seq % 2 = 1 <=> dm.pc \in {"copy", "even"})
    /\ rt_since \in 0..resets /\ \A u \in User : rd[u].s2 \in -1..status_seq /\ rd[u].s1 \in 0..status_seq

\* A status that GET_STATUS returns comes from one publication or one detach, however often the copy
\* was interrupted (seqlock of db_read_status).
StatusWhole == \A u \in User : rd[u].pc = "got" /\ rd[u].slot = -1 => Whole(rd[u].copy)

\* A state that GET_STATE returns comes from one tick (double buffer of db_read_state).
StateWhole == \A u \in User : rd[u].pc = "got" /\ rd[u].slot >= 0 => Whole(rd[u].copy)

\* A user never gets a state older than one it has had, across swaps and new daemons.
NeverBack == \A u \in User : rd[u].pc = "got" /\ rd[u].slot >= 0 => \A f \in Field : rd[u].copy[f] >= rd[u].had

\* Once a detach is over, the status is the zeroed one until a daemon publishes again
\* (db_detach_locked: a detached device reads as a zeroed snapshot).
DetachedIsZero == attachedTo = 0 /\ ~Writing => status = Zero

\* When the daemon is back at the top of its loop and no request is pending, the jitter it has
\* published holds nothing recorded before the last request, whichever moment the request came at.
ResetIsClean ==
    dm.pc = "loop" /\ ~jitter_reset_pending /\ attachedTo = lives /\ jitter.by = lives => jitter.since = resets

ResetIsClaimedDue == jitter_reset_pending
ResetIsClaimedMet == ~jitter_reset_pending \/ attachedTo = 0

\* A request for a reset is claimed, or no daemon is attached any more.
ResetIsClaimed == ResetIsClaimedDue ~> ResetIsClaimedMet

ReadEndsDue(u) == rd[u].pc = "s1"
ReadEndsMet(u) == rd[u].pc = "got"

\* A read of the status ends although the daemon is interrupted in the middle of its write.
ReadEnds == \A u \in User : ReadEndsDue(u) ~> ReadEndsMet(u)
=============================================================================
