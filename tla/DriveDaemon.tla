---------------------------- MODULE DriveDaemon -----------------------------
(***************************************************************************)
(* Life cycle of the drive base daemon (apps/drivebase): start and stop,   *)
(* daemon_task_main with its failure paths and teardown, the RT thread of  *)
(* drivebase_rt.c, and the recovery of lost motor ports: the freeze        *)
(* handshake between the daemon's idle loop and the RT tick over the       *)
(* atomics of drivebase_motor.c.                                           *)
(*                                                                         *)
(* A step is an access to one shared flag, or a stretch of code between    *)
(* two of them.  A side is a motor; its claim goes stale when the motor is *)
(* pulled out, and the LUMP engine then coasts the port.                   *)
(***************************************************************************)
EXTENDS Naturals, FiniteSets

CONSTANTS
  Sides,    \* DB_SIDE_LEFT, DB_SIDE_RIGHT
  MaxTask,  \* bound on the tasks created
  MaxPull,  \* bound on the motors pulled out
  Hasty     \* start may be called again before the new task has run

DaemonAssumption == Hasty \in BOOLEAN /\ {MaxTask, MaxPull} \subseteq Nat

VARIABLES
  state, running,  \* g_daemon->state, g_daemon->running
  posts,           \* value of teardown_done
  tasks,           \* task number -> where it is
  created,         \* tasks created so far
  caller,          \* the shell: "idle", or "waiting" in stop
  clean,           \* history: the last call was a stop that returned 0
  initialised,     \* g_initialised: both motor descriptors are open
  attached,        \* the kernel shim holds the daemon's attachment
  rt,              \* RT thread: "none", "wait", "gate", "use", "gone"
  rtRun,           \* rt->running
  frozen, rtIdle,  \* g_motor_io_frozen, g_rt_idle
  pending,         \* g_reclaim_request
  todo,            \* sides daemon_try_reclaim has still to try
  stale, out,      \* sides with a stale claim; sides without a motor
  pulls,
  pwm              \* sides that are driven

control == <<state, running, posts, created, caller, clean>>
motor == <<initialised, stale, out, pulls>>
handshake == <<frozen, rtIdle, pending, todo>>
thread == <<rt, rtRun>>
vars == <<control, tasks, motor, attached, thread, handshake, pwm>>

Tasks == 1 .. MaxTask
Over == {"none", "post", "done"}
Live == {t \in Tasks : tasks[t] \notin Over}

Init ==
  /\ state = "stopped" /\ running = FALSE /\ posts = 0 /\ created = 0
  /\ tasks = [t \in Tasks |-> "none"] /\ caller = "idle" /\ clean = FALSE
  /\ initialised = FALSE /\ attached = FALSE /\ rt = "none" /\ rtRun = FALSE
  /\ frozen = FALSE /\ rtIdle = FALSE /\ pending = {} /\ todo = {}
  /\ stale = {} /\ out = {} /\ pulls = 0 /\ pwm = {}

Goto(t, place) == tasks' = [tasks EXCEPT ![t] = place]

(***************************************************************************)
(* The shell                                                               *)
(***************************************************************************)

(* drivebase_daemon_start: drains the semaphore and creates the task; the  *)
(* state changes only when the task runs.                                  *)
Start ==
  /\ caller = "idle" /\ state = "stopped" /\ created < MaxTask
  /\ Hasty \/ \A t \in Tasks : tasks[t] # "boot"
  /\ posts' = 0 /\ created' = created + 1 /\ clean' = FALSE
  /\ Goto(created + 1, "boot")
  /\ UNCHANGED <<state, running, caller, motor, attached, thread, handshake, pwm>>

(* drivebase_daemon_stop; -EAGAIN when the state is STOPPED.               *)
Stop ==
  /\ caller = "idle" /\ state # "stopped"
  /\ running' = FALSE /\ caller' = "waiting" /\ clean' = FALSE
  /\ UNCHANGED <<state, posts, created, tasks, motor, attached, thread, handshake, pwm>>

StopReturns ==
  /\ caller = "waiting"
  /\ \/ posts > 0 /\ posts' = posts - 1 /\ clean' = TRUE
     \/ UNCHANGED <<posts, clean>>                           \* -ETIMEDOUT
  /\ caller' = "idle"
  /\ UNCHANGED <<state, running, created, tasks, motor, attached, thread, handshake, pwm>>

(***************************************************************************)
(* daemon_task_main                                                        *)
(***************************************************************************)

(* Configuration is loaded and the flags are set, running first.           *)
Boot(t) ==
  /\ tasks[t] = "boot"
  /\ running' = TRUE /\ state' = "init"
  /\ Goto(t, "motors")
  /\ UNCHANGED <<posts, created, caller, clean, motor, attached, thread, handshake, pwm>>

ClearRecovery ==
  frozen' = FALSE /\ rtIdle' = FALSE /\ pending' = {} /\ todo' = {}

(* drivebase_motor_init: opens and claims both sides, or gives up after    *)
(* ten seconds of retries.                                                 *)
MotorInit(t) ==
  /\ tasks[t] = "motors"
  /\ IF initialised THEN Goto(t, "fail") /\ UNCHANGED <<motor, handshake>>
     ELSE /\ ClearRecovery
          /\ \/ /\ out = {} /\ initialised' = TRUE /\ stale' = {} /\ Goto(t, "attach")
             \/ Goto(t, "fail") /\ UNCHANGED <<initialised, stale>>
          /\ UNCHANGED <<out, pulls>>
  /\ UNCHANGED <<control, attached, thread, pwm>>

(* db_drivebase_init and reset, settings frozen, battery, DAEMON_ATTACH;   *)
(* any of them may fail.                                                   *)
AttachShim(t) ==
  /\ tasks[t] = "attach"
  /\ \/ ~attached /\ attached' = TRUE /\ Goto(t, "imu")
     \/ UNCHANGED attached /\ Goto(t, "failmotor")
  /\ UNCHANGED <<control, motor, thread, handshake, pwm>>

(* IMU and gyro mode, then the RT thread unless a stop came in meanwhile.  *)
StartRt(t) ==
  /\ tasks[t] = "imu"
  /\ IF ~running
     THEN state' = "teardown" /\ Goto(t, "join") /\ UNCHANGED thread
     ELSE \/ rt' = "wait" /\ rtRun' = TRUE /\ Goto(t, "started") /\ UNCHANGED state
          \/ Goto(t, "failchardev") /\ UNCHANGED <<state, thread>>
  /\ UNCHANGED <<running, posts, created, caller, clean, motor, attached, handshake, pwm>>

Started(t) ==
  /\ tasks[t] = "started"
  /\ state' = "running" /\ Goto(t, "idle")
  /\ UNCHANGED <<running, posts, created, caller, clean, motor, attached, thread, handshake, pwm>>

(* The idle loop: recover lost ports, publish, poll the battery.           *)
IdleLoop(t) ==
  /\ tasks[t] = "idle"
  /\ IF ~running THEN state' = "teardown" /\ Goto(t, "join") /\ UNCHANGED rtIdle
     ELSE /\ pending # {}
          /\ rtIdle' = FALSE /\ Goto(t, "freeze") /\ UNCHANGED state
  /\ UNCHANGED <<running, posts, created, caller, clean, motor, attached, thread,
                 frozen, pending, todo, pwm>>

Freeze(t) ==
  /\ tasks[t] = "freeze"
  /\ frozen' = TRUE /\ Goto(t, "await")
  /\ UNCHANGED <<control, motor, attached, thread, rtIdle, pending, todo, pwm>>

(* Mutant: the reclaim begins although the RT thread did not answer.       *)
AckedAnyway(t) ==
  /\ tasks[t] = "await"
  /\ todo' = pending /\ Goto(t, "reclaim")
  /\ UNCHANGED <<control, motor, attached, thread, frozen, rtIdle, pending, pwm>>

Acked(t) ==
  /\ tasks[t] = "await" /\ rtIdle /\ running
  /\ todo' = pending /\ Goto(t, "reclaim")
  /\ UNCHANGED <<control, motor, attached, thread, frozen, rtIdle, pending, pwm>>

(* Twelve waits of 2 ms without an answer, or a stop.                      *)
AckTimeout(t) ==
  /\ tasks[t] = "await" /\ (~running \/ ~rtIdle)
  /\ frozen' = FALSE /\ Goto(t, "idle")
  /\ UNCHANGED <<control, motor, attached, thread, rtIdle, pending, todo, pwm>>

(* drivebase_motor_reclaim of one side: closed, opened and claimed again.  *)
Reclaim(t) ==
  /\ tasks[t] = "reclaim" /\ running
  /\ \E s \in todo :
       /\ todo' = todo \ {s}
       /\ IF s \notin out THEN stale' = stale \ {s} /\ pending' = pending \ {s}
          ELSE stale' = stale \cup {s} /\ UNCHANGED pending
  /\ UNCHANGED <<control, tasks, initialised, out, pulls, attached, thread, frozen, rtIdle, pwm>>

(* Once both sides are back the drive base is reset, which may find one of *)
(* them lost again; then RT runs again.                                    *)
Thaw(t) ==
  /\ tasks[t] = "reclaim" /\ (todo = {} \/ ~running)
  /\ IF pending # {} THEN UNCHANGED pending ELSE pending' \in SUBSET stale
  /\ frozen' = FALSE /\ todo' = {} /\ Goto(t, "idle")
  /\ UNCHANGED <<control, motor, attached, thread, rtIdle, pwm>>

(* db_rt_stop: asks the thread to leave and joins it.                      *)
Join(t) ==
  /\ tasks[t] = "join"
  /\ rtRun' = FALSE
  /\ IF rt \in {"none", "gone"} THEN rt' = "none" /\ Goto(t, "down")
     ELSE UNCHANGED <<rt, tasks>>
  /\ UNCHANGED <<control, motor, attached, handshake, pwm>>

(* Mutant: the sides are closed without a coast.                           *)
DownDriven(t) ==
  /\ tasks[t] = "down"
  /\ attached' = FALSE /\ initialised' = FALSE /\ ClearRecovery
  /\ Goto(t, "stopped")
  /\ UNCHANGED <<control, stale, out, pulls, thread, pwm>>

(* Coast both sides (a stale side is coasted already), detach, deinit.     *)
Down(t) ==
  /\ tasks[t] = "down"
  /\ pwm' = {} /\ attached' = FALSE /\ initialised' = FALSE /\ ClearRecovery
  /\ Goto(t, "stopped")
  /\ UNCHANGED <<control, stale, out, pulls, thread>>

(* The failure labels; nothing was driven yet.                             *)
Fail(t) ==
  /\ tasks[t] \in {"fail", "failmotor", "failchardev"}
  /\ IF tasks[t] = "fail" THEN UNCHANGED <<initialised, handshake>>
     ELSE initialised' = FALSE /\ ClearRecovery
  /\ attached' = IF tasks[t] = "failchardev" THEN FALSE ELSE attached
  /\ running' = FALSE /\ Goto(t, "stopped")
  /\ UNCHANGED <<state, posts, created, caller, clean, stale, out, pulls, thread, pwm>>

Stopped(t) ==
  /\ tasks[t] = "stopped"
  /\ state' = "stopped" /\ Goto(t, "post")
  /\ UNCHANGED <<running, posts, created, caller, clean, motor, attached, thread, handshake, pwm>>

Post(t) ==
  /\ tasks[t] = "post"
  /\ posts' = posts + 1 /\ Goto(t, "done")
  /\ UNCHANGED <<state, running, created, caller, clean, motor, attached, thread, handshake, pwm>>

(***************************************************************************)
(* The RT thread: db_rt_thread and rt_tick_cb                              *)
(***************************************************************************)

(* Mutant: the thread stays at the gate without an answer.                 *)
RtWakeSilent ==
  /\ rt = "wait"
  /\ rt' = IF ~rtRun THEN "gone" ELSE IF frozen THEN "gate" ELSE "use"
  /\ UNCHANGED <<control, tasks, motor, attached, rtRun, handshake, pwm>>

(* The thread wakes and reads the freeze flag.  At the gate it answers at  *)
(* once: nothing between the two accesses can block, and the thread's      *)
(* priority of 220 keeps the daemon task, at 100, from running in between. *)
RtWake ==
  /\ rt = "wait"
  /\ rt' = IF ~rtRun THEN "gone" ELSE IF frozen THEN "gate" ELSE "use"
  /\ rtIdle' = (rtIdle \/ rt' = "gate")
  /\ UNCHANGED <<control, tasks, motor, attached, rtRun, frozen, pending, todo, pwm>>

(* The gate publishes a keep-alive, which may block, and honours a stop.   *)
RtGate ==
  /\ rt = "gate"
  /\ rt' = IF running THEN "wait" ELSE "gone"
  /\ UNCHANGED <<control, tasks, motor, attached, rtRun, handshake, pwm>>

(* One control tick.  A side whose claim is stale is found by its drain or *)
(* its actuation and requested; both wheels coast in the same tick, and as *)
(* long as a request is pending.  A stalled loop coasts and asks for       *)
(* teardown.                                                               *)
RtUse ==
  /\ rt = "use"
  /\ pending' = pending \cup stale
  /\ \E drive \in SUBSET Sides, stalled \in BOOLEAN :
       /\ pwm' = IF pending' # {} \/ stalled THEN {} ELSE drive
       /\ running' = (running /\ ~stalled)
  /\ rt' = IF running' THEN "wait" ELSE "gone"
  /\ UNCHANGED <<state, posts, created, caller, clean, tasks, motor, attached,
                 rtRun, frozen, rtIdle, todo>>

(***************************************************************************)
(* The environment                                                         *)
(***************************************************************************)

(* db_watchdog_work: nobody publishes for 50 ms.                           *)
Watchdog ==
  /\ attached /\ rt \in {"none", "gone"}
  /\ attached' = FALSE /\ pwm' = {}
  /\ UNCHANGED <<control, tasks, motor, thread, handshake>>

Pull(s) ==
  /\ s \notin out /\ pulls < MaxPull
  /\ out' = out \cup {s} /\ stale' = IF initialised THEN stale \cup {s} ELSE stale
  /\ pulls' = pulls + 1 /\ pwm' = pwm \ {s}
  /\ UNCHANGED <<control, tasks, initialised, attached, thread, handshake>>

Plug(s) ==
  /\ s \in out /\ out' = out \ {s}
  /\ UNCHANGED <<control, tasks, initialised, stale, pulls, attached, thread, handshake, pwm>>

TaskStep(t) ==
  \/ Boot(t) \/ MotorInit(t) \/ AttachShim(t) \/ StartRt(t) \/ Started(t)
  \/ IdleLoop(t) \/ Freeze(t) \/ Acked(t) \/ AckTimeout(t) \/ Reclaim(t) \/ Thaw(t)
  \/ Join(t) \/ Down(t) \/ Fail(t) \/ Stopped(t) \/ Post(t)
RtStep == RtWake \/ RtGate \/ RtUse

Next ==
  \/ Start \/ Stop \/ StopReturns \/ Watchdog \/ RtStep
  \/ \E t \in Tasks : TaskStep(t)
  \/ \E s \in Sides : Pull(s) \/ Plug(s)

Spec == Init /\ [][Next]_vars

FrozenUse == RtUse /\ frozen
FrozenWake == RtWake /\ frozen

(* Both threads run; a motor that was pulled out is put back; the wait for *)
(* the answer spans twelve ticks, so a living RT thread sees the freeze.   *)
FairSpec ==
  /\ Spec /\ WF_vars(RtStep) /\ SF_vars(FrozenUse) /\ SF_vars(FrozenWake)
  /\ \A t \in Tasks : WF_vars(TaskStep(t)) /\ SF_vars(Acked(t)) /\ SF_vars(Reclaim(t))
  /\ \A s \in Sides : WF_vars(Plug(s))

-----------------------------------------------------------------------------
Places == {"none", "boot", "motors", "attach", "imu", "started", "idle", "freeze",
           "await", "reclaim", "join", "down", "fail", "failmotor", "failchardev",
           "stopped", "post", "done"}

TypeOK ==
  /\ state \in {"stopped", "init", "running", "teardown"}
  /\ {running, clean, initialised, attached, rtRun, frozen, rtIdle} \subseteq BOOLEAN
  /\ posts \in 0 .. MaxTask /\ created \in 0 .. MaxTask /\ caller \in {"idle", "waiting"}
  /\ tasks \in [Tasks -> Places] /\ rt \in {"none", "wait", "gate", "use", "gone"}
  /\ {pending, todo, stale, out, pwm} \subseteq SUBSET Sides /\ pulls \in 0 .. MaxPull
  /\ todo \subseteq pending

(* While the idle loop closes and opens motor descriptors and resets the   *)
(* drive base, the RT tick uses neither, however the answers of earlier    *)
(* freezes, timeouts and stops interleave.                                 *)
Exclusive ==
  \A t \in Tasks : tasks[t] = "reclaim" => rt # "use"

(* When a daemon is over, by a stop, a stall or a failed start, its motors *)
(* rest, its descriptors and its attachment are gone, its RT thread is     *)
(* joined, and no recovery flag is left that would block the next one.     *)
StoppedIsClean ==
  Live = {} => /\ ~initialised /\ ~attached /\ pwm = {}
               /\ rt = "none" /\ ~frozen /\ pending = {}

(* The RT thread and the descriptors it uses never outlive their task.     *)
RtHasMotors == rt \in {"wait", "gate", "use"} => initialised

(* No wheel turns while a lost port waits for its recovery, not even the   *)
(* other one, and not while the recovery keeps the RT tick frozen.         *)
PendingIsStill == pending # {} => pwm = {}

FreezeEndsDue == frozen
FreezeEndsMet == ~frozen

(* The RT thread is not left at the freeze gate.                           *)
FreezeEnds == FreezeEndsDue ~> FreezeEndsMet

RecoversDue == pending # {}
RecoversMet == pending = {} \/ ~running

(* A requested recovery completes when the motor is back, or the daemon    *)
(* ends.                                                                   *)
Recovers == RecoversDue ~> RecoversMet

DaemonEndsDue(t) == tasks[t] \notin {"none", "boot", "done"} /\ ~running
DaemonEndsMet(t) == tasks[t] = "done"

(* A stop request ends the daemon, also one that arrives during start-up,  *)
(* a recovery or a stalled loop.                                           *)
DaemonEnds == \A t \in Tasks : DaemonEndsDue(t) ~> DaemonEndsMet(t)

(* drivebase_daemon_stop returns 0 only when the daemon has ended.         *)
StopIsHonest == clean => Live = {}

(* A second start while a daemon exists creates no second one.             *)
OneDaemon == Cardinality(Live) <= 1
=============================================================================
