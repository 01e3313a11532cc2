----------------------------- MODULE LineTrace ------------------------------
(***************************************************************************)
(* The line tracer (linetrace_main.c), two state machines.                 *)
(*                                                                         *)
(* A daemon that follows a line at a fixed rate, and the verbs of its      *)
(* command line, which are tasks of their own and talk to the daemon       *)
(* through flags without a lock. `start' looks at g_daemon_running, opens  *)
(* and asks the drive base, reads the configuration, and only then         *)
(* announces the daemon it creates: two shells that start at once get two  *)
(* daemons, which share the flags, the parameters and the statistics. The  *)
(* steering itself is abstracted to the edge it was computed for; the      *)
(* drive base to the last command it was given.                            *)
(*                                                                         *)
(* The lap capture: a buffer on the heap, armed by one command, filled by  *)
(* the daemon, frozen by a stop, a brake or a full buffer, and handed to   *)
(* an export task that may be killed at any moment. g_cap_lock makes each  *)
(* verb atomic from its lock on; whether a daemon runs, a verb has looked  *)
(* at before. The daemon's append drops the lock while it asks the drive   *)
(* base for its state, and an export keeps the buffer without it.          *)
(***************************************************************************)
EXTENDS Naturals, FiniteSets

CONSTANTS Shells,       \* command lines that may be active at once
          Tracers,      \* daemons that may be alive at once
          MaxCommands,  \* verbs of a behaviour
          MaxTicks      \* ticks pidstat can tell apart

BoundsAssumption ==
    /\ MaxCommands \in Nat /\ MaxTicks \in Nat /\ IsFiniteSet(Shells)

VARIABLES
    pc,        \* per daemon: "none", "open", "loop", "cal", "braked", "drove"
    flags,     \* running, stop, calReq, calDone, brakeReq, engaged
    was,       \* was_engaged, local to each daemon
    params,    \* speed ("zero", "config", "run") and edge
    drive,     \* last command to the drive base: "idle", "forever", "coast", "brake"
    record,    \* per daemon: the edge of its last turn, and the one recorded
    cli,       \* per shell: what it waits for, or how far its start has come
    stat,      \* g_stats as pidstat sees it, and its own sums
    wanted,    \* a run has succeeded and no brake, stop or start was issued since
    touched,   \* a run or a brake was issued in this life of the daemon
    issued     \* verbs so far

vars == <<pc, flags, was, params, drive, record, cli, stat, wanted, touched, issued>>

Edges == {"left", "right"}

TypeOK ==
    /\ pc \in [Tracers -> {"none", "open", "loop", "cal", "braked", "drove"}]
    /\ flags \in [running : BOOLEAN, stop : BOOLEAN, calReq : BOOLEAN,
                  calDone : BOOLEAN, brakeReq : BOOLEAN, engaged : BOOLEAN]
    /\ was \in [Tracers -> BOOLEAN]
    /\ params \in [speed : {"zero", "config", "run"}, edge : Edges]
    /\ drive \in {"idle", "forever", "coast", "brake"}
    /\ record \in [Tracers -> [turn : Edges, label : Edges]]
    /\ cli \in [Shells -> {"idle", "check", "load", "create",
                           "stop", "cal", "brake", "pidstat"}]
    /\ stat \in [active : BOOLEAN, iter : 0..MaxTicks, count : 0..MaxTicks,
                 begin : 0..MaxTicks, end : 0..MaxTicks, reported : 0..MaxTicks]
    /\ wanted \in BOOLEAN /\ touched \in BOOLEAN /\ issued \in 0..MaxCommands

NoStat == [active |-> FALSE, iter |-> 0, count |-> 0, begin |-> 0, end |-> 0,
           reported |-> 0]

Init ==
    /\ pc = [d \in Tracers |-> "none"]
    /\ flags = [running |-> FALSE, stop |-> FALSE, calReq |-> FALSE,
                calDone |-> FALSE, brakeReq |-> FALSE, engaged |-> FALSE]
    /\ was = [d \in Tracers |-> FALSE]
    /\ params = [speed |-> "zero", edge |-> "left"]
    /\ drive = "idle"
    /\ record = [d \in Tracers |-> [turn |-> "left", label |-> "left"]]
    /\ cli = [s \in Shells |-> "idle"]
    /\ stat = NoStat
    /\ wanted = FALSE /\ touched = FALSE /\ issued = 0

(***************************************************************************)
(* The verbs                                                               *)
(***************************************************************************)

Issue(s) ==
    /\ cli[s] = "idle"
    /\ issued < MaxCommands
    /\ issued' = issued + 1

\* do_start: refused while a daemon is announced ...
StartCheck(s) ==
    /\ Issue(s) /\ ~flags.running
    /\ cli' = [cli EXCEPT ![s] = "check"]
    /\ UNCHANGED <<pc, flags, was, params, drive, record, stat, wanted, touched>>

\* ... or if the drive base does not open or is busy.  The parameters become
\* the compiled defaults, while the configuration file is read ...
StartOpen(s) ==
    /\ cli[s] = "check"
    /\ \/ cli' = [cli EXCEPT ![s] = "idle"] /\ UNCHANGED params
       \/ /\ cli' = [cli EXCEPT ![s] = "load"]
          /\ params' = [speed |-> "zero", edge |-> "left"]
    /\ UNCHANGED <<pc, flags, was, drive, record, stat, wanted, touched, issued>>

\* ... which overlays them.  The statistics and the flags are reset, the
\* brake request is not, and the daemon is announced ...
StartAnnounce(s) ==
    /\ cli[s] = "load"
    /\ cli' = [cli EXCEPT ![s] = "create"]
    /\ \E speed \in {params.speed, "config"}, edge \in {params.edge, "right"} :
         params' = [speed |-> speed, edge |-> edge]
    /\ flags' = [flags EXCEPT !.running = TRUE, !.stop = FALSE,
                   !.calReq = FALSE, !.calDone = FALSE, !.engaged = FALSE]
    /\ stat' = [NoStat EXCEPT !.active = stat.active]
    /\ wanted' = FALSE /\ touched' = FALSE
    /\ UNCHANGED <<pc, was, drive, record, issued>>

\* ... and created, or task_create fails.
StartCreate(s) ==
    /\ cli[s] = "create"
    /\ cli' = [cli EXCEPT ![s] = "idle"]
    /\ \/ flags' = [flags EXCEPT !.running = FALSE] /\ UNCHANGED pc
       \/ /\ \E d \in Tracers : pc[d] = "none" /\ pc' = [pc EXCEPT ![d] = "open"]
          /\ UNCHANGED flags
    /\ UNCHANGED <<was, params, drive, record, stat, wanted, touched, issued>>

Starting(s) == StartOpen(s) \/ StartAnnounce(s) \/ StartCreate(s)

DoStop(s) ==
    /\ Issue(s) /\ flags.running
    /\ flags' = [flags EXCEPT !.stop = TRUE]
    /\ cli' = [cli EXCEPT ![s] = "stop"]
    /\ wanted' = FALSE
    /\ UNCHANGED <<pc, was, params, drive, record, stat, touched>>

\* do_run: the parameters, the reset request and the engagement.
DoRun(s) ==
    /\ Issue(s) /\ flags.running
    /\ \E speed \in {"zero", "run", params.speed} :
         params' = [params EXCEPT !.speed = speed]
    /\ flags' = [flags EXCEPT !.engaged = TRUE]
    /\ wanted' = ~flags.stop /\ touched' = TRUE
    /\ UNCHANGED <<pc, was, drive, record, cli, stat>>

DoSetEdge(s) ==
    /\ Issue(s) /\ flags.running
    /\ \E e \in Edges : params' = [params EXCEPT !.edge = e]
    /\ UNCHANGED <<pc, flags, was, drive, record, cli, stat, wanted, touched>>

DoCal(s) ==
    /\ Issue(s) /\ flags.running
    /\ params.speed = "zero" /\ ~flags.calReq
    /\ flags' = [flags EXCEPT !.calDone = FALSE, !.calReq = TRUE]
    /\ cli' = [cli EXCEPT ![s] = "cal"]
    /\ UNCHANGED <<pc, was, params, drive, record, stat, wanted, touched>>

DoBrake(s) ==
    /\ Issue(s) /\ flags.running
    /\ flags' = [flags EXCEPT !.brakeReq = TRUE]
    /\ cli' = [cli EXCEPT ![s] = "brake"]
    /\ wanted' = FALSE /\ touched' = TRUE
    /\ UNCHANGED <<pc, was, params, drive, record, stat>>

\* A verb that waits: its answer has come, or its time is over.
Answered(s) ==
    \/ cli[s] = "stop" /\ ~flags.running
    \/ cli[s] = "cal" /\ flags.calDone
    \/ cli[s] = "brake" /\ ~flags.brakeReq

Return(s) ==
    /\ Answered(s)
    /\ cli' = [cli EXCEPT ![s] = "idle"]
    /\ UNCHANGED <<pc, flags, was, params, drive, record, stat, wanted, touched, issued>>

\* Only cal takes its request back.
TimedOut(s) ==
    /\ cli[s] \in {"stop", "cal", "brake"} /\ ~Answered(s)
    /\ cli' = [cli EXCEPT ![s] = "idle"]
    /\ flags' = IF cli[s] = "cal" THEN [flags EXCEPT !.calReq = FALSE] ELSE flags
    /\ UNCHANGED <<pc, was, params, drive, record, stat, wanted, touched, issued>>

\* do_pidstat, by one shell at a time: reset and activate, snapshots that
\* take and clear the interval, and the end.
PidstatBegin(s) ==
    /\ Issue(s) /\ flags.running
    /\ \A t \in Shells : cli[t] # "pidstat"
    /\ stat' = [stat EXCEPT !.active = TRUE, !.count = 0, !.begin = stat.iter,
                            !.end = stat.iter, !.reported = 0]
    /\ cli' = [cli EXCEPT ![s] = "pidstat"]
    /\ UNCHANGED <<pc, flags, was, params, drive, record, wanted, touched>>

\* Mutant: the snapshot leaves the interval's count in place.
PidstatReadKeeps(s) ==
    /\ cli[s] = "pidstat" /\ stat.active
    /\ stat.reported + stat.count <= MaxTicks
    /\ stat' = [stat EXCEPT !.reported = @ + stat.count, !.end = stat.iter]
    /\ UNCHANGED <<pc, flags, was, params, drive, record, cli, wanted, touched, issued>>

PidstatRead(s) ==
    /\ cli[s] = "pidstat" /\ stat.active
    /\ stat' = [stat EXCEPT !.reported = @ + stat.count, !.count = 0,
                            !.end = stat.iter]
    /\ UNCHANGED <<pc, flags, was, params, drive, record, cli, wanted, touched, issued>>

PidstatEnd(s) ==
    /\ cli[s] = "pidstat"
    /\ stat' = [stat EXCEPT !.active = FALSE]
    /\ cli' = [cli EXCEPT ![s] = "idle"]
    /\ UNCHANGED <<pc, flags, was, params, drive, record, wanted, touched, issued>>

(***************************************************************************)
(* The daemon                                                              *)
(***************************************************************************)

Ticked == [stat EXCEPT !.iter = @ + 1,
                       !.count = IF stat.active THEN @ + 1 ELSE @]

CanTick == stat.iter < MaxTicks

Ends(d) == pc' = [pc EXCEPT ![d] = "none"] /\ flags' = [flags EXCEPT !.running = FALSE]

\* color_open_select and the drive base: both open, or the daemon gives up.
Open(d) ==
    /\ pc[d] = "open"
    /\ \/ /\ pc' = [pc EXCEPT ![d] = "loop"] /\ was' = [was EXCEPT ![d] = FALSE]
          /\ UNCHANGED flags
       \/ Ends(d) /\ UNCHANGED was
    /\ UNCHANGED <<params, drive, record, cli, stat, wanted, touched, issued>>

\* The drive base is released if this daemon has engaged it.
Disengage(d) ==
    /\ drive' = IF was[d] THEN "coast" ELSE drive
    /\ was' = [was EXCEPT ![d] = FALSE]

\* A sweep of three seconds; an engaged drive base is released first.
CalBegin(d) ==
    /\ pc[d] = "loop" /\ ~flags.stop /\ flags.calReq
    /\ pc' = [pc EXCEPT ![d] = "cal"]
    /\ Disengage(d)
    /\ UNCHANGED <<flags, params, record, cli, stat, wanted, touched, issued>>

CalEnd(d) ==
    /\ pc[d] = "cal"
    /\ pc' = [pc EXCEPT ![d] = "loop"]
    /\ flags' = [flags EXCEPT !.calDone = TRUE, !.calReq = FALSE]
    /\ UNCHANGED <<was, params, drive, record, cli, stat, wanted, touched, issued>>

\* FOREVER(0,0), STOP{BRAKE}, the parameters and the answer ...
BrakeBegin(d) ==
    /\ pc[d] = "loop" /\ ~flags.stop /\ ~flags.calReq /\ flags.brakeReq
    /\ pc' = [pc EXCEPT ![d] = "braked"]
    /\ drive' = "brake"
    /\ params' = [params EXCEPT !.speed = "zero"]
    /\ flags' = [flags EXCEPT !.brakeReq = FALSE]
    /\ UNCHANGED <<was, record, cli, stat, wanted, touched, issued>>

\* Mutant: the edge tracker is kept.
BrakeEndEngaged(d) ==
    /\ pc[d] = "braked"
    /\ pc' = [pc EXCEPT ![d] = "loop"]
    /\ flags' = [flags EXCEPT !.engaged = FALSE]
    /\ UNCHANGED <<was, params, drive, record, cli, stat, wanted, touched, issued>>

\* ... and, after the capture has been frozen, the ownership.
BrakeEnd(d) ==
    /\ pc[d] = "braked"
    /\ pc' = [pc EXCEPT ![d] = "loop"]
    /\ flags' = [flags EXCEPT !.engaged = FALSE]
    /\ was' = [was EXCEPT ![d] = FALSE]
    /\ UNCHANGED <<params, drive, record, cli, stat, wanted, touched, issued>>

Ready(d) == pc[d] = "loop" /\ ~flags.stop /\ ~flags.calReq /\ ~flags.brakeReq

\* The idle tick: one STOP{COAST} on the edge, then only readings.
IdleTick(d) ==
    /\ Ready(d) /\ ~flags.engaged /\ CanTick
    /\ Disengage(d)
    /\ stat' = Ticked
    /\ UNCHANGED <<pc, flags, params, record, cli, wanted, touched, issued>>

\* The engaged tick computes the turn for the edge of its start ...
EngagedTick(d) ==
    /\ Ready(d) /\ flags.engaged /\ CanTick
    /\ pc' = [pc EXCEPT ![d] = "drove"]
    /\ was' = [was EXCEPT ![d] = TRUE]
    /\ drive' = "forever"
    /\ record' = [record EXCEPT ![d].turn = params.edge]
    /\ stat' = Ticked
    /\ UNCHANGED <<flags, params, cli, wanted, touched, issued>>

\* ... and records it after the drive base has been asked for its state.
RecordTick(d) ==
    /\ pc[d] = "drove"
    /\ pc' = [pc EXCEPT ![d] = "loop"]
    /\ record' = [record EXCEPT ![d].label = record[d].turn]
    /\ UNCHANGED <<flags, was, params, drive, cli, stat, wanted, touched, issued>>

\* Mutant: the exit only closes the device.
ExitSilent(d) ==
    /\ pc[d] = "loop" /\ flags.stop
    /\ Ends(d)
    /\ UNCHANGED <<was, params, drive, record, cli, stat, wanted, touched, issued>>

\* Mutant: only an idle daemon looks at the stop.
ExitIdle(d) ==
    /\ pc[d] = "loop" /\ flags.stop /\ ~flags.engaged
    /\ Ends(d)
    /\ drive' = "coast"
    /\ UNCHANGED <<was, params, record, cli, stat, wanted, touched, issued>>

Exit(d) ==
    /\ pc[d] = "loop" /\ flags.stop
    /\ Ends(d)
    /\ drive' = "coast"
    /\ UNCHANGED <<was, params, record, cli, stat, wanted, touched, issued>>

Verb(s) == \/ StartCheck(s) \/ DoStop(s) \/ DoRun(s) \/ DoSetEdge(s) \/ DoCal(s)
           \/ DoBrake(s) \/ PidstatBegin(s)
Daemon(d) == \/ Open(d) \/ CalBegin(d) \/ CalEnd(d) \/ BrakeBegin(d) \/ BrakeEnd(d)
             \/ IdleTick(d) \/ EngagedTick(d) \/ RecordTick(d) \/ Exit(d)

Next == \/ \E d \in Tracers : Daemon(d)
        \/ \E s \in Shells : \/ Verb(s) \/ Starting(s) \/ Return(s) \/ TimedOut(s)
                             \/ PidstatRead(s) \/ PidstatEnd(s)

Spec == Init /\ [][Next]_vars

\* A daemon is a task that never waits for ever, and so is a start.
FairSpec == /\ Spec
            /\ \A d \in Tracers : WF_vars(Daemon(d))
            /\ \A s \in Shells : WF_vars(Starting(s))

----------------------------------------------------------------------------
(* Properties *)

\* A drive base that still follows a FOREVER has a daemon in its loop that
\* knows it as engaged, so that its next idle tick, sweep or exit releases it:
\* nothing moves because of a daemon that calibrates, has braked or has ended,
\* however many daemons the shells have started.
DriveIsOwned ==
    drive = "forever" => \E d \in Tracers : pc[d] \in {"loop", "drove"} /\ was[d]

\* Two starts were under way at once, and their daemons are both alive.
Twins == \E d, e \in Tracers : d # e /\ pc[d] # "none" /\ pc[e] # "none"

\* A brake is not softened to a coast by the tick after it, nor by a sweep:
\* only a later run, the end of the daemon or a second daemon lets go of it.
BrakeHolds == drive = "brake" /\ drive' = "coast" => flags.stop \/ Twins

\* A capture record carries the edge its turn was computed for, although a
\* shell may switch the edge in the middle of the tick.
EdgeMatches ==
    \A d \in Tracers : pc[d] # "drove" => record[d].label = record[d].turn

\* The ticks pidstat reports are exactly the ticks of the daemons between its
\* start, or the last one of a daemon, and its last snapshot: none is lost
\* between two intervals and none is counted twice.
TicksAccounted ==
    \A s \in Shells : cli[s] = "pidstat" /\ flags.running /\ stat.active =>
      stat.reported = stat.end - stat.begin

\* A daemon that drives can be stopped: the verbs find it announced.  Refuted
\* by the code: of two daemons, the one that fails to open withdraws the
\* announcement of the other.
Stoppable == drive = "forever" => flags.running

\* A successful run stays engaged until a brake, stop or start that was issued
\* after it.  Refuted by the code.
RunSticks == wanted /\ flags.running => flags.engaged

\* Until a run or a brake of its own life, a daemon keeps the parameters it
\* was started with.  Refuted by the code.
TuningSurvives ==
    \A d \in Tracers : pc[d] # "none" /\ ~touched' /\ flags'.running
      => params'.speed = params.speed

BrakeTakenDue == flags.brakeReq
BrakeTakenMet == ~flags.brakeReq \/ ~flags.running

\* A brake request is taken by a daemon, or the announced daemon ends.
BrakeTaken == BrakeTakenDue ~> BrakeTakenMet

TracerStopsDue == flags.stop
TracerStopsMet == ~flags.stop \/ \A d \in Tracers : pc[d] = "none"

\* A stop ends every daemon, also during a sweep, unless a start that was
\* already under way takes it back.
TracerStops == TracerStopsDue ~> TracerStopsMet


-----------------------------------------------------------------------------
(* The lap capture *)

CONSTANTS Buffers,   \* buffers malloc can hand out
          Tasks,     \* tasks that may export, each once
          MaxVerbs,  \* verbs of a behaviour
          Capacity,  \* records of a buffer
          NoBuffer, NoTask

LapBoundsAssumption ==
    /\ MaxVerbs \in Nat /\ Capacity \in Nat \ {0}
    /\ NoBuffer \notin Buffers /\ NoTask \notin Tasks

VARIABLES
    announced,  \* g_daemon_running
    daemon,     \* per daemon: "off", "open", "tick" (between ticks), "append"
    cap,        \* g_cap: state, buf, count, owner
    hint,       \* g_cap_armed_hint
    heap,       \* allocated buffers
    task,       \* per task: "new", "export" (owns a buffer), "dead", "ended"
    held,       \* per task: the buffer and the count it read under the lock
    place,      \* per shell: how far its arm, stop or start has come
    crossed,    \* history: shells whose start met a daemon that was alive
    verbs       \* verbs so far

lapVars == <<announced, daemon, cap, hint, heap, task, held, place, crossed, verbs>>

States == {"idle", "armed", "done", "exporting"}

LapTypeOK ==
    /\ announced \in BOOLEAN
    /\ daemon \in [Tracers -> {"off", "open", "tick", "append"}]
    /\ cap \in [state : States, buf : Buffers \cup {NoBuffer},
                count : 0..Capacity, owner : Tasks \cup {NoTask}]
    /\ hint \in BOOLEAN
    /\ heap \subseteq Buffers
    /\ task \in [Tasks -> {"new", "export", "dead", "ended"}]
    /\ held \in [Tasks -> [buf : Buffers \cup {NoBuffer}, count : 0..Capacity]]
    /\ place \in [Shells -> {"idle", "arm", "stop", "check", "open", "create"}]
    /\ crossed \subseteq Shells /\ verbs \in 0..MaxVerbs

Idle == [state |-> "idle", buf |-> NoBuffer, count |-> 0, owner |-> NoTask]

LapInit ==
    /\ announced = FALSE /\ daemon = [d \in Tracers |-> "off"]
    /\ cap = Idle /\ hint = FALSE /\ heap = {}
    /\ task = [t \in Tasks |-> "new"]
    /\ held = [t \in Tasks |-> [buf |-> NoBuffer, count |-> 0]]
    /\ place = [s \in Shells |-> "idle"] /\ crossed = {} /\ verbs = 0

\* Mutant: every exporter counts as gone.
DeadExporterAny == cap.state = "exporting"

\* cap_reap_dead_exporter_locked: kill(pid, 0) tells whether the owner lives.
DeadExporter == cap.state = "exporting" /\ task[cap.owner] # "export"

\* The capture every verb looks at, after the reap.
Seen == IF DeadExporter THEN Idle ELSE cap
SeenHeap == IF DeadExporter THEN heap \ {cap.buf} ELSE heap

\* cap_reset_idle_locked.
ResetIdle == cap' = Idle /\ hint' = FALSE /\ heap' = SeenHeap \ {Seen.buf}

KeepSeen == cap' = Seen /\ heap' = SeenHeap /\ hint' = (hint /\ ~DeadExporter)

\* A verb of the command line.
LapVerb == verbs < MaxVerbs /\ verbs' = verbs + 1

At(s, where) == place[s] = where
Goto(s, where) == place' = [place EXCEPT ![s] = where]

\* do_cap_arm and do_cap_stop look at the daemon before they take the lock ...
ArmCheck(s) ==
    /\ LapVerb /\ announced /\ At(s, "idle") /\ Goto(s, "arm")
    /\ UNCHANGED <<announced, daemon, cap, hint, heap, task, held, crossed>>

StopCheck(s) ==
    /\ LapVerb /\ announced /\ At(s, "idle") /\ Goto(s, "stop")
    /\ UNCHANGED <<announced, daemon, cap, hint, heap, task, held, crossed>>

\* ... so the capture may be armed when the daemon has just ended, or when
\* the next one is about to begin.
Arm(s) ==
    /\ At(s, "arm") /\ Goto(s, "idle")
    /\ \/ /\ Seen.state = "idle"
          /\ \E b \in Buffers \ SeenHeap :
               /\ cap' = [state |-> "armed", buf |-> b, count |-> 0, owner |-> NoTask]
               /\ heap' = SeenHeap \cup {b}
          /\ hint' = TRUE
       \/ KeepSeen            \* refused, or malloc has failed
    /\ UNCHANGED <<announced, daemon, task, held, crossed, verbs>>

Stop(s) ==
    /\ At(s, "stop") /\ Goto(s, "idle")
    /\ IF Seen.state = "armed"
       THEN cap' = [Seen EXCEPT !.state = "done"] /\ hint' = FALSE /\ heap' = SeenHeap
       ELSE KeepSeen
    /\ UNCHANGED <<announced, daemon, task, held, crossed, verbs>>

\* do_cap_abort: a live export is only named, never cut off.
Abort ==
    /\ LapVerb
    /\ IF Seen.state \in {"armed", "done"} THEN ResetIdle ELSE KeepSeen
    /\ UNCHANGED <<announced, daemon, task, held, place, crossed>>

\* do_cap_status.
Status ==
    /\ LapVerb /\ KeepSeen
    /\ UNCHANGED <<announced, daemon, task, held, place, crossed>>

\* do_cap_export, up to the unlock: the task takes the buffer with it.
ExportBegin(t) ==
    /\ LapVerb /\ task[t] = "new"
    /\ IF Seen.state = "done" /\ Seen.count > 0
       THEN /\ cap' = [Seen EXCEPT !.state = "exporting", !.owner = t]
            /\ held' = [held EXCEPT ![t] = [buf |-> Seen.buf, count |-> Seen.count]]
            /\ task' = [task EXCEPT ![t] = "export"]
            /\ UNCHANGED <<heap, hint>>
       ELSE /\ KeepSeen /\ task' = [task EXCEPT ![t] = "ended"] /\ UNCHANGED held
    /\ UNCHANGED <<announced, daemon, place, crossed>>

\* Its cleanup, after the transfer has succeeded, failed or been cancelled.
ExportEnd(t) ==
    /\ task[t] = "export"
    /\ task' = [task EXCEPT ![t] = "ended"]
    /\ IF cap.state = "exporting" /\ cap.owner = t
       THEN cap' = Idle /\ hint' = FALSE /\ heap' = heap \ {cap.buf}
       ELSE UNCHANGED <<cap, hint, heap>>
    /\ UNCHANGED <<announced, daemon, held, place, crossed, verbs>>

\* SIGKILL: no cleanup runs.
Kill(t) ==
    /\ task[t] = "export"
    /\ task' = [task EXCEPT ![t] = "dead"]
    /\ UNCHANGED <<announced, daemon, cap, hint, heap, held, place, crossed, verbs>>

Alive == {d \in Tracers : daemon[d] # "off"}

\* do_start looks at the daemon ...
LapStart(s) ==
    /\ LapVerb /\ ~announced /\ At(s, "idle") /\ Goto(s, "check")
    /\ crossed' = IF Alive = {} THEN crossed \ {s} ELSE crossed \cup {s}
    /\ UNCHANGED <<announced, daemon, cap, hint, heap, task, held>>

\* Mutant: a start keeps the capture it finds.
ResetKeeps(s) ==
    /\ At(s, "check")
    /\ KeepSeen /\ Goto(s, "open")
    /\ UNCHANGED <<announced, daemon, task, held, crossed, verbs>>

\* ... refuses while a live task exports, and resets the capture ...
Reset(s) ==
    /\ At(s, "check")
    /\ IF Seen.state = "exporting" THEN KeepSeen /\ Goto(s, "idle")
                                   ELSE ResetIdle /\ Goto(s, "open")
    /\ UNCHANGED <<announced, daemon, task, held, crossed, verbs>>

\* ... gives up, or announces a daemon when it has read the configuration ...
LapAnnounce(s) ==
    /\ At(s, "open")
    /\ \/ Goto(s, "idle") /\ UNCHANGED announced
       \/ Goto(s, "create") /\ announced' = TRUE
    /\ UNCHANGED <<daemon, cap, hint, heap, task, held, crossed, verbs>>

\* ... and creates it, if there is room for a task.
LapCreate(s) ==
    /\ At(s, "create") /\ Goto(s, "idle")
    /\ \/ announced' = FALSE /\ UNCHANGED <<daemon, crossed>>
       \/ /\ \E d \in Tracers \ Alive : daemon' = [daemon EXCEPT ![d] = "open"]
          /\ crossed' = crossed \cup {r \in Shells \ {s} : place[r] \in {"check", "open", "create"}}
          /\ UNCHANGED announced
    /\ UNCHANGED <<cap, hint, heap, task, held, verbs>>

Becomes(d, where) == daemon' = [daemon EXCEPT ![d] = where]

\* A daemon that cannot open its devices leaves the capture alone.
LapOpen(d) ==
    /\ daemon[d] = "open"
    /\ \/ Becomes(d, "tick") /\ UNCHANGED announced
       \/ Becomes(d, "off") /\ announced' = FALSE
    /\ UNCHANGED <<cap, hint, heap, task, held, place, crossed, verbs>>

\* The end of the daemon leaves a live export alone.
DaemonExit(d) ==
    /\ LapVerb /\ daemon[d] = "tick"
    /\ Becomes(d, "off") /\ announced' = FALSE
    /\ IF Seen.state \in {"armed", "done"} THEN ResetIdle ELSE KeepSeen
    /\ UNCHANGED <<task, held, place, crossed>>

\* A brake freezes what has been recorded.
Brake(d) ==
    /\ daemon[d] = "tick" /\ cap.state = "armed"
    /\ cap' = [cap EXCEPT !.state = "done"] /\ hint' = FALSE
    /\ UNCHANGED <<announced, daemon, heap, task, held, place, crossed, verbs>>

\* cap_append_tick, first look: a full buffer ends the capture ...
AppendBegin(d) ==
    /\ daemon[d] = "tick" /\ hint /\ cap.state = "armed"
    /\ IF cap.count >= Capacity
       THEN cap' = [cap EXCEPT !.state = "done"] /\ hint' = FALSE /\ UNCHANGED daemon
       ELSE Becomes(d, "append") /\ UNCHANGED <<cap, hint>>
    /\ UNCHANGED <<announced, heap, task, held, place, crossed, verbs>>

\* ... and, after the unlocked ioctl, the second look and the record.
AppendEnd(d) ==
    /\ daemon[d] = "append"
    /\ Becomes(d, "tick")
    /\ cap' = IF cap.state = "armed" /\ cap.count < Capacity
              THEN [cap EXCEPT !.count = @ + 1] ELSE cap
    /\ UNCHANGED <<announced, hint, heap, task, held, place, crossed, verbs>>

LapNext ==
    \/ Abort \/ Status
    \/ \E s \in Shells : \/ ArmCheck(s) \/ Arm(s) \/ StopCheck(s) \/ Stop(s)
                        \/ LapStart(s) \/ Reset(s) \/ LapAnnounce(s) \/ LapCreate(s)
    \/ \E d \in Tracers : \/ LapOpen(d) \/ DaemonExit(d) \/ Brake(d)
                         \/ AppendBegin(d) \/ AppendEnd(d)
    \/ \E t \in Tasks : ExportBegin(t) \/ ExportEnd(t) \/ Kill(t)

LapSpec == LapInit /\ [][LapNext]_lapVars

----------------------------------------------------------------------------
(* Properties *)

\* A live export task reads a buffer that is still allocated, and is still
\* the one it took: nobody frees or reuses it, whatever start, stop, abort
\* and daemon exit happen meanwhile.
ExportKeepsBuffer ==
    \A t \in Tasks : task[t] = "export" =>
      /\ held[t].buf \in heap
      /\ cap = [state |-> "exporting", buf |-> held[t].buf,
                count |-> held[t].count, owner |-> t]

\* No buffer is lost: what is allocated is what g_cap points to, also after
\* an exporter was killed without its cleanup.
NoLeak == heap = {cap.buf} \ {NoBuffer}

\* The lock-free hint never says armed when the capture is not.
HintIsArmed == hint => cap.state = "armed"

\* After any verb no capture is held by a task that is gone.
ReapedByVerb ==
    \/ verbs' # verbs /\ place' = place
    \/ \E s \in Shells : place[s] \in {"arm", "stop", "check"} /\ place'[s] # place[s]
    => ~(cap'.state = "exporting" /\ task'[cap'.owner] # "export")

\* A capture that has been frozen keeps its records, although the daemon may
\* be in the middle of an append.
Frozen ==
    {cap.state, cap'.state} \subseteq {"done", "exporting"}
      => cap'.count = cap.count /\ cap'.buf = cap.buf

\* Shell s creates a daemon.
Creates(s) == At(s, "create") /\ daemon' # daemon

\* A daemon whose start met no other begins with no record of an earlier
\* life: the capture was reset before the drive base was opened, and what an
\* arm or a stop of that life does to it so late leaves it empty.
StartsClean ==
    \A s \in Shells \ crossed : Creates(s) => cap'.state # "exporting" /\ cap'.count = 0

\* A daemon begins without a capture of an earlier life.  Refuted by the
\* code: an arm that looked at the daemon before takes the lock after the reset.
StartsIdle == \A s \in Shells : Creates(s) => cap' = Idle /\ heap' = {}
=============================================================================
