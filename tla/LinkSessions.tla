---------------------------- MODULE LinkSessions ----------------------------
(***************************************************************************)
(* Sessions of the two Bluetooth links, two state machines.                *)
(*                                                                         *)
(* Motor commands: timed and angle-bounded runs of                         *)
(* apps/btsensor/btsensor_classic.c on top of the actuator ownership of    *)
(* btsensor_modern_backend.c. The receive thread runs commands and link    *)
(* events of both links, the scheduler's worker runs                       *)
(* btsensor_classic_timer_fired. A step is one critical section of the     *)
(* classic lock or one call of the backend made without it. One number per *)
(* command stands for its request id, its run's generation and its         *)
(* ownership token, which all come from counters. The one-shot timer is    *)
(* the flag "armed"; stopping it waits until its callback has returned.    *)
(*                                                                         *)
(* Requests and periodic device notifications of the LE link               *)
(* (btsensor_modern.c, btsensor_modern_notify.c, btsensor_main.c). The     *)
(* host's thread brings messages and the end of the link, one after the    *)
(* other; the scheduler's worker runs the tick of the timer. A step is a   *)
(* critical section of notifier->lock or a call made without it; the       *)
(* control lock is held by the host's thread alone. External: the timer    *)
(* and the transmit queue, which may be full.                              *)
(***************************************************************************)
EXTENDS Integers

CONSTANTS
  Ports,       \* 1 .. n, CLASSIC_PORT_COUNT
  Classic, Ble,
  MaxCmd,      \* bound on the commands
  None

Links == {Classic, Ble}

LinkAssumption == None \notin Links /\ MaxCmd \in Nat

VARIABLES
  attached,   \* ports with a motor that validate_motor accepts
  pwm,        \* port -> number of the command that drives it, 0 if none
  owner,      \* port -> link with g_commanded, or None
  token,      \* g_owner_token
  run,        \* port -> number of the active g_pending entry, 0 if none
  armed,      \* the classic timer is started
  up,         \* links that are connected
  cmds,       \* commands so far
  rx, worker, \* the two threads
  linkOf,     \* history: command -> the link it came from
  replies,    \* history: command -> replies sent to it
  excused     \* history: runs dropped with their link; ports whose stop failed

backend == <<pwm, owner, token>>
classic == <<run, armed>>
history == <<linkOf, replies, excused>>
vars == <<attached, backend, classic, up, cmds, rx, worker, history>>

Cmds == 1 .. MaxCmd
Resting == [at |-> "idle", port |-> 0, cmd |-> 0, runs |-> {}, link |-> None]

Init ==
  /\ attached = Ports /\ up = {} /\ cmds = 0 /\ armed = FALSE
  /\ pwm = [p \in Ports |-> 0] /\ owner = [p \in Ports |-> None]
  /\ token = [p \in Ports |-> 0] /\ run = [p \in Ports |-> 0]
  /\ rx = Resting /\ worker = Resting
  /\ linkOf = [c \in Cmds |-> None] /\ replies = [c \in Cmds |-> 0]
  /\ excused = [runs |-> {}, ports |-> {}]

Covered(P) == excused' = [excused EXCEPT !.ports = @ \ P]
Reply(C) == replies' = [c \in Cmds |-> replies[c] + IF c \in C THEN 1 ELSE 0]
Runs == {<<p, run[p]>> : p \in {q \in Ports : run[q] # 0}}

(***************************************************************************)
(* btsensor_modern_backend.c                                               *)
(***************************************************************************)
Drive(p, l, c) ==
  /\ pwm' = [pwm EXCEPT ![p] = c]
  /\ owner' = [owner EXCEPT ![p] = l] /\ token' = [token EXCEPT ![p] = c]

(* Mutant: a stopped motor keeps its owner.                                *)
HaltKeepsOwner(p) == pwm' = [pwm EXCEPT ![p] = 0] /\ UNCHANGED <<owner, token>>

Halt(p) ==
  /\ pwm' = [pwm EXCEPT ![p] = 0]
  /\ owner' = [owner EXCEPT ![p] = None] /\ token' = [token EXCEPT ![p] = 0]

Owned(p, c) == owner[p] = Classic /\ token[p] = c

(* Mutant: the run stops the motor without asking who drives it.           *)
EndOwnedAlways(R) ==
  LET S == {r[1] : r \in R}
  IN /\ pwm' = [p \in Ports |-> IF p \in S THEN 0 ELSE pwm[p]]
     /\ owner' = [p \in Ports |-> IF p \in S THEN None ELSE owner[p]]
     /\ token' = [p \in Ports |-> IF p \in S THEN 0 ELSE token[p]]

(* end_motor_if_owned for a set of <<port, run>>: a run that is not the    *)
(* owner changes nothing; a motor that was pulled out is coasted instead.  *)
(* A stop that is refused (-EBUSY, an I/O error) leaves owner and demand.  *)
EndOwned(R) ==
  \E S \in SUBSET {r[1] : r \in {q \in R : Owned(q[1], q[2])}} :
    /\ pwm' = [p \in Ports |-> IF p \in S THEN 0 ELSE pwm[p]]
    /\ owner' = [p \in Ports |-> IF p \in S THEN None ELSE owner[p]]
    /\ token' = [p \in Ports |-> IF p \in S THEN 0 ELSE token[p]]

(* Mutant: the ownership is dropped and the motor left turning.            *)
StopOwnedForgets(l) ==
  LET S == {p \in Ports : owner[p] = l}
  IN /\ owner' = [p \in Ports |-> IF p \in S THEN None ELSE owner[p]]
     /\ token' = [p \in Ports |-> IF p \in S THEN 0 ELSE token[p]]
     /\ UNCHANGED <<pwm, excused>>

(* stop_owned_locked: ownership ends even where the stop is refused.       *)
StopOwned(l) ==
  LET S == {p \in Ports : owner[p] = l}
  IN /\ pwm' = [p \in Ports |-> IF p \in S \cap attached THEN 0 ELSE pwm[p]]
     /\ owner' = [p \in Ports |-> IF p \in S THEN None ELSE owner[p]]
     /\ token' = [p \in Ports |-> IF p \in S THEN 0 ELSE token[p]]
     /\ excused' = [excused EXCEPT !.ports = @ \cup (S \ attached)]

(***************************************************************************)
(* The receive thread: commands.                                           *)
(***************************************************************************)
Command(l) ==
  /\ rx.at = "idle" /\ l \in up /\ cmds < MaxCmd
  /\ cmds' = cmds + 1
  /\ linkOf' = [linkOf EXCEPT ![cmds + 1] = l]
  /\ UNCHANGED <<attached, up, worker>>

(* scratch.motor_start, and motor of the modern link.                      *)
MotorStart(l, p) ==
  /\ Command(l)
  /\ LET accepted == p \in attached /\ (l = Classic => run[p] = 0)
     IN IF accepted THEN Drive(p, l, cmds + 1) /\ Covered({p})
                    ELSE UNCHANGED <<backend, excused>>
  /\ Reply({cmds + 1}) /\ UNCHANGED <<classic, rx>>

(* scratch.motor_stop: a successful stop then cancels the port's run.      *)
MotorStop(l, p) ==
  /\ Command(l)
  /\ IF p \in attached
     THEN /\ Halt(p)
          /\ rx' = IF l = Classic
                   THEN [Resting EXCEPT !.at = "cancel", !.port = p, !.cmd = cmds + 1]
                   ELSE rx
          /\ Reply(IF l = Classic THEN {} ELSE {cmds + 1})
     ELSE UNCHANGED <<backend, rx>> /\ Reply({cmds + 1})
  /\ UNCHANGED <<classic, excused>>

(* start_timed and start_degrees with something to wait for: refused on a  *)
(* busy port; undone when the timer cannot be started, unless that stop is *)
(* refused in turn.                                                        *)
StartRun(p) ==
  /\ Command(Classic)
  /\ LET c == cmds + 1
     IN \/ /\ p \notin attached \/ run[p] # 0
           /\ UNCHANGED <<backend, classic>> /\ Reply({c})
        \/ /\ p \in attached /\ run[p] = 0
           /\ Drive(p, Classic, c) /\ run' = [run EXCEPT ![p] = c]
           /\ armed' = TRUE /\ Reply({})
        \/ /\ p \in attached /\ run[p] = 0
           /\ Halt(p) \/ Drive(p, Classic, c)
           /\ UNCHANGED classic /\ Reply({c})
  /\ Covered({q \in {p} \cap attached : run[q] = 0})
  /\ UNCHANGED rx

(* cancel_port: forget the run, stop the timer, start it again for what is *)
(* left, answer the run and then the request.                              *)
CancelRun ==
  /\ rx.at = "cancel"
  /\ rx' = IF run[rx.port] = 0 THEN Resting
           ELSE [rx EXCEPT !.at = "canceled", !.runs = {<<rx.port, run[rx.port]>>}]
  /\ run' = [run EXCEPT ![rx.port] = 0]
  /\ Reply(IF run[rx.port] = 0 THEN {rx.cmd} ELSE {})
  /\ UNCHANGED <<attached, backend, armed, up, cmds, worker, linkOf, excused>>

Rearm(ok) ==
  IF ok THEN armed' = (Runs # {}) /\ UNCHANGED run
        ELSE armed' = FALSE /\ run' = [p \in Ports |-> 0]

CancelTimer ==
  /\ rx.at = "canceled" /\ worker.at = "idle"
  /\ \E ok \in BOOLEAN :
       /\ ok \/ Runs # {}
       /\ Rearm(ok)
       /\ IF ok THEN Reply({rx.cmd} \cup {r[2] : r \in rx.runs}) /\ rx' = Resting
          ELSE /\ Reply({r[2] : r \in rx.runs})
               /\ rx' = [rx EXCEPT !.at = "abort", !.runs = Runs]
  /\ UNCHANGED <<attached, backend, up, cmds, worker, linkOf, excused>>

AbortByRx ==
  /\ rx.at = "abort"
  /\ EndOwned(rx.runs) /\ Reply({rx.cmd} \cup {r[2] : r \in rx.runs})
  /\ rx' = Resting
  /\ UNCHANGED <<attached, classic, up, cmds, worker, linkOf, excused>>

(***************************************************************************)
(* The receive thread: link events (transport_state), and services_stop,   *)
(* which does the same with the transport gone and then closes all ports.  *)
(***************************************************************************)
Connect(l) ==
  /\ rx.at = "idle" /\ l \notin up
  /\ up' = up \cup {l}
  /\ UNCHANGED <<attached, backend, classic, cmds, rx, worker, history>>

Disconnect(l) ==
  /\ rx.at = "idle" /\ l \in up
  /\ up' = up \ {l}
  /\ rx' = [Resting EXCEPT !.at = IF l = Classic THEN "drop" ELSE "release", !.link = l]
  /\ UNCHANGED <<attached, backend, classic, cmds, worker, history>>

Shutdown ==
  /\ rx.at = "idle"
  /\ up' = {} /\ rx' = [Resting EXCEPT !.at = "drop"]
  /\ UNCHANGED <<attached, backend, classic, cmds, worker, history>>

DropRuns ==
  /\ rx.at = "drop"
  /\ rx' = [rx EXCEPT !.at = "dropped", !.runs = Runs]
  /\ run' = [p \in Ports |-> 0]
  /\ excused' = [excused EXCEPT !.runs = @ \cup {r[2] : r \in Runs}]
  /\ UNCHANGED <<attached, backend, armed, up, cmds, worker, linkOf, replies>>

DropTimer ==
  /\ rx.at = "dropped" /\ worker.at = "idle"
  /\ armed' = FALSE /\ EndOwned(rx.runs)
  /\ rx' = [rx EXCEPT !.at = "release"]
  /\ UNCHANGED <<attached, run, up, cmds, worker, history>>

Release ==
  /\ rx.at = "release"
  /\ IF rx.link # None THEN StopOwned(rx.link)
     ELSE /\ pwm' = [p \in Ports |-> 0] /\ owner' = [p \in Ports |-> None]
          /\ token' = [p \in Ports |-> 0] /\ UNCHANGED excused
  /\ rx' = Resting
  /\ UNCHANGED <<attached, classic, up, cmds, worker, linkOf, replies>>

(***************************************************************************)
(* The worker: btsensor_classic_timer_fired, port by port.                 *)
(***************************************************************************)
Fire ==
  /\ worker.at = "idle" /\ armed
  /\ armed' = FALSE
  /\ worker' = [Resting EXCEPT !.at = "check", !.port = 1]
  /\ UNCHANGED <<attached, backend, run, up, cmds, rx, history>>

NextPort == IF worker.port + 1 \in Ports
            THEN [Resting EXCEPT !.at = "check", !.port = worker.port + 1]
            ELSE [Resting EXCEPT !.at = "rearm"]

(* No run, its time has not come, or the angle is not reached yet.         *)
Skip ==
  /\ worker.at = "check"
  /\ worker' = NextPort
  /\ UNCHANGED <<attached, backend, classic, up, cmds, rx, history>>

Due ==
  /\ worker.at = "check" /\ run[worker.port] # 0
  /\ worker' = [worker EXCEPT !.at = "end", !.cmd = run[worker.port]]
  /\ UNCHANGED <<attached, backend, classic, up, cmds, rx, history>>

End ==
  /\ worker.at = "end"
  /\ EndOwned({<<worker.port, worker.cmd>>})
  /\ worker' = [worker EXCEPT !.at = "settle"]
  /\ UNCHANGED <<attached, classic, up, cmds, rx, history>>

Settle ==
  /\ worker.at = "settle"
  /\ IF run[worker.port] = worker.cmd
     THEN run' = [run EXCEPT ![worker.port] = 0] /\ Reply({worker.cmd})
     ELSE UNCHANGED <<run, replies>>
  /\ worker' = NextPort
  /\ UNCHANGED <<attached, backend, armed, up, cmds, rx, linkOf, excused>>

(* Mutant: runs that are left are not given a timer again.                 *)
WorkerRearmNever ==
  /\ worker.at = "rearm"
  /\ worker' = Resting
  /\ UNCHANGED <<attached, backend, classic, up, cmds, rx, history>>

WorkerRearm ==
  /\ worker.at = "rearm"
  /\ \E ok \in BOOLEAN :
       /\ ok \/ Runs # {}
       /\ IF Runs = {} THEN UNCHANGED classic ELSE Rearm(ok)
       /\ worker' = IF ok THEN Resting ELSE [Resting EXCEPT !.at = "abort", !.runs = Runs]
  /\ UNCHANGED <<attached, backend, up, cmds, rx, history>>

AbortByWorker ==
  /\ worker.at = "abort"
  /\ EndOwned(worker.runs) /\ Reply({r[2] : r \in worker.runs})
  /\ worker' = Resting
  /\ UNCHANGED <<attached, classic, up, cmds, rx, linkOf, excused>>

(* A motor is pulled out or plugged in; the bridge keeps its demand.       *)
Plug(p) ==
  /\ attached' = IF p \in attached THEN attached \ {p} ELSE attached \cup {p}
  /\ UNCHANGED <<backend, classic, up, cmds, rx, worker, history>>

RxStep == CancelRun \/ CancelTimer \/ AbortByRx \/ DropRuns \/ DropTimer \/ Release
WorkerStep == Fire \/ Skip \/ Due \/ End \/ Settle \/ WorkerRearm \/ AbortByWorker

Next ==
  \/ RxStep \/ WorkerStep \/ Shutdown
  \/ \E l \in Links : Connect(l) \/ Disconnect(l)
  \/ \E p \in Ports :
       \/ StartRun(p) \/ Plug(p)
       \/ \E l \in Links : MotorStart(l, p) \/ MotorStop(l, p)

Spec == Init /\ [][Next]_vars

DueOf(p) == Due /\ worker.port = p

(* Both threads run, and a run's time comes: at most 60 seconds.           *)
FairSpec ==
  /\ Spec /\ WF_vars(RxStep) /\ WF_vars(WorkerStep)
  /\ \A p \in Ports : SF_vars(DueOf(p))

-----------------------------------------------------------------------------
(* A request is answered at most once, although the worker, an explicit    *)
(* stop, a failing timer and a disconnect may all end its run.             *)
OneReply == \A c \in Cmds : replies[c] <= 1

RunAnsweredDue(c) == \E p \in Ports : run[p] = c
RunAnsweredMet(c) == replies[c] = 1 \/ c \in excused.runs

(* An accepted run is answered, or its link is gone.                       *)
RunAnswered == \A c \in Cmds : RunAnsweredDue(c) ~> RunAnsweredMet(c)

(* The owner on record is the one whose command drives the bridge.         *)
OwnerDrives ==
  \A p \in Ports : owner[p] # None => pwm[p] = token[p] /\ linkOf[token[p]] = owner[p]

(* The end of a timed run stops that run's own demand and never one that   *)
(* took over the motor while the worker had let go of the lock.            *)
EndsOwn ==
  worker.at = "end" /\ worker'.at = "settle"
    => \A p \in Ports : pwm'[p] # pwm[p] => p = worker.port /\ pwm[p] = worker.cmd

(* Once a disconnect is handled no motor turns on behalf of that link,     *)
(* except where the motor had been pulled out and the stop was refused.    *)
DisconnectStops ==
  rx.at = "idle" =>
    \A p \in Ports : pwm[p] # 0 /\ p \notin excused.ports => linkOf[pwm[p]] \in up

(* The same without the exception.                                         *)
DisconnectStopsDetached ==
  rx.at = "idle" => \A p \in Ports : pwm[p] # 0 => linkOf[pwm[p]] \in up

-----------------------------------------------------------------------------
(* Device notifications of the LE link *)

CONSTANTS Interval,      \* intervals that are asked for, 0 ends the notifications
          MaxRequests,   \* bound on the requests
          MaxLinks       \* bound on the connections

ModernNotifyAssumption == Interval \subseteq Nat /\ 0 \in Interval /\ {MaxRequests, MaxLinks} \subseteq Nat

VARIABLES
    interval_ms,         \* the notifier's interval
    notification_interval_ms,   \* the service's interval
    timer,               \* period of the running timer, or 0
    lock,                \* who holds notifier->lock: "none", "host", "worker"
    host,                \* step, interval, was_active, rc
    notifyWorker,              \* step, and the request whose interval the tick found
    leLink, links,         \* this connection or 0; connections so far
    request, requests,   \* the request the notifier works for; requests so far
    answer,              \* of the last request: none, ok, error, lost
    wrong                \* a notification came out of turn

notifyVars == <<interval_ms, notification_interval_ms, timer, lock, host, notifyWorker, leLink, links, request, requests, answer, wrong>>

InRange(i) == i \in 20..60000     \* BTSENSOR_MODERN_NOTIFY_MIN_INTERVAL_MS, _MAX_INTERVAL_MS
HostIdle == [pc |-> "idle", i |-> 0, was |-> FALSE, ok |-> TRUE]

NotifyInit ==
    /\ interval_ms = 0 /\ notification_interval_ms = 0 /\ timer = 0 /\ lock = "none" /\ host = HostIdle
    /\ notifyWorker = [pc |-> "idle", for |-> 0] /\ leLink = 0 /\ links = 0 /\ request = 0 /\ requests = 0
    /\ answer = "none" /\ wrong = FALSE

Host == UNCHANGED <<notifyWorker, wrong>>

NotifyConnect ==
    /\ host.pc = "idle" /\ leLink = 0 /\ links < MaxLinks /\ links' = links + 1 /\ leLink' = links + 1 /\ answer' = "none"
    /\ Host /\ UNCHANGED <<interval_ms, notification_interval_ms, timer, lock, host, request, requests>>

\* btsensor_modern_receive: a DeviceNotificationRequest, and the range test of set_interval
Receive(i) ==
    /\ host.pc = "idle" /\ leLink # 0 /\ requests < MaxRequests /\ requests' = requests + 1 /\ answer' = "none"
    /\ host' = [pc |-> IF i = 0 \/ InRange(i) THEN "clear" ELSE "answer", i |-> i, was |-> FALSE, ok |-> i = 0 \/ InRange(i)]
    /\ Host /\ UNCHANGED <<interval_ms, notification_interval_ms, timer, lock, leLink, links, request>>

\* btsensor_modern_notifier_set_interval, first critical section
Clear ==
    /\ host.pc = "clear" /\ lock = "none"
    /\ host' = [host EXCEPT !.pc = IF interval_ms # 0 THEN "stop" ELSE "start", !.was = interval_ms # 0]
    /\ interval_ms' = 0 /\ notification_interval_ms' = 0 /\ request' = requests
    /\ Host /\ UNCHANGED <<timer, lock, leLink, links, requests, answer>>

\* notifier->timer_stop
TimerStop ==
    /\ host.pc \in {"stop", "resetStop"} /\ notifyWorker.pc = "idle" /\ timer' = 0
    /\ host' = IF host.pc = "stop" THEN [host EXCEPT !.pc = "start"] ELSE HostIdle
    /\ lock' = IF lock = "host" THEN "none" ELSE lock
    /\ Host /\ UNCHANGED <<interval_ms, notification_interval_ms, leLink, links, request, requests, answer>>

\* a failure is not reported
TimerStartDeaf ==
    /\ host.pc = "start"
    /\ host' = [host EXCEPT !.pc = IF host.i = 0 THEN "answer" ELSE "set"]
    /\ \E ok \in BOOLEAN : timer' = IF ok THEN host.i ELSE timer
    /\ Host /\ UNCHANGED <<interval_ms, notification_interval_ms, lock, leLink, links, request, requests, answer>>

\* notifier->timer_start, which may find no slot
TimerStart ==
    /\ host.pc = "start"
    /\ \/ host.i = 0 /\ UNCHANGED timer /\ host' = [host EXCEPT !.pc = "answer"]
       \/ host.i # 0 /\ timer' = host.i /\ host' = [host EXCEPT !.pc = "set"]
       \/ host.i # 0 /\ UNCHANGED timer /\ host' = [host EXCEPT !.pc = "answer", !.ok = FALSE]
    /\ Host /\ UNCHANGED <<interval_ms, notification_interval_ms, lock, leLink, links, request, requests, answer>>

SetInterval ==
    /\ host.pc = "set" /\ lock = "none" /\ interval_ms' = host.i /\ host' = [host EXCEPT !.pc = "answer"]
    /\ Host /\ UNCHANGED <<notification_interval_ms, timer, lock, leLink, links, request, requests, answer>>

\* the service's interval and the response, which the transmit queue may refuse
Answer ==
    /\ host.pc = "answer" /\ host' = HostIdle
    /\ notification_interval_ms' = IF host.ok THEN host.i ELSE notification_interval_ms
    /\ answer' \in {IF host.ok THEN "ok" ELSE "error", "lost"}
    /\ Host /\ UNCHANGED <<interval_ms, timer, lock, leLink, links, request, requests>>

\* transport_state with the LE link down, or services_stop: btsensor_modern_notifier_reset
NotifyDisconnect ==
    /\ host.pc = "idle" /\ leLink # 0 /\ lock = "none" /\ leLink' = 0 /\ request' = requests /\ answer' = "none"
    /\ interval_ms' = 0 /\ notification_interval_ms' = 0
    /\ host' = IF interval_ms # 0 THEN [HostIdle EXCEPT !.pc = "resetStop"] ELSE HostIdle
    /\ Host /\ UNCHANGED <<timer, lock, links, requests>>

-----------------------------------------------------------------------------
(* The worker. *)

Worker == UNCHANGED <<interval_ms, notification_interval_ms, timer, host, leLink, links, request, requests, answer>>

\* the timer is due: the callback is entered
Tick == timer # 0 /\ notifyWorker.pc = "idle" /\ notifyWorker' = [pc |-> "lock", for |-> 0] /\ Worker /\ UNCHANGED <<lock, wrong>>

\* btsensor_modern_notifier_tick: the lock is taken, which is kept over the snapshot and the send
TickLock ==
    /\ notifyWorker.pc = "lock" /\ lock = "none"
    /\ IF interval_ms = 0 THEN notifyWorker' = [pc |-> "idle", for |-> 0] /\ UNCHANGED lock
       ELSE notifyWorker' = [pc |-> "snapshot", for |-> request] /\ lock' = "worker"
    /\ Worker /\ UNCHANGED wrong

\* the snapshot is read from the devices, or it fails or is out of range
Snapshot(good) ==
    /\ notifyWorker.pc = "snapshot"
    /\ notifyWorker' = IF good THEN [notifyWorker EXCEPT !.pc = "notify"] ELSE [pc |-> "idle", for |-> 0]
    /\ lock' = IF good \/ lock # "worker" THEN lock ELSE "none"
    /\ Worker /\ UNCHANGED wrong

\* btsensor_modern_notify: nothing while the service has no interval
Notify ==
    /\ notifyWorker.pc = "notify" /\ notifyWorker' = [pc |-> "idle", for |-> 0] /\ lock' = IF lock = "worker" THEN "none" ELSE lock
    /\ wrong' = (wrong \/ (notification_interval_ms # 0 /\ (notifyWorker.for # request \/ leLink = 0)))
    /\ Worker

HostStep == Clear \/ TimerStop \/ TimerStart \/ SetInterval \/ Answer
NotifyWorkerStep == TickLock \/ (\E good \in BOOLEAN : Snapshot(good)) \/ Notify

NotifyNext == NotifyConnect \/ (\E i \in Interval : Receive(i)) \/ HostStep \/ NotifyDisconnect \/ Tick \/ NotifyWorkerStep

NotifySpec == NotifyInit /\ [][NotifyNext]_notifyVars

\* the two threads run; a lock that is given back again and again is got
NotifyFairSpec == NotifySpec /\ SF_notifyVars(HostStep) /\ SF_notifyVars(NotifyWorkerStep)

-----------------------------------------------------------------------------
NotifyTypeOK ==
    /\ interval_ms \in Interval /\ notification_interval_ms \in Interval /\ timer \in Interval
    /\ host.i \in Interval /\ (lock = "worker" <=> notifyWorker.pc \in {"snapshot", "notify"}) /\ lock # "host"
    /\ leLink \in 0..MaxLinks /\ request \in 0..MaxRequests

\* A notification that is queued belongs to the last interval this central was granted: none is
\* queued for a subscription that has been changed or ended, nor for a new central by the one
\* before it, although a tick may be reading its devices meanwhile.
NoStaleNotification == ~wrong

\* When a request was answered with success, timer, notifier and service have its interval; when
\* the notifications were ended, the timer has stopped.
AnswerIsTrue ==
    host.pc = "idle" /\ answer \in {"ok", "lost"} /\ leLink # 0 => timer = interval_ms /\ interval_ms = notification_interval_ms

\* Without a link nothing is left running.
EndedIsQuiet == leLink = 0 /\ host.pc = "idle" => timer = 0 /\ interval_ms = 0 /\ notification_interval_ms = 0

NotifyAnsweredDue == host.pc = "clear"
NotifyAnsweredMet == host.pc = "idle"

\* A request is answered, or its answer refused by the transmit queue, while ticks go on.
NotifyAnswered == NotifyAnsweredDue ~> NotifyAnsweredMet
=============================================================================
