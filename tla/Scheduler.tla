----------------------------- MODULE Scheduler ------------------------------
(***************************************************************************)
(* The Bluetooth application's scheduler, apps/btsensor/                   *)
(* btsensor_scheduler.c: one worker thread polls descriptors ("watches")   *)
(* and fires timers; stopping either waits until the worker is done with   *)
(* it.                                                                     *)
(*                                                                         *)
(* A step is one critical section of g_lock, a return of poll, or a return *)
(* of a callback.  Each watch and timer is started and stopped by one      *)
(* thread at a time; the daemon takes and drops the reference.  Time is    *)
(* left out: when a poll round ends the worker finds any set of the        *)
(* running timers due, and one started after that is not among them.       *)
(***************************************************************************)
EXTENDS Naturals, FiniteSets

CONSTANTS
  Watches, Timers,
  Rearming,     \* timers that are started while they run: btsensor_classic.c
  OneShot,      \* timers started with timer_start_once
  WatchSlots, TimerSlots,  \* 1 .. BTSENSOR_SCHED_MAX_*
  None

Objects == Watches \cup Timers

SchedulerAssumption ==
  /\ Watches \cap Timers = {} /\ Rearming \cup OneShot \subseteq Timers
  /\ WatchSlots \cup TimerSlots \subseteq Nat /\ 1 \in TimerSlots /\ None \notin Objects

VARIABLES
  active, dispatching, polling,   \* the flags of the objects, as sets
  wslot, tslot,                   \* g_watches, g_timers
  up,           \* "off", "on" (g_refs > 0) or "joining"
  stop,         \* g_stop
  worker,       \* [at, map, ready, due, slot, obj]
  op,           \* object -> "idle", "stopping"
  stopped,      \* history: objects whose last call was a stop that returned
  twice         \* history: timers that ever held two slots

flags == <<active, dispatching, polling>>
slots == <<wslot, tslot>>
history == <<stopped, twice>>
vars == <<flags, slots, up, stop, worker, op, history>>

Gone == [at |-> "none", map |-> {}, ready |-> {}, due |-> {}, slot |-> 0, obj |-> None]

Init ==
  /\ active = {} /\ dispatching = {} /\ polling = {}
  /\ wslot = [i \in WatchSlots |-> None] /\ tslot = [i \in TimerSlots |-> None]
  /\ up = "off" /\ stop = FALSE /\ worker = Gone
  /\ op = [o \in Objects |-> "idle"] /\ stopped = Objects /\ twice = {}

First(S) == CHOOSE i \in S : \A j \in S : i <= j

(***************************************************************************)
(* The daemon's reference.                                                 *)
(***************************************************************************)
Acquire ==
  /\ up = "off"
  /\ up' = "on" /\ stop' = FALSE /\ worker' = [Gone EXCEPT !.at = "collect"]
  /\ UNCHANGED <<flags, slots, op, history>>

(* Every user has stopped its watch or timer before (services_stop).       *)
Release ==
  /\ up = "on" /\ stopped = Objects
  /\ up' = "joining" /\ stop' = TRUE
  /\ UNCHANGED <<flags, slots, worker, op, history>>

Joined ==
  /\ up = "joining" /\ worker.at = "none"
  /\ up' = "off"
  /\ wslot' = [i \in WatchSlots |-> None] /\ tslot' = [i \in TimerSlots |-> None]
  /\ UNCHANGED <<flags, stop, worker, op, history>>

(***************************************************************************)
(* Watches and timers.                                                     *)
(***************************************************************************)
WatchStart(w) ==
  /\ up = "on" /\ w \in stopped
  /\ LET free == {i \in WatchSlots : wslot[i] = None}
     IN /\ free # {}
        /\ wslot' = [wslot EXCEPT ![First(free)] = w]
  /\ active' = active \cup {w}
  /\ dispatching' = dispatching \ {w} /\ polling' = polling \ {w}
  /\ stopped' = stopped \ {w}
  /\ UNCHANGED <<tslot, up, stop, worker, op, twice>>

(* Mutant: a timer that has a slot is entered again.                       *)
TimerEnterFree(t) ==
  LET free == {i \in TimerSlots : tslot[i] = None}
  IN /\ free # {}
     /\ tslot' = [tslot EXCEPT ![First(free)] = t]
     /\ active' = active \cup {t}
     /\ UNCHANGED twice

(* timer_start takes the first slot that is free or already the timer's.   *)
TimerEnter(t) ==
  LET free == {i \in TimerSlots : tslot[i] \in {None, t}}
  IN /\ free # {}
     /\ tslot' = [tslot EXCEPT ![First(free)] = t]
     /\ active' = active \cup {t}
     /\ twice' = IF \E i \in TimerSlots \ {First(free)} : tslot[i] = t
                 THEN twice \cup {t} ELSE twice

TimerStart(t) ==
  /\ up = "on" /\ op[t] = "idle" /\ (t \in stopped \/ t \in Rearming)
  /\ TimerEnter(t)
  /\ worker' = [worker EXCEPT !.due = @ \ {t}]
  /\ stopped' = stopped \ {t}
  /\ UNCHANGED <<dispatching, polling, wslot, up, stop, op>>

Stop(o) ==
  /\ up = "on" /\ op[o] = "idle"
  /\ active' = active \ {o} /\ op' = [op EXCEPT ![o] = "stopping"]
  /\ UNCHANGED <<dispatching, polling, slots, up, stop, worker, history>>

(* Mutant: the poll round the watch is part of is not waited for.          *)
StopReturnsEarly(o) ==
  /\ op[o] = "stopping" /\ o \notin dispatching
  /\ op' = [op EXCEPT ![o] = "idle"] /\ stopped' = stopped \cup {o}
  /\ LET mine == {i \in WatchSlots : wslot[i] = o}
     IN wslot' = IF mine = {} THEN wslot ELSE [wslot EXCEPT ![First(mine)] = None]
  /\ LET mine == {i \in TimerSlots : tslot[i] = o}
     IN tslot' = IF mine = {} THEN tslot ELSE [tslot EXCEPT ![First(mine)] = None]
  /\ UNCHANGED <<flags, up, stop, worker, twice>>

(* The stop returns and empties the object's first slot.                   *)
StopReturns(o) ==
  /\ op[o] = "stopping" /\ o \notin dispatching \cup polling
  /\ op' = [op EXCEPT ![o] = "idle"] /\ stopped' = stopped \cup {o}
  /\ LET mine == {i \in WatchSlots : wslot[i] = o}
     IN wslot' = IF mine = {} THEN wslot ELSE [wslot EXCEPT ![First(mine)] = None]
  /\ LET mine == {i \in TimerSlots : tslot[i] = o}
     IN tslot' = IF mine = {} THEN tslot ELSE [tslot EXCEPT ![First(mine)] = None]
  /\ UNCHANGED <<flags, up, stop, worker, twice>>

(***************************************************************************)
(* The worker.                                                             *)
(***************************************************************************)
Collect ==
  /\ worker.at = "collect"
  /\ LET map == {w \in active \cap Watches : \E i \in WatchSlots : wslot[i] = w}
     IN IF stop THEN worker' = Gone /\ UNCHANGED polling
        ELSE /\ worker' = [Gone EXCEPT !.at = "poll", !.map = map]
             /\ polling' = polling \cup map
  /\ UNCHANGED <<active, dispatching, slots, up, stop, op, history>>

PollReturns ==
  /\ worker.at = "poll"
  /\ \E R \in SUBSET worker.map : worker' = [worker EXCEPT !.at = "dispatch", !.ready = R]
  /\ UNCHANGED <<flags, slots, up, stop, op, history>>

PollFails ==
  /\ worker.at = "poll"
  /\ polling' = polling \ worker.map /\ worker' = Gone
  /\ UNCHANGED <<active, dispatching, slots, up, stop, op, history>>

Dispatch(w) ==
  /\ worker.at = "dispatch" /\ w \in worker.ready
  /\ IF w \in active
     THEN /\ dispatching' = dispatching \cup {w}
          /\ worker' = [worker EXCEPT !.at = "in watch", !.ready = @ \ {w}, !.obj = w]
     ELSE worker' = [worker EXCEPT !.ready = @ \ {w}] /\ UNCHANGED dispatching
  /\ UNCHANGED <<active, polling, slots, up, stop, op, history>>

WatchReturns ==
  /\ worker.at = "in watch"
  /\ dispatching' = dispatching \ {worker.obj}
  /\ worker' = [worker EXCEPT !.at = "dispatch", !.obj = None]
  /\ UNCHANGED <<active, polling, slots, up, stop, op, history>>

RoundEnds ==
  /\ worker.at = "dispatch" /\ worker.ready = {}
  /\ polling' = polling \ worker.map
  /\ \E D \in SUBSET (active \cap Timers) :
       worker' = [Gone EXCEPT !.at = "timers", !.due = D, !.slot = 1]
  /\ UNCHANGED <<active, dispatching, slots, up, stop, op, history>>

NextSlot(wk) == IF wk.slot + 1 \in TimerSlots THEN [wk EXCEPT !.at = "timers", !.slot = @ + 1]
                ELSE [Gone EXCEPT !.at = "collect"]

Due(t) == t \in active /\ t \in worker.due

TimerIdle ==
  /\ worker.at = "timers" /\ ~Due(tslot[worker.slot])
  /\ worker' = NextSlot(worker)
  /\ UNCHANGED <<flags, slots, up, stop, op, history>>

(* A periodic timer's deadline moves past now: it is due once per round.   *)
TimerFires ==
  LET t == tslot[worker.slot]
  IN /\ worker.at = "timers" /\ Due(t)
     /\ IF t \in OneShot
        THEN active' = active \ {t} /\ tslot' = [tslot EXCEPT ![worker.slot] = None]
        ELSE UNCHANGED <<active, tslot>>
     /\ dispatching' = dispatching \cup {t}
     /\ worker' = [worker EXCEPT !.at = "in timer", !.due = @ \ {t}, !.obj = t]
     /\ UNCHANGED <<polling, wslot, up, stop, op, history>>

(* The callback of btsensor_classic.c starts its own timer again.          *)
CallbackRearms ==
  /\ worker.at = "in timer" /\ worker.obj \in Rearming
  /\ TimerEnter(worker.obj)
  /\ UNCHANGED <<dispatching, polling, wslot, up, stop, worker, op, stopped>>

TimerReturns ==
  /\ worker.at = "in timer"
  /\ dispatching' = dispatching \ {worker.obj}
  /\ worker' = NextSlot([worker EXCEPT !.obj = None])
  /\ UNCHANGED <<active, polling, slots, up, stop, op, history>>

WorkerStep ==
  \/ Collect \/ PollReturns \/ PollFails \/ WatchReturns \/ RoundEnds
  \/ TimerIdle \/ TimerFires \/ TimerReturns
  \/ \E w \in Watches : Dispatch(w)

Next ==
  \/ Acquire \/ Release \/ Joined \/ WorkerStep \/ CallbackRearms
  \/ \E w \in Watches : WatchStart(w)
  \/ \E t \in Timers : TimerStart(t)
  \/ \E o \in Objects : (o \notin stopped /\ Stop(o)) \/ StopReturns(o)

Spec == Init /\ [][Next]_vars

(* The worker runs, poll returns within BTSENSOR_SCHED_IDLE_MS or at the   *)
(* wake-up and callbacks return.  A waiter that the broadcast has woken    *)
(* gets the lock before a callback that restarts its own timer, at least a *)
(* millisecond later, is called again.                                     *)
FairSpec ==
  /\ Spec /\ WF_vars(WorkerStep) /\ WF_vars(Joined)
  /\ \A o \in Objects : SF_vars(StopReturns(o))

-----------------------------------------------------------------------------
TypeOK ==
  /\ active \subseteq Objects /\ dispatching \subseteq Objects /\ polling \subseteq Watches
  /\ wslot \in [WatchSlots -> Watches \cup {None}]
  /\ tslot \in [TimerSlots -> Timers \cup {None}]
  /\ up \in {"off", "on", "joining"} /\ stop \in BOOLEAN
  /\ op \in [Objects -> {"idle", "stopping"}]
  /\ stopped \subseteq Objects /\ twice \subseteq Rearming

(* After a stop has returned the worker neither calls the object back nor  *)
(* polls its descriptor, so the caller may close and free both, and the    *)
(* object holds no slot.  A timer that was entered twice is excepted: its  *)
(* second slot survives the stop.                                          *)
StopIsFinal ==
  \A o \in stopped \ twice :
    /\ o \notin dispatching \cup polling
    /\ \A i \in WatchSlots : wslot[i] # o
    /\ \A i \in TimerSlots : tslot[i] # o

(* One callback at a time, of an object the worker is in.                  *)
OneCallback == Cardinality(dispatching) <= 1 /\ dispatching \subseteq {worker.obj}

(* A running timer that was never entered twice is in the worker's table   *)
(* exactly once: it will fire, and it takes nobody else's slot.            *)
ListedOnce ==
  \A t \in Timers \ twice :
    LET mine == {i \in TimerSlots : tslot[i] = t}
    IN /\ Cardinality(mine) <= 1
       /\ (t \in active /\ t \notin stopped => mine # {})

StopsReturnDue(o) == op[o] = "stopping"
StopsReturnMet(o) == op[o] = "idle"

(* A stop returns: the worker finishes the round or gives up.              *)
StopsReturn == \A o \in Objects : StopsReturnDue(o) ~> StopsReturnMet(o)

ReleaseEndsDue == up = "joining"
ReleaseEndsMet == up = "off"

(* The last release returns: the worker leaves its loop.                   *)
ReleaseEnds == ReleaseEndsDue ~> ReleaseEndsMet
=============================================================================
