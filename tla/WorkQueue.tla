----------------------------- MODULE WorkQueue ------------------------------
(***************************************************************************)
(* Work items and delayable work of bluetooth/zephyr_compat/src/work.c:    *)
(* clients submit, schedule, cancel and flush; a worker thread runs the    *)
(* handlers; every armed delay has a detached timer thread that lives in   *)
(* one of a fixed number of slots.                                         *)
(*                                                                         *)
(* A step is one critical section of the item's or the slots' mutex, or    *)
(* one operation outside of them.  A waiter is woken by a broadcast after  *)
(* each change of what it waits for, so waiting is a guard.  Clients are   *)
(* threads other than the worker: a handler that waits for itself would    *)
(* never return, in Zephyr as well.                                        *)
(***************************************************************************)
EXTENDS Naturals, Sequences, FiniteSets

CONSTANTS
  Items,      \* struct k_work
  Delayable,  \* the items that are part of a struct k_work_delayable
  Clients,  \* threads that call the API
  Slots,    \* delayed_requests[CONFIG_BRICKWRIGHT_DELAYED_WORK_SLOTS]
  MaxGen,   \* bound on work->generation, a 32-bit counter
  None

WorkAssumption ==
  /\ Delayable \subseteq Items /\ None \notin Items
  /\ IsFiniteSet(Items) /\ IsFiniteSet(Clients) /\ MaxGen \in Nat

VARIABLES
  pending, canceled, running,  \* flags of struct k_work
  generation,
  delayed,   \* work->deadline # 0
  fifo,      \* queue->fifo
  worker,    \* [at, item]: where worker_main is
  slot,      \* slot -> [at, item, gen, canceled], at = "free" unless in_use
  call,      \* client -> [at, item, gen, slot, sync, was]: the call under way
  alone,     \* history: no submission overlapped the client's cancellation
  quiet,     \* history: items cancelled synchronously and not used since
  overtaken  \* history: items whose delay was armed while a call cancelled them

itemVars == <<pending, canceled, running, generation, delayed>>
vars == <<itemVars, fifo, worker, slot, call, alone, quiet, overtaken>>

FreeSlot == [at |-> "free", item |-> None, gen |-> 0, canceled |-> FALSE]
NoCall == [at |-> "idle", item |-> None, gen |-> 0, slot |-> None,
           sync |-> FALSE, was |-> FALSE]

Init ==
  /\ pending = [w \in Items |-> FALSE] /\ canceled = [w \in Items |-> FALSE]
  /\ running = [w \in Items |-> FALSE] /\ delayed = [w \in Items |-> FALSE]
  /\ generation = [w \in Items |-> 0]
  /\ fifo = <<>> /\ worker = [at |-> "get", item |-> None]
  /\ slot = [s \in Slots |-> FreeSlot]
  /\ call = [c \in Clients |-> NoCall]
  /\ alone = [c \in Clients |-> FALSE] /\ quiet = {} /\ overtaken = {}

(* The places of a cancellation that will raise the generation once more   *)
(* or twice, and the calls about item w that are there.                    *)
OnceAt == {"mark", "cancel", "drain", "cancelAgain"}
TwiceAt == {"mark", "cancel"}
Once(w) == {c \in Clients : call[c].item = w /\ call[c].at \in OnceAt}
Twice(w) == {c \in Clients : call[c].item = w /\ call[c].at \in TwiceAt}

(* A call that raises the generation up to n times has room: no call       *)
(* begins that could not end within MaxGen.                                *)
Room(w, n) ==
  generation[w] + Cardinality(Once(w)) + Cardinality(Twice(w)) + n <= MaxGen

At(c, place) == call[c].at = place
Goto(c, place) == call' = [call EXCEPT ![c].at = place]
Return(c) == call' = [call EXCEPT ![c] = NoCall]

(* A submission of item w takes away what a cancellation could promise.    *)
Using(w) ==
  /\ alone' = [c \in Clients |-> alone[c] /\ call[c].item # w]
  /\ quiet' = quiet \ {w}

(***************************************************************************)
(* k_work_submit_to_queue: the item is marked under its mutex and put into *)
(* the queue after the mutex is released.                                  *)
(***************************************************************************)
MarkPending(w) ==
  /\ pending' = [pending EXCEPT ![w] = TRUE]
  /\ canceled' = [canceled EXCEPT ![w] = FALSE]
  /\ UNCHANGED <<running, generation, delayed>>

(* Mutant: a pending item is queued again.                                 *)
SubmitAlways(c, w) ==
  /\ MarkPending(w) /\ Goto(c, "put")
  /\ UNCHANGED <<fifo, worker, slot, alone, quiet, overtaken>>

SubmitStep(c, w) ==
  /\ IF pending[w] THEN Return(c) /\ UNCHANGED itemVars
                   ELSE MarkPending(w) /\ Goto(c, "put")
  /\ UNCHANGED <<fifo, worker, slot, alone, quiet, overtaken>>

Submit(c, w) ==
  /\ At(c, "idle")
  /\ call' = [call EXCEPT ![c] = [NoCall EXCEPT !.at = "submit", !.item = w]]
  /\ Using(w)
  /\ UNCHANGED <<itemVars, fifo, worker, slot, overtaken>>

SubmitLocked(c) == At(c, "submit") /\ SubmitStep(c, call[c].item)

Put(c) ==
  /\ At(c, "put")
  /\ fifo' = Append(fifo, call[c].item) /\ Return(c)
  /\ UNCHANGED <<itemVars, worker, slot, alone, quiet, overtaken>>

(***************************************************************************)
(* schedule: K_NO_WAIT submits at once; otherwise a slot is allocated and  *)
(* a timer thread created, and a failure of either takes the deadline back *)
(* unless somebody else rescheduled meanwhile.                             *)
(***************************************************************************)
Schedule(c, w, delay, replace) ==
  /\ At(c, "idle") /\ w \in Delayable /\ Room(w, 1)
  /\ replace \/ ~delayed[w]
  /\ generation' = [generation EXCEPT ![w] = @ + 1]
  /\ delayed' = [delayed EXCEPT ![w] = delay]
  /\ call' = [call EXCEPT ![c] =
       [NoCall EXCEPT !.at = IF delay THEN "allocate" ELSE "submit",
                      !.item = w, !.gen = generation[w] + 1]]
  /\ Using(w)
  /\ overtaken' = IF Once(w) # {} THEN overtaken \cup {w} ELSE overtaken \ {w}
  /\ UNCHANGED <<pending, canceled, running, fifo, worker, slot>>

Allocate(c) ==
  /\ At(c, "allocate")
  /\ \/ /\ \A s \in Slots : slot[s].at # "free"
        /\ Goto(c, "fail") /\ UNCHANGED slot
     \/ \E s \in Slots :
          /\ slot[s].at = "free"
          /\ slot' = [slot EXCEPT ![s].at = "allocated"]
          /\ call' = [call EXCEPT ![c].at = "create", ![c].slot = s]
  /\ UNCHANGED <<itemVars, fifo, worker, alone, quiet, overtaken>>

Create(c) ==
  /\ At(c, "create")
  /\ \/ /\ slot' = [slot EXCEPT ![call[c].slot] =
                      [at |-> "wait", item |-> call[c].item, gen |-> call[c].gen,
                       canceled |-> FALSE]]
        /\ Return(c)
     \/ /\ slot' = [slot EXCEPT ![call[c].slot] = FreeSlot]
        /\ Goto(c, "fail")
  /\ UNCHANGED <<itemVars, fifo, worker, alone, quiet, overtaken>>

(* Mutant: the deadline survives the failure.                              *)
FailKeepsDeadline(c) ==
  /\ At(c, "fail")
  /\ Return(c)
  /\ UNCHANGED <<itemVars, fifo, worker, slot, alone, quiet, overtaken>>

Fail(c) ==
  /\ At(c, "fail")
  /\ LET w == call[c].item
     IN delayed' = [delayed EXCEPT ![w] = @ /\ generation[w] # call[c].gen]
  /\ Return(c)
  /\ UNCHANGED <<pending, canceled, running, generation, fifo, worker, slot,
                 alone, quiet, overtaken>>

(***************************************************************************)
(* delayed_main, the timer thread of a slot.                               *)
(***************************************************************************)
Expire(s) ==
  /\ slot[s].at = "wait"
  /\ slot' = [slot EXCEPT ![s].at = IF slot[s].canceled THEN "release" ELSE "fired"]
  /\ UNCHANGED <<itemVars, fifo, worker, call, alone, quiet, overtaken>>

CheckGeneration(s) ==
  /\ slot[s].at = "fired"
  /\ LET w == slot[s].item
         current == slot[s].gen = generation[w]
     IN /\ slot' = [slot EXCEPT ![s].at = IF current THEN "submit" ELSE "release"]
        /\ delayed' = [delayed EXCEPT ![w] = @ /\ ~current]
  /\ UNCHANGED <<pending, canceled, running, generation, fifo, worker, call,
                 alone, quiet, overtaken>>

TimerSubmit(s) ==
  /\ slot[s].at = "submit"
  /\ LET w == slot[s].item
     IN IF pending[w]
        THEN slot' = [slot EXCEPT ![s].at = "release"] /\ UNCHANGED itemVars
        ELSE slot' = [slot EXCEPT ![s].at = "put"] /\ MarkPending(w)
  /\ UNCHANGED <<fifo, worker, call, alone, quiet, overtaken>>

TimerPut(s) ==
  /\ slot[s].at = "put"
  /\ fifo' = Append(fifo, slot[s].item)
  /\ slot' = [slot EXCEPT ![s].at = "release"]
  /\ UNCHANGED <<itemVars, worker, call, alone, quiet, overtaken>>

Release(s) ==
  /\ slot[s].at = "release"
  /\ slot' = [slot EXCEPT ![s] = FreeSlot]
  /\ UNCHANGED <<itemVars, fifo, worker, call, alone, quiet, overtaken>>

(***************************************************************************)
(* Cancellation.  k_work_cancel is CancelWork; k_work_cancel_delayable is  *)
(* CancelDelay, MarkSlots and, if no delay was armed, CancelWork; the sync *)
(* variant then waits for the item's slots, cancels once more and waits    *)
(* for the item.                                                           *)
(***************************************************************************)
Matching(w) == {s \in Slots : slot[s].item = w}

(* Alone at the start: nobody else is in the middle of a submission of w.  *)
Unused(c, w) == \A d \in Clients \ {c} : call[d].item # w

Cancel(c, w, sync) ==
  /\ At(c, "idle") /\ w \notin Delayable /\ Room(w, 2)
  /\ call' = [call EXCEPT ![c] = [NoCall EXCEPT !.at = "cancel", !.item = w,
                                        !.sync = sync]]
  /\ alone' = [alone EXCEPT ![c] = Unused(c, w)]
  /\ UNCHANGED <<itemVars, fifo, worker, slot, quiet, overtaken>>

CancelDelay(c, w, sync) ==
  /\ At(c, "idle") /\ w \in Delayable /\ Room(w, 3)
  /\ delayed' = [delayed EXCEPT ![w] = FALSE]
  /\ generation' = [generation EXCEPT ![w] = @ + 1]
  /\ call' = [call EXCEPT ![c] = [NoCall EXCEPT !.at = "mark", !.item = w,
                                        !.sync = sync, !.was = delayed[w]]]
  /\ alone' = [alone EXCEPT ![c] = Unused(c, w)]
  /\ UNCHANGED <<pending, canceled, running, fifo, worker, slot, quiet, overtaken>>

MarkSlots(c) ==
  /\ At(c, "mark")
  /\ slot' = [s \in Slots |-> IF s \in Matching(call[c].item)
                              THEN [slot[s] EXCEPT !.canceled = TRUE] ELSE slot[s]]
  /\ IF ~call[c].was THEN Goto(c, "cancel")
     ELSE IF call[c].sync THEN Goto(c, "drain") ELSE Return(c)
  /\ UNCHANGED <<itemVars, fifo, worker, alone, quiet, overtaken>>

MarkCanceled(w) == canceled' = [canceled EXCEPT ![w] = @ \/ pending[w]]

CancelWork(c) ==
  /\ call[c].at \in {"cancel", "cancelAgain"}
  /\ MarkCanceled(call[c].item)
  /\ generation' = [generation EXCEPT ![call[c].item] = @ + 1]
  /\ IF At(c, "cancelAgain") THEN Goto(c, "wait")
     ELSE IF ~call[c].sync THEN Return(c)
     ELSE Goto(c, IF call[c].item \in Delayable THEN "drain" ELSE "wait")
  /\ UNCHANGED <<pending, running, delayed, fifo, worker, slot, alone, quiet, overtaken>>

(* Mutant: the sync variant does not wait for timer threads.               *)
DrainAtOnce(c) ==
  /\ At(c, "drain") /\ Goto(c, "cancelAgain")
  /\ UNCHANGED <<itemVars, fifo, worker, slot, alone, quiet, overtaken>>

(* delayed_request_cancel(work, true): mark until no slot matches.         *)
Drain(c) ==
  /\ At(c, "drain")
  /\ LET S == Matching(call[c].item)
     IN \/ /\ \E s \in S : ~slot[s].canceled
           /\ slot' = [s \in Slots |-> IF s \in S
                         THEN [slot[s] EXCEPT !.canceled = TRUE] ELSE slot[s]]
           /\ UNCHANGED call
        \/ S = {} /\ Goto(c, "cancelAgain") /\ UNCHANGED slot
  /\ UNCHANGED <<itemVars, fifo, worker, alone, quiet, overtaken>>

(* The end of k_work_cancel_sync, and k_work_flush.                        *)
Wait(c) ==
  /\ At(c, "wait")
  /\ LET w == call[c].item
     IN /\ ~pending[w] /\ ~running[w]
        /\ quiet' = IF call[c].sync /\ alone[c] THEN quiet \cup {w} ELSE quiet
  /\ Return(c)
  /\ UNCHANGED <<itemVars, fifo, worker, slot, alone, overtaken>>

Flush(c, w) ==
  /\ At(c, "idle")
  /\ call' = [call EXCEPT ![c] = [NoCall EXCEPT !.at = "wait", !.item = w]]
  /\ UNCHANGED <<itemVars, fifo, worker, slot, alone, quiet, overtaken>>

(***************************************************************************)
(* worker_main                                                             *)
(***************************************************************************)
Get ==
  /\ worker.at = "get" /\ fifo # <<>>
  /\ worker' = [at |-> "begin", item |-> Head(fifo)] /\ fifo' = Tail(fifo)
  /\ UNCHANGED <<itemVars, slot, call, alone, quiet, overtaken>>

Begin ==
  /\ worker.at = "begin"
  /\ LET w == worker.item
     IN /\ pending' = [pending EXCEPT ![w] = FALSE]
        /\ canceled' = [canceled EXCEPT ![w] = FALSE]
        /\ running' = [running EXCEPT ![w] = ~canceled[w]]
        /\ worker' = IF canceled[w] THEN [at |-> "get", item |-> None]
                                    ELSE [at |-> "run", item |-> w]
  /\ UNCHANGED <<generation, delayed, fifo, slot, call, alone, quiet, overtaken>>

End ==
  /\ worker.at = "run"
  /\ running' = [running EXCEPT ![worker.item] = FALSE]
  /\ worker' = [at |-> "get", item |-> None]
  /\ UNCHANGED <<pending, canceled, generation, delayed, fifo, slot, call,
                 alone, quiet, overtaken>>

Worker == Get \/ Begin \/ End

Timer(s) ==
  Expire(s) \/ CheckGeneration(s) \/ TimerSubmit(s) \/ TimerPut(s) \/ Release(s)

(* The steps of a call that has begun.                                     *)
Progress(c) ==
  \/ SubmitLocked(c) \/ Put(c) \/ Allocate(c) \/ Create(c) \/ Fail(c)
  \/ MarkSlots(c) \/ CancelWork(c) \/ Drain(c) \/ Wait(c)

Begins(c) ==
  \E w \in Items :
    \/ Submit(c, w) \/ Flush(c, w)
    \/ \E delay \in BOOLEAN, replace \in BOOLEAN : Schedule(c, w, delay, replace)
    \/ \E sync \in BOOLEAN : Cancel(c, w, sync) \/ CancelDelay(c, w, sync)

Next ==
  \/ Worker
  \/ \E s \in Slots : Timer(s)
  \/ \E c \in Clients : Begins(c) \/ Progress(c)

Spec == Init /\ [][Next]_vars

(* The worker and the timers are threads, a handler returns, and a call    *)
(* that has begun goes on.                                                 *)
FairSpec ==
  /\ Spec /\ WF_vars(Worker)
  /\ \A s \in Slots : WF_vars(Timer(s))
  /\ \A c \in Clients : WF_vars(Progress(c))

-----------------------------------------------------------------------------
(* Every variable has its type.                                            *)
TypeOK ==
  /\ pending \in [Items -> BOOLEAN] /\ canceled \in [Items -> BOOLEAN]
  /\ running \in [Items -> BOOLEAN] /\ delayed \in [Items -> BOOLEAN]
  /\ generation \in [Items -> 0 .. MaxGen]
  /\ fifo \in Seq(Items) /\ Len(fifo) <= Cardinality(Items)
  /\ worker \in [at : {"get", "begin", "run"}, item : Items \cup {None}]
  /\ quiet \subseteq Items /\ overtaken \subseteq Items

(* How often item w is in the queue, on its way into it or just taken out. *)
Links(w) ==
    Cardinality({i \in 1 .. Len(fifo) : fifo[i] = w})
  + Cardinality({c \in Clients : At(c, "put") /\ call[c].item = w})
  + Cardinality({s \in Slots : slot[s].at = "put" /\ slot[s].item = w})
  + IF worker.at = "begin" /\ worker.item = w THEN 1 ELSE 0

(* The queue links items through themselves, so an item that is put twice  *)
(* destroys it.  Although the put happens outside the item's mutex, an     *)
(* item is on its way into, in, or just out of the queue exactly while it  *)
(* is pending, and never twice.                                            *)
LinkedOnce == \A w \in Items : Links(w) = IF pending[w] THEN 1 ELSE 0

(* After a synchronous cancellation returned, and as long as nobody        *)
(* submits the item again, it is not queued, its handler does not run, and *)
(* no timer thread will submit it or touch it: it may be freed.            *)
CancelSyncIsFinal ==
  \A w \in quiet : /\ ~pending[w] /\ ~running[w] /\ ~delayed[w]
                   /\ Matching(w) = {}

DelayEndsDue(w) == delayed[w]
DelayEndsMet(w) == ~delayed[w] \/ w \in overtaken

(* A delay that was armed does not stay armed: the item is submitted, or   *)
(* the delay is cancelled or fails.  Otherwise k_work_schedule would       *)
(* refuse the item for ever.  It does after a delay was armed while        *)
(* another call was cancelling the item: a cancellation clears the         *)
(* deadline and marks the slots only after it released the item's mutex,   *)
(* or raises the generation once more, and so takes the timer of the delay *)
(* that was armed in between but leaves its deadline.                      *)
DelayEnds == \A w \in Items : DelayEndsDue(w) ~> DelayEndsMet(w)

QueuedEndsDue(w) == pending[w]
QueuedEndsMet(w) == ~pending[w]

(* A queued item is run or its cancellation is acknowledged: waiters of    *)
(* flush and cancel_sync are released.                                     *)
QueuedEnds == \A w \in Items : QueuedEndsDue(w) ~> QueuedEndsMet(w)
=============================================================================
