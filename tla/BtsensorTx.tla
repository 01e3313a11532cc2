----------------------------- MODULE BtsensorTx -----------------------------
(***************************************************************************)
(* The send arbiter of apps/btsensor/btsensor_tx.c above the hub transport *)
(* (bluetooth/zephyr_compat/src/hub_transport.c, classic_spp.c), and its   *)
(* drain registrations, two state machines.                                *)
(*                                                                         *)
(* The arbiter: responses and telemetry frames of two links are queued by  *)
(* any thread and sent by whichever thread finds nobody pumping. A step is *)
(* one critical section of g_lock, or one call into the transport, which   *)
(* is made without the lock. Every thread can run every operation:         *)
(* samplers enqueue, the Bluetooth threads report links, sent frames and   *)
(* received commands.                                                      *)
(*                                                                         *)
(* The registrations: a caller asks to be told when both queues are empty, *)
(* optionally within a time, and a single reconciler brings the backend    *)
(* timer to what is registered. Here the queues are one flag, and the      *)
(* steps are critical sections and calls of the timer backend.             *)
(***************************************************************************)
EXTENDS Naturals, Sequences, FiniteSets

CONSTANTS
  Threads,
  Links, Classic, Ble,   \* enum brickwright_hub_link
  RespDepth, TxDepth,    \* RESP_DEPTH, CONFIG_APP_BTSENSOR_RING_DEPTH
  Pool,                  \* transmit buffers of a link (spp_tx_pool)
  MaxTicket, MaxEpoch, MaxLife,  \* bounds: items, connections, (de)inits
  None

LinksAre == Links = {Classic, Ble} /\ Classic # Ble

TxAssumption ==
  /\ LinksAre /\ None \notin Links /\ RespDepth \in Nat \ {0} /\ TxDepth \in Nat \ {0, 1}
  /\ {Pool, MaxTicket, MaxEpoch, MaxLife} \subseteq Nat

VARIABLES
  queue,                      \* used slots of g_responses and g_frames
  online, sessions,           \* g_online, g_sessions
  selected,                   \* g_link when g_selected, None otherwise
  pumping, repoll,            \* g_pumping, g_repoll
  lifetime, up,               \* g_lifetime, between init and deinit
  ticket,                     \* g_ticket
  thread,                     \* what each thread is doing
  conn, last,                 \* the transport's connection, and the newest
  inflight,                   \* transmit buffers in use
  delivered                   \* history: what the transport accepted

tx == <<queue, online, sessions, selected, pumping, repoll, lifetime, up, ticket>>
transport == <<conn, last, inflight>>
vars == <<tx, thread, transport, delivered>>

Idle == [at |-> "idle", life |-> 0, blocked |-> {}, retry |-> FALSE,
         item |-> None, rc |-> None, link |-> None]

Init ==
  /\ queue = {} /\ online = [l \in Links |-> FALSE] /\ sessions = [l \in Links |-> 0]
  /\ selected = None /\ pumping = FALSE /\ repoll = FALSE
  /\ lifetime = 0 /\ up = FALSE /\ ticket = 0
  /\ thread = [t \in Threads |-> Idle]
  /\ conn = [l \in Links |-> 0] /\ last = [l \in Links |-> 0]
  /\ inflight = [l \in Links |-> 0]
  /\ delivered = <<>>

At(t, place) == thread[t].at = place
Goto(t, place) == thread' = [thread EXCEPT ![t].at = place]
Return(t) == thread' = [thread EXCEPT ![t] = Idle]
ThenPump(t) == thread' = [thread EXCEPT ![t] = [Idle EXCEPT !.at = "pump"]]

(***************************************************************************)
(* btsensor_tx_init and btsensor_tx_deinit.  A pump that is inside a send  *)
(* notices by the lifetime that it is no longer wanted.  The daemon starts *)
(* the transport after the one; before the other it disables the transport *)
(* and closes both links (btsensor_tx_set_link with selected = false).     *)
(***************************************************************************)
Start(t) ==
  /\ At(t, "idle") /\ ~up /\ lifetime < MaxLife
  /\ queue' = {} /\ online' = [l \in Links |-> FALSE] /\ selected' = None
  /\ pumping' = FALSE /\ lifetime' = lifetime + 1 /\ up' = TRUE
  /\ UNCHANGED <<sessions, repoll, ticket, thread, transport, delivered>>

Stop(t) ==
  /\ At(t, "idle") /\ up /\ lifetime < MaxLife
  /\ queue' = {} /\ online' = [l \in Links |-> FALSE] /\ selected' = None
  /\ lifetime' = lifetime + 1 /\ up' = FALSE
  /\ conn' = [l \in Links |-> 0] /\ inflight' = [l \in Links |-> 0]
  /\ sessions' = [l \in Links |-> sessions[l] + 1]
  /\ UNCHANGED <<pumping, repoll, ticket, thread, last, delivered>>

(***************************************************************************)
(* Links.  The transport changes its own state first and reports it after. *)
(***************************************************************************)
OfLink(l) == {it \in queue : it.link = l}

Discard(l) == queue \ OfLink(l)

Connected(t, l) ==
  /\ At(t, "idle") /\ up /\ conn[l] = 0
  /\ last[Classic] + last[Ble] < MaxEpoch
  /\ last' = [last EXCEPT ![l] = @ + 1]
  /\ conn' = [conn EXCEPT ![l] = last[l] + 1]
  /\ inflight' = [inflight EXCEPT ![l] = 0]
  /\ thread' = [thread EXCEPT ![t].at = "up", ![t].link = l]
  /\ UNCHANGED <<tx, delivered>>

Disconnected(t, l) ==
  /\ At(t, "idle") /\ up /\ conn[l] # 0
  /\ \A u \in Threads : thread[u].at \in {"up", "down"} => thread[u].link # l
  /\ conn' = [conn EXCEPT ![l] = 0]
  /\ thread' = [thread EXCEPT ![t].at = "down", ![t].link = l]
  /\ UNCHANGED <<tx, last, inflight, delivered>>

LinkState(t) ==
  /\ thread[t].at \in {"up", "down"}
  /\ LET l == thread[t].link
         connected == At(t, "up")
     IN /\ queue' = IF ~connected \/ ~online[l] \/ sessions[l] # last[l]
                    THEN Discard(l) ELSE queue
        /\ sessions' = [sessions EXCEPT ![l] = last[l]]
        /\ online' = [online EXCEPT ![l] = connected]
        /\ selected' = IF ~connected /\ selected = l THEN None ELSE selected
  /\ ThenPump(t)
  /\ UNCHANGED <<pumping, repoll, lifetime, up, ticket, transport, delivered>>

SetLink(t, l) ==
  /\ At(t, "idle") /\ up /\ conn[l] # 0
  /\ selected' = l /\ online' = [online EXCEPT ![l] = TRUE]
  /\ ThenPump(t)
  /\ UNCHANGED <<queue, sessions, pumping, repoll, lifetime, up, ticket, transport,
                 delivered>>

(***************************************************************************)
(* Enqueueing.  One slot of either queue is never used.  A response is     *)
(* refused when its queue is full, a frame replaces the oldest one.        *)
(***************************************************************************)
Of(kind) == {it \in queue : it.kind = kind}
Oldest(S) == CHOOSE it \in S : \A other \in S : it.ticket <= other.ticket

Admitted(l) == online[l] /\ (l = Ble => conn[Ble] # 0) /\ ticket < MaxTicket
Tagged(kind, l) ==
  [kind |-> kind, link |-> l, ticket |-> ticket + 1, session |-> sessions[l],
   ident |-> IF l = Ble THEN conn[Ble] ELSE 0]

EnqueueResponse(t, l) ==
  /\ At(t, "idle") /\ Admitted(l) /\ Cardinality(Of("response")) < RespDepth - 1
  /\ queue' = queue \cup {Tagged("response", l)}
  /\ ticket' = ticket + 1
  /\ ThenPump(t)
  /\ UNCHANGED <<online, sessions, selected, pumping, repoll, lifetime, up,
                 transport, delivered>>

EnqueueFrame(t, l) ==
  /\ At(t, "idle") /\ Admitted(l)
  /\ LET F == Of("frame")
         kept == IF Cardinality(F) = TxDepth - 1 THEN queue \ {Oldest(F)} ELSE queue
     IN queue' = kept \cup {Tagged("frame", l)}
  /\ ticket' = ticket + 1
  /\ ThenPump(t)
  /\ UNCHANGED <<online, sessions, selected, pumping, repoll, lifetime, up,
                 transport, delivered>>

(* btsensor_tx_enqueue_response and _try_enqueue_frame: the selected link. *)
EnqueueSelected(t) ==
  /\ selected # None
  /\ EnqueueResponse(t, selected) \/ EnqueueFrame(t, selected)

Enter(t) ==
  /\ At(t, "pump")
  /\ IF pumping
     THEN repoll' = TRUE /\ Return(t) /\ UNCHANGED pumping
     ELSE /\ pumping' = TRUE /\ repoll' = FALSE
          /\ thread' = [thread EXCEPT ![t] = [Idle EXCEPT !.at = "pick", !.life = lifetime,
                                                          !.retry = TRUE]]
  /\ UNCHANGED <<queue, online, sessions, selected, lifetime, up, ticket, transport,
                 delivered>>

Outdated(t) == thread[t].life # lifetime

(* Responses first, the oldest first, links the transport refused skipped. *)
Candidates(t) ==
  LET open(kind) == {it \in Of(kind) : it.link \notin thread[t].blocked}
  IN IF open("response") # {} THEN open("response") ELSE open("frame")

Leave(t) == At(t, "pick") /\ Outdated(t) /\ Return(t) /\ UNCHANGED <<tx, transport, delivered>>

Pick(t) ==
  /\ At(t, "pick") /\ ~Outdated(t) /\ Candidates(t) # {}
  /\ thread' = [thread EXCEPT ![t].at = "send", ![t].item = Oldest(Candidates(t))]
  /\ UNCHANGED <<tx, transport, delivered>>

Finish(t) ==
  /\ At(t, "pick") /\ ~Outdated(t) /\ Candidates(t) = {}
  /\ IF repoll /\ thread[t].retry
     THEN /\ repoll' = FALSE
          /\ thread' = [thread EXCEPT ![t].retry = FALSE, ![t].blocked = {}]
          /\ UNCHANGED pumping
     ELSE pumping' = FALSE /\ Return(t) /\ UNCHANGED repoll
  /\ UNCHANGED <<queue, online, sessions, selected, lifetime, up, ticket, transport,
                 delivered>>

(* The transport: the item of a BLE link carries the identity of the       *)
(* connection it was meant for, the item of the Classic link does not.     *)
Accepts(it) == conn[it.link] # 0 /\ (it.link = Ble => it.ident = conn[Ble])

Send(t) ==
  /\ At(t, "send")
  /\ LET it == thread[t].item
         l == it.link
     IN IF Accepts(it) /\ inflight[l] < Pool
        THEN /\ inflight' = [inflight EXCEPT ![l] = @ + 1]
             /\ delivered' = Append(delivered, [item |-> it, epoch |-> conn[l],
                                                life |-> thread[t].life])
             /\ thread' = [thread EXCEPT ![t].at = "done", ![t].rc = "ok"]
        ELSE /\ thread' = [thread EXCEPT ![t].at = "done", ![t].rc =
                             IF l = Ble /\ ~Accepts(it) THEN "stale" ELSE "refused"]
             /\ UNCHANGED <<inflight, delivered>>
  /\ UNCHANGED <<tx, conn, last>>

Done(t) ==
  /\ At(t, "done")
  /\ IF Outdated(t) THEN Return(t) /\ UNCHANGED queue
     ELSE LET it == thread[t].item
              l == it.link
              same == it \in queue /\ online[l] /\ sessions[l] = it.session
          IN /\ queue' = IF thread[t].rc # "refused" /\ same THEN queue \ {it} ELSE queue
             /\ thread' = [thread EXCEPT ![t].at = "pick", ![t].item = None, ![t].rc = None,
                  ![t].blocked = IF thread[t].rc = "refused" THEN @ \cup {l} ELSE @]
  /\ UNCHANGED <<online, sessions, selected, pumping, repoll, lifetime, up, ticket,
                 transport, delivered>>

(* A transmit buffer is given back.  dlc_sent runs the writable hook; BLE  *)
(* notifications have none.                                                *)
Sent(t, l) ==
  /\ inflight[l] > 0
  /\ inflight' = [inflight EXCEPT ![l] = @ - 1]
  /\ IF l = Classic /\ conn[l] # 0 THEN At(t, "idle") /\ ThenPump(t) ELSE UNCHANGED thread
  /\ UNCHANGED <<tx, conn, last, delivered>>

Pump(t) == Enter(t) \/ Leave(t) \/ Pick(t) \/ Finish(t) \/ Send(t) \/ Done(t)

Next ==
  \E t \in Threads :
    \/ Start(t) \/ Stop(t) \/ LinkState(t) \/ EnqueueSelected(t) \/ Pump(t)
    \/ \E l \in Links :
         \/ Connected(t, l) \/ Disconnected(t, l) \/ SetLink(t, l)
         \/ EnqueueResponse(t, l) \/ EnqueueFrame(t, l) \/ Sent(t, l)

Spec == Init /\ [][Next]_vars

-----------------------------------------------------------------------------
(* Every variable has its type, and neither queue uses its spare slot.     *)
TypeOK ==
  /\ Cardinality(Of("response")) < RespDepth /\ Cardinality(Of("frame")) < TxDepth
  /\ online \in [Links -> BOOLEAN] /\ sessions \in [Links -> 0 .. MaxEpoch + MaxLife]
  /\ selected \in Links \cup {None} /\ {pumping, repoll, up} \subseteq BOOLEAN
  /\ lifetime \in 0 .. MaxLife /\ ticket \in 0 .. MaxTicket
  /\ inflight \in [Links -> 0 .. Pool]

(* The threads that may remove items of the current lifetime.              *)
Pumps == {t \in Threads : thread[t].at \in {"pick", "send", "done"} /\ ~Outdated(t)}

(* Between init and deinit the flag g_pumping stands for exactly one pump: *)
(* never two that would send an item twice, and never the flag without a   *)
(* thread behind it, which would silence the arbiter for good - also when  *)
(* deinit and init happen while a pump is inside the transport.            *)
PumpingIsOwned ==
  Cardinality(Pumps) <= 1 /\ (up => (pumping <=> Pumps # {}))

(* Within a lifetime the items of one kind go out to a link in the order   *)
(* they were enqueued, and each at most once, whatever the transport       *)
(* refused in between and however often links come and go.                 *)
TxInOrder ==
  \A i, j \in 1 .. Len(delivered) :
    LET a == delivered[i]
        b == delivered[j]
    IN i < j /\ a.life = b.life /\ a.item.link = b.item.link /\ a.item.kind = b.item.kind
         => a.item.ticket < b.item.ticket

(* A BLE item reaches the connection it was enqueued for or none, although *)
(* the central may change between choosing the item and sending it.        *)
BleOwnConnection ==
  \A i \in 1 .. Len(delivered) :
    delivered[i].item.link = Ble => delivered[i].item.ident = delivered[i].epoch

(* Whatever is queued belongs to the present session of an online link:    *)
(* nothing of a closed session waits for the next one.                     *)
QueueIsCurrent ==
  \A it \in queue : online[it.link] /\ it.session = sessions[it.link]

(* No Classic item waits with nobody to send it: when all threads rest,    *)
(* the link is up and no buffer is in flight (so that no completion will   *)
(* resume the pump), nothing is queued.                                    *)
ClassicResumes ==
  (\A t \in Threads : At(t, "idle")) /\ up /\ conn[Classic] # 0 /\ inflight[Classic] = 0
    => OfLink(Classic) = {}

-----------------------------------------------------------------------------
(* Drain registrations *)

CONSTANTS
  DrainThreads,
  MaxId     \* bound on g_drain_counter

VARIABLES
  busy,        \* something is queued
  drain,       \* [id, timed]: g_drain_id, g_drain_timeout # 0
  timerId,     \* g_timer_id
  reconciling, \* g_timer_pumping
  counter,     \* g_drain_counter
  armed,       \* the backend's running timers
  drainThread,      \* [at, id]: what each thread is doing
  calls        \* history: terminal callbacks made for each registration

drainVars == <<busy, drain, timerId, reconciling, counter, armed, drainThread, calls>>

NoDrain == [id |-> 0, timed |-> FALSE]
DrainIdle == [at |-> "idle", id |-> 0]

DrainInit ==
  /\ busy = FALSE /\ drain = NoDrain /\ timerId = 0 /\ reconciling = FALSE
  /\ counter = 0 /\ armed = {}
  /\ drainThread = [t \in DrainThreads |-> DrainIdle]
  /\ calls = [id \in 1 .. MaxId |-> 0]

DrainAt(t, place) == drainThread[t].at = place
DrainGoto(t, place, id) == drainThread' = [drainThread EXCEPT ![t] = [at |-> place, id |-> id]]
Called(id) == calls' = [calls EXCEPT ![id] = @ + 1]

Desired == IF drain.timed THEN drain.id ELSE 0

(* Mutant: an installed timer nobody wants any more is overlooked.         *)
NeededWhenWanted(d) == ~reconciling /\ d.id # 0 /\ d.timed

(* unlock_and_reconcile_timer, after the registration became d.            *)
Needed(d) == ~reconciling /\ (timerId # 0 \/ (d.id # 0 /\ d.timed))

UnlockAndReconcile(t) ==
  IF Needed(drain') THEN DrainGoto(t, "reconcile", 0) ELSE DrainGoto(t, "idle", 0)

(***************************************************************************)
(* Registration, and the ways it ends.                                     *)
(***************************************************************************)
Arm(t, timed) ==
  /\ DrainAt(t, "idle") /\ drain.id = 0 /\ counter < MaxId
  /\ counter' = counter + 1
  /\ IF busy THEN drain' = [id |-> counter + 1, timed |-> timed] /\ UNCHANGED calls
             ELSE Called(counter + 1) /\ UNCHANGED drain
  /\ UnlockAndReconcile(t)
  /\ UNCHANGED <<busy, timerId, reconciling, armed>>

Clear(t) ==
  /\ DrainAt(t, "idle") /\ drain.id # 0
  /\ drain' = NoDrain
  /\ UnlockAndReconcile(t)
  /\ UNCHANGED <<busy, timerId, reconciling, counter, armed, calls>>

(* init, deinit and set_link(FALSE); link_state goes on to the pump.       *)
DrainDiscard(t) ==
  /\ DrainAt(t, "idle") /\ busy
  /\ drain' = NoDrain /\ busy' = FALSE
  /\ UnlockAndReconcile(t) \/ DrainGoto(t, "pump", 0)
  /\ UNCHANGED <<timerId, reconciling, counter, armed, calls>>

Enqueue == busy' = TRUE /\ UNCHANGED <<drain, timerId, reconciling, counter, armed, drainThread, calls>>

(* Some thread pumped; whether it emptied the queues depends on the        *)
(* transport.                                                              *)
StartPump(t) ==
  /\ DrainAt(t, "idle") /\ busy
  /\ DrainGoto(t, "pump", 0)
  /\ busy' \in BOOLEAN
  /\ UNCHANGED <<drain, timerId, reconciling, counter, armed, calls>>

PumpEnd(t) ==
  /\ DrainAt(t, "pump")
  /\ IF drain.id # 0 /\ ~busy THEN Called(drain.id) /\ drain' = NoDrain
                              ELSE UNCHANGED <<calls, drain>>
  /\ UnlockAndReconcile(t)
  /\ UNCHANGED <<busy, timerId, reconciling, counter, armed>>

Fire(t, id) ==
  /\ DrainAt(t, "idle") /\ id \in armed
  /\ armed' = armed \ {id}
  /\ DrainGoto(t, "expire", id)
  /\ UNCHANGED <<busy, drain, timerId, reconciling, counter, calls>>

Expire(t) ==
  /\ DrainAt(t, "expire")
  /\ IF drain.id = drainThread[t].id /\ timerId = drainThread[t].id
     THEN Called(drainThread[t].id) /\ timerId' = 0 /\ drain' = NoDrain
     ELSE UNCHANGED <<calls, timerId, drain>>
  /\ DrainGoto(t, "reconcile", 0)
  /\ UNCHANGED <<busy, reconciling, counter, armed>>

DrainEnter(t) ==
  /\ DrainAt(t, "reconcile")
  /\ IF reconciling THEN DrainGoto(t, "idle", 0) /\ UNCHANGED reconciling
                    ELSE DrainGoto(t, "loop", 0) /\ reconciling' = TRUE
  /\ UNCHANGED <<busy, drain, timerId, counter, armed, calls>>

Loop(t) ==
  /\ DrainAt(t, "loop")
  /\ \/ /\ timerId = Desired
        /\ reconciling' = FALSE /\ DrainGoto(t, "idle", 0) /\ UNCHANGED timerId
     \/ /\ timerId # Desired /\ timerId # 0
        /\ timerId' = 0 /\ DrainGoto(t, "cancel", timerId) /\ UNCHANGED reconciling
     \/ /\ timerId # Desired /\ timerId = 0
        /\ timerId' = Desired /\ DrainGoto(t, "start", Desired) /\ UNCHANGED reconciling
  /\ UNCHANGED <<busy, drain, counter, armed, calls>>

CancelTimer(t) ==
  /\ DrainAt(t, "cancel")
  /\ armed' = armed \ {drainThread[t].id}
  /\ DrainGoto(t, "loop", 0)
  /\ UNCHANGED <<busy, drain, timerId, reconciling, counter, calls>>

StartTimer(t) ==
  /\ DrainAt(t, "start")
  /\ \/ armed' = armed \cup {drainThread[t].id} /\ DrainGoto(t, "loop", 0)
     \/ DrainGoto(t, "failed", drainThread[t].id) /\ UNCHANGED armed
  /\ UNCHANGED <<busy, drain, timerId, reconciling, counter, calls>>

Failed(t) ==
  /\ DrainAt(t, "failed")
  /\ timerId' = IF timerId = drainThread[t].id THEN 0 ELSE timerId
  /\ IF drain.id = drainThread[t].id THEN Called(drain.id) /\ drain' = NoDrain
                                ELSE UNCHANGED <<calls, drain>>
  /\ DrainGoto(t, "loop", 0)
  /\ UNCHANGED <<busy, reconciling, counter, armed>>

Progress(t) ==
  \/ PumpEnd(t) \/ Expire(t) \/ DrainEnter(t) \/ Loop(t) \/ CancelTimer(t) \/ StartTimer(t)
  \/ Failed(t)

Fires == \E t \in DrainThreads, id \in 1 .. MaxId : Fire(t, id)

DrainNext ==
  \/ Enqueue \/ Fires
  \/ \E t \in DrainThreads :
       \/ Progress(t) \/ Clear(t) \/ DrainDiscard(t) \/ StartPump(t)
       \/ \E timed \in BOOLEAN : Arm(t, timed)

DrainSpec == DrainInit /\ [][DrainNext]_drainVars

(* DrainThreads inside an operation go on; a timer expires when some thread can *)
(* deliver it.                                                             *)
DrainFairSpec == DrainSpec /\ SF_drainVars(Fires) /\ \A t \in DrainThreads : WF_drainVars(Progress(t))

-----------------------------------------------------------------------------
(* A registration is told its end at most once, although drain, expiry, a  *)
(* failing timer start and cancellation race.                              *)
OneTerminal == \A id \in 1 .. MaxId : calls[id] <= 1

(* When all operations have returned the backend runs exactly the timer of *)
(* the open registration: no timer is forgotten, none outlives what it was *)
(* armed for.                                                              *)
Reconciled ==
  (\A t \in DrainThreads : DrainAt(t, "idle"))
    => armed = (IF Desired = 0 THEN {} ELSE {Desired}) /\ timerId = Desired /\ ~reconciling

TimedEndsDue == drain.timed
TimedEndsMet == ~drain.timed

(* A registration with a time-out ends.                                    *)
TimedEnds == TimedEndsDue ~> TimedEndsMet
=============================================================================
