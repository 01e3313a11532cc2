-------------------------- MODULE BluetoothProofs ---------------------------
(***************************************************************************)
(* Proofs about the machines below the Bluetooth application: the work     *)
(* queues (module WorkQueue), the UART (BtUart), the settings store        *)
(* (SettingsStore), the daemon, its commands and the link (Lifecycle), and *)
(* the controller (HciLink), each for every value of its constants.  The   *)
(* machines are instances of their modules over the names below, and a     *)
(* theorem speaks of one of them.                                          *)
(***************************************************************************)
EXTENDS Integers, SequenceTheorems, FiniteSetTheorems, WellFoundedInduction, TLAPS

CONSTANTS Items, Delayable, Clients, Slots, MaxGen, None, UartRing, MaxBytes, MaxAhead,
          UartWriter, UartOpens, TxRing, TxBytes, TxAhead, UartTxWriter, TxOpens, Key,
          Value, Handler, Pieces, MaxOps, MaxCrashes, Unreadable, Cli, MaxStarts, MaxStops,
          Timeouts, Conn, Sender, MaxLinks, MaxShell, MaxFrames, MaxPending, MaxRecoveries,
          MaxNaps, MaxFaults, MaxOpens

VARIABLES pending, canceled, running, workGeneration, delayed, fifo, workThread, slot, call,
          alone, quiet, overtaken, sent, uartQuiet, uartIdle, opens, uartOpen, rx_consumer,
          rxwork_pending, rxsem, uartReader, pollSlot, revents, uartNext, garbled,
          uartSince, txlock, uartDma, shiftEmpty, cts, baud, uartWriters, keyFile, keyTemp,
          handlers, keySave, keyLoad, loaded, committed, acked, keyOps, crashes, g_running,
          stop_request, stopped, starts, pc, taken, held, g_started, bt, rx, stuck, cli,
          stops, asked, crossing, hc, refs, who, links, le_connection, le_identity,
          last_le_identity, generation, events, host, adv, scan, g_le_advertising,
          g_visible, work, wq, sh, shells, crossed, snd, eh, fault, ctl, drv, hciRx, toCtl,
          toHost, peer, accepted, hciGot, spent

-----------------------------------------------------------------------------
(* The work queues *)

Queue == INSTANCE WorkQueue WITH generation <- workGeneration, worker <- workThread

(* The places of a cancellation or a flush, and those of a submission.     *)
Cancels == {"mark", "cancel", "drain", "cancelAgain", "wait"}
Delays == {"allocate", "create", "fail"}
Submits == {"submit", "put"} \cup Delays

(* The fields of a call, and those of a timer slot.                        *)
CallFields == {"at", "item", "gen", "slot", "sync", "was"}
SlotFields == {"at", "item", "gen", "canceled"}

(* The shape of the tables; calls have an item, and timers a delayable one.*)
WorkTyped ==
  /\ pending = [w \in Items |-> pending[w]] /\ running = [w \in Items |-> running[w]]
  /\ delayed = [w \in Items |-> delayed[w]] /\ alone = [c \in Clients |-> alone[c]]
  /\ call = [c \in Clients |-> call[c]] /\ slot = [s \in Slots |-> slot[s]]
  /\ \A c \in Clients : CallFields \subseteq DOMAIN call[c]
  /\ \A s \in Slots : SlotFields \subseteq DOMAIN slot[s]
  /\ fifo \in Seq(Items) /\ quiet \subseteq Items
  /\ workThread.at = "begin" => workThread.item \in Items

(* A call is at a place of its kind, with an item; a delay's is delayable. *)
CallFits(r) ==
  /\ \/ r.at = "idle" /\ r.item = None /\ ~r.sync
     \/ r.at \in Submits /\ r.item \in Items /\ ~r.sync
     \/ r.at \in Cancels /\ r.item \in Items
  /\ r.at \in Delays => r.item \in Delayable

(* A timer slot that is taken has a delayable item.                        *)
SlotFits(r) ==
  r.item \in Delayable \/ (r.item = None /\ r.at \in {"free", "allocated"})

(* Calls and timers fit, and only delayable items are delayed.             *)
WorkPlaces ==
  /\ \A c \in Clients : CallFits(call[c])
  /\ \A s \in Slots : SlotFits(slot[s])
  /\ \A w \in Items \ Delayable : ~delayed[w]

(* An item on its way into, in or just out of the queue is pending, and is *)
(* there once.                                                             *)
WorkLinked ==
  /\ \A i \in 1 .. Len(fifo) : pending[fifo[i]]
  /\ \A i, j \in 1 .. Len(fifo) : fifo[i] = fifo[j] => i = j
  /\ \A c \in Clients : Queue!At(c, "put") =>
        /\ pending[call[c].item]
        /\ \A i \in 1 .. Len(fifo) : fifo[i] # call[c].item
        /\ \A d \in Clients \ {c} : Queue!At(d, "put") => call[d].item # call[c].item
  /\ \A s \in Slots : slot[s].at = "put" =>
        /\ pending[slot[s].item]
        /\ \A i \in 1 .. Len(fifo) : fifo[i] # slot[s].item
        /\ \A c \in Clients : Queue!At(c, "put") => call[c].item # slot[s].item
        /\ \A t \in Slots \ {s} : slot[t].at = "put" => slot[t].item # slot[s].item
  /\ workThread.at = "begin" =>
        /\ pending[workThread.item]
        /\ \A i \in 1 .. Len(fifo) : fifo[i] # workThread.item
        /\ \A c \in Clients : Queue!At(c, "put") => call[c].item # workThread.item
        /\ \A s \in Slots : slot[s].at = "put" => slot[s].item # workThread.item

(* Nobody submits w.                                                       *)
Unsubmitted(w) == \A d \in Clients : call[d].item = w => call[d].at \in Cancels

(* While a synchronous cancellation is alone nobody submits or delays its  *)
(* item, and once it has drained the timers none is left.                  *)
WorkAlone ==
  \A c \in Clients : alone[c] /\ call[c].sync =>
    /\ ~delayed[call[c].item] /\ Unsubmitted(call[c].item)
    /\ call[c].at \in {"cancelAgain", "wait"} => \A s \in Slots : slot[s].item # call[c].item

(* A quiet item is nowhere, and nobody is about to submit it.              *)
WorkQuiet ==
  \A w \in quiet : /\ ~pending[w] /\ ~running[w] /\ ~delayed[w] /\ Unsubmitted(w)
                   /\ \A s \in Slots : slot[s].item # w

WorkInv == WorkTyped /\ WorkPlaces /\ WorkLinked /\ WorkAlone /\ WorkQuiet

(* At first nothing is queued and nobody calls.                            *)
LEMMA WorkStarts == ASSUME Queue!WorkAssumption, Queue!Init PROVE WorkInv
  BY DEF Queue!WorkAssumption, Queue!Init, Queue!FreeSlot, Queue!NoCall, WorkInv, WorkTyped, WorkPlaces, CallFits, SlotFits, WorkLinked, WorkAlone,
         WorkQuiet, Unsubmitted, Queue!At, Cancels, Delays, Submits,
         CallFields, SlotFields

(* The worker takes an item out of the queue and runs it.                  *)
LEMMA WorkerKeeps == ASSUME Queue!WorkAssumption, WorkInv, Queue!Worker PROVE WorkInv'
PROOF
  <1> USE DEF Queue!WorkAssumption, WorkInv, Queue!At, Queue!itemVars, CallFields, SlotFields
  <1>1. CASE Queue!Get
    <2>1. /\ workThread' = [at |-> "begin", item |-> Head(fifo)] /\ fifo' = Tail(fifo) /\ fifo # <<>>
          /\ workThread.at = "get" /\ UNCHANGED <<pending, running, delayed, slot, call, alone, quiet>>
      BY <1>1 DEF Queue!Get
    <2>2. /\ fifo' \in Seq(Items) /\ Len(fifo') = Len(fifo) - 1 /\ Len(fifo) \in Nat \ {0} /\ Head(fifo) = fifo[1]
          /\ \A i \in 1 .. Len(fifo') : fifo'[i] = fifo[i + 1]
      BY <2>1, HeadTailProperties DEF WorkTyped
    <2>3. Head(fifo) \in Items
      BY <2>1, <2>2 DEF WorkTyped
    <2>4. WorkTyped' /\ WorkPlaces'
      BY <2>1, <2>2, <2>3 DEF WorkTyped, WorkPlaces, CallFits, SlotFits
    <2>5. WorkLinked'
      BY <2>1, <2>2 DEF WorkLinked
    <2>6. WorkAlone' /\ WorkQuiet'
      BY <2>1 DEF WorkAlone, WorkQuiet, Unsubmitted
    <2>7. QED
      BY <2>4, <2>5, <2>6
  <1>2. CASE Queue!Begin
    <2> DEFINE w == workThread.item
    <2>1. /\ w \in Items /\ workThread.at = "begin" /\ pending[w]
          /\ UNCHANGED <<delayed, fifo, slot, call, alone, quiet>>
          /\ workThread'.at # "begin"
      BY <1>2 DEF Queue!Begin, WorkTyped, WorkLinked
    <2>2. pending' = [pending EXCEPT ![w] = FALSE] /\ running' = [running EXCEPT ![w] = ~canceled[w]]
      BY <1>2 DEF Queue!Begin
    <2>3. /\ pending' = [v \in Items |-> pending'[v]] /\ running' = [v \in Items |-> running'[v]]
          /\ \A v \in Items : pending'[v] <=> v # w /\ pending[v]
          /\ \A v \in Items \ {w} : running'[v] <=> running[v]
      BY <2>1, <2>2 DEF WorkTyped
    <2>4. WorkTyped' /\ WorkPlaces'
      BY <2>1, <2>3 DEF WorkTyped, WorkPlaces, CallFits, SlotFits
    <2>5. WorkLinked'
      <3>1. \A i \in 1 .. Len(fifo) : fifo[i] \in Items /\ fifo[i] # w
        BY <2>1 DEF WorkLinked, WorkTyped
      <3>2. \A c \in Clients : Queue!At(c, "put") => call[c].item \in Items /\ call[c].item # w
        BY <2>1 DEF WorkLinked, WorkPlaces, CallFits, Submits, Cancels
      <3>3. \A s \in Slots : slot[s].at = "put" => slot[s].item \in Items /\ slot[s].item # w
        BY <2>1 DEF WorkLinked, WorkPlaces, SlotFits
      <3>4. QED
        BY <2>1, <2>3, <3>1, <3>2, <3>3 DEF WorkLinked
    <2>6. WorkAlone' /\ WorkQuiet'
      <3>1. WorkAlone'
        BY <2>1 DEF WorkAlone, Unsubmitted
      <3>2. w \notin quiet /\ quiet \subseteq Items
        BY <2>1 DEF WorkQuiet, WorkTyped
      <3>3. WorkQuiet'
        BY <2>1, <2>3, <3>2 DEF WorkQuiet, Unsubmitted
      <3>4. QED
        BY <3>1, <3>3
    <2>7. QED
      BY <2>4, <2>5, <2>6
  <1>3. CASE Queue!End
    <2>1. /\ workThread' = [at |-> "get", item |-> None] /\ workThread.at = "run" /\ running' = [running EXCEPT ![workThread.item] = FALSE]
          /\ UNCHANGED <<pending, delayed, fifo, slot, call, alone, quiet>>
      BY <1>3 DEF Queue!End
    <2>2. running' = [v \in Items |-> running'[v]] /\ \A v \in Items : running'[v] => running[v]
      BY <2>1 DEF WorkTyped
    <2>3. WorkTyped'
      BY <2>1, <2>2 DEF WorkTyped
    <2>4. WorkPlaces' /\ WorkAlone'
      BY <2>1 DEF WorkPlaces, CallFits, SlotFits, WorkAlone, Unsubmitted
    <2>5. WorkLinked'
      BY <2>1 DEF WorkLinked
    <2>6. WorkQuiet'
      BY <2>1, <2>2 DEF WorkTyped, WorkQuiet, Unsubmitted
    <2>7. QED
      BY <2>3, <2>4, <2>5, <2>6
  <1>4. QED
    BY <1>1, <1>2, <1>3 DEF Queue!Worker

(* The timer threads: a timer of an item that is not free submits it only  *)
(* if it is not quiet.                                                     *)
LEMMA TimersKeep == ASSUME Queue!WorkAssumption, WorkInv, NEW s \in Slots, Queue!Timer(s) PROVE WorkInv'
PROOF
  <1> USE DEF Queue!WorkAssumption, WorkInv, Queue!At, Queue!itemVars, CallFields, SlotFields
  <1>1. ASSUME NEW r, slot' = [slot EXCEPT ![s] = r], SlotFields \subseteq DOMAIN r,
               r.item \in {slot[s].item, None}, r.at # "put", r.item = None => r.at = "free",
               UNCHANGED <<pending, running, fifo, workThread, call, alone, quiet>>,
               delayed' = [v \in Items |-> delayed'[v]], \A v \in Items : delayed'[v] => delayed[v]
        PROVE  WorkInv'
    <2>1. slot' = [t \in Slots |-> slot'[t]] /\ \A t \in Slots : slot'[t] = IF t = s THEN r ELSE slot[t]
      BY <1>1 DEF WorkTyped
    <2>2. WorkTyped'
      <3>1. \A t \in Slots : SlotFields \subseteq DOMAIN slot'[t]
        <4> TAKE t \in Slots
        <4>1. CASE t = s
          BY <1>1, <2>1, <4>1
        <4>2. CASE t # s
          BY <2>1, <4>2 DEF WorkTyped
        <4>3. QED
          BY <4>1, <4>2
      <3>2. /\ delayed' = [v \in Items |-> delayed'[v]] /\ slot' = [t \in Slots |-> slot'[t]]
            /\ pending' = pending /\ running' = running /\ fifo' = fifo /\ workThread' = workThread /\ call' = call
            /\ alone' = alone /\ quiet' = quiet
        BY <1>1, <2>1
      <3>3. QED
        BY <3>1, <3>2 DEF WorkTyped
    <2>3. WorkPlaces'
      BY <1>1, <2>1 DEF WorkPlaces, CallFits, SlotFits
    <2>4. WorkLinked'
      BY <1>1, <2>1 DEF WorkLinked
    <2>5. WorkAlone'
      <3>1. SUFFICES ASSUME NEW c \in Clients, alone[c], call[c].sync
                     PROVE  /\ ~delayed'[call[c].item] /\ Unsubmitted(call[c].item)
                            /\ call[c].at \in {"cancelAgain", "wait"} =>
                                 \A t \in Slots : slot'[t].item # call[c].item
        BY <1>1 DEF WorkAlone, Unsubmitted
      <3>2. call[c].item \in Items
        BY <3>1 DEF WorkPlaces, CallFits, SlotFits
      <3>3. ~delayed'[call[c].item] /\ Unsubmitted(call[c].item)
        BY <1>1, <3>1, <3>2 DEF WorkAlone
      <3>4. ASSUME call[c].at \in {"cancelAgain", "wait"} PROVE \A t \in Slots : slot'[t].item # call[c].item
        <4> TAKE t \in Slots
        <4>1. slot[t].item # call[c].item
          BY <3>1, <3>4 DEF WorkAlone
        <4>2. slot'[t].item \in {slot[t].item, None}
          BY <1>1, <2>1, <3>4
        <4>3. QED
          BY <3>2, <4>1, <4>2
      <3>5. QED
        BY <3>3, <3>4
    <2>6. WorkQuiet'
      <3>1. SUFFICES ASSUME NEW w \in quiet
                     PROVE  /\ ~pending[w] /\ ~running[w] /\ ~delayed'[w] /\ Unsubmitted(w)
                            /\ \A t \in Slots : slot'[t].item # w
        BY <1>1 DEF WorkQuiet, Unsubmitted
      <3>2. w \in Items /\ ~pending[w] /\ ~running[w] /\ ~delayed[w] /\ Unsubmitted(w)
        BY DEF WorkQuiet, WorkTyped
      <3>3. ~delayed'[w]
        BY <1>1, <3>2
      <3>4. \A t \in Slots : slot'[t].item # w
        <4> TAKE t \in Slots
        <4>1. slot[t].item # w
          BY DEF WorkQuiet
        <4>2. slot'[t].item \in {slot[t].item, None}
          BY <1>1, <2>1
        <4>3. QED
          BY <3>2, <4>1, <4>2
      <3>5. QED
        BY <3>2, <3>3, <3>4
    <2>7. QED
      BY <2>2, <2>3, <2>4, <2>5, <2>6
  <1>2. SlotFields \subseteq DOMAIN slot[s]
    BY DEF WorkTyped
  <1>3. slot[s].at \notin {"free", "allocated"} => slot[s].item \in Delayable
    BY DEF WorkPlaces, CallFits, SlotFits
  <1>4. CASE Queue!Expire(s)
    BY <1>1, <1>2, <1>3, <1>4 DEF Queue!Expire, WorkTyped
  <1>5. CASE Queue!CheckGeneration(s)
    <2> DEFINE w == slot[s].item
               current == slot[s].gen = workGeneration[w]
    <2>1. /\ slot' = [slot EXCEPT ![s] = [slot[s] EXCEPT !.at = IF current THEN "submit" ELSE "release"]]
          /\ delayed' = [delayed EXCEPT ![w] = @ /\ ~current] /\ w \in Items
          /\ UNCHANGED <<pending, running, fifo, workThread, call, alone, quiet>>
      BY <1>3, <1>5 DEF Queue!CheckGeneration
    <2>2. delayed' = [v \in Items |-> delayed'[v]] /\ \A v \in Items : delayed'[v] => delayed[v]
      BY <2>1 DEF WorkTyped
    <2>3. CASE current
      <3> DEFINE r == [slot[s] EXCEPT !.at = "submit"]
      <3>1. slot' = [slot EXCEPT ![s] = r] /\ r.item = slot[s].item /\ r.at = "submit" /\ DOMAIN r = DOMAIN slot[s]
        BY <1>2, <2>1, <2>3
      <3>2. r.item # None
        BY <1>3, <1>5, <3>1 DEF Queue!CheckGeneration
      <3> HIDE DEF r
      <3>3. QED
        BY <1>1, <1>2, <2>1, <2>2, <3>1, <3>2
    <2>4. CASE ~current
      <3> DEFINE r == [slot[s] EXCEPT !.at = "release"]
      <3>1. slot' = [slot EXCEPT ![s] = r] /\ r.item = slot[s].item /\ r.at = "release" /\ DOMAIN r = DOMAIN slot[s]
        BY <1>2, <2>1, <2>4
      <3>2. r.item # None
        BY <1>3, <1>5, <3>1 DEF Queue!CheckGeneration
      <3> HIDE DEF r
      <3>3. QED
        BY <1>1, <1>2, <2>1, <2>2, <3>1, <3>2
    <2>5. QED
      BY <2>3, <2>4
  <1>6. CASE Queue!Release(s)
    BY <1>1, <1>6, SMTT(40) DEF Queue!Release, Queue!FreeSlot, WorkTyped
  <1>7. CASE Queue!TimerSubmit(s)
    <2> DEFINE w == slot[s].item
    <2>1. w \in Items /\ slot[s].at = "submit" /\ w \notin quiet
      BY <1>3, <1>7 DEF Queue!TimerSubmit, WorkQuiet
    <2>2. CASE pending[w]
      BY <1>1, <1>2, <1>3, <1>7, <2>1, <2>2 DEF Queue!TimerSubmit, WorkTyped
    <2>3. CASE ~pending[w]
      <3>1. /\ slot' = [slot EXCEPT ![s] = [slot[s] EXCEPT !.at = "put"]] /\ pending' = [pending EXCEPT ![w] = TRUE]
            /\ UNCHANGED <<running, delayed, fifo, workThread, call, alone, quiet>>
        BY <1>7, <2>3 DEF Queue!TimerSubmit, Queue!MarkPending
      <3>2. /\ slot' = [t \in Slots |-> slot'[t]] /\ \A t \in Slots \ {s} : slot'[t] = slot[t]
            /\ slot'[s].at = "put" /\ slot'[s].item = w /\ DOMAIN slot'[s] = DOMAIN slot[s]
        BY <1>2, <3>1 DEF WorkTyped
      <3>3. pending' = [v \in Items |-> pending'[v]] /\ \A v \in Items : pending'[v] <=> v = w \/ pending[v]
        BY <2>1, <3>1 DEF WorkTyped
      <3>4. WorkTyped'
        BY <1>2, <3>1, <3>2, <3>3 DEF WorkTyped
      <3>5. WorkPlaces'
        BY <2>1, <3>1, <3>2 DEF WorkPlaces, CallFits, SlotFits
      <3>6. WorkLinked'
        BY <2>1, <2>3, <3>1, <3>2, <3>3 DEF WorkLinked, WorkTyped, WorkPlaces, CallFits, SlotFits
      <3>7. WorkAlone'
        BY <3>1, <3>2 DEF WorkAlone, Unsubmitted
      <3>8. WorkQuiet'
        <4>1. \A t \in Slots : slot'[t].item = slot[t].item
          BY <3>2
        <4>2. \A v \in quiet : ~pending'[v]
          BY <2>1, <3>3 DEF WorkQuiet, WorkTyped
        <4>3. QED
          BY <3>1, <4>1, <4>2 DEF WorkQuiet, Unsubmitted
      <3>9. QED
        BY <3>4, <3>5, <3>6, <3>7, <3>8
    <2>4. QED
      BY <2>2, <2>3
  <1>8. CASE Queue!TimerPut(s)
    <2> DEFINE w == slot[s].item
    <2>1. /\ slot' = [slot EXCEPT ![s] = [slot[s] EXCEPT !.at = "release"]] /\ fifo' = Append(fifo, w)
          /\ UNCHANGED <<pending, running, delayed, workThread, call, alone, quiet>> /\ slot[s].at = "put" /\ w \in Items
      BY <1>3, <1>8 DEF Queue!TimerPut
    <2>2. /\ slot' = [t \in Slots |-> slot'[t]] /\ \A t \in Slots \ {s} : slot'[t] = slot[t]
          /\ slot'[s].at = "release" /\ slot'[s].item = w /\ DOMAIN slot'[s] = DOMAIN slot[s]
      BY <1>2, <2>1 DEF WorkTyped
    <2>3. /\ fifo' \in Seq(Items) /\ Len(fifo') = Len(fifo) + 1 /\ Len(fifo) \in Nat
          /\ \A i \in 1 .. Len(fifo) : fifo'[i] = fifo[i]
          /\ fifo'[Len(fifo) + 1] = w
      BY <2>1, AppendProperties DEF WorkTyped
    <2>4. WorkTyped'
      BY <1>2, <2>1, <2>2, <2>3 DEF WorkTyped
    <2>5. WorkPlaces'
      BY <2>1, <2>2 DEF WorkPlaces, CallFits, SlotFits
    <2>6. WorkLinked'
      BY <2>1, <2>2, <2>3 DEF WorkLinked
    <2>7. WorkAlone'
      BY <2>1, <2>2 DEF WorkAlone, Unsubmitted
    <2>8. WorkQuiet'
      BY <2>1, <2>2 DEF WorkQuiet, Unsubmitted
    <2>9. QED
      BY <2>4, <2>5, <2>6, <2>7, <2>8
  <1>9. QED
    BY <1>4, <1>5, <1>6, <1>7, <1>8 DEF Queue!Timer

(* A slot that changes is given up or taken by the caller's delayed item.  *)
SlotsGoOn(c) ==
  /\ slot' = [t \in Slots |-> slot'[t]]
  /\ \A t \in Slots : /\ SlotFields \subseteq DOMAIN slot'[t] /\ SlotFits(slot'[t])
                      /\ \/ slot'[t].item \in {slot[t].item, None}
                         \/ slot'[t].item = call[c].item /\ call[c].at \in Delays
                      /\ slot'[t].at = "put" => slot[t].at = "put" /\ slot'[t].item = slot[t].item

(* A call that goes on without putting its item into the queue.            *)
LEMMA CallGoesOn ==
  ASSUME Queue!WorkAssumption, WorkInv, NEW c \in Clients, NEW r, call' = [call EXCEPT ![c] = r],
         CallFields \subseteq DOMAIN r, CallFits(r), r.at # "put",
         r.at \in Submits => call[c].at \in Submits /\ r.item = call[c].item,
         r.sync => call[c].sync /\ r.item = call[c].item /\ r.at \in Cancels,
         r.sync /\ r.at \in {"cancelAgain", "wait"} =>
           call[c].at \in {"cancelAgain", "wait"} \/ \A t \in Slots : slot'[t].item # r.item,
         UNCHANGED <<pending, running, fifo, workThread, alone, quiet>>,
         delayed' = [v \in Items |-> delayed'[v]], \A v \in Items : delayed'[v] => delayed[v], SlotsGoOn(c)
  PROVE  WorkInv'
PROOF
  <1> USE DEF Queue!WorkAssumption, WorkInv, Queue!At
  <1> slot' = [t \in Slots |-> slot'[t]]
    BY DEF SlotsGoOn
  <1> \A t \in Slots : /\ SlotFields \subseteq DOMAIN slot'[t] /\ SlotFits(slot'[t])
                       /\ \/ slot'[t].item \in {slot[t].item, None}
                          \/ slot'[t].item = call[c].item /\ call[c].at \in Delays
                       /\ slot'[t].at = "put" => slot[t].at = "put" /\ slot'[t].item = slot[t].item
    BY DEF SlotsGoOn
  <1>1. call' = [d \in Clients |-> call'[d]] /\ \A d \in Clients : call'[d] = IF d = c THEN r ELSE call[d]
    BY DEF WorkTyped
  <1>2. WorkTyped'
    <2>1. \A d \in Clients : CallFields \subseteq DOMAIN call'[d]
      BY <1>1 DEF WorkTyped
    <2>2. QED
      BY <1>1, <2>1 DEF WorkTyped
  <1>3. WorkPlaces'
    BY <1>1 DEF WorkPlaces
  <1>4. WorkLinked'
    <2>1. \A d \in Clients : call'[d].at = "put" => call[d].at = "put" /\ call'[d] = call[d]
      BY <1>1
    <2>2. QED
      BY <2>1 DEF WorkLinked
  <1>5. ASSUME NEW w \in Items, Unsubmitted(w) PROVE Unsubmitted(w)'
    <2>1. ASSUME NEW d \in Clients, call'[d].item = w PROVE call'[d].at \in Cancels
      <3>1. CASE d = c
        BY <1>1, <1>5, <2>1, <3>1 DEF Unsubmitted, CallFits, Submits, Cancels, Delays
      <3>2. CASE d # c
        BY <1>1, <1>5, <2>1, <3>2 DEF Unsubmitted
      <3>3. QED
        BY <3>1, <3>2
    <2>2. QED
      BY <2>1 DEF Unsubmitted
  <1>6. ASSUME NEW w \in Items, Unsubmitted(w), NEW t \in Slots, slot[t].item # w PROVE slot'[t].item # w
    BY <1>6 DEF Unsubmitted, Delays, Cancels
  <1>7. WorkAlone'
    <2>1. SUFFICES ASSUME NEW d \in Clients, alone[d], call'[d].sync
                   PROVE  /\ ~delayed'[call'[d].item]
                          /\ \A e \in Clients : call'[e].item = call'[d].item => call'[e].at \in Cancels
                          /\ call'[d].at \in {"cancelAgain", "wait"} =>
                               \A t \in Slots : slot'[t].item # call'[d].item
      BY DEF WorkAlone, Unsubmitted
    <2>2. call[d].sync /\ call'[d].item = call[d].item /\ call[d].item \in Items
      BY <1>1, <2>1 DEF WorkPlaces, CallFits
    <2>3. ~delayed[call[d].item] /\ Unsubmitted(call[d].item)
      BY <2>1, <2>2 DEF WorkAlone
    <2>4. /\ ~delayed'[call'[d].item]
          /\ \A e \in Clients : call'[e].item = call'[d].item => call'[e].at \in Cancels
      BY <1>5, <2>2, <2>3 DEF Unsubmitted
    <2>5. ASSUME call'[d].at \in {"cancelAgain", "wait"} PROVE \A t \in Slots : slot'[t].item # call'[d].item
      <3>1. CASE call[d].at \in {"cancelAgain", "wait"}
        <4>1. \A t \in Slots : slot[t].item # call[d].item
          BY <2>1, <2>2, <3>1 DEF WorkAlone
        <4>2. QED
          BY <1>6, <2>2, <2>3, <4>1
      <3>2. CASE call[d].at \notin {"cancelAgain", "wait"}
        BY <1>1, <2>1, <2>2, <2>5, <3>2
      <3>3. QED
        BY <3>1, <3>2
    <2>6. QED
      BY <2>4, <2>5
  <1>8. WorkQuiet'
    <2>1. SUFFICES ASSUME NEW w \in quiet
                   PROVE  /\ ~pending[w] /\ ~running[w] /\ ~delayed'[w] /\ Unsubmitted(w)'
                          /\ \A t \in Slots : slot'[t].item # w
      BY DEF WorkQuiet
    <2>2. /\ w \in Items /\ ~pending[w] /\ ~running[w] /\ ~delayed[w] /\ Unsubmitted(w)
          /\ \A t \in Slots : slot[t].item # w
      BY DEF WorkQuiet, WorkTyped
    <2>3. QED
      BY <1>5, <1>6, <2>2
  <1>9. QED
    BY <1>2, <1>3, <1>4, <1>7, <1>8

(* A submission begins: whoever cancelled its item is promised nothing.    *)
LEMMA SubmissionBegins ==
  ASSUME Queue!WorkAssumption, WorkInv, NEW c \in Clients, NEW w \in Items, NEW r,
         call' = [call EXCEPT ![c] = r], CallFields \subseteq DOMAIN r, CallFits(r),
         r.item = w, r.at \in {"submit", "allocate"}, ~r.sync, Queue!Using(w),
         UNCHANGED <<pending, running, fifo, workThread, slot>>,
         delayed' = [v \in Items |-> delayed'[v]], \A v \in Items \ {w} : delayed'[v] => delayed[v],
         delayed'[w] => w \in Delayable
  PROVE  WorkInv'
PROOF
  <1> USE DEF Queue!WorkAssumption, WorkInv, Queue!At
  <1>1. call' = [d \in Clients |-> call'[d]] /\ \A d \in Clients : call'[d] = IF d = c THEN r ELSE call[d]
    BY DEF WorkTyped
  <1>2. WorkTyped'
    <2>1. \A d \in Clients : CallFields \subseteq DOMAIN call'[d]
      BY <1>1 DEF WorkTyped
    <2>2. QED
      BY <1>1, <2>1 DEF WorkTyped, Queue!Using
  <1>3. WorkPlaces'
    BY <1>1 DEF WorkPlaces
  <1>4. WorkLinked'
    <2>1. \A d \in Clients : call'[d].at = "put" => call[d].at = "put" /\ call'[d] = call[d]
      BY <1>1
    <2>2. QED
      BY <2>1 DEF WorkLinked
  <1>5. WorkAlone'
    <2>1. SUFFICES ASSUME NEW d \in Clients, alone'[d], call'[d].sync
                   PROVE  /\ ~delayed'[call[d].item]
                          /\ \A e \in Clients : call'[e].item = call[d].item => call'[e].at \in Cancels
                          /\ call[d].at \in {"cancelAgain", "wait"} =>
                               \A t \in Slots : slot[t].item # call[d].item
                          /\ call'[d] = call[d]
      BY DEF WorkAlone, Unsubmitted
    <2>2. call'[d] = call[d] /\ call[d].sync /\ alone[d] /\ call[d].item # w /\ call[d].item \in Items
      BY <1>1, <2>1 DEF Queue!Using, WorkPlaces, CallFits
    <2>3. /\ ~delayed[call[d].item] /\ Unsubmitted(call[d].item)
          /\ call[d].at \in {"cancelAgain", "wait"} => \A t \in Slots : slot[t].item # call[d].item
      BY <2>2 DEF WorkAlone
    <2>4. QED
      BY <1>1, <2>2, <2>3 DEF Unsubmitted
  <1>6. WorkQuiet'
    BY <1>1 DEF WorkQuiet, WorkTyped, Queue!Using, Unsubmitted
  <1>7. QED
    BY <1>2, <1>3, <1>4, <1>5, <1>6

(* A cancellation begins: it is alone if nobody else uses its item.        *)
LEMMA CancellationBegins ==
  ASSUME Queue!WorkAssumption, WorkInv, NEW c \in Clients, NEW w \in Items, NEW r, Queue!At(c, "idle"),
         call' = [call EXCEPT ![c] = r], CallFields \subseteq DOMAIN r,
         r.item = w, r.at \in {"cancel", "mark"}, alone' = [alone EXCEPT ![c] = Queue!Unused(c, w)],
         UNCHANGED <<pending, running, fifo, workThread, slot, quiet>>,
         delayed' = [v \in Items |-> delayed'[v]], \A v \in Items : delayed'[v] => delayed[v], ~delayed'[w]
  PROVE  WorkInv'
PROOF
  <1> USE DEF Queue!WorkAssumption, WorkInv, Queue!At
  <1>1. call' = [d \in Clients |-> call'[d]] /\ \A d \in Clients : call'[d] = IF d = c THEN r ELSE call[d]
    BY DEF WorkTyped
  <1>2. /\ alone' = [d \in Clients |-> alone'[d]] /\ \A d \in Clients \ {c} : alone'[d] <=> alone[d]
        /\ alone'[c] <=> Queue!Unused(c, w)
    BY DEF WorkTyped
  <1>3. WorkTyped'
    <2>1. \A d \in Clients : CallFields \subseteq DOMAIN call'[d]
      BY <1>1 DEF WorkTyped
    <2>2. QED
      BY <1>1, <1>2, <2>1 DEF WorkTyped
  <1>4. WorkPlaces'
    BY <1>1 DEF WorkPlaces, CallFits, Cancels, Delays
  <1>5. WorkLinked'
    <2>1. \A d \in Clients : call'[d].at = "put" => call[d].at = "put" /\ call'[d] = call[d]
      BY <1>1
    <2>2. QED
      BY <2>1 DEF WorkLinked
  <1>6. \A v \in Items : Unsubmitted(v) => Unsubmitted(v)'
    BY <1>1 DEF Unsubmitted, Cancels
  <1>7. WorkAlone'
    <2>1. SUFFICES ASSUME NEW d \in Clients, alone'[d], call'[d].sync
                   PROVE  /\ ~delayed'[call'[d].item]
                          /\ \A e \in Clients : call'[e].item = call'[d].item => call'[e].at \in Cancels
                          /\ call'[d].at \in {"cancelAgain", "wait"} =>
                               \A t \in Slots : slot[t].item # call'[d].item
      BY DEF WorkAlone, Unsubmitted
    <2>2. CASE d = c
      BY <1>1, <1>2, <2>1, <2>2 DEF Queue!Unused, Cancels
    <2>3. CASE d # c
      <3>1. call'[d] = call[d] /\ call[d].sync /\ alone[d] /\ call[d].item \in Items
        BY <1>1, <1>2, <2>1, <2>3 DEF WorkPlaces, CallFits
      <3>2. /\ ~delayed[call[d].item] /\ Unsubmitted(call[d].item)
            /\ call[d].at \in {"cancelAgain", "wait"} => \A t \in Slots : slot[t].item # call[d].item
        BY <3>1 DEF WorkAlone
      <3>3. Unsubmitted(call[d].item)'
        BY <1>6, <3>1, <3>2
      <3>4. QED
        BY <3>1, <3>2, <3>3 DEF Unsubmitted
    <2>4. QED
      BY <2>2, <2>3
  <1>8. WorkQuiet'
    BY <1>6 DEF WorkQuiet, WorkTyped
  <1>9. QED
    BY <1>3, <1>4, <1>5, <1>7, <1>8

(* A client begins a call.                                                 *)
LEMMA CallsBegin == ASSUME Queue!WorkAssumption, WorkInv, NEW c \in Clients, Queue!Begins(c) PROVE WorkInv'
PROOF
  <1> USE DEF Queue!WorkAssumption, WorkInv, Queue!At, Queue!itemVars, Queue!NoCall, CallFields
  <1>1. PICK w \in Items :
          \/ Queue!Submit(c, w) \/ Queue!Flush(c, w)
          \/ \E delay \in BOOLEAN, replace \in BOOLEAN : Queue!Schedule(c, w, delay, replace)
          \/ \E sync \in BOOLEAN : Queue!Cancel(c, w, sync) \/ Queue!CancelDelay(c, w, sync)
    BY DEF Queue!Begins
  <1>2. delayed = [v \in Items |-> delayed[v]] /\ slot = [s \in Slots |-> slot[s]]
    BY DEF WorkTyped
  <1>3. CASE Queue!Submit(c, w)
    <2> DEFINE r == [Queue!NoCall EXCEPT !.at = "submit", !.item = w]
    <2>1. call' = [call EXCEPT ![c] = r] /\ CallFits(r)
      BY <1>3 DEF Queue!Submit, CallFits, Submits, Delays
    <2>2. /\ CallFields \subseteq DOMAIN r /\ r.item = w /\ r.at = "submit" /\ ~r.sync
          /\ delayed' = delayed /\ (delayed'[w] => w \in Delayable)
          /\ Queue!Using(w) /\ UNCHANGED <<pending, running, fifo, workThread, slot>>
      BY <1>3 DEF Queue!Submit, WorkPlaces
    <2> HIDE DEF r
    <2>3. QED
      BY <1>2, <2>1, <2>2, SubmissionBegins
  <1>4. CASE Queue!Flush(c, w)
    <2> DEFINE r == [Queue!NoCall EXCEPT !.at = "wait", !.item = w]
    <2>1. call' = [call EXCEPT ![c] = r] /\ CallFits(r)
      BY <1>4 DEF Queue!Flush, CallFits, Cancels, Delays
    <2>2. /\ CallFields \subseteq DOMAIN r /\ r.item = w /\ r.at = "wait" /\ ~r.sync
          /\ UNCHANGED <<pending, running, delayed, fifo, workThread, slot, alone, quiet>>
      BY <1>4 DEF Queue!Flush
    <2>3. r.at \notin Submits
      BY <2>2 DEF Submits, Delays
    <2>4. \A t \in Slots : SlotFields \subseteq DOMAIN slot'[t] /\ SlotFits(slot'[t]) /\ slot'[t] = slot[t]
      BY <2>2 DEF WorkTyped, WorkPlaces
    <2> HIDE DEF r
    <2>5. QED
      BY <1>2, <2>1, <2>2, <2>3, <2>4, CallGoesOn DEF SlotsGoOn
  <1>5. ASSUME NEW delay \in BOOLEAN, NEW replace \in BOOLEAN, Queue!Schedule(c, w, delay, replace) PROVE WorkInv'
    <2> DEFINE r == [Queue!NoCall EXCEPT !.at = IF delay THEN "allocate" ELSE "submit",
                                   !.item = w, !.gen = workGeneration[w] + 1]
    <2>1. call' = [call EXCEPT ![c] = r] /\ w \in Delayable
      BY <1>5 DEF Queue!Schedule
    <2>2. /\ CallFields \subseteq DOMAIN r /\ r.item = w /\ r.at \in {"submit", "allocate"} /\ ~r.sync
          /\ Queue!Using(w) /\ UNCHANGED <<pending, running, fifo, workThread, slot>>
      BY <1>5 DEF Queue!Schedule
    <2>3. delayed' = [v \in Items |-> delayed'[v]] /\ \A v \in Items \ {w} : delayed'[v] => delayed[v]
      BY <1>2, <1>5 DEF Queue!Schedule
    <2> HIDE DEF r
    <2>4. CallFits(r)
      BY <2>1, <2>2 DEF CallFits, Submits, Delays
    <2>5. QED
      BY <2>1, <2>2, <2>3, <2>4, SubmissionBegins
  <1>6. ASSUME NEW sync \in BOOLEAN, Queue!Cancel(c, w, sync) PROVE WorkInv'
    <2> DEFINE r == [Queue!NoCall EXCEPT !.at = "cancel", !.item = w, !.sync = sync]
    <2>1. call' = [call EXCEPT ![c] = r] /\ ~delayed[w]
      BY <1>6 DEF Queue!Cancel, WorkPlaces
    <2>2. /\ CallFields \subseteq DOMAIN r /\ r.item = w /\ r.at = "cancel" /\ Queue!At(c, "idle")
          /\ alone' = [alone EXCEPT ![c] = Queue!Unused(c, w)]
          /\ UNCHANGED <<pending, running, delayed, fifo, workThread, slot, quiet>>
      BY <1>6 DEF Queue!Cancel
    <2> HIDE DEF r
    <2>3. QED
      BY <1>2, <2>1, <2>2, CancellationBegins
  <1>7. ASSUME NEW sync \in BOOLEAN, Queue!CancelDelay(c, w, sync) PROVE WorkInv'
    <2> DEFINE r == [Queue!NoCall EXCEPT !.at = "mark", !.item = w, !.sync = sync, !.was = delayed[w]]
    <2>1. call' = [call EXCEPT ![c] = r]
      BY <1>7 DEF Queue!CancelDelay
    <2>2. /\ CallFields \subseteq DOMAIN r /\ r.item = w /\ r.at = "mark" /\ Queue!At(c, "idle")
          /\ alone' = [alone EXCEPT ![c] = Queue!Unused(c, w)]
          /\ UNCHANGED <<pending, running, fifo, workThread, slot, quiet>>
      BY <1>7 DEF Queue!CancelDelay
    <2>3. delayed' = [v \in Items |-> delayed'[v]] /\ ~delayed'[w] /\ \A v \in Items : delayed'[v] => delayed[v]
      BY <1>2, <1>7 DEF Queue!CancelDelay
    <2> HIDE DEF r
    <2>4. QED
      BY <2>1, <2>2, <2>3, CancellationBegins
  <1>8. QED
    BY <1>1, <1>3, <1>4, <1>5, <1>6, <1>7

(* A call that has begun goes on.                                          *)
LEMMA CallsProgress == ASSUME Queue!WorkAssumption, WorkInv, NEW c \in Clients, Queue!Progress(c) PROVE WorkInv'
PROOF
  <1> USE DEF Queue!WorkAssumption, WorkInv, Queue!At, Queue!itemVars
  <1> DEFINE w == call[c].item
  <1>1. /\ CallFields \subseteq DOMAIN call[c] /\ CallFits(call[c])
        /\ delayed = [v \in Items |-> delayed[v]] /\ slot = [s \in Slots |-> slot[s]]
    BY DEF WorkTyped, WorkPlaces
  <1>2. \A t \in Slots : SlotFields \subseteq DOMAIN slot[t] /\ SlotFits(slot[t])
    BY DEF WorkTyped, WorkPlaces
  <1>3. CallFields \subseteq DOMAIN Queue!NoCall /\ CallFits(Queue!NoCall) /\ Queue!NoCall.at = "idle" /\ ~Queue!NoCall.sync
    BY DEF CallFields, Queue!NoCall, CallFits, Delays
  <1>4. "idle" \notin Submits /\ "idle" \notin Cancels
    BY DEF Submits, Delays, Cancels
  (* The call returns, or goes on among the places of a cancellation.      *)
  <1>5. ASSUME Queue!Return(c), UNCHANGED <<pending, running, fifo, workThread, slot, alone, quiet>>,
               delayed' = [v \in Items |-> delayed'[v]], \A v \in Items : delayed'[v] => delayed[v]
        PROVE  WorkInv'
    <2>1. call' = [call EXCEPT ![c] = Queue!NoCall] /\ \A t \in Slots : slot'[t] = slot[t]
      BY <1>5 DEF Queue!Return
    <2>2. QED
      BY <1>1, <1>2, <1>3, <1>4, <1>5, <2>1, CallGoesOn DEF SlotsGoOn
  <1>6. ASSUME NEW place, Queue!Goto(c, place), place \in Cancels \cup Delays,
               place \in Delays => call[c].at \in Delays, place \in Cancels => call[c].at \in Cancels,
               call[c].sync /\ place \in {"cancelAgain", "wait"} =>
                 call[c].at = "cancelAgain" \/ \A t \in Slots : slot[t].item # w,
               UNCHANGED <<pending, running, delayed, fifo, workThread, slot, alone, quiet>>
        PROVE  WorkInv'
    <2> DEFINE r == [call[c] EXCEPT !.at = place]
    <2>1. /\ call' = [call EXCEPT ![c] = r] /\ CallFields \subseteq DOMAIN r /\ r.at = place
          /\ r.item = w /\ r.sync = call[c].sync
      BY <1>1, <1>6 DEF Queue!Goto, CallFields
    <2> HIDE DEF r
    <2>2. CallFits(r) /\ r.at # "put" /\ (r.at \in Submits => call[c].at \in Submits) /\ (r.sync => r.at \in Cancels)
      BY <1>1, <1>6, <2>1 DEF CallFits, Submits, Delays, Cancels
    <2>3. /\ \A t \in Slots : slot'[t] = slot[t]
          /\ r.sync /\ r.at \in {"cancelAgain", "wait"} =>
               call[c].at \in {"cancelAgain", "wait"} \/ \A t \in Slots : slot'[t].item # r.item
      BY <1>6, <2>1
    <2>4. QED
      BY <1>1, <1>2, <1>6, <2>1, <2>2, <2>3, CallGoesOn DEF SlotsGoOn
  <1>7. CASE Queue!Fail(c)
    <2>1. delayed' = [delayed EXCEPT ![w] = @ /\ workGeneration[w] # call[c].gen]
      BY <1>7 DEF Queue!Fail
    <2>2. delayed' = [v \in Items |-> delayed'[v]] /\ \A v \in Items : delayed'[v] => delayed[v]
      BY <1>1, <2>1
    <2>3. QED
      BY <1>5, <1>7, <2>2 DEF Queue!Fail
  <1>8. CASE Queue!CancelWork(c)
    <2>1. /\ call[c].at \in {"cancel", "cancelAgain"}
          /\ UNCHANGED <<pending, running, delayed, fifo, workThread, slot, alone, quiet>>
      BY <1>8 DEF Queue!CancelWork
    <2>2. w \notin Delayable /\ w \in Items => \A t \in Slots : slot[t].item # w
      BY <1>2 DEF SlotFits
    <2>3. w \in Items
      BY <1>1, <2>1 DEF CallFits, Submits, Delays, Cancels
    <2>4. CASE Queue!Return(c)
      BY <1>1, <1>5, <2>1, <2>4
    <2>5. CASE Queue!Goto(c, "drain")
      BY <1>6, <2>1, <2>5 DEF Cancels, Delays
    <2>6. CASE Queue!Goto(c, "wait") /\ (call[c].at = "cancelAgain" \/ w \notin Delayable)
      BY <1>6, <2>1, <2>2, <2>3, <2>6 DEF Cancels, Delays
    <2>7. QED
      BY <1>8, <2>1, <2>4, <2>5, <2>6 DEF Queue!CancelWork
  (* Marking slots leaves them to their items.                             *)
  <1>9. CASE Queue!MarkSlots(c) \/ Queue!Drain(c)
    <2>1. /\ call[c].at \in {"mark", "drain"}
          /\ UNCHANGED <<pending, running, delayed, fifo, workThread, alone, quiet>>
      BY <1>9 DEF Queue!MarkSlots, Queue!Drain
    <2>2. /\ slot' = [t \in Slots |-> slot'[t]]
          /\ \A t \in Slots : slot'[t] \in {slot[t], [slot[t] EXCEPT !.canceled = TRUE]}
      BY <1>1, <1>9 DEF Queue!MarkSlots, Queue!Drain
    <2>3. \A t \in Slots : /\ SlotFields \subseteq DOMAIN slot'[t] /\ slot'[t].item = slot[t].item
                           /\ slot'[t].at = slot[t].at
      BY <1>2, <2>2 DEF SlotFields
    <2>4. \A t \in Slots : SlotFits(slot'[t])
      BY <1>2, <2>3 DEF SlotFits
    <2>5. ASSUME NEW r, call' = [call EXCEPT ![c] = r], CallFields \subseteq DOMAIN r, CallFits(r),
                 r.at \in {"idle", "mark", "drain", "cancel"}
                   \/ (r.at = "cancelAgain" /\ \A t \in Slots : slot'[t].item # r.item),
                 r.sync => call[c].sync /\ r.item = w
          PROVE  WorkInv'
      <3>1. r.at \notin Submits /\ r.at # "put" /\ (r.sync => r.at \in Cancels)
        BY <2>5 DEF Submits, Delays, Cancels, CallFits
      <3>2. r.sync /\ r.at \in {"cancelAgain", "wait"} => \A t \in Slots : slot'[t].item # r.item
        BY <2>5
      <3>3. QED
        BY <1>1, <2>1, <2>2, <2>3, <2>4, <2>5, <3>1, <3>2, CallGoesOn DEF SlotsGoOn
    <2>6. CASE Queue!Return(c)
      BY <1>3, <2>5, <2>6 DEF Queue!Return
    <2>7. ASSUME NEW place, Queue!Goto(c, place),
                 place \in {"cancel", "drain"} \/ (place = "cancelAgain" /\ Queue!Drain(c) /\ Queue!Matching(w) = {})
          PROVE  WorkInv'
      <3> DEFINE r == [call[c] EXCEPT !.at = place]
      <3>1. /\ call' = [call EXCEPT ![c] = r] /\ CallFields \subseteq DOMAIN r /\ r.at = place
            /\ r.item = w /\ r.sync = call[c].sync
        BY <1>1, <2>7 DEF Queue!Goto, CallFields
      <3> HIDE DEF r
      <3>2. CallFits(r)
        BY <1>1, <2>1, <2>7, <3>1 DEF CallFits, Submits, Delays, Cancels
      <3>3. r.at = "cancelAgain" => \A t \in Slots : slot'[t].item # r.item
        BY <2>3, <2>7, <3>1 DEF Queue!Matching
      <3>4. QED
        BY <2>5, <2>7, <3>1, <3>2, <3>3
    <2>8. CASE UNCHANGED call
      <3>1. call' = [call EXCEPT ![c] = call[c]]
        BY <2>8 DEF WorkTyped
      <3>2. QED
        BY <1>1, <2>1, <2>5, <3>1
    <2>9. QED
      BY <1>9, <2>6, <2>7, <2>8 DEF Queue!MarkSlots, Queue!Drain
  <1>10. CASE Queue!Allocate(c)
    <2>1. /\ call[c].at = "allocate"
          /\ UNCHANGED <<pending, running, delayed, fifo, workThread, alone, quiet>>
      BY <1>10 DEF Queue!Allocate
    <2>2. CASE Queue!Goto(c, "fail") /\ UNCHANGED slot
      <3>1. ~call[c].sync
        BY <1>1, <2>1 DEF CallFits, Cancels
      <3>2. QED
        BY <1>6, <2>1, <2>2, <3>1 DEF Delays, Cancels
    <2>3. ASSUME NEW s \in Slots, slot[s].at = "free", slot' = [slot EXCEPT ![s].at = "allocated"],
                 call' = [call EXCEPT ![c].at = "create", ![c].slot = s]
          PROVE  WorkInv'
      <3> DEFINE r == [call[c] EXCEPT !.at = "create", !.slot = s]
      <3>1. /\ call' = [call EXCEPT ![c] = r] /\ CallFields \subseteq DOMAIN r /\ r.at = "create"
            /\ r.item = w /\ r.sync = call[c].sync
        BY <1>1, <2>3 DEF CallFields
      <3> HIDE DEF r
      <3>2. CallFits(r) /\ ~r.sync /\ call[c].at \in Submits /\ call[c].at \in Delays
        BY <1>1, <2>1, <3>1 DEF CallFits, Submits, Delays, Cancels
      <3>3. /\ slot' = [t \in Slots |-> slot'[t]]
            /\ \A t \in Slots : /\ DOMAIN slot'[t] = DOMAIN slot[t] /\ slot'[t].item = slot[t].item
                               /\ slot'[t].at = IF t = s THEN "allocated" ELSE slot[t].at
        <4>1. slot' = [slot EXCEPT ![s] = [slot[s] EXCEPT !.at = "allocated"]]
          BY <2>3
        <4>2. QED
          BY <1>1, <1>2, <4>1 DEF SlotFields
      <3>4. \A t \in Slots : SlotFields \subseteq DOMAIN slot'[t] /\ SlotFits(slot'[t])
                             /\ (slot'[t].at = "put" => slot[t].at = "put")
        BY <1>2, <2>3, <3>3 DEF SlotFits
      <3>5. QED
        BY <1>1, <2>1, <3>1, <3>2, <3>3, <3>4, CallGoesOn DEF SlotsGoOn
    <2>4. QED
      BY <1>10, <2>2, <2>3 DEF Queue!Allocate
  <1>11. CASE Queue!Create(c)
    <2>1. /\ call[c].at = "create" /\ UNCHANGED <<pending, running, delayed, fifo, workThread, alone, quiet>>
      BY <1>11 DEF Queue!Create
    <2>2. call[c].at \in Delays /\ w \in Delayable /\ ~call[c].sync
      BY <1>1, <2>1 DEF CallFits, Delays, Cancels
    <2>3. ASSUME NEW q, slot' = [slot EXCEPT ![call[c].slot] = q], SlotFields \subseteq DOMAIN q,
                 SlotFits(q), q.at # "put", q.item \in {w, None}
          PROVE  SlotsGoOn(c)
      <3>1. /\ slot' = [t \in Slots |-> slot'[t]]
            /\ \A t \in Slots : slot'[t] \in {q, slot[t]} /\ (slot'[t].at = "put" => slot'[t] = slot[t])
        BY <1>1, <2>3
      <3>2. QED
        BY <1>2, <2>2, <2>3, <3>1 DEF SlotsGoOn
    <2>4. CASE Queue!Return(c) /\ slot' = [slot EXCEPT ![call[c].slot] = [at |-> "wait", item |-> w, gen |-> call[c].gen,
                                                                canceled |-> FALSE]]
      <3> DEFINE q == [at |-> "wait", item |-> w, gen |-> call[c].gen, canceled |-> FALSE]
      <3>1. SlotFields \subseteq DOMAIN q /\ SlotFits(q) /\ q.at = "wait" /\ q.item = w
        BY <2>2 DEF SlotFields, SlotFits
      <3>2. slot' = [slot EXCEPT ![call[c].slot] = q]
        BY <2>4
      <3> HIDE DEF q
      <3>3. SlotsGoOn(c)
        BY <2>3, <3>1, <3>2
      <3>4. call' = [call EXCEPT ![c] = Queue!NoCall]
        BY <2>4 DEF Queue!Return
      <3>5. QED
        BY <1>1, <1>3, <1>4, <2>1, <3>3, <3>4, CallGoesOn
    <2>5. CASE Queue!Goto(c, "fail") /\ slot' = [slot EXCEPT ![call[c].slot] = Queue!FreeSlot]
      <3> DEFINE r == [call[c] EXCEPT !.at = "fail"]
      <3>1. /\ call' = [call EXCEPT ![c] = r] /\ CallFields \subseteq DOMAIN r /\ r.at = "fail"
            /\ r.item = w /\ r.sync = call[c].sync
        BY <1>1, <2>5 DEF Queue!Goto, CallFields
      <3> HIDE DEF r
      <3>2. CallFits(r) /\ call[c].at \in Submits
        BY <2>2, <3>1, Queue!WorkAssumption DEF CallFits, Submits, Delays, Cancels, Queue!WorkAssumption
      <3>3. SlotFields \subseteq DOMAIN Queue!FreeSlot /\ SlotFits(Queue!FreeSlot) /\ Queue!FreeSlot.at = "free" /\ Queue!FreeSlot.item = None
        BY DEF SlotFields, SlotFits, Queue!FreeSlot
      <3>4. SlotsGoOn(c)
        BY <2>3, <2>5, <3>3
      <3>5. QED
        BY <1>1, <2>1, <2>2, <3>1, <3>2, <3>4, CallGoesOn
    <2>6. QED
      BY <1>11, <2>4, <2>5 DEF Queue!Create
  <1>12. CASE Queue!Wait(c)
    <2>1. /\ call[c].at = "wait" /\ ~pending[w] /\ ~running[w]
          /\ quiet' = IF call[c].sync /\ alone[c] THEN quiet \cup {w} ELSE quiet
          /\ Queue!Return(c) /\ UNCHANGED <<pending, running, delayed, fifo, workThread, slot, alone>>
      BY <1>12 DEF Queue!Wait
    <2>2. CASE ~(call[c].sync /\ alone[c])
      BY <1>1, <1>5, <2>1, <2>2
    <2>3. CASE call[c].sync /\ alone[c]
      <3>1. /\ w \in Items /\ ~delayed[w] /\ Unsubmitted(w) /\ \A t \in Slots : slot[t].item # w
            /\ quiet' = quiet \cup {w}
        BY <1>1, <2>1, <2>3 DEF WorkAlone, CallFits, Submits, Delays
      <3>2. /\ call' = [d \in Clients |-> call'[d]] /\ call'[c] = Queue!NoCall
            /\ \A d \in Clients : call'[d] \in {call[d], Queue!NoCall}
        BY <2>1 DEF Queue!Return, WorkTyped
      <3>3. WorkTyped' /\ WorkPlaces'
        BY <1>3, <2>1, <3>1, <3>2 DEF WorkTyped, WorkPlaces
      <3>4. WorkLinked'
        <4>1. \A d \in Clients : call'[d].at = "put" => call'[d] = call[d]
          BY <1>3, <3>2
        <4>2. QED
          BY <2>1, <4>1 DEF WorkLinked
      <3>5. \A v \in Items : Unsubmitted(v) => Unsubmitted(v)'
        BY <3>2 DEF Unsubmitted, Queue!NoCall, Queue!WorkAssumption
      <3>6. WorkAlone'
        <4>1. \A d \in Clients : call'[d].sync => call'[d] = call[d] /\ call[d].item \in Items
          BY <1>3, <3>2 DEF WorkPlaces, CallFits
        <4>2. \A d \in Clients : alone[d] /\ call[d].sync => Unsubmitted(call[d].item)
          BY DEF WorkAlone
        <4>3. \A d \in Clients : alone[d] /\ call'[d].sync =>
               \A e \in Clients : call'[e].item = call'[d].item => call'[e].at \in Cancels
          BY <3>5, <4>1, <4>2 DEF Unsubmitted
        <4>4. QED
          BY <2>1, <4>1, <4>3 DEF WorkAlone, Unsubmitted
      <3>7. WorkQuiet'
        BY <2>1, <3>1, <3>5 DEF WorkQuiet, WorkTyped
      <3>8. QED
        BY <3>3, <3>4, <3>6, <3>7
    <2>4. QED
      BY <2>2, <2>3
  <1>13. CASE Queue!SubmitLocked(c)
    <2>1. call[c].at = "submit" /\ w \in Items /\ Queue!SubmitStep(c, w)
      BY <1>1, <1>13 DEF Queue!SubmitLocked, CallFits, Cancels
    <2>2. CASE pending[w]
      BY <1>1, <1>5, <2>1, <2>2 DEF Queue!SubmitStep
    <2>3. CASE ~pending[w]
      <3>1. /\ pending' = [pending EXCEPT ![w] = TRUE] /\ Queue!Goto(c, "put")
            /\ UNCHANGED <<running, delayed, fifo, workThread, slot, alone, quiet>>
        BY <2>1, <2>3 DEF Queue!SubmitStep, Queue!MarkPending
      <3>2. pending' = [v \in Items |-> pending'[v]] /\ \A v \in Items : pending'[v] <=> v = w \/ pending[v]
        BY <2>1, <3>1 DEF WorkTyped
      <3> DEFINE r == [call[c] EXCEPT !.at = "put"]
      <3>3. /\ call' = [call EXCEPT ![c] = r] /\ CallFields \subseteq DOMAIN r /\ r.at = "put"
            /\ r.item = w /\ r.sync = call[c].sync
        BY <1>1, <3>1 DEF Queue!Goto, CallFields
      <3> HIDE DEF r
      <3>4. /\ call' = [d \in Clients |-> call'[d]] /\ \A d \in Clients \ {c} : call'[d] = call[d]
            /\ call'[c] = r
        BY <3>3 DEF WorkTyped
      <3>5. CallFits(r) /\ ~call[c].sync /\ "put" \notin Cancels /\ "submit" \notin Cancels
        BY <1>1, <2>1, <3>3 DEF CallFits, Submits, Delays, Cancels
      <3>6. WorkTyped'
        <4>1. \A d \in Clients : CallFields \subseteq DOMAIN call'[d]
          BY <3>3, <3>4 DEF WorkTyped
        <4>2. QED
          BY <3>1, <3>2, <3>4, <4>1 DEF WorkTyped
      <3>7. WorkPlaces'
        BY <3>1, <3>4, <3>5 DEF WorkPlaces
      <3>8. WorkLinked'
        BY <2>1, <2>3, <3>1, <3>2, <3>3, <3>4 DEF WorkLinked, WorkTyped, WorkPlaces, SlotFits
      <3>9. \A v \in Items : Unsubmitted(v) => Unsubmitted(v)'
        BY <2>1, <3>3, <3>4, <3>5 DEF Unsubmitted
      <3>10. WorkAlone'
        BY <3>1, <3>3, <3>4, <3>5, <3>9 DEF WorkAlone, WorkPlaces, CallFits, Unsubmitted
      <3>11. w \notin quiet
        BY <2>1, <3>5 DEF WorkQuiet, Unsubmitted
      <3>12. WorkQuiet'
        BY <3>1, <3>2, <3>9, <3>11 DEF WorkQuiet, WorkTyped
      <3>13. QED
        BY <3>6, <3>7, <3>8, <3>10, <3>12
    <2>4. QED
      BY <2>2, <2>3
  <1>14. CASE Queue!Put(c)
    <2>1. /\ call[c].at = "put" /\ fifo' = Append(fifo, w) /\ call' = [call EXCEPT ![c] = Queue!NoCall]
          /\ UNCHANGED <<pending, running, delayed, workThread, slot, alone, quiet>>
      BY <1>14 DEF Queue!Put, Queue!Return
    <2>2. w \in Items
      BY <1>1, <2>1 DEF CallFits, Cancels
    <2>3. /\ fifo' \in Seq(Items) /\ Len(fifo') = Len(fifo) + 1 /\ Len(fifo) \in Nat
          /\ \A i \in 1 .. Len(fifo) : fifo'[i] = fifo[i]
          /\ fifo'[Len(fifo) + 1] = w
      BY <2>1, <2>2, AppendProperties DEF WorkTyped
    <2>4. /\ call' = [d \in Clients |-> call'[d]] /\ call'[c] = Queue!NoCall
          /\ \A d \in Clients \ {c} : call'[d] = call[d]
      BY <2>1 DEF WorkTyped
    <2>5. \A d \in Clients : call'[d] \in {call[d], Queue!NoCall}
      BY <2>4
    <2>6. WorkTyped' /\ WorkPlaces'
      BY <1>3, <2>1, <2>3, <2>4, <2>5 DEF WorkTyped, WorkPlaces
    <2>7. \A d \in Clients : call'[d].at = "put" => d # c /\ call'[d] = call[d]
      BY <1>3, <2>4, <2>5
    <2>8. WorkLinked'
      BY <2>1, <2>3, <2>7 DEF WorkLinked
    <2>9. \A v \in Items : Unsubmitted(v) => Unsubmitted(v)'
      BY <2>5 DEF Unsubmitted, Queue!NoCall, Queue!WorkAssumption
    <2>10. WorkAlone'
      <3>1. \A d \in Clients : call'[d].sync => call'[d] = call[d] /\ call[d].item \in Items
        BY <1>3, <2>5 DEF WorkPlaces, CallFits
      <3>2. \A d \in Clients : alone[d] /\ call[d].sync => Unsubmitted(call[d].item)
        BY DEF WorkAlone
      <3>3. \A d \in Clients : alone[d] /\ call'[d].sync =>
             \A e \in Clients : call'[e].item = call'[d].item => call'[e].at \in Cancels
        BY <2>9, <3>1, <3>2 DEF Unsubmitted
      <3>4. QED
        BY <2>1, <3>1, <3>3 DEF WorkAlone, Unsubmitted
    <2>11. WorkQuiet'
      BY <2>1, <2>9 DEF WorkQuiet, WorkTyped
    <2>12. QED
      BY <2>6, <2>8, <2>10, <2>11
  <1>15. QED
    BY <1>7, <1>8, <1>9, <1>10, <1>11, <1>12, <1>13, <1>14 DEF Queue!Progress

(* Every step is of the worker, of a timer or of a client.                 *)
LEMMA WorkStep == Queue!WorkAssumption /\ WorkInv /\ [Queue!Next]_(Queue!vars) => WorkInv'
PROOF
  <1> SUFFICES ASSUME Queue!WorkAssumption, WorkInv, [Queue!Next]_(Queue!vars) PROVE WorkInv'
    OBVIOUS
  <1>1. CASE Queue!Worker
    BY <1>1, WorkerKeeps
  <1>2. ASSUME NEW s \in Slots, Queue!Timer(s) PROVE WorkInv'
    BY <1>2, TimersKeep
  <1>3. ASSUME NEW c \in Clients, Queue!Begins(c) PROVE WorkInv'
    BY <1>3, CallsBegin
  <1>4. ASSUME NEW c \in Clients, Queue!Progress(c) PROVE WorkInv'
    BY <1>4, CallsProgress
  <1>5. CASE UNCHANGED Queue!vars
    BY <1>5 DEF WorkInv, WorkTyped, WorkPlaces, WorkLinked, WorkAlone, WorkQuiet, Unsubmitted, Queue!At, Queue!vars, Queue!itemVars
  <1>6. QED
    BY <1>1, <1>2, <1>3, <1>4, <1>5 DEF Queue!Next

(* After a synchronous cancellation returned, and as long as nobody        *)
(* submits the item again, it is not queued, its handler does not run, and *)
(* no timer thread will submit it or touch it: it may be freed.            *)
THEOREM CancelledIsLeftAlone == ASSUME Queue!WorkAssumption PROVE Queue!Spec => []Queue!CancelSyncIsFinal
PROOF
  <1>1. Queue!Init => WorkInv
    BY WorkStarts
  <1>2. WorkInv /\ [Queue!Next]_(Queue!vars) => WorkInv'
    BY WorkStep
  <1>3. WorkInv => Queue!CancelSyncIsFinal
    BY DEF WorkInv, WorkQuiet, Queue!CancelSyncIsFinal, Queue!Matching
  <1>4. QED
    BY <1>1, <1>2, <1>3, PTL DEF Queue!Spec

(* The module that WorkQueue counts with is the one the theorems are on. *)
LEMMA QueueCount ==
  ASSUME NEW S
  PROVE  Queue!Cardinality(S) = Cardinality(S) /\ (Queue!IsFiniteSet(S) <=> IsFiniteSet(S))
  BY DEF Cardinality, Queue!Cardinality, IsFiniteSet, Queue!IsFiniteSet

(* The flags are flags, and the worker has an item while it deals with one. *)
WorkFlags ==
  /\ pending \in [Items -> BOOLEAN] /\ canceled \in [Items -> BOOLEAN]
  /\ running \in [Items -> BOOLEAN] /\ delayed \in [Items -> BOOLEAN]
  /\ workThread \in [at : {"get", "begin", "run"}, item : Items \cup {None}]
  /\ workThread.at # "get" => workThread.item \in Items

(* Item w has a place: in the queue, on its way into it or just out of it. *)
Queued(w) == \E i \in 1 .. Len(fifo) : fifo[i] = w
PutByCall(w) == \E c \in Clients : Queue!At(c, "put") /\ call[c].item = w
PutByTimer(w) == \E s \in Slots : slot[s].at = "put" /\ slot[s].item = w
Taken(w) == workThread.at = "begin" /\ workThread.item = w

(* A pending item has a place.                                             *)
WorkPlaced ==
  \A w \in Items : pending[w] => Queued(w) \/ PutByCall(w) \/ PutByTimer(w) \/ Taken(w)

(* No call will exceed the bound.                                          *)
WorkRoom ==
  /\ workGeneration \in [Items -> Nat]
  /\ \A w \in Items : workGeneration[w] + Queue!Cardinality(Queue!Once(w)) + Queue!Cardinality(Queue!Twice(w)) <= MaxGen

(* A call that creates a timer has the slot it allocated to itself.        *)
WorkOwned ==
  \A c \in Clients : Queue!At(c, "create") =>
    /\ call[c].slot \in Slots /\ slot[call[c].slot].at = "allocated"
    /\ \A d \in Clients \ {c} : Queue!At(d, "create") => call[d].slot # call[c].slot

WorkBooked == WorkFlags /\ WorkPlaced /\ WorkRoom /\ WorkOwned

(* How subsets of the calls compare.                                       *)
LEMMA FewerCalls ==
  ASSUME Queue!IsFiniteSet(Clients), NEW S \in SUBSET Clients, NEW T \in SUBSET Clients
  PROVE  /\ Queue!Cardinality(S) \in Nat /\ Queue!Cardinality(T) \in Nat
         /\ T \subseteq S => Queue!Cardinality(T) <= Queue!Cardinality(S)
         /\ \A c \in S : T \subseteq S \ {c} => Queue!Cardinality(T) <= Queue!Cardinality(S) - 1
         /\ \A c : T \subseteq S \cup {c} => Queue!Cardinality(T) <= Queue!Cardinality(S) + 1
PROOF
  <1>1. Queue!IsFiniteSet(S) /\ Queue!IsFiniteSet(T)
    BY FS_Subset, QueueCount
  <1>2. Queue!Cardinality(S) \in Nat /\ Queue!Cardinality(T) \in Nat
    BY <1>1, FS_CardinalityType, QueueCount
  <1>3. T \subseteq S => Queue!Cardinality(T) <= Queue!Cardinality(S)
    BY <1>1, FS_Subset, QueueCount
  <1>4. ASSUME NEW c \in S, T \subseteq S \ {c} PROVE Queue!Cardinality(T) <= Queue!Cardinality(S) - 1
    <2>1. Queue!IsFiniteSet(S \ {c}) /\ Queue!Cardinality(S \ {c}) = Queue!Cardinality(S) - 1
      BY <1>1, FS_RemoveElement, QueueCount
    <2>2. QED
      BY <1>4, <2>1, FS_Subset, QueueCount
  <1>5. ASSUME NEW c, T \subseteq S \cup {c} PROVE Queue!Cardinality(T) <= Queue!Cardinality(S) + 1
    <2>1. Queue!IsFiniteSet(S \cup {c}) /\ Queue!Cardinality(S \cup {c}) <= Queue!Cardinality(S) + 1
      BY <1>1, <1>2, FS_AddElement, QueueCount
    <2>2. Queue!Cardinality(T) <= Queue!Cardinality(S \cup {c}) /\ Queue!Cardinality(S \cup {c}) \in Nat
      BY <1>5, <2>1, FS_Subset, FS_CardinalityType, QueueCount
    <2>3. QED
      BY <1>2, <2>1, <2>2
  <1>6. QED
    BY <1>2, <1>3, <1>4, <1>5

(* A step after which no call owes more, and no generation is raised.      *)
LEMMA RoomKept ==
  ASSUME Queue!IsFiniteSet(Clients), MaxGen \in Nat, WorkRoom, workGeneration' = workGeneration,
         \A c \in Clients :
            /\ call'[c].at \in Queue!OnceAt => call[c].at \in Queue!OnceAt /\ call'[c].item = call[c].item
            /\ call'[c].at \in Queue!TwiceAt => call[c].at \in Queue!TwiceAt
  PROVE  WorkRoom'
PROOF
  <1>1. ASSUME NEW w \in Items
        PROVE  workGeneration'[w] + Queue!Cardinality(Queue!Once(w)') + Queue!Cardinality(Queue!Twice(w)') <= MaxGen
    <2>1. Queue!Once(w)' \subseteq Queue!Once(w) /\ Queue!Once(w) \subseteq Clients
      BY DEF Queue!Once
    <2>2. Queue!Twice(w)' \subseteq Queue!Twice(w) /\ Queue!Twice(w) \subseteq Clients
      BY DEF Queue!Twice, Queue!TwiceAt, Queue!OnceAt
    <2>3. Queue!Cardinality(Queue!Once(w)') <= Queue!Cardinality(Queue!Once(w)) /\ Queue!Cardinality(Queue!Once(w)') \in Nat
            /\ Queue!Cardinality(Queue!Once(w)) \in Nat
      BY <2>1, FewerCalls
    <2>4. Queue!Cardinality(Queue!Twice(w)') <= Queue!Cardinality(Queue!Twice(w)) /\ Queue!Cardinality(Queue!Twice(w)') \in Nat
            /\ Queue!Cardinality(Queue!Twice(w)) \in Nat
      BY <2>2, FewerCalls
    <2>5. workGeneration'[w] \in Nat /\ workGeneration'[w] + Queue!Cardinality(Queue!Once(w)) + Queue!Cardinality(Queue!Twice(w)) <= MaxGen
      BY DEF WorkRoom
    <2>6. QED
      BY <2>3, <2>4, <2>5
  <1>2. QED
    BY <1>1 DEF WorkRoom

(* A cancellation raises the generation and owes one less.                 *)
LEMMA RoomUsed ==
  ASSUME Queue!IsFiniteSet(Clients), MaxGen \in Nat, WorkRoom, NEW c \in Clients,
         call[c].item \in Items, workGeneration' = [workGeneration EXCEPT ![call[c].item] = @ + 1],
         \A d \in Clients \ {c} : call'[d] = call[d],
         \/ call[c].at = "cancel" /\ call'[c].at \notin Queue!TwiceAt
              /\ (call'[c].at \in Queue!OnceAt => call'[c].item = call[c].item)
         \/ call[c].at = "cancelAgain" /\ call'[c].at \notin Queue!OnceAt
  PROVE  WorkRoom'
PROOF
  <1>1. ASSUME NEW w \in Items
        PROVE  workGeneration'[w] + Queue!Cardinality(Queue!Once(w)') + Queue!Cardinality(Queue!Twice(w)') <= MaxGen
    <2>0. call'[c].at \in Queue!TwiceAt => FALSE
      BY DEF Queue!TwiceAt, Queue!OnceAt
    <2>1. Queue!Once(w)' \subseteq Queue!Once(w) /\ Queue!Once(w) \subseteq Clients /\ Queue!Twice(w)' \subseteq Queue!Twice(w)
            /\ Queue!Twice(w) \subseteq Clients
      BY <2>0 DEF Queue!Once, Queue!Twice, Queue!OnceAt
    <2>2. CASE w # call[c].item
      <3>1. Queue!Cardinality(Queue!Once(w)') <= Queue!Cardinality(Queue!Once(w)) /\ Queue!Cardinality(Queue!Once(w)') \in Nat
              /\ Queue!Cardinality(Queue!Once(w)) \in Nat
        BY <2>1, FewerCalls
      <3>2. Queue!Cardinality(Queue!Twice(w)') <= Queue!Cardinality(Queue!Twice(w)) /\ Queue!Cardinality(Queue!Twice(w)') \in Nat
              /\ Queue!Cardinality(Queue!Twice(w)) \in Nat
        BY <2>1, FewerCalls
      <3>3. workGeneration'[w] \in Nat /\ workGeneration'[w] + Queue!Cardinality(Queue!Once(w)) + Queue!Cardinality(Queue!Twice(w)) <= MaxGen
        BY <2>2 DEF WorkRoom
      <3>4. QED
        BY <3>1, <3>2, <3>3
    <2>3. CASE w = call[c].item
      <3>1. \/ c \in Queue!Twice(w) /\ Queue!Twice(w)' \subseteq Queue!Twice(w) \ {c}
            \/ c \in Queue!Once(w) /\ Queue!Once(w)' \subseteq Queue!Once(w) \ {c}
        BY <2>0, <2>1, <2>3 DEF Queue!Once, Queue!Twice, Queue!OnceAt, Queue!TwiceAt
      <3>2. /\ Queue!Cardinality(Queue!Once(w)') <= Queue!Cardinality(Queue!Once(w)) /\ Queue!Cardinality(Queue!Once(w)') \in Nat
            /\ Queue!Cardinality(Queue!Once(w)) \in Nat
            /\ c \in Queue!Once(w) /\ Queue!Once(w)' \subseteq Queue!Once(w) \ {c} =>
                 Queue!Cardinality(Queue!Once(w)') <= Queue!Cardinality(Queue!Once(w)) - 1
        BY <2>1, FewerCalls
      <3>3. /\ Queue!Cardinality(Queue!Twice(w)') <= Queue!Cardinality(Queue!Twice(w)) /\ Queue!Cardinality(Queue!Twice(w)') \in Nat
            /\ Queue!Cardinality(Queue!Twice(w)) \in Nat
            /\ c \in Queue!Twice(w) /\ Queue!Twice(w)' \subseteq Queue!Twice(w) \ {c} =>
                 Queue!Cardinality(Queue!Twice(w)') <= Queue!Cardinality(Queue!Twice(w)) - 1
        BY <2>1, FewerCalls
      <3>4. /\ workGeneration[w] \in Nat /\ workGeneration'[w] = workGeneration[w] + 1
            /\ workGeneration[w] + Queue!Cardinality(Queue!Once(w)) + Queue!Cardinality(Queue!Twice(w)) <= MaxGen
        BY <2>3 DEF WorkRoom
      <3>5. QED
        BY <3>1, <3>2, <3>3, <3>4
    <2>4. QED
      BY <2>2, <2>3
  <1>2. workGeneration' \in [Items -> Nat]
    BY DEF WorkRoom
  <1>3. QED
    BY <1>1, <1>2 DEF WorkRoom

(* What a call that begins about v does to its generation, and the room it *)
(* has for itself.                                                         *)
Raises(v, place) ==
  \/ workGeneration' = [workGeneration EXCEPT ![v] = @ + 1] /\ Queue!Room(v, 1) /\ place \notin Queue!OnceAt
  \/ workGeneration' = workGeneration /\ Queue!Room(v, 2)
  \/ workGeneration' = [workGeneration EXCEPT ![v] = @ + 1] /\ Queue!Room(v, 3)

(* A call that begins has room for itself.                                 *)
LEMMA RoomFor ==
  ASSUME Queue!IsFiniteSet(Clients), MaxGen \in Nat, WorkRoom, NEW c \in Clients, NEW v \in Items,
         Queue!At(c, "idle"), \A d \in Clients \ {c} : call'[d] = call[d], call'[c].item = v,
         Raises(v, call'[c].at)
  PROVE  WorkRoom'
PROOF
  <1>1. ASSUME NEW w \in Items
        PROVE  workGeneration'[w] + Queue!Cardinality(Queue!Once(w)') + Queue!Cardinality(Queue!Twice(w)') <= MaxGen
    <2>1. Queue!Once(w) \subseteq Clients /\ Queue!Twice(w) \subseteq Clients /\ Queue!Once(w)' \subseteq Clients
            /\ Queue!Twice(w)' \subseteq Clients
      BY DEF Queue!Once, Queue!Twice
    <2>2. CASE w # v
      <3>0. Queue!Once(w)' \subseteq Queue!Once(w) /\ Queue!Twice(w)' \subseteq Queue!Twice(w)
        BY <2>2 DEF Queue!Once, Queue!Twice
      <3>1. Queue!Cardinality(Queue!Once(w)') <= Queue!Cardinality(Queue!Once(w)) /\ Queue!Cardinality(Queue!Once(w)') \in Nat
              /\ Queue!Cardinality(Queue!Once(w)) \in Nat
        BY <2>1, <3>0, FewerCalls
      <3>2. Queue!Cardinality(Queue!Twice(w)') <= Queue!Cardinality(Queue!Twice(w)) /\ Queue!Cardinality(Queue!Twice(w)') \in Nat
              /\ Queue!Cardinality(Queue!Twice(w)) \in Nat
        BY <2>1, <3>0, FewerCalls
      <3>3. workGeneration'[w] \in Nat /\ workGeneration'[w] + Queue!Cardinality(Queue!Once(w)) + Queue!Cardinality(Queue!Twice(w)) <= MaxGen
        BY <2>2 DEF WorkRoom, Raises
      <3>4. QED
        BY <3>1, <3>2, <3>3
    <2>3. CASE w = v
      <3>0. /\ Queue!Once(w)' \subseteq Queue!Once(w) \cup {c} /\ Queue!Twice(w)' \subseteq Queue!Twice(w) \cup {c}
            /\ call'[c].at \notin Queue!OnceAt => Queue!Once(w)' \subseteq Queue!Once(w) /\ Queue!Twice(w)' \subseteq Queue!Twice(w)
        BY <2>3 DEF Queue!Once, Queue!Twice, Queue!OnceAt, Queue!TwiceAt
      <3>1. /\ Queue!Cardinality(Queue!Once(w)') \in Nat /\ Queue!Cardinality(Queue!Once(w)) \in Nat
            /\ Queue!Cardinality(Queue!Once(w)') <= Queue!Cardinality(Queue!Once(w)) + 1
            /\ call'[c].at \notin Queue!OnceAt => Queue!Cardinality(Queue!Once(w)') <= Queue!Cardinality(Queue!Once(w))
        BY <2>1, <3>0, FewerCalls
      <3>2. /\ Queue!Cardinality(Queue!Twice(w)') \in Nat /\ Queue!Cardinality(Queue!Twice(w)) \in Nat
            /\ Queue!Cardinality(Queue!Twice(w)') <= Queue!Cardinality(Queue!Twice(w)) + 1
            /\ call'[c].at \notin Queue!OnceAt => Queue!Cardinality(Queue!Twice(w)') <= Queue!Cardinality(Queue!Twice(w))
        BY <2>1, <3>0, FewerCalls
      <3>3. workGeneration[w] \in Nat /\ workGeneration = [x \in Items |-> workGeneration[x]]
        BY DEF WorkRoom
      <3>4. CASE workGeneration' = [workGeneration EXCEPT ![v] = @ + 1] /\ Queue!Room(v, 1) /\ call'[c].at \notin Queue!OnceAt
        <4>1. /\ workGeneration'[w] = workGeneration[w] + 1
              /\ workGeneration[w] + Queue!Cardinality(Queue!Once(w)) + Queue!Cardinality(Queue!Twice(w)) + 1 <= MaxGen
          BY <2>3, <3>3, <3>4 DEF Queue!Room
        <4>2. QED
          BY <3>1, <3>2, <3>3, <3>4, <4>1
      <3>5. CASE workGeneration' = workGeneration /\ Queue!Room(v, 2)
        <4>1. /\ workGeneration'[w] = workGeneration[w]
              /\ workGeneration[w] + Queue!Cardinality(Queue!Once(w)) + Queue!Cardinality(Queue!Twice(w)) + 2 <= MaxGen
          BY <2>3, <3>5 DEF Queue!Room
        <4>2. QED
          BY <3>1, <3>2, <3>3, <4>1
      <3>6. CASE workGeneration' = [workGeneration EXCEPT ![v] = @ + 1] /\ Queue!Room(v, 3)
        <4>1. /\ workGeneration'[w] = workGeneration[w] + 1
              /\ workGeneration[w] + Queue!Cardinality(Queue!Once(w)) + Queue!Cardinality(Queue!Twice(w)) + 3 <= MaxGen
          BY <2>3, <3>3, <3>6 DEF Queue!Room
        <4>2. QED
          BY <3>1, <3>2, <3>3, <4>1
      <3>7. QED
        BY <3>4, <3>5, <3>6 DEF Raises
    <2>4. QED
      BY <2>2, <2>3
  <1>2. workGeneration' \in [Items -> Nat]
    BY DEF WorkRoom, Raises
  <1>3. QED
    BY <1>1, <1>2 DEF WorkRoom

(* A step that queues nothing and leaves the items on their way alone.     *)
LEMMA PlacedKept ==
  ASSUME WorkPlaced, \A v \in Items : pending'[v] => pending[v], UNCHANGED <<fifo, workThread>>,
         \A c \in Clients : Queue!At(c, "put") => call'[c].at = "put" /\ call'[c].item = call[c].item,
         \A s \in Slots : slot[s].at = "put" => slot'[s].at = "put" /\ slot'[s].item = slot[s].item
  PROVE  WorkPlaced'
PROOF
  <1>1. ASSUME NEW w \in Items, pending'[w]
        PROVE  Queued(w)' \/ PutByCall(w)' \/ PutByTimer(w)' \/ Taken(w)'
    <2>1. Queued(w) \/ PutByCall(w) \/ PutByTimer(w) \/ Taken(w)
      BY <1>1 DEF WorkPlaced
    <2>2. Queued(w) => Queued(w)'
      BY DEF Queued
    <2>3. PutByCall(w) => PutByCall(w)'
      BY DEF PutByCall, Queue!At
    <2>4. PutByTimer(w) => PutByTimer(w)'
      BY DEF PutByTimer
    <2>5. Taken(w) => Taken(w)'
      BY DEF Taken
    <2>6. QED
      BY <2>1, <2>2, <2>3, <2>4, <2>5
  <1>2. QED
    BY <1>1 DEF WorkPlaced

(* An item that was on its way is put into the queue.                      *)
LEMMA PlacedPut ==
  ASSUME WorkTyped, WorkPlaced, NEW v \in Items, pending' = pending, workThread' = workThread, fifo' = Append(fifo, v),
         \A c \in Clients : Queue!At(c, "put") /\ call[c].item # v =>
            call'[c].at = "put" /\ call'[c].item = call[c].item,
         \A s \in Slots : slot[s].at = "put" /\ slot[s].item # v =>
            slot'[s].at = "put" /\ slot'[s].item = slot[s].item
  PROVE  WorkPlaced'
PROOF
  <1>0. /\ Len(fifo) \in Nat /\ Len(fifo') = Len(fifo) + 1 /\ fifo'[Len(fifo) + 1] = v
        /\ \A i \in 1 .. Len(fifo) : fifo'[i] = fifo[i]
    BY AppendProperties DEF WorkTyped
  <1>1. ASSUME NEW w \in Items, pending'[w]
        PROVE  Queued(w)' \/ PutByCall(w)' \/ PutByTimer(w)' \/ Taken(w)'
    <2>1. Queued(w) \/ PutByCall(w) \/ PutByTimer(w) \/ Taken(w)
      BY <1>1 DEF WorkPlaced
    <2>2. Queued(w) \/ w = v => Queued(w)'
      BY <1>0 DEF Queued
    <2>3. w # v /\ PutByCall(w) => PutByCall(w)'
      BY DEF PutByCall, Queue!At
    <2>4. w # v /\ PutByTimer(w) => PutByTimer(w)'
      BY DEF PutByTimer
    <2>5. Taken(w) => Taken(w)'
      BY DEF Taken
    <2>6. QED
      BY <2>1, <2>2, <2>3, <2>4, <2>5
  <1>2. QED
    BY <1>1 DEF WorkPlaced

(* An item is marked pending by who will put it into the queue.            *)
LEMMA PlacedMarked ==
  ASSUME WorkPlaced, NEW v \in Items, \A w \in Items \ {v} : pending'[w] => pending[w],
         UNCHANGED <<fifo, workThread>>,
         \/ \E c \in Clients : call'[c].at = "put" /\ call'[c].item = v
         \/ \E s \in Slots : slot'[s].at = "put" /\ slot'[s].item = v,
         \A c \in Clients : Queue!At(c, "put") => call'[c].at = "put" /\ call'[c].item = call[c].item,
         \A s \in Slots : slot[s].at = "put" => slot'[s].at = "put" /\ slot'[s].item = slot[s].item
  PROVE  WorkPlaced'
PROOF
  <1>1. ASSUME NEW w \in Items, pending'[w], w # v
        PROVE  Queued(w)' \/ PutByCall(w)' \/ PutByTimer(w)' \/ Taken(w)'
    <2>1. Queued(w) \/ PutByCall(w) \/ PutByTimer(w) \/ Taken(w)
      BY <1>1 DEF WorkPlaced
    <2>2. Queued(w) => Queued(w)'
      BY DEF Queued
    <2>3. PutByCall(w) => PutByCall(w)'
      BY DEF PutByCall, Queue!At
    <2>4. PutByTimer(w) => PutByTimer(w)'
      BY DEF PutByTimer
    <2>5. Taken(w) => Taken(w)'
      BY DEF Taken
    <2>6. QED
      BY <2>1, <2>2, <2>3, <2>4, <2>5
  <1>2. PutByCall(v)' \/ PutByTimer(v)'
    BY DEF PutByCall, PutByTimer, Queue!At
  <1>3. QED
    BY <1>1, <1>2 DEF WorkPlaced

(* Nothing is queued at first, and nobody calls.                           *)
LEMMA WorkBookedStarts == ASSUME Queue!WorkAssumption, Queue!Init PROVE WorkBooked
PROOF
  <1>1. WorkFlags /\ WorkPlaced
    BY DEF Queue!Init, WorkFlags, WorkPlaced
  <1>6. WorkOwned
    BY DEF Queue!Init, WorkOwned, Queue!NoCall, Queue!At
  <1>2. \A w \in Items : Queue!Once(w) = {} /\ Queue!Twice(w) = {}
    BY DEF Queue!Init, Queue!Once, Queue!Twice, Queue!NoCall, Queue!OnceAt, Queue!TwiceAt
  <1>5. /\ workGeneration \in [Items -> Nat] /\ MaxGen \in Nat
        /\ \A w \in Items : /\ workGeneration[w] = 0
                             /\ Queue!Cardinality(Queue!Once(w)) = 0 /\ Queue!Cardinality(Queue!Twice(w)) = 0
    BY <1>2, FS_EmptySet, QueueCount DEF Queue!Init, Queue!WorkAssumption
  <1>3. WorkRoom
    BY <1>5 DEF WorkRoom
  <1>4. QED
    BY <1>1, <1>3, <1>6 DEF WorkBooked

LEMMA WorkerBooked == ASSUME Queue!WorkAssumption, WorkTyped, WorkBooked, Queue!Worker PROVE WorkBooked'
PROOF
  <1> USE DEF Queue!WorkAssumption, WorkBooked, Queue!itemVars
  <1>0. /\ UNCHANGED <<call, workGeneration, slot>>
        /\ Len(fifo) \in Nat
    BY DEF Queue!Worker, Queue!Get, Queue!Begin, Queue!End, WorkTyped
  <1>1. WorkRoom'
    BY <1>0, RoomKept
  <1>6. WorkOwned'
    BY <1>0 DEF WorkOwned, Queue!At
  <1>2. CASE Queue!Get
    <2>1. /\ workThread' = [at |-> "begin", item |-> Head(fifo)] /\ fifo' = Tail(fifo) /\ fifo # <<>>
          /\ workThread.at = "get" /\ UNCHANGED <<pending, canceled, running, delayed>>
      BY <1>2 DEF Queue!Get
    <2>2. /\ Len(fifo') = Len(fifo) - 1 /\ Len(fifo) \in Nat \ {0} /\ Head(fifo) = fifo[1]
          /\ \A i \in 1 .. Len(fifo') : fifo'[i] = fifo[i + 1]
      BY <2>1, HeadTailProperties DEF WorkTyped
    <2>3. Head(fifo) \in Items
      BY <2>1, <2>2 DEF WorkTyped
    <2>4. WorkFlags'
      BY <2>1, <2>3 DEF WorkFlags
    <2>5. ASSUME NEW w \in Items, pending'[w]
          PROVE  Queued(w)' \/ PutByCall(w)' \/ PutByTimer(w)' \/ Taken(w)'
      <3>1. Queued(w) \/ PutByCall(w) \/ PutByTimer(w)
        BY <2>1, <2>5 DEF WorkPlaced, Taken
      <3>2. Queued(w) => Queued(w)' \/ Taken(w)'
        <4>1. SUFFICES ASSUME NEW i \in 1 .. Len(fifo), fifo[i] = w PROVE Queued(w)' \/ Taken(w)'
          BY DEF Queued
        <4>2. CASE i = 1
          BY <2>1, <2>2, <4>1, <4>2 DEF Taken
        <4>3. CASE i # 1
          <5>1. i - 1 \in 1 .. Len(fifo') /\ fifo'[i - 1] = w
            BY <2>2, <4>1, <4>3
          <5>2. QED
            BY <5>1 DEF Queued
        <4>4. QED
          BY <4>2, <4>3
      <3>3. PutByCall(w) => PutByCall(w)'
        BY <1>0 DEF PutByCall, Queue!At
      <3>4. PutByTimer(w) => PutByTimer(w)'
        BY <1>0 DEF PutByTimer
      <3>5. QED
        BY <3>1, <3>2, <3>3, <3>4
    <2>6. WorkPlaced'
      BY <2>5 DEF WorkPlaced
    <2>7. QED
      BY <1>1, <1>6, <2>4, <2>6
  <1>3. CASE Queue!Begin
    <2>1. workThread.item \in Items /\ workThread.at = "begin"
      BY <1>3 DEF Queue!Begin, WorkFlags
    <2>2. /\ pending' = [pending EXCEPT ![workThread.item] = FALSE]
          /\ canceled' = [canceled EXCEPT ![workThread.item] = FALSE]
          /\ running' = [running EXCEPT ![workThread.item] = ~canceled[workThread.item]]
          /\ workThread' \in {[at |-> "get", item |-> None], [at |-> "run", item |-> workThread.item]}
          /\ UNCHANGED <<delayed, fifo>>
      BY <1>3 DEF Queue!Begin
    <2>3. WorkFlags'
      BY <2>1, <2>2 DEF WorkFlags
    <2>4. ASSUME NEW w \in Items, pending'[w]
          PROVE  Queued(w)' \/ PutByCall(w)' \/ PutByTimer(w)' \/ Taken(w)'
      <3>0. w # workThread.item /\ pending[w]
        BY <2>1, <2>2, <2>4 DEF WorkFlags
      <3>1. Queued(w) \/ PutByCall(w) \/ PutByTimer(w)
        BY <3>0 DEF WorkPlaced, Taken
      <3>2. Queued(w) => Queued(w)'
        BY <2>2 DEF Queued
      <3>3. PutByCall(w) => PutByCall(w)'
        BY <1>0 DEF PutByCall, Queue!At
      <3>4. PutByTimer(w) => PutByTimer(w)'
        BY <1>0 DEF PutByTimer
      <3>5. QED
        BY <3>1, <3>2, <3>3, <3>4
    <2>5. WorkPlaced'
      BY <2>4 DEF WorkPlaced
    <2>6. QED
      BY <1>1, <1>6, <2>3, <2>5
  <1>4. CASE Queue!End
    <2>1. /\ workThread.at = "run" /\ running' = [running EXCEPT ![workThread.item] = FALSE]
          /\ workThread' = [at |-> "get", item |-> None] /\ UNCHANGED <<pending, canceled, delayed, fifo>>
      BY <1>4 DEF Queue!End
    <2>2. WorkFlags'
      BY <2>1 DEF WorkFlags
    <2>3. WorkPlaced'
      BY <1>0, <2>1 DEF WorkPlaced, Queued, PutByCall, PutByTimer, Taken, Queue!At
    <2>4. QED
      BY <1>1, <1>6, <2>2, <2>3
  <1>5. QED
    BY <1>2, <1>3, <1>4 DEF Queue!Worker

(* The timers raise no generation; one of them may put its item.           *)
LEMMA TimersBooked ==
  ASSUME Queue!WorkAssumption, WorkTyped, WorkPlaces, WorkBooked, NEW s \in Slots, Queue!Timer(s)
  PROVE  WorkBooked'
PROOF
  <1> USE DEF Queue!WorkAssumption, WorkBooked, Queue!itemVars
  <1>1. UNCHANGED <<call, workGeneration, workThread>>
    BY DEF Queue!Timer, Queue!Expire, Queue!CheckGeneration, Queue!TimerSubmit, Queue!TimerPut, Queue!Release, Queue!MarkPending
  <1>2. WorkRoom'
    BY <1>1, RoomKept
  <1>3. slot[s].at \notin {"free", "allocated"} => slot[s].item \in Items
    BY DEF WorkPlaces, SlotFits
  <1>4. /\ slot = [t \in Slots |-> slot[t]] /\ SlotFields \subseteq DOMAIN slot[s]
    BY DEF WorkTyped
  <1>9. slot[s].at # "allocated" /\ \A t \in Slots \ {s} : slot'[t] = slot[t]
    BY <1>4 DEF Queue!Timer, Queue!Expire, Queue!CheckGeneration, Queue!TimerSubmit, Queue!TimerPut, Queue!Release
  <1>10. WorkOwned'
    <2>2. \A t \in Slots : slot[t].at = "allocated" => slot'[t] = slot[t]
      BY <1>9
    <2>3. QED
      BY <1>1, <2>2 DEF WorkOwned, Queue!At
  <1>5. CASE Queue!Expire(s) \/ Queue!CheckGeneration(s) \/ Queue!Release(s) \/ (Queue!TimerSubmit(s) /\ pending[slot[s].item])
    <2>1. /\ UNCHANGED <<pending, canceled, running, fifo>>
          /\ slot[s].at # "put" /\ \A t \in Slots \ {s} : slot'[t] = slot[t]
      BY <1>4, <1>5 DEF Queue!Expire, Queue!CheckGeneration, Queue!Release, Queue!TimerSubmit
    <2>2. delayed' \in [Items -> BOOLEAN]
      <3>1. CASE Queue!CheckGeneration(s)
        BY <3>1 DEF Queue!CheckGeneration, WorkFlags
      <3>2. CASE delayed' = delayed
        BY <3>2 DEF WorkFlags
      <3>3. QED
        BY <1>5, <3>1, <3>2 DEF Queue!Expire, Queue!Release, Queue!TimerSubmit
    <2>3. WorkFlags'
      BY <1>1, <2>1, <2>2 DEF WorkFlags
    <2>4. WorkPlaced'
      BY <1>1, <2>1, PlacedKept DEF Queue!At
    <2>5. QED
      BY <1>2, <1>10, <2>3, <2>4
  <1>6. CASE Queue!TimerSubmit(s) /\ ~pending[slot[s].item]
    <2>1. /\ slot[s].at = "submit" /\ slot[s].item \in Items
          /\ pending' = [pending EXCEPT ![slot[s].item] = TRUE]
          /\ canceled' = [canceled EXCEPT ![slot[s].item] = FALSE]
          /\ slot' = [slot EXCEPT ![s].at = "put"] /\ UNCHANGED <<running, delayed, fifo>>
      BY <1>3, <1>6 DEF Queue!TimerSubmit, Queue!MarkPending
    <2>2. /\ \A t \in Slots \ {s} : slot'[t] = slot[t]
          /\ slot'[s].at = "put" /\ slot'[s].item = slot[s].item
      BY <1>4, <2>1 DEF SlotFields
    <2>3. WorkFlags'
      BY <1>1, <2>1 DEF WorkFlags
    <2>4. \A w \in Items \ {slot[s].item} : pending'[w] => pending[w]
      BY <2>1 DEF WorkFlags
    <2>5. \A t \in Slots : slot[t].at = "put" => slot'[t].at = "put" /\ slot'[t].item = slot[t].item
      BY <2>1, <2>2
    <2>6. WorkPlaced'
      BY <1>1, <2>1, <2>2, <2>4, <2>5, PlacedMarked DEF Queue!At
    <2>7. QED
      BY <1>2, <1>10, <2>3, <2>6
  <1>7. CASE Queue!TimerPut(s)
    <2>1. /\ slot[s].at = "put" /\ slot[s].item \in Items /\ fifo' = Append(fifo, slot[s].item)
          /\ UNCHANGED <<pending, canceled, running, delayed>>
          /\ \A t \in Slots \ {s} : slot'[t] = slot[t]
      BY <1>3, <1>4, <1>7 DEF Queue!TimerPut
    <2>2. WorkFlags'
      BY <1>1, <2>1 DEF WorkFlags
    <2>3. WorkPlaced'
      BY <1>1, <2>1, PlacedPut DEF Queue!At
    <2>4. QED
      BY <1>2, <1>10, <2>2, <2>3
  <1>8. QED
    BY <1>5, <1>6, <1>7 DEF Queue!Timer

(* A call changes its own record only.                                     *)
LEMMA CallMoves ==
  ASSUME WorkTyped, NEW c \in Clients
  PROVE  /\ \A r : call' = [call EXCEPT ![c] = r] =>
               call'[c] = r /\ \A d \in Clients \ {c} : call'[d] = call[d]
         /\ \A place : Queue!Goto(c, place) =>
               /\ call'[c].at = place /\ call'[c].item = call[c].item
               /\ \A d \in Clients \ {c} : call'[d] = call[d]
         /\ Queue!Return(c) => /\ call'[c].at = "idle"
                               /\ \A d \in Clients \ {c} : call'[d] = call[d]
  BY DEF WorkTyped, CallFields, Queue!Goto, Queue!Return, Queue!NoCall

(* A call begins: its item is not yet on its way.                          *)
LEMMA CallBegun ==
  ASSUME Queue!WorkAssumption, WorkTyped, WorkBooked, NEW c \in Clients, NEW w \in Items, NEW r,
         Queue!At(c, "idle"), call' = [call EXCEPT ![c] = r], r.item = w,
         UNCHANGED <<pending, canceled, running, fifo, workThread, slot>>,
         delayed' \in [Items -> BOOLEAN], r.at \notin {"create", "put"},
         \/ workGeneration' = workGeneration /\ r.at \notin Queue!OnceAt /\ r.at \notin Queue!TwiceAt
         \/ Raises(w, r.at)
  PROVE  WorkBooked'
PROOF
  <1> USE DEF Queue!WorkAssumption, WorkBooked
  <1>1. call'[c] = r /\ \A d \in Clients \ {c} : call'[d] = call[d]
    BY DEF WorkTyped
  <1>2. WorkPlaced'
    BY <1>1, PlacedKept DEF Queue!At
  <1>3. WorkFlags'
    BY DEF WorkFlags
  <1>4. WorkOwned'
    BY <1>1 DEF WorkOwned, Queue!At
  <1>5. WorkRoom'
    <2>1. CASE workGeneration' = workGeneration /\ r.at \notin Queue!OnceAt /\ r.at \notin Queue!TwiceAt
      BY <1>1, <2>1, RoomKept
    <2>2. CASE Raises(w, r.at)
      BY <1>1, <2>2, RoomFor
    <2>3. QED
      BY <2>1, <2>2
  <1>6. QED
    BY <1>2, <1>3, <1>4, <1>5

LEMMA CallsBeginBooked ==
  ASSUME Queue!WorkAssumption, WorkTyped, WorkBooked, NEW c \in Clients, Queue!Begins(c)
  PROVE  WorkBooked'
PROOF
  <1> USE DEF Queue!At, Queue!itemVars, Queue!NoCall
  <1>0. WorkFlags
    BY DEF WorkBooked
  <1>1. PICK w \in Items :
          \/ Queue!Submit(c, w) \/ Queue!Flush(c, w)
          \/ \E delay \in BOOLEAN, replace \in BOOLEAN : Queue!Schedule(c, w, delay, replace)
          \/ \E sync \in BOOLEAN : Queue!Cancel(c, w, sync) \/ Queue!CancelDelay(c, w, sync)
    BY DEF Queue!Begins
  <1>2. CASE Queue!Submit(c, w)
    <2> DEFINE r == [Queue!NoCall EXCEPT !.at = "submit", !.item = w]
    <2>1. /\ call' = [call EXCEPT ![c] = r] /\ r.item = w /\ r.at \notin {"create", "put"}
          /\ Queue!At(c, "idle") /\ UNCHANGED <<pending, canceled, running, fifo, workThread, slot>>
      BY <1>2 DEF Queue!Submit
    <2>2. delayed' \in [Items -> BOOLEAN]
      BY <1>0, <1>2 DEF Queue!Submit, WorkFlags
    <2>3. workGeneration' = workGeneration /\ r.at \notin Queue!OnceAt /\ r.at \notin Queue!TwiceAt
      BY <1>2 DEF Queue!Submit, Queue!OnceAt, Queue!TwiceAt
    <2> HIDE DEF r
    <2>4. QED
      BY <2>1, <2>2, <2>3, CallBegun
  <1>3. CASE Queue!Flush(c, w)
    <2> DEFINE r == [Queue!NoCall EXCEPT !.at = "wait", !.item = w]
    <2>1. /\ call' = [call EXCEPT ![c] = r] /\ r.item = w /\ r.at \notin {"create", "put"}
          /\ Queue!At(c, "idle") /\ UNCHANGED <<pending, canceled, running, fifo, workThread, slot>>
      BY <1>3 DEF Queue!Flush
    <2>2. delayed' \in [Items -> BOOLEAN]
      BY <1>0, <1>3 DEF Queue!Flush, WorkFlags
    <2>3. workGeneration' = workGeneration /\ r.at \notin Queue!OnceAt /\ r.at \notin Queue!TwiceAt
      BY <1>3 DEF Queue!Flush, Queue!OnceAt, Queue!TwiceAt
    <2> HIDE DEF r
    <2>4. QED
      BY <2>1, <2>2, <2>3, CallBegun
  <1>4. ASSUME NEW delay \in BOOLEAN, NEW replace \in BOOLEAN, Queue!Schedule(c, w, delay, replace) PROVE WorkBooked'
    <2> DEFINE r == [Queue!NoCall EXCEPT !.at = IF delay THEN "allocate" ELSE "submit",
                                   !.item = w, !.gen = workGeneration[w] + 1]
    <2>1. /\ call' = [call EXCEPT ![c] = r] /\ r.item = w /\ r.at \notin {"create", "put"}
          /\ Queue!At(c, "idle") /\ UNCHANGED <<pending, canceled, running, fifo, workThread, slot>>
      BY <1>4 DEF Queue!Schedule
    <2>2. delayed' \in [Items -> BOOLEAN]
      BY <1>0, <1>4 DEF Queue!Schedule, WorkFlags
    <2>3. Raises(w, r.at)
      BY <1>4 DEF Queue!Schedule, Queue!OnceAt, Raises
    <2> HIDE DEF r
    <2>4. QED
      BY <2>1, <2>2, <2>3, CallBegun
  <1>5. ASSUME NEW sync \in BOOLEAN, Queue!Cancel(c, w, sync) PROVE WorkBooked'
    <2> DEFINE r == [Queue!NoCall EXCEPT !.at = "cancel", !.item = w, !.sync = sync]
    <2>1. /\ call' = [call EXCEPT ![c] = r] /\ r.item = w /\ r.at \notin {"create", "put"}
          /\ Queue!At(c, "idle") /\ UNCHANGED <<pending, canceled, running, fifo, workThread, slot>>
      BY <1>5 DEF Queue!Cancel
    <2>2. delayed' \in [Items -> BOOLEAN]
      BY <1>0, <1>5 DEF Queue!Cancel, WorkFlags
    <2>3. Raises(w, r.at)
      BY <1>5 DEF Queue!Cancel, Raises
    <2> HIDE DEF r
    <2>4. QED
      BY <2>1, <2>2, <2>3, CallBegun
  <1>6. ASSUME NEW sync \in BOOLEAN, Queue!CancelDelay(c, w, sync) PROVE WorkBooked'
    <2> DEFINE r == [Queue!NoCall EXCEPT !.at = "mark", !.item = w, !.sync = sync, !.was = delayed[w]]
    <2>1. /\ call' = [call EXCEPT ![c] = r] /\ r.item = w /\ r.at \notin {"create", "put"}
          /\ Queue!At(c, "idle") /\ UNCHANGED <<pending, canceled, running, fifo, workThread, slot>>
      BY <1>6 DEF Queue!CancelDelay
    <2>2. delayed' \in [Items -> BOOLEAN]
      BY <1>0, <1>6 DEF Queue!CancelDelay, WorkFlags
    <2>3. Raises(w, r.at)
      BY <1>6 DEF Queue!CancelDelay, Raises
    <2> HIDE DEF r
    <2>4. QED
      BY <2>1, <2>2, <2>3, CallBegun
  <1>7. QED
    BY <1>1, <1>2, <1>3, <1>4, <1>5, <1>6

(* A call goes on.                                                         *)
LEMMA CallsProgressBooked ==
  ASSUME Queue!WorkAssumption, WorkTyped, WorkPlaces, WorkBooked, NEW c \in Clients, Queue!Progress(c)
  PROVE  WorkBooked'
PROOF
  <1> USE DEF Queue!WorkAssumption, WorkBooked, Queue!itemVars
  <1>0. call[c].at # "idle" => call[c].item \in Items
    BY DEF WorkPlaces, CallFits
  <1>10. WorkOwned'
    <2>1. slot = [t \in Slots |-> slot[t]] /\ \A t \in Slots : SlotFields \subseteq DOMAIN slot[t]
      BY DEF WorkTyped
    <2>2. CASE UNCHANGED slot /\ call'[c].at # "create" /\ \A d \in Clients \ {c} : call'[d] = call[d]
      BY <2>2 DEF WorkOwned, Queue!At
    <2>3. CASE Queue!SubmitLocked(c) \/ Queue!Put(c) \/ Queue!Fail(c) \/ Queue!CancelWork(c) \/ Queue!Wait(c)
      <3>1. UNCHANGED slot
        BY <2>3 DEF Queue!SubmitLocked, Queue!SubmitStep, Queue!Put, Queue!Fail, Queue!CancelWork, Queue!Wait
      <3>2. call'[c].at # "create" /\ \A d \in Clients \ {c} : call'[d] = call[d]
        BY <2>3, CallMoves DEF Queue!SubmitLocked, Queue!SubmitStep, Queue!Put, Queue!Fail, Queue!CancelWork, Queue!Wait
      <3>3. QED
        BY <2>2, <3>1, <3>2
    <2>4. CASE Queue!MarkSlots(c) \/ Queue!Drain(c)
      <3>1. ASSUME NEW S, slot' = [s \in Slots |-> IF s \in S THEN [slot[s] EXCEPT !.canceled = TRUE] ELSE slot[s]]
            PROVE  \A s \in Slots : slot'[s].at = slot[s].at
        BY <2>1, <3>1 DEF SlotFields
      <3>2. \A s \in Slots : slot'[s].at = slot[s].at
        BY <2>4, <3>1 DEF Queue!MarkSlots, Queue!Drain
      <3>3. call'[c].at # "create" /\ \A d \in Clients \ {c} : call'[d] = call[d]
        BY <2>4, CallMoves DEF Queue!MarkSlots, Queue!Drain, Queue!At
      <3>4. QED
        BY <3>2, <3>3 DEF WorkOwned, Queue!At
    <2>5. CASE Queue!Allocate(c)
      <3>1. CASE UNCHANGED slot /\ Queue!Goto(c, "fail")
        BY <2>2, <3>1, CallMoves
      <3>2. ASSUME NEW s \in Slots, slot[s].at = "free", slot' = [slot EXCEPT ![s].at = "allocated"],
                   call' = [call EXCEPT ![c].at = "create", ![c].slot = s]
            PROVE  WorkOwned'
        <4>1. /\ call'[c].at = "create" /\ call'[c].slot = s
              /\ \A d \in Clients \ {c} : call'[d] = call[d]
          BY <3>2 DEF WorkTyped, CallFields
        <4>2. slot'[s].at = "allocated" /\ \A t \in Slots \ {s} : slot'[t] = slot[t]
          BY <2>1, <3>2 DEF SlotFields
        <4>3. ASSUME NEW d \in Clients \ {c}, Queue!At(d, "create")
              PROVE  call[d].slot \in Slots \ {s} /\ slot[call[d].slot].at = "allocated"
          BY <3>2, <4>3 DEF WorkOwned
        <4>4. ASSUME NEW d \in Clients, NEW e \in Clients \ {d}, call'[d].at = "create", call'[e].at = "create"
              PROVE  call'[e].slot # call'[d].slot
          <5>1. CASE d = c
            BY <4>1, <4>3, <4>4, <5>1 DEF Queue!At
          <5>2. CASE e = c
            BY <4>1, <4>3, <4>4, <5>2 DEF Queue!At
          <5>3. CASE d # c /\ e # c
            BY <4>1, <4>4, <5>3 DEF WorkOwned, Queue!At
          <5>4. QED
            BY <5>1, <5>2, <5>3
        <4>5. ASSUME NEW d \in Clients, call'[d].at = "create"
              PROVE  call'[d].slot \in Slots /\ slot'[call'[d].slot].at = "allocated"
          <5>1. CASE d = c
            BY <4>1, <4>2, <5>1
          <5>2. CASE d # c
            <6>1. call'[d] = call[d] /\ Queue!At(d, "create")
              BY <4>1, <4>5, <5>2 DEF Queue!At
            <6>2. call[d].slot \in Slots \ {s} /\ slot[call[d].slot].at = "allocated"
              BY <4>3, <5>2, <6>1
            <6>3. slot'[call[d].slot] = slot[call[d].slot]
              BY <4>2, <6>2
            <6>4. QED
              BY <6>1, <6>2, <6>3
          <5>3. QED
            BY <5>1, <5>2
        <4>6. QED
          BY <4>4, <4>5 DEF WorkOwned, Queue!At
      <3>3. QED
        BY <2>5, <3>1, <3>2 DEF Queue!Allocate
    <2>6. CASE Queue!Create(c)
      <3>1. call'[c].at # "create" /\ \A d \in Clients \ {c} : call'[d] = call[d]
        BY <2>6, CallMoves DEF Queue!Create
      <3>2. \A s \in Slots \ {call[c].slot} : slot'[s] = slot[s]
        BY <2>1, <2>6 DEF Queue!Create
      <3>3. Queue!At(c, "create")
        BY <2>6 DEF Queue!Create
      <3>4. QED
        BY <3>1, <3>2, <3>3 DEF WorkOwned, Queue!At
    <2>7. QED
      BY <2>3, <2>4, <2>5, <2>6 DEF Queue!Progress
  <1>1. ASSUME UNCHANGED <<pending, canceled, running, workGeneration, fifo, workThread>>,
               delayed' \in [Items -> BOOLEAN], call[c].at # "put",
               \A d \in Clients \ {c} : call'[d] = call[d],
               call'[c].at \in Queue!OnceAt => call[c].at \in Queue!OnceAt /\ call'[c].item = call[c].item,
               call'[c].at \in Queue!TwiceAt => call[c].at \in Queue!TwiceAt,
               \A s \in Slots : slot[s].at = "put" => slot'[s].at = "put" /\ slot'[s].item = slot[s].item
        PROVE  WorkBooked'
    <2>1. WorkRoom'
      BY <1>1, RoomKept
    <2>2. WorkPlaced'
      BY <1>1, PlacedKept DEF Queue!At
    <2>3. WorkFlags'
      BY <1>1 DEF WorkFlags
    <2>4. QED
      BY <1>10, <2>1, <2>2, <2>3
  <1>2. CASE Queue!SubmitLocked(c)
    <2> DEFINE v == call[c].item
    <2>1. v \in Items /\ Queue!At(c, "submit")
      BY <1>0, <1>2 DEF Queue!SubmitLocked, Queue!At
    <2>2. CASE pending[v]
      <3>1. Queue!Return(c) /\ UNCHANGED <<pending, canceled, running, workGeneration, delayed, fifo, workThread, slot>>
        BY <1>2, <2>2 DEF Queue!SubmitLocked, Queue!SubmitStep
      <3>2. delayed' \in [Items -> BOOLEAN]
        BY <3>1 DEF WorkFlags
      <3>3. QED
        BY <1>1, <2>1, <3>1, <3>2, CallMoves DEF Queue!At, Queue!OnceAt, Queue!TwiceAt
    <2>3. CASE ~pending[v]
      <3>1. /\ pending' = [pending EXCEPT ![v] = TRUE] /\ canceled' = [canceled EXCEPT ![v] = FALSE]
            /\ UNCHANGED <<running, workGeneration, delayed, fifo, workThread, slot>> /\ Queue!Goto(c, "put")
        BY <1>2, <2>3 DEF Queue!SubmitLocked, Queue!SubmitStep, Queue!MarkPending
      <3>2. /\ call'[c].at = "put" /\ call'[c].item = v
            /\ \A d \in Clients \ {c} : call'[d] = call[d]
        BY <3>1, CallMoves
      <3>3. WorkRoom'
        BY <3>1, <3>2, RoomKept DEF Queue!OnceAt, Queue!TwiceAt
      <3>4. WorkFlags'
        BY <2>1, <3>1 DEF WorkFlags
      <3>5. \A w \in Items \ {v} : pending'[w] => pending[w]
        BY <2>1, <3>1 DEF WorkFlags
      <3>6. \A d \in Clients : call[d].at = "put" => call'[d].at = "put" /\ call'[d].item = call[d].item
        BY <2>1, <3>2 DEF Queue!At
      <3> HIDE DEF v
      <3>8. WorkPlaced'
        BY <2>1, <3>1, <3>2, <3>5, <3>6, PlacedMarked DEF Queue!At
      <3>9. QED
        BY <1>10, <3>3, <3>4, <3>8
    <2>4. QED
      BY <2>2, <2>3
  <1>3. CASE Queue!Put(c)
    <2>1. /\ call[c].item \in Items /\ fifo' = Append(fifo, call[c].item) /\ call'[c].at = "idle"
          /\ UNCHANGED <<pending, canceled, running, workGeneration, delayed, workThread, slot>>
          /\ \A d \in Clients \ {c} : call'[d] = call[d]
      BY <1>0, <1>3, CallMoves DEF Queue!Put, Queue!At
    <2>2. WorkRoom'
      BY <2>1, RoomKept DEF Queue!OnceAt, Queue!TwiceAt
    <2>3. WorkFlags'
      BY <2>1 DEF WorkFlags
    <2>4. WorkPlaced'
      BY <2>1, PlacedPut DEF Queue!At
    <2>5. QED
      BY <1>10, <2>2, <2>3, <2>4
  <1>4. CASE Queue!CancelWork(c)
    <2>1. /\ call[c].at \in {"cancel", "cancelAgain"} /\ call[c].item \in Items
          /\ workGeneration' = [workGeneration EXCEPT ![call[c].item] = @ + 1]
          /\ canceled' = [canceled EXCEPT ![call[c].item] = @ \/ pending[call[c].item]]
          /\ UNCHANGED <<pending, running, delayed, fifo, workThread, slot>>
          /\ \A d \in Clients \ {c} : call'[d] = call[d]
          /\ call[c].at = "cancelAgain" => call'[c].at = "wait"
          /\ call'[c].at \in {"wait", "idle", "drain"} /\ (call'[c].at # "idle" => call'[c].item = call[c].item)
      BY <1>0, <1>4, CallMoves DEF Queue!CancelWork, Queue!MarkCanceled, Queue!At
    <2>2. WorkRoom'
      BY <2>1, RoomUsed DEF Queue!OnceAt, Queue!TwiceAt
    <2>3. WorkFlags'
      BY <2>1 DEF WorkFlags
    <2>4. WorkPlaced'
      BY <2>1, PlacedKept DEF Queue!At
    <2>5. QED
      BY <1>10, <2>2, <2>3, <2>4
  <1>5. CASE Queue!Fail(c)
    <2>1. delayed' \in [Items -> BOOLEAN] /\ Queue!Return(c) /\ call[c].at = "fail"
            /\ UNCHANGED <<pending, canceled, running, workGeneration, fifo, workThread, slot>>
      BY <1>5 DEF Queue!Fail, WorkFlags, Queue!At
    <2>2. QED
      BY <1>1, <2>1, CallMoves DEF Queue!OnceAt, Queue!TwiceAt
  <1>6. CASE Queue!Wait(c)
    <2>1. delayed' \in [Items -> BOOLEAN] /\ Queue!Return(c) /\ call[c].at = "wait"
            /\ UNCHANGED <<pending, canceled, running, workGeneration, fifo, workThread, slot>>
      BY <1>6 DEF Queue!Wait, WorkFlags, Queue!At
    <2>2. QED
      BY <1>1, <2>1, CallMoves DEF Queue!OnceAt, Queue!TwiceAt
  <1>7. CASE Queue!MarkSlots(c) \/ Queue!Drain(c)
    <2>1. \A s \in Slots : slot[s].at = "put" => slot'[s].at = "put" /\ slot'[s].item = slot[s].item
      <3>1. ASSUME NEW S, slot' = [s \in Slots |-> IF s \in S THEN [slot[s] EXCEPT !.canceled = TRUE] ELSE slot[s]]
            PROVE  \A s \in Slots : slot[s].at = "put" => slot'[s].at = "put" /\ slot'[s].item = slot[s].item
        BY <3>1 DEF WorkTyped, SlotFields
      <3>2. QED
        BY <1>7, <3>1 DEF Queue!MarkSlots, Queue!Drain
    <2>2. delayed' \in [Items -> BOOLEAN] /\ call[c].at \in {"mark", "drain"}
            /\ UNCHANGED <<pending, canceled, running, workGeneration, fifo, workThread>>
      BY <1>7 DEF Queue!MarkSlots, Queue!Drain, Queue!At, WorkFlags
    <2>3. /\ \A d \in Clients \ {c} : call'[d] = call[d]
          /\ call'[c].at \in Queue!OnceAt => call'[c].item = call[c].item
          /\ call'[c].at \in Queue!TwiceAt => call[c].at = "mark"
      BY <1>7, CallMoves DEF Queue!MarkSlots, Queue!Drain, Queue!At, Queue!OnceAt, Queue!TwiceAt
    <2>4. QED
      BY <1>1, <2>1, <2>2, <2>3 DEF Queue!OnceAt, Queue!TwiceAt
  <1>8. CASE Queue!Allocate(c) \/ Queue!Create(c)
    <2>1. delayed' \in [Items -> BOOLEAN] /\ call[c].at \in {"allocate", "create"}
            /\ UNCHANGED <<pending, canceled, running, workGeneration, fifo, workThread>>
      BY <1>8 DEF Queue!Allocate, Queue!Create, Queue!At, WorkFlags
    <2>2. /\ \A d \in Clients \ {c} : call'[d] = call[d]
          /\ call'[c].at \in {"fail", "create", "idle"}
      <3>1. ASSUME NEW s, call' = [call EXCEPT ![c].at = "create", ![c].slot = s]
            PROVE  call'[c].at = "create" /\ \A d \in Clients \ {c} : call'[d] = call[d]
        BY <3>1 DEF WorkTyped, CallFields
      <3>2. CASE Queue!Allocate(c)
        BY <3>1, <3>2, CallMoves DEF Queue!Allocate
      <3>3. CASE Queue!Create(c)
        BY <3>3, CallMoves DEF Queue!Create
      <3>4. QED
        BY <1>8, <3>2, <3>3
    <2>3. \A s \in Slots : slot[s].at = "put" => slot'[s].at = "put" /\ slot'[s].item = slot[s].item
      <3>1. slot = [t \in Slots |-> slot[t]]
        BY DEF WorkTyped
      <3>2. CASE Queue!Allocate(c)
        <4>1. CASE UNCHANGED slot
          BY <4>1
        <4>2. ASSUME NEW t \in Slots, slot[t].at = "free", slot' = [slot EXCEPT ![t].at = "allocated"]
              PROVE  \A s \in Slots : slot[s].at = "put" => slot'[s].at = "put" /\ slot'[s].item = slot[s].item
          BY <3>1, <4>2
        <4>3. QED
          BY <3>2, <4>1, <4>2 DEF Queue!Allocate
      <3>3. CASE Queue!Create(c)
        <4> DEFINE t == call[c].slot
        <4>1. \A s \in Slots \ {t} : slot'[s] = slot[s]
          BY <3>1, <3>3 DEF Queue!Create
        <4>2. t \in Slots => slot[t].at # "put"
          BY <3>3 DEF Queue!Create, WorkOwned
        <4>3. QED
          BY <4>1, <4>2
      <3>4. QED
        BY <1>8, <3>2, <3>3
    <2>4. QED
      BY <1>1, <2>1, <2>2, <2>3 DEF Queue!OnceAt, Queue!TwiceAt
  <1>9. QED
    BY <1>2, <1>3, <1>4, <1>5, <1>6, <1>7, <1>8 DEF Queue!Progress

(* The worker, the timers and the calls.                                   *)
LEMMA WorkBookedStep == Queue!WorkAssumption /\ WorkInv /\ WorkBooked /\ [Queue!Next]_(Queue!vars) => WorkBooked'
PROOF
  <1> SUFFICES ASSUME Queue!WorkAssumption, WorkInv, WorkBooked, [Queue!Next]_(Queue!vars) PROVE WorkBooked'
    OBVIOUS
  <1>0. WorkTyped /\ WorkPlaces
    BY DEF WorkInv
  <1>1. CASE Queue!Worker
    BY <1>0, <1>1, WorkerBooked
  <1>2. ASSUME NEW s \in Slots, Queue!Timer(s) PROVE WorkBooked'
    BY <1>0, <1>2, TimersBooked
  <1>3. ASSUME NEW c \in Clients, Queue!Begins(c) PROVE WorkBooked'
    BY <1>0, <1>3, CallsBeginBooked
  <1>4. ASSUME NEW c \in Clients, Queue!Progress(c) PROVE WorkBooked'
    BY <1>0, <1>4, CallsProgressBooked
  <1>5. CASE UNCHANGED Queue!vars
    BY <1>5 DEF WorkBooked, WorkFlags, WorkPlaced, WorkRoom, WorkOwned, Queued, PutByCall, PutByTimer, Taken,
                Queue!Once, Queue!Twice, Queue!At, Queue!vars, Queue!itemVars
  <1>6. QED
    BY <1>1, <1>2, <1>3, <1>4, <1>5 DEF Queue!Next

(* A set without two elements.                                             *)
LEMMA NoneOrOne ==
  ASSUME NEW S, \A x, y \in S : x = y
  PROVE  Queue!Cardinality(S) = IF S = {} THEN 0 ELSE 1
PROOF
  <1>1. CASE S = {}
    BY <1>1, FS_EmptySet, QueueCount
  <1>2. ASSUME NEW x \in S PROVE Queue!Cardinality(S) = 1
    <2>1. S = {x}
      OBVIOUS
    <2>2. QED
      BY <2>1, FS_Singleton, QueueCount
  <1>3. QED
    BY <1>1, <1>2

(* Where the worker, a call or a timer has the item it is nowhere else.    *)
LEMMA WorkLinkedOnce == ASSUME WorkInv, WorkBooked PROVE Queue!LinkedOnce
PROOF
  <1> SUFFICES ASSUME NEW w \in Items PROVE Queue!Links(w) = IF pending[w] THEN 1 ELSE 0
    BY DEF Queue!LinkedOnce
  <1> DEFINE A == {i \in 1 .. Len(fifo) : fifo[i] = w}
             B == {c \in Clients : Queue!At(c, "put") /\ call[c].item = w}
             C == {s \in Slots : slot[s].at = "put" /\ slot[s].item = w}
             D == workThread.at = "begin" /\ workThread.item = w
  <1>1. Queue!Links(w) = Queue!Cardinality(A) + Queue!Cardinality(B) + Queue!Cardinality(C) + IF D THEN 1 ELSE 0
    BY DEF Queue!Links
  <1>2. WorkLinked /\ WorkPlaced
    BY DEF WorkInv, WorkBooked
  <1>3. /\ \A x, y \in A : x = y
        /\ \A x, y \in B : x = y
        /\ \A x, y \in C : x = y
    BY <1>2 DEF WorkLinked
  <1>4. /\ A # {} => pending[w] /\ B = {} /\ C = {} /\ ~D
        /\ B # {} => pending[w] /\ C = {} /\ ~D
        /\ C # {} => pending[w] /\ ~D
        /\ D => pending[w]
    BY <1>2 DEF WorkLinked
  <1>5. pending[w] => A # {} \/ B # {} \/ C # {} \/ D
    BY <1>2 DEF WorkPlaced, Queued, PutByCall, PutByTimer, Taken
  <1> HIDE DEF A, B, C, D
  <1>6. /\ Queue!Cardinality(A) = IF A = {} THEN 0 ELSE 1
        /\ Queue!Cardinality(B) = IF B = {} THEN 0 ELSE 1
        /\ Queue!Cardinality(C) = IF C = {} THEN 0 ELSE 1
    BY <1>3, NoneOrOne
  <1>7. QED
    BY <1>1, <1>4, <1>5, <1>6

(* The queue holds each item once, so that it is never longer than the     *)
(* items are many.                                                         *)
LEMMA WorkTypeOK == ASSUME Queue!WorkAssumption, WorkInv, WorkBooked, overtaken \subseteq Items PROVE Queue!TypeOK
PROOF
  <1>1. fifo \in Seq(Items) /\ quiet \subseteq Items /\ Queue!IsFiniteSet(Items) /\ Len(fifo) \in Nat
    BY DEF WorkInv, WorkTyped, Queue!WorkAssumption
  <1>2. Len(fifo) <= Queue!Cardinality(Items)
    <2>1. fifo \in [1 .. Len(fifo) -> Items]
      BY <1>1
    <2>2. \A i, j \in 1 .. Len(fifo) : fifo[i] = fifo[j] => i = j
      BY DEF WorkInv, WorkLinked
    <2>3. fifo \in Injection(1 .. Len(fifo), Items)
      BY <2>1, <2>2 DEF Injection, IsInjective
    <2>4. Queue!Cardinality(1 .. Len(fifo)) <= Queue!Cardinality(Items)
      BY <1>1, <2>3, FS_Injection, QueueCount
    <2>5. Queue!Cardinality(1 .. Len(fifo)) = Len(fifo)
      <3>1. 1 \in Int /\ Len(fifo) \in Int
        BY <1>1
      <3>2. Queue!Cardinality(1 .. Len(fifo)) = IF 1 > Len(fifo) THEN 0 ELSE Len(fifo) - 1 + 1
        BY <3>1, FS_Interval, QueueCount
      <3>3. QED
        BY <1>1, <3>2
    <2>6. QED
      BY <2>4, <2>5
  <1>3. \A w \in Items : workGeneration[w] \in 0 .. MaxGen
    <2>1. SUFFICES ASSUME NEW w \in Items PROVE workGeneration[w] \in 0 .. MaxGen
      OBVIOUS
    <2>2. Queue!Once(w) \subseteq Clients /\ Queue!Twice(w) \subseteq Clients /\ Queue!IsFiniteSet(Clients)
      BY DEF Queue!Once, Queue!Twice, Queue!WorkAssumption
    <2>3. Queue!Cardinality(Queue!Once(w)) \in Nat /\ Queue!Cardinality(Queue!Twice(w)) \in Nat
      BY <2>2, FewerCalls
    <2>4. workGeneration[w] \in Nat /\ workGeneration[w] + Queue!Cardinality(Queue!Once(w)) + Queue!Cardinality(Queue!Twice(w)) <= MaxGen
      BY DEF WorkBooked, WorkRoom
    <2>5. QED
      BY <2>3, <2>4 DEF Queue!WorkAssumption
  <1>4. workGeneration \in [Items -> 0 .. MaxGen]
    BY <1>3 DEF WorkBooked, WorkRoom
  <1>5. QED
    BY <1>1, <1>2, <1>4 DEF Queue!TypeOK, WorkBooked, WorkFlags

(* A delay that overtakes a cancellation is an item's.                     *)
LEMMA OvertakenItems == overtaken \subseteq Items /\ [Queue!Next]_(Queue!vars) => overtaken' \subseteq Items
PROOF
  <1> SUFFICES ASSUME overtaken \subseteq Items, [Queue!Next]_(Queue!vars) PROVE overtaken' \subseteq Items
    OBVIOUS
  <1>1. CASE Queue!Worker
    BY <1>1 DEF Queue!Worker, Queue!Get, Queue!Begin, Queue!End
  <1>2. ASSUME NEW s \in Slots, Queue!Timer(s) PROVE overtaken' \subseteq Items
    BY <1>2 DEF Queue!Timer, Queue!Expire, Queue!CheckGeneration, Queue!TimerSubmit, Queue!TimerPut, Queue!Release
  <1>3. ASSUME NEW c \in Clients, NEW w \in Items, Queue!Submit(c, w) \/ Queue!Flush(c, w)
        PROVE  overtaken' \subseteq Items
    BY <1>3 DEF Queue!Submit, Queue!Flush
  <1>4. ASSUME NEW c \in Clients, NEW w \in Items, NEW delay \in BOOLEAN, NEW replace \in BOOLEAN,
               Queue!Schedule(c, w, delay, replace)
        PROVE  overtaken' \subseteq Items
    BY <1>4 DEF Queue!Schedule
  <1>5. ASSUME NEW c \in Clients, NEW w \in Items, NEW sync \in BOOLEAN,
               Queue!Cancel(c, w, sync) \/ Queue!CancelDelay(c, w, sync)
        PROVE  overtaken' \subseteq Items
    BY <1>5 DEF Queue!Cancel, Queue!CancelDelay
  <1>6. ASSUME NEW c \in Clients, Queue!Progress(c) PROVE overtaken' \subseteq Items
    BY <1>6 DEF Queue!Progress, Queue!SubmitLocked, Queue!SubmitStep, Queue!Put, Queue!Allocate, Queue!Create, Queue!Fail, Queue!MarkSlots, Queue!CancelWork, Queue!Drain, Queue!Wait
  <1>7. CASE UNCHANGED Queue!vars
    BY <1>7 DEF Queue!vars
  <1>8. QED
    BY <1>1, <1>2, <1>3, <1>4, <1>5, <1>6, <1>7 DEF Queue!Next, Queue!Begins

(* An item is in, on its way into, or just out of the queue exactly while  *)
(* it is pending, and never twice; the queue is never longer than the      *)
(* items are many, and no generation exceeds its bound (work.c).           *)
THEOREM WorkBooks == ASSUME Queue!WorkAssumption PROVE Queue!Spec => [](Queue!TypeOK /\ Queue!LinkedOnce)
PROOF
  <1> DEFINE I == WorkInv /\ WorkBooked /\ overtaken \subseteq Items
  <1>1. Queue!Init => I
    BY WorkStarts, WorkBookedStarts DEF Queue!Init
  <1>2. I /\ [Queue!Next]_(Queue!vars) => I'
    BY WorkStep, WorkBookedStep, OvertakenItems
  <1>3. I => Queue!TypeOK /\ Queue!LinkedOnce
    BY WorkTypeOK, WorkLinkedOnce
  <1>4. QED
    BY <1>1, <1>2, <1>3, PTL DEF Queue!Spec

-----------------------------------------------------------------------------
(* The receive side of the UART *)

Uart == INSTANCE BtUart WITH
    Ring <- UartRing, MaxOpens <- UartOpens, quiet <- uartQuiet, idle <- uartIdle, open <- uartOpen,
    rd <- uartReader, slot <- pollSlot, next <- uartNext, since <- uartSince, tc <- shiftEmpty,
    dma <- uartDma, wr <- uartWriters, Writer <- UartWriter

(* What a remainder is between.                                            *)
LEMMA ModRange == ASSUME NEW N \in Nat \ {0}, NEW a \in Int PROVE a % N \in 0 .. (N - 1)
  BY SMT

(* A quotient of integers is one.                                          *)
LEMMA DivInt == ASSUME NEW N \in Nat \ {0}, NEW a \in Int PROVE a \div N \in Int
  BY SMT

(* A number is its quotient times the divisor and the remainder.           *)
LEMMA ModDiv == ASSUME NEW N \in Nat \ {0}, NEW a \in Int PROVE a = N * (a \div N) + (a % N)
  BY SMT

(* ... and nothing else is.                                                *)
LEMMA ModUnique == ASSUME NEW N \in Nat \ {0}, NEW q \in Int, NEW r \in 0 .. (N - 1) PROVE (N * q + r) % N = r
  BY SMT

(* A multiple of the divisor does not change the remainder.                *)
LEMMA ModAddMul == ASSUME NEW N \in Nat \ {0}, NEW a \in Int, NEW q \in Int PROVE (a + N * q) % N = a % N
PROOF
  <1> DEFINE r == a % N
  <1> DEFINE d == a \div N
  <1>1. a = N * d + r /\ r \in 0 .. N - 1 /\ d \in Int
    BY ModDiv, ModRange, DivInt
  <1> HIDE DEF r, d
  <1>2. a + N * q = N * (d + q) + r
    BY <1>1
  <1>3. (a + N * q) % N = r
    BY <1>1, <1>2, ModUnique
  <1> QED BY <1>3 DEF r

(* The remainder of a sum does not depend on where one reduces it.         *)
LEMMA ModAdd == ASSUME NEW N \in Nat \ {0}, NEW a \in Int, NEW b \in Int PROVE ((a % N) + b) % N = (a + b) % N
PROOF
  <1> DEFINE r == a % N
  <1> DEFINE d == a \div N
  <1> DEFINE x == r + b
  <1>1. a = N * d + r /\ r \in 0 .. N - 1 /\ d \in Int
    BY ModDiv, ModRange, DivInt
  <1>0. x = r + b
    OBVIOUS
  <1> HIDE DEF r, d, x
  <1>2. a + b = x + N * d /\ x \in Int
    BY <1>1, <1>0
  <1>3. (x + N * d) % N = x % N
    BY <1>1, <1>2, ModAddMul
  <1>4. (a + b) % N = x % N
    BY <1>2, <1>3
  <1> QED BY <1>4 DEF r, x

(* Two numbers less than N apart: how far apart their remainders are.      *)
LEMMA ModApart == ASSUME NEW N \in Nat \ {0}, NEW a \in Int, NEW b \in Int, a <= b, b - a < N
                 PROVE IF b % N >= a % N THEN (b % N) - (a % N) = b - a ELSE N - ((a % N) - (b % N)) = b - a
PROOF
  <1> DEFINE r == a % N
  <1> DEFINE d == a \div N
  <1> DEFINE k == b - a
  <1>1. a = N * d + r /\ r \in 0 .. N - 1 /\ d \in Int
    BY ModDiv, ModRange, DivInt
  <1>0. k = b - a /\ k \in 0 .. N - 1
    OBVIOUS
  <1>9. r = a % N
    OBVIOUS
  <1> HIDE DEF r, d, k
  <1>2. CASE r + k < N
    <2> DEFINE s == r + k
    <2>4. s = r + k /\ s \in 0 .. N - 1
      BY <1>0, <1>1, <1>2
    <2> HIDE DEF s
    <2>1. b = N * d + s
      BY <1>0, <1>1, <2>4
    <2>2. (N * d + s) % N = s
      BY <1>1, <2>4, ModUnique
    <2>3. b % N = s
      BY <2>1, <2>2
    <2> QED BY <2>3, <2>4, <1>9, <1>0, <1>1
  <1>3. CASE r + k >= N
    <2> DEFINE s == r + k - N
    <2>4. s = r + k - N /\ s \in 0 .. N - 1
      BY <1>0, <1>1, <1>3
    <2> DEFINE e == d + 1
    <2>6. e = d + 1 /\ e \in Int
      BY <1>1
    <2> HIDE DEF s, e
    <2>1. b = N * e + s
      BY <1>0, <1>1, <2>4, <2>6
    <2>2. (N * e + s) % N = s
      BY <2>4, <2>6, ModUnique
    <2>3. b % N = s
      BY <2>1, <2>2
    <2>7. r \in 0 .. N - 1 /\ s < r /\ N - (r - s) = k
      BY <2>4, <1>0, <1>1
    <2> QED BY <2>3, <2>7, <1>9, <1>0
  <1> QED BY <1>2, <1>3, <1>0, <1>1

(* The remainder of a number to subtract does not matter.                  *)
LEMMA ModSub == ASSUME NEW N \in Nat \ {0}, NEW a \in Int, NEW b \in Int, b <= a, a - b < N
                 PROVE (a - (b % N)) % N = a - b
PROOF
  <1> DEFINE r == b % N
  <1> DEFINE d == b \div N
  <1> DEFINE k == a - b
  <1>1. b = N * d + r /\ r \in 0 .. N - 1 /\ d \in Int
    BY ModDiv, ModRange, DivInt
  <1>0. k = a - b /\ k \in 0 .. N - 1
    OBVIOUS
  <1> HIDE DEF r, d, k
  <1>2. a - r = N * d + k
    BY <1>0, <1>1
  <1>3. (N * d + k) % N = k
    BY <1>0, <1>1, ModUnique
  <1> QED BY <1>0, <1>2, <1>3 DEF r
(* The steps of the reader.                                                *)
RdSteps == {"idle", "slot", "peek", "poll", "load", "empty", "copy", "rearm", "wait"}

RdType == [pc : RdSteps, prod : 0 .. (UartRing - 1), n : 1 .. 2, block : BOOLEAN]

(* The types of the receive side: its numbers and its flags.               *)
RxNumbers ==
    /\ sent \in 0 .. MaxBytes /\ rx_consumer \in 0 .. (UartRing - 1) /\ rxsem \in 0 .. 1
    /\ uartReader \in RdType
RxFlags == {uartQuiet, uartIdle, uartOpen, rxwork_pending, pollSlot, revents, garbled} \subseteq BOOLEAN

(* How many bytes of the ring are copied at once.                          *)
Amount == IF Uart!Available(uartReader.prod) < uartReader.n THEN Uart!Available(uartReader.prod) ELSE uartReader.n

(* A step of the receive side other than Copy moves neither the consumer   *)
(* nor the history of what was copied.                                     *)
LEMMA OnlyCopyConsumes ==
  ASSUME [Uart!Next]_(Uart!vars), ~Uart!Copy PROVE UNCHANGED <<rx_consumer, uartNext, garbled>>
PROOF
  <1>1. ASSUME NEW w \in UartWriter, Uart!WriterStep(w) PROVE UNCHANGED Uart!rxv
    BY <1>1 DEF Uart!WriterStep, Uart!TxStart, Uart!TxDone, Uart!SetBaudLock, Uart!SetBaud
  <1>2. ASSUME NEW w \in UartWriter, NEW s, Uart!TxCall(w, s) PROVE UNCHANGED Uart!rxv
    BY <1>2 DEF Uart!TxCall
  <1>3. Uart!Shift \/ Uart!CtsChange => UNCHANGED Uart!rxv
    BY DEF Uart!Shift, Uart!CtsChange
  <1>4. QED
    BY <1>1, <1>2, <1>3
       DEF Uart!Next, Uart!vars, Uart!rxv, Uart!Reader, Uart!Arrive, Uart!FallQuiet, Uart!Isr, Uart!Open, Uart!Close, Uart!Call, Uart!PollSetup, Uart!PollPeek,
           Uart!PollDone, Uart!Load, Uart!Empty, Uart!SemWait, Uart!CopyDone

(* What may become of the reader.                                          *)
LEMMA ReaderTyped ==
  ASSUME UartRing \in Nat \ {0}
  PROVE  /\ \A r \in RdType, c \in RdSteps : [r EXCEPT !.pc = c] \in RdType
         /\ \A r \in RdType, c \in RdSteps, p \in 0 .. (UartRing - 1) : [r EXCEPT !.prod = p, !.pc = c] \in RdType
         /\ Uart!RdIdle \in RdType
         /\ \A n \in 1 .. 2 : /\ [Uart!RdIdle EXCEPT !.pc = "load", !.n = n] \in RdType
                             /\ [Uart!RdIdle EXCEPT !.pc = "slot", !.n = n, !.block = FALSE] \in RdType
PROOF
  <1>1. ASSUME NEW r \in RdType, NEW c \in RdSteps PROVE [r EXCEPT !.pc = c] \in RdType
    BY DEF RdType
  <1>2. ASSUME NEW r \in RdType, NEW c \in RdSteps, NEW p \in 0 .. (UartRing - 1)
        PROVE [r EXCEPT !.prod = p, !.pc = c] \in RdType
    BY DEF RdType
  <1>3. Uart!RdIdle \in RdType
    BY DEF RdType, Uart!RdIdle, RdSteps
  <1>4. ASSUME NEW n \in 1 .. 2
        PROVE  /\ [Uart!RdIdle EXCEPT !.pc = "load", !.n = n] \in RdType
               /\ [Uart!RdIdle EXCEPT !.pc = "slot", !.n = n, !.block = FALSE] \in RdType
    <2>1. "load" \in RdSteps /\ "slot" \in RdSteps
      BY DEF RdSteps
    <2>2. QED
      BY <1>3, <2>1 DEF RdType
  <1>5. QED
    BY <1>1, <1>2, <1>3, <1>4

(* The numbers of the receive side keep their types.                       *)
LEMMA NumbersKept == ASSUME Uart!BtUartAssumption, RxNumbers, [Uart!Next]_(Uart!vars) PROVE RxNumbers'
PROOF
  <1>0. UartRing \in Nat \ {0} /\ MaxBytes \in Nat
    BY DEF Uart!BtUartAssumption
  <1>1. rx_consumer' \in 0 .. (UartRing - 1)
    <2>1. CASE Uart!Copy
      <3>1. Uart!Available(uartReader.prod) \in Nat /\ Amount \in Nat
        BY <1>0 DEF RxNumbers, RdType, Uart!Available, Amount
      <3>2. rx_consumer' = (rx_consumer + Amount) % UartRing
        BY <2>1 DEF Uart!Copy, Amount
      <3>3. rx_consumer + Amount \in Int
        BY <3>1 DEF RxNumbers
      <3>4. QED
        BY <1>0, <3>2, <3>3, ModRange
    <2>2. QED
      BY <2>1, OnlyCopyConsumes DEF RxNumbers
  <1>2. sent' \in 0 .. MaxBytes
    <2>1. CASE Uart!Arrive
      BY <1>0, <2>1 DEF Uart!Arrive, RxNumbers
    <2>2. CASE UNCHANGED sent
      BY <2>2 DEF RxNumbers
    <2>3. QED
      BY <2>1, <2>2
         DEF Uart!Next, Uart!vars, Uart!rxv, Uart!Reader, Uart!FallQuiet, Uart!Isr, Uart!Open, Uart!Close, Uart!Call, Uart!PollSetup, Uart!PollPeek,
             Uart!PollDone, Uart!Load, Uart!Empty, Uart!SemWait, Uart!Copy, Uart!CopyDone, Uart!Keep, Uart!WriterStep, Uart!TxStart, Uart!TxDone,
             Uart!SetBaudLock, Uart!SetBaud, Uart!TxCall, Uart!Shift, Uart!CtsChange
  <1>3. rxsem' \in 0 .. 1
    <2>1. CASE Uart!Isr \/ Uart!SemWait
      BY <2>1 DEF Uart!Isr, Uart!SemWait, RxNumbers
    <2>2. CASE UNCHANGED rxsem
      BY <2>2 DEF RxNumbers
    <2>3. QED
      BY <2>1, <2>2
         DEF Uart!Next, Uart!vars, Uart!rxv, Uart!Reader, Uart!Arrive, Uart!FallQuiet, Uart!Open, Uart!Close, Uart!Call, Uart!PollSetup, Uart!PollPeek,
             Uart!PollDone, Uart!Load, Uart!Empty, Uart!Copy, Uart!CopyDone, Uart!WriterStep, Uart!TxStart, Uart!TxDone, Uart!SetBaudLock,
             Uart!SetBaud, Uart!TxCall, Uart!Shift, Uart!CtsChange
  <1>4. uartReader' \in RdType
    <2>0. uartReader \in RdType
      BY DEF RxNumbers
    <2>1. CASE Uart!Call
      <3>1. PICK n \in 1 .. 2 : \/ uartReader' = [Uart!RdIdle EXCEPT !.pc = "load", !.n = n]
                                \/ uartReader' = [Uart!RdIdle EXCEPT !.pc = "slot", !.n = n, !.block = FALSE]
        BY <2>1 DEF Uart!Call, Uart!Step
      <3>2. QED
        BY <1>0, <3>1, ReaderTyped
    <2>2. CASE Uart!Load
      <3>1. Uart!Producer \in 0 .. (UartRing - 1)
        BY <1>0, ModRange DEF Uart!Producer, RxNumbers
      <3>2. \/ uartReader' = [uartReader EXCEPT !.prod = Uart!Producer, !.pc = "empty"]
            \/ uartReader' = [uartReader EXCEPT !.prod = Uart!Producer, !.pc = "copy"]
        BY <2>2 DEF Uart!Load, Uart!Step
      <3>4. "empty" \in RdSteps /\ "copy" \in RdSteps
        BY DEF RdSteps
      <3>3. \A c \in RdSteps : [uartReader EXCEPT !.prod = Uart!Producer, !.pc = c] \in RdType
        BY <1>0, <2>0, <3>1, ReaderTyped
      <3>5. QED
        BY <3>2, <3>3, <3>4
    <2>3. CASE Uart!PollSetup \/ Uart!PollPeek \/ Uart!PollDone \/ Uart!Empty \/ Uart!SemWait \/ Uart!Copy \/ Uart!CopyDone
      <3>1. uartReader' = Uart!RdIdle \/ \E c \in RdSteps : uartReader' = [uartReader EXCEPT !.pc = c]
        BY <2>3 DEF Uart!PollSetup, Uart!PollPeek, Uart!PollDone, Uart!Empty, Uart!SemWait, Uart!Copy, Uart!CopyDone, Uart!Step, RdSteps
      <3>2. QED
        BY <1>0, <2>0, <3>1, ReaderTyped
    <2>4. CASE UNCHANGED uartReader
      BY <2>0, <2>4
    <2>5. QED
      BY <2>1, <2>2, <2>3, <2>4
         DEF Uart!Next, Uart!vars, Uart!rxv, Uart!Reader, Uart!Arrive, Uart!FallQuiet, Uart!Isr, Uart!Open, Uart!Close, Uart!WriterStep, Uart!TxStart,
             Uart!TxDone, Uart!SetBaudLock, Uart!SetBaud, Uart!TxCall, Uart!Shift, Uart!CtsChange
  <1>5. QED
    BY <1>1, <1>2, <1>3, <1>4 DEF RxNumbers

(* Its flags stay Boolean.                                                 *)
LEMMA FlagsKept == ASSUME RxFlags, [Uart!Next]_(Uart!vars) PROVE RxFlags'
PROOF
  <1>0. /\ uartQuiet \in BOOLEAN /\ uartIdle \in BOOLEAN /\ uartOpen \in BOOLEAN /\ rxwork_pending \in BOOLEAN
        /\ pollSlot \in BOOLEAN /\ revents \in BOOLEAN /\ garbled \in BOOLEAN
    BY DEF RxFlags
  <1>1. uartQuiet' \in BOOLEAN /\ uartIdle' \in BOOLEAN /\ uartOpen' \in BOOLEAN /\ pollSlot' \in BOOLEAN
    <2>1. uartQuiet' \in BOOLEAN
      BY <1>0
         DEF Uart!Next, Uart!vars, Uart!rxv, Uart!Reader, Uart!Arrive, Uart!FallQuiet, Uart!Isr, Uart!Open, Uart!Close, Uart!Call, Uart!PollSetup, Uart!PollPeek,
             Uart!PollDone, Uart!Load, Uart!Empty, Uart!SemWait, Uart!Copy, Uart!CopyDone, Uart!Keep, Uart!WriterStep, Uart!TxStart, Uart!TxDone,
             Uart!SetBaudLock, Uart!SetBaud, Uart!TxCall, Uart!Shift, Uart!CtsChange
    <2>2. uartIdle' \in BOOLEAN
      BY <1>0
         DEF Uart!Next, Uart!vars, Uart!rxv, Uart!Reader, Uart!Arrive, Uart!FallQuiet, Uart!Isr, Uart!Open, Uart!Close, Uart!Call, Uart!PollSetup, Uart!PollPeek,
             Uart!PollDone, Uart!Load, Uart!Empty, Uart!SemWait, Uart!Copy, Uart!CopyDone, Uart!Keep, Uart!WriterStep, Uart!TxStart, Uart!TxDone,
             Uart!SetBaudLock, Uart!SetBaud, Uart!TxCall, Uart!Shift, Uart!CtsChange
    <2>3. uartOpen' \in BOOLEAN
      BY <1>0
         DEF Uart!Next, Uart!vars, Uart!rxv, Uart!Reader, Uart!Arrive, Uart!FallQuiet, Uart!Isr, Uart!Open, Uart!Close, Uart!Call, Uart!PollSetup, Uart!PollPeek,
             Uart!PollDone, Uart!Load, Uart!Empty, Uart!SemWait, Uart!Copy, Uart!CopyDone, Uart!Keep, Uart!WriterStep, Uart!TxStart, Uart!TxDone,
             Uart!SetBaudLock, Uart!SetBaud, Uart!TxCall, Uart!Shift, Uart!CtsChange
    <2>4. pollSlot' \in BOOLEAN
      BY <1>0
         DEF Uart!Next, Uart!vars, Uart!rxv, Uart!Reader, Uart!Arrive, Uart!FallQuiet, Uart!Isr, Uart!Open, Uart!Close, Uart!Call, Uart!PollSetup, Uart!PollPeek,
             Uart!PollDone, Uart!Load, Uart!Empty, Uart!SemWait, Uart!Copy, Uart!CopyDone, Uart!Keep, Uart!WriterStep, Uart!TxStart, Uart!TxDone,
             Uart!SetBaudLock, Uart!SetBaud, Uart!TxCall, Uart!Shift, Uart!CtsChange
    <2>5. QED
      BY <2>1, <2>2, <2>3, <2>4
  <1>2. rxwork_pending' \in BOOLEAN /\ revents' \in BOOLEAN
    BY <1>0
       DEF Uart!Next, Uart!vars, Uart!rxv, Uart!Reader, Uart!Arrive, Uart!FallQuiet, Uart!Isr, Uart!Open, Uart!Close, Uart!Call, Uart!PollSetup, Uart!PollPeek,
           Uart!PollDone, Uart!Load, Uart!Empty, Uart!SemWait, Uart!Copy, Uart!CopyDone, Uart!Rearm, Uart!WriterStep, Uart!TxStart, Uart!TxDone,
           Uart!SetBaudLock, Uart!SetBaud, Uart!TxCall, Uart!Shift, Uart!CtsChange
  <1>3. garbled' \in BOOLEAN
    <2>1. CASE Uart!Copy
      BY <1>0, <2>1 DEF Uart!Copy
    <2>2. QED
      BY <1>0, <2>1, OnlyCopyConsumes
  <1>4. QED
    BY <1>1, <1>2, <1>3 DEF RxFlags

(* The ring and the bytes.  The consumer stands at the next byte that is   *)
(* due, and the producer a copy goes by at one that had come.              *)
RxInv ==
    /\ uartNext \in Nat /\ uartNext <= sent /\ sent - uartNext <= MaxAhead
    /\ rx_consumer = uartNext % UartRing
    /\ ~garbled
    /\ uartReader.pc = "copy" => \E p \in (uartNext + 1) .. sent : uartReader.prod = p % UartRing

(* The latch, the semaphore and poll's report.  The latch is set over a    *)
(* filled ring only, and whoever waits while it is set has been woken;     *)
(* bytes that are not announced will be by the interrupt.                  *)
RxWoken ==
    /\ uartReader.pc # "idle" => uartOpen
    /\ uartReader.pc \in {"peek", "poll"} => pollSlot
    /\ rxwork_pending /\ uartReader.pc # "rearm" => sent # uartNext
    /\ rxwork_pending /\ uartReader.pc \in {"empty", "wait"} => rxsem > 0
    /\ rxwork_pending /\ uartReader.pc = "poll" => revents
    /\ uartReader.pc = "empty" /\ sent # uartNext => rxwork_pending \/ uartIdle \/ ~uartQuiet
    /\ uartReader.pc = "wait" /\ sent # uartNext => rxsem > 0 \/ uartIdle \/ ~uartQuiet
    /\ uartReader.pc = "poll" /\ sent # uartNext => revents \/ uartIdle \/ ~uartQuiet

(* How many bytes lie between the consumer and a producer, while the       *)
(* controller is less than a ring ahead.                                   *)
LEMMA Distance ==
  ASSUME Uart!BtUartAssumption, MaxAhead < UartRing, RxNumbers, RxInv, NEW p \in uartNext .. sent
  PROVE  Uart!Available(p % UartRing) = p - uartNext
PROOF
  <1>1. UartRing \in Nat \ {0} /\ MaxAhead \in Nat /\ uartNext \in Int /\ sent \in Int /\ p \in Int
    BY DEF Uart!BtUartAssumption, RxNumbers, RxInv
  <1>2. uartNext <= p /\ p - uartNext < UartRing
    BY <1>1 DEF RxInv
  <1>3. IF p % UartRing >= uartNext % UartRing THEN (p % UartRing) - (uartNext % UartRing) = p - uartNext
        ELSE UartRing - ((uartNext % UartRing) - (p % UartRing)) = p - uartNext
    BY <1>1, <1>2, ModApart
  <1>4. QED
    BY <1>3 DEF Uart!Available, RxInv

(* The ring is empty exactly when every byte has been read.                *)
LEMMA EmptyRing ==
  ASSUME Uart!BtUartAssumption, MaxAhead < UartRing, RxNumbers, RxInv
  PROVE  /\ Uart!Available(Uart!Producer) = sent - uartNext
         /\ Uart!Producer = rx_consumer <=> sent = uartNext
PROOF
  <1>1. sent \in uartNext .. sent /\ UartRing \in Nat \ {0} /\ uartNext \in Int /\ sent \in Int
    BY DEF Uart!BtUartAssumption, RxNumbers, RxInv
  <1>2. Uart!Available(Uart!Producer) = sent - uartNext
    BY <1>1, Distance DEF Uart!Producer
  <1>3. Uart!Producer \in 0 .. (UartRing - 1) /\ rx_consumer \in 0 .. (UartRing - 1)
    BY <1>1, ModRange DEF Uart!Producer, RxNumbers
  <1>4. Uart!Available(Uart!Producer) = 0 <=> Uart!Producer = rx_consumer
    BY <1>1, <1>3 DEF Uart!Available
  <1>5. QED
    BY <1>1, <1>2, <1>4

(* A copy takes the bytes that are due, in their order.                    *)
LEMMA CopyTakesNext ==
  ASSUME Uart!BtUartAssumption, MaxAhead < UartRing, RxNumbers, RxInv, NEW n \in Nat, uartNext + n <= sent
  PROVE  Uart!Copied(n) = uartNext .. (uartNext + n - 1) /\ (rx_consumer + n) % UartRing = (uartNext + n) % UartRing
PROOF
  <1>1. UartRing \in Nat \ {0} /\ MaxAhead \in Nat /\ uartNext \in Nat /\ uartNext \in Int /\ sent \in Nat
    BY DEF Uart!BtUartAssumption, RxNumbers, RxInv
  <1>2. ASSUME NEW i \in Int PROVE (rx_consumer + i) % UartRing = (uartNext + i) % UartRing
    <2>1. ((uartNext % UartRing) + i) % UartRing = (uartNext + i) % UartRing
      BY <1>1, ModAdd
    <2>2. QED
      BY <2>1 DEF RxInv
  <1>3. ASSUME NEW i \in 0 .. (n - 1) PROVE Uart!Newest((rx_consumer + i) % UartRing) = uartNext + i
    <2> DEFINE a == sent - 1
    <2> DEFINE b == uartNext + i
    <2>1. a \in Int /\ b \in Int /\ b <= a /\ a - b < UartRing /\ i \in Int
      BY <1>1 DEF RxInv
    <2>2. (a - (b % UartRing)) % UartRing = a - b
      BY <1>1, <2>1, ModSub
    <2>3. Uart!Newest(b % UartRing) = b
      BY <1>1, <2>1, <2>2 DEF Uart!Newest
    <2>4. QED
      BY <1>2, <2>1, <2>3
  <1>4. Uart!Copied(n) = {uartNext + i : i \in 0 .. (n - 1)}
    BY <1>3 DEF Uart!Copied
  <1>5. {uartNext + i : i \in 0 .. (n - 1)} = uartNext .. (uartNext + n - 1)
    <2>1. ASSUME NEW x \in uartNext .. (uartNext + n - 1) PROVE \E i \in 0 .. (n - 1) : x = uartNext + i
      <3>1. x - uartNext \in 0 .. (n - 1) /\ x = uartNext + (x - uartNext)
        BY <1>1
      <3>2. QED
        BY <3>1
    <2>2. ASSUME NEW i \in 0 .. (n - 1) PROVE uartNext + i \in uartNext .. (uartNext + n - 1)
      BY <1>1
    <2>3. QED
      BY <2>1, <2>2
  <1>6. (rx_consumer + n) % UartRing = (uartNext + n) % UartRing
    <2>1. n \in Int
      OBVIOUS
    <2>2. QED
      BY <2>1, <1>2
  <1>7. QED
    BY <1>4, <1>5, <1>6

(* Every step keeps the bytes in their order.                              *)
LEMMA OrderKept ==
  ASSUME Uart!BtUartAssumption, MaxAhead < UartRing, RxNumbers, RxInv, [Uart!Next]_(Uart!vars)
  PROVE  RxInv'
PROOF
  <1>0. UartRing \in Nat \ {0} /\ MaxAhead \in Nat /\ uartNext \in Nat /\ sent \in Nat
    BY DEF Uart!BtUartAssumption, RxNumbers, RxInv
  <1>1. CASE Uart!Copy
    <2>1. PICK p \in (uartNext + 1) .. sent : uartReader.prod = p % UartRing
      BY <1>1 DEF Uart!Copy, RxInv
    <2>2. Uart!Available(uartReader.prod) = p - uartNext
      BY <1>0, <2>1, Distance
    <2>3. uartReader.n \in 1 .. 2
      BY DEF RxNumbers, RdType
    <2>4. Amount \in Nat /\ uartNext + Amount <= sent
      BY <1>0, <2>1, <2>2, <2>3 DEF Amount
    <2>5. Uart!Copied(Amount) = uartNext .. (uartNext + Amount - 1) /\ (rx_consumer + Amount) % UartRing = (uartNext + Amount) % UartRing
      BY <2>4, CopyTakesNext
    <2>6. /\ rx_consumer' = (rx_consumer + Amount) % UartRing /\ uartNext' = uartNext + Amount
          /\ garbled' = (garbled \/ Uart!Copied(Amount) # uartNext .. (uartNext + Amount - 1))
          /\ sent' = sent /\ uartReader' = [uartReader EXCEPT !.pc = "rearm"]
      BY <1>1 DEF Uart!Copy, Amount, Uart!Step, Uart!Keep
    <2>7. uartReader'.pc = "rearm"
      BY <2>6 DEF RxNumbers, RdType
    <2>8. ~garbled' /\ rx_consumer' = uartNext' % UartRing
      BY <2>5, <2>6 DEF RxInv
    <2>9. uartNext' \in Nat /\ uartNext' <= sent' /\ sent' - uartNext' <= MaxAhead
      BY <1>0, <2>4, <2>6 DEF RxInv
    <2>10. QED
      BY <2>7, <2>8, <2>9 DEF RxInv
  <1>2. CASE Uart!Arrive
    <2>1. /\ sent - uartNext < MaxAhead /\ sent' = sent + 1
          /\ UNCHANGED <<rx_consumer, uartNext, garbled, uartReader>>
      BY <1>2 DEF Uart!Arrive
    <2>2. \A p \in (uartNext + 1) .. sent : p \in (uartNext' + 1) .. sent'
      BY <1>0, <2>1
    <2>3. uartReader'.pc = "copy" => \E p \in (uartNext' + 1) .. sent' : uartReader'.prod = p % UartRing
      BY <2>1, <2>2 DEF RxInv
    <2>4. uartNext' \in Nat /\ uartNext' <= sent' /\ sent' - uartNext' <= MaxAhead
      BY <1>0, <2>1 DEF RxInv
    <2>5. QED
      BY <2>1, <2>3, <2>4 DEF RxInv
  <1>3. CASE Uart!Load
    <2>1. UNCHANGED <<sent, rx_consumer, uartNext, garbled>>
      BY <1>3 DEF Uart!Load, Uart!Keep
    <2>2. /\ uartReader'.prod = Uart!Producer
          /\ uartReader'.pc = "copy" => Uart!Available(Uart!Producer) # 0
      BY <1>3 DEF Uart!Load, Uart!Step, RxNumbers, RdType
    <2>3. uartReader'.pc = "copy" => sent \in (uartNext + 1) .. sent
      BY <1>0, <2>2, EmptyRing DEF RxInv
    <2>4. QED
      BY <2>1, <2>2, <2>3 DEF RxInv, Uart!Producer
  <1>4. CASE /\ UNCHANGED <<sent, rx_consumer, uartNext, garbled>>
             /\ uartReader'.pc = "copy" => UNCHANGED uartReader
    BY <1>4 DEF RxInv
  <1>5. Uart!Call \/ Uart!PollSetup \/ Uart!PollPeek \/ Uart!PollDone \/ Uart!Empty \/ Uart!SemWait \/ Uart!CopyDone => uartReader'.pc # "copy" /\ UNCHANGED sent
    <2>0. uartReader \in RdType
      BY DEF RxNumbers
    <2>1. Uart!Call => uartReader'.pc # "copy"
      BY DEF Uart!Call, Uart!Step, Uart!RdIdle
    <2>2. Uart!PollSetup \/ Uart!PollPeek \/ Uart!PollDone \/ Uart!SemWait => uartReader'.pc # "copy"
      BY <2>0 DEF Uart!PollSetup, Uart!PollPeek, Uart!PollDone, Uart!SemWait, Uart!Step, RdType
    <2>3. Uart!Empty => uartReader' = [uartReader EXCEPT !.pc = "wait"] \/ uartReader' = Uart!RdIdle
      BY DEF Uart!Empty, Uart!Step
    <2>4. Uart!Empty \/ Uart!CopyDone => uartReader'.pc # "copy"
      BY <2>0, <2>3 DEF Uart!CopyDone, Uart!Step, Uart!RdIdle, RdType
    <2>5. QED
      BY <2>1, <2>2, <2>4 DEF Uart!Call, Uart!PollSetup, Uart!PollPeek, Uart!PollDone, Uart!Empty, Uart!SemWait, Uart!CopyDone, Uart!Keep
  <1>6. ~(Uart!Copy \/ Uart!Arrive \/ Uart!Load) => /\ UNCHANGED <<sent, rx_consumer, uartNext, garbled>>
                                                    /\ uartReader'.pc = "copy" => UNCHANGED uartReader
    BY <1>5, OnlyCopyConsumes
       DEF Uart!Next, Uart!vars, Uart!rxv, Uart!Reader, Uart!FallQuiet, Uart!Isr, Uart!Open, Uart!Close, Uart!WriterStep, Uart!TxStart, Uart!TxDone,
           Uart!SetBaudLock, Uart!SetBaud, Uart!TxCall, Uart!Shift, Uart!CtsChange
  <1>7. QED
    BY <1>1, <1>2, <1>3, <1>4, <1>6

(* Every step keeps the reader woken.                                      *)
LEMMA WokenKept ==
  ASSUME Uart!BtUartAssumption, MaxAhead < UartRing, RxNumbers, RxFlags, RxInv, RxWoken, [Uart!Next]_(Uart!vars)
  PROVE  RxWoken'
PROOF
  <1>0. /\ sent \in Nat /\ uartNext \in Nat /\ uartNext <= sent /\ uartReader \in RdType /\ rxsem \in 0 .. 1
        /\ Uart!Producer = rx_consumer <=> sent = uartNext
        /\ Uart!Available(Uart!Producer) = sent - uartNext
    BY EmptyRing DEF RxNumbers, RxInv
  <1>1. CASE Uart!Arrive
    BY <1>0, <1>1 DEF Uart!Arrive, RxWoken
  <1>2. CASE Uart!FallQuiet
    BY <1>2 DEF Uart!FallQuiet, RxWoken
  <1>3. CASE Uart!Isr
    <2>1. CASE rxwork_pending \/ sent = uartNext
      BY <1>0, <1>3, <2>1 DEF Uart!Isr, RxWoken
    <2>2. CASE ~rxwork_pending /\ sent # uartNext
      <3>1. /\ rxwork_pending' /\ rxsem' = 1 /\ uartOpen
            /\ UNCHANGED <<sent, uartQuiet, uartOpen, rx_consumer, uartReader, pollSlot, uartNext>>
        BY <1>0, <1>3, <2>2 DEF Uart!Isr
      <3>2. pollSlot => revents'
        BY <1>0, <1>3, <2>2 DEF Uart!Isr
      <3>3. QED
        BY <2>2, <3>1, <3>2 DEF RxWoken
    <2>3. QED
      BY <2>1, <2>2
  <1>4. CASE Uart!Open
    BY <1>4 DEF Uart!Open, RxWoken
  <1>5. CASE Uart!Close
    BY <1>5 DEF Uart!Close, RxWoken, Uart!RdIdle
  <1>6. CASE Uart!Call
    <2>1. uartReader'.pc \in {"load", "slot"} /\ uartOpen /\ uartReader.pc = "idle"
      BY <1>6 DEF Uart!Call, Uart!Step, Uart!RdIdle
    <2>2. UNCHANGED <<rxwork_pending, sent, uartNext, uartOpen>>
      BY <1>6 DEF Uart!Call, Uart!Keep
    <2>3. QED
      BY <2>1, <2>2 DEF RxWoken
  <1>7. CASE Uart!PollSetup
    <2>1. uartReader'.pc = "peek" /\ uartReader.pc = "slot" /\ pollSlot'
      BY <1>0, <1>7 DEF Uart!PollSetup, Uart!Step, RdType
    <2>2. UNCHANGED <<rxwork_pending, sent, uartNext, uartOpen>>
      BY <1>7 DEF Uart!PollSetup, Uart!Keep
    <2>3. QED
      BY <2>1, <2>2 DEF RxWoken
  <1>8. CASE Uart!PollPeek
    <2>1. uartReader'.pc = "poll" /\ uartReader.pc = "peek"
      BY <1>0, <1>8 DEF Uart!PollPeek, Uart!Step, RdType
    <2>2. UNCHANGED <<rxwork_pending, sent, uartNext, uartOpen, pollSlot>>
      BY <1>8 DEF Uart!PollPeek, Uart!Keep
    <2>3. sent # uartNext => revents'
      <3>1. sent # uartNext => Uart!Available(Uart!Producer) > 0
        BY <1>0
      <3>2. QED
        BY <1>8, <3>1 DEF Uart!PollPeek
    <2>4. QED
      BY <2>1, <2>2, <2>3 DEF RxWoken
  <1>9. CASE Uart!PollDone \/ Uart!SemWait
    <2>1. uartReader'.pc = "load" /\ uartReader.pc \in {"poll", "wait"}
      BY <1>0, <1>9 DEF Uart!PollDone, Uart!SemWait, Uart!Step, RdType
    <2>2. UNCHANGED <<rxwork_pending, sent, uartNext, uartOpen>>
      BY <1>9 DEF Uart!PollDone, Uart!SemWait, Uart!Keep
    <2>3. QED
      BY <2>1, <2>2 DEF RxWoken
  <1>10. CASE Uart!Load
    <2>1. /\ uartReader'.pc \in {"empty", "copy"} /\ uartReader.pc = "load"
          /\ uartReader'.pc = "empty" => sent = uartNext
      BY <1>0, <1>10 DEF Uart!Load, Uart!Step, RdType
    <2>2. UNCHANGED <<rxwork_pending, rxsem, sent, uartNext, uartOpen>>
      BY <1>10 DEF Uart!Load, Uart!Keep
    <2>3. QED
      BY <2>1, <2>2 DEF RxWoken
  <1>11. CASE Uart!Empty
    <2>1. uartReader'.pc \in {"wait", "idle"} /\ uartReader.pc = "empty"
      BY <1>0, <1>11 DEF Uart!Empty, Uart!Step, Uart!RdIdle, RdType
    <2>2. UNCHANGED <<uartQuiet, uartIdle, rxsem, sent, uartNext, uartOpen>>
      BY <1>11 DEF Uart!Empty, Uart!Keep
    <2>3. rxwork_pending' = (rxwork_pending /\ sent # uartNext)
      BY <1>0, <1>11 DEF Uart!Empty, Uart!Rearm
    <2>4. QED
      BY <2>1, <2>2, <2>3 DEF RxWoken
  <1>12. CASE Uart!Copy
    <2>1. uartReader'.pc = "rearm" /\ uartReader.pc = "copy" /\ UNCHANGED uartOpen
      BY <1>0, <1>12 DEF Uart!Copy, Uart!Step, Uart!Keep, RdType
    <2>2. QED
      BY <2>1 DEF RxWoken
  <1>13. CASE Uart!CopyDone
    <2>1. uartReader'.pc = "idle" /\ UNCHANGED <<sent, uartNext>>
      BY <1>13 DEF Uart!CopyDone, Uart!Step, Uart!Keep, Uart!RdIdle
    <2>2. rxwork_pending' = (rxwork_pending /\ sent # uartNext)
      BY <1>0, <1>13 DEF Uart!CopyDone, Uart!Rearm
    <2>3. QED
      BY <2>1, <2>2 DEF RxWoken
  <1>14. CASE UNCHANGED Uart!rxv
    BY <1>14 DEF Uart!rxv, RxWoken
  <1>15. QED
    BY <1>1, <1>2, <1>3, <1>4, <1>5, <1>6, <1>7, <1>8, <1>9, <1>10, <1>11, <1>12, <1>13, <1>14
       DEF Uart!Next, Uart!vars, Uart!rxv, Uart!Reader, Uart!WriterStep, Uart!TxStart, Uart!TxDone, Uart!SetBaudLock, Uart!SetBaud, Uart!TxCall, Uart!Shift,
           Uart!CtsChange

(* Every byte of the controller is read once and in its order, a reader    *)
(* that sleeps over bytes has been or will be woken, and the latch is not  *)
(* left set over an empty ring: for every ring, and any number of bytes    *)
(* and sessions, while the controller stays less than a ring ahead.        *)
THEOREM BytesReachTheReader ==
  ASSUME Uart!BtUartAssumption, MaxAhead < UartRing
  PROVE  Uart!Spec => [](Uart!RxTypeOK /\ Uart!RxInOrder /\ Uart!WokenOrWillBe /\ Uart!LatchMeansBytes)
PROOF
  <1> DEFINE I == RxNumbers /\ RxFlags /\ RxInv /\ RxWoken
  <1>1. Uart!Init => I
    <2> SUFFICES ASSUME Uart!Init PROVE I
      OBVIOUS
    <2>1. UartRing \in Nat \ {0} /\ MaxBytes \in Nat /\ MaxAhead \in Nat /\ 0 \in 0 .. (UartRing - 1)
      BY DEF Uart!BtUartAssumption
    <2>2. 0 % UartRing = 0
      BY <2>1
    <2>3. Uart!RdIdle \in RdType
      BY <2>1, ReaderTyped
    <2>4. RxNumbers
      BY <2>1, <2>3 DEF Uart!Init, RxNumbers
    <2>5. RxFlags
      BY DEF Uart!Init, RxFlags
    <2>6. RxInv
      BY <2>1, <2>2 DEF Uart!Init, RxInv, Uart!RdIdle
    <2>7. RxWoken
      BY DEF Uart!Init, RxWoken, Uart!RdIdle
    <2>8. QED
      BY <2>4, <2>5, <2>6, <2>7
  <1>2. I /\ [Uart!Next]_(Uart!vars) => I'
    BY NumbersKept, FlagsKept, OrderKept, WokenKept
  <1>3. I => Uart!RxTypeOK /\ Uart!RxInOrder /\ Uart!WokenOrWillBe /\ Uart!LatchMeansBytes
    <2> SUFFICES ASSUME I PROVE Uart!RxTypeOK /\ Uart!RxInOrder /\ Uart!WokenOrWillBe /\ Uart!LatchMeansBytes
      OBVIOUS
    <2>1. Uart!Producer = rx_consumer <=> sent = uartNext
      BY EmptyRing
    <2>2. Uart!RxTypeOK
      <3>1. uartReader.pc \in RdSteps
        BY DEF RxNumbers, RdType
      <3>2. QED
        BY <3>1 DEF RxNumbers, RxFlags, RdSteps, Uart!RxTypeOK
    <2>3. QED
      BY <2>1, <2>2 DEF RxInv, RxWoken, Uart!RxInOrder, Uart!WokenOrWillBe, Uart!LatchMeansBytes
  <1> HIDE DEF I
  <1>4. QED
    BY <1>1, <1>2, <1>3, PTL DEF Uart!Spec

-----------------------------------------------------------------------------
(* The transmit side of the UART *)

UartTx == INSTANCE BtUart WITH
    Ring <- TxRing, MaxOpens <- TxOpens, quiet <- uartQuiet, idle <- uartIdle, open <- uartOpen,
    rd <- uartReader, slot <- pollSlot, next <- uartNext, since <- uartSince, tc <- shiftEmpty,
    dma <- uartDma, wr <- uartWriters,
    MaxBytes <- TxBytes, MaxAhead <- TxAhead, Writer <- UartTxWriter

(* The steps of a thread that writes or sets the rate.                     *)
TxSteps == {"idle", "write", "setbaud", "wait", "spin"}

(* The inductive invariant of the transmit side.  Whoever waits for the    *)
(* DMA or the shift register holds txlock, nobody else does, and while the *)
(* DMA has bytes it is a writer that waits for them.                       *)
TxInv ==
    /\ {shiftEmpty, cts} \subseteq BOOLEAN /\ uartDma \in 0 .. 2 /\ baud \in 0 .. 1
    /\ txlock \in UartTxWriter \cup {UartTx!NoWriter}
    /\ uartWriters \in [UartTxWriter -> TxSteps]
    /\ \A w \in UartTxWriter : uartWriters[w] \in {"wait", "spin"} <=> txlock = w
    /\ uartDma > 0 => \E w \in UartTxWriter : uartWriters[w] = "wait"

(* The initial state satisfies the invariant.                              *)
LEMMA TxInit == ASSUME UartTx!BtUartAssumption, UartTx!Init PROVE TxInv
  BY DEF UartTx!BtUartAssumption, UartTx!Init, TxInv, TxSteps, UartTx!NoWriter

(* Every step keeps the invariant, and changes the rate only between two   *)
(* bytes.                                                                  *)
LEMMA TxNext == ASSUME UartTx!BtUartAssumption, TxInv, [UartTx!Next]_(UartTx!vars) PROVE TxInv' /\ (baud' # baud => shiftEmpty /\ uartDma = 0)
PROOF
  <1>1. CASE UNCHANGED UartTx!txv
    BY <1>1 DEF UartTx!txv, TxInv
  <1>2. ASSUME NEW w \in UartTxWriter, NEW s \in {"write", "setbaud"}, UartTx!TxCall(w, s)
        PROVE TxInv' /\ baud' = baud
    <2>1. uartWriters' = [uartWriters EXCEPT ![w] = s] /\ uartWriters[w] = "idle" /\ UNCHANGED <<txlock, uartDma, shiftEmpty, cts, baud>>
      BY <1>2 DEF UartTx!TxCall, UartTx!Wr
    <2>2. QED
      BY <2>1 DEF TxInv, TxSteps
  <1>3. ASSUME NEW w \in UartTxWriter, UartTx!TxStart(w) PROVE TxInv' /\ baud' = baud
    <2>1. /\ uartWriters[w] = "write" /\ txlock = UartTx!NoWriter /\ txlock' = w /\ uartDma' = 2
          /\ uartWriters' = [uartWriters EXCEPT ![w] = "wait"] /\ UNCHANGED <<shiftEmpty, cts, baud>>
      BY <1>3 DEF UartTx!TxStart, UartTx!Wr
    <2>2. QED
      BY <2>1 DEF TxInv, TxSteps, UartTx!BtUartAssumption, UartTx!NoWriter
  <1>4. ASSUME NEW w \in UartTxWriter, UartTx!TxDone(w) PROVE TxInv' /\ baud' = baud
    <2>1. /\ uartWriters[w] = "wait" /\ uartDma = 0 /\ txlock' = UartTx!NoWriter
          /\ uartWriters' = [uartWriters EXCEPT ![w] = "idle"] /\ UNCHANGED <<uartDma, shiftEmpty, cts, baud>>
      BY <1>4 DEF UartTx!TxDone, UartTx!Wr
    <2>2. QED
      BY <2>1 DEF TxInv, TxSteps, UartTx!BtUartAssumption, UartTx!NoWriter
  <1>5. ASSUME NEW w \in UartTxWriter, UartTx!SetBaudLock(w) PROVE TxInv' /\ baud' = baud
    <2>1. /\ uartWriters[w] = "setbaud" /\ txlock = UartTx!NoWriter /\ txlock' = w
          /\ uartWriters' = [uartWriters EXCEPT ![w] = "spin"] /\ UNCHANGED <<uartDma, shiftEmpty, cts, baud>>
      BY <1>5 DEF UartTx!SetBaudLock, UartTx!Wr
    <2>2. QED
      BY <2>1 DEF TxInv, TxSteps, UartTx!BtUartAssumption, UartTx!NoWriter
  <1>6. ASSUME NEW w \in UartTxWriter, UartTx!SetBaud(w) PROVE TxInv' /\ shiftEmpty /\ uartDma = 0
    <2>1. /\ uartWriters[w] = "spin" /\ shiftEmpty /\ baud' = 1 - baud /\ txlock' = UartTx!NoWriter
          /\ uartWriters' = [uartWriters EXCEPT ![w] = "idle"] /\ UNCHANGED <<uartDma, shiftEmpty, cts>>
      BY <1>6 DEF UartTx!SetBaud, UartTx!Wr
    <2>2. uartDma = 0
      BY <2>1 DEF TxInv
    <2>3. QED
      BY <2>1, <2>2 DEF TxInv, TxSteps, UartTx!BtUartAssumption, UartTx!NoWriter
  <1>7. ASSUME UartTx!Shift PROVE TxInv' /\ baud' = baud
    BY <1>7 DEF UartTx!Shift, TxInv
  <1>8. ASSUME UartTx!CtsChange PROVE TxInv' /\ baud' = baud
    BY <1>8 DEF UartTx!CtsChange, TxInv
  <1>9. ASSUME UNCHANGED UartTx!txv PROVE baud' = baud
    BY <1>9 DEF UartTx!txv
  <1>10. QED
    BY <1>1, <1>2, <1>3, <1>4, <1>5, <1>6, <1>7, <1>8, <1>9
       DEF UartTx!Next, UartTx!vars, UartTx!txv, UartTx!Reader, UartTx!WriterStep, UartTx!Arrive, UartTx!FallQuiet, UartTx!Isr, UartTx!Open, UartTx!Close, UartTx!Call, UartTx!PollSetup,
           UartTx!PollPeek, UartTx!PollDone, UartTx!Load, UartTx!Empty, UartTx!SemWait, UartTx!Copy, UartTx!CopyDone, UartTx!Keep

(* The rate of the line to the controller never changes under a byte that  *)
(* is being shifted out, for any number of threads that write or set it.   *)
THEOREM BaudIsQuiet == ASSUME UartTx!BtUartAssumption PROVE UartTx!Spec => [][UartTx!BaudQuiet]_(UartTx!vars)
PROOF
  <1>1. UartTx!Init => TxInv
    BY TxInit
  <1>2. TxInv /\ [UartTx!Next]_(UartTx!vars) => TxInv' /\ [UartTx!BaudQuiet]_(UartTx!vars)
    BY TxNext DEF UartTx!BaudQuiet
  <1>3. QED
    BY <1>1, <1>2, PTL DEF UartTx!Spec

(* txlock is held by the thread that waits for the DMA or the shift        *)
(* register, and by no other.                                              *)
THEOREM OneTransmits == ASSUME UartTx!BtUartAssumption PROVE UartTx!Spec => []UartTx!TxTypeOK
PROOF
  <1>1. UartTx!Init => TxInv
    BY TxInit
  <1>2. TxInv /\ [UartTx!Next]_(UartTx!vars) => TxInv'
    BY TxNext
  <1>3. TxInv => UartTx!TxTypeOK
    <2> SUFFICES ASSUME TxInv PROVE UartTx!TxTypeOK
      OBVIOUS
    <2>1. ASSUME NEW w \in UartTxWriter PROVE uartWriters[w] \in {"idle", "write", "setbaud"} <=> txlock # w
      BY DEF TxInv, TxSteps
    <2>2. QED
      BY <2>1 DEF TxInv, UartTx!TxTypeOK
  <1>4. QED
    BY <1>1, <1>2, <1>3, PTL DEF UartTx!Spec

-----------------------------------------------------------------------------
(* The settings store *)

Settings == INSTANCE SettingsStore WITH
    file <- keyFile, tmp <- keyTemp, save <- keySave, load <- keyLoad, ops <- keyOps

(* What is on the medium.  A file is the whole value of the last save that *)
(* succeeded, and nothing is synchronised that was not written.            *)
StoreInv ==
    /\ keyFile \in [Key -> Settings!Content] /\ keyTemp \in [Key -> Settings!Content]
    /\ acked \in [Key -> Value \cup {None}]
    /\ \A k \in Key : /\ keyFile[k].v = acked[k] /\ (acked[k] # None => keyFile[k].n = Pieces /\ keyFile[k].sync = Pieces)
                      /\ keyFile[k].sync <= keyFile[k].n /\ keyTemp[k].sync <= keyTemp[k].n

(* The save in progress.  The temporary file holds what it has written,    *)
(* and only a file that is complete and synchronised is renamed.           *)
SaveInv ==
    /\ keySave = [pc |-> keySave.pc, k |-> keySave.k, v |-> keySave.v, ok |-> keySave.ok]
    /\ keySave.pc \in {"idle", "write", "sync", "close", "rename", "unlink"}
    /\ keySave.pc # "idle" => keySave.k \in Key /\ keyLoad.pc \in {"commit", "up"}
    /\ keySave.pc \in {"write", "sync", "close", "rename"} => keySave.v \in Value /\ keyTemp[keySave.k].v = keySave.v
    /\ keySave.pc = "sync" => keyTemp[keySave.k].n = Pieces
    /\ keySave.pc = "rename" => keyTemp[keySave.k].n = Pieces /\ keyTemp[keySave.k].sync = Pieces
    /\ keySave.pc = "close" /\ keySave.ok => keyTemp[keySave.k].n = Pieces /\ keyTemp[keySave.k].sync = Pieces
    /\ keySave.pc \in {"write", "sync"} => keySave.ok

(* Without a crash the only temporary file is that of the save.            *)
LitterInv == crashes = 0 => \A k \in Key : keyTemp[k].v # None => keySave.pc # "idle" /\ keySave.k = k

Steps == {"off", "visit", "commit", "up", "failed"}

(* The load: what was not given to its handler is still to come, and so is *)
(* every temporary file.                                                   *)
LoadInv ==
    /\ keyLoad = [pc |-> keyLoad.pc, left |-> keyLoad.left, hs |-> keyLoad.hs] /\ keyLoad.pc \in Steps
    /\ loaded \in [Key -> Value \cup {None}]
    /\ keyLoad.pc = "visit" =>
          /\ Settings!Range(handlers) = Handler
          /\ \A k \in Key : /\ keyTemp[k].v # None => [k |-> k, tmp |-> TRUE] \in keyLoad.left
                            /\ loaded[k] = keyFile[k].v \/ (loaded[k] = None /\ [k |-> k, tmp |-> FALSE] \in keyLoad.left)

(* A list of handlers is in the order of their numbers.                    *)
Ordered(hs) == \A i, j \in 1 .. Len(hs) : i < j => hs[i].cprio <= hs[j].cprio

(* The commits: what has committed comes before what is still to.          *)
CommitInv ==
    /\ handlers \in Seq(Handler) /\ keyLoad.hs \in Seq(Handler) /\ committed \in Seq(Handler)
    /\ Ordered(handlers) /\ Ordered(committed) /\ Ordered(keyLoad.hs)
    /\ keyLoad.pc \in {"visit", "failed"} => committed = <<>>
    /\ keyLoad.pc \in {"visit", "commit"} =>
          \A i \in 1 .. Len(committed), j \in 1 .. Len(keyLoad.hs) : committed[i].cprio <= keyLoad.hs[j].cprio

Bounds == keyOps \in 0 .. MaxOps /\ crashes \in 0 .. MaxCrashes

(* The initial state satisfies all of it.                                  *)
LEMMA StoreInit ==
  ASSUME Settings!SettingsAssumption, Settings!Init
  PROVE  StoreInv /\ SaveInv /\ LitterInv /\ LoadInv /\ CommitInv /\ Bounds
PROOF
  <1>0. None \notin Value /\ Pieces \in Nat \ {0} /\ MaxOps \in Nat /\ MaxCrashes \in Nat
    BY DEF Settings!SettingsAssumption
  <1>1. Settings!Empty \in Settings!Content /\ Settings!Empty.v = None /\ Settings!Empty.n = 0 /\ Settings!Empty.sync = 0
    BY <1>0 DEF Settings!Empty, Settings!Content
  <1>2. StoreInv
    BY <1>0, <1>1 DEF Settings!Init, StoreInv
  <1>3. SaveInv
    BY DEF Settings!Init, SaveInv, Settings!Idle
  <1>4. LitterInv
    BY <1>1 DEF Settings!Init, LitterInv
  <1>5. LoadInv
    BY DEF Settings!Init, LoadInv, Settings!NoLoad, Steps
  <1>6. CommitInv
    BY DEF Settings!Init, CommitInv, Settings!NoLoad, Ordered
  <1>7. Bounds
    BY <1>0 DEF Settings!Init, Bounds
  <1>8. QED
    BY <1>2, <1>3, <1>4, <1>5, <1>6, <1>7

(* A step that leaves the medium and the save alone, and starts or ends    *)
(* the load only while nothing is saved, keeps what is on the medium.      *)
LEMMA MediumAlone ==
  ASSUME StoreInv, SaveInv, LitterInv, UNCHANGED <<keyFile, keyTemp, acked, keySave, crashes>>,
         keySave.pc # "idle" => keyLoad'.pc \in {"commit", "up"}
  PROVE  StoreInv' /\ SaveInv' /\ LitterInv'
PROOF
  <1>1. StoreInv'
    BY DEF StoreInv
  <1>2. SaveInv'
    BY DEF SaveInv
  <1>3. LitterInv'
    BY DEF LitterInv
  <1>4. QED
    BY <1>1, <1>2, <1>3

(* Every step of a save, a deletion and a crash keeps the medium.          *)
LEMMA MediumKept ==
  ASSUME Settings!SettingsAssumption, StoreInv, SaveInv, LitterInv, LoadInv, Bounds, [Settings!Next]_(Settings!vars)
  PROVE  StoreInv' /\ SaveInv' /\ LitterInv'
PROOF
  <1>0. None \notin Value /\ Pieces \in Nat \ {0}
    BY DEF Settings!SettingsAssumption
  <1>01. /\ keyFile \in [Key -> Settings!Content] /\ keyTemp \in [Key -> Settings!Content]
         /\ acked \in [Key -> Value \cup {None}]
    BY DEF StoreInv
  <1>02. /\ {"pc", "k", "v", "ok"} \subseteq DOMAIN keySave
         /\ {"pc", "left", "hs"} \subseteq DOMAIN keyLoad
    BY DEF SaveInv, LoadInv
  <1>03. \A k \in Key : /\ keyFile[k].v \in Value \cup {None} /\ keyFile[k].n \in 0 .. Pieces /\ keyFile[k].sync \in 0 .. Pieces
                        /\ keyTemp[k].v \in Value \cup {None} /\ keyTemp[k].n \in 0 .. Pieces /\ keyTemp[k].sync \in 0 .. Pieces
                        /\ keyTemp[k] = [v |-> keyTemp[k].v, n |-> keyTemp[k].n, sync |-> keyTemp[k].sync]
    BY <1>01 DEF Settings!Content
  <1>04. Settings!Empty \in Settings!Content /\ Settings!Empty.v = None /\ Settings!Empty.n = 0 /\ Settings!Empty.sync = 0
    BY <1>0 DEF Settings!Empty, Settings!Content
  <1>1. ASSUME NEW k \in Key, NEW v \in Value, Settings!Open(k, v) PROVE StoreInv' /\ SaveInv' /\ LitterInv'
    <2>1. /\ keySave.pc = "idle" /\ keyLoad.pc \in {"commit", "up"}
          /\ UNCHANGED <<keyFile, acked, keyLoad, crashes>>
      BY <1>1 DEF Settings!Open, Settings!Ready, Settings!Storage
    <2>2. CASE UNCHANGED <<keyTemp, keySave>>
      BY <2>1, <2>2, MediumAlone
    <2>3. CASE /\ keyTemp' = [keyTemp EXCEPT ![k] = [v |-> v, n |-> 0, sync |-> 0]]
               /\ keySave' = [pc |-> "write", k |-> k, v |-> v, ok |-> TRUE]
      <3>1. [v |-> v, n |-> 0, sync |-> 0] \in Settings!Content
        BY <1>0 DEF Settings!Content
      <3>2. StoreInv'
        BY <2>1, <2>3, <3>1, <1>01 DEF StoreInv
      <3>3. SaveInv'
        BY <2>1, <2>3, <1>01 DEF SaveInv
      <3>4. LitterInv'
        BY <2>1, <2>3, <1>01 DEF LitterInv
      <3>5. QED
        BY <3>2, <3>3, <3>4
    <2>4. QED
      BY <1>1, <2>2, <2>3 DEF Settings!Open
  <1>2. ASSUME Settings!Write PROVE StoreInv' /\ SaveInv' /\ LitterInv'
    <2>1. /\ keySave.pc = "write" /\ keySave.k \in Key /\ keySave.v \in Value /\ keyTemp[keySave.k].v = keySave.v /\ keySave.ok
          /\ keyLoad.pc \in {"commit", "up"} /\ UNCHANGED <<keyFile, acked, keyLoad, crashes>>
      BY <1>2 DEF Settings!Write, SaveInv, Settings!Storage
    <2>2. CASE UNCHANGED keyTemp /\ keySave' = [keySave EXCEPT !.pc = "close", !.ok = FALSE]
      <3>1. /\ keySave'.pc = "close" /\ keySave'.k = keySave.k /\ keySave'.v = keySave.v /\ ~keySave'.ok
            /\ keySave' = [pc |-> "close", k |-> keySave.k, v |-> keySave.v, ok |-> FALSE]
        BY <2>2, <1>02 DEF SaveInv
      <3>2. StoreInv'
        BY <2>1, <2>2 DEF StoreInv
      <3>3. SaveInv'
        BY <2>1, <2>2, <3>1 DEF SaveInv
      <3>4. LitterInv'
        BY <2>1, <2>2, <3>1 DEF LitterInv
      <3>5. QED
        BY <3>2, <3>3, <3>4
    <2>3. ASSUME NEW n \in (keyTemp[keySave.k].n + 1) .. Pieces, keyTemp' = [keyTemp EXCEPT ![keySave.k].n = n],
                 keySave' = [keySave EXCEPT !.pc = IF n = Pieces THEN "sync" ELSE "write"]
          PROVE  StoreInv' /\ SaveInv' /\ LitterInv'
      <3>0. n \in 0 .. Pieces /\ keyTemp[keySave.k].sync <= n
        BY <1>0, <1>03, <2>1 DEF StoreInv
      <3>1. keyTemp' = [keyTemp EXCEPT ![keySave.k] = [v |-> keySave.v, n |-> n, sync |-> keyTemp[keySave.k].sync]]
        <4>1. [keyTemp[keySave.k] EXCEPT !.n = n] = [v |-> keySave.v, n |-> n, sync |-> keyTemp[keySave.k].sync]
          BY <2>1, <1>01 DEF Settings!Content
        <4>2. QED
          BY <2>3, <4>1
      <3>2. [v |-> keySave.v, n |-> n, sync |-> keyTemp[keySave.k].sync] \in Settings!Content
        BY <2>1, <3>0, <1>03 DEF Settings!Content
      <3>3. StoreInv'
        BY <2>1, <3>0, <3>1, <3>2, <1>01 DEF StoreInv
      <3>4. /\ keySave'.k = keySave.k /\ keySave'.v = keySave.v /\ keySave'.ok
            /\ keySave' = [pc |-> keySave'.pc, k |-> keySave.k, v |-> keySave.v, ok |-> keySave.ok]
            /\ keySave'.pc = IF n = Pieces THEN "sync" ELSE "write"
        BY <2>1, <2>3, <1>02 DEF SaveInv
      <3>5. keyTemp'[keySave.k].v = keySave.v /\ keyTemp'[keySave.k].n = n
        BY <2>1, <3>1, <1>01
      <3>6. SaveInv'
        BY <2>1, <3>4, <3>5 DEF SaveInv
      <3>7. LitterInv'
        BY <2>1, <3>1, <3>4, <1>01 DEF LitterInv
      <3>8. QED
        BY <3>3, <3>6, <3>7
    <2>4. QED
      BY <1>2, <2>2, <2>3 DEF Settings!Write
  <1>3. ASSUME Settings!Sync PROVE StoreInv' /\ SaveInv' /\ LitterInv'
    <2>1. /\ keySave.pc = "sync" /\ keySave.k \in Key /\ keySave.v \in Value /\ keyTemp[keySave.k].v = keySave.v /\ keySave.ok
          /\ keyTemp[keySave.k].n = Pieces
          /\ keyLoad.pc \in {"commit", "up"} /\ UNCHANGED <<keyFile, acked, keyLoad, crashes>>
      BY <1>3 DEF Settings!Sync, SaveInv, Settings!Storage
    <2>2. CASE UNCHANGED keyTemp /\ keySave' = [keySave EXCEPT !.pc = "close", !.ok = FALSE]
      <3>1. /\ keySave'.pc = "close" /\ keySave'.k = keySave.k /\ keySave'.v = keySave.v /\ ~keySave'.ok
            /\ keySave' = [pc |-> "close", k |-> keySave.k, v |-> keySave.v, ok |-> FALSE]
        BY <2>2, <1>02 DEF SaveInv
      <3>2. StoreInv'
        BY <2>1, <2>2 DEF StoreInv
      <3>3. SaveInv'
        BY <2>1, <2>2, <3>1 DEF SaveInv
      <3>4. LitterInv'
        BY <2>1, <2>2, <3>1 DEF LitterInv
      <3>5. QED
        BY <3>2, <3>3, <3>4
    <2>3. CASE keyTemp' = [keyTemp EXCEPT ![keySave.k].sync = keyTemp[keySave.k].n] /\ keySave' = [keySave EXCEPT !.pc = "close"]
      <3>1. keyTemp' = [keyTemp EXCEPT ![keySave.k] = [v |-> keySave.v, n |-> Pieces, sync |-> Pieces]]
        <4>1. [keyTemp[keySave.k] EXCEPT !.sync = keyTemp[keySave.k].n] = [v |-> keySave.v, n |-> Pieces, sync |-> Pieces]
          BY <2>1, <1>01 DEF Settings!Content
        <4>2. QED
          BY <2>3, <4>1
      <3>2. [v |-> keySave.v, n |-> Pieces, sync |-> Pieces] \in Settings!Content
        BY <1>0, <2>1 DEF Settings!Content
      <3>3. StoreInv'
        BY <1>0, <2>1, <3>1, <3>2, <1>01 DEF StoreInv
      <3>4. /\ keySave'.pc = "close" /\ keySave'.k = keySave.k /\ keySave'.v = keySave.v
            /\ keySave' = [pc |-> "close", k |-> keySave.k, v |-> keySave.v, ok |-> keySave.ok]
        BY <2>3, <1>02 DEF SaveInv
      <3>5. keyTemp'[keySave.k].v = keySave.v /\ keyTemp'[keySave.k].n = Pieces /\ keyTemp'[keySave.k].sync = Pieces
        BY <2>1, <3>1, <1>01
      <3>6. SaveInv'
        BY <2>1, <3>4, <3>5 DEF SaveInv
      <3>7. LitterInv'
        BY <2>1, <3>1, <3>4, <1>01 DEF LitterInv
      <3>8. QED
        BY <3>3, <3>6, <3>7
    <2>4. QED
      BY <1>3, <2>2, <2>3 DEF Settings!Sync
  <1>4. ASSUME Settings!Close PROVE StoreInv' /\ SaveInv' /\ LitterInv'
    <2>1. /\ keySave.pc = "close" /\ keySave.k \in Key /\ keySave.v \in Value /\ keyTemp[keySave.k].v = keySave.v
          /\ keyLoad.pc \in {"commit", "up"} /\ UNCHANGED <<keyFile, keyTemp, acked, keyLoad, crashes>>
      BY <1>4 DEF Settings!Close, SaveInv, Settings!Storage
    <2>2. PICK ok \in BOOLEAN : keySave' = [keySave EXCEPT !.pc = IF keySave.ok /\ ok THEN "rename" ELSE "unlink", !.ok = (keySave.ok /\ ok)]
      BY <1>4 DEF Settings!Close
    <2>3. /\ keySave'.pc = (IF keySave.ok /\ ok THEN "rename" ELSE "unlink")
          /\ keySave'.k = keySave.k /\ keySave'.v = keySave.v
          /\ keySave' = [pc |-> keySave'.pc, k |-> keySave'.k, v |-> keySave'.v, ok |-> keySave'.ok]
      BY <2>2, <1>02 DEF SaveInv
    <2>4. SaveInv'
      BY <2>1, <2>3 DEF SaveInv
    <2>5. StoreInv' /\ LitterInv'
      BY <2>1, <2>3 DEF StoreInv, LitterInv
    <2>6. QED
      BY <2>4, <2>5
  <1>5. ASSUME Settings!Rename PROVE StoreInv' /\ SaveInv' /\ LitterInv'
    <2>1. /\ keySave.pc = "rename" /\ keySave.k \in Key /\ keySave.v \in Value /\ keyTemp[keySave.k].v = keySave.v
          /\ keyTemp[keySave.k].n = Pieces /\ keyTemp[keySave.k].sync = Pieces
          /\ keyLoad.pc \in {"commit", "up"} /\ UNCHANGED <<keyLoad, crashes>>
      BY <1>5 DEF Settings!Rename, SaveInv, Settings!Storage
    <2>2. CASE UNCHANGED <<keyFile, keyTemp, acked>> /\ keySave' = [keySave EXCEPT !.pc = "unlink", !.ok = FALSE]
      <3>1. /\ keySave'.pc = "unlink" /\ keySave'.k = keySave.k
            /\ keySave' = [pc |-> "unlink", k |-> keySave.k, v |-> keySave.v, ok |-> FALSE]
        BY <2>2, <1>02 DEF SaveInv
      <3>2. StoreInv'
        BY <2>2 DEF StoreInv
      <3>3. SaveInv'
        BY <2>1, <2>2, <3>1 DEF SaveInv
      <3>4. LitterInv'
        BY <2>1, <2>2, <3>1 DEF LitterInv
      <3>5. QED
        BY <3>2, <3>3, <3>4
    <2>3. CASE /\ keyFile' = [keyFile EXCEPT ![keySave.k] = keyTemp[keySave.k]] /\ keyTemp' = [keyTemp EXCEPT ![keySave.k] = Settings!Empty]
               /\ acked' = [acked EXCEPT ![keySave.k] = keySave.v] /\ keySave' = Settings!Idle
      <3>1. StoreInv'
        BY <1>0, <2>1, <2>3, <1>01, <1>04 DEF StoreInv
      <3>2. SaveInv'
        BY <2>3 DEF SaveInv, Settings!Idle
      <3>3. LitterInv'
        BY <2>1, <2>3, <1>01, <1>04 DEF LitterInv
      <3>4. QED
        BY <3>1, <3>2, <3>3
    <2>4. QED
      BY <1>5, <2>2, <2>3 DEF Settings!Rename
  <1>6. ASSUME Settings!Unlink PROVE StoreInv' /\ SaveInv' /\ LitterInv'
    <2>1. /\ keySave.pc = "unlink" /\ keySave.k \in Key /\ UNCHANGED <<keyFile, acked, keyLoad, crashes>>
          /\ keyTemp' = [keyTemp EXCEPT ![keySave.k] = Settings!Empty] /\ keySave' = Settings!Idle
      BY <1>6 DEF Settings!Unlink, SaveInv, Settings!Storage
    <2>2. StoreInv'
      BY <2>1, <1>01, <1>04 DEF StoreInv
    <2>3. SaveInv'
      BY <2>1 DEF SaveInv, Settings!Idle
    <2>4. LitterInv'
      BY <2>1, <1>01, <1>04 DEF LitterInv
    <2>5. QED
      BY <2>2, <2>3, <2>4
  <1>7. ASSUME NEW k \in Key, Settings!Delete(k) PROVE StoreInv' /\ SaveInv' /\ LitterInv'
    <2>1. keySave.pc = "idle" /\ UNCHANGED <<keyTemp, keySave, keyLoad, crashes>>
      BY <1>7 DEF Settings!Delete, Settings!Ready, Settings!Storage
    <2>2. CASE UNCHANGED <<keyFile, acked>>
      BY <2>1, <2>2, MediumAlone
    <2>3. CASE keyFile' = [keyFile EXCEPT ![k] = Settings!Empty] /\ acked' = [acked EXCEPT ![k] = None]
      <3>1. StoreInv'
        BY <2>1, <2>3, <1>01, <1>04 DEF StoreInv
      <3>2. SaveInv' /\ LitterInv'
        BY <2>1 DEF SaveInv, LitterInv
      <3>3. QED
        BY <3>1, <3>2
    <2>4. QED
      BY <1>7, <2>2, <2>3 DEF Settings!Delete
  <1>8. ASSUME Settings!Crash PROVE StoreInv' /\ SaveInv' /\ LitterInv'
    <2>1. keySave' = Settings!Idle /\ crashes' = crashes + 1 /\ UNCHANGED acked
      BY <1>8 DEF Settings!Crash
    <2>2. PICK f, t \in [Key -> 0 .. Pieces] :
             /\ \A k \in Key : f[k] \in keyFile[k].sync .. keyFile[k].n /\ t[k] \in keyTemp[k].sync .. keyTemp[k].n
             /\ keyFile' = [k \in Key |-> [v |-> keyFile[k].v, n |-> f[k], sync |-> f[k]]]
             /\ keyTemp' = [k \in Key |-> [v |-> keyTemp[k].v, n |-> t[k], sync |-> t[k]]]
      BY <1>8 DEF Settings!Crash
    <2>3. \A k \in Key : [v |-> keyFile[k].v, n |-> f[k], sync |-> f[k]] \in Settings!Content
                         /\ [v |-> keyTemp[k].v, n |-> t[k], sync |-> t[k]] \in Settings!Content
      BY <2>2, <1>03 DEF Settings!Content
    <2>4. keyFile' \in [Key -> Settings!Content] /\ keyTemp' \in [Key -> Settings!Content]
      BY <2>2, <2>3
    <2>5. \A k \in Key : /\ keyFile'[k].v = keyFile[k].v /\ keyFile'[k].n = f[k] /\ keyFile'[k].sync = f[k]
                         /\ keyTemp'[k].n = t[k] /\ keyTemp'[k].sync = t[k]
      BY <2>2
    <2>6. \A k \in Key : f[k] \in Nat /\ t[k] \in Nat
      BY <1>0, <2>2
    <2>7. ASSUME NEW k \in Key, keyFile[k].n = Pieces, keyFile[k].sync = Pieces PROVE f[k] = Pieces
      <3>1. f[k] \in keyFile[k].sync .. keyFile[k].n
        BY <2>2
      <3>2. QED
        BY <1>0, <2>7, <3>1
    <2>8. StoreInv'
      BY <2>1, <2>4, <2>5, <2>6, <2>7 DEF StoreInv
    <2>9. SaveInv'
      BY <2>1 DEF SaveInv, Settings!Idle
    <2>10. LitterInv'
      BY <2>1 DEF LitterInv, Bounds
    <2>11. QED
      BY <2>8, <2>9, <2>10
  <1>9. CASE UNCHANGED Settings!vars
    BY <1>9, MediumAlone DEF Settings!vars, SaveInv
  <1>10. ASSUME NEW h \in Handler, Settings!Register(h) PROVE StoreInv' /\ SaveInv' /\ LitterInv'
    BY <1>10, MediumAlone DEF Settings!Register, SaveInv
  <1>11. ASSUME Settings!Start \/ Settings!Stop PROVE StoreInv' /\ SaveInv' /\ LitterInv'
    BY <1>11, MediumAlone DEF Settings!Start, Settings!Stop, SaveInv
  <1>12. ASSUME NEW name, Settings!Visit(name) PROVE StoreInv' /\ SaveInv' /\ LitterInv'
    BY <1>12, MediumAlone DEF Settings!Visit, SaveInv
  <1>13. ASSUME Settings!Commit PROVE StoreInv' /\ SaveInv' /\ LitterInv'
    <2>1. keySave.pc # "idle" => keyLoad.pc = "commit"
      BY <1>13 DEF Settings!Commit, SaveInv
    <2>2. keySave.pc # "idle" => keyLoad'.pc \in {"commit", "up"}
      BY <1>13, <2>1 DEF Settings!Commit
    <2>3. QED
      BY <1>13, <2>2, MediumAlone DEF Settings!Commit
  <1>14. QED
    BY <1>1, <1>2, <1>3, <1>4, <1>5, <1>6, <1>7, <1>8, <1>9, <1>10, <1>11, <1>12, <1>13 DEF Settings!Next

(* While all handlers are registered, every name on the medium has one:    *)
(* the first in the list that matches.                                     *)
LEMMA SomeHandler ==
  ASSUME Settings!SettingsAssumption, handlers \in Seq(Handler), Settings!Range(handlers) = Handler,
         NEW k \in Key, NEW b \in BOOLEAN
  PROVE  Settings!First([k |-> k, tmp |-> b]) # {}
PROOF
  <1> DEFINE R == OpToRel(<, Nat)
  <1> DEFINE name == [k |-> k, tmp |-> b]
  <1> DEFINE S == {j \in 1 .. Len(handlers) : Settings!Matches(handlers[j], name)}
  <1>1. PICK h \in Handler : Settings!IsPrefix(h.name, k.dir)
    BY DEF Settings!SettingsAssumption
  <1>2. PICK j \in DOMAIN handlers : handlers[j] = h
    BY <1>1 DEF Settings!Range
  <1>3. j \in 1 .. Len(handlers) /\ Settings!Matches(handlers[j], name)
    BY <1>1, <1>2 DEF Settings!Matches
  <1>4. S # {} /\ S \subseteq Nat
    BY <1>3
  <1>5. IsWellFoundedOn(R, Nat)
    BY NatLessThanWellFounded
  <1>6. \A x, y \in Nat : x < y => <<x, y>> \in R
    BY DEF OpToRel
  <1>7. \A i \in S : i \in 1 .. Len(handlers) /\ Settings!Matches(handlers[i], name)
    OBVIOUS
  <1>8. \A i \in 1 .. Len(handlers) : Settings!Matches(handlers[i], name) => i \in S
    OBVIOUS
  <1> HIDE DEF R, S
  <1>9. PICK i \in S : \A m \in S : ~(<<m, i>> \in R)
    BY <1>4, <1>5, WFMin
  <1>10. \A m \in S : ~(m < i)
    BY <1>4, <1>6, <1>9
  <1>11. i \in 1 .. Len(handlers) /\ Settings!Matches(handlers[i], name)
    BY <1>7, <1>9
  <1>12. \A m \in 1 .. (i - 1) : ~Settings!Matches(handlers[m], name)
    <2> SUFFICES ASSUME NEW m \in 1 .. (i - 1), Settings!Matches(handlers[m], name) PROVE FALSE
      OBVIOUS
    <2>1. Len(handlers) \in Nat
      OBVIOUS
    <2>2. m \in 1 .. Len(handlers) /\ m < i
      BY <2>1, <1>11
    <2>3. QED
      BY <2>2, <1>8, <1>10
  <1>13. handlers[i] \in Settings!First(name)
    BY <1>11, <1>12 DEF Settings!First
  <1>14. QED
    BY <1>13

(* Every step keeps the load true to the medium.                           *)
LEMMA LoadKept ==
  ASSUME Settings!SettingsAssumption, StoreInv, SaveInv, LoadInv, handlers \in Seq(Handler), [Settings!Next]_(Settings!vars)
  PROVE  LoadInv'
PROOF
  <1>0. /\ keyFile \in [Key -> Settings!Content] /\ loaded \in [Key -> Value \cup {None}]
        /\ {"pc", "left", "hs"} \subseteq DOMAIN keyLoad /\ keyLoad.pc \in Steps
        /\ \A k \in Key : keyFile[k].v \in Value \cup {None}
    BY DEF StoreInv, LoadInv, Settings!Content
  <1>1. CASE UNCHANGED <<keyFile, keyTemp, handlers, keyLoad, loaded>>
    BY <1>1 DEF LoadInv
  <1>2. ASSUME keySave.pc # "idle" \/ keyLoad.pc \in {"commit", "up"}, UNCHANGED <<keyLoad, loaded>>
        PROVE  LoadInv'
    <2>1. keyLoad.pc # "visit"
      BY <1>2 DEF SaveInv
    <2>2. QED
      BY <1>2, <2>1 DEF LoadInv
  <1>3. ASSUME NEW h \in Handler, Settings!Register(h) PROVE LoadInv'
    BY <1>3 DEF Settings!Register, LoadInv
  <1>4. ASSUME NEW k \in Key, Settings!Delete(k) \/ \E v \in Value : Settings!Open(k, v) PROVE LoadInv'
    BY <1>2, <1>4 DEF Settings!Delete, Settings!Open, Settings!Ready, Settings!Storage
  <1>5. ASSUME Settings!Write \/ Settings!Sync \/ Settings!Close \/ Settings!Rename \/ Settings!Unlink PROVE LoadInv'
    BY <1>2, <1>5 DEF Settings!Write, Settings!Sync, Settings!Close, Settings!Rename, Settings!Unlink, Settings!Storage
  <1>6. ASSUME Settings!Start PROVE LoadInv'
    <2>1. /\ keyLoad' = [pc |-> "visit", left |-> Settings!Names(TRUE) \cup Settings!Names(FALSE), hs |-> handlers]
          /\ Settings!Range(handlers) = Handler /\ loaded' = [k \in Key |-> None]
          /\ UNCHANGED <<keyFile, keyTemp, handlers>>
      BY <1>6 DEF Settings!Start
    <2>2. ASSUME NEW k \in Key
          PROVE  /\ keyTemp[k].v # None => [k |-> k, tmp |-> TRUE] \in keyLoad'.left
                 /\ keyFile[k].v # None => [k |-> k, tmp |-> FALSE] \in keyLoad'.left
                 /\ loaded'[k] = None
      BY <2>1 DEF Settings!Names
    <2>3. /\ keyLoad' = [pc |-> keyLoad'.pc, left |-> keyLoad'.left, hs |-> keyLoad'.hs] /\ keyLoad'.pc = "visit"
          /\ loaded' \in [Key -> Value \cup {None}]
      BY <2>1
    <2>4. ASSUME NEW k \in Key
          PROVE  /\ keyTemp'[k].v # None => [k |-> k, tmp |-> TRUE] \in keyLoad'.left
                 /\ loaded'[k] = keyFile'[k].v \/ (loaded'[k] = None /\ [k |-> k, tmp |-> FALSE] \in keyLoad'.left)
      <3>1. keyTemp' = keyTemp /\ keyFile' = keyFile
        BY <2>1
      <3>2. /\ keyTemp[k].v # None => [k |-> k, tmp |-> TRUE] \in keyLoad'.left
            /\ keyFile[k].v # None => [k |-> k, tmp |-> FALSE] \in keyLoad'.left
            /\ loaded'[k] = None
        BY <2>2
      <3>3. CASE keyFile[k].v = None
        BY <3>1, <3>2, <3>3
      <3>4. CASE keyFile[k].v # None
        BY <3>1, <3>2, <3>4, Zenon
      <3>5. QED
        BY <3>3, <3>4
    <2>5. Settings!Range(handlers') = Handler
      BY <2>1
    <2>6. QED
      BY <2>3, <2>4, <2>5 DEF LoadInv, Steps
  <1>7. ASSUME NEW n \in Key, NEW b \in BOOLEAN, Settings!Visit([k |-> n, tmp |-> b]) PROVE LoadInv'
    <2> DEFINE name == [k |-> n, tmp |-> b]
    <2>1. keyLoad.pc = "visit" /\ name \in keyLoad.left /\ UNCHANGED <<keyFile, keyTemp, handlers>>
      BY <1>7 DEF Settings!Visit
    <2>2. CASE keyLoad' = [Settings!NoLoad EXCEPT !.pc = "failed"] /\ UNCHANGED loaded
      BY <2>2 DEF LoadInv, Settings!NoLoad, Steps
    <2>3. CASE /\ \A h \in Settings!First(name) : ~name.tmp /\ name.k \in h.takes
               /\ loaded' = [loaded EXCEPT ![name.k] = keyFile[name.k].v] /\ keyLoad' = [keyLoad EXCEPT !.left = @ \ {name}]
      <3>1. Settings!Range(handlers) = Handler
        BY <2>1 DEF LoadInv
      <3>2. ~b
        BY <2>3, <3>1, SomeHandler
      <3>3. /\ keyLoad'.pc = "visit" /\ keyLoad'.left = keyLoad.left \ {name}
            /\ keyLoad' = [pc |-> keyLoad'.pc, left |-> keyLoad'.left, hs |-> keyLoad'.hs]
        BY <2>1, <2>3, <1>0 DEF LoadInv
      <3>4. loaded' = [loaded EXCEPT ![n] = keyFile[n].v]
        BY <2>3
      <3>5. ASSUME NEW k \in Key PROVE [k |-> k, tmp |-> TRUE] # name /\ (k # n => [k |-> k, tmp |-> FALSE] # name)
        BY <3>2
      <3>6. ASSUME NEW k \in Key
            PROVE  /\ keyTemp[k].v # None => [k |-> k, tmp |-> TRUE] \in keyLoad'.left
                   /\ loaded'[k] = keyFile[k].v \/ (loaded'[k] = None /\ [k |-> k, tmp |-> FALSE] \in keyLoad'.left)
        <4>1. /\ keyTemp[k].v # None => [k |-> k, tmp |-> TRUE] \in keyLoad.left
              /\ loaded[k] = keyFile[k].v \/ (loaded[k] = None /\ [k |-> k, tmp |-> FALSE] \in keyLoad.left)
          BY <2>1 DEF LoadInv
        <4>2. k # n => loaded'[k] = loaded[k] /\ [k |-> k, tmp |-> FALSE] # name
          BY <1>0, <3>4, <3>5
        <4>3. k = n => loaded'[k] = keyFile[k].v
          BY <1>0, <3>4
        <4>4. keyTemp[k].v # None => [k |-> k, tmp |-> TRUE] \in keyLoad'.left
          BY <3>3, <3>5, <4>1
        <4>5. CASE k = n
          BY <4>3, <4>4, <4>5
        <4>6. CASE k # n
          <5>1. [k |-> k, tmp |-> FALSE] \in keyLoad.left => [k |-> k, tmp |-> FALSE] \in keyLoad'.left
            BY <3>3, <4>2, <4>6
          <5>2. QED
            BY <4>1, <4>2, <4>4, <4>6, <5>1, Zenon
        <4>7. QED
          BY <4>5, <4>6
      <3>7. loaded' \in [Key -> Value \cup {None}]
        BY <1>0, <3>4
      <3>8. QED
        BY <2>1, <3>1, <3>3, <3>6, <3>7 DEF LoadInv, Steps
    <2>4. QED
      BY <1>7, <2>2, <2>3 DEF Settings!Visit
  <1>8. ASSUME Settings!Commit PROVE LoadInv'
    <2>1. keyLoad'.pc \in {"commit", "up"} /\ keyLoad' = [pc |-> keyLoad'.pc, left |-> keyLoad'.left, hs |-> keyLoad'.hs]
      BY <1>0, <1>8 DEF Settings!Commit, LoadInv
    <2>2. UNCHANGED loaded
      BY <1>8 DEF Settings!Commit
    <2>3. QED
      BY <2>1, <2>2 DEF LoadInv, Steps
  <1>9. ASSUME Settings!Crash \/ Settings!Stop PROVE LoadInv'
    BY <1>9 DEF Settings!Crash, Settings!Stop, LoadInv, Settings!NoLoad, Steps
  <1>10. \A name \in [k : Key, tmp : BOOLEAN] : name.k \in Key /\ name.tmp \in BOOLEAN /\ name = [k |-> name.k, tmp |-> name.tmp]
    OBVIOUS
  <1>11. CASE UNCHANGED Settings!vars
    BY <1>1, <1>11 DEF Settings!vars
  <1>12. QED
    BY <1>3, <1>4, <1>5, <1>6, <1>7, <1>8, <1>9, <1>10, <1>11 DEF Settings!Next

(* A handler is put behind everything that is not greater, so a list in    *)
(* order stays in order.                                                   *)
LEMMA InsertKept ==
  ASSUME Settings!SettingsAssumption, NEW hs \in Seq(Handler), Ordered(hs), NEW h \in Handler, NEW r \in Settings!Insert(hs, h)
  PROVE  r \in Seq(Handler) /\ Ordered(r)
PROOF
  <1>0. Len(hs) \in Nat /\ \A x \in Handler : x.cprio \in Int
    BY DEF Settings!SettingsAssumption
  <1>1. PICK n \in 0 .. Len(hs) :
           /\ \A i \in 1 .. n : hs[i].cprio <= h.cprio
           /\ n < Len(hs) => hs[n + 1].cprio > h.cprio
           /\ r = Settings!InsertAt(hs, n + 1, h)
    BY DEF Settings!Insert
  <1>2. n \in Nat /\ n <= Len(hs)
    BY <1>0, <1>1
  <1>02. \A i \in 1 .. n : hs[i].cprio <= h.cprio
    BY <1>1
  <1>03. n < Len(hs) => h.cprio < hs[n + 1].cprio
    BY <1>1
  <1>3. r = SubSeq(hs, 1, n) \o <<h>> \o SubSeq(hs, n + 1, Len(hs))
    <2>1. (n + 1) - 1 = n
      BY <1>2
    <2>2. r = SubSeq(hs, 1, (n + 1) - 1) \o <<h>> \o SubSeq(hs, n + 1, Len(hs))
      BY <1>1 DEF Settings!InsertAt
    <2>3. QED
      BY <2>1, <2>2
  <1>4. /\ SubSeq(hs, 1, n) \in Seq(Handler) /\ Len(SubSeq(hs, 1, n)) = n
        /\ \A i \in 1 .. n : SubSeq(hs, 1, n)[i] = hs[i]
    BY <1>0, <1>2
  <1>5. /\ SubSeq(hs, n + 1, Len(hs)) \in Seq(Handler) /\ Len(SubSeq(hs, n + 1, Len(hs))) = Len(hs) - n
        /\ \A i \in 1 .. (Len(hs) - n) : SubSeq(hs, n + 1, Len(hs))[i] = hs[n + i]
    BY <1>0, <1>2
  <1>6. /\ r \in Seq(Handler) /\ Len(r) = Len(hs) + 1
        /\ \A i \in 1 .. (Len(hs) + 1) : r[i] = IF i <= n THEN hs[i] ELSE IF i = n + 1 THEN h ELSE hs[i - 1]
    <2> DEFINE A == SubSeq(hs, 1, n)
    <2> DEFINE B == SubSeq(hs, n + 1, Len(hs))
    <2>0. A \in Seq(Handler) /\ B \in Seq(Handler) /\ Len(A) = n /\ Len(B) = Len(hs) - n /\ r = A \o <<h>> \o B
      BY <1>3, <1>4, <1>5
    <2>1. /\ \A i \in 1 .. n : A[i] = hs[i]
          /\ \A i \in 1 .. (Len(hs) - n) : B[i] = hs[n + i]
      BY <1>4, <1>5
    <2> HIDE DEF A, B
    <2>2. /\ A \o <<h>> \in Seq(Handler) /\ Len(A \o <<h>>) = n + 1
          /\ \A i \in 1 .. (n + 1) : (A \o <<h>>)[i] = IF i <= n THEN A[i] ELSE h
      BY <1>2, <2>0
    <2>3. /\ r \in Seq(Handler) /\ Len(r) = Len(hs) + 1
          /\ \A i \in 1 .. (Len(hs) + 1) : r[i] = IF i <= n + 1 THEN (A \o <<h>>)[i] ELSE B[i - (n + 1)]
      BY <1>0, <1>2, <2>0, <2>2
    <2>4. ASSUME NEW i \in 1 .. (Len(hs) + 1)
          PROVE  r[i] = IF i <= n THEN hs[i] ELSE IF i = n + 1 THEN h ELSE hs[i - 1]
      <3>1. CASE i <= n + 1
        <4>1. r[i] = IF i <= n THEN A[i] ELSE h
          BY <1>2, <2>2, <2>3, <2>4, <3>1
        <4>2. i <= n => A[i] = hs[i]
          BY <2>1, <2>4
        <4>3. i <= n \/ i = n + 1
          BY <1>2, <2>4, <3>1
        <4>4. QED
          BY <1>2, <4>1, <4>2, <4>3
      <3>2. CASE ~(i <= n + 1)
        <4>1. r[i] = B[i - (n + 1)] /\ i - (n + 1) \in 1 .. (Len(hs) - n) /\ n + (i - (n + 1)) = i - 1
          BY <1>0, <1>2, <2>3, <2>4, <3>2
        <4>2. r[i] = hs[i - 1]
          BY <2>1, <4>1
        <4>3. ~(i <= n) /\ i # n + 1
          BY <1>2, <2>4, <3>2
        <4>4. QED
          BY <4>2, <4>3
      <3>3. QED
        BY <3>1, <3>2
    <2>5. QED
      BY <2>3, <2>4
  <1>7. \A i \in 1 .. Len(hs) : hs[i] \in Handler /\ hs[i].cprio \in Int
    BY <1>0
  <1>8. ASSUME NEW i \in 1 .. Len(hs), n < i PROVE h.cprio <= hs[i].cprio
    <2>01. n < Len(hs) /\ n + 1 \in 1 .. Len(hs)
      BY <1>0, <1>2, <1>8
    <2>02. h.cprio \in Int /\ hs[n + 1].cprio \in Int
      BY <1>0, <1>7, <2>01
    <2>1. n < Len(hs) /\ n + 1 \in 1 .. Len(hs) /\ h.cprio <= hs[n + 1].cprio
      BY <1>03, <2>01, <2>02
    <2>2. CASE i = n + 1
      BY <2>1, <2>2
    <2>3. CASE n + 1 < i
      <3>1. hs[n + 1].cprio <= hs[i].cprio
        BY <2>1, <2>3 DEF Ordered
      <3>2. QED
        BY <1>0, <1>7, <2>1, <3>1
    <2>4. QED
      BY <1>2, <1>8, <2>2, <2>3
  <1>9. ASSUME NEW i \in 1 .. Len(r), NEW j \in 1 .. Len(r), i < j PROVE r[i].cprio <= r[j].cprio
    <2>1. i \in 1 .. (Len(hs) + 1) /\ j \in 1 .. (Len(hs) + 1)
      BY <1>6, <1>9
    <2>2. CASE j <= n
      <3>1. r[i] = hs[i] /\ r[j] = hs[j] /\ i \in 1 .. Len(hs) /\ j \in 1 .. Len(hs)
        BY <1>2, <1>6, <1>9, <2>1, <2>2
      <3>2. QED
        BY <1>9, <3>1 DEF Ordered
    <2>3. CASE j = n + 1
      <3>1. r[i] = hs[i] /\ r[j] = h /\ i \in 1 .. n
        BY <1>2, <1>6, <1>9, <2>1, <2>3
      <3>2. QED
        BY <1>02, <3>1
    <2>4. CASE j > n + 1
      <3>1. r[j] = hs[j - 1] /\ j - 1 \in 1 .. Len(hs) /\ n < j - 1
        BY <1>0, <1>2, <1>6, <2>1, <2>4
      <3>2. CASE i <= n
        <4>1. r[i] = hs[i] /\ i \in 1 .. Len(hs) /\ i < j - 1
          BY <1>2, <1>6, <2>1, <2>4, <3>2
        <4>2. QED
          BY <3>1, <4>1 DEF Ordered
      <3>3. CASE i = n + 1
        <4>1. r[i] = h
          BY <1>2, <1>6, <2>1, <3>3
        <4>2. QED
          BY <1>8, <3>1, <4>1
      <3>4. CASE i > n + 1
        <4>1. r[i] = hs[i - 1] /\ i - 1 \in 1 .. Len(hs) /\ i - 1 < j - 1
          BY <1>0, <1>2, <1>6, <1>9, <2>1, <3>4
        <4>2. QED
          BY <3>1, <4>1 DEF Ordered
      <3>5. QED
        BY <1>2, <2>1, <3>2, <3>3, <3>4
    <2>5. QED
      BY <1>2, <2>1, <2>2, <2>3, <2>4
  <1>10. QED
    BY <1>6, <1>9 DEF Ordered

(* Every step keeps the lists in order, and what has committed before what *)
(* is still to.                                                            *)
LEMMA CommitKept ==
  ASSUME Settings!SettingsAssumption, LoadInv, CommitInv, [Settings!Next]_(Settings!vars)
  PROVE  CommitInv'
PROOF
  <1>0. /\ handlers \in Seq(Handler) /\ keyLoad.hs \in Seq(Handler) /\ committed \in Seq(Handler)
        /\ Ordered(handlers) /\ Ordered(committed) /\ Ordered(keyLoad.hs)
        /\ {"pc", "left", "hs"} \subseteq DOMAIN keyLoad
        /\ \A h \in Handler : h.cprio \in Int
    BY DEF CommitInv, LoadInv, Settings!SettingsAssumption
  <1>1. CASE UNCHANGED <<handlers, keyLoad, committed>>
    BY <1>1 DEF CommitInv, Ordered
  <1>2. ASSUME NEW h \in Handler, Settings!Register(h) PROVE CommitInv'
    <2>1. keyLoad.pc = "off" /\ handlers' \in Settings!Insert(handlers, h) /\ UNCHANGED <<keyLoad, committed>>
      BY <1>2 DEF Settings!Register
    <2>2. handlers' \in Seq(Handler) /\ Ordered(handlers')
      BY <1>0, <2>1, InsertKept
    <2>3. QED
      BY <2>1, <2>2 DEF CommitInv
  <1>3. CASE Settings!Start
    <2>1. /\ keyLoad'.pc = "visit" /\ keyLoad'.hs = handlers /\ committed' = <<>> /\ UNCHANGED handlers
      BY <1>3 DEF Settings!Start
    <2>2. Ordered(committed') /\ committed' \in Seq(Handler) /\ Len(committed') = 0
      BY <2>1 DEF Ordered
    <2>3. keyLoad'.hs \in Seq(Handler) /\ Ordered(keyLoad'.hs)
      BY <1>0, <2>1
    <2>4. \A i \in 1 .. Len(committed'), j \in 1 .. Len(keyLoad'.hs) : committed'[i].cprio <= keyLoad'.hs[j].cprio
      BY <2>2
    <2>5. QED
      BY <1>0, <2>1, <2>2, <2>3, <2>4 DEF CommitInv
  <1>4. ASSUME keyLoad' = Settings!NoLoad \/ keyLoad' = [Settings!NoLoad EXCEPT !.pc = "failed"], UNCHANGED <<handlers, committed>>,
               keyLoad'.pc = "failed" => keyLoad.pc = "visit"
        PROVE  CommitInv'
    <2>1. keyLoad'.hs = <<>> /\ keyLoad'.pc \in {"off", "failed"}
      BY <1>4 DEF Settings!NoLoad
    <2>2. keyLoad'.pc = "failed" => committed = <<>>
      BY <1>4 DEF CommitInv
    <2>3. Ordered(keyLoad'.hs) /\ keyLoad'.hs \in Seq(Handler)
      BY <2>1 DEF Ordered
    <2>4. QED
      BY <1>0, <1>4, <2>1, <2>2, <2>3 DEF CommitInv
  <1>5. ASSUME NEW name, Settings!Visit(name) PROVE CommitInv'
    <2>1. keyLoad.pc = "visit" /\ UNCHANGED <<handlers, committed>>
      BY <1>5 DEF Settings!Visit
    <2>2. CASE keyLoad' = [Settings!NoLoad EXCEPT !.pc = "failed"]
      BY <1>4, <2>1, <2>2
    <2>3. CASE keyLoad' = [keyLoad EXCEPT !.left = @ \ {name}]
      <3>1. keyLoad'.pc = keyLoad.pc /\ keyLoad'.hs = keyLoad.hs
        BY <1>0, <2>3
      <3>2. QED
        BY <2>1, <3>1 DEF CommitInv
    <2>4. QED
      BY <1>5, <2>2, <2>3 DEF Settings!Visit
  <1>6. ASSUME Settings!Commit PROVE CommitInv'
    <2>1. UNCHANGED handlers
      BY <1>6 DEF Settings!Commit
    <2>2. CASE /\ keyLoad.pc = "commit" /\ keyLoad.hs # <<>> /\ committed' = Append(committed, Head(keyLoad.hs))
               /\ keyLoad' = [keyLoad EXCEPT !.hs = Tail(@)]
      <3>1. keyLoad'.pc = "commit" /\ keyLoad'.hs = Tail(keyLoad.hs)
        BY <1>0, <2>2
      <3>2. /\ Len(committed) \in Nat /\ Len(keyLoad.hs) \in Nat /\ Len(keyLoad.hs) > 0
            /\ Head(keyLoad.hs) = keyLoad.hs[1] /\ Head(keyLoad.hs) \in Handler
        BY <1>0, <2>2
      <3>3. /\ committed' \in Seq(Handler) /\ Len(committed') = Len(committed) + 1
            /\ \A i \in 1 .. (Len(committed) + 1) :
                   committed'[i] = IF i = Len(committed) + 1 THEN keyLoad.hs[1] ELSE committed[i]
        BY <1>0, <2>2, <3>2
      <3>4. /\ keyLoad'.hs \in Seq(Handler) /\ Len(keyLoad'.hs) = Len(keyLoad.hs) - 1
            /\ \A i \in 1 .. (Len(keyLoad.hs) - 1) : keyLoad'.hs[i] = keyLoad.hs[i + 1]
        BY <1>0, <2>2, <3>1
      <3>5. \A i \in 1 .. Len(committed), j \in 1 .. Len(keyLoad.hs) : committed[i].cprio <= keyLoad.hs[j].cprio
        BY <2>2 DEF CommitInv
      <3>6. /\ \A i, j \in 1 .. Len(keyLoad.hs) : i < j => keyLoad.hs[i].cprio <= keyLoad.hs[j].cprio
            /\ \A i, j \in 1 .. Len(committed) : i < j => committed[i].cprio <= committed[j].cprio
        BY <1>0 DEF Ordered
      <3>7. ASSUME NEW i \in 1 .. Len(committed'), NEW j \in 1 .. Len(committed'), i < j
            PROVE  committed'[i].cprio <= committed'[j].cprio
        <4>1. i \in 1 .. Len(committed) /\ committed'[i] = committed[i]
          BY <3>2, <3>3, <3>7
        <4>2. CASE j = Len(committed) + 1
          <5>1. committed'[j] = keyLoad.hs[1] /\ 1 \in 1 .. Len(keyLoad.hs)
            BY <3>2, <3>3, <4>2
          <5>2. QED
            BY <3>5, <4>1, <5>1
        <4>3. CASE j # Len(committed) + 1
          <5>1. j \in 1 .. Len(committed) /\ committed'[j] = committed[j]
            BY <3>2, <3>3, <3>7, <4>3
          <5>2. QED
            BY <3>6, <3>7, <4>1, <5>1
        <4>4. QED
          BY <4>2, <4>3
      <3>8. ASSUME NEW i \in 1 .. Len(keyLoad'.hs), NEW j \in 1 .. Len(keyLoad'.hs), i < j
            PROVE  keyLoad'.hs[i].cprio <= keyLoad'.hs[j].cprio
        <4>0. i \in 1 .. (Len(keyLoad.hs) - 1) /\ j \in 1 .. (Len(keyLoad.hs) - 1)
          BY <3>4
        <4>1. i + 1 \in 1 .. Len(keyLoad.hs) /\ j + 1 \in 1 .. Len(keyLoad.hs) /\ i + 1 < j + 1
          BY <3>2, <3>8, <4>0
        <4>2. keyLoad'.hs[i] = keyLoad.hs[i + 1] /\ keyLoad'.hs[j] = keyLoad.hs[j + 1]
          BY <3>4, <4>0
        <4>3. QED
          BY <3>6, <4>1, <4>2
      <3>9. ASSUME NEW i \in 1 .. Len(committed'), NEW j \in 1 .. Len(keyLoad'.hs)
            PROVE  committed'[i].cprio <= keyLoad'.hs[j].cprio
        <4>1. j + 1 \in 1 .. Len(keyLoad.hs) /\ 1 < j + 1 /\ keyLoad'.hs[j] = keyLoad.hs[j + 1] /\ 1 \in 1 .. Len(keyLoad.hs)
          BY <3>2, <3>4, <3>9
        <4>2. CASE i = Len(committed) + 1
          <5>1. committed'[i] = keyLoad.hs[1]
            BY <3>2, <3>3, <4>2
          <5>2. QED
            BY <3>6, <4>1, <5>1
        <4>3. CASE i # Len(committed) + 1
          <5>1. i \in 1 .. Len(committed) /\ committed'[i] = committed[i]
            BY <3>2, <3>3, <3>9, <4>3
          <5>2. QED
            BY <3>5, <4>1, <5>1
        <4>4. QED
          BY <4>2, <4>3
      <3>10. QED
        BY <1>0, <2>1, <3>1, <3>3, <3>4, <3>7, <3>8, <3>9 DEF CommitInv, Ordered
    <2>3. CASE keyLoad.pc = "visit" /\ keyLoad' = [keyLoad EXCEPT !.pc = "commit"] /\ UNCHANGED committed
      <3>1. keyLoad'.pc = "commit" /\ keyLoad'.hs = keyLoad.hs
        BY <1>0, <2>3
      <3>2. QED
        BY <2>1, <2>3, <3>1 DEF CommitInv
    <2>4. CASE keyLoad.pc = "commit" /\ keyLoad' = [keyLoad EXCEPT !.pc = "up"] /\ UNCHANGED committed
      <3>1. keyLoad'.pc = "up" /\ keyLoad'.hs = keyLoad.hs
        BY <1>0, <2>4
      <3>2. QED
        BY <2>1, <2>4, <3>1 DEF CommitInv
    <2>5. QED
      BY <1>6, <2>2, <2>3, <2>4 DEF Settings!Commit
  <1>7. ASSUME Settings!Crash \/ Settings!Stop PROVE CommitInv'
    <2>1. keyLoad' = Settings!NoLoad /\ UNCHANGED <<handlers, committed>> /\ keyLoad'.pc = "off"
      BY <1>7 DEF Settings!Crash, Settings!Stop, Settings!NoLoad
    <2>2. QED
      BY <1>4, <2>1
  <1>8. ASSUME NEW k \in Key, Settings!Delete(k) \/ \E v \in Value : Settings!Open(k, v) PROVE CommitInv'
    BY <1>1, <1>8 DEF Settings!Delete, Settings!Open, Settings!Storage
  <1>9. ASSUME Settings!Write \/ Settings!Sync \/ Settings!Close \/ Settings!Rename \/ Settings!Unlink PROVE CommitInv'
    BY <1>1, <1>9 DEF Settings!Write, Settings!Sync, Settings!Close, Settings!Rename, Settings!Unlink, Settings!Storage
  <1>10. CASE UNCHANGED Settings!vars
    BY <1>1, <1>10 DEF Settings!vars
  <1>11. QED
    BY <1>2, <1>3, <1>5, <1>6, <1>7, <1>8, <1>9, <1>10 DEF Settings!Next

(* The counters stay below their bounds.                                   *)
LEMMA BoundsKept ==
  ASSUME Settings!SettingsAssumption, Bounds, [Settings!Next]_(Settings!vars)
  PROVE  Bounds'
PROOF
  <1>0. MaxOps \in Nat /\ MaxCrashes \in Nat
    BY DEF Settings!SettingsAssumption
  <1>1. CASE UNCHANGED <<keyOps, crashes>>
    BY <1>1 DEF Bounds
  <1>2. ASSUME NEW k \in Key, Settings!Delete(k) \/ \E v \in Value : Settings!Open(k, v) PROVE Bounds'
    <2>1. keyOps < MaxOps /\ keyOps' = keyOps + 1 /\ UNCHANGED crashes
      BY <1>2 DEF Settings!Delete, Settings!Open, Settings!Storage
    <2>2. QED
      BY <1>0, <2>1 DEF Bounds
  <1>3. ASSUME Settings!Crash PROVE Bounds'
    <2>1. crashes < MaxCrashes /\ crashes' = crashes + 1 /\ UNCHANGED keyOps
      BY <1>3 DEF Settings!Crash
    <2>2. QED
      BY <1>0, <2>1 DEF Bounds
  <1>4. ASSUME Settings!Write \/ Settings!Sync \/ Settings!Close \/ Settings!Rename \/ Settings!Unlink \/ Settings!Start \/ Settings!Commit \/ Settings!Stop PROVE Bounds'
    BY <1>1, <1>4 DEF Settings!Write, Settings!Sync, Settings!Close, Settings!Rename, Settings!Unlink, Settings!Start, Settings!Commit, Settings!Stop, Settings!Storage
  <1>5. ASSUME NEW h \in Handler, Settings!Register(h) PROVE Bounds'
    BY <1>1, <1>5 DEF Settings!Register
  <1>6. ASSUME NEW name, Settings!Visit(name) PROVE Bounds'
    BY <1>1, <1>6 DEF Settings!Visit
  <1>7. CASE UNCHANGED Settings!vars
    BY <1>1, <1>7 DEF Settings!vars
  <1>8. QED
    BY <1>2, <1>3, <1>4, <1>5, <1>6, <1>7 DEF Settings!Next

(* What a step finds and what it leaves.                                   *)
SettingsInv == StoreInv /\ SaveInv /\ LitterInv /\ LoadInv /\ CommitInv /\ Bounds

(* The invariant is kept by every step.                                    *)
LEMMA SettingsKept ==
  ASSUME Settings!SettingsAssumption, SettingsInv, [Settings!Next]_(Settings!vars)
  PROVE  SettingsInv'
PROOF
  <1>1. StoreInv /\ SaveInv /\ LitterInv /\ LoadInv /\ CommitInv /\ Bounds
    BY DEF SettingsInv
  <1>2. handlers \in Seq(Handler)
    BY <1>1 DEF CommitInv
  <1>3. StoreInv' /\ SaveInv' /\ LitterInv'
    BY <1>1, MediumKept
  <1>4. LoadInv'
    BY <1>1, <1>2, LoadKept
  <1>5. CommitInv' /\ Bounds'
    BY <1>1, CommitKept, BoundsKept
  <1>6. QED
    BY <1>3, <1>4, <1>5 DEF SettingsInv

(* What the invariant says of a state.                                     *)
LEMMA SettingsMeaning ==
  ASSUME Settings!SettingsAssumption, SettingsInv
  PROVE  Settings!TypeOK /\ Settings!KeyWhole /\ Settings!NoLitter /\ Settings!CommitsInOrder
PROOF
  <1>1. Settings!KeyWhole
    BY DEF SettingsInv, StoreInv, Settings!KeyWhole
  <1>2. Settings!NoLitter
    BY DEF SettingsInv, LitterInv, Settings!NoLitter
  <1>3. Settings!CommitsInOrder
    BY DEF SettingsInv, CommitInv, Ordered, Settings!CommitsInOrder
  <1>4. Settings!Range(handlers) \subseteq Handler
    BY DEF SettingsInv, CommitInv, Settings!Range
  <1>5. Settings!TypeOK
    <2>1. keyFile \in [Key -> Settings!Content] /\ keyTemp \in [Key -> Settings!Content]
      BY DEF SettingsInv, StoreInv
    <2>2. /\ keySave.pc \in {"idle", "write", "sync", "close", "rename", "unlink"}
          /\ keyLoad.pc \in {"off", "visit", "commit", "up", "failed"}
      BY DEF SettingsInv, SaveInv, LoadInv, Steps
    <2>3. \A k \in Key : keyFile[k].sync <= keyFile[k].n /\ keyTemp[k].sync <= keyTemp[k].n
      BY DEF SettingsInv, StoreInv
    <2>4. keyOps \in 0 .. MaxOps /\ crashes \in 0 .. MaxCrashes
      BY DEF SettingsInv, Bounds
    <2>5. QED
      BY <1>4, <2>1, <2>2, <2>3, <2>4 DEF Settings!TypeOK
  <1>6. QED
    BY <1>1, <1>2, <1>3, <1>5

(* What the invariant says of the step that ends a load.                   *)
LEMMA LoadEnds ==
  ASSUME Settings!SettingsAssumption, SettingsInv, [Settings!Next]_(Settings!vars)
  PROVE  Settings!LoadIsTrue
PROOF
  <1> SUFFICES ASSUME keyLoad.pc = "visit", keyLoad'.pc = "commit"
               PROVE  loaded = acked /\ \A k \in Key : keyTemp[k].v = None
    BY DEF Settings!LoadIsTrue
  <1>1. keyLoad.left = {}
    <2>1. {"pc", "left", "hs"} \subseteq DOMAIN keyLoad /\ keySave.pc = "idle"
      BY DEF SettingsInv, LoadInv, SaveInv
    <2>2. ~(\E name \in [k : Key, tmp : BOOLEAN] : Settings!Visit(name))
      BY <2>1 DEF Settings!Visit, Settings!NoLoad
    <2>3. ~Settings!Start /\ ~Settings!Crash /\ ~Settings!Stop
      BY DEF Settings!Start, Settings!Crash, Settings!Stop, Settings!NoLoad
    <2>4. keyLoad' # keyLoad
      OBVIOUS
    <2>5. /\ \A h \in Handler : ~Settings!Register(h)
          /\ \A k \in Key : ~Settings!Delete(k) /\ \A v \in Value : ~Settings!Open(k, v)
          /\ ~Settings!Write /\ ~Settings!Sync /\ ~Settings!Close /\ ~Settings!Rename /\ ~Settings!Unlink /\ ~UNCHANGED Settings!vars
      BY <2>4 DEF Settings!Register, Settings!Delete, Settings!Open, Settings!Write, Settings!Sync, Settings!Close, Settings!Rename, Settings!Unlink, Settings!Storage, Settings!vars
    <2>6. Settings!Commit
      BY <2>2, <2>3, <2>5 DEF Settings!Next
    <2>7. QED
      BY <2>6 DEF Settings!Commit
  <1>2. \A k \in Key : keyTemp[k].v = None /\ loaded[k] = keyFile[k].v /\ keyFile[k].v = acked[k]
    BY <1>1 DEF SettingsInv, LoadInv, StoreInv
  <1>3. loaded \in [Key -> Value \cup {None}] /\ acked \in [Key -> Value \cup {None}]
    BY DEF SettingsInv, LoadInv, StoreInv
  <1>4. QED
    BY <1>2, <1>3

(* Every reachable state satisfies the invariant.                          *)
LEMMA SettingsHold ==
  ASSUME Settings!SettingsAssumption
  PROVE  Settings!Spec => []SettingsInv
PROOF
  <1>1. Settings!Init => SettingsInv
    BY StoreInit DEF SettingsInv
  <1>2. SettingsInv /\ [Settings!Next]_(Settings!vars) => SettingsInv'
    BY SettingsKept
  <1>3. QED
    BY <1>1, <1>2, PTL DEF Settings!Spec

(* The file of a key is the whole value of the last save that succeeded,   *)
(* no temporary file outlives its save unless the supply failed, and the   *)
(* handlers commit after the load in the order of their numbers.           *)
THEOREM SavedIsWhole ==
  ASSUME Settings!SettingsAssumption
  PROVE  Settings!Spec => [](Settings!TypeOK /\ Settings!KeyWhole /\ Settings!NoLitter /\ Settings!CommitsInOrder)
PROOF
  <1>1. SettingsInv => Settings!TypeOK /\ Settings!KeyWhole /\ Settings!NoLitter /\ Settings!CommitsInOrder
    BY SettingsMeaning
  <1>2. QED
    BY <1>1, SettingsHold, PTL

(* A load that ends with success has given every stored key to its handler *)
(* with the value of the last save that succeeded, and has met no          *)
(* half-written file.                                                      *)
THEOREM LoadsWhatWasSaved ==
  ASSUME Settings!SettingsAssumption
  PROVE  Settings!Spec => [][Settings!LoadIsTrue]_(Settings!vars)
PROOF
  <1>1. SettingsInv /\ [Settings!Next]_(Settings!vars) => [Settings!LoadIsTrue]_(Settings!vars)
    BY LoadEnds
  <1>2. QED
    BY <1>1, SettingsHold, PTL DEF Settings!Spec

-----------------------------------------------------------------------------
(* The daemon of the hub, the commands that wait for it, and advertising *)

Daemon == INSTANCE Lifecycle

(* The steps of a daemon that runs, and of one that is over.               *)
Services == {"scheduler", "tx", "imu", "sensor", "bundle"}
LifeActive == Services \cup {"transport", "run", "transport_stop", "services_stop", "end"}
LifeOver == {"post", "ended"}

(* The services come up in this order.                                     *)
LEMMA ServiceOrder ==
  /\ {Daemon!Service[i] : i \in 1 .. Len(Daemon!Service)} = Services
  /\ Daemon!Before("scheduler") = {} /\ Daemon!Before("tx") = {"scheduler"} /\ Daemon!Before("imu") = {"scheduler", "tx"}
  /\ Daemon!Before("sensor") = {"scheduler", "tx", "imu"} /\ Daemon!Before("bundle") = {"scheduler", "tx", "imu", "sensor"}
  /\ Daemon!Service[Daemon!Index("scheduler") + 1] = "tx" /\ Daemon!Service[Daemon!Index("tx") + 1] = "imu"
  /\ Daemon!Service[Daemon!Index("imu") + 1] = "sensor" /\ Daemon!Service[Daemon!Index("sensor") + 1] = "bundle"
PROOF
  <1>1. /\ Len(Daemon!Service) = 5 /\ Daemon!Service[1] = "scheduler" /\ Daemon!Service[2] = "tx" /\ Daemon!Service[3] = "imu"
        /\ Daemon!Service[4] = "sensor" /\ Daemon!Service[5] = "bundle"
    BY DEF Daemon!Service
  <1>2. 1 .. 5 = {1, 2, 3, 4, 5} /\ 1 .. 4 = {1, 2, 3, 4} /\ 1 .. 3 = {1, 2, 3} /\ 1 .. 2 = {1, 2} /\ 1 .. 1 = {1}
        /\ 1 .. 0 = {}
    OBVIOUS
  <1>3. /\ Daemon!Index("scheduler") = 1 /\ Daemon!Index("tx") = 2 /\ Daemon!Index("imu") = 3 /\ Daemon!Index("sensor") = 4 /\ Daemon!Index("bundle") = 5
    BY <1>1, <1>2 DEF Daemon!Index
  <1>4. {Daemon!Service[i] : i \in 1 .. Len(Daemon!Service)} = Services
    BY <1>1, <1>2 DEF Services
  <1>5. /\ Daemon!Before("scheduler") = {} /\ Daemon!Before("tx") = {"scheduler"} /\ Daemon!Before("imu") = {"scheduler", "tx"}
        /\ Daemon!Before("sensor") = {"scheduler", "tx", "imu"} /\ Daemon!Before("bundle") = {"scheduler", "tx", "imu", "sensor"}
    BY <1>1, <1>2, <1>3 DEF Daemon!Before
  <1>6. QED
    BY <1>1, <1>3, <1>4, <1>5

(* The shape of the state: so many daemons were started, each is           *)
(* somewhere.                                                              *)
LifeTyped ==
  /\ starts \in Nat /\ starts <= MaxStarts /\ pc = [d \in Daemon!Daemon |-> pc[d]]

(* Only the newest daemon runs, and it runs exactly while the flag is set. *)
LifeNewest ==
  /\ g_running => starts > 0
  /\ \A d \in Daemon!Daemon : /\ d = starts /\ g_running => pc[d] \in LifeActive
                              /\ d < starts \/ (d = starts /\ ~g_running) => pc[d] \in LifeOver
                              /\ d > starts => pc[d] = "none"

(* What is up belongs to it, and no more than it has brought up so far.    *)
HeldAt(s, h) ==
  /\ s \in Services => \A x \in h : x[1] \in Daemon!Before(s)
  /\ s = "end" => h = {}

(* What is up is of the newest daemon, while it runs, and fits its place.  *)
LifeHeld ==
  /\ \A h \in held : h = <<h[1], starts>> /\ g_running
  /\ g_running => HeldAt(pc[starts], held)

(* The transport is started only where a daemon runs it, unless the host   *)
(* could not be disabled.                                                  *)
LifeTransport ==
  g_started /\ ~stuck => g_running /\ pc[starts] \in {"run", "transport_stop"}

LifeInv == LifeTyped /\ LifeNewest /\ LifeHeld /\ LifeTransport

(* At first no daemon runs and nothing is up.                              *)
LEMMA LifeStarts == ASSUME Daemon!LifecycleAssumption, Daemon!Init PROVE LifeInv
  BY DEF Daemon!LifecycleAssumption, Daemon!Init, LifeInv, LifeTyped, LifeNewest, LifeHeld, LifeTransport, Daemon!Daemon

(* The running daemon goes on.                                             *)
LEMMA DaemonGoesOn ==
  ASSUME Daemon!LifecycleAssumption, LifeInv, NEW d \in Daemon!Daemon, NEW s \in LifeActive, pc[d] \in LifeActive, Daemon!To(d, s),
         \A h \in held' : h = <<h[1], d>>, HeldAt(s, held'), g_started' /\ ~stuck' => s \in {"run", "transport_stop"},
         UNCHANGED <<g_running, starts>>
  PROVE  LifeInv'
PROOF
  <1> USE DEF LifeInv
  <1>1. d = starts /\ g_running /\ d \in Nat /\ d > 0
    BY DEF LifeNewest, LifeActive, LifeOver, Services, LifeTyped, Daemon!Daemon, Daemon!LifecycleAssumption
  <1>2. pc' = [e \in Daemon!Daemon |-> pc'[e]] /\ pc'[d] = s /\ \A e \in Daemon!Daemon \ {d} : pc'[e] = pc[e]
    BY DEF Daemon!To, LifeTyped
  <1>3. LifeTyped'
    BY <1>2 DEF LifeTyped
  <1>4. LifeNewest'
    BY <1>1, <1>2 DEF LifeNewest, LifeTyped
  <1>5. LifeHeld' /\ LifeTransport'
    BY <1>1, <1>2 DEF LifeHeld, LifeTransport
  <1>6. QED
    BY <1>3, <1>4, <1>5

(* Each step of a daemon.                                                  *)
LEMMA DaemonSteps == ASSUME Daemon!LifecycleAssumption, LifeInv, NEW d \in Daemon!Daemon, Daemon!DaemonStep(d) PROVE LifeInv'
PROOF
  <1> USE DEF Daemon!DaemonKeep
  <1>1. pc[d] \in LifeActive => /\ d = starts /\ g_running /\ \A h \in held : h = <<h[1], d>>
                               /\ HeldAt(pc[d], held)
    BY DEF LifeInv, LifeNewest, LifeHeld, LifeActive, LifeOver, Services, LifeTyped, Daemon!Daemon, Daemon!LifecycleAssumption
  <1>2. pc[d] \in LifeActive /\ g_started /\ ~stuck => pc[d] \in {"run", "transport_stop"}
    BY <1>1 DEF LifeInv, LifeTransport
  <1>3. ASSUME NEW s \in Services, pc[d] = s, NEW next \in LifeActive,
               held' = held \cup {<<s, d>>}, Daemon!To(d, next), next \notin {"run", "transport_stop", "end"},
               next \in Services => Daemon!Before(next) = Daemon!Before(s) \cup {s},
               UNCHANGED <<g_running, starts, g_started, stuck>>
        PROVE  LifeInv'
    <2>1. pc[d] \in LifeActive /\ s \notin {"run", "transport_stop"}
      BY <1>3 DEF LifeActive, Services
    <2>2. /\ \A h \in held' : h = <<h[1], d>>
          /\ next \in Services => \A x \in held' : x[1] \in Daemon!Before(next)
      BY <1>1, <1>3, <2>1 DEF HeldAt
    <2>3. QED
      BY <1>2, <1>3, <2>1, <2>2, DaemonGoesOn DEF HeldAt
  <1>4. ASSUME NEW s \in LifeActive, Daemon!To(d, s), pc[d] \in LifeActive, s \notin Services, s # "end",
               held' = held, UNCHANGED <<g_running, starts>>,
               g_started' /\ ~stuck' => s \in {"run", "transport_stop"}
        PROVE  LifeInv'
    BY <1>1, <1>4, DaemonGoesOn DEF HeldAt
  <1>5. CASE Daemon!Up(d)
    <2>1. PICK s \in Services :
            /\ pc[d] = s
            /\ \/ held' = held \cup {<<s, d>>} /\ Daemon!To(d, IF s = "bundle" THEN "transport" ELSE Daemon!Service[Daemon!Index(s) + 1])
               \/ held' = held \ {<<b, d>> : b \in Daemon!Before(s)} /\ Daemon!To(d, "end")
            /\ UNCHANGED <<g_running, starts, g_started, stuck>>
      BY <1>5, ServiceOrder DEF Daemon!Up
    <2>2. CASE held' = held \ {<<b, d>> : b \in Daemon!Before(s)} /\ Daemon!To(d, "end")
      <3>1. pc[d] \in LifeActive /\ pc[d] \notin {"run", "transport_stop"} /\ "end" \in LifeActive
            /\ "end" \notin Services
        BY <2>1 DEF LifeActive, Services
      <3>2. \A h \in held : h = <<h[1], d>> /\ h[1] \in Daemon!Before(s)
        BY <1>1, <2>1, <3>1 DEF HeldAt
      <3>3. held' = {}
        BY <2>2, <3>2
      <3>4. QED
        BY <1>2, <2>1, <2>2, <3>1, <3>3, DaemonGoesOn DEF HeldAt
    <2>3. CASE held' = held \cup {<<s, d>>} /\ Daemon!To(d, IF s = "bundle" THEN "transport" ELSE Daemon!Service[Daemon!Index(s) + 1])
      <3> DEFINE next == IF s = "bundle" THEN "transport" ELSE Daemon!Service[Daemon!Index(s) + 1]
      <3>1. /\ next \in LifeActive /\ next \notin {"run", "transport_stop", "end"}
            /\ next \in Services => Daemon!Before(next) = Daemon!Before(s) \cup {s}
        BY ServiceOrder DEF Services, LifeActive
      <3> HIDE DEF next
      <3>2. Daemon!To(d, next)
        BY <2>3 DEF next
      <3>3. QED
        BY <1>3, <2>1, <2>3, <3>1, <3>2
    <2>4. QED
      BY <2>1, <2>2, <2>3
  <1>6. CASE Daemon!TransportStart(d)
    <2>1. /\ pc[d] = "transport" /\ held' = held /\ UNCHANGED <<g_running, starts, stuck>>
          /\ \/ g_started' = g_started /\ Daemon!To(d, "services_stop")
             \/ Daemon!To(d, "run")
      BY <1>6 DEF Daemon!TransportStart
    <2>2. pc[d] \in LifeActive /\ ~(g_started /\ ~stuck) /\ {"run", "services_stop"} \subseteq LifeActive \ Services
      BY <1>2, <2>1 DEF LifeActive, Services
    <2>3. QED
      BY <1>4, <2>1, <2>2
  <1>7. CASE Daemon!TakeRequest(d)
    <2>1. /\ pc[d] = "run" /\ held' = held /\ UNCHANGED <<g_running, starts, stuck, g_started>>
          /\ Daemon!To(d, "transport_stop")
      BY <1>7 DEF Daemon!TakeRequest
    <2>2. QED
      BY <1>4, <2>1 DEF LifeActive, Services
  <1>8. CASE Daemon!TransportStop(d)
    <2>1. /\ pc[d] = "transport_stop" /\ held' = held /\ UNCHANGED <<g_running, starts>>
          /\ Daemon!To(d, "services_stop") /\ ~(g_started' /\ ~stuck')
      BY <1>8 DEF Daemon!TransportStop
    <2>2. QED
      BY <1>4, <2>1 DEF LifeActive, Services
  <1>9. CASE Daemon!ServicesStop(d)
    <2>1. /\ pc[d] = "services_stop" /\ held' = {h \in held : h[2] # d} /\ Daemon!To(d, "end")
          /\ UNCHANGED <<g_running, starts, stuck, g_started>>
      BY <1>9 DEF Daemon!ServicesStop
    <2>2. pc[d] \in LifeActive /\ "end" \in LifeActive \ Services
      BY <2>1 DEF LifeActive, Services
    <2>3. held' = {}
      BY <1>1, <2>1, <2>2
    <2>4. QED
      BY <1>2, <2>1, <2>2, <2>3, DaemonGoesOn DEF HeldAt
  <1>10. CASE Daemon!End(d)
    <2> USE DEF LifeInv
    <2>1. /\ pc[d] = "end" /\ ~g_running' /\ Daemon!To(d, "post")
          /\ UNCHANGED <<held, g_started, stuck, starts>>
      BY <1>10 DEF Daemon!End
    <2>2. d = starts /\ g_running /\ held = {} /\ d \in Nat /\ ~(g_started /\ ~stuck)
      BY <1>1, <1>2, <2>1 DEF LifeActive, HeldAt, Daemon!Daemon
    <2>3. /\ pc' = [e \in Daemon!Daemon |-> pc'[e]] /\ pc'[d] \in LifeOver
          /\ \A e \in Daemon!Daemon \ {d} : pc'[e] = pc[e]
      BY <2>1 DEF Daemon!To, LifeTyped, LifeOver
    <2>4. LifeTyped'
      BY <2>1, <2>3 DEF LifeTyped
    <2>5. LifeNewest'
      BY <2>1, <2>2, <2>3 DEF LifeNewest, LifeTyped
    <2>6. LifeHeld' /\ LifeTransport'
      BY <2>1, <2>2 DEF LifeHeld, LifeTransport
    <2>7. QED
      BY <2>4, <2>5, <2>6
  <1>11. CASE Daemon!Post(d)
    <2> USE DEF LifeInv
    <2>1. /\ pc[d] = "post" /\ Daemon!To(d, "ended")
          /\ UNCHANGED <<g_running, held, g_started, stuck, starts>>
      BY <1>11 DEF Daemon!Post
    <2>2. (d < starts \/ (d = starts /\ ~g_running)) /\ d \in Nat
      BY <2>1 DEF LifeNewest, LifeActive, LifeOver, Services, LifeTyped, Daemon!Daemon, Daemon!LifecycleAssumption
    <2>3. /\ pc' = [e \in Daemon!Daemon |-> pc'[e]] /\ pc'[d] \in LifeOver
          /\ \A e \in Daemon!Daemon \ {d} : pc'[e] = pc[e]
      BY <2>1 DEF Daemon!To, LifeTyped, LifeOver
    <2>4. LifeTyped' /\ LifeNewest'
      BY <2>1, <2>2, <2>3 DEF LifeTyped, LifeNewest
    <2>5. g_running => starts \in Daemon!Daemon /\ starts # d
      BY <2>2 DEF LifeNewest, LifeTyped, Daemon!Daemon, Daemon!LifecycleAssumption
    <2>6. LifeHeld' /\ LifeTransport'
      BY <2>1, <2>3, <2>5 DEF LifeHeld, LifeTransport
    <2>7. QED
      BY <2>4, <2>6
  <1>12. QED
    BY <1>5, <1>6, <1>7, <1>8, <1>9, <1>10, <1>11 DEF Daemon!DaemonStep

(* A command starts a daemon: there is none that runs.                     *)
LEMMA DaemonStarts == ASSUME Daemon!LifecycleAssumption, LifeInv, NEW c \in Cli, Daemon!Start(c) PROVE LifeInv'
PROOF
  <1> USE DEF LifeInv
  <1>1. ~g_running /\ starts < MaxStarts /\ UNCHANGED <<held, g_started, stuck>>
    BY DEF Daemon!Start
  <1>2. held = {} /\ ~(g_started /\ ~stuck)
    BY <1>1 DEF LifeHeld, LifeTransport
  <1>3. CASE UNCHANGED <<g_running, starts, pc>>
    BY <1>1, <1>3 DEF LifeTyped, LifeNewest, LifeHeld, LifeTransport
  <1>4. CASE g_running' = TRUE /\ starts' = starts + 1 /\ pc' = [pc EXCEPT ![starts + 1] = "scheduler"]
    <2>1. /\ starts + 1 \in Daemon!Daemon /\ starts \in Nat /\ MaxStarts \in Nat
      BY <1>1 DEF LifeTyped, Daemon!Daemon, Daemon!LifecycleAssumption
    <2>2. /\ pc' = [e \in Daemon!Daemon |-> pc'[e]] /\ pc'[starts + 1] = "scheduler"
          /\ \A e \in Daemon!Daemon \ {starts + 1} : pc'[e] = pc[e]
      BY <1>4, <2>1 DEF LifeTyped
    <2>3. LifeTyped'
      BY <1>1, <1>4, <2>1, <2>2 DEF LifeTyped
    <2>4. LifeNewest'
      BY <1>1, <1>4, <2>1, <2>2 DEF LifeNewest, LifeActive, Services, Daemon!Daemon
    <2>5. LifeHeld' /\ LifeTransport'
      BY <1>1, <1>2, <1>4, <2>2 DEF LifeHeld, LifeTransport, HeldAt
    <2>6. QED
      BY <2>3, <2>4, <2>5
  <1>5. QED
    BY <1>3, <1>4 DEF Daemon!Start, Daemon!Launch, Daemon!LaunchFails

(* Every step is of a daemon, a command or the receiver.                   *)
LEMMA LifeStep == Daemon!LifecycleAssumption /\ LifeInv /\ [Daemon!Next]_(Daemon!vars) => LifeInv'
PROOF
  <1> SUFFICES ASSUME Daemon!LifecycleAssumption, LifeInv, [Daemon!Next]_(Daemon!vars) PROVE LifeInv'
    OBVIOUS
  <1>1. ASSUME NEW d \in Daemon!Daemon, Daemon!DaemonStep(d) PROVE LifeInv'
    BY <1>1, DaemonSteps
  <1>2. ASSUME NEW c \in Cli, Daemon!Start(c) PROVE LifeInv'
    BY <1>2, DaemonStarts
  <1>3. CASE Daemon!Receive \/ UNCHANGED Daemon!vars \/ \E c \in Cli : Daemon!Stop(c) \/ Daemon!StopStep(c)
    <2>1. UNCHANGED <<g_running, starts, pc, held, g_started, stuck>>
      BY <1>3 DEF Daemon!Receive, Daemon!vars, Daemon!Stop, Daemon!StopStep, Daemon!Ask, Daemon!Woken, Daemon!TimedOut, Daemon!Return, Daemon!CliKeep
    <2>2. QED
      BY <2>1 DEF LifeInv, LifeTyped, LifeNewest, LifeHeld, LifeTransport
  <1>4. QED
    BY <1>1, <1>2, <1>3 DEF Daemon!Next

(* One daemon at a time has services up, and when none is running none of  *)
(* them is left, whichever step of a start failed; the transport can be    *)
(* started again unless the host could not be disabled.                    *)
THEOREM DaemonEndsClean == ASSUME Daemon!LifecycleAssumption PROVE Daemon!Spec => []Daemon!EndsClean
PROOF
  <1>1. Daemon!Init => LifeInv
    BY LifeStarts
  <1>2. LifeInv /\ [Daemon!Next]_(Daemon!vars) => LifeInv'
    BY LifeStep
  <1>3. LifeInv => Daemon!EndsClean
    BY DEF LifeInv, LifeHeld, LifeTransport, Daemon!EndsClean
  <1>4. QED
    BY <1>1, <1>2, <1>3, PTL DEF Daemon!Spec

(* A daemon that is over and has not posted, or a post that nobody has     *)
(* taken, was there before the daemon that runs was started: start drains  *)
(* what has been posted.                                                   *)
PromptPosts ==
  /\ stopped \in Nat /\ stop_request \in Nat /\ crossing = [d \in Daemon!Daemon |-> crossing[d]]
  /\ g_running /\ (stopped > 0 \/ \E d \in Daemon!Daemon : pc[d] = "post") => "post" \in crossing[starts]

(* Who waits for a daemon or is back from it has told it, and who was      *)
(* woken found it over, unless an older one had still to post.             *)
PromptCall(k) ==
  /\ {"pc", "for", "ok"} \subseteq DOMAIN k
  /\ k.pc \in {"ask", "wait", "back"} => k.for \in 1 .. starts
  /\ k.pc \in {"ask", "wait"} => ~k.ok
  /\ k.pc \in {"wait", "back"} => Daemon!Told(k.for)
  /\ k.pc = "back" /\ k.ok => pc[k.for] \in Daemon!Over \/ "post" \in crossing[k.for]

(* The same of what a call becomes, in a step that moves no daemon.        *)
PromptCallAfter(k) ==
  /\ {"pc", "for", "ok"} \subseteq DOMAIN k
  /\ k.pc \in {"ask", "wait", "back"} => k.for \in 1 .. starts
  /\ k.pc \in {"ask", "wait"} => ~k.ok
  /\ k.pc \in {"wait", "back"} => Daemon!Told(k.for) \/ stop_request' > 0
  /\ k.pc = "back" /\ k.ok => pc[k.for] \in Daemon!Over \/ "post" \in crossing[k.for]

PromptCalls == cli = [c \in Cli |-> cli[c]] /\ \A c \in Cli : PromptCall(cli[c])

PromptInv == LifeInv /\ PromptPosts /\ PromptCalls

(* At first no daemon runs and no command waits.                           *)
LEMMA PromptStarts == ASSUME Daemon!LifecycleAssumption, Daemon!Init PROVE PromptInv
PROOF
  <1>1. PromptPosts
    BY DEF Daemon!Init, PromptPosts
  <1>2. PromptCalls
    BY DEF Daemon!Init, Daemon!NoCall, PromptCalls, PromptCall
  <1>3. QED
    BY <1>1, <1>2, LifeStarts DEF PromptInv

(* All daemons but the one that runs are over.                             *)
LEMMA OthersAreOver ==
  ASSUME Daemon!LifecycleAssumption, LifeInv, NEW d \in Daemon!Daemon
  PROVE  /\ d \in Nat /\ starts \in Nat /\ starts <= MaxStarts /\ MaxStarts \in Nat
         /\ pc[d] \in LifeActive => d = starts /\ g_running
         /\ d \in 1 .. starts /\ ~(d = starts /\ g_running) => pc[d] \in Daemon!Over
         /\ pc[d] = "post" => ~(d = starts /\ g_running)
  BY DEF LifeInv, LifeTyped, LifeNewest, LifeActive, LifeOver, Daemon!Over, Services, Daemon!Daemon, Daemon!LifecycleAssumption

(* A step that changes no command leaves what is true of each call: no     *)
(* daemon comes back from being over or forgets what it was told.          *)
LEMMA CallsStay ==
  ASSUME Daemon!LifecycleAssumption, LifeInv, PromptCalls, UNCHANGED cli, starts' \in Nat, starts' >= starts,
         \A d \in 1 .. starts : /\ pc[d] \in Daemon!Over => pc'[d] \in Daemon!Over
                                /\ Daemon!Told(d) => Daemon!Told(d)'
                                /\ crossing'[d] = crossing[d]
  PROVE  PromptCalls'
PROOF
  <1>1. \A c \in Cli : cli[c].pc \in {"ask", "wait", "back"} => cli[c].for \in 1 .. starts /\ cli[c].for \in 1 .. starts'
    BY DEF PromptCalls, PromptCall, LifeInv, LifeTyped
  <1>2. ASSUME NEW c \in Cli PROVE PromptCall(cli[c])'
    BY <1>1, <1>2 DEF PromptCalls, PromptCall
  <1>3. QED
    BY <1>2 DEF PromptCalls

(* A daemon's step: the newest goes on or ends, or one that is over posts. *)
LEMMA PromptDaemon ==
  ASSUME Daemon!LifecycleAssumption, PromptInv, NEW d \in Daemon!Daemon, Daemon!DaemonStep(d) PROVE PromptInv'
PROOF
  <1>1. LifeInv /\ PromptPosts /\ PromptCalls /\ LifeInv'
    BY DaemonSteps DEF PromptInv
  <1>2. UNCHANGED <<starts, cli, crossing>>
    BY DEF Daemon!DaemonStep, Daemon!Up, Daemon!TransportStart, Daemon!TakeRequest, Daemon!TransportStop, Daemon!ServicesStop, Daemon!End, Daemon!Post, Daemon!DaemonKeep
  <1>3. starts \in Nat /\ pc = [e \in Daemon!Daemon |-> pc[e]] /\ \A e \in 1 .. starts : e \in Daemon!Daemon
    BY <1>1 DEF LifeInv, LifeTyped, Daemon!Daemon, Daemon!LifecycleAssumption
  <1>4. /\ pc[d] \in LifeActive => d = starts /\ g_running
        /\ pc[d] = "post" => ~(d = starts /\ g_running)
    BY <1>1, OthersAreOver
  <1>5. ASSUME NEW s, Daemon!To(d, s), pc[d] \in LifeActive, s # "post",
               pc[d] \in {"transport_stop", "services_stop", "end"} => s \in {"transport_stop", "services_stop", "end"},
               UNCHANGED <<g_running, stopped, stop_request>>
        PROVE  PromptInv'
    <2>1. pc'[d] = s /\ \A e \in Daemon!Daemon \ {d} : pc'[e] = pc[e]
      BY <1>3, <1>5 DEF Daemon!To
    <2>2. PromptPosts'
      BY <1>1, <1>2, <1>5, <2>1 DEF PromptPosts
    <2>3. pc[d] \notin Daemon!Over
      BY <1>5 DEF LifeActive, Services, Daemon!Over
    <2>4. PromptCalls'
      <3>1. \A e \in 1 .. starts : /\ pc[e] \in Daemon!Over => pc'[e] \in Daemon!Over
                                   /\ Daemon!Told(e) => Daemon!Told(e)'
        BY <1>3, <1>5, <2>1, <2>3 DEF Daemon!Told
      <3>2. QED
        BY <1>1, <1>2, <1>3, <3>1, CallsStay
    <2>5. QED
      BY <1>1, <2>2, <2>4 DEF PromptInv
  <1>6. CASE Daemon!Up(d)
    <2>1. PICK s \in Services :
            /\ pc[d] = s
            /\ Daemon!To(d, "end") \/ Daemon!To(d, IF s = "bundle" THEN "transport" ELSE Daemon!Service[Daemon!Index(s) + 1])
            /\ UNCHANGED <<g_running, stopped, stop_request>>
      BY <1>6, ServiceOrder DEF Daemon!Up
    <2> DEFINE next == IF s = "bundle" THEN "transport" ELSE Daemon!Service[Daemon!Index(s) + 1]
    <2>2. next \in LifeActive /\ next # "post" /\ pc[d] \in LifeActive
          /\ pc[d] \notin {"transport_stop", "services_stop", "end"}
      BY <2>1, ServiceOrder DEF Services, LifeActive
    <2>3. Daemon!To(d, "end") \/ Daemon!To(d, next)
      BY <2>1
    <2> HIDE DEF next
    <2>4. QED
      BY <1>5, <2>1, <2>2, <2>3
  <1>7. CASE Daemon!TransportStart(d)
    BY <1>5, <1>7 DEF Daemon!TransportStart, LifeActive
  <1>8. CASE Daemon!TakeRequest(d)
    <2>1. /\ pc[d] = "run" /\ Daemon!To(d, "transport_stop") /\ stop_request > 0 /\ stop_request' = stop_request - 1
          /\ UNCHANGED <<g_running, stopped>>
      BY <1>8 DEF Daemon!TakeRequest
    <2>2. pc'[d] = "transport_stop" /\ \A e \in Daemon!Daemon \ {d} : pc'[e] = pc[e]
      BY <1>3, <2>1 DEF Daemon!To
    <2>3. d = starts /\ g_running
      BY <1>4, <2>1 DEF LifeActive
    <2>4. PromptPosts'
      BY <1>1, <1>2, <2>1, <2>2 DEF PromptPosts
    <2>5. \A e \in 1 .. starts : pc[e] \in Daemon!Over \/ e = d
      BY <1>1, <1>3, <2>3, OthersAreOver
    <2>6. \A e \in 1 .. starts : /\ pc[e] \in Daemon!Over => pc'[e] \in Daemon!Over
                                 /\ Daemon!Told(e) => Daemon!Told(e)'
      BY <1>3, <2>1, <2>2, <2>5 DEF Daemon!Told, Daemon!Over
    <2>7. QED
      BY <1>1, <1>2, <1>3, <2>4, <2>6, CallsStay DEF PromptInv
  <1>9. CASE Daemon!TransportStop(d)
    BY <1>5, <1>9 DEF Daemon!TransportStop, LifeActive
  <1>10. CASE Daemon!ServicesStop(d)
    BY <1>5, <1>10 DEF Daemon!ServicesStop, LifeActive
  <1>11. CASE Daemon!End(d) \/ Daemon!Post(d)
    <2>1. /\ pc[d] \in {"end", "post"} /\ stop_request' = stop_request
          /\ \/ pc[d] = "end" /\ Daemon!To(d, "post") /\ ~g_running' /\ stopped' = stopped
             \/ pc[d] = "post" /\ Daemon!To(d, "ended") /\ stopped' = stopped + 1 /\ g_running' = g_running
      BY <1>11 DEF Daemon!End, Daemon!Post
    <2>2. pc'[d] \in Daemon!Over /\ \A e \in Daemon!Daemon \ {d} : pc'[e] = pc[e]
      BY <1>3, <2>1 DEF Daemon!To, Daemon!Over
    <2>3. PromptPosts'
      <3>1. stopped' \in Nat
        BY <1>1, <2>1 DEF PromptPosts
      <3>2. g_running' => pc[d] = "post" /\ g_running /\ "post" \in crossing[starts]
        BY <1>1, <2>1 DEF PromptPosts
      <3>3. QED
        BY <1>1, <1>2, <2>1, <3>1, <3>2 DEF PromptPosts
    <2>4. \A e \in 1 .. starts : /\ pc[e] \in Daemon!Over => pc'[e] \in Daemon!Over
                                 /\ Daemon!Told(e) => Daemon!Told(e)'
      BY <1>3, <2>1, <2>2 DEF Daemon!Told
    <2>5. QED
      BY <1>1, <1>2, <1>3, <2>3, <2>4, CallsStay DEF PromptInv
  <1>12. QED
    BY <1>6, <1>7, <1>8, <1>9, <1>10, <1>11 DEF Daemon!DaemonStep

(* A command starts a daemon: all before it are over, and what has been    *)
(* posted is drained.                                                      *)
LEMMA PromptCommandStarts == ASSUME Daemon!LifecycleAssumption, PromptInv, NEW c \in Cli, Daemon!Start(c) PROVE PromptInv'
PROOF
  <1>1. LifeInv /\ PromptPosts /\ PromptCalls /\ LifeInv'
    BY DaemonStarts DEF PromptInv
  <1>2. ~g_running /\ starts < MaxStarts /\ stopped' = 0 /\ stop_request' = 0 /\ UNCHANGED cli
    BY DEF Daemon!Start
  <1>3. /\ starts \in Nat /\ MaxStarts \in Nat /\ pc = [e \in Daemon!Daemon |-> pc[e]]
        /\ starts + 1 \in Daemon!Daemon /\ \A e \in 1 .. starts : e \in Daemon!Daemon /\ e # starts + 1
    BY <1>1, <1>2 DEF LifeInv, LifeTyped, Daemon!Daemon, Daemon!LifecycleAssumption
  <1>4. \A e \in 1 .. starts : pc[e] \in Daemon!Over
    BY <1>1, <1>2, <1>3, OthersAreOver
  <1>5. CASE Daemon!LaunchFails
    <2>1. UNCHANGED <<g_running, starts, pc, crossing>>
      BY <1>5 DEF Daemon!LaunchFails
    <2>2. PromptPosts'
      BY <1>1, <1>2, <2>1 DEF PromptPosts
    <2>3. PromptCalls'
      BY <1>1, <1>2, <1>3, <1>4, <2>1, CallsStay DEF Daemon!Told
    <2>4. QED
      BY <1>1, <2>2, <2>3 DEF PromptInv
  <1>6. CASE Daemon!Launch
    <2>1. g_running' /\ starts' = starts + 1
      BY <1>6 DEF Daemon!Launch
    <2>2. pc'[starts + 1] = "scheduler" /\ \A e \in Daemon!Daemon \ {starts + 1} : pc'[e] = pc[e]
      BY <1>3, <1>6 DEF Daemon!Launch
    <2>3. /\ crossing' = [e \in Daemon!Daemon |-> crossing'[e]] /\ crossing'[starts + 1] = Daemon!Unposted
          /\ \A e \in Daemon!Daemon \ {starts + 1} : crossing'[e] = crossing[e]
      BY <1>1, <1>3, <1>6 DEF Daemon!Launch, PromptPosts
    <2>4. (\E e \in Daemon!Daemon : pc'[e] = "post") => "post" \in Daemon!Unposted
      BY <2>2 DEF Daemon!Unposted
    <2>5. PromptPosts'
      BY <1>1, <1>2, <2>1, <2>3, <2>4 DEF PromptPosts
    <2>6. \A e \in 1 .. starts : /\ pc[e] \in Daemon!Over => pc'[e] \in Daemon!Over
                                 /\ Daemon!Told(e) => Daemon!Told(e)'
                                 /\ crossing'[e] = crossing[e]
      BY <1>3, <1>4, <2>2, <2>3 DEF Daemon!Told
    <2>7. PromptCalls'
      BY <1>1, <1>2, <1>3, <2>1, <2>6, CallsStay
    <2>8. QED
      BY <1>1, <2>5, <2>7 DEF PromptInv
  <1>7. QED
    BY <1>5, <1>6 DEF Daemon!Start

(* A stop command: who is woken finds all daemons over, or the newest one  *)
(* was started before an older one had posted.                             *)
LEMMA PromptCommandStops == ASSUME Daemon!LifecycleAssumption, PromptInv, NEW c \in Cli, Daemon!Stop(c) \/ Daemon!StopStep(c) PROVE PromptInv'
PROOF
  <1>1. LifeInv /\ PromptPosts /\ PromptCalls
    BY DEF PromptInv
  <1>2. UNCHANGED <<g_running, starts, pc, held, g_started, stuck, crossing>>
    BY DEF Daemon!Stop, Daemon!StopStep, Daemon!Ask, Daemon!Woken, Daemon!TimedOut, Daemon!Return, Daemon!CliKeep
  <1>3. LifeInv'
    BY <1>1, <1>2 DEF LifeInv, LifeTyped, LifeNewest, LifeHeld, LifeTransport
  <1>4. ASSUME NEW r, cli' = [cli EXCEPT ![c] = r], stopped' \in Nat, stop_request' \in Nat,
               stopped' > 0 => stopped > 0, stop_request > 0 => stop_request' > 0, PromptCallAfter(r)
        PROVE  PromptInv'
    <2>1. PromptPosts'
      BY <1>1, <1>2, <1>4 DEF PromptPosts
    <2>2. cli' = [k \in Cli |-> cli'[k]] /\ cli'[c] = r /\ \A k \in Cli \ {c} : cli'[k] = cli[k]
      BY <1>1, <1>4 DEF PromptCalls
    <2>3. ASSUME NEW k \in Cli \ {c} PROVE PromptCall(cli[k])'
      BY <1>1, <1>2, <1>4, <2>2 DEF PromptCalls, PromptCall, Daemon!Told
    <2>4. PromptCall(cli[c])'
      BY <1>2, <1>4, <2>2 DEF PromptCall, PromptCallAfter, Daemon!Told
    <2>5. PromptCalls'
      BY <2>2, <2>3, <2>4 DEF PromptCalls
    <2>6. QED
      BY <1>3, <2>1, <2>5 DEF PromptInv
  <1>5. PromptCall(cli[c]) /\ stopped \in Nat /\ stop_request \in Nat /\ starts \in Nat
    BY <1>1 DEF PromptCalls, PromptPosts, LifeInv, LifeTyped
  <1>6. CASE Daemon!Stop(c)
    <2> DEFINE r == [pc |-> "ask", for |-> starts, ok |-> FALSE]
    <2>1. cli' = [cli EXCEPT ![c] = r] /\ g_running /\ UNCHANGED <<stopped, stop_request>>
      BY <1>6 DEF Daemon!Stop
    <2>2. starts \in 1 .. starts
      BY <1>1, <1>5, <2>1 DEF LifeInv, LifeNewest
    <2>3. PromptCallAfter(r)
      BY <1>2, <2>2 DEF PromptCallAfter
    <2> HIDE DEF r
    <2>4. QED
      BY <1>4, <1>5, <2>1, <2>3
  <1>7. CASE Daemon!Ask(c)
    <2> DEFINE r == [cli[c] EXCEPT !.pc = "wait"]
    <2>1. /\ cli[c].pc = "ask" /\ cli' = [cli EXCEPT ![c] = r] /\ stopped' = stopped
          /\ stop_request' = stop_request + 1
      BY <1>7 DEF Daemon!Ask, Daemon!Cl
    <2>2. {"pc", "for", "ok"} \subseteq DOMAIN r /\ r.pc = "wait" /\ r.for = cli[c].for /\ r.ok = cli[c].ok
      BY <1>5 DEF PromptCall
    <2> HIDE DEF r
    <2>3. stop_request' > 0 /\ stop_request' \in Nat
      BY <1>5, <2>1
    <2>4. PromptCallAfter(r)
      BY <1>2, <1>5, <2>1, <2>2, <2>3 DEF PromptCall, PromptCallAfter, Daemon!Told
    <2>5. QED
      BY <1>4, <1>5, <2>1, <2>3, <2>4
  <1>8. CASE Daemon!Woken(c)
    <2> DEFINE r == [cli[c] EXCEPT !.pc = "back", !.ok = TRUE]
    <2>1. /\ cli[c].pc = "wait" /\ cli' = [cli EXCEPT ![c] = r] /\ stopped > 0 /\ stopped' = stopped - 1
          /\ stop_request' = stop_request
      BY <1>8 DEF Daemon!Woken
    <2>2. {"pc", "for", "ok"} \subseteq DOMAIN r /\ r.pc = "back" /\ r.for = cli[c].for
      BY <1>5 DEF PromptCall
    <2> HIDE DEF r
    <2>3. cli[c].for \in 1 .. starts /\ Daemon!Told(cli[c].for)
      BY <1>5, <2>1 DEF PromptCall
    <2>4. cli[c].for \in Daemon!Daemon
      BY <1>1, <2>3 DEF LifeInv, LifeTyped, Daemon!Daemon, Daemon!LifecycleAssumption
    <2>5. pc[cli[c].for] \in Daemon!Over \/ "post" \in crossing[cli[c].for]
      <3>1. CASE cli[c].for = starts /\ g_running
        BY <1>1, <2>1, <3>1 DEF PromptPosts
      <3>2. CASE ~(cli[c].for = starts /\ g_running)
        BY <1>1, <2>3, <2>4, <3>2, OthersAreOver
      <3>3. QED
        BY <3>1, <3>2
    <2>6. PromptCallAfter(r)
      BY <1>2, <2>1, <2>2, <2>3, <2>5 DEF PromptCallAfter
    <2>7. /\ stopped' \in Nat /\ stop_request' \in Nat /\ (stopped' > 0 => stopped > 0)
          /\ (stop_request > 0 => stop_request' > 0)
      BY <1>5, <2>1
    <2>8. QED
      BY <1>4, <2>1, <2>6, <2>7
  <1>9. CASE Daemon!TimedOut(c)
    <2> DEFINE r == [cli[c] EXCEPT !.pc = "back"]
    <2>1. cli[c].pc = "wait" /\ cli' = [cli EXCEPT ![c] = r] /\ UNCHANGED <<stopped, stop_request>>
      BY <1>9 DEF Daemon!TimedOut, Daemon!Cl
    <2>2. {"pc", "for", "ok"} \subseteq DOMAIN r /\ r.pc = "back" /\ r.for = cli[c].for /\ r.ok = cli[c].ok
      BY <1>5 DEF PromptCall
    <2> HIDE DEF r
    <2>3. PromptCallAfter(r)
      BY <1>2, <1>5, <2>1, <2>2 DEF PromptCall, PromptCallAfter, Daemon!Told
    <2>4. QED
      BY <1>4, <1>5, <2>1, <2>3
  <1>10. CASE Daemon!Return(c)
    <2>1. cli' = [cli EXCEPT ![c] = Daemon!NoCall] /\ UNCHANGED <<stopped, stop_request>>
      BY <1>10 DEF Daemon!Return
    <2>2. PromptCallAfter(Daemon!NoCall)
      BY DEF Daemon!NoCall, PromptCallAfter
    <2>3. QED
      BY <1>4, <1>5, <2>1, <2>2
  <1>11. QED
    BY <1>6, <1>7, <1>8, <1>9, <1>10 DEF Daemon!StopStep

(* Every step is of a daemon, a command or the receiver.                   *)
LEMMA PromptStep == ASSUME Daemon!LifecycleAssumption PROVE PromptInv /\ [Daemon!Next]_(Daemon!vars) => PromptInv'
PROOF
  <1> SUFFICES ASSUME PromptInv, [Daemon!Next]_(Daemon!vars) PROVE PromptInv'
    OBVIOUS
  <1>1. ASSUME NEW d \in Daemon!Daemon, Daemon!DaemonStep(d) PROVE PromptInv'
    BY <1>1, PromptDaemon
  <1>2. ASSUME NEW c \in Cli, Daemon!Start(c) PROVE PromptInv'
    BY <1>2, PromptCommandStarts
  <1>3. ASSUME NEW c \in Cli, Daemon!Stop(c) \/ Daemon!StopStep(c) PROVE PromptInv'
    BY <1>3, PromptCommandStops
  <1>4. CASE Daemon!Receive \/ UNCHANGED Daemon!vars
    <2>1. UNCHANGED <<g_running, stopped, stop_request, starts, pc, held, g_started, stuck, cli, crossing>>
      BY <1>4 DEF Daemon!Receive, Daemon!vars
    <2>2. LifeInv'
      BY <2>1 DEF PromptInv, LifeInv, LifeTyped, LifeNewest, LifeHeld, LifeTransport
    <2>3. QED
      BY <2>1, <2>2 DEF PromptInv, PromptPosts, PromptCalls, PromptCall, Daemon!Told
  <1>5. QED
    BY <1>1, <1>2, <1>3, <1>4 DEF Daemon!Next

(* A stop that reports success has stopped the daemon it found running;    *)
(* only where an older one had cleared g_running and not yet posted when   *)
(* the daemon was started may the success be the older one's, and then the *)
(* daemon has been told.                                                   *)
THEOREM StopMeansDown == ASSUME Daemon!LifecycleAssumption PROVE Daemon!Spec => []Daemon!StoppedIsDown
PROOF
  <1>1. Daemon!Init => PromptInv
    BY PromptStarts
  <1>2. PromptInv /\ [Daemon!Next]_(Daemon!vars) => PromptInv'
    BY PromptStep
  <1>3. PromptInv => Daemon!StoppedIsDown
    BY DEF PromptInv, PromptCalls, PromptCall, Daemon!StoppedIsDown
  <1>4. QED
    BY <1>1, <1>2, <1>3, PTL DEF Daemon!Spec

(* The module that Lifecycle counts with is the one the theorems are on. *)
LEMMA DaemonCount ==
  ASSUME NEW S
  PROVE  Daemon!Cardinality(S) = Cardinality(S) /\ (Daemon!IsFiniteSet(S) <=> IsFiniteSet(S))
  BY DEF Cardinality, Daemon!Cardinality, IsFiniteSet, Daemon!IsFiniteSet

(* What the upper layers were told last is that the link is up just when   *)
(* there is one, unless the callback that tells them is on its way; and    *)
(* the generation has not changed since.                                   *)
HubTold ==
  /\ ~events.bad /\ events.up \in BOOLEAN /\ (events.up => events.gen = generation)
  /\ host.pc # "hooks" => (events.up <=> le_connection # "none")
  /\ host.pc = "hooks" => ~events.up /\ le_connection # "none"
  /\ host.pc \in {"connected", "disconnected"} => host.o \in Conn
  /\ host = [pc |-> host.pc, o |-> host.o]
  /\ le_connection \in Conn \cup {"none"}

(* A sender refers to an object just between the two calls of a send.      *)
HubSenders ==
  /\ snd = [s \in Sender |-> snd[s]]
  /\ \A s \in Sender :
       /\ {"pc", "o"} \subseteq DOMAIN snd[s]
       /\ IF snd[s].pc = "notify" THEN snd[s].o \in Conn ELSE snd[s].o = "none"

Holders(o) == {s \in Sender : snd[s].o = o}

HubRefs ==
  /\ refs = [o \in Conn |-> refs[o]]
  /\ \A o \in Conn : refs[o] = (IF le_connection = o THEN 1 ELSE 0) + Daemon!Cardinality(Holders(o))

LEMMA HubStarts == ASSUME Daemon!HubTransportAssumption, Daemon!HubInit PROVE HubTold /\ HubSenders /\ HubRefs
PROOF
  <1>1. HubTold
    BY DEF Daemon!HubInit, HubTold, Daemon!HostIdle, Daemon!None
  <1>2. HubSenders
    BY DEF Daemon!HubInit, HubSenders, Daemon!SndIdle, Daemon!None
  <1>3. \A o \in Conn : Holders(o) = {} /\ refs[o] = 0 /\ le_connection # o
    BY DEF Daemon!HubInit, Holders, Daemon!SndIdle, Daemon!None, Daemon!HubTransportAssumption
  <1>4. refs = [o \in Conn |-> refs[o]]
    BY DEF Daemon!HubInit
  <1>5. QED
    BY <1>1, <1>2, <1>3, <1>4, FS_EmptySet, DaemonCount DEF HubRefs

(* One step per callback, work item, section of the shell's command and    *)
(* call of a sender.                                                       *)
LEMMA HubToldStep == ASSUME Daemon!HubTransportAssumption, HubTold, [Daemon!HubNext]_(Daemon!hubVars) PROVE HubTold'
PROOF
  <1> USE DEF HubTold, Daemon!HostIdle, Daemon!None, Daemon!vis, Daemon!link, Daemon!HubTransportAssumption
  <1>1. ASSUME NEW o \in Conn, Daemon!Connect(o) PROVE HubTold'
    BY <1>1 DEF Daemon!Connect
  <1>2. ASSUME NEW o \in Conn, Daemon!Disconnect(o) \/ Daemon!Recycled(o) PROVE HubTold'
    BY <1>2 DEF Daemon!Disconnect, Daemon!Recycled
  <1>3. CASE Daemon!Connected
    BY <1>3 DEF Daemon!Connected
  <1>4. CASE Daemon!ConnectedHooks
    BY <1>4 DEF Daemon!ConnectedHooks, Daemon!Tell
  <1>5. CASE Daemon!Disconnected
    <2>1. CASE host.o # le_connection
      BY <1>5, <2>1 DEF Daemon!Disconnected
    <2>2. CASE host.o = le_connection
      <3>1. le_connection # "none" /\ events.up /\ events.gen = generation
        BY <1>5, <2>2 DEF Daemon!Disconnected
      <3>2. /\ le_connection' = "none" /\ host' = Daemon!HostIdle /\ UNCHANGED generation
            /\ events' = [up |-> FALSE, gen |-> generation,
                          bad |-> events.bad \/ FALSE = events.up \/ (~FALSE /\ generation # events.gen)]
        BY <1>5, <2>2 DEF Daemon!Disconnected, Daemon!Tell
      <3>3. (FALSE = events.up) = FALSE
        BY <3>1
      <3>4. events'.up = FALSE /\ ~events'.bad
        BY <3>1, <3>2, <3>3
      <3>5. QED
        BY <3>2, <3>4
    <2>3. QED
      BY <2>1, <2>2
  <1>6. CASE Daemon!RestartLook \/ Daemon!RestartStart \/ Daemon!RestartNote
    BY <1>6 DEF Daemon!RestartLook, Daemon!RestartStart, Daemon!RestartNote, Daemon!VisKeep
  <1>7. ASSUME NEW on, Daemon!Shell(on) PROVE HubTold'
    BY <1>7 DEF Daemon!Shell, Daemon!VisKeep
  <1>8. CASE Daemon!On \/ Daemon!OnNote \/ Daemon!Off \/ Daemon!OffScan
    BY <1>8 DEF Daemon!On, Daemon!OnNote, Daemon!Off, Daemon!OffScan, Daemon!VisKeep
  <1>9. ASSUME NEW s \in Sender, Daemon!Capture(s) \/ Daemon!Send(s) \/ Daemon!Notify(s) PROVE HubTold'
    BY <1>9 DEF Daemon!Capture, Daemon!Send, Daemon!Notify, Daemon!SndKeep
  <1>10. CASE UNCHANGED Daemon!hubVars
    BY <1>10 DEF Daemon!hubVars
  <1>11. QED
    BY <1>1, <1>2, <1>3, <1>4, <1>5, <1>6, <1>7, <1>8, <1>9, <1>10 DEF Daemon!HubNext

(* One sender comes to hold an object, or lets go of it.                   *)
LEMMA HoldersCount ==
  ASSUME NEW A, NEW B, Daemon!IsFiniteSet(A), NEW s
  PROVE  /\ Daemon!Cardinality(A) \in Nat
         /\ s \notin A /\ B = A \cup {s} => Daemon!Cardinality(B) = Daemon!Cardinality(A) + 1
         /\ s \in A /\ B = A \ {s} => Daemon!Cardinality(B) = Daemon!Cardinality(A) - 1
PROOF
  <1>1. Daemon!Cardinality(A) \in Nat
    BY FS_CardinalityType, DaemonCount
  <1>2. s \notin A /\ B = A \cup {s} => Daemon!Cardinality(B) = Daemon!Cardinality(A) + 1
    <2>1. Daemon!Cardinality(A \cup {s}) = IF s \in A THEN Daemon!Cardinality(A) ELSE Daemon!Cardinality(A) + 1
      BY FS_AddElement, DaemonCount
    <2>2. QED
      BY <2>1
  <1>3. s \in A /\ B = A \ {s} => Daemon!Cardinality(B) = Daemon!Cardinality(A) - 1
    <2>1. Daemon!Cardinality(A \ {s}) = IF s \in A THEN Daemon!Cardinality(A) - 1 ELSE Daemon!Cardinality(A)
      BY FS_RemoveElement, DaemonCount
    <2>2. QED
      BY <2>1
  <1>4. QED
    BY <1>1, <1>2, <1>3

LEMMA HoldersFinite == ASSUME Daemon!HubTransportAssumption, NEW o PROVE Daemon!IsFiniteSet(Holders(o))
  BY FS_Subset, DaemonCount DEF Daemon!HubTransportAssumption, Holders

(* The senders' records.                                                   *)
LEMMA HubSendersStep ==
  ASSUME Daemon!HubTransportAssumption, HubTold, HubSenders, [Daemon!HubNext]_(Daemon!hubVars) PROVE HubSenders'
PROOF
  <1>1. ASSUME UNCHANGED snd PROVE HubSenders'
    BY <1>1 DEF HubSenders
  <1>2. ASSUME NEW s \in Sender, Daemon!Capture(s) PROVE HubSenders'
    BY <1>2 DEF HubSenders, Daemon!Capture, Daemon!Snd, Daemon!SndIdle, Daemon!None
  <1>3. ASSUME NEW s \in Sender, Daemon!Send(s) PROVE HubSenders'
    <2>1. CASE le_connection = Daemon!None \/ le_identity # snd[s].identity
      BY <1>3, <2>1 DEF HubSenders, Daemon!Send, Daemon!Snd, Daemon!SndIdle, Daemon!None
    <2>2. CASE ~(le_connection = Daemon!None \/ le_identity # snd[s].identity)
      <3>1. snd' = [snd EXCEPT ![s] = [snd[s] EXCEPT !.pc = "notify", !.o = le_connection]]
              /\ le_connection \in Conn
        BY <1>3, <2>2 DEF Daemon!Send, Daemon!Snd, HubTold, Daemon!None
      <3> DEFINE r == [snd[s] EXCEPT !.pc = "notify", !.o = le_connection]
      <3>2. {"pc", "o"} \subseteq DOMAIN r /\ r.pc = "notify" /\ r.o = le_connection
        BY DEF HubSenders
      <3> HIDE DEF r
      <3>3. QED
        BY <3>1, <3>2 DEF HubSenders, r
    <2>3. QED
      BY <2>1, <2>2
  <1>4. ASSUME NEW s \in Sender, Daemon!Notify(s) PROVE HubSenders'
    BY <1>4 DEF HubSenders, Daemon!Notify, Daemon!Snd, Daemon!SndIdle, Daemon!None
  <1>5. QED
    BY <1>1, <1>2, <1>3, <1>4 DEF Daemon!HubNext, Daemon!hubVars, Daemon!Connect, Daemon!Disconnect, Daemon!Recycled, Daemon!Connected, Daemon!ConnectedHooks,
      Daemon!Disconnected, Daemon!RestartLook, Daemon!RestartStart, Daemon!RestartNote, Daemon!Shell, Daemon!On, Daemon!OnNote, Daemon!Off, Daemon!OffScan, Daemon!VisKeep

(* The references.                                                         *)
LEMMA HubRefsStep ==
  ASSUME Daemon!HubTransportAssumption, HubTold, HubSenders, HubRefs, [Daemon!HubNext]_(Daemon!hubVars) PROVE HubRefs'
PROOF
  <1>0. \A o \in Conn : Daemon!IsFiniteSet(Holders(o)) /\ Daemon!Cardinality(Holders(o)) \in Nat
    BY HoldersFinite, FS_CardinalityType, DaemonCount
  <1>1. ASSUME UNCHANGED <<refs, le_connection, snd>> PROVE HubRefs'
    BY <1>1 DEF HubRefs, Holders
  <1>2. CASE Daemon!Connected
    <2>1. UNCHANGED snd
      BY <1>2 DEF Daemon!Connected
    <2>2. \A o \in Conn : Holders(o)' = Holders(o)
      BY <2>1 DEF Holders
    <2>3. CASE le_connection # Daemon!None
      BY <1>1, <1>2, <2>1, <2>3 DEF Daemon!Connected
    <2>4. CASE le_connection = Daemon!None
      <3>1. host.o \in Conn /\ le_connection' = host.o /\ refs' = [refs EXCEPT ![host.o] = @ + 1]
        BY <1>2, <2>4 DEF Daemon!Connected, HubTold
      <3>2. \A o \in Conn : le_connection # o
        BY <2>4 DEF Daemon!None, Daemon!HubTransportAssumption
      <3>3. QED
        BY <1>0, <2>2, <3>1, <3>2 DEF HubRefs
    <2>5. QED
      BY <2>3, <2>4
  <1>3. CASE Daemon!Disconnected
    <2>1. UNCHANGED snd /\ host.o \in Conn
      BY <1>3 DEF Daemon!Disconnected, HubTold
    <2>2. \A o \in Conn : Holders(o)' = Holders(o)
      BY <2>1 DEF Holders
    <2>3. CASE host.o # le_connection
      BY <1>1, <1>3, <2>1, <2>3 DEF Daemon!Disconnected
    <2>4. CASE host.o = le_connection
      <3>1. le_connection' = Daemon!None /\ refs' = [refs EXCEPT ![host.o] = @ - 1]
        BY <1>3, <2>4 DEF Daemon!Disconnected
      <3>2. \A o \in Conn : Daemon!None # o
        BY DEF Daemon!None, Daemon!HubTransportAssumption
      <3>3. QED
        BY <1>0, <2>1, <2>2, <2>4, <3>1, <3>2 DEF HubRefs
    <2>5. QED
      BY <2>3, <2>4
  <1>4. ASSUME NEW s \in Sender, Daemon!Capture(s) PROVE HubRefs'
    <2>1. UNCHANGED <<refs, le_connection>> /\ snd[s].pc # "notify"
            /\ snd' = [snd EXCEPT ![s] = [Daemon!SndIdle EXCEPT !.pc = "send", !.identity = le_identity,
                         !.meant = who[le_connection], !.wrong = snd[s].wrong]]
      BY <1>4 DEF Daemon!Capture, Daemon!Snd, Daemon!link
    <2>2. snd'[s].o = "none" /\ snd[s].o = "none" /\ \A r \in Sender : r # s => snd'[r] = snd[r]
      BY <2>1 DEF HubSenders, Daemon!SndIdle, Daemon!None
    <2>3. \A o \in Conn : Holders(o)' = Holders(o)
      BY <2>2 DEF Holders
    <2>4. QED
      BY <2>1, <2>3 DEF HubRefs
  <1>5. ASSUME NEW s \in Sender, Daemon!Send(s) PROVE HubRefs'
    <2>1. snd[s].o = "none" /\ UNCHANGED le_connection
      BY <1>5 DEF Daemon!Send, HubSenders
    <2>2. CASE le_connection = Daemon!None \/ le_identity # snd[s].identity
      <3>1. UNCHANGED refs /\ snd' = [snd EXCEPT ![s] = [Daemon!SndIdle EXCEPT !.wrong = snd[s].wrong]]
        BY <1>5, <2>2 DEF Daemon!Send, Daemon!Snd
      <3>2. snd'[s].o = "none" /\ \A r \in Sender : r # s => snd'[r] = snd[r]
        BY <3>1 DEF HubSenders, Daemon!SndIdle, Daemon!None
      <3>3. \A o \in Conn : Holders(o)' = Holders(o)
        BY <2>1, <3>2 DEF Holders
      <3>4. QED
        BY <2>1, <3>1, <3>3 DEF HubRefs
    <2>3. CASE ~(le_connection = Daemon!None \/ le_identity # snd[s].identity)
      <3>1. /\ refs' = [refs EXCEPT ![le_connection] = @ + 1] /\ le_connection \in Conn
            /\ snd' = [snd EXCEPT ![s] = [snd[s] EXCEPT !.pc = "notify", !.o = le_connection]]
        BY <1>5, <2>3 DEF Daemon!Send, Daemon!Snd, HubTold, Daemon!None
      <3>0. [snd[s] EXCEPT !.pc = "notify", !.o = le_connection].o = le_connection
        BY DEF HubSenders
      <3>2. snd'[s].o = le_connection /\ \A r \in Sender : r # s => snd'[r] = snd[r]
        BY <3>0, <3>1 DEF HubSenders
      <3>3. \A o \in Conn : Holders(o)' = (IF o = le_connection THEN Holders(o) \cup {s} ELSE Holders(o))
              /\ s \notin Holders(o)
        BY <2>1, <3>2 DEF Holders, Daemon!HubTransportAssumption
      <3>4. \A o \in Conn : Daemon!Cardinality(Holders(o)') = Daemon!Cardinality(Holders(o)) + (IF o = le_connection THEN 1 ELSE 0)
        <4>1. ASSUME NEW o \in Conn PROVE
                Daemon!Cardinality(Holders(o)') = Daemon!Cardinality(Holders(o)) + (IF o = le_connection THEN 1 ELSE 0)
          BY <1>0, <3>3, HoldersCount
        <4>2. QED
          BY <4>1
      <3>5. \A o \in Conn : refs'[o] = refs[o] + (IF o = le_connection THEN 1 ELSE 0)
        BY <1>0, <3>1 DEF HubRefs
      <3>6. refs' = [o \in Conn |-> refs'[o]]
        BY <3>1 DEF HubRefs
      <3>7. QED
        BY <1>0, <2>1, <3>4, <3>5, <3>6 DEF HubRefs
    <2>4. QED
      BY <2>2, <2>3
  <1>6. ASSUME NEW s \in Sender, Daemon!Notify(s) PROVE HubRefs'
    <2> DEFINE mine == snd[s].o
    <2>1. mine \in Conn /\ refs' = [refs EXCEPT ![mine] = @ - 1] /\ UNCHANGED le_connection
      BY <1>6 DEF Daemon!Notify, HubSenders
    <2>2. snd'[s].o = "none" /\ \A r \in Sender : r # s => snd'[r] = snd[r]
      BY <1>6 DEF Daemon!Notify, Daemon!Snd, HubSenders, Daemon!SndIdle, Daemon!None
    <2>3. \A o \in Conn : Holders(o)' = (IF o = mine THEN Holders(o) \ {s} ELSE Holders(o))
            /\ (o = mine => s \in Holders(o))
      BY <2>2 DEF Holders, Daemon!HubTransportAssumption
    <2> HIDE DEF mine
    <2>4. ASSUME NEW o \in Conn PROVE
            Daemon!Cardinality(Holders(o)') = Daemon!Cardinality(Holders(o)) - (IF o = mine THEN 1 ELSE 0)
      BY <1>0, <2>3, HoldersCount
    <2>5. \A o \in Conn : refs'[o] = refs[o] - (IF o = mine THEN 1 ELSE 0)
      BY <1>0, <2>1 DEF HubRefs
    <2>6. refs' = [o \in Conn |-> refs'[o]]
      BY <2>1 DEF HubRefs
    <2>7. QED
      BY <1>0, <2>1, <2>4, <2>5, <2>6 DEF HubRefs
  <1>7. QED
    BY <1>1, <1>2, <1>3, <1>4, <1>5, <1>6 DEF Daemon!HubNext, Daemon!hubVars, Daemon!Connect, Daemon!Disconnect, Daemon!Recycled, Daemon!ConnectedHooks,
      Daemon!RestartLook, Daemon!RestartStart, Daemon!RestartNote, Daemon!Shell, Daemon!On, Daemon!OnNote, Daemon!Off, Daemon!OffScan, Daemon!VisKeep, Daemon!link

(* The link's references are balanced, and the upper layers see it go up   *)
(* and down in turn (hub_transport.c), whatever number of connections and  *)
(* senders there are and however their calls interleave.                   *)
THEOREM HubBooks == ASSUME Daemon!HubTransportAssumption PROVE Daemon!HubSpec => [](Daemon!RefsBalanced /\ Daemon!Alternating)
PROOF
  <1> DEFINE I == HubTold /\ HubSenders /\ HubRefs
  <1>1. Daemon!HubInit => I
    BY HubStarts
  <1>2. I /\ [Daemon!HubNext]_(Daemon!hubVars) => I'
    BY HubToldStep, HubSendersStep, HubRefsStep
  <1>3. I => Daemon!RefsBalanced /\ Daemon!Alternating
    BY DEF HubTold, HubRefs, Holders, Daemon!RefsBalanced, Daemon!Alternating
  <1> HIDE DEF I
  <1>4. QED
    BY <1>1, <1>2, <1>3, PTL DEF Daemon!HubSpec

(* The flag that guards the restart is set while the controller advertises *)
(* or somebody is about to set it; a restart under way is for a visible    *)
(* hub; the shell's place says what was asked for: all this unless threads *)
(* have crossed.                                                           *)
VisibleInv ==
  /\ adv => g_le_advertising \/ sh = "note" \/ wq = "note" \/ crossed
  /\ wq # "idle" => g_visible \/ crossed
  /\ wq \in {"idle", "start", "note"} /\ crossed \in BOOLEAN /\ adv \in BOOLEAN /\ g_le_advertising \in BOOLEAN
  /\ sh \in {"on", "note"} => g_visible
  /\ sh \in {"off", "scan"} => ~g_visible
  /\ sh = "scan" => ~adv \/ crossed
  /\ sh = "idle" /\ ~g_visible => ~scan /\ (~adv \/ crossed)
  /\ sh \in {"idle", "on", "note", "off", "scan"}

(* The hub starts invisible.                                               *)
LEMMA VisibleInit == ASSUME Daemon!HubInit PROVE VisibleInv
  BY DEF Daemon!HubInit, VisibleInv

(* One step per callback, work item and section of the shell's command.    *)
LEMMA VisibleStep == ASSUME VisibleInv, [Daemon!HubNext]_(Daemon!hubVars) PROVE VisibleInv'
PROOF
  <1> USE DEF VisibleInv, Daemon!vis, Daemon!link
  <1>1. ASSUME NEW o \in Conn, Daemon!Connect(o) PROVE VisibleInv'
    BY <1>1 DEF Daemon!Connect
  <1>2. ASSUME NEW o \in Conn, Daemon!Disconnect(o) \/ Daemon!Recycled(o) PROVE VisibleInv'
    BY <1>2 DEF Daemon!Disconnect, Daemon!Recycled
  <1>3. CASE Daemon!Connected
    BY <1>3 DEF Daemon!Connected
  <1>4. CASE Daemon!ConnectedHooks
    BY <1>4 DEF Daemon!ConnectedHooks
  <1>5. CASE Daemon!Disconnected
    BY <1>5 DEF Daemon!Disconnected
  <1>6. CASE Daemon!RestartLook
    BY <1>6 DEF Daemon!RestartLook, Daemon!VisKeep
  <1>7. CASE Daemon!RestartStart
    BY <1>7 DEF Daemon!RestartStart, Daemon!VisKeep
  <1>8. CASE Daemon!RestartNote
    BY <1>8 DEF Daemon!RestartNote, Daemon!VisKeep
  <1>9. ASSUME NEW on \in BOOLEAN, Daemon!Shell(on) PROVE VisibleInv'
    <2>1. CASE on
      BY <1>9, <2>1 DEF Daemon!Shell, Daemon!VisKeep
    <2>2. CASE ~on
      BY <1>9, <2>2 DEF Daemon!Shell, Daemon!VisKeep
    <2>3. QED
      BY <2>1, <2>2
  <1>10. CASE Daemon!On
    BY <1>10 DEF Daemon!On, Daemon!VisKeep
  <1>11. CASE Daemon!OnNote
    BY <1>11 DEF Daemon!OnNote, Daemon!VisKeep
  <1>12. CASE Daemon!Off
    BY <1>12 DEF Daemon!Off, Daemon!VisKeep
  <1>13. CASE Daemon!OffScan
    BY <1>13 DEF Daemon!OffScan, Daemon!VisKeep
  <1>14. ASSUME NEW s \in Sender, Daemon!Capture(s) \/ Daemon!Send(s) \/ Daemon!Notify(s) PROVE VisibleInv'
    BY <1>14 DEF Daemon!Capture, Daemon!Send, Daemon!Notify, Daemon!SndKeep
  <1>15. CASE UNCHANGED Daemon!hubVars
    BY <1>15 DEF Daemon!hubVars
  <1>16. QED
    BY <1>1, <1>2, <1>3, <1>4, <1>5, <1>6, <1>7, <1>8, <1>9, <1>10, <1>11, <1>12, <1>13, <1>14, <1>15
    DEF Daemon!HubNext

(* Once `bt off' is done the hub does not scan, and does not advertise     *)
(* either, whatever restart was queued before (btsensor_transport.c),      *)
(* unless a restart was waiting for the controller as the command came or  *)
(* advertising was started while a connection was being reported.          *)
THEOREM OffStaysOff == Daemon!HubSpec => []Daemon!OffIsOff
PROOF
  <1>1. VisibleInv => Daemon!OffIsOff
    BY DEF VisibleInv, Daemon!OffIsOff, Daemon!Quiescent
  <1>2. VisibleInv /\ [Daemon!HubNext]_(Daemon!hubVars) => VisibleInv'
    BY VisibleStep
  <1>3. QED
    BY VisibleInit, <1>1, <1>2, PTL DEF Daemon!HubSpec

(* The flag is set only while the controller advertises or the connection  *)
(* that ended it is being reported, unless threads have crossed; and a hub *)
(* that is left silent has a connection object in use, whose end queues a  *)
(* restart.                                                                *)
FoundInv ==
  /\ host = [pc |-> host.pc, o |-> host.o] /\ hc = [c \in Conn |-> hc[c]]
  /\ host.pc \in {"connected", "hooks"} => host.o \in Conn /\ hc[host.o] # "free"
  /\ g_le_advertising => adv \/ crossed \/ host.pc \in {"connected", "hooks"}
  /\ sh = "idle" /\ wq = "idle" /\ g_visible /\ scan /\ ~work /\ ~g_le_advertising =>
       adv \/ \E c \in Conn : hc[c] # "free"
  /\ work \/ wq # "idle" => Conn # {}

LEMMA FoundInit == ASSUME Daemon!HubInit PROVE FoundInv
  BY DEF Daemon!HubInit, FoundInv, Daemon!HostIdle

LEMMA FoundStep == ASSUME VisibleInv, FoundInv, [Daemon!HubNext]_(Daemon!hubVars) PROVE FoundInv'
PROOF
  <1> USE DEF VisibleInv, FoundInv, Daemon!HostIdle, Daemon!vis, Daemon!link
  <1>1. ASSUME NEW o \in Conn, Daemon!Connect(o) PROVE FoundInv'
    <2>1. /\ host' = [pc |-> "connected", o |-> o] /\ ~adv'
          /\ UNCHANGED <<g_le_advertising, sh, wq, g_visible, scan, work, crossed>>
      BY <1>1 DEF Daemon!Connect
    <2>2. hc' = [c \in Conn |-> hc'[c]] /\ hc'[o] = "up"
      BY <1>1 DEF Daemon!Connect
    <2>3. QED
      BY <2>1, <2>2
  <1>2. ASSUME NEW o \in Conn, Daemon!Disconnect(o) PROVE FoundInv'
    <2>1. host' = [pc |-> "disconnected", o |-> o] /\ UNCHANGED <<adv, g_le_advertising, sh, wq, g_visible, scan, work, crossed>>
      BY <1>2 DEF Daemon!Disconnect
    <2>2. hc' = [c \in Conn |-> hc'[c]] /\ hc'[o] = "down" /\ host.pc = "idle"
      BY <1>2 DEF Daemon!Disconnect
    <2>3. QED
      BY <2>1, <2>2
  <1>3. ASSUME NEW o \in Conn, Daemon!Recycled(o) PROVE FoundInv'
    BY <1>3 DEF Daemon!Recycled
  <1>4. CASE Daemon!Connected
    <2>1. CASE le_connection # Daemon!None
      BY <1>4, <2>1 DEF Daemon!Connected
    <2>2. CASE le_connection = Daemon!None
      BY <1>4, <2>2 DEF Daemon!Connected
    <2>3. QED
      BY <2>1, <2>2
  <1>5. CASE Daemon!ConnectedHooks
    BY <1>5 DEF Daemon!ConnectedHooks
  <1>6. CASE Daemon!Disconnected
    BY <1>6 DEF Daemon!Disconnected
  <1>7. CASE Daemon!RestartLook
    BY <1>7 DEF Daemon!RestartLook, Daemon!VisKeep
  <1>8. CASE Daemon!RestartStart
    BY <1>8 DEF Daemon!RestartStart, Daemon!VisKeep, Daemon!CanAdvertise
  <1>9. CASE Daemon!RestartNote
    BY <1>9 DEF Daemon!RestartNote, Daemon!VisKeep
  <1>10. ASSUME NEW on \in BOOLEAN, Daemon!Shell(on) PROVE FoundInv'
    <2>1. CASE on
      BY <1>10, <2>1 DEF Daemon!Shell, Daemon!VisKeep
    <2>2. CASE ~on
      BY <1>10, <2>2 DEF Daemon!Shell, Daemon!VisKeep
    <2>3. QED
      BY <2>1, <2>2
  <1>11. CASE Daemon!On
    BY <1>11 DEF Daemon!On, Daemon!VisKeep, Daemon!CanAdvertise
  <1>12. CASE Daemon!OnNote
    BY <1>12 DEF Daemon!OnNote, Daemon!VisKeep
  <1>13. CASE Daemon!Off \/ Daemon!OffScan
    BY <1>13 DEF Daemon!Off, Daemon!OffScan, Daemon!VisKeep
  <1>14. ASSUME NEW s \in Sender, Daemon!Capture(s) \/ Daemon!Send(s) \/ Daemon!Notify(s) PROVE FoundInv'
    BY <1>14 DEF Daemon!Capture, Daemon!Send, Daemon!Notify, Daemon!SndKeep
  <1>15. CASE UNCHANGED Daemon!hubVars
    BY <1>15 DEF Daemon!hubVars
  <1>16. QED
    BY <1>1, <1>2, <1>3, <1>4, <1>5, <1>6, <1>7, <1>8, <1>9, <1>10, <1>11, <1>12, <1>13, <1>14, <1>15
    DEF Daemon!HubNext

(* A hub that is meant to be visible and has no connection can be found    *)
(* again, with any number of connection objects (btsensor_transport.c,     *)
(* hub_transport.c), unless a connection came between a start of the       *)
(* advertising and the note of it, or was a second one.                    *)
THEOREM FoundAfterwards == Daemon!HubSpec => []Daemon!FoundAgain
PROOF
  <1>1. FoundInv => Daemon!FoundAgain
    BY DEF FoundInv, Daemon!FoundAgain, Daemon!Quiescent, Daemon!HostIdle
  <1>2. VisibleInv /\ FoundInv /\ [Daemon!HubNext]_(Daemon!hubVars) => VisibleInv' /\ FoundInv'
    BY VisibleStep, FoundStep
  <1> HIDE DEF FoundInv, VisibleInv
  <1>3. QED
    BY VisibleInit, FoundInit, <1>1, <1>2, PTL DEF Daemon!HubSpec

-----------------------------------------------------------------------------
(* The controller link *)

Hci == INSTANCE HciLink WITH rx <- hciRx, got <- hciGot

(* The controller's record has its fields.                                 *)
HciInv ==
  /\ ctl = [state |-> ctl.state, open |-> ctl.open, recoveries |-> ctl.recoveries]
  /\ Hci!ClosedIsOff

(* The driver starts closed.                                               *)
LEMMA HciInit == ASSUME Hci!Init PROVE HciInv
  BY DEF Hci!Init, HciInv, Hci!ClosedIsOff

(* Opening, closing and recovering leave a transport open only under a     *)
(* driver that is not closed and a controller that has not failed; nothing *)
(* else touches either.                                                    *)
LEMMA HciStep == ASSUME HciInv, [Hci!Next]_(Hci!vars) PROVE HciInv'
PROOF
  <1> USE DEF HciInv, Hci!ClosedIsOff
  <1>1. CASE Hci!DriverOpen
    <2>1. CASE drv' = "open" /\ ctl' = [state |-> "ready", open |-> TRUE, recoveries |-> 0]
      BY <2>1
    <2>2. CASE Hci!Failed /\ UNCHANGED <<fault, drv, hciRx>>
      BY <2>2 DEF Hci!Failed, Hci!Unwind
    <2>3. QED
      BY <1>1, <2>1, <2>2 DEF Hci!DriverOpen
  <1>2. CASE Hci!DriverClose
    BY <1>2 DEF Hci!DriverClose
  <1>3. CASE Hci!Join
    BY <1>3 DEF Hci!Join
  <1>4. CASE Hci!DriverSend \/ Hci!Receive \/ Hci!ReceiveTimeout \/ Hci!ReceiveError
    BY <1>4 DEF Hci!DriverSend, Hci!Receive, Hci!ReceiveTimeout, Hci!ReceiveError
  <1>5. CASE Hci!Recover
    BY <1>5 DEF Hci!Recover, Hci!Unwind
  <1>6. CASE Hci!RxStop
    BY <1>6 DEF Hci!RxStop
  <1>7. CASE Hci!PeerDoze \/ Hci!PeerWake \/ Hci!PeerEvent \/ Hci!PeerDies \/ Hci!PeerTake
    BY <1>7 DEF Hci!PeerDoze, Hci!PeerWake, Hci!PeerEvent, Hci!PeerDies, Hci!PeerTake, Hci!Host
  <1>8. CASE UNCHANGED Hci!vars
    BY <1>8 DEF Hci!vars
  <1>9. QED
    BY <1>1, <1>2, <1>3, <1>4, <1>5, <1>6, <1>7, <1>8 DEF Hci!Next, Hci!Rx

(* A closed driver, or one whose controller failed to come up, holds no    *)
(* open transport (controller_lifecycle.c, hci_driver.c), however often it *)
(* is opened and whatever fails, for every bound.                          *)
THEOREM ClosedControllerIsOff == Hci!Spec => []Hci!ClosedIsOff
PROOF
  <1>1. HciInv => Hci!ClosedIsOff
    BY DEF HciInv
  <1>2. QED
    BY HciInit, HciStep, <1>1, PTL DEF Hci!Spec

(* What the driver has kept for a sleeping controller, and what is spent.  *)
HciKept ==
  /\ eh \in [state : {"awake", "asleep", "waking"}, pending : Seq({"FRAME"} \X Nat)]
  /\ Len(eh.pending) <= MaxPending
HciSpent ==
  spent \in [frames : 0 .. MaxFrames, naps : 0 .. MaxNaps, faults : 0 .. MaxFaults, opens : 0 .. MaxOpens]
HciStates ==
  /\ fault \in {"none", "timeout", "io", "proto"}
  /\ ctl \in [state : {"off", "ready", "failed"}, open : BOOLEAN, recoveries : 0 .. MaxRecoveries]
  /\ drv \in {"closed", "open", "stopping"} /\ hciRx \in {"none", "loop", "ended"}
  /\ peer \in {"off", "awake", "dozing", "asleep", "waking", "dead"}

LEMMA HciStarts == ASSUME Hci!BoundsAssumption, Hci!Init PROVE HciKept /\ HciSpent /\ HciStates
  BY DEF Hci!BoundsAssumption, Hci!Init, HciKept, HciSpent, HciStates

(* The kept frames.                                                        *)
LEMMA HciKeptStep == ASSUME Hci!BoundsAssumption, HciKept, HciSpent, [Hci!Next]_(Hci!vars) PROVE HciKept'
PROOF
  <1>1. CASE UNCHANGED eh
    BY <1>1 DEF HciKept
  <1>2. ASSUME NEW s \in {"awake", "asleep"}, eh' = [state |-> s, pending |-> <<>>] PROVE HciKept'
    BY <1>2 DEF HciKept, Hci!BoundsAssumption
  <1>3. ASSUME eh' = [eh EXCEPT !.state = "asleep"] PROVE HciKept'
    BY <1>3 DEF HciKept
  <1>4. ASSUME NEW n, Hci!SendKept(n), n = spent.frames + 1 PROVE HciKept'
    <2>1. n \in Nat
      BY <1>4 DEF HciSpent, Hci!BoundsAssumption
    <2>2. CASE eh' = [state |-> "waking", pending |-> Append(eh.pending, Hci!Frame(n))]
      <3> DEFINE p == eh.pending
      <3>1. p \in Seq({"FRAME"} \X Nat) /\ Len(p) < MaxPending
        BY <1>4 DEF HciKept, Hci!SendKept
      <3>2. Hci!Frame(n) \in {"FRAME"} \X Nat
        BY <2>1 DEF Hci!Frame
      <3>3. eh'.pending = Append(p, Hci!Frame(n)) /\ eh'.state = "waking"
        BY <2>2
      <3> HIDE DEF p
      <3>4. Append(p, Hci!Frame(n)) \in Seq({"FRAME"} \X Nat) /\ Len(Append(p, Hci!Frame(n))) = Len(p) + 1 /\ Len(p) \in Nat
        BY <3>1, <3>2
      <3>5. QED
        BY <2>2, <3>1, <3>3, <3>4 DEF HciKept, Hci!BoundsAssumption, p
    <2>3. QED
      BY <1>1, <1>4, <2>2 DEF Hci!SendKept
  <1>5. CASE Hci!Receive
    <2>1. CASE Hci!OnSleepInd
      BY <1>1, <1>3, <2>1 DEF Hci!OnSleepInd, Hci!LatchProto, Hci!LatchIo
    <2>2. CASE Hci!OnWakeInd \/ Hci!OnWakeAck
      BY <1>1, <1>2, <2>2 DEF Hci!OnWakeInd, Hci!OnWakeAck, Hci!Wake, Hci!LatchProto, Hci!LatchIo
    <2>3. QED
      BY <1>1, <1>5, <2>1, <2>2 DEF Hci!Receive
  <1>6. CASE Hci!DriverOpen \/ Hci!Join \/ Hci!Recover
    BY <1>2, <1>6 DEF Hci!DriverOpen, Hci!BringUp, Hci!Failed, Hci!Join, Hci!Recover
  <1>7. CASE Hci!DriverSend
    BY <1>1, <1>4, <1>7 DEF Hci!DriverSend, Hci!SendNow
  <1>8. QED
    BY <1>1, <1>5, <1>6, <1>7 DEF Hci!Next, Hci!Rx, Hci!DriverClose, Hci!ReceiveTimeout, Hci!RxStop, Hci!ReceiveError, Hci!LatchIo, Hci!PeerDoze,
      Hci!PeerWake, Hci!PeerEvent, Hci!PeerDies, Hci!PeerTake, Hci!Host, Hci!link, Hci!vars

(* What is spent.                                                          *)
LEMMA HciSpentStep == ASSUME Hci!BoundsAssumption, HciSpent, [Hci!Next]_(Hci!vars) PROVE HciSpent'
PROOF
  <1> USE DEF HciSpent, Hci!BoundsAssumption
  <1>1. CASE UNCHANGED spent
    BY <1>1
  <1>2. ASSUME Hci!Failing, spent' = Hci!Used(0) PROVE HciSpent'
    <2>1. spent.faults + 1 \in 0 .. MaxFaults /\ spent.frames + 0 \in 0 .. MaxFrames
      BY <1>2 DEF Hci!Failing
    <2>2. spent' = [spent EXCEPT !.faults = spent.faults + 1, !.frames = spent.frames + 0]
      BY <1>2 DEF Hci!Used
    <2>3. QED
      BY <2>1, <2>2
  <1>3. ASSUME Hci!Failing, Hci!CanSend, spent' = Hci!Used(1) PROVE HciSpent'
    <2>1. spent.faults + 1 \in 0 .. MaxFaults /\ spent.frames + 1 \in 0 .. MaxFrames
      BY <1>3 DEF Hci!Failing, Hci!CanSend
    <2>2. spent' = [spent EXCEPT !.faults = spent.faults + 1, !.frames = spent.frames + 1]
      BY <1>3 DEF Hci!Used
    <2>3. QED
      BY <2>1, <2>2
  <1>4. ASSUME Hci!CanSend, spent' = [spent EXCEPT !.frames = spent.frames + 1] PROVE HciSpent'
    BY <1>4 DEF Hci!CanSend
  <1>5. CASE Hci!DriverSend
    BY <1>1, <1>3, <1>4, <1>5 DEF Hci!DriverSend, Hci!SendNow, Hci!SendKept
  <1>6. CASE Hci!DriverOpen
    BY <1>6 DEF Hci!DriverOpen
  <1>7. CASE Hci!PeerDoze
    BY <1>7 DEF Hci!PeerDoze
  <1>8. CASE Hci!Receive
    BY <1>1, <1>2, <1>8 DEF Hci!Receive, Hci!OnSleepInd, Hci!OnWakeInd, Hci!OnWakeAck, Hci!Wake, Hci!LatchIo, Hci!LatchProto
  <1>9. QED
    BY <1>1, <1>2, <1>5, <1>6, <1>7, <1>8 DEF Hci!Next, Hci!Rx, Hci!DriverClose, Hci!Join, Hci!ReceiveTimeout, Hci!Recover, Hci!RxStop,
      Hci!ReceiveError, Hci!LatchIo, Hci!PeerWake, Hci!PeerEvent, Hci!PeerDies, Hci!PeerTake, Hci!Host, Hci!link, Hci!vars

(* The states of the fault, the life cycle, the driver and the controller. *)
LEMMA HciStatesStep == ASSUME Hci!BoundsAssumption, HciStates, [Hci!Next]_(Hci!vars) PROVE HciStates'
PROOF
  <1>1. fault' \in {"none", "timeout", "io", "proto"}
    BY DEF HciStates, Hci!Next, Hci!DriverOpen, Hci!BringUp, Hci!Failed, Hci!DriverClose, Hci!Join, Hci!DriverSend, Hci!SendNow, Hci!SendKept, Hci!Rx, Hci!Receive,
      Hci!OnSleepInd, Hci!OnWakeInd, Hci!OnWakeAck, Hci!Wake, Hci!LatchIo, Hci!LatchProto, Hci!ReceiveTimeout, Hci!Recover, Hci!RxStop, Hci!ReceiveError,
      Hci!PeerDoze, Hci!PeerWake, Hci!PeerEvent, Hci!PeerDies, Hci!PeerTake, Hci!Host, Hci!link, Hci!vars
  <1>2. peer' \in {"off", "awake", "dozing", "asleep", "waking", "dead"}
    BY DEF HciStates, Hci!Next, Hci!DriverOpen, Hci!BringUp, Hci!Failed, Hci!DriverClose, Hci!Join, Hci!DriverSend, Hci!Rx, Hci!Receive, Hci!ReceiveTimeout,
      Hci!Recover, Hci!RxStop, Hci!ReceiveError, Hci!PeerDoze, Hci!PeerWake, Hci!PeerEvent, Hci!PeerDies, Hci!PeerTake, Hci!Host, Hci!link, Hci!vars
  <1>3. drv' \in {"closed", "open", "stopping"} /\ hciRx' \in {"none", "loop", "ended"}
    BY DEF HciStates, Hci!Next, Hci!DriverOpen, Hci!DriverClose, Hci!Join, Hci!DriverSend, Hci!Rx, Hci!Receive, Hci!ReceiveTimeout, Hci!Recover, Hci!RxStop,
      Hci!ReceiveError, Hci!PeerDoze, Hci!PeerWake, Hci!PeerEvent, Hci!PeerDies, Hci!PeerTake, Hci!Host, Hci!vars
  <1>4. ctl' \in [state : {"off", "ready", "failed"}, open : BOOLEAN, recoveries : 0 .. MaxRecoveries]
    <2> DEFINE C == [state : {"off", "ready", "failed"}, open : BOOLEAN, recoveries : 0 .. MaxRecoveries]
    <2>0. Hci!Unwind \in C
      BY DEF Hci!Unwind, HciStates
    <2>1. CASE UNCHANGED ctl
      BY <2>1 DEF HciStates
    <2>2. CASE Hci!DriverOpen
      <3>1. CASE ctl' = [state |-> "ready", open |-> TRUE, recoveries |-> 0]
        BY <3>1 DEF Hci!BoundsAssumption
      <3>2. CASE ctl' = Hci!Unwind
        BY <2>0, <3>2
      <3>3. QED
        BY <2>2, <3>1, <3>2 DEF Hci!DriverOpen, Hci!Failed
    <2>3. CASE Hci!Join
      BY <2>3 DEF Hci!Join, HciStates
    <2>4. CASE Hci!Recover
      <3>1. ctl.recoveries < MaxRecoveries /\ ctl.recoveries \in 0 .. MaxRecoveries
        BY <2>4 DEF Hci!Recover, HciStates
      <3>2. ctl.recoveries + 1 \in 0 .. MaxRecoveries
        BY <3>1 DEF Hci!BoundsAssumption
      <3>3. CASE ctl' = [ctl EXCEPT !.recoveries = @ + 1]
        BY <3>2, <3>3 DEF HciStates
      <3>4. CASE ctl' = [Hci!Unwind EXCEPT !.recoveries = @ + 1]
        <4>1. Hci!Unwind.recoveries = ctl.recoveries
          BY DEF Hci!Unwind, HciStates
        <4>2. QED
          BY <2>0, <3>2, <3>4, <4>1
      <3>5. QED
        BY <2>4, <3>3, <3>4 DEF Hci!Recover
    <2>5. QED
      BY <2>1, <2>2, <2>3, <2>4 DEF Hci!Next, Hci!DriverClose, Hci!DriverSend, Hci!Rx, Hci!Receive, Hci!ReceiveTimeout, Hci!RxStop, Hci!ReceiveError,
        Hci!PeerDoze, Hci!PeerWake, Hci!PeerEvent, Hci!PeerDies, Hci!PeerTake, Hci!Host, Hci!vars
  <1>5. QED
    BY <1>1, <1>2, <1>3, <1>4 DEF HciStates

(* The link keeps its bounds: no more frames wait for a sleeping           *)
(* controller than there is room for (ehcill.c), and no more recoveries    *)
(* are made than are allowed (controller_lifecycle.c).                     *)
THEOREM HciBooks == ASSUME Hci!BoundsAssumption PROVE Hci!Spec => []Hci!TypeOK
PROOF
  <1> DEFINE I == HciKept /\ HciSpent /\ HciStates
  <1>1. Hci!Init => I
    BY HciStarts
  <1>2. I /\ [Hci!Next]_(Hci!vars) => I'
    BY HciKeptStep, HciSpentStep, HciStatesStep
  <1>3. I => Hci!TypeOK
    BY DEF HciKept, HciSpent, HciStates, Hci!TypeOK
  <1> HIDE DEF I
  <1>4. QED
    BY <1>1, <1>2, <1>3, PTL DEF Hci!Spec
=============================================================================
