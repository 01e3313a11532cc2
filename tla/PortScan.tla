------------------------------ MODULE PortScan ------------------------------
(***************************************************************************)
(* The device detector of one port (stm32_legoport.c, the DCM) and the     *)
(* waiting side of /dev/legoport* (stm32_legoport_chardev.c).              *)
(*                                                                         *)
(* A tick of the high-priority work queue runs the scan from one yield to  *)
(* the next: it drives pins and reads the others.  What a device does to   *)
(* the lines is external: an ID resistor to ground, to the supply, a       *)
(* pull-down or nothing on each of the two lines, or a device that couples *)
(* one line to the other.  Devices are swapped at any time, in the middle  *)
(* of a scan too.  The interleaving inside a handoff is in LegoPort; here  *)
(* it is one step.                                                         *)
(***************************************************************************)
EXTENDS Integers, FiniteSets

CONSTANTS Devices,     \* devices that are plugged in, None among them
          Match,       \* LEGOPORT_AFFIRMATIVE_MATCH
          DisconnectK, \* LEGOPORT_UNOWNED_DISCONNECT_K
          Threads,     \* threads that wait on the one open handle
          Timeouts,    \* whether a wait has a timeout
          CbFails,     \* whether the engine's callback may refuse
          MaxSwaps,    \* bound on device changes
          MaxEvents    \* bound on the events after which the engine lets go of a device

PortScanAssumption ==
    /\ {Match, DisconnectK} \subseteq Nat \ {0} /\ {Timeouts, CbFails} \subseteq BOOLEAN
    /\ {MaxSwaps, MaxEvents} \subseteq Nat

Plain(a, b) == [kind |-> "plain", id1 |-> a, id2 |-> b]
None == Plain("open", "open")
Uart == Plain("open", "gnd")

VARIABLES
    dev,     \* what is plugged in
    swaps,   \* how often that changed
    seen,    \* the devices that were plugged in so far
    clean,   \* no change since the scan began
    pins,    \* what the scan drives: tx (ID1), id2, rx
    sc,      \* the scan: state, type_id, prev_type_id, id1_group, the first
             \* sample, match_count, in_unowned_rescan and the two streaks
    nones,   \* NONE confirmations in a row while the port is unowned
    conf,    \* confirmed_type
    events,  \* event_counter
    ok,      \* LEGOPORT_FLAG_HANDOFF_OK
    cb,      \* a handoff callback is registered
    sem,     \* count of state_change_sem
    wt,      \* the waiting threads
    handle   \* last_seen_event of the open handle

port == <<pins, sc, nones, conf, events, ok, sem>>
vars == <<dev, swaps, seen, clean, port, cb, wt, handle>>

-----------------------------------------------------------------------------
(* The lines, as the device and the drivers leave them.                    *)

Id1 == CASE dev.id1 = "vcc" -> TRUE
         [] dev.id1 = "gnd" -> FALSE
         [] dev.kind = "3_part" /\ pins.tx = "in" /\ pins.id2 # "in" -> pins.id2 = "hi"
         [] dev.kind = "explod" /\ pins.tx = "in" /\ pins.id2 # "in" -> pins.id2 = "lo"
         [] pins.tx = "in" -> dev.id1 = "open"
         [] OTHER -> pins.tx = "hi"

Id2 == CASE dev.kind = "touch" -> pins.tx = "hi"
         [] dev.kind = "tpoint" -> pins.tx = "lo"
         [] OTHER -> dev.id2 = "vcc"

Rx == CASE dev.id2 = "gnd" -> FALSE
        [] dev.id2 = "vcc" -> TRUE
        [] OTHER -> pins.id2 = "hi"

\* g_type_lookup
Lookup(a, b) ==
    CASE a = "gnd" -> (CASE b = "gnd" -> "power" [] b = "vcc" -> "turn" [] OTHER -> "light2")
      [] a = "vcc" -> (CASE b = "gnd" -> "train" [] b = "vcc" -> "lmotor" [] OTHER -> "light1")
      [] OTHER -> (CASE b = "gnd" -> "mmotor" [] b = "vcc" -> "xmotor" [] OTHER -> "light")

\* The table of docs/en/drivers/port-detection.md.
Table == [gnd |-> [gnd |-> "power", vcc |-> "turn", pd |-> "light2"],
          vcc |-> [gnd |-> "train", vcc |-> "lmotor", pd |-> "light1"],
          pd |-> [gnd |-> "mmotor", vcc |-> "xmotor", pd |-> "light"]]
TypeOf(d) == IF d.kind # "plain" THEN d.kind
             ELSE IF d = Uart THEN "uart"
             ELSE IF d.id1 = "open" THEN "none" ELSE Table[d.id1][d.id2]

States == {"s0", "id2a", "id2b", "touch", "id1b", "id1open", "id2hi", "id1c", "id1d",
           "rx", "rxhi", "final", "owned", "idle"}

TypeOK ==
    /\ dev \in Devices /\ sc.st \in States /\ sc.m \in 0..Match
    /\ pins.tx \in {"hi", "lo", "in"} /\ pins.id2 \in {"hi", "lo", "in"} /\ pins.rx \in {"in", "lo"}
    /\ sc.ds \in 0..DisconnectK /\ sc.os \in 0..DisconnectK /\ sem \in 0..1
    /\ \A t \in Threads : wt[t].pc \in {"idle", "look", "sem", "sleep", "info", "poll"}

SafePins == [tx |-> "hi", id2 |-> "in", rx |-> "in"]

\* stm32_legoport_initialize
Init ==
    /\ dev \in Devices /\ swaps = 0 /\ seen = {dev} /\ clean = TRUE /\ pins = SafePins
    /\ sc = [st |-> "s0", type |-> "none", prev |-> "none", g1 |-> "open", v |-> FALSE,
             m |-> 0, re |-> FALSE, ds |-> 0, os |-> 0, ot |-> "none"]
    /\ nones = 0 /\ conf = "none" /\ events = 0 /\ ok = FALSE /\ cb = FALSE /\ sem = 0
    /\ wt = [t \in Threads |-> [pc |-> "idle", snap |-> 0, want |-> FALSE]] /\ handle = 0

Swap ==
    /\ swaps < MaxSwaps /\ swaps' = swaps + 1
    /\ \E d \in Devices \ {dev} : dev' = d /\ seen' = seen \cup {d}
    /\ clean' = FALSE /\ UNCHANGED <<port, cb, wt, handle>>

-----------------------------------------------------------------------------
(* Yields of the scan.                                                     *)

Set(st, tx, id2, rx) ==
    /\ pins' = [tx |-> tx, id2 |-> id2, rx |-> rx] /\ sc' = st
    /\ UNCHANGED <<dev, swaps, seen, nones, conf, events, ok, cb, sem, wt, handle>>
Goto(s) == [sc EXCEPT !.st = s]
Found(t) == [sc EXCEPT !.st = "final", !.type = t]

\* DCM_S0_INIT, and the gated re-scan that starts with it
Start ==
    /\ sc.st \in {"s0", "idle"} /\ clean' = TRUE
    /\ Set(IF sc.st = "s0" THEN [sc EXCEPT !.st = "id2a", !.type = "none", !.g1 = "open"]
           ELSE [sc EXCEPT !.st = "id2a", !.type = "none", !.g1 = "open",
                           !.re = TRUE, !.m = 0, !.prev = "none"],
           "hi", "in", pins.rx)

\* DCM_S1_READ_ID2_A
ReadId2A ==
    /\ sc.st = "id2a" /\ Set([sc EXCEPT !.st = "id2b", !.v = Id2], "lo", pins.id2, pins.rx)
    /\ UNCHANGED clean

\* DCM_S2_READ_ID2_B, with DCM_S3_READ_ID1_A behind it
ReadId2B ==
    /\ sc.st = "id2b" /\ UNCHANGED clean
    /\ CASE sc.v /\ ~Id2 -> Set([sc EXCEPT !.st = "touch", !.type = "touch"], "in", pins.id2, pins.rx)
         [] ~sc.v /\ Id2 -> Set(Found("tpoint"), pins.tx, pins.id2, pins.rx)
         [] OTHER -> Set([sc EXCEPT !.st = "id1b", !.v = Id1], "hi", pins.id2, pins.rx)

\* DCM_S2A_TOUCH_SETTLE and DCM_S2B_TOUCH_SAMPLE
TouchSettle == sc.st = "touch" /\ Set(Goto("final"), pins.tx, pins.id2, pins.rx) /\ UNCHANGED clean

\* DCM_S3_READ_ID1_B
ReadId1B ==
    /\ sc.st = "id1b" /\ UNCHANGED clean
    /\ IF sc.v = Id1
       THEN Set([sc EXCEPT !.st = "id2hi", !.g1 = IF Id1 THEN "vcc" ELSE "gnd"],
                pins.tx, pins.id2, pins.rx)
       ELSE Set(Goto("id1open"), "in", pins.id2, pins.rx)

\* DCM_S4_OPEN_PD and DCM_S4_ID1_SETTLE_WAIT
OpenOrPulldown ==
    /\ sc.st = "id1open" /\ UNCHANGED clean
    /\ Set([sc EXCEPT !.st = "id2hi", !.g1 = IF Id1 THEN "open" ELSE "pd"],
           pins.tx, pins.id2, pins.rx)

\* DCM_S5_DRIVE_ID2_HI
DriveId2 == sc.st = "id2hi" /\ Set(Goto("id1c"), "in", "hi", pins.rx) /\ UNCHANGED clean

\* DCM_S6_READ_ID1_C
ReadId1C ==
    /\ sc.st = "id1c" /\ Set([sc EXCEPT !.st = "id1d", !.v = Id1], pins.tx, "lo", pins.rx)
    /\ UNCHANGED clean

\* DCM_S6_READ_ID1_D
ReadId1D ==
    /\ sc.st = "id1d" /\ UNCHANGED clean
    /\ CASE sc.v /\ ~Id1 -> Set(IF sc.g1 = "open" THEN Found("3_part") ELSE Goto("final"),
                                pins.tx, pins.id2, pins.rx)
         [] ~sc.v /\ Id1 -> Set(Found("explod"), pins.tx, pins.id2, pins.rx)
         [] OTHER -> Set(Goto("rx"), "hi", "hi", pins.rx)

\* DCM_S7_PROBE_RX
ProbeRx ==
    /\ sc.st = "rx" /\ UNCHANGED clean
    /\ IF pins.rx = "in" /\ Rx THEN Set(Goto("rxhi"), pins.tx, "lo", "lo")
       ELSE Set(Found(IF sc.g1 # "open" THEN Lookup(sc.g1, "gnd") ELSE "uart"),
                pins.tx, pins.id2, pins.rx)

\* DCM_S7_READ_RX_HI
ReadRxKeepsLow ==                \* mutant: the line is left driven when it is read
    /\ sc.st = "rxhi" /\ UNCHANGED clean
    /\ Set(IF sc.g1 = "open" THEN Goto("final") ELSE Found(Lookup(sc.g1, "pd")),
           pins.tx, pins.id2, "lo")

ReadRx ==
    /\ sc.st = "rxhi" /\ UNCHANGED clean
    /\ Set(IF sc.g1 = "open" THEN Goto("final")
           ELSE Found(Lookup(sc.g1, IF Rx THEN "vcc" ELSE "pd")), pins.tx, pins.id2, "in")

-----------------------------------------------------------------------------
(* The end of a scan.                                                      *)

Sleeping == {t \in Threads : wt[t].pc = "sleep"}

PostChange(t) ==
    IF t = conf THEN UNCHANGED <<conf, events, sem, wt>>
    ELSE /\ conf' = t /\ events' = events + 1
         /\ IF sem = 0 /\ Sleeping # {}
            THEN (\E w \in Sleeping : wt' = [wt EXCEPT ![w].pc = "look"]) /\ sem' = 0
            ELSE sem' = 1 /\ UNCHANGED wt

\* The latch of an unowned port is re-armed or, after K confirmations, released.
Rearm(s) == [s EXCEPT !.re = FALSE, !.st = "idle"]
Free(s) == [s EXCEPT !.re = FALSE, !.st = "s0", !.m = 0, !.prev = "none"]

AfterRescan(s) ==
    CASE s.type = "uart" -> Rearm([s EXCEPT !.ds = 0, !.os = 0])
      [] s.type = "none" ->
            IF s.ds + 1 >= DisconnectK THEN Free([s EXCEPT !.ds = @ + 1])
            ELSE Rearm([s EXCEPT !.ds = @ + 1])
      [] OTHER -> LET n == IF s.ot = s.type THEN s.os + 1 ELSE 1
                      t == [s EXCEPT !.os = n, !.ot = s.type]
                  IN IF n >= DisconnectK THEN Free(t) ELSE Rearm(t)

\* legoport_invoke_handoff: without a callback, or when it fails, unowned.
Handoff(s) ==
    \E took \in {cb} \cup (IF CbFails THEN {FALSE} ELSE {}) :
        /\ sc' = IF took THEN [s EXCEPT !.st = "owned"]
                 ELSE [s EXCEPT !.st = "idle", !.re = FALSE, !.ds = 0, !.os = 0, !.ot = "none"]
        /\ ok' = took

Finalize ==
    /\ sc.st = "final" /\ pins' = SafePins
    /\ LET n == [sc EXCEPT !.m = IF sc.type # sc.prev THEN 0 ELSE IF @ < Match THEN @ + 1 ELSE @]
       IN IF n.m < Match
          THEN /\ sc' = [n EXCEPT !.prev = n.type, !.st = "s0"]
               /\ UNCHANGED <<conf, events, sem, wt, ok, nones>>
          ELSE /\ PostChange(n.type)
               /\ nones' = IF n.re /\ n.type = "none" THEN (IF nones < DisconnectK THEN nones + 1 ELSE nones) ELSE 0
               /\ CASE n.re -> sc' = AfterRescan(n) /\ ok' = FALSE
                    [] ~n.re /\ n.type = "uart" -> Handoff(n)
                    [] OTHER -> sc' = [n EXCEPT !.prev = n.type, !.st = "s0"] /\ ok' = FALSE
    /\ UNCHANGED <<dev, swaps, seen, clean, cb, handle>>

\* DCM_LATCHED_UART_OWNED: a tick does nothing.
Owned == sc.st = "owned" /\ UNCHANGED vars

Tick ==
    \/ Start \/ ReadId2A \/ ReadId2B \/ TouchSettle \/ ReadId1B \/ OpenOrPulldown \/ DriveId2
    \/ ReadId1C \/ ReadId1D \/ ProbeRx \/ ReadRx \/ Finalize \/ Owned

-----------------------------------------------------------------------------
(* The engine, external: it registers, and releases a port it owns.        *)

Register == ~cb /\ cb' = TRUE /\ UNCHANGED <<dev, swaps, seen, clean, port, wt, handle>>

ReleaseUart ==
    /\ sc.st = "owned" /\ (dev # Uart \/ events < MaxEvents)
    /\ cb' = FALSE /\ pins' = SafePins /\ ok' = FALSE /\ nones' = 0
    /\ sc' = [sc EXCEPT !.st = "s0", !.m = 0, !.prev = "none", !.re = FALSE,
                        !.ds = 0, !.os = 0, !.ot = "none"]
    /\ PostChange("none") /\ UNCHANGED <<dev, swaps, seen, clean, handle>>

-----------------------------------------------------------------------------
(* The open handle.                                                        *)

Connected == conf # "none"
Stay == UNCHANGED <<dev, swaps, seen, clean, pins, sc, nones, conf, events, ok, cb>>

\* legoport_cdev_close and _open; the waits have returned.
Reopen ==
    /\ \A t \in Threads : wt[t].pc = "idle"
    /\ handle # 0 /\ handle' = 0 /\ Stay /\ UNCHANGED <<sem, wt>>

\* LEGOPORT_GET_DEVICE_INFO
GetInfo(t) == wt[t].pc = "idle" /\ handle # events /\ handle' = events /\ Stay /\ UNCHANGED <<sem, wt>>

\* LEGOPORT_WAIT_CONNECT and LEGOPORT_WAIT_DISCONNECT: the first look
Wait(t, want) ==
    /\ wt[t].pc = "idle" /\ Stay /\ UNCHANGED sem
    /\ IF events # handle /\ Connected = want
       THEN handle' = events /\ UNCHANGED wt
       ELSE /\ wt' = [wt EXCEPT ![t] = [pc |-> "look", snap |-> handle, want |-> want]]
            /\ UNCHANGED handle

\* stm32_legoport_wait_change: the counter under the lock, ...
Look(t) ==
    /\ wt[t].pc = "look" /\ Stay /\ UNCHANGED <<sem, handle>>
    /\ wt' = IF events # wt[t].snap THEN [wt EXCEPT ![t].pc = "info", ![t].snap = events]
             ELSE [wt EXCEPT ![t].pc = "sem"]

\* ... the semaphore, without it, ...
SemWait(t) ==
    /\ wt[t].pc = "sem" /\ Stay /\ UNCHANGED handle
    /\ IF sem > 0 THEN sem' = 0 /\ wt' = [wt EXCEPT ![t].pc = "look"]
       ELSE UNCHANGED sem /\ wt' = [wt EXCEPT ![t].pc = "sleep"]

Timeout(t) ==
    /\ Timeouts /\ wt[t].pc = "sleep" /\ wt' = [wt EXCEPT ![t].pc = "idle"]
    /\ Stay /\ UNCHANGED <<sem, handle>>

\* ... and the state after the edge.
Info(t) ==
    /\ wt[t].pc = "info" /\ Stay /\ UNCHANGED sem
    /\ IF Connected = wt[t].want
       THEN wt' = [wt EXCEPT ![t].pc = "idle"] /\ handle' = events
       ELSE wt' = [wt EXCEPT ![t].pc = "look"] /\ UNCHANGED handle

\* legoport_cdev_poll: POLLIN at set-up, or the program sleeps in poll().
Poll(t) ==
    /\ wt[t].pc = "idle" /\ Stay /\ UNCHANGED <<sem, handle>>
    /\ events = handle /\ wt' = [wt EXCEPT ![t].pc = "poll"]

PollTimeout(t) ==
    /\ Timeouts /\ wt[t].pc = "poll" /\ wt' = [wt EXCEPT ![t].pc = "idle"]
    /\ Stay /\ UNCHANGED <<sem, handle>>

Thread(t) == Look(t) \/ SemWait(t) \/ Info(t)

Next ==
    \/ Swap \/ Tick \/ Register \/ ReleaseUart \/ Reopen
    \/ \E t \in Threads : GetInfo(t) \/ Thread(t) \/ Timeout(t) \/ Poll(t) \/ PollTimeout(t)
                          \/ (\E w \in BOOLEAN : Wait(t, w))

Spec == Init /\ [][Next]_vars

ReleaseGone == ReleaseUart /\ dev # Uart

\* The work queue keeps ticking, woken threads run, the engine registers again
\* and lets go of a port whose device is gone.
FairSpec == Spec /\ WF_vars(Tick) /\ WF_vars(Register) /\ WF_vars(ReleaseGone)
                 /\ \A t \in Threads : WF_vars(Thread(t))

-----------------------------------------------------------------------------
(* A scan during which the device did not change ends with the type the    *)
(* table of the documentation gives it: the pins are driven and released   *)
(* in the right order, whatever the scan before left behind.               *)
ScanTrue == sc.st = "final" /\ clean => sc.type = TypeOf(dev)

(* Fewer swaps than the debounce needs scans never confirm a type that no  *)
(* device had, even when each falls in the middle of a scan.               *)
NoPhantom == conf \in {"none"} \cup {TypeOf(d) : d \in seen}

(* The published handoff flag says whether the engine owns the pins, and   *)
(* only a port known to hold a UART device is owned.                       *)
OwnedIsUart == ok = (sc.st = "owned") /\ (ok => conf = "uart")

Holds(d) == dev = d
Known(d) == conf = TypeOf(d)

(* A device that stays is confirmed, whatever was there before and however *)
(* the port was latched.                                                   *)
Settles == \A d \in Devices : <>[]Holds(d) => <>[]Known(d)

Scanning == sc.st # "idle" /\ ~sc.re

(* The latch of an unowned port does not outlive its device.               *)
Unlatches == <>[]Holds(None) => <>[]Scanning

WaitReturnsDue(t) == wt[t].pc \in {"look", "sem", "sleep", "info"} /\ events # handle
WaitReturnsMet(t) == wt[t].pc = "idle" \/ Connected # wt[t].want

(* A wait whose event has come returns, unless the port has left the       *)
(* wanted state again: no wake-up is lost between the look at the counter  *)
(* and the semaphore.                                                      *)
WaitReturns == \A t \in Threads : WaitReturnsDue(t) ~> WaitReturnsMet(t)

(* stm32_legoport.c:453 "Wake every waiter": the same, for two threads.    *)
EveryWaiterWakes == WaitReturns

(* stm32_legoport.c:193 names poll() among what an edge notifies.          *)
PollWakes ==
    \A t \in Threads : (wt[t].pc = "poll" /\ events # handle) ~> (wt[t].pc # "poll")

(* port-detection.md:240 "when DCM confirms UNKNOWN_UART it invokes the    *)
(* CB": a UART device that stays while a callback is registered is handed  *)
(* off at some time.                                                       *)
HandedOff == <>[](dev = Uart /\ cb) => <>(sc.st = "owned")

(* port-detection.md:251 "K=3 consecutive NONE confirmations release the   *)
(* latch".                                                                 *)
ConsecutiveNone ==
    sc.re /\ sc.type = "none" /\ sc'.st = "s0" /\ ~sc'.re /\ sc'.ds >= DisconnectK
       => nones' >= DisconnectK
=============================================================================
