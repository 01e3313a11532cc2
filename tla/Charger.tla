------------------------------ MODULE Charger -------------------------------
(***************************************************************************)
(* The battery charger driver (stm32_battery_charger.c): the MODE pin, the *)
(* ISET duty, the 4 Hz poll with its timeout and pause, the VBUS interrupt *)
(* with its worker, and the detection of the USB port's kind on a second   *)
(* work queue, which takes long enough for the plug to be pulled.          *)
(*                                                                         *)
(* Poll and VBUS worker share one queue and are steps; the detection has a *)
(* step when it starts and one when it ends.  Currents are 0, 500 and 1500 *)
(* mA.  The moving average of the battery voltage is the choice whether it *)
(* has passed BAT_FULL_MV.                                                 *)
(***************************************************************************)
EXTENDS Naturals, Sequences, FiniteSets

CONSTANTS Timeout,   \* CHARGE_TIMEOUT_TICKS
          Pause,     \* CHARGE_PAUSE_TICKS
          NSamples,  \* CHG_NUM_SAMPLES
          MaxPlugs,  \* bound on the plugs
          Kinds      \* kinds of USB port: "sdp", "cdp", "dcp", "nonstandard"

ChargerAssumption ==
    /\ {Timeout, Pause, NSamples} \subseteq Nat \ {0} /\ MaxPlugs \in Nat
    /\ "idle" \notin Kinds

VARIABLES
    vbus,    \* whether a plug is in, and the kind of port it comes from
    plugs,
    exti,    \* vbus_work is queued
    prev,    \* prev_vbus
    mode,    \* mode_enabled
    iset,    \* the current ISET allows, in mA
    bcd,     \* bcd_work: whether it is queued, and the kind it is looking at or "idle"
    result,  \* bcd_result
    count,   \* charge_count
    pause,   \* charge_paused and pause_count
    chg,     \* chg_samples and chg_index
    status,  \* charger_status
    led,     \* the battery LED and led_blink_count
    unsure   \* history: since a detection ended, one found no plug or an ioctl set the current

vars == <<vbus, plugs, exti, prev, mode, iset, bcd, result, count, pause, chg, status, led, unsure>>

Present == vbus.on

TypeOK ==
    /\ vbus \in [on : BOOLEAN, kind : Kinds] /\ result \in Kinds \cup {"none"}
    /\ bcd \in [queued : BOOLEAN, run : Kinds \cup {"idle"}] /\ iset \in {0, 100, 500, 1500}
    /\ count < Timeout /\ pause.n < Pause
    /\ chg.at \in 1..NSamples
    /\ status \in {"charging", "full", "fault", "discharging"}
    /\ led.colour \in {"off", "red", "green", "yellow"}

\* stm32_battery_charger_initialize, with or without a plug.
Init ==
    /\ vbus \in [on : BOOLEAN, kind : Kinds] /\ plugs = 0 /\ exti = FALSE
    /\ prev = Present /\ mode = Present /\ iset = IF Present THEN 500 ELSE 0
    /\ bcd = [queued |-> Present, run |-> "idle"] /\ result = "none"
    /\ count = 0 /\ pause = [on |-> FALSE, n |-> 0]
    /\ chg = [buf |-> [i \in 1..NSamples |-> FALSE], at |-> 1]
    /\ status = "discharging" /\ led = [colour |-> "off", n |-> 0] /\ unsure = FALSE

-----------------------------------------------------------------------------
\* A plug or its end raises the interrupt of PA9 (vbus_exti_isr).  Contacts may
\* bounce while vbus_work waits for the work queue, but no hand is that quick
\* with another port.
Plug ==
    /\ plugs < MaxPlugs /\ plugs' = plugs + 1 /\ exti' = TRUE
    /\ \E k \in IF Present \/ exti THEN {vbus.kind} ELSE Kinds : vbus' = [on |-> ~vbus.on, kind |-> k]
    /\ UNCHANGED <<prev, mode, iset, bcd, result, count, pause, chg, status, led, unsure>>

\* handle_vbus_transition: what it leaves in mode, iset, bcd and result.
EdgeKeepsMode ==                 \* mutant: the drop only takes the current away
    IF Present = prev THEN [mode |-> mode, iset |-> iset, bcd |-> bcd, result |-> result]
    ELSE IF Present THEN [mode |-> TRUE, iset |-> 500, bcd |-> [bcd EXCEPT !.queued = TRUE], result |-> result]
    ELSE [mode |-> mode, iset |-> 0, bcd |-> bcd, result |-> "none"]

EdgeBusy ==                      \* mutant: a detection that runs is not queued again
    IF Present = prev THEN [mode |-> mode, iset |-> iset, bcd |-> bcd, result |-> result]
    ELSE IF Present THEN [mode |-> TRUE, iset |-> 500, bcd |-> [bcd EXCEPT !.queued = bcd.run = "idle"],
                          result |-> result]
    ELSE [mode |-> FALSE, iset |-> 0, bcd |-> bcd, result |-> "none"]

Edge ==
    IF Present = prev THEN [mode |-> mode, iset |-> iset, bcd |-> bcd, result |-> result]
    ELSE IF Present THEN [mode |-> TRUE, iset |-> 500, bcd |-> [bcd EXCEPT !.queued = TRUE], result |-> result]
    ELSE [mode |-> FALSE, iset |-> 0, bcd |-> bcd, result |-> "none"]

VbusWorker ==
    /\ exti /\ exti' = FALSE /\ prev' = Present
    /\ mode' = Edge.mode /\ iset' = Edge.iset /\ bcd' = Edge.bcd /\ result' = Edge.result
    /\ UNCHANGED <<vbus, plugs, count, pause, chg, status, led, unsure>>

\* charger_poll_work while charging is paused.
PausedPoll ==
    /\ pause.on
    /\ IF pause.n + 1 >= Pause THEN pause' = [on |-> FALSE, n |-> 0] /\ count' = 0
       ELSE pause' = [pause EXCEPT !.n = @ + 1] /\ UNCHANGED count
    /\ UNCHANGED <<vbus, plugs, exti, prev, mode, iset, bcd, result, chg, status, led, unsure>>

\* CHG blinking shows a fault: changes around the circular buffer.
Transitions(buf) ==
    Cardinality({i \in 1..NSamples : buf[i] # buf[IF i = 1 THEN NSamples ELSE i - 1]})

Judge(buf, n) ==
    IF Transitions(buf) > 2 THEN "fault"
    ELSE IF buf[chg.at] THEN "charging"
    ELSE IF n > 2 THEN "full" ELSE "discharging"

\* update_battery_led: the periods of the two blink patterns are 12 and 4.
Show(s, full) ==
    CASE s = "charging" -> [colour |-> IF full THEN "green" ELSE "red", n |-> led.n]
      [] s = "full"     -> [colour |-> IF (led.n + 1) % 12 < 11 THEN "green" ELSE "off", n |-> (led.n + 1) % 12]
      [] s = "fault"    -> [colour |-> IF (led.n + 1) % 4 < 2 THEN "yellow" ELSE "off", n |-> (led.n + 1) % 4]
      [] OTHER          -> [colour |-> "off", n |-> led.n]

ExpiredStatus(s) == "discharging"

Poll(high, full) ==
    /\ ~pause.on /\ prev' = Present /\ bcd' = Edge.bcd /\ result' = Edge.result
    /\ LET buf == [chg.buf EXCEPT ![chg.at] = high]
           n == IF Present THEN count + 1 ELSE 0
           s == IF Present THEN Judge(buf, n) ELSE "discharging"
       IN  /\ chg' = [buf |-> buf, at |-> (chg.at % NSamples) + 1]
           /\ IF n >= Timeout
              THEN /\ mode' = FALSE /\ iset' = 0 /\ count' = 0
                   /\ pause' = [on |-> TRUE, n |-> 0]
                   /\ status' = ExpiredStatus(s) /\ led' = Show(ExpiredStatus(s), full)
              ELSE /\ mode' = Present /\ iset' = Edge.iset /\ count' = n
                   /\ status' = s /\ led' = Show(s, full)
                   /\ UNCHANGED pause
    /\ UNCHANGED <<vbus, plugs, exti, unsure>>

\* bcd_detect_worker: nothing without VBUS; the kind is sampled over half a second.
BcdStart ==
    /\ bcd.queued /\ bcd.run = "idle"
    /\ bcd' = [queued |-> FALSE, run |-> IF Present THEN vbus.kind ELSE "idle"]
    /\ unsure' = IF Present THEN unsure ELSE TRUE
    /\ UNCHANGED <<vbus, plugs, exti, prev, mode, iset, result, count, pause, chg, status, led>>

Allowed(k) == IF k = "sdp" THEN 500 ELSE 1500

BcdEnd ==
    /\ bcd.run # "idle" /\ result' = bcd.run /\ iset' = Allowed(bcd.run)
    /\ bcd' = [bcd EXCEPT !.run = "idle"] /\ unsure' = FALSE
    /\ UNCHANGED <<vbus, plugs, exti, prev, mode, count, pause, chg, status, led>>

\* spike_charger_current
SetCurrent ==
    /\ iset' \in {0, 100, 500, 1500} /\ unsure' = TRUE
    /\ UNCHANGED <<vbus, plugs, exti, prev, mode, bcd, result, count, pause, chg, status, led>>

PollStep == PausedPoll \/ \E high, full \in BOOLEAN : Poll(high, full)
Next == Plug \/ VbusWorker \/ PollStep \/ BcdStart \/ BcdEnd \/ SetCurrent

Spec == Init /\ [][Next]_vars

\* The poll reschedules itself; both work queues run what is queued.
FairSpec == Spec /\ WF_vars(PollStep) /\ WF_vars(VbusWorker) /\ WF_vars(BcdStart) /\ WF_vars(BcdEnd)

-----------------------------------------------------------------------------
(* Properties *)

\* Whatever order plugs, interrupts, polls and detections come in, the charger
\* is off once the end of the plug has been handled, in a pause too.
OffWithoutVbus == ~Present /\ ~exti => ~mode

\* In a pause the LED does not claim a charge.
DarkInPause == pause.on => led.colour = "off"

Settled == Present /\ prev /\ ~exti /\ bcd = [queued |-> FALSE, run |-> "idle"]

\* Once edges and detections are through, the port is not asked for more than its kind
\* allows, whatever was plugged and looked at before it and however contacts bounced:
\* the result of a detection that was still at the port before is corrected.  Excepted are
\* a current set by ioctl and a detection that found no plug, which ends without a result.
WithinPort == Settled => iset <= Allowed(vbus.kind) \/ unsure

\* Refuted by the code: without the exceptions, where a detection falls into a bounce whose
\* edges are one for the worker.
WithinPortAlways == Settled => iset <= Allowed(vbus.kind)

ChargesDue == Present
ChargesMet == mode \/ ~Present

\* A plug that stays in is charged, the pause after the timeout included.
Charges == ChargesDue ~> ChargesMet

\* "60 min charge -> 30 sec pause -> restart": a pause is followed by a charge
\* with a current, unless the plug is pulled.
Restarts == pause.on ~> ((mode /\ iset # 0) \/ ~Present)

\* "On VBUS drop: disable MODE and ISET."
IsetOffWithoutVbus == (~Present /\ ~exti /\ bcd.run = "idle") => iset = 0
=============================================================================
