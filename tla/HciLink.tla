------------------------------ MODULE HciLink -------------------------------
(***************************************************************************)
(* The physical HCI link: the eHCILL sleep protocol (ehcill.c) under the   *)
(* transport with its latched fault (h4_transport.c), the controller life  *)
(* cycle with its bounded recoveries (controller_lifecycle.c), and the     *)
(* driver's opening, receive thread, send and close (hci_driver.c).        *)
(*                                                                         *)
(* transport->lock makes a send and the handling of a control byte atomic; *)
(* physical_mutex keeps sends out of a recovery.  The Bluetooth controller *)
(* at the other end of two FIFO lines is external: it sleeps and wakes by  *)
(* the rules of the protocol, may stop answering, and forgets everything   *)
(* in a power cycle.  Frames are numbered.                                 *)
(***************************************************************************)
EXTENDS Naturals, Sequences

CONSTANTS MaxFrames,      \* frames the host sends in a behaviour
          MaxPending,     \* frames that fit into ehcill.pending
          MaxRecoveries,  \* PHYSICAL_RECOVERIES
          MaxNaps,        \* times the controller goes to sleep
          MaxFaults,      \* write failures and deaths of the controller
          MaxOpens        \* times the driver is opened

BoundsAssumption ==
    {MaxFrames, MaxPending, MaxRecoveries, MaxNaps, MaxFaults, MaxOpens} \subseteq Nat

VARIABLES
    eh,        \* ehcill: state and pending frames
    fault,     \* the latched fault: "none", "timeout", "io", "proto"
    ctl,       \* controller life cycle: state, transport open, recoveries
    drv,       \* the driver: "closed", "open", "stopping"
    rx,        \* the receive thread: "none", "loop", "ended"
    toCtl,     \* host to controller
    toHost,    \* controller to host
    peer,      \* "off", "awake", "dozing", "asleep", "waking", "dead"
    accepted,  \* frames accepted by send since the last power cycle
    got,       \* frames the controller has received since
    spent      \* frames, naps, faults and opens used up

link == <<eh, fault, toCtl, toHost, peer, accepted, got>>
vars == <<link, ctl, drv, rx, spent>>

\* What travels on the lines: control bytes, events and numbered frames.
Byte(kind) == <<kind, 0>>
Frame(n) == <<"FRAME", n>>
IsFrame(m) == m[1] = "FRAME"

TypeOK ==
    /\ eh.state \in {"awake", "asleep", "waking"} /\ Len(eh.pending) <= MaxPending
    /\ fault \in {"none", "timeout", "io", "proto"}
    /\ ctl \in [state : {"off", "ready", "failed"}, open : BOOLEAN,
                recoveries : 0..MaxRecoveries]
    /\ drv \in {"closed", "open", "stopping"} /\ rx \in {"none", "loop", "ended"}
    /\ peer \in {"off", "awake", "dozing", "asleep", "waking", "dead"}
    /\ spent \in [frames : 0..MaxFrames, naps : 0..MaxNaps, faults : 0..MaxFaults,
                  opens : 0..MaxOpens]

Init ==
    /\ eh = [state |-> "awake", pending |-> <<>>] /\ fault = "none"
    /\ ctl = [state |-> "off", open |-> FALSE, recoveries |-> 0]
    /\ drv = "closed" /\ rx = "none" /\ toCtl = <<>> /\ toHost = <<>> /\ peer = "off"
    /\ accepted = <<>> /\ got = <<>>
    /\ spent = [frames |-> 0, naps |-> 0, faults |-> 0, opens |-> 0]

(***************************************************************************)
(* Bringing the controller up and down                                     *)
(***************************************************************************)

\* bring_up, all of it: power cycle, open, firmware, host.  ehcill_init and
\* the cleared fault come with the open.
BringUp ==
    /\ eh' = [state |-> "awake", pending |-> <<>>] /\ fault' = "none"
    /\ toCtl' = <<>> /\ toHost' = <<>> /\ peer' = "awake"
    /\ accepted' = <<>> /\ got' = <<>>

\* unwind, and what is left of the link: a closed transport drops what it
\* had kept for a sleeping controller.
Unwind == [ctl EXCEPT !.state = "failed", !.open = FALSE]

Failed ==
    /\ ctl' = Unwind
    /\ eh' = [state |-> "asleep", pending |-> <<>>]
    /\ toCtl' = <<>> /\ toHost' = <<>> /\ peer' = "off"
    /\ accepted' = <<>> /\ got' = <<>>

\* driver_open.  A receive thread that cannot be created shuts the controller
\* down again.
DriverOpen ==
    /\ drv = "closed" /\ spent.opens < MaxOpens
    /\ spent' = [spent EXCEPT !.opens = @ + 1]
    /\ \/ /\ BringUp /\ drv' = "open" /\ rx' = "loop"
          /\ ctl' = [state |-> "ready", open |-> TRUE, recoveries |-> 0]
       \/ /\ Failed /\ UNCHANGED <<fault, drv, rx>>

\* driver_close, first half.
DriverClose ==
    /\ drv = "open"
    /\ drv' = "stopping"
    /\ UNCHANGED <<link, ctl, rx, spent>>

\* Mutant: the shutdown does not close the transport.
JoinOpen ==
    /\ drv = "stopping" /\ rx = "ended"
    /\ drv' = "closed" /\ rx' = "none"
    /\ ctl' = [ctl EXCEPT !.state = "off"]
    /\ UNCHANGED <<link, spent>>

\* Second half: join, then brickwright_controller_shutdown.
Join ==
    /\ drv = "stopping" /\ rx = "ended"
    /\ drv' = "closed" /\ rx' = "none"
    /\ ctl' = [ctl EXCEPT !.state = "off", !.open = FALSE]
    /\ eh' = [state |-> "asleep", pending |-> <<>>]
    /\ UNCHANGED <<fault, toCtl, toHost, peer, accepted, got, spent>>

(***************************************************************************)
(* Sending                                                                 *)
(***************************************************************************)

\* A write may fail; nothing of it is then on the line.
Failing == spent.faults < MaxFaults
Used(f) == [spent EXCEPT !.faults = @ + 1, !.frames = @ + f]

CanSend ==
    /\ drv # "closed" /\ ctl.state = "ready" /\ fault = "none"
    /\ spent.frames < MaxFrames

\* brickwright_ehcill_send while awake ...
SendNow(n) ==
    /\ eh.state = "awake"
    /\ \/ /\ toCtl' = Append(toCtl, Frame(n)) /\ accepted' = Append(accepted, Frame(n))
          /\ spent' = [spent EXCEPT !.frames = n] /\ UNCHANGED fault
       \/ /\ Failing /\ fault' = "io" /\ spent' = Used(1)
          /\ UNCHANGED <<toCtl, accepted>>
    /\ UNCHANGED eh

\* ... and otherwise: keep the frame, and ask a sleeping controller to wake.
\* A frame that does not fit is refused and latches no fault.
SendKept(n) ==
    /\ eh.state # "awake" /\ Len(eh.pending) < MaxPending
    /\ \/ /\ toCtl' = IF eh.state = "asleep" THEN Append(toCtl, Byte("WAKE_IND")) ELSE toCtl
          /\ eh' = [state |-> "waking", pending |-> Append(eh.pending, Frame(n))]
          /\ accepted' = Append(accepted, Frame(n))
          /\ spent' = [spent EXCEPT !.frames = n] /\ UNCHANGED fault
       \/ /\ eh.state = "asleep" /\ Failing /\ fault' = "io" /\ spent' = Used(1)
          /\ UNCHANGED <<toCtl, eh, accepted>>

\* driver_send, under physical_mutex.
DriverSend ==
    /\ CanSend
    /\ SendNow(spent.frames + 1) \/ SendKept(spent.frames + 1)
    /\ UNCHANGED <<ctl, drv, rx, toHost, peer, got>>

(***************************************************************************)
(* Receiving                                                               *)
(***************************************************************************)

Receiving == rx = "loop" /\ drv = "open" /\ fault = "none"

\* Mutant: waking up forgets what was kept.
WakeForgets(line) ==
    /\ toCtl' = line
    /\ eh' = [state |-> "awake", pending |-> <<>>]
    /\ UNCHANGED <<fault, spent>>

\* wake, after what has been written to line already: the kept frames go out
\* in one write, and the link is awake only when that has succeeded.
Wake(line) ==
    \/ /\ toCtl' = line \o eh.pending
       /\ eh' = [state |-> "awake", pending |-> <<>>]
       /\ UNCHANGED <<fault, spent>>
    \/ /\ eh.pending # <<>> /\ Failing
       /\ toCtl' = line /\ fault' = "io" /\ spent' = Used(0) /\ UNCHANGED eh

LatchIo ==
    /\ Failing /\ fault' = "io" /\ spent' = Used(0) /\ UNCHANGED <<eh, toCtl>>
LatchProto ==
    /\ fault' = "proto" /\ UNCHANGED <<eh, toCtl, spent>>

\* Mutant: the host answers, and goes on as if the controller were awake.
OnSleepIndAwake ==
    /\ toCtl' = Append(toCtl, Byte("SLEEP_ACK"))
    /\ UNCHANGED <<eh, fault, spent>>

OnSleepInd ==
    \/ eh.state = "waking" /\ LatchProto
    \/ /\ eh.state # "waking"
       /\ toCtl' = Append(toCtl, Byte("SLEEP_ACK")) /\ eh' = [eh EXCEPT !.state = "asleep"]
       /\ UNCHANGED <<fault, spent>>
    \/ eh.state # "waking" /\ LatchIo

OnWakeInd == Wake(Append(toCtl, Byte("WAKE_ACK"))) \/ LatchIo

\* A second answer after two crossing wake-ups is harmless.
OnWakeAck ==
    \/ eh.state = "awake" /\ UNCHANGED <<eh, fault, toCtl, spent>>
    \/ eh.state = "asleep" /\ LatchProto
    \/ eh.state = "waking" /\ Wake(toCtl)

\* brickwright_h4_transport_receive with a byte or an event at hand.
Receive ==
    /\ Receiving /\ toHost # <<>>
    /\ toHost' = Tail(toHost)
    /\ CASE Head(toHost)[1] = "SLEEP_IND" -> OnSleepInd
         [] Head(toHost)[1] = "WAKE_IND"  -> OnWakeInd
         [] Head(toHost)[1] = "WAKE_ACK"  -> OnWakeAck
         [] OTHER -> UNCHANGED <<eh, fault, toCtl, spent>>
    /\ UNCHANGED <<ctl, drv, rx, peer, accepted, got>>

\* A silence of 100 ms is a fault while a wake-up is not answered.
ReceiveTimeout ==
    /\ Receiving /\ toHost = <<>> /\ eh.state = "waking"
    /\ fault' = "timeout"
    /\ UNCHANGED <<eh, toCtl, toHost, peer, accepted, got, ctl, drv, rx, spent>>

\* Any other error of poll or read.
ReceiveError ==
    /\ Receiving /\ LatchIo
    /\ UNCHANGED <<toHost, peer, accepted, got, ctl, drv, rx>>

\* receive_main after a fault: brickwright_controller_recover.  When the
\* recoveries are used up the thread goes round with the fault; when the
\* bring-up fails it ends.
Recover ==
    /\ rx = "loop" /\ drv = "open" /\ fault # "none"
    /\ ctl.recoveries < MaxRecoveries
    /\ \/ /\ BringUp /\ UNCHANGED rx
          /\ ctl' = [ctl EXCEPT !.recoveries = @ + 1]
       \/ /\ eh' = [state |-> "asleep", pending |-> <<>>]
          /\ ctl' = [Unwind EXCEPT !.recoveries = @ + 1] /\ rx' = "ended"
          /\ toCtl' = <<>> /\ toHost' = <<>> /\ peer' = "off"
          /\ accepted' = <<>> /\ got' = <<>> /\ UNCHANGED fault
    /\ UNCHANGED <<drv, spent>>

\* Mutant: the thread looks at the stop only while the link is well.
RxStopHealthy ==
    /\ rx = "loop" /\ drv = "stopping" /\ fault = "none"
    /\ rx' = "ended"
    /\ UNCHANGED <<link, ctl, drv, spent>>

RxStop ==
    /\ rx = "loop" /\ drv = "stopping"
    /\ rx' = "ended"
    /\ UNCHANGED <<link, ctl, drv, spent>>

(***************************************************************************)
(* The controller, external                                                *)
(***************************************************************************)

Host == <<eh, fault, ctl, drv, rx, accepted>>

PeerDoze ==
    /\ peer = "awake" /\ spent.naps < MaxNaps
    /\ peer' = "dozing" /\ toHost' = Append(toHost, Byte("SLEEP_IND"))
    /\ spent' = [spent EXCEPT !.naps = @ + 1]
    /\ UNCHANGED <<Host, toCtl, got>>

PeerWake ==
    /\ peer = "asleep"
    /\ peer' = "waking" /\ toHost' = Append(toHost, Byte("WAKE_IND"))
    /\ UNCHANGED <<Host, toCtl, got, spent>>

PeerEvent ==
    /\ peer = "awake" /\ toHost = <<>>
    /\ toHost' = <<Byte("EVENT")>>
    /\ UNCHANGED <<Host, toCtl, peer, got, spent>>

PeerDies ==
    /\ peer \notin {"off", "dead"} /\ Failing
    /\ peer' = "dead" /\ spent' = Used(0)
    /\ UNCHANGED <<Host, toCtl, toHost, got>>

\* Frames are lost on a controller that is asleep.  When two wake-ups cross,
\* the controller may answer or take the other's as its answer.
PeerTake ==
    /\ toCtl # <<>> /\ peer \notin {"off", "dead"}
    /\ toCtl' = Tail(toCtl)
    /\ LET m == Head(toCtl) IN
       \/ /\ IsFrame(m)
          /\ got' = IF peer \in {"awake", "dozing"} THEN Append(got, m) ELSE got
          /\ UNCHANGED <<peer, toHost>>
       \/ /\ m[1] = "SLEEP_ACK" /\ peer' = IF peer = "dozing" THEN "asleep" ELSE peer
          /\ UNCHANGED <<toHost, got>>
       \/ /\ m[1] = "WAKE_ACK" /\ peer' = IF peer = "waking" THEN "awake" ELSE peer
          /\ UNCHANGED <<toHost, got>>
       \/ /\ m[1] = "WAKE_IND" /\ peer # "waking"
          /\ peer' = "awake" /\ toHost' = Append(toHost, Byte("WAKE_ACK")) /\ UNCHANGED got
       \/ /\ m[1] = "WAKE_IND" /\ peer = "waking"
          /\ peer' \in {"awake", "waking"}
          /\ toHost' \in {toHost, Append(toHost, Byte("WAKE_ACK"))} /\ UNCHANGED got
    /\ UNCHANGED <<Host, spent>>

Rx == Receive \/ ReceiveTimeout \/ Recover \/ RxStop

Next ==
    \/ DriverOpen \/ DriverClose \/ Join \/ DriverSend
    \/ Rx \/ ReceiveError
    \/ PeerDoze \/ PeerWake \/ PeerEvent \/ PeerDies \/ PeerTake

Spec == Init /\ [][Next]_vars

\* The receive thread and the closing task run; a living controller reads.
FairSpec == Spec /\ WF_vars(Rx) /\ WF_vars(Join) /\ WF_vars(PeerTake)

----------------------------------------------------------------------------
(* Properties *)

OnLine == SelectSeq(toCtl, IsFrame)

\* No frame reaches a controller that sleeps or has not yet been told that
\* its wake-up was heard, however sleep and wake indications cross.
NoFrameIntoSleep ==
    peer \in {"asleep", "waking"} /\ toCtl # <<>> => ~IsFrame(Head(toCtl))

\* While there is no fault every accepted frame is with the controller, on the
\* line or kept, once and in order.
Accounted ==
    fault = "none" /\ ctl.state = "ready" /\ drv # "closed" =>
      accepted = got \o OnLine \o eh.pending

\* Two parties that keep the rules never see a protocol error, whatever
\* crosses on the lines.
NoHciFault == fault # "proto"

\* A driver that is closed, or whose bring-up failed, holds no open transport.
ClosedIsOff == drv = "closed" \/ ctl.state = "failed" => ~ctl.open

WokenDue == eh.state = "waking" /\ drv = "open"
WokenMet == eh.state # "waking" \/ fault # "none" \/ drv # "open"

\* A wake-up is answered, or given up for a recovery, also when the controller
\* has died.
Woken == WokenDue ~> WokenMet

CloseEndsDue == drv = "stopping"
CloseEndsMet == drv = "closed"

\* A close comes to its end, also while the link is faulty for good.
CloseEnds == CloseEndsDue ~> CloseEndsMet
=============================================================================
