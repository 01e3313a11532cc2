------------------------------- MODULE BtUart -------------------------------
(***************************************************************************)
(* The serial line to the Bluetooth controller: the circular receive DMA   *)
(* with its one-shot notification latch and the transmit DMA               *)
(* (stm32_btuart.c), and /dev/ttyBT above them (stm32_btuart_chardev.c).   *)
(*                                                                         *)
(* The n-th byte of the line is the number n; slot s of the ring holds the *)
(* newest byte that is s modulo the ring's size.  Thread code runs between *)
(* any two steps of the interrupt; what the code does in a critical        *)
(* section is one step.  External: the controller, its CTS line, and       *)
(* poll().                                                                 *)
(***************************************************************************)
EXTENDS Integers

CONSTANTS Ring,      \* BTUART_RXRING_SIZE
          MaxBytes,  \* bound on the bytes the controller sends
          MaxAhead,  \* how far the controller may be ahead of the reader
          Writer,    \* threads that write or set the baud rate
          MaxOpens   \* bound on the sessions

BtUartAssumption == Ring \in Nat \ {0} /\ {MaxBytes, MaxAhead, MaxOpens} \subseteq Nat /\ "nobody" \notin Writer

VARIABLES
    sent,            \* bytes the DMA has stored
    quiet,           \* the line is quiet: no byte is arriving
    idle,            \* USART_SR_IDLE
    opens, open,     \* sessions so far; priv->open, with the callback attached and IDLEIE set
    rx_consumer,     \* modulo Ring
    rxwork_pending, rxsem,
    rd,              \* the reader: step, producer as loaded, bytes asked for, poll or read
    slot, revents,   \* its entry in fds, and what poll_notify reported
    next, garbled,   \* history: the next byte due, and whether another one came
    since,           \* history: the bytes the line had carried when the device was opened
    txlock, dma, tc, \* transmission: who holds the lock, bytes with the DMA, shift register empty
    cts, baud, wr    \* clear to send; rate; each writer's step

rxv == <<sent, quiet, idle, opens, open, rx_consumer, rxwork_pending, rxsem, rd, slot, revents, next,
         garbled, since>>
txv == <<txlock, dma, tc, cts, baud, wr>>
vars == <<sent, quiet, idle, opens, open, rx_consumer, rxwork_pending, rxsem, rd, slot, revents, next,
          garbled, since, txlock, dma, tc, cts, baud, wr>>

NoWriter == "nobody"
RdIdle == [pc |-> "idle", prod |-> 0, n |-> 1, block |-> TRUE]

Init ==
    /\ sent = 0 /\ quiet = TRUE /\ idle = FALSE /\ opens = 0 /\ open = FALSE /\ rx_consumer = 0
    /\ rxwork_pending = FALSE /\ rxsem = 0 /\ rd = RdIdle /\ slot = FALSE /\ revents = FALSE
    /\ next = 0 /\ garbled = FALSE /\ since = 0
    /\ txlock = NoWriter /\ dma = 0 /\ tc = TRUE /\ cts = TRUE /\ baud = 1 /\ wr = [w \in Writer |-> "idle"]

-----------------------------------------------------------------------------
(* Reception.                                                              *)

\* btuart_rx_producer, from the residual count of the DMA
Producer == sent % Ring
Available(p) == IF p >= rx_consumer THEN p - rx_consumer ELSE Ring - (rx_consumer - p)
Newest(s) == sent - 1 - ((sent - 1 - s) % Ring)     \* the byte slot s holds

\* A byte arrives; the line falls quiet for a frame time.
Arrive ==
    /\ sent < MaxBytes /\ sent - next < MaxAhead /\ sent' = sent + 1 /\ quiet' = FALSE
    /\ UNCHANGED <<idle, opens, open, rx_consumer, rxwork_pending, rxsem, rd, slot, revents, next, garbled, since>>
    /\ UNCHANGED txv

FallQuiet ==
    /\ ~quiet /\ quiet' = TRUE /\ idle' = TRUE
    /\ UNCHANGED <<sent, opens, open, rx_consumer, rxwork_pending, rxsem, rd, slot, revents, next, garbled, since>>
    /\ UNCHANGED txv

Isr ==
    /\ idle /\ open /\ idle' = FALSE
    /\ IF rxwork_pending \/ Producer = rx_consumer THEN UNCHANGED <<rxwork_pending, rxsem, revents>>
       ELSE rxwork_pending' = TRUE /\ rxsem' = 1 /\ revents' = (revents \/ slot)
    /\ UNCHANGED <<sent, quiet, opens, open, rx_consumer, rd, slot, next, garbled, since>> /\ UNCHANGED txv

\* btuart_cdev_open, btuart_cdev_close: the ring is left as it is
Open ==
    /\ ~open /\ opens < MaxOpens /\ opens' = opens + 1 /\ open' = TRUE /\ since' = sent
    /\ UNCHANGED <<sent, quiet, idle, rx_consumer, rxwork_pending, rxsem, rd, slot, revents, next, garbled>>
    /\ UNCHANGED txv

Close ==
    /\ open /\ rd = RdIdle /\ open' = FALSE /\ rxwork_pending' = FALSE
    /\ UNCHANGED <<sent, quiet, idle, opens, rx_consumer, rxsem, rd, slot, revents, next, garbled, since>>
    /\ UNCHANGED txv

\* btuart_cdev_read of n bytes, or poll() and then a read that does not block
Step(r) == rd' = r
Keep == UNCHANGED <<sent, quiet, idle, opens, open, since>> /\ UNCHANGED txv

Call ==
    /\ open /\ rd.pc = "idle"
    /\ \E n \in 1..2 : \/ Step([RdIdle EXCEPT !.pc = "load", !.n = n])
                       \/ Step([RdIdle EXCEPT !.pc = "slot", !.n = n, !.block = FALSE])
    /\ UNCHANGED <<rx_consumer, rxwork_pending, rxsem, slot, revents, next, garbled>> /\ Keep

\* btuart_cdev_poll: the entry first, then the look at the ring
PollSetup ==
    /\ rd.pc = "slot" /\ slot' = TRUE /\ revents' = FALSE /\ Step([rd EXCEPT !.pc = "peek"])
    /\ UNCHANGED <<rx_consumer, rxwork_pending, rxsem, next, garbled>> /\ Keep

PollPeekNot ==                   \* mutant: bytes that are already there are not reported
    /\ rd.pc = "peek" /\ Step([rd EXCEPT !.pc = "poll"])
    /\ UNCHANGED <<rx_consumer, rxwork_pending, rxsem, slot, revents, next, garbled>> /\ Keep

PollPeek ==
    /\ rd.pc = "peek" /\ Step([rd EXCEPT !.pc = "poll"])
    /\ revents' = (revents \/ Available(Producer) > 0)
    /\ UNCHANGED <<rx_consumer, rxwork_pending, rxsem, slot, next, garbled>> /\ Keep

PollDone ==
    /\ rd.pc = "poll" /\ revents /\ slot' = FALSE /\ Step([rd EXCEPT !.pc = "load"])
    /\ UNCHANGED <<rx_consumer, rxwork_pending, rxsem, revents, next, garbled>> /\ Keep

\* btuart_read: the producer is loaded; then either nothing is there ...
Load ==
    /\ rd.pc = "load"
    /\ Step([rd EXCEPT !.prod = Producer, !.pc = IF Available(Producer) = 0 THEN "empty" ELSE "copy"])
    /\ UNCHANGED <<rx_consumer, rxwork_pending, rxsem, slot, revents, next, garbled>> /\ Keep

Rearm == rxwork_pending' = (rxwork_pending /\ Producer # rx_consumer)

Empty ==
    /\ rd.pc = "empty" /\ Rearm
    /\ Step(IF rd.block THEN [rd EXCEPT !.pc = "wait"] ELSE RdIdle)
    /\ UNCHANGED <<rx_consumer, rxsem, slot, revents, next, garbled>> /\ Keep

SemWait ==
    /\ rd.pc = "wait" /\ rxsem > 0 /\ rxsem' = 0 /\ Step([rd EXCEPT !.pc = "load"])
    /\ UNCHANGED <<rx_consumer, rxwork_pending, slot, revents, next, garbled>> /\ Keep

\* ... or bytes are copied, the consumer moves, and the latch is looked at.
Copied(n) == {Newest((rx_consumer + i) % Ring) : i \in 0..(n - 1)}

CopyAll ==                       \* mutant: the consumer jumps to the producer
    /\ rd.pc = "copy"
    /\ LET n == IF Available(rd.prod) < rd.n THEN Available(rd.prod) ELSE rd.n IN
        /\ rx_consumer' = rd.prod /\ next' = next + n
        /\ garbled' = (garbled \/ Copied(n) # next..(next + n - 1))
    /\ Step([rd EXCEPT !.pc = "rearm"]) /\ UNCHANGED <<rxwork_pending, rxsem, slot, revents>> /\ Keep

Copy ==
    /\ rd.pc = "copy"
    /\ LET n == IF Available(rd.prod) < rd.n THEN Available(rd.prod) ELSE rd.n IN
        /\ rx_consumer' = (rx_consumer + n) % Ring /\ next' = next + n
        /\ garbled' = (garbled \/ Copied(n) # next..(next + n - 1))
    /\ Step([rd EXCEPT !.pc = "rearm"]) /\ UNCHANGED <<rxwork_pending, rxsem, slot, revents>> /\ Keep

CopyDone ==
    /\ rd.pc = "rearm" /\ Rearm /\ Step(RdIdle)
    /\ UNCHANGED <<rx_consumer, rxsem, slot, revents, next, garbled>> /\ Keep

-----------------------------------------------------------------------------
(* Transmission.                                                           *)

Wr(w, s) == wr' = [wr EXCEPT ![w] = s]

\* btuart_write, btuart_setbaud: both under txlock
TxCall(w, s) ==
    /\ wr[w] = "idle" /\ Wr(w, s) /\ UNCHANGED <<txlock, dma, tc, cts, baud>> /\ UNCHANGED rxv

TxStart(w) ==
    /\ wr[w] = "write" /\ txlock = NoWriter /\ txlock' = w /\ dma' = 2 /\ Wr(w, "wait")
    /\ UNCHANGED <<tc, cts, baud>> /\ UNCHANGED rxv

\* The DMA feeds the shift register while CTS allows; the last byte leaves after the DMA is done.
Shift ==
    /\ cts /\ dma' = (IF dma > 0 THEN dma - 1 ELSE 0) /\ tc' = (dma = 0) /\ (dma > 0 \/ ~tc)
    /\ UNCHANGED <<txlock, cts, baud, wr>> /\ UNCHANGED rxv

TxDone(w) ==
    /\ wr[w] = "wait" /\ dma = 0 /\ txlock' = NoWriter /\ Wr(w, "idle")
    /\ UNCHANGED <<dma, tc, cts, baud>> /\ UNCHANGED rxv

SetBaudLock(w) ==
    /\ wr[w] = "setbaud" /\ txlock = NoWriter /\ txlock' = w /\ Wr(w, "spin")
    /\ UNCHANGED <<dma, tc, cts, baud>> /\ UNCHANGED rxv

SetBaudAtOnce(w) ==              \* mutant: the shift register is not waited for
    /\ wr[w] = "spin" /\ baud' = 1 - baud /\ txlock' = NoWriter /\ Wr(w, "idle")
    /\ UNCHANGED <<dma, tc, cts>> /\ UNCHANGED rxv

SetBaud(w) ==
    /\ wr[w] = "spin" /\ tc /\ baud' = 1 - baud /\ txlock' = NoWriter /\ Wr(w, "idle")
    /\ UNCHANGED <<dma, tc, cts>> /\ UNCHANGED rxv

CtsChange == cts' = ~cts /\ UNCHANGED <<txlock, dma, tc, baud, wr>> /\ UNCHANGED rxv

Reader == Call \/ PollSetup \/ PollPeek \/ PollDone \/ Load \/ Empty \/ SemWait \/ Copy \/ CopyDone
ReaderGoesOn == PollSetup \/ PollPeek \/ PollDone \/ Load \/ Empty \/ SemWait \/ Copy \/ CopyDone
WriterStep(w) == TxStart(w) \/ TxDone(w) \/ SetBaudLock(w) \/ SetBaud(w)

Next ==
    \/ Arrive \/ FallQuiet \/ Isr \/ Open \/ Close \/ Reader
    \/ \E w \in Writer : TxCall(w, "write") \/ TxCall(w, "setbaud") \/ WriterStep(w)
    \/ Shift \/ CtsChange

Spec == Init /\ [][Next]_vars

CtsReturns == ~cts /\ CtsChange

\* The interrupt is served, the threads run, txlock is handed to whoever waits
\* long enough, and the controller lets bytes pass now and then.
FairSpec == Spec /\ WF_vars(FallQuiet) /\ WF_vars(Isr) /\ WF_vars(ReaderGoesOn)
                 /\ SF_vars(Shift) /\ WF_vars(CtsReturns) /\ \A w \in Writer : SF_vars(WriterStep(w))

-----------------------------------------------------------------------------
\* The types of the reception, and of the transmission, with the lock that a thread holds
\* while it waits.
RxTypeOK ==
    /\ sent \in 0..MaxBytes /\ {quiet, idle, open, rxwork_pending, slot, revents, garbled} \subseteq BOOLEAN
    /\ rx_consumer \in 0..(Ring - 1) /\ rxsem \in 0..1
    /\ rd.pc \in {"idle", "slot", "peek", "poll", "load", "empty", "copy", "rearm", "wait"}

TxTypeOK ==
    /\ {tc, cts} \subseteq BOOLEAN /\ dma \in 0..2 /\ baud \in 0..1
    /\ txlock \in Writer \cup {NoWriter}
    /\ \A w \in Writer : wr[w] \in {"idle", "write", "setbaud"} <=> txlock # w

\* Every byte is delivered once and in its order, while the controller stays less
\* than a ring ahead.
RxInOrder == ~garbled

\* A reader that sleeps while the ring holds bytes has been woken or will be: the
\* line is not quiet yet, or its interrupt is pending.
WokenOrWillBe ==
    /\ rd.pc = "wait" /\ Producer # rx_consumer => rxsem > 0 \/ idle \/ ~quiet
    /\ rd.pc = "poll" /\ Producer # rx_consumer => revents \/ idle \/ ~quiet

\* The latch is never left set over an empty ring once the reader has returned: it
\* would keep every later burst from being announced.
LatchMeansBytes == rxwork_pending /\ rd.pc \in {"idle", "slot", "peek", "poll", "wait"} => Producer # rx_consumer

\* The rate never changes under a byte that is being shifted out.
BaudQuiet == baud' # baud => tc /\ dma = 0

ReaderWakesDue == rd.pc \in {"wait", "poll"} /\ Producer # rx_consumer
ReaderWakesMet == rd.pc \in {"idle", "copy"}

\* A sleeping reader gets its bytes: a wake-up that was latched for it is not lost.
ReaderWakes == ReaderWakesDue ~> ReaderWakesMet

TxEndsDue(w) == wr[w] # "idle"
TxEndsMet(w) == wr[w] = "idle"

\* Every write and every change of the rate ends, however often the controller takes CTS away.
TxEnds == \A w \in Writer : TxEndsDue(w) ~> TxEndsMet(w)

\* rxdrain: opening the device gives a clean slate, so the first byte a session reads
\* came after it was opened.
CleanOpen == open /\ rd.pc = "rearm" => next > since
=============================================================================
