------------------------------ MODULE LumpUart ------------------------------
(***************************************************************************)
(* The UART of a port (stm32_legoport_uart_hw.c): the interrupt that no    *)
(* critical section holds off and that only moves bytes into a ring, the   *)
(* kernel thread that polls the ring, and its writes with two deadlines.   *)
(*                                                                         *)
(* Bytes are numbered as they arrive.  The code that changes the ring's    *)
(* indices or the rate masks the interrupt in the NVIC, so each such part  *)
(* is one step.  One step of time is a clock tick.  External: the device,  *)
(* which sends at any time, and the shift register, which takes CharTicks  *)
(* for a byte or has no clock any more.                                    *)
(***************************************************************************)
EXTENDS Integers, Sequences

CONSTANTS Ring,         \* LUMP_UART_RXRING_SIZE
          MaxBytes,     \* bound on the bytes that arrive
          PollTicks,    \* LUMP_UART_RX_POLL_MS
          Timeouts,     \* timeouts of reads, in ticks
          ByteTicks,    \* LUMP_UART_TX_BYTE_TIMEOUT_MS
          FrameMin,     \* LUMP_UART_TX_FRAME_TIMEOUT_MIN_MS
          CharTicks,    \* time of a byte on the line at the current rate
          MaxLen,       \* bound on the length of a frame
          Dead,         \* the shift register may stop
          MaxRates,     \* bound on the rates set
          MaxTime       \* bound on the clock

LumpUartAssumption ==
    /\ {Ring, PollTicks, ByteTicks, FrameMin, CharTicks} \subseteq Nat \ {0}
    /\ {MaxBytes, MaxLen, MaxRates, MaxTime} \subseteq Nat /\ Timeouts \subseteq Nat /\ Dead \in BOOLEAN

VARIABLES
    opened, baud, \* the rate is counted up at each change
    ring, rx_head, rx_tail, ore_count,
    rdr,          \* the byte in the data register: number and rate, or 0
    n, clock,     \* bytes so far, time
    op,           \* the thread's call: step, deadline, wake time, bytes left, start
    got, mark     \* history: the last byte read, and the newest byte a flush or an open discarded

vars == <<opened, baud, ring, rx_head, rx_tail, ore_count, rdr, n, clock, op, got, mark>>

NoByte == [no |-> 0, baud |-> 0]
NoOp == [pc |-> "idle", end |-> 0, wake |-> 0, left |-> 0, begin |-> 0]

Init ==
    /\ opened = FALSE /\ baud = 0 /\ ring = [i \in 0..(Ring - 1) |-> NoByte] /\ rx_head = 0 /\ rx_tail = 0
    /\ ore_count = 0 /\ rdr = NoByte /\ n = 0 /\ clock = 0 /\ op = NoOp /\ got = NoByte /\ mark = 0

Calls == UNCHANGED <<op, clock>>
Inc(i) == (i + 1) % Ring

-----------------------------------------------------------------------------
\* The device sends; a byte that finds the register full is an overrun.
Arrive ==
    /\ opened /\ n < MaxBytes /\ n' = n + 1
    /\ IF rdr = NoByte THEN rdr' = [no |-> n + 1, baud |-> baud] /\ UNCHANGED ore_count
       ELSE ore_count' = (IF ore_count < 255 THEN ore_count + 1 ELSE 255) /\ UNCHANGED rdr
    /\ UNCHANGED <<opened, baud, ring, rx_head, rx_tail, got, mark>> /\ Calls

\* lump_uart_isr_core: into the ring, or dropped when it is full
Isr ==
    /\ opened /\ rdr # NoByte /\ rdr' = NoByte
    /\ IF Inc(rx_head) # rx_tail THEN ring' = [ring EXCEPT ![rx_head] = rdr] /\ rx_head' = Inc(rx_head)
       ELSE UNCHANGED <<ring, rx_head>>
    /\ UNCHANGED <<opened, baud, rx_tail, ore_count, n, got, mark>> /\ Calls

Open ==
    /\ ~opened /\ op.pc = "idle" /\ opened' = TRUE /\ baud < MaxRates /\ baud' = baud + 1
    /\ rx_head' = 0 /\ rx_tail' = 0 /\ ore_count' = 0 /\ rdr' = NoByte /\ mark' = n
    /\ UNCHANGED <<ring, n, got>> /\ Calls

Close == opened /\ op.pc = "idle" /\ opened' = FALSE
         /\ UNCHANGED <<baud, ring, rx_head, rx_tail, ore_count, rdr, n, got, mark>> /\ Calls

\* lump_uart_set_baud: the register is drained, the ring is not
SetBaud ==
    /\ opened /\ op.pc = "idle" /\ baud < MaxRates /\ baud' = baud + 1 /\ rdr' = NoByte
    /\ UNCHANGED <<opened, ring, rx_head, rx_tail, ore_count, n, got, mark>> /\ Calls

Flush ==
    /\ opened /\ op.pc = "idle" /\ rx_tail' = rx_head /\ rdr' = NoByte /\ mark' = n
    /\ UNCHANGED <<opened, baud, ring, rx_head, ore_count, n, got>> /\ Calls

-----------------------------------------------------------------------------
Line == <<opened, baud, rdr, n>>
Min2(a, b) == IF a < b THEN a ELSE b
Max2(a, b) == IF a < b THEN b ELSE a

\* lump_uart_read_byte
ReadCall ==
    /\ opened /\ op.pc = "idle"
    /\ \E t \in Timeouts : op' = [NoOp EXCEPT !.pc = "look", !.end = clock + t]
    /\ UNCHANGED <<ring, rx_head, rx_tail, ore_count, clock, got, mark>> /\ UNCHANGED Line

Look ==
    /\ op.pc = "look"
    /\ IF rx_head # rx_tail
       THEN got' = ring[rx_tail] /\ rx_tail' = Inc(rx_tail) /\ op' = NoOp
       ELSE op' = [op EXCEPT !.pc = "due"] /\ UNCHANGED <<got, rx_tail>>
    /\ UNCHANGED <<ring, rx_head, ore_count, clock, mark>> /\ UNCHANGED Line

DueFullPoll ==                   \* mutant: the last poll is not shortened
    /\ op.pc = "due"
    /\ op' = IF op.end <= clock THEN NoOp ELSE [op EXCEPT !.pc = "nap", !.wake = clock + PollTicks]
    /\ UNCHANGED <<ring, rx_head, rx_tail, ore_count, clock, got, mark>> /\ UNCHANGED Line

Due ==
    /\ op.pc = "due"
    /\ op' = IF op.end <= clock THEN NoOp
             ELSE [op EXCEPT !.pc = "nap", !.wake = clock + Min2(PollTicks, op.end - clock)]
    /\ UNCHANGED <<ring, rx_head, rx_tail, ore_count, clock, got, mark>> /\ UNCHANGED Line

Wake ==
    /\ op.pc = "nap" /\ clock >= op.wake /\ op' = [op EXCEPT !.pc = "look"]
    /\ UNCHANGED <<ring, rx_head, rx_tail, ore_count, clock, got, mark>> /\ UNCHANGED Line

Frame(len) == Max2(FrameMin, len * CharTicks * 2)

WriteCall ==
    /\ opened /\ op.pc = "idle"
    /\ \E len \in 1..MaxLen :
          op' = [pc |-> "txe", end |-> clock + Frame(len), wake |-> clock + ByteTicks, left |-> len, begin |-> clock]
    /\ UNCHANGED <<ring, rx_head, rx_tail, ore_count, clock, got, mark>> /\ UNCHANGED Line

\* TXE: the byte goes to the register; a byte leaves the line CharTicks after the one before.
PutByte ==
    /\ op.pc = "txe"
    /\ op' = [op EXCEPT !.pc = "shift", !.left = @ - 1, !.wake = clock + ByteTicks]
    /\ UNCHANGED <<ring, rx_head, rx_tail, ore_count, clock, got, mark>> /\ UNCHANGED Line

Shifted(t) == t + CharTicks - ByteTicks     \* when the byte whose deadline is t is out
OutByte ==
    /\ op.pc = "shift" /\ clock >= Shifted(op.wake)
    /\ op' = IF op.left = 0 THEN [op EXCEPT !.pc = "sent"] ELSE [op EXCEPT !.pc = "txe"]
    /\ UNCHANGED <<ring, rx_head, rx_tail, ore_count, clock, got, mark>> /\ UNCHANGED Line

WriteOk ==
    /\ op.pc = "sent" /\ op' = NoOp
    /\ UNCHANGED <<ring, rx_head, rx_tail, ore_count, clock, got, mark>> /\ UNCHANGED Line

TimedOut == clock >= op.wake \/ (op.left > 0 /\ clock >= op.end)

WriteTimeout ==
    /\ op.pc = "shift" /\ TimedOut /\ op' = [op EXCEPT !.pc = "failed"]
    /\ UNCHANGED <<ring, rx_head, rx_tail, ore_count, clock, got, mark>> /\ UNCHANGED Line

WriteFailed ==
    /\ op.pc = "failed" /\ op' = NoOp
    /\ UNCHANGED <<ring, rx_head, rx_tail, ore_count, clock, got, mark>> /\ UNCHANGED Line

\* Time passes when the thread sleeps or spins, and not past what it waits for.
Tick ==
    /\ clock < MaxTime /\ clock' = clock + 1
    /\ \/ op.pc = "idle" \/ (op.pc = "nap" /\ clock < op.wake)
       \/ op.pc = "shift" /\ ~TimedOut /\ (clock < Shifted(op.wake) \/ Dead)
    /\ UNCHANGED <<opened, baud, ring, rx_head, rx_tail, ore_count, rdr, n, op, got, mark>>

Next ==
    \/ Arrive \/ Isr \/ Open \/ Close \/ SetBaud \/ Flush
    \/ ReadCall \/ Look \/ Due \/ Wake
    \/ WriteCall \/ PutByte \/ OutByte \/ WriteOk \/ WriteTimeout \/ WriteFailed \/ Tick

Spec == Init /\ [][Next]_vars

-----------------------------------------------------------------------------
TypeOK ==
    /\ opened \in BOOLEAN /\ {rx_head, rx_tail} \subseteq 0..(Ring - 1) /\ ore_count \in 0..255
    /\ op.pc \in {"idle", "look", "due", "nap", "txe", "shift", "sent", "failed"} /\ op.left \in 0..MaxLen
    /\ baud \in 0..MaxRates /\ n \in 0..MaxBytes /\ rdr.no \in 0..n

\* Bytes come out in the order they arrived, none twice, whatever was dropped.
BytesInOrder == got' # got => got'.no > got.no

\* After a flush or an open nothing older is read.
Fresh == got' # got => got'.no > mark

\* A read does not outlast its timeout, and a byte that is in the ring waits no
\* longer than a poll.
ReadInTime ==
    /\ op.pc \in {"look", "due", "nap"} => clock <= op.end
    /\ op.pc = "nap" => op.wake <= clock + PollTicks

\* A write ends within the frame's time and the last byte's, clock or no clock.
WriteInTime == op.pc \in {"txe", "shift", "sent"} => clock <= op.begin + Frame(MaxLen) + ByteTicks

\* With a line that works no write times out, however long and slow the frame.
HealthyWrites == ~Dead => op.pc # "failed"

\* set_baud: the new rate starts with a clean slate.
CleanRate == got' # got => got'.baud = baud
=============================================================================
