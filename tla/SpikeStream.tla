---------------------------- MODULE SpikeStream -----------------------------
(***************************************************************************)
(* The framing of the LE link (protocol/c/spike_codec.c, spike-codec.js,   *)
(* hub_protocol.c): a byte-stuffing code that keeps 0, 1 and 2 out of a    *)
(* message, an exclusive-or with 3 that keeps 1, 2 and 3 out of a frame,   *)
(* and frames that end with 2 and begin with 1 when they have priority.    *)
(* Bytes are 0..Full and a block holds at most (Full - 3) / 3 of them: the *)
(* code has Full = 255 and blocks of 84, Full = 15 and blocks of 4 is the  *)
(* same code on four bits.                                                 *)
(*                                                                         *)
(* Two state machines. The stream: a peer packs messages, one with         *)
(* priority possibly in the middle of another; the host hands the bytes up *)
(* in chunks that know nothing of frames; the hub's receiver, and the      *)
(* receiver of the JavaScript client for comparison, take them apart.      *)
(* External: the peer and the host. The table: every short sequence of     *)
(* bytes, taken as a message to pack and as a frame to unpack.             *)
(***************************************************************************)
EXTENDS Integers, Sequences, SequencesExt

CONSTANTS Full,          \* the largest byte, also the code of a block without delimiter
          MaxFrame       \* BW_SPIKE_STREAM_MAX_FRAME

SpikeCodecAssumption == Full \in Nat /\ (Full + 1) % 4 = 0 /\ (Full - 3) % 3 = 0 /\ Full > 3 /\ MaxFrame \in Nat /\ MaxFrame > 2

Byte == 0..Full
BlockMax == (Full - 3) \div 3
End == 2
ScratchSize == MaxFrame - 2

\* b ^ 3
Xor(b) == 4 * (b \div 4) + (3 - (b % 4))

-----------------------------------------------------------------------------
(* Encoding.  `over' notes a write past the destination. *)

Put(s, b, capacity) == IF Len(s.dst) >= capacity THEN [s EXCEPT !.ok = FALSE] ELSE [s EXCEPT !.dst = Append(@, b)]

\* a code byte whose value the end of the block decides
NewBlock(s, capacity) ==
    LET t == Put(s, Full, capacity) IN IF t.ok THEN [t EXCEPT !.code = Len(t.dst), !.block = 1] ELSE t

EncodeByte(s, b, capacity) ==
    IF ~s.ok THEN s
    ELSE IF b <= 2 THEN NewBlock([s EXCEPT !.dst[s.code] = s.block + 2 + b * BlockMax], capacity)
    ELSE LET t == [Put(s, b, capacity) EXCEPT !.block = s.block + 1] IN
         IF t.ok /\ t.block > BlockMax THEN NewBlock(t, capacity) ELSE t

\* bw_cobs_encode
CobsEncode(src, capacity) ==
    LET s0 == [dst |-> <<Full>>, code |-> 1, block |-> 1, ok |-> capacity >= 1, over |-> FALSE]
        s == FoldLeft(LAMBDA s, b : EncodeByte(s, b, capacity), s0, src)
    IN [s EXCEPT !.dst[s.code] = s.block + 2]

Wire(encoded) == [i \in 1..Len(encoded) |-> Xor(encoded[i])]

\* bw_spike_pack: the frame, ok, over
Pack(payload, high, capacity) ==
    LET start == IF high THEN <<1>> ELSE <<>>
        e == CobsEncode(payload, capacity - Len(start) - 1)
    IN IF capacity < Len(start) + 2 THEN [frame |-> <<>>, ok |-> FALSE, over |-> FALSE]
       ELSE [frame |-> start \o Wire(e.dst) \o <<End>>, ok |-> e.ok, over |-> e.over]

-----------------------------------------------------------------------------
(* Decoding.  `over' notes a read past the source or a write past the      *)
(* destination.                                                            *)

\* one turn of bw_cobs_decode's loop
DecodeBlock(s, src, capacity) ==
    LET code == src[s.in]
        delimiter == IF code = Full THEN -1 ELSE (code - 3) \div BlockMax
        block == IF code = Full THEN BlockMax ELSE (code - 3) % BlockMax
        more == delimiter >= 0 /\ s.in + block < Len(src)
        len == Len(s.dst) + block + (IF more THEN 1 ELSE 0)
    IN IF code <= 2 \/ delimiter > 2 \/ s.in + block > Len(src) THEN [s EXCEPT !.status = "invalid"]
       ELSE IF len > capacity THEN [s EXCEPT !.status = "no space"]
       ELSE [s EXCEPT !.in = s.in + block + 1, !.over = s.over \/ s.in + block > Len(src) \/ len > capacity,
                      !.dst = @ \o SubSeq(src, s.in + 1, s.in + block) \o (IF more THEN <<delimiter>> ELSE <<>>)]

\* bw_cobs_decode; a block takes at least one byte, so there are at most Len(src) turns
CobsDecode(src, capacity) ==
    LET s0 == [in |-> 1, dst |-> <<>>, status |-> IF src = <<>> THEN "invalid" ELSE "ok", over |-> FALSE]
        Turn(s, i) == IF s.status = "ok" /\ s.in <= Len(src) THEN DecodeBlock(s, src, capacity) ELSE s
    IN FoldLeft(Turn, s0, [i \in 1..Len(src) |-> i])

\* bw_spike_unpack
Unpack(frame, capacity) ==
    LET bad == [in |-> 0, dst |-> <<>>, status |-> "invalid", over |-> FALSE]
        start == IF frame[1] = 1 THEN 1 ELSE 0
        body == SubSeq(frame, start + 1, Len(frame) - 1)
    IN IF Len(frame) < 2 \/ frame[Len(frame)] # End THEN bad
       ELSE IF body = <<>> \/ Len(body) > ScratchSize \/ \E i \in 1..Len(body) : body[i] \in 1..3 THEN bad
       ELSE CobsDecode(Wire(body), capacity)

-----------------------------------------------------------------------------
(* The receiver: two frames under construction, of which a priority frame  *)
(* interrupts the other; `got' are the messages handed up, `stop' ends the *)
(* chunk; the handlers of the messages in `refused' return an error.       *)

StreamReset(s) == [s EXCEPT !.low = <<>>, !.high = <<>>, !.high_active = FALSE]

\* the priority frame is put into the buffer of the other
StreamByteOneBuffer(s, b, refused) ==
    LET u == Unpack(Append(s.low, End), MaxFrame)
    IN CASE s.stop -> s
         [] ~s.stop /\ b = 1 -> [s EXCEPT !.low = <<>>, !.high_active = TRUE]
         [] ~s.stop /\ b = End /\ s.low = <<>> -> [s EXCEPT !.high_active = FALSE]
         [] ~s.stop /\ b = End /\ s.low # <<>> ->
               IF u.status # "ok" THEN [StreamReset(s) EXCEPT !.stop = TRUE]
               ELSE [StreamReset(s) EXCEPT !.got = Append(@, [payload |-> u.dst, high |-> s.high_active]), !.stop = u.dst \in refused]
         [] ~s.stop /\ (b = 3 \/ (b \notin {1, End} /\ Len(s.low) >= MaxFrame - 1)) -> [StreamReset(s) EXCEPT !.stop = TRUE]
         [] OTHER -> [s EXCEPT !.low = Append(@, b)]

\* one byte in bw_spike_stream_feed
StreamByte(s, b, refused) ==
    LET frame == IF s.high_active THEN s.high ELSE s.low
        done == [s EXCEPT !.high_active = FALSE, !.high = IF s.high_active THEN <<>> ELSE @, !.low = IF s.high_active THEN @ ELSE <<>>]
        u == Unpack(Append(frame, End), MaxFrame)
    IN CASE s.stop -> s
         [] ~s.stop /\ b = 1 -> [s EXCEPT !.high = <<>>, !.high_active = TRUE]
         [] ~s.stop /\ b = End /\ frame = <<>> -> [s EXCEPT !.high_active = FALSE]
         [] ~s.stop /\ b = End /\ frame # <<>> ->
               IF u.status # "ok" THEN [StreamReset(s) EXCEPT !.stop = TRUE]
               ELSE [done EXCEPT !.got = Append(@, [payload |-> u.dst, high |-> s.high_active]), !.stop = u.dst \in refused]
         [] ~s.stop /\ (b = 3 \/ (b \notin {1, End} /\ Len(frame) >= MaxFrame - 1)) -> [StreamReset(s) EXCEPT !.stop = TRUE]
         [] OTHER -> IF s.high_active THEN [s EXCEPT !.high = Append(@, b)] ELSE [s EXCEPT !.low = Append(@, b)]

\* bw_spike_stream_feed
StreamFeed(s, chunk, refused) ==
    FoldLeft(LAMBDA t, b : StreamByte(t, b, refused), [s EXCEPT !.stop = FALSE, !.got = <<>>], chunk)

-----------------------------------------------------------------------------
(* The stream *)

CONSTANTS Payload,       \* messages the peer sends
          Junk,          \* malformed frames it sends
          Refused,       \* messages whose handler returns an error
          Reconnects,    \* the peer may connect again: "never", "between" frames, at "any" time
          Mtu,           \* the longest chunk
          MaxSent        \* bound on the messages of a connection

SpikeStreamAssumption == {Mtu, MaxSent} \subseteq Nat /\ Reconnects \in {"never", "between", "any"}

VARIABLES
    tx,                  \* the bytes on their way
    sent, got,           \* messages of this connection: low, high
    ble,                 \* the hub's receiver
    js, jsGot            \* the client's receiver

vars == <<tx, sent, got, ble, js, jsGot>>

None == [low |-> <<>>, high |-> <<>>]
Idle == [low |-> <<>>, high |-> <<>>, high_active |-> FALSE, got |-> <<>>, stop |-> FALSE]
JsIdle == [low |-> <<>>, high |-> <<>>, null |-> TRUE, got |-> <<>>, stop |-> FALSE]
Frame(p, high) == Pack(p, high, MaxFrame + 4).frame
Count == Len(sent.low) + Len(sent.high)
Sort(ms, old) == [low |-> old.low \o SelectSeq(ms, LAMBDA m : ~m.high), high |-> old.high \o SelectSeq(ms, LAMBDA m : m.high)]

Init == tx = <<>> /\ sent = None /\ got = None /\ ble = Idle /\ js = JsIdle /\ jsGot = None

SendLow(p) ==
    /\ Count < MaxSent /\ tx' = tx \o Frame(p, FALSE) /\ sent' = [sent EXCEPT !.low = Append(@, [payload |-> p, high |-> FALSE])]
    /\ UNCHANGED <<got, ble, js, jsGot>>

\* after k bytes of what is waiting
SendHigh(p, k) ==
    /\ Count < MaxSent /\ ~ble.high_active /\ \A i \in 1..Len(tx) : tx[i] # 1
    /\ tx' = SubSeq(tx, 1, k) \o Frame(p, TRUE) \o SubSeq(tx, k + 1, Len(tx))
    /\ sent' = [sent EXCEPT !.high = Append(@, [payload |-> p, high |-> TRUE])]
    /\ UNCHANGED <<got, ble, js, jsGot>>

\* one byte in FrameDecoder.push of the client; an exception ends the chunk
JsByte(s, b) ==
    LET active == IF s.null THEN s.low ELSE s.high
        u == Unpack(Append(active, End), MaxFrame)
        cleared == IF s.null THEN [s EXCEPT !.low = <<>>] ELSE [s EXCEPT !.high = <<>>, !.null = TRUE]
        fresh == [JsIdle EXCEPT !.got = s.got, !.stop = TRUE]
    IN IF s.stop THEN s
       ELSE IF b = 1 THEN [s EXCEPT !.high = <<>>, !.null = FALSE]
       ELSE IF b = End THEN
           IF active = <<>> THEN cleared
           ELSE IF u.status # "ok" THEN [s EXCEPT !.stop = TRUE]
           ELSE [cleared EXCEPT !.got = Append(@, [payload |-> u.dst, high |-> ~s.null])]
       ELSE IF b = 3 \/ Len(active) + 1 > MaxFrame - 1 THEN fresh
       ELSE IF s.null THEN [s EXCEPT !.low = Append(@, b)] ELSE [s EXCEPT !.high = Append(@, b)]

JsPush(s, chunk) == FoldLeft(JsByte, s, chunk)

\* brickwright_hub_protocol_feed_ble with the next n bytes
Feed(n) ==
    /\ n <= Len(tx) /\ tx' = SubSeq(tx, n + 1, Len(tx))
    /\ LET c == SubSeq(tx, 1, n)
           s == StreamFeed(ble, c, Refused)
           j == JsPush(js, c)
       IN /\ ble' = [s EXCEPT !.got = <<>>, !.stop = FALSE] /\ got' = Sort(s.got, got)
          /\ js' = [j EXCEPT !.got = <<>>, !.stop = FALSE] /\ jsGot' = Sort(j.got, jsGot)
    /\ UNCHANGED sent

\* a malformed frame in a chunk of its own, between two frames
FeedJunk(f) ==
    /\ tx = <<>> /\ ble.low = <<>> /\ ~ble.high_active
    /\ LET s == StreamFeed(ble, f, Refused) IN
       ble' = [s EXCEPT !.got = <<>>, !.stop = FALSE] /\ got' = Sort(s.got, got)
    /\ UNCHANGED <<tx, sent, js, jsGot>>

\* the connection is lost; the hub's receiver hears nothing of it, the client resets its own
Reconnect ==
    /\ Reconnects # "never" /\ (Reconnects = "between" => ble.low = <<>> /\ ~ble.high_active) /\ Count > 0
    /\ tx' = <<>> /\ sent' = None /\ got' = None /\ jsGot' = None /\ js' = JsIdle
    /\ UNCHANGED ble

Next ==
    \/ \E p \in Payload : SendLow(p) \/ \E k \in 0..Len(tx) : SendHigh(p, k)
    \/ \E n \in 1..Mtu : Feed(n)
    \/ \E f \in Junk : FeedJunk(f)
    \/ Reconnect

Spec == Init /\ [][Next]_vars

-----------------------------------------------------------------------------
TypeOK ==
    /\ \A i \in 1..Len(tx) : tx[i] \in Byte
    /\ Len(ble.low) < MaxFrame /\ Len(ble.high) < MaxFrame /\ (~ble.high_active => ble.high = <<>>)
    /\ \A r \in {ble, js} : \A i \in 1..Len(r.low) : r.low[i] \in Byte \ 1..3

\* What the hub handles is what the peer sent, of each priority in order, however the bytes were
\* cut into chunks and wherever a priority frame came in between (bw_spike_stream_feed).
MessagesInOrder == IsPrefix(got.low, sent.low) /\ IsPrefix(got.high, sent.high)

\* Once all bytes have been handed up, every message of this connection has been handled.
NothingLost == tx = <<>> => got = sent

\* The hub and the client take the same messages out of the same bytes.
SameMessages == jsGot = got

-----------------------------------------------------------------------------
(* The table of short messages *)

CONSTANTS Alphabet,      \* the bytes used
          MaxLen,        \* the longest sequence
          Capacity       \* sizes of the destination

VARIABLE bytes

TableInit == bytes = <<>>
TableNext == Len(bytes) < MaxLen /\ \E b \in Alphabet : bytes' = Append(bytes, b)
TableSpec == TableInit /\ [][TableNext]_bytes

Room == MaxFrame + 4

\* What was packed is unpacked to what it was, with and without priority, when its frame is not
\* longer than the receiver's scratch memory.
RoundTrip ==
    \A high \in BOOLEAN : LET f == Pack(bytes, high, Room).frame IN
        Len(f) - 1 <= ScratchSize => Unpack(f, MaxFrame).status = "ok" /\ Unpack(f, MaxFrame).dst = bytes

\* A frame has 1 at its begin, if it has priority, 2 at its end, and 1, 2 or 3 nowhere else: the
\* receiver finds its ends in any stream.
Transparent ==
    \A high \in BOOLEAN : LET f == Pack(bytes, high, Room).frame IN
        \A i \in 1..Len(f) : f[i] \in 1..3 => (i = 1 /\ high /\ f[i] = 1) \/ (i = Len(f) /\ f[i] = End)

\* A message is refused exactly when its frame does not fit, and nothing is written past the end.
FitsExactly ==
    \A c \in Capacity, high \in BOOLEAN :
        LET r == Pack(bytes, high, c) IN
        ~r.over /\ (r.ok => Len(r.frame) <= c) /\ (r.ok <=> Len(Pack(bytes, high, Room).frame) <= c)

\* Any bytes at all are unpacked without a read past their end or a write past the destination's.
UnpackIsSafe ==
    \A c \in Capacity : LET u == Unpack(Append(Wire(bytes), End), c) IN ~u.over /\ (u.status = "ok" => Len(u.dst) <= c)

TableTypeOK == Len(bytes) <= MaxLen /\ \A i \in 1..Len(bytes) : bytes[i] \in Byte /\ Xor(Xor(bytes[i])) = bytes[i]
=============================================================================
