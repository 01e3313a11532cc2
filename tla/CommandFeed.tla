---------------------------- MODULE CommandFeed -----------------------------
(***************************************************************************)
(* The line commands of the Bluetooth links (btsensor_cmd_neutral.c): a    *)
(* line is put together per link from whatever pieces arrive, and executed *)
(* at its end.                                                             *)
(*                                                                         *)
(* A piece is a word; its width stands for its characters and the blank    *)
(* after it.  Six components of a FUSION BASE are one word: "axes" when    *)
(* they form two perpendicular unit vectors, "skew" otherwise.             *)
(***************************************************************************)
EXTENDS Integers, Sequences, FiniteSets

CONSTANTS Link,          \* links that feed this module
          Words,         \* words that may arrive
          MaxWords,      \* bound on the words of a line
          MaxConn,       \* bound on the connections of a link
          MidLine,       \* a connection may end in the middle of a line
          MaxLine,       \* BTSENSOR_CMD_MAX_LINE
          ReplyMax,      \* BTSENSOR_CMD_REPLY_MAX
          LongWidth,     \* width of the word "long"
          PayloadMax,    \* bytes of a SENSOR SEND
          Channels       \* values of a SENSOR PWM

CommandFeedAssumption ==
    /\ {MaxWords, MaxConn, MaxLine, ReplyMax, LongWidth, PayloadMax, Channels} \subseteq Nat
    /\ MidLine \in BOOLEAN /\ Link \subseteq {"classic", "ble"}

VARIABLES
    g_streams,     \* per link: line, len, overflow
    g_ops,         \* the peripheral operations are set
    conn,          \* per link: connections so far
    text, from,    \* per link: every word since the last line end; the connections they came from
    last           \* the line that just ended: link, text, connections, call made, reply

vars == <<g_streams, g_ops, conn, text, from, last>>

None == "none"
Width(w) == IF w = "long" THEN LongWidth ELSE 8
Empty == [line |-> <<>>, len |-> 0, overflow |-> FALSE]
Quiet == [link |-> None, text |-> <<>>, from |-> {}, call |-> <<>>, reply |-> None, width |-> 0, rc |-> None]

Init ==
    /\ g_streams = [k \in Link |-> Empty] /\ g_ops \in BOOLEAN /\ conn = [k \in Link |-> 1]
    /\ text = [k \in Link |-> <<>>] /\ from = [k \in Link |-> {}] /\ last = Quiet

-----------------------------------------------------------------------------
(* The words as the parsers see them.  "1" is a class, a mode, a number    *)
(* and no byte; "10" a number and a byte; "ff" a byte alone.               *)

ClassId(w) == w \in {"color", "1"}
Mode(w) == w \in {"1"}
Number(w) == w \in {"1", "10"}
Hex(w) == w \in {"10", "ff"}
Setting == {"ODR", "ACCEL_FSR"}

Arg(l, i) == IF i \in DOMAIN l THEN l[i] ELSE None
Rest(l, i) == SubSeq(l, i, Len(l))
Trailing(l, n) == Len(l) > n

\* A line is refused with a reply, which may quote a word, or answered from a call.
Refuse(what) == [call |-> <<>>, reply |-> what, width |-> 0]
Quote(what, prefix, w) == [call |-> <<>>, reply |-> what, width |-> prefix + Width(w)]
Call(c) == [call |-> c, reply |-> "rc", width |-> 0]

\* hex_bytes and pwm_values: the first word that fails decides.
HexBytes(ws) ==
    LET bad == {i \in DOMAIN ws : ~Hex(ws[i]) \/ i > PayloadMax}
    IN  IF ws = <<>> THEN "invalid" ELSE IF bad = {} THEN "ok"
        ELSE IF \E i \in bad : ~Hex(ws[i]) /\ \A j \in bad : i <= j THEN "invalid" ELSE "too long"

PwmValues(ws) ==
    LET bad == {i \in DOMAIN ws : ~Number(ws[i]) \/ i > Channels}
    IN  IF ws = <<>> THEN "invalid" ELSE IF bad = {} THEN "ok"
        ELSE IF \E i \in bad : i <= Channels THEN "invalid" ELSE "too long"

Sensor(l) ==
    LET verb == Arg(l, 2)
    IN  CASE verb = None -> Refuse("invalid")
          [] verb \in {"ON", "OFF"} -> IF Trailing(l, 2) THEN Refuse("invalid") ELSE Call(<<"sensor", verb>>)
          [] verb \notin {"ON", "OFF", "MODE", "SEND", "PWM", None} -> Quote("invalid", 13, verb)
          [] verb \in {"MODE", "SEND", "PWM"} /\ ~ClassId(Arg(l, 3)) -> Refuse("invalid")
          [] verb = "PWM" /\ ClassId(Arg(l, 3)) ->
                 IF PwmValues(Rest(l, 4)) = "ok" THEN Call(<<"pwm">> \o Rest(l, 3)) ELSE Refuse("invalid")
          [] verb \in {"MODE", "SEND"} /\ ClassId(Arg(l, 3)) ->
                 IF ~Mode(Arg(l, 4)) \/ (verb = "MODE" /\ Trailing(l, 4)) THEN Refuse("invalid")
                 ELSE IF verb = "MODE" THEN Call(<<"mode", l[3], l[4]>>)
                 ELSE IF HexBytes(Rest(l, 5)) = "ok" THEN Call(<<"send">> \o Rest(l, 3)) ELSE Refuse("invalid")

\* The fusion service is for the classic link alone.
FusionCall(k, c) == IF k = "classic" THEN Call(c) ELSE Refuse("errno")

FusionBase(k, l) == IF Arg(l, 3) # "axes" \/ Trailing(l, 3) THEN Refuse("invalid") ELSE FusionCall(k, <<"base">>)

Fusion(k, l) ==
    LET verb == Arg(l, 2)
    IN  CASE verb = "BASE" -> FusionBase(k, l)
          [] verb = "CAL" -> IF Arg(l, 3) \notin {"SAVE", "LOAD"} \/ Trailing(l, 3) THEN Refuse("invalid")
                             ELSE FusionCall(k, <<"cal", l[3]>>)
          [] verb \notin {"BASE", "CAL"} ->
                 IF verb = None \/ Trailing(l, 2) THEN Refuse("invalid")
                 ELSE IF k # "classic" THEN Refuse("errno")
                 ELSE IF verb \in {"START", "STOP", "STATUS", "GET"} THEN Call(<<"fusion", verb>>) ELSE Refuse("invalid")

Imu(l) ==
    LET arg == Arg(l, 2)
    IN  IF arg = None THEN Refuse("invalid") ELSE IF arg \notin {"ON", "OFF"} THEN Quote("invalid", 13, arg)
        ELSE IF Trailing(l, 2) THEN Refuse("invalid") ELSE Call(<<"imu", arg>>)

SetLine(l) ==
    IF Len(l) # 3 \/ ~Number(Arg(l, 3)) THEN Refuse("invalid")
    ELSE IF l[2] \in Setting THEN Call(<<"set", l[2], l[3]>>) ELSE Quote("invalid", 13, l[2])

GetLine(l) ==
    IF Len(l) # 2 THEN Refuse("invalid")
    ELSE IF l[2] \in Setting THEN Call(<<"get", l[2]>>) ELSE Quote("invalid", 13, l[2])

ImuCap(l) ==
    LET sub == Arg(l, 2)
    IN  CASE sub = None -> Refuse("invalid")
          [] sub = "STOP" -> IF Trailing(l, 2) THEN Refuse("invalid") ELSE Call(<<"cap", "STOP">>)
          [] sub = "START" -> IF (Len(l) > 2 /\ ~Number(l[3])) \/ Trailing(l, 3) THEN Refuse("invalid")
                              ELSE Call(<<"cap", "START">> \o Rest(l, 3))
          [] sub \notin {None, "STOP", "START"} -> Quote("invalid", 22, sub)

process(k, l) ==
    CASE l[1] = "PING" -> Refuse(IF Trailing(l, 1) THEN "invalid" ELSE "pong")
      [] l[1] = "FUSION" -> Fusion(k, l)
      [] l[1] = "IMU" -> Imu(l)
      [] l[1] = "SENSOR" -> Sensor(l)
      [] l[1] = "SET" -> SetLine(l)
      [] l[1] = "GET" -> GetLine(l)
      [] l[1] = "_IMU_CAP" -> ImuCap(l)
      [] OTHER -> Quote("unknown", 13, l[1])

\* reply_rc: what the operation, if there is one, returned
ReplyRc == [ok |-> "OK", busy |-> "busy", einval |-> "invalid", other |-> "errno"]

-----------------------------------------------------------------------------
(* btsensor_cmd_feed_link                                                  *)

FeedForgets(k, w) ==                     \* mutant: the overflow is not remembered
    /\ Len(text[k]) < MaxWords
    /\ g_streams' = [g_streams EXCEPT ![k] =
           IF @.len + Width(w) < MaxLine THEN [@ EXCEPT !.line = Append(@, w), !.len = @ + Width(w)] ELSE @]
    /\ text' = [text EXCEPT ![k] = Append(@, w)] /\ from' = [from EXCEPT ![k] = @ \cup {conn[k]}]
    /\ last' = Quiet /\ UNCHANGED <<g_ops, conn>>

Feed(k, w) ==
    /\ Len(text[k]) < MaxWords
    /\ g_streams' = [g_streams EXCEPT ![k] =
           IF @.len + Width(w) < MaxLine THEN [@ EXCEPT !.line = Append(@, w), !.len = @ + Width(w)]
           ELSE [@ EXCEPT !.overflow = TRUE]]
    /\ text' = [text EXCEPT ![k] = Append(@, w)] /\ from' = [from EXCEPT ![k] = @ \cup {conn[k]}]
    /\ last' = Quiet /\ UNCHANGED <<g_ops, conn>>

\* btsensor_classic_receive takes the JSON requests of the classic link.
ClassicTakes(k, l) == k = "classic" /\ l[1] = "json"

Ended(k) ==
    /\ text' = [text EXCEPT ![k] = <<>>] /\ from' = [from EXCEPT ![k] = {}] /\ UNCHANGED <<g_ops, conn>>

Report(k, call, reply, width, rc) ==
    last' = [link |-> k, text |-> text[k], from |-> from[k], call |-> call, reply |-> reply, width |-> width, rc |-> rc]

Execute(k, l) ==
    LET p == process(k, l)
    IN  IF ClassicTakes(k, l) THEN Report(k, <<>>, "taken", 0, None)
        ELSE IF p.reply # "rc" THEN Report(k, <<>>, p.reply, p.width, None)
        ELSE IF ~g_ops THEN Report(k, <<>>, "errno", 0, None)
        ELSE \E rc \in DOMAIN ReplyRc : Report(k, p.call, ReplyRc[rc], 0, rc)

Eol(k) ==
    /\ IF g_streams[k].overflow THEN Report(k, <<>>, "overflow", 0, None)
       ELSE IF g_streams[k].len = 0 THEN last' = Quiet
       ELSE Execute(k, g_streams[k].line)
    /\ g_streams' = [g_streams EXCEPT ![k] = Empty] /\ Ended(k)

\* The link ends and comes again: transport_state tells other modules, not this one.
Reconnect(k) ==
    /\ conn[k] < MaxConn /\ (MidLine \/ text[k] = <<>>) /\ conn' = [conn EXCEPT ![k] = @ + 1] /\ last' = Quiet
    /\ UNCHANGED <<g_streams, g_ops, text, from>>

\* btsensor_cmd_init and btsensor_cmd_set_peripheral_ops, when the daemon starts
Restart(ops) ==
    /\ g_streams' = [k \in Link |-> Empty] /\ g_ops' = ops /\ last' = Quiet
    /\ text' = [k \in Link |-> <<>>] /\ from' = [k \in Link |-> {}] /\ UNCHANGED conn

Next ==
    \/ \E k \in Link : (\E w \in Words : Feed(k, w)) \/ Eol(k) \/ Reconnect(k)
    \/ \E ops \in BOOLEAN : Restart(ops)

Spec == Init /\ [][Next]_vars

-----------------------------------------------------------------------------
(* The language of the commands, as a table.                               *)
Values(p(_), n) == UNION {{s \in [1 .. i -> Words] : \A j \in 1 .. i : p(s[j])} : i \in 1 .. n}

SensorAccepted(t) ==
    /\ Len(t) >= 2 /\ t[1] = "SENSOR"
    /\ \/ Len(t) = 2 /\ t[2] \in {"ON", "OFF"}
       \/ Len(t) = 4 /\ t[2] = "MODE" /\ ClassId(t[3]) /\ Mode(t[4])
       \/ Len(t) > 4 /\ t[2] = "SEND" /\ ClassId(t[3]) /\ Mode(t[4]) /\ Rest(t, 5) \in Values(Hex, PayloadMax)
       \/ Len(t) > 3 /\ t[2] = "PWM" /\ ClassId(t[3]) /\ Rest(t, 4) \in Values(Number, Channels)

Accepted(k, t) ==
    \/ t \in ({"IMU"} \X {"ON", "OFF"}) \cup ({"GET"} \X Setting) \cup ({"SET"} \X Setting \X {"1", "10"})
    \/ t \in ({"_IMU_CAP"} \X {"START", "STOP"}) \cup ({"_IMU_CAP"} \X {"START"} \X {"1", "10"})
    \/ SensorAccepted(t)
    \/ k = "classic" /\ t \in ({"FUSION"} \X {"START", "STOP", "STATUS", "GET"}) \cup ({"FUSION"} \X {"CAL"} \X {"SAVE", "LOAD"})
                              \cup {<<"FUSION", "BASE", "axes">>}

TextWidth(t) == 8 * Len(t) + (LongWidth - 8) * Cardinality({i \in DOMAIN t : t[i] = "long"})

\* What is executed is the whole text between two line ends, and only when it is a
\* command of its link: a line that was too long, has a word too many or a bad last
\* argument has no effect, and what another link sent meanwhile plays no part.
Executed ==
    last.link # None /\ g_ops =>
        (last.call # <<>> <=> (Accepted(last.link, last.text) /\ TextWidth(last.text) < MaxLine))

\* A line that is not blank is answered, and with OK only when its call succeeded.
LineAnswered ==
    last.link # None => /\ (last.text # <<>> => last.reply # None)
                        /\ (last.reply = "OK" <=> last.rc = "ok")

\* A command is put together from the bytes of one connection.
OneConnection == last.link # None => Cardinality(last.from) <= 1

\* A reply that quotes a word keeps the line end that the host reads up to.
WholeReply == last.width < ReplyMax

\* A line of more than 64 bytes is answered with ERR overflow.
OverflowAt64 == TextWidth(last.text) > 64 => last.reply = "overflow"
=============================================================================
