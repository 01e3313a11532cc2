---------------------------- MODULE CapturePipe -----------------------------
(***************************************************************************)
(* Exporting a capture: the pipe device /dev/btcap                         *)
(* (stm32_btcap_chardev.c), the capture library on its writing side        *)
(* (capture.c), the two commands that use the library (`linetrace cap      *)
(* export` and `sensor <class> capture`), and a reader.                    *)
(*                                                                         *)
(* The device lock makes each call atomic up to the point where it sleeps. *)
(* A writer blocks while the ring is full, a reader while it is empty;     *)
(* either may be signalled, killed or close its side at any time.  A       *)
(* capture is a run of numbered units: the file header, then the records.  *)
(***************************************************************************)
EXTENDS Naturals, Sequences, FiniteSets

CONSTANTS Writers,   \* export commands, each once
          Careful,   \* those that look at their abort flag between stages
          Header,    \* units of the file header
          Total,     \* units of a capture, header included
          Ring,      \* units the ring can hold
          BufLen,    \* units a reader asks for
          NoWriter

SizesAssumption ==
    /\ Header \in Nat \ {0} /\ Total \in Nat /\ Total > Header
    /\ Ring \in Nat \ {0} /\ BufLen \in Nat \ {0}
    /\ Careful \subseteq Writers /\ NoWriter \notin Writers

VARIABLES
    dev,     \* the session: state, done, the open writer, reader open, generation
    ring,    \* the units in the ring
    sem,     \* writable_sem and readable_sem hold a token
    wr,      \* per writer: pc, units sent, sent in this call, generation, signal, result
    rd,      \* the reader: pc, units of this call, non-blocking, how its input ended
    got,     \* every unit handed to a reader so far
    from     \* Len(got) when the reader opened

vars == <<dev, ring, sem, wr, rd, got, from>>

Pcs == {"start", "register", "check", "write", "full", "checked", "final",
        "query", "poll", "abort", "close", "ended"}

TypeOK ==
    /\ dev \in [state : {"idle", "ready", "aborted"}, done : BOOLEAN,
                writer : Writers \cup {NoWriter}, reader : BOOLEAN,
                gen : 0..Cardinality(Writers)]
    /\ Len(ring) <= Ring
    /\ sem \in [w : BOOLEAN, r : BOOLEAN]
    /\ wr \in [Writers -> [pc : Pcs, sent : 0..Total, call : 0..Total,
                           gen : 0..Cardinality(Writers), sig : BOOLEAN,
                           result : {"none", "ok", "cancel", "busy", "killed"}]]
    /\ rd \in [pc : {"off", "open", "wait"}, n : 0..BufLen, nb : BOOLEAN,
               gen : 0..Cardinality(Writers), end : {"none", "eof", "cut"}]
    /\ from \in 0..Len(got)

Init ==
    /\ dev = [state |-> "idle", done |-> FALSE, writer |-> NoWriter,
              reader |-> FALSE, gen |-> 0]
    /\ ring = <<>> /\ sem = [w |-> FALSE, r |-> FALSE]
    /\ wr = [w \in Writers |-> [pc |-> "start", sent |-> 0, call |-> 0, gen |-> 0,
                                sig |-> FALSE, result |-> "none"]]
    /\ rd = [pc |-> "off", n |-> 0, nb |-> FALSE, gen |-> 0, end |-> "none"]
    /\ got = <<>> /\ from = 0

Least(a, b) == IF a < b THEN a ELSE b

\* btcap_notify_all_locked: both sides, whatever has changed.
Notify == sem' = [w |-> TRUE, r |-> TRUE]

\* btcap_reset_locked.
Reset(d) == [d EXCEPT !.state = "idle", !.done = FALSE]
RingOf(d) == IF d.state = "idle" THEN <<>> ELSE ring

(***************************************************************************)
(* Closing a side                                                          *)
(***************************************************************************)

\* Mutant: a writer that leaves in mid-stream leaves the session ready.
WriterClosedReady(d) ==
    LET c == [d EXCEPT !.writer = NoWriter] IN
    IF ~d.reader THEN Reset(c) ELSE c

\* Without a reader the session is over.  With one, an unfinished session is
\* aborted and a finished one stays until it has been drained.
WriterClosed(d) ==
    LET c == [d EXCEPT !.writer = NoWriter] IN
    IF ~d.reader THEN Reset(c)
    ELSE IF d.state = "ready" /\ ~d.done THEN [c EXCEPT !.state = "aborted"]
    ELSE c

\* A finished session ends with its reader, drained or not; an unfinished one
\* is aborted under its writer.
ReaderClosed(d) ==
    LET c == [d EXCEPT !.reader = FALSE] IN
    IF d.writer = NoWriter \/ (d.state = "ready" /\ d.done) THEN Reset(c)
    ELSE IF d.state = "ready" THEN [c EXCEPT !.state = "aborted"]
    ELSE c

CloseSide(d) == dev' = d /\ ring' = RingOf(d) /\ Notify

(***************************************************************************)
(* The writing side                                                        *)
(***************************************************************************)

At(w, pc) == wr[w].pc = pc
Goto(w, pc) == wr' = [wr EXCEPT ![w].pc = pc]
End(w, pc, result) == wr' = [wr EXCEPT ![w].pc = pc, ![w].result = result]
Told(w) == w \in Careful /\ wr[w].sig

\* capture_init: open, one writer at a time ...
Open(w) ==
    /\ At(w, "start")
    /\ IF Told(w) THEN End(w, "ended", "cancel") /\ UNCHANGED dev
       ELSE IF dev.writer # NoWriter THEN End(w, "ended", "busy") /\ UNCHANGED dev
       ELSE Goto(w, "register") /\ dev' = [dev EXCEPT !.writer = w]
    /\ UNCHANGED <<ring, sem, rd, got, from>>

\* ... and BTCAPIOC_REGISTER_SESSION, only while the device is idle.
Register(w) ==
    /\ At(w, "register")
    /\ IF dev.state = "idle"
       THEN /\ dev' = [dev EXCEPT !.state = "ready", !.done = FALSE, !.gen = @ + 1]
            /\ ring' = <<>> /\ Notify
            /\ wr' = [wr EXCEPT ![w].pc = "check", ![w].gen = dev.gen + 1]
       ELSE End(w, "close", "busy") /\ UNCHANGED <<dev, ring, sem>>
    /\ UNCHANGED <<rd, got, from>>

\* The careful command looks at its flag before and after the transfer.
Check(w) ==
    /\ At(w, "check") \/ At(w, "checked")
    /\ IF Told(w) THEN Goto(w, "abort")
       ELSE Goto(w, IF At(w, "check") THEN "write" ELSE "final")
    /\ UNCHANGED <<dev, ring, sem, rd, got, from>>

\* The header and the records are two calls.
Target(w) == IF wr[w].sent < Header THEN Header ELSE Total

\* btcap_write, from a point where the lock is held and the ring may have
\* room: fill it, and sleep if there is more to write.
Fill(w, call) ==
    LET sent  == wr[w].sent
        chunk == Least(Target(w) - sent, Ring - Len(ring))
        whole == sent + chunk = Target(w)
    IN /\ ring' = ring \o [i \in 1..chunk |-> <<w, sent + i>>]
       /\ wr' = [wr EXCEPT ![w].sent = sent + chunk,
                           ![w].call = IF whole THEN 0 ELSE call + chunk,
                           ![w].pc = IF ~whole THEN "full"
                                     ELSE IF Target(w) = Total THEN "checked"
                                     ELSE "write"]
       /\ IF chunk > 0 THEN Notify ELSE UNCHANGED sem

\* A write call; capture_write_all repeats it for what is left.
Write(w) ==
    /\ At(w, "write")
    /\ IF dev.state = "ready" /\ ~dev.done
       THEN Fill(w, 0)
       ELSE Goto(w, "abort") /\ UNCHANGED <<ring, sem>>
    /\ UNCHANGED <<dev, rd, got, from>>

\* A call that is cut short returns what it has written, which looks like
\* progress to capture_write_all, or else the error.
CutShort(w) == wr' = [wr EXCEPT ![w].pc = IF wr[w].call > 0 THEN "write" ELSE "abort",
                                ![w].call = 0]

\* btcap_wait_writable_locked, after the sleep.
WakeWriter(w) ==
    /\ At(w, "full") /\ sem.w
    /\ IF dev.state # "ready" \/ dev.done \/ dev.gen # wr[w].gen
       THEN CutShort(w) /\ sem' = [sem EXCEPT !.w = FALSE] /\ UNCHANGED ring
       ELSE IF Len(ring) = Ring
       THEN sem' = [sem EXCEPT !.w = FALSE] /\ UNCHANGED <<wr, ring>>
       ELSE Fill(w, wr[w].call)
    /\ UNCHANGED <<dev, rd, got, from>>

\* capture_deinit: finalize ...
Finalize(w) ==
    /\ At(w, "final")
    /\ IF dev.state = "ready" /\ ~dev.done
       THEN /\ dev' = IF ~dev.reader /\ ring = <<>> THEN Reset(dev)
                                                    ELSE [dev EXCEPT !.done = TRUE]
            /\ Notify /\ Goto(w, "query")
       ELSE End(w, "close", "cancel") /\ UNCHANGED <<dev, sem>>
    /\ UNCHANGED <<ring, rd, got, from>>

\* ... then ask for the state every 50 ms until the session is over.
Query(w) ==
    /\ At(w, "query")
    /\ CASE dev.state = "idle"    -> End(w, "close", "ok")
         [] dev.state = "aborted" -> End(w, "close", "cancel")
         [] OTHER                 -> Goto(w, "poll")
    /\ UNCHANGED <<dev, ring, sem, rd, got, from>>

PollTimeout(w) ==
    /\ At(w, "poll") /\ Goto(w, "query")
    /\ UNCHANGED <<dev, ring, sem, rd, got, from>>

\* capture_abort: BTCAPIOC_ABORT_SESSION and close.
Abort(w) ==
    /\ At(w, "abort")
    /\ IF dev.state = "ready"
       THEN dev' = [dev EXCEPT !.state = "aborted"] /\ Notify
       ELSE UNCHANGED <<dev, sem>>
    /\ End(w, "close", "cancel")
    /\ UNCHANGED <<ring, rd, got, from>>

CloseWriter(w) ==
    /\ At(w, "close") /\ Goto(w, "ended")
    /\ CloseSide(WriterClosed(dev))
    /\ UNCHANGED <<rd, got, from>>

\* SIGTERM or SIGINT: the handler raises a flag; only a sleeping call is cut
\* short by it.
Signal(w) ==
    /\ ~At(w, "ended") /\ ~wr[w].sig
    /\ wr' = [wr EXCEPT ![w] =
         LET s == [@ EXCEPT !.sig = TRUE] IN
         CASE @.pc = "full" /\ @.call > 0 -> [s EXCEPT !.pc = "write", !.call = 0]
           [] @.pc = "full" /\ @.call = 0 -> [s EXCEPT !.pc = "abort"]
           [] @.pc = "poll" -> [s EXCEPT !.pc = "close", !.result = "cancel"]
           [] OTHER -> s]
    /\ UNCHANGED <<dev, ring, sem, rd, got, from>>

\* SIGKILL: the system closes what the task had open.
Kill(w) ==
    /\ ~At(w, "ended") /\ End(w, "ended", "killed")
    /\ IF dev.writer = w THEN CloseSide(WriterClosed(dev)) ELSE UNCHANGED <<dev, ring, sem>>
    /\ UNCHANGED <<rd, got, from>>

(***************************************************************************)
(* The reading side                                                        *)
(***************************************************************************)

OpenReader ==
    /\ ~dev.reader
    /\ dev' = [dev EXCEPT !.reader = TRUE]
    /\ \E nb \in BOOLEAN :
         rd' = [pc |-> "open", n |-> 0, nb |-> nb, gen |-> 0, end |-> "none"]
    /\ from' = Len(got)
    /\ UNCHANGED <<ring, sem, wr, got>>

\* btcap_read, from a point where the lock is held: take what there is, and
\* sleep for the rest unless the writer is done or the reader will not wait.
Take(n) ==
    LET chunk == Least(BufLen - n, Len(ring))
        more  == n + chunk < BufLen /\ ~dev.done /\ ~rd.nb
    IN /\ got' = got \o SubSeq(ring, 1, chunk)
       /\ ring' = SubSeq(ring, chunk + 1, Len(ring))
       /\ rd' = [rd EXCEPT !.pc = IF more THEN "wait" ELSE "open",
                           !.n = IF more THEN n + chunk ELSE 0,
                           !.gen = dev.gen]
       /\ IF chunk > 0 THEN Notify ELSE UNCHANGED sem

\* Mutant: a drained ring counts as the end of the capture.
ReadEmpty ==
    /\ rd.pc = "open"
    /\ IF dev.state # "ready" THEN rd' = [rd EXCEPT !.end = "cut"] /\ UNCHANGED <<ring, sem, got>>
       ELSE IF ring = <<>>
       THEN rd' = [rd EXCEPT !.end = "eof"] /\ UNCHANGED <<ring, sem, got>>
       ELSE Take(0)
    /\ UNCHANGED <<dev, wr, from>>

\* A read call: 0 without a session or at the end of one.
Read ==
    /\ rd.pc = "open"
    /\ IF dev.state # "ready" THEN rd' = [rd EXCEPT !.end = "cut"] /\ UNCHANGED <<ring, sem, got>>
       ELSE IF dev.done /\ ring = <<>>
       THEN rd' = [rd EXCEPT !.end = "eof"] /\ UNCHANGED <<ring, sem, got>>
       ELSE Take(0)
    /\ UNCHANGED <<dev, wr, from>>

\* btcap_wait_readable_locked, after the sleep.
WakeReader ==
    /\ rd.pc = "wait" /\ sem.r
    /\ IF dev.state # "ready" \/ dev.gen # rd.gen
       THEN /\ rd' = [rd EXCEPT !.pc = "open", !.n = 0,
                                !.end = IF rd.n = 0 THEN "cut" ELSE @]
            /\ sem' = [sem EXCEPT !.r = FALSE] /\ UNCHANGED <<ring, got>>
       ELSE IF ring = <<>> /\ ~dev.done
       THEN sem' = [sem EXCEPT !.r = FALSE] /\ UNCHANGED <<rd, ring, got>>
       ELSE Take(rd.n)
    /\ UNCHANGED <<dev, wr, from>>

InterruptReader ==
    /\ rd.pc = "wait"
    /\ rd' = [rd EXCEPT !.pc = "open", !.n = 0]
    /\ UNCHANGED <<dev, ring, sem, wr, got, from>>

\* The reader closes its side between two calls, or is killed in one.
CloseReader ==
    /\ rd.pc # "off"
    /\ rd' = [rd EXCEPT !.pc = "off", !.n = 0]
    /\ CloseSide(ReaderClosed(dev))
    /\ UNCHANGED <<wr, got, from>>

WriterStep(w) ==
    \/ Open(w) \/ Register(w) \/ Check(w) \/ Write(w) \/ WakeWriter(w) \/ Finalize(w)
    \/ Query(w) \/ PollTimeout(w) \/ Abort(w) \/ CloseWriter(w)

Next ==
    \/ \E w \in Writers : WriterStep(w) \/ Signal(w) \/ Kill(w)
    \/ OpenReader \/ Read \/ WakeReader \/ InterruptReader \/ CloseReader

Spec == Init /\ [][Next]_vars

CloseAtEnd == CloseReader /\ rd.end # "none"

\* Tasks run.  A reader that has opened keeps reading, and one that has come
\* to the end closes; nobody has to open, signal, kill or give up.
FairSpec ==
    /\ Spec
    /\ \A w \in Writers : WF_vars(WriterStep(w))
    /\ WF_vars(Read) /\ WF_vars(WakeReader)
    /\ WF_vars(CloseAtEnd)

----------------------------------------------------------------------------
(* Properties *)

Mine == SubSeq(got, from + 1, Len(got))

\* One opening of the reading side sees the units of one capture, from its
\* first and in order: sessions that follow each other are never mixed, and
\* what was left in the ring by a dead writer is not read into the next one.
OneSession ==
    rd.pc # "off" => \E w \in Writers : \A i \in 1..Len(Mine) : Mine[i] = <<w, i>>

\* The end of file of a session that was not aborted comes after every unit.
EofIsWhole == rd.end = "eof" /\ rd.pc # "off" => Len(Mine) = Total

\* With both sides closed, however they ended, the device is free again.
QuietIsIdle == dev.writer = NoWriter /\ ~dev.reader => dev.state = "idle" /\ ring = <<>>

\* A session that is being written has a writer, the one that registered it.
SessionOwned ==
    dev.state = "ready" /\ ~dev.done =>
      dev.writer # NoWriter /\ wr[dev.writer].gen = dev.gen

\* A success means that a reader has been given all of the capture.
\* Refuted by the code.
CleanDrain ==
    \A w \in Writers : wr[w].result = "ok" =>
      Cardinality({i \in DOMAIN got : got[i][1] = w}) = Total

FullIn(w) == At(w, "full")
ReaderWaits == rd.pc = "wait"
Gone == dev.state # "ready"

\* Nobody sleeps on a session that is over.
Released ==
    /\ \A w \in Writers : (FullIn(w) /\ Gone) ~> ~FullIn(w)
    /\ (ReaderWaits /\ Gone) ~> ~ReaderWaits

DeliveredDue(w) == dev.writer = w /\ dev.reader
DeliveredMet(w) == At(w, "ended") \/ ~dev.reader

\* As long as somebody reads, an export comes to its end.
Delivered == \A w \in Writers : DeliveredDue(w) ~> DeliveredMet(w)

\* A signal ends the export.  Refuted by the code.
SignalEnds == \A w \in Writers : wr[w].sig ~> At(w, "ended")
=============================================================================
