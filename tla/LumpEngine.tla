----------------------------- MODULE LumpEngine -----------------------------
(***************************************************************************)
(* The LUMP engine of a port (stm32_legoport_lump.c), two state machines.  *)
(*                                                                         *)
(* The engine after the handshake: the kthread's DATA loop with keepalive, *)
(* watchdog and the one-slot mailbox of select and send requests, the end  *)
(* of a session, and the callers of lump_attach, lump_detach,              *)
(* lump_select_mode, lump_send_data. Here the handshake succeeds or fails. *)
(* One step per critical section of info_lock, tx_lock and cb_lock. The    *)
(* device is external: its mode is the last one selected, and it may be    *)
(* pulled and plugged. Sessions are numbered to tell them apart.           *)
(*                                                                         *)
(* The handshake, how the engine learns to know a device: lump_sync with   *)
(* its probe, header search, INFO loop and change of speed, lump_recv_msg, *)
(* lump_parse_msg, and the extended mode of the DATA loop. The device is   *)
(* external: it announces its type, the number of modes, a speed, then     *)
(* name, mapping and format of every mode from the last to the first, and  *)
(* ends with an ACK. A frame may be damaged on the line, and the device    *)
(* may fall silent. Frames are records, a checksum error is a damaged      *)
(* frame, the speeds are "fast" (115200), "slow" (2400), "other".          *)
(***************************************************************************)
EXTENDS Naturals, Sequences

CONSTANTS Callers,    \* threads that use the API
          Modes,      \* modes of the device, all writable; a set of numbers with 0
          MissLimit,  \* LUMP_DATA_MISS_LIMIT
          Slices,     \* receive slices in a keepalive period
          MaxSess,    \* bound on the sessions
          MaxStalls,  \* bound on the watchdog's firing
          LateAttach, \* a consumer may attach after the first handoff
          None

LumpEngineAssumption ==
    /\ 0 \in Modes /\ None \notin Callers
    /\ {MissLimit, Slices, MaxSess, MaxStalls} \subseteq Nat

VARIABLES
    k,        \* where the kthread is
    sem,      \* wakeup
    handoff,  \* handoff_pending
    reg,      \* dcm_cb_registered, and the detector may call it
    stall,    \* wdog_stall, and how often it was raised
    beat,     \* the loop's slice, miss_count and data_rec
    sess,     \* number of the session
    synced,   \* LUMP_FLAG_SYNCED
    current,  \* info.current_mode
    sel,      \* pending_select
    snd,      \* pending_send
    job,      \* the copies the drain works on
    att,      \* the attached consumer
    inCb,     \* in_callback
    api,      \* each caller's place and what it holds in locals
    told,     \* on_sync calls of this session and attachment
    dev,      \* the device: its mode, whether it is there
    got       \* the DATA frame the device received in this pass of the loop

kvars == <<k, sem, handoff, reg, stall, beat, sess, synced, current, job>>
vars == <<kvars, sel, snd, att, inCb, api, told, dev, got>>

Idle == [at |-> "idle", mode |-> 0, need |-> FALSE, sess |-> 0]
Req(m, s) == [mode |-> m, sess |-> s]
NoReq == [mode |-> None, sess |-> 0]
NoData == [asked |-> None, on |-> None]
NoJob == [sel |-> NoReq, snd |-> NoReq]
InCallback == k \in {"syncCb", "dataCb", "errCb"}
Attaching == \E c \in Callers : api[c].at \in {"snap", "fire", "inSync"}

TypeOK ==
    /\ k \in {"wait", "sync", "synced", "announce", "syncCb", "loop", "dataCb", "alive",
              "drain", "send", "check", "end", "errCb", "register", "backoff"}
    /\ sem \in 0..2 /\ {handoff, reg, synced, inCb} \subseteq BOOLEAN
    /\ beat.miss \in 0..(MissLimit + 1) /\ beat.slice \in 0..Slices
    /\ current \in Modes /\ att \in Callers \cup {None}
    /\ \A c \in Callers : api[c].at \in {"idle", "snap", "fire", "inSync", "select", "send"}

Init ==
    /\ k = "wait" /\ sem = 0 /\ handoff = FALSE /\ reg = TRUE
    /\ stall = [on |-> FALSE, n |-> 0]
    /\ beat = [slice |-> 0, miss |-> 0, data |-> FALSE] /\ sess = 0
    /\ synced = FALSE /\ current = 0 /\ sel = NoReq /\ snd = NoReq /\ job = NoJob
    /\ att = None /\ inCb = FALSE /\ api = [c \in Callers |-> Idle] /\ told = 0
    /\ dev = [mode |-> 0, here |-> TRUE] /\ got = NoData

-----------------------------------------------------------------------------
\* lump_handoff_cb: the detector confirmed a UART device.
Handoff ==
    /\ reg /\ k \in {"wait", "backoff"} /\ dev.here /\ sess < MaxSess
    /\ LateAttach \/ ~Attaching
    /\ handoff' = TRUE /\ sem' = sem + 1 /\ reg' = FALSE
    /\ UNCHANGED <<k, stall, beat, sess, synced, current, job, sel, snd, att, inCb, api, told, dev, got>>

\* lump_kthread_entry waits; with a handoff it resets the session.
Wake ==
    /\ k = "wait" /\ sem > 0 /\ sem' = sem - 1 /\ handoff' = FALSE
    /\ IF handoff
       THEN k' = "sync" /\ synced' = FALSE /\ current' = 0 /\ sel' = NoReq /\ snd' = NoReq
       ELSE UNCHANGED <<k, synced, current, sel, snd>>
    /\ UNCHANGED <<reg, stall, beat, sess, job, att, inCb, api, told, dev, got>>

\* The handshake: it fails, or the description is published.
Handshake ==
    /\ k = "sync"
    /\ \/ k' = "end" /\ UNCHANGED <<sess, synced, current, told, dev>>
       \/ /\ dev.here /\ k' = "synced" /\ sess' = sess + 1 /\ synced' = TRUE /\ told' = 0
          /\ \E m \in Modes : current' = m /\ dev' = [dev EXCEPT !.mode = m]
    /\ UNCHANGED <<sem, handoff, reg, stall, beat, job, sel, snd, att, inCb, api, got>>

\* The default mode is selected, under tx_lock.
SelectDefault ==
    /\ k = "synced" /\ k' = "announce" /\ sel' = Req(dev.mode, sess)
    /\ UNCHANGED <<sem, handoff, reg, stall, beat, sess, synced, current, job, snd, att, inCb, api,
                   told, dev, got>>

\* The callback is copied and in_callback set under cb_lock; it runs unlocked.
Fire(cb, next) ==
    IF att # None THEN k' = cb /\ inCb' = TRUE
    ELSE k' = next /\ UNCHANGED inCb

Announce ==
    /\ k = "announce" /\ Fire("syncCb", "loop")
    /\ told' = IF att # None THEN told + 1 ELSE told
    /\ stall' = [stall EXCEPT !.on = FALSE]
    /\ beat' = [slice |-> 0, miss |-> 0, data |-> FALSE]
    /\ UNCHANGED <<sem, handoff, reg, sess, synced, current, job, sel, snd, att, api, dev, got>>

\* A callback of the kthread returns and in_callback is cleared.
Returned ==
    /\ InCallback /\ inCb' = FALSE
    /\ k' = CASE k = "syncCb" -> "loop" [] k = "dataCb" -> "alive" [] OTHER -> "register"
    /\ UNCHANGED <<sem, handoff, reg, stall, beat, sess, synced, current, job, sel, snd, att, api,
                   told, dev, got>>

\* lump_wdog_handler, from the timer interrupt: a loop that has not come round.
Watchdog ==
    /\ k \in {"loop", "dataCb", "alive", "drain", "send", "check"} /\ ~stall.on
    /\ stall.n < MaxStalls /\ sem < 2
    /\ stall' = [on |-> TRUE, n |-> stall.n + 1] /\ sem' = sem + 1
    /\ UNCHANGED <<k, handoff, reg, beat, sess, synced, current, job, sel, snd, att, inCb, api, told,
                   dev, got>>

\* lump_data_loop: the stall check, then one receive slice.
Stalled == stall.on /\ k' = "end" /\ UNCHANGED <<beat, current, inCb>>

DataFrame ==
    /\ ~stall.on /\ dev.here /\ current' = dev.mode /\ beat' = [beat EXCEPT !.data = TRUE]
    /\ Fire("dataCb", "alive")

NoFrame == ~stall.on /\ k' = "alive" /\ UNCHANGED <<beat, current, inCb>>

Receive ==
    /\ k = "loop" /\ (Stalled \/ DataFrame \/ NoFrame)
    /\ UNCHANGED <<sem, handoff, reg, stall, sess, synced, job, sel, snd, att, api, told, dev, got>>

\* The keepalive, due once in a period; a NACK that cannot be written ends the session.
MissedAlive == 0                 \* mutant: silence is not counted

Missed == IF beat.data THEN 0 ELSE beat.miss + 1

Keepalive ==
    /\ k = "alive"
    /\ IF beat.slice < Slices
       THEN k' = "drain" /\ beat' = [beat EXCEPT !.slice = @ + 1]
       ELSE /\ beat' = [slice |-> 0, miss |-> Missed, data |-> FALSE]
            /\ \/ k' = IF Missed > MissLimit THEN "end" ELSE "drain"
               \/ k' = "end"
    /\ UNCHANGED <<sem, handoff, reg, stall, sess, synced, current, job, sel, snd, att, inCb, api,
                   told, dev, got>>

Take ==
    /\ job' = [sel |-> sel, snd |-> snd]
    /\ sel' = NoReq /\ snd' = NoReq

Drain ==
    /\ k = "drain" /\ Take /\ k' = "send"
    /\ UNCHANGED <<sem, handoff, reg, stall, beat, sess, synced, current, att, inCb, api, told, dev, got>>

\* The SELECT goes out first, then the DATA; a write that fails ends the session.
Transmit ==
    /\ k = "send" /\ job' = NoJob
    /\ LET on == IF job.sel = NoReq THEN dev.mode ELSE job.sel.mode IN
       \/ /\ k' = "check" /\ dev' = [dev EXCEPT !.mode = on]
          /\ got' = IF job.snd = NoReq THEN got ELSE [asked |-> job.snd.mode, on |-> on]
       \/ job # NoJob /\ k' = "end" /\ UNCHANGED <<dev, got>>
    /\ UNCHANGED <<sem, handoff, reg, stall, beat, sess, synced, current, sel, snd, att, inCb, api, told>>

\* A post of wakeup: the watchdog's is left to the loop's top, any other ends the session.
CheckWakeup ==
    /\ k = "check"
    /\ IF sem > 0 THEN sem' = sem - 1 /\ k' = IF stall.on THEN "loop" ELSE "end"
       ELSE k' = "loop" /\ UNCHANGED sem
    /\ got' = NoData
    /\ UNCHANGED <<handoff, reg, stall, beat, sess, synced, current, job, sel, snd, att, inCb, api,
                   told, dev>>

\* The end of a session: pins released, flags cleared, on_error fired.
End ==
    /\ k = "end" /\ synced' = FALSE /\ Fire("errCb", "register")
    /\ UNCHANGED <<sem, handoff, reg, stall, beat, sess, current, job, sel, snd, att, api, told, dev, got>>

Register ==
    /\ k = "register" /\ reg' = TRUE /\ k' = "backoff"
    /\ UNCHANGED <<sem, handoff, stall, beat, sess, synced, current, job, sel, snd, att, inCb, api,
                   told, dev, got>>

BackoffOver ==
    /\ k = "backoff" /\ k' = "wait"
    /\ UNCHANGED <<sem, handoff, reg, stall, beat, sess, synced, current, job, sel, snd, att, inCb,
                   api, told, dev, got>>

Kthread == \/ Wake \/ Handshake \/ SelectDefault \/ Announce \/ Returned \/ Receive \/ Keepalive
           \/ Drain \/ Transmit \/ CheckWakeup \/ End \/ Register \/ BackoffOver

-----------------------------------------------------------------------------
\* lump_attach: the callbacks are installed under cb_lock.
Attach(c) ==
    /\ api[c].at = "idle" /\ ~inCb /\ att = None /\ (LateAttach \/ (sess = 0 /\ k = "wait" /\ ~handoff))
    /\ att' = c /\ told' = 0 /\ api' = [api EXCEPT ![c].at = "snap"]
    /\ UNCHANGED <<kvars, sel, snd, inCb, dev, got>>

\* The description is copied if there is one, and on_sync is called with the copy.
Snapshot(c) ==
    /\ api[c].at = "snap" /\ api' = [api EXCEPT ![c].at = IF synced THEN "fire" ELSE "idle"]
    /\ UNCHANGED <<kvars, sel, snd, att, inCb, told, dev, got>>

AttachFires(c) ==
    /\ api[c].at = "fire" /\ api' = [api EXCEPT ![c].at = "inSync"]
    /\ inCb' = TRUE /\ told' = told + 1
    /\ UNCHANGED <<kvars, sel, snd, att, dev, got>>

AttachDone(c) ==
    /\ api[c].at = "inSync" /\ api' = [api EXCEPT ![c] = Idle] /\ inCb' = FALSE
    /\ UNCHANGED <<kvars, sel, snd, att, told, dev, got>>

\* lump_detach: -EDEADLK while in_callback.
DetachAlways(c) ==               \* mutant: in_callback is not looked at
    /\ api[c].at = "idle" /\ att = c /\ att' = None
    /\ UNCHANGED <<kvars, sel, snd, inCb, api, told, dev, got>>

Detach(c) ==
    /\ api[c].at = "idle" /\ ~inCb /\ att = c /\ att' = None
    /\ UNCHANGED <<kvars, sel, snd, inCb, api, told, dev, got>>

\* lump_select_mode and lump_send_data look under info_lock ...
Check(c, m, what) ==
    /\ api[c].at = "idle" /\ synced
    /\ api' = [api EXCEPT ![c] = [at |-> what, mode |-> m, need |-> what = "select" \/ current # m,
                                  sess |-> sess]]
    /\ UNCHANGED <<kvars, sel, snd, att, inCb, told, dev, got>>

\* ... and post under tx_lock.
Post(c) ==
    /\ api[c].at \in {"select", "send"} /\ api' = [api EXCEPT ![c] = Idle]
    /\ sel' = IF api[c].need THEN Req(api[c].mode, api[c].sess) ELSE sel
    /\ snd' = IF api[c].at = "send" THEN Req(api[c].mode, api[c].sess) ELSE snd
    /\ UNCHANGED <<kvars, att, inCb, told, dev, got>>

\* The device is pulled, or plugged between two sessions.
Pull == /\ dev.here /\ dev' = [dev EXCEPT !.here = FALSE]
        /\ UNCHANGED <<kvars, sel, snd, att, inCb, api, told, got>>
Plug == /\ ~dev.here /\ k = "wait" /\ dev' = [dev EXCEPT !.here = TRUE]
        /\ UNCHANGED <<kvars, sel, snd, att, inCb, api, told, got>>

Next == \/ Handoff \/ Kthread \/ Watchdog \/ Pull \/ Plug
        \/ \E c \in Callers : \/ Attach(c) \/ Snapshot(c) \/ AttachFires(c) \/ AttachDone(c)
                              \/ Detach(c) \/ Post(c)
                              \/ \E m \in Modes : Check(c, m, "select") \/ Check(c, m, "send")

Spec == Init /\ [][Next]_vars

\* The kthread (priority 100) runs while it has something to do.
FairSpec == Spec /\ WF_vars(Kthread)

-----------------------------------------------------------------------------
(* Properties *)

\* Once lump_detach has returned 0 no callback of the kthread is running:
\* "Pending callback dispatches complete before this returns" (board_lump.h).
DetachQuiesces == att = None => ~InCallback

\* on_sync is called once for a session: "Callback invoked once on SYNCING ->
\* DATA transition" (board_lump.h).
SyncOnce == told <= 1

\* While the kthread is in a callback a caller of attach or detach is told so
\* by in_callback.
CallbackGuard == InCallback => inCb

\* A DATA frame reaches the device when it is on the frame's mode: "so the
\* device is on the requested mode by the time the payload is delivered".
SentOnMode == got.asked = got.on

\* The drain never transmits a request that was checked against the device of
\* an earlier session: "Drop any stale TX requests [...] from the previous
\* session" (lump_reset_session_state).
FreshRequest == \A r \in {job.sel, job.snd} : r # NoReq => r.sess = sess

\* Nothing the kthread ends leaves the port without a way back: while the
\* detector may not call, the kthread has a handoff to take or is in a session.
PortComesBack == ~reg => (handoff /\ sem > 0) \/ k \notin {"wait", "backoff"}

DisconnectsDue == synced /\ ~dev.here
DisconnectsMet == ~synced

\* A device that is gone is noticed: the session ends.
Disconnects == DisconnectsDue ~> DisconnectsMet

SendServedDue == synced /\ snd # NoReq
SendServedMet == snd = NoReq \/ ~synced

\* A payload posted to a synchronised port is taken, whatever selections the
\* callers keep posting, or the session ends.
SendServed == SendServedDue ~> SendServedMet

-----------------------------------------------------------------------------
(* The handshake *)

CONSTANTS MaxModes,   \* LUMP_MAX_MODES, modes the engine has room for
          DevModes,   \* numbers of modes a device may have
          MaxErr,     \* bad type frames before the search gives up
          MaxStep,    \* LUMP_BACKOFF_MAX
          MaxBad,     \* damaged frames in a behaviour
          MaxQuits    \* times the device falls silent

LumpSyncAssumption ==
    /\ MaxModes \in Nat \ {0} /\ DevModes \subseteq Nat \ {0}
    /\ {MaxErr, MaxStep, MaxBad, MaxQuits} \subseteq Nat

VARIABLES
    device,    \* the device: modes, speed it announces, quick (answers the probe)
    line,   \* the device's end: next frame, its speed, whether it talks, ext sent
    st,     \* "idle", "probe", "search", "info", "data", "ended"
    baud,   \* speed of the host's UART
    rate,   \* new_baud_rate
    flags,  \* info_flags
    mode,   \* new_mode
    ext,    \* ext_mode
    errs,   \* err_count
    info,   \* the public description
    step,   \* backoff_step
    bad,    \* damaged frames so far, and those of this session
    quits

syncVars == <<device, line, st, baud, rate, flags, mode, ext, errs, info, step, bad, quits>>

Required == {"TYPE", "MODES", "NAME", "FORMAT"}        \* LUMP_IF_REQUIRED
NoInfo == [type |-> FALSE, modes |-> 0, named |-> {}, formats |-> {}, writable |-> {},
           synced |-> FALSE, shown |-> "none"]

Frame(kd, m) == [kind |-> kd, mode |-> m]

\* What the device announces.
Script ==
    <<Frame("TYPE", 0), Frame("MODES", device.modes)>>
      \o (IF device.speed = "none" THEN <<>> ELSE <<Frame("SPEED", 0)>>)
      \o [i \in 1..(3 * device.modes) |->
            Frame(<<"NAME", "MAPPING", "FORMAT">>[((i - 1) % 3) + 1],
                  device.modes - 1 - ((i - 1) \div 3))]
      \o <<Frame("ACK", 0)>>

SyncTypeOK ==
    /\ st \in {"idle", "probe", "search", "info", "data", "ended"}
    /\ baud \in {"fast", "slow", "other"} /\ rate \in {"fast", "other"}
    /\ flags \subseteq {"TYPE", "MODES", "SPEED", "NAME", "FORMAT"}
    /\ mode \in 0..(MaxModes - 1) /\ ext \in {0, MaxModes}
    /\ errs \in 0..(MaxErr + 1) /\ step \in 0..MaxStep
    /\ info.modes \in 0..MaxModes
    /\ info.named \cup info.formats \cup info.writable \subseteq 0..(MaxModes - 1)

SyncInit ==
    /\ device \in [modes : DevModes, speed : {"none", "fast", "other"}, quick : BOOLEAN]
    /\ line = [next |-> 1, speed |-> "slow", talks |-> TRUE, ext |-> 0]
    /\ st = "idle" /\ baud = "fast" /\ rate = "fast" /\ flags = {} /\ mode = 0
    /\ ext = 0 /\ errs = 0 /\ info = NoInfo /\ step = 0
    /\ bad = [all |-> 0, here |-> 0] /\ quits = 0

(***************************************************************************)
(* The line                                                                *)
(***************************************************************************)

Heard == line.talks /\ line.speed = baud
Coming == Heard /\ line.next <= Len(Script)

\* The frame at hand is taken off the line, whole or damaged.
Whole == line' = [line EXCEPT !.next = @ + 1] /\ UNCHANGED bad
Damaged ==
    /\ bad.all < MaxBad
    /\ line' = [line EXCEPT !.next = @ + 1]
    /\ bad' = [all |-> bad.all + 1, here |-> bad.here + 1]

\* The device is pulled, and put back once the port has been released.
Quit ==
    /\ line.talks /\ quits < MaxQuits
    /\ line' = [line EXCEPT !.talks = FALSE] /\ quits' = quits + 1
    /\ UNCHANGED <<device, st, baud, rate, flags, mode, ext, errs, info, step, bad>>

(***************************************************************************)
(* lump_sync                                                               *)
(***************************************************************************)

\* lump_kthread_entry starts a session: lump_reset_session_state, the UART
\* opened at the fast speed, CMD SPEED sent.
Start ==
    /\ st = "idle"
    /\ st' = "probe" /\ baud' = "fast" /\ rate' = "fast" /\ flags' = {} /\ mode' = 0
    /\ ext' = 0 /\ errs' = 0 /\ info' = NoInfo
    /\ line' = [next |-> 1, speed |-> "slow", talks |-> TRUE, ext |-> 0]
    /\ bad' = [bad EXCEPT !.here = 0]
    /\ UNCHANGED <<device, step, quits>>

\* Ten milliseconds for an ACK, else the slow speed.
Probe ==
    /\ st = "probe" /\ st' = "search"
    /\ \/ /\ device.quick /\ line.talks /\ line' = [line EXCEPT !.speed = "fast"]
          /\ UNCHANGED baud
       \/ ~(device.quick /\ line.talks) /\ baud' = "slow" /\ UNCHANGED line
    /\ UNCHANGED <<device, rate, flags, mode, ext, errs, info, step, bad, quits>>

\* The session ends with an error; the kernel thread clears the flags, and the
\* backoff grows unless the session had been synchronised.
SyncEnd ==
    /\ st' = "ended"
    /\ info' = [info EXCEPT !.synced = FALSE]
    /\ step' = IF info.synced THEN 0 ELSE IF step < MaxStep THEN step + 1 ELSE step

\* The header search waits for a TYPE frame without a limit of time; a bad one
\* is counted, and the device is taken to say its type again.
Search ==
    /\ st = "search" /\ Coming /\ line.next = 1
    /\ \/ /\ Whole
          /\ flags' = flags \cup {"TYPE"} /\ info' = [info EXCEPT !.type = TRUE]
          /\ st' = "info" /\ UNCHANGED <<errs, step>>
       \/ /\ bad.all < MaxBad /\ bad' = [all |-> bad.all + 1, here |-> bad.here + 1]
          /\ errs' = errs + 1
          /\ IF errs + 1 > MaxErr THEN SyncEnd ELSE UNCHANGED <<st, info, step>>
          /\ UNCHANGED <<line, flags>>
    /\ UNCHANGED <<device, baud, rate, mode, ext, quits>>

(***************************************************************************)
(* lump_parse_msg                                                          *)
(***************************************************************************)

Parsed == UNCHANGED <<st, step>>

OnModes(n) ==
    \/ "MODES" \in flags /\ SyncEnd /\ UNCHANGED <<flags, mode, rate>>
    \/ /\ "MODES" \notin flags /\ Parsed
       /\ flags' = flags \cup {"MODES"}
       /\ LET kd == IF n > MaxModes THEN MaxModes ELSE n
          IN  mode' = kd - 1 /\ info' = [info EXCEPT !.modes = kd]
       /\ UNCHANGED rate

OnSpeed ==
    \/ "SPEED" \in flags /\ SyncEnd /\ UNCHANGED <<flags, mode, rate>>
    \/ /\ "SPEED" \notin flags /\ Parsed
       /\ flags' = flags \cup {"SPEED"} /\ rate' = device.speed
       /\ UNCHANGED <<mode, info>>

OnName(m) ==
    /\ flags' = flags \cup {"NAME"} /\ mode' = m
    /\ info' = [info EXCEPT !.named = @ \cup {m}]
    /\ Parsed /\ UNCHANGED rate

OnMapping(m) ==
    /\ info' = [info EXCEPT !.writable = @ \cup {m}]
    /\ Parsed /\ UNCHANGED <<flags, mode, rate>>

\* Mutant: the format is stored after new_mode has been counted down.
OnFormatLate(m) ==
    \/ /\ \/ m # mode
          \/ flags \cap Required # Required \ {"FORMAT"}
       /\ SyncEnd /\ UNCHANGED <<flags, mode, rate>>
    \/ /\ m = mode /\ flags \cap Required = Required \ {"FORMAT"}
       /\ Parsed /\ UNCHANGED rate
       /\ info' = [info EXCEPT !.formats = @ \cup {IF mode > 0 THEN mode - 1 ELSE 0}]
       /\ mode' = IF mode > 0 THEN mode - 1 ELSE 0
       /\ flags' = IF mode > 0 THEN flags \ {"NAME", "FORMAT"} ELSE flags \cup {"FORMAT"}

\* A format closes the mode that was named, and only once type, number of
\* modes and that name are known.
OnFormat(m) ==
    \/ /\ \/ m # mode
          \/ flags \cap Required # Required \ {"FORMAT"}
       /\ SyncEnd /\ UNCHANGED <<flags, mode, rate>>
    \/ /\ m = mode /\ flags \cap Required = Required \ {"FORMAT"}
       /\ Parsed /\ UNCHANGED rate
       /\ info' = [info EXCEPT !.formats = @ \cup {m}]
       /\ mode' = IF mode > 0 THEN mode - 1 ELSE 0
       /\ flags' = IF mode > 0 THEN flags \ {"NAME", "FORMAT"} ELSE flags \cup {"FORMAT"}

Ignored == Parsed /\ UNCHANGED <<flags, mode, rate, info>>

\* Modes the engine has no room for are dropped before anything else.
Parse(f) ==
    CASE f.kind = "MODES" -> OnModes(f.mode)
      [] f.kind = "SPEED" -> OnSpeed
      [] f.kind \in {"NAME", "MAPPING", "FORMAT"} /\ f.mode >= MaxModes -> Ignored
      [] f.kind = "NAME" -> OnName(f.mode)
      [] f.kind = "MAPPING" -> OnMapping(f.mode)
      [] f.kind = "FORMAT" -> OnFormat(f.mode)
      [] OTHER -> Ignored

\* The INFO loop with the next frame: a damaged one is skipped.
InfoFrame ==
    /\ st = "info" /\ Coming
    /\ \/ Script[line.next].kind # "ACK" /\ Whole /\ Parse(Script[line.next])
       \/ Damaged /\ Ignored
    /\ UNCHANGED <<device, baud, ext, errs, quits>>

\* Silence for 250 ms ends the session, but not the header search.
InfoTimeout ==
    /\ st = "info" /\ ~Coming
    /\ SyncEnd /\ UNCHANGED <<device, line, baud, rate, flags, mode, ext, errs, bad, quits>>

\* The host's answer, the new speed and the publication.
Published ==
    /\ baud' = IF rate # "fast" THEN rate ELSE baud
    /\ line' = [line EXCEPT !.next = @ + 1,
                            !.speed = IF device.speed = "none" THEN @ ELSE device.speed]
    /\ info' = [info EXCEPT !.synced = TRUE, !.shown = rate]
    /\ st' = "data" /\ UNCHANGED step

InfoAck ==
    /\ st = "info" /\ Coming /\ Script[line.next].kind = "ACK"
    /\ \/ Required \subseteq flags /\ Published
       \/ ~(Required \subseteq flags) /\ SyncEnd /\ Whole /\ UNCHANGED baud
    /\ UNCHANGED <<device, rate, flags, mode, ext, errs, bad, quits>>

(***************************************************************************)
(* The DATA loop, as far as modes and silence go                           *)
(***************************************************************************)

\* A device with more modes says which half the next DATA frames belong to.
\* The engine adds the extension to the command as well, so that after one for
\* the upper half no further command has a mode below MaxModes.
ExtMode(v) ==
    /\ st = "data" /\ Heard /\ device.modes > MaxModes /\ v # line.ext
    /\ line' = [line EXCEPT !.ext = v]
    /\ ext' = IF ext = 0 THEN v ELSE ext
    /\ UNCHANGED <<device, st, baud, rate, flags, mode, errs, info, step, bad, quits>>

\* Seven keepalives without DATA: the device is gone or not understood.
DataMissed ==
    /\ st = "data" /\ ~Heard
    /\ SyncEnd /\ UNCHANGED <<device, line, baud, rate, flags, mode, ext, errs, bad, quits>>

\* Backoff over, the port released and handed over again.
SyncIdle ==
    /\ st = "ended" /\ st' = "idle"
    /\ UNCHANGED <<device, line, baud, rate, flags, mode, ext, errs, info, step, bad, quits>>

Engine == Start \/ Probe \/ Search \/ InfoFrame \/ InfoTimeout \/ InfoAck \/ DataMissed \/ SyncIdle

SyncNext == Engine \/ Quit \/ \E v \in {0, MaxModes} : ExtMode(v)

SyncSpec == SyncInit /\ [][SyncNext]_syncVars
SyncFairSpec == SyncSpec /\ WF_syncVars(Engine)

----------------------------------------------------------------------------
(* Properties *)

\* A published device has a type, a number of modes, and a described mode 0;
\* no mode has a format without a name, whatever was damaged on the way.
SyncedDescribed ==
    info.synced => /\ info.type /\ info.modes > 0 /\ 0 \in info.formats
                   /\ info.formats \subseteq info.named

\* When nothing was damaged every mode the engine has room for is described.
Complete == info.synced /\ bad.here = 0 => info.formats = 0..(info.modes - 1)

Described == line.talks => info.synced

\* Damage is repaired by another session: a device that stays is published in
\* the end, again after every interruption.
Synchronises == []<>Described

\* Host and device speak at the same speed once the device is published.
BaudAgrees == st = "data" => baud = line.speed

\* The engine knows which half of the modes DATA frames belong to.
ExtAgrees == st = "data" => ext = line.ext

\* A device that is pulled gives the port back.
PulledEnds == ~line.talks ~> st \in {"ended", "idle"}
=============================================================================
