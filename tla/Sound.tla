------------------------------- MODULE Sound --------------------------------
(***************************************************************************)
(* The loudspeaker, two state machines.                                    *)
(*                                                                         *)
(* /dev/tone0 (stm32_tone.c), which plays the tune of one blocking write,  *)
(* /dev/pcm0 (stm32_pcm.c), which repeats one period until it is stopped,  *)
(* and the converter below them (stm32_sound.c). Every section under       *)
(* g_sound.lock is one step: the 2 ms pause in play_pcm is slept with the  *)
(* lock held, and stop_flag, the only state that is read without the lock, *)
(* is written under it. A tune is a sequence of tokens, chosen one by one; *)
(* a duration is a number of 20 ms slices. External: the file layer, which *)
(* calls close when no call on the file is in progress, and gives both     *)
(* ends of a dup the same file.                                            *)
(*                                                                         *)
(* Beeps asked for over Bluetooth (btsensor_sound.c) and from the console  *)
(* (sound_main.c): one file of the service, one timer that ends the beep,  *)
(* the operations of both links, a link that goes down, the shut-down of   *)
(* the daemon, and the console's own beep, tune and "sound off". The       *)
(* device is reduced to whose period it repeats. External: the scheduler's *)
(* timer, whose stop waits until a callback that has begun is over (module *)
(* Scheduler); the host's receive thread, which carries the requests of    *)
(* both links one after the other.                                         *)
(***************************************************************************)
EXTENDS Integers, Sequences, FiniteSets

CONSTANTS Thread,     \* callers
          ToneFile,   \* open files of /dev/tone0
          PcmFile,    \* open files of /dev/pcm0
          Uses,       \* the files each caller writes to
          Notes,      \* MIDI numbers of the tunes
          Levels,     \* arguments of TONEIOC_VOLUME_SET
          MaxTokens,  \* bound on the tokens of a tune
          MaxSlices,  \* bound on the slices of a note
          NoFile

SoundAssumption ==
    /\ Uses \in [Thread -> SUBSET (ToneFile \cup PcmFile)] /\ NoFile \notin ToneFile \cup PcmFile
    /\ Notes \subseteq 24..107 /\ Levels \subseteq Nat /\ {MaxTokens, MaxSlices} \subseteq Nat \ {0}

File == ToneFile \cup PcmFile

VARIABLES
    opened,     \* files that are open; open_count is their number
    owner, mode, volume, stop_flag,
    out,        \* what the converter repeats: whose samples, how many, at what rate and amplitude
    w,          \* each caller's tone_write: step, file, tokens left, token, slices left, result
    hit         \* history: a stop was asked for since the write claimed the device, with a poll to come

vars == <<opened, owner, mode, volume, stop_flag, out, w, hit>>

open_count == Cardinality(opened)
Silence == [by |-> NoFile, len |-> 0, rate |-> 0, att |-> 0, midi |-> 0]
Idle == [pc |-> "idle", file |-> NoFile, toks |-> 0, tok |-> "end", left |-> 0, ret |-> "none"]
Step(t, r) == w' = [w EXCEPT ![t] = r]

-----------------------------------------------------------------------------
(* Waveform of a note.                                                     *)

\* g_midi_mhz[24..107], milli-Hz
midi_mhz == <<
    32703, 34648, 36708, 38891, 41203, 43654, 46249, 48999, 51913, 55000, 58270, 61735,
    65406, 69296, 73416, 77782, 82407, 87307, 92499, 97999, 103826, 110000, 116541, 123471,
    130813, 138591, 146832, 155563, 164814, 174614, 184997, 195998, 207652, 220000, 233082, 246942,
    261626, 277183, 293665, 311127, 329628, 349228, 369994, 391995, 415305, 440000, 466164, 493883,
    523251, 554365, 587330, 622254, 659255, 698456, 739989, 783991, 830609, 880000, 932328, 987767,
    1046502, 1108731, 1174659, 1244508, 1318510, 1396913, 1479978, 1567982, 1661219, 1760000, 1864655,
    1975533, 2093005, 2217461, 2349318, 2489016, 2637020, 2793826, 2959955, 3135963, 3322438, 3520000,
    3729310, 3951066 >>
Mhz(m) == midi_mhz[m - 23]

volume_curve == <<0, 943, 2130, 3624, 5505, 7873, 10851, 14607, 19331, 25280, 32767>>
Amplitude(v) ==
    LET lo == volume_curve[(v \div 10) + 1]
        hi == IF v \div 10 < 10 THEN volume_curve[(v \div 10) + 2] ELSE volume_curve[11]
    IN  lo + ((hi - lo) * (v % 10)) \div 10

Clamp(x, lo, hi) == IF x < lo THEN lo ELSE IF x > hi THEN hi ELSE x

Samples(m) == (Clamp(50000 \div ((Mhz(m) + 500) \div 1000), 4, 256) \div 2) * 2

Rate(m, n) == Clamp((Mhz(m) * n + 500) \div 1000, 1000, 100000)

Square(f, m) == [by |-> f, len |-> Samples(m), rate |-> Rate(m, Samples(m)),
                 att |-> Amplitude(volume), midi |-> m]

-----------------------------------------------------------------------------
Init ==
    /\ opened = {} /\ owner = NoFile /\ mode = "IDLE" /\ volume = 100 /\ stop_flag = FALSE
    /\ out = Silence /\ w = [t \in Thread |-> Idle] /\ hit = [t \in Thread |-> "no"]

Writing(t) == w[t].pc # "idle"
Release == owner' = NoFile /\ mode' = "IDLE" /\ out' = Silence

Open(f) ==
    /\ f \notin opened /\ opened' = opened \cup {f}
    /\ UNCHANGED <<owner, mode, volume, stop_flag, out, w, hit>>

\* A stop asked for: every write in progress is to end.
Ask ==
    /\ stop_flag' = TRUE
    /\ hit' = [t \in Thread |-> IF ~Writing(t) THEN "no"
                  ELSE IF hit[t] = "due" \/ (w[t].left > 0 /\ w[t].pc \in {"poll", "sleep", "gap"}) THEN "due"
                  ELSE "hit"]

Close(f) ==
    /\ f \in opened /\ opened' = opened \ {f} /\ \A t \in Thread : w[t].file # f
    /\ \/ owner = f /\ Release /\ Ask
       \/ /\ owner # f /\ opened' = {} /\ out' = Silence /\ mode' = "IDLE"
          /\ UNCHANGED <<owner, stop_flag, hit>>
       \/ owner # f /\ opened' # {} /\ UNCHANGED <<owner, mode, stop_flag, out, hit>>
    /\ UNCHANGED <<volume, w>>

\* TONEIOC_STOP, on any file
Stop(f) == f \in opened /\ Release /\ Ask /\ UNCHANGED <<opened, volume, w>>

\* TONEIOC_VOLUME_SET: the argument is cast to uint8_t, then limited
SetVolume(f, arg) ==
    /\ f \in opened /\ volume' = (IF arg % 256 > 100 THEN 100 ELSE arg % 256)
    /\ UNCHANGED <<opened, owner, mode, stop_flag, out, w, hit>>

\* pcm_write.  A header that is refused changes nothing; a period of less than
\* two samples is refused by play_pcm, after what was playing has been stopped.
PcmWrite(t, f) ==
    /\ ~Writing(t) /\ f \in Uses[t] \cap PcmFile \cap opened
    /\ \/ /\ out' = [Silence EXCEPT !.by = f, !.len = 4, !.rate = 1000]
          /\ owner' = f /\ mode' = "PCM" /\ Ask
       \/ stop_flag' = TRUE /\ out' = Silence /\ UNCHANGED <<owner, mode, hit>>
    /\ UNCHANGED <<opened, volume, w>>

-----------------------------------------------------------------------------
(* tone_write.                                                             *)

\* The device is claimed and a pending stop request is cleared.
ToneClaim(t, f) ==
    /\ ~Writing(t) /\ f \in Uses[t] \cap ToneFile \cap opened
    /\ owner' = f /\ mode' = "TONE" /\ stop_flag' = FALSE
    /\ Step(t, [Idle EXCEPT !.pc = "next", !.file = f, !.toks = MaxTokens])
    /\ hit' = [hit EXCEPT ![t] = "no"] /\ UNCHANGED <<opened, volume, out>>

\* parser_next: the end of the tune, a malformed token that is skipped, or a note
NextToken(t) ==
    /\ w[t].pc = "next"
    /\ \/ Step(t, [w[t] EXCEPT !.pc = "out", !.ret = "done"])
       \/ w[t].toks > 0 /\ Step(t, [w[t] EXCEPT !.toks = @ - 1])
       \/ /\ w[t].toks > 0
          /\ \E k \in {"note", "legato", "rest"}, n \in 1..MaxSlices :
                Step(t, [w[t] EXCEPT !.pc = "poll", !.toks = @ - 1, !.tok = k, !.left = n])
    /\ UNCHANGED <<opened, owner, mode, volume, stop_flag, out, hit>>

\* stop_flag, before the note
Poll(t) ==
    /\ w[t].pc = "poll"
    /\ Step(t, IF stop_flag THEN [w[t] EXCEPT !.pc = "out", !.ret = "EINTR"] ELSE [w[t] EXCEPT !.pc = "note"])
    /\ UNCHANGED <<opened, owner, mode, volume, stop_flag, out, hit>>

\* The note is started under the lock, if the write still owns the device.
StartNote(t) == IF w[t].tok = "rest" THEN out' = Silence
            ELSE \E m \in Notes : out' = Square(w[t].file, m)

Play(t) ==
    /\ w[t].pc = "note"
    /\ \/ /\ owner = w[t].file /\ StartNote(t) /\ Step(t, [w[t] EXCEPT !.pc = "sleep"])
       \/ owner # w[t].file /\ Step(t, [Idle EXCEPT !.ret = "EINTR"]) /\ UNCHANGED out
    /\ UNCHANGED <<opened, owner, mode, volume, stop_flag, hit>>

\* tone_sleep_with_stop: a stop request, a signal, or one more slice
Sleep(t) ==
    /\ w[t].pc \in {"sleep", "gap"} /\ w[t].left > 0
    /\ \/ stop_flag /\ Step(t, [w[t] EXCEPT !.pc = "out", !.ret = "EINTR"])
       \/ ~stop_flag /\ Step(t, [w[t] EXCEPT !.pc = "out", !.ret = "EINTR"])
       \/ ~stop_flag /\ Step(t, [w[t] EXCEPT !.left = @ - 1])
    /\ UNCHANGED <<opened, owner, mode, volume, stop_flag, out, hit>>

Gap(t) ==
    /\ w[t].pc = "sleep" /\ w[t].left = 0
    /\ \/ w[t].tok = "legato" /\ Step(t, [w[t] EXCEPT !.pc = "next"]) /\ UNCHANGED out
       \/ /\ w[t].tok # "legato" /\ Step(t, [w[t] EXCEPT !.pc = "gap", !.left = 1])
          /\ out' = (IF owner = w[t].file THEN Silence ELSE out)
    /\ UNCHANGED <<opened, owner, mode, volume, stop_flag, hit>>

GapOver(t) ==
    /\ w[t].pc = "gap" /\ w[t].left = 0 /\ Step(t, [w[t] EXCEPT !.pc = "next"])
    /\ UNCHANGED <<opened, owner, mode, volume, stop_flag, out, hit>>

Out(t) ==
    /\ w[t].pc = "out" /\ Step(t, [Idle EXCEPT !.ret = w[t].ret])
    /\ IF owner = w[t].file THEN Release ELSE UNCHANGED <<owner, mode, out>>
    /\ UNCHANGED <<opened, volume, stop_flag, hit>>

Next ==
    \/ \E f \in File : Open(f) \/ Close(f) \/ Stop(f) \/ \E v \in Levels : SetVolume(f, v)
    \/ \E t \in Thread : \/ \E f \in File : PcmWrite(t, f) \/ ToneClaim(t, f)
                         \/ NextToken(t) \/ Poll(t) \/ Play(t) \/ Sleep(t)
                         \/ Gap(t) \/ GapOver(t) \/ Out(t)

Spec == Init /\ [][Next]_vars

-----------------------------------------------------------------------------
TypeOK ==
    /\ opened \subseteq File /\ owner \in File \cup {NoFile} /\ mode \in {"IDLE", "TONE", "PCM"}
    /\ volume \in 0..100 /\ stop_flag \in BOOLEAN /\ hit \in [Thread -> {"no", "hit", "due"}]
    /\ out.by \in File \cup {NoFile} /\ out.att \in Nat /\ out.att <= 32767
    /\ \A t \in Thread : /\ w[t].pc \in {"idle", "next", "poll", "note", "sleep", "gap", "out"}
                         /\ Writing(t) => w[t].file \in opened

\* The converter runs for the file that owns the device, or, after a claim, still
\* for the one before until the first note; it never runs when nobody owns it.
Unowned == out # Silence => owner # NoFile /\ (out.by = owner \/ \E t \in Thread : w[t].file = owner)

\* A sound outlives its file only when a tune that is about to play has taken over.
ClosedIsSilent ==
    out.by # NoFile /\ out.by \notin opened =>
        \E t \in Thread : w[t].file = owner /\ w[t].pc \in {"next", "poll", "note", "out"}

\* A tune that was stopped or pre-empted changes nothing any more in what the
\* loudspeaker plays, whoever plays next.
HitIsQuiet == \A t \in Thread : hit[t] # "no" /\ w'[t] # w[t] => out' = out

\* The period fits its buffer, play_pcm accepts it, both halves are of one length,
\* and the pitch is off by less than a sample per second.
InTune ==
    out.midi # 0 =>
        /\ out.len \in 2..256 /\ out.len % 2 = 0 /\ 1000 <= out.rate /\ out.rate <= 100000
        /\ LET off == out.rate * 1000 - Mhz(out.midi) * out.len IN -500 <= off /\ off <= 500

\* pcm_write: a tune that was playing when the period was written, with a slice
\* left to sleep, observes the request and returns an error.
PendingInterrupted ==
    \A t \in Thread : hit[t] = "due" /\ Writing(t) /\ ~Writing(t)' => w'[t].ret = "EINTR"

-----------------------------------------------------------------------------
(* Beeps over Bluetooth and from the console *)

CONSTANTS Link, NoLink,
          MaxBeeps        \* bound on the beeps of the service

BeepAssumption == MaxBeeps \in Nat \ {0} /\ NoLink \notin Link

VARIABLES
    fd,        \* number of the beep g_fd plays, 0 when it is closed
    g_owner,
    timer,     \* the beep g_timer is armed for, 0 when it is not active
    cb,        \* the beep whose expiry is being dispatched, 0 when none is
    op,        \* the operation: step, link, kind
    down,      \* the links whose state change has not been handled yet
    stopping,  \* the shut-down: no, timer, lock, done
    dev,       \* what the loudspeaker repeats: silence, service, console
    con,       \* the console command: idle, beeping
    beeps,     \* beeps so far
    cut        \* history: the beep the last expiry closed, and the one it was for

beepVars == <<fd, g_owner, timer, cb, op, down, stopping, dev, con, beeps, cut>>

NoOp == [pc |-> "idle", link |-> NoLink, kind |-> "none"]

BeepInit ==
    /\ fd = 0 /\ g_owner = NoLink /\ timer = 0 /\ cb = 0 /\ op = NoOp /\ down = {}
    /\ stopping = "no" /\ dev = "silence" /\ con = "idle" /\ beeps = 0 /\ cut = <<0, 0>>

\* close_locked: TONEIOC_STOP silences whoever plays
Closed(f) == IF f = 0 THEN dev ELSE "silence"

\* A request: its range was checked before.
BeepAsk(l, k) ==
    /\ op = NoOp /\ stopping = "no" /\ (k = "beep" => beeps < MaxBeeps) /\ op' = [pc |-> "timer", link |-> l, kind |-> k]
    /\ UNCHANGED <<fd, g_owner, timer, cb, down, stopping, dev, con, beeps, cut>>

OpStopTimer ==
    /\ op.pc = "timer" /\ cb = 0 /\ timer' = 0 /\ op' = [op EXCEPT !.pc = "lock"]
    /\ UNCHANGED <<fd, cb, g_owner, down, stopping, dev, con, beeps, cut>>

\* The old beep is closed; a new one is opened, written and given its timer.
\* Each of the three may fail, and what was opened is closed again.
OpNewUntimed ==                  \* mutant: the beep goes on although its timer was refused
    /\ op.pc = "lock" /\ op.kind = "beep" /\ beeps' = beeps + 1 /\ op' = NoOp
    /\ fd' = beeps + 1 /\ dev' = "service" /\ g_owner' = op.link
    /\ timer' \in {timer, beeps + 1}
    /\ UNCHANGED <<cb, down, stopping, con, cut>>

OpNew ==
    /\ op.pc = "lock" /\ op.kind = "beep" /\ beeps' = beeps + 1 /\ op' = NoOp
    /\ \/ /\ fd' = beeps + 1 /\ dev' = "service" /\ g_owner' = op.link
          /\ timer' = beeps + 1
       \/ fd' = 0 /\ dev' = Closed(fd) /\ UNCHANGED <<g_owner, timer>>      \* open
       \/ fd' = 0 /\ dev' = "silence" /\ UNCHANGED <<g_owner, timer>>       \* write
       \/ fd' = 0 /\ dev' = "silence" /\ g_owner' = op.link /\ UNCHANGED timer
    /\ UNCHANGED <<cb, down, stopping, con, cut>>

OpEnd ==
    /\ op.pc = "lock" /\ op.kind = "stop" /\ op' = NoOp /\ fd' = 0 /\ dev' = Closed(fd)
    /\ UNCHANGED <<g_owner, timer, cb, down, stopping, con, beeps, cut>>

\* The scheduler's thread: the timer expires, and timer_expired takes the lock.
Expire ==
    /\ timer # 0 /\ cb = 0 /\ cb' = timer /\ timer' = 0
    /\ UNCHANGED <<fd, g_owner, op, down, stopping, dev, con, beeps, cut>>

TimerExpired ==
    /\ cb # 0 /\ cb' = 0
    /\ fd' = 0 /\ dev' = Closed(fd) /\ cut' = (IF fd = 0 THEN cut ELSE <<fd, cb>>)
    /\ UNCHANGED <<g_owner, timer, op, down, stopping, con, beeps>>

\* A link goes down, and btsensor_sound_link_state hears of it.
LinkLost(l) ==
    /\ l \notin down /\ down' = down \cup {l}
    /\ UNCHANGED <<fd, g_owner, timer, cb, op, stopping, dev, con, beeps, cut>>

LinkStateAny(l) ==               \* mutant: whoever owns the beep
    /\ l \in down /\ down' = down \ {l} /\ fd' = 0 /\ dev' = Closed(fd)
    /\ UNCHANGED <<g_owner, timer, cb, op, stopping, con, beeps, cut>>

LinkState(l) ==
    /\ l \in down /\ down' = down \ {l}
    /\ IF g_owner = l THEN fd' = 0 /\ dev' = Closed(fd) ELSE UNCHANGED <<fd, dev>>
    /\ UNCHANGED <<g_owner, timer, cb, op, stopping, con, beeps, cut>>

\* btsensor_sound_shutdown, once the transport has stopped
Shutdown ==
    /\ stopping = "no" /\ op = NoOp /\ stopping' = "timer"
    /\ UNCHANGED <<fd, g_owner, timer, cb, op, down, dev, con, beeps, cut>>

ShutdownTimer ==
    /\ stopping = "timer" /\ cb = 0 /\ timer' = 0
    /\ stopping' = "lock" /\ UNCHANGED <<fd, cb, g_owner, op, down, dev, con, beeps, cut>>

ShutdownSilent ==                \* mutant: the timer is stopped, the file is left
    /\ stopping = "lock" /\ stopping' = "done" /\ UNCHANGED <<fd, dev, g_owner, timer, cb, op, down, con, beeps, cut>>

ShutdownClose ==
    /\ stopping = "lock" /\ stopping' = "done" /\ fd' = 0 /\ dev' = Closed(fd)
    /\ UNCHANGED <<g_owner, timer, cb, op, down, con, beeps, cut>>

\* The daemon is started again.
Start == stopping = "done" /\ stopping' = "no" /\ UNCHANGED <<fd, g_owner, timer, cb, op, down, dev, con, beeps, cut>>

\* cmd_beep: open, volume, write, sleep; then STOP and close.  cmd_off: STOP.
ConBeep == con = "idle" /\ con' = "beeping" /\ dev' = "console"
           /\ UNCHANGED <<fd, g_owner, timer, cb, op, down, stopping, beeps, cut>>
ConDone == con = "beeping" /\ con' = "idle" /\ dev' = "silence"
           /\ UNCHANGED <<fd, g_owner, timer, cb, op, down, stopping, beeps, cut>>
ConOff == dev' = "silence" /\ con = "idle" /\ UNCHANGED <<fd, g_owner, timer, cb, op, down, stopping, con, beeps, cut>>

Op == OpStopTimer \/ OpNew \/ OpEnd
BeepNext ==
    \/ \E l \in Link : LinkLost(l) \/ LinkState(l) \/ \E k \in {"beep", "stop"} : BeepAsk(l, k)
    \/ Op \/ Expire \/ TimerExpired
    \/ Shutdown \/ ShutdownTimer \/ ShutdownClose \/ Start
    \/ ConBeep \/ ConDone \/ ConOff

BeepSpec == BeepInit /\ [][BeepNext]_beepVars

\* Timers expire and run, calls that began go on, a console command ends.
ShutdownGoesOn == ShutdownTimer \/ ShutdownClose
BeepFairSpec == BeepSpec /\ WF_beepVars(Op) /\ WF_beepVars(Expire) /\ WF_beepVars(TimerExpired) /\ WF_beepVars(ShutdownGoesOn)
                 /\ WF_beepVars(ConDone)

-----------------------------------------------------------------------------
BeepTypeOK ==
    /\ fd \in 0..MaxBeeps /\ g_owner \in Link \cup {NoLink} /\ {timer, cb} \subseteq 0..MaxBeeps /\ (fd # 0 => g_owner # NoLink)
    /\ op.pc \in {"idle", "timer", "lock"} /\ down \subseteq Link /\ beeps \in 0..MaxBeeps
    /\ stopping \in {"no", "timer", "lock", "done"} /\ dev \in {"silence", "service", "console"}
    /\ con \in {"idle", "beeping"}

\* Whatever sounds has somebody who is about to end it: the timer, an operation or
\* a shut-down past its timer_stop, or the console command.
SomebodyEnds ==
    /\ fd # 0 => timer # 0 \/ cb # 0 \/ op.pc = "lock" \/ stopping = "lock"
    /\ dev = "service" => fd # 0
    /\ dev = "console" => con = "beeping"

\* The expiry that closes a beep is that beep's own, never a late one of the beep before.
OwnExpiry == cut[1] = cut[2]

\* A link that goes down ends its own beep only; the comment at link_state is about
\* the other transport's beep being taken for it.
OwnLink == \A l \in Link : l \in down /\ l \notin down' /\ fd' # fd => g_owner = l

\* After the shut-down nothing of the service sounds or will run.
ShutMeansShut == stopping = "done" => fd = 0 /\ timer = 0 /\ cb = 0

BeepsEndDue == fd # 0
BeepsEndMet == fd = 0

\* Every beep ends: its timer, an operation, the loss of its link or the shut-down closes the file.
BeepsEnd == BeepsEndDue ~> BeepsEndMet

OpsReturnDue == op.pc # "idle"
OpsReturnMet == op.pc = "idle"

\* Every operation of a link returns, although stopping the timer waits for a callback that wants
\* the same lock.
OpsReturn == OpsReturnDue ~> OpsReturnMet
=============================================================================
