--------------------------- MODULE BtsensorProofs ---------------------------
(***************************************************************************)
(* Proofs about the machines of the Bluetooth application: tones and beeps *)
(* (module Sound), the sensor stream and the writes to sensors             *)
(* (BundleEmitter), the scheduler (Scheduler), motor sessions and          *)
(* notifications (LinkSessions) and the send arbiter (BtsensorTx), each    *)
(* for every value of its constants.  The machines are instances of their  *)
(* modules over the names below, and a theorem speaks of one of them.      *)
(***************************************************************************)
EXTENDS Integers, SequenceTheorems, FiniteSetTheorems, WellFoundedInduction, TLAPS

CONSTANTS Thread, ToneFile, PcmFile, Uses, Notes, Levels, MaxTokens, MaxSlices, NoFile,
          Link, NoLink, MaxBeeps, Ring, PerFrame, Config, Rate, TickHz, MaxSamples,
          MaxQueue, MaxCalls, Class, Port, Ops, Cooldown, Saturated, Wrap, MaxPub,
          CacheMaxQueue, CacheMaxCalls, MaxTime, WritesRing, WritesPerFrame, WritesConfig,
          WritesRate, WritesTickHz, WritesMaxSamples, WritesMaxQueue, WritesMaxCalls,
          WritesClass, WritesPort, WritesOps, WritesCooldown, WritesSaturated, WritesWrap,
          WritesMaxPub, WritesCacheMaxQueue, WritesCacheMaxCalls, WritesMaxTime, Watches,
          Timers, Rearming, OneShot, WatchSlots, TimerSlots, None, Ports, Classic, Ble,
          MaxCmd, Interval, MaxRequests, MaxLinks, Threads, Links, RespDepth, TxDepth, Pool,
          MaxTicket, MaxEpoch, MaxLife, DrainThreads, MaxId

VARIABLES opened, soundOwner, mode, volume, stop_flag, soundOut, soundWriter, hit, beepFd,
          g_owner, beepTimer, cb, beepOp, down, stopping, dev, con, beeps, cut, cfg,
          sampleNo, queue, watch, imu_enabled, ring, sensor_enabled, g_initialized,
          g_imu_on, g_sensor_on, g_timer_armed, s_last, bundleLock, wk, cmd, calls,
          consumer, frames, out, mark, lost, ticks, port, gen, claim, topic, pubs, fd, cls,
          g_enabled, g_last_write, clock, cacheWk, cacheCmd, cacheCalls, snap, cacheMark,
          done, active, dispatching, polling, wslot, tslot, schedUp, stop, schedWorker,
          schedOp, stoppedObjects, twice, attached, pwm, owner, token, run, armed, up, cmds,
          linkRx, worker, linkOf, replies, excused, interval_ms, notification_interval_ms,
          timer, lock, notifyHost, notifyWorker, leLink, notifyLinks, request, requests,
          answer, wrong, txQueue, online, sessions, selected, pumping, repoll, lifetime,
          txUp, ticket, thread, conn, last, inflight, delivered, busy, drain, timerId,
          reconciling, counter, txArmed, drainThread, txCalls

-----------------------------------------------------------------------------
(* Tones and beeps *)

Speaker == INSTANCE Sound WITH
    owner <- soundOwner, out <- soundOut, w <- soundWriter, fd <- beepFd, timer <- beepTimer,
    op <- beepOp

(* The fields of a caller.                                                 *)
Rec(x) == {"pc", "file", "toks", "tok", "left", "ret"} \subseteq DOMAIN x

(* A caller that has claimed the device and not begun a note, or has been  *)
(* told to end.                                                            *)
Between(t) == soundWriter[t].file = soundOwner /\ soundWriter[t].pc \in {"next", "poll", "note", "out"}

(* What sounds is the owner's, or the one's before, while the owner's tune *)
(* has not begun; the owner is open.                                       *)
SpeakerInv ==
  /\ soundWriter = [t \in Thread |-> soundWriter[t]] /\ \A t \in Thread : Rec(soundWriter[t])
  /\ soundOwner # NoFile => soundOwner \in opened
  /\ soundOut.by # NoFile => soundOwner # NoFile /\ (soundOut.by = soundOwner \/ \E t \in Thread : Between(t))

(* Nothing sounds at first.                                                *)
LEMMA SpeakerStarts == ASSUME Speaker!Init PROVE SpeakerInv
  BY DEF Speaker!Init, Speaker!Silence, Speaker!Idle, SpeakerInv, Rec

(* A step of one caller changes its own record only.                       *)
LEMMA StepIsOwn ==
  ASSUME SpeakerInv, NEW t \in Thread, NEW r, Rec(r), Speaker!Step(t, r)
  PROVE  /\ soundWriter' = [u \in Thread |-> soundWriter'[u]] /\ \A u \in Thread : Rec(soundWriter'[u])
         /\ soundWriter'[t] = r /\ \A u \in Thread \ {t} : soundWriter'[u] = soundWriter[u]
PROOF
  <1>1. soundWriter' = [soundWriter EXCEPT ![t] = r]
    BY DEF Speaker!Step
  <1>2. \A u \in Thread : soundWriter'[u] = IF u = t THEN r ELSE soundWriter[u]
    BY <1>1 DEF SpeakerInv
  <1>3. soundWriter' = [u \in Thread |-> soundWriter'[u]]
    BY <1>1 DEF SpeakerInv
  <1>4. \A u \in Thread : Rec(soundWriter'[u])
    BY <1>2 DEF SpeakerInv
  <1>5. QED
    BY <1>2, <1>3, <1>4

(* The calls on the files.                                                 *)
LEMMA FilesKeepSpeaker ==
  ASSUME Speaker!SoundAssumption, SpeakerInv, NEW f \in Speaker!File,
         \/ Speaker!Open(f) \/ Speaker!Close(f) \/ Speaker!Stop(f) \/ \E v \in Levels : Speaker!SetVolume(f, v)
         \/ \E t \in Thread : Speaker!PcmWrite(t, f)
  PROVE  SpeakerInv'
PROOF
  <1> USE DEF SpeakerInv, Between, Speaker!Release, Speaker!Ask, Speaker!Silence
  <1>1. CASE Speaker!Open(f)
    BY <1>1 DEF Speaker!Open
  <1>2. CASE Speaker!Close(f)
    <2>1. UNCHANGED soundWriter
      BY <1>2 DEF Speaker!Close
    <2>2. CASE soundOwner = f /\ Speaker!Release
      BY <1>2, <2>1, <2>2 DEF Speaker!Close
    <2>3. CASE soundOwner # f /\ opened' = {} /\ soundOut' = Speaker!Silence /\ UNCHANGED soundOwner
      BY <1>2, <2>1, <2>3 DEF Speaker!Close
    <2>4. CASE soundOwner # f /\ opened' # {} /\ UNCHANGED <<soundOwner, soundOut>>
      BY <1>2, <2>1, <2>4 DEF Speaker!Close
    <2>5. QED
      BY <1>2, <2>2, <2>3, <2>4 DEF Speaker!Close
  <1>3. CASE Speaker!Stop(f)
    BY <1>3 DEF Speaker!Stop
  <1>4. ASSUME NEW v \in Levels, Speaker!SetVolume(f, v) PROVE SpeakerInv'
    BY <1>4 DEF Speaker!SetVolume
  <1>5. ASSUME NEW t \in Thread, Speaker!PcmWrite(t, f) PROVE SpeakerInv'
    <2>1. UNCHANGED <<opened, soundWriter>> /\ f \in opened
      BY <1>5 DEF Speaker!PcmWrite
    <2>2. CASE soundOut' = [Speaker!Silence EXCEPT !.by = f, !.len = 4, !.rate = 1000] /\ soundOwner' = f
      <3>1. soundOut'.by = f /\ f # NoFile
        BY <2>2 DEF Speaker!SoundAssumption, Speaker!File
      <3>2. QED
        BY <2>1, <2>2, <3>1
    <2>3. CASE soundOut' = Speaker!Silence /\ UNCHANGED soundOwner
      BY <2>1, <2>3
    <2>4. QED
      BY <1>5, <2>2, <2>3 DEF Speaker!PcmWrite
  <1>6. QED
    BY <1>1, <1>2, <1>3, <1>4, <1>5

(* The steps of a tune.                                                    *)
LEMMA TunesKeepSpeaker ==
  ASSUME Speaker!SoundAssumption, SpeakerInv, NEW t \in Thread,
         \/ \E f \in Speaker!File : Speaker!ToneClaim(t, f)
         \/ Speaker!NextToken(t) \/ Speaker!Poll(t) \/ Speaker!Play(t) \/ Speaker!Sleep(t) \/ Speaker!Gap(t) \/ Speaker!GapOver(t) \/ Speaker!Out(t)
  PROVE  SpeakerInv'
PROOF
  <1>1. Rec(soundWriter[t])
    BY DEF SpeakerInv
  <1>2. ASSUME NEW f \in Speaker!File, Speaker!ToneClaim(t, f) PROVE SpeakerInv'
    <2> DEFINE r == [Speaker!Idle EXCEPT !.pc = "next", !.file = f, !.toks = MaxTokens]
    <2>1. Rec(r) /\ r.pc = "next" /\ r.file = f
      BY DEF Speaker!Idle, Rec
    <2>2. Speaker!Step(t, r) /\ soundOwner' = f /\ f \in opened /\ UNCHANGED <<opened, soundOut>>
      BY <1>2 DEF Speaker!ToneClaim
    <2> HIDE DEF r
    <2>3. /\ soundWriter' = [u \in Thread |-> soundWriter'[u]] /\ \A u \in Thread : Rec(soundWriter'[u])
          /\ soundWriter'[t] = r
      BY <2>1, <2>2, StepIsOwn
    <2>4. Between(t)'
      BY <2>1, <2>2, <2>3 DEF Between
    <2>5. f # NoFile
      BY DEF Speaker!SoundAssumption, Speaker!File
    <2>6. QED
      BY <2>2, <2>3, <2>4, <2>5 DEF SpeakerInv
  <1>3. ASSUME NEW r, Rec(r), Speaker!Step(t, r), UNCHANGED <<soundOwner, opened>>,
               \/ UNCHANGED soundOut /\ (soundWriter[t].file = soundOwner /\ soundWriter[t].pc \in {"next", "poll", "note", "out"}
                                     => r.file = soundWriter[t].file /\ r.pc \in {"next", "poll", "note", "out"})
               \/ soundOut'.by \in {NoFile, soundOwner} /\ soundOwner # NoFile
               \/ soundOut'.by = NoFile
        PROVE  SpeakerInv'
    <2>1. /\ soundWriter' = [u \in Thread |-> soundWriter'[u]] /\ \A u \in Thread : Rec(soundWriter'[u])
          /\ soundWriter'[t] = r /\ \A u \in Thread \ {t} : soundWriter'[u] = soundWriter[u]
      BY <1>3, StepIsOwn
    <2>2. QED
      BY <1>3, <2>1 DEF SpeakerInv, Between
  <1>4. CASE Speaker!NextToken(t)
    BY <1>1, <1>3, <1>4 DEF Speaker!NextToken, Rec
  <1>5. CASE Speaker!Poll(t)
    BY <1>1, <1>3, <1>5 DEF Speaker!Poll, Rec
  <1>6. CASE Speaker!Play(t)
    BY <1>1, <1>3, <1>6 DEF Speaker!Play, Speaker!StartNote, Speaker!Square, Speaker!Silence, Rec, Speaker!Idle
  <1>7. CASE Speaker!Sleep(t)
    BY <1>1, <1>3, <1>7 DEF Speaker!Sleep, Rec
  <1>8. CASE Speaker!Gap(t)
    <2>1. soundWriter[t].pc = "sleep" /\ UNCHANGED <<soundOwner, opened>>
      BY <1>8 DEF Speaker!Gap
    <2>2. CASE Speaker!Step(t, [soundWriter[t] EXCEPT !.pc = "next"]) /\ UNCHANGED soundOut
      BY <1>1, <1>3, <2>1, <2>2 DEF Rec
    <2>3. CASE /\ Speaker!Step(t, [soundWriter[t] EXCEPT !.pc = "gap", !.left = 1])
               /\ soundOut' = (IF soundOwner = soundWriter[t].file THEN Speaker!Silence ELSE soundOut)
      BY <1>1, <1>3, <2>1, <2>3 DEF Speaker!Silence, Rec
    <2>4. QED
      BY <1>8, <2>2, <2>3 DEF Speaker!Gap
  <1>9. CASE Speaker!GapOver(t)
    BY <1>1, <1>3, <1>9 DEF Speaker!GapOver, Rec
  <1>10. CASE Speaker!Out(t)
    BY <1>1, <1>3, <1>10, StepIsOwn DEF Speaker!Out, Speaker!Release, Speaker!Silence, Rec, Speaker!Idle, SpeakerInv, Between
  <1>11. QED
    BY <1>2, <1>4, <1>5, <1>6, <1>7, <1>8, <1>9, <1>10

(* Every call on a file, every step of a tune, and the hits on its flag.   *)
LEMMA SpeakerStep == ASSUME Speaker!SoundAssumption, SpeakerInv, [Speaker!Next]_(Speaker!vars) PROVE SpeakerInv'
PROOF
  <1>1. CASE UNCHANGED Speaker!vars
    BY <1>1 DEF Speaker!vars, SpeakerInv, Between
  <1>2. QED
    BY <1>1, FilesKeepSpeaker, TunesKeepSpeaker DEF Speaker!Next

(* A sound outlives its file only when a tune that is about to play has    *)
(* taken over.                                                             *)
THEOREM ClosedFilesAreSilent == ASSUME Speaker!SoundAssumption PROVE Speaker!Spec => []Speaker!ClosedIsSilent
PROOF
  <1>1. Speaker!Init => SpeakerInv
    BY SpeakerStarts
  <1>2. SpeakerInv /\ [Speaker!Next]_(Speaker!vars) => SpeakerInv'
    BY SpeakerStep
  <1>3. SpeakerInv => Speaker!ClosedIsSilent
    BY DEF SpeakerInv, Between, Speaker!ClosedIsSilent
  <1>4. QED
    BY <1>1, <1>2, <1>3, PTL DEF Speaker!Spec

(* No two callers write to one file.                                       *)
OwnFiles == \A t, u \in Thread : t # u => Uses[t] \cap Uses[u] = {}

(* A write is to a tone file of its caller, and once it was stopped or     *)
(* pre-empted the device is not its own any more.                          *)
HitInv ==
  /\ soundWriter = [t \in Thread |-> soundWriter[t]] /\ \A t \in Thread : Rec(soundWriter[t])
  /\ hit = [t \in Thread |-> hit[t]]
  /\ \A t \in Thread : Speaker!Writing(t) =>
        /\ soundWriter[t].file \in Uses[t] /\ soundWriter[t].file \in ToneFile /\ soundWriter[t].file \in opened
        /\ hit[t] # "no" => soundOwner # soundWriter[t].file

(* Nothing is written at first.                                            *)
LEMMA HitStarts == ASSUME Speaker!Init PROVE HitInv
  BY DEF Speaker!Init, Speaker!Idle, HitInv, Rec, Speaker!Writing

(* A step of a caller that has its file and asks for nothing.              *)
LEMMA HitOfCaller ==
  ASSUME Speaker!SoundAssumption, HitInv, NEW t \in Thread, NEW r, Rec(r), Speaker!Step(t, r), Speaker!Writing(t),
         r.pc # "idle" => r.file = soundWriter[t].file,
         soundOwner' = soundOwner \/ soundOwner' = NoFile, UNCHANGED <<opened, hit>>,
         hit[t] # "no" => soundOut' = soundOut
  PROVE  HitInv' /\ Speaker!HitIsQuiet
PROOF
  <1>1. /\ soundWriter' = [u \in Thread |-> soundWriter'[u]] /\ \A u \in Thread : Rec(soundWriter'[u])
        /\ soundWriter'[t] = r /\ \A u \in Thread \ {t} : soundWriter'[u] = soundWriter[u]
    <2>1. soundWriter' = [soundWriter EXCEPT ![t] = r]
      BY DEF Speaker!Step
    <2>2. \A u \in Thread : soundWriter'[u] = IF u = t THEN r ELSE soundWriter[u]
      BY <2>1 DEF HitInv
    <2>3. soundWriter' = [u \in Thread |-> soundWriter'[u]]
      BY <2>1 DEF HitInv
    <2>4. QED
      BY <2>2, <2>3 DEF HitInv
  <1>2. NoFile \notin ToneFile
    BY DEF Speaker!SoundAssumption
  <1>3. ASSUME NEW u \in Thread, Speaker!Writing(u)'
        PROVE  /\ soundWriter'[u].file \in Uses[u] /\ soundWriter'[u].file \in ToneFile /\ soundWriter'[u].file \in opened'
               /\ hit'[u] # "no" => soundOwner' # soundWriter'[u].file
    <2>1. Speaker!Writing(u) /\ soundWriter'[u].file = soundWriter[u].file
      BY <1>1, <1>3 DEF Speaker!Writing
    <2>2. QED
      BY <1>2, <2>1 DEF HitInv
  <1>4. HitInv'
    BY <1>1, <1>3 DEF HitInv
  <1>5. Speaker!HitIsQuiet
    BY <1>1 DEF Speaker!HitIsQuiet
  <1>6. QED
    BY <1>4, <1>5

(* What is asked for while the device goes to nobody, or to a file that is *)
(* no tone file, is asked of everybody who writes.                         *)
LEMMA HitOfAsk ==
  ASSUME Speaker!SoundAssumption, ToneFile \cap PcmFile = {}, HitInv, Speaker!Ask, UNCHANGED soundWriter, soundOwner' \in PcmFile \cup {NoFile},
         \A t \in Thread : Speaker!Writing(t) => soundWriter[t].file \in opened'
  PROVE  HitInv' /\ Speaker!HitIsQuiet
PROOF
  <1>1. \A t \in Thread : Speaker!Writing(t)' <=> Speaker!Writing(t)
    BY DEF Speaker!Writing
  <1>2. hit' = [t \in Thread |-> hit'[t]]
    BY DEF Speaker!Ask
  <1>3. NoFile \notin ToneFile
    BY DEF Speaker!SoundAssumption
  <1>4. HitInv'
    BY <1>1, <1>2, <1>3 DEF HitInv
  <1>5. Speaker!HitIsQuiet
    BY DEF Speaker!HitIsQuiet
  <1>6. QED
    BY <1>4, <1>5

(* Every step keeps who may still play, and none of a caller that was hit  *)
(* changes what plays.                                                     *)
LEMMA HitStep ==
  ASSUME Speaker!SoundAssumption, OwnFiles, ToneFile \cap PcmFile = {}, HitInv, [Speaker!Next]_(Speaker!vars)
  PROVE  HitInv' /\ Speaker!HitIsQuiet
PROOF
  <1>0. NoFile \notin ToneFile /\ \A t \in Thread : Uses[t] \subseteq Speaker!File
    BY DEF Speaker!SoundAssumption, Speaker!File
  <1>02. ASSUME NEW t \in Thread, NEW r, Rec(r), Speaker!Step(t, r), Speaker!Writing(t), r.file = soundWriter[t].file,
                UNCHANGED <<soundOwner, opened, hit>>, hit[t] # "no" => soundOut' = soundOut
         PROVE  HitInv' /\ Speaker!HitIsQuiet
    BY <1>02, HitOfCaller
  <1>01. ASSUME NEW t \in Thread, NEW r, Rec(r), Speaker!Step(t, r), Speaker!Writing(t), r.file = soundWriter[t].file,
                UNCHANGED <<soundOwner, opened, hit, soundOut>>
         PROVE  HitInv' /\ Speaker!HitIsQuiet
    BY <1>01, <1>02
  <1>1. ASSUME UNCHANGED <<soundWriter, hit, opened>>, soundOwner' = soundOwner \/ soundOwner' = NoFile PROVE HitInv' /\ Speaker!HitIsQuiet
    BY <1>0, <1>1 DEF HitInv, Speaker!HitIsQuiet, Speaker!Writing
  <1>2. ASSUME NEW f \in Speaker!File, Speaker!Open(f) PROVE HitInv' /\ Speaker!HitIsQuiet
    BY <1>2 DEF Speaker!Open, HitInv, Speaker!HitIsQuiet, Speaker!Writing
  <1>3. ASSUME NEW f \in Speaker!File, Speaker!Close(f) PROVE HitInv' /\ Speaker!HitIsQuiet
    <2>1. UNCHANGED soundWriter /\ opened' = opened \ {f} /\ \A t \in Thread : soundWriter[t].file # f
      BY <1>3 DEF Speaker!Close
    <2>2. \A t \in Thread : Speaker!Writing(t) => soundWriter[t].file \in opened'
      BY <2>1 DEF HitInv
    <2>3. CASE Speaker!Release /\ Speaker!Ask
      BY <2>1, <2>2, <2>3, HitOfAsk, SMT DEF Speaker!Release
    <2>4. CASE UNCHANGED <<soundOwner, hit>>
      BY <2>1, <2>2, <2>4 DEF HitInv, Speaker!HitIsQuiet, Speaker!Writing
    <2>5. QED
      BY <1>3, <2>3, <2>4 DEF Speaker!Close
  <1>4. ASSUME NEW f \in Speaker!File, Speaker!Stop(f) PROVE HitInv' /\ Speaker!HitIsQuiet
    <2>1. UNCHANGED <<soundWriter, opened>> /\ Speaker!Ask /\ soundOwner' = NoFile
      BY <1>4 DEF Speaker!Stop, Speaker!Release
    <2>2. \A t \in Thread : Speaker!Writing(t) => soundWriter[t].file \in opened'
      BY <2>1 DEF HitInv
    <2>3. QED
      BY <2>1, <2>2, HitOfAsk
  <1>5. ASSUME NEW f \in Speaker!File, NEW v \in Levels, Speaker!SetVolume(f, v) PROVE HitInv' /\ Speaker!HitIsQuiet
    BY <1>1, <1>5 DEF Speaker!SetVolume
  <1>6. ASSUME NEW t \in Thread, NEW f \in Speaker!File, Speaker!PcmWrite(t, f) PROVE HitInv' /\ Speaker!HitIsQuiet
    <2>1. UNCHANGED <<soundWriter, opened>> /\ f \in PcmFile
      BY <1>6 DEF Speaker!PcmWrite
    <2>2. CASE soundOwner' = f /\ Speaker!Ask
      <3>1. \A u \in Thread : Speaker!Writing(u) => soundWriter[u].file \in opened'
        BY <2>1 DEF HitInv
      <3>2. QED
        BY <2>1, <2>2, <3>1, HitOfAsk
    <2>3. CASE UNCHANGED <<soundOwner, hit>>
      BY <1>1, <2>1, <2>3
    <2>4. QED
      BY <1>6, <2>2, <2>3 DEF Speaker!PcmWrite
  <1>7. ASSUME NEW t \in Thread, NEW f \in Speaker!File, Speaker!ToneClaim(t, f) PROVE HitInv' /\ Speaker!HitIsQuiet
    <2> DEFINE r == [Speaker!Idle EXCEPT !.pc = "next", !.file = f, !.toks = MaxTokens]
    <2>1. Rec(r) /\ r.pc = "next" /\ r.file = f
      BY DEF Speaker!Idle, Rec
    <2>2. /\ Speaker!Step(t, r) /\ soundOwner' = f /\ f \in Uses[t] /\ f \in ToneFile /\ f \in opened /\ UNCHANGED <<opened, soundOut>>
          /\ hit' = [hit EXCEPT ![t] = "no"]
      BY <1>7 DEF Speaker!ToneClaim
    <2> HIDE DEF r
    <2>3. \A u \in Thread : soundWriter'[u] = IF u = t THEN r ELSE soundWriter[u]
      BY <2>2 DEF HitInv, Speaker!Step
    <2>4. soundWriter' = [u \in Thread |-> soundWriter'[u]] /\ hit' = [u \in Thread |-> hit'[u]]
      BY <2>2 DEF HitInv, Speaker!Step
    <2>5. \A u \in Thread : hit'[u] = IF u = t THEN "no" ELSE hit[u]
      BY <2>2 DEF HitInv
    <2>6. ASSUME NEW u \in Thread, Speaker!Writing(u)'
          PROVE  /\ soundWriter'[u].file \in Uses[u] /\ soundWriter'[u].file \in ToneFile /\ soundWriter'[u].file \in opened'
                 /\ hit'[u] # "no" => soundOwner' # soundWriter'[u].file
      <3>1. CASE u = t
        BY <2>1, <2>2, <2>3, <2>5, <3>1
      <3>2. CASE u # t
        <4>1. soundWriter'[u] = soundWriter[u] /\ Speaker!Writing(u)
          BY <2>3, <2>6, <3>2 DEF Speaker!Writing
        <4>2. soundWriter[u].file # f
          BY <2>2, <3>2, <4>1 DEF HitInv, OwnFiles
        <4>3. QED
          BY <2>2, <4>1, <4>2 DEF HitInv
      <3>3. QED
        BY <3>1, <3>2
    <2>7. \A u \in Thread : Rec(soundWriter'[u])
      BY <2>1, <2>3 DEF HitInv
    <2>8. HitInv'
      BY <2>4, <2>6, <2>7 DEF HitInv
    <2>9. QED
      BY <2>2, <2>8 DEF Speaker!HitIsQuiet
  <1>8. ASSUME NEW t \in Thread, Speaker!NextToken(t) PROVE HitInv' /\ Speaker!HitIsQuiet
    <2>1. Rec(soundWriter[t]) /\ Speaker!Writing(t) /\ UNCHANGED <<soundOwner, opened, hit, soundOut>>
      BY <1>8 DEF HitInv, Speaker!NextToken, Speaker!Writing
    <2>2. QED
      BY <1>01, <1>8, <2>1 DEF Speaker!NextToken, Rec
  <1>9. ASSUME NEW t \in Thread, Speaker!Poll(t) PROVE HitInv' /\ Speaker!HitIsQuiet
    <2>1. Rec(soundWriter[t]) /\ Speaker!Writing(t) /\ UNCHANGED <<soundOwner, opened, hit, soundOut>>
      BY <1>9 DEF HitInv, Speaker!Poll, Speaker!Writing
    <2>2. QED
      BY <1>01, <1>9, <2>1 DEF Speaker!Poll, Rec
  <1>10. ASSUME NEW t \in Thread, Speaker!Sleep(t) PROVE HitInv' /\ Speaker!HitIsQuiet
    <2>1. Rec(soundWriter[t]) /\ Speaker!Writing(t) /\ UNCHANGED <<soundOwner, opened, hit, soundOut>>
      BY <1>10 DEF HitInv, Speaker!Sleep, Speaker!Writing
    <2>2. QED
      BY <1>01, <1>10, <2>1 DEF Speaker!Sleep, Rec
  <1>11. ASSUME NEW t \in Thread, Speaker!GapOver(t) PROVE HitInv' /\ Speaker!HitIsQuiet
    <2>1. Rec(soundWriter[t]) /\ Speaker!Writing(t) /\ UNCHANGED <<soundOwner, opened, hit, soundOut>>
      BY <1>11 DEF HitInv, Speaker!GapOver, Speaker!Writing
    <2>2. QED
      BY <1>01, <1>11, <2>1 DEF Speaker!GapOver, Rec
  <1>12. ASSUME NEW t \in Thread, Speaker!Play(t) PROVE HitInv' /\ Speaker!HitIsQuiet
    <2>1. Rec(soundWriter[t]) /\ Speaker!Writing(t) /\ UNCHANGED <<soundOwner, opened, hit>>
      BY <1>12 DEF HitInv, Speaker!Play, Speaker!Writing
    <2>2. CASE soundOwner = soundWriter[t].file /\ Speaker!Step(t, [soundWriter[t] EXCEPT !.pc = "sleep"])
      <3>1. hit[t] = "no"
        BY <2>1, <2>2 DEF HitInv
      <3>2. PICK r : Speaker!Step(t, r) /\ Rec(r) /\ r.file = soundWriter[t].file
        BY <2>1, <2>2 DEF Rec
      <3>3. QED
        BY <2>1, <3>1, <3>2, HitOfCaller
    <2>3. CASE Speaker!Step(t, [Speaker!Idle EXCEPT !.ret = "EINTR"]) /\ UNCHANGED soundOut
      <3>1. PICK r : Speaker!Step(t, r) /\ Rec(r) /\ r.pc = "idle"
        BY <2>3 DEF Rec, Speaker!Idle
      <3>2. QED
        BY <2>1, <2>3, <3>1, HitOfCaller
    <2>4. QED
      BY <1>12, <2>2, <2>3 DEF Speaker!Play
  <1>13. ASSUME NEW t \in Thread, Speaker!Gap(t) PROVE HitInv' /\ Speaker!HitIsQuiet
    <2>1. Rec(soundWriter[t]) /\ Speaker!Writing(t) /\ UNCHANGED <<soundOwner, opened, hit>>
      BY <1>13 DEF HitInv, Speaker!Gap, Speaker!Writing
    <2>2. hit[t] # "no" => soundOut' = soundOut
      BY <1>13, <2>1 DEF Speaker!Gap, HitInv
    <2>3. QED
      BY <1>02, <1>13, <2>1, <2>2 DEF Speaker!Gap, Rec
  <1>14. ASSUME NEW t \in Thread, Speaker!Out(t) PROVE HitInv' /\ Speaker!HitIsQuiet
    <2>1. Rec(soundWriter[t]) /\ Speaker!Writing(t) /\ UNCHANGED <<opened, hit>>
      BY <1>14 DEF HitInv, Speaker!Out, Speaker!Writing
    <2>2. (hit[t] # "no" => soundOut' = soundOut) /\ (soundOwner' = soundOwner \/ soundOwner' = NoFile)
      BY <1>14, <2>1 DEF Speaker!Out, HitInv, Speaker!Release
    <2>3. PICK r : Speaker!Step(t, r) /\ Rec(r) /\ r.pc = "idle"
      BY <1>14 DEF Speaker!Out, Rec, Speaker!Idle
    <2>4. QED
      BY <2>1, <2>2, <2>3, HitOfCaller
  <1>15. CASE UNCHANGED Speaker!vars
    BY <1>1, <1>15 DEF Speaker!vars
  <1>16. QED
    BY <1>2, <1>3, <1>4, <1>5, <1>6, <1>7, <1>8, <1>9, <1>10, <1>11, <1>12, <1>13, <1>14, <1>15 DEF Speaker!Next

(* A tune that was stopped or pre-empted changes nothing any more in what  *)
(* the loudspeaker plays, whoever plays next.                              *)
THEOREM HitTunesAreQuiet ==
  ASSUME Speaker!SoundAssumption, OwnFiles, ToneFile \cap PcmFile = {}
  PROVE  Speaker!Spec => [][Speaker!HitIsQuiet]_(Speaker!vars)
PROOF
  <1>1. Speaker!Init => HitInv
    BY HitStarts
  <1>2. HitInv /\ [Speaker!Next]_(Speaker!vars) => HitInv' /\ [Speaker!HitIsQuiet]_(Speaker!vars)
    BY HitStep
  <1>3. QED
    BY <1>1, <1>2, PTL DEF Speaker!Spec

(* What a quotient by a constant is.                                       *)
LEMMA Quotient ==
  ASSUME NEW a \in Int, NEW d \in Nat \ {0}
  PROVE  /\ a \div d \in Int /\ d * (a \div d) <= a /\ a < d * (a \div d) + d
         /\ (a >= 0 => a \div d >= 0)
  OBVIOUS

(* A product grows with its factors.                                       *)
LEMMA Grows ==
  ASSUME NEW a \in Nat, NEW b \in Nat, NEW c \in Nat, a <= b
  PROVE  a * c <= b * c /\ c * a <= c * b /\ a * c \in Nat
  OBVIOUS

(* Whatever holds between the first C and the last B of the table holds of *)
(* its entries.                                                            *)
LEMMA Entries ==
  ASSUME NEW S, \A x \in Int : 32 * 1000 <= x /\ x <= 4000 * 1000 => x \in S
  PROVE  \A i \in DOMAIN Speaker!midi_mhz : Speaker!midi_mhz[i] \in S
  BY SMTT(30) DEF Speaker!midi_mhz

(* The frequency of a note lies between the first C and the last B.        *)
LEMMA Frequencies ==
  ASSUME NEW m \in 24 .. 107
  PROVE  Speaker!Mhz(m) \in Int /\ 32 * 1000 <= Speaker!Mhz(m) /\ Speaker!Mhz(m) <= 4000 * 1000
PROOF
  <1> DEFINE S == {x \in Int : 32 * 1000 <= x /\ x <= 4000 * 1000}
  <1>1. \A x \in Int : 32 * 1000 <= x /\ x <= 4000 * 1000 => x \in S
    OBVIOUS
  <1> HIDE DEF S
  <1>2. \A i \in DOMAIN Speaker!midi_mhz : Speaker!midi_mhz[i] \in S
    BY <1>1, Entries, SMTT(30)
  <1>3. \A i \in 1 .. 84 : i \in DOMAIN Speaker!midi_mhz
    BY SMTT(30) DEF Speaker!midi_mhz
  <1>4. m - 23 \in 1 .. 84
    OBVIOUS
  <1>5. Speaker!midi_mhz[m - 23] \in S
    BY <1>2, <1>3, <1>4
  <1>6. QED
    BY <1>5 DEF Speaker!Mhz, S

(* The period of a note is of an even length that fits its buffer, its     *)
(* rate is within the converter's limits, and the pitch is off by less     *)
(* than a sample per second.                                               *)
Playable(m) ==
    /\ Speaker!Samples(m) \in 2 .. 256 /\ Speaker!Samples(m) % 2 = 0
    /\ Speaker!Rate(m, Speaker!Samples(m)) \in Nat /\ 1000 <= Speaker!Rate(m, Speaker!Samples(m)) /\ Speaker!Rate(m, Speaker!Samples(m)) <= 100 * 1000
    /\ -500 <= Speaker!Rate(m, Speaker!Samples(m)) * 1000 - Speaker!Mhz(m) * Speaker!Samples(m)
    /\ Speaker!Rate(m, Speaker!Samples(m)) * 1000 - Speaker!Mhz(m) * Speaker!Samples(m) <= 500
    /\ Speaker!Mhz(m) \in Nat

(* Every note of the table is.                                             *)
LEMMA NoteInTune == ASSUME NEW m \in 24 .. 107 PROVE Playable(m)
PROOF
  <1> DEFINE f == Speaker!Mhz(m)
  <1> DEFINE q == (f + 500) \div 1000
  <1> DEFINE x == 50000 \div q
  <1> DEFINE c == Speaker!Clamp(x, 4, 256)
  <1> DEFINE h == c \div 2
  <1> DEFINE n == h * 2
  <1> DEFINE r == (f * n + 500) \div 1000
  <1>1. f \in Nat /\ 32 * 1000 <= f /\ f <= 4000 * 1000
    BY Frequencies
  <1>2. Speaker!Samples(m) = n /\ Speaker!Rate(m, n) = Speaker!Clamp(r, 1000, 100000)
    BY DEF Speaker!Samples, Speaker!Rate
  <1>3. q \in Nat /\ 1000 * q <= f + 500 /\ f + 500 < 1000 * q + 1000
    <2> HIDE DEF f
    <2>1. f + 500 \in Int
      BY <1>1
    <2>2. QED
      BY <1>1, <2>1, Quotient
  <1>4. 32 <= q /\ q <= 4000
    <2> HIDE DEF f, q
    <2>1. QED
      BY <1>1, <1>3
  <1>5. x \in Nat /\ q * x <= 50000 /\ 50000 < q * x + q
    <2> HIDE DEF f, q
    <2>1. q \in Nat \ {0} /\ 50000 \in Int
      BY <1>3, <1>4
    <2> QED
      BY <2>1, Quotient
  <1>6. 12 <= x
    <2> HIDE DEF f, q, x
    <2>1. ASSUME x <= 11 PROVE FALSE
      <3>1. q * x <= q * 11
        BY <1>3, <1>5, <2>1, Grows
      <3>2. QED
        BY <1>3, <1>4, <1>5, <3>1
    <2>2. QED
      BY <1>5, <2>1
  <1>7. c \in Nat /\ 12 <= c /\ c <= 256 /\ c <= x /\ (c < 256 => c = x)
    <2> HIDE DEF f, q, x
    <2>1. QED
      BY <1>5, <1>6 DEF Speaker!Clamp
  <1>8. h \in Nat /\ n \in Nat /\ n <= c /\ c <= n + 1
    <2> HIDE DEF f, q, x, c
    <2>1. QED
      BY <1>7
  <1>9. n \in 2 .. 256 /\ n % 2 = 0
    <2> HIDE DEF f, q, x, c, h
    <2>1. QED
      BY <1>7, <1>8
  <1>10. q * n \in Nat /\ q * n <= 50000 /\ (c < 256 => 41000 <= q * n)
    <2> HIDE DEF f, q, x, c, h, n
    <2>1. n <= x /\ (c < 256 => x <= n + 1)
      BY <1>5, <1>7, <1>8
    <2>2. q * n \in Nat /\ q * n <= q * x /\ (c < 256 => q * x <= q * (n + 1))
      BY <1>3, <1>5, <1>8, <2>1, Grows
    <2>3. q * (n + 1) = q * n + q
      BY <1>3, <1>8
    <2>4. q * x \in Nat
      BY <1>3, <1>5
    <2>5. QED
      BY <1>3, <1>4, <1>5, <2>2, <2>3, <2>4
  <1>11. f * n \in Nat /\ f * n <= 1000 * (q * n) + 500 * n /\ 1000 * (q * n) <= f * n + 500 * n
    <2> HIDE DEF f, q, x, c, h, n
    <2>1. f <= 1000 * q + 500 /\ 1000 * q <= f + 500
      BY <1>1, <1>3
    <2>2. f * n \in Nat /\ f * n <= (1000 * q + 500) * n /\ (1000 * q) * n <= (f + 500) * n
      <3>1. 1000 * q + 500 \in Nat /\ 1000 * q \in Nat /\ f + 500 \in Nat
        BY <1>1, <1>3
      <3>2. QED
        BY <1>1, <1>8, <2>1, <3>1, Grows
    <2>3. /\ (1000 * q + 500) * n = 1000 * (q * n) + 500 * n /\ (1000 * q) * n = 1000 * (q * n)
          /\ (f + 500) * n = f * n + 500 * n
      BY <1>1, <1>3, <1>8
    <2>4. QED
      BY <2>2, <2>3
  <1>12. 1000 * 1000 <= f * n /\ f * n <= 60000 * 1000
    <2> HIDE DEF f, q, x, c, h, n
    <2>1. CASE c < 256
      BY <1>7, <1>8, <1>9, <1>10, <1>11, <2>1
    <2>2. CASE c = 256
      <3>1. 255 <= n
        BY <1>8, <2>2
      <3>2. f * 255 <= f * n
        BY <1>1, <1>8, <3>1, Grows
      <3>3. QED
        BY <1>1, <1>8, <1>9, <1>10, <1>11, <3>2
    <2>3. QED
      BY <1>7, <2>1, <2>2
  <1>13. r \in Nat /\ 1000 * r <= f * n + 500 /\ f * n + 500 < 1000 * r + 1000
    <2> HIDE DEF f, q, x, c, h, n
    <2> DEFINE p == f * n + 500
    <2>1. p \in Int /\ p >= 0
      BY <1>11
    <2> HIDE DEF p
    <2>2. p \div 1000 \in Nat /\ 1000 * (p \div 1000) <= p /\ p < 1000 * (p \div 1000) + 1000
      BY <2>1
    <2>3. QED
      BY <2>2 DEF p, r
  <1>14. Speaker!Clamp(r, 1000, 100000) = r /\ r \in Nat /\ 1000 <= r /\ r <= 100 * 1000
    <2> HIDE DEF f, q, x, c, h, n, r
    <2> DEFINE p == f * n
    <2>1. p \in Nat /\ 1000 * 1000 <= p /\ p <= 60000 * 1000 /\ 1000 * r <= p + 500 /\ p + 500 < 1000 * r + 1000
      BY <1>11, <1>12, <1>13
    <2> HIDE DEF p
    <2>2. QED
      BY <1>13, <2>1 DEF Speaker!Clamp
  <1>15. r * 1000 - f * n \in -500 .. 500
    <2> HIDE DEF f, q, x, c, h, n, r
    <2> DEFINE p == f * n
    <2>1. p \in Nat /\ 1000 * r <= p + 500 /\ p + 500 < 1000 * r + 1000
      BY <1>11, <1>13
    <2> HIDE DEF p
    <2>2. r * 1000 - p \in -500 .. 500
      BY <1>13, <2>1
    <2>3. QED
      BY <2>2 DEF p
  <1>16. Speaker!Mhz(m) = f
    OBVIOUS
  <1> HIDE DEF f, q, x, c, h, n, r
  <1>17. Speaker!Rate(m, n) = r
    BY <1>2, <1>14
  <1>18. Speaker!Samples(m) \in 2 .. 256 /\ Speaker!Samples(m) % 2 = 0
    BY <1>2, <1>9
  <1>19. Speaker!Rate(m, Speaker!Samples(m)) = r
    BY <1>2, <1>17
  <1>20. Speaker!Rate(m, Speaker!Samples(m)) * 1000 - Speaker!Mhz(m) * Speaker!Samples(m) = r * 1000 - f * n
    BY <1>2, <1>16, <1>19
  <1>21. Speaker!Rate(m, Speaker!Samples(m)) \in Nat /\ 1000 <= Speaker!Rate(m, Speaker!Samples(m)) /\ Speaker!Rate(m, Speaker!Samples(m)) <= 100 * 1000
    BY <1>14, <1>19
  <1>22. /\ -500 <= Speaker!Rate(m, Speaker!Samples(m)) * 1000 - Speaker!Mhz(m) * Speaker!Samples(m)
         /\ Speaker!Rate(m, Speaker!Samples(m)) * 1000 - Speaker!Mhz(m) * Speaker!Samples(m) <= 500
    BY <1>15, <1>20
  <1>23. Speaker!Mhz(m) \in Nat
    BY <1>1, <1>16
  <1>24. QED
    BY <1>18, <1>21, <1>22, <1>23 DEF Playable

(* The curve of the volume is increasing.                                  *)
LEMMA Curve ==
  ASSUME NEW i \in 1 .. 10
  PROVE  /\ Speaker!volume_curve[i] \in Nat /\ Speaker!volume_curve[i + 1] \in Nat
         /\ Speaker!volume_curve[i] <= Speaker!volume_curve[i + 1] /\ Speaker!volume_curve[i + 1] <= 32767
PROOF
  <1>1. i = 1 \/ i = 2 \/ i = 3 \/ i = 4 \/ i = 5 \/ i = 6 \/ i = 7 \/ i = 8 \/ i = 9 \/ i = 10
    OBVIOUS
  <1>2. /\ Speaker!volume_curve[1] = 0 /\ Speaker!volume_curve[2] = 943 /\ Speaker!volume_curve[3] = 2130 /\ Speaker!volume_curve[4] = 3624
        /\ Speaker!volume_curve[5] = 5505 /\ Speaker!volume_curve[6] = 7873 /\ Speaker!volume_curve[7] = 10851 /\ Speaker!volume_curve[8] = 14607
        /\ Speaker!volume_curve[9] = 19331 /\ Speaker!volume_curve[10] = 25280 /\ Speaker!volume_curve[11] = 32767
    BY DEF Speaker!volume_curve
  <1>3. QED
    BY <1>1, <1>2

(* The amplitude is between those of the two ends.                         *)
LEMMA AmplitudeFits ==
  ASSUME NEW v \in 0 .. 100
  PROVE  Speaker!Amplitude(v) \in Nat /\ Speaker!Amplitude(v) <= 32767
PROOF
  <1> DEFINE i == v \div 10
  <1> DEFINE d == v % 10
  <1>1. i \in 0 .. 10 /\ d \in 0 .. 9
    OBVIOUS
  <1> DEFINE lo == Speaker!volume_curve[i + 1]
  <1> DEFINE hi == IF i < 10 THEN Speaker!volume_curve[i + 2] ELSE Speaker!volume_curve[11]
  <1>2. Speaker!Amplitude(v) = lo + ((hi - lo) * d) \div 10
    BY DEF Speaker!Amplitude
  <1>3. lo \in Nat /\ hi \in Nat /\ lo <= hi /\ hi <= 32767
    <2> HIDE DEF i, d
    <2>1. CASE i < 10
      <3>1. i + 1 \in 1 .. 10 /\ (i + 1) + 1 = i + 2
        BY <1>1, <2>1
      <3>2. QED
        BY <2>1, <3>1, Curve
    <2>2. CASE i = 10
      <3>1. Speaker!volume_curve[11] = 32767
        BY DEF Speaker!volume_curve
      <3>2. i + 1 = 11 /\ ~(i < 10)
        BY <2>2
      <3>3. lo = 32767 /\ hi = 32767
        BY <3>1, <3>2
      <3>4. QED
        BY <3>3
    <2>3. QED
      BY <1>1, <2>1, <2>2
  <1> HIDE DEF i, d, lo, hi
  <1>4. (hi - lo) \in Nat
    BY <1>3
  <1> DEFINE p == (hi - lo) * d
  <1>5. p \in Nat /\ p <= (hi - lo) * 10
    BY <1>1, <1>4, Grows
  <1> HIDE DEF p
  <1> DEFINE g == p \div 10
  <1>6. Speaker!Amplitude(v) = lo + g
    BY <1>2 DEF p
  <1>7. g \in Nat /\ g <= hi - lo
    BY <1>4, <1>5
  <1> HIDE DEF g
  <1>8. lo + g \in Nat /\ lo + g <= 32767
    BY <1>3, <1>7
  <1>9. QED
    BY <1>6, <1>8

(* What the converter repeats: nothing, a period written to a PCM file, or *)
(* a note of a tune.                                                       *)
Written(f) == [Speaker!Silence EXCEPT !.by = f, !.len = 4, !.rate = 1000]
Note(f, m, v) == [by |-> f, len |-> Speaker!Samples(m), rate |-> Speaker!Rate(m, Speaker!Samples(m)), att |-> Speaker!Amplitude(v), midi |-> m]
Sounds == \/ soundOut = Speaker!Silence
          \/ \E f \in Speaker!File : soundOut = Written(f)
          \/ \E f \in Speaker!File, m \in Notes, v \in 0 .. 100 : soundOut = Note(f, m, v)

(* The fields of the device.                                               *)
DeviceInv ==
  /\ opened \subseteq Speaker!File /\ soundOwner \in Speaker!File \cup {NoFile} /\ mode \in {"IDLE", "TONE", "PCM"}
  /\ volume \in 0 .. 100 /\ stop_flag \in BOOLEAN /\ hit \in [Thread -> {"no", "hit", "due"}]
  /\ Sounds

Places == {"idle", "next", "poll", "note", "sleep", "gap", "out"}

(* The fields of the callers.                                              *)
CallersInv == /\ soundWriter = [t \in Thread |-> soundWriter[t]]
              /\ \A t \in Thread : /\ {"pc", "file", "toks", "tok", "left", "ret"} \subseteq DOMAIN soundWriter[t]
                                   /\ soundWriter[t].pc \in Places
                                   /\ Speaker!Writing(t) => soundWriter[t].file \in opened

(* Nothing sounds at first.                                                *)
LEMMA DeviceStarts == ASSUME Speaker!Init PROVE DeviceInv /\ CallersInv
PROOF
  <1>1. DeviceInv
    <2>1. hit \in [Thread -> {"no", "hit", "due"}]
      BY DEF Speaker!Init
    <2>2. volume \in 0 .. 100 /\ mode \in {"IDLE", "TONE", "PCM"}
      BY DEF Speaker!Init
    <2>02. stop_flag \in BOOLEAN
      BY DEF Speaker!Init
    <2>3. opened \subseteq Speaker!File /\ soundOwner \in Speaker!File \cup {NoFile} /\ Sounds
      BY DEF Speaker!Init, Sounds
    <2>4. QED
      BY <2>1, <2>2, <2>02, <2>3 DEF DeviceInv
  <1>2. soundWriter = [t \in Thread |-> Speaker!Idle]
    BY DEF Speaker!Init
  <1>3. {"pc", "file", "toks", "tok", "left", "ret"} \subseteq DOMAIN Speaker!Idle /\ Speaker!Idle.pc = "idle"
    BY DEF Speaker!Idle
  <1>4. CallersInv
    BY <1>2, <1>3 DEF CallersInv, Places, Speaker!Writing
  <1>5. QED
    BY <1>1, <1>4

(* The volume is limited to 100.                                           *)
LEMMA VolumeFits ==
  ASSUME NEW a \in Nat
  PROVE  (IF a % 256 > 100 THEN 100 ELSE a % 256) \in 0 .. 100
  OBVIOUS

(* A step of a caller leaves the others where they are.                    *)
LEMMA CallerSteps ==
  ASSUME CallersInv, NEW t \in Thread, NEW r, Speaker!Step(t, r),
         {"pc", "file", "toks", "tok", "left", "ret"} \subseteq DOMAIN r,
         r.pc \in Places, r.pc # "idle" => r.file \in opened, UNCHANGED opened
  PROVE  CallersInv'
PROOF
  <1>1. soundWriter' = [soundWriter EXCEPT ![t] = r]
    BY DEF Speaker!Step
  <1>2. \A u \in Thread : soundWriter'[u] = IF u = t THEN r ELSE soundWriter[u]
    BY <1>1 DEF CallersInv
  <1>3. soundWriter' = [u \in Thread |-> soundWriter'[u]]
    BY <1>1 DEF CallersInv
  <1>4. QED
    BY <1>2, <1>3 DEF CallersInv, Speaker!Writing

(* Every step keeps the fields of the callers.                             *)
LEMMA CallersKept == ASSUME Speaker!SoundAssumption, CallersInv, [Speaker!Next]_(Speaker!vars) PROVE CallersInv'
PROOF
  <1>1. ASSUME UNCHANGED soundWriter, \A t \in Thread : soundWriter[t].file \in opened => soundWriter[t].file \in opened'
        PROVE  CallersInv'
    BY <1>1 DEF CallersInv, Speaker!Writing
  <1>2. ASSUME NEW f \in Speaker!File,
               \/ Speaker!Open(f) \/ Speaker!Close(f) \/ Speaker!Stop(f)
               \/ \E v \in Levels : Speaker!SetVolume(f, v)
               \/ \E t \in Thread : Speaker!PcmWrite(t, f)
        PROVE  CallersInv'
    BY <1>1, <1>2 DEF Speaker!Open, Speaker!Close, Speaker!Stop, Speaker!SetVolume, Speaker!PcmWrite
  <1>3. ASSUME NEW t \in Thread, NEW f \in Speaker!File, Speaker!ToneClaim(t, f) PROVE CallersInv'
    <2> DEFINE r == [Speaker!Idle EXCEPT !.pc = "next", !.file = f, !.toks = MaxTokens]
    <2>1. {"pc", "file", "toks", "tok", "left", "ret"} \subseteq DOMAIN r /\ r.pc = "next" /\ r.file = f
      BY DEF Speaker!Idle
    <2>2. Speaker!Step(t, r) /\ f \in opened /\ UNCHANGED opened
      BY <1>3 DEF Speaker!ToneClaim
    <2> HIDE DEF r
    <2>3. QED
      BY <2>1, <2>2, CallerSteps DEF Places
  <1>4. ASSUME NEW t \in Thread, NEW r, Speaker!Step(t, r), {"pc", "file", "toks", "tok", "left", "ret"} \subseteq DOMAIN r,
               soundWriter[t].pc # "idle", r.file = soundWriter[t].file \/ r.pc = "idle", r.pc \in Places, UNCHANGED opened
        PROVE  CallersInv'
    BY <1>4, CallerSteps DEF CallersInv, Speaker!Writing
  <1>5. ASSUME NEW t \in Thread
        PROVE  {"pc", "file", "toks", "tok", "left", "ret"} \subseteq DOMAIN soundWriter[t] /\ soundWriter[t].pc \in Places
    BY DEF CallersInv
  <1>6. ASSUME NEW t \in Thread, Speaker!NextToken(t) PROVE CallersInv'
    BY <1>4, <1>5, <1>6 DEF Speaker!NextToken, Places
  <1>7. ASSUME NEW t \in Thread, Speaker!Poll(t) PROVE CallersInv'
    BY <1>4, <1>5, <1>7 DEF Speaker!Poll, Places
  <1>8. ASSUME NEW t \in Thread, Speaker!Play(t) PROVE CallersInv'
    BY <1>4, <1>5, <1>8 DEF Speaker!Play, Places, Speaker!Idle
  <1>9. ASSUME NEW t \in Thread, Speaker!Sleep(t) PROVE CallersInv'
    BY <1>4, <1>5, <1>9 DEF Speaker!Sleep, Places
  <1>10. ASSUME NEW t \in Thread, Speaker!Gap(t) PROVE CallersInv'
    BY <1>4, <1>5, <1>10 DEF Speaker!Gap, Places
  <1>11. ASSUME NEW t \in Thread, Speaker!GapOver(t) PROVE CallersInv'
    BY <1>4, <1>5, <1>11 DEF Speaker!GapOver, Places
  <1>12. ASSUME NEW t \in Thread, Speaker!Out(t) PROVE CallersInv'
    BY <1>4, <1>5, <1>12 DEF Speaker!Out, Places, Speaker!Idle
  <1>13. CASE UNCHANGED Speaker!vars
    BY <1>1, <1>13 DEF Speaker!vars
  <1>14. QED
    BY <1>2, <1>3, <1>6, <1>7, <1>8, <1>9, <1>10, <1>11, <1>12, <1>13 DEF Speaker!Next

(* Every step keeps the fields of the device.                              *)
LEMMA DeviceKept ==
  ASSUME Speaker!SoundAssumption, CallersInv, DeviceInv, [Speaker!Next]_(Speaker!vars)
  PROVE  DeviceInv'
PROOF
  <1>0. /\ opened \subseteq Speaker!File /\ soundOwner \in Speaker!File \cup {NoFile} /\ mode \in {"IDLE", "TONE", "PCM"}
        /\ volume \in 0 .. 100 /\ stop_flag \in BOOLEAN /\ hit \in [Thread -> {"no", "hit", "due"}]
        /\ Sounds
    BY DEF DeviceInv
  <1>1. UNCHANGED soundOut \/ soundOut' = Speaker!Silence => Sounds'
    BY <1>0 DEF Sounds
  <1>2. Speaker!Ask => stop_flag' \in BOOLEAN /\ hit' \in [Thread -> {"no", "hit", "due"}]
    <2> SUFFICES ASSUME Speaker!Ask PROVE stop_flag' \in BOOLEAN /\ hit' \in [Thread -> {"no", "hit", "due"}]
      OBVIOUS
    <2>1. \A t \in Thread : (IF ~Speaker!Writing(t) THEN "no"
                  ELSE IF hit[t] = "due" \/ (soundWriter[t].left > 0 /\ soundWriter[t].pc \in {"poll", "sleep", "gap"}) THEN "due"
                  ELSE "hit") \in {"no", "hit", "due"}
      OBVIOUS
    <2>2. QED
      BY <2>1 DEF Speaker!Ask
  <1>3. ASSUME UNCHANGED <<opened, volume, stop_flag, hit>>, Sounds',
               (soundOwner' = soundOwner /\ mode' = mode) \/ (soundOwner' = NoFile /\ mode' = "IDLE")
        PROVE  DeviceInv'
    BY <1>0, <1>3 DEF DeviceInv
  <1>4. ASSUME NEW f \in Speaker!File, Speaker!Open(f) PROVE DeviceInv'
    BY <1>0, <1>1, <1>4 DEF Speaker!Open, DeviceInv
  <1>5. ASSUME NEW f \in Speaker!File, Speaker!Close(f) PROVE DeviceInv'
    <2>1. opened' = opened \ {f} /\ UNCHANGED volume
      BY <1>5 DEF Speaker!Close
    <2>2. CASE Speaker!Release /\ Speaker!Ask
      BY <1>0, <1>1, <1>2, <2>1, <2>2 DEF Speaker!Release, DeviceInv
    <2>3. CASE soundOut' = Speaker!Silence /\ mode' = "IDLE" /\ UNCHANGED <<soundOwner, stop_flag, hit>>
      BY <1>0, <1>1, <2>1, <2>3 DEF DeviceInv
    <2>4. CASE UNCHANGED <<soundOwner, mode, stop_flag, soundOut, hit>>
      BY <1>0, <1>1, <2>1, <2>4 DEF DeviceInv
    <2>5. QED
      BY <1>5, <2>2, <2>3, <2>4 DEF Speaker!Close
  <1>6. ASSUME NEW f \in Speaker!File, Speaker!Stop(f) PROVE DeviceInv'
    BY <1>0, <1>1, <1>2, <1>6 DEF Speaker!Stop, Speaker!Release, DeviceInv
  <1>7. ASSUME NEW f \in Speaker!File, NEW v \in Levels, Speaker!SetVolume(f, v) PROVE DeviceInv'
    <2>1. volume' \in 0 .. 100
      BY <1>7, VolumeFits DEF Speaker!SetVolume, Speaker!SoundAssumption
    <2>2. QED
      BY <1>0, <1>1, <1>7, <2>1 DEF Speaker!SetVolume, DeviceInv
  <1>8. ASSUME NEW t \in Thread, NEW f \in Speaker!File, Speaker!PcmWrite(t, f) PROVE DeviceInv'
    <2>1. UNCHANGED <<opened, volume>>
      BY <1>8 DEF Speaker!PcmWrite
    <2>2. CASE soundOut' = [Speaker!Silence EXCEPT !.by = f, !.len = 4, !.rate = 1000] /\ soundOwner' = f /\ mode' = "PCM" /\ Speaker!Ask
      <3>1. soundOut' = Written(f)
        BY <2>2 DEF Written
      <3>2. Sounds'
        BY <3>1 DEF Sounds
      <3>3. QED
        BY <1>0, <1>2, <2>1, <2>2, <3>2 DEF DeviceInv
    <2>3. CASE stop_flag' = TRUE /\ soundOut' = Speaker!Silence /\ UNCHANGED <<soundOwner, mode, hit>>
      BY <1>0, <1>1, <2>1, <2>3 DEF DeviceInv
    <2>4. QED
      BY <1>8, <2>2, <2>3 DEF Speaker!PcmWrite
  <1>9. ASSUME NEW t \in Thread, NEW f \in Speaker!File, Speaker!ToneClaim(t, f) PROVE DeviceInv'
    BY <1>0, <1>1, <1>9 DEF Speaker!ToneClaim, DeviceInv
  <1>10. ASSUME NEW t \in Thread, Speaker!NextToken(t) \/ Speaker!Poll(t) \/ Speaker!Sleep(t) \/ Speaker!GapOver(t) PROVE DeviceInv'
    BY <1>1, <1>3, <1>10 DEF Speaker!NextToken, Speaker!Poll, Speaker!Sleep, Speaker!GapOver
  <1>11. ASSUME NEW t \in Thread, Speaker!Play(t) PROVE DeviceInv'
    <2>1. UNCHANGED <<opened, soundOwner, mode, volume, stop_flag, hit>> /\ soundWriter[t].pc = "note"
      BY <1>11 DEF Speaker!Play
    <2>2. soundWriter[t].file \in Speaker!File
      BY <1>0, <2>1 DEF CallersInv, Speaker!Writing
    <2>3. ASSUME NEW m \in Notes, soundOut' = Speaker!Square(soundWriter[t].file, m) PROVE Sounds'
      <3>1. soundOut' = Note(soundWriter[t].file, m, volume)
        BY <2>3 DEF Speaker!Square, Note
      <3>2. QED
        BY <1>0, <2>2, <3>1 DEF Sounds
    <2>4. Sounds'
      BY <1>1, <1>11, <2>3 DEF Speaker!Play, Speaker!StartNote
    <2>5. QED
      BY <1>3, <2>1, <2>4
  <1>12. ASSUME NEW t \in Thread, Speaker!Gap(t) PROVE DeviceInv'
    BY <1>1, <1>3, <1>12 DEF Speaker!Gap
  <1>13. ASSUME NEW t \in Thread, Speaker!Out(t) PROVE DeviceInv'
    BY <1>1, <1>3, <1>13 DEF Speaker!Out, Speaker!Release
  <1>14. CASE UNCHANGED Speaker!vars
    BY <1>1, <1>3, <1>14 DEF Speaker!vars
  <1>15. QED
    BY <1>4, <1>5, <1>6, <1>7, <1>8, <1>9, <1>10, <1>11, <1>12, <1>13, <1>14 DEF Speaker!Next

(* What sounds is a silence, or somebody's, and in tune.                   *)
LEMMA SoundsMean ==
  ASSUME Speaker!SoundAssumption, DeviceInv
  PROVE  /\ soundOut.by \in Speaker!File \cup {NoFile} /\ soundOut.att \in Nat /\ soundOut.att <= 32767 /\ (soundOut.by = NoFile => soundOut = Speaker!Silence)
         /\ Speaker!InTune
PROOF
  <1>1. Sounds /\ NoFile \notin Speaker!File /\ Notes \subseteq 24 .. 107
    BY DEF DeviceInv, Speaker!SoundAssumption, Speaker!File
  <1>2. CASE soundOut = Speaker!Silence
    BY <1>2 DEF Speaker!Silence, Speaker!InTune
  <1>3. ASSUME NEW f \in Speaker!File, soundOut = Written(f)
        PROVE  /\ soundOut.by \in Speaker!File \cup {NoFile} /\ soundOut.att \in Nat /\ soundOut.att <= 32767 /\ (soundOut.by = NoFile => soundOut = Speaker!Silence)
               /\ Speaker!InTune
    BY <1>1, <1>3 DEF Written, Speaker!Silence, Speaker!InTune
  <1>4. ASSUME NEW f \in Speaker!File, NEW m \in Notes, NEW v \in 0 .. 100, soundOut = Note(f, m, v)
        PROVE  /\ soundOut.by \in Speaker!File \cup {NoFile} /\ soundOut.att \in Nat /\ soundOut.att <= 32767 /\ (soundOut.by = NoFile => soundOut = Speaker!Silence)
               /\ Speaker!InTune
    <2>1. /\ soundOut.by = f /\ soundOut.len = Speaker!Samples(m) /\ soundOut.rate = Speaker!Rate(m, Speaker!Samples(m)) /\ soundOut.att = Speaker!Amplitude(v)
          /\ soundOut.midi = m
      BY <1>4 DEF Note
    <2>2. m \in 24 .. 107
      BY <1>1
    <2>12. Playable(m)
      BY <2>2, NoteInTune, Zenon
    <2>02. /\ Speaker!Samples(m) \in 2 .. 256 /\ Speaker!Samples(m) % 2 = 0
           /\ Speaker!Rate(m, Speaker!Samples(m)) \in Nat /\ 1000 <= Speaker!Rate(m, Speaker!Samples(m)) /\ Speaker!Rate(m, Speaker!Samples(m)) <= 100 * 1000
           /\ -500 <= Speaker!Rate(m, Speaker!Samples(m)) * 1000 - Speaker!Mhz(m) * Speaker!Samples(m)
           /\ Speaker!Rate(m, Speaker!Samples(m)) * 1000 - Speaker!Mhz(m) * Speaker!Samples(m) <= 500
           /\ Speaker!Mhz(m) \in Nat
      BY <2>12 DEF Playable
    <2>3. soundOut.len \in 2 .. 256 /\ soundOut.len % 2 = 0
      BY <2>1, <2>02
    <2>4. soundOut.rate \in Nat /\ 1000 <= soundOut.rate /\ soundOut.rate <= 100 * 1000
      BY <2>1, <2>02
    <2>5. soundOut.rate * 1000 - Speaker!Mhz(soundOut.midi) * soundOut.len = Speaker!Rate(m, Speaker!Samples(m)) * 1000 - Speaker!Mhz(m) * Speaker!Samples(m)
      BY <2>1
    <2>6. 1000 <= soundOut.rate /\ soundOut.rate <= 100000
      BY <2>4
    <2>7. Speaker!InTune
      <3> DEFINE off == soundOut.rate * 1000 - Speaker!Mhz(soundOut.midi) * soundOut.len
      <3>1. -500 <= off /\ off <= 500
        BY <2>02, <2>5
      <3> HIDE DEF off
      <3>2. QED
        BY <2>3, <2>6, <3>1 DEF Speaker!InTune, off
    <2>8. soundOut.att \in Nat /\ soundOut.att <= 32767
      BY <2>1, AmplitudeFits
    <2>9. QED
      BY <1>1, <2>1, <2>7, <2>8
  <1>5. QED
    BY <1>1, <1>2, <1>3, <1>4 DEF Sounds

(* Every reachable state satisfies it.                                     *)
LEMMA DeviceHolds ==
  ASSUME Speaker!SoundAssumption
  PROVE  Speaker!Spec => [](DeviceInv /\ CallersInv /\ SpeakerInv)
PROOF
  <1>1. Speaker!Init => DeviceInv /\ CallersInv /\ SpeakerInv
    BY DeviceStarts, SpeakerStarts
  <1>2. DeviceInv /\ CallersInv /\ SpeakerInv /\ [Speaker!Next]_(Speaker!vars) => DeviceInv' /\ CallersInv' /\ SpeakerInv'
    BY DeviceKept, CallersKept, SpeakerStep
  <1>3. QED
    BY <1>1, <1>2, PTL DEF Speaker!Spec

(* Every note that sounds is of the table, fits the buffer and the         *)
(* converter, and is off by less than a sample per second.                 *)
THEOREM NotesAreInTune == ASSUME Speaker!SoundAssumption PROVE Speaker!Spec => []Speaker!InTune
PROOF
  <1>1. DeviceInv => Speaker!InTune
    BY SoundsMean
  <1>2. QED
    BY <1>1, DeviceHolds, PTL

(* What the converter plays is the owner's, or, after a claim, that of the *)
(* one before until the first note; it is silent when nobody owns it.      *)
THEOREM SoundsAreOwned == ASSUME Speaker!SoundAssumption PROVE Speaker!Spec => [](Speaker!TypeOK /\ Speaker!Unowned)
PROOF
  <1>1. DeviceInv /\ CallersInv /\ SpeakerInv => Speaker!TypeOK /\ Speaker!Unowned
    <2> SUFFICES ASSUME DeviceInv, CallersInv, SpeakerInv PROVE Speaker!TypeOK /\ Speaker!Unowned
      OBVIOUS
    <2>1. soundOut.by \in Speaker!File \cup {NoFile} /\ soundOut.att \in Nat /\ soundOut.att <= 32767 /\ (soundOut.by = NoFile => soundOut = Speaker!Silence)
      BY SoundsMean
    <2>2. Speaker!Unowned
      BY <2>1 DEF SpeakerInv, Between, Speaker!Unowned
    <2>3. \A t \in Thread : /\ soundWriter[t].pc \in {"idle", "next", "poll", "note", "sleep", "gap", "out"}
                            /\ Speaker!Writing(t) => soundWriter[t].file \in opened
      BY DEF CallersInv, Places
    <2>4. QED
      BY <2>1, <2>2, <2>3 DEF DeviceInv, Speaker!TypeOK
  <1>2. QED
    BY <1>1, DeviceHolds, PTL

(* While an operation holds the lock, and from the shut-down's timer_stop  *)
(* on, no timer runs and no callback of it is under way; a timer or a      *)
(* callback that finds a beep playing is that beep's own.                  *)
BeepPlaces ==
  /\ stopping # "no" => beepOp = Speaker!NoOp
  /\ beepOp.pc = "lock" \/ stopping \in {"lock", "done"} => beepTimer = 0 /\ cb = 0
  /\ beepFd # 0 /\ beepTimer # 0 => beepTimer = beepFd
  /\ beepFd # 0 /\ cb # 0 => cb = beepFd
  /\ cb # 0 => beepTimer = 0

BeepInv == beeps \in Nat /\ BeepPlaces /\ Speaker!ShutMeansShut /\ Speaker!SomebodyEnds /\ Speaker!OwnExpiry

(* Before the first beep nothing plays.                                    *)
LEMMA BeepStarts == ASSUME Speaker!BeepInit PROVE BeepInv
  BY DEF Speaker!BeepInit, BeepInv, BeepPlaces, Speaker!ShutMeansShut, Speaker!SomebodyEnds, Speaker!OwnExpiry, Speaker!NoOp

(* One step per operation of btsensor_sound.c and of the console.          *)
LEMMA BeepStep == ASSUME BeepInv, [Speaker!BeepNext]_(Speaker!beepVars) PROVE BeepInv'
PROOF
  <1> USE DEF BeepInv, BeepPlaces, Speaker!ShutMeansShut, Speaker!SomebodyEnds, Speaker!OwnExpiry, Speaker!NoOp
  <1>1. ASSUME NEW l \in Link, Speaker!LinkLost(l) \/ Speaker!LinkState(l) PROVE BeepInv'
    BY <1>1 DEF Speaker!LinkLost, Speaker!LinkState, Speaker!Closed
  <1>2. ASSUME NEW l \in Link, NEW k \in {"beep", "stop"}, Speaker!BeepAsk(l, k) PROVE BeepInv'
    BY <1>2 DEF Speaker!BeepAsk
  <1>3. CASE Speaker!OpStopTimer
    BY <1>3 DEF Speaker!OpStopTimer
  <1>4. CASE Speaker!OpNew
    BY <1>4 DEF Speaker!OpNew, Speaker!Closed
  <1>5. CASE Speaker!OpEnd
    BY <1>5 DEF Speaker!OpEnd, Speaker!Closed
  <1>6. CASE Speaker!Expire
    BY <1>6 DEF Speaker!Expire
  <1>7. CASE Speaker!TimerExpired
    BY <1>7 DEF Speaker!TimerExpired, Speaker!Closed
  <1>8. CASE Speaker!Shutdown \/ Speaker!ShutdownTimer
    BY <1>8 DEF Speaker!Shutdown, Speaker!ShutdownTimer
  <1>9. CASE Speaker!ShutdownClose
    BY <1>9 DEF Speaker!ShutdownClose, Speaker!Closed
  <1>10. CASE Speaker!Start
    BY <1>10 DEF Speaker!Start
  <1>11. CASE Speaker!ConBeep \/ Speaker!ConDone \/ Speaker!ConOff
    BY <1>11 DEF Speaker!ConBeep, Speaker!ConDone, Speaker!ConOff
  <1>12. CASE UNCHANGED Speaker!beepVars
    BY <1>12 DEF Speaker!beepVars
  <1>13. QED
    BY <1>1, <1>2, <1>3, <1>4, <1>5, <1>6, <1>7, <1>8, <1>9, <1>10, <1>11, <1>12
    DEF Speaker!BeepNext, Speaker!Op

(* After btsensor_sound_shutdown nothing of the service sounds or will     *)
(* run; whatever sounds has somebody who is about to end it; and the       *)
(* expiry that closes a beep is that beep's own.                           *)
THEOREM BeepsAreEnded == Speaker!BeepSpec => [](Speaker!ShutMeansShut /\ Speaker!SomebodyEnds /\ Speaker!OwnExpiry)
PROOF
  <1>1. BeepInv => Speaker!ShutMeansShut /\ Speaker!SomebodyEnds /\ Speaker!OwnExpiry
    BY DEF BeepInv
  <1>2. QED
    BY BeepStarts, BeepStep, <1>1, PTL DEF Speaker!BeepSpec

(* The fields of the service, and the beep of an operation within the      *)
(* bound.                                                                  *)
BeepTyped ==
  /\ beeps \in 0 .. MaxBeeps /\ beepFd \in 0 .. beeps /\ beepTimer \in 0 .. beeps /\ cb \in 0 .. beeps
  /\ g_owner \in Link \cup {NoLink} /\ (beepFd # 0 => g_owner \in Link)
  /\ beepOp = [pc |-> beepOp.pc, link |-> beepOp.link, kind |-> beepOp.kind]
  /\ beepOp.pc \in {"idle", "timer", "lock"}
  /\ beepOp.pc # "idle" => beepOp.link \in Link /\ (beepOp.kind = "beep" => beeps < MaxBeeps)
  /\ down \subseteq Link /\ stopping \in {"no", "timer", "lock", "done"}
  /\ dev \in {"silence", "service", "console"} /\ con \in {"idle", "beeping"}

(* Every step keeps the fields.                                            *)
LEMMA BeepTypesKept == ASSUME Speaker!BeepAssumption, BeepTyped, [Speaker!BeepNext]_(Speaker!beepVars) PROVE BeepTyped'
PROOF
  <1> USE DEF BeepTyped, Speaker!NoOp
  <1>0. MaxBeeps \in Nat /\ NoLink \notin Link
    BY DEF Speaker!BeepAssumption
  <1>1. ASSUME NEW l \in Link, Speaker!LinkLost(l) \/ Speaker!LinkState(l) PROVE BeepTyped'
    BY <1>0, <1>1 DEF Speaker!LinkLost, Speaker!LinkState, Speaker!Closed
  <1>2. ASSUME NEW l \in Link, NEW k \in {"beep", "stop"}, Speaker!BeepAsk(l, k) PROVE BeepTyped'
    BY <1>0, <1>2 DEF Speaker!BeepAsk
  <1>3. CASE Speaker!OpStopTimer
    BY <1>0, <1>3 DEF Speaker!OpStopTimer
  <1>4. CASE Speaker!OpNew
    BY <1>0, <1>4 DEF Speaker!OpNew, Speaker!Closed
  <1>5. CASE Speaker!OpEnd
    BY <1>0, <1>5 DEF Speaker!OpEnd, Speaker!Closed
  <1>6. CASE Speaker!Expire
    BY <1>0, <1>6 DEF Speaker!Expire
  <1>7. CASE Speaker!TimerExpired
    BY <1>0, <1>7 DEF Speaker!TimerExpired, Speaker!Closed
  <1>8. CASE Speaker!Shutdown \/ Speaker!ShutdownTimer
    BY <1>0, <1>8 DEF Speaker!Shutdown, Speaker!ShutdownTimer
  <1>9. CASE Speaker!ShutdownClose
    BY <1>0, <1>9 DEF Speaker!ShutdownClose, Speaker!Closed
  <1>10. CASE Speaker!Start
    BY <1>0, <1>10 DEF Speaker!Start
  <1>11. CASE Speaker!ConBeep \/ Speaker!ConDone \/ Speaker!ConOff
    BY <1>0, <1>11 DEF Speaker!ConBeep, Speaker!ConDone, Speaker!ConOff
  <1>12. CASE UNCHANGED Speaker!beepVars
    BY <1>0, <1>12 DEF Speaker!beepVars
  <1>13. QED
    BY <1>1, <1>2, <1>3, <1>4, <1>5, <1>6, <1>7, <1>8, <1>9, <1>10, <1>11, <1>12
    DEF Speaker!BeepNext, Speaker!Op

(* The service keeps its types and the bound of its beeps.                 *)
THEOREM BeepsAreTyped == ASSUME Speaker!BeepAssumption PROVE Speaker!BeepSpec => []Speaker!BeepTypeOK
PROOF
  <1>1. Speaker!BeepInit => BeepTyped
    BY DEF Speaker!BeepAssumption, Speaker!BeepInit, BeepTyped, Speaker!NoOp
  <1>2. BeepTyped /\ [Speaker!BeepNext]_(Speaker!beepVars) => BeepTyped'
    BY BeepTypesKept
  <1>3. BeepTyped => Speaker!BeepTypeOK
    BY DEF Speaker!BeepAssumption, BeepTyped, Speaker!BeepTypeOK
  <1>4. QED
    BY <1>1, <1>2, <1>3, PTL DEF Speaker!BeepSpec

(* A link that goes down ends its own beep only.                           *)
THEOREM LinksEndTheirOwn == Speaker!BeepSpec => [][Speaker!OwnLink]_(Speaker!beepVars)
PROOF
  <1>1. [Speaker!BeepNext]_(Speaker!beepVars) => [Speaker!OwnLink]_(Speaker!beepVars)
    <2> SUFFICES ASSUME Speaker!BeepNext, NEW l \in Link, l \in down, l \notin down', beepFd' # beepFd
                 PROVE  g_owner = l
      BY DEF Speaker!OwnLink
    <2>1. down' # down
      OBVIOUS
    <2>2. ~(Speaker!Op \/ Speaker!Expire \/ Speaker!TimerExpired \/ Speaker!Shutdown \/ Speaker!ShutdownTimer \/ Speaker!ShutdownClose \/ Speaker!Start)
      BY <2>1 DEF Speaker!Op, Speaker!OpStopTimer, Speaker!OpNew, Speaker!OpEnd, Speaker!Expire, Speaker!TimerExpired, Speaker!Shutdown, Speaker!ShutdownTimer, Speaker!ShutdownClose, Speaker!Start
    <2>3. ~(Speaker!ConBeep \/ Speaker!ConDone \/ Speaker!ConOff)
      BY <2>1 DEF Speaker!ConBeep, Speaker!ConDone, Speaker!ConOff
    <2>4. PICK m \in Link : Speaker!LinkLost(m) \/ Speaker!LinkState(m) \/ \E k \in {"beep", "stop"} : Speaker!BeepAsk(m, k)
      BY <2>2, <2>3 DEF Speaker!BeepNext
    <2>5. Speaker!LinkState(m)
      BY <2>1, <2>4 DEF Speaker!LinkLost, Speaker!BeepAsk
    <2>6. l = m
      BY <2>5 DEF Speaker!LinkState
    <2>7. QED
      BY <2>5, <2>6 DEF Speaker!LinkState
  <1>2. QED
    BY <1>1, PTL DEF Speaker!BeepSpec

-----------------------------------------------------------------------------
(* The sensor stream *)

Bundle == INSTANCE BundleEmitter WITH lock <- bundleLock, n <- sampleNo

(* A callback runs only while its timer is armed or its descriptor is      *)
(* watched; a command is under way only while the emitter is initialised.  *)
BundleRuns ==
  /\ wk \in {"tick", "emit"} => g_timer_armed
  /\ wk = "process" => watch
  /\ wk \in {"idle", "tick", "emit", "process"}
  /\ cmd.pc # "idle" => g_initialized
  /\ cmd.pc = "samplers" => ~g_timer_armed

(* Between the look at the flag and its change, the IMU's flag and its     *)
(* sampler differ as far as a command has come; otherwise they agree.      *)
BundleAgrees ==
  LET mine == cmd.what = "imu"
  IN IF mine /\ cmd.pc = "sampler"
     THEN /\ cmd.on => ~watch /\ ~g_imu_on
          /\ ~cmd.on /\ cmd.back = "flag" => watch /\ g_imu_on
          /\ ~cmd.on /\ cmd.back = "idle" => watch /\ ~g_imu_on
     ELSE IF mine /\ cmd.pc \in {"clear", "flag"}
     THEN (watch <=> cmd.on) /\ (g_imu_on <=> ~cmd.on) /\ (cmd.pc = "clear" => cmd.on)
     ELSE /\ watch <=> g_imu_on
          /\ mine /\ cmd.pc \in {"arm", "undo"} => watch

(* The fields of a command and what they may be at its places.             *)
BundleTyped ==
  /\ cmd = [pc |-> cmd.pc, what |-> cmd.what, on |-> cmd.on, back |-> cmd.back]
  /\ cmd.back \in {"idle", "flag"} /\ (cmd.pc = "arm" => cmd.on) /\ (cmd.pc = "undo" => ~cmd.on /\ cmd.back = "idle")
  /\ cmd.what \in {"imu", "sensor"}
  /\ cmd.pc = "look" => cmd.back = "flag"
  /\ cmd.on = TRUE \/ cmd.on = FALSE
  /\ g_imu_on = TRUE \/ g_imu_on = FALSE
  /\ g_sensor_on = TRUE \/ g_sensor_on = FALSE

BundleInv == BundleTyped /\ BundleRuns /\ BundleAgrees /\ Bundle!Stopped

(* The emitter starts uninitialised.                                       *)
LEMMA BundleStarts == ASSUME Bundle!Init PROVE BundleInv
  BY DEF Bundle!Init, Bundle!InitOf, Bundle!Idle, BundleInv, BundleTyped, BundleRuns, BundleAgrees, Bundle!Stopped

(* The driver, the callbacks, and the steps of the commands.               *)
LEMMA BundleStep == ASSUME BundleInv, [Bundle!Next]_(Bundle!vars) PROVE BundleInv'
PROOF
  <1> USE DEF BundleInv, BundleTyped, BundleRuns, BundleAgrees, Bundle!Stopped, Bundle!Idle, Bundle!Go, Bundle!Rest, Bundle!drv,
              Bundle!smp, Bundle!emt, Bundle!sent
  <1>1. CASE Bundle!Sample \/ Bundle!SetConfig \/ Bundle!Consumer
    BY <1>1 DEF Bundle!Sample, Bundle!SetConfig, Bundle!Consumer
  <1>2. CASE Bundle!ProcessStart \/ Bundle!Process
    BY <1>2 DEF Bundle!ProcessStart, Bundle!Process
  <1>3. CASE Bundle!TickStart \/ Bundle!TickLock
    BY <1>3 DEF Bundle!TickStart, Bundle!TickLock
  <1>4. CASE Bundle!Emit
    BY <1>4 DEF Bundle!Emit
  <1>5. CASE Bundle!Call
    BY <1>5 DEF Bundle!Call
  <1>6. CASE Bundle!EmitterInit \/ Bundle!Deinit
    BY <1>6 DEF Bundle!EmitterInit, Bundle!Deinit
  <1>7. CASE Bundle!Look
    <2>1. CASE cmd.on = Bundle!IsOn
      BY <1>7, <2>1 DEF Bundle!Look
    <2>2. CASE cmd.on # Bundle!IsOn
      <3>1. cmd.what = "imu" => (cmd.on <=> ~g_imu_on)
        BY <2>2 DEF Bundle!IsOn
      <3>2. QED
        BY <1>7, <2>2, <3>1 DEF Bundle!Look
    <2>3. QED
      BY <2>1, <2>2
  <1>8. CASE Bundle!ImuOpen
    BY <1>8 DEF Bundle!ImuOpen
  <1>9. CASE Bundle!ImuClear
    BY <1>9 DEF Bundle!ImuClear
  <1>10. CASE Bundle!ImuClose
    BY <1>10 DEF Bundle!ImuClose
  <1>11. CASE Bundle!SensorSet
    BY <1>11 DEF Bundle!SensorSet
  <1>12. CASE Bundle!Flag
    <2>1. CASE cmd.on /\ cmd.what = "imu"
      BY <1>12, <2>1 DEF Bundle!Flag, Bundle!SetOn
    <2>2. CASE cmd.on /\ cmd.what = "sensor"
      BY <1>12, <2>2 DEF Bundle!Flag, Bundle!SetOn
    <2>3. CASE ~cmd.on /\ cmd.what = "imu"
      BY <1>12, <2>3 DEF Bundle!Flag, Bundle!SetOn
    <2>4. CASE ~cmd.on /\ cmd.what = "sensor"
      BY <1>12, <2>4 DEF Bundle!Flag, Bundle!SetOn
    <2>5. QED
      BY <2>1, <2>2, <2>3, <2>4
  <1>13. CASE Bundle!Arm
    <2>1. CASE g_timer_armed' = TRUE /\ Bundle!Go("idle")
      BY <1>13, <2>1 DEF Bundle!Arm
    <2>2. CASE ~g_timer_armed /\ cmd' = [cmd EXCEPT !.pc = "undo", !.on = FALSE, !.back = "idle"]
      <3>1. cmd' = [pc |-> "undo", what |-> cmd.what, on |-> FALSE, back |-> "idle"]
        BY <2>2
      <3>2. QED
        BY <1>13, <2>2, <3>1 DEF Bundle!Arm
    <2>3. QED
      BY <1>13, <2>1, <2>2 DEF Bundle!Arm
  <1>14. CASE Bundle!Undo
    <2>1. CASE cmd.what = "imu"
      BY <1>14, <2>1 DEF Bundle!Undo, Bundle!SetOn
    <2>2. CASE cmd.what = "sensor"
      BY <1>14, <2>2 DEF Bundle!Undo, Bundle!SetOn
    <2>3. QED
      BY <2>1, <2>2
  <1>15. CASE Bundle!Disarm
    BY <1>15 DEF Bundle!Disarm
  <1>16. CASE Bundle!StopTimer
    BY <1>16 DEF Bundle!StopTimer
  <1>17. CASE Bundle!StopSamplers
    BY <1>17 DEF Bundle!StopSamplers
  <1>18. CASE UNCHANGED Bundle!vars
    BY <1>18 DEF Bundle!vars
  <1>19. QED
    BY <1>1, <1>2, <1>3, <1>4, <1>5, <1>6, <1>7, <1>8, <1>9, <1>10, <1>11, <1>12, <1>13, <1>14,
       <1>15, <1>16, <1>17, <1>18
    DEF Bundle!Next, Bundle!Worker, Bundle!Command

(* Once bundle_emitter_deinit has returned no callback of the emitter runs *)
(* or will, although it waits for the watch's callback only where the IMU  *)
(* is on, and for the timer's only where that is armed.                    *)
THEOREM DeinitialisedIsStopped == Bundle!Spec => []Bundle!Stopped
PROOF
  <1>1. BundleInv => Bundle!Stopped
    BY DEF BundleInv
  <1>2. QED
    BY BundleStarts, BundleStep, <1>1, PTL DEF Bundle!Spec

(* The sensor's flag and its sampler differ as far as a command has come.  *)
SensorAgrees ==
  LET mine == cmd.what = "sensor"
  IN IF mine /\ cmd.pc = "sampler"
     THEN /\ cmd.on => ~g_sensor_on /\ ~sensor_enabled
          /\ ~cmd.on => sensor_enabled /\ (g_sensor_on <=> cmd.back = "flag")
     ELSE IF mine /\ cmd.pc = "flag"
     THEN (sensor_enabled <=> cmd.on) /\ (g_sensor_on <=> ~cmd.on)
     ELSE /\ sensor_enabled <=> g_sensor_on
          /\ mine /\ cmd.pc \in {"arm", "undo"} => g_sensor_on

(* The IMU's flag inside its sampler is set after the watch.               *)
SamplerAgrees ==
  IF cmd.what = "imu" /\ cmd.pc = "clear" THEN watch /\ ~imu_enabled ELSE imu_enabled <=> watch

(* The timer runs while a stream is on, except within a command.           *)
TimerAgrees ==
  LET other == IF cmd.what = "imu" THEN g_sensor_on ELSE g_imu_on
  IN /\ cmd.pc \in {"idle", "look", "sampler", "clear", "flag", "stop"} => (g_timer_armed <=> g_imu_on \/ g_sensor_on)
     /\ cmd.pc = "arm" => (g_timer_armed <=> other)
     /\ cmd.pc = "undo" => ~g_timer_armed /\ ~other
     /\ cmd.pc = "disarm" => ~g_imu_on /\ ~g_sensor_on

(* The rest of the fields.                                                 *)
BooksTyped ==
  /\ cmd.pc \in {"idle", "look", "sampler", "clear", "flag", "arm", "undo", "disarm", "stop", "samplers"}
  /\ cmd.on => cmd.back = "flag"
  /\ cmd.pc = "flag" => cmd.back = "flag"
  /\ cmd.pc \in {"stop", "samplers", "clear"} => cmd.what = "imu"
  /\ {watch, imu_enabled, sensor_enabled, g_initialized, g_imu_on, g_sensor_on, g_timer_armed, bundleLock} \subseteq BOOLEAN
  /\ ~g_initialized => ~watch /\ ~imu_enabled /\ ~sensor_enabled /\ ~g_imu_on /\ ~g_sensor_on

BundleBooks == BooksTyped /\ SensorAgrees /\ SamplerAgrees /\ TimerAgrees

(* The emitter starts with everything off.                                 *)
LEMMA BooksStart == ASSUME Bundle!Init PROVE BundleBooks
  BY DEF Bundle!Init, Bundle!InitOf, Bundle!Idle, BundleBooks, BooksTyped, SensorAgrees, SamplerAgrees, TimerAgrees

(* What the driver and the callbacks leave alone.                          *)
Quiet ==
  /\ UNCHANGED <<cmd, watch, imu_enabled, sensor_enabled, g_initialized, g_imu_on, g_sensor_on, g_timer_armed>>
  /\ bundleLock' \in BOOLEAN

(* The driver and the callbacks leave the books alone.                     *)
LEMMA BooksKept ==
  ASSUME bundleLock \in BOOLEAN, Bundle!Sample \/ Bundle!SetConfig \/ Bundle!Consumer \/ Bundle!Worker PROVE Quiet
PROOF
  <1> USE DEF Quiet, Bundle!drv, Bundle!smp, Bundle!emt, Bundle!sent
  <1>1. CASE Bundle!Sample \/ Bundle!SetConfig \/ Bundle!Consumer
    BY <1>1 DEF Bundle!Sample, Bundle!SetConfig, Bundle!Consumer
  <1>2. CASE Bundle!ProcessStart \/ Bundle!Process
    BY <1>2 DEF Bundle!ProcessStart, Bundle!Process
  <1>3. CASE Bundle!TickStart \/ Bundle!TickLock
    BY <1>3 DEF Bundle!TickStart, Bundle!TickLock
  <1>4. CASE Bundle!Emit
    BY <1>4 DEF Bundle!Emit
  <1>5. QED
    BY <1>1, <1>2, <1>3, <1>4 DEF Bundle!Worker

(* The driver, the callbacks, and the steps of the commands.               *)
LEMMA BooksStep == ASSUME BundleInv, BundleBooks, [Bundle!Next]_(Bundle!vars) PROVE BundleBooks'
PROOF
  <1> USE DEF BundleBooks, BooksTyped, SensorAgrees, SamplerAgrees, TimerAgrees, Bundle!Idle, Bundle!Go, Bundle!Rest, Bundle!drv, Bundle!smp, Bundle!emt, Bundle!sent
  <1>1. CASE /\ UNCHANGED <<cmd, watch, imu_enabled, sensor_enabled, g_initialized, g_imu_on, g_sensor_on, g_timer_armed>>
             /\ bundleLock' \in BOOLEAN
    BY <1>1
  <1>2. CASE Bundle!Sample \/ Bundle!SetConfig \/ Bundle!Consumer
    BY <1>1, <1>2, BooksKept DEF Quiet, Bundle!Worker
  <1>3. CASE Bundle!ProcessStart \/ Bundle!Process
    BY <1>1, <1>3, BooksKept DEF Quiet, Bundle!Worker
  <1>4. CASE Bundle!TickStart \/ Bundle!TickLock
    BY <1>1, <1>4, BooksKept DEF Quiet, Bundle!Worker
  <1>5. CASE Bundle!Emit
    BY <1>1, <1>5, BooksKept DEF Quiet, Bundle!Worker
  <1>6. CASE Bundle!Call
    BY <1>6 DEF Bundle!Call
  <1>7. CASE Bundle!EmitterInit
    BY <1>7 DEF Bundle!EmitterInit, BundleInv, Bundle!Stopped
  <1>8. CASE Bundle!Deinit
    BY <1>8 DEF Bundle!Deinit
  <1>9. cmd = [pc |-> cmd.pc, what |-> cmd.what, on |-> cmd.on, back |-> cmd.back]
    BY DEF BundleInv, BundleTyped
  <1>10. /\ cmd.what \in {"imu", "sensor"} /\ (cmd.pc = "look" => cmd.back = "flag") /\ cmd.back \in {"idle", "flag"}
         /\ (cmd.on = TRUE \/ cmd.on = FALSE)
         /\ (cmd.pc = "arm" => cmd.on) /\ (cmd.pc = "undo" => ~cmd.on /\ cmd.back = "idle")
         /\ (cmd.pc # "idle" => g_initialized)
    BY DEF BundleInv, BundleTyped, BundleRuns
  <1>11. CASE Bundle!Look
    <2>1. CASE cmd.on = Bundle!IsOn
      BY <1>9, <1>10, <1>11, <2>1 DEF Bundle!Look
    <2>2. CASE cmd.on # Bundle!IsOn
      <3>1. (cmd.what = "imu" => (cmd.on <=> ~g_imu_on)) /\ (cmd.what = "sensor" => (cmd.on <=> ~g_sensor_on))
        BY <1>10, <2>2 DEF Bundle!IsOn
      <3>2. QED
        BY <1>9, <1>10, <1>11, <2>2, <3>1 DEF Bundle!Look
    <2>3. QED
      BY <2>1, <2>2
  <1>12. CASE Bundle!ImuOpen
    <2>1. ~watch /\ ~imu_enabled
      BY <1>12 DEF Bundle!ImuOpen, BundleInv, BundleAgrees
    <2>2. CASE watch' = TRUE /\ Bundle!Go("clear")
      BY <1>9, <1>10, <1>12, <2>1, <2>2 DEF Bundle!ImuOpen
    <2>3. CASE Bundle!Go("idle") /\ UNCHANGED watch
      BY <1>9, <1>10, <1>12, <2>1, <2>3 DEF Bundle!ImuOpen
    <2>4. QED
      BY <1>12, <2>2, <2>3 DEF Bundle!ImuOpen
  <1>13. CASE Bundle!ImuClear
    <2>1. cmd.on
      BY <1>13 DEF Bundle!ImuClear, BundleInv, BundleAgrees
    <2>2. QED
      BY <1>9, <1>10, <1>13, <2>1 DEF Bundle!ImuClear
  <1>14. CASE Bundle!ImuClose
    BY <1>9, <1>10, <1>14 DEF Bundle!ImuClose
  <1>15. CASE Bundle!SensorSet
    BY <1>9, <1>10, <1>15 DEF Bundle!SensorSet
  <1>16. CASE Bundle!Flag
    <2>0. cmd.what = "imu" => (g_imu_on <=> ~cmd.on)
      BY <1>16 DEF Bundle!Flag, BundleInv, BundleAgrees
    <2>1. CASE cmd.what = "imu"
      BY <1>9, <1>10, <1>16, <2>0, <2>1 DEF Bundle!Flag, Bundle!SetOn
    <2>2. CASE cmd.what = "sensor"
      BY <1>9, <1>10, <1>16, <2>2 DEF Bundle!Flag, Bundle!SetOn
    <2>3. QED
      BY <1>10, <2>1, <2>2
  <1>17. CASE Bundle!Arm
    <2>0. cmd.what = "imu" => g_imu_on
      BY <1>17 DEF Bundle!Arm, BundleInv, BundleAgrees
    <2>1. CASE g_timer_armed' = TRUE /\ Bundle!Go("idle")
      BY <1>9, <1>10, <1>17, <2>0, <2>1 DEF Bundle!Arm
    <2>2. CASE ~g_timer_armed /\ cmd' = [cmd EXCEPT !.pc = "undo", !.on = FALSE, !.back = "idle"] /\ UNCHANGED g_timer_armed
      <3>1. cmd' = [pc |-> "undo", what |-> cmd.what, on |-> FALSE, back |-> "idle"]
        BY <1>9, <2>2
      <3>2. QED
        BY <1>10, <1>17, <2>0, <2>2, <3>1 DEF Bundle!Arm
    <2>3. QED
      BY <1>17, <2>1, <2>2 DEF Bundle!Arm
  <1>18. CASE Bundle!Undo
    <2>1. CASE cmd.what = "imu"
      BY <1>9, <1>10, <1>18, <2>1 DEF Bundle!Undo, Bundle!SetOn
    <2>2. CASE cmd.what = "sensor"
      BY <1>9, <1>10, <1>18, <2>2 DEF Bundle!Undo, Bundle!SetOn
    <2>3. QED
      BY <1>10, <2>1, <2>2
  <1>19. CASE Bundle!Disarm
    BY <1>9, <1>10, <1>19 DEF Bundle!Disarm
  <1>20. CASE Bundle!StopTimer
    <2>1. cmd' = [pc |-> "samplers", what |-> "imu", on |-> cmd.on, back |-> cmd.back] /\ cmd.what = "imu"
      BY <1>9, <1>20 DEF Bundle!StopTimer
    <2>2. g_timer_armed' = FALSE /\ UNCHANGED <<watch, imu_enabled, sensor_enabled, g_initialized, g_imu_on, g_sensor_on, bundleLock>>
      BY <1>20 DEF Bundle!StopTimer
    <2>3. cmd.pc = "stop" /\ cmd'.pc = "samplers" /\ cmd'.what = "imu" /\ cmd'.on = cmd.on /\ cmd'.back = cmd.back
      BY <1>20, <2>1 DEF Bundle!StopTimer
    <2>4. BooksTyped'
      BY <1>10, <2>1, <2>2, <2>3
    <2>5. SensorAgrees' /\ SamplerAgrees' /\ TimerAgrees'
      BY <2>1, <2>2, <2>3
    <2>6. QED
      BY <2>4, <2>5
  <1>21. CASE Bundle!StopSamplers
    <2>1. cmd' = Bundle!Idle
      BY <1>21 DEF Bundle!StopSamplers
    <2>2. /\ watch' = FALSE /\ imu_enabled' = FALSE /\ sensor_enabled' = FALSE
          /\ g_imu_on' = FALSE /\ g_sensor_on' = FALSE /\ g_initialized' = FALSE
          /\ UNCHANGED <<g_timer_armed, bundleLock>> /\ cmd.pc = "samplers"
      BY <1>21 DEF Bundle!StopSamplers
    <2>3. ~g_timer_armed
      BY <2>2 DEF BundleInv, BundleRuns
    <2>4. BooksTyped'
      BY <2>1, <2>2
    <2>5. SensorAgrees' /\ SamplerAgrees' /\ TimerAgrees'
      BY <2>1, <2>2, <2>3
    <2>6. QED
      BY <2>4, <2>5
  <1>22. CASE UNCHANGED Bundle!vars
    BY <1>22 DEF Bundle!vars
  <1>23. QED
    BY <1>2, <1>3, <1>4, <1>5, <1>6, <1>7, <1>8, <1>11, <1>12, <1>13, <1>14, <1>15, <1>16, <1>17,
       <1>18, <1>19, <1>20, <1>21, <1>22
    DEF Bundle!Next, Bundle!Worker, Bundle!Command

(* Between commands the flags, the samplers and the timer agree, whatever  *)
(* step of a command failed.                                               *)
THEOREM BundleAgreesBetween == Bundle!Spec => []Bundle!Agree
PROOF
  <1>1. BundleInv /\ BundleBooks => Bundle!Agree
    <2> SUFFICES ASSUME BundleInv, BundleBooks, cmd = Bundle!Idle
                 PROVE  /\ g_imu_on = imu_enabled /\ g_imu_on = watch /\ g_sensor_on = sensor_enabled
                        /\ g_timer_armed = (g_imu_on \/ g_sensor_on)
      BY DEF Bundle!Agree
    <2>1. cmd.pc = "idle"
      BY DEF Bundle!Idle
    <2>2. (g_imu_on <=> watch) /\ (imu_enabled <=> watch) /\ (g_sensor_on <=> sensor_enabled)
          /\ (g_timer_armed <=> g_imu_on \/ g_sensor_on)
      BY <2>1 DEF BundleInv, BundleAgrees, BundleBooks, SensorAgrees, SamplerAgrees, TimerAgrees
    <2>3. {watch, imu_enabled, sensor_enabled, g_imu_on, g_sensor_on, g_timer_armed} \subseteq BOOLEAN
      BY DEF BundleBooks, BooksTyped
    <2>4. QED
      BY <2>2, <2>3
  <1>2. Bundle!Init => BundleInv /\ BundleBooks
    BY BundleStarts, BooksStart
  <1>3. BundleInv /\ BundleBooks /\ [Bundle!Next]_(Bundle!vars) => BundleInv' /\ BundleBooks'
    BY BundleStep, BooksStep
  <1>4. QED
    BY <1>1, <1>2, <1>3, PTL DEF Bundle!Spec

Samples == [no : Nat, cfg : Config]

(* Samples in the order they were taken.                                   *)
NumbersRise(s) == \A i, j \in 1 .. Len(s) : i < j => s[i].no < s[j].no
AllAbove(s, a) == \A i \in 1 .. Len(s) : a < s[i].no
AllUpTo(s, a) == \A i \in 1 .. Len(s) : s[i].no <= a
AllBefore(r, q) == \A i \in 1 .. Len(r), j \in 1 .. Len(q) : r[i].no < q[j].no

(* What the emitter would send now was taken since IMU ON.                 *)
SinceOn == g_imu_on \/ (cmd.what = "imu" /\ cmd.pc = "flag" /\ cmd.on)

(* The samples that wait, in the ring and then in the topic, are in the    *)
(* order they were taken, after everything sent and, once the ring is      *)
(* cleared, after IMU ON.                                                  *)
OrderInv ==
  /\ ring \in Seq(Samples) /\ queue \in Seq(Samples) /\ {sampleNo, out, mark} \subseteq Nat /\ cfg \in Config
  /\ out <= sampleNo /\ mark <= sampleNo /\ Len(ring) <= Ring - 1
  /\ NumbersRise(ring) /\ NumbersRise(queue) /\ AllBefore(ring, queue)
  /\ AllUpTo(ring, sampleNo) /\ AllUpTo(queue, sampleNo) /\ AllAbove(ring, out) /\ AllAbove(queue, out)
  /\ SinceOn => AllAbove(ring, mark)
  /\ SinceOn \/ cmd.pc = "clear" => AllAbove(queue, mark)

(* The oldest configuration number is a configuration.                     *)
LEMMA SomeConfig == ASSUME Bundle!BundleEmitterAssumption PROVE (CHOOSE c \in Config : \A d \in Config : c <= d) \in Config
PROOF
  <1> DEFINE R == OpToRel(<, Nat)
  <1>1. Config \subseteq Nat /\ Config # {}
    BY DEF Bundle!BundleEmitterAssumption
  <1>2. IsWellFoundedOn(R, Nat)
    BY NatLessThanWellFounded
  <1>3. \A x, y \in Nat : x < y => <<x, y>> \in R
    BY DEF OpToRel
  <1> HIDE DEF R
  <1>4. PICK c \in Config : \A d \in Config : ~(<<d, c>> \in R)
    BY <1>1, <1>2, WFMin
  <1>5. \A d \in Config : c <= d
    <2> SUFFICES ASSUME NEW d \in Config PROVE c <= d
      OBVIOUS
    <2>1. c \in Nat /\ d \in Nat /\ ~(<<d, c>> \in R)
      BY <1>1, <1>4
    <2>2. ~(d < c)
      BY <1>3, <2>1
    <2>3. QED
      BY <2>1, <2>2
  <1>6. QED
    BY <1>5

(* The emitter starts with nothing that waits.                             *)
LEMMA OrderStarts == ASSUME Bundle!BundleEmitterAssumption, Bundle!Init PROVE OrderInv
PROOF
  <1>1. cfg \in Config
    BY SomeConfig DEF Bundle!Init, Bundle!InitOf
  <1>2. Ring - 1 \in Nat
    BY DEF Bundle!BundleEmitterAssumption
  <1>3. QED
    BY <1>1, <1>2
    DEF Bundle!Init, Bundle!InitOf, Bundle!Idle, OrderInv, NumbersRise, AllAbove, AllUpTo, AllBefore, SinceOn

(* The oldest sample moves from the topic to the ring, which drops its     *)
(* own oldest where it is full.                                            *)
LEMMA PushKeepsOrder ==
  ASSUME Bundle!BundleEmitterAssumption, NEW r \in Seq(Samples), NEW q \in Seq(Samples), q # << >>, Len(r) <= Ring - 1,
         NumbersRise(r), NumbersRise(q), AllBefore(r, q)
  PROVE  /\ Bundle!Push(r, Head(q)) \in Seq(Samples) /\ Tail(q) \in Seq(Samples) /\ Len(Bundle!Push(r, Head(q))) <= Ring - 1
         /\ NumbersRise(Bundle!Push(r, Head(q))) /\ NumbersRise(Tail(q)) /\ AllBefore(Bundle!Push(r, Head(q)), Tail(q))
         /\ \A a \in Nat : AllUpTo(r, a) /\ AllUpTo(q, a) => AllUpTo(Bundle!Push(r, Head(q)), a) /\ AllUpTo(Tail(q), a)
         /\ \A a \in Nat : AllAbove(q, a) => AllAbove(Tail(q), a)
         /\ \A a \in Nat : AllAbove(r, a) /\ AllAbove(q, a) => AllAbove(Bundle!Push(r, Head(q)), a)
PROOF
  <1> DEFINE t == Tail(q)
  <1> DEFINE w == IF Len(r) = Ring - 1 THEN Tail(r) ELSE r
  <1>1. Ring - 1 \in Nat \ {0}
    BY DEF Bundle!BundleEmitterAssumption
  <1>2. /\ t \in Seq(Samples) /\ Len(t) = Len(q) - 1 /\ Len(q) \in Nat \ {0}
        /\ \A i \in 1 .. Len(t) : i + 1 \in 1 .. Len(q) /\ t[i] = q[i + 1]
        /\ Head(q) = q[1] /\ q[1] \in Samples
    OBVIOUS
  <1>3. PICK d \in {0, 1} : /\ w \in Seq(Samples) /\ Len(w) = Len(r) - d /\ Len(w) < Ring - 1
                           /\ \A i \in 1 .. Len(w) : i + d \in 1 .. Len(r) /\ w[i] = r[i + d]
    <2>1. CASE Len(r) = Ring - 1
      <3>1. r # << >>
        BY <1>1, <2>1
      <3>2. /\ Tail(r) \in Seq(Samples) /\ Len(Tail(r)) = Len(r) - 1
            /\ \A i \in 1 .. Len(Tail(r)) : i + 1 \in 1 .. Len(r) /\ Tail(r)[i] = r[i + 1]
        BY <3>1
      <3>3. QED
        BY <1>1, <2>1, <3>2
    <2>2. CASE Len(r) # Ring - 1
      BY <1>1, <2>2
    <2>3. QED
      BY <2>1, <2>2
  <1>4. Bundle!Push(r, Head(q)) = Append(w, q[1])
    BY <1>2 DEF Bundle!Push
  <1> DEFINE p == Append(w, q[1])
  <1> HIDE DEF w, t
  <1>5. /\ p \in Seq(Samples) /\ Len(p) = Len(w) + 1
        /\ \A i \in 1 .. Len(p) : p[i] = IF i = Len(p) THEN q[1] ELSE w[i]
    BY <1>2, <1>3
  <1> HIDE DEF p
  <1>6. \A i \in 1 .. Len(p) : (i < Len(p) /\ i \in 1 .. Len(w) /\ i + d \in 1 .. Len(r) /\ p[i] = r[i + d]) \/ (i = Len(p) /\ p[i] = q[1])
    BY <1>3, <1>5
  <1>7. Len(p) <= Ring - 1
    BY <1>1, <1>3, <1>5
  <1>8. NumbersRise(p)
    <2> SUFFICES ASSUME NEW i \in 1 .. Len(p), NEW j \in 1 .. Len(p), i < j PROVE p[i].no < p[j].no
      BY DEF NumbersRise
    <2>1. i \in 1 .. Len(w) /\ i + d \in 1 .. Len(r) /\ p[i] = r[i + d]
      BY <1>5, <1>6
    <2>2. CASE j = Len(p)
      BY <1>2, <1>6, <2>1, <2>2 DEF AllBefore
    <2>3. CASE j # Len(p)
      BY <1>6, <2>1, <2>3 DEF NumbersRise
    <2>4. QED
      BY <2>2, <2>3
  <1>9. NumbersRise(t)
    <2> SUFFICES ASSUME NEW i \in 1 .. Len(t), NEW j \in 1 .. Len(t), i < j PROVE t[i].no < t[j].no
      BY DEF NumbersRise
    <2>1. i + 1 \in 1 .. Len(q) /\ j + 1 \in 1 .. Len(q) /\ i + 1 < j + 1
      BY <1>2
    <2>2. q[i + 1].no < q[j + 1].no
      BY <2>1 DEF NumbersRise
    <2>3. QED
      BY <1>2, <2>2
  <1>10. AllBefore(p, t)
    <2> SUFFICES ASSUME NEW i \in 1 .. Len(p), NEW j \in 1 .. Len(t) PROVE p[i].no < t[j].no
      BY DEF AllBefore
    <2>1. CASE i = Len(p)
      BY <1>2, <1>6, <2>1 DEF NumbersRise
    <2>2. CASE i # Len(p)
      BY <1>2, <1>6, <2>2 DEF AllBefore
    <2>3. QED
      BY <2>1, <2>2
  <1>11. ASSUME NEW a \in Nat, AllUpTo(r, a), AllUpTo(q, a) PROVE AllUpTo(p, a) /\ AllUpTo(t, a)
    <2>1. AllUpTo(t, a)
      BY <1>2, <1>11 DEF AllUpTo
    <2>2. 1 \in 1 .. Len(q)
      BY <1>2
    <2>3. AllUpTo(p, a)
      BY <1>6, <1>11, <2>2 DEF AllUpTo
    <2>4. QED
      BY <2>1, <2>3
  <1>12. ASSUME NEW a \in Nat, AllAbove(q, a) PROVE AllAbove(t, a)
    BY <1>2, <1>12 DEF AllAbove
  <1>13. ASSUME NEW a \in Nat, AllAbove(r, a), AllAbove(q, a) PROVE AllAbove(p, a)
    BY <1>2, <1>6, <1>13 DEF AllAbove
  <1>14. Bundle!Push(r, Head(q)) = p
    BY <1>4 DEF p
  <1>15. Tail(q) = t
    BY DEF t
  <1> QED
    BY <1>2, <1>5, <1>7, <1>8, <1>9, <1>10, <1>11, <1>12, <1>13, <1>14, <1>15

(* A sample has a number.                                                  *)
LEMMA Numbered == ASSUME NEW s \in Seq(Samples), NEW i \in 1 .. Len(s) PROVE s[i] \in Samples /\ s[i].no \in Nat
PROOF
  <1>1. s[i] \in Samples
    OBVIOUS
  <1>2. QED
    BY <1>1 DEF Samples

(* A new sample waits behind all others.                                   *)
LEMMA NewSampleIsLast ==
  ASSUME NEW r \in Seq(Samples), NEW q \in Seq(Samples), NEW m \in Nat, NEW c \in Config,
         NumbersRise(q), AllBefore(r, q), AllUpTo(r, m), AllUpTo(q, m)
  PROVE  LET q1 == Append(q, [no |-> m + 1, cfg |-> c])
         IN /\ q1 \in Seq(Samples) /\ NumbersRise(q1) /\ AllBefore(r, q1)
            /\ AllUpTo(r, m + 1) /\ AllUpTo(q1, m + 1)
            /\ \A a \in Nat : a <= m /\ AllAbove(q, a) => AllAbove(q1, a)
PROOF
  <1> DEFINE new == [no |-> m + 1, cfg |-> c]
  <1> DEFINE q1 == Append(q, new)
  <1>1. new \in Samples /\ new.no = m + 1
    BY DEF Samples
  <1> HIDE DEF new
  <1>2. /\ q1 \in Seq(Samples) /\ Len(q1) = Len(q) + 1 /\ Len(q) \in Nat
        /\ \A i \in 1 .. Len(q1) : (i = Len(q1) /\ q1[i].no = m + 1) \/ (i \in 1 .. Len(q) /\ q1[i] = q[i])
    BY <1>1
  <1>3. /\ \A i \in 1 .. Len(r) : r[i].no \in Nat /\ r[i].no <= m
        /\ \A i \in 1 .. Len(q) : q[i].no \in Nat /\ q[i].no <= m
    BY Numbered DEF AllUpTo
  <1> HIDE DEF q1
  <1>4. NumbersRise(q1)
    <2> SUFFICES ASSUME NEW i \in 1 .. Len(q1), NEW j \in 1 .. Len(q1), i < j PROVE q1[i].no < q1[j].no
      BY DEF NumbersRise
    <2>1. i \in 1 .. Len(q) /\ q1[i] = q[i]
      BY <1>2
    <2>2. CASE j = Len(q1) /\ q1[j].no = m + 1
      BY <1>3, <2>1, <2>2
    <2>3. CASE j \in 1 .. Len(q) /\ q1[j] = q[j]
      BY <2>1, <2>3 DEF NumbersRise
    <2>4. QED
      BY <1>2, <2>2, <2>3
  <1>5. AllBefore(r, q1)
    <2> SUFFICES ASSUME NEW i \in 1 .. Len(r), NEW j \in 1 .. Len(q1) PROVE r[i].no < q1[j].no
      BY DEF AllBefore
    <2>1. CASE j = Len(q1) /\ q1[j].no = m + 1
      BY <1>3, <2>1
    <2>2. CASE j \in 1 .. Len(q) /\ q1[j] = q[j]
      BY <2>2 DEF AllBefore
    <2>3. QED
      BY <1>2, <2>1, <2>2
  <1>6. AllUpTo(r, m + 1) /\ AllUpTo(q1, m + 1)
    <2>1. AllUpTo(r, m + 1)
      BY <1>3 DEF AllUpTo
    <2>2. ASSUME NEW i \in 1 .. Len(q1) PROVE q1[i].no <= m + 1
      BY <1>2, <1>3
    <2>3. QED
      BY <2>1, <2>2 DEF AllUpTo
  <1>7. ASSUME NEW a \in Nat, a <= m, AllAbove(q, a) PROVE AllAbove(q1, a)
    <2>1. ASSUME NEW i \in 1 .. Len(q1) PROVE a < q1[i].no
      <3>1. CASE i = Len(q1) /\ q1[i].no = m + 1
        BY <1>7, <3>1
      <3>2. CASE i \in 1 .. Len(q) /\ q1[i] = q[i]
        BY <1>7, <3>2 DEF AllAbove
      <3>3. QED
        BY <1>2, <3>1, <3>2
    <2>2. QED
      BY <2>1 DEF AllAbove
  <1>8. q1 = Append(q, [no |-> m + 1, cfg |-> c])
    BY DEF q1, new
  <1> QED
    BY <1>2, <1>4, <1>5, <1>6, <1>7, <1>8

(* What is drained is the front of the ring, and what stays comes after it. *)
LEMMA DrainKeepsOrder ==
  ASSUME NEW r \in Seq(Samples), NEW q \in Seq(Samples), NEW k \in 0 .. Len(r), NumbersRise(r), AllBefore(r, q)
  PROVE  LET got == SubSeq(r, 1, k)
             rest == SubSeq(r, k + 1, Len(r))
         IN /\ got \in Seq(Samples) /\ rest \in Seq(Samples) /\ Len(got) = k /\ Len(rest) = Len(r) - k
            /\ NumbersRise(got) /\ NumbersRise(rest) /\ AllBefore(rest, q)
            /\ \A a \in Nat : AllAbove(r, a) => AllAbove(got, a) /\ AllAbove(rest, a)
            /\ \A a \in Nat : AllUpTo(r, a) => AllUpTo(rest, a) /\ AllUpTo(got, a)
            /\ got # << >> => /\ got[Len(got)] \in Samples /\ AllAbove(rest, got[Len(got)].no) /\ AllAbove(q, got[Len(got)].no)
                             /\ \A a \in Nat : AllUpTo(r, a) => got[Len(got)].no <= a
PROOF
  <1> DEFINE got == SubSeq(r, 1, k)
  <1> DEFINE rest == SubSeq(r, k + 1, Len(r))
  <1>1. /\ got \in Seq(Samples) /\ Len(got) = k /\ k \in Nat /\ Len(r) \in Nat /\ k <= Len(r)
        /\ \A i \in 1 .. k : got[i] = r[i] /\ i \in 1 .. Len(r)
    BY SubSeqProperties
  <1>2. /\ rest \in Seq(Samples) /\ Len(rest) = Len(r) - k
        /\ \A i \in 1 .. (Len(r) - k) : rest[i] = r[i + k] /\ i + k \in 1 .. Len(r)
    <2>1. CASE k = Len(r)
      <3>1. rest = << >>
        BY <1>1, <2>1
      <3>2. QED
        BY <1>1, <2>1, <3>1
    <2>2. CASE k < Len(r)
      <3>1. k + 1 \in 1 .. Len(r) /\ Len(r) \in 1 .. Len(r)
        BY <1>1, <2>2
      <3>2. rest \in Seq(Samples) /\ Len(rest) = Len(r) - k
        BY <1>1, <2>2, <3>1
      <3>3. \A i \in 1 .. (Len(r) - k) : rest[i] = r[i + k] /\ i + k \in 1 .. Len(r)
        BY <1>1, <2>2, <3>1
      <3>4. QED
        BY <3>2, <3>3
    <2>3. QED
      BY <1>1, <2>1, <2>2
  <1>3. \A i \in 1 .. Len(r) : r[i] \in Samples /\ r[i].no \in Nat
    BY Numbered
  <1>4. got # << >> => got[Len(got)] = r[k] /\ k \in 1 .. Len(r)
    BY <1>1
  <1> HIDE DEF got, rest
  <1>5. NumbersRise(got)
    BY <1>1 DEF NumbersRise
  <1>6. NumbersRise(rest)
    <2> SUFFICES ASSUME NEW i \in 1 .. Len(rest), NEW j \in 1 .. Len(rest), i < j PROVE rest[i].no < rest[j].no
      BY DEF NumbersRise
    <2>1. i + k \in 1 .. Len(r) /\ j + k \in 1 .. Len(r) /\ i + k < j + k
      BY <1>1, <1>2
    <2>2. r[i + k].no < r[j + k].no
      BY <2>1 DEF NumbersRise
    <2>3. QED
      BY <1>2, <2>2
  <1>7. AllBefore(rest, q)
    BY <1>2 DEF AllBefore
  <1>8. ASSUME NEW a \in Nat, AllAbove(r, a) PROVE AllAbove(got, a) /\ AllAbove(rest, a)
    BY <1>1, <1>2, <1>8 DEF AllAbove
  <1>9. ASSUME NEW a \in Nat, AllUpTo(r, a) PROVE AllUpTo(rest, a) /\ AllUpTo(got, a)
    BY <1>1, <1>2, <1>9 DEF AllUpTo
  <1>10. ASSUME got # << >>
         PROVE  /\ got[Len(got)] \in Samples /\ AllAbove(rest, got[Len(got)].no) /\ AllAbove(q, got[Len(got)].no)
                /\ \A a \in Nat : AllUpTo(r, a) => got[Len(got)].no <= a
    <2>1. got[Len(got)] = r[k] /\ k \in 1 .. Len(r)
      BY <1>4, <1>10
    <2>2. AllAbove(rest, r[k].no)
      <3> SUFFICES ASSUME NEW i \in 1 .. Len(rest) PROVE r[k].no < rest[i].no
        BY DEF AllAbove
      <3>1. i + k \in 1 .. Len(r) /\ k < i + k /\ rest[i] = r[i + k]
        BY <1>1, <1>2
      <3>2. QED
        BY <2>1, <3>1 DEF NumbersRise
    <2>3. AllAbove(q, r[k].no)
      BY <2>1 DEF AllBefore, AllAbove
    <2>4. \A a \in Nat : AllUpTo(r, a) => r[k].no <= a
      BY <2>1 DEF AllUpTo
    <2>5. QED
      BY <1>3, <2>1, <2>2, <2>3, <2>4
  <1>11. got = SubSeq(r, 1, k) /\ rest = SubSeq(r, k + 1, Len(r))
    BY DEF got, rest
  <1> QED
    BY <1>1, <1>2, <1>5, <1>6, <1>7, <1>8, <1>9, <1>10, <1>11

(* The module that BundleEmitter counts with is the one the theorems are on. *)
LEMMA SameCount == ASSUME NEW S PROVE Bundle!Cardinality(S) = Cardinality(S)
  BY DEF Cardinality, Bundle!Cardinality, IsFiniteSet, Bundle!IsFiniteSet

(* The frames of a bundle are runs of the samples drained, one after       *)
(* another.                                                                *)
LEMMA FramesAreRuns ==
  ASSUME NEW s \in Seq(Samples), s # << >>, NEW fs \in Bundle!Bundles(s), NEW i \in 1 .. Len(fs)
  PROVE  \E a \in 1 .. Len(s) : \E b \in 0 .. Len(s) :
            /\ fs[i] = Bundle!Frame(SubSeq(s, a, b)) /\ a <= b
            /\ i # 1 => a # 1 /\ \E c \in 1 .. (a - 1) : fs[i - 1] = Bundle!Frame(SubSeq(s, c, a - 1))
PROOF
  <1> DEFINE cuts == {j \in 1 .. Len(s) : j = 1 \/ s[j].cfg # s[j - 1].cfg}
  <1> DEFINE k == Cardinality(cuts)
  <1> DEFINE Rise == {at \in [1 .. k -> cuts] : \A x, y \in 1 .. k : x < y => at[x] < at[y]}
  <1>1. PICK at \in Rise : fs = [j \in 1 .. k |-> Bundle!Frame(SubSeq(s, at[j], IF j = k THEN Len(s) ELSE at[j + 1] - 1))]
    BY SameCount DEF Bundle!Bundles
  <1>2. k \in Nat
    <2>1. IsFiniteSet(1 .. Len(s))
      BY FS_Interval
    <2>2. IsFiniteSet(cuts)
      BY <2>1, FS_Subset
    <2>3. QED
      BY <2>2, FS_CardinalityType
  <1>3. \A j \in 1 .. k : at[j] \in 1 .. Len(s)
    BY <1>1
  <1>4. \A x, y \in 1 .. k : x < y => at[x] < at[y]
    BY <1>1
  <1> HIDE DEF k
  <1>5. Len(fs) = k
    BY <1>1, <1>2
  <1>6. Len(s) \in Nat
    OBVIOUS
  <1> DEFINE b == IF i = k THEN Len(s) ELSE at[i + 1] - 1
  <1>7. fs[i] = Bundle!Frame(SubSeq(s, at[i], b))
    BY <1>1, <1>5
  <1>8. at[i] \in 1 .. Len(s) /\ b \in 0 .. Len(s) /\ at[i] <= b
    <2>1. CASE i = k
      BY <1>3, <1>5, <1>6, <2>1
    <2>2. CASE i # k
      <3>1. i + 1 \in 1 .. k /\ i \in 1 .. k /\ i < i + 1
        BY <1>2, <1>5, <2>2
      <3>2. at[i] < at[i + 1] /\ at[i + 1] \in 1 .. Len(s) /\ at[i] \in 1 .. Len(s)
        BY <1>3, <1>4, <3>1
      <3>3. QED
        BY <1>6, <2>2, <3>2
    <2>3. QED
      BY <2>1, <2>2
  <1>9. ASSUME i # 1 PROVE at[i] # 1 /\ \E c \in 1 .. (at[i] - 1) : fs[i - 1] = Bundle!Frame(SubSeq(s, c, at[i] - 1))
    <2>1. i - 1 \in 1 .. k /\ i - 1 # k /\ i \in 1 .. k /\ i - 1 < i /\ (i - 1) + 1 = i
      BY <1>2, <1>5, <1>9
    <2>2. at[i - 1] < at[i] /\ at[i - 1] \in 1 .. Len(s) /\ at[i] \in 1 .. Len(s)
      BY <1>3, <1>4, <2>1
    <2>3. fs[i - 1] = Bundle!Frame(SubSeq(s, at[i - 1], at[i] - 1))
      BY <1>1, <2>1
    <2>4. at[i - 1] \in 1 .. (at[i] - 1) /\ at[i] # 1
      BY <1>6, <2>2
    <2>5. QED
      BY <2>3, <2>4
  <1> HIDE DEF b
  <1>10. QED
    BY <1>7, <1>8, <1>9

(* The commands that leave the samples alone, or close the topic, do not   *)
(* switch the IMU on.                                                      *)
Aside ==
  /\ UNCHANGED <<ring, sampleNo, mark, cfg, out>> /\ (queue' = queue \/ queue' = << >>)
  /\ SinceOn' => SinceOn
  /\ cmd'.pc = "clear" => cmd.pc = "clear"

(* Every command but the two steps of IMU ON is such a step.               *)
LEMMA CommandsAside ==
  ASSUME BundleInv,
         \/ Bundle!Call \/ Bundle!EmitterInit \/ Bundle!Deinit \/ Bundle!Look \/ Bundle!ImuClose \/ Bundle!SensorSet
         \/ Bundle!Flag \/ Bundle!Arm \/ Bundle!Undo \/ Bundle!Disarm \/ Bundle!StopTimer \/ Bundle!StopSamplers
  PROVE  Aside
PROOF
  <1> USE DEF Aside, SinceOn, Bundle!Go, Bundle!Rest, Bundle!Idle, Bundle!drv, Bundle!smp, Bundle!emt, Bundle!sent
  <1>1. cmd = [pc |-> cmd.pc, what |-> cmd.what, on |-> cmd.on, back |-> cmd.back] /\ cmd.what \in {"imu", "sensor"}
        /\ (cmd.back \in {"idle", "flag"})
    BY DEF BundleInv, BundleTyped
  <1>2. CASE Bundle!Call \/ Bundle!EmitterInit \/ Bundle!Deinit
    BY <1>2 DEF Bundle!Call, Bundle!EmitterInit, Bundle!Deinit
  <1>3. CASE Bundle!Look
    BY <1>1, <1>3 DEF Bundle!Look
  <1>4. CASE Bundle!ImuClose
    BY <1>1, <1>4 DEF Bundle!ImuClose
  <1>5. CASE Bundle!SensorSet
    BY <1>1, <1>5 DEF Bundle!SensorSet
  <1>6. CASE Bundle!Flag
    <2>1. g_imu_on' => SinceOn
      BY <1>1, <1>6 DEF Bundle!Flag, Bundle!SetOn
    <2>2. cmd'.pc \in {"arm", "idle", "disarm"}
      BY <1>1, <1>6 DEF Bundle!Flag
    <2>3. QED
      BY <1>6, <2>1, <2>2 DEF Bundle!Flag
  <1>7. CASE Bundle!Arm
    <2>1. cmd'.pc \in {"undo", "idle"}
      <3>1. CASE Bundle!Go("idle")
        BY <3>1
      <3>2. CASE cmd' = [cmd EXCEPT !.pc = "undo", !.on = FALSE, !.back = "idle"]
        <4>1. cmd' = [pc |-> "undo", what |-> cmd.what, on |-> FALSE, back |-> "idle"]
          BY <1>1, <3>2
        <4>2. QED
          BY <4>1
      <3>3. QED
        BY <1>7, <3>1, <3>2 DEF Bundle!Arm
    <2>2. QED
      BY <1>7, <2>1 DEF Bundle!Arm
  <1>8. CASE Bundle!Undo
    <2>1. cmd'.pc = "sampler"
      BY <1>1, <1>8 DEF Bundle!Undo
    <2>2. g_imu_on' => g_imu_on
      BY <1>1, <1>8 DEF Bundle!Undo, Bundle!SetOn
    <2>3. QED
      BY <1>8, <2>1, <2>2 DEF Bundle!Undo
  <1>9. CASE Bundle!Disarm
    BY <1>1, <1>9 DEF Bundle!Disarm
  <1>10. CASE Bundle!StopTimer
    BY <1>1, <1>10 DEF Bundle!StopTimer
  <1>11. CASE Bundle!StopSamplers
    BY <1>1, <1>11 DEF Bundle!StopSamplers
  <1>12. QED
    BY <1>2, <1>3, <1>4, <1>5, <1>6, <1>7, <1>8, <1>9, <1>10, <1>11

(* A tick takes the front of the ring, the whole of it where there is no   *)
(* consumer, or nothing.                                                   *)
LEMMA EmitDrains ==
  ASSUME Bundle!BundleEmitterAssumption, ring \in Seq(Samples), Bundle!Emit
  PROVE  \E k \in 0 .. Len(ring) :
             \/ UNCHANGED <<ring, out>> /\ (frames' = << >> \/ frames' = Bundle!Empty)
             \/ ring' = << >> /\ UNCHANGED out /\ frames' = << >>
             \/ /\ ring' = SubSeq(ring, k + 1, Len(ring))
                /\ out' = IF SubSeq(ring, 1, k) = << >> THEN out ELSE SubSeq(ring, 1, k)[Len(SubSeq(ring, 1, k))].no
                /\ frames' \in Bundle!Bundles(SubSeq(ring, 1, k)) /\ g_imu_on
PROOF
  <1> DEFINE k == IF Len(ring) < PerFrame THEN Len(ring) ELSE PerFrame
  <1>1. k \in 0 .. Len(ring)
    BY DEF Bundle!BundleEmitterAssumption
  <1> HIDE DEF k
  <1>2. CASE ~consumer
    <2>1. CASE g_imu_on
      BY <1>1, <1>2, <2>1 DEF Bundle!Emit
    <2>2. CASE ~g_imu_on
      BY <1>1, <1>2, <2>2 DEF Bundle!Emit
    <2>3. QED
      BY <2>1, <2>2
  <1>3. CASE consumer /\ g_imu_on
    <2>1. /\ ring' = SubSeq(ring, k + 1, Len(ring))
          /\ out' = IF SubSeq(ring, 1, k) = << >> THEN out ELSE SubSeq(ring, 1, k)[Len(SubSeq(ring, 1, k))].no
          /\ frames' \in Bundle!Bundles(SubSeq(ring, 1, k))
      BY <1>3 DEF Bundle!Emit, Bundle!Drain, k
    <2>2. QED
      BY <1>1, <1>3, <2>1
  <1>4. CASE consumer /\ ~g_imu_on
    <2>1. ring' = ring /\ out' = out /\ frames' \in Bundle!Bundles(<< >>)
      BY <1>4 DEF Bundle!Emit, Bundle!Drain
    <2>2. frames' = Bundle!Empty
      BY <2>1 DEF Bundle!Bundles
    <2>3. QED
      BY <1>1, <2>1, <2>2
  <1>5. QED
    BY <1>2, <1>3, <1>4

(* The samples stay in order.                                              *)
LEMMA OrderStep == ASSUME Bundle!BundleEmitterAssumption, BundleInv, OrderInv, [Bundle!Next]_(Bundle!vars) PROVE OrderInv'
PROOF
  <1>1. /\ ring \in Seq(Samples) /\ queue \in Seq(Samples) /\ sampleNo \in Nat /\ out \in Nat /\ mark \in Nat /\ cfg \in Config
        /\ out <= sampleNo /\ mark <= sampleNo /\ Len(ring) <= Ring - 1
        /\ NumbersRise(ring) /\ NumbersRise(queue) /\ AllBefore(ring, queue)
        /\ AllUpTo(ring, sampleNo) /\ AllUpTo(queue, sampleNo) /\ AllAbove(ring, out) /\ AllAbove(queue, out)
    BY DEF OrderInv
  <1>2. (SinceOn => AllAbove(ring, mark)) /\ (SinceOn \/ cmd.pc = "clear" => AllAbove(queue, mark))
    BY DEF OrderInv
  <1>3. CASE Aside
    <2>1. UNCHANGED <<ring, sampleNo, mark, cfg, out>> /\ (SinceOn' => SinceOn) /\ (cmd'.pc = "clear" => cmd.pc = "clear")
      BY <1>3 DEF Aside
    <2>2. CASE queue' = queue
      BY <1>1, <1>2, <2>1, <2>2 DEF OrderInv
    <2>3. CASE queue' = << >>
      <3>1. queue' \in Seq(Samples) /\ NumbersRise(queue') /\ AllBefore(ring, queue') /\ \A a : AllUpTo(queue', a) /\ AllAbove(queue', a)
        BY <2>3 DEF NumbersRise, AllBefore, AllUpTo, AllAbove
      <3>2. QED
        BY <1>1, <1>2, <2>1, <3>1 DEF OrderInv
    <2>4. QED
      BY <1>3, <2>2, <2>3 DEF Aside
  <1>4. CASE Bundle!Sample
    <2>1. /\ sampleNo' = sampleNo + 1 /\ queue' = Append(queue, [no |-> sampleNo + 1, cfg |-> cfg])
          /\ UNCHANGED <<cfg, ring, out, mark>>
          /\ SinceOn' = SinceOn /\ cmd' = cmd
      BY <1>4 DEF Bundle!Sample, SinceOn, Bundle!smp, Bundle!emt, Bundle!sent
    <2>2. /\ queue' \in Seq(Samples) /\ NumbersRise(queue') /\ AllBefore(ring, queue')
          /\ AllUpTo(ring, sampleNo + 1) /\ AllUpTo(queue', sampleNo + 1)
          /\ \A a \in Nat : a <= sampleNo /\ AllAbove(queue, a) => AllAbove(queue', a)
      BY <1>1, <2>1, NewSampleIsLast
    <2>3. AllAbove(queue', out)
      BY <1>1, <2>2
    <2>4. SinceOn' \/ cmd'.pc = "clear" => AllAbove(queue', mark)
      BY <1>1, <1>2, <2>1, <2>2
    <2>5. sampleNo + 1 \in Nat /\ out <= sampleNo + 1 /\ mark <= sampleNo + 1
      BY <1>1
    <2>6. QED
      BY <1>1, <1>2, <2>1, <2>2, <2>3, <2>4, <2>5 DEF OrderInv
  <1>5. CASE Bundle!Process
    <2>1. CASE queue = << >>
      <3>1. UNCHANGED <<ring, queue, sampleNo, out, mark, cfg, cmd, g_imu_on>>
        BY <1>5, <2>1 DEF Bundle!Process, Bundle!emt
      <3>2. QED
        BY <3>1 DEF OrderInv, SinceOn
    <2>2. CASE queue # << >>
      <3>1. /\ ring' = Bundle!Push(ring, Head(queue)) /\ queue' = Tail(queue)
            /\ UNCHANGED <<sampleNo, out, mark, cfg, cmd>> /\ SinceOn' = SinceOn
        BY <1>5, <2>2 DEF Bundle!Process, Bundle!emt, SinceOn
      <3> HIDE DEF NumbersRise, AllBefore, AllUpTo, AllAbove
      <3>2. /\ ring' \in Seq(Samples) /\ queue' \in Seq(Samples) /\ Len(ring') <= Ring - 1
            /\ NumbersRise(ring') /\ NumbersRise(queue') /\ AllBefore(ring', queue')
        BY <1>1, <2>2, <3>1, PushKeepsOrder
      <3>3. ASSUME NEW a \in Nat PROVE AllUpTo(ring, a) /\ AllUpTo(queue, a) => AllUpTo(ring', a) /\ AllUpTo(queue', a)
        BY <1>1, <2>2, <3>1, PushKeepsOrder
      <3>4. ASSUME NEW a \in Nat PROVE AllAbove(queue, a) => AllAbove(queue', a)
        BY <1>1, <2>2, <3>1, PushKeepsOrder
      <3>5. ASSUME NEW a \in Nat PROVE AllAbove(ring, a) /\ AllAbove(queue, a) => AllAbove(ring', a)
        BY <1>1, <2>2, <3>1, PushKeepsOrder
      <3>6. QED
        BY <1>1, <1>2, <3>1, <3>2, <3>3, <3>4, <3>5 DEF OrderInv
    <2>3. QED
      BY <2>1, <2>2
  <1>6. CASE Bundle!Emit
    <2>1. UNCHANGED <<queue, sampleNo, mark, cfg, cmd>> /\ SinceOn' = SinceOn
      BY <1>6 DEF Bundle!Emit, Bundle!drv, SinceOn
    <2>2. PICK k \in 0 .. Len(ring) :
             \/ UNCHANGED <<ring, out>>
             \/ ring' = << >> /\ UNCHANGED out
             \/ /\ ring' = SubSeq(ring, k + 1, Len(ring))
                /\ out' = IF SubSeq(ring, 1, k) = << >> THEN out ELSE SubSeq(ring, 1, k)[Len(SubSeq(ring, 1, k))].no
      BY <1>1, <1>6, EmitDrains
    <2>3. CASE UNCHANGED <<ring, out>>
      BY <2>1, <2>3 DEF OrderInv, SinceOn
    <2>4. CASE ring' = << >> /\ UNCHANGED out
      <3>1. ring' \in Seq(Samples) /\ NumbersRise(ring') /\ AllBefore(ring', queue) /\ \A a : AllUpTo(ring', a) /\ AllAbove(ring', a)
        BY <2>4 DEF NumbersRise, AllBefore, AllUpTo, AllAbove
      <3>2. Len(ring') <= Ring - 1
        BY <2>4 DEF Bundle!BundleEmitterAssumption
      <3>3. QED
        BY <1>1, <1>2, <2>1, <2>4, <3>1, <3>2 DEF OrderInv
    <2>5. CASE /\ ring' = SubSeq(ring, k + 1, Len(ring))
               /\ out' = IF SubSeq(ring, 1, k) = << >> THEN out ELSE SubSeq(ring, 1, k)[Len(SubSeq(ring, 1, k))].no
      <3> DEFINE got == SubSeq(ring, 1, k)
      <3>1. /\ ring' \in Seq(Samples) /\ Len(ring') = Len(ring) - k /\ NumbersRise(ring') /\ AllBefore(ring', queue)
            /\ \A a \in Nat : AllAbove(ring, a) => AllAbove(ring', a)
            /\ \A a \in Nat : AllUpTo(ring, a) => AllUpTo(ring', a)
            /\ got # << >> => /\ got[Len(got)] \in Samples /\ AllAbove(ring', got[Len(got)].no) /\ AllAbove(queue, got[Len(got)].no)
                             /\ \A a \in Nat : AllUpTo(ring, a) => got[Len(got)].no <= a
        BY <1>1, <2>5, DrainKeepsOrder
      <3>2. Len(ring') <= Ring - 1
        <4>1. Ring \in Nat /\ k \in Nat /\ Len(ring) \in Nat
          BY <1>1 DEF Bundle!BundleEmitterAssumption
        <4>2. Len(ring') = Len(ring) - k
          BY <3>1
        <4>3. QED
          BY <1>1, <4>1, <4>2
      <3>3. out' \in Nat /\ out' <= sampleNo /\ AllAbove(ring', out') /\ AllAbove(queue, out')
        <4>1. CASE got = << >>
          BY <1>1, <2>5, <3>1, <4>1
        <4>2. CASE got # << >>
          <5>1. out' = got[Len(got)].no /\ got[Len(got)].no \in Nat
            BY <2>5, <3>1, <4>2 DEF Samples
          <5>2. QED
            BY <1>1, <3>1, <4>2, <5>1
        <4>3. QED
          BY <4>1, <4>2
      <3> HIDE DEF got
      <3>4. QED
        BY <1>1, <1>2, <2>1, <3>1, <3>2, <3>3 DEF OrderInv
    <2>6. QED
      BY <2>2, <2>3, <2>4, <2>5
  <1>7. CASE Bundle!ImuOpen
    <2>1. cmd.on /\ cmd.pc = "sampler" /\ ~g_imu_on
      BY <1>7 DEF Bundle!ImuOpen, BundleInv, BundleAgrees
    <2>2. UNCHANGED <<cfg, sampleNo, ring, out>> /\ g_imu_on' = g_imu_on
      BY <1>7 DEF Bundle!ImuOpen, Bundle!emt, Bundle!Rest, Bundle!sent
    <2>3. ~SinceOn'
      BY <1>7, <2>1, <2>2 DEF Bundle!ImuOpen, SinceOn, Bundle!Go, Bundle!Idle, BundleInv, BundleTyped
    <2>4. CASE queue' = << >> /\ mark' = sampleNo
      <3>1. queue' \in Seq(Samples) /\ NumbersRise(queue') /\ AllBefore(ring, queue') /\ \A a : AllUpTo(queue', a) /\ AllAbove(queue', a)
        BY <2>4 DEF NumbersRise, AllBefore, AllUpTo, AllAbove
      <3>2. QED
        BY <1>1, <2>2, <2>3, <2>4, <3>1 DEF OrderInv
    <2>5. CASE Bundle!Go("idle") /\ UNCHANGED <<queue, mark>>
      <3>1. cmd'.pc # "clear"
        BY <2>5 DEF Bundle!Go, Bundle!Idle
      <3>2. QED
        BY <1>1, <2>2, <2>3, <2>5, <3>1 DEF OrderInv
    <2>6. QED
      BY <1>7, <2>4, <2>5 DEF Bundle!ImuOpen
  <1>8. CASE Bundle!ImuClear
    <2>1. cmd.pc = "clear" /\ ring' = << >> /\ UNCHANGED <<cfg, sampleNo, queue, out, mark>>
      BY <1>8 DEF Bundle!ImuClear, Bundle!drv, Bundle!Rest, Bundle!sent
    <2>2. ring' \in Seq(Samples) /\ NumbersRise(ring') /\ AllBefore(ring', queue) /\ \A a : AllUpTo(ring', a) /\ AllAbove(ring', a)
      BY <2>1 DEF NumbersRise, AllBefore, AllUpTo, AllAbove
    <2>3. Len(ring') <= Ring - 1
      BY <2>1 DEF Bundle!BundleEmitterAssumption
    <2>4. QED
      BY <1>1, <1>2, <2>1, <2>2, <2>3 DEF OrderInv
  <1>9. CASE Bundle!SetConfig
    <2>1. cfg' \in Config /\ UNCHANGED <<sampleNo, queue, ring, out, mark, cmd, g_imu_on>>
      BY <1>9 DEF Bundle!SetConfig, Bundle!smp, Bundle!emt, Bundle!sent
    <2>2. QED
      BY <2>1 DEF OrderInv, SinceOn
  <1>10. CASE Bundle!Consumer \/ Bundle!ProcessStart \/ Bundle!TickStart \/ Bundle!TickLock \/ UNCHANGED Bundle!vars
    <2>1. UNCHANGED <<cfg, sampleNo, queue, ring, out, mark, cmd, g_imu_on>>
      BY <1>10 DEF Bundle!Consumer, Bundle!ProcessStart, Bundle!TickStart, Bundle!TickLock, Bundle!vars, Bundle!drv, Bundle!smp, Bundle!emt, Bundle!sent
    <2>2. QED
      BY <2>1 DEF OrderInv, SinceOn
  <1>11. QED
    BY <1>3, <1>4, <1>5, <1>6, <1>7, <1>8, <1>9, <1>10, CommandsAside DEF Bundle!Next, Bundle!Worker, Bundle!Command

(* Only a tick changes the frames.                                         *)
LEMMA OnlyEmitSends == ASSUME [Bundle!Next]_(Bundle!vars), frames' # frames PROVE Bundle!Emit
PROOF
  <1>1. ASSUME Bundle!Sample \/ Bundle!SetConfig \/ Bundle!Consumer \/ Bundle!ProcessStart \/ Bundle!Process \/ Bundle!TickStart \/ Bundle!TickLock PROVE FALSE
    BY <1>1 DEF Bundle!Sample, Bundle!SetConfig, Bundle!Consumer, Bundle!ProcessStart, Bundle!Process, Bundle!TickStart, Bundle!TickLock, Bundle!sent
  <1>2. ASSUME Bundle!Call \/ Bundle!EmitterInit \/ Bundle!Deinit \/ Bundle!Command PROVE FALSE
    BY <1>2
    DEF Bundle!Call, Bundle!EmitterInit, Bundle!Deinit, Bundle!Command, Bundle!Look, Bundle!ImuOpen, Bundle!ImuClear, Bundle!ImuClose, Bundle!SensorSet, Bundle!Flag, Bundle!Arm, Bundle!Undo, Bundle!Disarm, Bundle!StopTimer,
        Bundle!StopSamplers, Bundle!Rest, Bundle!sent
  <1>3. ~UNCHANGED Bundle!vars
    BY DEF Bundle!vars
  <1>4. QED
    BY <1>1, <1>2, <1>3 DEF Bundle!Next, Bundle!Worker

(* What a tick sends is in order and follows what was sent before, and     *)
(* after IMU ON it is from after it.                                       *)
LEMMA FramesInOrder ==
  ASSUME Bundle!BundleEmitterAssumption, OrderInv, [Bundle!Next]_(Bundle!vars), frames' # frames, NEW i \in 1 .. Len(frames'), frames'[i].samples # << >>
  PROVE  /\ frames'[i].samples[1].no > (IF i = 1 THEN out ELSE frames'[i - 1].samples[Len(frames'[i - 1].samples)].no)
         /\ \A j \in 1 .. (Len(frames'[i].samples) - 1) : frames'[i].samples[j].no < frames'[i].samples[j + 1].no
         /\ g_imu_on => frames'[i].samples[1].no > mark
PROOF
  <1>1. /\ ring \in Seq(Samples) /\ queue \in Seq(Samples) /\ out \in Nat /\ mark \in Nat
        /\ NumbersRise(ring) /\ AllBefore(ring, queue) /\ AllAbove(ring, out)
        /\ g_imu_on => AllAbove(ring, mark)
    BY DEF OrderInv, SinceOn
  <1>2. PICK k \in 0 .. Len(ring) :
             \/ frames' = << >> \/ frames' = Bundle!Empty
             \/ frames' \in Bundle!Bundles(SubSeq(ring, 1, k)) /\ g_imu_on
    BY <1>1, OnlyEmitSends, EmitDrains
  <1> DEFINE s == SubSeq(ring, 1, k)
  <1>3. frames' # << >>
    <2>1. 1 .. Len(<< >>) = {}
      OBVIOUS
    <2>2. QED
      BY <2>1
  <1>4. frames' # Bundle!Empty
    <2> SUFFICES ASSUME frames' = Bundle!Empty PROVE FALSE
      OBVIOUS
    <2>1. i = 1 /\ frames'[1].samples = << >>
      BY DEF Bundle!Empty
    <2>2. QED
      BY <2>1
  <1>5. s # << >>
    <2> SUFFICES ASSUME s = << >> PROVE FALSE
      OBVIOUS
    <2>1. frames' \in Bundle!Bundles(<< >>)
      BY <1>2, <1>3, <1>4
    <2>2. QED
      BY <1>4, <2>1 DEF Bundle!Bundles
  <1>6. /\ s \in Seq(Samples) /\ NumbersRise(s) /\ AllAbove(s, out) /\ (g_imu_on => AllAbove(s, mark))
    BY <1>1, DrainKeepsOrder
  <1>7. frames' \in Bundle!Bundles(s)
    BY <1>2, <1>3, <1>4
  <1> HIDE DEF s
  <1>8. PICK a \in 1 .. Len(s) : \E b \in 0 .. Len(s) :
            /\ frames'[i] = Bundle!Frame(SubSeq(s, a, b)) /\ a <= b
            /\ i # 1 => a # 1 /\ \E c \in 1 .. (a - 1) : frames'[i - 1] = Bundle!Frame(SubSeq(s, c, a - 1))
    BY <1>5, <1>6, <1>7, FramesAreRuns
  <1>9. PICK b \in 0 .. Len(s) :
            /\ frames'[i] = Bundle!Frame(SubSeq(s, a, b)) /\ a <= b
            /\ i # 1 => a # 1 /\ \E c \in 1 .. (a - 1) : frames'[i - 1] = Bundle!Frame(SubSeq(s, c, a - 1))
    BY <1>8
  <1>10. /\ frames'[i].samples = SubSeq(s, a, b) /\ Len(SubSeq(s, a, b)) = b - a + 1
         /\ \A j \in 1 .. (b - a + 1) : SubSeq(s, a, b)[j] = s[a + j - 1]
    <2>1. a \in 1 .. Len(s) /\ b \in 1 .. Len(s) /\ a <= b
      BY <1>6, <1>9
    <2>2. frames'[i].samples = SubSeq(s, a, b)
      BY <1>9 DEF Bundle!Frame
    <2>3. Len(SubSeq(s, a, b)) = b - a + 1
      BY <1>6, <2>1
    <2>4. \A j \in 1 .. (b - a + 1) : SubSeq(s, a, b)[j] = s[a + j - 1]
      BY <1>6, <2>1
    <2>5. QED
      BY <2>2, <2>3, <2>4
  <1>11. frames'[i].samples[1] = s[a]
    BY <1>9, <1>10
  <1>12. s[a].no \in Nat /\ s[a].no > out /\ (g_imu_on => s[a].no > mark)
    BY <1>1, <1>6, Numbered DEF AllAbove
  <1>13. ASSUME NEW j \in 1 .. (Len(frames'[i].samples) - 1)
         PROVE  frames'[i].samples[j].no < frames'[i].samples[j + 1].no
    <2> DEFINE len == Len(frames'[i].samples)
    <2>0. len = b - a + 1 /\ j \in 1 .. (len - 1)
      BY <1>10
    <2> HIDE DEF len
    <2>1. j \in 1 .. (b - a + 1) /\ j + 1 \in 1 .. (b - a + 1)
      BY <2>0
    <2>2. frames'[i].samples[j] = s[a + j - 1] /\ frames'[i].samples[j + 1] = s[a + (j + 1) - 1]
      BY <1>10, <2>1
    <2>3. a + j - 1 \in 1 .. Len(s) /\ a + (j + 1) - 1 \in 1 .. Len(s) /\ a + j - 1 < a + (j + 1) - 1
      BY <1>6, <1>9, <2>1
    <2>4. QED
      BY <1>6, <2>2, <2>3 DEF NumbersRise
  <1>14. ASSUME i # 1 PROVE s[a].no > frames'[i - 1].samples[Len(frames'[i - 1].samples)].no
    <2>1. PICK c \in 1 .. (a - 1) : frames'[i - 1] = Bundle!Frame(SubSeq(s, c, a - 1))
      BY <1>9, <1>14
    <2>2. c \in 1 .. Len(s) /\ a - 1 \in 1 .. Len(s) /\ c <= a - 1
      BY <1>6, <2>1
    <2>3. Len(SubSeq(s, c, a - 1)) = a - c /\ SubSeq(s, c, a - 1)[a - c] = s[a - 1]
      BY <1>6, <2>2
    <2>4. frames'[i - 1].samples[Len(frames'[i - 1].samples)] = s[a - 1]
      BY <2>1, <2>3 DEF Bundle!Frame
    <2>5. a - 1 < a
      OBVIOUS
    <2>6. s[a - 1].no < s[a].no
      BY <1>6, <2>2, <2>5 DEF NumbersRise
    <2>7. s[a - 1].no \in Nat
      BY <1>6, <2>2, Numbered
    <2>8. QED
      BY <1>12, <2>4, <2>6, <2>7
  <1>15. CASE i = 1
    BY <1>11, <1>12, <1>13, <1>15
  <1>16. CASE i # 1
    BY <1>11, <1>12, <1>13, <1>14, <1>16
  <1>17. QED
    BY <1>15, <1>16

(* The samples of a tick follow one another and those of the ticks before, *)
(* and after IMU ON no sample from before it is sent.                      *)
LEMMA SamplesMean == ASSUME Bundle!BundleEmitterAssumption, OrderInv, [Bundle!Next]_(Bundle!vars) PROVE Bundle!SamplesInOrder /\ Bundle!NoStale
PROOF
  <1>1. Bundle!SamplesInOrder
    BY FramesInOrder DEF Bundle!SamplesInOrder
  <1>2. Bundle!NoStale
    BY FramesInOrder DEF Bundle!NoStale
  <1>3. QED
    BY <1>1, <1>2

(* imu_sampler_drain and emit_bundle: samples leave in the order they were *)
(* taken, each once, and IMU ON leaves those of an earlier run behind.     *)
THEOREM SamplesLeaveInOrder == ASSUME Bundle!BundleEmitterAssumption PROVE Bundle!Spec => [][Bundle!SamplesInOrder /\ Bundle!NoStale]_(Bundle!vars)
PROOF
  <1>1. Bundle!Init => BundleInv /\ OrderInv
    BY BundleStarts, OrderStarts
  <1>2. BundleInv /\ OrderInv /\ [Bundle!Next]_(Bundle!vars) => BundleInv' /\ OrderInv'
    BY BundleStep, OrderStep
  <1>3. BundleInv /\ OrderInv /\ [Bundle!Next]_(Bundle!vars) => [Bundle!SamplesInOrder /\ Bundle!NoStale]_(Bundle!vars)
    BY SamplesMean
  <1>4. QED
    BY <1>1, <1>2, <1>3, PTL DEF Bundle!Spec

(* The counters and configurations, and no frame has more samples than the *)
(* header can say.                                                         *)
FramesFit == \A i \in 1 .. Len(frames) : Len(frames[i].samples) <= PerFrame
BundleCounts == sampleNo \in 0 .. MaxSamples /\ s_last \in Config \cup {0} /\ FramesFit

LEMMA CountsStart == ASSUME Bundle!BundleEmitterAssumption, Bundle!Init PROVE BundleCounts
  BY DEF Bundle!BundleEmitterAssumption, Bundle!Init, Bundle!InitOf, BundleCounts, FramesFit

(* A part of what a tick drains fits into a frame.                         *)
LEMMA RunFits ==
  ASSUME Bundle!BundleEmitterAssumption, NEW s \in Seq(Samples), Len(s) <= PerFrame,
         NEW a \in 1 .. Len(s), NEW b \in 0 .. Len(s), a <= b
  PROVE  Len(Bundle!Frame(SubSeq(s, a, b)).samples) <= PerFrame
PROOF
  <1>1. Bundle!Frame(SubSeq(s, a, b)).samples = SubSeq(s, a, b)
    BY DEF Bundle!Frame
  <1>2. Len(s) \in Nat /\ PerFrame \in Nat /\ b <= Len(s) /\ a \in Nat /\ a >= 1 /\ b \in Nat
    BY DEF Bundle!BundleEmitterAssumption
  <1>3. Len(SubSeq(s, a, b)) = b - a + 1
    BY <1>2, SubSeqProperties
  <1>4. QED
    BY <1>1, <1>2, <1>3

(* The frames of a tick.                                                   *)
LEMMA EmitFits ==
  ASSUME Bundle!BundleEmitterAssumption, ring \in Seq(Samples), s_last \in Config \cup {0}, Bundle!Emit
  PROVE  s_last' \in Config \cup {0} /\ FramesFit'
PROOF
  <1> DEFINE k == IF Len(ring) < PerFrame THEN Len(ring) ELSE PerFrame
             got == SubSeq(ring, 1, k)
  <1>1. k \in 0 .. Len(ring) /\ k <= PerFrame
    BY DEF Bundle!BundleEmitterAssumption
  <1> HIDE DEF k
  <1>2. got \in Seq(Samples) /\ Len(got) = k
    BY <1>1, SubSeqProperties
  <1>3. CASE ~consumer
    BY <1>3 DEF Bundle!Emit, FramesFit
  <1>4. CASE consumer /\ (~g_imu_on \/ got = << >>)
    <2>1. frames' \in Bundle!Bundles(<< >>) /\ s_last' = s_last
      BY <1>4 DEF Bundle!Emit, Bundle!Drain, k
    <2>2. frames' = Bundle!Empty
      BY <2>1 DEF Bundle!Bundles
    <2>3. Len(Bundle!Empty) = 1 /\ Bundle!Empty[1].samples = << >> /\ 0 <= PerFrame
      BY DEF Bundle!Empty, Bundle!BundleEmitterAssumption
    <2>4. QED
      BY <2>1, <2>2, <2>3 DEF FramesFit
  <1>5. CASE consumer /\ g_imu_on /\ got # << >>
    <2>1. frames' \in Bundle!Bundles(got) /\ s_last' = got[Len(got)].cfg
      BY <1>5 DEF Bundle!Emit, Bundle!Drain, k
    <2> HIDE DEF got
    <2>2. got[Len(got)] \in Samples
      BY <1>2, <1>5
    <2>3. ASSUME NEW i \in 1 .. Len(frames') PROVE Len(frames'[i].samples) <= PerFrame
      <3>1. PICK a \in 1 .. Len(got) : \E b \in 0 .. Len(got) : frames'[i] = Bundle!Frame(SubSeq(got, a, b)) /\ a <= b
        BY <1>2, <1>5, <2>1, FramesAreRuns
      <3>2. PICK b \in 0 .. Len(got) : frames'[i] = Bundle!Frame(SubSeq(got, a, b)) /\ a <= b
        BY <3>1
      <3>3. QED
        BY <1>1, <1>2, <3>2, RunFits
    <2>4. QED
      BY <2>1, <2>2, <2>3 DEF FramesFit, Samples
  <1>6. QED
    BY <1>3, <1>4, <1>5

LEMMA CountsStep ==
  ASSUME Bundle!BundleEmitterAssumption, OrderInv, BundleCounts, [Bundle!Next]_(Bundle!vars) PROVE BundleCounts'
PROOF
  <1>1. CASE UNCHANGED <<sampleNo, s_last, frames>>
    BY <1>1 DEF BundleCounts, FramesFit
  <1>2. CASE Bundle!Sample
    <2>1. sampleNo < MaxSamples /\ sampleNo' = sampleNo + 1 /\ UNCHANGED <<s_last, frames>>
      BY <1>2 DEF Bundle!Sample, Bundle!smp, Bundle!emt, Bundle!sent
    <2>2. sampleNo' \in 0 .. MaxSamples
      BY <2>1 DEF BundleCounts, Bundle!BundleEmitterAssumption
    <2>3. QED
      BY <2>1, <2>2 DEF BundleCounts, FramesFit
  <1>3. CASE Bundle!Emit
    <2>1. UNCHANGED sampleNo
      BY <1>3 DEF Bundle!Emit, Bundle!drv
    <2>2. QED
      BY <1>3, <2>1, EmitFits DEF BundleCounts, OrderInv
  <1>4. QED
    BY <1>1, <1>2, <1>3
    DEF Bundle!Next, Bundle!Worker, Bundle!Command, Bundle!SetConfig, Bundle!Consumer, Bundle!ProcessStart, Bundle!Process, Bundle!TickStart, Bundle!TickLock, Bundle!Call, Bundle!EmitterInit, Bundle!Deinit,
        Bundle!Look, Bundle!ImuOpen, Bundle!ImuClear, Bundle!ImuClose, Bundle!SensorSet, Bundle!Flag, Bundle!Arm, Bundle!Undo, Bundle!Disarm, Bundle!StopTimer, Bundle!StopSamplers, Bundle!Rest, Bundle!drv, Bundle!smp,
        Bundle!emt, Bundle!sent, Bundle!vars

(* The ring keeps its spare slot (imu_sampler.c), and a frame has no more  *)
(* samples than its header can say (bundle_emitter.c).                     *)
THEOREM BundleBooksKept == ASSUME Bundle!BundleEmitterAssumption PROVE Bundle!Spec => []Bundle!TypeOK
PROOF
  <1> DEFINE I == BundleInv /\ BundleBooks /\ OrderInv /\ BundleCounts
  <1>1. Bundle!Init => I
    BY BundleStarts, BooksStart, OrderStarts, CountsStart
  <1>2. I /\ [Bundle!Next]_(Bundle!vars) => I'
    BY BundleStep, BooksStep, OrderStep, CountsStep
  <1>3. I => Bundle!TypeOK
    BY DEF BundleInv, BundleTyped, BundleRuns, BundleBooks, BooksTyped, OrderInv, BundleCounts, FramesFit, Bundle!TypeOK
  <1> HIDE DEF I
  <1>4. QED
    BY <1>1, <1>2, <1>3, PTL DEF Bundle!Spec

Publication == [kind : {"data", "sync", "gone"}, no : Nat \ {0}, port : Int]
Entry == [bound : BOOLEAN, port : Int, fresh : BOOLEAN, payload : Nat, from : Int, last : Nat]

(* What a class's entry and the snapshot show is older than what waits to  *)
(* be read; a descriptor that is closed leaves nothing to read, nothing    *)
(* fresh and no callback.                                                  *)
Cached(c) ==
  /\ topic[c] \in Seq(Publication) /\ cls[c] \in Entry /\ snap[c].payload \in Nat /\ fd[c] \in BOOLEAN
  /\ NumbersRise(topic[c]) /\ AllUpTo(topic[c], pubs) /\ AllAbove(topic[c], cacheMark)
  /\ AllAbove(topic[c], cls[c].payload) /\ AllAbove(topic[c], snap[c].payload)
  /\ cls[c].payload <= pubs /\ snap[c].payload <= pubs
  /\ ~fd[c] => topic[c] = << >> /\ ~cls[c].fresh /\ cacheWk # c
  /\ cls[c].fresh => cls[c].bound /\ cls[c].port = cls[c].from /\ cls[c].payload > cacheMark /\ cls[c].payload > snap[c].payload
  /\ snap[c].fresh => snap[c].bound /\ snap[c].port = snap[c].from /\ snap[c].payload # 0

(* Whether sampling is on, and how far a command has come.                 *)
Switching ==
  /\ cacheCmd.pc = "open" => ~g_enabled
  /\ cacheCmd.pc = "close" => g_enabled /\ \A c \in Class : c \notin cacheCmd.todo => ~fd[c]
  /\ ~g_enabled /\ cacheCmd.pc # "open" => \A c \in Class : ~fd[c]
  /\ g_enabled \in BOOLEAN
  /\ "pc" \in DOMAIN cacheCmd

CacheTyped ==
  /\ pubs \in Nat /\ cacheMark \in Nat /\ clock \in Nat /\ cacheMark <= pubs
  /\ topic = [c \in Class |-> topic[c]] /\ cls = [c \in Class |-> cls[c]] /\ snap = [c \in Class |-> snap[c]]
  /\ fd = [c \in Class |-> fd[c]] /\ port \in [Class -> Int]
  /\ cacheWk \in Class \cup {Bundle!Nobody}

CacheInv == CacheTyped /\ Switching /\ \A c \in Class : Cached(c)

(* The sampler starts off, with every descriptor closed.                   *)
LEMMA CacheStarts == ASSUME Bundle!Nobody \notin Class, Bundle!CacheInit PROVE CacheInv
PROOF
  <1>1. CacheTyped
    BY DEF Bundle!CacheInit, CacheTyped, Bundle!NoPort
  <1>2. Switching
    BY DEF Bundle!CacheInit, Switching, Bundle!CacheIdle
  <1>3. ASSUME NEW c \in Class PROVE Cached(c)
    BY <1>3 DEF Bundle!CacheInit, Cached, Bundle!Unbound, Bundle!NoSnap, Bundle!NoPort, Entry, NumbersRise, AllUpTo, AllAbove
  <1>4. QED
    BY <1>1, <1>2, <1>3 DEF CacheInv

(* What is read first is the oldest.                                       *)
LEMMA OldestFirst ==
  ASSUME NEW s \in Seq(Publication), s # << >>, NumbersRise(s)
  PROVE  /\ Head(s) \in Publication /\ Tail(s) \in Seq(Publication) /\ NumbersRise(Tail(s)) /\ AllAbove(Tail(s), Head(s).no)
         /\ \A a \in Nat : AllAbove(s, a) => AllAbove(Tail(s), a) /\ Head(s).no > a
         /\ \A a \in Nat : AllUpTo(s, a) => AllUpTo(Tail(s), a) /\ Head(s).no <= a
PROOF
  <1> DEFINE t == Tail(s)
  <1>1. /\ t \in Seq(Publication) /\ Len(t) = Len(s) - 1 /\ Len(s) \in Nat \ {0}
        /\ \A i \in 1 .. Len(t) : i + 1 \in 1 .. Len(s) /\ t[i] = s[i + 1]
        /\ Head(s) = s[1] /\ 1 \in 1 .. Len(s)
    OBVIOUS
  <1>2. s[1] \in Publication /\ s[1].no \in Nat
    <2>1. s[1] \in Publication
      BY <1>1
    <2>2. QED
      BY <2>1 DEF Publication
  <1> HIDE DEF t
  <1>3. NumbersRise(t)
    <2> SUFFICES ASSUME NEW i \in 1 .. Len(t), NEW j \in 1 .. Len(t), i < j PROVE t[i].no < t[j].no
      BY DEF NumbersRise
    <2>1. i + 1 \in 1 .. Len(s) /\ j + 1 \in 1 .. Len(s) /\ i + 1 < j + 1
      BY <1>1
    <2>2. s[i + 1].no < s[j + 1].no
      BY <2>1 DEF NumbersRise
    <2>3. QED
      BY <1>1, <2>2
  <1>4. AllAbove(t, s[1].no)
    <2> SUFFICES ASSUME NEW i \in 1 .. Len(t) PROVE s[1].no < t[i].no
      BY DEF AllAbove
    <2>1. i + 1 \in 1 .. Len(s) /\ 1 < i + 1
      BY <1>1
    <2>2. QED
      BY <1>1, <2>1 DEF NumbersRise
  <1>5. ASSUME NEW a \in Nat, AllAbove(s, a) PROVE AllAbove(t, a) /\ s[1].no > a
    BY <1>1, <1>2, <1>5 DEF AllAbove
  <1>6. ASSUME NEW a \in Nat, AllUpTo(s, a) PROVE AllUpTo(t, a) /\ s[1].no <= a
    BY <1>1, <1>6 DEF AllUpTo
  <1>7. t = Tail(s) /\ Head(s) = s[1]
    BY <1>1 DEF t
  <1>8. QED
    BY <1>1, <1>2, <1>3, <1>4, <1>5, <1>6, <1>7

(* A publication waits behind those before it.                             *)
LEMMA NewestLast ==
  ASSUME NEW s \in Seq(Publication), NEW m \in Nat, NEW x \in Publication, x.no = m + 1, NumbersRise(s), AllUpTo(s, m)
  PROVE  /\ Append(s, x) \in Seq(Publication) /\ NumbersRise(Append(s, x)) /\ AllUpTo(Append(s, x), m + 1) /\ AllUpTo(s, m + 1)
         /\ \A a \in Nat : a <= m /\ AllAbove(s, a) => AllAbove(Append(s, x), a)
PROOF
  <1> DEFINE q == Append(s, x)
  <1>1. /\ q \in Seq(Publication) /\ Len(q) = Len(s) + 1 /\ Len(s) \in Nat
        /\ \A i \in 1 .. Len(q) : (i = Len(q) /\ q[i].no = m + 1) \/ (i \in 1 .. Len(s) /\ q[i] = s[i])
    OBVIOUS
  <1>2. ASSUME NEW i \in 1 .. Len(s) PROVE s[i].no \in Nat /\ s[i].no <= m
    <2>1. s[i] \in Publication
      OBVIOUS
    <2>2. QED
      BY <2>1 DEF Publication, AllUpTo
  <1> HIDE DEF q
  <1>3. NumbersRise(q)
    <2> SUFFICES ASSUME NEW i \in 1 .. Len(q), NEW j \in 1 .. Len(q), i < j PROVE q[i].no < q[j].no
      BY DEF NumbersRise
    <2>1. i \in 1 .. Len(s) /\ q[i] = s[i]
      BY <1>1
    <2>2. CASE j = Len(q) /\ q[j].no = m + 1
      BY <1>2, <2>1, <2>2
    <2>3. CASE j \in 1 .. Len(s) /\ q[j] = s[j]
      BY <2>1, <2>3 DEF NumbersRise
    <2>4. QED
      BY <1>1, <2>2, <2>3
  <1>4. AllUpTo(q, m + 1) /\ AllUpTo(s, m + 1)
    <2>1. AllUpTo(s, m + 1)
      BY <1>2 DEF AllUpTo
    <2>2. ASSUME NEW i \in 1 .. Len(q) PROVE q[i].no <= m + 1
      BY <1>1, <1>2
    <2>3. QED
      BY <2>1, <2>2 DEF AllUpTo
  <1>5. ASSUME NEW a \in Nat, a <= m, AllAbove(s, a) PROVE AllAbove(q, a)
    <2>1. ASSUME NEW i \in 1 .. Len(q) PROVE a < q[i].no
      <3>1. CASE i = Len(q) /\ q[i].no = m + 1
        BY <1>5, <3>1
      <3>2. CASE i \in 1 .. Len(s) /\ q[i] = s[i]
        BY <1>5, <3>2 DEF AllAbove
      <3>3. QED
        BY <1>1, <3>1, <3>2
    <2>2. QED
      BY <2>1 DEF AllAbove
  <1>6. q = Append(s, x)
    BY DEF q
  <1>7. QED
    BY <1>1, <1>3, <1>4, <1>5, <1>6

(* A publication of one class, and the driver's events.                    *)
LEMMA Published ==
  ASSUME CacheInv, NEW c \in Class, NEW kind \in {"data", "sync", "gone"}, NEW p \in Int, Bundle!Publish(c, kind, p), pubs' = pubs + 1,
         Bundle!DrvKeep, port' \in [Class -> Int]
  PROVE  CacheInv'
PROOF
  <1>1. UNCHANGED <<clock, cacheWk, cacheCmd, snap, cacheMark, fd, cls, g_enabled>>
    BY DEF Bundle!DrvKeep, Bundle!cache
  <1>2. CacheTyped'
    <2>1. topic' = [e \in Class |-> topic'[e]]
      <3>1. topic = [e \in Class |-> topic[e]]
        BY DEF CacheInv, CacheTyped
      <3>2. DOMAIN topic' = Class
        BY <3>1 DEF Bundle!Publish
      <3>3. topic' = [e \in DOMAIN topic' |-> topic'[e]]
        BY DEF Bundle!Publish
      <3>4. QED
        BY <3>2, <3>3
    <2>2. QED
      BY <1>1, <2>1 DEF CacheInv, CacheTyped
  <1>3. Switching'
    BY <1>1 DEF CacheInv, Switching
  <1>4. ASSUME NEW d \in Class PROVE Cached(d)'
    <2> DEFINE x == [kind |-> kind, no |-> pubs + 1, port |-> p]
    <2>1. pubs \in Nat /\ cacheMark \in Nat /\ cacheMark <= pubs /\ topic = [e \in Class |-> topic[e]]
      BY DEF CacheInv, CacheTyped
    <2>2. Cached(d)
      BY DEF CacheInv
    <2>3. x \in Publication /\ x.no = pubs + 1
      BY <2>1 DEF Publication
    <2>4. topic'[d] = topic[d] \/ (d = c /\ fd[d] /\ topic'[d] = Append(topic[d], x))
      BY <2>1 DEF Bundle!Publish
    <2> HIDE DEF x
    <2>5. /\ topic[d] \in Seq(Publication) /\ cls[d].payload \in Nat /\ snap[d].payload \in Nat
          /\ cls[d].payload <= pubs /\ snap[d].payload <= pubs
          /\ NumbersRise(topic[d]) /\ AllUpTo(topic[d], pubs) /\ AllAbove(topic[d], cacheMark)
          /\ AllAbove(topic[d], cls[d].payload) /\ AllAbove(topic[d], snap[d].payload)
      BY <2>2 DEF Cached, Entry
    <2>6. /\ topic'[d] \in Seq(Publication) /\ NumbersRise(topic'[d]) /\ AllUpTo(topic'[d], pubs + 1)
          /\ AllAbove(topic'[d], cacheMark) /\ AllAbove(topic'[d], cls[d].payload) /\ AllAbove(topic'[d], snap[d].payload)
      BY <2>1, <2>3, <2>4, <2>5, NewestLast
    <2>7. ~fd[d] => topic'[d] = topic[d]
      BY <2>4
    <2>8. cls[d].payload <= pubs + 1 /\ snap[d].payload <= pubs + 1
      BY <2>1, <2>5
    <2>9. QED
      BY <1>1, <2>2, <2>6, <2>7, <2>8 DEF Cached
  <1>5. QED
    BY <1>2, <1>3, <1>4 DEF CacheInv

(* The driver: data, plugging, and the claim of another program.           *)
LEMMA DriverKeepsCache ==
  ASSUME Bundle!SensorCacheAssumption, CacheInv, NEW c \in Class, Bundle!Data(c) \/ Bundle!Plug(c) \/ Bundle!OtherClaims(c) PROVE CacheInv'
PROOF
  <1>1. port \in [Class -> Int] /\ Port \subseteq Int
    BY DEF CacheInv, CacheTyped, Bundle!SensorCacheAssumption
  <1>2. CASE Bundle!Data(c)
    <2>1. /\ Bundle!Publish(c, "data", port[c]) /\ pubs' = pubs + 1 /\ Bundle!DrvKeep /\ port' = port /\ port[c] \in Int
      BY <1>1, <1>2 DEF Bundle!Data, Bundle!Room
    <2>2. QED
      BY <1>1, <2>1, Published
  <1>3. CASE Bundle!Plug(c)
    <2>1. pubs' = pubs + 1 /\ Bundle!DrvKeep
      BY <1>3 DEF Bundle!Plug, Bundle!Room
    <2>2. CASE port' = [port EXCEPT ![c] = Bundle!NoPort] /\ Bundle!Publish(c, "gone", Bundle!NoPort)
      <3>1. port' \in [Class -> Int] /\ Bundle!NoPort \in Int
        BY <1>1, <2>2 DEF Bundle!NoPort
      <3>2. QED
        BY <2>1, <2>2, <3>1, Published
    <2>3. CASE \E p \in Port : port' = [port EXCEPT ![c] = p] /\ Bundle!Publish(c, "sync", p)
      <3>1. PICK p \in Port : port' = [port EXCEPT ![c] = p] /\ Bundle!Publish(c, "sync", p)
        BY <2>3
      <3>2. port' \in [Class -> Int] /\ p \in Int
        BY <1>1, <3>1
      <3>3. QED
        BY <2>1, <3>1, <3>2, Published
    <2>4. QED
      BY <1>3, <2>2, <2>3 DEF Bundle!Plug
  <1>4. CASE Bundle!OtherClaims(c)
    <2>1. UNCHANGED <<port, topic, pubs, fd, cls, g_enabled, clock, cacheWk, cacheCmd, snap, cacheMark>>
      BY <1>4 DEF Bundle!OtherClaims, Bundle!DrvKeep, Bundle!cache
    <2>2. QED
      BY <2>1 DEF CacheInv, CacheTyped, Switching, Cached
  <1>5. QED
    BY <1>2, <1>3, <1>4

(* The callback of a class, one publication at a time.                     *)
LEMMA ReadKeepsCache ==
  ASSUME Bundle!Nobody \notin Class, CacheInv, NEW c \in Class, Bundle!ReadStart(c) \/ Bundle!Read(c) PROVE CacheInv'
PROOF
  <1>1. CASE Bundle!ReadStart(c)
    <2>1. UNCHANGED <<port, topic, pubs, fd, cls, g_enabled, clock, cacheCmd, snap, cacheMark>> /\ cacheWk' = c /\ fd[c]
      BY <1>1 DEF Bundle!ReadStart, Bundle!WkKeep, Bundle!cache, Bundle!cacheDrv
    <2>2. ASSUME NEW d \in Class PROVE Cached(d)'
      <3>1. Cached(d)
        BY DEF CacheInv
      <3>2. QED
        BY <2>1, <3>1 DEF Cached
    <2>3. CacheTyped' /\ Switching'
      BY <2>1 DEF CacheInv, CacheTyped, Switching
    <2>4. QED
      BY <2>2, <2>3 DEF CacheInv
  <1>2. CASE Bundle!Read(c) /\ topic[c] = << >>
    <2>1. UNCHANGED <<port, topic, pubs, fd, cls, g_enabled, clock, cacheCmd, snap, cacheMark>> /\ cacheWk' = Bundle!Nobody
      BY <1>2 DEF Bundle!Read, Bundle!WkKeep
    <2>2. ASSUME NEW d \in Class PROVE Cached(d)'
      <3>1. Cached(d) /\ d # Bundle!Nobody
        BY DEF CacheInv
      <3>2. QED
        BY <2>1, <3>1 DEF Cached
    <2>3. CacheTyped' /\ Switching'
      BY <2>1 DEF CacheInv, CacheTyped, Switching
    <2>4. QED
      BY <2>2, <2>3 DEF CacheInv
  <1>3. CASE Bundle!Read(c) /\ topic[c] # << >>
    <2>1. /\ cls' = [cls EXCEPT ![c] = Bundle!Update(@, Head(topic[c]))] /\ topic' = [topic EXCEPT ![c] = Tail(@)]
          /\ UNCHANGED <<port, pubs, fd, g_enabled, clock, cacheWk, cacheCmd, snap, cacheMark>>
      BY <1>3 DEF Bundle!Read, Bundle!WkKeep
    <2>2. /\ topic = [d \in Class |-> topic[d]] /\ cls = [d \in Class |-> cls[d]]
          /\ pubs \in Nat /\ cacheMark \in Nat /\ clock \in Nat
      BY DEF CacheInv, CacheTyped
    <2>3. topic' = [d \in Class |-> IF d = c THEN Tail(topic[c]) ELSE topic[d]]
      BY <2>1, <2>2
    <2>4. cls' = [d \in Class |-> IF d = c THEN Bundle!Update(cls[c], Head(topic[c])) ELSE cls[d]]
      BY <2>1, <2>2
    <2>5. CacheTyped' /\ Switching'
      BY <2>1, <2>2, <2>3, <2>4 DEF CacheInv, CacheTyped, Switching
    <2>6. ASSUME NEW d \in Class, d # c PROVE Cached(d)'
      <3>1. Cached(d) /\ topic'[d] = topic[d] /\ cls'[d] = cls[d]
        BY <2>3, <2>4, <2>6 DEF CacheInv
      <3>2. QED
        BY <2>1, <3>1 DEF Cached
    <2>7. Cached(c)'
      <3> DEFINE s == topic[c]
      <3>1. Cached(c) /\ s # << >>
        BY <1>3 DEF CacheInv
      <3>2. /\ s \in Seq(Publication) /\ snap[c].payload \in Nat
            /\ NumbersRise(s) /\ AllUpTo(s, pubs) /\ AllAbove(s, cacheMark) /\ AllAbove(s, snap[c].payload)
            /\ snap[c].payload <= pubs /\ fd[c] \in BOOLEAN /\ fd[c]
            /\ snap[c].fresh => snap[c].bound /\ snap[c].port = snap[c].from /\ snap[c].payload # 0
        BY <3>1 DEF Cached
      <3>3. topic'[c] = Tail(s) /\ cls'[c] = Bundle!Update(cls[c], Head(s))
        BY <2>3, <2>4
      <3> HIDE DEF s
      <3>4. /\ Head(s) \in Publication /\ Tail(s) \in Seq(Publication) /\ NumbersRise(Tail(s)) /\ AllAbove(Tail(s), Head(s).no)
            /\ AllAbove(Tail(s), cacheMark) /\ AllAbove(Tail(s), snap[c].payload) /\ AllUpTo(Tail(s), pubs)
            /\ Head(s).no > cacheMark /\ Head(s).no > snap[c].payload /\ Head(s).no <= pubs
        BY <2>2, <3>1, <3>2, OldestFirst
      <3>5. /\ Bundle!Update(cls[c], Head(s)) \in Entry
            /\ Bundle!Update(cls[c], Head(s)).payload \in {0, Head(s).no}
            /\ Bundle!Update(cls[c], Head(s)).fresh =>
                  /\ Bundle!Update(cls[c], Head(s)).bound /\ Bundle!Update(cls[c], Head(s)).port = Bundle!Update(cls[c], Head(s)).from
                  /\ Bundle!Update(cls[c], Head(s)).payload = Head(s).no
        <4> DEFINE h == Head(s)
        <4>1. h.kind \in {"data", "sync", "gone"} /\ h.no \in Nat /\ h.port \in Int /\ Bundle!NoPort \in Int /\ clock \in Nat
          BY <2>2, <3>4 DEF Publication, Bundle!NoPort
        <4> HIDE DEF h
        <4> DEFINE u == Bundle!Update(cls[c], h)
        <4> DEFINE Good == /\ u \in Entry /\ u.payload \in {0, h.no}
                           /\ u.fresh => u.bound /\ u.port = u.from /\ u.payload = h.no
        <4>2. ASSUME h.kind = "data" PROVE Good
          <5>1. Bundle!Update(cls[c], h) = [bound |-> TRUE, port |-> h.port, last |-> clock, fresh |-> TRUE, payload |-> h.no, from |-> h.port]
            BY <4>2 DEF Bundle!Update
          <5>2. QED
            BY <4>1, <5>1 DEF Entry
        <4>3. ASSUME h.kind # "data" PROVE Good
          <5>1. PICK b \in BOOLEAN : Bundle!Update(cls[c], h) = [bound |-> b, port |-> h.port, last |-> clock, fresh |-> FALSE, payload |-> 0,
                                                         from |-> Bundle!NoPort]
            BY <4>3 DEF Bundle!Update
          <5>2. QED
            BY <4>1, <5>1 DEF Entry
        <4>4. Good
          BY <4>2, <4>3
        <4>5. QED
          BY <4>4 DEF h
      <3>6. AllAbove(Tail(s), 0)
        <4>1. ASSUME NEW i \in 1 .. Len(Tail(s)) PROVE 0 < Tail(s)[i].no
          <5>1. Tail(s)[i] \in Publication
            BY <3>4
          <5>2. QED
            BY <5>1 DEF Publication
        <4>2. QED
          BY <4>1 DEF AllAbove
      <3>7. AllAbove(Tail(s), cls'[c].payload) /\ cls'[c].payload <= pubs
        BY <2>2, <3>3, <3>4, <3>5, <3>6
      <3>8. cls'[c].fresh => /\ cls'[c].bound /\ cls'[c].port = cls'[c].from /\ cls'[c].payload > cacheMark
                             /\ cls'[c].payload > snap[c].payload
        BY <3>3, <3>4, <3>5
      <3>9. QED
        BY <2>1, <3>2, <3>3, <3>4, <3>5, <3>7, <3>8 DEF Cached
    <2>8. QED
      BY <2>5, <2>6, <2>7 DEF CacheInv
  <1>4. QED
    BY <1>1, <1>2, <1>3

(* A snapshot takes what is fresh, once.                                   *)
LEMMA SnapshotKeepsCache == ASSUME CacheInv, Bundle!Snapshot PROVE CacheInv'
PROOF
  <1>1. /\ snap' = [c \in Class |-> Bundle!Shown(cls[c])] /\ cls' = [c \in Class |-> Bundle!Cleared(cls[c])]
        /\ UNCHANGED <<port, topic, pubs, fd, g_enabled, clock, cacheWk, cacheCmd, cacheMark>>
    BY DEF Bundle!Snapshot, Bundle!WkKeep, Bundle!cacheDrv
  <1>2. CacheTyped' /\ Switching'
    BY <1>1 DEF CacheInv, CacheTyped, Switching
  <1>3. ASSUME NEW c \in Class PROVE Cached(c)'
    <2>1. Cached(c) /\ snap'[c] = Bundle!Shown(cls[c]) /\ cls'[c] = Bundle!Cleared(cls[c])
      BY <1>1 DEF CacheInv
    <2>2. pubs \in Nat /\ cacheMark \in Nat /\ (~g_enabled => cls'[c] = cls[c])
      BY <2>1 DEF CacheInv, CacheTyped, Bundle!Cleared
    <2>3. cls[c] \in Entry /\ cls[c].payload \in Nat
      BY <2>1 DEF Cached, Entry
    <2>4. cls'[c] \in Entry /\ cls'[c].payload = cls[c].payload /\ (g_enabled => ~cls'[c].fresh)
      BY <2>1, <2>3 DEF Bundle!Cleared, Entry
    <2>5. AllAbove(topic[c], 0)
      <3>1. ASSUME NEW i \in 1 .. Len(topic[c]) PROVE 0 < topic[c][i].no
        <4>1. topic[c][i] \in Publication
          BY <2>1 DEF Cached
        <4>2. QED
          BY <4>1 DEF Publication
      <3>2. QED
        BY <3>1 DEF AllAbove
    <2>6. CASE g_enabled
      <3>1. /\ snap'[c].payload = (IF cls[c].fresh THEN cls[c].payload ELSE 0) /\ snap'[c].fresh = cls[c].fresh
            /\ snap'[c].bound = cls[c].bound /\ snap'[c].port = cls[c].port /\ snap'[c].from = cls[c].from
        BY <2>1, <2>6 DEF Bundle!Shown
      <3>2. snap'[c].payload \in Nat /\ snap'[c].payload <= pubs /\ AllAbove(topic[c], snap'[c].payload)
        BY <2>1, <2>2, <2>3, <2>5, <3>1 DEF Cached
      <3>3. snap'[c].fresh => snap'[c].bound /\ snap'[c].port = snap'[c].from /\ snap'[c].payload # 0
        BY <2>1, <2>2, <2>3, <3>1 DEF Cached
      <3>4. QED
        BY <1>1, <2>1, <2>4, <2>6, <3>2, <3>3 DEF Cached
    <2>7. CASE ~g_enabled
      <3>1. snap'[c].payload = 0 /\ ~snap'[c].fresh
        BY <2>1, <2>7 DEF Bundle!Shown, Bundle!NoSnap
      <3>2. cls[c].fresh => cls[c].payload > 0
        BY <2>1, <2>2, <2>3 DEF Cached
      <3>3. QED
        BY <1>1, <2>1, <2>2, <2>4, <2>5, <2>7, <3>1, <3>2 DEF Cached
    <2>8. QED
      BY <1>2, <2>6, <2>7 DEF Switching
  <1>4. QED
    BY <1>2, <1>3 DEF CacheInv

(* SENSOR ON and OFF, class by class.                                      *)
LEMMA SwitchKeepsCache ==
  ASSUME Bundle!Nobody \notin Class, CacheInv, Bundle!Switch \/ Bundle!Switched \/ \E c \in Class : Bundle!ClassOpen(c) \/ Bundle!ClassClose(c) PROVE CacheInv'
PROOF
  <1>1. /\ pubs \in Nat /\ cacheMark \in Nat /\ clock \in Nat /\ g_enabled \in BOOLEAN
        /\ topic = [d \in Class |-> topic[d]] /\ cls = [d \in Class |-> cls[d]] /\ fd = [d \in Class |-> fd[d]]
    BY DEF CacheInv, CacheTyped, Switching
  <1>2. CASE Bundle!Switch
    <2>1. /\ UNCHANGED <<port, topic, pubs, fd, cls, g_enabled, clock, cacheWk, snap>>
          /\ cacheMark' = IF g_enabled THEN cacheMark ELSE pubs
          /\ cacheCmd.pc = "idle"
      BY <1>2 DEF Bundle!Switch, Bundle!CmdKeep, Bundle!cache, Bundle!cacheDrv, Bundle!CacheIdle
    <2>2. cacheCmd'.pc = (IF g_enabled THEN "close" ELSE "open") /\ cacheCmd'.todo = Class /\ "pc" \in DOMAIN cacheCmd'
      BY <1>2 DEF Bundle!Switch, Bundle!CacheIdle
    <2>3. ~g_enabled => \A c \in Class : ~fd[c]
      BY <2>1 DEF CacheInv, Switching
    <2>4. CacheTyped'
      BY <1>1, <2>1 DEF CacheInv, CacheTyped
    <2>5. Switching'
      BY <2>1, <2>2, <2>3 DEF CacheInv, Switching
    <2>6. ASSUME NEW c \in Class PROVE Cached(c)'
      <3>1. Cached(c)
        BY DEF CacheInv
      <3>2. CASE g_enabled
        BY <2>1, <3>1, <3>2 DEF Cached
      <3>3. CASE ~g_enabled
        <4>1. topic[c] = << >> /\ ~cls[c].fresh
          BY <2>3, <3>1, <3>3 DEF Cached
        <4>2. AllAbove(topic[c], pubs)
          BY <4>1 DEF AllAbove
        <4>3. QED
          BY <2>1, <3>1, <3>3, <4>1, <4>2 DEF Cached
      <3>4. QED
        BY <3>2, <3>3
    <2>7. QED
      BY <2>4, <2>5, <2>6 DEF CacheInv
  <1>3. CASE Bundle!Switched
    <2>1. /\ UNCHANGED <<port, topic, pubs, fd, cls, clock, cacheWk, snap, cacheMark>>
          /\ cacheCmd.pc \in {"open", "close"} /\ cacheCmd.todo = {} /\ g_enabled' = (cacheCmd.pc = "open") /\ cacheCmd'.pc = "idle"
          /\ "pc" \in DOMAIN cacheCmd'
      BY <1>3 DEF Bundle!Switched, Bundle!CmdKeep, Bundle!CacheGo, Bundle!CacheIdle, Bundle!cacheDrv
    <2>2. Switching'
      BY <2>1 DEF CacheInv, Switching
    <2>3. CacheTyped' /\ \A c \in Class : Cached(c)'
      BY <2>1 DEF CacheInv, CacheTyped, Cached
    <2>4. QED
      BY <2>2, <2>3 DEF CacheInv
  <1>4. ASSUME NEW c \in Class, Bundle!ClassOpen(c) PROVE CacheInv'
    <2>1. /\ UNCHANGED <<port, topic, pubs, cls, g_enabled, clock, cacheWk, snap, cacheMark>>
          /\ cacheCmd.pc = "open" /\ (fd' = [fd EXCEPT ![c] = TRUE] \/ fd' = fd)
      BY <1>4 DEF Bundle!ClassOpen, Bundle!CmdKeep, Bundle!cacheDrv
    <2>2. cacheCmd' = [cacheCmd EXCEPT !.todo = @ \ {c}]
      BY <1>4 DEF Bundle!ClassOpen
    <2>3. cacheCmd'.pc = "open" /\ "pc" \in DOMAIN cacheCmd'
      BY <2>1, <2>2 DEF CacheInv, Switching
    <2>4. ~g_enabled
      BY <2>1 DEF CacheInv, Switching
    <2>5. fd' = [d \in Class |-> fd'[d]] /\ \A d \in Class : fd'[d] = fd[d] \/ fd'[d] = TRUE
      BY <1>1, <2>1
    <2>6. CacheTyped' /\ Switching'
      BY <1>1, <2>1, <2>3, <2>4, <2>5 DEF CacheInv, CacheTyped, Switching
    <2>7. ASSUME NEW d \in Class PROVE Cached(d)'
      <3>1. Cached(d) /\ (fd'[d] = fd[d] \/ fd'[d] = TRUE)
        BY <2>5 DEF CacheInv
      <3>2. QED
        BY <2>1, <3>1 DEF Cached
    <2>8. QED
      BY <2>6, <2>7 DEF CacheInv
  <1>5. ASSUME NEW c \in Class, Bundle!ClassClose(c) PROVE CacheInv'
    <2>1. /\ UNCHANGED <<port, pubs, g_enabled, clock, cacheWk, snap, cacheMark>> /\ cacheCmd.pc = "close" /\ cacheWk # c
          /\ fd' = [fd EXCEPT ![c] = FALSE] /\ topic' = [topic EXCEPT ![c] = << >>]
          /\ cls' = [cls EXCEPT ![c] = IF fd[c] THEN [Bundle!Unbound EXCEPT !.last = cls[c].last] ELSE @]
      BY <1>5 DEF Bundle!ClassClose, Bundle!CmdKeep
    <2>2. cacheCmd' = [cacheCmd EXCEPT !.todo = @ \ {c}]
      BY <1>5 DEF Bundle!ClassClose
    <2>3. cacheCmd'.pc = "close" /\ \A d \in Class : d \notin cacheCmd'.todo => d = c \/ d \notin cacheCmd.todo
      <3>1. CASE "todo" \in DOMAIN cacheCmd
        BY <2>1, <2>2, <3>1
      <3>2. CASE "todo" \notin DOMAIN cacheCmd
        BY <2>1, <2>2, <3>2
      <3>3. QED
        BY <3>1, <3>2
    <2>4. /\ fd' = [d \in Class |-> IF d = c THEN FALSE ELSE fd[d]]
          /\ topic' = [d \in Class |-> IF d = c THEN << >> ELSE topic[d]]
          /\ cls' = [d \in Class |-> IF d = c THEN (IF fd[c] THEN [Bundle!Unbound EXCEPT !.last = cls[c].last] ELSE cls[c]) ELSE cls[d]]
      BY <1>1, <2>1
    <2>5. CacheTyped'
      BY <1>1, <2>1, <2>4 DEF CacheInv, CacheTyped
    <2>6. Switching'
      <3>1. "pc" \in DOMAIN cacheCmd'
        BY <2>2 DEF CacheInv, Switching
      <3>2. QED
        BY <1>1, <2>1, <2>3, <2>4, <3>1 DEF CacheInv, Switching
    <2>7. ASSUME NEW d \in Class, d # c PROVE Cached(d)'
      <3>1. Cached(d) /\ topic'[d] = topic[d] /\ cls'[d] = cls[d] /\ fd'[d] = fd[d]
        BY <2>4, <2>7 DEF CacheInv
      <3>2. QED
        BY <2>1, <3>1 DEF Cached
    <2>8. Cached(c)'
      <3>1. Cached(c) /\ topic'[c] = << >> /\ fd'[c] = FALSE
        BY <2>4 DEF CacheInv
      <3>2. cls[c] \in Entry /\ cls[c].last \in Nat /\ (~fd[c] => ~cls[c].fresh) /\ cls[c].payload <= pubs
        BY <3>1 DEF Cached, Entry
      <3>3. cls'[c] \in Entry /\ ~cls'[c].fresh /\ cls'[c].payload <= pubs
        <4>1. CASE fd[c]
          <5>1. cls'[c] = [bound |-> FALSE, port |-> Bundle!NoPort, fresh |-> FALSE, payload |-> 0, from |-> Bundle!NoPort, last |-> cls[c].last]
            BY <2>4, <4>1 DEF Bundle!Unbound
          <5>2. QED
            BY <1>1, <3>2, <5>1 DEF Entry, Bundle!NoPort
        <4>2. CASE ~fd[c]
          BY <2>4, <3>2, <4>2
        <4>3. QED
          BY <4>1, <4>2
      <3>4. topic'[c] \in Seq(Publication) /\ NumbersRise(topic'[c]) /\ \A a : AllUpTo(topic'[c], a) /\ AllAbove(topic'[c], a)
        BY <3>1 DEF NumbersRise, AllUpTo, AllAbove
      <3>5. QED
        BY <2>1, <3>1, <3>3, <3>4 DEF Cached
    <2>9. QED
      BY <2>5, <2>6, <2>7, <2>8 DEF CacheInv
  <1>6. QED
    BY <1>2, <1>3, <1>4, <1>5

(* Writes and the clock leave the cache alone.                             *)
LEMMA WritesLeaveCache ==
  ASSUME CacheInv, Bundle!Tick \/ Bundle!WriteClaim \/ Bundle!Info \/ Bundle!Write \/ \E c \in Class, what \in Ops : Bundle!WriteOpen(c, what) PROVE CacheInv'
PROOF
  <1>1. CASE Bundle!Tick
    BY <1>1 DEF Bundle!Tick, CacheInv, CacheTyped, Switching, Cached
  <1>2. CASE Bundle!WriteClaim \/ Bundle!Info \/ Bundle!Write \/ \E c \in Class, what \in Ops : Bundle!WriteOpen(c, what)
    <2>0. "pc" \in DOMAIN cacheCmd
      BY DEF CacheInv, Switching
    <2>1. UNCHANGED <<port, topic, pubs, fd, cls, g_enabled, clock, cacheWk, snap, cacheMark>>
      BY <1>2 DEF Bundle!WriteClaim, Bundle!Info, Bundle!Write, Bundle!WriteOpen, Bundle!WriteKeep, Bundle!CmdKeep, Bundle!cache
    <2>2. cacheCmd'.pc # "open" /\ cacheCmd'.pc # "close" /\ cacheCmd.pc # "open" /\ "pc" \in DOMAIN cacheCmd'
      <3>1. CASE Bundle!WriteClaim
        <4>1. cacheCmd.pc = "claim" /\ (Bundle!CacheGo("info") \/ Bundle!CacheGo("write") \/ Bundle!CacheGo("idle"))
          BY <3>1 DEF Bundle!WriteClaim
        <4>2. CASE Bundle!CacheGo("idle")
          BY <2>0, <4>1, <4>2 DEF Bundle!CacheGo, Bundle!CacheIdle
        <4>3. CASE Bundle!CacheGo("info")
          <5>1. cacheCmd' = [cacheCmd EXCEPT !.pc = "info"]
            BY <4>3 DEF Bundle!CacheGo
          <5>2. QED
            BY <2>0, <4>1, <5>1
        <4>4. CASE Bundle!CacheGo("write")
          <5>1. cacheCmd' = [cacheCmd EXCEPT !.pc = "write"]
            BY <4>4 DEF Bundle!CacheGo
          <5>2. QED
            BY <2>0, <4>1, <5>1
        <4>5. QED
          BY <4>1, <4>2, <4>3, <4>4
      <3>2. CASE Bundle!Info
        <4>1. cacheCmd.pc = "info"
          BY <3>2 DEF Bundle!Info
        <4>2. CASE cacheCmd' = Bundle!CacheIdle
          BY <4>1, <4>2 DEF Bundle!CacheIdle
        <4>3. CASE cacheCmd' = [cacheCmd EXCEPT !.pc = "write", !.port = port[cacheCmd.class]]
          BY <2>0, <4>1, <4>3
        <4>4. QED
          BY <3>2, <4>2, <4>3 DEF Bundle!Info, Bundle!CacheGo
      <3>3. CASE Bundle!Write
        BY <3>3 DEF Bundle!Write, Bundle!CacheGo, Bundle!CacheIdle
      <3>4. CASE \E c \in Class, what \in Ops : Bundle!WriteOpen(c, what)
        <4>1. PICK c \in Class, what \in Ops : Bundle!WriteOpen(c, what)
          BY <3>4
        <4>2. QED
          BY <4>1 DEF Bundle!WriteOpen, Bundle!CacheIdle
      <3>5. QED
        BY <1>2, <3>1, <3>2, <3>3, <3>4
    <2>3. QED
      BY <2>1, <2>2 DEF CacheInv, CacheTyped, Switching, Cached
  <1>3. QED
    BY <1>1, <1>2

(* The driver, the callbacks, the snapshots, the commands and the writes.  *)
LEMMA CacheStep ==
  ASSUME Bundle!SensorCacheAssumption, Bundle!Nobody \notin Class, CacheInv, [Bundle!CacheNext]_(Bundle!cacheVars) PROVE CacheInv'
PROOF
  <1>1. CASE UNCHANGED Bundle!cacheVars
    BY <1>1 DEF Bundle!cacheVars, CacheInv, CacheTyped, Switching, Cached
  <1>2. CASE Bundle!CacheNext
    BY <1>2, DriverKeepsCache, ReadKeepsCache, SnapshotKeepsCache, SwitchKeepsCache, WritesLeaveCache DEF Bundle!CacheNext
  <1>3. QED
    BY <1>1, <1>2

(* Only a snapshot shows.                                                  *)
LEMMA OnlySnapshotShows == ASSUME [Bundle!CacheNext]_(Bundle!cacheVars), snap' # snap PROVE Bundle!Snapshot
PROOF
  <1>1. ASSUME NEW c \in Class, Bundle!Data(c) \/ Bundle!Plug(c) \/ Bundle!OtherClaims(c) \/ Bundle!ReadStart(c) \/ Bundle!Read(c) \/ Bundle!ClassOpen(c) \/ Bundle!ClassClose(c)
        PROVE  FALSE
    BY <1>1 DEF Bundle!Data, Bundle!Plug, Bundle!OtherClaims, Bundle!ReadStart, Bundle!Read, Bundle!ClassOpen, Bundle!ClassClose, Bundle!DrvKeep, Bundle!CmdKeep
  <1>2. ASSUME NEW c \in Class, NEW what \in Ops, Bundle!WriteOpen(c, what) PROVE FALSE
    BY <1>2 DEF Bundle!WriteOpen, Bundle!WriteKeep, Bundle!CmdKeep
  <1>3. ASSUME Bundle!Switch \/ Bundle!Switched \/ Bundle!WriteClaim \/ Bundle!Info \/ Bundle!Write \/ Bundle!Tick PROVE FALSE
    BY <1>3 DEF Bundle!Switch, Bundle!Switched, Bundle!WriteClaim, Bundle!Info, Bundle!Write, Bundle!Tick, Bundle!WriteKeep, Bundle!CmdKeep
  <1>4. ~UNCHANGED Bundle!cacheVars
    BY DEF Bundle!cacheVars
  <1>5. QED
    BY <1>1, <1>2, <1>3, <1>4 DEF Bundle!CacheNext

(* A snapshot shows nothing from before SENSOR ON, and nothing twice.      *)
LEMMA CacheMeans == ASSUME CacheInv, [Bundle!CacheNext]_(Bundle!cacheVars) PROVE Bundle!CacheNoStale /\ Bundle!ShownOnce
PROOF
  <1>1. ASSUME NEW c \in Class, snap' # snap, snap'[c].fresh
        PROVE  snap'[c].payload > cacheMark /\ snap'[c].payload > snap[c].payload
    <2>1. snap'[c] = Bundle!Shown(cls[c])
      BY <1>1, OnlySnapshotShows DEF Bundle!Snapshot
    <2>2. g_enabled /\ cls[c].fresh /\ snap'[c].payload = cls[c].payload
      BY <1>1, <2>1 DEF Bundle!Shown, Bundle!NoSnap
    <2>3. QED
      BY <2>2 DEF CacheInv, Cached
  <1>2. QED
    BY <1>1 DEF Bundle!CacheNoStale, Bundle!ShownOnce

(* sensor_sampler_snapshot: after SENSOR ON no publication from before it  *)
(* is shown, and each is shown as fresh once.                              *)
THEOREM ShownIsNew ==
  ASSUME Bundle!SensorCacheAssumption PROVE Bundle!CacheSpec => [][Bundle!CacheNoStale /\ Bundle!ShownOnce]_(Bundle!cacheVars)
PROOF
  <1> Bundle!Nobody \notin Class
    BY DEF Bundle!SensorCacheAssumption, Bundle!Nobody
  <1>1. Bundle!CacheInit => CacheInv
    BY CacheStarts
  <1>2. CacheInv /\ [Bundle!CacheNext]_(Bundle!cacheVars) => CacheInv'
    BY CacheStep
  <1>3. CacheInv /\ [Bundle!CacheNext]_(Bundle!cacheVars) => [Bundle!CacheNoStale /\ Bundle!ShownOnce]_(Bundle!cacheVars)
    BY CacheMeans
  <1>4. QED
    BY <1>1, <1>2, <1>3, PTL DEF Bundle!CacheSpec

(* on_read: a callback has an open descriptor, and what a snapshot calls   *)
(* fresh is of a bound class and from the port it names.                   *)
THEOREM CacheIsTrue ==
  ASSUME Bundle!SensorCacheAssumption PROVE Bundle!CacheSpec => [](Bundle!ReadsOpen /\ Bundle!FreshIsTrue)
PROOF
  <1> Bundle!Nobody \notin Class
    BY DEF Bundle!SensorCacheAssumption, Bundle!Nobody
  <1>1. Bundle!CacheInit => CacheInv
    BY CacheStarts
  <1>2. CacheInv /\ [Bundle!CacheNext]_(Bundle!cacheVars) => CacheInv'
    BY CacheStep
  <1>3. CacheInv => Bundle!ReadsOpen /\ Bundle!FreshIsTrue
    BY DEF CacheInv, CacheTyped, Cached, Bundle!ReadsOpen, Bundle!FreshIsTrue
  <1>4. QED
    BY <1>1, <1>2, <1>3, PTL DEF Bundle!CacheSpec

-----------------------------------------------------------------------------
(* Writes to sensors *)

Writes == INSTANCE BundleEmitter WITH lock <- bundleLock, n <- sampleNo,
    Ring <- WritesRing, PerFrame <- WritesPerFrame, Config <- WritesConfig, Rate <- WritesRate,
    TickHz <- WritesTickHz, MaxSamples <- WritesMaxSamples, MaxQueue <- WritesMaxQueue,
    MaxCalls <- WritesMaxCalls, Class <- WritesClass, Port <- WritesPort, Ops <- WritesOps, Cooldown <- WritesCooldown,
    Saturated <- WritesSaturated, Wrap <- WritesWrap, MaxPub <- WritesMaxPub,
    CacheMaxQueue <- WritesCacheMaxQueue, CacheMaxCalls <- WritesCacheMaxCalls, MaxTime <- WritesMaxTime

Holder == [owner : {Writes!Nobody, "we", "other"}, gen : Nat]

(* The claim of a class: ours while a write of it is under way, and not    *)
(* younger than the binding; the port it was asked for is the one bound    *)
(* while the claim is of this binding.                                     *)
ClaimInv ==
  /\ port \in [WritesClass -> Int] /\ gen \in [WritesClass -> Nat] /\ claim \in [WritesClass -> Holder]
  /\ {"pc", "class", "port"} \subseteq DOMAIN cacheCmd
  /\ cacheCmd.pc \in {"claim", "info", "write"} => cacheCmd.class \in WritesClass
  /\ \A c \in WritesClass : /\ claim[c].gen <= gen[c]
                            /\ claim[c].owner = "we" => cacheCmd.pc \in {"info", "write"} /\ c = cacheCmd.class
  /\ LET c == cacheCmd.class
     IN cacheCmd.pc = "write" /\ claim[c].owner = "we" /\ claim[c].gen = gen[c] =>
           cacheCmd.port \in {Writes!NoPort, port[c]}
  /\ cacheCmd.pc \in {"claim", "info"} => cacheCmd.port = Writes!NoPort
  /\ done.port # Writes!NoPort => done.port = done.real

(* The last write and the time of it.                                      *)
CoolInv ==
  /\ clock \in Nat \ {0} /\ clock <= WritesMaxTime + 1 /\ g_last_write \in [WritesClass -> Nat]
  /\ done.at \in Nat /\ done.at <= clock
  /\ \A c \in WritesClass : done.class = c => done.at # 0 /\ g_last_write[c] = done.at
  /\ cacheCmd.pc \in {"claim", "info", "write"} /\ done.class = cacheCmd.class => clock - done.at >= WritesCooldown
  /\ done.gap >= WritesCooldown

(* Nothing is claimed or written when the sampler starts.                  *)
LEMMA WritesStart == ASSUME Writes!SensorCacheAssumption, Writes!Nobody \notin WritesClass, Writes!CacheInit PROVE ClaimInv /\ CoolInv
PROOF
  <1>1. ClaimInv
    BY DEF Writes!CacheInit, ClaimInv, Writes!CacheIdle, Writes!NoClaim, Writes!NoDone, Writes!NoPort, Holder, Writes!Nobody
  <1>2. CoolInv
    BY DEF Writes!SensorCacheAssumption, Writes!CacheInit, CoolInv, Writes!CacheIdle, Writes!NoDone, Writes!NoPort
  <1>3. QED
    BY <1>1, <1>2

(* The driver changes a binding and with it the generation; another        *)
(* program takes a claim that nobody has, or gives it back.                *)
LEMMA DriverKeepsClaims ==
  ASSUME Writes!SensorCacheAssumption, ClaimInv, NEW c \in WritesClass, Writes!Data(c) \/ Writes!Plug(c) \/ Writes!OtherClaims(c) PROVE ClaimInv'
PROOF
  <1>1. UNCHANGED <<cacheCmd, done>>
    BY DEF Writes!Data, Writes!Plug, Writes!OtherClaims, Writes!DrvKeep
  <1>2. /\ port \in [WritesClass -> Int] /\ gen \in [WritesClass -> Nat] /\ claim \in [WritesClass -> Holder]
        /\ \A d \in WritesClass : claim[d].gen \in Nat /\ claim[d].gen <= gen[d]
    BY DEF ClaimInv, Holder
  <1>3. CASE Writes!Data(c)
    BY <1>1, <1>3 DEF Writes!Data, ClaimInv
  <1>4. CASE Writes!Plug(c)
    <2>1. gen' = [gen EXCEPT ![c] = @ + 1] /\ claim' = claim
      BY <1>4 DEF Writes!Plug
    <2>2. port' \in [WritesClass -> Int] /\ \A d \in WritesClass : d # c => port'[d] = port[d]
      BY <1>2, <1>4 DEF Writes!Plug, Writes!NoPort, Writes!SensorCacheAssumption
    <2>3. gen' \in [WritesClass -> Nat] /\ gen'[c] = gen[c] + 1 /\ \A d \in WritesClass : d # c => gen'[d] = gen[d]
      BY <1>2, <2>1
    <2>4. claim[c].gen < gen'[c]
      BY <1>2, <2>3
    <2>5. \A d \in WritesClass : claim[d].gen <= gen'[d]
      BY <1>2, <2>3, <2>4
    <2>6. cacheCmd.pc = "write" => cacheCmd.class \in WritesClass
      BY DEF ClaimInv
    <2>7. cacheCmd.pc = "write" /\ claim[cacheCmd.class].owner = "we" /\ claim[cacheCmd.class].gen = gen'[cacheCmd.class] =>
             cacheCmd.port \in {Writes!NoPort, port'[cacheCmd.class]}
      BY <1>2, <2>2, <2>3, <2>4, <2>6 DEF ClaimInv
    <2>8. QED
      BY <1>1, <2>1, <2>2, <2>3, <2>5, <2>7 DEF ClaimInv
  <1>5. CASE Writes!OtherClaims(c)
    <2>1. UNCHANGED <<port, gen>>
      BY <1>5 DEF Writes!OtherClaims
    <2>2. /\ claim' \in [WritesClass -> Holder] /\ claim'[c].gen <= gen[c] /\ claim'[c].owner # "we" /\ claim[c].owner # "we"
          /\ \A d \in WritesClass : d # c => claim'[d] = claim[d]
      <3>1. CASE claim[c].owner = Writes!Nobody /\ claim' = [claim EXCEPT ![c] = [owner |-> "other", gen |-> gen[c]]]
        <4>1. [owner |-> "other", gen |-> gen[c]] \in Holder
          BY <1>2 DEF Holder
        <4>2. QED
          BY <1>2, <3>1, <4>1 DEF Writes!Nobody
      <3>2. CASE claim[c].owner = "other" /\ claim' = [claim EXCEPT ![c] = Writes!NoClaim]
        <4>1. Writes!NoClaim \in Holder /\ Writes!NoClaim.gen = 0 /\ Writes!NoClaim.owner # "we"
          BY DEF Holder, Writes!NoClaim, Writes!Nobody
        <4>2. QED
          BY <1>2, <3>2, <4>1
      <3>3. QED
        BY <1>5, <3>1, <3>2 DEF Writes!OtherClaims
    <2>3. QED
      BY <1>1, <2>1, <2>2 DEF ClaimInv
  <1>6. QED
    BY <1>3, <1>4, <1>5

(* The callbacks, the snapshots, the switch and the clock claim nothing.   *)
LEMMA OthersLeaveClaims ==
  ASSUME ClaimInv,
         \/ \E c \in WritesClass : Writes!ReadStart(c) \/ Writes!Read(c) \/ Writes!ClassOpen(c) \/ Writes!ClassClose(c)
         \/ Writes!Snapshot \/ Writes!Switch \/ Writes!Switched \/ Writes!Tick
  PROVE  ClaimInv'
PROOF
  <1>1. UNCHANGED <<port, gen, claim, done>>
    BY DEF Writes!ReadStart, Writes!Read, Writes!ClassOpen, Writes!ClassClose, Writes!Snapshot, Writes!Switch, Writes!Switched, Writes!Tick, Writes!WkKeep, Writes!CmdKeep, Writes!cacheDrv
  <1>2. CASE (\E c \in WritesClass : Writes!ReadStart(c) \/ Writes!Read(c)) \/ Writes!Snapshot \/ Writes!Tick
    <2>1. cacheCmd' = cacheCmd
      BY <1>2 DEF Writes!ReadStart, Writes!Read, Writes!Snapshot, Writes!Tick, Writes!WkKeep
    <2>2. QED
      BY <1>1, <2>1 DEF ClaimInv
  <1>3. CASE (\E c \in WritesClass : Writes!ClassOpen(c) \/ Writes!ClassClose(c)) \/ Writes!Switch \/ Writes!Switched
    <2>1. cacheCmd.pc \in {"open", "close", "idle"}
      BY <1>3 DEF Writes!ClassOpen, Writes!ClassClose, Writes!Switch, Writes!Switched, Writes!CacheIdle
    <2>2. cacheCmd'.pc \in {"open", "close", "idle"} /\ {"pc", "class", "port"} \subseteq DOMAIN cacheCmd'
      <3>1. CASE \E c \in WritesClass : Writes!ClassOpen(c) \/ Writes!ClassClose(c)
        <4>1. PICK c \in WritesClass : cacheCmd' = [cacheCmd EXCEPT !.todo = @ \ {c}] /\ cacheCmd.pc \in {"open", "close"}
          BY <3>1 DEF Writes!ClassOpen, Writes!ClassClose
        <4>2. {"pc", "class", "port"} \subseteq DOMAIN cacheCmd
          BY DEF ClaimInv
        <4>3. QED
          BY <4>1, <4>2
      <3>2. CASE Writes!Switch
        BY <3>2 DEF Writes!Switch, Writes!CacheIdle
      <3>3. CASE Writes!Switched
        BY <3>3 DEF Writes!Switched, Writes!CacheGo, Writes!CacheIdle
      <3>4. QED
        BY <1>3, <3>1, <3>2, <3>3
    <2>3. QED
      BY <1>1, <2>1, <2>2 DEF ClaimInv
  <1>4. QED
    BY <1>2, <1>3

(* A write: its open, its claim, the port it asks for, and the write.      *)
LEMMA WriteKeepsClaims ==
  ASSUME Writes!SensorCacheAssumption, Writes!Nobody \notin WritesClass, ClaimInv,
         Writes!WriteClaim \/ Writes!Info \/ Writes!Write \/ \E c \in WritesClass, what \in WritesOps : Writes!WriteOpen(c, what)
  PROVE  ClaimInv'
PROOF
  <1>1. /\ port \in [WritesClass -> Int] /\ gen \in [WritesClass -> Nat] /\ claim \in [WritesClass -> Holder]
        /\ "pc" \in DOMAIN cacheCmd /\ "class" \in DOMAIN cacheCmd /\ "port" \in DOMAIN cacheCmd
        /\ \A d \in WritesClass : claim[d].gen <= gen[d]
    BY DEF ClaimInv
  <1>2. UNCHANGED <<port, gen>>
    BY DEF Writes!WriteClaim, Writes!Info, Writes!Write, Writes!WriteOpen, Writes!WriteKeep
  <1> DEFINE c == cacheCmd.class
  <1> DEFINE Given == /\ claim' \in [WritesClass -> Holder] /\ \A d \in WritesClass : claim'[d].gen <= gen[d] /\ claim'[d].owner # "we"
  <1>3. ASSUME cacheCmd.pc \in {"info", "write"}, Writes!Release PROVE Given
    <2>1. c \in WritesClass /\ \A d \in WritesClass : claim[d].owner = "we" => d = c
      BY <1>3 DEF ClaimInv
    <2>2. claim' = [claim EXCEPT ![c] = IF claim[c].owner = "we" THEN Writes!NoClaim ELSE claim[c]]
      BY <1>3 DEF Writes!Release
    <2>3. Writes!NoClaim \in Holder /\ Writes!NoClaim.gen = 0 /\ Writes!NoClaim.owner # "we"
      BY DEF Holder, Writes!NoClaim, Writes!Nobody
    <2>4. claim'[c].owner # "we" /\ claim'[c].gen <= gen[c] /\ claim'[c] \in Holder
      <3>1. CASE claim[c].owner = "we"
        <4>1. claim'[c] = Writes!NoClaim /\ gen[c] \in Nat
          BY <1>1, <2>1, <2>2, <3>1
        <4>2. QED
          BY <2>3, <4>1
      <3>2. CASE claim[c].owner # "we"
        BY <1>1, <2>1, <2>2, <3>2
      <3>3. QED
        BY <3>1, <3>2
    <2>5. ASSUME NEW d \in WritesClass, d # c PROVE claim'[d] = claim[d]
      BY <1>1, <2>1, <2>2, <2>5
    <2>6. claim' = [d \in WritesClass |-> claim'[d]]
      BY <1>1, <2>2
    <2>7. \A d \in WritesClass : claim'[d] \in Holder /\ claim'[d].gen <= gen[d] /\ claim'[d].owner # "we"
      BY <1>1, <2>1, <2>4, <2>5
    <2>8. QED
      BY <2>6, <2>7
  <1>4. CASE \E d \in WritesClass, what \in WritesOps : Writes!WriteOpen(d, what)
    <2>1. PICK d \in WritesClass, what \in WritesOps : Writes!WriteOpen(d, what)
      BY <1>4
    <2>2. cacheCmd'.pc = "claim" /\ cacheCmd'.class = d /\ cacheCmd'.port = Writes!NoPort /\ cacheCmd.pc = "idle"
          /\ {"pc", "class", "port"} \subseteq DOMAIN cacheCmd'
      BY <2>1 DEF Writes!WriteOpen, Writes!CacheIdle
    <2>3. UNCHANGED <<claim, done>>
      BY <2>1 DEF Writes!WriteOpen
    <2>4. QED
      BY <1>2, <2>2, <2>3 DEF ClaimInv
  <1>5. CASE Writes!WriteClaim
    <2>1. c \in WritesClass /\ cacheCmd.port = Writes!NoPort /\ cacheCmd.pc = "claim" /\ \A d \in WritesClass : claim[d].owner # "we"
      BY <1>5 DEF Writes!WriteClaim, ClaimInv
    <2>2. CASE /\ claim' = [claim EXCEPT ![c] = [owner |-> "we", gen |-> gen[c]]]
               /\ Writes!CacheGo("info") \/ Writes!CacheGo("write")
      <3>1. [owner |-> "we", gen |-> gen[c]] \in Holder
        BY <1>1, <2>1 DEF Holder
      <3>2. /\ claim' \in [WritesClass -> Holder] /\ claim'[c].gen = gen[c] /\ gen[c] \in Nat
            /\ \A d \in WritesClass : d # c => claim'[d] = claim[d]
        BY <1>1, <2>1, <2>2, <3>1
      <3>3. cacheCmd'.pc \in {"info", "write"} /\ cacheCmd'.class = c /\ cacheCmd'.port = Writes!NoPort
            /\ {"pc", "class", "port"} \subseteq DOMAIN cacheCmd'
        <4>1. CASE Writes!CacheGo("info")
          <5>1. cacheCmd' = [cacheCmd EXCEPT !.pc = "info"]
            BY <4>1 DEF Writes!CacheGo
          <5>2. QED
            BY <1>1, <2>1, <5>1
        <4>2. CASE Writes!CacheGo("write")
          <5>1. cacheCmd' = [cacheCmd EXCEPT !.pc = "write"]
            BY <4>2 DEF Writes!CacheGo
          <5>2. QED
            BY <1>1, <2>1, <5>1
        <4>3. QED
          BY <2>2, <4>1, <4>2
      <3>4. done' = done
        BY <1>5 DEF Writes!WriteClaim
      <3>5. \A d \in WritesClass : claim'[d].gen <= gen[d]
        BY <1>1, <3>2
      <3> HIDE DEF c
      <3>6. \A d \in WritesClass : claim'[d].owner = "we" => d = c
        BY <2>1, <3>2
      <3>7. QED
        BY <1>2, <2>1, <3>2, <3>3, <3>4, <3>5, <3>6 DEF ClaimInv
    <2>3. CASE UNCHANGED claim /\ Writes!CacheGo("idle")
      <3>1. cacheCmd' = Writes!CacheIdle /\ done' = done
        BY <1>5, <2>3 DEF Writes!CacheGo, Writes!WriteClaim
      <3>2. cacheCmd'.pc = "idle" /\ {"pc", "class", "port"} \subseteq DOMAIN cacheCmd'
        BY <3>1 DEF Writes!CacheIdle
      <3>3. QED
        BY <1>2, <2>1, <2>3, <3>1, <3>2 DEF ClaimInv
    <2>4. QED
      BY <1>5, <2>2, <2>3 DEF Writes!WriteClaim
  <1>6. CASE Writes!Info
    <2>1. c \in WritesClass /\ cacheCmd.pc = "info" /\ done' = done
      BY <1>6 DEF Writes!Info, ClaimInv
    <2>2. CASE cacheCmd' = [cacheCmd EXCEPT !.pc = "write", !.port = port[cacheCmd.class]] /\ UNCHANGED claim
      <3>1. cacheCmd'.pc = "write" /\ cacheCmd'.class = c /\ cacheCmd'.port = port[c] /\ {"pc", "class", "port"} \subseteq DOMAIN cacheCmd'
        BY <1>1, <2>2
      <3> HIDE DEF c
      <3>2. \A d \in WritesClass : claim[d].owner = "we" => d = c
        BY <2>1 DEF ClaimInv, c
      <3>3. QED
        BY <1>1, <1>2, <2>1, <2>2, <3>1, <3>2 DEF ClaimInv
    <2>3. CASE Writes!CacheGo("idle") /\ Writes!Release
      <3>1. Given
        BY <1>3, <2>1, <2>3
      <3>2. cacheCmd'.pc = "idle" /\ {"pc", "class", "port"} \subseteq DOMAIN cacheCmd'
        BY <2>3 DEF Writes!CacheGo, Writes!CacheIdle
      <3>3. QED
        BY <1>2, <2>1, <3>1, <3>2 DEF ClaimInv
    <2>4. QED
      BY <1>6, <2>2, <2>3 DEF Writes!Info
  <1>7. CASE Writes!Write
    <2>1. c \in WritesClass /\ cacheCmd.pc = "write" /\ Writes!Release /\ Writes!CacheGo("idle")
      BY <1>7 DEF Writes!Write, ClaimInv
    <2>2. Given
      BY <1>3, <2>1
    <2>3. cacheCmd'.pc = "idle" /\ {"pc", "class", "port"} \subseteq DOMAIN cacheCmd'
      BY <2>1 DEF Writes!CacheGo, Writes!CacheIdle
    <2>4. done'.port # Writes!NoPort => done'.port = done'.real
      <3>1. CASE Writes!ClaimHolds(c)
        <4>1. done'.port = cacheCmd.port /\ done'.real = port[c]
          BY <1>7, <3>1 DEF Writes!Write
        <4>2. cacheCmd.port \in {Writes!NoPort, port[c]}
          BY <2>1, <3>1 DEF Writes!ClaimHolds, ClaimInv
        <4>3. QED
          BY <4>1, <4>2
      <3>2. CASE ~Writes!ClaimHolds(c)
        BY <1>7, <3>2 DEF Writes!Write, ClaimInv
      <3>3. QED
        BY <3>1, <3>2
    <2>5. QED
      BY <1>2, <2>2, <2>3, <2>4 DEF ClaimInv
  <1>8. QED
    BY <1>4, <1>5, <1>6, <1>7

(* Only a write's own steps touch its time, and the clock goes on.         *)
LEMMA TimeGoesOn ==
  ASSUME Writes!SensorCacheAssumption, CoolInv, ClaimInv,
         \/ Writes!Tick \/ Writes!Snapshot \/ Writes!Switch \/ Writes!Switched
         \/ \E c \in WritesClass : \/ Writes!Data(c) \/ Writes!Plug(c) \/ Writes!OtherClaims(c) \/ Writes!ReadStart(c) \/ Writes!Read(c)
                            \/ Writes!ClassOpen(c) \/ Writes!ClassClose(c)
  PROVE  CoolInv'
PROOF
  <1>1. UNCHANGED <<g_last_write, done>> /\ clock' \in {clock, clock + 1} /\ (clock' # clock => clock < WritesMaxTime)
    <2>1. CASE Writes!Tick
      BY <2>1 DEF Writes!Tick, CoolInv
    <2>2. CASE Writes!Snapshot \/ Writes!Switch \/ Writes!Switched
      BY <2>2 DEF Writes!Snapshot, Writes!Switch, Writes!Switched, Writes!WkKeep, Writes!CmdKeep
    <2>3. CASE \E c \in WritesClass : Writes!Data(c) \/ Writes!Plug(c) \/ Writes!OtherClaims(c) \/ Writes!ReadStart(c) \/ Writes!Read(c)
      BY <2>3 DEF Writes!Data, Writes!Plug, Writes!OtherClaims, Writes!ReadStart, Writes!Read, Writes!DrvKeep, Writes!WkKeep
    <2>4. CASE \E c \in WritesClass : Writes!ClassOpen(c) \/ Writes!ClassClose(c)
      BY <2>4 DEF Writes!ClassOpen, Writes!ClassClose, Writes!CmdKeep
    <2>5. QED
      BY <2>1, <2>2, <2>3, <2>4
  <1>2. cacheCmd' = cacheCmd \/ cacheCmd'.pc \notin {"claim", "info", "write"}
    <2>1. CASE Writes!Tick \/ Writes!Snapshot
      BY <2>1 DEF Writes!Tick, Writes!Snapshot, Writes!WkKeep
    <2>2. CASE Writes!Switch
      BY <2>2 DEF Writes!Switch, Writes!CacheIdle
    <2>3. CASE Writes!Switched
      BY <2>3 DEF Writes!Switched, Writes!CacheGo, Writes!CacheIdle
    <2>4. CASE \E c \in WritesClass : Writes!Data(c) \/ Writes!Plug(c) \/ Writes!OtherClaims(c) \/ Writes!ReadStart(c) \/ Writes!Read(c)
      BY <2>4 DEF Writes!Data, Writes!Plug, Writes!OtherClaims, Writes!ReadStart, Writes!Read, Writes!DrvKeep, Writes!WkKeep
    <2>5. CASE \E c \in WritesClass : Writes!ClassOpen(c) \/ Writes!ClassClose(c)
      <3>1. PICK c \in WritesClass : cacheCmd' = [cacheCmd EXCEPT !.todo = @ \ {c}] /\ cacheCmd.pc \in {"open", "close"}
        BY <2>5 DEF Writes!ClassOpen, Writes!ClassClose
      <3>2. "pc" \in DOMAIN cacheCmd
        BY DEF ClaimInv
      <3>3. QED
        BY <3>1, <3>2
    <2>6. QED
      BY <2>1, <2>2, <2>3, <2>4, <2>5
  <1>3. clock \in Nat \ {0} /\ done.at \in Nat /\ done.at <= clock /\ WritesCooldown \in Nat /\ WritesMaxTime \in Nat /\ clock <= WritesMaxTime + 1
    BY DEF CoolInv, Writes!SensorCacheAssumption
  <1>4. clock' \in Nat \ {0} /\ done.at <= clock' /\ clock' <= WritesMaxTime + 1
    BY <1>1, <1>3
  <1>5. CASE cacheCmd' = cacheCmd
    <2>1. cacheCmd.pc \in {"claim", "info", "write"} /\ done.class = cacheCmd.class => clock' - done.at >= WritesCooldown
      <3> SUFFICES ASSUME cacheCmd.pc \in {"claim", "info", "write"} /\ done.class = cacheCmd.class PROVE clock' - done.at >= WritesCooldown
        OBVIOUS
      <3>1. clock - done.at >= WritesCooldown
        BY DEF CoolInv
      <3>2. QED
        BY <1>1, <1>3, <3>1
    <2>2. QED
      BY <1>1, <1>4, <1>5, <2>1 DEF CoolInv
  <1>6. CASE cacheCmd'.pc \notin {"claim", "info", "write"}
    BY <1>1, <1>4, <1>6 DEF CoolInv
  <1>7. QED
    BY <1>2, <1>5, <1>6

(* A time within the width of the clock is what the clock shows.           *)
LEMMA ClockFits == ASSUME NEW a \in Nat, NEW w \in Nat \ {0}, a < w PROVE a % w = a
  OBVIOUS

(* A write begins when the class has cooled down, and notes its time.      *)
LEMMA WriteKeepsCool ==
  ASSUME Writes!SensorCacheAssumption, WritesMaxTime + 1 < WritesWrap, Writes!Nobody \notin WritesClass, CoolInv, ClaimInv,
         Writes!WriteClaim \/ Writes!Info \/ Writes!Write \/ \E c \in WritesClass, what \in WritesOps : Writes!WriteOpen(c, what)
  PROVE  CoolInv'
PROOF
  <1>1. /\ clock \in Nat \ {0} /\ done.at \in Nat /\ done.at <= clock /\ WritesCooldown \in Nat \ {0} /\ WritesMaxTime \in Nat /\ clock <= WritesMaxTime + 1
        /\ WritesWrap \in Nat \ {0} /\ clock < WritesWrap /\ g_last_write \in [WritesClass -> Nat] /\ done.gap >= WritesCooldown
        /\ \A c \in WritesClass : done.class = c => done.at # 0 /\ g_last_write[c] = done.at
    BY DEF CoolInv, Writes!SensorCacheAssumption
  <1>2. clock' = clock
    BY DEF Writes!WriteClaim, Writes!Info, Writes!Write, Writes!WriteOpen, Writes!WriteKeep, Writes!CmdKeep
  <1>3. CASE \E c \in WritesClass, what \in WritesOps : Writes!WriteOpen(c, what)
    <2>1. PICK c \in WritesClass, what \in WritesOps : Writes!WriteOpen(c, what)
      BY <1>3
    <2>2. UNCHANGED <<g_last_write, done>> /\ ~Writes!Cool(c) /\ cacheCmd'.class = c
      BY <2>1 DEF Writes!WriteOpen, Writes!CacheIdle
    <2>3. done.class = c => clock - done.at >= WritesCooldown
      <3> SUFFICES ASSUME done.class = c PROVE clock - done.at >= WritesCooldown
        OBVIOUS
      <3>1. g_last_write[c] = done.at /\ done.at # 0
        BY <1>1
      <3>2. ~((clock - done.at) % WritesWrap < WritesCooldown)
        BY <2>2, <3>1 DEF Writes!Cool
      <3>3. clock - done.at \in Nat /\ clock - done.at < WritesWrap
        BY <1>1
      <3>4. (clock - done.at) % WritesWrap = clock - done.at
        BY <1>1, <3>3, ClockFits
      <3>5. QED
        BY <1>1, <3>2, <3>3, <3>4
    <2>4. QED
      BY <1>1, <1>2, <2>2, <2>3 DEF CoolInv
  <1>4. CASE Writes!WriteClaim \/ Writes!Info
    <2>1. UNCHANGED <<g_last_write, done>> /\ cacheCmd.pc \in {"claim", "info"}
      BY <1>4 DEF Writes!WriteClaim, Writes!Info
    <2>2. cacheCmd'.pc = "idle" \/ cacheCmd'.class = cacheCmd.class
      <3>0. "class" \in DOMAIN cacheCmd
        BY DEF ClaimInv
      <3>1. CASE Writes!WriteClaim
        <4>1. Writes!CacheGo("info") \/ Writes!CacheGo("write") \/ Writes!CacheGo("idle")
          BY <3>1 DEF Writes!WriteClaim
        <4>2. CASE Writes!CacheGo("info")
          <5>1. cacheCmd' = [cacheCmd EXCEPT !.pc = "info"]
            BY <4>2 DEF Writes!CacheGo
          <5>2. QED
            BY <3>0, <5>1
        <4>3. CASE Writes!CacheGo("write")
          <5>1. cacheCmd' = [cacheCmd EXCEPT !.pc = "write"]
            BY <4>3 DEF Writes!CacheGo
          <5>2. QED
            BY <3>0, <5>1
        <4>4. CASE Writes!CacheGo("idle")
          BY <4>4 DEF Writes!CacheGo, Writes!CacheIdle
        <4>5. QED
          BY <4>1, <4>2, <4>3, <4>4
      <3>2. CASE Writes!Info
        <4>1. CASE cacheCmd' = [cacheCmd EXCEPT !.pc = "write", !.port = port[cacheCmd.class]]
          BY <3>0, <4>1
        <4>2. CASE Writes!CacheGo("idle")
          BY <4>2 DEF Writes!CacheGo, Writes!CacheIdle
        <4>3. QED
          BY <3>2, <4>1, <4>2 DEF Writes!Info
      <3>3. QED
        BY <1>4, <3>1, <3>2
    <2>3. done.class = cacheCmd.class => clock - done.at >= WritesCooldown
      BY <2>1 DEF CoolInv
    <2>4. QED
      BY <1>1, <1>2, <2>1, <2>2, <2>3 DEF CoolInv
  <1>5. CASE Writes!Write
    <2> DEFINE c == cacheCmd.class
    <2>1. c \in WritesClass /\ cacheCmd.pc = "write" /\ cacheCmd'.pc = "idle"
      BY <1>5 DEF Writes!Write, ClaimInv, Writes!CacheGo, Writes!CacheIdle
    <2>2. CASE ~Writes!ClaimHolds(c)
      BY <1>1, <1>2, <1>5, <2>1, <2>2 DEF CoolInv, Writes!Write
    <2>3. CASE Writes!ClaimHolds(c)
      <3>1. /\ g_last_write' = [g_last_write EXCEPT ![c] = clock % WritesWrap]
            /\ done' = [class |-> c, port |-> cacheCmd.port, real |-> port[c], at |-> clock,
                        gap |-> IF done.class = c THEN clock - done.at ELSE WritesCooldown]
        BY <1>5, <2>3 DEF Writes!Write
      <3>2. clock % WritesWrap = clock
        BY <1>1, ClockFits
      <3>3. g_last_write' \in [WritesClass -> Nat] /\ g_last_write'[c] = clock
        BY <1>1, <2>1, <3>1, <3>2
      <3>4. done'.class = c /\ done'.at = clock /\ done'.gap = IF done.class = c THEN clock - done.at ELSE WritesCooldown
        BY <3>1
      <3>5. done'.gap >= WritesCooldown
        <4>1. done.class = c => clock - done.at >= WritesCooldown
          BY <2>1 DEF CoolInv
        <4>2. QED
          BY <1>1, <3>4, <4>1
      <3> HIDE DEF c
      <3>6. QED
        BY <1>1, <1>2, <2>1, <3>3, <3>4, <3>5 DEF CoolInv
    <2>4. QED
      BY <2>2, <2>3
  <1>6. QED
    BY <1>3, <1>4, <1>5

(* The driver, the cache and the writes, together.                         *)
LEMMA WritesStep ==
  ASSUME Writes!SensorCacheAssumption, WritesMaxTime + 1 < WritesWrap, Writes!Nobody \notin WritesClass, CoolInv, ClaimInv, [Writes!CacheNext]_(Writes!cacheVars)
  PROVE  ClaimInv' /\ CoolInv'
PROOF
  <1>1. CASE UNCHANGED Writes!cacheVars
    BY <1>1 DEF Writes!cacheVars, ClaimInv, CoolInv
  <1>2. CASE Writes!CacheNext
    <2>1. ASSUME NEW c \in WritesClass, Writes!Data(c) \/ Writes!Plug(c) \/ Writes!OtherClaims(c) PROVE ClaimInv' /\ CoolInv'
      BY <2>1, DriverKeepsClaims, TimeGoesOn
    <2>2. ASSUME NEW c \in WritesClass, Writes!ReadStart(c) \/ Writes!Read(c) \/ Writes!ClassOpen(c) \/ Writes!ClassClose(c) PROVE ClaimInv' /\ CoolInv'
      BY <2>2, OthersLeaveClaims, TimeGoesOn
    <2>3. ASSUME Writes!Snapshot \/ Writes!Switch \/ Writes!Switched \/ Writes!Tick PROVE ClaimInv' /\ CoolInv'
      BY <2>3, OthersLeaveClaims, TimeGoesOn
    <2>4. ASSUME Writes!WriteClaim \/ Writes!Info \/ Writes!Write \/ \E c \in WritesClass, what \in WritesOps : Writes!WriteOpen(c, what) PROVE ClaimInv' /\ CoolInv'
      BY <2>4, WriteKeepsClaims, WriteKeepsCool
    <2>5. QED
      BY <1>2, <2>1, <2>2, <2>3, <2>4 DEF Writes!CacheNext
  <1>3. QED
    BY <1>1, <1>2

(* A write gives its claim back whichever of its steps failed, the port it *)
(* reports is the one it drove, and two writes to a class are a cool-down  *)
(* apart, until the clock of 32 bits has gone round.                       *)
THEOREM WritesAreOurs ==
  ASSUME Writes!SensorCacheAssumption, WritesMaxTime + 1 < WritesWrap
  PROVE  Writes!CacheSpec => [](Writes!ClaimReturned /\ Writes!PortIsTrue /\ Writes!CooledDown)
PROOF
  <1> Writes!Nobody \notin WritesClass
    BY DEF Writes!SensorCacheAssumption, Writes!Nobody
  <1>1. Writes!CacheInit => ClaimInv /\ CoolInv
    BY WritesStart
  <1>2. ClaimInv /\ CoolInv /\ [Writes!CacheNext]_(Writes!cacheVars) => ClaimInv' /\ CoolInv'
    BY WritesStep
  <1>3. ClaimInv /\ CoolInv => Writes!ClaimReturned /\ Writes!PortIsTrue /\ Writes!CooledDown
    BY DEF ClaimInv, CoolInv, Writes!ClaimReturned, Writes!PortIsTrue, Writes!CooledDown
  <1>4. QED
    BY <1>1, <1>2, <1>3, PTL DEF Writes!CacheSpec

-----------------------------------------------------------------------------
(* The scheduler *)

Sched == INSTANCE Scheduler WITH
    up <- schedUp, worker <- schedWorker, op <- schedOp, stopped <- stoppedObjects

(* The module that Scheduler counts with is the one the theorems are on. *)
LEMMA SchedCount ==
  ASSUME NEW S
  PROVE  Sched!Cardinality(S) = Cardinality(S) /\ (Sched!IsFiniteSet(S) <=> IsFiniteSet(S))
  BY DEF Cardinality, Sched!Cardinality, IsFiniteSet, Sched!IsFiniteSet

(* What the scheduler's tables and the worker's notes are made of.         *)
SchedTyped ==
  /\ wslot \in [WatchSlots -> Watches \cup {None}]
  /\ tslot \in [TimerSlots -> Timers \cup {None}]
  /\ twice \subseteq Rearming /\ stoppedObjects \cup active \subseteq Sched!Objects
  /\ schedWorker = [at |-> schedWorker.at, map |-> schedWorker.map, ready |-> schedWorker.ready,
               due |-> schedWorker.due, slot |-> schedWorker.slot, obj |-> schedWorker.obj]

(* An object has one slot, unless it was entered twice.                    *)
SchedListed ==
  /\ \A i, j \in WatchSlots : wslot[i] = wslot[j] /\ wslot[i] # None => i = j
  /\ \A i, j \in TimerSlots : tslot[i] = tslot[j] /\ tslot[i] \in Timers \ twice => i = j

(* The worker dispatches what it polls, and walks the table of the timers. *)
SchedWorks ==
  /\ schedUp = "off" => schedWorker.at = "none"
  /\ schedWorker.ready \subseteq schedWorker.map /\ schedWorker.map \subseteq Watches
  /\ schedWorker.at \in {"poll", "dispatch", "in watch"} => schedWorker.map \subseteq polling
  /\ schedWorker.at \in {"timers", "in timer"} => schedWorker.slot \in TimerSlots
  /\ schedWorker.at = "in timer" => schedWorker.obj \in Timers \cap dispatching

SchedInv == SchedTyped /\ SchedListed /\ SchedWorks /\ Sched!StopIsFinal

(* Every non-empty set of slots has a first one.                           *)
LEMMA FirstIsIn == ASSUME NEW S, S \subseteq Nat, S # {} PROVE Sched!First(S) \in S
PROOF
  <1> DEFINE R == OpToRel(<, Nat)
  <1>1. IsWellFoundedOn(R, Nat)
    BY NatLessThanWellFounded
  <1>2. \A x, y \in Nat : x < y => <<x, y>> \in R
    BY DEF OpToRel
  <1> HIDE DEF R
  <1>3. PICK i \in S : \A j \in S : ~(<<j, i>> \in R)
    BY <1>1, WFMin
  <1>4. \A j \in S : ~(j < i)
    BY <1>2, <1>3
  <1>5. \E k \in S : \A j \in S : k <= j
    BY <1>4
  <1>6. QED
    BY <1>5, Zenon DEF Sched!First

(* The scheduler starts empty.                                             *)
LEMMA SchedStarts == ASSUME Sched!SchedulerAssumption, Sched!Init PROVE SchedInv
  BY DEF Sched!SchedulerAssumption, Sched!Init, Sched!Gone, SchedInv, SchedTyped, SchedListed, SchedWorks, Sched!StopIsFinal, Sched!Objects

(* A timer that enters the table has one slot, or was entered twice.       *)
LEMMA EnterListed ==
  ASSUME Sched!SchedulerAssumption, SchedInv, NEW t \in Timers, t \in Rearming \cup stoppedObjects,
         Sched!TimerEnter(t)
  PROVE  /\ tslot' \in [TimerSlots -> Timers \cup {None}] /\ active' = active \cup {t}
         /\ twice' \subseteq Rearming /\ twice \subseteq twice' /\ twice' \subseteq twice \cup {t}
         /\ \A i, j \in TimerSlots : tslot'[i] = tslot'[j] /\ tslot'[i] \in Timers \ twice' => i = j
         /\ \A o \in Sched!Objects \ {t} : \A i \in TimerSlots : tslot'[i] = o => tslot[i] = o
PROOF
  <1> DEFINE free == {i \in TimerSlots : tslot[i] \in {None, t}}
             k == Sched!First(free)
  <1>1. tslot' = [tslot EXCEPT ![k] = t]
    BY DEF Sched!TimerEnter
  <1>2. twice' = IF \E i \in TimerSlots \ {k} : tslot[i] = t THEN twice \cup {t} ELSE twice
    BY DEF Sched!TimerEnter
  <1> HIDE DEF k
  <1>3. \A i \in TimerSlots : tslot'[i] = IF i = k THEN t ELSE tslot[i]
    BY <1>1 DEF SchedInv, SchedTyped
  <1>4. t \notin Rearming => t \in stoppedObjects \ twice
    BY DEF SchedInv, SchedTyped
  <1>5. t \notin Rearming => \A i \in TimerSlots : tslot[i] # t
    BY <1>4 DEF SchedInv, Sched!StopIsFinal
  <1>6. twice' \subseteq Rearming
    BY <1>2, <1>5 DEF SchedInv, SchedTyped
  <1>7. tslot' \in [TimerSlots -> Timers \cup {None}]
    BY <1>1 DEF SchedInv, SchedTyped
  <1>8. ASSUME NEW i \in TimerSlots, NEW j \in TimerSlots, tslot'[i] = tslot'[j],
               tslot'[i] \in Timers \ twice'
        PROVE  i = j
    <2>1. twice \subseteq twice'
      BY <1>2
    <2>2. CASE tslot'[i] = t
      <3>1. ~\E x \in TimerSlots \ {k} : tslot[x] = t
        BY <1>2, <1>8, <2>2
      <3>2. QED
        BY <1>3, <1>8, <2>2, <3>1
    <2>3. CASE tslot'[i] # t
      <3>1. tslot[i] = tslot[j] /\ tslot[i] \in Timers \ twice
        BY <1>3, <1>8, <2>1, <2>3
      <3>2. QED
        BY <3>1 DEF SchedInv, SchedListed
    <2>4. QED
      BY <2>2, <2>3
  <1>9. active' = active \cup {t}
    BY DEF Sched!TimerEnter
  <1>10. QED
    BY <1>2, <1>3, <1>6, <1>7, <1>8, <1>9 DEF Sched!Objects

(* A stop that returns leaves its object no slot, unless it had two.       *)
LEMMA SlotsGiven ==
  ASSUME Sched!SchedulerAssumption, SchedInv, NEW o \in Sched!Objects, Sched!StopReturns(o)
  PROVE  /\ wslot' \in [WatchSlots -> Watches \cup {None}]
         /\ tslot' \in [TimerSlots -> Timers \cup {None}]
         /\ \A i \in WatchSlots : wslot'[i] # o /\ (wslot'[i] # wslot[i] => wslot'[i] = None)
         /\ \A i \in TimerSlots : tslot'[i] # tslot[i] => tslot'[i] = None
         /\ o \notin twice => \A i \in TimerSlots : tslot'[i] # o
PROOF
  <1> DEFINE mineW == {i \in WatchSlots : wslot[i] = o}
             mineT == {i \in TimerSlots : tslot[i] = o}
  <1>1. wslot' = IF mineW = {} THEN wslot ELSE [wslot EXCEPT ![Sched!First(mineW)] = None]
    BY DEF Sched!StopReturns
  <1>2. tslot' = IF mineT = {} THEN tslot ELSE [tslot EXCEPT ![Sched!First(mineT)] = None]
    BY DEF Sched!StopReturns
  <1>3. /\ \A i : i \in mineW <=> i \in WatchSlots /\ wslot[i] = o
        /\ \A i : i \in mineT <=> i \in TimerSlots /\ tslot[i] = o
    OBVIOUS
  <1> HIDE DEF mineW, mineT
  <1>4. wslot \in [WatchSlots -> Watches \cup {None}] /\ tslot \in [TimerSlots -> Timers \cup {None}]
    BY DEF SchedInv, SchedTyped
  <1>5. \A i, j \in WatchSlots : wslot[i] = o /\ wslot[j] = o => i = j
    BY DEF SchedInv, SchedListed, Sched!SchedulerAssumption
  <1>6. WatchSlots \subseteq Nat /\ TimerSlots \subseteq Nat /\ o # None
    BY DEF Sched!SchedulerAssumption
  <1>7. /\ wslot' \in [WatchSlots -> Watches \cup {None}]
        /\ \A i \in WatchSlots : wslot'[i] = IF mineW # {} /\ i = Sched!First(mineW) THEN None ELSE wslot[i]
    BY <1>1, <1>4
  <1>8. /\ tslot' \in [TimerSlots -> Timers \cup {None}]
        /\ \A i \in TimerSlots : tslot'[i] = IF mineT # {} /\ i = Sched!First(mineT) THEN None ELSE tslot[i]
    BY <1>2, <1>4
  <1>9. /\ mineW # {} => Sched!First(mineW) \in mineW
        /\ mineT # {} => Sched!First(mineT) \in mineT
    <2>1. mineW \subseteq Nat /\ mineT \subseteq Nat
      BY <1>6, <1>3
    <2>2. QED
      BY <2>1, FirstIsIn
  <1>10. \A i \in WatchSlots : wslot'[i] # o
    BY <1>5, <1>6, <1>7, <1>3, <1>9
  <1>11. ASSUME o \notin twice PROVE \A i \in TimerSlots : tslot'[i] # o
    <2>1. \A i, j \in TimerSlots : tslot[i] = o /\ tslot[j] = o => i = j
      BY <1>4, <1>11 DEF SchedInv, SchedListed, Sched!SchedulerAssumption, Sched!Objects
    <2>2. QED
      BY <1>6, <1>8, <1>3, <1>9, <2>1
  <1>12. QED
    BY <1>7, <1>8, <1>11, <1>10

(* The calls of the users.                                                 *)
LEMMA SchedUsers ==
  ASSUME Sched!SchedulerAssumption, SchedInv,
         \/ Sched!Acquire \/ Sched!Release \/ Sched!Joined
         \/ \E w \in Watches : Sched!WatchStart(w)
         \/ \E t \in Timers : Sched!TimerStart(t)
         \/ \E o \in Sched!Objects : o \notin stoppedObjects /\ Sched!Stop(o)
         \/ \E o \in Sched!Objects : Sched!StopReturns(o)
  PROVE  SchedInv'
PROOF
  <1> USE DEF Sched!SchedulerAssumption, SchedInv, Sched!Objects, Sched!flags, Sched!slots, Sched!history
  <1>1. CASE Sched!Release
    BY <1>1 DEF Sched!Release, SchedTyped, SchedListed, SchedWorks, Sched!StopIsFinal
  <1>2. CASE Sched!Acquire
    <2>1. schedWorker' = [at |-> "collect", map |-> {}, ready |-> {}, due |-> {}, slot |-> 0, obj |-> None]
      BY <1>2 DEF Sched!Acquire, Sched!Gone
    <2>2. schedUp' = "on" /\ UNCHANGED <<active, dispatching, polling, wslot, tslot, stoppedObjects, twice>>
      BY <1>2 DEF Sched!Acquire
    <2>3. QED
      BY <2>1, <2>2 DEF SchedTyped, SchedListed, SchedWorks, Sched!StopIsFinal
  <1>3. CASE Sched!Joined
    <2>1. /\ wslot' = [i \in WatchSlots |-> None] /\ tslot' = [i \in TimerSlots |-> None]
          /\ schedUp' = "off" /\ schedWorker.at = "none" /\ UNCHANGED <<active, dispatching, polling, schedWorker, stoppedObjects, twice>>
      BY <1>3 DEF Sched!Joined
    <2>2. SchedTyped'
      BY <2>1 DEF SchedTyped
    <2>3. SchedListed'
      BY <2>1 DEF SchedListed
    <2>4. SchedWorks'
      BY <2>1 DEF SchedWorks
    <2>5. Sched!StopIsFinal'
      BY <2>1 DEF Sched!StopIsFinal, SchedTyped
    <2>6. QED
      BY <2>2, <2>3, <2>4, <2>5
  <1>4. ASSUME NEW w \in Watches, Sched!WatchStart(w) PROVE SchedInv'
    <2> DEFINE free == {i \in WatchSlots : wslot[i] = None}
               k == Sched!First(free)
    <2>1. wslot' = [wslot EXCEPT ![k] = w]
      BY <1>4 DEF Sched!WatchStart
    <2> HIDE DEF k
    <2>2. w \in stoppedObjects \ twice
      BY <1>4 DEF Sched!WatchStart, SchedTyped
    <2>3. w \notin dispatching \cup polling /\ \A i \in WatchSlots : wslot[i] # w
      BY <2>2 DEF Sched!StopIsFinal
    <2>4. \A i \in WatchSlots : wslot'[i] = IF i = k THEN w ELSE wslot[i]
      BY <2>1 DEF SchedTyped
    <2>5. /\ active' = active \cup {w} /\ stoppedObjects' = stoppedObjects \ {w} /\ dispatching' = dispatching /\ polling' = polling
          /\ UNCHANGED <<tslot, schedUp, schedWorker, twice>>
      BY <1>4, <2>3 DEF Sched!WatchStart
    <2>6. SchedTyped'
      BY <2>1, <2>5 DEF SchedTyped
    <2>7. SchedListed'
      BY <2>3, <2>4, <2>5 DEF SchedListed
    <2>8. SchedWorks'
      BY <2>5 DEF SchedWorks
    <2>9. Sched!StopIsFinal'
      BY <2>4, <2>5 DEF Sched!StopIsFinal
    <2>10. QED
      BY <2>6, <2>7, <2>8, <2>9
  <1>5. ASSUME NEW t \in Timers, Sched!TimerStart(t) PROVE SchedInv'
    <2>1. Sched!TimerEnter(t) /\ t \in Rearming \cup stoppedObjects
      BY <1>5 DEF Sched!TimerStart
    <2>2. /\ stoppedObjects' = stoppedObjects \ {t} /\ schedWorker' = [schedWorker EXCEPT !.due = @ \ {t}]
          /\ UNCHANGED <<dispatching, polling, wslot, schedUp>>
      BY <1>5 DEF Sched!TimerStart
    <2>3. SchedTyped'
      <3>1. schedWorker' = [at |-> schedWorker'.at, map |-> schedWorker'.map, ready |-> schedWorker'.ready,
                       due |-> schedWorker'.due, slot |-> schedWorker'.slot, obj |-> schedWorker'.obj]
        BY <2>2 DEF SchedTyped
      <3>2. QED
        BY <2>1, <2>2, <3>1, EnterListed DEF SchedTyped
    <2>4. SchedListed'
      BY <2>1, <2>2, EnterListed DEF SchedListed
    <2>5. SchedWorks'
      BY <2>2 DEF SchedWorks, SchedTyped
    <2>6. Sched!StopIsFinal'
      <3>1. \A o \in stoppedObjects' \ twice' : o # t /\ o \in stoppedObjects \ twice /\ o \in Sched!Objects
        BY <2>1, <2>2, EnterListed DEF SchedTyped
      <3>2. \A o \in Sched!Objects \ {t} : \A i \in TimerSlots : tslot'[i] = o => tslot[i] = o
        BY <2>1, EnterListed
      <3>3. QED
        BY <2>2, <3>1, <3>2 DEF Sched!StopIsFinal
    <2>7. QED
      BY <2>3, <2>4, <2>5, <2>6
  <1>6. ASSUME NEW o \in Sched!Objects, Sched!Stop(o) PROVE SchedInv'
    BY <1>6 DEF Sched!Stop, SchedTyped, SchedListed, SchedWorks, Sched!StopIsFinal
  <1>7. ASSUME NEW o \in Sched!Objects, Sched!StopReturns(o) PROVE SchedInv'
    <2>1. /\ stoppedObjects' = stoppedObjects \cup {o} /\ o \notin dispatching \cup polling
          /\ UNCHANGED <<active, dispatching, polling, schedUp, schedWorker, twice>>
      BY <1>7 DEF Sched!StopReturns
    <2>2. /\ wslot' \in [WatchSlots -> Watches \cup {None}]
          /\ tslot' \in [TimerSlots -> Timers \cup {None}]
          /\ \A i \in WatchSlots : wslot'[i] # o /\ (wslot'[i] # wslot[i] => wslot'[i] = None)
          /\ \A i \in TimerSlots : tslot'[i] # tslot[i] => tslot'[i] = None
          /\ o \notin twice => \A i \in TimerSlots : tslot'[i] # o
      BY <1>7, SlotsGiven
    <2>3. SchedTyped'
      BY <2>1, <2>2 DEF SchedTyped
    <2>4. SchedListed'
      BY <2>1, <2>2 DEF SchedListed, SchedTyped
    <2>5. SchedWorks'
      BY <2>1 DEF SchedWorks
    <2>6. Sched!StopIsFinal'
      BY <2>1, <2>2 DEF Sched!StopIsFinal, SchedTyped
    <2>7. QED
      BY <2>3, <2>4, <2>5, <2>6
  <1>8. QED
    BY <1>1, <1>3, <1>4, <1>5, <1>6, <1>7, <1>2

(* The steps of the worker: what it polls and calls has a slot, so it was  *)
(* not stopped.                                                            *)
LEMMA SchedWorker ==
  ASSUME Sched!SchedulerAssumption, SchedInv, Sched!WorkerStep \/ Sched!CallbackRearms \/ UNCHANGED Sched!vars
  PROVE  SchedInv'
PROOF
  <1> USE DEF Sched!SchedulerAssumption, SchedInv, Sched!Objects, Sched!flags, Sched!slots, Sched!history
  <1>1. CASE Sched!Collect
    <2>1. /\ schedWorker' = Sched!Gone /\ UNCHANGED polling
          \/ LET map == {w \in active \cap Watches : \E i \in WatchSlots : wslot[i] = w}
             IN schedWorker' = [Sched!Gone EXCEPT !.at = "poll", !.map = map] /\ polling' = polling \cup map
      BY <1>1 DEF Sched!Collect
    <2>2. UNCHANGED <<active, dispatching, wslot, tslot, schedUp, stoppedObjects, twice>> /\ schedWorker.at = "collect"
      BY <1>1 DEF Sched!Collect
    <2>3. CASE schedWorker' = Sched!Gone /\ UNCHANGED polling
      BY <2>2, <2>3 DEF Sched!Gone, SchedTyped, SchedListed, SchedWorks, Sched!StopIsFinal
    <2>4. ASSUME NEW map, map = {w \in active \cap Watches : \E i \in WatchSlots : wslot[i] = w},
                 schedWorker' = [Sched!Gone EXCEPT !.at = "poll", !.map = map], polling' = polling \cup map
          PROVE  SchedInv'
      <3>1. schedWorker' = [at |-> "poll", map |-> map, ready |-> {}, due |-> {}, slot |-> 0, obj |-> None]
        BY <2>4 DEF Sched!Gone
      <3>2. \A o \in stoppedObjects \ twice : o \notin map
        BY <2>4 DEF Sched!StopIsFinal
      <3>3. map \subseteq Watches
        BY <2>4
      <3>4. SchedTyped' /\ SchedListed'
        <4>1. schedWorker' = [at |-> schedWorker'.at, map |-> schedWorker'.map, ready |-> schedWorker'.ready,
                         due |-> schedWorker'.due, slot |-> schedWorker'.slot, obj |-> schedWorker'.obj]
          BY <3>1
        <4>2. QED
          BY <2>2, <4>1 DEF SchedTyped, SchedListed
      <3>5. SchedWorks'
        <4>1. schedWorker'.at = "poll" /\ schedWorker'.map = map /\ schedWorker'.ready = {} /\ schedUp' # "off"
          BY <2>2, <3>1 DEF SchedWorks
        <4>2. QED
          BY <2>4, <3>3, <4>1 DEF SchedWorks
      <3>6. Sched!StopIsFinal'
        BY <2>2, <2>4, <3>2 DEF Sched!StopIsFinal
      <3>7. QED
        BY <3>4, <3>5, <3>6
    <2>5. QED
      BY <2>1, <2>3, <2>4
  <1>2. CASE Sched!PollReturns
    <2>1. PICK R \in SUBSET schedWorker.map : schedWorker' = [schedWorker EXCEPT !.at = "dispatch", !.ready = R]
      BY <1>2 DEF Sched!PollReturns
    <2>2. schedWorker' = [at |-> "dispatch", map |-> schedWorker.map, ready |-> R, due |-> schedWorker.due,
                     slot |-> schedWorker.slot, obj |-> schedWorker.obj]
      BY <2>1 DEF SchedTyped
    <2>3. UNCHANGED <<active, dispatching, polling, wslot, tslot, schedUp, stoppedObjects, twice>> /\ schedWorker.at = "poll"
      BY <1>2 DEF Sched!PollReturns
    <2>4. QED
      BY <2>2, <2>3 DEF SchedTyped, SchedListed, SchedWorks, Sched!StopIsFinal
  <1>3. CASE Sched!PollFails
    BY <1>3 DEF Sched!PollFails, Sched!Gone, SchedTyped, SchedListed, SchedWorks, Sched!StopIsFinal
  <1>4. ASSUME NEW w \in Watches, Sched!Dispatch(w) PROVE SchedInv'
    <2>1. schedWorker.at = "dispatch" /\ w \in polling /\ w \notin stoppedObjects \ twice
      BY <1>4 DEF Sched!Dispatch, SchedWorks, Sched!StopIsFinal
    <2>2. CASE w \in active
      <3>1. schedWorker' = [at |-> "in watch", map |-> schedWorker.map, ready |-> schedWorker.ready \ {w},
                       due |-> schedWorker.due, slot |-> schedWorker.slot, obj |-> w]
        BY <1>4, <2>2 DEF Sched!Dispatch, SchedTyped
      <3>2. /\ dispatching' = dispatching \cup {w}
            /\ UNCHANGED <<active, polling, wslot, tslot, schedUp, stoppedObjects, twice>>
        BY <1>4, <2>2 DEF Sched!Dispatch
      <3>3. QED
        BY <2>1, <3>1, <3>2 DEF SchedTyped, SchedListed, SchedWorks, Sched!StopIsFinal
    <2>3. CASE w \notin active
      <3>1. schedWorker' = [at |-> "dispatch", map |-> schedWorker.map, ready |-> schedWorker.ready \ {w},
                       due |-> schedWorker.due, slot |-> schedWorker.slot, obj |-> schedWorker.obj]
        BY <1>4, <2>1, <2>3 DEF Sched!Dispatch, SchedTyped
      <3>2. UNCHANGED <<active, dispatching, polling, wslot, tslot, schedUp, stoppedObjects, twice>>
        BY <1>4, <2>3 DEF Sched!Dispatch
      <3>3. QED
        BY <2>1, <3>1, <3>2 DEF SchedTyped, SchedListed, SchedWorks, Sched!StopIsFinal
    <2>4. QED
      BY <2>2, <2>3
  <1>5. CASE Sched!WatchReturns
    BY <1>5 DEF Sched!WatchReturns, SchedTyped, SchedListed, SchedWorks, Sched!StopIsFinal
  <1>6. CASE Sched!RoundEnds
    BY <1>6 DEF Sched!RoundEnds, Sched!Gone, SchedTyped, SchedListed, SchedWorks, Sched!StopIsFinal
  <1>7. CASE Sched!TimerIdle
    BY <1>7 DEF Sched!TimerIdle, Sched!NextSlot, Sched!Gone, SchedTyped, SchedListed, SchedWorks, Sched!StopIsFinal
  <1>8. CASE Sched!TimerFires
    <2> DEFINE t == tslot[schedWorker.slot]
    <2>1. schedWorker.at = "timers" /\ t \in active /\ schedWorker.slot \in TimerSlots
      BY <1>8 DEF Sched!TimerFires, Sched!Due, SchedWorks
    <2>2. t \in Timers /\ t \notin stoppedObjects \ twice
      BY <2>1 DEF SchedTyped, Sched!StopIsFinal
    <2>3. /\ active' \subseteq active /\ dispatching' = dispatching \cup {t}
          /\ schedWorker' = [schedWorker EXCEPT !.at = "in timer", !.due = @ \ {t}, !.obj = t]
          /\ UNCHANGED <<polling, wslot, schedUp, stoppedObjects, twice>>
      BY <1>8 DEF Sched!TimerFires
    <2>4. /\ tslot' \in [TimerSlots -> Timers \cup {None}]
          /\ \A i \in TimerSlots : tslot'[i] # tslot[i] => tslot'[i] = None
      BY <1>8 DEF Sched!TimerFires, SchedTyped
    <2>5. schedWorker' = [at |-> "in timer", map |-> schedWorker.map, ready |-> schedWorker.ready,
                     due |-> schedWorker.due \ {t}, slot |-> schedWorker.slot, obj |-> t]
      BY <2>3 DEF SchedTyped
    <2>6. SchedTyped' /\ SchedListed'
      <3>1. schedWorker' = [at |-> schedWorker'.at, map |-> schedWorker'.map, ready |-> schedWorker'.ready,
                       due |-> schedWorker'.due, slot |-> schedWorker'.slot, obj |-> schedWorker'.obj]
        BY <2>5
      <3>2. SchedTyped'
        BY <2>3, <2>4, <3>1 DEF SchedTyped
      <3>3. QED
        <4>1. None \notin Timers
          OBVIOUS
        <4>2. \A i, j \in TimerSlots : tslot'[i] = tslot'[j] /\ tslot'[i] \in Timers \ twice' => i = j
          BY <2>3, <2>4, <4>1 DEF SchedListed
        <4>3. QED
          BY <2>3, <3>2, <4>2 DEF SchedListed
    <2>7. SchedWorks'
      BY <2>1, <2>2, <2>3, <2>5 DEF SchedWorks
    <2>8. Sched!StopIsFinal'
      BY <2>2, <2>3, <2>4 DEF Sched!StopIsFinal, SchedTyped
    <2>9. QED
      BY <2>6, <2>7, <2>8
  <1>9. CASE Sched!TimerReturns
    BY <1>9 DEF Sched!TimerReturns, Sched!NextSlot, Sched!Gone, SchedTyped, SchedListed, SchedWorks, Sched!StopIsFinal
  <1>10. CASE Sched!CallbackRearms
    <2>1. /\ schedWorker.obj \in Timers \cap Rearming /\ Sched!TimerEnter(schedWorker.obj) /\ schedWorker.obj \in dispatching
          /\ UNCHANGED <<dispatching, polling, wslot, schedUp, schedWorker, stoppedObjects>>
      BY <1>10 DEF Sched!CallbackRearms, SchedWorks
    <2>2. schedWorker.obj \notin stoppedObjects \ twice
      BY <2>1 DEF Sched!StopIsFinal
    <2>3. /\ tslot' \in [TimerSlots -> Timers \cup {None}] /\ active' = active \cup {schedWorker.obj}
          /\ twice' \subseteq Rearming /\ twice \subseteq twice'
          /\ \A i, j \in TimerSlots : tslot'[i] = tslot'[j] /\ tslot'[i] \in Timers \ twice' => i = j
          /\ \A o \in Sched!Objects \ {schedWorker.obj} : \A i \in TimerSlots : tslot'[i] = o => tslot[i] = o
      BY <2>1, EnterListed
    <2>4. SchedTyped'
      BY <2>1, <2>3 DEF SchedTyped
    <2>5. SchedListed'
      BY <2>1, <2>3 DEF SchedListed
    <2>6. SchedWorks'
      BY <2>1 DEF SchedWorks
    <2>7. Sched!StopIsFinal'
      BY <2>1, <2>2, <2>3 DEF Sched!StopIsFinal, SchedTyped
    <2>8. QED
      BY <2>4, <2>5, <2>6, <2>7
  <1>11. CASE UNCHANGED Sched!vars
    BY <1>11 DEF Sched!vars, SchedTyped, SchedListed, SchedWorks, Sched!StopIsFinal
  <1>12. QED
    BY <1>1, <1>2, <1>3, <1>4, <1>5, <1>6, <1>7, <1>8, <1>9, <1>10, <1>11 DEF Sched!WorkerStep

(* Every step of the worker and of its callers, in turn.                   *)
LEMMA SchedStep == ASSUME Sched!SchedulerAssumption, SchedInv, [Sched!Next]_(Sched!vars) PROVE SchedInv'
  BY SchedUsers, SchedWorker DEF Sched!Next

(* After a stop has returned the worker neither calls the object back nor  *)
(* polls its descriptor, and the object holds no slot, unless it was       *)
(* entered twice.                                                          *)
THEOREM StoppedIsForgotten == ASSUME Sched!SchedulerAssumption PROVE Sched!Spec => []Sched!StopIsFinal
PROOF
  <1>1. Sched!Init => SchedInv
    BY SchedStarts
  <1>2. SchedInv /\ [Sched!Next]_(Sched!vars) => SchedInv'
    BY SchedStep
  <1>3. SchedInv => Sched!StopIsFinal
    BY DEF SchedInv
  <1>4. QED
    BY <1>1, <1>2, <1>3, PTL DEF Sched!Spec

(* While it is in a callback the worker dispatches at most that object. A  *)
(* running timer has a slot unless it was entered twice, and a scheduler   *)
(* nobody holds has nothing to run.                                        *)
SchedKept ==
  /\ schedUp \in {"off", "on", "joining"} /\ stop \in BOOLEAN
  /\ schedOp \in [Sched!Objects -> {"idle", "stopping"}] /\ polling \subseteq Watches
  /\ schedWorker.at \in {"in watch", "in timer"} => schedWorker.obj \in Sched!Objects /\ dispatching \subseteq {schedWorker.obj}
  /\ schedWorker.at \notin {"in watch", "in timer"} => dispatching = {}
  /\ schedUp # "on" => stoppedObjects = Sched!Objects
  /\ \A t \in Timers \ twice : t \in active \ stoppedObjects => \E i \in TimerSlots : tslot[i] = t

(* The scheduler starts with nothing in its tables.                        *)
LEMMA KeptStarts == ASSUME Sched!SchedulerAssumption, Sched!Init PROVE SchedKept
  BY DEF Sched!SchedulerAssumption, Sched!Init, Sched!Gone, SchedKept, Sched!Objects

(* What the worker is at after it walked past a slot.                      *)
LEMMA NextPlace ==
  ASSUME NEW from, DOMAIN from = DOMAIN schedWorker, SchedTyped
  PROVE  Sched!NextSlot(from).at \in {"timers", "collect"}
  BY DEF Sched!NextSlot, Sched!Gone, SchedTyped

(* A timer that is entered has a slot.                                     *)
LEMMA EnteredHasSlot ==
  ASSUME Sched!SchedulerAssumption, SchedInv, NEW t \in Timers, Sched!TimerEnter(t)
  PROVE  /\ \E i \in TimerSlots : tslot'[i] = t
         /\ \A i \in TimerSlots : tslot[i] \in Timers => tslot'[i] = tslot[i]
         /\ active' = active \cup {t} /\ twice \subseteq twice'
PROOF
  <1> DEFINE free == {i \in TimerSlots : tslot[i] \in {None, t}}
             k == Sched!First(free)
  <1>1. free # {} /\ tslot' = [tslot EXCEPT ![k] = t]
    BY DEF Sched!TimerEnter
  <1>2. active' = active \cup {t} /\ twice \subseteq twice'
    BY DEF Sched!TimerEnter
  <1>3. free \subseteq Nat
    BY DEF Sched!SchedulerAssumption
  <1>4. k \in free
    <2> HIDE DEF free
    <2>1. QED
      BY <1>1, <1>3, FirstIsIn
  <1>5. k \in TimerSlots /\ tslot[k] \in {None, t}
    BY <1>4
  <1> HIDE DEF k
  <1>6. None \notin Timers
    BY DEF Sched!SchedulerAssumption, Sched!Objects
  <1>7. \A i \in TimerSlots : tslot'[i] = IF i = k THEN t ELSE tslot[i]
    BY <1>1 DEF SchedInv, SchedTyped
  <1>8. QED
    BY <1>2, <1>5, <1>6, <1>7

(* The calls of the users keep that.                                       *)
LEMMA KeptByUsers ==
  ASSUME Sched!SchedulerAssumption, SchedInv, SchedKept,
         \/ Sched!Acquire \/ Sched!Release \/ Sched!Joined
         \/ \E w \in Watches : Sched!WatchStart(w)
         \/ \E t \in Timers : Sched!TimerStart(t)
         \/ \E o \in Sched!Objects : o \notin stoppedObjects /\ Sched!Stop(o)
         \/ \E o \in Sched!Objects : Sched!StopReturns(o)
  PROVE  SchedKept'
PROOF
  <1> USE DEF Sched!SchedulerAssumption, Sched!Objects, Sched!flags, Sched!slots, Sched!history
  <1>1. CASE Sched!Release
    BY <1>1 DEF Sched!Release, SchedKept
  <1>2. CASE Sched!Acquire
    BY <1>2 DEF Sched!Acquire, Sched!Gone, SchedKept, SchedInv, SchedWorks
  <1>3. CASE Sched!Joined
    BY <1>3 DEF Sched!Joined, SchedKept
  <1>4. ASSUME NEW w \in Watches, Sched!WatchStart(w) PROVE SchedKept'
    <2>1. /\ schedUp = "on" /\ active' = active \cup {w} /\ stoppedObjects' = stoppedObjects \ {w} /\ dispatching' = dispatching \ {w}
          /\ polling' = polling \ {w} /\ UNCHANGED <<tslot, schedUp, stop, schedWorker, schedOp, twice>>
      BY <1>4 DEF Sched!WatchStart
    <2>2. QED
      BY <2>1 DEF SchedKept
  <1>5. ASSUME NEW t \in Timers, Sched!TimerStart(t) PROVE SchedKept'
    <2>1. /\ stoppedObjects' = stoppedObjects \ {t} /\ schedWorker' = [schedWorker EXCEPT !.due = @ \ {t}] /\ Sched!TimerEnter(t) /\ schedUp = "on"
          /\ UNCHANGED <<dispatching, polling, schedUp, stop, schedOp>>
      BY <1>5 DEF Sched!TimerStart
    <2>2. schedWorker'.at = schedWorker.at /\ schedWorker'.obj = schedWorker.obj
      BY <2>1 DEF SchedInv, SchedTyped
    <2>3. \A u \in Timers \ twice' : u \in active' \ stoppedObjects' => \E i \in TimerSlots : tslot'[i] = u
      <3>1. /\ \E i \in TimerSlots : tslot'[i] = t
            /\ \A i \in TimerSlots : tslot[i] \in Timers => tslot'[i] = tslot[i]
            /\ active' = active \cup {t} /\ twice \subseteq twice'
        BY <2>1, EnteredHasSlot
      <3> TAKE u \in Timers \ twice'
      <3>2. CASE u = t
        BY <3>1, <3>2
      <3>3. ASSUME u # t, u \in active' \ stoppedObjects' PROVE \E i \in TimerSlots : tslot'[i] = u
        <4>1. u \in Timers \ twice /\ u \in active \ stoppedObjects
          BY <2>1, <3>1, <3>3
        <4>2. PICK i \in TimerSlots : tslot[i] = u
          BY <4>1 DEF SchedKept
        <4>3. QED
          BY <3>1, <4>2
      <3>4. QED
        BY <3>2, <3>3
    <2>4. QED
      BY <2>1, <2>2, <2>3 DEF SchedKept
  <1>6. ASSUME NEW o \in Sched!Objects, Sched!Stop(o) PROVE SchedKept'
    BY <1>6 DEF Sched!Stop, SchedKept
  <1>7. ASSUME NEW o \in Sched!Objects, Sched!StopReturns(o) PROVE SchedKept'
    <2>1. /\ stoppedObjects' = stoppedObjects \cup {o} /\ schedOp' = [schedOp EXCEPT ![o] = "idle"]
          /\ UNCHANGED <<active, dispatching, polling, schedUp, stop, schedWorker, twice>>
      BY <1>7 DEF Sched!StopReturns
    <2>2. \A i \in TimerSlots : tslot[i] # o => tslot'[i] = tslot[i]
      <3> DEFINE mine == {i \in TimerSlots : tslot[i] = o}
      <3>1. tslot' = IF mine = {} THEN tslot ELSE [tslot EXCEPT ![Sched!First(mine)] = None]
        BY <1>7 DEF Sched!StopReturns
      <3>2. mine \subseteq Nat
        OBVIOUS
      <3>3. mine # {} => Sched!First(mine) \in mine
        <4> HIDE DEF mine
        <4>1. QED
          BY <3>2, FirstIsIn
      <3>4. QED
        BY <3>1, <3>3 DEF SchedInv, SchedTyped
    <2>3. \A u \in Timers \ twice' : u \in active' \ stoppedObjects' => \E i \in TimerSlots : tslot'[i] = u
      <3> TAKE u \in Timers \ twice'
      <3> HAVE u \in active' \ stoppedObjects'
      <3>1. u # o /\ u \in active \ stoppedObjects /\ u \notin twice
        BY <2>1
      <3>2. PICK i \in TimerSlots : tslot[i] = u
        BY <3>1 DEF SchedKept
      <3>3. QED
        BY <2>2, <3>1, <3>2
    <2>4. schedUp # "on" => stoppedObjects' = Sched!Objects
      <3>1. stoppedObjects = Sched!Objects => stoppedObjects \cup {o} = Sched!Objects
        BY Zenon
      <3>2. QED
        BY <2>1, <3>1, Zenon DEF SchedKept
    <2>5. QED
      BY <2>1, <2>3, <2>4 DEF SchedKept
  <1>8. QED
    BY <1>1, <1>2, <1>3, <1>4, <1>5, <1>6, <1>7

(* ... and so do the steps of the worker.                                  *)
LEMMA KeptByWorker ==
  ASSUME Sched!SchedulerAssumption, SchedInv, SchedKept, Sched!WorkerStep \/ Sched!CallbackRearms \/ UNCHANGED Sched!vars
  PROVE  SchedKept'
PROOF
  <1> USE DEF Sched!SchedulerAssumption, Sched!Objects, Sched!flags, Sched!slots, Sched!history
  <1>1. CASE Sched!Collect
    <2>1. UNCHANGED <<active, dispatching, tslot, schedUp, stop, schedOp, stoppedObjects, twice>> /\ schedWorker.at = "collect"
      BY <1>1 DEF Sched!Collect
    <2>2. schedWorker'.at \in {"none", "poll"} /\ polling' \subseteq polling \cup Watches
      <3>1. CASE stop
        BY <1>1, <3>1 DEF Sched!Collect, Sched!Gone
      <3>2. CASE ~stop
        BY <1>1, <3>2 DEF Sched!Collect, Sched!Gone
      <3>3. QED
        BY <3>1, <3>2
    <2>3. QED
      BY <2>1, <2>2 DEF SchedKept
  <1>2. CASE Sched!PollReturns
    BY <1>2 DEF Sched!PollReturns, SchedInv, SchedTyped, SchedKept
  <1>3. CASE Sched!PollFails
    BY <1>3 DEF Sched!PollFails, Sched!Gone, SchedKept
  <1>4. ASSUME NEW w \in Watches, Sched!Dispatch(w) PROVE SchedKept'
    <2>1. schedWorker.at = "dispatch" /\ UNCHANGED <<active, polling, tslot, schedUp, stop, schedOp, stoppedObjects, twice>>
      BY <1>4 DEF Sched!Dispatch
    <2>2. CASE w \in active
      <3>1. schedWorker'.at = "in watch" /\ schedWorker'.obj = w /\ dispatching' = dispatching \cup {w}
        BY <1>4, <2>2 DEF Sched!Dispatch, SchedInv, SchedTyped
      <3>2. QED
        BY <2>1, <3>1 DEF SchedKept
    <2>3. CASE w \notin active
      <3>1. schedWorker'.at = "dispatch" /\ dispatching' = dispatching
        BY <1>4, <2>1, <2>3 DEF Sched!Dispatch, SchedInv, SchedTyped
      <3>2. QED
        BY <2>1, <3>1 DEF SchedKept
    <2>4. QED
      BY <2>2, <2>3
  <1>5. CASE Sched!WatchReturns
    BY <1>5 DEF Sched!WatchReturns, SchedInv, SchedTyped, SchedKept
  <1>6. CASE Sched!RoundEnds
    BY <1>6 DEF Sched!RoundEnds, Sched!Gone, SchedKept
  <1>7. CASE Sched!TimerIdle
    <2>1. schedWorker.at = "timers" /\ schedWorker' = Sched!NextSlot(schedWorker) /\ UNCHANGED <<Sched!flags, Sched!slots, schedUp, stop, schedOp, Sched!history>>
      BY <1>7 DEF Sched!TimerIdle
    <2>2. schedWorker'.at \in {"timers", "collect"}
      BY <2>1, NextPlace DEF SchedInv
    <2>3. QED
      BY <2>1, <2>2 DEF SchedKept
  <1>8. CASE Sched!TimerFires
    <2> DEFINE t == tslot[schedWorker.slot]
    <2>1. /\ schedWorker.at = "timers" /\ t \in Timers /\ schedWorker.slot \in TimerSlots
      BY <1>8 DEF Sched!TimerFires, Sched!Due, SchedInv, SchedWorks, SchedTyped
    <2>2. /\ dispatching' = dispatching \cup {t}
          /\ schedWorker' = [schedWorker EXCEPT !.at = "in timer", !.due = @ \ {t}, !.obj = t]
          /\ UNCHANGED <<polling, schedUp, stop, schedOp, stoppedObjects, twice>>
      BY <1>8 DEF Sched!TimerFires
    <2>3. schedWorker'.at = "in timer" /\ schedWorker'.obj = t
      BY <2>2 DEF SchedInv, SchedTyped
    <2>4. \A u \in Timers \ twice : u \in active' \ stoppedObjects => \E i \in TimerSlots : tslot'[i] = u
      <3>1. CASE t \in OneShot
        <4>1. active' = active \ {t} /\ tslot' = [tslot EXCEPT ![schedWorker.slot] = None]
          BY <1>8, <3>1 DEF Sched!TimerFires
        <4>2. \A i \in TimerSlots : tslot[i] # t => tslot'[i] = tslot[i]
          BY <4>1 DEF SchedInv, SchedTyped
        <4>3. QED
          BY <4>1, <4>2 DEF SchedKept
      <3>2. CASE t \notin OneShot
        BY <1>8, <3>2 DEF Sched!TimerFires, SchedKept
      <3>3. QED
        BY <3>1, <3>2
    <2>5. QED
      BY <2>1, <2>2, <2>3, <2>4 DEF SchedKept
  <1>9. CASE Sched!TimerReturns
    <2>1. /\ schedWorker.at = "in timer" /\ schedWorker' = Sched!NextSlot([schedWorker EXCEPT !.obj = None])
          /\ dispatching' = dispatching \ {schedWorker.obj} /\ UNCHANGED <<active, polling, Sched!slots, schedUp, stop, schedOp, Sched!history>>
      BY <1>9 DEF Sched!TimerReturns
    <2>2. schedWorker'.at \in {"timers", "collect"}
      BY <2>1, NextPlace DEF SchedInv, SchedTyped
    <2>3. QED
      BY <2>1, <2>2 DEF SchedKept
  <1>10. CASE Sched!CallbackRearms
    <2>1. /\ schedWorker.obj \in Timers /\ Sched!TimerEnter(schedWorker.obj)
          /\ UNCHANGED <<dispatching, polling, schedUp, stop, schedWorker, schedOp, stoppedObjects>>
      BY <1>10 DEF Sched!CallbackRearms
    <2>2. \A u \in Timers \ twice' : u \in active' \ stoppedObjects' => \E i \in TimerSlots : tslot'[i] = u
      <3>1. /\ \E i \in TimerSlots : tslot'[i] = schedWorker.obj
            /\ \A i \in TimerSlots : tslot[i] \in Timers => tslot'[i] = tslot[i]
            /\ active' = active \cup {schedWorker.obj} /\ twice \subseteq twice'
        BY <2>1, EnteredHasSlot
      <3> TAKE u \in Timers \ twice'
      <3>2. CASE u = schedWorker.obj
        BY <3>1, <3>2
      <3>3. ASSUME u # schedWorker.obj, u \in active' \ stoppedObjects' PROVE \E i \in TimerSlots : tslot'[i] = u
        <4>1. u \in Timers \ twice /\ u \in active \ stoppedObjects
          BY <2>1, <3>1, <3>3
        <4>2. PICK i \in TimerSlots : tslot[i] = u
          BY <4>1 DEF SchedKept
        <4>3. QED
          BY <3>1, <4>2
      <3>4. QED
        BY <3>2, <3>3
    <2>3. QED
      BY <2>1, <2>2 DEF SchedKept
  <1>11. CASE UNCHANGED Sched!vars
    BY <1>11 DEF Sched!vars, SchedKept
  <1>12. QED
    BY <1>1, <1>2, <1>3, <1>4, <1>5, <1>6, <1>7, <1>8, <1>9, <1>10, <1>11 DEF Sched!WorkerStep

(* Both parts of the scheduler's invariant, in every state.                *)
LEMMA SchedAlways == Sched!SchedulerAssumption /\ Sched!Spec => [](SchedInv /\ SchedKept)
PROOF
  <1>1. Sched!SchedulerAssumption /\ Sched!Init => SchedInv /\ SchedKept
    BY SchedStarts, KeptStarts
  <1>2. Sched!SchedulerAssumption /\ SchedInv /\ SchedKept /\ [Sched!Next]_(Sched!vars) => SchedInv' /\ SchedKept'
    BY SchedStep, KeptByUsers, KeptByWorker DEF Sched!Next
  <1>3. SUFFICES ASSUME Sched!SchedulerAssumption PROVE Sched!Spec => [](SchedInv /\ SchedKept)
    OBVIOUS
  <1>4. Sched!Init => SchedInv /\ SchedKept
    BY <1>1, <1>3
  <1>5. SchedInv /\ SchedKept /\ [Sched!Next]_(Sched!vars) => SchedInv' /\ SchedKept'
    BY <1>2, <1>3
  <1>6. QED
    BY <1>4, <1>5, PTL DEF Sched!Spec

(* One element counts as one. *)
LEMMA OneCounts == ASSUME NEW x PROVE Sched!Cardinality({x}) = 1
  BY FS_Singleton, SchedCount

(* The scheduler's variables have their types.  The worker is in one       *)
(* callback at a time; a running timer that was never entered twice is in  *)
(* the worker's table exactly once: it will fire, and it takes nobody      *)
(* else's slot.                                                            *)
THEOREM SchedulerBooks ==
  ASSUME Sched!SchedulerAssumption PROVE Sched!Spec => [](Sched!TypeOK /\ Sched!OneCallback /\ Sched!ListedOnce)
PROOF
  <1>1. SchedInv /\ SchedKept => Sched!TypeOK
    BY DEF SchedInv, SchedKept, SchedTyped, Sched!TypeOK, Sched!Objects
  <1>2. SchedInv /\ SchedKept => Sched!OneCallback
    <2>1. SUFFICES ASSUME SchedInv, SchedKept PROVE Sched!OneCallback
      OBVIOUS
    <2>2. dispatching \subseteq {schedWorker.obj}
      BY <2>1 DEF SchedKept
    <2>3. CASE dispatching = {}
      BY <2>2, <2>3, FS_EmptySet, SchedCount DEF Sched!OneCallback
    <2>4. CASE dispatching = {schedWorker.obj}
      <3>1. Sched!Cardinality({schedWorker.obj}) = 1
        BY OneCounts
      <3>2. QED
        BY <2>2, <2>4, <3>1 DEF Sched!OneCallback
    <2>5. QED
      BY <2>2, <2>3, <2>4
  <1>3. SchedInv /\ SchedKept => Sched!ListedOnce
    <2>1. SUFFICES ASSUME SchedInv, SchedKept, NEW t \in Timers \ twice
                   PROVE  /\ Sched!Cardinality({i \in TimerSlots : tslot[i] = t}) <= 1
                          /\ t \in active /\ t \notin stoppedObjects => {i \in TimerSlots : tslot[i] = t} # {}
      BY DEF Sched!ListedOnce
    <2> DEFINE mine == {i \in TimerSlots : tslot[i] = t}
    <2>2. \A i, j \in mine : i = j
      BY <2>1 DEF SchedInv, SchedListed
    <2>3. t \in active /\ t \notin stoppedObjects => mine # {}
      BY <2>1 DEF SchedKept
    <2> HIDE DEF mine
    <2>4. CASE mine = {}
      <3>1. Sched!Cardinality(mine) = 0
        BY <2>4, FS_EmptySet, SchedCount
      <3>2. QED
        BY <2>3, <3>1 DEF mine
    <2>5. ASSUME NEW i \in mine PROVE Sched!Cardinality(mine) <= 1
      <3>1. mine = {i}
        BY <2>2, <2>5
      <3>2. QED
        BY <3>1, OneCounts
    <2>6. QED
      BY <2>3, <2>4, <2>5 DEF mine
  <1>4. QED
    BY <1>1, <1>2, <1>3, SchedAlways, PTL

-----------------------------------------------------------------------------
(* Motor sessions and notifications *)

Motor == INSTANCE LinkSessions WITH
    rx <- linkRx, links <- notifyLinks, host <- notifyHost

(* The places of the receive thread at which a lost link is being settled. *)
Settling == {"drop", "dropped", "release"}

(* The shape of the tables, and so many commands were begun.               *)
LinkTyped ==
  /\ pwm = [p \in Ports |-> pwm[p]] /\ owner = [p \in Ports |-> owner[p]]
  /\ token = [p \in Ports |-> token[p]] /\ linkOf = [c \in Motor!Cmds |-> linkOf[c]]
  /\ cmds \in Nat /\ cmds <= MaxCmd
  /\ {"at", "link", "runs"} \subseteq DOMAIN linkRx /\ {"runs", "ports"} \subseteq DOMAIN excused

(* A motor that turns has an owner, unless its stop was refused, and the   *)
(* owner's command is the one that drives it.                              *)
LinkOwns ==
  \A p \in Ports :
    /\ pwm[p] # 0 /\ p \notin excused.ports => owner[p] # None
    /\ owner[p] # None => /\ pwm[p] = token[p] /\ token[p] \in 1 .. cmds
                          /\ linkOf[token[p]] = owner[p]

(* An owner's link is up, or its end is being settled.                     *)
LinkHolds(link, ups, r) == link \in ups \/ (r.at \in Settling /\ r.link \in {None, link})
LinkIsUp == \A p \in Ports : owner[p] # None => LinkHolds(owner[p], up, linkRx)

LinkInv == LinkTyped /\ LinkOwns /\ LinkIsUp

(* A step stops some of the motors, or none.                               *)
Lets(S) ==
  /\ pwm' = [p \in Ports |-> IF p \in S THEN 0 ELSE pwm[p]]
  /\ owner' = [p \in Ports |-> IF p \in S THEN None ELSE owner[p]]
  /\ token' = [p \in Ports |-> IF p \in S THEN 0 ELSE token[p]]

(* A step that begins a command, or does not.                              *)
Counts ==
  /\ cmds' \in {cmds, cmds + 1} /\ cmds' <= MaxCmd
  /\ linkOf' = [c \in Motor!Cmds |-> linkOf'[c]]
  /\ \A c \in 1 .. cmds : linkOf'[c] = linkOf[c]

(* Stopping motors keeps the invariant, where the owners of the others are *)
(* still linked or being settled.                                          *)
LEMMA MotorsAreLet ==
  ASSUME Motor!LinkAssumption, LinkInv, NEW S, Lets(S), Counts,
         {"at", "link", "runs"} \subseteq DOMAIN linkRx',
         {"runs", "ports"} \subseteq DOMAIN excused', \A p \in Ports \ S : p \in excused.ports => p \in excused'.ports,
         \A p \in Ports \ S : owner[p] # None => LinkHolds(owner[p], up', linkRx')
  PROVE  LinkInv'
PROOF
  <1>1. /\ \A p \in Ports : /\ pwm'[p] = IF p \in S THEN 0 ELSE pwm[p]
                            /\ owner'[p] = IF p \in S THEN None ELSE owner[p]
                            /\ token'[p] = IF p \in S THEN 0 ELSE token[p]
        /\ pwm' = [p \in Ports |-> pwm'[p]] /\ owner' = [p \in Ports |-> owner'[p]]
        /\ token' = [p \in Ports |-> token'[p]]
    BY DEF Lets
  <1>2. LinkTyped'
    BY <1>1 DEF LinkInv, LinkTyped, Counts
  <1>3. LinkOwns'
    BY <1>1 DEF LinkInv, LinkTyped, LinkOwns, Counts
  <1>4. LinkIsUp'
    BY <1>1 DEF LinkIsUp
  <1>5. QED
    BY <1>2, <1>3, <1>4 DEF LinkInv

(* Nothing at all happens to the motors.                                   *)
LEMMA MotorsAreKept ==
  ASSUME Motor!LinkAssumption, LinkInv, UNCHANGED Motor!backend, Counts,
         {"at", "link", "runs"} \subseteq DOMAIN linkRx',
         {"runs", "ports"} \subseteq DOMAIN excused', excused'.ports = excused.ports,
         \A p \in Ports : owner[p] # None => LinkHolds(owner[p], up', linkRx')
  PROVE  LinkInv'
PROOF
  <1>1. Lets({})
    BY DEF Lets, Motor!backend, LinkInv, LinkTyped
  <1>2. QED
    BY <1>1, MotorsAreLet

(* The end of runs stops the motors they own.                              *)
LEMMA EndOwnedLets == ASSUME NEW R, Motor!EndOwned(R) PROVE \E S : Lets(S)
  BY DEF Motor!EndOwned, Lets

(* A stop of one motor stops that motor.                                   *)
LEMMA HaltLets == ASSUME LinkInv, NEW p \in Ports, Motor!Halt(p) PROVE Lets({p})
  BY DEF Motor!Halt, Lets, LinkInv, LinkTyped

(* A motor is driven for a link that is up: the number of its command is   *)
(* the newest.                                                             *)
LEMMA MotorIsDriven ==
  ASSUME Motor!LinkAssumption, LinkInv, NEW q \in Ports, NEW l \in Motor!Links, Motor!Command(l), Motor!Drive(q, l, cmds + 1),
         Motor!Covered({q}), UNCHANGED linkRx
  PROVE  LinkInv'
PROOF
  <1>1. /\ linkRx.at = "idle" /\ l \in up /\ cmds' = cmds + 1 /\ linkOf' = [linkOf EXCEPT ![cmds + 1] = l]
        /\ UNCHANGED <<up, linkRx>> /\ cmds < MaxCmd /\ cmds \in Nat /\ MaxCmd \in Nat /\ l # None
    BY DEF Motor!Command, LinkInv, LinkTyped, Motor!LinkAssumption
  <1>2. /\ pwm' = [pwm EXCEPT ![q] = cmds + 1] /\ owner' = [owner EXCEPT ![q] = l]
        /\ token' = [token EXCEPT ![q] = cmds + 1]
    BY DEF Motor!Drive
  <1>3. excused' = [excused EXCEPT !.ports = @ \ {q}] /\ {"runs", "ports"} \subseteq DOMAIN excused
    BY DEF Motor!Covered, LinkInv, LinkTyped
  <1>4. /\ \A p \in Ports : /\ pwm'[p] = IF p = q THEN cmds + 1 ELSE pwm[p]
                            /\ owner'[p] = IF p = q THEN l ELSE owner[p]
                            /\ token'[p] = IF p = q THEN cmds + 1 ELSE token[p]
        /\ pwm' = [p \in Ports |-> pwm'[p]] /\ owner' = [p \in Ports |-> owner'[p]]
        /\ token' = [p \in Ports |-> token'[p]]
    BY <1>2 DEF LinkInv, LinkTyped
  <1>5. /\ linkOf' = [c \in Motor!Cmds |-> linkOf'[c]] /\ linkOf'[cmds + 1] = l
        /\ \A c \in 1 .. cmds : linkOf'[c] = linkOf[c]
    <2>1. linkOf = [c \in Motor!Cmds |-> linkOf[c]]
      BY DEF LinkInv, LinkTyped
    <2>2. cmds + 1 \in Motor!Cmds /\ \A c \in 1 .. cmds : c \in Motor!Cmds /\ c # cmds + 1
      BY <1>1 DEF Motor!Cmds
    <2>3. QED
      BY <1>1, <2>1, <2>2
  <1>6. excused'.ports = excused.ports \ {q} /\ {"runs", "ports"} \subseteq DOMAIN excused'
    BY <1>3
  <1>7. LinkTyped'
    BY <1>1, <1>4, <1>5, <1>6 DEF LinkInv, LinkTyped
  <1>8. LinkOwns'
    BY <1>1, <1>4, <1>5, <1>6 DEF LinkInv, LinkOwns
  <1>9. LinkIsUp'
    BY <1>1, <1>4 DEF LinkInv, LinkIsUp, LinkHolds, Settling
  <1>10. QED
    BY <1>7, <1>8, <1>9 DEF LinkInv

(* A command begins.                                                       *)
LEMMA CommandCounts ==
  ASSUME Motor!LinkAssumption, LinkInv, NEW l \in Motor!Links, Motor!Command(l)
  PROVE  Counts /\ linkRx.at = "idle" /\ UNCHANGED up
PROOF
  <1>1. linkOf = [c \in Motor!Cmds |-> linkOf[c]]
    BY DEF LinkInv, LinkTyped
  <1>2. /\ linkRx.at = "idle" /\ cmds' = cmds + 1 /\ linkOf' = [linkOf EXCEPT ![cmds + 1] = l]
        /\ UNCHANGED up /\ cmds < MaxCmd /\ cmds \in Nat /\ MaxCmd \in Nat
    BY DEF Motor!Command, LinkInv, LinkTyped, Motor!LinkAssumption
  <1>3. \A c \in 1 .. cmds : c # cmds + 1
    BY <1>2
  <1>4. /\ linkOf' = [c \in Motor!Cmds |-> linkOf'[c]]
        /\ \A c \in 1 .. cmds : c \in Motor!Cmds => linkOf'[c] = linkOf[c]
    BY <1>1, <1>2, <1>3
  <1>5. QED
    BY <1>2, <1>4 DEF Counts, Motor!Cmds

(* A command starts a motor, stops it or leaves it alone.                  *)
LEMMA MotorCommands ==
  ASSUME Motor!LinkAssumption, LinkInv, NEW p \in Ports, NEW l \in Motor!Links,
         Motor!StartRun(p) \/ Motor!MotorStart(l, p) \/ Motor!MotorStop(l, p)
  PROVE  LinkInv'
PROOF
  <1>1. {"at", "link", "runs"} \subseteq DOMAIN linkRx /\ {"runs", "ports"} \subseteq DOMAIN excused /\ Classic \in Motor!Links
    BY DEF LinkInv, LinkTyped, Motor!Links
  <1>2. ASSUME NEW k \in Motor!Links, Motor!Command(k), (UNCHANGED Motor!backend /\ excused'.ports = excused.ports) \/ Motor!Halt(p),
               {"at", "link", "runs"} \subseteq DOMAIN linkRx', linkRx'.at \notin Settling \/ linkRx' = linkRx,
               {"runs", "ports"} \subseteq DOMAIN excused',
               \A q \in Ports \ {p} : q \in excused.ports => q \in excused'.ports
        PROVE  LinkInv'
    <2>1. Counts /\ linkRx.at = "idle" /\ UNCHANGED up
      BY <1>2, CommandCounts
    <2>2. \A q \in Ports : owner[q] # None => LinkHolds(owner[q], up', linkRx')
      BY <1>2, <2>1 DEF LinkInv, LinkIsUp, LinkHolds, Settling
    <2>3. CASE UNCHANGED Motor!backend /\ excused'.ports = excused.ports
      BY <1>2, <2>1, <2>2, <2>3, MotorsAreKept
    <2>4. CASE Motor!Halt(p)
      BY <1>2, <2>1, <2>2, <2>4, HaltLets, MotorsAreLet
    <2>5. QED
      BY <1>2, <2>3, <2>4
  <1>3. CASE Motor!MotorStart(l, p)
    <2>1. Motor!Command(l) /\ UNCHANGED <<up, linkRx>>
      BY <1>3 DEF Motor!MotorStart, Motor!Command
    <2>2. CASE Motor!Drive(p, l, cmds + 1) /\ Motor!Covered({p})
      BY <2>1, <2>2, MotorIsDriven
    <2>3. CASE UNCHANGED <<Motor!backend, excused>>
      BY <1>1, <1>2, <2>1, <2>3
    <2>4. QED
      BY <1>3, <2>2, <2>3 DEF Motor!MotorStart
  <1>4. CASE Motor!MotorStop(l, p)
    <2>1. Motor!Command(l) /\ UNCHANGED excused /\ (UNCHANGED Motor!backend \/ Motor!Halt(p))
      BY <1>4 DEF Motor!MotorStop, Motor!Command
    <2>2. linkRx' = linkRx \/ linkRx' = [Motor!Resting EXCEPT !.at = "cancel", !.port = p, !.cmd = cmds + 1]
      BY <1>4 DEF Motor!MotorStop
    <2>3. {"at", "link", "runs"} \subseteq DOMAIN linkRx' /\ (linkRx'.at \notin Settling \/ linkRx' = linkRx)
      BY <1>1, <2>2 DEF Motor!Resting, Settling
    <2>4. QED
      BY <1>1, <1>2, <2>1, <2>3
  <1>5. CASE Motor!StartRun(p)
    <2>1. Motor!Command(Classic) /\ UNCHANGED <<up, linkRx>> /\ Motor!Covered({q \in {p} \cap attached : run[q] = 0})
      BY <1>5 DEF Motor!StartRun, Motor!Command
    <2>2. CASE p \in attached /\ run[p] = 0 /\ Motor!Drive(p, Classic, cmds + 1)
      <3>1. {q \in {p} \cap attached : run[q] = 0} = {p}
        BY <2>2
      <3>2. Motor!Covered({p})
        BY <2>1, <3>1
      <3>3. QED
        BY <1>1, <2>1, <2>2, <3>2, MotorIsDriven
    <2>3. CASE UNCHANGED Motor!backend /\ (p \notin attached \/ run[p] # 0)
      <3>1. {q \in {p} \cap attached : run[q] = 0} = {}
        BY <2>3
      <3>2. Motor!Covered({})
        BY <2>1, <3>1
      <3>3. excused'.ports = excused.ports /\ {"runs", "ports"} \subseteq DOMAIN excused'
        BY <1>1, <3>2 DEF Motor!Covered
      <3>4. QED
        BY <1>1, <1>2, <2>1, <2>3, <3>3
    <2>4. CASE p \in attached /\ run[p] = 0 /\ Motor!Halt(p)
      <3>1. {q \in {p} \cap attached : run[q] = 0} = {p}
        BY <2>4
      <3>2. Motor!Covered({p})
        BY <2>1, <3>1
      <3>3. /\ \A q \in Ports \ {p} : q \in excused.ports => q \in excused'.ports
            /\ {"runs", "ports"} \subseteq DOMAIN excused'
        BY <1>1, <3>2 DEF Motor!Covered
      <3>4. QED
        BY <1>1, <1>2, <2>1, <2>4, <3>3
    <2>5. QED
      BY <1>5, <2>2, <2>3, <2>4 DEF Motor!StartRun
  <1>6. QED
    BY <1>3, <1>4, <1>5

(* The receive thread settles a cancelled run or a lost link, the worker   *)
(* ends runs, and links and motors come and go.                            *)
LEMMA MotorSteps ==
  ASSUME Motor!LinkAssumption, LinkInv,
         Motor!RxStep \/ Motor!WorkerStep \/ Motor!Shutdown \/ (\E l \in Motor!Links : Motor!Connect(l) \/ Motor!Disconnect(l))
           \/ (\E p \in Ports : Motor!Plug(p)) \/ UNCHANGED Motor!vars
  PROVE  LinkInv'
PROOF
  <1>1. {"at", "link", "runs"} \subseteq DOMAIN linkRx /\ {"runs", "ports"} \subseteq DOMAIN excused
    BY DEF LinkInv, LinkTyped
  <1>2. \A q \in Ports : owner[q] # None => LinkHolds(owner[q], up, linkRx)
    BY DEF LinkInv, LinkIsUp
  <1>3. ASSUME UNCHANGED Motor!backend \/ (\E R : Motor!EndOwned(R)), UNCHANGED <<cmds, linkOf>>,
               {"at", "link", "runs"} \subseteq DOMAIN linkRx', {"runs", "ports"} \subseteq DOMAIN excused',
               excused'.ports = excused.ports,
               \A q \in Ports : owner[q] # None => LinkHolds(owner[q], up', linkRx')
        PROVE  LinkInv'
    <2>1. Counts
      BY <1>3 DEF Counts, LinkInv, LinkTyped
    <2>2. CASE UNCHANGED Motor!backend
      BY <1>1, <1>3, <2>1, <2>2, MotorsAreKept
    <2>3. ASSUME NEW R, Motor!EndOwned(R) PROVE LinkInv'
      <3>1. PICK S : Lets(S)
        BY <2>3, EndOwnedLets
      <3>2. QED
        BY <1>1, <1>3, <2>1, <3>1, MotorsAreLet
    <2>4. QED
      BY <1>3, <2>2, <2>3
  (* The receive thread is not at a lost link before or after.             *)
  <1>4. ASSUME UNCHANGED up, linkRx' = linkRx \/ linkRx.at \notin Settling
        PROVE  \A q \in Ports : owner[q] # None => LinkHolds(owner[q], up', linkRx')
    BY <1>2, <1>4 DEF LinkHolds
  <1>5. CASE Motor!CancelRun \/ Motor!CancelTimer \/ Motor!AbortByRx
    <2>1. /\ linkRx.at \notin Settling /\ UNCHANGED <<up, cmds, linkOf, excused>>
          /\ UNCHANGED Motor!backend \/ (\E R : Motor!EndOwned(R))
      <3>1. CASE Motor!CancelRun
        BY <3>1 DEF Motor!CancelRun, Settling
      <3>2. CASE Motor!CancelTimer
        BY <3>2 DEF Motor!CancelTimer, Settling
      <3>3. CASE Motor!AbortByRx
        BY <3>3 DEF Motor!AbortByRx, Settling
      <3>4. QED
        BY <1>5, <3>1, <3>2, <3>3
    <2>2. {"at", "link", "runs"} \subseteq DOMAIN linkRx'
      <3>1. CASE Motor!CancelRun
        BY <1>1, <3>1 DEF Motor!CancelRun, Motor!Resting
      <3>2. CASE Motor!CancelTimer
        <4>1. PICK R : linkRx' = Motor!Resting \/ linkRx' = [linkRx EXCEPT !.at = "abort", !.runs = R]
          BY <3>2 DEF Motor!CancelTimer
        <4>2. CASE linkRx' = Motor!Resting
          BY <4>2 DEF Motor!Resting
        <4>3. CASE linkRx' = [linkRx EXCEPT !.at = "abort", !.runs = R]
          BY <1>1, <4>3
        <4>4. QED
          BY <4>1, <4>2, <4>3
      <3>3. CASE Motor!AbortByRx
        BY <3>3 DEF Motor!AbortByRx, Motor!Resting
      <3>4. QED
        BY <1>5, <3>1, <3>2, <3>3
    <2>3. QED
      BY <1>1, <1>3, <1>4, <2>1, <2>2
  <1>6. CASE Motor!DropRuns \/ Motor!DropTimer
    <2>1. /\ linkRx.at \in Settling /\ UNCHANGED <<up, cmds, linkOf>>
          /\ UNCHANGED Motor!backend \/ (\E R : Motor!EndOwned(R))
          /\ excused'.ports = excused.ports /\ {"runs", "ports"} \subseteq DOMAIN excused'
      BY <1>1, <1>6 DEF Motor!DropRuns, Motor!DropTimer, Settling, Motor!history
    <2>2. {"at", "link", "runs"} \subseteq DOMAIN linkRx' /\ linkRx'.at \in Settling /\ linkRx'.link = linkRx.link
      BY <1>1, <1>6 DEF Motor!DropRuns, Motor!DropTimer, Settling
    <2>3. \A q \in Ports : owner[q] # None => LinkHolds(owner[q], up', linkRx')
      BY <1>2, <2>1, <2>2 DEF LinkHolds
    <2>4. QED
      BY <1>1, <1>3, <2>1, <2>2, <2>3
  <1>7. CASE Motor!Release
    <2>1. /\ linkRx.at = "release" /\ linkRx' = Motor!Resting /\ UNCHANGED <<up, cmds, linkOf>>
      BY <1>7 DEF Motor!Release
    <2>2. {"at", "link", "runs"} \subseteq DOMAIN linkRx' /\ Counts
      BY <2>1 DEF Motor!Resting, Counts, LinkInv, LinkTyped
    <2>3. CASE linkRx.link = None
      <3>1. Lets(Ports) /\ UNCHANGED excused
        BY <1>7, <2>3 DEF Motor!Release, Lets
      <3>2. QED
        BY <1>1, <2>2, <3>1, MotorsAreLet
    <2>4. CASE linkRx.link # None
      <3> DEFINE S == {p \in Ports : owner[p] = linkRx.link}
      <3>1. /\ pwm' = [p \in Ports |-> IF p \in S \cap attached THEN 0 ELSE pwm[p]]
            /\ owner' = [p \in Ports |-> IF p \in S THEN None ELSE owner[p]]
            /\ token' = [p \in Ports |-> IF p \in S THEN 0 ELSE token[p]]
            /\ excused' = [excused EXCEPT !.ports = @ \cup (S \ attached)]
        BY <1>7, <2>4 DEF Motor!Release, Motor!StopOwned
      <3>2. {"runs", "ports"} \subseteq DOMAIN excused' /\ excused'.ports = excused.ports \cup (S \ attached)
        BY <1>1, <3>1
      <3>3. \A p \in Ports : /\ p \in S <=> owner[p] = linkRx.link
                             /\ pwm'[p] = IF p \in S /\ p \in attached THEN 0 ELSE pwm[p]
                             /\ owner'[p] = IF p \in S THEN None ELSE owner[p]
                             /\ token'[p] = IF p \in S THEN 0 ELSE token[p]
        BY <3>1
      <3>4. LinkTyped'
        BY <2>1, <2>2, <3>1, <3>2 DEF LinkInv, LinkTyped
      <3> HIDE DEF S
      <3>5. LinkOwns'
        BY <2>1, <3>2, <3>3 DEF LinkInv, LinkOwns
      <3>6. LinkIsUp'
        BY <2>1, <2>4, <3>3 DEF LinkInv, LinkIsUp, LinkHolds
      <3>7. QED
        BY <3>4, <3>5, <3>6 DEF LinkInv
    <2>5. QED
      BY <2>3, <2>4
  <1>8. CASE Motor!WorkerStep
    <2>1. /\ UNCHANGED <<up, linkRx, cmds, linkOf, excused>>
          /\ UNCHANGED Motor!backend \/ (\E R : Motor!EndOwned(R))
      BY <1>8 DEF Motor!WorkerStep, Motor!Fire, Motor!Skip, Motor!Due, Motor!End, Motor!Settle, Motor!WorkerRearm, Motor!AbortByWorker, Motor!history
    <2>2. QED
      BY <1>1, <1>3, <1>4, <2>1
  <1>9. CASE Motor!Shutdown
    <2>1. linkRx' = [Motor!Resting EXCEPT !.at = "drop"] /\ UNCHANGED <<Motor!backend, cmds, linkOf, excused>>
      BY <1>9 DEF Motor!Shutdown, Motor!history
    <2>2. {"at", "link", "runs"} \subseteq DOMAIN linkRx' /\ linkRx'.at = "drop" /\ linkRx'.link = None
      BY <2>1 DEF Motor!Resting
    <2>3. \A q \in Ports : owner[q] # None => LinkHolds(owner[q], up', linkRx')
      BY <2>2 DEF LinkHolds, Settling
    <2>4. QED
      BY <1>1, <1>3, <2>1, <2>2, <2>3
  <1>10. ASSUME NEW l \in Motor!Links, Motor!Connect(l) PROVE LinkInv'
    <2>1. up' = up \cup {l} /\ UNCHANGED <<Motor!backend, cmds, linkOf, excused, linkRx>>
      BY <1>10 DEF Motor!Connect, Motor!history
    <2>2. \A q \in Ports : owner[q] # None => LinkHolds(owner[q], up', linkRx')
      BY <1>2, <2>1 DEF LinkHolds
    <2>3. QED
      BY <1>1, <1>3, <2>1, <2>2
  <1>11. ASSUME NEW l \in Motor!Links, Motor!Disconnect(l) PROVE LinkInv'
    <2>1. /\ up' = up \ {l} /\ linkRx.at = "idle" /\ UNCHANGED <<Motor!backend, cmds, linkOf, excused>>
          /\ linkRx' = [Motor!Resting EXCEPT !.at = IF l = Classic THEN "drop" ELSE "release", !.link = l]
      BY <1>11 DEF Motor!Disconnect, Motor!history
    <2>2. {"at", "link", "runs"} \subseteq DOMAIN linkRx' /\ linkRx'.at \in Settling /\ linkRx'.link = l
      BY <2>1 DEF Motor!Resting, Settling
    <2>3. \A q \in Ports : owner[q] # None => LinkHolds(owner[q], up', linkRx')
      BY <1>2, <2>1, <2>2 DEF LinkHolds, Settling
    <2>4. QED
      BY <1>1, <1>3, <2>1, <2>2, <2>3
  <1>12. ASSUME NEW p \in Ports, Motor!Plug(p) PROVE LinkInv'
    <2>1. UNCHANGED <<Motor!backend, cmds, linkOf, excused, up, linkRx>>
      BY <1>12 DEF Motor!Plug, Motor!history
    <2>2. QED
      BY <1>1, <1>3, <1>4, <2>1
  <1>13. CASE UNCHANGED Motor!vars
    <2>1. UNCHANGED <<Motor!backend, cmds, linkOf, excused, up, linkRx>>
      BY <1>13 DEF Motor!vars, Motor!history
    <2>2. QED
      BY <1>1, <1>3, <1>4, <2>1
  <1>14. QED
    BY <1>5, <1>6, <1>7, <1>8, <1>9, <1>10, <1>11, <1>12, <1>13 DEF Motor!RxStep

(* Every step drives a motor, stops some or leaves all alone.              *)
LEMMA LinkStep == Motor!LinkAssumption /\ LinkInv /\ [Motor!Next]_(Motor!vars) => LinkInv'
PROOF
  <1> SUFFICES ASSUME Motor!LinkAssumption, LinkInv, [Motor!Next]_(Motor!vars) PROVE LinkInv'
    OBVIOUS
  <1>1. ASSUME NEW p \in Ports, Motor!StartRun(p) PROVE LinkInv'
    BY <1>1, MotorCommands DEF Motor!Links
  <1>2. ASSUME NEW p \in Ports, NEW l \in Motor!Links, Motor!MotorStart(l, p) \/ Motor!MotorStop(l, p) PROVE LinkInv'
    BY <1>2, MotorCommands
  <1>3. QED
    BY <1>1, <1>2, MotorSteps DEF Motor!Next

(* At first no motor turns and no link is up.                              *)
LEMMA LinkStarts == ASSUME Motor!LinkAssumption, Motor!Init PROVE LinkInv
  BY DEF Motor!LinkAssumption, Motor!Init, LinkInv, LinkTyped, LinkOwns, LinkIsUp, Motor!Resting

(* The owner on record is the one whose command drives the bridge, and     *)
(* once a disconnect is handled no motor turns on behalf of that link,     *)
(* except where the motor had been pulled out and the stop was refused.    *)
THEOREM LostLinkStops == ASSUME Motor!LinkAssumption PROVE Motor!Spec => [](Motor!OwnerDrives /\ Motor!DisconnectStops)
PROOF
  <1>1. Motor!Init => LinkInv
    BY LinkStarts
  <1>2. LinkInv /\ [Motor!Next]_(Motor!vars) => LinkInv'
    BY LinkStep
  <1>3. LinkInv => Motor!OwnerDrives /\ Motor!DisconnectStops
    BY DEF LinkInv, LinkOwns, LinkIsUp, LinkHolds, Motor!OwnerDrives, Motor!DisconnectStops, Settling
  <1>4. QED
    BY <1>1, <1>2, <1>3, PTL DEF Motor!Spec

(* The end of a timed run stops that run's own demand and never one that   *)
(* took over the motor while the worker had let go of the lock.            *)
THEOREM RunEndsItsOwn == ASSUME Motor!LinkAssumption PROVE Motor!Spec => [][Motor!EndsOwn]_(Motor!vars)
PROOF
  <1>1. Motor!Init => LinkInv
    BY LinkStarts
  <1>2. LinkInv /\ [Motor!Next]_(Motor!vars) => LinkInv'
    BY LinkStep
  <1>3. LinkInv /\ [Motor!Next]_(Motor!vars) => Motor!EndsOwn
    <2> SUFFICES ASSUME LinkInv, [Motor!Next]_(Motor!vars), worker.at = "end", worker'.at = "settle"
                 PROVE  \A p \in Ports : pwm'[p] # pwm[p] => p = worker.port /\ pwm[p] = worker.cmd
      BY DEF Motor!EndsOwn
    <2>1. worker' # worker
      OBVIOUS
    <2>2. Motor!End
      BY <2>1 DEF Motor!Next, Motor!RxStep, Motor!CancelRun, Motor!CancelTimer, Motor!AbortByRx, Motor!DropRuns, Motor!DropTimer, Motor!Release, Motor!WorkerStep, Motor!Fire,
             Motor!Skip, Motor!Due, Motor!Settle, Motor!WorkerRearm, Motor!AbortByWorker, Motor!Shutdown, Motor!Connect, Motor!Disconnect, Motor!StartRun, Motor!MotorStart,
             Motor!MotorStop, Motor!Command, Motor!Plug, Motor!vars, Motor!backend, Motor!classic, Motor!history
    <2>3. PICK S \in SUBSET {r[1] : r \in {q \in {<<worker.port, worker.cmd>>} : Motor!Owned(q[1], q[2])}} :
            pwm' = [p \in Ports |-> IF p \in S THEN 0 ELSE pwm[p]]
      BY <2>2 DEF Motor!End, Motor!EndOwned
    <2>4. \A p \in S : p = worker.port /\ owner[p] = Classic /\ token[p] = worker.cmd
      BY <2>3 DEF Motor!Owned
    <2>5. QED
      BY <2>3, <2>4 DEF LinkInv, LinkOwns, Motor!LinkAssumption, Motor!Links
  <1>4. QED
    BY <1>1, <1>2, <1>3, PTL DEF Motor!Spec

(* Where the host's thread is, timer, notifier and service agree on the    *)
(* interval as far as the request has come.                                *)
NotifyPlaces ==
  /\ notifyHost.pc \in {"idle", "clear", "stop", "start", "set", "answer", "resetStop"}
  /\ notifyHost.pc \in {"clear", "stop", "start", "set"} => notifyHost.ok
  /\ notifyHost.pc \in {"idle", "clear"} => timer = interval_ms /\ interval_ms = notification_interval_ms
  /\ notifyHost.pc \in {"stop", "resetStop"} => interval_ms = 0 /\ notification_interval_ms = 0
  /\ notifyHost.pc = "start" => timer = 0 /\ interval_ms = 0 /\ notification_interval_ms = 0
  /\ notifyHost.pc = "set" => timer = notifyHost.i
  /\ notifyHost.pc = "answer" => /\ timer = interval_ms
                                 /\ notifyHost.ok => interval_ms = notifyHost.i
                                 /\ ~notifyHost.ok => notification_interval_ms = interval_ms
  /\ leLink = 0 => notifyHost.pc \in {"idle", "resetStop"} /\ notification_interval_ms = 0

(* A tick that reads its devices holds the notifier's lock, and works for  *)
(* the request that set the interval.                                      *)
NotifyHolds ==
  /\ lock # "host"
  /\ notifyWorker.pc \in {"idle", "lock", "snapshot", "notify"}
  /\ notifyWorker.pc \in {"snapshot", "notify"} => lock = "worker" /\ notifyWorker.for = request

(* The fields of the two threads.                                          *)
NotifyTyped ==
  /\ notifyHost = [pc |-> notifyHost.pc, i |-> notifyHost.i, was |-> notifyHost.was, ok |-> notifyHost.ok]
  /\ notifyWorker = [pc |-> notifyWorker.pc, for |-> notifyWorker.for]
  /\ notifyLinks \in Nat

NotifyInv == NotifyTyped /\ NotifyPlaces /\ NotifyHolds /\ Motor!NoStaleNotification

(* Nobody is subscribed at first.                                          *)
LEMMA NotifyStarts == ASSUME Motor!NotifyInit PROVE NotifyInv
  BY DEF Motor!NotifyInit, NotifyInv, NotifyTyped, NotifyPlaces, NotifyHolds, Motor!NoStaleNotification,
         Motor!HostIdle

(* One step per critical section of the notifier and call outside of it.   *)
LEMMA NotifyStep == ASSUME NotifyInv, [Motor!NotifyNext]_(Motor!notifyVars) PROVE NotifyInv'
PROOF
  <1> USE DEF NotifyInv, NotifyTyped, NotifyPlaces, NotifyHolds, Motor!NoStaleNotification, Motor!HostIdle,
              Motor!Host, Motor!Worker
  <1>1. CASE Motor!NotifyConnect
    BY <1>1 DEF Motor!NotifyConnect
  <1>2. ASSUME NEW i \in Interval, Motor!Receive(i) PROVE NotifyInv'
    <2>1. CASE i = 0 \/ Motor!InRange(i)
      BY <1>2, <2>1 DEF Motor!Receive
    <2>2. CASE ~(i = 0 \/ Motor!InRange(i))
      BY <1>2, <2>2 DEF Motor!Receive
    <2>3. QED
      BY <2>1, <2>2
  <1>3. CASE Motor!Clear
    BY <1>3 DEF Motor!Clear
  <1>4. CASE Motor!TimerStop
    BY <1>4 DEF Motor!TimerStop
  <1>5. CASE Motor!TimerStart
    BY <1>5 DEF Motor!TimerStart
  <1>6. CASE Motor!SetInterval
    BY <1>6 DEF Motor!SetInterval
  <1>7. CASE Motor!Answer
    BY <1>7 DEF Motor!Answer
  <1>8. CASE Motor!NotifyDisconnect
    BY <1>8 DEF Motor!NotifyDisconnect
  <1>9. CASE Motor!Tick
    BY <1>9 DEF Motor!Tick
  <1>10. CASE Motor!TickLock
    BY <1>10 DEF Motor!TickLock
  <1>11. ASSUME NEW good \in BOOLEAN, Motor!Snapshot(good) PROVE NotifyInv'
    BY <1>11 DEF Motor!Snapshot
  <1>12. CASE Motor!Notify
    BY <1>12 DEF Motor!Notify
  <1>13. CASE UNCHANGED Motor!notifyVars
    BY <1>13 DEF Motor!notifyVars
  <1>14. QED
    BY <1>1, <1>2, <1>3, <1>4, <1>5, <1>6, <1>7, <1>8, <1>9, <1>10, <1>11, <1>12, <1>13
    DEF Motor!NotifyNext, Motor!HostStep, Motor!NotifyWorkerStep

(* Without a link no timer and no interval is left; an answered request    *)
(* has set all three to its interval; and no notification is queued for a  *)
(* subscription that was changed or ended (btsensor_modern_notify.c).      *)
THEOREM NotificationsAreTheirs ==
  Motor!NotifySpec => [](Motor!EndedIsQuiet /\ Motor!AnswerIsTrue /\ Motor!NoStaleNotification)
PROOF
  <1>1. NotifyInv => Motor!EndedIsQuiet /\ Motor!AnswerIsTrue /\ Motor!NoStaleNotification
    BY DEF NotifyInv, NotifyPlaces, Motor!EndedIsQuiet, Motor!AnswerIsTrue
  <1>2. QED
    BY NotifyStarts, NotifyStep, <1>1, PTL DEF Motor!NotifySpec

(* The intervals are among those that are asked for, the lock is the       *)
(* worker's while it reads its devices, and the counters keep their        *)
(* bounds.                                                                 *)
NotifyBooked == Motor!NotifyTypeOK /\ notifyLinks \in 0..MaxLinks /\ requests \in 0..MaxRequests

LEMMA NotifyBookedStarts == ASSUME Motor!ModernNotifyAssumption, Motor!NotifyInit PROVE NotifyBooked
  BY DEF Motor!ModernNotifyAssumption, Motor!NotifyInit, NotifyBooked, Motor!NotifyTypeOK, Motor!HostIdle

(* The lock is taken and given back where the worker goes in and out, and  *)
(* a limit is raised where it is not yet reached.                          *)
LEMMA NotifyBookedStep ==
  ASSUME Motor!ModernNotifyAssumption, NotifyInv, NotifyBooked, [Motor!NotifyNext]_(Motor!notifyVars)
  PROVE  NotifyBooked'
PROOF
  <1> USE DEF Motor!ModernNotifyAssumption, NotifyBooked, Motor!NotifyTypeOK, Motor!HostIdle, Motor!Host, Motor!Worker
  <1>0. NotifyTyped /\ NotifyHolds
    BY DEF NotifyInv
  <1> USE <1>0 DEF NotifyTyped, NotifyHolds
  <1>1. CASE Motor!NotifyConnect
    BY <1>1 DEF Motor!NotifyConnect
  <1>2. ASSUME NEW i \in Interval, Motor!Receive(i) PROVE NotifyBooked'
    BY <1>2 DEF Motor!Receive
  <1>3. CASE Motor!Clear
    BY <1>3 DEF Motor!Clear
  <1>4. CASE Motor!TimerStop
    BY <1>4 DEF Motor!TimerStop
  <1>5. CASE Motor!TimerStart
    BY <1>5 DEF Motor!TimerStart
  <1>6. CASE Motor!SetInterval
    BY <1>6 DEF Motor!SetInterval
  <1>7. CASE Motor!Answer
    BY <1>7 DEF Motor!Answer
  <1>8. CASE Motor!NotifyDisconnect
    BY <1>8 DEF Motor!NotifyDisconnect
  <1>9. CASE Motor!Tick
    BY <1>9 DEF Motor!Tick
  <1>10. CASE Motor!TickLock
    BY <1>10 DEF Motor!TickLock
  <1>11. ASSUME NEW good \in BOOLEAN, Motor!Snapshot(good) PROVE NotifyBooked'
    BY <1>11 DEF Motor!Snapshot
  <1>12. CASE Motor!Notify
    BY <1>12 DEF Motor!Notify
  <1>13. CASE UNCHANGED Motor!notifyVars
    BY <1>13 DEF Motor!notifyVars
  <1>14. QED
    BY <1>1, <1>2, <1>3, <1>4, <1>5, <1>6, <1>7, <1>8, <1>9, <1>10, <1>11, <1>12, <1>13
    DEF Motor!NotifyNext, Motor!HostStep, Motor!NotifyWorkerStep

(* The lock of the notifier is held exactly while a tick reads its devices *)
(* and sends, and the three intervals are always ones that were asked for  *)
(* (btsensor_modern_notify.c).                                             *)
THEOREM NotifierBooks == ASSUME Motor!ModernNotifyAssumption PROVE Motor!NotifySpec => []Motor!NotifyTypeOK
PROOF
  <1>1. Motor!NotifyInit => NotifyInv /\ NotifyBooked
    BY NotifyStarts, NotifyBookedStarts
  <1>2. NotifyInv /\ NotifyBooked /\ [Motor!NotifyNext]_(Motor!notifyVars) => NotifyInv' /\ NotifyBooked'
    BY NotifyStep, NotifyBookedStep
  <1>3. NotifyBooked => Motor!NotifyTypeOK
    BY DEF NotifyBooked
  <1>4. QED
    BY <1>1, <1>2, <1>3, PTL DEF Motor!NotifySpec

-----------------------------------------------------------------------------
(* The send arbiter and its drain registrations *)

Tx == INSTANCE BtsensorTx WITH
    queue <- txQueue, up <- txUp, armed <- txArmed, calls <- txCalls

(* Registrations are numbered by the counter; the open one, and those to   *)
(* come, have not been told anything.                                      *)
DrainInv ==
  /\ drain = [id |-> drain.id, timed |-> drain.timed] /\ drain.id \in Nat
  /\ counter \in Nat /\ drain.id <= counter
  /\ txCalls \in [1 .. MaxId -> Nat]
  /\ \A id \in 1 .. MaxId : id = drain.id \/ counter < id => txCalls[id] = 0
  /\ Tx!OneTerminal

(* Nothing is registered at first.                                         *)
LEMMA DrainStarts == ASSUME Tx!DrainInit PROVE DrainInv
  BY DEF Tx!DrainInit, DrainInv, Tx!OneTerminal, Tx!NoDrain

(* Whoever tells a registration its end closes it in the same step.        *)
LEMMA DrainStep ==
  ASSUME MaxId \in Nat, DrainInv, [Tx!DrainNext]_(Tx!drainVars) PROVE DrainInv'
PROOF
  <1> USE DEF DrainInv, Tx!OneTerminal, Tx!NoDrain, Tx!Called
  <1>1. CASE Tx!Enqueue
    BY <1>1, SMTT(40) DEF Tx!Enqueue
  <1>2. CASE Tx!Fires
    BY <1>2, SMTT(40) DEF Tx!Fires, Tx!Fire
  <1>3. ASSUME NEW t \in DrainThreads, Tx!PumpEnd(t) PROVE DrainInv'
    BY <1>3, SMTT(40) DEF Tx!PumpEnd
  <1>4. ASSUME NEW t \in DrainThreads, Tx!Expire(t) PROVE DrainInv'
    BY <1>4, SMTT(40) DEF Tx!Expire
  <1>5. ASSUME NEW t \in DrainThreads, Tx!Failed(t) PROVE DrainInv'
    BY <1>5, SMTT(40) DEF Tx!Failed
  <1>6. ASSUME NEW t \in DrainThreads,
               Tx!DrainEnter(t) \/ Tx!Loop(t) \/ Tx!CancelTimer(t) \/ Tx!StartTimer(t)
        PROVE  DrainInv'
    BY <1>6, SMTT(40) DEF Tx!DrainEnter, Tx!Loop, Tx!CancelTimer, Tx!StartTimer
  <1>7. ASSUME NEW t \in DrainThreads, Tx!Clear(t) \/ Tx!DrainDiscard(t) \/ Tx!StartPump(t)
        PROVE  DrainInv'
    BY <1>7, SMTT(40) DEF Tx!Clear, Tx!DrainDiscard, Tx!StartPump
  <1>8. ASSUME NEW t \in DrainThreads, NEW timed \in BOOLEAN, Tx!Arm(t, timed) PROVE DrainInv'
    BY <1>8, SMTT(40) DEF Tx!Arm
  <1>9. CASE UNCHANGED Tx!drainVars
    BY <1>9 DEF Tx!drainVars
  <1>10. QED
    BY <1>1, <1>2, <1>3, <1>4, <1>5, <1>6, <1>7, <1>8, <1>9 DEF Tx!DrainNext, Tx!Progress

(* A registration is told its end at most once (btsensor_tx.c), by the     *)
(* pump, its timer, or the failure to start that, whoever comes first, for *)
(* any number of threads and registrations.                                *)
THEOREM DrainEndsOnce == ASSUME MaxId \in Nat PROVE Tx!DrainSpec => []Tx!OneTerminal
PROOF
  <1>1. DrainInv => Tx!OneTerminal
    BY DEF DrainInv
  <1>2. DrainInv /\ [Tx!DrainNext]_(Tx!drainVars) => DrainInv'
    BY DrainStep
  <1>3. QED
    BY DrainStarts, <1>1, <1>2, PTL DEF Tx!DrainSpec

-----------------------------------------------------------------------------
(* The threads inside the reconciler.                                      *)
Inside == {"loop", "cancel", "start", "failed"}

(* Threads, timers and registrations have their fields, and no number is  *)
(* above the counter.                                                      *)
DrainTyped ==
  /\ drain = [id |-> drain.id, timed |-> drain.timed] /\ drain.id \in Nat /\ drain.timed \in BOOLEAN
  /\ counter \in Nat /\ timerId \in Nat /\ reconciling \in BOOLEAN
  /\ drain.id <= counter /\ timerId <= counter
  /\ drainThread = [t \in DrainThreads |-> [at |-> drainThread[t].at, id |-> drainThread[t].id]]
  /\ \A t \in DrainThreads : drainThread[t].id \in Nat /\ drainThread[t].id <= counter
  /\ \A id \in txArmed : id \in Nat /\ id # 0 /\ id <= counter

(* One thread at a time is inside the reconciler.                          *)
OneInside ==
  /\ reconciling <=> \E t \in DrainThreads : drainThread[t].at \in Inside
  /\ \A t, u \in DrainThreads : drainThread[t].at \in Inside /\ drainThread[u].at \in Inside => t = u

(* A running timer is the recorded one, or is being cancelled.             *)
ArmedKnown ==
  \A id \in txArmed :
     id = timerId \/ \E t \in DrainThreads : Tx!DrainAt(t, "cancel") /\ drainThread[t].id = id

(* The recorded timer of the open registration runs, or some thread has it *)
(* in hand.                                                                *)
TimerLive ==
  timerId # 0 /\ drain.id = timerId =>
     \/ timerId \in txArmed
     \/ \E t \in DrainThreads : /\ drainThread[t].at \in {"expire", "start", "failed"}
                                /\ drainThread[t].id = timerId

(* What a thread knows that cancels, starts or delivers a timer.           *)
ThreadsKnow ==
  \A t \in DrainThreads :
     /\ Tx!DrainAt(t, "cancel") => timerId = 0 /\ drainThread[t].id # drain.id /\ drainThread[t].id # 0
     /\ drainThread[t].at \in {"start", "failed"} =>
          /\ timerId # 0 /\ timerId = drainThread[t].id /\ txArmed = {}
          /\ \A u \in DrainThreads : Tx!DrainAt(u, "expire") => drainThread[u].id # timerId
     /\ Tx!DrainAt(t, "expire") =>
          /\ drainThread[t].id # 0 /\ drainThread[t].id \notin txArmed
          /\ drainThread[t].id = drain.id => timerId = drain.id

(* A registration without a time-out has no timer; what differs will be    *)
(* looked at.                                                              *)
DifferenceSeen ==
  /\ timerId # 0 /\ drain.id = timerId => drain.timed
  /\ drain.timed => drain.id # 0
  /\ ~reconciling /\ timerId # Tx!Desired
       => \E t \in DrainThreads : drainThread[t].at \in {"reconcile", "expire", "pump"}

(* All of it, which every step keeps.                                     *)
DrainBooked ==
  DrainTyped /\ OneInside /\ ArmedKnown /\ TimerLive /\ ThreadsKnow /\ DifferenceSeen

(* Nothing is registered, armed or under way at first.                     *)
LEMMA DrainBookedStarts == ASSUME Tx!DrainInit PROVE DrainBooked
PROOF
  <1>1. \A t \in DrainThreads : drainThread[t].at = "idle" /\ drainThread[t].id = 0
    BY DEF Tx!DrainInit, Tx!DrainIdle
  <1>2. /\ drain = [id |-> 0, timed |-> FALSE] /\ drain.id = 0 /\ drain.timed = FALSE
        /\ counter = 0 /\ timerId = 0 /\ reconciling = FALSE /\ txArmed = {}
    BY DEF Tx!DrainInit, Tx!NoDrain
  <1>3. drainThread = [t \in DrainThreads |-> [at |-> drainThread[t].at, id |-> drainThread[t].id]]
    BY DEF Tx!DrainInit, Tx!DrainIdle
  <1>8. drain = [id |-> drain.id, timed |-> drain.timed]
    BY <1>2
  <1>10. drain.timed \in BOOLEAN /\ reconciling \in BOOLEAN
    BY <1>2, Zenon
  <1>11. drain.id = 0 /\ counter = 0 /\ timerId = 0 /\ txArmed = {}
    BY <1>2
  <1>9. /\ drain.id \in Nat /\ counter \in Nat /\ timerId \in Nat
        /\ drain.id <= counter /\ timerId <= counter
        /\ \A t \in DrainThreads : drainThread[t].id \in Nat /\ drainThread[t].id <= counter
        /\ \A id \in txArmed : id \in Nat /\ id # 0 /\ id <= counter
    BY <1>1, <1>11
  <1>4. DrainTyped
    BY <1>3, <1>8, <1>9, <1>10 DEF DrainTyped
  <1>5. OneInside /\ DifferenceSeen
    BY <1>1, <1>2 DEF OneInside, DifferenceSeen, Inside, Tx!Desired
  <1>6. ArmedKnown /\ TimerLive /\ ThreadsKnow
    BY <1>1, <1>2 DEF ArmedKnown, TimerLive, ThreadsKnow, Tx!DrainAt
  <1>7. QED
    BY <1>4, <1>5, <1>6 DEF DrainBooked

(* A step of a thread changes its own record only.                         *)
LEMMA DrainMoves ==
  ASSUME DrainTyped, NEW t \in DrainThreads, NEW place, NEW n, Tx!DrainGoto(t, place, n)
  PROVE  /\ drainThread'[t].at = place /\ drainThread'[t].id = n
         /\ \A u \in DrainThreads : u # t => drainThread'[u] = drainThread[u]
         /\ n \in Nat => drainThread' = [u \in DrainThreads |->
                                 [at |-> drainThread'[u].at, id |-> drainThread'[u].id]]
  BY DEF DrainTyped, Tx!DrainGoto

(* A step outside the reconciler leaves timers alone, whatever it does to  *)
(* the registration; a thread that goes to rest has seen that the timer is *)
(* the desired one or that somebody is inside.                             *)
LEMMA DrainOutside ==
  ASSUME DrainBooked, NEW t \in DrainThreads, NEW place \in {"idle", "reconcile", "pump"},
         drainThread[t].at \in {"idle", "pump"}, Tx!DrainGoto(t, place, 0),
         UNCHANGED <<timerId, reconciling, txArmed>>, counter' \in Nat, counter <= counter',
         \/ drain' = drain
         \/ drain' = Tx!NoDrain
         \/ \E timed \in BOOLEAN :
              counter' = counter + 1 /\ drain' = [id |-> counter + 1, timed |-> timed],
         place = "idle" => reconciling \/ timerId = Tx!Desired'
  PROVE  DrainBooked'
PROOF
  <1>1. /\ drainThread'[t].at = place /\ drainThread'[t].id = 0
        /\ \A u \in DrainThreads : u # t => drainThread'[u] = drainThread[u]
        /\ drainThread' = [u \in DrainThreads |->
                            [at |-> drainThread'[u].at, id |-> drainThread'[u].id]]
    BY DrainMoves DEF DrainBooked
  <1>2. /\ drain' = [id |-> drain'.id, timed |-> drain'.timed]
        /\ \/ drain'.id = drain.id /\ drain'.timed = drain.timed
           \/ drain'.id = 0 /\ drain'.timed = FALSE
           \/ drain'.id = counter + 1 /\ drain'.timed \in BOOLEAN /\ counter' = counter + 1
    <2>1. CASE drain' = drain
      BY <2>1 DEF DrainBooked, DrainTyped
    <2>2. CASE drain' = Tx!NoDrain
      BY <2>2 DEF Tx!NoDrain
    <2>3. ASSUME NEW timed \in BOOLEAN, counter' = counter + 1,
                 drain' = [id |-> counter + 1, timed |-> timed]
          PROVE  /\ drain' = [id |-> drain'.id, timed |-> drain'.timed]
                 /\ drain'.id = counter + 1 /\ drain'.timed \in BOOLEAN
      BY <2>3
    <2>4. QED
      BY <2>1, <2>2, <2>3
  <1>3. drain'.id \in Nat /\ drain'.id <= counter'
    BY <1>2 DEF DrainBooked, DrainTyped
  <1>0. drain'.timed \in BOOLEAN
    BY <1>2 DEF DrainBooked, DrainTyped
  <1>4. DrainTyped'
    BY <1>0, <1>1, <1>2, <1>3 DEF DrainBooked, DrainTyped
  <1>5. OneInside'
    BY <1>1 DEF DrainBooked, OneInside, Inside
  <1>6. ArmedKnown'
    BY <1>1 DEF DrainBooked, ArmedKnown, Tx!DrainAt
  <1>10. TimerLive'
    <2>1. CASE timerId # 0 /\ drain.id = timerId
      BY <1>1, <2>1 DEF DrainBooked, TimerLive
    <2>2. CASE ~(timerId # 0 /\ drain.id = timerId)
      BY <1>2, <2>2 DEF DrainBooked, DrainTyped, TimerLive
    <2>3. QED
      BY <2>1, <2>2
  <1>9. ThreadsKnow'
    BY <1>1, <1>2 DEF DrainBooked, DrainTyped, ThreadsKnow, Tx!DrainAt
  <1>7. DifferenceSeen'
    BY <1>1, <1>2 DEF DrainBooked, DrainTyped, DifferenceSeen, Tx!Desired
  <1>8. QED
    BY <1>4, <1>5, <1>6, <1>7, <1>9, <1>10 DEF DrainBooked

(* The types, for a step that closes the registration or leaves it.        *)
LEMMA DrainTypedKept ==
  ASSUME DrainTyped, NEW t \in DrainThreads, NEW place, NEW n \in Nat, n <= counter,
         Tx!DrainGoto(t, place, n), counter' = counter, drain' = drain \/ drain' = Tx!NoDrain,
         timerId' \in Nat, timerId' <= counter, reconciling' \in BOOLEAN,
         \A id \in txArmed' : id \in txArmed \/ (id \in Nat /\ id # 0 /\ id <= counter)
  PROVE  DrainTyped' /\ drain'.id \in {drain.id, 0} /\ (drain'.id = 0 => ~drain'.timed \/ drain' = drain)
PROOF
  <1>1. /\ drainThread'[t].at = place /\ drainThread'[t].id = n
        /\ \A u \in DrainThreads : u # t => drainThread'[u] = drainThread[u]
        /\ drainThread' = [u \in DrainThreads |->
                            [at |-> drainThread'[u].at, id |-> drainThread'[u].id]]
    BY DrainMoves
  <1>2. drain'.id \in {drain.id, 0} /\ (drain'.id = 0 => ~drain'.timed \/ drain' = drain)
    BY DEF Tx!NoDrain
  <1>3. drain' = [id |-> drain'.id, timed |-> drain'.timed] /\ drain'.timed \in BOOLEAN
    <2>1. CASE drain' = drain
      BY <2>1 DEF DrainTyped
    <2>2. CASE drain' = Tx!NoDrain
      BY <2>2 DEF Tx!NoDrain
    <2>3. QED
      BY <2>1, <2>2
  <1>4. drain'.id \in Nat /\ drain'.id <= counter'
    BY <1>2 DEF DrainTyped
  <1>5. \A u \in DrainThreads : drainThread'[u].id \in Nat /\ drainThread'[u].id <= counter'
    BY <1>1 DEF DrainTyped
  <1>6. counter' \in Nat /\ timerId' <= counter' /\ \A id \in txArmed' : id \in Nat /\ id # 0 /\ id <= counter'
    BY DEF DrainTyped
  <1>7. QED
    BY <1>1, <1>2, <1>3, <1>4, <1>5, <1>6 DEF DrainTyped

(* The numbers alone.                                                      *)
LEMMA DrainNumbers ==
  ASSUME DrainTyped
  PROVE  /\ drain.id \in Nat /\ timerId \in Nat /\ counter \in Nat /\ 0 <= counter
         /\ drain.id <= counter /\ timerId <= counter /\ Tx!Desired \in Nat /\ Tx!Desired <= counter
         /\ \A t \in DrainThreads : drainThread[t].id \in Nat /\ drainThread[t].id <= counter
         /\ \A id \in txArmed : id \in Nat /\ id # 0 /\ id <= counter
         /\ reconciling \in BOOLEAN /\ drain.timed \in BOOLEAN
  BY DEF DrainTyped, Tx!Desired

(* A timer runs out.                                                        *)
LEMMA DrainFire ==
  ASSUME DrainBooked, NEW t \in DrainThreads, NEW id \in txArmed, Tx!DrainAt(t, "idle"),
         txArmed' = txArmed \ {id}, Tx!DrainGoto(t, "expire", id),
         UNCHANGED <<drain, timerId, reconciling, counter>>
  PROVE  DrainBooked'
PROOF
  <1> USE DEF DrainBooked
  <1>8. 0 \in Nat /\ 0 <= counter
    BY DrainNumbers
  <1>0. DrainTyped' /\ drain'.id \in {drain.id, 0} /\ (drain'.id = 0 => ~drain'.timed \/ drain' = drain)
    BY DrainTypedKept, DrainNumbers
  <1>1. /\ drainThread'[t].at = "expire" /\ drainThread'[t].id = id
        /\ \A u \in DrainThreads : u # t => drainThread'[u] = drainThread[u]
    BY DrainMoves
  <1>9. id \in Nat /\ id # 0 /\ (id = drain.id => timerId = drain.id)
    BY DrainNumbers DEF ArmedKnown, ThreadsKnow
  <1>2. OneInside'
    BY <1>1 DEF OneInside, Inside, Tx!DrainAt
  <1>3. ArmedKnown'
    BY <1>1 DEF ArmedKnown, Tx!DrainAt, ThreadsKnow
  <1>4. TimerLive'
    BY <1>0, <1>1 DEF TimerLive, Tx!DrainAt, ThreadsKnow, ArmedKnown
  <1>5. ThreadsKnow'
    BY <1>1, <1>9 DEF ThreadsKnow, Tx!DrainAt, ArmedKnown, OneInside, Inside, DifferenceSeen, Tx!Desired
  <1>6. DifferenceSeen'
    BY <1>0, <1>1 DEF DifferenceSeen, Tx!Desired, OneInside, Inside
  <1>7. QED
    BY <1>0, <1>2, <1>3, <1>4, <1>5, <1>6

(* The expiry of the recorded timer ends its registration.                 *)
LEMMA DrainExpired ==
  ASSUME DrainBooked, NEW t \in DrainThreads, Tx!DrainAt(t, "expire"), drain.id = drainThread[t].id,
         timerId = drainThread[t].id, timerId' = 0, drain' = Tx!NoDrain,
         Tx!DrainGoto(t, "reconcile", 0), UNCHANGED <<reconciling, counter, txArmed>>
  PROVE  DrainBooked'
PROOF
  <1> USE DEF DrainBooked
  <1>8. 0 \in Nat /\ 0 <= counter
    BY DrainNumbers
  <1>0. DrainTyped' /\ drain'.id \in {drain.id, 0} /\ (drain'.id = 0 => ~drain'.timed \/ drain' = drain)
    BY DrainTypedKept, DrainNumbers
  <1>1. /\ drainThread'[t].at = "reconcile" /\ drainThread'[t].id = 0
        /\ \A u \in DrainThreads : u # t => drainThread'[u] = drainThread[u]
    BY DrainMoves
  <1>9. drain'.id = 0 /\ timerId # 0
    BY DEF Tx!NoDrain, ThreadsKnow, Tx!DrainAt
  <1>2. OneInside'
    BY <1>1 DEF OneInside, Inside, Tx!DrainAt
  <1>3. ArmedKnown'
    BY <1>1 DEF ArmedKnown, Tx!DrainAt, ThreadsKnow
  <1>4. TimerLive'
    BY <1>0, <1>1 DEF TimerLive, Tx!DrainAt, ThreadsKnow, ArmedKnown
  <1>5. ThreadsKnow'
    BY <1>1, <1>9 DEF ThreadsKnow, Tx!DrainAt, ArmedKnown, OneInside, Inside, DifferenceSeen, Tx!Desired
  <1>6. DifferenceSeen'
    BY <1>0, <1>1 DEF DifferenceSeen, Tx!Desired, OneInside, Inside
  <1>7. QED
    BY <1>0, <1>2, <1>3, <1>4, <1>5, <1>6

(* A late expiry only looks at the timer again.                            *)
LEMMA DrainLate ==
  ASSUME DrainBooked, NEW t \in DrainThreads, Tx!DrainAt(t, "expire"),
         ~(drain.id = drainThread[t].id /\ timerId = drainThread[t].id),
         Tx!DrainGoto(t, "reconcile", 0), UNCHANGED <<drain, timerId, reconciling, counter, txArmed>>
  PROVE  DrainBooked'
PROOF
  <1> USE DEF DrainBooked
  <1>8. 0 \in Nat /\ 0 <= counter
    BY DrainNumbers
  <1>0. DrainTyped' /\ drain'.id \in {drain.id, 0} /\ (drain'.id = 0 => ~drain'.timed \/ drain' = drain)
    BY DrainTypedKept, DrainNumbers
  <1>1. /\ drainThread'[t].at = "reconcile" /\ drainThread'[t].id = 0
        /\ \A u \in DrainThreads : u # t => drainThread'[u] = drainThread[u]
    BY DrainMoves
  <1>2. OneInside'
    BY <1>1 DEF OneInside, Inside, Tx!DrainAt
  <1>3. ArmedKnown'
    BY <1>1 DEF ArmedKnown, Tx!DrainAt, ThreadsKnow
  <1>4. TimerLive'
    BY <1>0, <1>1 DEF TimerLive, Tx!DrainAt, ThreadsKnow, ArmedKnown
  <1>5. ThreadsKnow'
    BY <1>0, <1>1 DEF ThreadsKnow, Tx!DrainAt, ArmedKnown, OneInside, Inside, DifferenceSeen, Tx!Desired
  <1>6. DifferenceSeen'
    BY <1>0, <1>1 DEF DifferenceSeen, Tx!Desired, OneInside, Inside
  <1>7. QED
    BY <1>0, <1>2, <1>3, <1>4, <1>5, <1>6

(* Nobody is inside: the thread goes in.                                   *)
LEMMA DrainGoesIn ==
  ASSUME DrainBooked, NEW t \in DrainThreads, Tx!DrainAt(t, "reconcile"), ~reconciling, reconciling',
         Tx!DrainGoto(t, "loop", 0), UNCHANGED <<drain, timerId, counter, txArmed>>
  PROVE  DrainBooked'
PROOF
  <1> USE DEF DrainBooked
  <1>8. 0 \in Nat /\ 0 <= counter
    BY DrainNumbers
  <1>0. DrainTyped' /\ drain'.id \in {drain.id, 0} /\ (drain'.id = 0 => ~drain'.timed \/ drain' = drain)
    BY DrainTypedKept, DrainNumbers
  <1>1. /\ drainThread'[t].at = "loop" /\ drainThread'[t].id = 0
        /\ \A u \in DrainThreads : u # t => drainThread'[u] = drainThread[u]
    BY DrainMoves
  <1>2. OneInside'
    BY <1>1 DEF OneInside, Inside, Tx!DrainAt
  <1>3. ArmedKnown'
    BY <1>1 DEF ArmedKnown, Tx!DrainAt, ThreadsKnow
  <1>4. TimerLive'
    BY <1>0, <1>1 DEF TimerLive, Tx!DrainAt, ThreadsKnow, ArmedKnown
  <1>5. ThreadsKnow'
    BY <1>0, <1>1 DEF ThreadsKnow, Tx!DrainAt, ArmedKnown, OneInside, Inside, DifferenceSeen, Tx!Desired
  <1>6. DifferenceSeen'
    BY <1>0, <1>1 DEF DifferenceSeen, Tx!Desired, OneInside, Inside
  <1>7. QED
    BY <1>0, <1>2, <1>3, <1>4, <1>5, <1>6

(* Somebody is inside and will look.                                       *)
LEMMA DrainTurnsBack ==
  ASSUME DrainBooked, NEW t \in DrainThreads, Tx!DrainAt(t, "reconcile"), reconciling,
         Tx!DrainGoto(t, "idle", 0), UNCHANGED <<drain, timerId, reconciling, counter, txArmed>>
  PROVE  DrainBooked'
PROOF
  <1> USE DEF DrainBooked
  <1>8. 0 \in Nat /\ 0 <= counter
    BY DrainNumbers
  <1>0. DrainTyped' /\ drain'.id \in {drain.id, 0} /\ (drain'.id = 0 => ~drain'.timed \/ drain' = drain)
    BY DrainTypedKept, DrainNumbers
  <1>1. /\ drainThread'[t].at = "idle" /\ drainThread'[t].id = 0
        /\ \A u \in DrainThreads : u # t => drainThread'[u] = drainThread[u]
    BY DrainMoves
  <1>2. OneInside'
    BY <1>1 DEF OneInside, Inside, Tx!DrainAt
  <1>3. ArmedKnown'
    BY <1>1 DEF ArmedKnown, Tx!DrainAt, ThreadsKnow
  <1>4. TimerLive'
    BY <1>0, <1>1 DEF TimerLive, Tx!DrainAt, ThreadsKnow, ArmedKnown
  <1>5. ThreadsKnow'
    BY <1>0, <1>1 DEF ThreadsKnow, Tx!DrainAt, ArmedKnown, OneInside, Inside, DifferenceSeen, Tx!Desired
  <1>6. DifferenceSeen'
    BY <1>0, <1>1 DEF DifferenceSeen, Tx!Desired, OneInside, Inside
  <1>7. QED
    BY <1>0, <1>2, <1>3, <1>4, <1>5, <1>6

(* The timer is the desired one.                                           *)
LEMMA DrainLeaves ==
  ASSUME DrainBooked, NEW t \in DrainThreads, Tx!DrainAt(t, "loop"), timerId = Tx!Desired, reconciling' = FALSE,
         Tx!DrainGoto(t, "idle", 0), UNCHANGED <<drain, timerId, counter, txArmed>>
  PROVE  DrainBooked'
PROOF
  <1> USE DEF DrainBooked
  <1>8. 0 \in Nat /\ 0 <= counter
    BY DrainNumbers
  <1>0. DrainTyped' /\ drain'.id \in {drain.id, 0} /\ (drain'.id = 0 => ~drain'.timed \/ drain' = drain)
    BY DrainTypedKept, DrainNumbers
  <1>1. /\ drainThread'[t].at = "idle" /\ drainThread'[t].id = 0
        /\ \A u \in DrainThreads : u # t => drainThread'[u] = drainThread[u]
    BY DrainMoves
  <1>2. OneInside'
    BY <1>1 DEF OneInside, Inside, Tx!DrainAt
  <1>3. ArmedKnown'
    BY <1>1 DEF ArmedKnown, Tx!DrainAt, ThreadsKnow
  <1>4. TimerLive'
    BY <1>0, <1>1 DEF TimerLive, Tx!DrainAt, ThreadsKnow, ArmedKnown
  <1>5. ThreadsKnow'
    BY <1>0, <1>1 DEF ThreadsKnow, Tx!DrainAt, ArmedKnown, OneInside, Inside, DifferenceSeen, Tx!Desired
  <1>6. DifferenceSeen'
    BY <1>0, <1>1 DEF DifferenceSeen, Tx!Desired, OneInside, Inside
  <1>7. QED
    BY <1>0, <1>2, <1>3, <1>4, <1>5, <1>6

(* Another timer is recorded: it is to be cancelled.                       *)
LEMMA DrainTakes ==
  ASSUME DrainBooked, NEW t \in DrainThreads, Tx!DrainAt(t, "loop"), timerId # Tx!Desired, timerId # 0,
         timerId' = 0, Tx!DrainGoto(t, "cancel", timerId),
         UNCHANGED <<drain, reconciling, counter, txArmed>>
  PROVE  DrainBooked'
PROOF
  <1> USE DEF DrainBooked
  <1>8. 0 \in Nat /\ 0 <= counter
    BY DrainNumbers
  <1>0. DrainTyped' /\ drain'.id \in {drain.id, 0} /\ (drain'.id = 0 => ~drain'.timed \/ drain' = drain)
    BY DrainTypedKept, DrainNumbers
  <1>1. /\ drainThread'[t].at = "cancel" /\ drainThread'[t].id = timerId
        /\ \A u \in DrainThreads : u # t => drainThread'[u] = drainThread[u]
    BY DrainMoves
  <1>10. reconciling'
    BY DEF OneInside, Inside, Tx!DrainAt
  <1>2. OneInside'
    BY <1>1 DEF OneInside, Inside, Tx!DrainAt
  <1>3. ArmedKnown'
    BY <1>1 DEF ArmedKnown, Tx!DrainAt, ThreadsKnow
  <1>4. TimerLive'
    BY <1>0, <1>1 DEF TimerLive, Tx!DrainAt, ThreadsKnow, ArmedKnown
  <1>5. ThreadsKnow'
    BY <1>0, <1>1 DEF ThreadsKnow, Tx!DrainAt, ArmedKnown, OneInside, Inside, DifferenceSeen, Tx!Desired
  <1>6. DifferenceSeen'
    BY <1>0, <1>1, <1>10 DEF DifferenceSeen, Tx!Desired
  <1>7. QED
    BY <1>0, <1>2, <1>3, <1>4, <1>5, <1>6

(* No timer is recorded: one is to be started.                             *)
LEMMA DrainPuts ==
  ASSUME DrainBooked, NEW t \in DrainThreads, Tx!DrainAt(t, "loop"), timerId # Tx!Desired, timerId = 0,
         timerId' = Tx!Desired, Tx!DrainGoto(t, "start", Tx!Desired),
         UNCHANGED <<drain, reconciling, counter, txArmed>>
  PROVE  DrainBooked'
PROOF
  <1> USE DEF DrainBooked
  <1>8. 0 \in Nat /\ 0 <= counter
    BY DrainNumbers
  <1>0. DrainTyped' /\ drain'.id \in {drain.id, 0} /\ (drain'.id = 0 => ~drain'.timed \/ drain' = drain)
    BY DrainTypedKept, DrainNumbers DEF Tx!Desired
  <1>1. /\ drainThread'[t].at = "start" /\ drainThread'[t].id = Tx!Desired
        /\ \A u \in DrainThreads : u # t => drainThread'[u] = drainThread[u]
    BY DrainMoves
  <1>10. reconciling'
    BY DEF OneInside, Inside, Tx!DrainAt
  <1>9. /\ txArmed = {} /\ Tx!Desired # 0 /\ Tx!Desired = drain.id /\ drain.timed
        /\ \A u \in DrainThreads : Tx!DrainAt(u, "expire") => drainThread[u].id # drain.id
    BY DrainNumbers DEF ArmedKnown, OneInside, Inside, Tx!DrainAt, Tx!Desired, ThreadsKnow
  <1>2. OneInside'
    BY <1>1 DEF OneInside, Inside, Tx!DrainAt
  <1>3. ArmedKnown'
    BY <1>1, <1>9 DEF ArmedKnown, Tx!DrainAt, ThreadsKnow
  <1>4. TimerLive'
    BY <1>0, <1>1 DEF TimerLive, Tx!DrainAt, ThreadsKnow, ArmedKnown
  <1>5. ThreadsKnow'
    BY <1>1, <1>9 DEF ThreadsKnow, Tx!DrainAt, ArmedKnown, OneInside, Inside, DifferenceSeen, Tx!Desired
  <1>6. DifferenceSeen'
    BY <1>9, <1>10 DEF DifferenceSeen, Tx!Desired
  <1>7. QED
    BY <1>0, <1>2, <1>3, <1>4, <1>5, <1>6

(* The backend cancels the timer, or it has run out.                       *)
LEMMA DrainCancels ==
  ASSUME DrainBooked, NEW t \in DrainThreads, Tx!DrainAt(t, "cancel"),
         txArmed' = txArmed \ {drainThread[t].id}, Tx!DrainGoto(t, "loop", 0),
         UNCHANGED <<drain, timerId, reconciling, counter>>
  PROVE  DrainBooked'
PROOF
  <1> USE DEF DrainBooked
  <1>8. 0 \in Nat /\ 0 <= counter
    BY DrainNumbers
  <1>0. DrainTyped' /\ drain'.id \in {drain.id, 0} /\ (drain'.id = 0 => ~drain'.timed \/ drain' = drain)
    BY DrainTypedKept, DrainNumbers
  <1>1. /\ drainThread'[t].at = "loop" /\ drainThread'[t].id = 0
        /\ \A u \in DrainThreads : u # t => drainThread'[u] = drainThread[u]
    BY DrainMoves
  <1>10. reconciling'
    BY DEF OneInside, Inside, Tx!DrainAt
  <1>2. OneInside'
    BY <1>1 DEF OneInside, Inside, Tx!DrainAt
  <1>3. ArmedKnown'
    BY <1>1 DEF ArmedKnown, Tx!DrainAt, ThreadsKnow
  <1>4. TimerLive'
    BY <1>0, <1>1 DEF TimerLive, Tx!DrainAt, ThreadsKnow, ArmedKnown
  <1>5. ThreadsKnow'
    BY <1>0, <1>1 DEF ThreadsKnow, Tx!DrainAt, ArmedKnown, OneInside, Inside, DifferenceSeen, Tx!Desired
  <1>6. DifferenceSeen'
    BY <1>0, <1>1, <1>10 DEF DifferenceSeen, Tx!Desired
  <1>7. QED
    BY <1>0, <1>2, <1>3, <1>4, <1>5, <1>6

(* The backend starts the timer.                                           *)
LEMMA DrainArms ==
  ASSUME DrainBooked, NEW t \in DrainThreads, Tx!DrainAt(t, "start"),
         txArmed' = txArmed \cup {drainThread[t].id}, Tx!DrainGoto(t, "loop", 0),
         UNCHANGED <<drain, timerId, reconciling, counter>>
  PROVE  DrainBooked'
PROOF
  <1> USE DEF DrainBooked
  <1>8. 0 \in Nat /\ 0 <= counter
    BY DrainNumbers
  <1>0. DrainTyped' /\ drain'.id \in {drain.id, 0} /\ (drain'.id = 0 => ~drain'.timed \/ drain' = drain)
    BY DrainTypedKept, DrainNumbers DEF ThreadsKnow, Tx!DrainAt
  <1>1. /\ drainThread'[t].at = "loop" /\ drainThread'[t].id = 0
        /\ \A u \in DrainThreads : u # t => drainThread'[u] = drainThread[u]
    BY DrainMoves
  <1>10. reconciling'
    BY DEF OneInside, Inside, Tx!DrainAt
  <1>2. OneInside'
    BY <1>1 DEF OneInside, Inside, Tx!DrainAt
  <1>3. ArmedKnown'
    BY <1>1 DEF ArmedKnown, Tx!DrainAt, ThreadsKnow
  <1>4. TimerLive'
    BY <1>0, <1>1 DEF TimerLive, Tx!DrainAt, ThreadsKnow, ArmedKnown
  <1>5. ThreadsKnow'
    BY <1>0, <1>1 DEF ThreadsKnow, Tx!DrainAt, ArmedKnown, OneInside, Inside, DifferenceSeen, Tx!Desired
  <1>6. DifferenceSeen'
    BY <1>0, <1>1, <1>10 DEF DifferenceSeen, Tx!Desired
  <1>7. QED
    BY <1>0, <1>2, <1>3, <1>4, <1>5, <1>6

(* The backend has no timer.                                               *)
LEMMA DrainRefused ==
  ASSUME DrainBooked, NEW t \in DrainThreads, Tx!DrainAt(t, "start"),
         Tx!DrainGoto(t, "failed", drainThread[t].id),
         UNCHANGED <<drain, timerId, reconciling, counter, txArmed>>
  PROVE  DrainBooked'
PROOF
  <1> USE DEF DrainBooked
  <1>8. 0 \in Nat /\ 0 <= counter
    BY DrainNumbers
  <1>0. DrainTyped' /\ drain'.id \in {drain.id, 0} /\ (drain'.id = 0 => ~drain'.timed \/ drain' = drain)
    BY DrainTypedKept, DrainNumbers
  <1>1. /\ drainThread'[t].at = "failed" /\ drainThread'[t].id = drainThread[t].id
        /\ \A u \in DrainThreads : u # t => drainThread'[u] = drainThread[u]
    BY DrainMoves
  <1>10. reconciling'
    BY DEF OneInside, Inside, Tx!DrainAt
  <1>2. OneInside'
    BY <1>1 DEF OneInside, Inside, Tx!DrainAt
  <1>3. ArmedKnown'
    BY <1>1 DEF ArmedKnown, Tx!DrainAt, ThreadsKnow
  <1>4. TimerLive'
    BY <1>0, <1>1 DEF TimerLive, Tx!DrainAt, ThreadsKnow, ArmedKnown
  <1>5. ThreadsKnow'
    BY <1>0, <1>1 DEF ThreadsKnow, Tx!DrainAt, ArmedKnown, OneInside, Inside, DifferenceSeen, Tx!Desired
  <1>6. DifferenceSeen'
    BY <1>0, <1>1, <1>10 DEF DifferenceSeen, Tx!Desired
  <1>7. QED
    BY <1>0, <1>2, <1>3, <1>4, <1>5, <1>6

(* A registration whose timer could not be started ends.                   *)
LEMMA DrainGivesUp ==
  ASSUME DrainBooked, NEW t \in DrainThreads, Tx!DrainAt(t, "failed"), timerId' = 0,
         drain' = IF drain.id = drainThread[t].id THEN Tx!NoDrain ELSE drain,
         Tx!DrainGoto(t, "loop", 0), UNCHANGED <<reconciling, counter, txArmed>>
  PROVE  DrainBooked'
PROOF
  <1> USE DEF DrainBooked
  <1>8. 0 \in Nat /\ 0 <= counter
    BY DrainNumbers
  <1>0. DrainTyped' /\ drain'.id \in {drain.id, 0} /\ (drain'.id = 0 => ~drain'.timed \/ drain' = drain)
    BY DrainTypedKept, DrainNumbers
  <1>1. /\ drainThread'[t].at = "loop" /\ drainThread'[t].id = 0
        /\ \A u \in DrainThreads : u # t => drainThread'[u] = drainThread[u]
    BY DrainMoves
  <1>10. reconciling'
    BY DEF OneInside, Inside, Tx!DrainAt
  <1>2. OneInside'
    BY <1>1 DEF OneInside, Inside, Tx!DrainAt
  <1>3. ArmedKnown'
    BY <1>1 DEF ArmedKnown, Tx!DrainAt, ThreadsKnow
  <1>4. TimerLive'
    BY <1>0, <1>1 DEF TimerLive, Tx!DrainAt, ThreadsKnow, ArmedKnown
  <1>5. ThreadsKnow'
    BY <1>0, <1>1 DEF ThreadsKnow, Tx!DrainAt, ArmedKnown, OneInside, Inside, DifferenceSeen, Tx!Desired
  <1>6. DifferenceSeen'
    BY <1>0, <1>1, <1>10 DEF DifferenceSeen, Tx!Desired
  <1>7. QED
    BY <1>0, <1>2, <1>3, <1>4, <1>5, <1>6

(* One step per critical section and call of the timer backend.            *)
LEMMA DrainBookedStep == ASSUME DrainBooked, [Tx!DrainNext]_(Tx!drainVars) PROVE DrainBooked'
PROOF
  <1>1. counter \in Nat /\ counter + 1 \in Nat /\ counter <= counter + 1 /\ counter <= counter
    BY DrainNumbers DEF DrainBooked
  <1>2. CASE Tx!Enqueue
    BY <1>2 DEF Tx!Enqueue, DrainBooked, DrainTyped, OneInside, ArmedKnown, TimerLive, ThreadsKnow,
                DifferenceSeen, Tx!Desired, Tx!DrainAt
  <1>3. ASSUME NEW t \in DrainThreads, NEW id \in 1 .. MaxId, Tx!Fire(t, id) PROVE DrainBooked'
    BY <1>3, DrainFire DEF Tx!Fire
  <1>4. ASSUME NEW t \in DrainThreads, Tx!PumpEnd(t) PROVE DrainBooked'
    BY <1>1, <1>4, DrainOutside DEF Tx!PumpEnd, Tx!UnlockAndReconcile, Tx!Needed, Tx!Desired, Tx!DrainAt
  <1>5. ASSUME NEW t \in DrainThreads, Tx!Expire(t) PROVE DrainBooked'
    BY <1>5, DrainExpired, DrainLate DEF Tx!Expire
  <1>6. ASSUME NEW t \in DrainThreads, Tx!DrainEnter(t) PROVE DrainBooked'
    BY <1>6, DrainGoesIn, DrainTurnsBack DEF Tx!DrainEnter
  <1>7. ASSUME NEW t \in DrainThreads, Tx!Loop(t) PROVE DrainBooked'
    BY <1>7, DrainLeaves, DrainTakes, DrainPuts DEF Tx!Loop
  <1>8. ASSUME NEW t \in DrainThreads, Tx!CancelTimer(t) PROVE DrainBooked'
    BY <1>8, DrainCancels DEF Tx!CancelTimer
  <1>9. ASSUME NEW t \in DrainThreads, Tx!StartTimer(t) PROVE DrainBooked'
    BY <1>9, DrainArms, DrainRefused DEF Tx!StartTimer
  <1>10. ASSUME NEW t \in DrainThreads, Tx!Failed(t) PROVE DrainBooked'
    <2>1. timerId = drainThread[t].id
      BY <1>10 DEF Tx!Failed, DrainBooked, ThreadsKnow, Tx!DrainAt
    <2>2. QED
      BY <1>10, <2>1, DrainGivesUp DEF Tx!Failed
  <1>11. ASSUME NEW t \in DrainThreads, Tx!Clear(t) PROVE DrainBooked'
    BY <1>1, <1>11, DrainOutside DEF Tx!Clear, Tx!UnlockAndReconcile, Tx!Needed, Tx!Desired, Tx!DrainAt
  <1>12. ASSUME NEW t \in DrainThreads, Tx!DrainDiscard(t) PROVE DrainBooked'
    BY <1>1, <1>12, DrainOutside DEF Tx!DrainDiscard, Tx!UnlockAndReconcile, Tx!Needed, Tx!Desired, Tx!DrainAt
  <1>13. ASSUME NEW t \in DrainThreads, Tx!StartPump(t) PROVE DrainBooked'
    BY <1>1, <1>13, DrainOutside DEF Tx!StartPump, Tx!DrainAt
  <1>14. ASSUME NEW t \in DrainThreads, NEW timed \in BOOLEAN, Tx!Arm(t, timed) PROVE DrainBooked'
    BY <1>1, <1>14, DrainOutside DEF Tx!Arm, Tx!UnlockAndReconcile, Tx!Needed, Tx!Desired, Tx!DrainAt
  <1>15. CASE UNCHANGED Tx!drainVars
    BY <1>15 DEF Tx!drainVars, DrainBooked, DrainTyped, OneInside, ArmedKnown, TimerLive, ThreadsKnow,
                 DifferenceSeen, Tx!Desired, Tx!DrainAt
  <1>16. QED
    BY <1>2, <1>3, <1>4, <1>5, <1>6, <1>7, <1>8, <1>9, <1>10, <1>11, <1>12, <1>13, <1>14, <1>15
    DEF Tx!DrainNext, Tx!Progress, Tx!Fires

(* When all operations have returned the backend runs exactly the timer of *)
(* the open registration (btsensor_tx.c: unlock_and_reconcile_timer), for  *)
(* any number of threads and registrations.                                *)
THEOREM TimersAreReconciled == Tx!DrainSpec => []Tx!Reconciled
PROOF
  <1>1. DrainBooked => Tx!Reconciled
    <2>1. SUFFICES ASSUME DrainBooked, \A t \in DrainThreads : Tx!DrainAt(t, "idle")
                   PROVE  /\ txArmed = (IF Tx!Desired = 0 THEN {} ELSE {Tx!Desired})
                          /\ timerId = Tx!Desired /\ ~reconciling
      BY DEF Tx!Reconciled
    <2>2. ~reconciling /\ timerId = Tx!Desired
      BY <2>1 DEF DrainBooked, OneInside, Inside, Tx!DrainAt, DifferenceSeen
    <2>3. \A id \in txArmed : id = Tx!Desired /\ id # 0
      BY <2>1, <2>2, DrainNumbers DEF DrainBooked, ArmedKnown, Tx!DrainAt
    <2>4. Tx!Desired # 0 => Tx!Desired \in txArmed
      BY <2>1, <2>2 DEF DrainBooked, TimerLive, Tx!DrainAt, Tx!Desired
    <2>5. QED
      BY <2>2, <2>3, <2>4
  <1>2. QED
    BY DrainBookedStarts, DrainBookedStep, <1>1, PTL DEF Tx!DrainSpec

(* The module that BtsensorTx counts with is the one the theorems are on. *)
LEMMA TxCount ==
  ASSUME NEW S
  PROVE  Tx!Cardinality(S) = Cardinality(S) /\ (Tx!IsFiniteSet(S) <=> IsFiniteSet(S))
  BY DEF Cardinality, Tx!Cardinality, IsFiniteSet, Tx!IsFiniteSet

(* The fields of what a thread is doing.                                   *)
TxFields == {"at", "life", "blocked", "retry", "item", "rc", "link"}

(* The table of the threads; none pumps for a lifetime to come.            *)
TxShape ==
  /\ thread = [t \in Threads |-> thread[t]] /\ lifetime \in 0 .. MaxLife
  /\ \A t \in Threads :
       TxFields \subseteq DOMAIN thread[t] /\ thread[t].life \in Nat /\ thread[t].life <= lifetime

(* Thread t may remove items of the lifetime n.                            *)
PumpsFor(r, n) == r.at \in {"pick", "send", "done"} /\ r.life = n

(* No two threads pump in one lifetime, and the flag says whether one does. *)
TxPumping ==
  /\ \A t, u \in Threads : PumpsFor(thread[t], lifetime) /\ PumpsFor(thread[u], lifetime) => t = u
  /\ \A t \in Threads : PumpsFor(thread[t], lifetime) => pumping
  /\ txUp /\ pumping => \E t \in Threads : PumpsFor(thread[t], lifetime)

(* A step of thread t, after which it pumps if it did.                     *)
LEMMA TxSame ==
  ASSUME MaxLife \in Nat, TxShape, TxPumping, NEW t \in Threads, UNCHANGED <<pumping, txUp, lifetime>>,
         thread' = [u \in Threads |-> thread'[u]],
         \A u \in Threads \ {t} : thread'[u] = thread[u],
         TxFields \subseteq DOMAIN thread'[t], thread'[t].life \in Nat, thread'[t].life <= lifetime,
         PumpsFor(thread'[t], lifetime) <=> PumpsFor(thread[t], lifetime)
  PROVE  TxShape' /\ TxPumping'
PROOF
  <1>1. TxShape'
    BY DEF TxShape
  <1>2. \A u \in Threads : PumpsFor(thread'[u], lifetime) <=> PumpsFor(thread[u], lifetime)
    OBVIOUS
  <1>3. TxPumping'
    BY <1>2 DEF TxPumping
  <1>4. QED
    BY <1>1, <1>3

(* What becomes of the record of a thread.                                 *)
LEMMA TxMoves ==
  ASSUME TxShape, NEW t \in Threads
  PROVE  /\ Tx!Return(t) => /\ thread'[t] = Tx!Idle /\ thread' = [u \in Threads |-> thread'[u]]
                        /\ \A u \in Threads \ {t} : thread'[u] = thread[u]
         /\ Tx!ThenPump(t) => /\ thread'[t] = [Tx!Idle EXCEPT !.at = "pump"]
                          /\ thread' = [u \in Threads |-> thread'[u]]
                          /\ \A u \in Threads \ {t} : thread'[u] = thread[u]
  BY DEF TxShape, Tx!Return, Tx!ThenPump

(* The two records of a thread that has nothing to send.                   *)
LEMMA TxResting ==
  /\ TxFields \subseteq DOMAIN Tx!Idle /\ Tx!Idle.life = 0 /\ Tx!Idle.at = "idle"
  /\ LET r == [Tx!Idle EXCEPT !.at = "pump"]
     IN TxFields \subseteq DOMAIN r /\ r.life = 0 /\ r.at = "pump"
  BY DEF TxFields, Tx!Idle

(* A thread that does not pump comes to rest, or before the pump.          *)
LEMMA TxRests ==
  ASSUME MaxLife \in Nat, TxShape, TxPumping, NEW t \in Threads, UNCHANGED <<pumping, txUp, lifetime>>,
         ~PumpsFor(thread[t], lifetime), Tx!Return(t) \/ Tx!ThenPump(t)
  PROVE  TxShape' /\ TxPumping'
PROOF
  <1>0. 0 <= lifetime
    BY DEF TxShape
  <1>1. CASE Tx!Return(t)
    <2>1. /\ thread'[t] = Tx!Idle /\ thread' = [u \in Threads |-> thread'[u]]
          /\ \A u \in Threads \ {t} : thread'[u] = thread[u]
      BY <1>1, TxMoves
    <2>2. ~PumpsFor(thread'[t], lifetime) /\ thread'[t].life = 0 /\ TxFields \subseteq DOMAIN thread'[t]
      BY <2>1, TxResting DEF PumpsFor
    <2>3. QED
      BY <1>0, <2>1, <2>2, TxSame
  <1>2. CASE Tx!ThenPump(t)
    <2> DEFINE r == [Tx!Idle EXCEPT !.at = "pump"]
    <2>1. /\ thread'[t] = r /\ thread' = [u \in Threads |-> thread'[u]]
          /\ \A u \in Threads \ {t} : thread'[u] = thread[u]
      BY <1>2, TxMoves
    <2>2. TxFields \subseteq DOMAIN r /\ r.life = 0 /\ r.at = "pump"
      BY TxResting
    <2> HIDE DEF r
    <2>3. ~PumpsFor(thread'[t], lifetime) /\ thread'[t].life = 0 /\ TxFields \subseteq DOMAIN thread'[t]
      BY <2>1, <2>2 DEF PumpsFor
    <2>4. QED
      BY <1>0, <2>1, <2>3, TxSame
  <1>3. QED
    BY <1>1, <1>2

(* A new lifetime has no pump yet.                                         *)
LEMMA TxLives ==
  ASSUME MaxLife \in Nat, TxShape, thread' = thread, lifetime < MaxLife, lifetime' = lifetime + 1,
         ~txUp' \/ ~pumping'
  PROVE  TxShape' /\ TxPumping'
PROOF
  <1>1. TxShape'
    BY DEF TxShape
  <1>2. \A t \in Threads : ~PumpsFor(thread'[t], lifetime')
    BY DEF TxShape, PumpsFor
  <1>3. TxPumping'
    BY <1>2 DEF TxPumping
  <1>4. QED
    BY <1>1, <1>3

(* Nobody does anything at first.                                          *)
LEMMA TxStarts == ASSUME MaxLife \in Nat, Tx!Init PROVE TxShape /\ TxPumping
PROOF
  <1>1. \A t \in Threads : thread[t] = Tx!Idle
    BY DEF Tx!Init
  <1>2. \A t \in Threads : ~PumpsFor(thread[t], lifetime)
    BY <1>1, TxResting DEF PumpsFor
  <1>3. TxShape
    <2>1. thread = [t \in Threads |-> thread[t]] /\ lifetime = 0
      BY DEF Tx!Init
    <2>2. QED
      BY <1>1, <2>1, TxResting DEF TxShape
  <1>4. TxPumping
    BY <1>2 DEF TxPumping, Tx!Init
  <1>5. QED
    BY <1>3, <1>4

(* The pump.                                                               *)
LEMMA TxPumps ==
  ASSUME MaxLife \in Nat, TxShape, TxPumping, NEW t \in Threads, Tx!Pump(t)
  PROVE  TxShape' /\ TxPumping'
PROOF
  <1> USE DEF Tx!At, Tx!tx, Tx!transport
  <1>0. thread = [u \in Threads |-> thread[u]] /\ TxFields \subseteq DOMAIN thread[t]
          /\ thread[t].life \in Nat /\ thread[t].life <= lifetime
    BY DEF TxShape
  <1>1. CASE Tx!Enter(t) /\ pumping
    BY <1>1, TxRests DEF Tx!Enter, PumpsFor
  <1>2. CASE Tx!Enter(t) /\ ~pumping
    <2> DEFINE r == [Tx!Idle EXCEPT !.at = "pick", !.life = lifetime, !.retry = TRUE]
    <2>1. /\ thread' = [thread EXCEPT ![t] = r] /\ pumping' = TRUE /\ UNCHANGED <<txUp, lifetime>>
          /\ r.at = "pick" /\ r.life = lifetime /\ TxFields \subseteq DOMAIN r
      BY <1>2 DEF Tx!Enter, Tx!Idle, TxFields
    <2> HIDE DEF r
    <2>2. /\ thread' = [u \in Threads |-> thread'[u]] /\ thread'[t] = r
          /\ \A u \in Threads \ {t} : thread'[u] = thread[u]
      BY <1>0, <2>1
    <2>3. TxShape'
      BY <2>1, <2>2 DEF TxShape
    <2>4. \A u \in Threads : PumpsFor(thread'[u], lifetime) <=> u = t
      BY <1>2, <2>1, <2>2 DEF TxPumping, PumpsFor
    <2>5. TxPumping'
      BY <2>1, <2>4 DEF TxPumping
    <2>6. QED
      BY <2>3, <2>5
  <1>3. CASE Tx!Leave(t)
    BY <1>3, TxRests DEF Tx!Leave, Tx!Outdated, PumpsFor
  <1>4. CASE Tx!Pick(t)
    <2>1. /\ thread' = [thread EXCEPT ![t].at = "send", ![t].item = Tx!Oldest(Tx!Candidates(t))]
          /\ UNCHANGED <<pumping, txUp, lifetime>> /\ thread[t].at = "pick"
      BY <1>4 DEF Tx!Pick
    <2>2. /\ thread' = [u \in Threads |-> thread'[u]]
          /\ thread'[t].at = "send" /\ thread'[t].life = thread[t].life /\ DOMAIN thread'[t] = DOMAIN thread[t]
          /\ \A u \in Threads \ {t} : thread'[u] = thread[u]
      BY <1>0, <2>1 DEF TxFields
    <2>3. PumpsFor(thread'[t], lifetime) <=> PumpsFor(thread[t], lifetime)
      BY <2>1, <2>2 DEF PumpsFor
    <2>4. QED
      BY <1>0, <2>1, <2>2, <2>3, TxSame
  <1>5. CASE Tx!Finish(t)
    <2>1. CASE repoll /\ thread[t].retry
      <3>1. /\ thread' = [thread EXCEPT ![t].retry = FALSE, ![t].blocked = {}]
            /\ UNCHANGED <<pumping, txUp, lifetime>>
        BY <1>5, <2>1 DEF Tx!Finish
      <3>2. /\ thread' = [u \in Threads |-> thread'[u]]
            /\ thread'[t].at = thread[t].at /\ thread'[t].life = thread[t].life
            /\ DOMAIN thread'[t] = DOMAIN thread[t]
            /\ \A u \in Threads \ {t} : thread'[u] = thread[u]
        BY <1>0, <3>1 DEF TxFields
      <3>3. PumpsFor(thread'[t], lifetime) <=> PumpsFor(thread[t], lifetime)
        BY <3>2 DEF PumpsFor
      <3>4. QED
        BY <1>0, <3>1, <3>2, <3>3, TxSame
    <2>2. CASE ~(repoll /\ thread[t].retry)
      <3>1. /\ pumping' = FALSE /\ Tx!Return(t) /\ UNCHANGED <<txUp, lifetime>>
            /\ PumpsFor(thread[t], lifetime)
        BY <1>5, <2>2 DEF Tx!Finish, Tx!Outdated, PumpsFor
      <3>2. /\ thread'[t] = Tx!Idle /\ thread' = [u \in Threads |-> thread'[u]]
            /\ \A u \in Threads \ {t} : thread'[u] = thread[u]
        BY <3>1, TxMoves
      <3>3. TxShape'
        BY <3>1, <3>2, TxResting DEF TxShape
      <3>4. \A u \in Threads : ~PumpsFor(thread'[u], lifetime)
        BY <3>1, <3>2, TxResting DEF TxPumping, PumpsFor
      <3>5. TxPumping'
        BY <3>1, <3>4 DEF TxPumping
      <3>6. QED
        BY <3>3, <3>5
    <2>3. QED
      BY <2>1, <2>2
  <1>6. CASE Tx!Send(t)
    <2>1. /\ UNCHANGED <<pumping, txUp, lifetime>> /\ thread[t].at = "send"
          /\ \E rc \in {"ok", "stale", "refused"} :
                thread' = [thread EXCEPT ![t].at = "done", ![t].rc = rc]
      BY <1>6 DEF Tx!Send
    <2>2. /\ thread' = [u \in Threads |-> thread'[u]]
          /\ thread'[t].at = "done" /\ thread'[t].life = thread[t].life /\ DOMAIN thread'[t] = DOMAIN thread[t]
          /\ \A u \in Threads \ {t} : thread'[u] = thread[u]
      BY <1>0, <2>1 DEF TxFields
    <2>3. PumpsFor(thread'[t], lifetime) <=> PumpsFor(thread[t], lifetime)
      BY <2>1, <2>2 DEF PumpsFor
    <2>4. QED
      BY <1>0, <2>1, <2>2, <2>3, TxSame
  <1>7. CASE Tx!Done(t) /\ Tx!Outdated(t)
    BY <1>7, TxRests DEF Tx!Done, Tx!Outdated, PumpsFor
  <1>8. CASE Tx!Done(t) /\ ~Tx!Outdated(t)
    <2> DEFINE b == IF thread[t].rc = "refused" THEN thread[t].blocked \cup {thread[t].item.link}
                    ELSE thread[t].blocked
               r == [thread[t] EXCEPT !.at = "pick", !.item = None, !.rc = None, !.blocked = b]
    <2>1. /\ UNCHANGED <<pumping, txUp, lifetime>> /\ thread[t].at = "done"
          /\ thread' = [thread EXCEPT ![t] = r]
      BY <1>0, <1>8 DEF Tx!Done
    <2> HIDE DEF b
    <2>5. r.at = "pick" /\ r.life = thread[t].life /\ DOMAIN r = DOMAIN thread[t]
      BY <1>0 DEF TxFields
    <2> HIDE DEF r
    <2>2. /\ thread' = [u \in Threads |-> thread'[u]]
          /\ thread'[t].at = "pick" /\ thread'[t].life = thread[t].life /\ DOMAIN thread'[t] = DOMAIN thread[t]
          /\ \A u \in Threads \ {t} : thread'[u] = thread[u]
      BY <1>0, <2>1, <2>5
    <2>3. PumpsFor(thread'[t], lifetime) <=> PumpsFor(thread[t], lifetime)
      BY <2>1, <2>2 DEF PumpsFor
    <2>4. QED
      BY <1>0, <2>1, <2>2, <2>3, TxSame
  <1>9. QED
    BY <1>1, <1>2, <1>3, <1>4, <1>5, <1>6, <1>7, <1>8 DEF Tx!Pump

(* The links, the queues and the arbiter's life.                           *)
LEMMA TxStep ==
  ASSUME Tx!TxAssumption, TxShape, TxPumping, [Tx!Next]_(Tx!vars) PROVE TxShape' /\ TxPumping'
PROOF
  <1> USE DEF Tx!At, Tx!tx, Tx!transport
  <1>0. MaxLife \in Nat
    BY DEF Tx!TxAssumption
  <1>1. ASSUME NEW t \in Threads, Tx!Start(t) \/ Tx!Stop(t) PROVE TxShape' /\ TxPumping'
    BY <1>0, <1>1, TxLives DEF Tx!Start, Tx!Stop
  <1>2. ASSUME NEW t \in Threads, Tx!LinkState(t) PROVE TxShape' /\ TxPumping'
    BY <1>0, <1>2, TxRests DEF Tx!LinkState, PumpsFor
  <1>3. ASSUME NEW t \in Threads, NEW l \in Links, Tx!SetLink(t, l) PROVE TxShape' /\ TxPumping'
    BY <1>0, <1>3, TxRests DEF Tx!SetLink, PumpsFor
  <1>4. ASSUME NEW t \in Threads, NEW l, Tx!EnqueueResponse(t, l) \/ Tx!EnqueueFrame(t, l)
        PROVE  TxShape' /\ TxPumping'
    BY <1>0, <1>4, TxRests DEF Tx!EnqueueResponse, Tx!EnqueueFrame, PumpsFor
  <1>5. ASSUME NEW t \in Threads, NEW l \in Links, Tx!Connected(t, l) \/ Tx!Disconnected(t, l)
        PROVE  TxShape' /\ TxPumping'
    <2>0. thread = [u \in Threads |-> thread[u]] /\ TxFields \subseteq DOMAIN thread[t]
            /\ thread[t].life \in Nat /\ thread[t].life <= lifetime
      BY DEF TxShape
    <2>1. /\ UNCHANGED <<pumping, txUp, lifetime>> /\ thread[t].at = "idle"
          /\ \E place \in {"up", "down"} : thread' = [thread EXCEPT ![t].at = place, ![t].link = l]
      BY <1>5 DEF Tx!Connected, Tx!Disconnected
    <2>2. /\ thread' = [u \in Threads |-> thread'[u]]
          /\ thread'[t].at \in {"up", "down"} /\ thread'[t].life = thread[t].life
          /\ DOMAIN thread'[t] = DOMAIN thread[t]
          /\ \A u \in Threads \ {t} : thread'[u] = thread[u]
      BY <2>0, <2>1 DEF TxFields
    <2>3. PumpsFor(thread'[t], lifetime) <=> PumpsFor(thread[t], lifetime)
      BY <2>1, <2>2 DEF PumpsFor
    <2>4. QED
      BY <1>0, <2>0, <2>1, <2>2, <2>3, TxSame
  <1>6. ASSUME NEW t \in Threads, NEW l \in Links, Tx!Sent(t, l) PROVE TxShape' /\ TxPumping'
    <2>1. CASE l = Classic /\ conn[l] # 0
      BY <1>0, <1>6, <2>1, TxRests DEF Tx!Sent, PumpsFor
    <2>2. CASE ~(l = Classic /\ conn[l] # 0)
      BY <1>6, <2>2 DEF Tx!Sent, TxShape, TxPumping
    <2>3. QED
      BY <2>1, <2>2
  <1>7. ASSUME NEW t \in Threads, Tx!Pump(t) PROVE TxShape' /\ TxPumping'
    BY <1>0, <1>7, TxPumps
  <1>8. ASSUME NEW t \in Threads, Tx!EnqueueSelected(t) PROVE TxShape' /\ TxPumping'
    BY <1>4, <1>8 DEF Tx!EnqueueSelected
  <1>9. CASE UNCHANGED Tx!vars
    BY <1>9 DEF Tx!vars, TxShape, TxPumping
  <1>10. QED
    BY <1>1, <1>2, <1>3, <1>4, <1>5, <1>6, <1>7, <1>8, <1>9 DEF Tx!Next

(* One pump is one set element at most.                                    *)
LEMMA TxOwned == ASSUME TxPumping PROVE Tx!PumpingIsOwned
PROOF
  <1>1. \A t \in Threads : t \in Tx!Pumps <=> PumpsFor(thread[t], lifetime)
    BY DEF Tx!Pumps, Tx!Outdated, PumpsFor
  <1>2. \A t, u \in Tx!Pumps : t = u
    BY <1>1 DEF TxPumping, Tx!Pumps
  <1>3. Tx!Cardinality(Tx!Pumps) \in {0, 1}
    <2>1. CASE Tx!Pumps = {}
      BY <2>1, FS_EmptySet, TxCount
    <2>2. ASSUME NEW t \in Tx!Pumps PROVE Tx!Cardinality(Tx!Pumps) = 1
      <3>1. Tx!Pumps = {t}
        BY <1>2
      <3>2. QED
        BY <3>1, FS_Singleton, TxCount
    <2>3. QED
      BY <2>1, <2>2
  <1>4. Tx!Pumps # {} <=> \E t \in Threads : PumpsFor(thread[t], lifetime)
    BY <1>1 DEF Tx!Pumps
  <1>5. QED
    BY <1>3, <1>4 DEF Tx!PumpingIsOwned, TxPumping

(* What is queued are responses and frames, numbered, and neither queue    *)
(* uses its spare slot.                                                    *)
TxQueues ==
  /\ Tx!IsFiniteSet(txQueue) /\ \A it \in txQueue : it.ticket \in Nat
  /\ Tx!Cardinality(Tx!Of("response")) < RespDepth /\ Tx!Cardinality(Tx!Of("frame")) < TxDepth

(* The links, and how the sessions follow the connections.                 *)
TxLinks ==
  /\ online \in [Links -> BOOLEAN] /\ sessions \in [Links -> Nat] /\ last \in [Links -> Nat]
  /\ selected \in Links \cup {None} /\ {pumping, repoll, txUp} \subseteq BOOLEAN
  /\ lifetime \in 0 .. MaxLife /\ ticket \in 0 .. MaxTicket /\ inflight \in [Links -> 0 .. Pool]
  /\ \A l \in Links : sessions[l] <= last[l] + lifetime
  /\ last[Classic] + last[Ble] <= MaxEpoch

TxBooked == TxQueues /\ TxLinks

(* How subsets of what is queued compare.                                  *)
LEMMA FewerItems ==
  ASSUME NEW S, Tx!IsFiniteSet(S), NEW T, NEW x
  PROVE  /\ T \subseteq S => Tx!IsFiniteSet(T) /\ Tx!Cardinality(T) <= Tx!Cardinality(S)
         /\ T \subseteq S \cup {x} => Tx!IsFiniteSet(T) /\ Tx!Cardinality(T) <= Tx!Cardinality(S) + 1
         /\ \A y \in S : T \subseteq (S \ {y}) \cup {x} => Tx!Cardinality(T) <= Tx!Cardinality(S)
         /\ Tx!Cardinality(S) \in Nat /\ (Tx!IsFiniteSet(T) => Tx!Cardinality(T) \in Nat)
PROOF
  <1>1. Tx!Cardinality(S) \in Nat /\ (Tx!IsFiniteSet(T) => Tx!Cardinality(T) \in Nat)
    BY FS_CardinalityType, TxCount
  <1>2. T \subseteq S => Tx!IsFiniteSet(T) /\ Tx!Cardinality(T) <= Tx!Cardinality(S)
    BY FS_Subset, TxCount
  <1>3. ASSUME T \subseteq S \cup {x} PROVE Tx!IsFiniteSet(T) /\ Tx!Cardinality(T) <= Tx!Cardinality(S) + 1
    <2>0. Tx!IsFiniteSet(S \cup {x})
            /\ Tx!Cardinality(S \cup {x}) = IF x \in S THEN Tx!Cardinality(S) ELSE Tx!Cardinality(S) + 1
      BY FS_AddElement, TxCount
    <2>1. Tx!IsFiniteSet(S \cup {x}) /\ Tx!Cardinality(S \cup {x}) <= Tx!Cardinality(S) + 1
      BY <1>1, <2>0
    <2>2. Tx!IsFiniteSet(T) /\ Tx!Cardinality(T) <= Tx!Cardinality(S \cup {x}) /\ Tx!Cardinality(S \cup {x}) \in Nat
            /\ Tx!Cardinality(T) \in Nat
      BY <1>3, <2>1, FS_Subset, FS_CardinalityType, TxCount
    <2>3. QED
      BY <1>1, <2>1, <2>2
  <1>4. ASSUME NEW y \in S, T \subseteq (S \ {y}) \cup {x} PROVE Tx!Cardinality(T) <= Tx!Cardinality(S)
    <2>1. Tx!IsFiniteSet(S \ {y}) /\ Tx!Cardinality(S \ {y}) = Tx!Cardinality(S) - 1
      BY FS_RemoveElement, TxCount
    <2>0. Tx!IsFiniteSet((S \ {y}) \cup {x})
            /\ Tx!Cardinality((S \ {y}) \cup {x}) =
                 IF x \in S \ {y} THEN Tx!Cardinality(S \ {y}) ELSE Tx!Cardinality(S \ {y}) + 1
      BY <2>1, FS_AddElement, TxCount
    <2>2. Tx!IsFiniteSet((S \ {y}) \cup {x}) /\ Tx!Cardinality((S \ {y}) \cup {x}) <= Tx!Cardinality(S)
      BY <1>1, <2>0, <2>1
    <2>3. Tx!Cardinality(T) <= Tx!Cardinality((S \ {y}) \cup {x}) /\ Tx!Cardinality((S \ {y}) \cup {x}) \in Nat
            /\ Tx!Cardinality(T) \in Nat
      BY <1>4, <2>2, FS_Subset, FS_CardinalityType, TxCount
    <2>4. QED
      BY <1>1, <2>2, <2>3
  <1>5. QED
    BY <1>1, <1>2, <1>3, <1>4

(* The oldest of a kind is one of them.                                    *)
LEMMA OldestIsThere ==
  ASSUME NEW S, S # {}, \A it \in S : it.ticket \in Nat
  PROVE  Tx!Oldest(S) \in S
PROOF
  <1> DEFINE R == OpToRel(<, Nat)
             N == {it.ticket : it \in S}
  <1>1. IsWellFoundedOn(R, Nat)
    BY NatLessThanWellFounded
  <1>2. \A x, y \in Nat : x < y => <<x, y>> \in R
    BY DEF OpToRel
  <1>3. N \subseteq Nat /\ N # {}
    OBVIOUS
  <1>4. \A it \in S : it.ticket \in N
    OBVIOUS
  <1>5. \A n \in N : \E it \in S : it.ticket = n
    OBVIOUS
  <1> HIDE DEF R, N
  <1>6. PICK n \in N : \A m \in N : ~(<<m, n>> \in R)
    BY <1>1, <1>3, WFMin
  <1>7. \A m \in N : n <= m
    <2> SUFFICES ASSUME NEW m \in N PROVE n <= m
      OBVIOUS
    <2>1. ~(m < n) /\ m \in Nat /\ n \in Nat
      BY <1>2, <1>3, <1>6
    <2>2. QED
      BY <2>1
  <1>8. PICK it \in S : it.ticket = n
    BY <1>5
  <1>9. \A other \in S : it.ticket <= other.ticket
    BY <1>4, <1>7, <1>8
  <1>10. QED
    BY <1>9 DEF Tx!Oldest

(* Items that leave.                                                       *)
LEMMA QueuesShrink == ASSUME Tx!TxAssumption, TxQueues, txQueue' \subseteq txQueue PROVE TxQueues'
PROOF
  <1>1. Tx!Of("response")' \subseteq Tx!Of("response") /\ Tx!Of("frame")' \subseteq Tx!Of("frame")
          /\ Tx!Of("response") \subseteq txQueue /\ Tx!Of("frame") \subseteq txQueue
    BY DEF Tx!Of
  <1>2. Tx!IsFiniteSet(Tx!Of("response")) /\ Tx!IsFiniteSet(Tx!Of("frame")) /\ Tx!IsFiniteSet(txQueue')
    BY <1>1, FS_Subset, TxCount DEF TxQueues
  <1>3. Tx!Cardinality(Tx!Of("response")') <= Tx!Cardinality(Tx!Of("response"))
          /\ Tx!Cardinality(Tx!Of("response")') \in Nat /\ Tx!Cardinality(Tx!Of("response")) \in Nat
    BY <1>1, <1>2, FewerItems
  <1>4. Tx!Cardinality(Tx!Of("frame")') <= Tx!Cardinality(Tx!Of("frame"))
          /\ Tx!Cardinality(Tx!Of("frame")') \in Nat /\ Tx!Cardinality(Tx!Of("frame")) \in Nat
    BY <1>1, <1>2, FewerItems
  <1>5. RespDepth \in Nat /\ TxDepth \in Nat
    BY DEF Tx!TxAssumption
  <1>6. Tx!Cardinality(Tx!Of("response")') < RespDepth /\ Tx!Cardinality(Tx!Of("frame")') < TxDepth
    BY <1>3, <1>4, <1>5 DEF TxQueues
  <1>7. QED
    BY <1>2, <1>6 DEF TxQueues

(* A response finds room.                                                  *)
LEMMA QueuesTakeResponse ==
  ASSUME Tx!TxAssumption, TxQueues, NEW it, it.kind = "response", it.ticket \in Nat,
         Tx!Cardinality(Tx!Of("response")) < RespDepth - 1, txQueue' = txQueue \cup {it}
  PROVE  TxQueues'
PROOF
  <1>1. Tx!Of("response")' \subseteq Tx!Of("response") \cup {it} /\ Tx!Of("frame")' \subseteq Tx!Of("frame")
          /\ Tx!Of("response") \subseteq txQueue /\ Tx!Of("frame") \subseteq txQueue
    BY DEF Tx!Of
  <1>2. Tx!IsFiniteSet(Tx!Of("response")) /\ Tx!IsFiniteSet(Tx!Of("frame")) /\ Tx!IsFiniteSet(txQueue')
    BY <1>1, FS_Subset, FS_AddElement, TxCount DEF TxQueues
  <1>3. Tx!Cardinality(Tx!Of("response")') <= Tx!Cardinality(Tx!Of("response")) + 1
          /\ Tx!Cardinality(Tx!Of("response")') \in Nat /\ Tx!Cardinality(Tx!Of("response")) \in Nat
    BY <1>1, <1>2, FewerItems
  <1>4. Tx!Cardinality(Tx!Of("frame")') <= Tx!Cardinality(Tx!Of("frame"))
          /\ Tx!Cardinality(Tx!Of("frame")') \in Nat /\ Tx!Cardinality(Tx!Of("frame")) \in Nat
    BY <1>1, <1>2, FewerItems
  <1>5. RespDepth \in Nat /\ TxDepth \in Nat
    BY DEF Tx!TxAssumption
  <1>6. Tx!Cardinality(Tx!Of("response")') < RespDepth /\ Tx!Cardinality(Tx!Of("frame")') < TxDepth
    BY <1>3, <1>4, <1>5 DEF TxQueues
  <1>7. \A other \in txQueue' : other.ticket \in Nat
    BY DEF TxQueues
  <1>8. QED
    BY <1>2, <1>6, <1>7 DEF TxQueues

(* A frame takes the place of the oldest when there is no room.            *)
LEMMA QueuesTakeFrame ==
  ASSUME Tx!TxAssumption, TxQueues, NEW it, it.kind = "frame", it.ticket \in Nat,
         txQueue' = (IF Tx!Cardinality(Tx!Of("frame")) = TxDepth - 1 THEN txQueue \ {Tx!Oldest(Tx!Of("frame"))} ELSE txQueue)
                    \cup {it}
  PROVE  TxQueues'
PROOF
  <1> DEFINE F == Tx!Of("frame")
             G == Tx!Of("frame")'
  <1>1. Tx!Of("response")' \subseteq Tx!Of("response") /\ G \subseteq F \cup {it}
          /\ Tx!Of("response") \subseteq txQueue /\ F \subseteq txQueue /\ txQueue' \subseteq txQueue \cup {it}
    BY DEF Tx!Of
  <1>2. Tx!IsFiniteSet(Tx!Of("response")) /\ Tx!IsFiniteSet(F) /\ Tx!IsFiniteSet(txQueue')
    <2>1. Tx!IsFiniteSet(txQueue \cup {it})
      BY FS_AddElement, TxCount DEF TxQueues
    <2>2. QED
      BY <1>1, <2>1, FS_Subset, TxCount DEF TxQueues
  <1>3. Tx!Cardinality(Tx!Of("response")') <= Tx!Cardinality(Tx!Of("response"))
          /\ Tx!Cardinality(Tx!Of("response")') \in Nat /\ Tx!Cardinality(Tx!Of("response")) \in Nat
    BY <1>1, <1>2, FewerItems
  <1>4. Tx!Cardinality(G) <= Tx!Cardinality(F) + 1 /\ Tx!Cardinality(G) \in Nat /\ Tx!Cardinality(F) \in Nat
    BY <1>1, <1>2, FewerItems
  <1>5. RespDepth \in Nat /\ TxDepth \in Nat \ {0, 1} /\ Tx!Cardinality(F) < TxDepth
    BY DEF Tx!TxAssumption, TxQueues
  <1>6. Tx!Cardinality(G) < TxDepth
    <2>1. CASE Tx!Cardinality(F) = TxDepth - 1
      <3>1. F # {}
        BY <1>2, <1>5, <2>1, FS_EmptySet, TxCount
      <3>2. Tx!Oldest(F) \in F
        BY <3>1, OldestIsThere DEF TxQueues, Tx!Of
      <3>3. G \subseteq (F \ {Tx!Oldest(F)}) \cup {it}
        BY <2>1 DEF Tx!Of
      <3> HIDE DEF F, G
      <3>4. Tx!Cardinality(G) <= Tx!Cardinality(F)
        BY <1>2, <3>2, <3>3, FewerItems
      <3>5. QED
        BY <1>4, <1>5, <3>4
    <2>2. CASE Tx!Cardinality(F) # TxDepth - 1
      BY <1>4, <1>5, <2>2
    <2>3. QED
      BY <2>1, <2>2
  <1>7. Tx!Cardinality(Tx!Of("response")') < RespDepth
    BY <1>3, <1>5 DEF TxQueues
  <1>8. \A other \in txQueue' : other.ticket \in Nat
    BY <1>1 DEF TxQueues
  <1>9. QED
    BY <1>2, <1>6, <1>7, <1>8 DEF TxQueues

LEMMA TxBookedStarts == ASSUME Tx!TxAssumption, Tx!Init PROVE TxBooked
PROOF
  <1>1. txQueue = {} /\ Tx!Of("response") = {} /\ Tx!Of("frame") = {}
    BY DEF Tx!Init, Tx!Of
  <1>2. TxQueues
    BY <1>1, FS_EmptySet, TxCount DEF TxQueues, Tx!TxAssumption
  <1>3. last[Classic] = 0 /\ last[Ble] = 0
    BY DEF Tx!Init, Tx!TxAssumption, Tx!LinksAre
  <1>4. TxLinks
    <2>1. /\ online \in [Links -> BOOLEAN] /\ sessions \in [Links -> Nat] /\ last \in [Links -> Nat]
          /\ inflight \in [Links -> 0 .. Pool] /\ \A l \in Links : sessions[l] <= last[l] + lifetime
      BY DEF Tx!Init, Tx!TxAssumption
    <2>2. pumping \in BOOLEAN /\ repoll \in BOOLEAN /\ txUp \in BOOLEAN
      BY Zenon DEF Tx!Init
    <2>3. selected \in Links \cup {None} /\ lifetime \in 0 .. MaxLife /\ ticket \in 0 .. MaxTicket
      BY DEF Tx!Init, Tx!TxAssumption
    <2>4. last[Classic] + last[Ble] <= MaxEpoch
      BY <1>3 DEF Tx!TxAssumption
    <2>5. QED
      BY <2>1, <2>2, <2>3, <2>4 DEF TxLinks
  <1>5. QED
    BY <1>2, <1>4 DEF TxBooked

(* Every operation leaves the queues within their bounds.                  *)
LEMMA TxQueuesStep ==
  ASSUME Tx!TxAssumption, TxQueues, TxLinks, [Tx!Next]_(Tx!vars) PROVE TxQueues'
PROOF
  <1> USE DEF Tx!tx, Tx!transport
  <1>0. ticket + 1 \in Nat
    BY DEF TxLinks, Tx!TxAssumption
  <1>1. ASSUME NEW t \in Threads, NEW l, Tx!EnqueueResponse(t, l) PROVE TxQueues'
    <2> DEFINE it == Tx!Tagged("response", l)
    <2>1. it.kind = "response" /\ it.ticket \in Nat
      BY <1>0 DEF Tx!Tagged
    <2>2. Tx!Cardinality(Tx!Of("response")) < RespDepth - 1 /\ txQueue' = txQueue \cup {it}
      BY <1>1 DEF Tx!EnqueueResponse
    <2> HIDE DEF it
    <2>3. QED
      BY <2>1, <2>2, QueuesTakeResponse
  <1>2. ASSUME NEW t \in Threads, NEW l, Tx!EnqueueFrame(t, l) PROVE TxQueues'
    <2> DEFINE it == Tx!Tagged("frame", l)
    <2>1. it.kind = "frame" /\ it.ticket \in Nat
      BY <1>0 DEF Tx!Tagged
    <2>2. txQueue' = (IF Tx!Cardinality(Tx!Of("frame")) = TxDepth - 1 THEN txQueue \ {Tx!Oldest(Tx!Of("frame"))} ELSE txQueue)
                     \cup {it}
      BY <1>2 DEF Tx!EnqueueFrame
    <2> HIDE DEF it
    <2>3. QED
      BY <2>1, <2>2, QueuesTakeFrame
  <1>3. ASSUME NEW t \in Threads, Tx!Start(t) \/ Tx!Stop(t) \/ Tx!LinkState(t) \/ Tx!Pump(t) PROVE txQueue' \subseteq txQueue
    BY <1>3 DEF Tx!Start, Tx!Stop, Tx!LinkState, Tx!Discard, Tx!Pump, Tx!Enter, Tx!Leave, Tx!Pick, Tx!Finish, Tx!Send, Tx!Done
  <1>4. ASSUME NEW t \in Threads, NEW l \in Links, Tx!Connected(t, l) \/ Tx!Disconnected(t, l) \/ Tx!SetLink(t, l) \/ Tx!Sent(t, l)
        PROVE  txQueue' \subseteq txQueue
    BY <1>4 DEF Tx!Connected, Tx!Disconnected, Tx!SetLink, Tx!Sent
  <1>5. CASE UNCHANGED Tx!vars
    BY <1>5, QueuesShrink DEF Tx!vars
  <1>6. QED
    BY <1>1, <1>2, <1>3, <1>4, <1>5, QueuesShrink DEF Tx!Next, Tx!EnqueueSelected

(* Sessions follow the connections, and no count exceeds its bound.        *)
LEMMA TxLinksStep ==
  ASSUME Tx!TxAssumption, TxLinks, [Tx!Next]_(Tx!vars) PROVE TxLinks'
PROOF
  <1> USE DEF Tx!tx, Tx!transport, TxLinks, Tx!TxAssumption
  <1>0. Links = {Classic, Ble} /\ Classic # Ble
    BY DEF Tx!LinksAre
  <1>1. ASSUME NEW t \in Threads, NEW l, Tx!EnqueueResponse(t, l) \/ Tx!EnqueueFrame(t, l) PROVE TxLinks'
    BY <1>1 DEF Tx!EnqueueResponse, Tx!EnqueueFrame, Tx!Admitted
  <1>2. ASSUME NEW t \in Threads, Tx!Start(t) PROVE TxLinks'
    <2>1. /\ online' = [l \in Links |-> FALSE] /\ selected' = None /\ pumping' = FALSE /\ txUp' = TRUE
          /\ lifetime < MaxLife /\ lifetime' = lifetime + 1
          /\ UNCHANGED <<sessions, repoll, ticket, last, inflight>>
      BY <1>2 DEF Tx!Start
    <2>2. online' \in [Links -> BOOLEAN] /\ {pumping', repoll', txUp'} \subseteq BOOLEAN
      BY <2>1
    <2>3. lifetime' \in 0 .. MaxLife /\ lifetime \in Nat
      BY <2>1
    <2>4. \A l \in Links : sessions'[l] <= last'[l] + lifetime'
      BY <2>1, <2>3
    <2>5. QED
      BY <2>1, <2>2, <2>3, <2>4
  <1>3. ASSUME NEW t \in Threads, Tx!Stop(t) PROVE TxLinks'
    <2>1. /\ online' = [l \in Links |-> FALSE] /\ selected' = None /\ txUp' = FALSE
          /\ lifetime < MaxLife /\ lifetime' = lifetime + 1
          /\ inflight' = [l \in Links |-> 0]
          /\ sessions' = [l \in Links |-> sessions[l] + 1]
          /\ UNCHANGED <<pumping, repoll, ticket, last>>
      BY <1>3 DEF Tx!Stop
    <2>2. online' \in [Links -> BOOLEAN] /\ {pumping', repoll', txUp'} \subseteq BOOLEAN
      BY <2>1
    <2>3. lifetime' \in 0 .. MaxLife /\ lifetime \in Nat
      BY <2>1
    <2>4. inflight' \in [Links -> 0 .. Pool] /\ sessions' \in [Links -> Nat]
      BY <2>1
    <2>5. ASSUME NEW l \in Links PROVE sessions'[l] <= last'[l] + lifetime'
      <3>1. sessions'[l] = sessions[l] + 1 /\ last'[l] = last[l]
        BY <2>1
      <3>2. sessions[l] \in Nat /\ last[l] \in Nat /\ sessions[l] <= last[l] + lifetime
        OBVIOUS
      <3>3. QED
        BY <2>1, <2>3, <3>1, <3>2
    <2>6. QED
      BY <2>1, <2>2, <2>3, <2>4, <2>5
  <1>4. ASSUME NEW t \in Threads, Tx!LinkState(t) PROVE TxLinks'
    <2> DEFINE l == thread[t].link
    <2>1. /\ sessions' = [sessions EXCEPT ![l] = last[l]]
          /\ online' = [online EXCEPT ![l] = Tx!At(t, "up")]
          /\ selected' \in {None, selected}
          /\ UNCHANGED <<pumping, repoll, lifetime, txUp, ticket, last, inflight>>
      BY <1>4 DEF Tx!LinkState
    <2>2. Tx!At(t, "up") \in BOOLEAN
      BY DEF Tx!At
    <2>3. CASE l \in Links
      <3> HIDE DEF l
      <3>1. online' \in [Links -> BOOLEAN]
        BY <2>1, <2>2
      <3>2. sessions' \in [Links -> Nat] /\ \A k \in Links : sessions'[k] <= last[k] + lifetime
        BY <2>1, <2>3
      <3>3. QED
        BY <2>1, <3>1, <3>2
    <2>4. CASE l \notin Links
      <3> HIDE DEF l
      <3>1. online' = online /\ sessions' = sessions
        BY <2>1, <2>4
      <3>2. QED
        BY <2>1, <3>1
    <2>5. QED
      BY <2>3, <2>4
  <1>5. ASSUME NEW t \in Threads, Tx!Pump(t) PROVE TxLinks'
    <2>1. UNCHANGED <<online, sessions, selected, lifetime, txUp, ticket, last>>
      BY <1>5 DEF Tx!Pump, Tx!Enter, Tx!Leave, Tx!Pick, Tx!Finish, Tx!Send, Tx!Done
    <2>2. pumping' \in BOOLEAN /\ repoll' \in BOOLEAN
      BY <1>5 DEF Tx!Pump, Tx!Enter, Tx!Leave, Tx!Pick, Tx!Finish, Tx!Send, Tx!Done
    <2>3. inflight' \in [Links -> 0 .. Pool]
      <3>1. CASE UNCHANGED inflight
        BY <3>1
      <3>2. ASSUME NEW l, inflight[l] < Pool, inflight' = [inflight EXCEPT ![l] = @ + 1]
            PROVE  inflight' \in [Links -> 0 .. Pool]
        <4>1. CASE l \in Links
          <5>1. inflight[l] + 1 \in 0 .. Pool
            BY <3>2, <4>1
          <5>2. QED
            BY <3>2, <4>1, <5>1
        <4>2. CASE l \notin Links
          BY <3>2, <4>2
        <4>3. QED
          BY <4>1, <4>2
      <3>3. QED
        BY <1>5, <3>1, <3>2 DEF Tx!Pump, Tx!Enter, Tx!Leave, Tx!Pick, Tx!Finish, Tx!Send, Tx!Done
    <2>4. QED
      BY <2>1, <2>2, <2>3
  <1>6. ASSUME NEW t \in Threads, NEW l \in Links, Tx!Connected(t, l) PROVE TxLinks'
    <2>1. /\ last[Classic] + last[Ble] < MaxEpoch /\ last' = [last EXCEPT ![l] = @ + 1]
          /\ inflight' = [inflight EXCEPT ![l] = 0]
          /\ UNCHANGED <<online, sessions, selected, pumping, repoll, lifetime, txUp, ticket>>
      BY <1>6 DEF Tx!Connected
    <2>2. last' \in [Links -> Nat] /\ last'[Classic] + last'[Ble] <= MaxEpoch
            /\ \A k \in Links : last[k] <= last'[k]
      BY <1>0, <2>1
    <2>3. inflight' \in [Links -> 0 .. Pool]
      BY <2>1
    <2>4. \A k \in Links : sessions'[k] <= last'[k] + lifetime'
      BY <2>1, <2>2
    <2>5. QED
      BY <2>1, <2>2, <2>3, <2>4
  <1>7. ASSUME NEW t \in Threads, NEW l \in Links, Tx!Disconnected(t, l) \/ Tx!SetLink(t, l) PROVE TxLinks'
    BY <1>7 DEF Tx!Disconnected, Tx!SetLink
  <1>8. ASSUME NEW t \in Threads, NEW l \in Links, Tx!Sent(t, l) PROVE TxLinks'
    BY <1>8 DEF Tx!Sent
  <1>9. CASE UNCHANGED Tx!vars
    BY <1>9 DEF Tx!vars
  <1>10. QED
    BY <1>1, <1>2, <1>3, <1>4, <1>5, <1>6, <1>7, <1>8, <1>9 DEF Tx!Next, Tx!EnqueueSelected

(* No session is beyond the connections and lifetimes there were.          *)
LEMMA TxTypeOK == ASSUME Tx!TxAssumption, TxBooked PROVE Tx!TypeOK
PROOF
  <1>1. \A l \in Links : sessions[l] \in 0 .. MaxEpoch + MaxLife
    BY DEF TxBooked, TxLinks, Tx!TxAssumption, Tx!LinksAre
  <1>2. QED
    BY <1>1 DEF TxBooked, TxLinks, TxQueues, Tx!TypeOK

(* The flag g_pumping stands for exactly one thread, also when the stack   *)
(* is restarted while one is inside the transport; and neither queue uses  *)
(* its spare slot (btsensor_tx.c).                                         *)
THEOREM TransmitBooks == ASSUME Tx!TxAssumption PROVE Tx!Spec => [](Tx!TypeOK /\ Tx!PumpingIsOwned)
PROOF
  <1> DEFINE I == TxShape /\ TxPumping /\ TxBooked
  <1>1. Tx!Init => I
    BY TxStarts, TxBookedStarts DEF Tx!TxAssumption
  <1>2. I /\ [Tx!Next]_(Tx!vars) => I'
    BY TxStep, TxQueuesStep, TxLinksStep DEF TxBooked
  <1>3. I => Tx!TypeOK /\ Tx!PumpingIsOwned
    BY TxTypeOK, TxOwned
  <1> HIDE DEF I
  <1>4. QED
    BY <1>1, <1>2, <1>3, PTL DEF Tx!Spec
=============================================================================
