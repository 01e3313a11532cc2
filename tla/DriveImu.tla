------------------------------ MODULE DriveImu ------------------------------
(***************************************************************************)
(* Heading of the drive base from the inertial unit (drivebase_imu.c,      *)
(* drivebase_imu_cal.c): bias of the gyro, full-scale changes made by      *)
(* others, fusion and the unwrapped heading.                               *)
(*                                                                         *)
(* One axis stands for three.  A rate is a physical unit; a raw reading at *)
(* full scale d is rate * 2 \div d, d being 1, 2 or 0 for an index the     *)
(* table does not know.  Yaw counts raw * d * dt.  The file of the         *)
(* calibration is a sequence of lines.                                     *)
(***************************************************************************)
EXTENDS Integers, Sequences, SequencesExt

CONSTANTS ZeroRate,      \* what the gyro reads at rest
          Rates,         \* rates of the hub; those below Fast may pass for rest
          Fast,
          Gaps,          \* time between two samples
          Files,         \* contents of the calibration file at an opening
          Scales,        \* full scales another client may select
          FsrWhileClosed,\* ... also while the drive base is closed
          Threshold, Window,  \* DB_IMU_DEFAULT_BIAS_THRESH, DB_IMU_DEFAULT_BIAS_WINDOW_US
          Gate,          \* time from which a sample is not integrated
          Blend,         \* weight of the running average
          Turn,          \* yaw units of a full turn
          Fine,          \* yaw units of a unit of heading
          Batch,         \* DB_IMU_DRAIN_BATCH
          Wrap,          \* the sample clock counts modulo Wrap
          MaxSamples, MaxOther  \* bounds on samples and on the other operations

DriveImuAssumption ==
    /\ {Threshold, Window, Gate, Blend, Turn, Fine, Batch, Wrap, MaxSamples, MaxOther} \subseteq Nat \ {0}
    /\ Gaps \subseteq 0 .. (Wrap - 1) /\ Scales \subseteq 0 .. 2 /\ FsrWhileClosed \in BOOLEAN

VARIABLES
    im,            \* struct db_imu_s
    fsr,           \* the sensor's full scale
    clock, fifo,   \* the sample clock and the samples of the topic
    seen,          \* for the properties: what the window of rest contains, what was learned, samples at rest
    base,          \* yaw that is heading 0
    samples, others

vars == <<im, fsr, clock, fifo, seen, base, samples, others>>

Unknown == -1
DefaultFsr == 2
Closed == [opened |-> FALSE, loaded |-> FALSE, idx |-> Unknown, dps |-> 0, bias |-> 0, thr |-> Threshold, streak |-> 0,
           acc |-> 0, count |-> 0, calibrated |-> FALSE, ts |-> 0, ts_valid |-> FALSE, init |-> FALSE, yaw |-> 0,
           psi_valid |-> FALSE, psi_prev |-> 0, heading |-> 0]
Nothing == [fast |-> FALSE, gap |-> FALSE, turned |-> FALSE, hole |-> FALSE, still |-> 0, meant |-> 0]

Init ==
    /\ im = Closed /\ fsr = DefaultFsr /\ clock = 0 /\ fifo = <<>> /\ seen = Nothing /\ base = 0
    /\ samples = 0 /\ others = 0

-----------------------------------------------------------------------------
(* db_imu_cal_load: lines are read up to the first bad one.                *)

Lines == {"schema", "other schema", "fsr", "other fsr", "bias", "bad bias", "informational"}
Bad == {"other schema", "bad bias"}
Has(f, l) == \E i \in DOMAIN f : f[i] = l
LastIs(f, a, b) == \E i \in DOMAIN f : f[i] = a /\ \A j \in DOMAIN f : f[j] = b => j < i

CalLoadPartial(f) ==                     \* mutant: what was read before the bad line is kept
    [loaded |-> ~(\E i \in DOMAIN f : f[i] \in Bad) /\ Has(f, "schema") /\ LastIs(f, "fsr", "other fsr"),
     bias |-> IF \E i \in DOMAIN f : f[i] = "bias" /\ \A j \in 1 .. i : f[j] \notin Bad THEN ZeroRate ELSE 0]

CalLoad(f) ==
    IF (\E i \in DOMAIN f : f[i] \in Bad) \/ ~Has(f, "schema") \/ ~LastIs(f, "fsr", "other fsr")
    THEN [loaded |-> FALSE, bias |-> 0]
    ELSE [loaded |-> TRUE, bias |-> IF Has(f, "bias") THEN ZeroRate ELSE 0]

-----------------------------------------------------------------------------
(* One sample.                                                             *)

ThrAt(d) == (Threshold * DefaultFsr) \div d

\* db_imu_recalibrate
Recal(m) == [m EXCEPT !.acc = 0, !.count = 0, !.streak = 0, !.calibrated = FALSE]

ApplyFsr(m, d) ==
    LET b == [m EXCEPT !.idx = d, !.dps = d]
    IN  IF d = 0 THEN b
        ELSE IF m.idx = Unknown \/ m.dps = 0
             THEN Recal([b EXCEPT !.bias = IF m.loaded THEN @ ELSE 0, !.thr = ThrAt(d)])
             ELSE Recal([b EXCEPT !.bias = (@ * m.dps) \div d, !.thr = ThrAt(d)])

Rescale(m, s) == IF s.fsr = m.idx THEN m ELSE ApplyFsr(m, s.fsr)

Abs(x) == IF x < 0 THEN -x ELSE x
Corrected(m, s) == s.raw - m.bias
Idle(m, s) == Abs(Corrected(m, s)) < m.thr
Since(m, s) == (s.ts - m.ts) % Wrap

\* The bias estimator: a window of rest replaces or blends the bias.
Estimate(m) == [m EXCEPT !.bias = IF m.calibrated THEN (m.acc \div m.count + @ * (Blend - 1)) \div Blend
                                  ELSE m.acc \div m.count,
                         !.acc = 0, !.count = 0, !.streak = 0, !.calibrated = TRUE]

LearnKeepsStreak(m, s) ==                \* mutant: a turn does not end the window
    IF ~Idle(m, s) THEN m
    ELSE LET n == [m EXCEPT !.acc = @ + s.raw, !.count = @ + 1,
                            !.streak = IF m.ts_valid THEN @ + Since(m, s) ELSE @]
         IN  IF n.streak >= Window THEN Estimate(n) ELSE n

Learn(m, s) ==
    IF ~Idle(m, s) THEN [m EXCEPT !.streak = 0, !.acc = 0, !.count = 0]
    ELSE LET n == [m EXCEPT !.acc = @ + s.raw, !.count = @ + 1,
                            !.streak = IF m.ts_valid THEN @ + Since(m, s) ELSE @]
         IN  IF n.streak >= Window THEN Estimate(n) ELSE n

\* The fusion: the first sample seeds it, a sample after a gap leaves it as it is.
Fuse(m, s) ==
    [m EXCEPT !.init = TRUE, !.ts = s.ts, !.ts_valid = TRUE,
              !.yaw = IF m.init /\ m.ts_valid /\ Since(m, s) > 0 /\ Since(m, s) < Gate
                      THEN @ + Corrected(m, s) * m.dps * Since(m, s) ELSE @]

\* integrate
Integrate(m, s) == Fuse(Learn(Rescale(m, s), s), s)

WrapPi(x) == LET r == x % Turn IN IF 2 * r > Turn THEN r - Turn ELSE r
Trunc(x) == IF x < 0 THEN -((-x) \div Fine) ELSE x \div Fine

ExtractYaw(m) ==
    LET psi == WrapPi(m.yaw)
    IN  IF ~m.init THEN m
        ELSE IF ~m.psi_valid THEN [m EXCEPT !.psi_prev = psi, !.psi_valid = TRUE]
        ELSE [m EXCEPT !.heading = @ + Trunc(WrapPi(psi - m.psi_prev)), !.psi_prev = psi]

-----------------------------------------------------------------------------
(* What the samples of a drain were, for the properties.                   *)

\* The window of rest to which s belongs, and whether it ended with an estimate
Note(x, m, s, n) ==
    LET late == m.ts_valid /\ Since(m, s) >= Gate
        fast == x.fast \/ s.rate >= Fast
        learned == n.count = 0 /\ Idle(Rescale(m, s), s)
    IN  [fast |-> n.count > 0 /\ fast, gap |-> n.count > 0 /\ (x.gap \/ late),
         turned |-> x.turned \/ (learned /\ fast), hole |-> x.hole \/ (learned /\ (x.gap \/ late)),
         still |-> IF s.rate # 0 \/ late \/ n.idx # m.idx \/ ~m.ts_valid \/ Since(m, s) = 0 THEN 0 ELSE x.still + 1,
         meant |-> IF learned THEN n.bias * n.dps
                   ELSE IF m.dps = 0 /\ n.dps # 0 /\ ~m.loaded THEN 0 ELSE x.meant]

Step(p, s) == LET n == Integrate(p.m, s) IN [m |-> n, x |-> Note(p.x, p.m, s, n)]

-----------------------------------------------------------------------------
(* Operations.                                                             *)

\* db_imu_open
Open(f) ==
    /\ ~im.opened /\ others < MaxOther /\ others' = others + 1
    /\ LET cal == CalLoad(f)
       IN  /\ im' = [Closed EXCEPT !.opened = TRUE, !.loaded = cal.loaded, !.bias = cal.bias]
           /\ seen' = [Nothing EXCEPT !.meant = cal.bias * DefaultFsr]
    /\ fifo' = <<>>
    /\ base' = 0 /\ UNCHANGED <<fsr, clock, samples>>

Close ==
    /\ im.opened /\ others < MaxOther /\ others' = others + 1 /\ im' = [im EXCEPT !.opened = FALSE]
    /\ UNCHANGED <<fsr, clock, fifo, seen, base, samples>>

\* db_imu_drain_and_update: a batch, then the yaw
Drain ==
    /\ im.opened /\ fifo # <<>>
    /\ LET k == IF Len(fifo) < Batch THEN Len(fifo) ELSE Batch
           r == FoldLeft(Step, [m |-> im, x |-> seen], SubSeq(fifo, 1, k))
           e == ExtractYaw(r.m)
       IN  /\ im' = e /\ seen' = r.x
           /\ base' = (IF im.psi_valid THEN base ELSE e.yaw - e.heading * Fine)
           /\ fifo' = SubSeq(fifo, k + 1, Len(fifo))
    /\ UNCHANGED <<fsr, clock, samples, others>>

\* The sensor publishes.
Sample(dt, rate) ==
    /\ samples < MaxSamples /\ samples' = samples + 1 /\ Len(fifo) < Batch + 1 /\ clock' = (clock + dt) % Wrap
    /\ fifo' = IF im.opened
               THEN Append(fifo, [raw |-> IF fsr = 0 THEN 0 ELSE ((rate + ZeroRate) * 2) \div fsr, fsr |-> fsr,
                                  ts |-> clock', rate |-> rate])
               ELSE fifo
    /\ UNCHANGED <<im, fsr, seen, base, others>>

\* Another client selects a full scale.
SetFsr(d) ==
    /\ (im.opened \/ FsrWhileClosed) /\ others < MaxOther /\ others' = others + 1 /\ fsr' = d /\ d # fsr
    /\ UNCHANGED <<im, clock, fifo, seen, base, samples>>

Recalibrate ==
    /\ im.opened /\ others < MaxOther /\ others' = others + 1 /\ im' = Recal(im)
    /\ seen' = [seen EXCEPT !.fast = FALSE, !.gap = FALSE, !.still = 0] /\ UNCHANGED <<fsr, clock, fifo, base, samples>>

\* db_imu_set_heading_mdeg
SetHeading(h) ==
    /\ im.opened /\ others < MaxOther /\ others' = others + 1 /\ im' = [im EXCEPT !.heading = h]
    /\ base' = im.yaw - h * Fine /\ UNCHANGED <<fsr, clock, fifo, seen, samples>>

Next ==
    \/ \E f \in Files : Open(f)
    \/ Close \/ Drain \/ Recalibrate \/ SetHeading(0)
    \/ \E dt \in Gaps, r \in Rates : Sample(dt, r)
    \/ \E d \in Scales : SetFsr(d)

Spec == Init /\ [][Next]_vars

-----------------------------------------------------------------------------
\* The bias keeps its physical meaning whatever full scale the samples come in: it is
\* the rate it was estimated at, in units of the present scale, to one unit.
BiasMeaning == im.opened /\ im.dps # 0 => Abs(im.bias * im.dps - seen.meant) <= 1

\* A bad calibration file leaves nothing behind.
CalWhole == im.opened /\ ~im.loaded /\ im.idx = Unknown => im.bias = 0

\* No window of rest contains a turn.
TurnNotLearned == ~seen.turned

\* A window of rest was watched throughout: it has no gap in the samples.
RestWatched == ~seen.hole

\* A hub that rests for a window is calibrated, at every full scale.
RestCalibrates == im.opened /\ im.dps # 0 /\ seen.still > Window => im.calibrated

\* The heading is the yaw that was integrated since it was set, over any number of turns.
HeadingIsYaw == im.opened /\ im.psi_valid => Abs(im.heading * Fine - (im.yaw - base)) < 2 * Fine
=============================================================================
