----------------------------- MODULE ImuSensor ------------------------------
(***************************************************************************)
(* The LSM6DSL driver (lsm6dsl_uorb.c) in interrupt mode: the data-ready   *)
(* interrupt, its worker, which samples under devlock and publishes after  *)
(* it, and the operations of the upper half, each under devlock, whose I2C *)
(* transfers may fail one by one.                                          *)
(*                                                                         *)
(* The chip is external: two rate registers, two range registers and a     *)
(* measurement that is replaced at every tick.  A rate is an index into    *)
(* g_odr_interval, 0 is off.  Ranges are numbers.                          *)
(***************************************************************************)
EXTENDS Integers, Sequences

CONSTANTS Periods,   \* periods a subscriber may ask for, in us
          Rates,     \* rates SNIOC_SETSAMPLERATE may ask for
          Ranges,    \* full scales, for both sensors
          MaxTicks,  \* bound on the measurements
          MaxOps     \* bound on the operations of the upper half

ImuSensorAssumption ==
    /\ Periods \subseteq Nat /\ Rates \subseteq 1..10 /\ Ranges \subseteq Nat /\ Ranges # {}
    /\ {MaxTicks, MaxOps} \subseteq Nat

VARIABLES
    chip,    \* rates and ranges of accelerometer and gyroscope, tick of the measurement
    drv,     \* cfg_odr, odr, fsr_xl, fsr_gy, active
    asked,   \* the period the rate was last asked with, 0 for none
    mixed,   \* a rate write failed half way and no later one succeeded
    ts,      \* ts_irq
    work,    \* the worker's item is queued
    wk,      \* the worker: "idle", "read", "build", "push", with its sample
    stopped, \* the last deactivation is complete and nothing was activated since
    pub,     \* the sample published last, and whether sampling was on
    ops

vars == <<chip, drv, asked, mixed, ts, work, wk, stopped, pub, ops>>

Interval == <<80000, 38462, 19230, 9615, 4807, 2403, 1200, 602, 300, 150>>   \* g_odr_interval
Thresholds == <<80000, 38462, 19231, 9615, 4808, 2404, 1200, 602, 300>>

Quantise(us) ==
    IF \E i \in 1..9 : us >= Thresholds[i]
    THEN CHOOSE i \in 1..9 : us >= Thresholds[i] /\ \A j \in 1..(i - 1) : us < Thresholds[j]
    ELSE 10

NoSample == [at |-> "idle", tick |-> 0, ts |-> 0, odr |-> 0, xl |-> 0, gy |-> 0,
             rxl |-> 0, rgy |-> 0, live |-> FALSE]
Default == CHOOSE r \in Ranges : \A s \in Ranges : r <= s

TypeOK ==
    /\ chip.xl \in 0..10 /\ chip.gy \in 0..10 /\ {chip.fxl, chip.fgy} \subseteq Ranges
    /\ drv.cfg \in 1..10 /\ drv.odr \in 0..10
    /\ wk.at \in {"idle", "read", "build", "push"} /\ wk.ts \in 0..MaxTicks

\* lsm6dsl_register_uorb and lsm6dsl_hw_init have succeeded.
Init ==
    /\ chip = [xl |-> 0, gy |-> 0, fxl |-> Default, fgy |-> Default, tick |-> 0]
    /\ drv = [cfg |-> 7, odr |-> 0, fxl |-> Default, fgy |-> Default, active |-> FALSE]
    /\ asked = 0 /\ mixed = FALSE /\ ts = 0 /\ work = FALSE /\ wk = NoSample
    /\ stopped = TRUE /\ pub = NoSample /\ ops = 0

-----------------------------------------------------------------------------
\* The gyroscope has a new measurement; drdy_int_handler stamps it and queues the work.
DataReady ==
    /\ chip.gy # 0 /\ chip.tick < MaxTicks
    /\ chip' = [chip EXCEPT !.tick = @ + 1] /\ ts' = chip.tick + 1 /\ work' = TRUE
    /\ UNCHANGED <<drv, asked, mixed, wk, stopped, pub, ops>>

\* push_data: devlock, the burst read, which may fail ...
Locked == wk.at \in {"read", "build"}

Begin ==
    /\ work /\ wk.at = "idle" /\ work' = FALSE /\ wk' = [NoSample EXCEPT !.at = "read"]
    /\ UNCHANGED <<chip, drv, asked, mixed, ts, stopped, pub, ops>>

Read ==
    /\ wk.at = "read"
    /\ wk' \in {NoSample, [NoSample EXCEPT !.at = "build", !.tick = chip.tick,
                                           !.rxl = chip.fxl, !.rgy = chip.fgy]}
    /\ UNCHANGED <<chip, drv, asked, mixed, ts, work, stopped, pub, ops>>

\* ... the sample with its tags; publish is active, read under devlock ...
Build ==
    /\ wk.at = "build"
    /\ wk' = IF drv.active
             THEN [wk EXCEPT !.at = "push", !.ts = ts, !.odr = drv.odr, !.xl = drv.fxl, !.gy = drv.fgy]
             ELSE NoSample
    /\ UNCHANGED <<chip, drv, asked, mixed, ts, work, stopped, pub, ops>>

\* ... and the publication, after devlock is released.
Push ==
    /\ wk.at = "push" /\ pub' = [wk EXCEPT !.live = ~stopped] /\ wk' = NoSample
    /\ UNCHANGED <<chip, drv, asked, mixed, ts, work, stopped, ops>>

-----------------------------------------------------------------------------
\* lsm6dsl_set_odr: CTRL1_XL, then CTRL2_G; what it leaves after done of the two.
Wrote(o, done) ==
    [chip EXCEPT !.xl = IF done >= 1 THEN o ELSE @, !.gy = IF done = 2 THEN o ELSE @]
Mixes(done) == done = 1 \/ (done = 0 /\ mixed)

Op == ~Locked /\ ops < MaxOps /\ ops' = ops + 1

\* lsm6dsl_activate(true)
Activate ==
    /\ Op /\ ~drv.active
    /\ \E done \in 0..2 :
          /\ chip' = Wrote(drv.cfg, done) /\ mixed' = Mixes(done)
          /\ drv' = IF done = 2 THEN [drv EXCEPT !.odr = drv.cfg, !.active = TRUE] ELSE drv
          /\ stopped' = (stopped /\ done # 2)
    /\ UNCHANGED <<asked, ts, work, wk, pub>>

\* lsm6dsl_activate(false): inactive even when the chip cannot be stopped.
Deactivate ==
    /\ Op /\ drv.active /\ stopped' = TRUE /\ work' = FALSE
    /\ \E done \in 0..2 :
          /\ chip' = Wrote(0, done) /\ mixed' = Mixes(done)
          /\ drv' = [drv EXCEPT !.odr = IF done = 2 THEN 0 ELSE @, !.active = FALSE]
    /\ UNCHANGED <<asked, ts, wk, pub>>

SetRate(o, us) ==
    /\ Op
    /\ \E done \in IF drv.active THEN 0..2 ELSE {2} :
          /\ drv' = IF done < 2 THEN drv
                    ELSE [drv EXCEPT !.cfg = o, !.odr = IF drv.active THEN o ELSE @]
          /\ chip' = (IF drv.active THEN Wrote(o, done) ELSE chip)
          /\ mixed' = (IF drv.active THEN Mixes(done) ELSE mixed)
          /\ asked' = IF done = 2 THEN us ELSE asked
    /\ UNCHANGED <<ts, work, wk, stopped, pub>>

SetRange(xl, gy) ==
    /\ Op
    /\ \E ok \in BOOLEAN :
          /\ chip' = IF ok THEN [chip EXCEPT !.fxl = xl, !.fgy = gy] ELSE chip
          /\ drv' = IF ok THEN [drv EXCEPT !.fxl = xl, !.fgy = gy] ELSE drv
    /\ UNCHANGED <<asked, mixed, ts, work, wk, stopped, pub>>

Next ==
    \/ DataReady \/ Begin \/ Read \/ Build \/ Push \/ Activate \/ Deactivate
    \/ \E us \in Periods : SetRate(Quantise(us), us)
    \/ \E o \in Rates : SetRate(o, 0)
    \/ \E r \in Ranges : SetRange(r, drv.fgy) \/ SetRange(drv.fxl, r)

Spec == Init /\ [][Next]_vars

-----------------------------------------------------------------------------
(* Properties *)

\* While sampling, the rate the driver reports is the one it last wrote, and
\* the chip's two rates are that one unless a write failed half way.
RateAgrees ==
    drv.active => /\ drv.cfg = drv.odr
                  /\ mixed \/ (chip.xl = drv.odr /\ chip.gy = drv.odr)

\* A published sample is tagged with the ranges its values were read at,
\* although ranges change while samples are under way.
TagsTrue == pub.at = "push" => pub.xl = pub.rxl /\ pub.gy = pub.rgy

\* A subscriber never gets samples further apart than it asked for.
FastEnough == asked >= 150 => Interval[drv.cfg] <= asked

\* A sample carries "the true sample-ready time" (drdy_int_handler).
TimestampTrue == pub.at = "push" => pub.ts = pub.tick

\* Nothing is published once sampling was switched off: "Drain any HPWORK item
\* [...] otherwise drdy_worker can fire after sensor_close" (lsm6dsl_activate).
Drained == pub.at = "push" => pub.live
=============================================================================
