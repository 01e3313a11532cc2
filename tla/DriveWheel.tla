----------------------------- MODULE DriveWheel -----------------------------
(***************************************************************************)
(* One wheel of the drive base. A step is one tick. Two state machines.    *)
(*                                                                         *)
(* The measurement: the drain of the encoder samples (drivebase_motor.c),  *)
(* the gate against impossible jumps (drivebase_servo.c), the speed        *)
(* estimate over a ring of samples and the stall detector                  *)
(* (drivebase_observer.c): db_servo_update followed by the db_servo_apply  *)
(* of the same tick. Time is counted in ticks, positions in units of the   *)
(* encoder; the thresholds of the source are constants, the instance keeps *)
(* their order.                                                            *)
(*                                                                         *)
(* The friction assist, what db_drivebase_update adds to the duty of the   *)
(* wheel after the two PIDs have been composed: the sign of the friction   *)
(* term with its hysteresis, and the terminal breakaway that pushes a      *)
(* wheel which has stopped short of its target, once per move. Reference   *)
(* speed, error and composed duty are chosen by the mechanics and the      *)
(* PIDs.                                                                   *)
(***************************************************************************)
EXTENDS Integers, Sequences, SequencesExt, FiniteSets

CONSTANTS Positions,    \* what the encoder may report
          Glitch,       \* DB_SERVO_GLITCH_MDEG
          Agree,        \* DB_SERVO_AGREE_MDEG
          RebaseRun,    \* DB_SERVO_REBASE_RUN
          RingDepth,    \* DB_OBSERVER_RING_DEPTH
          MinWindow,    \* min_window_us
          MinMove,      \* MIN_LSB_COUNT x LSB
          HystLow, HystHigh,   \* DB_OBSERVER_V_HYST_LOW/HIGH_MDEGPS
          StallSpeed,   \* stall_low_speed_mdegps
          StallWindow,  \* stall_window_ms
          MaxTime       \* ticks of a behaviour

ThresholdsAssumption ==
    /\ Positions \subseteq Int /\ 0 \in Positions
    /\ {Glitch, Agree, RebaseRun, RingDepth, MinWindow, MinMove,
        HystLow, HystHigh, StallSpeed, StallWindow, MaxTime} \subseteq Nat
    /\ RingDepth > 1 /\ HystLow <= HystHigh

VARIABLES
    now,        \* ticks so far
    x,          \* x_actual_mdeg, the trusted position
    candidate,  \* reject_candidate_mdeg
    run,        \* candidate_run
    ring,       \* samples of the observer, oldest first
    speed,      \* v_est_mdegps
    snapped,    \* snapped_to_zero
    streak,     \* stall_streak_ms
    stalled,
    duty,       \* last_applied_duty: is it above stall_min_duty?
    torque,     \* is the motor really driven above stall_min_duty?
    reclaim,    \* the bit of this side in the reclaim request
    raw,        \* the last RebaseRun positions drained
    slowSince,  \* the tick since which the wheel is slow under high duty
    silent      \* ticks since the last sample that was taken

vars == <<now, x, candidate, run, ring, speed, snapped, streak, stalled,
          duty, torque, reclaim, raw, slowSince, silent>>

Abs(n) == IF n < 0 THEN -n ELSE n
\* Division as C does it: towards zero.
Quot(a, b) == IF a < 0 THEN -((-a) \div b) ELSE a \div b

Far(a, b) == Abs(a - b) > Glitch

(***************************************************************************)
(* The observer                                                            *)
(***************************************************************************)

\* v_slope_raw_mdegps: from the newest sample back to the first one that is
\* old enough and far enough, or to the oldest.
SlopeRaw(r) ==
    LET new == Last(r)
        good == {i \in 1..(Len(r) - 1) :
                   new.t - r[i].t >= MinWindow /\ Abs(new.x - r[i].x) >= MinMove}
        pick == IF good = {} THEN 1 ELSE CHOOSE i \in good : \A j \in good : j <= i
    IN  IF Len(r) < 2 THEN 0
        ELSE Quot(new.x - r[pick].x, new.t - r[pick].t)

\* apply_zero_hysteresis: the estimate and the new snapped_to_zero.
Slope(r, s) ==
    LET v == SlopeRaw(r) IN
    IF s THEN [v |-> IF Abs(v) > HystHigh THEN v ELSE 0,
               snapped |-> Abs(v) <= HystHigh]
    ELSE [v |-> IF Abs(v) < HystLow THEN 0 ELSE v, snapped |-> Abs(v) < HystLow]

\* update_stall
Stall(v, dt) ==
    IF Abs(v) < StallSpeed /\ duty
    THEN /\ streak' = IF streak + dt > StallWindow THEN StallWindow
                      ELSE streak + dt
         /\ stalled' = (stalled \/ streak + dt >= StallWindow)
         /\ slowSince' = IF streak = 0 THEN now ELSE slowSince
    ELSE streak' = 0 /\ stalled' = FALSE /\ slowSince' = now

\* db_observer_reset
ObserverReset(pos, t) ==
    /\ ring' = <<[t |-> t, x |-> pos]>>
    /\ speed' = 0 /\ snapped' = TRUE
    /\ streak' = 0 /\ stalled' = FALSE /\ slowSince' = now

Pushed(r, sample) ==
    LET all == Append(r, sample) IN
    IF Len(all) > RingDepth THEN Tail(all) ELSE all

\* db_observer_update_sample
ObserverSample(pos, t) ==
    IF t <= Last(ring).t
    THEN UNCHANGED <<ring, speed, snapped, streak, stalled, slowSince>>
    ELSE LET r == Pushed(ring, [t |-> t, x |-> pos])
             s == Slope(r, snapped)
         IN  /\ ring' = r
             /\ speed' = s.v /\ snapped' = s.snapped
             /\ Stall(s.v, t - Last(ring).t)

\* db_observer_idle_tick
ObserverIdle ==
    LET s == Slope(ring, snapped) IN
    /\ speed' = s.v /\ snapped' = s.snapped
    /\ Stall(s.v, 1)
    /\ UNCHANGED ring

----------------------------------------------------------------------------

TypeOK ==
    /\ now \in 0..MaxTime
    /\ x \in Positions /\ candidate \in Positions /\ run \in 0..(RebaseRun - 1)
    /\ Len(ring) \in 1..RingDepth
    /\ \A i \in 1..Len(ring) : ring[i] \in [t : 0..MaxTime, x : Positions]
    /\ speed \in Int /\ snapped \in BOOLEAN
    /\ streak \in 0..StallWindow /\ stalled \in BOOLEAN
    /\ duty \in BOOLEAN /\ torque \in BOOLEAN /\ reclaim \in BOOLEAN
    /\ Len(raw) <= RebaseRun /\ Range(raw) \subseteq Positions
    /\ slowSince \in 0..MaxTime /\ silent \in 0..MaxTime

\* db_servo_reset without a sample: a neutral origin.
Init ==
    /\ now = 0
    /\ x = 0 /\ candidate = 0 /\ run = 0
    /\ ring = <<[t |-> 0, x |-> 0]>>
    /\ speed = 0 /\ snapped = TRUE
    /\ streak = 0 /\ stalled = FALSE
    /\ duty = FALSE /\ torque = FALSE /\ reclaim = FALSE
    /\ raw = <<>> /\ slowSince = 0 /\ silent = 0

\* db_servo_apply: a duty is recorded only if the motor took it; a stale
\* claim arms the reclaim.
Apply ==
    \/ \E d \in BOOLEAN : duty' = d /\ torque' = d /\ UNCHANGED reclaim
    \/ duty' = FALSE /\ torque' = FALSE /\ reclaim' = TRUE

Elapse ==
    /\ now < MaxTime
    /\ now' = now + 1

\* drivebase_motor_drain: what the frames of one read amount to.  A position
\* that follows a disconnect in the same batch is not continuous.
Frames == {"position", "other_mode", "sync", "disconnect"}
Drain(batch) ==
    IF "disconnect" \in batch THEN "disconnected"
    ELSE IF "position" \in batch THEN "sample" ELSE "again"

Seen(pos) ==
    LET all == Append(raw, pos) IN
    IF Len(all) > RebaseRun THEN Tail(all) ELSE all

\* Mutant: far samples are counted whether they agree or not.
RunAfterAny(pos) == run + 1

\* The consecutive far samples that agree, this one included.
RunAfter(pos) ==
    IF run > 0 /\ Abs(pos - candidate) <= Agree THEN run + 1 ELSE 1

\* The drain found a sample that continues the trusted position.
Accept(pos, t) ==
    /\ ~Far(pos, x)
    /\ run' = 0 /\ x' = pos
    /\ ObserverSample(pos, t)
    /\ UNCHANGED candidate

\* One that does not, and has not been confirmed: it is dropped.
Reject(pos) ==
    /\ Far(pos, x) /\ RunAfter(pos) < RebaseRun
    /\ run' = RunAfter(pos) /\ candidate' = pos
    /\ UNCHANGED <<x, ring, speed, snapped, streak, stalled, slowSince>>

\* Mutant: the observer keeps the samples of the old level.
RebaseKeeps(pos, t) ==
    /\ Far(pos, x) /\ RunAfter(pos) >= RebaseRun
    /\ run' = 0 /\ candidate' = pos /\ x' = pos
    /\ ObserverSample(pos, t)

\* The far level has held: the encoder really starts from there now.
Rebase(pos, t) ==
    /\ Far(pos, x) /\ RunAfter(pos) >= RebaseRun
    /\ run' = 0 /\ candidate' = pos /\ x' = pos
    /\ ObserverReset(pos, t)

\* db_servo_update with a position sample; its timestamp may be late.
Sample ==
    /\ Elapse
    /\ \E batch \in SUBSET Frames : Drain(batch) = "sample"
    /\ \E pos \in Positions, t \in {now, now + 1} :
         /\ Accept(pos, t) \/ Reject(pos) \/ Rebase(pos, t)
         /\ raw' = Seen(pos)
         /\ silent' = IF Far(pos, x) THEN silent + 1 ELSE 0
    /\ Apply

\* Nothing new, a SYNC sentinel, or frames of another mode.
Quiet ==
    /\ Elapse
    /\ \E batch \in SUBSET Frames : Drain(batch) = "again"
    /\ ObserverIdle
    /\ silent' = silent + 1
    /\ Apply
    /\ UNCHANGED <<x, candidate, run, raw>>

\* A disconnect sentinel or a read error: the estimates stay as they are and
\* the tick coasts.
Disconnected ==
    /\ Elapse
    /\ \E batch \in SUBSET Frames : Drain(batch) = "disconnected"
    /\ reclaim' = TRUE
    /\ duty' = FALSE /\ torque' = FALSE
    /\ silent' = silent + 1
    /\ UNCHANGED <<x, candidate, run, ring, speed, snapped, streak, stalled,
                   raw, slowSince>>

\* The port has been reclaimed: db_servo_reset, with a sample or without.
Reset ==
    /\ reclaim /\ reclaim' = FALSE
    /\ \E pos \in Positions : x' = pos /\ ObserverReset(pos, now)
    /\ candidate' = 0 /\ run' = 0
    /\ duty' = FALSE /\ torque' = FALSE
    /\ raw' = <<>> /\ silent' = 0
    /\ UNCHANGED now

Next == Sample \/ Quiet \/ Disconnected \/ Reset

Spec == Init /\ [][Next]_vars

----------------------------------------------------------------------------
(* Properties *)

\* The trusted position jumps only to a level that RebaseRun consecutive
\* samples agreed on: a burst of garbage, even of several values, does not
\* move it (the gate of db_servo_update).
JumpsAreConfirmed ==
    Far(x', x) /\ now' # now =>
      /\ Len(raw') = RebaseRun
      /\ \A i \in 1..RebaseRun : Far(raw'[i], x)
      /\ \A i \in 2..RebaseRun : Abs(raw'[i] - raw'[i - 1]) <= Agree

\* The samples a speed is computed from are of one epoch: neighbours are not
\* further apart than a wheel can move, so no change of level is ever taken
\* for a speed.
OneEpoch ==
    \A i \in 2..Len(ring) : ~Far(ring[i].x, ring[i - 1].x)

\* Their times increase strictly: no division by zero and no negative time.
RingOrdered ==
    \A i \in 2..Len(ring) : ring[i].t > ring[i - 1].t

\* Time counts towards a stall only while the motor is really driven: a duty
\* that a lost port refused must not look like a blocked wheel.
HonestStall ==
    streak' > streak => torque

\* A stall is reported after the wheel has been slow under a high duty for
\* the whole window (db_stall_settings_s).  Refuted by the code.
StallIsLong ==
    stalled => now - slowSince >= StallWindow

\* Without samples the estimate decays to zero (db_observer_idle_tick).
\* Refuted by the code.
IdleDecays ==
    silent > MinWindow /\ ~reclaim => speed = 0


-----------------------------------------------------------------------------
(* The friction assist *)

CONSTANTS Enter, Exit,  \* v_hyst_enter_mdegps, v_hyst_exit_mdegps
          Deadband,     \* DB_BREAKAWAY_ERR_DEADBAND
          Floor,        \* terminal_breakaway
          MaxSpeed, MaxError, MaxDuty

LimitsAssumption ==
    {Enter, Exit, Deadband, Floor, MaxSpeed, MaxError, MaxDuty} \subseteq Nat

VARIABLES
    held,      \* sign_v_held
    sign,      \* breakaway_sign
    consumed,  \* breakaway_consumed
    pre, out,  \* the duty before and after the breakaway
    vref,      \* the wheel's reference speed in this tick
    error,     \* the wheel's error in this tick
    over       \* since it was pushed the wheel has arrived or overshot

assistVars == <<held, sign, consumed, pre, out, vref, error, over>>

Sgn(n) == IF n > 0 THEN 1 ELSE IF n < 0 THEN -1 ELSE 0
Side(e) == IF e > Deadband THEN 1 ELSE IF e < -Deadband THEN -1 ELSE 0

\* ff_sign_with_hysteresis
FfSign(v, prev) ==
    IF v >= Enter THEN 1
    ELSE IF v <= -Enter THEN -1
    ELSE IF v < Exit /\ -v < Exit THEN 0 ELSE prev

Braking(s, d0) == s = -Sgn(d0) /\ s # 0

\* apply_breakaway_floor for a trajectory that is done: the new duty and the
\* episode's new state.
Breakaway(d0, e, st) ==
    LET s == Side(e) IN
    IF Floor = 0 \/ st.consumed THEN [duty |-> d0, st |-> st]
    ELSE IF s = 0
    THEN [duty |-> d0, st |-> [st EXCEPT !.consumed = st.sign # 0]]
    ELSE IF st.sign # 0 /\ s # st.sign
    THEN [duty |-> d0, st |-> [st EXCEPT !.consumed = TRUE]]
    ELSE IF Braking(s, d0) THEN [duty |-> d0, st |-> st]
    ELSE IF s * d0 < Floor
    THEN [duty |-> s * Floor, st |-> [st EXCEPT !.sign = s]]
    ELSE [duty |-> d0, st |-> st]

AssistTypeOK ==
    /\ held \in -1..1 /\ sign \in -1..1 /\ consumed \in BOOLEAN
    /\ vref \in -MaxSpeed..MaxSpeed
    /\ pre \in -MaxDuty..MaxDuty /\ out \in -MaxDuty..MaxDuty
    /\ error \in -MaxError..MaxError /\ over \in BOOLEAN

AssistInit ==
    /\ held = 0 /\ sign = 0 /\ consumed = FALSE
    /\ vref = 0 /\ pre = 0 /\ out = 0 /\ error = 0 /\ over = FALSE

\* A tick under way: the episode is armed again.
Moving ==
    /\ vref' \in -MaxSpeed..MaxSpeed
    /\ held' = FfSign(vref', held)
    /\ \E d \in -MaxDuty..MaxDuty : pre' = d /\ out' = d
    /\ error' \in -MaxError..MaxError
    /\ sign' = 0 /\ consumed' = FALSE /\ over' = FALSE

\* A tick after the end of the reference, whose speed is zero then.
Terminal ==
    /\ vref' = 0
    /\ held' = FfSign(0, held)
    /\ pre' \in -MaxDuty..MaxDuty
    /\ error' \in -MaxError..MaxError
    /\ LET b == Breakaway(pre', error', [sign |-> sign, consumed |-> consumed])
       IN  /\ out' = b.duty
           /\ sign' = b.st.sign
           /\ consumed' = b.st.consumed
    /\ over' = (over \/ (sign # 0 /\ Side(error') # sign))

AssistNext == Moving \/ Terminal

AssistSpec == AssistInit /\ [][AssistNext]_assistVars

\* A wheel that was pushed and has arrived at or passed its target is not
\* pushed again in this move, in neither direction: no buzz around the target
\* (the one-shot of apply_breakaway_floor).
NoRefire == over => out = pre

\* What the breakaway adds points at the target and never replaces a duty
\* that brakes the wheel or is stronger already.
PushesHome ==
    out # pre => /\ Sgn(out) = Side(error)
                 /\ Sgn(pre) # -Side(error)
                 /\ Side(error) * out > Side(error) * pre

\* The friction term changes from one direction to the other only by way of
\* the full threshold or of rest: a reference that dips into the band keeps
\* the sign it had.
KeepsSign ==
    /\ held # 0 /\ held' = -held => vref' >= Enter \/ -vref' >= Enter
    /\ held # 0 /\ held' = 0 => vref' < Exit /\ -vref' < Exit
=============================================================================
