-------------------------- MODULE DriveTrajectory ---------------------------
(***************************************************************************)
(* The motion profiles of the drive base (drivebase_trajectory.c) and the  *)
(* matching of the two axes of a curve (drivebase_drivebase.c), in the     *)
(* code's integer arithmetic.  A second has US_PER_S ticks; divisions      *)
(* round as they do in C.                                                  *)
(*                                                                         *)
(* Commands plan both axes at the same instant, in a curve one of them is  *)
(* stretched to the duration of the other, and the daemon samples the      *)
(* references; a profile without end is retargeted at any tick.            *)
(***************************************************************************)
EXTENDS Integers, Sequences, FiniteSetsExt

CONSTANTS US_PER_S,      \* ticks of a second
          RESIDUAL,      \* bound of the residual gate (100 mdeg)
          PROBE,         \* neighbourhood that is probed (32)
          RATIO_MIL,     \* DB_TRAJECTORY_STRETCH_RATIO_THRESHOLD_MIL
          Wrap,          \* values of the unsigned time
          Delta, Turn, Speed, Accel, Start,   \* displacements, speeds and accelerations asked for; times
          MaxTime, MaxCommands, MaxRetargets

TrajectoryAssumption ==
    /\ {US_PER_S, RESIDUAL, PROBE, RATIO_MIL, Wrap, MaxTime, MaxCommands, MaxRetargets} \subseteq Nat
    /\ Delta \subseteq Int /\ Turn \subseteq Int /\ Speed \subseteq Int /\ Accel \subseteq Int /\ Start \subseteq Nat

VARIABLES
    tr,                  \* the trajectories of the two axes
    now, commands, retargets,
    stretched            \* per axis what it was before it was stretched, and the answer

vars == <<tr, now, commands, retargets, stretched>>

Axis == {"distance", "heading"}
AbsOf(x) == IF x < 0 THEN -x ELSE x
SignOf(x) == IF x > 0 THEN 1 ELSE IF x < 0 THEN -1 ELSE 0
Larger(x, y) == IF x > y THEN x ELSE y
Smaller(x, y) == IF x < y THEN x ELSE y

dx_from_v(v, dt) == (v * dt) \div US_PER_S
dx_from_a(a, dt) == (a * dt * dt) \div (2 * US_PER_S * US_PER_S)
v_from_a(a, dt) == (a * dt) \div US_PER_S
dt_to_reach_v(v, a) == IF a <= 0 THEN 0 ELSE (v * US_PER_S) \div a

\* the peak of a profile that has room for d only: sqrt(2 d a b / (a + b))
triangle_peak(d, a, b) ==
    LET v2 == d * ((2 * a * b) \div (a + b)) IN Max({r \in 0..Larger(v2, 1) : r * r <= v2})

-----------------------------------------------------------------------------
(* Planning. *)

\* the fields that follow from the speed and the durations of the segments
Profile(t0, x0, x1, inf, dir, v, a, d, ta, tc, td) ==
    LET xa == dx_from_a(a, ta) IN
    [t0 |-> t0, x0 |-> x0, x1 |-> x1, infinite |-> inf, dir |-> dir, v |-> v, a |-> a, d |-> d,
     ta |-> ta, tc |-> tc, td |-> td, total |-> ta + tc + td,
     xa |-> x0 + dir * xa, xc |-> x0 + dir * (xa + dx_from_v(v, tc))]

\* db_trajectory_init_position
init_position(t0, x0, x1, v, accel, decel) ==
    LET a == IF accel > 0 THEN accel ELSE 1
        d == IF decel > 0 THEN decel ELSE a
        dist == AbsOf(x1 - x0)
        da == (v * v) \div (2 * a)
        dd == (v * v) \div (2 * d)
        triangle(peak) == Profile(t0, x0, x1, FALSE, SignOf(x1 - x0), peak, a, d, dt_to_reach_v(peak, a), 0, dt_to_reach_v(peak, d))
    IN IF x1 = x0 \/ v <= 0 THEN Profile(t0, x0, x1, FALSE, 0, 0, a, d, 0, 0, 0)
       ELSE IF da + dd >= dist THEN triangle(triangle_peak(dist, a, d))
       ELSE Profile(t0, x0, x1, FALSE, SignOf(x1 - x0), v, a, d, dt_to_reach_v(v, a),
                    ((dist - da - dd) * US_PER_S) \div v, dt_to_reach_v(v, d))

\* db_trajectory_init_forever
init_forever(t0, x0, v, accel) ==
    LET a == IF accel > 0 THEN accel ELSE 1 IN
    [Profile(t0, x0, x0, TRUE, SignOf(v), AbsOf(v), a, a, dt_to_reach_v(AbsOf(v), a), 0, 0) EXCEPT !.total = 0]

-----------------------------------------------------------------------------
(* Sampling. *)

At(x, v, a, done) == [x |-> x, v |-> v, a |-> a, done |-> done]

\* the cruise is measured from the start of the move
RefLate(p, t) ==
    LET dt == t - p.t0 IN
    IF t < p.t0 \/ p.dir = 0 THEN At(p.x0, 0, 0, t >= p.t0 /\ ~p.infinite)
    ELSE IF dt < p.ta THEN At(p.x0 + p.dir * dx_from_a(p.a, dt), p.dir * v_from_a(p.a, dt), p.dir * p.a, FALSE)
    ELSE IF p.infinite \/ dt < p.total THEN At(p.xa + p.dir * dx_from_v(p.v, dt), p.dir * p.v, 0, FALSE)
    ELSE At(p.x1, 0, 0, TRUE)

\* db_trajectory_get_reference
Ref(p, t) ==
    LET dt == t - p.t0
        dc == dt - p.ta
        db == dt - p.ta - p.tc
    IN IF t < p.t0 THEN At(p.x0, 0, 0, FALSE)
       ELSE IF p.dir = 0 THEN At(p.x0, 0, 0, ~p.infinite)
       ELSE IF dt < p.ta THEN At(p.x0 + p.dir * dx_from_a(p.a, dt), p.dir * v_from_a(p.a, dt), p.dir * p.a, FALSE)
       ELSE IF p.infinite \/ dc < p.tc THEN At(p.xa + p.dir * dx_from_v(p.v, dc), p.dir * p.v, 0, FALSE)
       ELSE IF dt < p.total
       THEN At(p.xc + p.dir * (dx_from_v(p.v, db) - dx_from_a(p.d, db)),
               p.dir * Larger(p.v - v_from_a(p.d, db), 0), -(p.dir * p.d), FALSE)
       ELSE At(p.x1, 0, 0, TRUE)

-----------------------------------------------------------------------------
(* Retargeting a profile without end. *)

Anchored(p, t, x0, v, a, dt) ==
    [Profile((t - dt) % Wrap, x0 - SignOf(v) * dx_from_a(a, dt), p.x1, TRUE, SignOf(v), AbsOf(v), a, a,
             dt_to_reach_v(AbsOf(v), a), 0, 0) EXCEPT !.total = 0]

\* db_trajectory_retarget_forever
Retarget(p, t, v, accel) ==
    LET a == IF accel > 0 THEN accel ELSE 1
        moving(ref, along) ==
            Anchored(p, t, ref.x, v, a, IF v = 0 \/ along <= 0 THEN 0 ELSE dt_to_reach_v(Smaller(along, AbsOf(v)), a))
    IN IF ~p.infinite THEN p ELSE moving(Ref(p, t), Ref(p, t).v * SignOf(v))

-----------------------------------------------------------------------------
(* Stretching. *)

stretch_total_dt(v, a, d, dist) ==
    LET ta == dt_to_reach_v(v, a)
        td == dt_to_reach_v(v, d)
        ramps == dx_from_a(a, ta) + dx_from_a(d, td)
    IN IF ramps >= dist THEN ta + td ELSE ta + td + ((dist - ramps) * US_PER_S) \div v

\* how far the duration with the peak speed v is from the one asked for
Miss(v, p, T) == AbsOf(stretch_total_dt(v, p.a, p.d, AbsOf(p.x1 - p.x0)) - T)

Nearer(c, best, p, T) == IF best = 0 \/ Miss(c, p, T) < Miss(best, p, T) THEN c ELSE best

\* the binary search for the peak speed, with the best candidate so far (0: none)
Search(p, T) ==
    LET Speeds == 0..Larger(p.v, 1)
        from[lo \in Speeds, hi \in Speeds, best \in Speeds] ==
            LET mid == (lo + hi) \div 2 IN
            IF lo + 1 >= hi THEN Larger(best, 1)
            ELSE IF stretch_total_dt(mid, p.a, p.d, AbsOf(p.x1 - p.x0)) > T
            THEN from[mid, hi, Nearer(mid, best, p, T)]
            ELSE from[lo, mid, Nearer(mid, best, p, T)]
    IN from[1, p.v, 0]

\* the probe of the neighbourhood of the best: the smallest error, the first of equals
Probe(p, T, best) ==
    LET near == (IF best > PROBE THEN best - PROBE ELSE 1)..(IF best < p.v - PROBE THEN best + PROBE ELSE p.v)
        nearest(least) == IF Miss(best, p, T) = least /\ p.v > 2 THEN best ELSE Min({v \in near : Miss(v, p, T) = least})
    IN nearest(Min({Miss(v, p, T) : v \in near \cup {best}}))

Peak(p, T) == Probe(p, T, Search(p, T))

StretchedTo(p, v, T) ==
    LET ta == dt_to_reach_v(v, p.a)
        td == dt_to_reach_v(v, p.d)
    IN Profile(p.t0, p.x0, p.x1, FALSE, p.dir, v, p.a, p.d, ta, T - ta - td, td)

\* the preconditions, and the answer when they are not met
Stretchable(p, T) == ~p.infinite /\ p.dir # 0 /\ p.total # 0 /\ T > p.total

\* whatever comes out is taken
StretchUngated(p, T) ==
    IF ~Stretchable(p, T) THEN [rc |-> "EINVAL", tr |-> p]
    ELSE IF dt_to_reach_v(Peak(p, T), p.a) + dt_to_reach_v(Peak(p, T), p.d) >= T THEN [rc |-> "ERANGE", tr |-> p]
    ELSE [rc |-> "ok", tr |-> [StretchedTo(p, Peak(p, T), T) EXCEPT !.total = p.total]]

\* db_trajectory_stretch_to_total, with its residual gate
Stretch(p, T) ==
    LET gated(q) == IF q.ta + q.td >= T \/ AbsOf(Ref(q, T - 1).x - q.x1) > RESIDUAL
                    THEN [rc |-> "ERANGE", tr |-> p] ELSE [rc |-> "ok", tr |-> q]
    IN IF ~Stretchable(p, T) THEN [rc |-> "EINVAL", tr |-> p]
       ELSE IF p.v < 1 THEN [rc |-> "ERANGE", tr |-> p]
       ELSE gated(StretchedTo(p, Peak(p, T), T))

\* the axis of a curve that follows the other one, if any
Follower(ps) ==
    {x \in Axis : \E y \in Axis :
        ps[y].total > ps[x].total /\ (ps[x].total > 0 => ps[y].total * 1000 >= ps[x].total * RATIO_MIL)}

-----------------------------------------------------------------------------
(* The daemon. *)

Plain(ps) == [x \in Axis |-> [rc |-> "none", from |-> ps[x]]]

Init ==
    /\ now \in Start /\ retargets = 0 /\ commands = 0
    /\ tr = [x \in Axis |-> init_position(now, 0, 0, 1, 1, 1)] /\ stretched = Plain(tr)

Command == commands < MaxCommands /\ commands' = commands + 1 /\ \A x \in Axis : Ref(tr[x], now).done

\* db_drivebase_drive_straight and _turn: one axis moves from its end point, the other is held
Straight(x, delta, v, a, d) ==
    /\ Command
    /\ tr' = [y \in Axis |-> init_position(now, tr[y].x1, tr[y].x1 + (IF y = x THEN delta ELSE 0), v, a, d)]
    /\ stretched' = Plain(tr') /\ UNCHANGED <<now, retargets>>

Take(ps, s) ==
    /\ tr' = [y \in Axis |-> s[y].tr]
    /\ stretched' = [y \in Axis |-> [rc |-> s[y].rc, from |-> ps[y]]]

\* the two plans of a curve, with the follower stretched to the duration of the other
Match(ps) ==
    LET match(T) == [y \in Axis |-> IF y \in Follower(ps) THEN Stretch(ps[y], T) ELSE [rc |-> "none", tr |-> ps[y]]]
    IN Take(ps, match(Max({ps[y].total : y \in Axis})))

\* db_drivebase_drive_curve: both axes are planned, the shorter one is stretched
Curve(delta, turn, v, a, d) ==
    /\ Command /\ delta # 0 /\ turn # 0
    /\ Match([y \in Axis |-> init_position(now, tr[y].x1, tr[y].x1 + (IF y = "distance" THEN delta ELSE turn), v, a, d)])
    /\ UNCHANGED <<now, retargets>>

\* db_aggregate_control_drive_forever: a new one, or a new target in flight
Forever(v, turn, a) ==
    LET to == [y \in Axis |-> IF y = "distance" THEN v ELSE turn] IN
    /\ \/ /\ Command /\ UNCHANGED retargets
          /\ tr' = [y \in Axis |-> init_forever(now, tr[y].x1, to[y], a)]
       \/ /\ \A y \in Axis : tr[y].infinite
          /\ retargets < MaxRetargets /\ retargets' = retargets + 1 /\ UNCHANGED commands
          /\ tr' = [y \in Axis |-> Retarget(tr[y], now, to[y], a)]
    /\ stretched' = Plain(tr') /\ UNCHANGED now

Tick ==
    /\ \E x \in Axis : ~Ref(tr[x], now).done
    /\ now < MaxTime /\ now' = now + 1 /\ UNCHANGED <<tr, retargets, commands, stretched>>

Next ==
    \/ Tick
    \/ \E v \in Speed, a, d \in Accel :
          \/ \E x \in Axis, delta \in Delta : Straight(x, delta, v, a, d)
          \/ \E delta \in Delta, turn \in Turn : Curve(delta, turn, v, a, d)
    \/ \E v \in Speed, s \in {-1, 1}, a \in Accel : Forever(s * v, -(s * v), a)

Spec == Init /\ [][Next]_vars

-----------------------------------------------------------------------------
TypeOK ==
    /\ now \in Nat /\ \A x \in Axis : tr[x].dir \in {-1, 0, 1} /\ tr[x].v \in Nat /\ tr[x].t0 \in 0..(Wrap - 1)
    /\ \A x \in Axis : {tr[x].ta, tr[x].tc, tr[x].td} \subseteq Nat

\* what the roundings of a profile can lose: a tick at the peak speed and a unit per segment, and
\* for a triangle what the factor and the root of triangle_peak lose of the distance
Slack(p) ==
    LET k == (2 * p.a * p.d) \div (p.a + p.d) IN
    3 * (p.v \div US_PER_S + 1) + (IF p.tc = 0 /\ ~p.infinite THEN (AbsOf(p.x1 - p.x0) + 2 * p.v) \div k ELSE 0)

\* a stretched profile has in addition the residual its gate lets pass
Tolerance(x) == Slack(tr[x]) + (IF stretched[x].rc = "ok" THEN RESIDUAL ELSE 0)

\* The reference never jumps: from one tick to the next it moves by no more than the peak speed
\* allows, at the changes of segment and at the latch of the end point too.
NoJump == now' # now => \A x \in Axis : AbsOf(Ref(tr[x], now').x - Ref(tr[x], now).x) <= Tolerance(x)

\* It stays between start and target, and its speed has their direction and at most the peak.
StaysOnPath ==
    \A x \in Axis : LET p == tr[x] IN
        (~p.infinite /\ now >= p.t0 => p.dir * (Ref(p, now).x - p.x0) \in -1..(AbsOf(p.x1 - p.x0) + Tolerance(x)))
        /\ p.dir * Ref(p, now).v \in 0..p.v

\* A new target takes over at the position the reference has, and when it is faster in the same
\* direction also at its speed, up to a unit of the rounding.
RetargetIsSmooth ==
    retargets' # retargets =>
     \A x \in Axis : LET old == Ref(tr[x], now)
                         new == Ref(tr'[x], now) IN
         /\ new.x = old.x
         /\ (old.v * tr'[x].dir > 0 /\ old.v * tr'[x].dir < tr'[x].v => AbsOf(new.v - old.v) <= tr'[x].a \div US_PER_S + 1)

\* A stretch that succeeds gives exactly the duration asked for, with the same start and target and
\* no higher speed; one that fails leaves the trajectory as it was.
StretchIsTrue ==
    \A x \in Axis : LET s == stretched[x] IN
        IF s.rc = "ok"
        THEN /\ \A y \in Axis : tr[x].total >= tr[y].total
             /\ tr[x].v <= s.from.v /\ tr[x].x0 = s.from.x0 /\ tr[x].x1 = s.from.x1 /\ tr[x].t0 = s.from.t0
             /\ AbsOf(Ref(tr[x], tr[x].t0 + tr[x].total - 1).x - tr[x].x1) <= RESIDUAL
        ELSE tr[x] = s.from

\* A stretched profile is slower.
IsSlower == \A x \in Axis : stretched[x].rc = "ok" => tr[x].v < stretched[x].from.v

\* The gate of a stretch refuses a profile only when its last sample is too far from the target.
GateIsTrue ==
    \A x \in Axis : stretched[x].rc = "ERANGE" =>
        LET p == stretched[x].from
            T == Max({tr[y].total : y \in Axis})
            q == StretchedTo(p, Peak(p, T), T)
        IN q.ta + q.td >= T \/ AbsOf(Ref(q, p.t0 + T - 1).x - p.x1) > RESIDUAL
=============================================================================
