---------------------------- MODULE DriveMotion -----------------------------
(***************************************************************************)
(* The motion layer of the drive base daemon: drivebase_drivebase.c over   *)
(* two aggregate controllers (drivebase_aggregate.c), one for distance and *)
(* one for heading, each with a PID (drivebase_control.c).  Everything     *)
(* here runs on the daemon's real-time thread: a command of the ring or    *)
(* one tick of 2 ms is a step.                                             *)
(*                                                                         *)
(* Positions, speeds and duties are abstracted to what the control flow    *)
(* asks of them: whether the reference of an axis has reached its end,     *)
(* whether the axis is within tolerance, and whether its output is         *)
(* saturated against its error.  The mechanics choose these in every tick. *)
(***************************************************************************)
EXTENDS Naturals, FiniteSets

CONSTANTS DoneWindow,   \* done_window_ms, in ticks
          SmartHold,    \* smart_passive_hold_ms, in ticks
          MaxCommands,  \* commands the ring delivers in a behaviour
          Completions,  \* the on_completion values commands carry
          Verbs         \* the commands of the run

BoundsAssumption ==
    /\ DoneWindow \in Nat \ {0} /\ SmartHold \in Nat \ {0}
    /\ MaxCommands \in Nat
CompletionsAssumption ==
    Completions \subseteq {"coast", "brake", "hold", "continue",
                           "coast_smart", "brake_smart"}

VARIABLES
    axis,      \* control[DISTANCE], control[HEADING]
    command,   \* active_command
    done,      \* db->done as the next publication shows it
    motors,    \* how both H-bridges are driven: "coast", "brake", "duty"
    decided,   \* the actuation each axis asked for in the last tick
    fault,     \* drivebase_motor_reclaim_pending() # 0
    gyro,      \* requested, latched mode, origin_valid, and the mode under
               \* which the heading PID was last reset
    imu,       \* attached, calibrated and fresh
    calm,      \* the mechanics follow their references from now on
    issued     \* commands so far

vars == <<axis, command, done, motors, decided, fault, gyro, imu, calm, issued>>

Axes == {"distance", "heading"}
Passive == {"coast", "brake"}
Smart == {"coast_smart", "brake_smart"}

\* The passive actuation a completion ends in.
Degraded(c) == IF c \in {"coast", "coast_smart"} THEN "coast" ELSE "brake"

(***************************************************************************)
(* One aggregate controller.  `ended' is the trajectory's ref.done,        *)
(* `latch' the PID's latched actuation ("no" without a latch).             *)
(***************************************************************************)

PidReset(c) ==
    [c EXCEPT !.latch = "no", !.done = FALSE, !.streak = 0, !.smart = 0]

AxisReset(c) ==
    PidReset([c EXCEPT !.active = FALSE, !.endpoint = FALSE,
                       !.completion = "coast", !.paused = FALSE])

DrivePosition(c, completion) ==
    PidReset([c EXCEPT !.active = TRUE, !.infinite = FALSE, !.ended = FALSE,
                       !.endpoint = TRUE, !.completion = completion,
                       !.paused = FALSE])

\* A stream of re-issued commands keeps the PID and the trajectory's phase.
DriveForever(c) ==
    IF c.active /\ c.infinite
    THEN [c EXCEPT !.endpoint = FALSE, !.completion = "coast"]
    ELSE PidReset([c EXCEPT !.active = TRUE, !.infinite = TRUE,
                            !.ended = FALSE, !.endpoint = FALSE,
                            !.completion = "coast", !.paused = FALSE])

\* A zero-length trajectory: its reference has ended from the start.
DriveHold(c) ==
    PidReset([c EXCEPT !.active = TRUE, !.infinite = FALSE, !.ended = TRUE,
                       !.endpoint = FALSE, !.completion = "hold",
                       !.paused = FALSE])

\* Mutant: a pause survives the stop.
AxisStopPaused(c, completion) ==
    IF completion \in Passive \cup Smart
    THEN [PidReset([c EXCEPT !.active = FALSE, !.endpoint = FALSE,
                             !.completion = completion])
            EXCEPT !.latch = Degraded(completion), !.done = TRUE]
    ELSE DriveHold(c)

AxisStop(c, completion) ==
    IF completion \in Passive \cup Smart
    THEN [PidReset([c EXCEPT !.active = FALSE, !.endpoint = FALSE,
                             !.completion = completion, !.paused = FALSE])
            EXCEPT !.latch = Degraded(completion), !.done = TRUE]
    ELSE DriveHold(c)

\* db_pid_update: the done window and what a completion asks for.
PidStreak(c, ended, within) ==
    IF ended /\ within
    THEN LET s == IF c.streak = DoneWindow THEN c.streak ELSE c.streak + 1
         IN  [c EXCEPT !.streak = s, !.done = @ \/ s = DoneWindow]
    ELSE [c EXCEPT !.streak = 0, !.done = FALSE]

PidComplete(c) ==
    LET held == IF c.smart < SmartHold THEN c.smart + 1 ELSE c.smart IN
    IF ~c.done THEN c
    ELSE CASE c.completion \in Passive -> [c EXCEPT !.latch = c.completion]
           [] c.completion \in Smart ->
                IF held = SmartHold
                THEN [c EXCEPT !.smart = held, !.latch = Degraded(c.completion)]
                ELSE [c EXCEPT !.smart = held]
           [] OTHER -> c

\* db_aggregate_control_update.  A paused reference stands still.
AxisUpdate(c, ended, within, windup) ==
    IF ~c.active /\ c.latch = "no" THEN [c EXCEPT !.paused = FALSE]
    ELSE IF c.latch # "no"
         THEN [c EXCEPT !.ended = IF c.active THEN ended ELSE @,
                        !.paused = FALSE]
         ELSE LET p == PidComplete(PidStreak([c EXCEPT !.ended = ended],
                                             ended, within))
              IN  [p EXCEPT !.paused = windup /\ p.latch = "no"]

\* What the update reports to the drive base: COAST when nothing is staged.
Actuation(c) == IF ~c.active /\ c.latch = "no" THEN "coast"
                ELSE IF c.latch # "no" THEN c.latch ELSE "drive"

AxisDone(c) == c.latch # "no" \/ c.done

(***************************************************************************)
(* The gyro as the source of the heading.                                  *)
(***************************************************************************)

Capturable == imu /\ gyro.requested = "3d"

\* db_drivebase_capture_start_heading(.., do_latch = TRUE); `fresh' says
\* that the command also resets the heading PID.
Latched(g, fresh) ==
    LET mode == IF Capturable THEN g.requested ELSE "none" IN
    [g EXCEPT !.latched = mode,
              !.origin = @ \/ mode = "3d",
              !.pid = IF fresh THEN mode ELSE @]

Origin(g) == [g EXCEPT !.origin = Capturable]

----------------------------------------------------------------------------

TypeOK ==
    /\ axis \in [Axes -> [active : BOOLEAN, infinite : BOOLEAN,
                          ended : BOOLEAN, endpoint : BOOLEAN,
                          completion : Completions \cup {"coast", "brake", "hold"},
                          paused : BOOLEAN, latch : Passive \cup {"no"},
                          done : BOOLEAN, streak : 0..DoneWindow,
                          smart : 0..SmartHold]]
    /\ command \in {"none", "straight", "turn", "curve", "forever", "stop"}
    /\ motors \in Passive \cup {"duty"}
    /\ decided \in [Axes -> Passive \cup {"drive"}]
    /\ gyro \in [requested : {"none", "3d"}, latched : {"none", "3d"},
                 origin : BOOLEAN, pid : {"none", "3d"}]
    /\ done \in BOOLEAN /\ fault \in BOOLEAN /\ imu \in BOOLEAN
    /\ calm \in BOOLEAN /\ issued \in 0..MaxCommands

Idle ==
    [active |-> FALSE, infinite |-> FALSE, ended |-> FALSE, endpoint |-> FALSE,
     completion |-> "coast", paused |-> FALSE, latch |-> "no",
     done |-> FALSE, streak |-> 0, smart |-> 0]

\* db_drivebase_init, db_drivebase_attach_imu and the daemon's first reset.
Init ==
    /\ axis = [a \in Axes |-> Idle]
    /\ command = "none" /\ done = TRUE
    /\ motors = "coast"
    /\ decided = [a \in Axes |-> "drive"]
    /\ fault = FALSE
    /\ gyro = [requested |-> "none", latched |-> "none",
               origin |-> FALSE, pid |-> "none"]
    /\ imu \in BOOLEAN
    /\ calm = FALSE /\ issued = 0

\* A command of the ring; its effects on motors come with the next tick.
Issue(verb) ==
    /\ verb \in Verbs
    /\ issued < MaxCommands
    /\ issued' = issued + 1
    /\ decided' = [a \in Axes |-> "drive"]
    /\ UNCHANGED <<done, fault, imu, calm>>

\* setup_position_move: the primary axis moves, the other one holds.
Position(primary, c) ==
    /\ axis' = [a \in Axes |-> IF a = primary THEN DrivePosition(axis[a], c)
                               ELSE DriveHold(axis[a])]
    /\ gyro' = Latched(gyro, TRUE)
    /\ UNCHANGED motors

Straight ==
    /\ Issue("straight")
    /\ \E c \in Completions : Position("distance", c)
    /\ command' = "straight"

Turn ==
    /\ Issue("turn")
    /\ \E c \in Completions : Position("heading", c)
    /\ command' = "turn"

\* Both axes move; a curve without a length is forgotten, one whose radius
\* or rounding leaves one axis is the other primitive.
Curve ==
    /\ Issue("curve")
    /\ \E c \in Completions :
         /\ axis' = [a \in Axes |-> DrivePosition(axis[a], c)]
         /\ gyro' = Latched(gyro, TRUE)
    /\ command' = "curve"
    /\ UNCHANGED motors

CurveNowhere ==
    /\ Issue("curve_nowhere")
    /\ command' = "none"
    /\ UNCHANGED <<axis, gyro, motors>>

\* Only the first entry latches the source of the heading.
Forever ==
    /\ Issue("forever")
    /\ axis' = [a \in Axes |-> DriveForever(axis[a])]
    /\ gyro' = IF command = "forever" THEN gyro
               ELSE Latched(gyro, ~(axis["heading"].active /\ axis["heading"].infinite))
    /\ command' = "forever"
    /\ UNCHANGED motors

Stop ==
    /\ Issue("stop")
    /\ \E c \in Completions :
         /\ axis' = [a \in Axes |-> AxisStop(axis[a], c)]
         /\ motors' = IF c \in Passive \cup Smart THEN Degraded(c) ELSE motors
    /\ command' = "stop"
    /\ UNCHANGED gyro

SetGyro ==
    /\ Issue("set_gyro")
    /\ command = "none"       \* -EBUSY otherwise
    /\ \E mode \in {"none", "3d"} :
         /\ axis' = IF mode # gyro.requested
                    THEN [axis EXCEPT !["heading"] = AxisReset(@)] ELSE axis
         /\ gyro' = [gyro EXCEPT !.requested = mode,
                                 !.origin = mode = "3d" /\ imu]
    /\ UNCHANGED <<command, motors>>

SetOrigin ==
    /\ Issue("set_origin")
    /\ gyro' = Origin(gyro)
    /\ UNCHANGED <<axis, command, motors>>

(***************************************************************************)
(* The tick.                                                               *)
(***************************************************************************)

\* Mutant: the axes are re-armed to hold instead of being latched.
ActuateHolding(next, acts, lost) ==
    IF fault \/ lost = "drain"
    THEN axis' = next /\ motors' = "coast" /\ fault' = TRUE
    ELSE IF "brake" \in acts /\ "coast" \notin acts
    THEN /\ axis' = [a \in Axes |-> AxisStop(next[a], "hold")]
         /\ motors' = "brake"
         /\ UNCHANGED fault
    ELSE /\ axis' = next
         /\ motors' = IF lost = "duty" THEN "coast" ELSE "duty"
         /\ fault' = (lost = "duty")

\* db_drivebase_update after both PIDs have run.  `propagate' is a number
\* whose zero stands both for "nothing" and for COAST, so that only BRAKE
\* takes the branch that stops both axes.
Actuate(next, acts, lost) ==
    IF fault \/ lost = "drain"
    THEN axis' = next /\ motors' = "coast" /\ fault' = TRUE
    ELSE IF "brake" \in acts /\ "coast" \notin acts
    THEN /\ axis' = [a \in Axes |-> AxisStop(next[a], "brake")]
         /\ motors' = "brake"
         /\ UNCHANGED fault
    ELSE /\ axis' = next
         /\ motors' = IF lost = "duty" THEN "coast" ELSE "duty"
         /\ fault' = (lost = "duty")

\* What the mechanics and the motors may answer in this tick.
Ends(c, e) == /\ c.ended => e
              /\ c.infinite => ~e
              /\ c.paused => e = c.ended
              /\ calm /\ ~c.infinite /\ ~c.paused => e

Steps(a) ==
    {AxisUpdate(axis[a], e, within, windup) :
        e \in {f \in BOOLEAN : IF axis[a].active THEN Ends(axis[a], f) ELSE f = axis[a].ended},
        within \in IF calm THEN {TRUE} ELSE BOOLEAN, windup \in IF calm THEN {FALSE} ELSE BOOLEAN}
Lost == IF calm THEN {"no"} ELSE {"no", "drain", "duty"}

Tick ==
    /\ \E distance \in Steps("distance"), heading \in Steps("heading"), lost \in Lost :
         LET next == [a \in Axes |-> IF a = "distance" THEN distance ELSE heading]
             acts == {Actuation(next[a]) : a \in Axes}
         IN  /\ Actuate(next, acts, lost)
             /\ decided' = [a \in Axes |-> Actuation(next[a])]
             /\ done' = \A a \in Axes : AxisDone(next[a])
    /\ command' = IF done' THEN "none" ELSE command
    /\ UNCHANGED <<gyro, imu, calm, issued>>

\* The idle loop has reclaimed the ports and resets the drive base
\* (daemon_try_reclaim, db_drivebase_reset).
Recover ==
    /\ fault
    /\ fault' = FALSE
    /\ axis' = [a \in Axes |-> AxisReset(axis[a])]
    /\ command' = "none" /\ done' = TRUE
    /\ decided' = [a \in Axes |-> "drive"]
    /\ gyro' = Origin(gyro)
    /\ UNCHANGED <<motors, imu, calm, issued>>

\* The IMU goes stale or loses its calibration, and comes back.
ImuChanges ==
    /\ ~calm
    /\ imu' = ~imu
    /\ UNCHANGED <<axis, command, done, motors, decided, fault, gyro, calm, issued>>

\* Nothing disturbs the robot any more.
Settle ==
    /\ ~calm /\ calm' = TRUE
    /\ UNCHANGED <<axis, command, done, motors, decided, fault, gyro, imu, issued>>

Next == \/ Straight \/ Turn \/ Curve \/ CurveNowhere \/ Forever \/ Stop
        \/ SetGyro \/ SetOrigin \/ Tick \/ Recover \/ ImuChanges \/ Settle

Spec == Init /\ [][Next]_vars

FairSpec == Spec /\ WF_vars(Tick) /\ WF_vars(Recover) /\ WF_vars(Settle)

----------------------------------------------------------------------------
(* Properties *)

\* While drive-forever is the active command both axes follow an infinite
\* reference and no latch of an earlier completion or stop keeps one of them
\* passive (db_aggregate_control_drive_forever, db_pid_pause).
ForeverDrives ==
    command = "forever" =>
      \A a \in Axes : axis[a].active /\ axis[a].infinite /\ axis[a].latch = "no"

\* When one axis asks for BRAKE, and none for COAST, both H-bridges brake and
\* both axes stay passive: the axis that did not finish must not go on driving
\* against it (step 5 of db_drivebase_update).
BrakeStopsBoth ==
    /\ \E a \in Axes : decided[a] = "brake"
    /\ \A a \in Axes : decided[a] # "coast"
    /\ ~fault
    => motors = "brake" /\ \A a \in Axes : axis[a].latch = "brake"

\* When one axis asks for COAST both motors coast, as the comment of step 5
\* of db_drivebase_update promises.  Refuted by the code.
CoastStopsBoth ==
    (\E a \in Axes : decided[a] = "coast") /\ ~fault => motors = "coast"

\* Braked motors are set free only by a command or by a lost port.
StaysBraked ==
    /\ motors = "brake" /\ \A a \in Axes : axis[a].latch = "brake"
    /\ issued' = issued /\ ~fault'
    => motors' = "brake"

\* A reference is paused only while its axis follows it: a pause left over
\* would freeze the next command at its start (aggregate_reset_pause).
PausedFollows ==
    \A a \in Axes : axis[a].paused => axis[a].active /\ axis[a].latch = "no"

\* A move continues from a recorded endpoint only if that is the end of a
\* finite move nobody has stopped, replaced or re-timed since.
EndpointIsCurrent ==
    \A a \in Axes : axis[a].endpoint => axis[a].active /\ ~axis[a].infinite

\* The heading PID runs on the source of the heading it was reset for: the
\* latched mode does not change under a loaded integrator.
SourceSteady ==
    axis["heading"].active => gyro.latched = gyro.pid

CompletesDue == command \in {"straight", "turn", "curve", "stop"}
CompletesMet == command \in {"none", "forever"}

\* Every move that has an end, and every stop, is reported as done, or a
\* later command replaces it, once nothing disturbs the robot any more.
Completes == CompletesDue ~> CompletesMet

SmartExpiresDue(a) == axis[a].active /\ axis[a].completion \in Smart
SmartExpiresMet(a) == ~axis[a].active \/ axis[a].latch # "no" \/ axis[a].completion \notin Smart

\* A SMART completion holds for a while and then lets go of the axis.
SmartExpires == \A a \in Axes : SmartExpiresDue(a) ~> SmartExpiresMet(a)
=============================================================================
