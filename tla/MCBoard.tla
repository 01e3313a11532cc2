------------------------------ MODULE MCBoard -------------------------------
(***************************************************************************)
(* The machines of the drive base, the line tracer, the ports and the      *)
(* board's drivers, instantiated for TLC.  A behaviour is of one machine,  *)
(* which the initial state chooses among Parts: the machines do not        *)
(* interact here, they share the slots v1, v2, ... for their variables and *)
(* one model-checking run.  Names that end in _live are smaller instances, *)
(* for liveness.                                                           *)
(***************************************************************************)
EXTENDS Integers, TLAPS

CONSTANTS Parts,  \* the machines of a run
          Nil, absent, u1, u2, left, right, h1, h2, m1, m2, b1, b2, e1, e2, g1, g2, q1, q2, f1,
          f2, r1, r2, r3, short, long, other  \* model values

VARIABLES part,  \* the machine this behaviour is of
          v1, v2, v3, v4, v5, v6, v7, v8, v9, v10, v11, v12, v13, v14, v15, v16, v17, v18, v19,
          v20, v21, v22  \* its state, and 0 in the slots it does not need

\* Lines of a calibration file.
CalLines == {"schema", "other schema", "fsr", "other fsr", "bias", "bad bias", "informational"}

\* Devices as PortScan writes them: what ties their two identification pins.
NoDevice == [kind |-> "plain", id1 |-> "open", id2 |-> "open"]
UartDevice == [kind |-> "plain", id1 |-> "open", id2 |-> "gnd"]
AllDevices == {NoDevice, UartDevice}
              \cup [kind : {"plain"}, id1 : {"gnd", "vcc", "pd"}, id2 : {"gnd", "vcc", "pd"}]
              \cup [kind : {"touch", "tpoint", "explod", "3_part"}, id1 : {"open"}, id2 : {"open"}]

\* Programs to save: two under one id, of different lengths.
BlocksOf(p) == IF p = long THEN 3 ELSE IF p = other THEN 2 ELSE 1
IdOf(p) == IF p = other THEN 2 ELSE 1

Machines == INSTANCE MachineProofs WITH
    Users <- {u1, u2}, Capacity <- 2, Batch <- 3, StallLimit <- 2, MaxCmd <- 1, MaxStop <- 2,
    MaxAttach <- 1, User <- {u1}, Preempt <- {"user"}, MaxPub <- 1, MaxTick <- 1, MaxLives <- 2,
    MaxResets <- 1,
    Sides <- {left, right}, MaxTask <- 2, MaxPull <- 2, Hasty <- FALSE,
    DoneWindow <- 1, SmartHold <- 1, MaxCommands <- 2, Completions <- {"coast", "brake", "hold",
    "continue", "coast_smart", "brake_smart"}, Verbs <- {"straight", "turn", "curve",
    "curve_nowhere", "forever", "stop"},
    Shells <- {h1, h2}, Tracers <- {m1, m2}, ShellCommands <- 4, MaxTicks <- 2, Buffers <- {b1,
    b2}, Tasks <- {e1, e2}, MaxVerbs <- 6, LapCapacity <- 2, NoBuffer <- Nil, NoTask <- Nil,
    Timeout <- 3, Pause <- 2, NSamples <- 2, MaxPlugs <- 5, Kinds <- {"sdp", "dcp"},
    Programs <- {short, long, other}, Size <- BlocksOf, Id <- IdOf, None <- Nil,
    Absent <- absent,
    ring <- v1, epoch <- v2, attached <- v3, attaches <- v4, pwm <- v5, users <- v6,
    daemon <- v7, rt <- v8, moving <- v9, seen <- v10, misses <- v11, cmds <- v12,
    returned <- v13, doomed <- v14, attachedTo <- v1, status <- v2, status_seq <- v3,
    state_db <- v4, state_active <- v5, jitter <- v6, jitter_reset_pending <- v7, pubs <- v8,
    ticks <- v9, lives <- v10, resets <- v11, dm <- v12, rt_since <- v13, rd <- v14,
    state <- v1, running <- v2, posts <- v3, tasks <- v4, created <- v5, caller <- v6,
    clean <- v7, initialised <- v8, shimAttached <- v9, rtThread <- v10, rtRun <- v11,
    frozen <- v12, rtIdle <- v13, pending <- v14, todo <- v15, stale <- v16, out <- v17,
    pulls <- v18, wheelPwm <- v19,
    axis <- v1, command <- v2, done <- v3, motors <- v4, decided <- v5, fault <- v6, gyro <- v7,
    imu <- v8, calm <- v9, issued <- v10,
    pc <- v1, flags <- v2, was <- v3, params <- v4, drive <- v5, record <- v6, cli <- v7,
    stat <- v8, wanted <- v9, touched <- v10, shellIssued <- v11, announced <- v1,
    lapDaemon <- v2, cap <- v3, hint <- v4, heap <- v5, task <- v6, held <- v7, lapPlace <- v8,
    crossed <- v9, verbs <- v10,
    vbus <- v1, plugs <- v2, exti <- v3, prev <- v4, mode <- v5, iset <- v6, bcd <- v7,
    result <- v8, count <- v9, pause <- v10, chg <- v11, chargeStatus <- v12, led <- v13,
    unsure <- v14,
    memory <- v1, step <- v2, file <- v3, tmp <- v4, pos <- v5, synced <- v6, saveResult <- v7

Gyro == INSTANCE DriveMotion WITH
    DoneWindow <- 1, SmartHold <- 1, MaxCommands <- 3, Completions <- {"brake", "hold"},
    Verbs <- {"turn", "forever", "stop", "set_gyro", "set_origin"},
    axis <- v1, command <- v2, done <- v3, motors <- v4, decided <- v5, fault <- v6, gyro <- v7,
    imu <- v8, calm <- v9, issued <- v10

Wheel == INSTANCE DriveWheel WITH
    Positions <- {0, 2, 10, -9}, Glitch <- 6, Agree <- 1, RebaseRun <- 3, RingDepth <- 3,
    MinWindow <- 2, MinMove <- 1, HystLow <- 1, HystHigh <- 2, StallSpeed <- 1,
    StallWindow <- 3, MaxTime <- 4, Enter <- 3, Exit <- 2, Deadband <- 1, Floor <- 2,
    MaxSpeed <- 3, MaxError <- 2, MaxDuty <- 3,
    now <- v1, x <- v2, candidate <- v3, run <- v4, ring <- v5, speed <- v6, snapped <- v7,
    streak <- v8, stalled <- v9, duty <- v10, torque <- v11, reclaim <- v12, raw <- v13,
    slowSince <- v14, silent <- v15, held <- v1, sign <- v2, consumed <- v3, pre <- v4,
    out <- v5, vref <- v6, error <- v7, over <- v8

Bias == INSTANCE DriveImu WITH
    Fast <- 4, Threshold <- 2, Window <- 2, Gate <- 3, Blend <- 2, Fine <- 1, Batch <- 2,
    Wrap <- 8, ZeroRate <- 1, Rates <- {0, 1, 4}, Gaps <- {1, 5}, Files <- {<<>>}, Scales <- {1,
    2}, FsrWhileClosed <- TRUE, Turn <- 64, MaxSamples <- 3, MaxOther <- 3,
    im <- v1, fsr <- v2, clock <- v3, fifo <- v4, seen <- v5, base <- v6, samples <- v7,
    others <- v8

Cal == INSTANCE DriveImu WITH
    Fast <- 4, Threshold <- 2, Window <- 2, Gate <- 3, Blend <- 2, Fine <- 1, Batch <- 2,
    Wrap <- 8, ZeroRate <- 1, Rates <- {0, 1}, Gaps <- {1}, Files <- UNION {[1 .. n -> CalLines]
    : n \in 0 .. 3}, Scales <- {2}, FsrWhileClosed <- FALSE, Turn <- 64, MaxSamples <- 2,
    MaxOther <- 2,
    im <- v1, fsr <- v2, clock <- v3, fifo <- v4, seen <- v5, base <- v6, samples <- v7,
    others <- v8

Yaw == INSTANCE DriveImu WITH
    Fast <- 4, Threshold <- 2, Window <- 2, Gate <- 3, Blend <- 2, Fine <- 1, Batch <- 2,
    Wrap <- 8, ZeroRate <- 0, Rates <- {-4, 0, 4}, Gaps <- {0, 2}, Files <- {<<>>},
    Scales <- {1, 2}, FsrWhileClosed <- FALSE, Turn <- 80, MaxSamples <- 4, MaxOther <- 2,
    im <- v1, fsr <- v2, clock <- v3, fifo <- v4, seen <- v5, base <- v6, samples <- v7,
    others <- v8

Path == INSTANCE DriveTrajectory WITH
    US_PER_S <- 8, RESIDUAL <- 4, PROBE <- 2, RATIO_MIL <- 1500, Wrap <- 1000, Delta <- {-20, 0,
    1, 7, 40}, Turn <- {-3, 8, 20}, Speed <- {0, 5, 12}, Accel <- {0, 4, 9, 40}, Start <- {0},
    MaxTime <- 60, MaxCommands <- 1, MaxRetargets <- 0,
    tr <- v1, now <- v2, commands <- v3, retargets <- v4, stretched <- v5

Endless == INSTANCE DriveTrajectory WITH
    US_PER_S <- 8, RESIDUAL <- 4, PROBE <- 2, RATIO_MIL <- 1500, Wrap <- 1000, Delta <- {},
    Turn <- {}, Speed <- {0, 5, 12}, Accel <- {4, 20}, Start <- {24}, MaxTime <- 34,
    MaxCommands <- 1, MaxRetargets <- 2,
    tr <- v1, now <- v2, commands <- v3, retargets <- v4, stretched <- v5

Capture == INSTANCE CapturePipe WITH
    Writers <- {g1, g2}, Careful <- {g1}, Header <- 1, Total <- 2, Ring <- 1, BufLen <- 2,
    NoWriter <- Nil,
    dev <- v1, ring <- v2, sem <- v3, wr <- v4, rd <- v5, got <- v6, from <- v7

Engine == INSTANCE LumpEngine WITH
    Callers <- {q1, q2}, Modes <- {0}, MissLimit <- 1, Slices <- 0, MaxSess <- 1,
    MaxStalls <- 1, LateAttach <- FALSE, None <- Nil, MaxModes <- 2, DevModes <- {1, 2, 3},
    MaxErr <- 2, MaxStep <- 2, MaxBad <- 2, MaxQuits <- 1,
    k <- v1, sem <- v2, handoff <- v3, reg <- v4, stall <- v5, beat <- v6, sess <- v7,
    synced <- v8, current <- v9, sel <- v10, snd <- v11, job <- v12, att <- v13, inCb <- v14,
    api <- v15, told <- v16, dev <- v17, got <- v18, device <- v1, line <- v2, st <- v3,
    baud <- v4, rate <- v5, flags <- v6, mode <- v7, ext <- v8, errs <- v9, info <- v10,
    step <- v11, bad <- v12, quits <- v13

Claims == INSTANCE SensorClass WITH
    Ports <- {0}, Types <- {"medium"}, Fds <- {f1, f2}, MaxSess <- 1, None <- Nil,
    bound <- v1, bgen <- v2, claim <- v3, bsess <- v4, port <- v5, sess <- v6, cb <- v7,
    fd <- v8, topic <- v9, out <- v10

Latest == INSTANCE SensorClass WITH
    Ports <- {0}, Types <- {"medium"}, Fds <- {f1}, MaxSess <- 2, None <- Nil,
    bound <- v1, bgen <- v2, claim <- v3, bsess <- v4, port <- v5, sess <- v6, cb <- v7,
    fd <- v8, topic <- v9, out <- v10

Binding == INSTANCE SensorClass WITH
    Ports <- {0, 1, 2}, Types <- {"color", "other"}, Fds <- {}, MaxSess <- 1, None <- Nil,
    bound <- v1, bgen <- v2, claim <- v3, bsess <- v4, port <- v5, sess <- v6, cb <- v7,
    fd <- v8, topic <- v9, out <- v10

Scan == INSTANCE PortScan WITH
    Devices <- AllDevices, Match <- 2, DisconnectK <- 2, Threads <- {}, Timeouts <- FALSE,
    CbFails <- TRUE, MaxSwaps <- 1, MaxEvents <- 2,
    dev <- v1, swaps <- v2, seen <- v3, clean <- v4, pins <- v5, sc <- v6, nones <- v7,
    conf <- v8, events <- v9, ok <- v10, cb <- v11, sem <- v12, wt <- v13, handle <- v14

Receive == INSTANCE LumpUart WITH
    Ring <- 3, PollTicks <- 2, ByteTicks <- 3, FrameMin <- 4, CharTicks <- 2, MaxRates <- 2,
    MaxBytes <- 3, Timeouts <- {0, 3}, MaxLen <- 0, Dead <- FALSE, MaxTime <- 4,
    opened <- v1, baud <- v2, ring <- v3, rx_head <- v4, rx_tail <- v5, ore_count <- v6,
    rdr <- v7, n <- v8, clock <- v9, op <- v10, got <- v11, mark <- v12

DeadLine == INSTANCE LumpUart WITH
    Ring <- 3, PollTicks <- 2, ByteTicks <- 3, FrameMin <- 4, CharTicks <- 2, MaxRates <- 2,
    MaxBytes <- 0, Timeouts <- {}, MaxLen <- 4, Dead <- TRUE, MaxTime <- 24,
    opened <- v1, baud <- v2, ring <- v3, rx_head <- v4, rx_tail <- v5, ore_count <- v6,
    rdr <- v7, n <- v8, clock <- v9, op <- v10, got <- v11, mark <- v12

Transmit == INSTANCE LumpUart WITH
    Ring <- 3, PollTicks <- 2, ByteTicks <- 3, FrameMin <- 4, CharTicks <- 2, MaxRates <- 2,
    MaxBytes <- 0, Timeouts <- {}, MaxLen <- 4, Dead <- FALSE, MaxTime <- 24,
    opened <- v1, baud <- v2, ring <- v3, rx_head <- v4, rx_tail <- v5, ore_count <- v6,
    rdr <- v7, n <- v8, clock <- v9, op <- v10, got <- v11, mark <- v12

Imu == INSTANCE ImuSensor WITH
    Periods <- {149, 151, 1200, 2403, 19230, 79999, 80000}, Rates <- {7}, Ranges <- {1, 2},
    MaxTicks <- 2, MaxOps <- 4,
    chip <- v1, drv <- v2, asked <- v3, mixed <- v4, ts <- v5, work <- v6, wk <- v7,
    stopped <- v8, pub <- v9, ops <- v10

Flash == INSTANCE NorFlash WITH
    PagesPerSector <- 2, ReservedSectors <- 1, FsSectors <- 3, Slow <- TRUE, MaxResets <- 2,
    MaxOps <- 2,
    flash <- v1, busy <- v2, lock <- v3, tk <- v4, boot <- v5, at <- v6, resets <- v7, ops <- v8

Reading == INSTANCE NorFlash WITH
    PagesPerSector <- 2, ReservedSectors <- 1, FsSectors <- 3, Slow <- FALSE, MaxResets <- 0,
    MaxOps <- 3,
    flash <- v1, busy <- v2, lock <- v3, tk <- v4, boot <- v5, at <- v6, resets <- v7, ops <- v8

Button == INSTANCE BtButton WITH
    None <- Nil, BTBTN_DEBOUNCE_SAMPLES <- 5, BTBTN_NPOLLWAITERS <- 2, Reader <- {r1},
    MaxChanges <- 4,
    pressed <- v1, pending <- v2, pending_count <- v3, fresh <- v4, fds <- v5, openrefs <- v6,
    run <- v7, changes <- v8, reader <- v9

Buttons == INSTANCE BtButton WITH
    None <- Nil, BTBTN_DEBOUNCE_SAMPLES <- 5, BTBTN_NPOLLWAITERS <- 2, Reader <- {r1, r2, r3},
    MaxChanges <- 2,
    pressed <- v1, pending <- v2, pending_count <- v3, fresh <- v4, fds <- v5, openrefs <- v6,
    run <- v7, changes <- v8, reader <- v9

DeviceL == INSTANCE DriveDevice WITH
    Users <- {u1}, Capacity <- 2, Batch <- 3, StallLimit <- 2, MaxCmd <- 1, MaxStop <- 1,
    MaxAttach <- 1, User <- {u1}, Preempt <- {"user", "daemon"}, MaxPub <- 1, MaxTick <- 0,
    MaxLives <- 1, MaxResets <- 0,
    ring <- v1, epoch <- v2, attached <- v3, attaches <- v4, pwm <- v5, users <- v6,
    daemon <- v7, rt <- v8, moving <- v9, seen <- v10, misses <- v11, cmds <- v12,
    returned <- v13, doomed <- v14, attachedTo <- v1, status <- v2, status_seq <- v3,
    state_db <- v4, state_active <- v5, jitter <- v6, jitter_reset_pending <- v7, pubs <- v8,
    ticks <- v9, lives <- v10, resets <- v11, dm <- v12, rt_since <- v13, rd <- v14

DriveL == INSTANCE DriveDaemon WITH
    Sides <- {left, right}, MaxTask <- 1, MaxPull <- 1, Hasty <- FALSE,
    state <- v1, running <- v2, posts <- v3, tasks <- v4, created <- v5, caller <- v6,
    clean <- v7, initialised <- v8, attached <- v9, rt <- v10, rtRun <- v11, frozen <- v12,
    rtIdle <- v13, pending <- v14, todo <- v15, stale <- v16, out <- v17, pulls <- v18,
    pwm <- v19

MotionL == INSTANCE DriveMotion WITH
    DoneWindow <- 1, SmartHold <- 1, MaxCommands <- 1, Completions <- {"coast", "brake_smart"},
    Verbs <- {"straight", "forever", "stop"},
    axis <- v1, command <- v2, done <- v3, motors <- v4, decided <- v5, fault <- v6, gyro <- v7,
    imu <- v8, calm <- v9, issued <- v10

LineL == INSTANCE LineTrace WITH
    Shells <- {h1, h2}, Tracers <- {m1, m2}, MaxCommands <- 3, MaxTicks <- 1, Buffers <- {b1,
    b2}, Tasks <- {e1, e2}, MaxVerbs <- 6, Capacity <- 2, NoBuffer <- Nil, NoTask <- Nil,
    pc <- v1, flags <- v2, was <- v3, params <- v4, drive <- v5, record <- v6, cli <- v7,
    stat <- v8, wanted <- v9, touched <- v10, issued <- v11, announced <- v1, daemon <- v2,
    cap <- v3, hint <- v4, heap <- v5, task <- v6, held <- v7, place <- v8, crossed <- v9,
    verbs <- v10

CaptureL == INSTANCE CapturePipe WITH
    Writers <- {g1}, Careful <- {g1}, Header <- 1, Total <- 3, Ring <- 2, BufLen <- 2,
    NoWriter <- Nil,
    dev <- v1, ring <- v2, sem <- v3, wr <- v4, rd <- v5, got <- v6, from <- v7

EngineL == INSTANCE LumpEngine WITH
    Callers <- {q1}, Modes <- {0}, MissLimit <- 0, Slices <- 0, MaxSess <- 1, MaxStalls <- 0,
    LateAttach <- TRUE, None <- Nil, MaxModes <- 1, DevModes <- {1}, MaxErr <- 1, MaxStep <- 1,
    MaxBad <- 2, MaxQuits <- 1,
    k <- v1, sem <- v2, handoff <- v3, reg <- v4, stall <- v5, beat <- v6, sess <- v7,
    synced <- v8, current <- v9, sel <- v10, snd <- v11, job <- v12, att <- v13, inCb <- v14,
    api <- v15, told <- v16, dev <- v17, got <- v18, device <- v1, line <- v2, st <- v3,
    baud <- v4, rate <- v5, flags <- v6, mode <- v7, ext <- v8, errs <- v9, info <- v10,
    step <- v11, bad <- v12, quits <- v13

ChargeL == INSTANCE Charger WITH
    Timeout <- 2, Pause <- 1, NSamples <- 1, MaxPlugs <- 2, Kinds <- {"dcp"},
    vbus <- v1, plugs <- v2, exti <- v3, prev <- v4, mode <- v5, iset <- v6, bcd <- v7,
    result <- v8, count <- v9, pause <- v10, chg <- v11, status <- v12, led <- v13,
    unsure <- v14

ScanL == INSTANCE PortScan WITH
    Devices <- {NoDevice, UartDevice}, Match <- 1, DisconnectK <- 1, Threads <- {},
    Timeouts <- FALSE, CbFails <- TRUE, MaxSwaps <- 1, MaxEvents <- 2,
    dev <- v1, swaps <- v2, seen <- v3, clean <- v4, pins <- v5, sc <- v6, nones <- v7,
    conf <- v8, events <- v9, ok <- v10, cb <- v11, sem <- v12, wt <- v13, handle <- v14

WaitL == INSTANCE PortScan WITH
    Devices <- {NoDevice, UartDevice}, Match <- 1, DisconnectK <- 1, Threads <- {e1},
    Timeouts <- TRUE, CbFails <- FALSE, MaxSwaps <- 0, MaxEvents <- 1,
    dev <- v1, swaps <- v2, seen <- v3, clean <- v4, pins <- v5, sc <- v6, nones <- v7,
    conf <- v8, events <- v9, ok <- v10, cb <- v11, sem <- v12, wt <- v13, handle <- v14

FlashL == INSTANCE NorFlash WITH
    PagesPerSector <- 2, ReservedSectors <- 1, FsSectors <- 2, Slow <- TRUE, MaxResets <- 1,
    MaxOps <- 1,
    flash <- v1, busy <- v2, lock <- v3, tk <- v4, boot <- v5, at <- v6, resets <- v7, ops <- v8

Curve == INSTANCE DriveTrajectory WITH
    US_PER_S <- 8, RESIDUAL <- 4, PROBE <- 2, RATIO_MIL <- 1500, Wrap <- 1000, Delta <- {40},
    Turn <- {8}, Speed <- {12}, Accel <- {9}, Start <- {200}, MaxTime <- 290, MaxCommands <- 1,
    MaxRetargets <- 0,
    tr <- v1, now <- v2, commands <- v3, retargets <- v4, stretched <- v5

ASSUME Instances ==
    Machines!Ring!RingAssumption /\ Machines!Ring!DriveStatusAssumption /\
    Machines!Daemon!DaemonAssumption /\ Machines!Motion!BoundsAssumption /\
    Machines!Motion!CompletionsAssumption /\ Gyro!BoundsAssumption /\ Gyro!CompletionsAssumption
    /\ Wheel!ThresholdsAssumption /\ Wheel!LimitsAssumption /\ Bias!DriveImuAssumption /\
    Cal!DriveImuAssumption /\ Yaw!DriveImuAssumption /\ Path!TrajectoryAssumption /\
    Endless!TrajectoryAssumption /\ Machines!Line!BoundsAssumption /\
    Machines!Line!LapBoundsAssumption /\ Capture!SizesAssumption /\ Engine!LumpEngineAssumption
    /\ Engine!LumpSyncAssumption /\ Claims!SensorClassAssumption /\ Latest!SensorClassAssumption
    /\ Binding!SensorClassAssumption /\ Scan!PortScanAssumption /\ Receive!LumpUartAssumption /\
    DeadLine!LumpUartAssumption /\ Transmit!LumpUartAssumption /\
    Machines!Charge!ChargerAssumption /\ Imu!ImuSensorAssumption /\ Flash!NorFlashAssumption /\
    Reading!NorFlashAssumption /\ Button!BtButtonAssumption /\ Buttons!BtButtonAssumption /\
    Machines!SlotAssumption /\ DeviceL!RingAssumption /\ DeviceL!DriveStatusAssumption /\
    DriveL!DaemonAssumption /\ MotionL!BoundsAssumption /\ MotionL!CompletionsAssumption /\
    LineL!BoundsAssumption /\ LineL!LapBoundsAssumption /\ CaptureL!SizesAssumption /\
    EngineL!LumpEngineAssumption /\ EngineL!LumpSyncAssumption /\ ChargeL!ChargerAssumption /\
    ScanL!PortScanAssumption /\ WaitL!PortScanAssumption /\ FlashL!NorFlashAssumption /\
    Curve!TrajectoryAssumption

\* Un is what a machine with n variables does not have, Zn that it is unused.
U22 == part
Zero22 == TRUE
U21 == <<v22, U22>>
Zero21 == v22 = 0 /\ Zero22
U20 == <<v21, U21>>
Zero20 == v21 = 0 /\ Zero21
U19 == <<v20, U20>>
Zero19 == v20 = 0 /\ Zero20
U18 == <<v19, U19>>
Zero18 == v19 = 0 /\ Zero19
U17 == <<v18, U18>>
Zero17 == v18 = 0 /\ Zero18
U16 == <<v17, U17>>
Zero16 == v17 = 0 /\ Zero17
U15 == <<v16, U16>>
Zero15 == v16 = 0 /\ Zero16
U14 == <<v15, U15>>
Zero14 == v15 = 0 /\ Zero15
U13 == <<v14, U14>>
Zero13 == v14 = 0 /\ Zero14
U12 == <<v13, U13>>
Zero12 == v13 = 0 /\ Zero13
U11 == <<v12, U12>>
Zero11 == v12 = 0 /\ Zero12
U10 == <<v11, U11>>
Zero10 == v11 = 0 /\ Zero11
U9 == <<v10, U10>>
Zero9 == v10 = 0 /\ Zero10
U8 == <<v9, U9>>
Zero8 == v9 = 0 /\ Zero9
U7 == <<v8, U8>>
Zero7 == v8 = 0 /\ Zero8
U6 == <<v7, U7>>
Zero6 == v7 = 0 /\ Zero7
U5 == <<v6, U6>>
Zero5 == v6 = 0 /\ Zero6

all == <<part, v1, v2, v3, v4, v5, v6, v7, v8, v9, v10, v11, v12, v13, v14, v15, v16, v17, v18, v19, v20, v21, v22>>

Init ==
    /\ part \in Parts
    /\ \/ part = "ring"         /\ Machines!Ring!Init /\ Zero14
       \/ part = "status"       /\ Machines!Ring!StatusInit /\ Zero14
       \/ part = "drive"        /\ Machines!Daemon!Init /\ Zero19
       \/ part = "motion"       /\ Machines!Motion!Init /\ Zero10
       \/ part = "gyro"         /\ Gyro!Init /\ Zero10
       \/ part = "wheel"        /\ Wheel!Init /\ Zero15
       \/ part = "assist"       /\ Wheel!AssistInit /\ Zero8
       \/ part = "bias"         /\ Bias!Init /\ Zero8
       \/ part = "cal"          /\ Cal!Init /\ Zero8
       \/ part = "yaw"          /\ Yaw!Init /\ Zero8
       \/ part = "path"         /\ Path!Init /\ Zero5
       \/ part = "endless"      /\ Endless!Init /\ Zero5
       \/ part = "line"         /\ Machines!Line!Init /\ Zero11
       \/ part = "lap"          /\ Machines!Line!LapInit /\ Zero10
       \/ part = "capture"      /\ Capture!Init /\ Zero7
       \/ part = "engine"       /\ Engine!Init /\ Zero18
       \/ part = "sync"         /\ Engine!SyncInit /\ Zero13
       \/ part = "claims"       /\ Claims!Init /\ Zero10
       \/ part = "latest"       /\ Latest!Init /\ Zero10
       \/ part = "binding"      /\ Binding!Init /\ Zero10
       \/ part = "scan"         /\ Scan!Init /\ Zero14
       \/ part = "receive"      /\ Receive!Init /\ Zero12
       \/ part = "dead"         /\ DeadLine!Init /\ Zero12
       \/ part = "transmit"     /\ Transmit!Init /\ Zero12
       \/ part = "charger"      /\ Machines!Charge!Init /\ Zero14
       \/ part = "imu"          /\ Imu!Init /\ Zero10
       \/ part = "flash"        /\ Flash!Init /\ Zero8
       \/ part = "flash_read"   /\ Reading!Init /\ Zero8
       \/ part = "button"       /\ Button!Init /\ Zero9
       \/ part = "buttons"      /\ Buttons!Init /\ Zero9
       \/ part = "slot"         /\ Machines!Slot!Init /\ Zero7
       \/ part = "ring_live"    /\ DeviceL!Init /\ Zero14
       \/ part = "status_live"  /\ DeviceL!StatusInit /\ Zero14
       \/ part = "drive_live"   /\ DriveL!Init /\ Zero19
       \/ part = "motion_live"  /\ MotionL!Init /\ Zero10
       \/ part = "line_live"    /\ LineL!Init /\ Zero11
       \/ part = "capture_live" /\ CaptureL!Init /\ Zero7
       \/ part = "engine_live"  /\ EngineL!Init /\ Zero18
       \/ part = "sync_live"    /\ EngineL!SyncInit /\ Zero13
       \/ part = "charger_live" /\ ChargeL!Init /\ Zero14
       \/ part = "scan_live"    /\ ScanL!Init /\ Zero14
       \/ part = "wait_live"    /\ WaitL!Init /\ Zero14
       \/ part = "flash_live"   /\ FlashL!Init /\ Zero8
       \/ part = "curve"        /\ Curve!Init /\ Zero5

Next ==
    \/ part = "ring"         /\ Machines!Ring!Next /\ UNCHANGED U14
    \/ part = "status"       /\ Machines!Ring!StatusNext /\ UNCHANGED U14
    \/ part = "drive"        /\ Machines!Daemon!Next /\ UNCHANGED U19
    \/ part = "motion"       /\ Machines!Motion!Next /\ UNCHANGED U10
    \/ part = "gyro"         /\ Gyro!Next /\ UNCHANGED U10
    \/ part = "wheel"        /\ Wheel!Next /\ UNCHANGED U15
    \/ part = "assist"       /\ Wheel!AssistNext /\ UNCHANGED U8
    \/ part = "bias"         /\ Bias!Next /\ UNCHANGED U8
    \/ part = "cal"          /\ Cal!Next /\ UNCHANGED U8
    \/ part = "yaw"          /\ Yaw!Next /\ UNCHANGED U8
    \/ part = "path"         /\ Path!Next /\ UNCHANGED U5
    \/ part = "endless"      /\ Endless!Next /\ UNCHANGED U5
    \/ part = "line"         /\ Machines!Line!Next /\ UNCHANGED U11
    \/ part = "lap"          /\ Machines!Line!LapNext /\ UNCHANGED U10
    \/ part = "capture"      /\ Capture!Next /\ UNCHANGED U7
    \/ part = "engine"       /\ Engine!Next /\ UNCHANGED U18
    \/ part = "sync"         /\ Engine!SyncNext /\ UNCHANGED U13
    \/ part = "claims"       /\ Claims!Next /\ UNCHANGED U10
    \/ part = "latest"       /\ Latest!Next /\ UNCHANGED U10
    \/ part = "binding"      /\ Binding!Next /\ UNCHANGED U10
    \/ part = "scan"         /\ Scan!Next /\ UNCHANGED U14
    \/ part = "receive"      /\ Receive!Next /\ UNCHANGED U12
    \/ part = "dead"         /\ DeadLine!Next /\ UNCHANGED U12
    \/ part = "transmit"     /\ Transmit!Next /\ UNCHANGED U12
    \/ part = "charger"      /\ Machines!Charge!Next /\ UNCHANGED U14
    \/ part = "imu"          /\ Imu!Next /\ UNCHANGED U10
    \/ part = "flash"        /\ Flash!Next /\ UNCHANGED U8
    \/ part = "flash_read"   /\ Reading!Next /\ UNCHANGED U8
    \/ part = "button"       /\ Button!Next /\ UNCHANGED U9
    \/ part = "buttons"      /\ Buttons!Next /\ UNCHANGED U9
    \/ part = "slot"         /\ Machines!Slot!Next /\ UNCHANGED U7
    \/ part = "ring_live"    /\ DeviceL!Next /\ UNCHANGED U14
    \/ part = "status_live"  /\ DeviceL!StatusNext /\ UNCHANGED U14
    \/ part = "drive_live"   /\ DriveL!Next /\ UNCHANGED U19
    \/ part = "motion_live"  /\ MotionL!Next /\ UNCHANGED U10
    \/ part = "line_live"    /\ LineL!Next /\ UNCHANGED U11
    \/ part = "capture_live" /\ CaptureL!Next /\ UNCHANGED U7
    \/ part = "engine_live"  /\ EngineL!Next /\ UNCHANGED U18
    \/ part = "sync_live"    /\ EngineL!SyncNext /\ UNCHANGED U13
    \/ part = "charger_live" /\ ChargeL!Next /\ UNCHANGED U14
    \/ part = "scan_live"    /\ ScanL!Next /\ UNCHANGED U14
    \/ part = "wait_live"    /\ WaitL!Next /\ UNCHANGED U14
    \/ part = "flash_live"   /\ FlashL!Next /\ UNCHANGED U8
    \/ part = "curve"        /\ Curve!Next /\ UNCHANGED U5

Spec == Init /\ [][Next]_all

\* The fairness of each machine is that of its FairSpec.  A behaviour is of one machine, so
\* that the first, second, ... fair action of all of them can be named together.
W1 ==
    \/ part = "button"       /\ Button!Setup(r1) /\ UNCHANGED U9
    \/ part = "ring_live"    /\ DeviceL!RtStep /\ UNCHANGED U14
    \/ part = "status_live"  /\ DeviceL!DaemonStep /\ UNCHANGED U14
    \/ part = "drive_live"   /\ DriveL!RtStep /\ UNCHANGED U19
    \/ part = "motion_live"  /\ MotionL!Tick /\ UNCHANGED U10
    \/ part = "line_live"    /\ LineL!Daemon(m1) /\ UNCHANGED U11
    \/ part = "capture_live" /\ CaptureL!WriterStep(g1) /\ UNCHANGED U7
    \/ part = "engine_live"  /\ EngineL!Kthread /\ UNCHANGED U18
    \/ part = "sync_live"    /\ EngineL!Engine /\ UNCHANGED U13
    \/ part = "charger_live" /\ ChargeL!PollStep /\ UNCHANGED U14
    \/ part = "scan_live"    /\ ScanL!Tick /\ UNCHANGED U14
    \/ part = "wait_live"    /\ WaitL!Tick /\ UNCHANGED U14
    \/ part = "flash_live"   /\ FlashL!Boot /\ UNCHANGED U8
W2 ==
    \/ part = "button"       /\ Button!ToldTeardown(r1) /\ UNCHANGED U9
    \/ part = "ring_live"    /\ DeviceL!Teardown /\ UNCHANGED U14
    \/ part = "status_live"  /\ DeviceL!StatusAttach /\ UNCHANGED U14
    \/ part = "drive_live"   /\ DriveL!TaskStep(1) /\ UNCHANGED U19
    \/ part = "motion_live"  /\ MotionL!Recover /\ UNCHANGED U10
    \/ part = "line_live"    /\ LineL!Daemon(m2) /\ UNCHANGED U11
    \/ part = "capture_live" /\ CaptureL!Read /\ UNCHANGED U7
    \/ part = "charger_live" /\ ChargeL!VbusWorker /\ UNCHANGED U14
    \/ part = "scan_live"    /\ ScanL!Register /\ UNCHANGED U14
    \/ part = "wait_live"    /\ WaitL!Register /\ UNCHANGED U14
    \/ part = "flash_live"   /\ FlashL!Task("boot") /\ UNCHANGED U8
W3 ==
    \/ part = "button"       /\ Button!ToldRead(r1) /\ UNCHANGED U9
    \/ part = "ring_live"    /\ DeviceL!UserStep(u1) /\ UNCHANGED U14
    \/ part = "status_live"  /\ DeviceL!ReadStep(u1) /\ UNCHANGED U14
    \/ part = "drive_live"   /\ DriveL!Plug(left) /\ UNCHANGED U19
    \/ part = "motion_live"  /\ MotionL!Settle /\ UNCHANGED U10
    \/ part = "line_live"    /\ LineL!Starting(h1) /\ UNCHANGED U11
    \/ part = "capture_live" /\ CaptureL!WakeReader /\ UNCHANGED U7
    \/ part = "charger_live" /\ ChargeL!BcdStart /\ UNCHANGED U14
    \/ part = "scan_live"    /\ ScanL!ReleaseGone /\ UNCHANGED U14
    \/ part = "wait_live"    /\ WaitL!ReleaseGone /\ UNCHANGED U14
    \/ part = "flash_live"   /\ FlashL!Task("fs") /\ UNCHANGED U8
W4 ==
    \/ part = "drive_live"   /\ DriveL!Plug(right) /\ UNCHANGED U19
    \/ part = "line_live"    /\ LineL!Starting(h2) /\ UNCHANGED U11
    \/ part = "capture_live" /\ CaptureL!CloseAtEnd /\ UNCHANGED U7
    \/ part = "charger_live" /\ ChargeL!BcdEnd /\ UNCHANGED U14
    \/ part = "wait_live"    /\ WaitL!Thread(e1) /\ UNCHANGED U14
    \/ part = "flash_live"   /\ FlashL!Task("raw") /\ UNCHANGED U8
S1 ==
    \/ part = "drive_live"   /\ DriveL!FrozenUse /\ UNCHANGED U19
    \/ part = "flash_live"   /\ FlashL!Lock("boot") /\ UNCHANGED U8
S2 ==
    \/ part = "drive_live"   /\ DriveL!FrozenWake /\ UNCHANGED U19
    \/ part = "flash_live"   /\ FlashL!Lock("fs") /\ UNCHANGED U8
S3 ==
    \/ part = "drive_live"   /\ DriveL!Acked(1) /\ UNCHANGED U19
    \/ part = "flash_live"   /\ FlashL!Lock("raw") /\ UNCHANGED U8
S4 ==
    \/ part = "drive_live"   /\ DriveL!Reclaim(1) /\ UNCHANGED U19

FairSpec == Spec /\ WF_all(W1) /\ WF_all(W2) /\ WF_all(W3) /\ WF_all(W4)
                 /\ SF_all(S1) /\ SF_all(S2) /\ SF_all(S3) /\ SF_all(S4)

-----------------------------------------------------------------------------
\* Every machine keeps its types: queues, rings and counters their bounds.
TypeOK ==
    /\ part = "ring"         => Machines!Ring!TypeOK
    /\ part = "status"       => Machines!Ring!StatusTypeOK
    /\ part = "drive"        => Machines!Daemon!TypeOK
    /\ part = "motion"       => Machines!Motion!TypeOK
    /\ part = "wheel"        => Wheel!TypeOK
    /\ part = "assist"       => Wheel!AssistTypeOK
    /\ part = "path"         => Path!TypeOK
    /\ part = "line"         => Machines!Line!TypeOK
    /\ part = "lap"          => Machines!Line!LapTypeOK
    /\ part = "capture"      => Capture!TypeOK
    /\ part = "engine"       => Engine!TypeOK
    /\ part = "sync"         => Engine!SyncTypeOK
    /\ part = "claims"       => Claims!TypeOK
    /\ part = "scan"         => Scan!TypeOK
    /\ part = "receive"      => Receive!TypeOK
    /\ part = "charger"      => Machines!Charge!TypeOK
    /\ part = "imu"          => Imu!TypeOK
    /\ part = "flash"        => Flash!TypeOK
    /\ part = "buttons"      => Buttons!TypeOK

\* A stop holds: no queued or late command drives after it, the motors of a stopped, freezing
\* or calibrating drive base and line tracer stand and belong to nobody, a brake stops both
\* wheels, and the charger is off without supply and in its pause.
StoppedIsStill ==
    /\ part = "ring"         => /\ Machines!Ring!StopBehindDoomed /\ Machines!Ring!StopEndsMotion
                                /\ Machines!Ring!StopEndsOutput
    /\ part = "drive"        => /\ Machines!Daemon!StoppedIsClean /\ Machines!Daemon!PendingIsStill
    /\ part = "motion"       => Machines!Motion!BrakeStopsBoth
    /\ part = "line"         => Machines!Line!DriveIsOwned
    /\ part = "charger"      => /\ Machines!Charge!OffWithoutVbus /\ Machines!Charge!DarkInPause

\* The drive base believes what happened: positions, speeds and stalls come from the samples of
\* one epoch, the heading follows the gyro and its bias only rest, an endless drive drives and
\* a paused one follows, and a profile, stretched or not, stays on its path.
MotionIsTrue ==
    /\ part = "motion"       => /\ Machines!Motion!ForeverDrives /\ Machines!Motion!PausedFollows
                                /\ Machines!Motion!EndpointIsCurrent
    /\ part = "gyro"         => Gyro!SourceSteady
    /\ part = "wheel"        => /\ Wheel!OneEpoch /\ Wheel!RingOrdered
    /\ part = "assist"       => /\ Wheel!NoRefire /\ Wheel!PushesHome
    /\ part = "bias"         => /\ Bias!BiasMeaning /\ Bias!TurnNotLearned /\ Bias!RestCalibrates
    /\ part = "cal"          => Cal!CalWhole
    /\ part = "yaw"          => Yaw!HeadingIsYaw
    /\ part = "path"         => /\ Path!StaysOnPath /\ Path!StretchIsTrue

\* What is read was so: status and state are whole and of the attached daemon, a capture ends
\* whole, a detected device is the one that is plugged in, a synchronised one is described,
\* samples carry their settings, flash and the program slot return what was written, and every
\* settled press of a button is seen.
ReadersSeeTheTruth ==
    /\ part = "status"       => /\ Machines!Ring!StatusWhole /\ Machines!Ring!StateWhole
                                /\ Machines!Ring!NeverBack /\ Machines!Ring!DetachedIsZero
                                /\ Machines!Ring!ResetIsClean
    /\ part = "line"         => /\ Machines!Line!TicksAccounted /\ Machines!Line!EdgeMatches
    /\ part = "capture"      => /\ Capture!EofIsWhole /\ Capture!QuietIsIdle
    /\ part = "sync"         => /\ Engine!SyncedDescribed /\ Engine!Complete
    /\ part = "scan"         => /\ Scan!ScanTrue /\ Scan!NoPhantom
    /\ part = "imu"          => /\ Imu!RateAgrees /\ Imu!TagsTrue /\ Imu!FastEnough
    /\ part = "flash_read"   => Reading!ReadTrue
    /\ part = "button"       => /\ Button!Debounced /\ Button!WakesOnEvery
    /\ part = "slot"         => Machines!Slot!ReportIsTrue

\* Bounds are kept, the current a port allows among them, and what is shared has one user:
\* motors between the tick and the idle loop, capture sessions and lap buffers, callbacks of
\* the LUMP engine, sensor classes and their claims, ports, poll slots and the reserved sectors
\* of the flash; and reads and writes of the port's UART end in their time.
OneAtATime ==
    /\ TypeOK
    /\ part = "drive"        => /\ Machines!Daemon!Exclusive /\ Machines!Daemon!RtHasMotors
    /\ part = "lap"          => /\ Machines!Line!ExportKeepsBuffer /\ Machines!Line!NoLeak
                                /\ Machines!Line!HintIsArmed
    /\ part = "capture"      => /\ Capture!OneSession /\ Capture!SessionOwned
    /\ part = "engine"       => /\ Engine!DetachQuiesces /\ Engine!SyncOnce /\ Engine!CallbackGuard
                                /\ Engine!PortComesBack
    /\ part = "claims"       => Claims!OneWriter
    /\ part = "binding"      => /\ Binding!BoundIsConnected /\ Binding!LowestWins
    /\ part = "scan"         => Scan!OwnedIsUart
    /\ part = "receive"      => Receive!ReadInTime
    /\ part = "dead"         => DeadLine!WriteInTime
    /\ part = "transmit"     => Transmit!HealthyWrites
    /\ part = "charger"      => Machines!Charge!WithinPort
    /\ part = "flash"        => Flash!ReservedUntouched
    /\ part = "buttons"      => Buttons!SlotsAreOwned

\* No step does what must never happen: a braked robot is not driven by a tick, a jump of the
\* position is not believed unconfirmed, a refused duty is no stall, a profile does not jump, a
\* frozen capture does not grow, bytes are taken in order and of this opening, a sample is of
\* the bound port, what was written stays, and a file system is never wiped.
StepsAreLegal ==
    [][ /\ part = "motion"       => Machines!Motion!StaysBraked
        /\ part = "wheel"        => /\ Wheel!JumpsAreConfirmed /\ Wheel!HonestStall
        /\ part = "assist"       => Wheel!KeepsSign
        /\ part = "path"         => Path!NoJump
        /\ part = "endless"      => /\ Endless!NoJump /\ Endless!RetargetIsSmooth
        /\ part = "line"         => Machines!Line!BrakeHolds
        /\ part = "lap"          => /\ Machines!Line!ReapedByVerb /\ Machines!Line!Frozen
                                    /\ Machines!Line!StartsClean
        /\ part = "latest"       => Latest!LatestIsCurrent
        /\ part = "receive"      => /\ Receive!BytesInOrder /\ Receive!Fresh
        /\ part = "flash"        => /\ Flash!DoneIsDone /\ Flash!NeverWipes ]_all

\* Whatever fails and whenever power is lost, the slot behaves like a single cell that holds
\* one complete program: a torn, mixed or half-written record is never in it and LOAD never
\* returns one.
SlotPromise == (part = "slot" => Machines!Slot!Abstract!Init) /\ [][part = "slot" => Machines!Slot!SlotStep]_all

\* The gate of a stretch refuses a profile only when its last sample is too far from the
\* target.
GateIsTrue == part = "curve" => Curve!GateIsTrue

\* Whatever somebody waits for happens: stops take effect, motions complete, freezes and
\* daemons end, captures are delivered or released, devices synchronise, are noticed, settle
\* and disconnect, the charger charges, and waits and flash operations return.
AllServed ==
    /\ \A c \in 1 .. 2 :
       (part = "ring_live" /\ DeviceL!StopTakesEffectDue(c)) ~> (part = "ring_live" /\ DeviceL!StopTakesEffectMet(c))
    /\ (part = "ring_live" /\ DeviceL!DetachedStopsDue) ~> (part = "ring_live" /\ DeviceL!DetachedStopsMet)
    /\ (part = "status_live" /\ DeviceL!ResetIsClaimedDue) ~> (part = "status_live" /\ DeviceL!ResetIsClaimedMet)
    /\ (part = "status_live" /\ DeviceL!ReadEndsDue(u1)) ~> (part = "status_live" /\ DeviceL!ReadEndsMet(u1))
    /\ (part = "drive_live" /\ DriveL!FreezeEndsDue) ~> (part = "drive_live" /\ DriveL!FreezeEndsMet)
    /\ (part = "drive_live" /\ DriveL!RecoversDue) ~> (part = "drive_live" /\ DriveL!RecoversMet)
    /\ (part = "drive_live" /\ DriveL!DaemonEndsDue(1)) ~> (part = "drive_live" /\ DriveL!DaemonEndsMet(1))
    /\ (part = "motion_live" /\ MotionL!CompletesDue) ~> (part = "motion_live" /\ MotionL!CompletesMet)
    /\ \A a \in {"distance", "heading"} :
       (part = "motion_live" /\ MotionL!SmartExpiresDue(a)) ~> (part = "motion_live" /\ MotionL!SmartExpiresMet(a))
    /\ (part = "line_live" /\ LineL!BrakeTakenDue) ~> (part = "line_live" /\ LineL!BrakeTakenMet)
    /\ (part = "line_live" /\ LineL!TracerStopsDue) ~> (part = "line_live" /\ LineL!TracerStopsMet)
    /\ (part = "capture_live" /\ CaptureL!FullIn(g1) /\ CaptureL!Gone) ~> (part = "capture_live" /\ ~CaptureL!FullIn(g1))
    /\ (part = "capture_live" /\ CaptureL!ReaderWaits /\ CaptureL!Gone) ~> (part = "capture_live" /\ ~CaptureL!ReaderWaits)
    /\ (part = "capture_live" /\ CaptureL!DeliveredDue(g1)) ~> (part = "capture_live" /\ CaptureL!DeliveredMet(g1))
    /\ []<>(part = "sync_live" => EngineL!Described)
    /\ (part = "engine_live" /\ EngineL!DisconnectsDue) ~> (part = "engine_live" /\ EngineL!DisconnectsMet)
    /\ (part = "engine_live" /\ EngineL!SendServedDue) ~> (part = "engine_live" /\ EngineL!SendServedMet)
    /\ (part = "charger_live" /\ ChargeL!ChargesDue) ~> (part = "charger_live" /\ ChargeL!ChargesMet)
    /\ \A d \in {NoDevice, UartDevice} :
       <>[](part = "scan_live" /\ ScanL!Holds(d)) => <>[](part = "scan_live" /\ ScanL!Known(d))
    /\ <>[](part = "scan_live" /\ ScanL!Holds(NoDevice)) => <>[](part = "scan_live" /\ ScanL!Scanning)
    /\ (part = "wait_live" /\ WaitL!WaitReturnsDue(e1)) ~> (part = "wait_live" /\ WaitL!WaitReturnsMet(e1))
    /\ \A t \in {"boot", "fs", "raw"} :
             (part = "flash_live" /\ FlashL!Waits(t)) ~> (part = "flash_live" /\ ~FlashL!Waits(t))
    /\ []<>(part = "flash_live" => FlashL!Booted)
    /\ (part = "button" /\ Button!NoticedDue(r1)) ~> (part = "button" /\ Button!NoticedMet(r1))

-----------------------------------------------------------------------------
(***************************************************************************)
(* What the theorems about the machines say of the composition: a          *)
(* behaviour of Spec that starts in a machine is one of that machine.      *)
(***************************************************************************)

(* An initial state of a machine's part is one of the machine.             *)
LEMMA PartStarts ==
  Init =>
    /\ part = "ring"    => Machines!Ring!Init
    /\ part = "drive"   => Machines!Daemon!Init
    /\ part = "motion"  => Machines!Motion!Init
    /\ part = "line"    => Machines!Line!Init
    /\ part = "charger" => Machines!Charge!Init
    /\ part = "slot"    => Machines!Slot!Init
  BY DEF Init

(* A step of the composition is one of its machine or leaves that alone,   *)
(* and the next step will be of the same machine.                          *)
LEMMA PartSteps ==
  [Next]_all =>
    /\ part = "ring"    <=> (part = "ring")'
    /\ part = "drive"   <=> (part = "drive")'
    /\ part = "motion"  <=> (part = "motion")'
    /\ part = "line"    <=> (part = "line")'
    /\ part = "charger" <=> (part = "charger")'
    /\ part = "slot"    <=> (part = "slot")'
    /\ part = "ring"    => [Machines!Ring!Next]_(Machines!Ring!vars)
    /\ part = "drive"   => [Machines!Daemon!Next]_(Machines!Daemon!vars)
    /\ part = "motion"  => [Machines!Motion!Next]_(Machines!Motion!vars)
    /\ part = "line"    => [Machines!Line!Next]_(Machines!Line!vars)
    /\ part = "charger" => [Machines!Charge!Next]_(Machines!Charge!vars)
    /\ part = "slot"    => [Machines!Slot!Next]_(Machines!Slot!vars)
PROOF
  <1> SUFFICES ASSUME [Next]_all PROVE /\ part' = part
                                       /\ part = "ring" => [Machines!Ring!Next]_(Machines!Ring!vars)
                                       /\ part = "drive" => [Machines!Daemon!Next]_(Machines!Daemon!vars)
                                       /\ part = "motion" => [Machines!Motion!Next]_(Machines!Motion!vars)
                                       /\ part = "line" => [Machines!Line!Next]_(Machines!Line!vars)
                                       /\ part = "charger" => [Machines!Charge!Next]_(Machines!Charge!vars)
                                       /\ part = "slot" => [Machines!Slot!Next]_(Machines!Slot!vars)
    OBVIOUS
  <1>1. part' = part
    <2>1. UNCHANGED U19 => part' = part
      BY DEF U19, U20, U21, U22
    <2>2. UNCHANGED U18 => UNCHANGED U19
      BY DEF U18
    <2>3. UNCHANGED U15 => UNCHANGED U18
      BY DEF U15, U16, U17
    <2>4. UNCHANGED U14 => UNCHANGED U15
      BY DEF U14
    <2>5. UNCHANGED U13 => UNCHANGED U14
      BY DEF U13
    <2>6. UNCHANGED U12 => UNCHANGED U13
      BY DEF U12
    <2>7. UNCHANGED U11 => UNCHANGED U12
      BY DEF U11
    <2>8. UNCHANGED U10 => UNCHANGED U11
      BY DEF U10
    <2>9. UNCHANGED U9 => UNCHANGED U10
      BY DEF U9
    <2>10. UNCHANGED U8 => UNCHANGED U9
      BY DEF U8
    <2>11. UNCHANGED U7 => UNCHANGED U8
      BY DEF U7
    <2>12. UNCHANGED U5 => UNCHANGED U7
      BY DEF U5, U6
    <2>13. QED
      BY <2>1, <2>2, <2>3, <2>4, <2>5, <2>6, <2>7, <2>8, <2>9, <2>10, <2>11, <2>12 DEF
             Next, all
  <1>2. ASSUME part = "ring" PROVE [Machines!Ring!Next]_(Machines!Ring!vars)
    <2>1. CASE Machines!Ring!Next /\ UNCHANGED U14
      BY <2>1
    <2>2. CASE UNCHANGED all
      BY <2>2 DEF all, Machines!Ring!vars, Machines!Ring!kernel, Machines!Ring!process,
             Machines!Ring!history
    <2>3. QED
      BY <1>2, <2>1, <2>2 DEF Next
  <1>3. ASSUME part = "drive" PROVE [Machines!Daemon!Next]_(Machines!Daemon!vars)
    <2>1. CASE Machines!Daemon!Next /\ UNCHANGED U19
      BY <2>1
    <2>2. CASE UNCHANGED all
      BY <2>2 DEF all, Machines!Daemon!vars, Machines!Daemon!control,
             Machines!Daemon!motor, Machines!Daemon!handshake, Machines!Daemon!thread
    <2>3. QED
      BY <1>3, <2>1, <2>2 DEF Next
  <1>4. ASSUME part = "motion" PROVE [Machines!Motion!Next]_(Machines!Motion!vars)
    <2>1. CASE Machines!Motion!Next /\ UNCHANGED U10
      BY <2>1
    <2>2. CASE UNCHANGED all
      BY <2>2 DEF all, Machines!Motion!vars
    <2>3. QED
      BY <1>4, <2>1, <2>2 DEF Next
  <1>5. ASSUME part = "line" PROVE [Machines!Line!Next]_(Machines!Line!vars)
    <2>1. CASE Machines!Line!Next /\ UNCHANGED U11
      BY <2>1
    <2>2. CASE UNCHANGED all
      BY <2>2 DEF all, Machines!Line!vars
    <2>3. QED
      BY <1>5, <2>1, <2>2 DEF Next
  <1>6. ASSUME part = "charger" PROVE [Machines!Charge!Next]_(Machines!Charge!vars)
    <2>1. CASE Machines!Charge!Next /\ UNCHANGED U14
      BY <2>1
    <2>2. CASE UNCHANGED all
      BY <2>2 DEF all, Machines!Charge!vars
    <2>3. QED
      BY <1>6, <2>1, <2>2 DEF Next
  <1>7. ASSUME part = "slot" PROVE [Machines!Slot!Next]_(Machines!Slot!vars)
    <2>1. CASE Machines!Slot!Next /\ UNCHANGED U7
      BY <2>1
    <2>2. CASE UNCHANGED all
      BY <2>2 DEF all, Machines!Slot!vars
    <2>3. QED
      BY <1>7, <2>1, <2>2 DEF Next
  <1>8. QED
    BY <1>1, <1>2, <1>3, <1>4, <1>5, <1>6, <1>7

(* A stop holds in every machine that has one: the theorems about the      *)
(* command ring, the daemon, the motion layer, the line tracer and the     *)
(* charger, together.                                                      *)
THEOREM BoardStops == Spec => []StoppedIsStill
PROOF
  <1>1. Machines!Ring!Spec => [](Machines!Ring!StopBehindDoomed /\ Machines!Ring!StopEndsMotion
                                /\ Machines!Ring!StopEndsOutput)
    BY Machines!StopOvertakes, Instances
  <1>2. Machines!Charge!Spec => [](Machines!Charge!OffWithoutVbus /\ Machines!Charge!DarkInPause)
    BY Machines!ChargerGoesOff, Instances
  <1>3. (Machines!Daemon!Spec => []Machines!Daemon!StoppedIsClean) /\ (Machines!Daemon!Spec => []Machines!Daemon!PendingIsStill)
    BY Machines!StoppedDaemonIsClean, Machines!LostPortStopsWheels, Instances DEF Machines!Patient
  <1>4. QED
    BY PartStarts, PartSteps, <1>1, <1>2, <1>3, Machines!AxesAgree,
           Machines!TracerLeavesNothingMoving, PTL DEF Spec, StoppedIsStill,
           Machines!Ring!Spec, Machines!Daemon!Spec, Machines!Motion!Spec,
           Machines!Line!Spec, Machines!Charge!Spec

(* SAVE and LOAD of bw_program_save and bw_program_load keep the promise   *)
(* of the program slot, whatever fails and whenever power is lost.         *)
THEOREM BoardKeepsSlot == Spec => SlotPromise
PROOF
  <1>1. Machines!Slot!Spec => []Machines!StorageInv
    BY Machines!StorageInvariant, Instances
  <1>2. /\ Machines!Slot!Init => Machines!Slot!Abstract!Init
        /\ Machines!StorageInv /\ [Machines!Slot!Next]_(Machines!Slot!vars) => [part = "slot" => Machines!Slot!SlotStep]_all
        /\ ~(part = "slot") => [part = "slot" => Machines!Slot!SlotStep]_all
    BY Machines!SlotInit, Machines!StorageSlotStep, Instances
  <1>3. QED
    BY PartStarts, PartSteps, <1>1, <1>2, PTL DEF Spec, Machines!Slot!Spec, SlotPromise
=============================================================================
