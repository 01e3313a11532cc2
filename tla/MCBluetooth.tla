---------------------------- MODULE MCBluetooth -----------------------------
(***************************************************************************)
(* The machines of the Bluetooth stack and its application, instantiated   *)
(* for TLC.  A behaviour is of one machine, which the initial state        *)
(* chooses among Parts: the machines do not interact here, they share the  *)
(* slots v1, v2, ... for their variables and one model-checking run.       *)
(* Names that end in _live are smaller instances, for liveness.            *)
(***************************************************************************)
EXTENDS Naturals, SequencesExt, TLAPS

CONSTANTS Parts,  \* the machines of a run
          Nil, w1, w2, c1, c2, s1, s2, x1, x2, a1, a2, o1, o2, classicLink, bleLink, t1, t2, d1,
          d2, d3, imu, sound, notifier, k1, k2, y1, y2, f1, f2, p1  \* model values

VARIABLES part,  \* the machine this behaviour is of
          v1, v2, v3, v4, v5, v6, v7, v8, v9, v10, v11, v12, v13, v14, v15, v16, v17, v18, v19,
          v20, v21, v22  \* its state, and 0 in the slots it does not need

\* A key of the host's identity and one of a bond, and the handlers of the host for them.
Id == [dir |-> <<"bt">>, leaf |-> "id"]
Bond == [dir |-> <<"bt", "keys">>, leaf |-> "address"]
HostHandlers == {[name |-> <<"bt">>, cprio |-> 0, takes |-> {Id}],
                 [name |-> <<"bt", "keys">>, cprio |-> 1, takes |-> {Bond}]}

\* Frames no peer sends: an empty block, a block beyond the end, a byte too few, one without end.
BadFrames == {<<3, 2>>, <<12, 2>>, <<12, 5, 2>>, [i \in 1 .. 13 |-> 5]}

Machines == INSTANCE BluetoothProofs WITH
    Items <- {w1}, Delayable <- {w1}, Clients <- {c1, c2}, Slots <- {s1, s2}, MaxGen <- 3,
    None <- Nil,
    MaxFrames <- 3, MaxPending <- 2, MaxRecoveries <- 1, MaxNaps <- 2, MaxFaults <- 2,
    MaxOpens <- 2,
    UartRing <- 3, MaxBytes <- 5, MaxAhead <- 2, UartWriter <- {}, UartOpens <- 2,
    TxRing <- 3, TxBytes <- 0, TxAhead <- 0, UartTxWriter <- {x1, x2}, TxOpens <- 0,
    Key <- {Id, Bond}, Value <- {a1, a2}, Handler <- HostHandlers, Pieces <- 2, MaxOps <- 3,
    MaxCrashes <- 1, Unreadable <- TRUE,
    Cli <- {x1, x2}, MaxStarts <- 2, MaxStops <- 3, Timeouts <- TRUE, Conn <- {o1, o2},
    Sender <- {x1}, MaxLinks <- 3, MaxShell <- 3,
    pending <- v1, canceled <- v2, running <- v3, workGeneration <- v4, delayed <- v5,
    fifo <- v6, workThread <- v7, slot <- v8, call <- v9, alone <- v10, quiet <- v11,
    overtaken <- v12,
    eh <- v1, fault <- v2, ctl <- v3, drv <- v4, hciRx <- v5, toCtl <- v6, toHost <- v7,
    peer <- v8, accepted <- v9, hciGot <- v10, spent <- v11,
    sent <- v1, uartQuiet <- v2, uartIdle <- v3, opens <- v4, uartOpen <- v5, rx_consumer <- v6,
    rxwork_pending <- v7, rxsem <- v8, uartReader <- v9, pollSlot <- v10, revents <- v11,
    uartNext <- v12, garbled <- v13, uartSince <- v14, txlock <- v15, uartDma <- v16,
    shiftEmpty <- v17, cts <- v18, baud <- v19, uartWriters <- v20,
    keyFile <- v1, keyTemp <- v2, handlers <- v3, keySave <- v4, keyLoad <- v5, loaded <- v6,
    committed <- v7, acked <- v8, keyOps <- v9, crashes <- v10,
    g_running <- v1, stop_request <- v2, stopped <- v3, starts <- v4, pc <- v5, taken <- v6,
    held <- v7, g_started <- v8, bt <- v9, rx <- v10, stuck <- v11, cli <- v12, stops <- v13,
    asked <- v14, crossing <- v15, hc <- v1, refs <- v2, who <- v3, links <- v4,
    le_connection <- v5, le_identity <- v6, last_le_identity <- v7, generation <- v8,
    events <- v9, host <- v10, adv <- v11, scan <- v12, g_le_advertising <- v13,
    g_visible <- v14, work <- v15, wq <- v16, sh <- v17, shells <- v18, crossed <- v19,
    snd <- v20

Apps == INSTANCE BtsensorProofs WITH
    Threads <- {t1, t2}, Links <- {classicLink, bleLink}, Classic <- classicLink,
    Ble <- bleLink, RespDepth <- 2, TxDepth <- 2, Pool <- 1, MaxTicket <- 2, MaxEpoch <- 2,
    MaxLife <- 2, None <- Nil, DrainThreads <- {d1, d2, d3}, MaxId <- 2,
    Watches <- {imu}, Timers <- {classicLink, sound, notifier}, Rearming <- {classicLink},
    OneShot <- {classicLink, sound}, WatchSlots <- 1 .. 2, TimerSlots <- 1 .. 2,
    Ports <- 1 .. 2, MaxCmd <- 2, Interval <- {0, 19, 20, 60000}, MaxRequests <- 4,
    MaxLinks <- 3,
    Ring <- 4, PerFrame <- 2, Config <- {1, 2}, Rate <- 0, TickHz <- 1, MaxSamples <- 3,
    MaxQueue <- 2, MaxCalls <- 2, Class <- {k1, k2}, Port <- {0}, Ops <- {}, Cooldown <- 2,
    Saturated <- 3, Wrap <- 100, MaxPub <- 3, CacheMaxQueue <- 2, CacheMaxCalls <- 3,
    MaxTime <- 1,
    WritesRing <- 32, WritesPerFrame <- 8, WritesConfig <- {1}, WritesRate <- 416,
    WritesTickHz <- 100, WritesMaxSamples <- 1000, WritesMaxQueue <- 32, WritesMaxCalls <- 0,
    WritesClass <- {k1}, WritesPort <- {0, 1}, WritesOps <- {"pwm", "send"},
    WritesCooldown <- 2, WritesSaturated <- 3, WritesWrap <- 100, WritesMaxPub <- 3,
    WritesCacheMaxQueue <- 1, WritesCacheMaxCalls <- 2, WritesMaxTime <- 2,
    Thread <- {y1, y2}, ToneFile <- {f1, f2}, PcmFile <- {p1}, Uses <- (y1 :> {f1, p1}) @@ (y2
    :> {f2}), Notes <- {60}, Levels <- {300}, MaxTokens <- 1, MaxSlices <- 1, NoFile <- Nil,
    Link <- {classicLink, bleLink}, NoLink <- Nil, MaxBeeps <- 4,
    txQueue <- v1, online <- v2, sessions <- v3, selected <- v4, pumping <- v5, repoll <- v6,
    lifetime <- v7, txUp <- v8, ticket <- v9, thread <- v10, conn <- v11, last <- v12,
    inflight <- v13, delivered <- v14, busy <- v1, drain <- v2, timerId <- v3,
    reconciling <- v4, counter <- v5, txArmed <- v6, drainThread <- v7, txCalls <- v8,
    active <- v1, dispatching <- v2, polling <- v3, wslot <- v4, tslot <- v5, schedUp <- v6,
    stop <- v7, schedWorker <- v8, schedOp <- v9, stoppedObjects <- v10, twice <- v11,
    attached <- v1, pwm <- v2, owner <- v3, token <- v4, run <- v5, armed <- v6, up <- v7,
    cmds <- v8, linkRx <- v9, worker <- v10, linkOf <- v11, replies <- v12, excused <- v13,
    interval_ms <- v1, notification_interval_ms <- v2, timer <- v3, lock <- v4,
    notifyHost <- v5, notifyWorker <- v6, leLink <- v7, notifyLinks <- v8, request <- v9,
    requests <- v10, answer <- v11, wrong <- v12,
    cfg <- v1, sampleNo <- v2, queue <- v3, watch <- v4, imu_enabled <- v5, ring <- v6,
    sensor_enabled <- v7, g_initialized <- v8, g_imu_on <- v9, g_sensor_on <- v10,
    g_timer_armed <- v11, s_last <- v12, bundleLock <- v13, wk <- v14, cmd <- v15, calls <- v16,
    consumer <- v17, frames <- v18, out <- v19, mark <- v20, lost <- v21, ticks <- v22,
    port <- v1, gen <- v2, claim <- v3, topic <- v4, pubs <- v5, fd <- v6, cls <- v7,
    g_enabled <- v8, g_last_write <- v9, clock <- v10, cacheWk <- v11, cacheCmd <- v12,
    cacheCalls <- v13, snap <- v14, cacheMark <- v15, done <- v16,
    opened <- v1, soundOwner <- v2, mode <- v3, volume <- v4, stop_flag <- v5, soundOut <- v6,
    soundWriter <- v7, hit <- v8, beepFd <- v1, g_owner <- v2, beepTimer <- v3, cb <- v4,
    beepOp <- v5, down <- v6, stopping <- v7, dev <- v8, con <- v9, beeps <- v10, cut <- v11

Stream == INSTANCE SpikeStream WITH
    Full <- 15, MaxFrame <- 12, Payload <- {<<>>, <<0>>, <<5, 0, 4>>, <<5, 6, 7, 8, 9>>},
    Junk <- {}, Refused <- {}, Reconnects <- "never", Mtu <- 4, MaxSent <- 2, Alphabet <- {0, 2,
    3, 15}, MaxLen <- 5, Capacity <- {0, 1, 2, 3, 5, 6, 8},
    tx <- v1, sent <- v2, got <- v3, ble <- v4, js <- v5, jsGot <- v6, bytes <- v1

Noise == INSTANCE SpikeStream WITH
    Full <- 15, MaxFrame <- 12, Payload <- {<<0>>, <<5, 0, 4>>}, Junk <- BadFrames,
    Refused <- {}, Reconnects <- "between", Mtu <- 4, MaxSent <- 3, Alphabet <- {0, 2, 3, 15},
    MaxLen <- 5, Capacity <- {0, 1, 2, 3, 5, 6, 8},
    tx <- v1, sent <- v2, got <- v3, ble <- v4, js <- v5, jsGot <- v6, bytes <- v1

Lines == INSTANCE CommandFeed WITH
    Link <- {"classic", "ble"}, Words <- {"IMU", "ON", "long", "json"}, MaxWords <- 2,
    MaxConn <- 2, LongWidth <- 127, PayloadMax <- 2, Channels <- 2, MidLine <- FALSE,
    MaxLine <- 128, ReplyMax <- 64,
    g_streams <- v1, g_ops <- v2, conn <- v3, text <- v4, from <- v5, last <- v6

Grammar == INSTANCE CommandFeed WITH
    Link <- {"classic"}, Words <- {"PING", "IMU", "ON", "long", "SENSOR", "MODE", "SET", "GET",
    "ODR", "FUSION", "BASE", "CAL", "SAVE", "axes", "skew", "START", "_IMU_CAP", "color", "1",
    "ff"}, MaxWords <- 3, MaxConn <- 1, LongWidth <- 127, PayloadMax <- 2, Channels <- 2,
    MidLine <- FALSE, MaxLine <- 128, ReplyMax <- 64,
    g_streams <- v1, g_ops <- v2, conn <- v3, text <- v4, from <- v5, last <- v6

Values == INSTANCE CommandFeed WITH
    Link <- {"classic"}, Words <- {"SENSOR", "SEND", "PWM", "1", "ff"}, MaxWords <- 5,
    MaxConn <- 1, LongWidth <- 16, PayloadMax <- 1, Channels <- 2, MidLine <- FALSE,
    MaxLine <- 128, ReplyMax <- 64,
    g_streams <- v1, g_ops <- v2, conn <- v3, text <- v4, from <- v5, last <- v6

Tuning == INSTANCE Sound WITH
    Thread <- {y1}, ToneFile <- {f1}, PcmFile <- {}, Uses <- (y1 :> {f1}), Notes <- 24 .. 107,
    Levels <- {0, 55, 100, 300}, MaxTokens <- 1, MaxSlices <- 1, NoFile <- Nil,
    Link <- {classicLink, bleLink}, NoLink <- Nil, MaxBeeps <- 2,
    opened <- v1, owner <- v2, mode <- v3, volume <- v4, stop_flag <- v5, out <- v6, w <- v7,
    hit <- v8, fd <- v1, g_owner <- v2, timer <- v3, cb <- v4, op <- v5, down <- v6,
    stopping <- v7, dev <- v8, con <- v9, beeps <- v10, cut <- v11

QueueL == INSTANCE WorkQueue WITH
    Items <- {w1, w2}, Delayable <- {w1}, Clients <- {c1}, Slots <- {s1}, MaxGen <- 3,
    None <- Nil,
    pending <- v1, canceled <- v2, running <- v3, generation <- v4, delayed <- v5, fifo <- v6,
    worker <- v7, slot <- v8, call <- v9, alone <- v10, quiet <- v11, overtaken <- v12

DelayL == INSTANCE WorkQueue WITH
    Items <- {w1}, Delayable <- {w1}, Clients <- {c1, c2}, Slots <- {s1}, MaxGen <- 4,
    None <- Nil,
    pending <- v1, canceled <- v2, running <- v3, generation <- v4, delayed <- v5, fifo <- v6,
    worker <- v7, slot <- v8, call <- v9, alone <- v10, quiet <- v11, overtaken <- v12

UartL == INSTANCE BtUart WITH
    Ring <- 3, MaxBytes <- 2, MaxAhead <- 1, Writer <- {}, MaxOpens <- 1,
    sent <- v1, quiet <- v2, idle <- v3, opens <- v4, open <- v5, rx_consumer <- v6,
    rxwork_pending <- v7, rxsem <- v8, rd <- v9, slot <- v10, revents <- v11, next <- v12,
    garbled <- v13, since <- v14, txlock <- v15, dma <- v16, tc <- v17, cts <- v18, baud <- v19,
    wr <- v20

HciL == INSTANCE HciLink WITH
    MaxFrames <- 2, MaxPending <- 2, MaxRecoveries <- 1, MaxNaps <- 1, MaxFaults <- 2,
    MaxOpens <- 1,
    eh <- v1, fault <- v2, ctl <- v3, drv <- v4, rx <- v5, toCtl <- v6, toHost <- v7,
    peer <- v8, accepted <- v9, got <- v10, spent <- v11

DaemonL == INSTANCE Lifecycle WITH
    Cli <- {x1}, MaxStarts <- 2, MaxStops <- 2, Timeouts <- FALSE, Conn <- {o1, o2},
    Sender <- {x1}, MaxLinks <- 3, MaxShell <- 3,
    g_running <- v1, stop_request <- v2, stopped <- v3, starts <- v4, pc <- v5, taken <- v6,
    held <- v7, g_started <- v8, bt <- v9, rx <- v10, stuck <- v11, cli <- v12, stops <- v13,
    asked <- v14, crossing <- v15, hc <- v1, refs <- v2, who <- v3, links <- v4,
    le_connection <- v5, le_identity <- v6, last_le_identity <- v7, generation <- v8,
    events <- v9, host <- v10, adv <- v11, scan <- v12, g_le_advertising <- v13,
    g_visible <- v14, work <- v15, wq <- v16, sh <- v17, shells <- v18, crossed <- v19,
    snd <- v20

TxL == INSTANCE BtsensorTx WITH
    Threads <- {}, Links <- {classicLink, bleLink}, Classic <- classicLink, Ble <- bleLink,
    RespDepth <- 1, TxDepth <- 2, Pool <- 1, MaxTicket <- 1, MaxEpoch <- 1, MaxLife <- 1,
    None <- Nil, DrainThreads <- {d1, d2}, MaxId <- 2,
    queue <- v1, online <- v2, sessions <- v3, selected <- v4, pumping <- v5, repoll <- v6,
    lifetime <- v7, up <- v8, ticket <- v9, thread <- v10, conn <- v11, last <- v12,
    inflight <- v13, delivered <- v14, busy <- v1, drain <- v2, timerId <- v3,
    reconciling <- v4, counter <- v5, armed <- v6, drainThread <- v7, calls <- v8

SchedL == INSTANCE Scheduler WITH
    Watches <- {imu}, Timers <- {classicLink, notifier}, Rearming <- {classicLink},
    OneShot <- {classicLink}, WatchSlots <- 1 .. 1, TimerSlots <- 1 .. 2, None <- Nil,
    active <- v1, dispatching <- v2, polling <- v3, wslot <- v4, tslot <- v5, up <- v6,
    stop <- v7, worker <- v8, op <- v9, stopped <- v10, twice <- v11

MotorL == INSTANCE LinkSessions WITH
    Ports <- 1 .. 1, Classic <- classicLink, Ble <- bleLink, MaxCmd <- 2, None <- Nil,
    Interval <- {0, 19, 20, 60000}, MaxRequests <- 4, MaxLinks <- 3,
    attached <- v1, pwm <- v2, owner <- v3, token <- v4, run <- v5, armed <- v6, up <- v7,
    cmds <- v8, rx <- v9, worker <- v10, linkOf <- v11, replies <- v12, excused <- v13,
    interval_ms <- v1, notification_interval_ms <- v2, timer <- v3, lock <- v4, host <- v5,
    notifyWorker <- v6, leLink <- v7, links <- v8, request <- v9, requests <- v10,
    answer <- v11, wrong <- v12

BundleL == INSTANCE BundleEmitter WITH
    Ring <- 3, PerFrame <- 2, Config <- {1}, Rate <- 0, TickHz <- 1, MaxSamples <- 1,
    MaxQueue <- 2, MaxCalls <- 3, Class <- {k1, k2}, Port <- {0}, Ops <- {}, Cooldown <- 2,
    Saturated <- 3, Wrap <- 100, MaxPub <- 3, CacheMaxQueue <- 2, CacheMaxCalls <- 3,
    MaxTime <- 1,
    cfg <- v1, n <- v2, queue <- v3, watch <- v4, imu_enabled <- v5, ring <- v6,
    sensor_enabled <- v7, g_initialized <- v8, g_imu_on <- v9, g_sensor_on <- v10,
    g_timer_armed <- v11, s_last <- v12, lock <- v13, wk <- v14, cmd <- v15, calls <- v16,
    consumer <- v17, frames <- v18, out <- v19, mark <- v20, lost <- v21, ticks <- v22,
    port <- v1, gen <- v2, claim <- v3, topic <- v4, pubs <- v5, fd <- v6, cls <- v7,
    g_enabled <- v8, g_last_write <- v9, clock <- v10, cacheWk <- v11, cacheCmd <- v12,
    cacheCalls <- v13, snap <- v14, cacheMark <- v15, done <- v16

Bonds == INSTANCE SettingsStore WITH
    Key <- {Id, Bond}, Value <- {a1}, None <- Nil, Handler <- HostHandlers, Pieces <- 2,
    MaxOps <- 2, MaxCrashes <- 0, Unreadable <- FALSE,
    file <- v1, tmp <- v2, handlers <- v3, save <- v4, load <- v5, loaded <- v6,
    committed <- v7, acked <- v8, ops <- v9, crashes <- v10

ASSUME Instances ==
    Machines!Queue!WorkAssumption /\ Machines!Hci!BoundsAssumption /\
    Machines!Uart!BtUartAssumption /\ Machines!UartTx!BtUartAssumption /\
    Machines!Settings!SettingsAssumption /\ Machines!Daemon!LifecycleAssumption /\
    Machines!Daemon!HubTransportAssumption /\ Stream!SpikeCodecAssumption /\
    Stream!SpikeStreamAssumption /\ Noise!SpikeCodecAssumption /\ Noise!SpikeStreamAssumption /\
    Lines!CommandFeedAssumption /\ Grammar!CommandFeedAssumption /\ Values!CommandFeedAssumption
    /\ Apps!Tx!TxAssumption /\ Apps!Sched!SchedulerAssumption /\ Apps!Motor!LinkAssumption /\
    Apps!Motor!ModernNotifyAssumption /\ Apps!Bundle!BundleEmitterAssumption /\
    Apps!Bundle!SensorCacheAssumption /\ Apps!Writes!BundleEmitterAssumption /\
    Apps!Writes!SensorCacheAssumption /\ Apps!Speaker!SoundAssumption /\
    Apps!Speaker!BeepAssumption /\ Tuning!SoundAssumption /\ Tuning!BeepAssumption /\
    QueueL!WorkAssumption /\ DelayL!WorkAssumption /\ UartL!BtUartAssumption /\
    HciL!BoundsAssumption /\ DaemonL!LifecycleAssumption /\ DaemonL!HubTransportAssumption /\
    TxL!TxAssumption /\ SchedL!SchedulerAssumption /\ MotorL!LinkAssumption /\
    MotorL!ModernNotifyAssumption /\ BundleL!BundleEmitterAssumption /\
    BundleL!SensorCacheAssumption /\ Bonds!SettingsAssumption /\ Apps!OwnFiles /\ {f1, f2} \cap
    {p1} = {}

\* Un is what a machine with n variables does not have, Zn that it is unused.
U22 == part
Zero22 == TRUE
U21 == <<v22, U22>>
Zero21 == v22 = 0 /\ Zero22
U20 == <<v21, U21>>
Zero20 == v21 = 0 /\ Zero21
U19 == <<v20, U20>>
Zero19 == v20 = 0 /\ Zero20
U18 == <<v19, U19>>
Zero18 == v19 = 0 /\ Zero19
U17 == <<v18, U18>>
Zero17 == v18 = 0 /\ Zero18
U16 == <<v17, U17>>
Zero16 == v17 = 0 /\ Zero17
U15 == <<v16, U16>>
Zero15 == v16 = 0 /\ Zero16
U14 == <<v15, U15>>
Zero14 == v15 = 0 /\ Zero15
U13 == <<v14, U14>>
Zero13 == v14 = 0 /\ Zero14
U12 == <<v13, U13>>
Zero12 == v13 = 0 /\ Zero13
U11 == <<v12, U12>>
Zero11 == v12 = 0 /\ Zero12
U10 == <<v11, U11>>
Zero10 == v11 = 0 /\ Zero11
U9 == <<v10, U10>>
Zero9 == v10 = 0 /\ Zero10
U8 == <<v9, U9>>
Zero8 == v9 = 0 /\ Zero9
U7 == <<v8, U8>>
Zero7 == v8 = 0 /\ Zero8
U6 == <<v7, U7>>
Zero6 == v7 = 0 /\ Zero7
U5 == <<v6, U6>>
Zero5 == v6 = 0 /\ Zero6
U4 == <<v5, U5>>
Zero4 == v5 = 0 /\ Zero5
U3 == <<v4, U4>>
Zero3 == v4 = 0 /\ Zero4
U2 == <<v3, U3>>
Zero2 == v3 = 0 /\ Zero3
U1 == <<v2, U2>>
Zero1 == v2 = 0 /\ Zero2

all == <<part, v1, v2, v3, v4, v5, v6, v7, v8, v9, v10, v11, v12, v13, v14, v15, v16, v17, v18, v19, v20, v21, v22>>

Init ==
    /\ part \in Parts
    /\ \/ part = "queue"       /\ Machines!Queue!Init /\ Zero12
       \/ part = "hci"         /\ Machines!Hci!Init /\ Zero11
       \/ part = "uart"        /\ Machines!Uart!Init /\ Zero20
       \/ part = "uart_tx"     /\ Machines!UartTx!Init /\ Zero20
       \/ part = "settings"    /\ Machines!Settings!Init /\ Zero10
       \/ part = "daemon"      /\ Machines!Daemon!Init /\ Zero15
       \/ part = "link"        /\ Machines!Daemon!HubInit /\ Zero20
       \/ part = "stream"      /\ Stream!Init /\ Zero6
       \/ part = "junk"        /\ Noise!Init /\ Zero6
       \/ part = "table"       /\ Stream!TableInit /\ Zero1
       \/ part = "lines"       /\ Lines!Init /\ Zero6
       \/ part = "words"       /\ Grammar!Init /\ Zero6
       \/ part = "values"      /\ Values!Init /\ Zero6
       \/ part = "tx"          /\ Apps!Tx!Init /\ Zero14
       \/ part = "drain"       /\ Apps!Tx!DrainInit /\ Zero8
       \/ part = "sched"       /\ Apps!Sched!Init /\ Zero11
       \/ part = "motor"       /\ Apps!Motor!Init /\ Zero13
       \/ part = "notify"      /\ Apps!Motor!NotifyInit /\ Zero12
       \/ part = "bundle"      /\ Apps!Bundle!Init /\ Zero22
       \/ part = "paced"       /\ Apps!Writes!PacedInit /\ Zero22
       \/ part = "cache"       /\ Apps!Bundle!CacheInit /\ Zero16
       \/ part = "writes"      /\ Apps!Writes!CacheInit /\ Zero16
       \/ part = "sound"       /\ Apps!Speaker!Init /\ Zero8
       \/ part = "notes"       /\ Tuning!Init /\ Zero8
       \/ part = "beep"        /\ Apps!Speaker!BeepInit /\ Zero11
       \/ part = "queue_live"  /\ QueueL!Init /\ Zero12
       \/ part = "delay_live"  /\ DelayL!Init /\ Zero12
       \/ part = "uart_live"   /\ UartL!Init /\ Zero20
       \/ part = "hci_live"    /\ HciL!Init /\ Zero11
       \/ part = "daemon_live" /\ DaemonL!Init /\ Zero15
       \/ part = "drain_live"  /\ TxL!DrainInit /\ Zero8
       \/ part = "sched_live"  /\ SchedL!Init /\ Zero11
       \/ part = "motor_live"  /\ MotorL!Init /\ Zero13
       \/ part = "bundle_live" /\ BundleL!Init /\ Zero22
       \/ part = "beep_live"   /\ Tuning!BeepInit /\ Zero11
       \/ part = "bond"        /\ Bonds!Init /\ Zero10

Next ==
    \/ part = "queue"       /\ Machines!Queue!Next /\ UNCHANGED U12
    \/ part = "hci"         /\ Machines!Hci!Next /\ UNCHANGED U11
    \/ part = "uart"        /\ Machines!Uart!Next /\ UNCHANGED U20
    \/ part = "uart_tx"     /\ Machines!UartTx!Next /\ UNCHANGED U20
    \/ part = "settings"    /\ Machines!Settings!Next /\ UNCHANGED U10
    \/ part = "daemon"      /\ Machines!Daemon!Next /\ UNCHANGED U15
    \/ part = "link"        /\ Machines!Daemon!HubNext /\ UNCHANGED U20
    \/ part = "stream"      /\ Stream!Next /\ UNCHANGED U6
    \/ part = "junk"        /\ Noise!Next /\ UNCHANGED U6
    \/ part = "table"       /\ Stream!TableNext /\ UNCHANGED U1
    \/ part = "lines"       /\ Lines!Next /\ UNCHANGED U6
    \/ part = "words"       /\ Grammar!Next /\ UNCHANGED U6
    \/ part = "values"      /\ Values!Next /\ UNCHANGED U6
    \/ part = "tx"          /\ Apps!Tx!Next /\ UNCHANGED U14
    \/ part = "drain"       /\ Apps!Tx!DrainNext /\ UNCHANGED U8
    \/ part = "sched"       /\ Apps!Sched!Next /\ UNCHANGED U11
    \/ part = "motor"       /\ Apps!Motor!Next /\ UNCHANGED U13
    \/ part = "notify"      /\ Apps!Motor!NotifyNext /\ UNCHANGED U12
    \/ part = "bundle"      /\ Apps!Bundle!Next /\ UNCHANGED U22
    \/ part = "paced"       /\ Apps!Writes!PacedNext /\ UNCHANGED U22
    \/ part = "cache"       /\ Apps!Bundle!CacheNext /\ UNCHANGED U16
    \/ part = "writes"      /\ Apps!Writes!CacheNext /\ UNCHANGED U16
    \/ part = "sound"       /\ Apps!Speaker!Next /\ UNCHANGED U8
    \/ part = "notes"       /\ Tuning!Next /\ UNCHANGED U8
    \/ part = "beep"        /\ Apps!Speaker!BeepNext /\ UNCHANGED U11
    \/ part = "queue_live"  /\ QueueL!Next /\ UNCHANGED U12
    \/ part = "delay_live"  /\ DelayL!Next /\ UNCHANGED U12
    \/ part = "uart_live"   /\ UartL!Next /\ UNCHANGED U20
    \/ part = "hci_live"    /\ HciL!Next /\ UNCHANGED U11
    \/ part = "daemon_live" /\ DaemonL!Next /\ UNCHANGED U15
    \/ part = "drain_live"  /\ TxL!DrainNext /\ UNCHANGED U8
    \/ part = "sched_live"  /\ SchedL!Next /\ UNCHANGED U11
    \/ part = "motor_live"  /\ MotorL!Next /\ UNCHANGED U13
    \/ part = "bundle_live" /\ BundleL!Next /\ UNCHANGED U22
    \/ part = "beep_live"   /\ Tuning!BeepNext /\ UNCHANGED U11
    \/ part = "bond"        /\ Bonds!Next /\ UNCHANGED U10

Spec == Init /\ [][Next]_all

\* The fairness of each machine is that of its FairSpec.  A behaviour is of one machine, so
\* that the first, second, ... fair action of all of them can be named together.
W1 ==
    \/ part = "uart_tx"     /\ Machines!UartTx!FallQuiet /\ UNCHANGED U20
    \/ part = "queue_live"  /\ QueueL!Worker /\ UNCHANGED U12
    \/ part = "delay_live"  /\ DelayL!Worker /\ UNCHANGED U12
    \/ part = "uart_live"   /\ UartL!FallQuiet /\ UNCHANGED U20
    \/ part = "hci_live"    /\ HciL!Rx /\ UNCHANGED U11
    \/ part = "daemon_live" /\ DaemonL!Returning /\ UNCHANGED U15
    \/ part = "drain_live"  /\ TxL!Progress(d1) /\ UNCHANGED U8
    \/ part = "sched_live"  /\ SchedL!WorkerStep /\ UNCHANGED U11
    \/ part = "motor_live"  /\ MotorL!RxStep /\ UNCHANGED U13
    \/ part = "bundle_live" /\ BundleL!Process /\ UNCHANGED U22
    \/ part = "beep_live"   /\ Tuning!Op /\ UNCHANGED U11
W2 ==
    \/ part = "uart_tx"     /\ Machines!UartTx!Isr /\ UNCHANGED U20
    \/ part = "queue_live"  /\ QueueL!Timer(s1) /\ UNCHANGED U12
    \/ part = "delay_live"  /\ DelayL!Timer(s1) /\ UNCHANGED U12
    \/ part = "uart_live"   /\ UartL!Isr /\ UNCHANGED U20
    \/ part = "hci_live"    /\ HciL!Join /\ UNCHANGED U11
    \/ part = "daemon_live" /\ DaemonL!StopStep(x1) /\ UNCHANGED U15
    \/ part = "drain_live"  /\ TxL!Progress(d2) /\ UNCHANGED U8
    \/ part = "sched_live"  /\ SchedL!Joined /\ UNCHANGED U11
    \/ part = "motor_live"  /\ MotorL!WorkerStep /\ UNCHANGED U13
    \/ part = "bundle_live" /\ BundleL!TickLock /\ UNCHANGED U22
    \/ part = "beep_live"   /\ Tuning!Expire /\ UNCHANGED U11
W3 ==
    \/ part = "uart_tx"     /\ Machines!UartTx!ReaderGoesOn /\ UNCHANGED U20
    \/ part = "queue_live"  /\ QueueL!Progress(c1) /\ UNCHANGED U12
    \/ part = "delay_live"  /\ DelayL!Progress(c1) /\ UNCHANGED U12
    \/ part = "uart_live"   /\ UartL!ReaderGoesOn /\ UNCHANGED U20
    \/ part = "hci_live"    /\ HciL!PeerTake /\ UNCHANGED U11
    \/ part = "bundle_live" /\ BundleL!Emit /\ UNCHANGED U22
    \/ part = "beep_live"   /\ Tuning!TimerExpired /\ UNCHANGED U11
W4 ==
    \/ part = "uart_tx"     /\ Machines!UartTx!CtsReturns /\ UNCHANGED U20
    \/ part = "delay_live"  /\ DelayL!Progress(c2) /\ UNCHANGED U12
    \/ part = "uart_live"   /\ UartL!CtsReturns /\ UNCHANGED U20
    \/ part = "beep_live"   /\ Tuning!ShutdownGoesOn /\ UNCHANGED U11
W5 ==
    \/ part = "beep_live"   /\ Tuning!ConDone /\ UNCHANGED U11
S1 ==
    \/ part = "uart_tx"     /\ Machines!UartTx!Shift /\ UNCHANGED U20
    \/ part = "notify"      /\ Apps!Motor!HostStep /\ UNCHANGED U12
    \/ part = "uart_live"   /\ UartL!Shift /\ UNCHANGED U20
    \/ part = "daemon_live" /\ DaemonL!DaemonStep(1) /\ UNCHANGED U15
    \/ part = "drain_live"  /\ TxL!Fires /\ UNCHANGED U8
    \/ part = "sched_live"  /\ SchedL!StopReturns(imu) /\ UNCHANGED U11
    \/ part = "motor_live"  /\ MotorL!DueOf(1) /\ UNCHANGED U13
    \/ part = "bundle_live" /\ BundleL!Command /\ UNCHANGED U22
S2 ==
    \/ part = "uart_tx"     /\ Machines!UartTx!WriterStep(x1) /\ UNCHANGED U20
    \/ part = "notify"      /\ Apps!Motor!NotifyWorkerStep /\ UNCHANGED U12
    \/ part = "daemon_live" /\ DaemonL!DaemonStep(2) /\ UNCHANGED U15
    \/ part = "sched_live"  /\ SchedL!StopReturns(classicLink) /\ UNCHANGED U11
S3 ==
    \/ part = "uart_tx"     /\ Machines!UartTx!WriterStep(x2) /\ UNCHANGED U20
    \/ part = "sched_live"  /\ SchedL!StopReturns(notifier) /\ UNCHANGED U11

FairSpec == Spec /\ WF_all(W1) /\ WF_all(W2) /\ WF_all(W3) /\ WF_all(W4) /\ WF_all(W5)
                 /\ SF_all(S1) /\ SF_all(S2) /\ SF_all(S3)

-----------------------------------------------------------------------------
\* Every machine keeps its types: queues, rings and counters their bounds.
TypeOK ==
    /\ part = "queue"       => Machines!Queue!TypeOK
    /\ part = "hci"         => Machines!Hci!TypeOK
    /\ part = "uart"        => Machines!Uart!RxTypeOK
    /\ part = "uart_tx"     => Machines!UartTx!TxTypeOK
    /\ part = "settings"    => Machines!Settings!TypeOK
    /\ part = "tx"          => Apps!Tx!TypeOK
    /\ part = "sched"       => Apps!Sched!TypeOK
    /\ part = "notify"      => Apps!Motor!NotifyTypeOK
    /\ part = "bundle"      => Apps!Bundle!TypeOK
    /\ part = "sound"       => Apps!Speaker!TypeOK
    /\ part = "beep"        => Apps!Speaker!BeepTypeOK

\* What was stopped, cancelled, closed or shut down stays so, and leaves nothing behind that
\* acts for it: work items and timers cancelled synchronously, the closed controller, the
\* Bluetooth daemon, advertising after `bt off', watches and timers of the scheduler, drain
\* registrations, the motors of a lost link, notifications of an ended subscription, the sensor
\* stream, tones and beeps.
StopIsKept ==
    /\ part = "queue"       => Machines!Queue!CancelSyncIsFinal
    /\ part = "hci"         => Machines!Hci!ClosedIsOff
    /\ part = "daemon"      => /\ Machines!Daemon!EndsClean /\ Machines!Daemon!StoppedIsDown
    /\ part = "link"        => Machines!Daemon!OffIsOff
    /\ part = "drain"       => Apps!Tx!OneTerminal
    /\ part = "sched"       => Apps!Sched!StopIsFinal
    /\ part = "motor"       => Apps!Motor!DisconnectStops
    /\ part = "notify"      => Apps!Motor!EndedIsQuiet
    /\ part = "bundle"      => Apps!Bundle!Stopped
    /\ part = "sound"       => Apps!Speaker!ClosedIsSilent
    /\ part = "beep"        => Apps!Speaker!ShutMeansShut

\* What is sent arrives once, in order, whole, and at the connection it belongs to: frames into
\* and out of the controller while it sleeps and wakes, bytes of the UART, responses and
\* telemetry of the transmit queues, command lines and their answers, framed messages and their
\* encoding, motor replies, notifications and sensor samples, across disconnects and
\* reconnects; and a note sounds at its pitch.
NothingLostOrMixed ==
    /\ part = "hci"         => /\ Machines!Hci!NoFrameIntoSleep /\ Machines!Hci!Accounted
                               /\ Machines!Hci!NoHciFault
    /\ part = "uart"        => Machines!Uart!RxInOrder
    /\ part = "daemon"      => /\ Machines!Daemon!RxServed /\ Machines!Daemon!OwnRequest
    /\ part = "link"        => Machines!Daemon!SentToItsOwn
    /\ part = "stream"      => /\ Stream!MessagesInOrder /\ Stream!NothingLost
                               /\ Stream!SameMessages
    /\ part = "junk"        => /\ Noise!MessagesInOrder /\ Noise!NothingLost /\ Noise!TypeOK
    /\ part = "table"       => /\ Stream!RoundTrip /\ Stream!Transparent /\ Stream!FitsExactly
                               /\ Stream!UnpackIsSafe /\ Stream!TableTypeOK
    /\ part = "lines"       => /\ Lines!Executed /\ Lines!LineAnswered
    /\ part = "words"       => Grammar!Executed
    /\ part = "values"      => Values!Executed
    /\ part = "tx"          => /\ Apps!Tx!TxInOrder /\ Apps!Tx!BleOwnConnection
                               /\ Apps!Tx!QueueIsCurrent
    /\ part = "motor"       => Apps!Motor!OneReply
    /\ part = "notify"      => /\ Apps!Motor!NoStaleNotification /\ Apps!Motor!AnswerIsTrue
    /\ part = "bundle"      => Apps!Bundle!Homogeneous
    /\ part = "paced"       => Apps!Writes!NoLoss
    /\ part = "notes"       => Tuning!InTune

\* What a component keeps about itself and the others is true: counters and queues keep their
\* bounds, each queue and table entry is there once, flags and latches stand for what they say,
\* references and claims are given back, a stored key is the old or the new one although power
\* is lost, a cached value is of the device it names, and whoever makes a sound knows who ends
\* it.
BooksAreTrue ==
    /\ TypeOK
    /\ part = "queue"       => Machines!Queue!LinkedOnce
    /\ part = "uart"        => /\ Machines!Uart!WokenOrWillBe /\ Machines!Uart!LatchMeansBytes
    /\ part = "settings"    => /\ Machines!Settings!KeyWhole /\ Machines!Settings!NoLitter
                               /\ Machines!Settings!CommitsInOrder
    /\ part = "link"        => /\ Machines!Daemon!RefsBalanced /\ Machines!Daemon!Alternating
                               /\ Machines!Daemon!FoundAgain
    /\ part = "tx"          => Apps!Tx!PumpingIsOwned
    /\ part = "drain"       => Apps!Tx!Reconciled
    /\ part = "sched"       => /\ Apps!Sched!OneCallback /\ Apps!Sched!ListedOnce
    /\ part = "motor"       => Apps!Motor!OwnerDrives
    /\ part = "bundle"      => Apps!Bundle!Agree
    /\ part = "cache"       => /\ Apps!Bundle!ReadsOpen /\ Apps!Bundle!FreshIsTrue
    /\ part = "writes"      => /\ Apps!Writes!ClaimReturned /\ Apps!Writes!PortIsTrue
                               /\ Apps!Writes!CooledDown
    /\ part = "sound"       => Apps!Speaker!Unowned
    /\ part = "beep"        => /\ Apps!Speaker!SomebodyEnds /\ Apps!Speaker!OwnExpiry

\* No step does what is another's to do: the baud rate never changes under a byte, a load hands
\* out what is stored, a worker ends only the run it chose, samples are emitted in order and
\* never from before an OFF, a stop silences the tone it was meant for, and a link ends only
\* its own beep.
StepsAreTheirs ==
    [][ /\ part = "uart_tx"     => Machines!UartTx!BaudQuiet
        /\ part = "settings"    => Machines!Settings!LoadIsTrue
        /\ part = "motor"       => Apps!Motor!EndsOwn
        /\ part = "bundle"      => /\ Apps!Bundle!SamplesInOrder /\ Apps!Bundle!NoStale
        /\ part = "cache"       => /\ Apps!Bundle!CacheNoStale /\ Apps!Bundle!ShownOnce
        /\ part = "sound"       => Apps!Speaker!HitIsQuiet
        /\ part = "beep"        => Apps!Speaker!OwnLink ]_all

\* On a medium that can be read, Bluetooth starts: what was saved can be loaded again.
LoadSucceeds == part = "bond" => Bonds!LoadSucceeds

\* What each machine waits for, and what ends the waiting.  A behaviour is of one machine, so
\* that the first, second, ... of all of them can be named together.
Due1 ==
    \/ part = "queue_live"  /\ QueueL!DelayEndsDue(w1)
    \/ part = "delay_live"  /\ DelayL!DelayEndsDue(w1)
    \/ part = "hci_live"    /\ HciL!WokenDue
    \/ part = "uart_live"   /\ UartL!ReaderWakesDue
    \/ part = "uart_tx"     /\ Machines!UartTx!TxEndsDue(x1)
    \/ part = "daemon_live" /\ DaemonL!StopCommandEndsDue(x1)
    \/ part = "drain_live"  /\ TxL!TimedEndsDue
    \/ part = "sched_live"  /\ SchedL!StopsReturnDue(imu)
    \/ part = "motor_live"  /\ MotorL!RunAnsweredDue(1)
    \/ part = "notify"      /\ Apps!Motor!NotifyAnsweredDue
    \/ part = "bundle_live" /\ BundleL!CommandsEndDue
    \/ part = "beep_live"   /\ Tuning!BeepsEndDue
Met1 ==
    \/ part = "queue_live"  /\ QueueL!DelayEndsMet(w1)
    \/ part = "delay_live"  /\ DelayL!DelayEndsMet(w1)
    \/ part = "hci_live"    /\ HciL!WokenMet
    \/ part = "uart_live"   /\ UartL!ReaderWakesMet
    \/ part = "uart_tx"     /\ Machines!UartTx!TxEndsMet(x1)
    \/ part = "daemon_live" /\ DaemonL!StopCommandEndsMet(x1)
    \/ part = "drain_live"  /\ TxL!TimedEndsMet
    \/ part = "sched_live"  /\ SchedL!StopsReturnMet(imu)
    \/ part = "motor_live"  /\ MotorL!RunAnsweredMet(1)
    \/ part = "notify"      /\ Apps!Motor!NotifyAnsweredMet
    \/ part = "bundle_live" /\ BundleL!CommandsEndMet
    \/ part = "beep_live"   /\ Tuning!BeepsEndMet
Due2 ==
    \/ part = "queue_live"  /\ QueueL!DelayEndsDue(w2)
    \/ part = "delay_live"  /\ DelayL!QueuedEndsDue(w1)
    \/ part = "hci_live"    /\ HciL!CloseEndsDue
    \/ part = "uart_tx"     /\ Machines!UartTx!TxEndsDue(x2)
    \/ part = "sched_live"  /\ SchedL!StopsReturnDue(classicLink)
    \/ part = "motor_live"  /\ MotorL!RunAnsweredDue(2)
    \/ part = "beep_live"   /\ Tuning!OpsReturnDue
Met2 ==
    \/ part = "queue_live"  /\ QueueL!DelayEndsMet(w2)
    \/ part = "delay_live"  /\ DelayL!QueuedEndsMet(w1)
    \/ part = "hci_live"    /\ HciL!CloseEndsMet
    \/ part = "uart_tx"     /\ Machines!UartTx!TxEndsMet(x2)
    \/ part = "sched_live"  /\ SchedL!StopsReturnMet(classicLink)
    \/ part = "motor_live"  /\ MotorL!RunAnsweredMet(2)
    \/ part = "beep_live"   /\ Tuning!OpsReturnMet
Due3 ==
    \/ part = "queue_live"  /\ QueueL!QueuedEndsDue(w1)
    \/ part = "sched_live"  /\ SchedL!StopsReturnDue(notifier)
Met3 ==
    \/ part = "queue_live"  /\ QueueL!QueuedEndsMet(w1)
    \/ part = "sched_live"  /\ SchedL!StopsReturnMet(notifier)
Due4 ==
    \/ part = "queue_live"  /\ QueueL!QueuedEndsDue(w2)
    \/ part = "sched_live"  /\ SchedL!ReleaseEndsDue
Met4 ==
    \/ part = "queue_live"  /\ QueueL!QueuedEndsMet(w2)
    \/ part = "sched_live"  /\ SchedL!ReleaseEndsMet

\* Whatever the stack waits for happens: delays and queued work end, the controller is woken
\* and closed, readers and writers of the UART go on, stops, drains, motor runs, notifications,
\* commands and beeps end.
AllEnds ==
    (Due1 ~> Met1) /\ (Due2 ~> Met2) /\ (Due3 ~> Met3) /\ (Due4 ~> Met4)

-----------------------------------------------------------------------------
(***************************************************************************)
(* What the theorems about the machines say of the composition: a          *)
(* behaviour of Spec that starts in a machine is one of that machine.      *)
(***************************************************************************)

(* An initial state of a machine's part is one of the machine.             *)
LEMMA PartStarts ==
  Init =>
    /\ part = "queue"         => Machines!Queue!Init
    /\ part = "hci"           => Machines!Hci!Init
    /\ part = "uart"          => Machines!Uart!Init
    /\ part = "uart_tx"       => Machines!UartTx!Init
    /\ part = "settings"      => Machines!Settings!Init
    /\ part = "daemon"        => Machines!Daemon!Init
    /\ part = "link"          => Machines!Daemon!HubInit
    /\ part = "tx"            => Apps!Tx!Init
    /\ part = "drain"         => Apps!Tx!DrainInit
    /\ part = "sched"         => Apps!Sched!Init
    /\ part = "motor"         => Apps!Motor!Init
    /\ part = "notify"        => Apps!Motor!NotifyInit
    /\ part = "bundle"        => Apps!Bundle!Init
    /\ part = "cache"         => Apps!Bundle!CacheInit
    /\ part = "writes"        => Apps!Writes!CacheInit
    /\ part = "sound"         => Apps!Speaker!Init
    /\ part = "beep"          => Apps!Speaker!BeepInit
  BY DEF Init

(* A step of the composition is one of its machine or leaves that alone,   *)
(* and the next step will be of the same machine.                          *)
LEMMA PartSteps ==
  [Next]_all =>
    /\ part = "queue"         <=> (part = "queue")'
    /\ part = "hci"           <=> (part = "hci")'
    /\ part = "uart"          <=> (part = "uart")'
    /\ part = "uart_tx"       <=> (part = "uart_tx")'
    /\ part = "settings"      <=> (part = "settings")'
    /\ part = "daemon"        <=> (part = "daemon")'
    /\ part = "link"          <=> (part = "link")'
    /\ part = "tx"            <=> (part = "tx")'
    /\ part = "drain"         <=> (part = "drain")'
    /\ part = "sched"         <=> (part = "sched")'
    /\ part = "motor"         <=> (part = "motor")'
    /\ part = "notify"        <=> (part = "notify")'
    /\ part = "bundle"        <=> (part = "bundle")'
    /\ part = "cache"         <=> (part = "cache")'
    /\ part = "writes"        <=> (part = "writes")'
    /\ part = "sound"         <=> (part = "sound")'
    /\ part = "beep"          <=> (part = "beep")'
    /\ part = "queue"         => [Machines!Queue!Next]_(Machines!Queue!vars)
    /\ part = "hci"           => [Machines!Hci!Next]_(Machines!Hci!vars)
    /\ part = "uart"          => [Machines!Uart!Next]_(Machines!Uart!vars)
    /\ part = "uart_tx"       => [Machines!UartTx!Next]_(Machines!UartTx!vars)
    /\ part = "settings"      => [Machines!Settings!Next]_(Machines!Settings!vars)
    /\ part = "daemon"        => [Machines!Daemon!Next]_(Machines!Daemon!vars)
    /\ part = "link"          => [Machines!Daemon!HubNext]_(Machines!Daemon!hubVars)
    /\ part = "tx"            => [Apps!Tx!Next]_(Apps!Tx!vars)
    /\ part = "drain"         => [Apps!Tx!DrainNext]_(Apps!Tx!drainVars)
    /\ part = "sched"         => [Apps!Sched!Next]_(Apps!Sched!vars)
    /\ part = "motor"         => [Apps!Motor!Next]_(Apps!Motor!vars)
    /\ part = "notify"        => [Apps!Motor!NotifyNext]_(Apps!Motor!notifyVars)
    /\ part = "bundle"        => [Apps!Bundle!Next]_(Apps!Bundle!vars)
    /\ part = "cache"         => [Apps!Bundle!CacheNext]_(Apps!Bundle!cacheVars)
    /\ part = "writes"        => [Apps!Writes!CacheNext]_(Apps!Writes!cacheVars)
    /\ part = "sound"         => [Apps!Speaker!Next]_(Apps!Speaker!vars)
    /\ part = "beep"          => [Apps!Speaker!BeepNext]_(Apps!Speaker!beepVars)
PROOF
  <1> SUFFICES ASSUME [Next]_all PROVE /\ part' = part
                                       /\ part = "queue" => [Machines!Queue!Next]_(Machines!Queue!vars)
                                       /\ part = "hci" => [Machines!Hci!Next]_(Machines!Hci!vars)
                                       /\ part = "uart" => [Machines!Uart!Next]_(Machines!Uart!vars)
                                       /\ part = "uart_tx" => [Machines!UartTx!Next]_(Machines!UartTx!vars)
                                       /\ part = "settings" => [Machines!Settings!Next]_(Machines!Settings!vars)
                                       /\ part = "daemon" => [Machines!Daemon!Next]_(Machines!Daemon!vars)
                                       /\ part = "link" => [Machines!Daemon!HubNext]_(Machines!Daemon!hubVars)
                                       /\ part = "tx" => [Apps!Tx!Next]_(Apps!Tx!vars)
                                       /\ part = "drain" => [Apps!Tx!DrainNext]_(Apps!Tx!drainVars)
                                       /\ part = "sched" => [Apps!Sched!Next]_(Apps!Sched!vars)
                                       /\ part = "motor" => [Apps!Motor!Next]_(Apps!Motor!vars)
                                       /\ part = "notify" => [Apps!Motor!NotifyNext]_(Apps!Motor!notifyVars)
                                       /\ part = "bundle" => [Apps!Bundle!Next]_(Apps!Bundle!vars)
                                       /\ part = "cache" => [Apps!Bundle!CacheNext]_(Apps!Bundle!cacheVars)
                                       /\ part = "writes" => [Apps!Writes!CacheNext]_(Apps!Writes!cacheVars)
                                       /\ part = "sound" => [Apps!Speaker!Next]_(Apps!Speaker!vars)
                                       /\ part = "beep" => [Apps!Speaker!BeepNext]_(Apps!Speaker!beepVars)
    OBVIOUS
  <1>1. part' = part
    <2>1. UNCHANGED U22 => part' = part
      BY DEF U22
    <2>2. UNCHANGED U20 => UNCHANGED U22
      BY DEF U20, U21
    <2>3. UNCHANGED U16 => UNCHANGED U20
      BY DEF U16, U17, U18, U19
    <2>4. UNCHANGED U15 => UNCHANGED U16
      BY DEF U15
    <2>5. UNCHANGED U14 => UNCHANGED U15
      BY DEF U14
    <2>6. UNCHANGED U13 => UNCHANGED U14
      BY DEF U13
    <2>7. UNCHANGED U12 => UNCHANGED U13
      BY DEF U12
    <2>8. UNCHANGED U11 => UNCHANGED U12
      BY DEF U11
    <2>9. UNCHANGED U10 => UNCHANGED U11
      BY DEF U10
    <2>10. UNCHANGED U8 => UNCHANGED U10
      BY DEF U8, U9
    <2>11. UNCHANGED U6 => UNCHANGED U8
      BY DEF U6, U7
    <2>12. UNCHANGED U1 => UNCHANGED U6
      BY DEF U1, U2, U3, U4, U5
    <2>13. QED
      BY <2>1, <2>2, <2>3, <2>4, <2>5, <2>6, <2>7, <2>8, <2>9, <2>10, <2>11, <2>12 DEF Next,
             all
  <1>2. ASSUME part = "queue" PROVE [Machines!Queue!Next]_(Machines!Queue!vars)
    <2>1. CASE Machines!Queue!Next /\ UNCHANGED U12
      BY <2>1
    <2>2. CASE UNCHANGED all
      BY <2>2 DEF all, Machines!Queue!vars, Machines!Queue!itemVars
    <2>3. QED
      BY <1>2, <2>1, <2>2 DEF Next
  <1>3. ASSUME part = "hci" PROVE [Machines!Hci!Next]_(Machines!Hci!vars)
    <2>1. CASE Machines!Hci!Next /\ UNCHANGED U11
      BY <2>1
    <2>2. CASE UNCHANGED all
      BY <2>2 DEF all, Machines!Hci!vars, Machines!Hci!link
    <2>3. QED
      BY <1>3, <2>1, <2>2 DEF Next
  <1>4. ASSUME part = "uart" PROVE [Machines!Uart!Next]_(Machines!Uart!vars)
    <2>1. CASE Machines!Uart!Next /\ UNCHANGED U20
      BY <2>1
    <2>2. CASE UNCHANGED all
      BY <2>2 DEF all, Machines!Uart!vars, Machines!Uart!rxv, Machines!Uart!txv
    <2>3. QED
      BY <1>4, <2>1, <2>2 DEF Next
  <1>5. ASSUME part = "uart_tx" PROVE [Machines!UartTx!Next]_(Machines!UartTx!vars)
    <2>1. CASE Machines!UartTx!Next /\ UNCHANGED U20
      BY <2>1
    <2>2. CASE UNCHANGED all
      BY <2>2 DEF all, Machines!UartTx!vars, Machines!UartTx!rxv, Machines!UartTx!txv
    <2>3. QED
      BY <1>5, <2>1, <2>2 DEF Next
  <1>6. ASSUME part = "settings" PROVE [Machines!Settings!Next]_(Machines!Settings!vars)
    <2>1. CASE Machines!Settings!Next /\ UNCHANGED U10
      BY <2>1
    <2>2. CASE UNCHANGED all
      BY <2>2 DEF all, Machines!Settings!vars
    <2>3. QED
      BY <1>6, <2>1, <2>2 DEF Next
  <1>7. ASSUME part = "daemon" PROVE [Machines!Daemon!Next]_(Machines!Daemon!vars)
    <2>1. CASE Machines!Daemon!Next /\ UNCHANGED U15
      BY <2>1
    <2>2. CASE UNCHANGED all
      BY <2>2 DEF all, Machines!Daemon!vars
    <2>3. QED
      BY <1>7, <2>1, <2>2 DEF Next
  <1>8. ASSUME part = "link" PROVE [Machines!Daemon!HubNext]_(Machines!Daemon!hubVars)
    <2>1. CASE Machines!Daemon!HubNext /\ UNCHANGED U20
      BY <2>1
    <2>2. CASE UNCHANGED all
      BY <2>2 DEF all, Machines!Daemon!hubVars
    <2>3. QED
      BY <1>8, <2>1, <2>2 DEF Next
  <1>9. ASSUME part = "tx" PROVE [Apps!Tx!Next]_(Apps!Tx!vars)
    <2>1. CASE Apps!Tx!Next /\ UNCHANGED U14
      BY <2>1
    <2>2. CASE UNCHANGED all
      BY <2>2 DEF all, Apps!Tx!vars, Apps!Tx!tx, Apps!Tx!transport
    <2>3. QED
      BY <1>9, <2>1, <2>2 DEF Next
  <1>10. ASSUME part = "drain" PROVE [Apps!Tx!DrainNext]_(Apps!Tx!drainVars)
    <2>1. CASE Apps!Tx!DrainNext /\ UNCHANGED U8
      BY <2>1
    <2>2. CASE UNCHANGED all
      BY <2>2 DEF all, Apps!Tx!drainVars
    <2>3. QED
      BY <1>10, <2>1, <2>2 DEF Next
  <1>11. ASSUME part = "sched" PROVE [Apps!Sched!Next]_(Apps!Sched!vars)
    <2>1. CASE Apps!Sched!Next /\ UNCHANGED U11
      BY <2>1
    <2>2. CASE UNCHANGED all
      BY <2>2 DEF all, Apps!Sched!vars, Apps!Sched!flags, Apps!Sched!slots,
             Apps!Sched!history
    <2>3. QED
      BY <1>11, <2>1, <2>2 DEF Next
  <1>12. ASSUME part = "motor" PROVE [Apps!Motor!Next]_(Apps!Motor!vars)
    <2>1. CASE Apps!Motor!Next /\ UNCHANGED U13
      BY <2>1
    <2>2. CASE UNCHANGED all
      BY <2>2 DEF all, Apps!Motor!vars, Apps!Motor!backend, Apps!Motor!classic,
             Apps!Motor!history
    <2>3. QED
      BY <1>12, <2>1, <2>2 DEF Next
  <1>13. ASSUME part = "notify" PROVE [Apps!Motor!NotifyNext]_(Apps!Motor!notifyVars)
    <2>1. CASE Apps!Motor!NotifyNext /\ UNCHANGED U12
      BY <2>1
    <2>2. CASE UNCHANGED all
      BY <2>2 DEF all, Apps!Motor!notifyVars
    <2>3. QED
      BY <1>13, <2>1, <2>2 DEF Next
  <1>14. ASSUME part = "bundle" PROVE [Apps!Bundle!Next]_(Apps!Bundle!vars)
    <2>1. CASE Apps!Bundle!Next /\ UNCHANGED U22
      BY <2>1
    <2>2. CASE UNCHANGED all
      BY <2>2 DEF all, Apps!Bundle!vars
    <2>3. QED
      BY <1>14, <2>1, <2>2 DEF Next
  <1>15. ASSUME part = "cache" PROVE [Apps!Bundle!CacheNext]_(Apps!Bundle!cacheVars)
    <2>1. CASE Apps!Bundle!CacheNext /\ UNCHANGED U16
      BY <2>1
    <2>2. CASE UNCHANGED all
      BY <2>2 DEF all, Apps!Bundle!cacheVars
    <2>3. QED
      BY <1>15, <2>1, <2>2 DEF Next
  <1>16. ASSUME part = "writes" PROVE [Apps!Writes!CacheNext]_(Apps!Writes!cacheVars)
    <2>1. CASE Apps!Writes!CacheNext /\ UNCHANGED U16
      BY <2>1
    <2>2. CASE UNCHANGED all
      BY <2>2 DEF all, Apps!Writes!cacheVars
    <2>3. QED
      BY <1>16, <2>1, <2>2 DEF Next
  <1>17. ASSUME part = "sound" PROVE [Apps!Speaker!Next]_(Apps!Speaker!vars)
    <2>1. CASE Apps!Speaker!Next /\ UNCHANGED U8
      BY <2>1
    <2>2. CASE UNCHANGED all
      BY <2>2 DEF all, Apps!Speaker!vars
    <2>3. QED
      BY <1>17, <2>1, <2>2 DEF Next
  <1>18. ASSUME part = "beep" PROVE [Apps!Speaker!BeepNext]_(Apps!Speaker!beepVars)
    <2>1. CASE Apps!Speaker!BeepNext /\ UNCHANGED U11
      BY <2>1
    <2>2. CASE UNCHANGED all
      BY <2>2 DEF all, Apps!Speaker!beepVars
    <2>3. QED
      BY <1>18, <2>1, <2>2 DEF Next
  <1>19. QED
    BY <1>1, <1>2, <1>3, <1>4, <1>5, <1>6, <1>7, <1>8, <1>9, <1>10, <1>11, <1>12, <1>13,
           <1>14, <1>15, <1>16, <1>17, <1>18

(* What was stopped, cancelled, closed or shut down stays so in every      *)
(* machine of the stack: the theorems about cancelled work, the closed     *)
(* controller, the daemon and the commands that wait for it, advertising,  *)
(* drains, the scheduler, lost links, notifications, the sensor stream,    *)
(* tones and beeps, together.                                              *)
THEOREM BluetoothStops == Spec => []StopIsKept
PROOF
  <1>1. Spec => [](part = "queue" => Machines!Queue!CancelSyncIsFinal)
    <2>1. Machines!Queue!Spec => []Machines!Queue!CancelSyncIsFinal
      BY Machines!CancelledIsLeftAlone, Instances
    <2>2. Init => (part = "queue" => Machines!Queue!Init)
      BY PartStarts
    <2>3. [Next]_all => (part = "queue" <=> (part = "queue")')
                     /\ (part = "queue" => [Machines!Queue!Next]_(Machines!Queue!vars))
      BY PartSteps
    <2>4. QED
      BY <2>1, <2>2, <2>3, PTL DEF Spec, Machines!Queue!Spec
  <1>2. Spec => [](part = "hci" => Machines!Hci!ClosedIsOff)
    <2>1. Machines!Hci!Spec => []Machines!Hci!ClosedIsOff
      BY Machines!ClosedControllerIsOff, Instances
    <2>2. Init => (part = "hci" => Machines!Hci!Init)
      BY PartStarts
    <2>3. [Next]_all => (part = "hci" <=> (part = "hci")')
                     /\ (part = "hci" => [Machines!Hci!Next]_(Machines!Hci!vars))
      BY PartSteps
    <2>4. QED
      BY <2>1, <2>2, <2>3, PTL DEF Spec, Machines!Hci!Spec
  <1>3. Spec => [](part = "daemon" => Machines!Daemon!EndsClean)
    <2>1. Machines!Daemon!Spec => []Machines!Daemon!EndsClean
      BY Machines!DaemonEndsClean, Instances
    <2>2. Init => (part = "daemon" => Machines!Daemon!Init)
      BY PartStarts
    <2>3. [Next]_all => (part = "daemon" <=> (part = "daemon")')
                     /\ (part = "daemon" => [Machines!Daemon!Next]_(Machines!Daemon!vars))
      BY PartSteps
    <2>4. QED
      BY <2>1, <2>2, <2>3, PTL DEF Spec, Machines!Daemon!Spec
  <1>4. Spec => [](part = "daemon" => Machines!Daemon!StoppedIsDown)
    <2>1. Machines!Daemon!Spec => []Machines!Daemon!StoppedIsDown
      BY Machines!StopMeansDown, Instances
    <2>2. Init => (part = "daemon" => Machines!Daemon!Init)
      BY PartStarts
    <2>3. [Next]_all => (part = "daemon" <=> (part = "daemon")')
                     /\ (part = "daemon" => [Machines!Daemon!Next]_(Machines!Daemon!vars))
      BY PartSteps
    <2>4. QED
      BY <2>1, <2>2, <2>3, PTL DEF Spec, Machines!Daemon!Spec
  <1>5. Spec => [](part = "link" => Machines!Daemon!OffIsOff)
    <2>1. Machines!Daemon!HubSpec => []Machines!Daemon!OffIsOff
      BY Machines!OffStaysOff
    <2>2. Init => (part = "link" => Machines!Daemon!HubInit)
      BY PartStarts
    <2>3. [Next]_all => (part = "link" <=> (part = "link")')
                     /\ (part = "link" => [Machines!Daemon!HubNext]_(Machines!Daemon!hubVars))
      BY PartSteps
    <2>4. QED
      BY <2>1, <2>2, <2>3, PTL DEF Spec, Machines!Daemon!HubSpec
  <1>6. Spec => [](part = "drain" => Apps!Tx!OneTerminal)
    <2>1. Apps!Tx!DrainSpec => []Apps!Tx!OneTerminal
      BY Apps!DrainEndsOnce, Instances, SMT
    <2>2. Init => (part = "drain" => Apps!Tx!DrainInit)
      BY PartStarts
    <2>3. [Next]_all => (part = "drain" <=> (part = "drain")')
                     /\ (part = "drain" => [Apps!Tx!DrainNext]_(Apps!Tx!drainVars))
      BY PartSteps
    <2>4. QED
      BY <2>1, <2>2, <2>3, PTL DEF Spec, Apps!Tx!DrainSpec
  <1>7. Spec => [](part = "sched" => Apps!Sched!StopIsFinal)
    <2>1. Apps!Sched!Spec => []Apps!Sched!StopIsFinal
      BY Apps!StoppedIsForgotten, Instances
    <2>2. Init => (part = "sched" => Apps!Sched!Init)
      BY PartStarts
    <2>3. [Next]_all => (part = "sched" <=> (part = "sched")')
                     /\ (part = "sched" => [Apps!Sched!Next]_(Apps!Sched!vars))
      BY PartSteps
    <2>4. QED
      BY <2>1, <2>2, <2>3, PTL DEF Spec, Apps!Sched!Spec
  <1>8. Spec => [](part = "motor" => (Apps!Motor!OwnerDrives /\ Apps!Motor!DisconnectStops))
    <2>1. Apps!Motor!Spec => [](Apps!Motor!OwnerDrives /\ Apps!Motor!DisconnectStops)
      BY Apps!LostLinkStops, Instances
    <2>2. Init => (part = "motor" => Apps!Motor!Init)
      BY PartStarts
    <2>3. [Next]_all => (part = "motor" <=> (part = "motor")')
                     /\ (part = "motor" => [Apps!Motor!Next]_(Apps!Motor!vars))
      BY PartSteps
    <2>4. QED
      BY <2>1, <2>2, <2>3, PTL DEF Spec, Apps!Motor!Spec
  <1>9. Spec => [](part = "notify" => (Apps!Motor!EndedIsQuiet /\ Apps!Motor!AnswerIsTrue
          /\ Apps!Motor!NoStaleNotification))
    <2>1. Apps!Motor!NotifySpec => 
       [](Apps!Motor!EndedIsQuiet /\ Apps!Motor!AnswerIsTrue
          /\ Apps!Motor!NoStaleNotification)
      BY Apps!NotificationsAreTheirs
    <2>2. Init => (part = "notify" => Apps!Motor!NotifyInit)
      BY PartStarts
    <2>3. [Next]_all => (part = "notify" <=> (part = "notify")')
                     /\ (part = "notify" => [Apps!Motor!NotifyNext]_(Apps!Motor!notifyVars))
      BY PartSteps
    <2>4. QED
      BY <2>1, <2>2, <2>3, PTL DEF Spec, Apps!Motor!NotifySpec
  <1>10. Spec => [](part = "bundle" => Apps!Bundle!Stopped)
    <2>1. Apps!Bundle!Spec => []Apps!Bundle!Stopped
      BY Apps!DeinitialisedIsStopped, Instances
    <2>2. Init => (part = "bundle" => Apps!Bundle!Init)
      BY PartStarts
    <2>3. [Next]_all => (part = "bundle" <=> (part = "bundle")')
                     /\ (part = "bundle" => [Apps!Bundle!Next]_(Apps!Bundle!vars))
      BY PartSteps
    <2>4. QED
      BY <2>1, <2>2, <2>3, PTL DEF Spec, Apps!Bundle!Spec
  <1>11. Spec => [](part = "sound" => Apps!Speaker!ClosedIsSilent)
    <2>1. Apps!Speaker!Spec => []Apps!Speaker!ClosedIsSilent
      BY Apps!ClosedFilesAreSilent, Instances
    <2>2. Init => (part = "sound" => Apps!Speaker!Init)
      BY PartStarts
    <2>3. [Next]_all => (part = "sound" <=> (part = "sound")')
                     /\ (part = "sound" => [Apps!Speaker!Next]_(Apps!Speaker!vars))
      BY PartSteps
    <2>4. QED
      BY <2>1, <2>2, <2>3, PTL DEF Spec, Apps!Speaker!Spec
  <1>12. Spec => [](part = "beep" => (Apps!Speaker!ShutMeansShut /\ Apps!Speaker!SomebodyEnds
          /\ Apps!Speaker!OwnExpiry))
    <2>1. Apps!Speaker!BeepSpec => 
       [](Apps!Speaker!ShutMeansShut /\ Apps!Speaker!SomebodyEnds
          /\ Apps!Speaker!OwnExpiry)
      BY Apps!BeepsAreEnded
    <2>2. Init => (part = "beep" => Apps!Speaker!BeepInit)
      BY PartStarts
    <2>3. [Next]_all => (part = "beep" <=> (part = "beep")')
                     /\ (part = "beep" => [Apps!Speaker!BeepNext]_(Apps!Speaker!beepVars))
      BY PartSteps
    <2>4. QED
      BY <2>1, <2>2, <2>3, PTL DEF Spec, Apps!Speaker!BeepSpec
  <1> DEFINE First ==
        /\ part = "queue"         => Machines!Queue!CancelSyncIsFinal
        /\ part = "hci"           => Machines!Hci!ClosedIsOff
        /\ part = "daemon"        => Machines!Daemon!EndsClean
        /\ part = "daemon"        => Machines!Daemon!StoppedIsDown
        /\ part = "link"          => Machines!Daemon!OffIsOff
        /\ part = "drain"         => Apps!Tx!OneTerminal
  <1> DEFINE Second ==
        /\ part = "sched"         => Apps!Sched!StopIsFinal
        /\ part = "motor"         => (Apps!Motor!OwnerDrives /\ Apps!Motor!DisconnectStops)
        /\ part = "notify"        => (Apps!Motor!EndedIsQuiet /\ Apps!Motor!AnswerIsTrue
                                        /\ Apps!Motor!NoStaleNotification)
        /\ part = "bundle"        => Apps!Bundle!Stopped
        /\ part = "sound"         => Apps!Speaker!ClosedIsSilent
        /\ part = "beep"          => (Apps!Speaker!ShutMeansShut /\ Apps!Speaker!SomebodyEnds
                                        /\ Apps!Speaker!OwnExpiry)
  <1>13. Spec => []First
    BY <1>1, <1>2, <1>3, <1>4, <1>5, <1>6, PTL
  <1>14. Spec => []Second
    BY <1>7, <1>8, <1>9, <1>10, <1>11, <1>12, PTL
  <1> HIDE DEF First, Second
  <1>15. First /\ Second => StopIsKept
    BY DEF First, Second, StopIsKept
  <1>16. QED
    BY <1>13, <1>14, <1>15, PTL

(* What the machines of the stack keep about themselves and each other is  *)
(* true, their types and bounds included: the theorems about the books of  *)
(* the work queues, the controller link, the UART, the settings, the hub,  *)
(* the transmit queues and drains, the scheduler, the notifier, the sensor *)
(* stream, the cache and its writes, tones and beeps, together.            *)
THEOREM BluetoothBooks == Spec => []BooksAreTrue
PROOF
  <1>1. Spec => [](part = "queue" => (Machines!Queue!TypeOK /\ Machines!Queue!LinkedOnce))
    <2>1. Machines!Queue!Spec => [](Machines!Queue!TypeOK /\ Machines!Queue!LinkedOnce)
      BY Machines!WorkBooks, Instances
    <2>2. Init => (part = "queue" => Machines!Queue!Init)
      BY PartStarts
    <2>3. [Next]_all => (part = "queue" <=> (part = "queue")')
                     /\ (part = "queue" => [Machines!Queue!Next]_(Machines!Queue!vars))
      BY PartSteps
    <2>4. QED
      BY <2>1, <2>2, <2>3, PTL DEF Spec, Machines!Queue!Spec
  <1>2. Spec => [](part = "hci" => Machines!Hci!TypeOK)
    <2>1. Machines!Hci!Spec => []Machines!Hci!TypeOK
      BY Machines!HciBooks, Instances
    <2>2. Init => (part = "hci" => Machines!Hci!Init)
      BY PartStarts
    <2>3. [Next]_all => (part = "hci" <=> (part = "hci")')
                     /\ (part = "hci" => [Machines!Hci!Next]_(Machines!Hci!vars))
      BY PartSteps
    <2>4. QED
      BY <2>1, <2>2, <2>3, PTL DEF Spec, Machines!Hci!Spec
  <1>3. Spec => [](part = "uart" => (Machines!Uart!RxTypeOK /\ Machines!Uart!WokenOrWillBe
          /\ Machines!Uart!LatchMeansBytes))
    <2>1. Machines!Uart!Spec => 
       [](Machines!Uart!RxTypeOK /\ Machines!Uart!WokenOrWillBe
          /\ Machines!Uart!LatchMeansBytes)
      BY Machines!BytesReachTheReader, Instances
    <2>2. Init => (part = "uart" => Machines!Uart!Init)
      BY PartStarts
    <2>3. [Next]_all => (part = "uart" <=> (part = "uart")')
                     /\ (part = "uart" => [Machines!Uart!Next]_(Machines!Uart!vars))
      BY PartSteps
    <2>4. QED
      BY <2>1, <2>2, <2>3, PTL DEF Spec, Machines!Uart!Spec
  <1>4. Spec => [](part = "uart_tx" => Machines!UartTx!TxTypeOK)
    <2>1. Machines!UartTx!Spec => []Machines!UartTx!TxTypeOK
      BY Machines!OneTransmits, Instances
    <2>2. Init => (part = "uart_tx" => Machines!UartTx!Init)
      BY PartStarts
    <2>3. [Next]_all => (part = "uart_tx" <=> (part = "uart_tx")')
                     /\ (part = "uart_tx" => [Machines!UartTx!Next]_(Machines!UartTx!vars))
      BY PartSteps
    <2>4. QED
      BY <2>1, <2>2, <2>3, PTL DEF Spec, Machines!UartTx!Spec
  <1>5. Spec => [](part = "settings" => (Machines!Settings!TypeOK /\ Machines!Settings!KeyWhole
          /\ Machines!Settings!NoLitter
          /\ Machines!Settings!CommitsInOrder))
    <2>1. Machines!Settings!Spec => 
       [](Machines!Settings!TypeOK /\ Machines!Settings!KeyWhole
          /\ Machines!Settings!NoLitter
          /\ Machines!Settings!CommitsInOrder)
      BY Machines!SavedIsWhole, Instances
    <2>2. Init => (part = "settings" => Machines!Settings!Init)
      BY PartStarts
    <2>3. [Next]_all => (part = "settings" <=> (part = "settings")')
                     /\ (part = "settings" => [Machines!Settings!Next]_(Machines!Settings!vars))
      BY PartSteps
    <2>4. QED
      BY <2>1, <2>2, <2>3, PTL DEF Spec, Machines!Settings!Spec
  <1>6. Spec => [](part = "link" => (Machines!Daemon!RefsBalanced /\ Machines!Daemon!Alternating))
    <2>1. Machines!Daemon!HubSpec => [](Machines!Daemon!RefsBalanced /\ Machines!Daemon!Alternating)
      BY Machines!HubBooks, Instances
    <2>2. Init => (part = "link" => Machines!Daemon!HubInit)
      BY PartStarts
    <2>3. [Next]_all => (part = "link" <=> (part = "link")')
                     /\ (part = "link" => [Machines!Daemon!HubNext]_(Machines!Daemon!hubVars))
      BY PartSteps
    <2>4. QED
      BY <2>1, <2>2, <2>3, PTL DEF Spec, Machines!Daemon!HubSpec
  <1>7. Spec => [](part = "link" => Machines!Daemon!FoundAgain)
    <2>1. Machines!Daemon!HubSpec => []Machines!Daemon!FoundAgain
      BY Machines!FoundAfterwards
    <2>2. Init => (part = "link" => Machines!Daemon!HubInit)
      BY PartStarts
    <2>3. [Next]_all => (part = "link" <=> (part = "link")')
                     /\ (part = "link" => [Machines!Daemon!HubNext]_(Machines!Daemon!hubVars))
      BY PartSteps
    <2>4. QED
      BY <2>1, <2>2, <2>3, PTL DEF Spec, Machines!Daemon!HubSpec
  <1>8. Spec => [](part = "tx" => (Apps!Tx!TypeOK /\ Apps!Tx!PumpingIsOwned))
    <2>1. Apps!Tx!Spec => [](Apps!Tx!TypeOK /\ Apps!Tx!PumpingIsOwned)
      BY Apps!TransmitBooks, Instances
    <2>2. Init => (part = "tx" => Apps!Tx!Init)
      BY PartStarts
    <2>3. [Next]_all => (part = "tx" <=> (part = "tx")')
                     /\ (part = "tx" => [Apps!Tx!Next]_(Apps!Tx!vars))
      BY PartSteps
    <2>4. QED
      BY <2>1, <2>2, <2>3, PTL DEF Spec, Apps!Tx!Spec
  <1>9. Spec => [](part = "drain" => Apps!Tx!Reconciled)
    <2>1. Apps!Tx!DrainSpec => []Apps!Tx!Reconciled
      BY Apps!TimersAreReconciled, SMT
    <2>2. Init => (part = "drain" => Apps!Tx!DrainInit)
      BY PartStarts
    <2>3. [Next]_all => (part = "drain" <=> (part = "drain")')
                     /\ (part = "drain" => [Apps!Tx!DrainNext]_(Apps!Tx!drainVars))
      BY PartSteps
    <2>4. QED
      BY <2>1, <2>2, <2>3, PTL DEF Spec, Apps!Tx!DrainSpec
  <1>10. Spec => [](part = "sched" => (Apps!Sched!TypeOK /\ Apps!Sched!OneCallback
          /\ Apps!Sched!ListedOnce))
    <2>1. Apps!Sched!Spec => 
       [](Apps!Sched!TypeOK /\ Apps!Sched!OneCallback
          /\ Apps!Sched!ListedOnce)
      BY Apps!SchedulerBooks, Instances
    <2>2. Init => (part = "sched" => Apps!Sched!Init)
      BY PartStarts
    <2>3. [Next]_all => (part = "sched" <=> (part = "sched")')
                     /\ (part = "sched" => [Apps!Sched!Next]_(Apps!Sched!vars))
      BY PartSteps
    <2>4. QED
      BY <2>1, <2>2, <2>3, PTL DEF Spec, Apps!Sched!Spec
  <1>11. Spec => [](part = "motor" => (Apps!Motor!OwnerDrives /\ Apps!Motor!DisconnectStops))
    <2>1. Apps!Motor!Spec => [](Apps!Motor!OwnerDrives /\ Apps!Motor!DisconnectStops)
      BY Apps!LostLinkStops, Instances
    <2>2. Init => (part = "motor" => Apps!Motor!Init)
      BY PartStarts
    <2>3. [Next]_all => (part = "motor" <=> (part = "motor")')
                     /\ (part = "motor" => [Apps!Motor!Next]_(Apps!Motor!vars))
      BY PartSteps
    <2>4. QED
      BY <2>1, <2>2, <2>3, PTL DEF Spec, Apps!Motor!Spec
  <1>12. Spec => [](part = "notify" => Apps!Motor!NotifyTypeOK)
    <2>1. Apps!Motor!NotifySpec => []Apps!Motor!NotifyTypeOK
      BY Apps!NotifierBooks, Instances
    <2>2. Init => (part = "notify" => Apps!Motor!NotifyInit)
      BY PartStarts
    <2>3. [Next]_all => (part = "notify" <=> (part = "notify")')
                     /\ (part = "notify" => [Apps!Motor!NotifyNext]_(Apps!Motor!notifyVars))
      BY PartSteps
    <2>4. QED
      BY <2>1, <2>2, <2>3, PTL DEF Spec, Apps!Motor!NotifySpec
  <1>13. Spec => [](part = "bundle" => Apps!Bundle!TypeOK)
    <2>1. Apps!Bundle!Spec => []Apps!Bundle!TypeOK
      BY Apps!BundleBooksKept, Instances
    <2>2. Init => (part = "bundle" => Apps!Bundle!Init)
      BY PartStarts
    <2>3. [Next]_all => (part = "bundle" <=> (part = "bundle")')
                     /\ (part = "bundle" => [Apps!Bundle!Next]_(Apps!Bundle!vars))
      BY PartSteps
    <2>4. QED
      BY <2>1, <2>2, <2>3, PTL DEF Spec, Apps!Bundle!Spec
  <1>14. Spec => [](part = "bundle" => Apps!Bundle!Agree)
    <2>1. Apps!Bundle!Spec => []Apps!Bundle!Agree
      BY Apps!BundleAgreesBetween
    <2>2. Init => (part = "bundle" => Apps!Bundle!Init)
      BY PartStarts
    <2>3. [Next]_all => (part = "bundle" <=> (part = "bundle")')
                     /\ (part = "bundle" => [Apps!Bundle!Next]_(Apps!Bundle!vars))
      BY PartSteps
    <2>4. QED
      BY <2>1, <2>2, <2>3, PTL DEF Spec, Apps!Bundle!Spec
  <1>15. Spec => [](part = "cache" => (Apps!Bundle!ReadsOpen /\ Apps!Bundle!FreshIsTrue))
    <2>1. Apps!Bundle!CacheSpec => [](Apps!Bundle!ReadsOpen /\ Apps!Bundle!FreshIsTrue)
      BY Apps!CacheIsTrue, Instances
    <2>2. Init => (part = "cache" => Apps!Bundle!CacheInit)
      BY PartStarts
    <2>3. [Next]_all => (part = "cache" <=> (part = "cache")')
                     /\ (part = "cache" => [Apps!Bundle!CacheNext]_(Apps!Bundle!cacheVars))
      BY PartSteps
    <2>4. QED
      BY <2>1, <2>2, <2>3, PTL DEF Spec, Apps!Bundle!CacheSpec
  <1>16. Spec => [](part = "writes" => (Apps!Writes!ClaimReturned /\ Apps!Writes!PortIsTrue
          /\ Apps!Writes!CooledDown))
    <2>1. Apps!Writes!CacheSpec => 
       [](Apps!Writes!ClaimReturned /\ Apps!Writes!PortIsTrue
          /\ Apps!Writes!CooledDown)
      BY Apps!WritesAreOurs, Instances
    <2>2. Init => (part = "writes" => Apps!Writes!CacheInit)
      BY PartStarts
    <2>3. [Next]_all => (part = "writes" <=> (part = "writes")')
                     /\ (part = "writes" => [Apps!Writes!CacheNext]_(Apps!Writes!cacheVars))
      BY PartSteps
    <2>4. QED
      BY <2>1, <2>2, <2>3, PTL DEF Spec, Apps!Writes!CacheSpec
  <1>17. Spec => [](part = "sound" => (Apps!Speaker!TypeOK /\ Apps!Speaker!Unowned))
    <2>1. Apps!Speaker!Spec => [](Apps!Speaker!TypeOK /\ Apps!Speaker!Unowned)
      BY Apps!SoundsAreOwned, Instances
    <2>2. Init => (part = "sound" => Apps!Speaker!Init)
      BY PartStarts
    <2>3. [Next]_all => (part = "sound" <=> (part = "sound")')
                     /\ (part = "sound" => [Apps!Speaker!Next]_(Apps!Speaker!vars))
      BY PartSteps
    <2>4. QED
      BY <2>1, <2>2, <2>3, PTL DEF Spec, Apps!Speaker!Spec
  <1>18. Spec => [](part = "beep" => Apps!Speaker!BeepTypeOK)
    <2>1. Apps!Speaker!BeepSpec => []Apps!Speaker!BeepTypeOK
      BY Apps!BeepsAreTyped, Instances
    <2>2. Init => (part = "beep" => Apps!Speaker!BeepInit)
      BY PartStarts
    <2>3. [Next]_all => (part = "beep" <=> (part = "beep")')
                     /\ (part = "beep" => [Apps!Speaker!BeepNext]_(Apps!Speaker!beepVars))
      BY PartSteps
    <2>4. QED
      BY <2>1, <2>2, <2>3, PTL DEF Spec, Apps!Speaker!BeepSpec
  <1>19. Spec => [](part = "beep" => (Apps!Speaker!ShutMeansShut /\ Apps!Speaker!SomebodyEnds
          /\ Apps!Speaker!OwnExpiry))
    <2>1. Apps!Speaker!BeepSpec => 
       [](Apps!Speaker!ShutMeansShut /\ Apps!Speaker!SomebodyEnds
          /\ Apps!Speaker!OwnExpiry)
      BY Apps!BeepsAreEnded
    <2>2. Init => (part = "beep" => Apps!Speaker!BeepInit)
      BY PartStarts
    <2>3. [Next]_all => (part = "beep" <=> (part = "beep")')
                     /\ (part = "beep" => [Apps!Speaker!BeepNext]_(Apps!Speaker!beepVars))
      BY PartSteps
    <2>4. QED
      BY <2>1, <2>2, <2>3, PTL DEF Spec, Apps!Speaker!BeepSpec
  <1> DEFINE First ==
        /\ part = "queue"         => (Machines!Queue!TypeOK /\ Machines!Queue!LinkedOnce)
        /\ part = "hci"           => Machines!Hci!TypeOK
        /\ part = "uart"          => (Machines!Uart!RxTypeOK /\ Machines!Uart!WokenOrWillBe
                                        /\ Machines!Uart!LatchMeansBytes)
        /\ part = "uart_tx"       => Machines!UartTx!TxTypeOK
        /\ part = "settings"      => (Machines!Settings!TypeOK /\ Machines!Settings!KeyWhole
                                        /\ Machines!Settings!NoLitter
                                        /\ Machines!Settings!CommitsInOrder)
        /\ part = "link"          => (Machines!Daemon!RefsBalanced /\ Machines!Daemon!Alternating)
        /\ part = "link"          => Machines!Daemon!FoundAgain
  <1> DEFINE Second ==
        /\ part = "tx"            => (Apps!Tx!TypeOK /\ Apps!Tx!PumpingIsOwned)
        /\ part = "drain"         => Apps!Tx!Reconciled
        /\ part = "sched"         => (Apps!Sched!TypeOK /\ Apps!Sched!OneCallback
                                        /\ Apps!Sched!ListedOnce)
        /\ part = "motor"         => (Apps!Motor!OwnerDrives /\ Apps!Motor!DisconnectStops)
        /\ part = "notify"        => Apps!Motor!NotifyTypeOK
        /\ part = "bundle"        => Apps!Bundle!TypeOK
        /\ part = "bundle"        => Apps!Bundle!Agree
  <1> DEFINE Third ==
        /\ part = "cache"         => (Apps!Bundle!ReadsOpen /\ Apps!Bundle!FreshIsTrue)
        /\ part = "writes"        => (Apps!Writes!ClaimReturned /\ Apps!Writes!PortIsTrue
                                        /\ Apps!Writes!CooledDown)
        /\ part = "sound"         => (Apps!Speaker!TypeOK /\ Apps!Speaker!Unowned)
        /\ part = "beep"          => Apps!Speaker!BeepTypeOK
        /\ part = "beep"          => (Apps!Speaker!ShutMeansShut /\ Apps!Speaker!SomebodyEnds
                                        /\ Apps!Speaker!OwnExpiry)
  <1>20. Spec => []First
    BY <1>1, <1>2, <1>3, <1>4, <1>5, <1>6, <1>7, PTL
  <1>21. Spec => []Second
    BY <1>8, <1>9, <1>10, <1>11, <1>12, <1>13, <1>14, PTL
  <1>22. Spec => []Third
    BY <1>15, <1>16, <1>17, <1>18, <1>19, PTL
  <1> HIDE DEF First, Second, Third
  <1>23. First /\ Second /\ Third => BooksAreTrue
    BY DEF First, Second, Third, BooksAreTrue, TypeOK
  <1>24. QED
    BY <1>20, <1>21, <1>22, <1>23, PTL

(* No step does what is another's to do, in any machine of the stack: the  *)
(* baud rate, what a load hands out, the end of a motor run, the samples   *)
(* of the sensor stream and of the cache, a tune that was stopped, a beep. *)
THEOREM BluetoothSteps == Spec => StepsAreTheirs
PROOF
  <1>1. Spec => [][part = "uart_tx" => Machines!UartTx!BaudQuiet]_all
    <2>1. Machines!UartTx!Spec => [][Machines!UartTx!BaudQuiet]_(Machines!UartTx!vars)
      BY Machines!BaudIsQuiet, Instances
    <2>2. Init => (part = "uart_tx" => Machines!UartTx!Init)
      BY PartStarts
    <2>3. [Next]_all => (part = "uart_tx" <=> (part = "uart_tx")')
                     /\ (part = "uart_tx" => [Machines!UartTx!Next]_(Machines!UartTx!vars))
      BY PartSteps
    <2>4. [Machines!UartTx!BaudQuiet]_(Machines!UartTx!vars) => [part = "uart_tx" => Machines!UartTx!BaudQuiet]_all
      BY DEF Machines!UartTx!vars, Machines!UartTx!BaudQuiet
    <2>5. ~(part = "uart_tx") => [part = "uart_tx" => Machines!UartTx!BaudQuiet]_all
      OBVIOUS
    <2>6. QED
      BY <2>1, <2>2, <2>3, <2>4, <2>5, PTL DEF Spec, Machines!UartTx!Spec
  <1>2. Spec => [][part = "settings" => Machines!Settings!LoadIsTrue]_all
    <2>1. Machines!Settings!Spec => [][Machines!Settings!LoadIsTrue]_(Machines!Settings!vars)
      BY Machines!LoadsWhatWasSaved, Instances
    <2>2. Init => (part = "settings" => Machines!Settings!Init)
      BY PartStarts
    <2>3. [Next]_all => (part = "settings" <=> (part = "settings")')
                     /\ (part = "settings" => [Machines!Settings!Next]_(Machines!Settings!vars))
      BY PartSteps
    <2>4. [Machines!Settings!LoadIsTrue]_(Machines!Settings!vars) => [part = "settings" => Machines!Settings!LoadIsTrue]_all
      BY DEF Machines!Settings!vars, Machines!Settings!LoadIsTrue
    <2>5. ~(part = "settings") => [part = "settings" => Machines!Settings!LoadIsTrue]_all
      OBVIOUS
    <2>6. QED
      BY <2>1, <2>2, <2>3, <2>4, <2>5, PTL DEF Spec, Machines!Settings!Spec
  <1>3. Spec => [][part = "motor" => Apps!Motor!EndsOwn]_all
    <2>1. Apps!Motor!Spec => [][Apps!Motor!EndsOwn]_(Apps!Motor!vars)
      BY Apps!RunEndsItsOwn, Instances
    <2>2. Init => (part = "motor" => Apps!Motor!Init)
      BY PartStarts
    <2>3. [Next]_all => (part = "motor" <=> (part = "motor")')
                     /\ (part = "motor" => [Apps!Motor!Next]_(Apps!Motor!vars))
      BY PartSteps
    <2>4. [Apps!Motor!EndsOwn]_(Apps!Motor!vars) => [part = "motor" => Apps!Motor!EndsOwn]_all
      BY DEF Apps!Motor!vars, Apps!Motor!EndsOwn
    <2>5. ~(part = "motor") => [part = "motor" => Apps!Motor!EndsOwn]_all
      OBVIOUS
    <2>6. QED
      BY <2>1, <2>2, <2>3, <2>4, <2>5, PTL DEF Spec, Apps!Motor!Spec
  <1>4. Spec => [][part = "bundle" => (Apps!Bundle!SamplesInOrder /\ Apps!Bundle!NoStale)]_all
    <2>1. Apps!Bundle!Spec => [][Apps!Bundle!SamplesInOrder /\ Apps!Bundle!NoStale]_(Apps!Bundle!vars)
      BY Apps!SamplesLeaveInOrder, Instances
    <2>2. Init => (part = "bundle" => Apps!Bundle!Init)
      BY PartStarts
    <2>3. [Next]_all => (part = "bundle" <=> (part = "bundle")')
                     /\ (part = "bundle" => [Apps!Bundle!Next]_(Apps!Bundle!vars))
      BY PartSteps
    <2>4. [Apps!Bundle!SamplesInOrder /\ Apps!Bundle!NoStale]_(Apps!Bundle!vars) => [part = "bundle" => (Apps!Bundle!SamplesInOrder /\ Apps!Bundle!NoStale)]_all
      BY DEF Apps!Bundle!vars, Apps!Bundle!SamplesInOrder, Apps!Bundle!NoStale
    <2>5. ~(part = "bundle") => [part = "bundle" => (Apps!Bundle!SamplesInOrder /\ Apps!Bundle!NoStale)]_all
      OBVIOUS
    <2>6. QED
      BY <2>1, <2>2, <2>3, <2>4, <2>5, PTL DEF Spec, Apps!Bundle!Spec
  <1>5. Spec => [][part = "cache" => (Apps!Bundle!CacheNoStale /\ Apps!Bundle!ShownOnce)]_all
    <2>1. Apps!Bundle!CacheSpec => [][Apps!Bundle!CacheNoStale /\ Apps!Bundle!ShownOnce]_(Apps!Bundle!cacheVars)
      BY Apps!ShownIsNew, Instances
    <2>2. Init => (part = "cache" => Apps!Bundle!CacheInit)
      BY PartStarts
    <2>3. [Next]_all => (part = "cache" <=> (part = "cache")')
                     /\ (part = "cache" => [Apps!Bundle!CacheNext]_(Apps!Bundle!cacheVars))
      BY PartSteps
    <2>4. [Apps!Bundle!CacheNoStale /\ Apps!Bundle!ShownOnce]_(Apps!Bundle!cacheVars) => [part = "cache" => (Apps!Bundle!CacheNoStale /\ Apps!Bundle!ShownOnce)]_all
      BY DEF Apps!Bundle!cacheVars, Apps!Bundle!CacheNoStale, Apps!Bundle!ShownOnce
    <2>5. ~(part = "cache") => [part = "cache" => (Apps!Bundle!CacheNoStale /\ Apps!Bundle!ShownOnce)]_all
      OBVIOUS
    <2>6. QED
      BY <2>1, <2>2, <2>3, <2>4, <2>5, PTL DEF Spec, Apps!Bundle!CacheSpec
  <1>6. Spec => [][part = "sound" => Apps!Speaker!HitIsQuiet]_all
    <2>1. Apps!Speaker!Spec => [][Apps!Speaker!HitIsQuiet]_(Apps!Speaker!vars)
      BY Apps!HitTunesAreQuiet, Instances
    <2>2. Init => (part = "sound" => Apps!Speaker!Init)
      BY PartStarts
    <2>3. [Next]_all => (part = "sound" <=> (part = "sound")')
                     /\ (part = "sound" => [Apps!Speaker!Next]_(Apps!Speaker!vars))
      BY PartSteps
    <2>4. [Apps!Speaker!HitIsQuiet]_(Apps!Speaker!vars) => [part = "sound" => Apps!Speaker!HitIsQuiet]_all
      BY DEF Apps!Speaker!vars, Apps!Speaker!HitIsQuiet
    <2>5. ~(part = "sound") => [part = "sound" => Apps!Speaker!HitIsQuiet]_all
      OBVIOUS
    <2>6. QED
      BY <2>1, <2>2, <2>3, <2>4, <2>5, PTL DEF Spec, Apps!Speaker!Spec
  <1>7. Spec => [][part = "beep" => Apps!Speaker!OwnLink]_all
    <2>1. Apps!Speaker!BeepSpec => [][Apps!Speaker!OwnLink]_(Apps!Speaker!beepVars)
      BY Apps!LinksEndTheirOwn
    <2>2. Init => (part = "beep" => Apps!Speaker!BeepInit)
      BY PartStarts
    <2>3. [Next]_all => (part = "beep" <=> (part = "beep")')
                     /\ (part = "beep" => [Apps!Speaker!BeepNext]_(Apps!Speaker!beepVars))
      BY PartSteps
    <2>4. [Apps!Speaker!OwnLink]_(Apps!Speaker!beepVars) => [part = "beep" => Apps!Speaker!OwnLink]_all
      BY DEF Apps!Speaker!beepVars, Apps!Speaker!OwnLink
    <2>5. ~(part = "beep") => [part = "beep" => Apps!Speaker!OwnLink]_all
      OBVIOUS
    <2>6. QED
      BY <2>1, <2>2, <2>3, <2>4, <2>5, PTL DEF Spec, Apps!Speaker!BeepSpec
  <1>8. QED
    BY <1>1, <1>2, <1>3, <1>4, <1>5, <1>6, <1>7, PTL DEF StepsAreTheirs
=============================================================================
