# A TLA+ verification of the Brickwright SPIKE Prime firmware

This directory models the control logic of the firmware in this repository: the
parts that decide *when* something happens and *who* may do it (who owns a motor,
when a program may be replaced, what survives a power loss, who works on the pins
of a port, who wakes whom), and the small pieces of arithmetic that such decisions
hang on. The modules are checked with TLC on small instances, and the safety of
the core is proved with TLAPS for every value of the constants.

`PROJECT.json` lists components, runs, mutants, the map from definitions to
source lines, hazards, findings and theorems. Paths below are relative to `src/`.

## 1. Inventory of the system

The firmware runs on NuttX. User programs reach the hub over three transports
(USB command line, Bluetooth, a debug mailbox); they are staged, committed,
saved to flash, and executed by a worker task, either by a native interpreter or
by MicroPython. The executing program drives motors and reads sensors through
`/dev/port*`, behind which a detector, a LUMP engine and an H-bridge driver share
each physical port. Other users of the motors are the drive base daemon and the
line tracer. A Bluetooth daemon streams telemetry and carries requests on top of a
vendored Zephyr host with a compatibility layer.

| Part | State it keeps | Operations | Interacts with | What is hard about it |
| --- | --- | --- | --- | --- |
| Native interpreter, `apps/hubprogram/program.c` | committed rows, pc, owned ports, one pending wait/move/await/end, start time | load, validate, start, stop, tick | device callbacks; called by the service under its mutex | jumps and restarts over arbitrary uploaded code; braking on every exit path; time limit |
| Upload protocol, `apps/hubprogram/upload.c` | one staging session (owner, id, CRC, received bytes, activity) | BEGIN, BEGIN_PYTHON, CHUNK, COMMIT, START, STOP, STATUS, ABORT | interpreter, three transports | retries and conflicting chunks, two transports racing, expiry, stale bytes in the staging buffer |
| Program service and device layer, `apps/hubprogram/service.c`, `device.c` | `g_program`, `g_upload`, `g_python_active` under one mutex; per port: fd, cached type, demand | requests of three owners, worker tick, Python callbacks, daemon stop | everything above; MicroPython outside the mutex | the VM runs unlocked while requests arrive; a port that loses synchronisation cannot be braked |
| Flash slot, `apps/hubprogram/storage.c` | temporary file and slot file | save, restore | LittleFS | power loss and errors between any two file operations |
| Flash driver, `boards/spike-prime-hub/src/stm32_w25q256.c` | chip, partitions, bus lock | erase, program, read, probe, mount, format | LittleFS, raw users | timeouts with the chip still busy; a format cut by a power loss |
| Port: detector, bridge, handle, `stm32_legoport.c`, `..._pwm.c`, `..._chardev.c` | latched device, handoff callback, generation; bridge and rail | scan, confirm, hand off, release, open, drive, wait | LUMP engine, device layer | the callback runs without the lock; teardown races it; waiters and pollers |
| LUMP engine and its UART, `stm32_legoport_lump.c`, `stm32_legoport_uart_hw.c` | session, modes, mailbox, callbacks, receive ring | sync, DATA loop, select, send, attach, detach, read, write | detector, sensor classes | one semaphore for two purposes; frames and requests of an old session |
| Sensor classes, `legosensor_uorb.c` | binding of ports to classes, claims, latest sample | bind, publish, claim, write | LUMP engine, samplers | two ports of one class; takeover between check and use |
| Drive base device, `stm32_drivebase_chardev.c` | command ring, output epoch, attachment, snapshots | command, stop, attach, publish, watchdog | daemon, users | a stop races queued commands and the tick; a torn snapshot |
| Drive base daemon, `apps/drivebase/drivebase_daemon.c`, `drivebase_rt.c` | daemon state, freeze handshake, motors | start, stop, tick, freeze, recover from a lost port | device, sensor classes | the idle loop replaces the motors the tick uses |
| Drive base control, `apps/drivebase/drivebase_{drivebase,control,aggregate,trajectory,observer,imu,servo}.c` | axes, profiles, observers, bias, heading | drive, turn, curve, stop, tick, calibrate | motors, IMU | completion, pauses and stalls of two coupled axes; jumps of the position |
| Line tracer, `apps/linetrace/linetrace_main.c` | flags shared with its daemon, statistics, lap buffers | start, stop, run, cal, brake, pidstat, lap verbs | drive base, capture pipe | two starts at once, verbs that time out; an exporter that dies |
| Capture export, `stm32_btcap_chardev.c`, `apps/capture/capture.c` | one session, a ring, a writer and a reader | register, write, finalise, read, close | line tracer, `sensor`, Bluetooth | signals and deaths on either side |
| Work queues, `bluetooth/zephyr_compat/src/work.c` | work flags, delayed slots, generations | submit, schedule, cancel, flush | vendored Zephyr host | cancel races a delayed submission |
| HCI driver and link power, `bluetooth/zephyr_compat/src/*` | recoveries, fault latch, eHCILL state | open, close, send, receive, recover | UART, controller | sleep and wake-up cross |
| Bluetooth UART, `stm32_btuart*.c` | receive ring with its latch, transmitter | read, poll, write, change of rate | HCI driver | the reader goes to sleep while the interrupt looks at the latch |
| Bluetooth settings, `bluetooth/zephyr_compat/src/settings.c` | a file per key | save, delete, load, commit | LittleFS, Zephyr host | power loss; which handler gets a key |
| Daemon, hub transport, visibility, `apps/btsensor/btsensor_lifecycle.c`, `btsensor_transport.c`, `hub_transport.c` | daemon state, link references, advertising | start, stop, connect, disconnect, on, off | command line, Zephyr host | late posts; a recycled connection |
| Transmission and scheduler, `apps/btsensor/btsensor_tx.c`, `btsensor_scheduler.c` | two queues, links, one pump, drains; watches and timers | enqueue, pump, clear; start, stop | every Bluetooth part | sends outside the lock, lost wake-ups, late completions; stop waits for a callback |
| Command links, `apps/btsensor/btsensor_cmd*.c`, `btsensor_modern*.c`, `protocol/c/spike_codec.c` | line buffers, motor owners, pending notifications, a frame | commands, notifications, packing and unpacking | ports, samplers, transmission | a link that is lost in the middle of everything |
| Samplers and emitter, `apps/btsensor/{imu_sampler,sensor_sampler,bundle_emitter}.c` | IMU ring, cached samples, timer | switch on and off, sample, emit, write | scheduler, sensor classes | a tick that crosses a switch-off; one frame with two settings |
| Sound, `stm32_tone.c`, `stm32_pcm.c`, `apps/btsensor/btsensor_sound*.c` | one speaker, its owner, stop flag; beeps with a timer | write, stop, close; beep, shut down | users, links | two files, two threads, one flag |
| Charger, IMU, Bluetooth button, `stm32_battery_charger.c`, `lsm6dsl_uorb.c`, `stm32_btbutton.c` | pins, timers, ranges, debounce | poll, interrupts, ioctl | users | two work queues; a sample under new settings; one flag for many readers |

What makes each of them correct is stated as the properties of its module
(section 3); the hazards in `PROJECT.json` say at which line each can go wrong.

## 2. Modules

Every component module has its state as VARIABLES, `Init`, one action per handler
or step, `Next`, a specification with the fairness its threads have, a type
invariant and its properties. Where a source file holds two machines that share
nothing, the second has prefixed names in the same module (`Status`, `Assist`,
`Lap`, `Sync`, `Hub`, `Drain`, `Notify`, `Cache`, `Beep`, `Table`). `Upload` has such
names (`UploadSpec`, `StartProgram`) where `ProgramVM` has them too: one module has the
proofs about both.

| Module | Models | Notes |
| --- | --- | --- |
| `ProgramVM` | `program.c` | callback results are free; a tick is one step per instruction |
| `HubService` | `service.c`, `device.c`, sessions of `upload.c` | the composition: transports, worker, VM, plugs and time on shared state |
| `Upload`, `Staging` | `upload.c` byte by byte; what an upload promises | `Upload` implements `Staging` |
| `ProgramStorage`, `ProgramSlot` | `storage.c`; an atomic cell | `ProgramStorage` implements `ProgramSlot` |
| `LegoPort` | detector, LUMP session, bridge and handle of one port | three kernel threads and their users |
| `PortScan` | pin scan, debounce, re-scan, WAIT_CONNECT and poll | the lines are external |
| `LumpEngine` | DATA loop, mailbox and callbacks; `Sync`: the handshake | |
| `LumpUart` | the engine's UART: ring, read, write, change of rate | time in ticks |
| `SensorClass` | binding, publication, claims, writes | |
| `DriveDevice` | command ring, epochs, attachment, watchdog; `Status`: the seqlock, the double buffer, jitter | |
| `DriveDaemon` | daemon life, real-time thread, freeze handshake, lost ports | |
| `DriveMotion` | both axes of the controller: commands, completion, pauses, sources | distances are signs |
| `DriveWheel` | the observer's ring, glitch filter and stall; `Assist`: friction compensation | small integers |
| `DriveImu` | bias, full scale, calibration file, unwrapped heading | small integers |
| `DriveTrajectory` | profiles of motion, retargeting, the stretch of a curve | small integers |
| `LineTrace` | the tracer, its verbs, statistics and starts, of which several may be under way; `Lap`: capture of a lap | a start is four steps: check, open, announce, create |
| `CapturePipe` | pipe device, library, reader, signals and kills | |
| `WorkQueue` | submission, delay, cancellation, flush | |
| `HciLink` | eHCILL, fault latch, bounded recovery, open, send, close | |
| `BtUart` | receive ring, read, poll, write, change of rate | |
| `SettingsStore` | save, delete, load, commit on a file system that fails | |
| `Lifecycle` | start, stop and the daemon; `Hub`: the LE link and visibility | |
| `BtsensorTx` | queues, links, pump, buffers; `Drain`: drain registrations | |
| `Scheduler` | reference, watches, timers, worker | |
| `LinkSessions` | motor ownership of both links; `Notify`: notifications | |
| `CommandFeed` | line buffers, the parser of every command, replies | words stand for characters |
| `SpikeStream` | the framing and its receiver; `Table`: packing and unpacking | bytes of four bits, blocks of four |
| `BundleEmitter` | IMU ring, emitter and timer; `Cache`: sensor classes and writes | |
| `Sound` | both speaker devices; `Beep`: beeps over the links and from the console | |
| `Charger`, `ImuSensor`, `NorFlash`, `BtButton` | the driver of that name | |
| `MCProgramVM`, `MCHubService`, `MCUpload` | instances for TLC | |
| `MCBluetooth`, `MCBoard` | the suites, see section 3 | |
| `*Proofs` | theorems, see section 5 | |

How the core corresponds to the code:

* **ProgramVM.** One variable per field of `struct bw_program`; masks are sets of
  ports, `errno` values are symbols. `started` and `deadline` are represented by the
  saturating timers `age` and `remaining`: the clock is `CLOCK_MONOTONIC`, so the
  `-ERANGE` exit of the tick cannot be taken and is not modelled. `Load` includes
  `bw_program_validate` in full (`ValidRow` has a disjunct per operation). A tick is
  `TickTimeout`, `TickDoneFails` or `TickFinish`, or `TickEnterLoop` followed by one
  `Loop` step per instruction until `budget` is 0. A tick holds the service mutex,
  hence load, start, stop and the clock wait for `budget = 0`. `live` is a history
  variable: ports commanded since the last brake call on them.
* **HubService.** Every action is one critical section of `g_lock`. The actors are
  the transports (`Requests`), the worker (`Worker`), the MicroPython VM (`VM`; it
  executes on the worker task outside the mutex and enters it in callbacks) and the
  environment (`Environment`: plugging, passage of time). The release of a terminal
  program's ports and the expiry of a session are part of every request, as in the
  head of `request_locked` and `bw_program_request`. The device layer keeps, for each
  port, whether the handle is open (`fd`), whether the cached type is a motor
  (`motor`), the control demand (`ctl`) and the last bridge command (`hb`). Each
  operation on a port may fail for reasons the service does not see (`Failures`).
  Programs are opaque, an upload is complete or not, and a native tick commands any
  set of motors and reads any set of sensors.
* **Upload, Staging.** `Upload` has the staging buffer, including the bytes BEGIN
  does not clear, the byte count, the session's announcement and its expiry.
  `announced` is a history variable. `Crc` is a parameter of which nothing is assumed.
  `UploadSpec` lets any payload arrive; there the checksum is all the protocol has.
  `HonestSpec` lets only chunks of the clients' own images arrive, but late, repeated,
  out of order, and under the id of the other transport's session.
* **ProgramStorage, ProgramSlot.** One action per file operation of
  `bw_program_save`; the service mutex keeps other requests out, so only `Fail` and
  `PowerLoss` interleave. Assumed of the file system: `rename` replaces its target
  atomically, synchronised data survive, and of unsynchronised data any prefix, or
  nothing, may survive.
* **LegoPort.** A step of the detector or the engine ends where it takes or drops a
  lock or where the other thread can see its effect. `lump_handoff_cb` is two steps
  (mark, post); `stm32_legoport_release_uart` is two (`ReleaseUart`, and `Drain` when an
  invocation is in flight). `stale` stands for the comparison of the generation
  snapshotted by the invocation. A handle is used by one thread at a time, so the
  command of an `ioctl` and the `drove` flag it sets are one step with respect to the
  close of the same handle.

In all other modules the rule is the same: a step ends where another thread,
interrupt or machine can look. Their heads say what is a choice (a measurement, the
outcome of a bus transfer, the moment of a plug) and what is external. Some have a
constant for behaviour that only some environments show, so that a property can be
asked with and without it: `Hasty` (`DriveDaemon`: a second `start` before the first
task has run), `Timeouts` (`Lifecycle`: a stop gives up), `MidLine` (`CommandFeed`: a link is
lost inside a line), `FsrWhileClosed` and `Scales` (`DriveImu`: another user changes the
full scale), `Preempt` (`DriveDevice`: which readers a writer can overtake), `Unreadable`
and `Pieces` (`SettingsStore`), `Reconnects`, `Junk` and `Refused` (`SpikeStream`),
`LateAttach` (`LumpEngine`).

Where a race of the code breaks a promise, the race is in the model, and the promise names it as
its exception by a history variable that remembers the crossing and nothing else: `crossing`
(`Lifecycle`: what an earlier daemon had still to do when this one was started), `crossed`
(`Lifecycle`, `Hub`: a thread waited for the controller while another changed what it had looked at;
`LineTrace`, `Lap`: two starts were under way), `overtaken` (`WorkQueue`: a delay was armed inside a
cancellation), `unsure` (`Charger`: the current was set by ioctl or left by a detection that found no
plug). The promise without the exception is refuted, and stands in section 6.

## 3. Runs

| Run | Checks | Shows |
| --- | --- | --- |
| `vm` | `TypeOK`, `NoProtocolFault`, `BrakedAtRest`, `OneBlocker`, `Terminates` | over all short programs, valid or not, with every callback result, restarts, reloads and stops at every point; loops, unmet conditions and motors that never arrive end at the time limit |
| `service` | `TypeOK`, `StagingExcludesExecution`, `StopMeansStopped`, `DrivenIsReachable`, `FreshStart`, `SourceStable`, `Terminates`, `PortsReleased` | all interleavings of transports, worker, VM, plugging and time |
| `upload_any` | `UploadTypeOK`, `TerminatorFits`, `Promise`, `AcknowledgedStable` | arbitrary chunks: a program is replaced whole, by an image of the announced length and checksum |
| `upload_honest` | `ReceivedIsPrefix`, `CommittedIsAnnounced` | unreliable delivery never spoils a session or gets a wrong image through COMMIT |
| `port` | `TypeOK`, `PinsExclusive`, `RailHeld`, `MotorDrivable`, `NoOrphanDrive`, `FramesOfSession`, `SessionsAreNew`, `OwnedIsServed`, `TeardownCompletes` | detector, engine, handle and kernel callers on one port |
| `bluetooth`, `bluetooth_live` | `StopIsKept`, `NothingLostOrMixed`, `BooksAreTrue`, `StepsAreTheirs`; `AllEnds` | the machines of the Bluetooth stack and application |
| `board`, `board_live` | `StoppedIsStill`, `MotionIsTrue`, `ReadersSeeTheTruth`, `OneAtATime`, `StepsAreLegal`, `SlotPromise`; `AllServed` | the machines of the drive base, the line tracer, the ports and the board |
| `port_rail_outlives_session`, `settings_bond`, `drive_trajectory_curve` | one statement each, violated | the findings of section 6 |

### The suites

`MCBluetooth` and `MCBoard` check many small machines in one run each. A behaviour
of a suite is a behaviour of *one* machine: the initial state chooses it (`part`, among
the constant `Parts`) and sets the slots `v1`, `v2`, ... that stand for its variables;
`Next` is the machine's own `Next`. The machines do not interact in a suite; what one
needs of another is part of its own module (the environment's choices). So the suite
says neither more nor less than separate runs would.

A property of a suite is a theme: the conjunction, over the parts, of the named
properties of the components that belong to it, each guarded by `part = "..."`. When one
fails, the name of the part and the conjunct are in the trace. Liveness is stated by
pairs of predicates of the component, `PDue` and `PMet`, as `PDue ~> PMet`; `MCBoard`
repeats them with the part, and `MCBluetooth` states the first, second, ... pair of all machines
together (`Due1 ~> Met1`, ...), which says the same. `FairSpec` of a suite pools the machines' fairness: `W1` is
the first weakly fair action of every machine, and so on; since a behaviour is of one
machine, `WF(W1)` is weak fairness of *its* first action, and the conjunction is that
machine's `FairSpec`. Deadlock is not checked in the suites: their machines end when
their bounds are used up.

Themes, and the properties they are made of (each is explained at its definition):

* `StopIsKept`: WorkQueue: `CancelSyncIsFinal`; HciLink: `ClosedIsOff`; Lifecycle: `EndsClean`, `StoppedIsDown`, `OffIsOff`; BtsensorTx: `OneTerminal`; Scheduler: `StopIsFinal`; LinkSessions: `DisconnectStops`, `EndedIsQuiet`; BundleEmitter: `Stopped`; Sound: `ClosedIsSilent`, `ShutMeansShut`.
* `NothingLostOrMixed`: HciLink: `NoFrameIntoSleep`, `Accounted`, `NoHciFault`; BtUart: `RxInOrder`; Lifecycle: `RxServed`, `OwnRequest`, `SentToItsOwn`; SpikeStream: `MessagesInOrder`, `NothingLost`, `SameMessages`, `RoundTrip`, `Transparent`, `FitsExactly`, `UnpackIsSafe`; CommandFeed: `Executed`, `LineAnswered`; BtsensorTx: `TxInOrder`, `BleOwnConnection`, `QueueIsCurrent`; LinkSessions: `OneReply`, `NoStaleNotification`, `AnswerIsTrue`; BundleEmitter: `Homogeneous`, `NoLoss`; Sound: `InTune`; and the type invariants of SpikeStream.
* `BooksAreTrue`: WorkQueue: `LinkedOnce`; BtUart: `WokenOrWillBe`, `LatchMeansBytes`; SettingsStore: `KeyWhole`, `NoLitter`, `CommitsInOrder`; Lifecycle: `RefsBalanced`, `Alternating`, `FoundAgain`; BtsensorTx: `PumpingIsOwned`, `Reconciled`; Scheduler: `OneCallback`, `ListedOnce`; LinkSessions: `OwnerDrives`; BundleEmitter: `Agree`, `ReadsOpen`, `FreshIsTrue`, `ClaimReturned`, `PortIsTrue`, `CooledDown`; Sound: `Unowned`, `SomebodyEnds`, `OwnExpiry`; and the type invariants.
* `StepsAreTheirs`: BtUart: `BaudQuiet`; SettingsStore: `LoadIsTrue`; LinkSessions: `EndsOwn`; BundleEmitter: `SamplesInOrder`, `NoStale`, `CacheNoStale`, `ShownOnce`; Sound: `HitIsQuiet`, `OwnLink`.
* `AllEnds` (liveness): WorkQueue: `DelayEnds`, `QueuedEnds`; HciLink: `Woken`, `CloseEnds`; BtUart: `ReaderWakes`, `TxEnds`; Lifecycle: `StopCommandEnds`; BtsensorTx: `TimedEnds`; Scheduler: `StopsReturn`, `ReleaseEnds`; LinkSessions: `RunAnswered`, `NotifyAnswered`; BundleEmitter: `CommandsEnd`; Sound: `BeepsEnd`, `OpsReturn`.
* `StoppedIsStill`: DriveDevice: `StopBehindDoomed`, `StopEndsMotion`, `StopEndsOutput`; DriveDaemon: `StoppedIsClean`, `PendingIsStill`; DriveMotion: `BrakeStopsBoth`; LineTrace: `DriveIsOwned`; Charger: `OffWithoutVbus`, `DarkInPause`.
* `MotionIsTrue`: DriveMotion: `ForeverDrives`, `PausedFollows`, `EndpointIsCurrent`, `SourceSteady`; DriveWheel: `OneEpoch`, `RingOrdered`, `NoRefire`, `PushesHome`; DriveImu: `BiasMeaning`, `TurnNotLearned`, `RestCalibrates`, `CalWhole`, `HeadingIsYaw`; DriveTrajectory: `StaysOnPath`, `StretchIsTrue`.
* `ReadersSeeTheTruth`: DriveDevice: `StatusWhole`, `StateWhole`, `NeverBack`, `DetachedIsZero`, `ResetIsClean`; LineTrace: `TicksAccounted`, `EdgeMatches`; CapturePipe: `EofIsWhole`, `QuietIsIdle`; LumpEngine: `SyncedDescribed`, `Complete`; PortScan: `ScanTrue`, `NoPhantom`; ImuSensor: `RateAgrees`, `TagsTrue`, `FastEnough`; NorFlash: `ReadTrue`; ProgramStorage: `ReportIsTrue`; BtButton: `Debounced`, `WakesOnEvery`.
* `OneAtATime`: DriveDaemon: `Exclusive`, `RtHasMotors`; Charger: `WithinPort`; CapturePipe: `OneSession`, `SessionOwned`; LineTrace: `ExportKeepsBuffer`, `NoLeak`, `HintIsArmed`; LumpEngine: `DetachQuiesces`, `SyncOnce`, `CallbackGuard`, `PortComesBack`; SensorClass: `OneWriter`, `BoundIsConnected`, `LowestWins`; PortScan: `OwnedIsUart`; LumpUart: `ReadInTime`, `WriteInTime`, `HealthyWrites`; NorFlash: `ReservedUntouched`; BtButton: `SlotsAreOwned`; and the type invariants.
* `StepsAreLegal`: DriveMotion: `StaysBraked`; DriveWheel: `JumpsAreConfirmed`, `HonestStall`, `KeepsSign`; DriveTrajectory: `NoJump`, `RetargetIsSmooth`; LineTrace: `BrakeHolds`, `ReapedByVerb`, `Frozen`, `StartsClean`; SensorClass: `LatestIsCurrent`; LumpUart: `BytesInOrder`, `Fresh`; NorFlash: `DoneIsDone`, `NeverWipes`.
* `AllServed` (liveness): DriveDevice: `StopTakesEffect`, `DetachedStops`, `ResetIsClaimed`, `ReadEnds`; DriveDaemon: `FreezeEnds`, `Recovers`, `DaemonEnds`; DriveMotion: `Completes`, `SmartExpires`; LineTrace: `BrakeTaken`, `TracerStops`; CapturePipe: `Released`, `Delivered`; LumpEngine: `Synchronises`, `Disconnects`, `SendServed`; Charger: `Charges`; PortScan: `Settles`, `Unlatches`, `WaitReturns`; NorFlash: `Returns`; BtButton: `Noticed`.

### Bounds, and why they suffice

* `vm`: two ports (a port other than the faulting one must be braked), all programs of
  one and two rows over thirteen rows, programs of three rows whose last row is END,
  JUMP or SPEED, and one program of seven rows with every blocking operation.
  Validation looks at rows one by one and at the last one, so three rows show every
  interaction of a jump with the end of the code. A budget of 2 lets a tick end in the
  middle of a program; a time limit of 2 ms lets waits be shorter than, equal to and
  cut off by the limit.
* `service`: two ports, two of the three transports, a native and a Python program with
  different ids. Transports are only compared with each other.
* `upload_*`: images of at most four one-bit bytes in a buffer of four, a source limit
  of three, chunks of one or two, so chunks overlap, fall short of and cross every
  boundary; two transports use the same ids. The checksum is a one-bit CRC, so
  different images collide.
* `port`: two sessions, so one can be confused with the previous one, and a queue of
  two frames; at most three unconsumed posts of the semaphore. Session numbers count to
  2^64-1 in the code, which refuses to begin another (`MaxSession`). `MaxWakeups` stands
  for the semaphore's maximum.
* suites: the constants of each part stand at its INSTANCE. The pattern is the same
  everywhere: two of whatever can be confused (sessions, connections, lives of a
  daemon, threads, links, files), a queue or ring of two to four so that it is full and
  wraps, and as many commands as the longest known interaction needs (a stop after a
  command after a stop; a plug after a plug after a bounce). The command ring is
  attached once; the theorems of section 5 are about any number of attachments. Where a crossing
  needs more, there is more: two shells and two tasks for the line tracer, so that two starts make
  two daemons (`line`, `lap`, `line_live`); two clients, one timer slot and four generations for a delay
  that is armed inside a cancellation (`delay_live`; with three generations it cannot happen), beside
  two items and one client (`queue_live`) and two clients and two slots (`queue`); five plugs, so that a
  detection falls into a bounce (`charger`); two connection objects and three commands (`link`). Where the code's own number
  matters it is kept: 5 samples of debounce, 2 poll slots, lines of 128 and replies of
  64 characters, 8 samples in a frame at 416 Hz and 100 ticks a second, the notes 24 to
  107, intervals 19 and 20 around a limit. `SpikeStream` has bytes of four bits, so that
  the end mark, the blocks and all contents of a frame can be enumerated.
  `DriveTrajectory` has 8 ticks a second, a residual bound of 4, a probe of 2 on either
  side and the code's ratio of 1500; its start times are 0 and 24 (and 200 in the finding).
* Parts whose names end in `_live` are smaller instances, since TLC's liveness checking
  grows faster than its search.

### Fairness, and where the code grants it

* The program worker loops for ever with a sleep of 10 ms (`service.c`, `worker`): weak
  fairness of ticks and of the release. Time passes between two ticks: strong fairness
  of `Clock` in `ProgramVM` (it is disabled during a tick), weak fairness of the limit in
  `HubService`.
* The VM polls at every jump, return and wait. A poll of a program that no longer runs
  raises `OSError`. That the script lets this exception end it (`PyUnwinds`) is an
  *assumption on scripts*: one that catches it in a loop keeps the VM, and with it the
  ports, for ever. `Terminates` does not need it, `PortsReleased` does.
* `LegoPort`: the detector is requeued on every tick and the engine is a thread of its
  own: weak fairness of each of their steps, except the end of a synchronisation and of a
  DATA session, which a healthy device never causes. `LumpEngine`: the kthread in the DATA
  loop, and in the handshake the engine as long as the device talks. `PortScan`: the tick,
  registration, release, and threads that were woken.
* `DriveDaemon`: the real-time thread (priority 220) preempts the daemon's task (100), so
  reading the freeze flag and acknowledging it are one step; weak fairness of both
  threads, strong fairness of the steps inside a freeze, since the 24 ms the task waits
  span several ticks. `DriveDevice`: the tick, teardown, and each user inside a call.
  `DriveMotion`: ticks, the recovery of a stalled axis and the settling of a motor
  (`calm`: nobody issues commands). `LineTrace`: every daemon, and every start. `CapturePipe`: the writer inside
  a call, a reader that reads on, wake-ups, the close at the end of a task.
* `HciLink`: the receive thread, the joining close, the controller taking bytes. `BtUart`:
  interrupts, the reader's steps, the return of CTS, and strong fairness of shifting and
  of the two writers, who exclude each other. `WorkQueue`: worker, timer threads, the
  progress of a call. `Scheduler`: worker and join, strong fairness of returning stops.
  `Lifecycle`: the receive callback and the steps of a stop, strong fairness of the
  daemon's steps, which wait for a lock. `BtsensorTx`: threads inside a drain, strong
  fairness of expiries. `LinkSessions`: receive and worker, strong fairness of due timers,
  host and notification worker (they compete for a lock). `BundleEmitter`: process, tick,
  emit; strong fairness of the command thread. `Sound`: operations, expiry and its
  callback, shut-down, the console.
* `Charger`: the poll, which reschedules itself, and both work queues. `NorFlash`: boot and
  the tasks, strong fairness of the bus lock, none of the chip, which may be slow for
  ever: the driver's timeouts end the waits. `BtButton`: a reader inside poll.

## 4. Mutants

Beside operators that a property depends on stand mutants of them, plausible mistakes
(a guard dropped, a reset forgotten, an order swapped). With the mutant in place of the
operator TLC finds the property violated; `PROJECT.json` pairs them. A theme has mutants
in several of its machines.

## 5. Theorems

What is proved holds for every value of the constants. The proofs about a program (its upload and
its interpreter: `ProgramProofs`), about the hub's service and about its ports stand in a module of
their own. `MachineProofs` has six machines of the board (command ring, daemon and motion layer of
the drive base, line tracer, charger, program slot), `BluetoothProofs` seven below the Bluetooth
application and `BtsensorProofs` ten of the application, each as an
instance of its module; the compositions `MCBoard` and `MCBluetooth`, which the runs check, conclude
what those theorems say of them. Every proof has the same shape: an inductive invariant, one
lemma per action or group of actions, lemmas about the operators the actions use, and the
properties as consequences.

* **ProgramVM.** `NoProtocolFault` needs that the loaded rows are validated, that
  `pc` is inside the code of a running program, and that only END, which does not
  advance `pc`, stands in the last row. `BrakedAtRest` needs that every live port
  is owned while the program runs and none is live otherwise. `OneBlocker` is not
  inductive: a row is executed inside the loop of a tick, and it may block only because
  the loop is entered unheld. `HeldInv` says that (`LoopIsUnheld`), and that the four
  holds exclude each other pairwise; the bound on the cardinality follows.
* **HubService.** `IInv` confines not only the driven bridges but also the *demands*,
  since a later tick turns a demand into a duty: an active demand belongs to an open,
  owned motor of a running or faulted program. Closed ports have no demand, READY and
  EMPTY programs no open port, and a driven port has no sensor attached, which makes it
  safe to forget the motor when a sensor is read there. Two lemmas carry most actions:
  a release leaves all ports quiet, and a brake leaves them safe for the state that
  follows it.
* **Upload.** The invariant says that the fields of an open session are those of its
  announcement; with it `UploadImplementsStaging` shows that every step is a step of
  `Staging` or a stutter. For honest clients `ReceivedIsPrefix` is inductive with it,
  provided that a client does not use one id for two images (`FreshIds`), and
  `HonestCommitsAreExact` follows at COMMIT: a complete prefix is the image.
* **LegoPort.** `Handshake` says where detector and engine can be while a request, an
  invocation or a post of the drain is outstanding; `SessionState` says in which phases a
  type is published and the queue is active. From them follow exclusion on the pins and
  that registration never meets an invocation in flight.
* **ProgramStorage** (`MachineProofs`). `StorageInv`: the slot file is absent or the record of a program
  (`FileWhole`); the temporary file is the part of the record that was written so far
  (`TmpFollows`); what is renamed was synchronised (`RenamesSynced`); and `ReportIsTrue`.
  `RenamesSynced` (`OnlySyncedReplaces`) is what the model rests on where it takes the slot file
  to be durable: a loss of power shortens only data that were not synchronised.
  Records are injective in their program (`RecordInjective`), so the content of the slot
  file names its program, and `StorageImplementsSlot` maps the file to the cell of
  `ProgramSlot`: rename is `Save`, everything else before it stutters.
* **DriveDaemon** (`MachineProofs`). The properties speak of threads, motors and flags;
  the invariant says of each *where the task is* that holds it: a task that has begun shows
  in the state (`BodyShows`), at most one is not over (`OneTask`), motors, attachment, thread
  and freeze each have their range of places (`HeldByTask`, `TaskHasMotors`), and between the
  request of a freeze and its end an acknowledgement means that the tick is before its gate
  (`Handshake`). `DaemonTypeCorrect` also needs that the posts of `teardown_done` count tasks
  that have ended (`PostsCounted`). All of it is under `Patient`: whoever starts the daemon
  waits until its task is in its body, as the callers of `drivebase_daemon_start` do. Without
  that a second start finds the state still stopped, and there are two daemons.
* **The command ring** (`MachineProofs`, `RingInv`). A STOP never waits: in a full ring it
  drops the oldest command that is no STOP, or is merged. `NumbersFresh` says that a command
  not yet pushed is none that a STOP could have ended; `OutputEnds` extends `StopEndsOutput` to
  a detached daemon that goes on with its tick, since the ring, and the STOP in it, survive
  until the next attach. `StopOvertakes` is about every capacity, batch, stall limit and
  number of users, commands, STOPs and attachments. That making room drops the first droppable
  envelope, and keeps the order of the others, is lemma `RoomMade`.
* **The motion layer** (`MotionInv`, `SteadyInv`). Every axis is *sound*: an endless one is
  not latched passive, a paused one is active and followed, a recorded endpoint is of a finite
  move. An operation on an axis (`MovedAxis`, `HeldAxis`, `EndlessAxis`, `StoppedAxis`) leaves a
  sound axis sound. `AxesAgree` then relates the axes to the command and to the motors. The heading source
  (`HeadingKeepsSource`) needs in addition that an endless heading reference belongs to an
  endless drive, and the hypothesis that no curve is planned to where the robot already is
  (`curve_nowhere`): such a curve forgets the command and leaves the axes as they are, so that
  the next endless drive latches a source under a controller that runs. The statement is
  false with it.
* **The line tracer** (`LineInv`). Any number of shells may start it at once and make any number of
  daemons, which share the flags and the drive base. `DriveIsOwned` is inductive then: while the wheels
  follow a FOREVER *some* daemon is in its loop and knows it. `BrakeHolds` needs its mirror,
  `BrakeIsOwned`: a brake was given by a daemon that lives and knows that it drives no more, so that a
  tick which softens the brake is the tick of another one.
* **The charger** (`ChargeInv`). `EdgesSeen` says that an edge the worker has not seen still has its
  interrupt pending. `ChargerGoesOff` and `PortIsNotOverdrawn` hold with bouncing contacts and with
  commands of user space at any time. For the second, `AskedOf` says that a detection that runs with
  none queued behind it looks at the plug that is there, and that without any the current is what this
  plug allows, or was set by an ioctl or left by a detection that found no plug.
* **MCBoard.** A behaviour of the composition that starts in a machine is one of that machine
  (`PartStarts`, `PartSteps`), so the theorems above carry over: `BoardStops` is the theme
  `StoppedIsStill` for every choice of `Parts`, and `BoardKeepsSlot` the refinement `SlotPromise`.
* **The work queue** (`BluetoothProofs`, `WorkInv`). `CancelSyncIsFinal` is about items that
  nobody submits again; the invariant has to say where a submission, a delay or a timer thread may
  stand meanwhile. An item on its way into, in or just out of the queue is pending and there
  once (`WorkLinked`): client, timer thread and worker each keep an item that is out of the queue
  for a step. While a synchronous cancellation is alone with its item nobody delays it, and after
  the drain no timer thread has it (`WorkAlone`); what it leaves is quiet (`WorkQuiet`).
* **The controller** (`HciInv`) and **the daemon** (`LifeInv`). What is up belongs to the newest
  daemon and is no more than its place has brought up (`LifeHeld`), in the order of the services
  (`ServiceOrder`); the transport is started only where a daemon runs it, or stuck. Daemons may be
  delayed between their last critical section and their post, and commands time out. For
  `StopMeansDown` the invariant adds that a post which a running daemon finds is of one that had
  still to post when it was started (`PromptPosts`), and that whoever waits for a daemon has told it
  (`PromptCall`): a success is then that daemon's own, or it was started in that gap and has been told.
* **Advertising** (`VisibleInv`, `FoundInv`) and **the link** (`HubRefs`). Host, work queue and shell each
  look at the flags, wait for the controller, and note the outcome. The invariant says for each place
  what is asked for and whether the controller advertises, unless two of them have crossed there
  (`crossed`): `OffStaysOff` and `FoundAfterwards` are its two ends. `HubBooks` counts the references of
  each object by who holds them.
* **Drains** (`BtsensorProofs`, `DrainInv`), **transmission** and **the scheduler** (`SchedInv`). A registration is told its end
  by whoever takes it out of the table, and only while it is in it; whoever works on the timer while
  others change the registration goes round again (`TimersAreReconciled`). The pump's flag stands for
  exactly one thread of this lifetime, since a thread of an earlier one notices on its way out
  (`TransmitBooks`). The scheduler's worker dispatches what it
  polls, an object has one slot (`SchedListed`) unless a rearming timer was entered twice while it
  was called back; those are the exception the property states.
* **Links** (`LinkInv`, `NotifyInv`). A motor that turns has an owner, the owner's command drives it,
  and the owner's link is up or its end is being settled (`LinkIsUp`). An action stops a set of
  motors (`Lets`), drives one, or leaves all alone: `MotorsAreLet`, `MotorIsDriven` and `MotorsAreKept`
  carry every one of them. `RunEndsItsOwn` follows for the step itself. For notifications the
  invariant says, for each place of the host's thread, which of timer, notifier and service have the
  interval already.
* **The UART** (`RxInv`, `TxInv`). The consumer of the receive ring stands at the next byte that is due
  (`RxInv`), so that `RxInOrder` follows for every length of the ring while the controller is less
  than a ring ahead; a wake-up that is owed is pending in the reader's place, in the interrupt or in
  the worker (`BytesReachTheReader`). `txlock` is held by the thread that waits for the DMA or the shift
  register (`OneTransmits`), hence `BaudIsQuiet`: the rate changes only where nobody transmits.
* **Settings** (`StoreInv`, `SaveInv`, `LoadInv`, `CommitInv`). A file is the whole value of the last save
  that succeeded, the temporary file holds what its save has written, and only one that is complete and
  synchronised is renamed. During a load every key that was not given to its handler is still to come
  (`LoadsWhatWasSaved`), and what has committed comes before what is still to (`SavedIsWhole`).
* **The sensor stream** (`BundleInv`, `OrderInv`), **the cache** and **its writes**. Between the look at
  the IMU's flag and its change, flag and sampler differ as far as the command has come
  (`BundleAgrees`), which is what makes it safe that `deinit` looks at the flag. Samples are numbered;
  their numbers rise along the ring and along each frame, above what left before (`NumbersRise`,
  `AllAbove`): that a frame is a run of the ring, and the next frame the run behind it, is lemma
  `FramesAreRuns`. For the cache the invariant orders publications, generations and what was shown last
  (`ShownIsNew`); for writes it says in which places the claim is held (`WritesAreOurs`).
* **Tones** (`SpeakerInv`, `HitInv`) and **beeps** (`BeepInv`). A sound outlives its file only under a caller
  that has claimed the device and not begun a note. `NotesAreInTune` is arithmetic: for each of the 84
  notes the period is an even number of samples in the buffer, the rate is within the converter's
  limits, and their product is off the pitch by half a sample per second at most (`NoteInTune`, from
  bounds on the table and on the two roundings).
* **MCBluetooth.** As for the board: `BluetoothStops` is the theme `StopIsKept`, `BluetoothBooks` the theme
  `BooksAreTrue`, the types and bounds of seventeen machines among it, and `BluetoothSteps` the theme
  `StepsAreTheirs`, for every choice of `Parts`, from `PartStarts`, `PartSteps` and the theorems of the
  machines.

Assumptions on constants: `ConstantsAssumption` (positive limits), `ProgramsAssumption`
(positive ids and owners, two languages), `UploadsAssumption` (a source is shorter than the
buffer, images fit it), `LegoPortAssumption` (a queue of at least one frame), `RingAssumption`,
`DaemonAssumption`, `ChargerAssumption` (bounds are natural numbers, capacity and batch positive),
`LifecycleAssumption`, `SchedulerAssumption` (watches are no timers, there is a first timer slot),
`WorkAssumption`, `LinkAssumption`, `BtUartAssumption`, `HubTransportAssumption` ("none" is no item, link,
writer and connection), `TxAssumption`, `BoundsAssumption`, `ModernNotifyAssumption` (bounds and intervals are
natural numbers),
`SoundAssumption` (the notes are those of the table), `SettingsAssumption` (every key has a handler),
`BundleEmitterAssumption`, `SensorCacheAssumption` (sizes and rates are positive)
and, of the storage, that records are not empty and that no program is taken for "none" or for a
missing file (`SlotAssumption`). TLC evaluates them, those of the instances as `Instances`.

Only model-checked:

* everything under fairness (`Terminates`, `PortsReleased`, `OwnedIsServed`, `TeardownCompletes`,
  `AllEnds`, `AllServed`): liveness and ENABLED are out of the prover's reach;
* what recursive or folded operators compute (`SpikeStream`'s encoding, `CommandFeed`'s parsing,
  profiles of `DriveTrajectory`): the prover has no induction over data;
* the other machines of the suites, and the themes `MotionIsTrue`, `ReadersSeeTheTruth`, `OneAtATime`,
  `StepsAreLegal` and `NothingLostOrMixed`, to which the theorems
  contribute single conjuncts (`ForeverDrives`, `PausedFollows`, `EndpointIsCurrent`, `ReportIsTrue`,
  `Exclusive`, `RtHasMotors`, `WithinPort`, `StaysBraked`, `BrakeHolds`; `NoStaleNotification`,
  `AnswerIsTrue`, `InTune`). They are within the
  prover's reach.

## 6. Findings and observations

Three statements of the repository are checked in runs of their own and violated:

* **The supply rail outlives the session** (`port_rail_outlives_session`).
  `stm32_legoport_lump.c:1280` says of the pinned rail "Stays pinned (rejecting userspace
  SET_DUTY / BRAKE) until the session ends". The teardown never unpins it;
  `lump_reset_session_state` does, at the start of the *next* session. After a colour or
  distance sensor is unplugged, the bridge of the empty port stays at full duty and rejects
  commands until another UART device is handed off. A motor plugged in afterwards is not
  affected (`MotorDrivable`).
* **A stored bond makes the settings fail to load** (`settings_bond`). `dispatch_setting`
  gives `bt/keys/<address>` to the handler of the whole tree, which answers `-ENOENT`.
* **Curves are not stretched** (`drive_trajectory_curve`). The residual gate of the stretch
  samples the profile at a duration instead of a time, that is before its start unless
  it starts at 0, and refuses the stretch.

The other places where TLC showed a comment, a header or a document to say something the
code does not do are kept as definitions ("Refuted by the code" in their comments, or
properties that hold only under the constants of the runs). Each can be seen again by
giving it to TLC as an INVARIANT or PROPERTY of its module's `Spec` or `FairSpec`, with the
constants mentioned:

* `BtsensorTx.ClassicResumes` (`apps/btsensor/btsensor_tx.c:340`): While a thread pumps, a
  wake-up only sets g_repoll, and the pump honours it once per entry (retry_available). When
  that retry was spent on an earlier wake-up (an enqueue is enough) and the transport then
  refuses a send for lack of buffers, the completion of the buffers in flight sets g_repoll
  again, the pump leaves with it set, and the refused response stays queued although the link is
  idle, until something else is enqueued. The comment at apps/btsensor/btsensor_transport.c:46
  says "A send refused for lack of transmit buffers leaves the pump stopped with data queued; a
  completed frame is the moment to resume it.", and apps/btsensor/btsensor_tx.h:5 says of
  responses "must always make it through".
* `LinkSessions.DisconnectStopsDetached` (`apps/btsensor/btsensor_modern_backend.c:500`): When a
  link is lost stop_owned_locked drops the ownership and ignores the result of the stop. For a
  motor that is pulled out at that moment validate_motor refuses the stop with -ENODEV, the duty
  of the bridge stays set, nobody owns it any more, and the motor turns when it is plugged in
  again. The sibling path at apps/btsensor/btsensor_modern_backend.c:473 coasts the port in this
  case and says "Attachment loss must not leave an old owner's PWM demand live."
* `DriveDevice.StopIsImmediate` (`boards/spike-prime-hub/src/stm32_drivebase_chardev.c:785`):
  STOP actuates in one critical section and pushes its envelope in a later one, and the daemon's
  tick consults only the envelopes: a tick that has drained the ring before the push drives both
  motors with the old motion again, until the next tick takes the STOP.
  docs/en/drivers/drivebase.md:183 says "`DRIVEBASE_STOP` is fully resolved inside the ioctl"
  and :189 "No daemon round-trip".
* `DriveDevice.DeadIsStill` (`boards/spike-prime-hub/src/stm32_drivebase_chardev.c:614`): When
  the watchdog has detached a late daemon, the daemon's late ticks still drive the motors until
  DAEMON_STALL_LIMIT of them were counted. If the task dies then, db_chardev_close finds no
  attachment and does not actuate, and closing the sensor descriptors
  (src/boards/spike-prime-hub/src/legosensor_uorb.c:773) only releases the claim: the motors
  stay driven. docs/en/drivers/drivebase.md:238 says "close LEGOSENSOR fds → legoport chardev
  auto-coasts as a safety net".
* `DriveDaemon.StopIsHonest` (`apps/drivebase/drivebase_daemon.c:676`): The task stores STOPPED
  before it posts teardown_done. A start in between drains nothing and creates the next daemon;
  the old task's post then satisfies the next stop at once, which returns 0 while the new daemon
  is still up. apps/drivebase/drivebase_daemon.h:54 says "Returns 0 on clean stop, -ETIMEDOUT if
  the daemon is still alive after the wait".
* `DriveDaemon.OneDaemon` with `Hasty = TRUE` (`apps/drivebase/drivebase_daemon.c:709`): The
  state leaves STOPPED only when the new task runs, and it is tested before the lock is taken: a
  second start before that creates a second task on the same globals.
  apps/drivebase/drivebase_daemon.h:42 says "Idempotent — second call while running returns
  -EALREADY".
* `DriveMotion.CoastStopsBoth` (`apps/drivebase/drivebase_drivebase.c:1072`): propagate starts
  at 0, which is also the value of DRIVEBASE_ON_COMPLETION_COAST, and the branch that stops both
  axes is taken only for propagate != 0. After a COAST completion or stop the tick composes a
  duty for both motors, and the auxiliary axis goes on holding. The comment at
  apps/drivebase/drivebase_drivebase.c:1066 says "if EITHER axis decides COAST or BRAKE this
  tick, stop both axes and apply the matching passive actuation to both motors".
* `DriveMotion.SourceSteady` with `"curve_nowhere"` and `"set_gyro"` among the verbs
  (`apps/drivebase/drivebase_drivebase.c:761`): drive_curve with angle 0 clears active_command
  while a drive-forever is running and stops nothing; set_use_gyro is then accepted, or the next
  drive-forever latches again, while the heading PID keeps its state.
  apps/drivebase/drivebase_drivebase.c:422 says "Refuse to flip the source mid-motion".
* `DriveWheel.StallIsLong` (`apps/drivebase/drivebase_observer.c:249`): update_sample adds the
  whole time since the last sample to the stall streak although the idle ticks in between have
  added it already, so a stall is declared in about half the window; the first sample after a
  silence can even count time from before the duty was raised.
  apps/drivebase/drivebase_settings.h:97 says of stall_window_ms "both true continuously for
  this long".
* `DriveWheel.IdleDecays` (`apps/drivebase/drivebase_observer.c:267`): idle_tick computes the
  slope between the same samples again: the walk starts from the newest sample, not from the
  clock, so without samples the speed keeps its last value for ever. The comment at
  apps/drivebase/drivebase_observer.c:261 says "as wall-clock advances, older entries fall
  outside the adaptive window" and that "slope decays to 0".
* `LineTrace.RunSticks` (`apps/linetrace/linetrace_main.c:1671`): do_brake sets g_brake_request,
  waits one second and returns without taking the request back; the daemon, busy with a sweep of
  three seconds, or past the point where it answers and not yet at the point where it clears
  g_engaged, then disengages a run that was issued after the brake.
  apps/linetrace/linetrace_main.c:174 says of g_engaged "Set true on a successful `linetrace
  run`" and "Sticky": only an explicit brake of the user ends it.
* `LineTrace.TuningSurvives` (`apps/linetrace/linetrace_main.c:1166`): do_start clears the
  calibration flags but not g_brake_request, so a brake that timed out against a daemon that
  gave up opening its devices is taken by the next daemon, which zeroes the speed and gains just
  loaded from linetrace.cfg. apps/linetrace/linetrace_main.c:1355 says "A bare `linetrace run`
  therefore re-engages at the persisted/last tuning".
* `CapturePipe.SignalEnds` (`apps/capture/capture.c:50`): A write that is interrupted after it
  has filled the ring returns the bytes written so far; capture_write_all takes that for
  progress and calls write again, which sleeps with the signal already used up. The first `kill`
  of an export that waits for a reader has no effect. apps/linetrace/linetrace_main.c:1847 says
  the handlers are installed "so a handled `kill <pid>` while blocked on the reader winds down
  cleanly".
* `CapturePipe.CleanDrain` (`boards/spike-prime-hub/src/stm32_btcap_chardev.c:341`): When the
  reader closes after FINALIZE the device resets to IDLE whatever is left in the ring, and
  capture_deinit, which waits for IDLE, returns 0. apps/capture/include/capture.h:157 says "0 on
  a clean drain" and boards/spike-prime-hub/include/board_btcap.h:76 that "the session ends when
  the reader has consumed everything".
* `LumpEngine.BaudAgrees` (`boards/spike-prime-hub/src/stm32_legoport_lump.c:1238`): The speed
  is changed only when the announced one differs from 115200, whatever the UART runs at: after
  the fallback to 2400 baud (line 1051) a device that announces 115200 switches and the host
  does not, while info.baud says 115200. boards/spike-prime-hub/src/stm32_legoport_lump.c:1228
  says "Reply with SYS_ACK, wait 10 ms, switch to negotiated baud."
* `LumpEngine.ExtAgrees` (`boards/spike-prime-hub/src/stm32_legoport_lump.c:639`): ext_mode is
  added to the command number of CMD frames too: after EXT_MODE 8 every command has a mode of at
  least LUMP_MAX_MODES and is dropped, EXT_MODE 0 included, so no DATA frame is delivered for
  the rest of the session although each keeps it alive.
  boards/spike-prime-hub/src/stm32_legoport_lump.c:950 says "Powered Up devices issue `CMD
  EXT_MODE 0` / `CMD EXT_MODE 8` before each DATA group to multiplex modes >= 8."
* `LumpEngine.PulledEnds` (`boards/spike-prime-hub/src/stm32_legoport_lump.c:1087`): The header
  search goes on after every timeout, so a device that is pulled before its first TYPE frame
  keeps the engine and the latched port until another UART device is plugged in.
  boards/spike-prime-hub/src/stm32_legoport_lump.c:33 says "On error / disconnect the kthread
  closes the USART, calls `stm32_legoport_release_uart()`".
* `LumpEngine.DetachQuiesces` with `LateAttach = TRUE`
  (`boards/spike-prime-hub/src/stm32_legoport_lump.c:2042`): in_callback is one flag for the
  kthread's callbacks and the on_sync that lump_attach calls in the attaching thread: the
  latter's end clears it while the kthread is still in on_data, and lump_detach then succeeds.
  boards/spike-prime-hub/include/board_lump.h:248 says "Detach — clears callbacks atomically.
  Pending callback dispatches complete before this returns."
* `LumpEngine.SyncOnce` with `LateAttach = TRUE`
  (`boards/spike-prime-hub/src/stm32_legoport_lump.c:2022`): SYNCED is published before the
  kthread copies the callback: a consumer that attaches in between finds the port SYNCED, calls
  on_sync itself, and the kthread calls it too. boards/spike-prime-hub/include/board_lump.h:209
  says "Callback invoked once on SYNCING -> DATA transition."
* `LumpEngine.SentOnMode` (`boards/spike-prime-hub/src/stm32_legoport_lump.c:2125`): need_select
  looks at current_mode and not at a selection that is pending: after lump_select_mode(1) and
  before the drain, lump_send_data(0) queues only the DATA and the device gets SELECT 1, DATA 0.
  boards/spike-prime-hub/include/board_lump.h:264 says "The engine queues `CMD SELECT mode`
  ahead of the DATA frame whenever the port's `current_mode` differs from the target, so the
  device is on the requested mode by the time the payload is delivered."
* `LumpEngine.FreshRequest` (`boards/spike-prime-hub/src/stm32_legoport_lump.c:2097`):
  lump_select_mode checks SYNCED under info_lock and posts under tx_lock: between the two the
  session may end and another begin, whose reset comes before the post.
  boards/spike-prime-hub/src/stm32_legoport_lump.c:408 says "Drop any stale TX requests + DATA
  queue from the previous session."
* `SensorClass.PushIsBound` (`boards/spike-prime-hub/src/legosensor_uorb.c:603`): on_data looks
  its class up under g_bind_lock and pushes after the lock and the port lock are released: a
  takeover in between makes the loser publish a sample, after its own disconnect sentinel.
  docs/en/drivers/sensor.md:74 says "only the bound port pushes to the class lower-half; unbound
  ports are dropped silently".
* `SensorClass.WriteIsCurrent` (`boards/spike-prime-hub/src/legosensor_uorb.c:1093`): The claim
  is checked under g_bind_lock and the port is written after it is released: a takeover in
  between lets the write reach the displaced port and return 0. docs/en/drivers/sensor.md:205
  says "when a port is taken over or disconnected after a CLAIM, the driver bumps an internal
  `bind_generation`.  The owner fd's next write ioctl returns `-ENODEV`".
* `Charger.Restarts` (`boards/spike-prime-hub/src/stm32_battery_charger.c:682`): The timeout
  sets ISET to 0 % besides the MODE pin; after the pause only the MODE pin is enabled again
  (charger_enable_if_usb), and ISET is written only on a VBUS edge or a detection, so no current
  flows until the plug is pulled. boards/spike-prime-hub/src/stm32_battery_charger.c:70 says
  "Charge timeout: 60 min charge → 30 sec pause → restart".
* `Charger.IsetOffWithoutVbus` (`boards/spike-prime-hub/src/stm32_battery_charger.c:388`):
  bcd_detect_worker looks at VBUS once and takes up to half a second: a plug pulled meanwhile
  has been handled when it sets ISET and bcd_result for a port that is gone.
  boards/spike-prime-hub/src/stm32_battery_charger.c:414 says "On VBUS drop: disable MODE and
  ISET."
* `ImuSensor.TimestampTrue` (`boards/spike-prime-hub/src/lsm6dsl_uorb.c:409`): ts_irq is read
  after the burst: an interrupt during the 12-byte read, which at 400 kHz lasts longer than a
  period of the fast rates, gives the older values the newer time, and the next sample repeats
  it. boards/spike-prime-hub/src/lsm6dsl_uorb.c:456 says "Capture the timestamp inside the ISR
  so the worker carries the true sample-ready time, free of HPWORK + I2C burst latency."
* `ImuSensor.Drained` (`boards/spike-prime-hub/src/lsm6dsl_uorb.c:533`): work_cancel removes a
  queued item and does not wait for a running one: a worker between its unlock of devlock and
  push_event publishes after activate(false) has returned.
  boards/spike-prime-hub/src/lsm6dsl_uorb.c:526 says "Drain any HPWORK item that the chip's last
  DRDY interrupt may have queued; otherwise drdy_worker can fire after sensor_close has freed
  `user`".
* `PortScan.EveryWaiterWakes` (`boards/spike-prime-hub/src/stm32_legoport.c:458`):
  legoport_post_change posts once when the count is not positive: of two threads that sleep in
  WAIT_CONNECT one stays asleep. boards/spike-prime-hub/src/stm32_legoport.c:453 says "Wake
  every waiter without spamming posts beyond what's needed."
* `PortScan.PollWakes` (`boards/spike-prime-hub/src/stm32_legoport_chardev.c:577`): The poll
  slots are filled and cleared and nothing but the set-up itself calls poll_notify: a change
  after the set-up does not wake the poller. boards/spike-prime-hub/src/stm32_legoport.c:193
  says "Edge notification for WAIT_CONNECT / WAIT_DISCONNECT / poll()."
* `PortScan.HandedOff` (`boards/spike-prime-hub/src/stm32_legoport.c:847`): A re-scan of an
  unowned port that confirms UNKNOWN_UART re-arms the gate and never calls the callback,
  registered meanwhile or not. docs/en/drivers/port-detection.md:240 says "After
  `register_uart_handoff`, when DCM confirms `UNKNOWN_UART` it invokes the CB."
* `PortScan.ConsecutiveNone` (`boards/spike-prime-hub/src/stm32_legoport.c:860`):
  unowned_disc_streak is reset only by a UART confirmation: a passive device between two NONE
  confirmations does not break the streak. docs/en/drivers/port-detection.md:251 says "K=3
  consecutive NONE confirmations release the latch".
* `NorFlash.Mounts` (`boards/spike-prime-hub/src/stm32_w25q256.c:805`): w25q256_mount formats
  only a partition that is erased as a whole, so one whose first format was cut by a power loss,
  or that holds other data, is never formatted. docs/en/drivers/w25q256.md:86 says "If it
  returns `-EFAULT` (corrupt) or `-EINVAL` (fresh, unformatted chip), retry with `"forceformat"`
  to format-and-mount."
* `Sound.HitIsQuiet` with two threads on one file
  (`boards/spike-prime-hub/src/stm32_tone.c:537`): tone_write clears stop_flag when it claims
  the device: a tune on the same file that had not yet polled the flag finds itself owner again
  and plays on beside the new one. docs/en/drivers/sound.md:120 says "`ioctl(fd, TONEIOC_STOP,
  0)` stops immediately."
* `Sound.PendingInterrupted` (`boards/spike-prime-hub/src/stm32_tone.c:537`): A newer tune
  clears the request of pcm_write before the pending one polls it; the pending one sleeps its
  note to the end and can return success. boards/spike-prime-hub/src/stm32_pcm.c:209 says "any
  pending tone_write observes it and exits with -EINTR."
* `BtUart.CleanOpen` (`boards/spike-prime-hub/src/stm32_btuart_chardev.c:116`): btuart_cdev_open
  attaches the callback and enables reception and never calls rxdrain, so bytes of the session
  before (or of the bring-up script) are read first.
  boards/spike-prime-hub/src/stm32_btuart.c:591 says "The upper half calls this during
  btuart_open() to guarantee a clean slate after our bring-up-time script exchanges."
* `LumpUart.CleanRate` (`boards/spike-prime-hub/src/stm32_legoport_uart_hw.c:378`):
  lump_uart_set_baud drains the data register and leaves the ring; bytes received at the old
  rate are read at the new one (lump_uart_open resets both).
  boards/spike-prime-hub/src/stm32_legoport_uart_hw.c:408 says "Drop any byte left in RDR +
  clear NVIC pending so the new baud starts with a clean slate (same logic as lump_uart_open())"
* `BundleEmitter.NoLoss` with `Rate = 833` (`apps/btsensor/bundle_emitter.c:343`): emit_bundle
  drains at most 8 samples in a tick of 10 ms; at the permitted 833 Hz 8.33 arrive, the backlog
  grows by a third of a sample a tick and the 32-slot ring starts to drop the oldest after about
  a second. apps/btsensor/imu_sampler.c:13 says "ODR is capped at 833 Hz to keep the per-tick
  sample count under bundle's 8-sample limit."
* `BundleEmitter.HeaderKnown` (`apps/btsensor/bundle_emitter.c:232`): The fallback is empty
  until a sample has been drained, so a tick before the first sample of the first IMU ON sends
  rate 0. apps/btsensor/bundle_emitter.c:88 says "without this fallback the header would emit
  0/0/0 and host UI would briefly latch invalid values."
* `BundleEmitter.AgeTrue` (`apps/btsensor/sensor_sampler.c:400`): The age is the difference of
  32-bit millisecond clocks: 49.7 days after a publication it starts again at 0.
  apps/btsensor/sensor_sampler.c:397 says "Age in 10ms units, saturated at 0xFF (~2.55 s)."
* `Lifecycle.StoppedIsDown` without its second alternative
  (`apps/btsensor/btsensor_lifecycle.c:103`): daemon_main clears g_running, unlocks and then
  posts g_stopped. A start in between drains the semaphore before the post; the next stop returns
  0 at once on the old post while the new daemon, which has been told, is still up.
  docs/en/testing/test-spec.md:448 says "`btsensor stop` so the daemon does not leak into
  subsequent tests"
* `Lifecycle.OffIsOff` without `crossed` (`apps/btsensor/btsensor_transport.c:40`):
  le_advertising_restart has looked at g_visible and waits in bt_le_adv_start when `bt off` looks
  at g_le_advertising, finds it false and stops nothing; advertising starts afterwards and stays
  on. docs/en/drivers/bluetooth.md:247 says "`btsensor bt off` is unconditional (turns OFF from
  any reachable state)."
* `Lifecycle.FoundAgain` without `crossed` (`bluetooth/zephyr_compat/src/hub_transport.c:72`): A
  second `bt on` lets the hub advertise while a central is connected; when a second central
  connects, transport_connected returns before the advertising hook, g_le_advertising stays true
  and no later restart takes place. With one connection the same follows when it comes between
  the start of the advertising and the note of it. apps/btsensor/btsensor_transport.c:29 says
  "While the hub is meant to be visible, advertising restarts once the finished link is
  recycled."
* `CommandFeed.OneConnection` with `MidLine = TRUE` (`apps/btsensor/btsensor_main.c:235`):
  transport_state does not clear the line buffer of a link that went down: the half line of a
  lost connection becomes the beginning of the next connection's first command.
  apps/btsensor/btsensor_cmd.h:6 says "Commands are one line per request, terminated by '\n' (CR
  ignored)."
* `CommandFeed.WholeReply` (`apps/btsensor/btsensor_cmd_neutral.c:511`): The reply is formatted
  into 64 bytes and a word may have up to 127: from 52 characters on the line end is cut off and
  the next reply runs into this one. docs/en/drivers/bluetooth.md:301 says "unknown command:
  `ERR unknown <cmd>\n`"
* `CommandFeed.OverflowAt64` (`apps/btsensor/btsensor_cmd_neutral.c:534`): BTSENSOR_CMD_MAX_LINE
  is 128, so a line of 64 to 127 bytes is executed. docs/en/drivers/bluetooth.md:300 says "line
  longer than 64 B: `ERR overflow\n`"
* `DriveImu.BiasMeaning` with `FsrWhileClosed = TRUE` and a calibration file
  (`apps/drivebase/drivebase_imu.c:284`): When the first sample comes in another full scale than
  the calibration's (btsensor had selected it), the loaded bias is kept as it is, so it stands
  for half or twice the rate. apps/drivebase/drivebase_imu.c:13 says "Detect FSR transitions
  (Issue #139) and rescale the cached" "gyro bias / idle threshold to preserve their physical
  meaning."
* `DriveImu.RestWatched` (`apps/drivebase/drivebase_imu.c:399`): The time since the last sample
  counts as rest even when the sensor was silent: one quiet sample after a pause of 200 ms
  completes a window and replaces the bias. apps/drivebase/drivebase_imu.h:282 says "a few
  hundred samples of \"near-zero\"" "gyro will set calibrated=true."
* `DriveImu.HeadingIsYaw` with `Fine = 4` (`apps/drivebase/drivebase_imu.c:627`): Each drain
  cuts the turn to whole millidegrees and takes the full yaw as the next reference, so what is
  cut off is lost: a turn below 0.5 deg/s at 500 drains a second never shows.
  apps/drivebase/drivebase_imu.h:147 says "Heading state, mdeg, signed.  In Phase 3a this is the
  unwrapped" "world-vertical yaw extracted from the Madgwick quaternion"
* `DriveDevice.StatusWhole` with `Preempt = {"user", "daemon"}`
  (`boards/spike-prime-hub/src/stm32_drivebase_chardev.c:484`): In db_read_status the continue
  for an odd sequence number goes to the test s1 != s2 of the do-while loop. A reader whose copy
  was overtaken by a writer has an odd s2; if it runs again before the writer ends, its next s1
  is the same odd number, the test is false and the torn copy is returned.
  boards/spike-prime-hub/src/stm32_drivebase_chardev.c:26 says that the reader retries "until
  seq is even and unchanged across the memcpy".
* `DriveDevice.StateWhole` with `Preempt = {"user", "ticks"}`
  (`boards/spike-prime-hub/src/stm32_drivebase_chardev.c:417`): A reader that is kept from
  running for more than one tick while it copies the active slot is overtaken by two swaps: the
  second tick writes the slot being copied, and nothing makes the reader repeat.
  boards/spike-prime-hub/src/stm32_drivebase_chardev.c:23 says "Single writer = no race".
* `DriveDevice.DetachedIsZero` with `Preempt = {"user", "watchdog"}`
  (`boards/spike-prime-hub/src/stm32_drivebase_chardev.c:441`): PUBLISH_STATUS tests the
  attachment and writes without producer_lock. The watchdog (LPWORK) preempts it in the middle,
  zeroes the status as a second writer of the seqlock, and the publication then goes on and
  fills in the fields it has left: the detached device shows them until the next daemon
  publishes. boards/spike-prime-hub/src/stm32_drivebase_chardev.c:531 says "so a detached
  chardev reads as a zeroed snapshot".
* `SpikeStream.NothingLost` with a message in `Refused` (`protocol/c/spike_codec.c:224`): When
  the handler of a message returns an error, for instance because its answer does not fit the
  transmit queue, bw_spike_stream_feed returns from the middle of the chunk and
  transport_receive ignores the result: the other frames of the chunk are lost, and of a frame
  that continues in the next chunk only the end is taken.
  protocol/fixtures/spike-cobs-v1.json:22 says of the case "coalesced" that "chunks_hex":
  ["000002070002"] gives both payloads.
* `SpikeStream.MessagesInOrder` with `Reconnects = "any"` (`apps/btsensor/btsensor_main.c:234`):
  transport_state resets the notifier, the classic session, sound and motors when the LE link is
  lost, but not g_modern_protocol, which is reset only when the daemon stops: the begin of a
  frame of the lost connection is joined with the first frame of the next one, and the result is
  rejected or handled as another message. protocol/js/test-spike-codec.js:36 says "reconnect
  clears partial frame".
* `SettingsStore.LoadSucceeds` with one crash (`bluetooth/zephyr_compat/src/settings.c:49`): A
  crash between open and rename leaves <key>.tmp, which visit_directory hands to a handler like
  a key; the handler refuses the name and the load fails at every start until the key is saved
  again. PLAN.md:296 says the seam has "strict logical-key validation, flush, and atomic file
  replacement under `/mnt/flash/brickwright-settings`".
* `BtButton.WakesOnEvery` with two readers (`boards/spike-prime-hub/src/stm32_btbutton.c:215`):
  btbtn_read clears the one fresh flag of the device: after another descriptor has read, a
  reader that was between two polls goes to sleep over a transition it has not seen.
  boards/spike-prime-hub/src/stm32_btbutton.c:20 says "poll(fd, POLLIN) -> wakes on every press
  / release transition".
* `DriveTrajectory.IsSlower` (`apps/drivebase/drivebase_trajectory.c:538`): The probe includes
  the present peak speed, which wins when the target is only little longer: the stretch succeeds
  with the same peak and a longer cruise. apps/drivebase/drivebase_trajectory.h:161 says
  "tr->v_peak_mdegps strictly less than its input value".
* `Charger.WithinPortAlways` (`boards/spike-prime-hub/src/stm32_battery_charger.c:388`): a
  detection for the port before is still running when another port is plugged in and its worker
  queues a detection; a bounce of the contacts, quicker than the worker, lets the old detection
  end and the new one find no VBUS; the worker sees no edge, and a standard port is left with the
  1500 mA of the charging port before it. This needs the high-priority work queue to be held up
  while the low-priority one runs. `WithinPort` excepts the current that a detection without a plug
  leaves, and one set by ioctl, until the next detection or edge.

The following crossings contradict no document, but a reader of the properties should know them.
They are in the models too, with what they break kept out of the promise by name:

* **A delay armed inside a cancellation** (`WorkQueue.DelayEnds` without `overtaken`, two clients and
  `MaxGen = 4`; `bluetooth/zephyr_compat/src/work.c:363`). k_work_cancel_delayable clears the deadline and
  lets go of the mutex before delayed_request_cancel marks the timer slots (226). A k_work_schedule of
  another client in between sets a deadline and takes a slot; the late cancellation marks that
  slot, its timer leaves without clearing the deadline (257-268), and k_work_schedule refuses the
  item from then on (277), until somebody cancels or reschedules it. The same happens where the
  cancellation goes on to k_work_cancel and raises the generation once more. `DelayEnds` excepts exactly
  the items to which this has happened; with one client it cannot.
* **Two starts of the line tracer** (`apps/linetrace/linetrace_main.c:1088`). do_start looks at
  g_daemon_running, resets the capture (1103-1117), opens the drive base and loads the configuration,
  and sets the flag at 1179, without a lock. Two shells that start at once create two daemons over one
  set of flags, statistics and parameters. What holds all the same is checked and proved: nothing moves
  without a daemon in its loop that knows it (`DriveIsOwned`). What does not:
  `LineTrace.Stoppable` is refuted (the daemon that fails to open the sensor clears g_daemon_running while
  the other drives, and every verb, `stop` among them, then answers "not running"); `RunSticks` and `TuningSurvives`
  (above) fail more easily; and `BrakeHolds` excepts the case of two live daemons (`Twins`): one takes
  the brake request, and the other, which was engaged, coasts the drive base in its next idle tick. The
  second start also clears `g_daemon_stop`, so that a stop given between the two is lost.
* **A late `cap arm`** (`LineTrace.StartsIdle`, `apps/linetrace/linetrace_main.c:1697`). do_cap_arm looks at
  g_daemon_running before it takes g_cap_lock (1726). When the daemon ends and the next start resets the
  capture in between, the arm comes after the reset, and the new daemon begins with an armed capture.
  What `StartsClean` promises is what the code keeps: a daemon whose start met no other begins with no
  record of an earlier life and with no export under way.
* **A request that was still to be posted** (`Lifecycle.OwnRequest` without `crossing`,
  `apps/btsensor/btsensor_lifecycle.c:170`). btsensor_lifecycle_stop looks at g_running and posts
  the request after it unlocked. When the daemon ends and another is started in between, the request
  stops the new one. And of two stop commands for one daemon the second waits for its timeout, since the
  daemon posts once; `StopCommandEnds` is therefore checked with one shell.
* **A stop that is refused** (`apps/btsensor/btsensor_modern_backend.c:469`). end_motor_if_owned keeps
  owner and demand when the bridge refuses the stop (-EBUSY, an I/O error); `EndOwned` stops any subset of
  the run's motors. `RunAnswered` says that the run is answered, not that its motor stands.

## 7. Not modelled

Listed with reasons in `PROJECT.json`. Servo arithmetic, PID gains, the quaternion
filter and identification work on real quantities; the modules take their outcome as a
choice or as a small integer. Register-level set-up, packet layouts, command-line parsing
and host tools keep no state whose order matters. Vendored code (NuttX, Zephyr host,
MicroPython, LittleFS) is outside; what is assumed of it is said where it is used.
The machines of the suites are not composed with each other: that the drive base, the line
tracer and hub programs exclude each other on a motor rests on the claims of `SensorClass`
and is not checked end to end.

## 8. Plan

Done: the modules and runs above, and the theorems of section 5. Next, in this order:

1. The status block of `DriveDevice` (`StatusWhole`, `NeverBack`): the sequence lock.
2. The order in the transmit queues of `BtsensorTx` (`TxInOrder`) and the frames of `HciLink`
   (`Accounted`), towards `NothingLostOrMixed`.
3. `CapturePipe`, `NorFlash`, `BtButton` and the laps of `LineTrace`, towards `OneAtATime`.
