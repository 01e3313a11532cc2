--------------------------- MODULE BundleEmitter ----------------------------
(***************************************************************************)
(* Telemetry of the Bluetooth daemon, two state machines.                  *)
(*                                                                         *)
(* The drain ring of the IMU (imu_sampler.c) and the emitter that folds it *)
(* into BUNDLE frames on a 10 ms timer (bundle_emitter.c). Two threads:    *)
(* the scheduler's worker, which runs the timer's and the watch's          *)
(* callback, and the thread that executes IMU ON/OFF, SENSOR ON/OFF and    *)
(* the shutdown. Stopping the timer or the watch waits for its callback. A *)
(* sample is its number and the configuration (rate and ranges) it was     *)
(* taken with; 0 is no configuration. A frame is the configuration its     *)
(* header shows and its samples. External: the driver's topic, the         *)
(* scheduler, and whether a consumer is connected.                         *)
(*                                                                         *)
(* The cache of the latest publication of each sensor class, which the     *)
(* BUNDLE frames show, and the write requests of the link                  *)
(* (sensor_sampler.c; btsensor_nuttx_peripheral.c above it). The worker    *)
(* runs the callbacks of the watches and takes the snapshots; another      *)
(* thread switches sampling and writes. A publication is data, a SYNC      *)
(* sentinel or a disconnect sentinel, with a number and a port. External:  *)
(* the class driver with its binding, generation and claim (module         *)
(* SensorClass models it).                                                 *)
(***************************************************************************)
EXTENDS Integers, Sequences, FiniteSets

CONSTANTS Ring,        \* IMU_DRAIN_RING
          PerFrame,    \* BTSENSOR_IMU_SAMPLES_MAX
          Config,      \* configurations of the IMU
          Rate,        \* samples in a second, of the paced specification
          TickHz,      \* ticks in a second
          MaxSamples,  \* bound on the samples
          MaxQueue,    \* bound on what waits in the topic
          MaxCalls     \* bound on the commands

BundleEmitterAssumption ==
    /\ Ring \in Nat \ {0, 1} /\ {PerFrame, TickHz} \subseteq Nat \ {0} /\ Config \subseteq Nat \ {0} /\ Config # {}
    /\ {Rate, MaxSamples, MaxQueue, MaxCalls} \subseteq Nat

VARIABLES
    cfg, n, queue,              \* the driver: configuration, samples so far, what the open topic holds
    watch, imu_enabled, ring,   \* imu_sampler.c: descriptor open and watched, g_enabled, ring
    sensor_enabled,             \* g_enabled of sensor_sampler.c
    g_initialized, g_imu_on, g_sensor_on, g_timer_armed, s_last,
    lock, wk,                   \* g_state_lock; the worker: idle, process, tick, emit
    cmd, calls,                 \* the other thread: step, stream, ON or OFF
    consumer,                   \* btsensor_tx_has_consumer
    frames, out,                \* the frames of the last tick; the newest sample sent
    mark, lost, ticks           \* history: samples when IMU was switched on, overflow, ticks

drv == <<cfg, n, queue>>
smp == <<watch, imu_enabled, ring, sensor_enabled>>
emt == <<g_initialized, g_imu_on, g_sensor_on, g_timer_armed, s_last>>
sent == <<frames, out, lost, ticks>>
vars == <<cfg, n, queue, watch, imu_enabled, ring, sensor_enabled, g_initialized, g_imu_on, g_sensor_on,
          g_timer_armed, s_last, lock, wk, cmd, calls, consumer, frames, out, mark, lost, ticks>>

Idle == [pc |-> "idle", what |-> "imu", on |-> FALSE, back |-> "idle"]

InitOf(on) ==
    /\ cfg = CHOOSE c \in Config : \A d \in Config : c <= d
    /\ n = 0 /\ queue = << >> /\ watch = on /\ imu_enabled = on /\ ring = << >> /\ sensor_enabled = FALSE
    /\ g_initialized = on /\ g_imu_on = on /\ g_sensor_on = FALSE /\ g_timer_armed = on /\ s_last = 0
    /\ lock = FALSE /\ wk = "idle" /\ cmd = Idle /\ calls = 0 /\ consumer = on
    /\ frames = << >> /\ out = 0 /\ mark = 0 /\ lost = 0 /\ ticks = 0

Init == InitOf(FALSE)

-----------------------------------------------------------------------------
(* The driver and the worker.                                              *)

\* A sample reaches the topic while its descriptor is open; another client sets the configuration.
Sample ==
    /\ watch /\ n < MaxSamples /\ Len(queue) < MaxQueue /\ n' = n + 1
    /\ queue' = Append(queue, [no |-> n + 1, cfg |-> cfg])
    /\ UNCHANGED <<cfg, lock, wk, cmd, calls, consumer, mark>> /\ UNCHANGED <<smp, emt, sent>>

SetConfig ==
    /\ cfg' \in Config \ {cfg}
    /\ UNCHANGED <<n, queue, lock, wk, cmd, calls, consumer, mark>> /\ UNCHANGED <<smp, emt, sent>>

Consumer ==
    /\ consumer' = ~consumer
    /\ UNCHANGED <<lock, wk, cmd, calls, mark>> /\ UNCHANGED <<drv, smp, emt, sent>>

Push(r, s) == IF Len(r) = Ring - 1 THEN Append(Tail(r), s) ELSE Append(r, s)

\* imu_process, sample by sample; the callback has begun when wk is "process".
ProcessStart ==
    /\ wk = "idle" /\ watch /\ queue # << >> /\ wk' = "process"
    /\ UNCHANGED <<lock, cmd, calls, consumer, mark>> /\ UNCHANGED <<drv, smp, emt, sent>>

Process ==
    /\ wk = "process"
    /\ IF queue = << >> THEN wk' = "idle" /\ UNCHANGED <<queue, ring, lost>>
       ELSE /\ ring' = Push(ring, Head(queue)) /\ queue' = Tail(queue) /\ UNCHANGED wk
            /\ lost' = IF Len(ring) = Ring - 1 /\ lost < 1 THEN lost + 1 ELSE lost
    /\ UNCHANGED <<cfg, n, watch, imu_enabled, sensor_enabled, lock, cmd, calls, consumer, frames, out, mark, ticks>>
    /\ UNCHANGED emt

\* tick_handler: the callback, its lock, and the frames
TickStart ==
    /\ wk = "idle" /\ g_timer_armed /\ wk' = "tick"
    /\ UNCHANGED <<lock, cmd, calls, consumer, mark>> /\ UNCHANGED <<drv, smp, emt, sent>>

TickLock ==
    /\ wk = "tick" /\ ~lock
    /\ IF g_imu_on \/ g_sensor_on THEN lock' = TRUE /\ wk' = "emit" ELSE wk' = "idle" /\ UNCHANGED lock
    /\ UNCHANGED <<cmd, calls, consumer, mark>> /\ UNCHANGED <<drv, smp, emt, sent>>

Drain(k) == [got |-> SubSeq(ring, 1, k), rest |-> SubSeq(ring, k + 1, Len(ring))]

\* emit_bundle: a frame for every run of equal configurations; emit_one_frame
Frame(s) == [cfg |-> s[1].cfg, samples |-> s]
Empty == << [cfg |-> IF g_imu_on THEN s_last ELSE 0, samples |-> << >>] >>

Bundles(s) ==
    LET cut == {i \in 1..Len(s) : i = 1 \/ s[i].cfg # s[i - 1].cfg}
        k == Cardinality(cut)
        Rising == {at \in [1..k -> cut] : \A i, j \in 1..k : i < j => at[i] < at[j]} IN
    IF s = << >> THEN {Empty}
    ELSE {[j \in 1..k |-> Frame(SubSeq(s, at[j], IF j = k THEN Len(s) ELSE at[j + 1] - 1))] : at \in Rising}

Emit ==
    /\ wk = "emit" /\ lock' = FALSE /\ wk' = "idle" /\ ticks' = (IF Rate = 0 THEN 0 ELSE ticks + 1)
    /\ LET k == IF Len(ring) < PerFrame THEN Len(ring) ELSE PerFrame
           d == IF g_imu_on THEN Drain(k) ELSE [got |-> << >>, rest |-> ring] IN
        IF consumer
        THEN /\ frames' \in Bundles(d.got) /\ ring' = d.rest
             /\ s_last' = IF d.got = << >> THEN s_last ELSE d.got[Len(d.got)].cfg
             /\ out' = IF d.got = << >> THEN out ELSE d.got[Len(d.got)].no
        ELSE ring' = (IF g_imu_on THEN << >> ELSE ring) /\ frames' = << >> /\ UNCHANGED <<s_last, out>>
    /\ UNCHANGED <<watch, imu_enabled, sensor_enabled, g_initialized, g_imu_on, g_sensor_on, g_timer_armed, cmd,
                   calls, consumer, mark, lost>>
    /\ UNCHANGED drv

-----------------------------------------------------------------------------
(* bundle_emitter_set_imu_enabled, bundle_emitter_set_sensor_enabled       *)

Go(pc) == cmd' = IF pc = "idle" THEN Idle ELSE [cmd EXCEPT !.pc = pc]
Rest == UNCHANGED <<wk, calls, consumer>> /\ UNCHANGED sent
IsOn == IF cmd.what = "imu" THEN g_imu_on ELSE g_sensor_on
SetOn(v) == IF cmd.what = "imu" THEN g_imu_on' = v /\ UNCHANGED g_sensor_on
                                ELSE g_sensor_on' = v /\ UNCHANGED g_imu_on

Call ==
    /\ cmd = Idle /\ calls < MaxCalls /\ calls' = calls + 1 /\ g_initialized
    /\ \E w \in {"imu", "sensor"}, v \in BOOLEAN : cmd' = [pc |-> "look", what |-> w, on |-> v, back |-> "flag"]
    /\ UNCHANGED <<lock, wk, consumer, mark>> /\ UNCHANGED <<drv, smp, emt, sent>>

Look ==
    /\ cmd.pc = "look" /\ ~lock /\ Go(IF cmd.on = IsOn THEN "idle" ELSE "sampler")
    /\ UNCHANGED <<lock, mark>> /\ UNCHANGED <<drv, smp, emt>> /\ Rest

\* imu_sampler_set_enabled(true): the descriptor and its watch, or an error ...
ImuOpen ==
    /\ cmd.pc = "sampler" /\ cmd.what = "imu" /\ cmd.on
    /\ \/ watch' = TRUE /\ queue' = << >> /\ mark' = n /\ Go("clear")
       \/ Go("idle") /\ UNCHANGED <<watch, queue, mark>>
    /\ UNCHANGED <<cfg, n, imu_enabled, ring, sensor_enabled, lock>> /\ UNCHANGED emt /\ Rest

ImuClear ==
    /\ cmd.pc = "clear" /\ ring' = << >> /\ imu_enabled' = TRUE /\ Go("flag")
    /\ UNCHANGED <<watch, sensor_enabled, lock, mark>> /\ UNCHANGED <<drv, emt>> /\ Rest

\* imu_sampler_set_enabled(false): the watch's callback is waited for
ImuClose ==
    /\ cmd.pc = "sampler" /\ cmd.what = "imu" /\ ~cmd.on /\ wk # "process"
    /\ watch' = FALSE /\ queue' = << >> /\ imu_enabled' = FALSE /\ Go(cmd.back)
    /\ UNCHANGED <<cfg, n, ring, sensor_enabled, lock, mark>> /\ UNCHANGED emt /\ Rest

SensorSet ==
    /\ cmd.pc = "sampler" /\ cmd.what = "sensor" /\ sensor_enabled' = cmd.on /\ Go(cmd.back)
    /\ UNCHANGED <<watch, imu_enabled, ring, lock, mark>> /\ UNCHANGED <<drv, emt>> /\ Rest

Flag ==
    /\ cmd.pc = "flag" /\ ~lock /\ SetOn(cmd.on)
    /\ LET other == IF cmd.what = "imu" THEN g_sensor_on ELSE g_imu_on IN
        Go(IF cmd.on THEN "arm" ELSE IF other THEN "idle" ELSE "disarm")
    /\ UNCHANGED <<lock, g_initialized, g_timer_armed, s_last, mark>> /\ UNCHANGED <<drv, smp>> /\ Rest

\* timer_arm; a failure takes the flag and the sampler back
Arm ==
    /\ cmd.pc = "arm"
    /\ \/ g_timer_armed' = TRUE /\ Go("idle")
       \/ ~g_timer_armed /\ cmd' = [cmd EXCEPT !.pc = "undo", !.on = FALSE, !.back = "idle"]
          /\ UNCHANGED g_timer_armed
    /\ UNCHANGED <<lock, g_initialized, g_imu_on, g_sensor_on, s_last, mark>> /\ UNCHANGED <<drv, smp>> /\ Rest

UndoFlagOnly ==                                     \* mutant: the sampler stays on
    /\ cmd.pc = "undo" /\ ~lock /\ SetOn(FALSE) /\ Go("idle")
    /\ UNCHANGED <<lock, g_initialized, g_timer_armed, s_last, mark>> /\ UNCHANGED <<drv, smp>> /\ Rest

Undo ==
    /\ cmd.pc = "undo" /\ ~lock /\ SetOn(FALSE) /\ Go("sampler")
    /\ UNCHANGED <<lock, g_initialized, g_timer_armed, s_last, mark>> /\ UNCHANGED <<drv, smp>> /\ Rest

\* timer_disarm: the timer's callback is waited for
Disarm ==
    /\ cmd.pc = "disarm" /\ wk \notin {"tick", "emit"} /\ g_timer_armed' = FALSE /\ Go("idle")
    /\ UNCHANGED <<lock, g_initialized, g_imu_on, g_sensor_on, s_last, mark>> /\ UNCHANGED <<drv, smp>> /\ Rest

\* bundle_emitter_init; bundle_emitter_deinit: first the timer, then the samplers
EmitterInit ==
    /\ ~g_initialized /\ cmd = Idle /\ calls < MaxCalls
    /\ g_initialized' = TRUE /\ g_imu_on' = FALSE /\ g_sensor_on' = FALSE /\ g_timer_armed' = FALSE
    /\ UNCHANGED <<lock, cmd, s_last, mark>> /\ UNCHANGED <<drv, smp>> /\ Rest

Deinit ==
    /\ g_initialized /\ cmd = Idle /\ calls < MaxCalls /\ calls' = calls + 1 /\ cmd' = [Idle EXCEPT !.pc = "stop"]
    /\ UNCHANGED <<lock, wk, consumer, mark>> /\ UNCHANGED <<drv, smp, emt, sent>>

StopTimer ==
    /\ cmd.pc = "stop" /\ (g_timer_armed => wk \notin {"tick", "emit"}) /\ g_timer_armed' = FALSE /\ Go("samplers")
    /\ UNCHANGED <<lock, g_initialized, g_imu_on, g_sensor_on, s_last, mark>> /\ UNCHANGED <<drv, smp>> /\ Rest

StopSamplers ==
    /\ cmd.pc = "samplers" /\ (g_imu_on => wk # "process") /\ Go("idle")
    /\ watch' = FALSE /\ queue' = << >> /\ imu_enabled' = FALSE /\ sensor_enabled' = FALSE
    /\ g_imu_on' = FALSE /\ g_sensor_on' = FALSE /\ g_initialized' = FALSE
    /\ UNCHANGED <<cfg, n, ring, lock, g_timer_armed, s_last, mark>> /\ Rest

-----------------------------------------------------------------------------
Worker == ProcessStart \/ Process \/ TickStart \/ TickLock \/ Emit
Command == Look \/ ImuOpen \/ ImuClear \/ ImuClose \/ SensorSet \/ Flag \/ Arm \/ Undo \/ Disarm
           \/ StopTimer \/ StopSamplers
Next == Sample \/ SetConfig \/ Consumer \/ Worker \/ Call \/ EmitterInit \/ Deinit \/ Command
Spec == Init /\ [][Next]_vars

\* Both threads run on; the worker, which serves the timer and the watch in turn, gets to both.
FairSpec == Spec /\ WF_vars(Process) /\ WF_vars(TickLock) /\ WF_vars(Emit) /\ SF_vars(Command)

\* IMU on, with a consumer: the samples of a period arrive, then its tick runs.
Due == (n + 1) * TickHz <= Rate * (ticks + 1)
PacedNext ==
    \/ Due /\ wk = "idle" /\ Sample
    \/ ProcessStart \/ Process
    \/ ~Due /\ queue = << >> /\ TickStart
    \/ TickLock \/ Emit
PacedInit == InitOf(TRUE)
PacedSpec == PacedInit /\ [][PacedNext]_vars

-----------------------------------------------------------------------------
TypeOK ==
    /\ cfg \in Config /\ n \in 0..MaxSamples /\ Len(ring) <= Ring - 1 /\ s_last \in Config \cup {0}
    /\ {watch, imu_enabled, sensor_enabled, g_initialized, g_imu_on, g_sensor_on, g_timer_armed, lock} \subseteq BOOLEAN
    /\ wk \in {"idle", "process", "tick", "emit"} /\ cmd.what \in {"imu", "sensor"}
    /\ \A i \in 1..Len(frames) : Len(frames[i].samples) <= PerFrame

\* Between commands the flags, the samplers and the timer agree, whatever step of a
\* command failed: a stream that is on is sampled and emitted, and nothing runs for none.
Agree ==
    cmd = Idle =>
        /\ g_imu_on = imu_enabled /\ g_imu_on = watch /\ g_sensor_on = sensor_enabled
        /\ g_timer_armed = (g_imu_on \/ g_sensor_on)

\* Once the emitter is deinitialised no callback of it runs or will.
Stopped == ~g_initialized => wk = "idle" /\ ~g_timer_armed /\ ~watch

\* Every frame's header describes each of its samples.
Homogeneous ==
    \A i \in 1..Len(frames) : \A j \in 1..Len(frames[i].samples) : frames[i].samples[j].cfg = frames[i].cfg

\* The samples of a tick follow one another, and those of the ticks before.
SamplesInOrder ==
    \A i \in 1..Len(frames') : frames' # frames /\ frames'[i].samples # << >> =>
       /\ frames'[i].samples[1].no > (IF i = 1 THEN out ELSE frames'[i - 1].samples[Len(frames'[i - 1].samples)].no)
       /\ \A j \in 1..(Len(frames'[i].samples) - 1) : frames'[i].samples[j].no < frames'[i].samples[j + 1].no

\* After IMU ON no sample from before it is sent.
NoStale ==
    frames' # frames /\ g_imu_on =>
       \A i \in 1..Len(frames') : frames'[i].samples # << >> => frames'[i].samples[1].no > mark

CommandsEndDue == cmd # Idle
CommandsEndMet == cmd = Idle

\* A command ends: stopping waits for a callback that never waits for the command.
CommandsEnd == CommandsEndDue ~> CommandsEndMet

\* No sample is lost while the ticks are on time.
NoLoss == lost = 0

\* While the IMU is on a header never shows no configuration at all.
HeaderKnown == \A i \in 1..Len(frames) : g_imu_on /\ frames[i].samples = << >> => frames[i].cfg # 0

-----------------------------------------------------------------------------
(* The cache of the sensor classes *)

CONSTANTS Class, Port,
          Ops,         \* writes that are made: "pwm", "send"
          Cooldown,    \* SENSOR_WRITE_COOLDOWN_MS
          Saturated,   \* BTSENSOR_TLV_AGE_SATURATED
          Wrap,        \* values of the clock: 2^32
          MaxPub, CacheMaxQueue, CacheMaxCalls, MaxTime   \* bounds

SensorCacheAssumption ==
    /\ Port \subseteq Nat /\ {Cooldown, Saturated, Wrap} \subseteq Nat \ {0}
    /\ {MaxPub, CacheMaxQueue, CacheMaxCalls, MaxTime} \subseteq Nat /\ "nobody" \notin Class

VARIABLES
    port, gen, claim, topic, pubs,  \* driver: bound port, generation, claim, unread publications, their number
    fd, cls, g_enabled,             \* descriptors; g_classes; g_enabled
    g_last_write,                   \* g_last_write_ms, 0 for none
    clock, cacheWk,                      \* time; the class whose callback runs, or nobody
    cacheCmd, cacheCalls,                     \* the command thread: step, class, operation, port
    snap,                           \* the last snapshot
    cacheMark, done                      \* history: publications at SENSOR ON; the last write: class, port, time

cacheDrv == <<port, gen, claim, topic, pubs>>
cache == <<fd, cls, g_enabled>>
cacheVars == <<port, gen, claim, topic, pubs, fd, cls, g_enabled, g_last_write, clock, cacheWk, cacheCmd, cacheCalls, snap, cacheMark, done>>

NoPort == -1                        \* 0xFF
Nobody == "nobody"
Unbound == [bound |-> FALSE, port |-> NoPort, fresh |-> FALSE, payload |-> 0, from |-> NoPort, last |-> 0]
NoSnap == [bound |-> FALSE, port |-> NoPort, fresh |-> FALSE, payload |-> 0, from |-> NoPort, age |-> Saturated,
           real |-> Saturated]
CacheIdle == [pc |-> "idle", what |-> "on", todo |-> {}, class |-> Nobody, port |-> NoPort]
NoClaim == [owner |-> Nobody, gen |-> 0]
NoDone == [class |-> Nobody, port |-> NoPort, real |-> NoPort, at |-> 0, gap |-> Cooldown]

CacheInit ==
    /\ port = [c \in Class |-> NoPort] /\ gen = [c \in Class |-> 0] /\ claim = [c \in Class |-> NoClaim]
    /\ topic = [c \in Class |-> << >>] /\ pubs = 0
    /\ fd = [c \in Class |-> FALSE] /\ cls = [c \in Class |-> Unbound] /\ g_enabled = FALSE
    /\ g_last_write = [c \in Class |-> 0] /\ clock = 1 /\ cacheWk = Nobody /\ cacheCmd = CacheIdle /\ cacheCalls = 0
    /\ snap = [c \in Class |-> NoSnap] /\ cacheMark = 0 /\ done = NoDone

Min2(a, b) == IF a < b THEN a ELSE b

-----------------------------------------------------------------------------
(* The driver publishes to an open descriptor; plugging changes the        *)
(* binding and makes claims stale; another program may hold the claim.     *)

Publish(c, kind, p) ==
    topic' = [topic EXCEPT ![c] = IF fd[c] THEN Append(@, [kind |-> kind, no |-> pubs + 1, port |-> p]) ELSE @]

Room(c) == pubs < MaxPub /\ pubs' = pubs + 1 /\ Len(topic[c]) < CacheMaxQueue
DrvKeep == UNCHANGED <<g_last_write, clock, cacheWk, cacheCmd, cacheCalls, snap, cacheMark, done>> /\ UNCHANGED cache

Data(c) ==
    /\ port[c] # NoPort /\ Room(c) /\ Publish(c, "data", port[c]) /\ UNCHANGED <<port, gen, claim>> /\ DrvKeep

Plug(c) ==
    /\ Room(c) /\ gen' = [gen EXCEPT ![c] = @ + 1]
    /\ \/ port[c] # NoPort /\ port' = [port EXCEPT ![c] = NoPort] /\ Publish(c, "gone", NoPort)
       \/ port[c] = NoPort /\ \E p \in Port : port' = [port EXCEPT ![c] = p] /\ Publish(c, "sync", p)
    /\ UNCHANGED claim /\ DrvKeep

OtherClaims(c) ==
    /\ Ops # {}
    /\ \/ claim[c].owner = Nobody /\ claim' = [claim EXCEPT ![c] = [owner |-> "other", gen |-> gen[c]]]
       \/ claim[c].owner = "other" /\ claim' = [claim EXCEPT ![c] = NoClaim]
    /\ UNCHANGED <<port, gen, topic, pubs>> /\ DrvKeep

-----------------------------------------------------------------------------
(* The worker.                                                             *)

WkKeep == UNCHANGED <<g_last_write, clock, cacheCmd, cacheCalls, cacheMark, done>>

ReadStart(c) ==
    /\ cacheWk = Nobody /\ fd[c] /\ topic[c] # << >> /\ cacheWk' = c
    /\ UNCHANGED snap /\ UNCHANGED <<cacheDrv, cache>> /\ WkKeep

Update(k, s) ==
    [bound |-> s.kind # "gone", port |-> s.port, last |-> clock,
     fresh |-> s.kind = "data", payload |-> IF s.kind = "data" THEN s.no ELSE 0,
     from |-> IF s.kind = "data" THEN s.port ELSE NoPort]

\* on_read
Read(c) ==
    /\ cacheWk = c
    /\ IF topic[c] = << >> THEN cacheWk' = Nobody /\ UNCHANGED <<cls, topic>>
       ELSE /\ cls' = [cls EXCEPT ![c] = Update(@, Head(topic[c]))]
            /\ topic' = [topic EXCEPT ![c] = Tail(@)] /\ UNCHANGED cacheWk
    /\ UNCHANGED <<port, gen, claim, pubs, fd, g_enabled, snap>> /\ WkKeep

\* sensor_sampler_snapshot; the age is taken modulo the clock's width
Age(k) == IF k.last % Wrap = 0 THEN Saturated ELSE Min2((clock - k.last) % Wrap, Saturated)
Shown(k) ==
    IF g_enabled
    THEN [bound |-> k.bound, port |-> k.port, fresh |-> k.fresh, payload |-> IF k.fresh THEN k.payload ELSE 0,
          from |-> k.from, age |-> Age(k), real |-> IF k.last = 0 THEN Saturated ELSE Min2(clock - k.last, Saturated)]
    ELSE NoSnap

Cleared(k) == IF g_enabled THEN [k EXCEPT !.fresh = FALSE] ELSE k

Snapshot ==
    /\ cacheWk = Nobody /\ snap' = [c \in Class |-> Shown(cls[c])] /\ cls' = [c \in Class |-> Cleared(cls[c])]
    /\ UNCHANGED <<fd, g_enabled, cacheWk>> /\ UNCHANGED cacheDrv /\ WkKeep

-----------------------------------------------------------------------------
(* sensor_sampler_set_enabled.                                             *)

CmdKeep == UNCHANGED <<clock, cacheWk, snap>>
CacheGo(pc) == cacheCmd' = IF pc = "idle" THEN CacheIdle ELSE [cacheCmd EXCEPT !.pc = pc]

Switch ==
    /\ cacheCmd = CacheIdle /\ cacheCalls < CacheMaxCalls /\ cacheCalls' = cacheCalls + 1
    /\ cacheCmd' = [CacheIdle EXCEPT !.pc = IF g_enabled THEN "close" ELSE "open", !.todo = Class]
    /\ cacheMark' = (IF g_enabled THEN cacheMark ELSE pubs)
    /\ UNCHANGED <<g_last_write, done>> /\ UNCHANGED <<cacheDrv, cache>> /\ CmdKeep

\* class_open: a failure leaves the class without a descriptor and goes on
ClassOpen(c) ==
    /\ cacheCmd.pc = "open" /\ c \in cacheCmd.todo /\ cacheCmd' = [cacheCmd EXCEPT !.todo = @ \ {c}]
    /\ \/ fd' = [fd EXCEPT ![c] = TRUE] \/ UNCHANGED fd
    /\ UNCHANGED <<cls, g_enabled, g_last_write, cacheCalls, cacheMark, done>> /\ UNCHANGED cacheDrv /\ CmdKeep

ClassClose(c) ==
    /\ cacheCmd.pc = "close" /\ c \in cacheCmd.todo /\ cacheWk # c /\ cacheCmd' = [cacheCmd EXCEPT !.todo = @ \ {c}]
    /\ fd' = [fd EXCEPT ![c] = FALSE] /\ topic' = [topic EXCEPT ![c] = << >>]
    /\ cls' = [cls EXCEPT ![c] = IF fd[c] THEN [Unbound EXCEPT !.last = cls[c].last] ELSE @]
    /\ UNCHANGED <<port, gen, claim, pubs, g_enabled, g_last_write, cacheCalls, cacheMark, done>> /\ CmdKeep

Switched ==
    /\ cacheCmd.pc \in {"open", "close"} /\ cacheCmd.todo = {} /\ g_enabled' = (cacheCmd.pc = "open") /\ CacheGo("idle")
    /\ UNCHANGED <<fd, cls, g_last_write, cacheCalls, cacheMark, done>> /\ UNCHANGED cacheDrv /\ CmdKeep

-----------------------------------------------------------------------------
(* write_open_and_claim; select_mode, send and set_pwm_with_port.          *)

WriteKeep == UNCHANGED <<port, gen, topic, pubs, cacheMark>> /\ UNCHANGED cache /\ CmdKeep
Cool(c) == g_last_write[c] # 0 /\ (clock - g_last_write[c]) % Wrap < Cooldown

WriteOpen(c, what) ==
    /\ cacheCmd = CacheIdle /\ cacheCalls < CacheMaxCalls /\ cacheCalls' = cacheCalls + 1 /\ g_enabled /\ ~Cool(c)
    /\ cacheCmd' = [CacheIdle EXCEPT !.pc = "claim", !.what = what, !.class = c]
    /\ UNCHANGED <<claim, g_last_write, done>> /\ WriteKeep

WriteClaim ==
    /\ cacheCmd.pc = "claim"
    /\ LET c == cacheCmd.class  k == claim[c] IN
        IF port[c] # NoPort /\ (k.owner = Nobody \/ k.gen # gen[c])
        THEN claim' = [claim EXCEPT ![c] = [owner |-> "we", gen |-> gen[c]]]
             /\ CacheGo(IF cacheCmd.what = "pwm" THEN "info" ELSE "write")
        ELSE UNCHANGED claim /\ CacheGo("idle")
    /\ UNCHANGED <<cacheCalls, g_last_write, done>> /\ WriteKeep

\* close() gives the claim back
Release == claim' = [claim EXCEPT ![cacheCmd.class] = IF @.owner = "we" THEN NoClaim ELSE @]

Info ==
    /\ cacheCmd.pc = "info"
    /\ IF port[cacheCmd.class] \in Port
       THEN cacheCmd' = [cacheCmd EXCEPT !.pc = "write", !.port = port[cacheCmd.class]] /\ UNCHANGED claim
       ELSE CacheGo("idle") /\ Release
    /\ UNCHANGED <<cacheCalls, g_last_write, done>> /\ WriteKeep

\* LEGOSENSOR_SELECT, SEND, SET_PWM: only with a claim of this binding
ClaimHolds(c) == port[c] # NoPort /\ claim[c].owner = "we" /\ claim[c].gen = gen[c]

Write ==
    /\ cacheCmd.pc = "write" /\ Release /\ CacheGo("idle")
    /\ LET c == cacheCmd.class IN
        IF ClaimHolds(c)
        THEN /\ g_last_write' = [g_last_write EXCEPT ![c] = clock % Wrap]
             /\ done' = [class |-> c, port |-> cacheCmd.port, real |-> port[c], at |-> clock,
                         gap |-> IF done.class = c THEN clock - done.at ELSE Cooldown]
        ELSE UNCHANGED <<g_last_write, done>>
    /\ UNCHANGED cacheCalls /\ WriteKeep

Tick == clock < MaxTime /\ clock' = clock + 1
        /\ UNCHANGED <<port, gen, claim, topic, pubs, fd, cls, g_enabled, g_last_write, cacheWk, cacheCmd, cacheCalls, snap, cacheMark, done>>

CacheNext ==
    \/ \E c \in Class : Data(c) \/ Plug(c) \/ OtherClaims(c) \/ ReadStart(c) \/ Read(c) \/ ClassOpen(c) \/ ClassClose(c)
    \/ \E c \in Class, what \in Ops : WriteOpen(c, what)
    \/ Snapshot \/ Switch \/ Switched \/ WriteClaim \/ Info \/ Write \/ Tick

CacheSpec == CacheInit /\ [][CacheNext]_cacheVars

-----------------------------------------------------------------------------
\* A callback runs only on a descriptor that is open.
ReadsOpen == cacheWk # Nobody => fd[cacheWk]

\* What a snapshot calls fresh belongs to a bound class, comes from the port it
\* names, and was published since SENSOR ON.
FreshIsTrue ==
    \A c \in Class : snap[c].fresh => snap[c].bound /\ snap[c].port = snap[c].from /\ snap[c].payload # 0

\* A snapshot shows nothing that was published before the last SENSOR ON.
CacheNoStale == \A c \in Class : snap' # snap /\ snap'[c].fresh => snap'[c].payload > cacheMark

\* A publication is shown as fresh once.
ShownOnce ==
    \A c \in Class : snap[c].fresh /\ snap'[c].fresh /\ snap' # snap => snap'[c].payload > snap[c].payload

\* No claim is left behind by a write, whichever of its steps failed.
ClaimReturned == cacheCmd.pc \notin {"claim", "info", "write"} => \A c \in Class : claim[c].owner # "we"

\* The port a PWM request reports, which then belongs to the link, is the port it drove.
PortIsTrue == done.port # NoPort => done.port = done.real

\* Two writes to a class are a cool-down apart.
CooledDown == done.gap >= Cooldown

\* The age of a publication saturates.
AgeTrue == \A c \in Class : snap[c].age = snap[c].real
=============================================================================
