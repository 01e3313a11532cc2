----------------------------- MODULE HubService -----------------------------
(***************************************************************************)
(* The hub program service: apps/hubprogram/service.c with the upload      *)
(* session of upload.c and the device layer of device.c.                   *)
(*                                                                         *)
(* One mutex (g_lock) serialises four kinds of actor: the request          *)
(* transports (USB CLI, BLE and the debug mailbox), the worker task that   *)
(* ticks every 10 ms, the stop of the Bluetooth daemon, and the callbacks  *)
(* of the MicroPython VM, which itself runs on the worker task outside the *)
(* mutex.  Every action below is one critical section.  Port attachment    *)
(* (`link') changes at any time under all of them.                         *)
(*                                                                         *)
(* Abstractions: a program is an opaque value with an id and a language;   *)
(* an upload is complete or not (module Upload has the chunks); the        *)
(* instruction loop contributes one command, sensor read, END or fault per *)
(* tick (module ProgramVM has the loop); the two time limits are flags     *)
(* that become true when the limit has passed.                             *)
(***************************************************************************)
EXTENDS Naturals, FiniteSets

CONSTANTS
  Ports,     \* ports A-F
  Owners,    \* transports: 1 USB CLI, 2 BLE, 3 debug mailbox
  Programs,  \* program images, records with fields id and lang
  NoProgram  \* no image: nothing loaded, staged or saved

ASSUME ProgramsAssumption ==
  /\ NoProgram \notin Programs /\ Owners \subseteq Nat \ {0}
  /\ \A p \in Programs : p.id \in Nat \ {0} /\ p.lang \in {"native", "python"}

VARIABLES
  up,      \* g_initialized, the worker task exists
  state,   \* g_program.state
  loaded,  \* the committed program: id, language and source or code
  failed,  \* g_program.error is nonzero
  owned,   \* g_program.owned
  ending,  \* g_program.ending
  overdue, \* now - g_program.started >= BW_PROGRAM_TIME_LIMIT
  upload,  \* the image declared by the open upload session, or NoProgram
  uowner,  \* g_upload.owner
  full,    \* g_upload.received = g_upload.size
  stale,   \* now - g_upload.activity >= 30 s
  slot,    \* the program in the flash slot
  python,  \* g_python_active: the VM executes on the worker task
  fd,      \* port -> the service holds the port open
  motor,   \* port -> the cached device type is a motor
  ctl,     \* port -> control demand of struct port_state
  hb,      \* port -> the last command of this handle to the H-bridge
  link     \* port -> what LUMP reports on the port, "none" unsynchronised

progVars == <<loaded, state, failed, owned, ending, overdue>>
uplVars  == <<upload, uowner, full, stale>>
portVars == <<fd, motor, ctl, hb>>
vars == <<up, progVars, uplVars, slot, python, portVars, link>>

States   == {"EMPTY", "READY", "RUNNING", "COMPLETE", "STOPPED", "FAULT"}
Terminal == {"COMPLETE", "STOPPED", "FAULT"}

(***************************************************************************)
(* Device layer                                                            *)
(***************************************************************************)
Init ==
  /\ up = FALSE /\ python = FALSE
  /\ state = "EMPTY" /\ loaded = NoProgram /\ failed = FALSE
  /\ owned = {} /\ ending = FALSE /\ overdue = FALSE
  /\ upload = NoProgram /\ uowner = 0 /\ full = FALSE /\ stale = FALSE
  /\ slot \in Programs \cup {NoProgram}
  /\ fd = [q \in Ports |-> FALSE] /\ motor = [q \in Ports |-> FALSE]
  /\ ctl = [q \in Ports |-> "idle"] /\ hb = [q \in Ports |-> "stopped"]
  /\ link \in [Ports -> {"none", "motor", "sensor"}]

(* Ports the service holds open as motors: the ones brake() and            *)
(* bw_device_tick act on.                                                  *)
OpenMotors == {q \in Ports : fd[q] /\ motor[q]}

(* Ports on which open_port fails in this critical section: every port     *)
(* that is not a synchronised motor, and possibly others (the port is held *)
(* by another process, the mode selection is refused).                     *)
Failures == {F \in SUBSET Ports : \A q \in Ports : link[q] # "motor" => q \in F}

(* Mutant: brake() stops the bridge and forgets to clear the demand.       *)
BrakeOwnedKeepsDemand(F, c, h) ==
  /\ ctl' = c
  /\ hb' = [q \in Ports |-> IF q \in (owned \cap OpenMotors) \ F THEN "stopped" ELSE h[q]]
  /\ UNCHANGED <<fd, motor>>

(* brake_owned, from demands c and bridges h.  A port that open_port       *)
(* rejects keeps its demand and its duty; brake() does not touch a port    *)
(* that is not held as a motor and reports success for it.                 *)
BrakeOwned(F, c, h) ==
  /\ ctl' = [q \in Ports |-> IF q \in (owned \cap OpenMotors) \ F THEN "brake" ELSE c[q]]
  /\ hb' = [q \in Ports |-> IF q \in (owned \cap OpenMotors) \ F THEN "stopped" ELSE h[q]]
  /\ UNCHANGED <<fd, motor>>

(* bw_device_release: brake what can be braked and close every handle; the *)
(* port driver coasts a bridge that is still driven when its handle closes.*)
Release ==
  /\ fd' = [q \in Ports |-> FALSE]
  /\ motor' = [q \in Ports |-> FALSE]
  /\ ctl' = [q \in Ports |-> "idle"]
  /\ hb' = [q \in Ports |-> IF fd[q] THEN "stopped" ELSE hb[q]]

(* Ports whose demand bw_device_tick may turn into a duty; a port without  *)
(* a fresh sample is skipped.                                              *)
Steppable == {q \in OpenMotors : link[q] = "motor" /\ ctl[q] = "active"}

(* The outcome of the control step: the bridges in D are given a duty; the *)
(* moves in E have settled and brake, or the motor was exchanged for       *)
(* another type and the demand is dropped.                                 *)
Splits == {s \in (SUBSET Steppable) \X (SUBSET Steppable) : s[1] \cap s[2] = {}}
Demands(E) == [q \in Ports |-> IF q \in E THEN "idle" ELSE ctl[q]]
Bridges(D, E) == [q \in Ports |-> IF q \in D THEN "driven"
                                  ELSE IF q \in E THEN "stopped" ELSE hb[q]]

(* bw_device_tick can only succeed while every open motor is synchronised. *)
AllSynced == \A q \in OpenMotors : link[q] = "motor"

(* open_port(q) for a motor: it may fail before or after the handle opens. *)
OpenMotor(q, ok) ==
  /\ (ok => link[q] = "motor")
  /\ \E opened \in BOOLEAN, typed \in BOOLEAN :
       /\ (ok => typed) /\ (typed => opened /\ link[q] = "motor")
       /\ fd' = [fd EXCEPT ![q] = fd[q] \/ opened]
       /\ motor' = [motor EXCEPT ![q] = motor[q] \/ typed]

(* open_port(q) for a sensor, once per port of S: the handle opens; a      *)
(* synchronised sensor becomes the cached type and the demand of the motor *)
(* that was there before is dropped.                                       *)
Typed(S) == {q \in S : link[q] = "sensor"}
Sensed(S, c) == [q \in Ports |-> IF q \in Typed(S) /\ c[q] = "active"
                                 THEN "idle" ELSE c[q]]

(* LUMP: a new session starts with the bridge coasted; the end of a        *)
(* session leaves the bridge as it is (module LegoPort).                   *)
Attach(q, kind) ==
  /\ link[q] = "none"
  /\ link' = [link EXCEPT ![q] = kind]
  /\ hb' = [hb EXCEPT ![q] = "stopped"]
  /\ UNCHANGED <<up, progVars, uplVars, slot, python, fd, motor, ctl>>

Detach(q) ==
  /\ link[q] # "none"
  /\ link' = [link EXCEPT ![q] = "none"]
  /\ UNCHANGED <<up, progVars, uplVars, slot, python, portVars>>

(***************************************************************************)
(* Requests (request_locked and bw_program_request)                        *)
(***************************************************************************)
(* Mutant: the release at the head of request_locked is missing.           *)
ReleaseTerminalMissing == UNCHANGED portVars

(* Terminal programs release their ports before the request is served,     *)
(* unless the VM still runs.                                               *)
ReleaseTerminal ==
  IF ~python /\ state \in Terminal THEN Release ELSE UNCHANGED portVars

(* The session after the expiry test at the head of bw_program_request.    *)
Staged == IF stale THEN NoProgram ELSE upload

Expire == /\ upload' = Staged
          /\ stale' = FALSE
          /\ UNCHANGED <<uowner, full>>

(* STATUS, and every refused request: expiry and release are all it does.  *)
Status ==
  /\ up /\ ReleaseTerminal /\ Expire
  /\ UNCHANGED <<up, progVars, slot, python, link>>

(* Mutant: BEGIN is not among the requests refused while the VM unwinds.   *)
BeginDuringVM(o, p) ==
  /\ up /\ state # "RUNNING" /\ Staged = NoProgram
  /\ ReleaseTerminal
  /\ upload' = p /\ uowner' = o /\ full' = FALSE /\ stale' = FALSE
  /\ UNCHANGED <<up, progVars, slot, python, link>>

Begin(o, p) ==
  /\ up /\ ~python /\ state # "RUNNING" /\ Staged = NoProgram
  /\ ReleaseTerminal
  /\ upload' = p /\ uowner' = o /\ full' = FALSE /\ stale' = FALSE
  /\ UNCHANGED <<up, progVars, slot, python, link>>

(* An accepted chunk or an identical retry renews the activity time.       *)
Chunk(o) ==
  /\ up /\ Staged # NoProgram /\ uowner = o
  /\ ReleaseTerminal
  /\ full' \in {full, TRUE} /\ stale' = FALSE
  /\ UNCHANGED <<up, progVars, upload, uowner, slot, python, link>>

ReplaceProgram(p) ==
  /\ loaded' = p /\ state' = "READY" /\ failed' = FALSE
  /\ owned' = {} /\ ending' = FALSE
  /\ UNCHANGED overdue

(* COMMIT of a complete session: all checks pass and the program is        *)
(* replaced, or one fails and only the session is dropped.                 *)
Commit(o) ==
  /\ up /\ ~python /\ Staged # NoProgram /\ uowner = o /\ full
  /\ ReleaseTerminal
  /\ \/ state # "RUNNING" /\ ReplaceProgram(upload)
     \/ UNCHANGED progVars
  /\ upload' = NoProgram /\ UNCHANGED <<uowner, full, stale>>
  /\ UNCHANGED <<up, slot, python, link>>

Abort(o) ==
  /\ up /\ Staged # NoProgram /\ uowner = o
  /\ ReleaseTerminal
  /\ upload' = NoProgram /\ UNCHANGED <<uowner, full, stale>>
  /\ UNCHANGED <<up, progVars, slot, python, link>>

Start(id) ==
  /\ up /\ ~python /\ Staged = NoProgram
  /\ state \in {"READY"} \cup Terminal /\ loaded.id = id
  /\ ReleaseTerminal /\ Expire
  /\ state' = "RUNNING" /\ failed' = FALSE
  /\ owned' = {} /\ ending' = FALSE /\ overdue' = FALSE
  /\ UNCHANGED <<up, loaded, slot, python, link>>

(* Mutant: an empty program becomes STOPPED.                               *)
StopProgramEmpty(F, G) ==
  /\ G \subseteq F
  /\ IF owned \cap OpenMotors \cap F = {}
     THEN state' = "STOPPED" /\ UNCHANGED failed
     ELSE state' = "FAULT" /\ failed' = TRUE

(* bw_program_stop: brake the owned ports, then STOPPED or, when a brake   *)
(* failed, FAULT; fault() brakes a second time, now missing the ports G.   *)
StopProgram(F, G) ==
  /\ G \subseteq F
  /\ IF owned \cap OpenMotors \cap F = {}
     THEN /\ state' = IF state = "EMPTY" THEN "EMPTY" ELSE "STOPPED"
          /\ UNCHANGED failed
     ELSE state' = "FAULT" /\ failed' = TRUE

(* STOP.  Without a VM the program is terminal afterwards, so its ports    *)
(* are released; if they were released before, brake() has nothing to do.  *)
Stop(id) ==
  /\ up /\ state # "EMPTY" /\ loaded.id = id
  /\ Expire
  /\ IF ~python /\ state \in Terminal
     THEN state' = "STOPPED" /\ UNCHANGED failed /\ Release
     ELSE \E F \in Failures, G \in Failures :
            /\ StopProgram(F, G)
            /\ IF python THEN BrakeOwned(G, ctl, hb) ELSE Release
  /\ UNCHANGED <<up, loaded, owned, ending, overdue, slot, python, link>>

(* Mutant: SAVE and LOAD do not wait for the VM to unwind.                 *)
IdleIgnoresVM == Staged = NoProgram /\ state # "RUNNING"

(* SAVE and LOAD; a failing one changes nothing (module ProgramStorage).   *)
Idle == ~python /\ Staged = NoProgram /\ state # "RUNNING"

Save(id) ==
  /\ up /\ Idle /\ state # "EMPTY" /\ loaded.id = id
  /\ ReleaseTerminal /\ Expire
  /\ slot' = loaded
  /\ UNCHANGED <<up, progVars, python, link>>

Restore(id) ==
  /\ up /\ Idle /\ slot # NoProgram /\ slot.id = id
  /\ ReleaseTerminal /\ Expire
  /\ ReplaceProgram(slot)
  /\ UNCHANGED <<up, slot, python, link>>

(* bw_program_service_stop, called when the Bluetooth daemon stops.        *)
ServiceStop ==
  /\ up
  /\ \E F \in Failures, G \in Failures :
       /\ StopProgram(F, G)
       /\ IF python THEN BrakeOwned(G, ctl, hb) ELSE Release
  /\ upload' = NoProgram /\ uowner' = 0 /\ full' = FALSE /\ stale' = FALSE
  /\ UNCHANGED <<up, loaded, owned, ending, overdue, slot, python, link>>

(* bw_program_service_init: the first caller creates the worker.           *)
ServiceInit ==
  /\ ~up /\ up' = TRUE
  /\ UNCHANGED <<progVars, uplVars, slot, python, portVars, link>>

(***************************************************************************)
(* The worker's tick, and the same tick inside a poll of the VM            *)
(***************************************************************************)
(* Mutant: the time limit is not tested.                                   *)
TickFailsNoLimit(s) == \E q \in OpenMotors : q \notin s[1] \cup s[2]

(* The control step fails at an open motor, after some ports were stepped, *)
(* or the run time is over.                                                *)
TickFails(s) ==
  \/ overdue /\ AllSynced
  \/ \E q \in OpenMotors : q \notin s[1] \cup s[2]

TickFaults ==
  /\ state' = "FAULT" /\ failed' = TRUE
  /\ UNCHANGED <<up, loaded, owned, ending, overdue, uplVars, slot, python, link>>

WorkerTickFault ==
  /\ up /\ ~python /\ state = "RUNNING"
  /\ \E s \in Splits : TickFails(s)
  /\ TickFaults /\ Release

(* Mutant: the worker releases only the ports of completed programs.       *)
WorkerReleaseComplete ==
  /\ up /\ ~python /\ state = "COMPLETE"
  /\ Release
  /\ UNCHANGED <<up, progVars, uplVars, slot, python, link>>

WorkerRelease ==
  /\ up /\ ~python /\ state \in Terminal
  /\ Release
  /\ UNCHANGED <<up, progVars, uplVars, slot, python, link>>

(* A tick that reaches the interpreter.                                    *)
Ticking == up /\ ~python /\ state = "RUNNING" /\ ~overdue /\ AllSynced

Native == Ticking /\ loaded.lang = "native" /\ ~ending

(* Ports after the interpreter commanded the motors C and read sensors at  *)
(* the ports S, S being the ones whose handle could be opened.             *)
Interpreted(C, S) ==
  /\ \A q \in C : link[q] = "motor"
  /\ fd' = [q \in Ports |-> fd[q] \/ q \in C \cup S]
  /\ motor' = [q \in Ports |-> (motor[q] \/ q \in C) /\ q \notin Typed(S)]
  /\ owned' = owned \cup C

NativeTick(C, S) ==
  /\ Native /\ Interpreted(C, S)
  /\ \E s \in Splits :
       /\ ctl' = [q \in Ports |-> IF q \in C THEN "active"
                                  ELSE Sensed(S, Demands(s[2]))[q]]
       /\ hb' = Bridges(s[1], s[2])
  /\ UNCHANGED <<up, loaded, state, failed, ending, overdue, uplVars, slot,
                 python, link>>

(* END reached: every owned motor is braked and the program waits for them.*)
NativeEnd(C, S) ==
  /\ Native /\ Interpreted(C, S)
  /\ \E s \in Splits :
       LET braked == {q \in owned' : fd'[q] /\ motor'[q]}
       IN /\ ctl' = [q \in Ports |-> IF q \in braked THEN "brake"
                                     ELSE Sensed(S, Demands(s[2]))[q]]
          /\ hb' = [q \in Ports |-> IF q \in braked THEN "stopped"
                                    ELSE Bridges(s[1], s[2])[q]]
  /\ ending' = TRUE
  /\ UNCHANGED <<up, loaded, state, failed, overdue, uplVars, slot, python, link>>

(* A command, a sensor, a pending move or a brake of END fails.            *)
NativeFault(C) ==
  /\ Native
  /\ state' = "FAULT" /\ failed' = TRUE /\ owned' = owned \cup C
  /\ Release
  /\ UNCHANGED <<up, loaded, ending, overdue, uplVars, slot, python, link>>

(* After END, or after a Python program returned: done() opens every owned *)
(* port that is closed and reports whether its motor stands still.         *)
EndingWait(R) ==
  /\ Ticking /\ ending
  /\ R \subseteq {q \in owned : link[q] = "motor"} /\ R # {}
  /\ \E s \in Splits : ctl' = Demands(s[2]) /\ hb' = Bridges(s[1], s[2])
  /\ fd' = [q \in Ports |-> fd[q] \/ q \in R]
  /\ motor' = [q \in Ports |-> motor[q] \/ q \in R]
  /\ UNCHANGED <<up, progVars, uplVars, slot, python, link>>

EndingDone ==
  /\ Ticking /\ ending
  /\ \A q \in owned : link[q] = "motor"
  /\ state' = "COMPLETE"
  /\ Release
  /\ UNCHANGED <<up, loaded, failed, owned, ending, overdue, uplVars, slot,
                 python, link>>

EndingFault ==
  /\ Ticking /\ ending /\ owned # {}
  /\ state' = "FAULT" /\ failed' = TRUE
  /\ Release
  /\ UNCHANGED <<up, loaded, owned, ending, overdue, uplVars, slot, python, link>>

(***************************************************************************)
(* The MicroPython VM                                                      *)
(***************************************************************************)
StartPython ==
  /\ Ticking /\ loaded.lang = "python" /\ ~ending
  /\ \E s \in Splits : ctl' = Demands(s[2]) /\ hb' = Bridges(s[1], s[2])
  /\ python' = TRUE
  /\ UNCHANGED <<up, progVars, uplVars, slot, fd, motor, link>>

(* bw_program_service_poll; it changes nothing unless the program runs.    *)
PyPoll ==
  /\ python /\ state = "RUNNING" /\ ~overdue /\ AllSynced
  /\ \E s \in Splits : ctl' = Demands(s[2]) /\ hb' = Bridges(s[1], s[2])
  /\ UNCHANGED <<up, progVars, uplVars, slot, python, fd, motor, link>>

PyPollFault ==
  /\ python /\ state = "RUNNING"
  /\ \E s \in Splits, F \in Failures :
       TickFails(s) /\ BrakeOwned(F, Demands(s[2]), Bridges(s[1], s[2]))
  /\ TickFaults

(* Mutant: a Python command does not record the ownership of the port.     *)
PyCommandUnowned(q, ok) ==
  /\ python /\ state = "RUNNING"
  /\ OpenMotor(q, ok)
  /\ ctl' = [ctl EXCEPT ![q] = IF ok THEN "active" ELSE ctl[q]]
  /\ UNCHANGED <<up, loaded, owned, state, failed, ending, overdue, uplVars,
                 slot, python, hb, link>>

(* motor() and position(): the port is owned even if the command fails.    *)
(* The done() calls of position() find the port open and change nothing.   *)
PyCommand(q, ok) ==
  /\ python /\ state = "RUNNING"
  /\ owned' = owned \cup {q}
  /\ OpenMotor(q, ok)
  /\ ctl' = [ctl EXCEPT ![q] = IF ok THEN "active" ELSE ctl[q]]
  /\ UNCHANGED <<up, loaded, state, failed, ending, overdue, uplVars, slot,
                 python, hb, link>>

PySense(q) ==
  /\ python /\ state = "RUNNING"
  /\ fd' = [fd EXCEPT ![q] = TRUE]
  /\ motor' = [motor EXCEPT ![q] = motor[q] /\ q \notin Typed({q})]
  /\ ctl' = Sensed({q}, ctl)
  /\ UNCHANGED <<up, progVars, uplVars, slot, python, hb, link>>

(* bw_python_execute returned, with an uncaught exception iff `raised'.    *)
(* A program that was stopped or faulted meanwhile keeps its state.        *)
PyReturn(raised) ==
  /\ python /\ python' = FALSE
  /\ IF state # "RUNNING"
     THEN UNCHANGED <<progVars, portVars>>
     ELSE \E F \in Failures, G \in Failures :
            /\ G \subseteq F
            /\ BrakeOwned(G, ctl, hb)
            /\ IF raised \/ owned \cap OpenMotors \cap F # {}
               THEN state' = "FAULT" /\ failed' = TRUE /\ UNCHANGED ending
               ELSE ending' = TRUE /\ failed' = FALSE /\ UNCHANGED state
            /\ UNCHANGED <<loaded, owned, overdue>>
  /\ UNCHANGED <<up, uplVars, slot, link>>

(***************************************************************************)
(* Time                                                                    *)
(***************************************************************************)
(* 30 s pass without an accepted chunk.                                    *)
UploadAges ==
  /\ upload # NoProgram /\ ~stale /\ stale' = TRUE
  /\ UNCHANGED <<up, progVars, upload, uowner, full, slot, python, portVars, link>>

(* BW_PROGRAM_TIME_LIMIT passes since START.                               *)
TimeLimitPasses ==
  /\ state = "RUNNING" /\ ~overdue /\ overdue' = TRUE
  /\ UNCHANGED <<up, loaded, state, failed, owned, ending, uplVars, slot,
                 python, portVars, link>>

Ids == {p.id : p \in Programs}

Requests ==
  \/ Status
  \/ \E o \in Owners, p \in Programs : Begin(o, p)
  \/ \E o \in Owners : Chunk(o) \/ Commit(o) \/ Abort(o)
  \/ \E id \in Ids : Start(id) \/ Stop(id) \/ Save(id) \/ Restore(id)
  \/ ServiceInit \/ ServiceStop

Worker ==
  \/ WorkerTickFault \/ WorkerRelease
  \/ \E C \in SUBSET Ports, S \in SUBSET Ports : NativeTick(C, S) \/ NativeEnd(C, S)
  \/ \E C \in SUBSET Ports : NativeFault(C) \/ EndingWait(C)
  \/ EndingDone \/ EndingFault \/ StartPython

VM ==
  \/ PyPoll \/ PyPollFault
  \/ \E q \in Ports : (\E ok \in BOOLEAN : PyCommand(q, ok)) \/ PySense(q)
  \/ \E raised \in BOOLEAN : PyReturn(raised)

Environment ==
  \/ UploadAges \/ TimeLimitPasses
  \/ \E q \in Ports : Detach(q) \/ \E kind \in {"motor", "sensor"} : Attach(q, kind)

Next == Requests \/ Worker \/ VM \/ Environment

Spec == Init /\ [][Next]_vars

(* The worker task and time never stop, and the VM polls at every jump, at *)
(* every return and in every wait of the brickwright module.  A poll of a  *)
(* program that no longer runs raises OSError; that the script lets this   *)
(* exception end it is an assumption on the script (PyUnwinds).            *)
PyUnwinds == state # "RUNNING" /\ \E raised \in BOOLEAN : PyReturn(raised)

Fairness == /\ WF_vars(TimeLimitPasses)
            /\ WF_vars(WorkerTickFault) /\ WF_vars(PyPollFault)
            /\ WF_vars(WorkerRelease) /\ WF_vars(PyUnwinds)

FairSpec == Spec /\ Fairness

(***************************************************************************)
(* Properties                                                              *)
(***************************************************************************)
(* Every variable keeps its type, and a service without a program is the   *)
(* EMPTY one.                                                              *)
TypeOK ==
  /\ up \in BOOLEAN /\ python \in BOOLEAN
  /\ state \in States /\ loaded \in Programs \cup {NoProgram}
  /\ (state = "EMPTY" <=> loaded = NoProgram)
  /\ failed \in BOOLEAN /\ ending \in BOOLEAN /\ overdue \in BOOLEAN
  /\ owned \subseteq Ports
  /\ upload \in Programs \cup {NoProgram} /\ uowner \in Owners \cup {0}
  /\ full \in BOOLEAN /\ stale \in BOOLEAN
  /\ slot \in Programs \cup {NoProgram}
  /\ fd \in [Ports -> BOOLEAN] /\ motor \in [Ports -> BOOLEAN]
  /\ ctl \in [Ports -> {"idle", "active", "brake"}]
  /\ hb \in [Ports -> {"driven", "stopped"}]
  /\ link \in [Ports -> {"none", "motor", "sensor"}]

(* A staging session and an execution exclude each other in both           *)
(* directions: while an upload is open no program runs and no VM is still  *)
(* unwinding, although BEGIN, START, STOP and the VM's return come from    *)
(* different actors (service.c:45, upload.c:36 and upload.c:76).           *)
StagingExcludesExecution == upload # NoProgram => ~python /\ state # "RUNNING"

(* A motor is driven only while a program runs and has not reached END, or *)
(* after a fault whose brake the port rejected.  In particular a STOP that *)
(* reported success has silenced every motor although the VM may go on     *)
(* executing, and a COMPLETE program left none driven.                     *)
StopMeansStopped ==
  \A q \in Ports : hb[q] = "driven" => \/ state = "RUNNING" /\ ~ending
                                       \/ state = "FAULT"

(* Every driven motor can still be reached by a brake or a release: the    *)
(* service holds its handle, knows it as a motor, and the current program  *)
(* owns it.  Losing the handle, the cached type or the owned bit of a      *)
(* running motor would leave it running for ever.                          *)
DrivenIsReachable ==
  \A q \in Ports : hb[q] = "driven" => q \in owned \cap OpenMotors

(* What the steps preserve.  The demand of a port (ctl) is what a later    *)
(* tick turns into a duty, so the safety of hb rests on where demands can  *)
(* be; and LUMP's coast at the start of a session is what makes it safe to *)
(* forget a motor whose port now has a sensor.                             *)
DemandsConfined ==
  \A q \in Ports : ctl[q] = "active" =>
    /\ q \in owned \cap OpenMotors
    /\ state = "FAULT" \/ (state = "RUNNING" /\ ~ending)

IdleIsClosed ==
  state \in {"EMPTY", "READY"} => \A q \in Ports : ~fd[q] /\ ctl[q] = "idle"

VMHasProgram ==
  python => /\ up /\ ~ending
            /\ state \in {"RUNNING", "STOPPED", "FAULT"}

IInv ==
  /\ TypeOK /\ StagingExcludesExecution /\ StopMeansStopped /\ DrivenIsReachable
  /\ DemandsConfined /\ IdleIsClosed /\ VMHasProgram
  /\ stale => upload # NoProgram
  /\ \A q \in Ports : hb[q] = "driven" => link[q] # "sensor"
  /\ \A q \in Ports : ~fd[q] => ctl[q] = "idle"

(* A start finds every port closed, so no handle, demand or sample of the  *)
(* previous program survives into the next one (request_locked releases    *)
(* before it serves the request).                                          *)
FreshStart ==
  [][state # "RUNNING" /\ state' = "RUNNING" =>
       \A q \in Ports : ~fd'[q] /\ ctl'[q] = "idle"]_vars

(* The committed program is replaced only when nothing executes it: the VM *)
(* reads g_program.source outside the mutex for as long as python is set.  *)
SourceStable ==
  [][loaded' # loaded => ~python /\ state # "RUNNING"]_vars

(* A running program ends: on its own, by STOP, or at the time limit, also *)
(* when it is a Python program that loops or when its ports disappear.     *)
Terminates == state = "RUNNING" ~> state # "RUNNING"

(* After a program ended its ports become free for other processes.        *)
PortsReleased == state \in Terminal ~> \A q \in Ports : ~fd[q]
=============================================================================
