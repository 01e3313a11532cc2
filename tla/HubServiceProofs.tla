-------------------------- MODULE HubServiceProofs --------------------------
(***************************************************************************)
(* Proofs about HubService, for every set of ports, transports and         *)
(* programs.                                                               *)
(*                                                                         *)
(* IInv is split into a part about the program, the session and the VM     *)
(* (ControlInv) and a part about the ports (PortInv); most actions leave   *)
(* one of them alone or bring the ports into one of the two states that    *)
(* the lemmas ReleaseQuiet and BrakeSafe describe.                         *)
(***************************************************************************)
EXTENDS HubService, TLAPS

ControlInv ==
  /\ up \in BOOLEAN /\ python \in BOOLEAN
  /\ state \in States /\ loaded \in Programs \cup {NoProgram}
  /\ (state = "EMPTY" <=> loaded = NoProgram)
  /\ failed \in BOOLEAN /\ ending \in BOOLEAN /\ overdue \in BOOLEAN
  /\ upload \in Programs \cup {NoProgram} /\ uowner \in Owners \cup {0}
  /\ full \in BOOLEAN /\ stale \in BOOLEAN
  /\ slot \in Programs \cup {NoProgram}
  /\ StagingExcludesExecution /\ VMHasProgram
  /\ stale => upload # NoProgram

PortTypes ==
  /\ owned \subseteq Ports
  /\ fd \in [Ports -> BOOLEAN] /\ motor \in [Ports -> BOOLEAN]
  /\ ctl \in [Ports -> {"idle", "active", "brake"}]
  /\ hb \in [Ports -> {"driven", "stopped"}]
  /\ link \in [Ports -> {"none", "motor", "sensor"}]

(* The program may be driving motors.                                      *)
Driving == state = "FAULT" \/ (state = "RUNNING" /\ ~ending)

PortInv ==
  /\ PortTypes
  /\ \A q \in Ports : hb[q] = "driven" =>
       Driving /\ q \in owned /\ fd[q] /\ motor[q] /\ link[q] # "sensor"
  /\ \A q \in Ports : ctl[q] = "active" =>
       Driving /\ q \in owned /\ fd[q] /\ motor[q]
  /\ \A q \in Ports : ~fd[q] => ctl[q] = "idle"
  /\ state \in {"EMPTY", "READY"} => \A q \in Ports : ~fd[q]

(* All handles closed, no demand, nothing driven.                          *)
Quiet ==
  /\ fd = [q \in Ports |-> FALSE] /\ motor = [q \in Ports |-> FALSE]
  /\ ctl = [q \in Ports |-> "idle"] /\ hb = [q \in Ports |-> "stopped"]

(* IInv is the conjunction of the two parts.                               *)
LEMMA SplitInvariant == IInv <=> ControlInv /\ PortInv
<1>1. IInv => ControlInv /\ PortInv
  BY DEF IInv, ControlInv, PortInv, PortTypes, Driving, TypeOK, StopMeansStopped,
     DrivenIsReachable, DemandsConfined, IdleIsClosed, OpenMotors
<1>2. ControlInv /\ PortInv => IInv
  BY DEF IInv, ControlInv, PortInv, PortTypes, Driving, TypeOK, StopMeansStopped,
     DrivenIsReachable, DemandsConfined, IdleIsClosed, OpenMotors
<1> QED BY <1>1, <1>2

(* Releasing the device layer leaves every port closed and not driven: the *)
(* close of a handle coasts its bridge, and no closed port is driven.      *)
LEMMA ReleaseQuiet == PortInv /\ Release => Quiet'
<1> SUFFICES ASSUME PortInv, Release PROVE Quiet'
  OBVIOUS
<1>1. \A q \in Ports : hb[q] \in {"driven", "stopped"} /\ fd[q] \in BOOLEAN
  BY DEF PortInv, PortTypes
<1>2. \A q \in Ports : (IF fd[q] THEN "stopped" ELSE hb[q]) = "stopped"
  BY <1>1 DEF PortInv
<1> QED BY <1>2 DEF Release, Quiet

(* Quiet ports satisfy the port invariant whatever the program does.       *)
LEMMA QuietSafe ==
  Quiet /\ owned \subseteq Ports /\ link \in [Ports -> {"none", "motor", "sensor"}]
    => PortInv
BY DEF Quiet, PortInv, PortTypes

(***************************************************************************)
(* Program, session and VM                                                 *)
(***************************************************************************)
(* A request keeps upload and execution apart: each one tests the session  *)
(* after expiry, the state and the VM in the same critical section.        *)
LEMMA ControlRequests == ControlInv /\ PortInv /\ Requests => ControlInv'
<1> SUFFICES ASSUME ControlInv, PortInv, Requests PROVE ControlInv'
  OBVIOUS
<1> USE ProgramsAssumption DEF ControlInv, StagingExcludesExecution, VMHasProgram,
      States, Terminal, progVars, uplVars
<1>1. CASE Status
  BY <1>1 DEF Status, Expire, Staged
<1>2. ASSUME NEW o \in Owners, NEW p \in Programs, Begin(o, p) PROVE ControlInv'
  BY <1>2 DEF Begin
<1>3. ASSUME NEW o \in Owners, Chunk(o) PROVE ControlInv'
  BY <1>3 DEF Chunk
<1>4. ASSUME NEW o \in Owners, Commit(o) PROVE ControlInv'
  BY <1>4 DEF Commit, Staged, ReplaceProgram
<1>5. ASSUME NEW o \in Owners, Abort(o) PROVE ControlInv'
  BY <1>5 DEF Abort, Staged
<1>6. ASSUME NEW id \in Ids, Start(id) PROVE ControlInv'
  BY <1>6 DEF Start, Expire, Staged
<1>7. ASSUME NEW id \in Ids, Stop(id) PROVE ControlInv'
  BY <1>7 DEF Stop, Expire, Staged, StopProgram
<1>8. ASSUME NEW id \in Ids, Save(id) PROVE ControlInv'
  BY <1>8 DEF Save, Expire, Staged, Idle
<1>9. ASSUME NEW id \in Ids, Restore(id) PROVE ControlInv'
  BY <1>9 DEF Restore, Expire, Staged, Idle, ReplaceProgram
<1>10. CASE ServiceInit
  BY <1>10 DEF ServiceInit
<1>11. CASE ServiceStop
  <2>1. state = "EMPTY" => OpenMotors = {}
    BY DEF PortInv, PortTypes, OpenMotors
  <2> QED BY <1>11, <2>1 DEF ServiceStop, StopProgram
<1> HIDE DEF ControlInv
<1> QED BY <1>1, <1>2, <1>3, <1>4, <1>5, <1>6, <1>7, <1>8, <1>9, <1>10, <1>11
  DEF Requests

(* So do the worker, the VM, time and the ports.                           *)
LEMMA ControlTasks == ControlInv /\ (Worker \/ VM \/ Environment) => ControlInv'
<1> SUFFICES ASSUME ControlInv, Worker \/ VM \/ Environment PROVE ControlInv'
  OBVIOUS
<1> USE ProgramsAssumption DEF ControlInv, StagingExcludesExecution, VMHasProgram,
      States, Terminal, progVars, uplVars
<1>1. CASE WorkerTickFault
  BY <1>1 DEF WorkerTickFault, TickFaults
<1>2. CASE WorkerRelease
  BY <1>2 DEF WorkerRelease
<1>3. ASSUME NEW C, NEW S, NativeTick(C, S) PROVE ControlInv'
  BY <1>3 DEF NativeTick
<1>4. ASSUME NEW C, NEW S, NativeEnd(C, S) PROVE ControlInv'
  BY <1>4 DEF NativeEnd, Native, Ticking
<1>5. ASSUME NEW C, NativeFault(C) PROVE ControlInv'
  BY <1>5 DEF NativeFault, Native, Ticking
<1>6. ASSUME NEW C, EndingWait(C) PROVE ControlInv'
  BY <1>6 DEF EndingWait
<1>7. CASE EndingDone
  BY <1>7 DEF EndingDone, Ticking
<1>8. CASE EndingFault
  BY <1>8 DEF EndingFault, Ticking
<1>9. CASE StartPython
  BY <1>9 DEF StartPython, Ticking
<1>10. CASE PyPoll
  BY <1>10 DEF PyPoll
<1>11. CASE PyPollFault
  BY <1>11 DEF PyPollFault, TickFaults
<1>12. ASSUME NEW q \in Ports, NEW ok \in BOOLEAN, PyCommand(q, ok) PROVE ControlInv'
  BY <1>12 DEF PyCommand
<1>13. ASSUME NEW q \in Ports, PySense(q) PROVE ControlInv'
  BY <1>13 DEF PySense
<1>14. ASSUME NEW raised \in BOOLEAN, PyReturn(raised) PROVE ControlInv'
  BY <1>14 DEF PyReturn
<1>15. CASE Environment
  <2>1. CASE UploadAges
    BY <2>1 DEF UploadAges
  <2>2. CASE TimeLimitPasses
    BY <2>2 DEF TimeLimitPasses
  <2>3. ASSUME NEW q \in Ports, Detach(q) PROVE ControlInv'
    BY <2>3 DEF Detach
  <2>4. ASSUME NEW q \in Ports, NEW kind, Attach(q, kind) PROVE ControlInv'
    BY <2>4 DEF Attach
  <2> HIDE DEF ControlInv
  <2> QED BY <1>15, <2>1, <2>2, <2>3, <2>4 DEF Environment
<1> HIDE DEF ControlInv
<1>16. CASE Worker
  BY <1>16, <1>1, <1>2, <1>3, <1>4, <1>5, <1>6, <1>7, <1>8, <1>9 DEF Worker
<1>17. CASE VM
  BY <1>17, <1>10, <1>11, <1>12, <1>13, <1>14 DEF VM
<1> QED BY <1>15, <1>16, <1>17

(***************************************************************************)
(* Ports                                                                   *)
(***************************************************************************)
(* A step that releases the device layer, whatever it does to the program. *)
LEMMA ReleaseSafe ==
  PortInv /\ Release /\ owned' \subseteq Ports /\ UNCHANGED link => PortInv'
<1> SUFFICES ASSUME PortInv, Release, owned' \subseteq Ports, UNCHANGED link
             PROVE PortInv'
  OBVIOUS
<1>1. Quiet'
  BY ReleaseQuiet
<1>2. link' \in [Ports -> {"none", "motor", "sensor"}]
  BY DEF PortInv, PortTypes
<1> QED BY <1>1, <1>2 DEF Quiet, PortInv, PortTypes

(* The control step drives only ports with a demand, so the demands of a   *)
(* program that is not driving keep every bridge stopped.                  *)
LEMMA SplitSafe ==
  ASSUME PortInv, NEW s \in Splits
  PROVE  /\ Demands(s[2]) \in [Ports -> {"idle", "active", "brake"}]
         /\ Bridges(s[1], s[2]) \in [Ports -> {"driven", "stopped"}]
         /\ \A q \in Ports : Demands(s[2])[q] = "active" => ctl[q] = "active"
         /\ \A q \in Ports : ctl[q] = "idle" => Demands(s[2])[q] = "idle"
         /\ \A q \in Ports : Bridges(s[1], s[2])[q] = "driven" =>
              \/ hb[q] = "driven"
              \/ ctl[q] = "active" /\ link[q] = "motor"
<1>1. s[1] \subseteq Steppable /\ s[2] \subseteq Steppable
  BY DEF Splits
<1> QED BY <1>1 DEF PortInv, PortTypes, Demands, Bridges, Steppable, OpenMotors

(* The control step alone preserves the port invariant.                    *)
LEMMA StepSafe ==
  ASSUME PortInv, NEW s \in Splits, ctl' = Demands(s[2]), hb' = Bridges(s[1], s[2]),
         UNCHANGED <<fd, motor, owned, link, state, ending>>
  PROVE  PortInv'
<1>1. PortTypes'
  BY SplitSafe DEF PortInv, PortTypes
<1> QED BY <1>1, SplitSafe DEF PortInv, PortTypes, Driving

(* Braking the owned ports, from the demands c and bridges h a control     *)
(* step left: what is still driven or demanded was in F.                   *)
LEMMA BrakeSafe ==
  ASSUME PortInv, NEW F \in Failures, NEW c \in [Ports -> {"idle", "active", "brake"}],
         NEW h \in [Ports -> {"driven", "stopped"}],
         \A q \in Ports : c[q] = "active" => ctl[q] = "active",
         \A q \in Ports : ctl[q] = "idle" => c[q] = "idle",
         \A q \in Ports : h[q] = "driven" =>
              \/ hb[q] = "driven"
              \/ ctl[q] = "active" /\ link[q] = "motor",
         BrakeOwned(F, c, h), UNCHANGED <<owned, link>>,
         state' = "FAULT" \/ owned \cap OpenMotors \cap F = {},
         state' \in {"EMPTY", "READY"} => state \in {"EMPTY", "READY"}
  PROVE  PortInv'
<1>1. PortTypes'
  BY DEF PortInv, PortTypes, BrakeOwned
<1>2. \A q \in Ports : hb'[q] = "driven" \/ ctl'[q] = "active" =>
        hb[q] = "driven" \/ ctl[q] = "active"
  BY DEF PortInv, PortTypes, BrakeOwned
<1>3. \A q \in Ports : hb'[q] = "driven" \/ ctl'[q] = "active" => q \in F
  BY <1>2 DEF PortInv, PortTypes, BrakeOwned, OpenMotors
<1>4. \A q \in Ports : hb'[q] = "driven" \/ ctl'[q] = "active" =>
        Driving' /\ q \in owned' /\ fd'[q] /\ motor'[q]
  BY <1>2, <1>3 DEF PortInv, PortTypes, BrakeOwned, OpenMotors, Driving
<1>5. \A q \in Ports : hb'[q] = "driven" => link'[q] # "sensor"
  BY DEF PortInv, PortTypes, BrakeOwned
<1>6. \A q \in Ports : ~fd'[q] => ctl'[q] = "idle"
  BY DEF PortInv, PortTypes, BrakeOwned, OpenMotors
<1>7. state' \in {"EMPTY", "READY"} => \A q \in Ports : ~fd'[q]
  BY DEF PortInv, BrakeOwned
<1> QED BY <1>1, <1>4, <1>5, <1>6, <1>7 DEF PortInv

(* A request that leaves the program alone, and one that replaces or       *)
(* restarts it: the latter finds every port closed.                        *)
LEMMA HeadSafe ==
  ASSUME PortInv, ReleaseTerminal, UNCHANGED <<state, owned, ending, link>>
  PROVE  PortInv'
<1>1. CASE ~python /\ state \in Terminal
  <2>1. Release /\ owned' \subseteq Ports
    BY <1>1 DEF ReleaseTerminal, PortInv, PortTypes
  <2> QED BY <2>1, ReleaseSafe
<1>2. CASE ~(~python /\ state \in Terminal)
  BY <1>2 DEF ReleaseTerminal, portVars, PortInv, PortTypes, Driving
<1> QED BY <1>1, <1>2

(* A terminal program leaves all ports closed and idle once released.      *)
LEMMA FreshPorts ==
  ASSUME PortInv, ReleaseTerminal, ~python, state \in States, state # "RUNNING",
         owned' \subseteq Ports, UNCHANGED link
  PROVE  PortInv' /\ \A q \in Ports : ~fd'[q] /\ ctl'[q] = "idle"
<1>1. CASE state \in Terminal
  <2>1. Release
    BY <1>1 DEF ReleaseTerminal
  <2>2. Quiet' /\ PortInv'
    BY <2>1, ReleaseQuiet, ReleaseSafe
  <2> QED BY <2>2 DEF Quiet
<1>2. CASE state \in {"EMPTY", "READY"}
  <2>1. \A q \in Ports : ~fd[q] /\ hb[q] # "driven" /\ ctl[q] = "idle"
    BY <1>2 DEF PortInv, PortTypes
  <2>2. UNCHANGED portVars
    BY <1>2 DEF ReleaseTerminal, Terminal
  <2> QED BY <2>1, <2>2 DEF portVars, PortInv, PortTypes
<1> QED BY <1>1, <1>2 DEF States, Terminal

(* The requests preserve the port invariant.                               *)
LEMMA PortRequests == ControlInv /\ PortInv /\ Requests => PortInv'
<1> SUFFICES ASSUME ControlInv, PortInv, Requests PROVE PortInv'
  OBVIOUS
<1>a. owned \subseteq Ports /\ state \in States
  BY DEF PortInv, PortTypes, ControlInv
<1>1. CASE Status
  BY <1>1, HeadSafe DEF Status, progVars
<1>2. ASSUME NEW o \in Owners, NEW p \in Programs, Begin(o, p) PROVE PortInv'
  BY <1>2, HeadSafe DEF Begin, progVars
<1>3. ASSUME NEW o \in Owners, Chunk(o) PROVE PortInv'
  BY <1>3, HeadSafe DEF Chunk, progVars
<1>4. ASSUME NEW o \in Owners, Commit(o) PROVE PortInv'
  <2>1. CASE UNCHANGED progVars
    BY <1>4, <2>1, HeadSafe DEF Commit, progVars
  <2>2. CASE state # "RUNNING" /\ ReplaceProgram(upload)
    BY <1>4, <1>a, <2>2, FreshPorts DEF Commit, ReplaceProgram
  <2> QED BY <1>4, <2>1, <2>2 DEF Commit
<1>5. ASSUME NEW o \in Owners, Abort(o) PROVE PortInv'
  BY <1>5, HeadSafe DEF Abort, progVars
<1>6. ASSUME NEW id \in Ids, Start(id) PROVE PortInv'
  BY <1>6, <1>a, FreshPorts DEF Start, Terminal
<1>7. ASSUME NEW id \in Ids, Stop(id) PROVE PortInv'
  <2>1. CASE Release
    BY <1>7, <1>a, <2>1, ReleaseSafe DEF Stop
  <2>2. ASSUME NEW F \in Failures, NEW G \in Failures, StopProgram(F, G),
               BrakeOwned(G, ctl, hb)
        PROVE  PortInv'
    <3>1. UNCHANGED <<owned, link>> /\ state # "EMPTY"
      BY <1>7 DEF Stop
    <3>2. state' = "FAULT" \/ owned \cap OpenMotors \cap G = {}
      BY <2>2 DEF StopProgram
    <3>3. state' \in {"EMPTY", "READY"} => state \in {"EMPTY", "READY"}
      BY <2>2, <3>1 DEF StopProgram
    <3>4. ctl \in [Ports -> {"idle", "active", "brake"}]
          /\ hb \in [Ports -> {"driven", "stopped"}]
      BY DEF PortInv, PortTypes
    <3> QED BY <2>2, <3>1, <3>2, <3>3, <3>4, BrakeSafe
  <2> QED BY <1>7, <2>1, <2>2 DEF Stop
<1>8. ASSUME NEW id \in Ids, Save(id) PROVE PortInv'
  BY <1>8, HeadSafe DEF Save, progVars
<1>9. ASSUME NEW id \in Ids, Restore(id) PROVE PortInv'
  BY <1>9, <1>a, FreshPorts DEF Restore, ReplaceProgram, Idle
<1>10. CASE ServiceInit
  BY <1>10 DEF ServiceInit, PortInv, PortTypes, Driving, progVars, portVars
<1>11. CASE ServiceStop
  <2>1. CASE Release
    BY <1>11, <1>a, <2>1, ReleaseSafe DEF ServiceStop
  <2>2. ASSUME NEW F \in Failures, NEW G \in Failures, StopProgram(F, G),
               BrakeOwned(G, ctl, hb)
        PROVE  PortInv'
    <3>1. UNCHANGED <<owned, link>>
      BY <1>11 DEF ServiceStop
    <3>2. state' = "FAULT" \/ owned \cap OpenMotors \cap G = {}
      BY <2>2 DEF StopProgram
    <3>3. state' \in {"EMPTY", "READY"} => state \in {"EMPTY", "READY"}
      BY <2>2 DEF StopProgram
    <3>4. ctl \in [Ports -> {"idle", "active", "brake"}]
          /\ hb \in [Ports -> {"driven", "stopped"}]
      BY DEF PortInv, PortTypes
    <3> QED BY <2>2, <3>1, <3>2, <3>3, <3>4, BrakeSafe
  <2> QED BY <1>11, <2>1, <2>2 DEF ServiceStop
<1> QED BY <1>1, <1>2, <1>3, <1>4, <1>5, <1>6, <1>7, <1>8, <1>9, <1>10, <1>11
  DEF Requests

(* The worker preserves the port invariant.                                *)
LEMMA PortWorker == ControlInv /\ PortInv /\ Worker => PortInv'
<1> SUFFICES ASSUME ControlInv, PortInv, Worker PROVE PortInv'
  OBVIOUS
<1>a. owned \subseteq Ports /\ state \in States
  BY DEF PortInv, PortTypes, ControlInv
<1>1. CASE WorkerTickFault
  BY <1>1, <1>a, ReleaseSafe DEF WorkerTickFault, TickFaults
<1>2. CASE WorkerRelease
  BY <1>2, <1>a, ReleaseSafe DEF WorkerRelease, progVars
<1>3. ASSUME NEW C \in SUBSET Ports, NEW S \in SUBSET Ports, NativeTick(C, S)
      PROVE  PortInv'
  <2>1. PICK s \in Splits :
          /\ ctl' = [q \in Ports |-> IF q \in C THEN "active"
                                     ELSE Sensed(S, Demands(s[2]))[q]]
          /\ hb' = Bridges(s[1], s[2])
    BY <1>3 DEF NativeTick
  <2>2. /\ state = "RUNNING" /\ ~ending /\ UNCHANGED <<state, ending, link>>
        /\ \A q \in C : link[q] = "motor"
        /\ fd' = [q \in Ports |-> fd[q] \/ q \in C \cup S]
        /\ motor' = [q \in Ports |-> (motor[q] \/ q \in C) /\ q \notin Typed(S)]
        /\ owned' = owned \cup C
    BY <1>3 DEF NativeTick, Native, Ticking, Interpreted
  <2>3. PortTypes'
    BY <2>1, <2>2, SplitSafe DEF PortInv, PortTypes, Sensed
  <2>4. \A q \in Ports : hb'[q] = "driven" =>
          /\ Driving' /\ q \in owned' /\ fd'[q] /\ motor'[q] /\ link'[q] # "sensor"
    BY <2>1, <2>2, SplitSafe DEF PortInv, PortTypes, Driving, Typed
  <2>5. \A q \in Ports : ctl'[q] = "active" =>
          /\ Driving' /\ q \in owned' /\ fd'[q] /\ motor'[q]
    BY <2>1, <2>2, SplitSafe DEF PortInv, PortTypes, Driving, Typed, Sensed
  <2>6. \A q \in Ports : ~fd'[q] => ctl'[q] = "idle"
    BY <2>1, <2>2, SplitSafe DEF PortInv, PortTypes, Sensed
  <2> QED BY <2>2, <2>3, <2>4, <2>5, <2>6 DEF PortInv
<1>4. ASSUME NEW C \in SUBSET Ports, NEW S \in SUBSET Ports, NativeEnd(C, S)
      PROVE  PortInv'
  <2> DEFINE braked == {q \in owned' : fd'[q] /\ motor'[q]}
  <2>1. PICK s \in Splits :
          /\ ctl' = [q \in Ports |-> IF q \in braked THEN "brake"
                                     ELSE Sensed(S, Demands(s[2]))[q]]
          /\ hb' = [q \in Ports |-> IF q \in braked THEN "stopped"
                                    ELSE Bridges(s[1], s[2])[q]]
    BY <1>4 DEF NativeEnd
  <2>2. /\ state = "RUNNING" /\ UNCHANGED <<state, link>>
        /\ fd' = [q \in Ports |-> fd[q] \/ q \in C \cup S]
        /\ motor' = [q \in Ports |-> (motor[q] \/ q \in C) /\ q \notin Typed(S)]
        /\ owned' = owned \cup C
    BY <1>4 DEF NativeEnd, Native, Ticking, Interpreted
  <2>3. PortTypes'
    BY <2>1, <2>2, SplitSafe DEF PortInv, PortTypes, Sensed
  <2>4. \A q \in Ports : hb'[q] # "driven"
    <3> SUFFICES ASSUME NEW q \in Ports, q \notin braked,
                        Bridges(s[1], s[2])[q] = "driven" PROVE FALSE
      BY <2>1
    <3>1. q \in owned /\ fd[q] /\ motor[q] /\ link[q] # "sensor"
      BY SplitSafe DEF PortInv
    <3> QED BY <2>2, <3>1 DEF Typed
  <2>5. \A q \in Ports : ctl'[q] # "active"
    <3> SUFFICES ASSUME NEW q \in Ports, q \notin braked,
                        Sensed(S, Demands(s[2]))[q] = "active" PROVE FALSE
      BY <2>1
    <3>1. q \in owned /\ fd[q] /\ motor[q] /\ q \notin Typed(S)
      BY SplitSafe DEF PortInv, Sensed
    <3> QED BY <2>2, <3>1
  <2>6. \A q \in Ports : ~fd'[q] => ctl'[q] = "idle"
    BY <2>1, <2>2, SplitSafe DEF PortInv, PortTypes, Sensed
  <2> QED BY <2>2, <2>3, <2>4, <2>5, <2>6 DEF PortInv
<1>5. ASSUME NEW C \in SUBSET Ports, NativeFault(C) PROVE PortInv'
  BY <1>5, <1>a, ReleaseSafe DEF NativeFault
<1>6. ASSUME NEW C \in SUBSET Ports, EndingWait(C) PROVE PortInv'
  <2>1. PICK s \in Splits : ctl' = Demands(s[2]) /\ hb' = Bridges(s[1], s[2])
    BY <1>6 DEF EndingWait
  <2>2. /\ state = "RUNNING" /\ UNCHANGED <<state, ending, owned, link>>
        /\ fd' = [q \in Ports |-> fd[q] \/ q \in C]
        /\ motor' = [q \in Ports |-> motor[q] \/ q \in C]
    BY <1>6 DEF EndingWait, Ticking, progVars
  <2>3. PortTypes'
    BY <2>1, <2>2, SplitSafe DEF PortInv, PortTypes
  <2> QED BY <2>1, <2>2, <2>3, SplitSafe DEF PortInv, PortTypes, Driving
<1>7. CASE EndingDone
  BY <1>7, <1>a, ReleaseSafe DEF EndingDone
<1>8. CASE EndingFault
  BY <1>8, <1>a, ReleaseSafe DEF EndingFault
<1>9. CASE StartPython
  BY <1>9, StepSafe DEF StartPython, progVars
<1> QED BY <1>1, <1>2, <1>3, <1>4, <1>5, <1>6, <1>7, <1>8, <1>9 DEF Worker

(* The VM's callbacks preserve the port invariant.                         *)
LEMMA PortVM == ControlInv /\ PortInv /\ VM => PortInv'
<1> SUFFICES ASSUME ControlInv, PortInv, VM PROVE PortInv'
  OBVIOUS
<1>a. python => ~ending
  BY DEF ControlInv, VMHasProgram
<1>b. /\ ctl \in [Ports -> {"idle", "active", "brake"}]
      /\ hb \in [Ports -> {"driven", "stopped"}]
  BY DEF PortInv, PortTypes
<1>1. CASE PyPoll
  BY <1>1, StepSafe DEF PyPoll, progVars
<1>2. CASE PyPollFault
  <2>1. PICK s \in Splits, F \in Failures :
          BrakeOwned(F, Demands(s[2]), Bridges(s[1], s[2]))
    BY <1>2 DEF PyPollFault
  <2>2. state' = "FAULT" /\ UNCHANGED <<owned, link>>
    BY <1>2 DEF PyPollFault, TickFaults
  <2> QED BY <2>1, <2>2, SplitSafe, BrakeSafe
<1>3. ASSUME NEW q \in Ports, NEW ok \in BOOLEAN, PyCommand(q, ok) PROVE PortInv'
  <2>1. PICK opened \in BOOLEAN, typed \in BOOLEAN :
          /\ (ok => typed) /\ (typed => opened)
          /\ fd' = [fd EXCEPT ![q] = fd[q] \/ opened]
          /\ motor' = [motor EXCEPT ![q] = motor[q] \/ typed]
    BY <1>3 DEF PyCommand, OpenMotor
  <2>2. /\ state = "RUNNING" /\ ~ending /\ UNCHANGED <<state, ending, hb, link>>
        /\ owned' = owned \cup {q}
        /\ ctl' = [ctl EXCEPT ![q] = IF ok THEN "active" ELSE ctl[q]]
    BY <1>3, <1>a DEF PyCommand
  <2>3. PortTypes'
    BY <2>1, <2>2 DEF PortInv, PortTypes
  <2>4. \A r \in Ports : (fd[r] => fd'[r]) /\ (motor[r] => motor'[r])
    BY <2>1 DEF PortInv, PortTypes
  <2>5. ok => fd'[q] /\ motor'[q]
    BY <2>1 DEF PortInv, PortTypes
  <2>6. \A r \in Ports : ctl'[r] = ctl[r] \/ (r = q /\ ok /\ ctl'[r] = "active")
    BY <2>2 DEF PortInv, PortTypes
  <2> QED BY <2>2, <2>3, <2>4, <2>5, <2>6 DEF PortInv, Driving
<1>4. ASSUME NEW q \in Ports, PySense(q) PROVE PortInv'
  <2>1. /\ state = "RUNNING" /\ ~ending /\ UNCHANGED <<state, ending, owned, hb, link>>
        /\ fd' = [fd EXCEPT ![q] = TRUE]
        /\ motor' = [motor EXCEPT ![q] = motor[q] /\ q \notin Typed({q})]
        /\ ctl' = Sensed({q}, ctl)
    BY <1>4, <1>a DEF PySense, progVars
  <2>2. PortTypes'
    BY <2>1 DEF PortInv, PortTypes, Sensed
  <2>3. \A r \in Ports : /\ (fd[r] => fd'[r])
                         /\ (motor[r] => motor'[r] \/ link[r] = "sensor")
    BY <2>1 DEF PortInv, PortTypes, Typed
  <2>4. \A r \in Ports : /\ ctl'[r] = "active" => ctl[r] = "active" /\ motor'[r]
                         /\ ctl[r] = "idle" => ctl'[r] = "idle"
    BY <2>1 DEF PortInv, PortTypes, Typed, Sensed
  <2> QED BY <2>1, <2>2, <2>3, <2>4 DEF PortInv, Driving
<1>5. ASSUME NEW raised \in BOOLEAN, PyReturn(raised) PROVE PortInv'
  <2>1. CASE state # "RUNNING"
    BY <1>5, <2>1 DEF PyReturn, progVars, portVars, PortInv, PortTypes, Driving
  <2>2. CASE state = "RUNNING"
    <3>1. PICK F \in Failures, G \in Failures :
            /\ G \subseteq F /\ BrakeOwned(G, ctl, hb)
            /\ IF raised \/ owned \cap OpenMotors \cap F # {}
               THEN state' = "FAULT"
               ELSE UNCHANGED state
      BY <1>5, <2>2 DEF PyReturn
    <3>2. UNCHANGED <<owned, link>>
      BY <1>5, <2>2 DEF PyReturn
    <3>3. /\ state' = "FAULT" \/ owned \cap OpenMotors \cap G = {}
          /\ state' \in {"EMPTY", "READY"} => state \in {"EMPTY", "READY"}
      BY <2>2, <3>1
    <3> QED BY <1>b, <3>1, <3>2, <3>3, BrakeSafe
  <2> QED BY <2>1, <2>2
<1> QED BY <1>1, <1>2, <1>3, <1>4, <1>5 DEF VM

(* Time does not touch the ports; attaching a device finds the bridge      *)
(* coasted by the LUMP engine.                                             *)
LEMMA PortEnvironment == PortInv /\ Environment => PortInv'
<1> SUFFICES ASSUME PortInv, Environment PROVE PortInv'
  OBVIOUS
<1>1. CASE UploadAges \/ TimeLimitPasses
  BY <1>1 DEF UploadAges, TimeLimitPasses, progVars, portVars, PortInv, PortTypes, Driving
<1>2. ASSUME NEW q \in Ports, Detach(q) PROVE PortInv'
  BY <1>2 DEF Detach, progVars, portVars, PortInv, PortTypes, Driving
<1>3. ASSUME NEW q \in Ports, NEW kind \in {"motor", "sensor"}, Attach(q, kind)
      PROVE  PortInv'
  BY <1>3 DEF Attach, progVars, PortInv, PortTypes, Driving
<1> QED BY <1>1, <1>2, <1>3 DEF Environment

(***************************************************************************)
(* The invariant and what follows from it                                  *)
(***************************************************************************)
LEMMA InitInvariant == Init => ControlInv /\ PortInv
<1> SUFFICES ASSUME Init PROVE ControlInv /\ PortInv
  OBVIOUS
<1>1. ControlInv
  BY DEF Init, ControlInv, States, StagingExcludesExecution, VMHasProgram
<1>2. Quiet /\ owned \subseteq Ports /\ link \in [Ports -> {"none", "motor", "sensor"}]
  BY DEF Init, Quiet
<1> QED BY <1>1, <1>2, QuietSafe

(* Every step of the service keeps the two halves of the invariant.        *)
LEMMA StepInvariant == ControlInv /\ PortInv /\ [Next]_vars => ControlInv' /\ PortInv'
<1> SUFFICES ASSUME ControlInv, PortInv, [Next]_vars PROVE ControlInv' /\ PortInv'
  OBVIOUS
<1>1. CASE Requests
  BY <1>1, ControlRequests, PortRequests
<1>2. CASE Worker
  BY <1>2, ControlTasks, PortWorker
<1>3. CASE VM
  BY <1>3, ControlTasks, PortVM
<1>4. CASE Environment
  BY <1>4, ControlTasks, PortEnvironment
<1>5. CASE UNCHANGED vars
  BY <1>5 DEF vars, progVars, uplVars, portVars, ControlInv, PortInv, PortTypes,
     Driving, StagingExcludesExecution, VMHasProgram
<1> QED BY <1>1, <1>2, <1>3, <1>4, <1>5 DEF Next

(* The inductive invariant holds in every reachable state of the service,  *)
(* for any number of ports, transports and programs.                       *)
THEOREM ServiceInvariant == Spec => []IInv
<1>1. Init => IInv
  BY InitInvariant, SplitInvariant
<1>2. IInv /\ [Next]_vars => IInv'
  <2> SUFFICES ASSUME ControlInv, PortInv, [Next]_vars PROVE IInv'
    BY SplitInvariant
  <2>1. ControlInv' /\ PortInv'
    BY StepInvariant
  <2> QED BY <2>1, SplitInvariant, PTL
<1> QED BY <1>1, <1>2, PTL DEF Spec

(* All variables keep their types, and only a service that never had a     *)
(* program is EMPTY.                                                       *)
THEOREM ServiceTypeCorrect == Spec => []TypeOK
<1>1. IInv => TypeOK
  BY DEF IInv
<1> QED BY <1>1, ServiceInvariant, PTL

(* No upload is open while a program runs or a VM unwinds (service.c:45,   *)
(* upload.c:36, upload.c:76).                                              *)
THEOREM UploadsExcludeExecution == Spec => []StagingExcludesExecution
<1>1. IInv => StagingExcludesExecution
  BY DEF IInv
<1> QED BY <1>1, ServiceInvariant, PTL

(* Outside a running program and a fault no motor is driven: a successful  *)
(* STOP, END or service stop has reached every motor (program.c:69-89).    *)
THEOREM StoppedProgramsDriveNothing == Spec => []StopMeansStopped
<1>1. IInv => StopMeansStopped
  BY DEF IInv
<1> QED BY <1>1, ServiceInvariant, PTL

(* The service never loses the handle, the type or the owned bit of a      *)
(* motor that is driven (device.c:49-78, service.c:175-188).               *)
THEOREM DrivenMotorsAreReachable == Spec => []DrivenIsReachable
<1>1. IInv => DrivenIsReachable
  BY DEF IInv
<1> QED BY <1>1, ServiceInvariant, PTL

(* Steps that make the program run find every port closed.                 *)
LEMMA StartIsFresh ==
  ControlInv /\ PortInv /\ [Next]_vars /\ state # "RUNNING" /\ state' = "RUNNING"
    => \A q \in Ports : ~fd'[q] /\ ctl'[q] = "idle"
<1> SUFFICES ASSUME ControlInv, PortInv, [Next]_vars, state # "RUNNING",
                    state' = "RUNNING"
             PROVE  \A q \in Ports : ~fd'[q] /\ ctl'[q] = "idle"
  OBVIOUS
<1>1. ASSUME NEW id \in Ids, Start(id)
      PROVE  \A q \in Ports : ~fd'[q] /\ ctl'[q] = "idle"
  <2>1. /\ ReleaseTerminal /\ ~python /\ state \in States
        /\ owned' \subseteq Ports /\ UNCHANGED link
    BY <1>1 DEF Start, ControlInv
  <2> QED BY <2>1, FreshPorts
<1>2. CASE Requests /\ ~\E id \in Ids : Start(id)
  BY <1>2 DEF Requests, Status, Begin, Chunk, Commit, Abort, Stop, Save, Restore,
     ServiceInit, ServiceStop, ReplaceProgram, StopProgram, progVars
<1>3. CASE Worker
  BY <1>3 DEF Worker, WorkerTickFault, WorkerRelease, NativeTick, NativeEnd,
     NativeFault, EndingWait, EndingDone, EndingFault, StartPython, TickFaults,
     Native, Ticking, progVars
<1>4. CASE VM
  BY <1>4 DEF VM, PyPoll, PyPollFault, PyCommand, PySense, PyReturn, TickFaults, progVars
<1>5. CASE Environment
  BY <1>5 DEF Environment, UploadAges, TimeLimitPasses, Attach, Detach, progVars
<1>6. CASE UNCHANGED vars
  BY <1>6 DEF vars, progVars
<1> QED BY <1>1, <1>2, <1>3, <1>4, <1>5, <1>6 DEF Next

(* Every program starts with all ports closed and without a demand left by *)
(* its predecessor (service.c:44).                                         *)
THEOREM StartsAreFresh == Spec => FreshStart
<1>1. IInv /\ [Next]_vars =>
        [state # "RUNNING" /\ state' = "RUNNING" =>
           \A q \in Ports : ~fd'[q] /\ ctl'[q] = "idle"]_vars
  BY StartIsFresh, SplitInvariant
<1> QED BY <1>1, ServiceInvariant, PTL DEF Spec, FreshStart

(* Only COMMIT and LOAD change the program, and never under a VM.          *)
LEMMA OnlyIdleReplaces ==
  ControlInv /\ [Next]_vars /\ loaded' # loaded => ~python /\ state # "RUNNING"
<1> SUFFICES ASSUME ControlInv, [Next]_vars, loaded' # loaded
             PROVE  ~python /\ state # "RUNNING"
  OBVIOUS
<1>1. CASE Requests
  BY <1>1 DEF Requests, Status, Begin, Chunk, Commit, Abort, Start, Stop, Save,
     Restore, Idle, ServiceInit, ServiceStop, ReplaceProgram, progVars
<1>2. CASE Worker
  BY <1>2 DEF Worker, WorkerTickFault, WorkerRelease, NativeTick, NativeEnd,
     NativeFault, EndingWait, EndingDone, EndingFault, StartPython, TickFaults, progVars
<1>3. CASE VM
  BY <1>3 DEF VM, PyPoll, PyPollFault, PyCommand, PySense, PyReturn, TickFaults, progVars
<1>4. CASE Environment
  BY <1>4 DEF Environment, UploadAges, TimeLimitPasses, Attach, Detach, progVars
<1>5. CASE UNCHANGED vars
  BY <1>5 DEF vars, progVars
<1> QED BY <1>1, <1>2, <1>3, <1>4, <1>5 DEF Next

(* The source that a VM reads outside the mutex cannot change under it     *)
(* (service.c:113).                                                        *)
THEOREM SourceIsStable == Spec => SourceStable
<1>1. IInv /\ [Next]_vars => [loaded' # loaded => ~python /\ state # "RUNNING"]_vars
  BY OnlyIdleReplaces, SplitInvariant
<1> QED BY <1>1, ServiceInvariant, PTL DEF Spec, SourceStable
=============================================================================
