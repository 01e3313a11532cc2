----------------------------- MODULE ProgramVM -----------------------------
(***************************************************************************)
(* The native instruction interpreter of the hub program service           *)
(* (apps/hubprogram/program.c): load and validation, start, stop and the   *)
(* tick that the firmware worker calls every 10 ms.                        *)
(*                                                                         *)
(* The interpreter reaches the motors and sensors only through the five    *)
(* callbacks of struct bw_program_io.  Their results are chosen freely     *)
(* here (every outcome program.h allows); module HubService gives them     *)
(* the behaviour of device.c.  A tick holds the service mutex, so no load, *)
(* start or stop runs while `budget' is positive.                          *)
(*                                                                         *)
(* Time is measured in abstract milliseconds by two saturating timers,     *)
(* `age' (now - started) and `remaining' (deadline - now): the clock is    *)
(* CLOCK_MONOTONIC, so the interpreter's -ERANGE branch cannot be taken.   *)
(***************************************************************************)
EXTENDS Integers, Sequences, FiniteSets

CONSTANTS
  PortCount,    \* BW_PROGRAM_PORT_COUNT
  ProgramLimit, \* BW_PROGRAM_LIMIT, rows of a program
  TimeLimit,    \* BW_PROGRAM_TIME_LIMIT, also the longest WAIT
  TickBudget,   \* immediate instructions of one tick
  Candidates    \* row sequences a transport or the flash slot may offer

Ports == 0 .. PortCount - 1

PortMask == 2^PortCount - 1  \* BW_PROGRAM_PORT_MASK

Instruction == [op : Int, a : Int, b : Int, c : Int]

ASSUME ConstantsAssumption ==
  /\ PortCount \in Nat \ {0}
  /\ ProgramLimit \in Nat \ {0}
  /\ TimeLimit \in Nat \ {0}
  /\ TickBudget \in Nat \ {0}
  /\ Candidates \subseteq Seq(Instruction)

VARIABLES
  code,      \* p->code[0 .. count-1]; row pc of the code is code[pc + 1]
  state,     \* p->state
  pc,        \* p->pc
  error,     \* p->error, a symbolic errno
  owned,     \* p->owned, the set of ports in the bit mask
  moving,    \* p->moving, -1 when no blocking move is pending
  awaiting,  \* p->awaiting, the set of ports in the bit mask
  waiting,   \* p->waiting
  ending,    \* p->ending
  age,       \* now - p->started, saturated at TimeLimit
  remaining, \* p->deadline - now, saturated at 0
  budget,    \* instructions left in the tick under way; 0 between ticks
  live       \* history: ports commanded since the last brake call on them

vars == <<code, state, pc, error, owned, moving, awaiting, waiting, ending,
          age, remaining, budget, live>>

States == {"EMPTY", "READY", "RUNNING", "COMPLETE", "STOPPED", "FAULT"}
Terminal == {"COMPLETE", "STOPPED", "FAULT"}
Errors == {"none", "EIO", "EPROTO", "ETIMEDOUT"}

(***************************************************************************)
(* bw_program_validate                                                     *)
(***************************************************************************)
OP_END == 0        OP_SPEED == 1      OP_WAIT == 2
OP_UNTIL == 3      OP_JUMP == 4       OP_BRANCH == 5
OP_MOVE == 6       OP_ARM == 7        OP_AWAIT == 8

Speeds  == -1110 .. 1110    \* degrees per second
Angles  == -36000 .. 36000  \* degrees of a relative move

(* The selector's predicate number, 0 for a selector that names none:      *)
(* legacy 1..6, or an addressed distance token 0x100 + 8*port + {1, 2}.    *)
SensorPredicate(selector) ==
  IF selector \in 1 .. 6 THEN selector
  ELSE IF /\ selector >= 256
          /\ (selector - 256) \div 8 < 6
          /\ (selector - 256) % 8 \in {1, 2}
       THEN (selector - 256) % 8
       ELSE 0

Predicate(selector, value) ==
  LET s == SensorPredicate(selector)
  IN \/ s \in {1, 2} /\ value \in 0 .. 65535
     \/ s = 3        /\ value \in 0 .. 1
     \/ s = 4        /\ value \in 0 .. 255
     \/ s \in {5, 6} /\ value \in 0 .. 100

(* Mutant: the port bound of SPEED, MOVE and ARM is off by one.            *)
ValidRowPortOffByOne(r, count) ==
  \/ r.op = OP_END    /\ r.a = 0 /\ r.b = 0 /\ r.c = 0
  \/ r.op = OP_SPEED  /\ r.a \in 0 .. PortCount /\ r.b \in Speeds
  \/ r.op = OP_JUMP   /\ r.a \in 0 .. count - 1

ValidRow(r, count) ==
  \/ r.op = OP_END    /\ r.a = 0 /\ r.b = 0 /\ r.c = 0
  \/ r.op = OP_SPEED  /\ r.a \in Ports /\ r.b \in Speeds /\ r.c = 0
  \/ r.op = OP_WAIT   /\ r.a \in 0 .. TimeLimit /\ r.b = 0 /\ r.c = 0
  \/ r.op = OP_UNTIL  /\ Predicate(r.a, r.b) /\ r.c = 0
  \/ r.op = OP_JUMP   /\ r.a \in 0 .. count - 1 /\ r.b = 0 /\ r.c = 0
  \/ r.op = OP_BRANCH /\ Predicate(r.a, r.b) /\ r.c \in 0 .. count - 1
  \/ /\ r.op \in {OP_MOVE, OP_ARM}
     /\ r.a \in Ports /\ r.b \in Angles /\ r.c \in Speeds /\ r.c > 0
  \/ r.op = OP_AWAIT  /\ r.a \in 1 .. PortMask /\ r.b = 0 /\ r.c = 0

(* Mutant: the final row need not be END.                                  *)
ValidateAnyLastRow(rows) ==
  /\ Len(rows) \in 1 .. ProgramLimit
  /\ \A i \in 1 .. Len(rows) : ValidRow(rows[i], Len(rows))

Validate(rows) ==
  /\ Len(rows) \in 1 .. ProgramLimit
  /\ \A i \in 1 .. Len(rows) : ValidRow(rows[i], Len(rows))
  /\ rows[Len(rows)].op = OP_END

PortsOf(mask) == {q \in Ports : (mask \div 2^q) % 2 = 1}

(***************************************************************************)
(* bw_program_init, bw_program_load, bw_program_start                      *)
(***************************************************************************)
Init ==
  /\ code = << >> /\ state = "EMPTY" /\ pc = 0 /\ error = "none"
  /\ owned = {} /\ moving = -1 /\ awaiting = {}
  /\ waiting = FALSE /\ ending = FALSE
  /\ age = 0 /\ remaining = 0 /\ budget = 0 /\ live = {}

ResetExecution ==
  /\ pc' = 0 /\ error' = "none"
  /\ owned' = {} /\ moving' = -1 /\ awaiting' = {}
  /\ waiting' = FALSE /\ ending' = FALSE

Load(rows) ==
  /\ budget = 0 /\ state # "RUNNING" /\ Validate(rows)
  /\ ResetExecution
  /\ code' = rows /\ state' = "READY"
  /\ UNCHANGED <<age, remaining, budget, live>>

Start ==
  /\ budget = 0 /\ state \in {"READY"} \cup Terminal
  /\ ResetExecution
  /\ state' = "RUNNING" /\ age' = 0 /\ remaining' = 0
  /\ UNCHANGED <<code, budget, live>>

(***************************************************************************)
(* brake_owned calls brake on every owned port, whatever the earlier calls *)
(* returned; fault and bw_program_stop run it first.                       *)
(***************************************************************************)
BrakeOwned == live' = live \ owned

Fault(e) == BrakeOwned /\ error' = e /\ state' = "FAULT"

Stop ==
  /\ budget = 0
  /\ \E braked \in BOOLEAN :
       /\ (owned = {} => braked)
       /\ IF braked
          THEN /\ BrakeOwned
               /\ state' = IF state = "EMPTY" THEN "EMPTY" ELSE "STOPPED"
               /\ UNCHANGED error
          ELSE Fault("EIO")
  /\ UNCHANGED <<code, pc, owned, moving, awaiting, waiting, ending, age,
                 remaining, budget>>

(***************************************************************************)
(* bw_program_tick.  A tick that finds a wait or a move still pending      *)
(* changes nothing and is a stuttering step.                               *)
(***************************************************************************)
TimedOut == age >= TimeLimit

TickTimeout ==
  /\ budget = 0 /\ state = "RUNNING" /\ TimedOut
  /\ Fault("ETIMEDOUT")
  /\ UNCHANGED <<code, pc, owned, moving, awaiting, waiting, ending, age,
                 remaining, budget>>

(* Past the time check and an expired wait: no wait holds the tick back.   *)
TickReady ==
  /\ budget = 0 /\ state = "RUNNING" /\ ~TimedOut
  /\ (waiting => remaining = 0)

(* The ports whose done callback the head of the tick polls; a blocking    *)
(* move and an AWAIT mask are never pending together.                      *)
Polled == (IF moving >= 0 THEN {moving} ELSE {}) \cup awaiting
                                     \cup (IF ending THEN owned ELSE {})

TickDoneFails ==
  /\ TickReady /\ Polled # {}
  /\ Fault("EIO")
  /\ waiting' = FALSE
  /\ UNCHANGED <<code, pc, owned, moving, awaiting, ending, age, remaining,
                 budget>>

TickFinish ==
  /\ TickReady /\ ending
  /\ state' = "COMPLETE" /\ waiting' = FALSE
  /\ moving' = -1 /\ awaiting' = {}
  /\ UNCHANGED <<code, pc, error, owned, ending, age, remaining, budget, live>>

(* Mutant: a finished blocking move is not forgotten.                      *)
TickEnterLoopKeepsMoving ==
  /\ TickReady /\ ~ending
  /\ waiting' = FALSE /\ awaiting' = {}
  /\ budget' = TickBudget
  /\ UNCHANGED <<code, state, pc, error, owned, moving, ending, age,
                 remaining, live>>

TickEnterLoop ==
  /\ TickReady /\ ~ending
  /\ waiting' = FALSE /\ moving' = -1 /\ awaiting' = {}
  /\ budget' = TickBudget
  /\ UNCHANGED <<code, state, pc, error, owned, ending, age, remaining, live>>

(***************************************************************************)
(* One iteration of the instruction loop.                                  *)
(***************************************************************************)
Row == code[pc + 1]

Fetch(ops) == Row.op \in ops

Continue == budget' = budget - 1
Return   == budget' = 0

FaultInLoop(e) ==
  /\ Fault(e) /\ Return
  /\ UNCHANGED <<code, pc, moving, awaiting, waiting, ending, age, remaining>>

StepEnd ==
  /\ Fetch({OP_END})
  /\ \/ /\ BrakeOwned /\ ending' = TRUE /\ Return
        /\ UNCHANGED <<state, error>>
        /\ UNCHANGED <<code, pc, owned, moving, awaiting, waiting, age,
                       remaining>>
     \/ owned # {} /\ FaultInLoop("EIO") /\ UNCHANGED owned

(* Mutant: the non-waiting move does not take ownership of its port.       *)
StepCommandArmUnowned ==
  /\ Fetch({OP_SPEED, OP_MOVE, OP_ARM})
  /\ owned' = IF Row.op = OP_ARM THEN owned ELSE owned \cup {Row.a}
  /\ live' = live \cup {Row.a}
  /\ pc' = pc + 1
  /\ IF Row.op = OP_MOVE THEN moving' = Row.a /\ Return
                         ELSE UNCHANGED moving /\ Continue
  /\ UNCHANGED <<code, state, error, awaiting, waiting, ending, age,
                 remaining>>

(* SPEED, MOVE and ARM take ownership before the callback can fail; the    *)
(* fault then brakes the port just taken as well.                          *)
StepCommand ==
  /\ Fetch({OP_SPEED, OP_MOVE, OP_ARM})
  /\ owned' = owned \cup {Row.a}
  /\ \/ /\ live' = live \cup {Row.a}
        /\ pc' = pc + 1
        /\ IF Row.op = OP_MOVE THEN moving' = Row.a /\ Return
                               ELSE UNCHANGED moving /\ Continue
        /\ UNCHANGED <<state, error>>
     \/ /\ live' = live \ (owned \cup {Row.a})
        /\ error' = "EIO" /\ state' = "FAULT" /\ Return
        /\ UNCHANGED <<pc, moving>>
  /\ UNCHANGED <<code, awaiting, waiting, ending, age, remaining>>

StepWait ==
  /\ Fetch({OP_WAIT})
  /\ remaining' = IF Row.a = 0 THEN 1 ELSE Row.a
  /\ waiting' = TRUE /\ pc' = pc + 1 /\ Return
  /\ UNCHANGED <<code, state, error, owned, moving, awaiting, ending, age,
                 live>>

StepAwait ==
  /\ Fetch({OP_AWAIT})
  /\ awaiting' = PortsOf(Row.a) /\ pc' = pc + 1 /\ Return
  /\ UNCHANGED <<code, state, error, owned, moving, waiting, ending, age,
                 remaining, live>>

(* condition(): the sensor reads true, reads false (an unavailable sample  *)
(* included), or fails.                                                    *)
StepUntil ==
  /\ Fetch({OP_UNTIL})
  /\ \/ /\ pc' = pc + 1 /\ Continue
        /\ UNCHANGED <<code, state, error, owned, moving, awaiting, waiting,
                       ending, age, remaining, live>>
     \/ /\ Return
        /\ UNCHANGED <<code, state, pc, error, owned, moving, awaiting,
                       waiting, ending, age, remaining, live>>
     \/ FaultInLoop("EIO") /\ UNCHANGED owned

(* Mutant: a jump is free, it does not use up the tick's budget.           *)
StepJumpUnbudgeted ==
  /\ Fetch({OP_JUMP})
  /\ pc' = Row.a
  /\ UNCHANGED <<code, state, error, owned, moving, awaiting, waiting, ending,
                 age, remaining, budget, live>>

StepJump ==
  /\ Fetch({OP_JUMP})
  /\ pc' = Row.a /\ Continue
  /\ UNCHANGED <<code, state, error, owned, moving, awaiting, waiting, ending,
                 age, remaining, live>>

StepBranch ==
  /\ Fetch({OP_BRANCH})
  /\ \/ /\ pc' \in {Row.c, pc + 1} /\ Continue
        /\ UNCHANGED <<code, state, error, owned, moving, awaiting, waiting,
                       ending, age, remaining, live>>
     \/ FaultInLoop("EIO") /\ UNCHANGED owned

(* Running off the code and an unknown operation are protocol faults.      *)
Loop ==
  /\ budget > 0
  /\ IF pc >= Len(code) \/ Row.op \notin OP_END .. OP_AWAIT
     THEN FaultInLoop("EPROTO") /\ UNCHANGED owned
     ELSE \/ StepEnd \/ StepCommand \/ StepWait \/ StepAwait
          \/ StepUntil \/ StepJump \/ StepBranch

Tick == TickTimeout \/ TickDoneFails \/ TickFinish \/ TickEnterLoop

(* The monotonic clock advances between ticks.                             *)
Clock ==
  /\ budget = 0
  /\ age' = IF age < TimeLimit THEN age + 1 ELSE age
  /\ remaining' = IF remaining > 0 THEN remaining - 1 ELSE 0
  /\ UNCHANGED <<code, state, pc, error, owned, moving, awaiting, waiting,
                 ending, budget, live>>

Next == (\E rows \in Candidates : Load(rows)) \/ Start \/ Stop \/ Tick \/ Loop
        \/ Clock

Spec == Init /\ [][Next]_vars

(***************************************************************************)
(* The worker ticks for ever and sleeps 10 ms between two ticks            *)
(* (service.c, worker), so time passes infinitely often.                   *)
(***************************************************************************)
Fairness == WF_vars(Tick) /\ WF_vars(Loop) /\ SF_vars(Clock)

FairSpec == Spec /\ Fairness

(***************************************************************************)
(* Properties                                                              *)
(***************************************************************************)
(* Every variable keeps the type of the field of struct bw_program it      *)
(* stands for.                                                             *)
TypeOK ==
  /\ code \in Seq(Instruction)
  /\ state \in States
  /\ pc \in Nat
  /\ error \in Errors
  /\ owned \in SUBSET Ports
  /\ moving \in Ports \cup {-1}
  /\ awaiting \in SUBSET Ports
  /\ waiting \in BOOLEAN
  /\ ending \in BOOLEAN
  /\ age \in 0 .. TimeLimit
  /\ remaining \in 0 .. TimeLimit
  /\ budget \in 0 .. TickBudget
  /\ live \in SUBSET Ports

(* Whatever rows a transport offers, a program that bw_program_validate    *)
(* accepted never reaches the -EPROTO exits of bw_program_tick: no jump,   *)
(* branch or fall-through leaves the code, over any number of restarts.    *)
NoProtocolFault == error # "EPROTO"

(* Once a program is not running, every port that took a motor command has *)
(* had a brake call since (END, STOP and every fault path brake all owned  *)
(* ports, and a port is owned before its first command).                   *)
BrakedAtRest == state # "RUNNING" => live = {}

(* bw_program_tick clears one blocking condition before it tests the next; *)
(* that is sound because a program is never held by two of WAIT, a         *)
(* blocking move, AWAIT and END at once.                                   *)
OneBlocker ==
  Cardinality({b \in 1 .. 4 : \/ b = 1 /\ waiting
                              \/ b = 2 /\ moving >= 0
                              \/ b = 3 /\ awaiting # {}
                              \/ b = 4 /\ ending}) <= 1

(* A started program always ends: a jump loop, a condition that is never   *)
(* met or a motor that never settles runs into the time limit, because the *)
(* instruction budget returns every tick.                                  *)
Terminates == (state = "RUNNING") ~> (state # "RUNNING")

=============================================================================
