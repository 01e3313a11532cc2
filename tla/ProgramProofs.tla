--------------------------- MODULE ProgramProofs ----------------------------
(***************************************************************************)
(* Proofs about a program of the hub, from its upload to its end.          *)
(*                                                                         *)
(* Upload, for every buffer size, chunk limit and set of clients: the      *)
(* protocol implements Staging, and unreliable delivery of an honest       *)
(* client's chunks never corrupts its session.                             *)
(*                                                                         *)
(* ProgramVM, for every number of ports, program and limit: validated      *)
(* programs stay in their code, and a program at rest is braked.           *)
(***************************************************************************)
EXTENDS ProgramVM, Upload, FiniteSetTheorems, TLAPS

-----------------------------------------------------------------------------
(* The interpreter *)

(* A loaded program has passed validation.                                 *)
CodeValid == state # "EMPTY" => Validate(code)

(* The program counter names a row of the loaded program.                  *)
PcInCode == state # "EMPTY" => pc < Len(code)

(* Commanded ports are owned, and none is live once the program has ended  *)
(* or is ending.                                                           *)
LiveOwned ==
  /\ live \subseteq owned
  /\ (state # "RUNNING" \/ ending => live = {})

(* The instruction loop runs only for a running program that is not ending.*)
LoopRuns == budget > 0 => state = "RUNNING" /\ ~ending

(* Before the first load no port can have been taken.                      *)
EmptyOwnsNothing == state = "EMPTY" => owned = {}

VMInv == /\ TypeOK /\ CodeValid /\ PcInCode /\ EmptyOwnsNothing
         /\ LiveOwned /\ LoopRuns /\ NoProtocolFault

(* Validation gives what the loop needs: a row that is not END is not the  *)
(* last one, and its operands are ports, rows of the code or a wait.       *)
LEMMA ValidRows ==
  ASSUME NEW rows \in Seq(Instruction), Validate(rows),
         NEW k \in Nat, k < Len(rows)
  PROVE  /\ rows[k + 1] \in Instruction
         /\ rows[k + 1].op \in OP_END .. OP_AWAIT
         /\ rows[k + 1].op # OP_END => k + 1 < Len(rows)
         /\ rows[k + 1].op \in {OP_SPEED, OP_MOVE, OP_ARM}
               => rows[k + 1].a \in Ports
         /\ rows[k + 1].op = OP_WAIT => rows[k + 1].a \in 0 .. TimeLimit
         /\ rows[k + 1].op = OP_JUMP
               => rows[k + 1].a \in Nat /\ rows[k + 1].a < Len(rows)
         /\ rows[k + 1].op = OP_BRANCH
               => rows[k + 1].c \in Nat /\ rows[k + 1].c < Len(rows)
PROOF
  <1> DEFINE r == rows[k + 1]
  <1>1. Len(rows) \in Nat /\ k + 1 \in 1 .. Len(rows)
    OBVIOUS
  <1>2. r \in Instruction
    BY <1>1
  <1>3. ValidRow(r, Len(rows))
    BY <1>1 DEF Validate
  <1>4. r.op # OP_END => k + 1 # Len(rows)
    BY DEF Validate
  <1>5. r.op \in Int /\ r.a \in Int /\ r.c \in Int
    BY <1>2 DEF Instruction
  <1> HIDE DEF r
  <1>6. r.op \in OP_END .. OP_AWAIT
    BY <1>3, <1>5 DEF ValidRow, OP_END, OP_SPEED, OP_WAIT, OP_UNTIL, OP_JUMP,
                 OP_BRANCH, OP_MOVE, OP_ARM, OP_AWAIT
  <1>7. r.op \in {OP_SPEED, OP_MOVE, OP_ARM} => r.a \in Ports
    BY <1>3 DEF ValidRow, OP_END, OP_SPEED, OP_WAIT, OP_UNTIL, OP_JUMP,
                 OP_BRANCH, OP_MOVE, OP_ARM, OP_AWAIT
  <1>8. r.op = OP_WAIT => r.a \in 0 .. TimeLimit
    BY <1>3 DEF ValidRow, OP_END, OP_SPEED, OP_WAIT, OP_UNTIL, OP_JUMP,
                 OP_BRANCH, OP_MOVE, OP_ARM, OP_AWAIT
  <1>9. r.op = OP_JUMP => r.a \in 0 .. Len(rows) - 1
    BY <1>3 DEF ValidRow, OP_END, OP_SPEED, OP_WAIT, OP_UNTIL, OP_JUMP,
                 OP_BRANCH, OP_MOVE, OP_ARM, OP_AWAIT
  <1>10. r.op = OP_BRANCH => r.c \in 0 .. Len(rows) - 1
    BY <1>3 DEF ValidRow, OP_END, OP_SPEED, OP_WAIT, OP_UNTIL, OP_JUMP,
                 OP_BRANCH, OP_MOVE, OP_ARM, OP_AWAIT
  <1>11. QED
    BY <1>1, <1>2, <1>4, <1>5, <1>6, <1>7, <1>8, <1>9, <1>10 DEF r

(* The initial state satisfies the inductive invariant.                    *)
LEMMA VMInit == Init => VMInv
PROOF
  <1> SUFFICES ASSUME Init PROVE VMInv
    OBVIOUS
  <1>1. 0 \in 0 .. TimeLimit /\ 0 \in 0 .. TickBudget
    BY ConstantsAssumption
  <1>2. TypeOK
    <2>1. code \in Seq(Instruction) /\ pc \in Nat
      BY DEF Init
    <2>2. state \in States /\ error \in Errors
      BY DEF Init, States, Errors
    <2>3. /\ owned \in SUBSET Ports /\ moving \in Ports \cup {-1}
          /\ awaiting \in SUBSET Ports /\ live \in SUBSET Ports
      BY DEF Init
    <2>4. waiting \in BOOLEAN /\ ending \in BOOLEAN
      BY DEF Init
    <2>5. QED
      BY <1>1, <2>1, <2>2, <2>3, <2>4 DEF Init, TypeOK
  <1>3. CodeValid /\ PcInCode /\ LiveOwned /\ LoopRuns /\ NoProtocolFault
        /\ EmptyOwnsNothing
    BY DEF Init, CodeValid, PcInCode, LiveOwned, LoopRuns, NoProtocolFault,
        EmptyOwnsNothing
  <1>4. QED
    BY <1>2, <1>3 DEF VMInv

(* Load, start, stop, the head of the tick and the clock preserve it.      *)
LEMMA VMOutsideLoop ==
  ASSUME VMInv,
         \/ \E rows \in Candidates : Load(rows)
         \/ Start \/ Stop \/ Tick \/ Clock
  PROVE  VMInv'
PROOF
  <1> USE DEF VMInv
  <1>0. /\ Candidates \subseteq Seq(Instruction)
        /\ 0 \in 0 .. TimeLimit
        /\ TickBudget \in 0 .. TickBudget
    BY ConstantsAssumption
  <1>1. ASSUME NEW rows \in Candidates, Load(rows) PROVE VMInv'
    <2>1. rows \in Seq(Instruction) /\ Validate(rows) /\ Len(rows) > 0
      BY <1>0, <1>1 DEF Load, Validate
    <2>2. TypeOK'
      BY <1>1, <2>1 DEF Load, ResetExecution, TypeOK, States, Errors
    <2>3. CodeValid' /\ PcInCode'
      BY <1>1, <2>1 DEF Load, ResetExecution, CodeValid, PcInCode
    <2>4. QED
      BY <1>1, <2>2, <2>3
      DEF Load, ResetExecution, LiveOwned, LoopRuns, NoProtocolFault,
          EmptyOwnsNothing, TypeOK
  <1>2. CASE Start
    <2>1. Validate(code) /\ code \in Seq(Instruction) /\ Len(code) > 0
      BY <1>2 DEF Start, CodeValid, Terminal, Validate, TypeOK
    <2>2. TypeOK'
      BY <1>0, <1>2 DEF Start, ResetExecution, TypeOK, States, Errors
    <2>3. CodeValid' /\ PcInCode'
      BY <1>2, <2>1 DEF Start, ResetExecution, CodeValid, PcInCode
    <2>4. QED
      BY <1>2, <2>2, <2>3
      DEF Start, ResetExecution, LiveOwned, LoopRuns, NoProtocolFault,
          EmptyOwnsNothing, TypeOK,
          Terminal
  <1>3. CASE Stop
    <2>1. PICK braked \in BOOLEAN :
            IF braked
            THEN /\ BrakeOwned
                 /\ state' = IF state = "EMPTY" THEN "EMPTY" ELSE "STOPPED"
                 /\ UNCHANGED error
            ELSE Fault("EIO") /\ owned # {}
      BY <1>3 DEF Stop
    <2>2. live' = {}
      BY <2>1 DEF Fault, BrakeOwned, LiveOwned
    <2>3. /\ state' \in States /\ state' # "RUNNING"
          /\ error' \in {error, "EIO"}
          /\ (state' = "EMPTY" <=> state = "EMPTY")
      <3>1. CASE braked
        BY <2>1, <3>1 DEF States
      <3>2. CASE ~braked
        <4>1. owned # {} /\ state # "EMPTY" /\ Fault("EIO")
          BY <2>1, <3>2 DEF EmptyOwnsNothing
        <4>2. QED
          BY <4>1 DEF Fault, States
      <3>3. QED
        BY <3>1, <3>2
    <2>4. QED
      BY <1>3, <2>2, <2>3
      DEF Stop, TypeOK, Errors, CodeValid, PcInCode, LiveOwned, LoopRuns,
          NoProtocolFault, EmptyOwnsNothing
  <1>4. CASE Tick
    <2>1. CASE TickTimeout
      BY <2>1
      DEF TickTimeout, Fault, BrakeOwned, TypeOK, States, Errors, CodeValid,
          PcInCode, LiveOwned, LoopRuns, NoProtocolFault, EmptyOwnsNothing
    <2>2. CASE TickDoneFails
      <3>1. TypeOK'
        BY <2>2 DEF TickDoneFails, Fault, BrakeOwned, TypeOK, States, Errors
      <3>2. QED
        BY <2>2, <3>1
        DEF TickDoneFails, TickReady, Fault, BrakeOwned, CodeValid, PcInCode,
            LiveOwned, LoopRuns, NoProtocolFault, EmptyOwnsNothing
    <2>3. CASE TickFinish
      BY <2>3
      DEF TickFinish, TickReady, TypeOK, States, Errors, CodeValid, PcInCode,
          LiveOwned, LoopRuns, NoProtocolFault, EmptyOwnsNothing
    <2>4. CASE TickEnterLoop
      <3>1. TypeOK'
        BY <1>0, <2>4 DEF TickEnterLoop, TypeOK
      <3>2. QED
        BY <2>4, <3>1
        DEF TickEnterLoop, TickReady, CodeValid, PcInCode, LiveOwned,
            LoopRuns, NoProtocolFault, EmptyOwnsNothing
    <2>5. QED
      BY <1>4, <2>1, <2>2, <2>3, <2>4 DEF Tick
  <1>5. CASE Clock
    BY <1>5, ConstantsAssumption
    DEF Clock, TypeOK, CodeValid, PcInCode, LiveOwned, LoopRuns,
        NoProtocolFault, EmptyOwnsNothing
  <1>6. QED
    BY <1>1, <1>2, <1>3, <1>4, <1>5

(* Every instruction preserves it; the -EPROTO exits are not taken.        *)
LEMMA VMLoop == ASSUME VMInv, Loop PROVE VMInv'
PROOF
  <1> USE ConstantsAssumption DEF VMInv
  <1>1. /\ state = "RUNNING" /\ ~ending /\ budget \in 1 .. TickBudget
        /\ code \in Seq(Instruction) /\ Validate(code)
        /\ pc \in Nat /\ pc < Len(code)
    BY DEF Loop, LoopRuns, CodeValid, PcInCode, TypeOK
  <1>2. /\ Row \in Instruction
        /\ Row.op \in OP_END .. OP_AWAIT
        /\ Row.op # OP_END => pc + 1 < Len(code)
        /\ Row.op \in {OP_SPEED, OP_MOVE, OP_ARM} => Row.a \in Ports
        /\ Row.op = OP_WAIT => Row.a \in 0 .. TimeLimit
        /\ Row.op = OP_JUMP => Row.a \in Nat /\ Row.a < Len(code)
        /\ Row.op = OP_BRANCH => Row.c \in Nat /\ Row.c < Len(code)
    BY <1>1, ValidRows DEF Row
  <1>3. ~(pc >= Len(code) \/ Row.op \notin OP_END .. OP_AWAIT)
    BY <1>1, <1>2
  <1>4. \/ StepEnd \/ StepCommand \/ StepWait \/ StepAwait
        \/ StepUntil \/ StepJump \/ StepBranch
    BY <1>3 DEF Loop
  <1> HIDE DEF Row
  <1>5. ASSUME FaultInLoop("EIO"), UNCHANGED owned PROVE VMInv'
    BY <1>1, <1>5
    DEF FaultInLoop, Fault, BrakeOwned, Return, TypeOK, States, Errors,
        CodeValid, PcInCode, LiveOwned, LoopRuns, NoProtocolFault,
        EmptyOwnsNothing
  <1>6. CASE StepEnd
    <2>1. CASE FaultInLoop("EIO") /\ UNCHANGED owned
      BY <2>1, <1>5
    <2>2. CASE /\ BrakeOwned /\ ending' = TRUE /\ Return
               /\ UNCHANGED <<state, error>>
               /\ UNCHANGED <<code, pc, owned, moving, awaiting, waiting, age,
                              remaining>>
      BY <1>1, <2>2
      DEF BrakeOwned, Return, TypeOK, CodeValid, PcInCode, LiveOwned,
          LoopRuns, NoProtocolFault, EmptyOwnsNothing
    <2>3. QED
      BY <1>6, <2>1, <2>2 DEF StepEnd
  <1>7. CASE StepCommand
    <2>1. Row.a \in Ports /\ pc + 1 < Len(code)
      BY <1>7, <1>2 DEF StepCommand, Fetch, OP_END, OP_SPEED, OP_MOVE, OP_ARM
    <2>2. CASE /\ live' = live \ (owned \cup {Row.a})
               /\ error' = "EIO" /\ state' = "FAULT" /\ Return
               /\ UNCHANGED <<pc, moving>>
      BY <1>1, <1>7, <2>1, <2>2
      DEF StepCommand, Return, TypeOK, States, Errors, CodeValid, PcInCode,
          LiveOwned, LoopRuns, NoProtocolFault, EmptyOwnsNothing
    <2>3. CASE /\ live' = live \cup {Row.a}
               /\ pc' = pc + 1
               /\ IF Row.op = OP_MOVE THEN moving' = Row.a /\ Return
                                      ELSE UNCHANGED moving /\ Continue
               /\ UNCHANGED <<state, error>>
      BY <1>1, <1>7, <2>1, <2>3
      DEF StepCommand, Return, Continue, TypeOK, CodeValid, PcInCode,
          LiveOwned, LoopRuns, NoProtocolFault, EmptyOwnsNothing
    <2>4. QED
      BY <1>7, <2>2, <2>3 DEF StepCommand
  <1>8. CASE StepWait
    BY <1>1, <1>2, <1>8
    DEF StepWait, Fetch, Return, TypeOK, CodeValid, PcInCode, LiveOwned,
        LoopRuns, NoProtocolFault, EmptyOwnsNothing, OP_END, OP_WAIT
  <1>9. CASE StepAwait
    BY <1>1, <1>2, <1>9
    DEF StepAwait, Fetch, Return, PortsOf, TypeOK, CodeValid, PcInCode,
        LiveOwned, LoopRuns, NoProtocolFault, EmptyOwnsNothing, OP_END,
        OP_AWAIT
  <1>10. CASE StepUntil
    BY <1>1, <1>2, <1>5, <1>10
    DEF StepUntil, Fetch, Return, Continue, TypeOK, CodeValid, PcInCode,
        LiveOwned, LoopRuns, NoProtocolFault, EmptyOwnsNothing, OP_END,
        OP_UNTIL
  <1>11. CASE StepJump
    BY <1>1, <1>2, <1>11
    DEF StepJump, Fetch, Continue, TypeOK, CodeValid, PcInCode, LiveOwned,
        LoopRuns, NoProtocolFault, EmptyOwnsNothing, OP_END, OP_JUMP
  <1>12. CASE StepBranch
    <2>1. CASE FaultInLoop("EIO") /\ UNCHANGED owned
      BY <1>5, <2>1
    <2>2. CASE /\ pc' \in {Row.c, pc + 1} /\ Continue
               /\ UNCHANGED <<code, state, error, owned, moving, awaiting,
                              waiting, ending, age, remaining, live>>
      <3>1. pc' \in Nat /\ pc' < Len(code)
        BY <1>1, <1>2, <1>12, <2>2 DEF StepBranch, Fetch, OP_END, OP_BRANCH
      <3>2. budget' \in 0 .. TickBudget
        BY <1>1, <2>2 DEF Continue
      <3>3. QED
        BY <1>1, <2>2, <3>1, <3>2
        DEF TypeOK, CodeValid, PcInCode, LiveOwned, LoopRuns,
            NoProtocolFault, EmptyOwnsNothing
    <2>3. QED
      BY <1>12, <2>1, <2>2 DEF StepBranch
  <1>13. QED
    BY <1>4, <1>6, <1>7, <1>8, <1>9, <1>10, <1>11, <1>12

(* The inductive invariant holds in every reachable state.                 *)
THEOREM VMInvariant == Spec => []VMInv
PROOF
  <1>1. VMInv /\ [Next]_vars => VMInv'
    <2> SUFFICES ASSUME VMInv, [Next]_vars PROVE VMInv'
      OBVIOUS
    <2>1. CASE Next
      BY <2>1, VMOutsideLoop, VMLoop DEF Next
    <2>2. CASE UNCHANGED vars
      BY <2>2
      DEF vars, VMInv, TypeOK, CodeValid, PcInCode, LiveOwned, LoopRuns,
          NoProtocolFault, EmptyOwnsNothing
    <2>3. QED
      BY <2>1, <2>2
  <1>2. QED
    BY <1>1, VMInit, PTL DEF Spec

(* The type invariant of the interpreter.                                  *)
THEOREM VMTypeCorrect == Spec => []TypeOK
  BY VMInvariant, PTL DEF VMInv

(* Validated programs never take the -EPROTO exits of bw_program_tick.     *)
THEOREM ValidatedProgramsStayInCode == Spec => []NoProtocolFault
  BY VMInvariant, PTL DEF VMInv

(* A program that is not running has sent a brake to every port it drove.  *)
THEOREM RestingProgramsAreBraked == Spec => []BrakedAtRest
PROOF
  <1>1. VMInv => BrakedAtRest
    BY DEF VMInv, LiveOwned, BrakedAtRest
  <1>2. QED
    BY <1>1, VMInvariant, PTL

(* What holds a program, told apart pairwise: OneBlocker without counting. *)
BlockersExclude ==
  /\ waiting => moving = -1 /\ awaiting = {} /\ ~ending
  /\ moving # -1 => awaiting = {} /\ ~ending
  /\ awaiting # {} => ~ending

(* The instruction loop runs only for a program that nothing holds; that   *)
(* is why an instruction may set its own blocker without a look at the     *)
(* others.                                                                 *)
LoopIsUnheld == budget > 0 => ~waiting /\ moving = -1 /\ awaiting = {}

HeldInv == BlockersExclude /\ LoopIsUnheld

(* Blockers that exclude each other pairwise are at most one.              *)
LEMMA PairwiseIsOne == ASSUME TypeOK, BlockersExclude PROVE OneBlocker
PROOF
  <1> DEFINE B == {b \in 1 .. 4 : \/ b = 1 /\ waiting
                                  \/ b = 2 /\ moving >= 0
                                  \/ b = 3 /\ awaiting # {}
                                  \/ b = 4 /\ ending}
  <1>1. moving >= 0 => moving # -1
    OBVIOUS
  <1>2. \A b, c \in B : b = c
    BY <1>1 DEF BlockersExclude
  <1>3. B = {} \/ \E b : B = {b}
    <2>1. ASSUME B # {} PROVE \E b : B = {b}
      <3>1. PICK b : b \in B
        BY <2>1
      <3>2. B = {b}
        BY <1>2, <3>1
      <3>3. QED
        BY <3>2
    <2>2. QED
      BY <2>1
  <1>4. CASE B = {}
    <2>1. Cardinality(B) = 0
      BY <1>4, FS_EmptySet
    <2>2. QED
      BY <2>1 DEF OneBlocker
  <1>5. CASE \E b : B = {b}
    <2>1. PICK b : B = {b}
      BY <1>5
    <2>2. Cardinality(B) = 1
      BY <2>1, FS_Singleton
    <2>3. QED
      BY <2>2 DEF OneBlocker
  <1>6. QED
    BY <1>3, <1>4, <1>5

(* Every step keeps the blockers apart.                                    *)
LEMMA HeldStep == ASSUME VMInv, HeldInv, [Next]_vars PROVE HeldInv'
PROOF
  <1> USE DEF HeldInv, BlockersExclude, LoopIsUnheld
  <1>1. TypeOK /\ LoopRuns
    BY DEF VMInv
  <1>2. budget \in Nat /\ TickBudget \in Nat
    BY <1>1, ConstantsAssumption DEF TypeOK
  <1>3. ASSUME NEW rows \in Candidates, Load(rows) PROVE HeldInv'
    BY <1>3 DEF Load, ResetExecution
  <1>4. CASE Start
    BY <1>4 DEF Start, ResetExecution
  <1>5. CASE Stop
    BY <1>5 DEF Stop
  <1>6. CASE Tick
    <2>1. CASE TickTimeout
      BY <2>1 DEF TickTimeout
    <2>2. CASE TickDoneFails
      BY <2>2 DEF TickDoneFails, TickReady
    <2>3. CASE TickFinish
      BY <2>3 DEF TickFinish, TickReady
    <2>4. CASE TickEnterLoop
      BY <2>4 DEF TickEnterLoop, TickReady
    <2>5. QED
      BY <1>6, <2>1, <2>2, <2>3, <2>4 DEF Tick
  <1>7. CASE Loop
    <2>1. budget > 0 /\ ~waiting /\ moving = -1 /\ awaiting = {} /\ ~ending
      BY <1>1, <1>7 DEF Loop, LoopRuns
    <2>2. ASSUME NEW e, FaultInLoop(e) PROVE HeldInv'
      BY <2>1, <2>2 DEF FaultInLoop, Return
    <2>3. CASE StepEnd
      BY <2>1, <2>2, <2>3 DEF StepEnd, Return
    <2>4. CASE StepCommand
      BY <1>2, <2>1, <2>4 DEF StepCommand, Return, Continue
    <2>5. CASE StepWait
      BY <2>1, <2>5 DEF StepWait, Return
    <2>6. CASE StepAwait
      BY <2>1, <2>6 DEF StepAwait, Return
    <2>7. CASE StepUntil
      BY <2>1, <2>2, <2>7 DEF StepUntil, Return, Continue
    <2>8. CASE StepJump
      BY <2>1, <2>8 DEF StepJump
    <2>9. CASE StepBranch
      BY <2>1, <2>2, <2>9 DEF StepBranch
    <2>10. QED
      BY <1>7, <2>2, <2>3, <2>4, <2>5, <2>6, <2>7, <2>8, <2>9 DEF Loop
  <1>8. CASE Clock
    BY <1>8 DEF Clock
  <1>9. CASE UNCHANGED vars
    BY <1>9 DEF vars
  <1>10. QED
    BY <1>3, <1>4, <1>5, <1>6, <1>7, <1>8, <1>9 DEF Next

(* bw_program_tick may clear one blocking condition before it looks at the *)
(* next: no program is ever held by two of WAIT, MOVE, AWAIT and END.      *)
THEOREM ProgramsAreHeldByOne == Spec => []OneBlocker
PROOF
  <1>1. Init => HeldInv
    BY DEF Init, HeldInv, BlockersExclude, LoopIsUnheld
  <1>2. VMInv /\ HeldInv /\ [Next]_vars => HeldInv'
    BY HeldStep
  <1>3. VMInv /\ HeldInv => OneBlocker
    BY PairwiseIsOne DEF VMInv, HeldInv
  <1>4. QED
    BY <1>1, <1>2, <1>3, VMInvariant, PTL DEF Spec

-----------------------------------------------------------------------------
(* The upload *)

(* The session's fields are those of the upload its BEGIN announced.       *)
SessionInv ==
  active => /\ announced \in Uploads
            /\ owner = announced.owner /\ id = announced.id /\ lang = announced.lang
            /\ size = Len(announced.image) /\ crc = Crc(announced.image)
            /\ lang = "python" => size <= SourceLimit

UInv == UploadTypeOK /\ SessionInv /\ TerminatorFits

(* A sequence of bytes, seen as a function and as a sequence.              *)
LEMMA ImageFacts ==
  ASSUME NEW w \in Images
  PROVE  /\ Len(w) \in 1 .. Capacity
         /\ w \in [1 .. Len(w) -> Bytes]
<1>1. PICK n \in 1 .. Capacity : w \in [1 .. n -> Bytes]
  BY DEF Images
<1>2. Capacity \in Nat
  BY UploadsAssumption DEF Capacity
<1>3. Len(w) = n
  BY <1>1, <1>2
<1> QED BY <1>1, <1>3

(* A function from 1 .. n to bytes, n within the buffer, is an image.      *)
LEMMA ImageIntro ==
  ASSUME NEW n \in 1 .. Capacity, NEW w \in [1 .. n -> Bytes]
  PROVE  w \in Images /\ Len(w) = n
<1>1. Capacity \in Nat
  BY UploadsAssumption DEF Capacity
<1>2. Len(w) = n
  BY <1>1
<1> QED BY <1>2 DEF Images

(* What COMMIT reads from the buffer is an image of the announced length.  *)
LEMMA ReceivedFacts ==
  ASSUME UploadTypeOK, SessionInv, active
  PROVE  /\ announced \in Uploads /\ announced.image \in Images
         /\ size = Len(announced.image) /\ crc = Crc(announced.image)
         /\ size \in 1 .. Capacity
         /\ Received \in Images /\ Len(Received) = size
<1>1. announced \in Uploads /\ size = Len(announced.image) /\ crc = Crc(announced.image)
  BY DEF SessionInv
<1>2. announced.image \in Images
  BY <1>1, UploadsAssumption
<1>3. size \in 1 .. Capacity
  BY <1>1, <1>2, ImageFacts
<1>4. Received \in [1 .. size -> Bytes]
  BY <1>3, UploadsAssumption DEF Received, UploadTypeOK, Capacity
<1>5. Received \in Images /\ Len(Received) = size
  BY <1>3, <1>4, ImageIntro
<1> QED BY <1>1, <1>2, <1>3, <1>5

(* A payload is a non-empty string of bytes; its length is its domain's.   *)
LEMMA PayloadFacts ==
  ASSUME NEW n \in Nat, NEW d \in [1 .. n -> Bytes]
  PROVE  Len(d) = n
OBVIOUS

(* What an accepted chunk does to the session.                             *)
LEMMA ChunkStep ==
  ASSUME UInv, NEW o, NEW i, NEW offset \in Nat, NEW n \in Nat,
         NEW data \in [1 .. n -> Bytes], Chunk(o, i, offset, data)
  PROVE  /\ UInv'
         /\ active /\ active' /\ owner = o /\ id = i /\ UNCHANGED <<announced, program>>
         /\ \A k \in 1 .. received : buffer'[k] = buffer[k]
         /\ \A k \in received + 1 .. received' :
              k - offset \in 1 .. n /\ buffer'[k] = data[k - offset]
<1>1. Len(data) = n
  BY PayloadFacts
<1>2. Capacity \in Nat /\ Expiry \in Nat /\ 0 \in 0 .. Expiry
  BY UploadsAssumption DEF Capacity
<1>3. /\ active /\ owner = o /\ id = i /\ offset + n <= size
      /\ UNCHANGED <<active, owner, id, lang, size, crc, announced, program, running>>
      /\ idle' = 0
      /\ AppendBytes(offset, data) \/ Retry(offset, data)
  BY <1>1 DEF Chunk, Addressed, Live
<1>4. CASE AppendBytes(offset, data)
  <2>1. /\ offset = received /\ received' = offset + n
        /\ buffer' = [k \in 1 .. Capacity |->
                        IF k \in offset + 1 .. offset + n
                        THEN data[k - offset] ELSE buffer[k]]
    BY <1>1, <1>4 DEF AppendBytes
  <2>a. active' \in BOOLEAN /\ running' \in BOOLEAN /\ idle' \in 0 .. Expiry
    BY <1>2, <1>3 DEF UInv, UploadTypeOK
  <2>b. size' \in 0 .. Capacity /\ received' \in 0 .. size'
    BY <1>2, <1>3, <2>1 DEF UInv, UploadTypeOK
  <2>c. buffer' \in [1 .. Capacity -> Bytes]
    BY <1>2, <1>3, <2>1 DEF UInv, UploadTypeOK
  <2>2. UploadTypeOK'
    BY <2>a, <2>b, <2>c DEF UploadTypeOK
  <2>3. SessionInv' /\ TerminatorFits'
    BY <1>3 DEF UInv, SessionInv, TerminatorFits
  <2>4. \A k \in 1 .. received : buffer'[k] = buffer[k]
    BY <1>2, <2>1 DEF UInv, UploadTypeOK
  <2>5. \A k \in received + 1 .. received' :
          k - offset \in 1 .. n /\ buffer'[k] = data[k - offset]
    BY <1>2, <1>3, <2>1 DEF UInv, UploadTypeOK
  <2> QED BY <1>3, <2>2, <2>3, <2>4, <2>5 DEF UInv
<1>5. CASE Retry(offset, data)
  <2>1. UNCHANGED <<buffer, received>>
    BY <1>5 DEF Retry
  <2>a. active' \in BOOLEAN /\ running' \in BOOLEAN /\ idle' \in 0 .. Expiry
    BY <1>2, <1>3 DEF UInv, UploadTypeOK
  <2>2. UploadTypeOK'
    BY <2>a, <1>3, <2>1 DEF UInv, UploadTypeOK
  <2>3. SessionInv' /\ TerminatorFits'
    BY <1>3 DEF UInv, SessionInv, TerminatorFits
  <2>4. received + 1 .. received' = {}
    BY <2>1, <1>2 DEF UInv, UploadTypeOK
  <2> QED BY <1>3, <2>1, <2>2, <2>3, <2>4 DEF UInv
<1> QED BY <1>3, <1>4, <1>5

(* All other requests and the passing of time keep the invariant.          *)
LEMMA ControlStep == UInv /\ Control => UInv'
<1> SUFFICES ASSUME UInv, Control PROVE UInv'
  OBVIOUS
<1>a. Capacity \in Nat /\ Expiry \in Nat /\ 0 \in 0 .. Expiry
  BY UploadsAssumption DEF Capacity
<1>1. CASE Refused \/ StopProgram \/ Pass
  <2>a. active' \in BOOLEAN /\ running' \in BOOLEAN
    BY <1>1 DEF UInv, UploadTypeOK, Refused, StopProgram, Pass, Live
  <2>b. idle' \in 0 .. Expiry
    BY <1>1, <1>a DEF UInv, UploadTypeOK, Refused, StopProgram, Pass
  <2>1. UploadTypeOK'
    BY <1>1, <2>a, <2>b DEF UInv, UploadTypeOK, Refused, StopProgram, Pass
  <2>2. SessionInv' /\ TerminatorFits'
    BY <1>1 DEF UInv, SessionInv, TerminatorFits, Refused, StopProgram, Pass, Live
  <2> QED BY <2>1, <2>2 DEF UInv
<1>2. ASSUME NEW u \in Uploads, Begin(u) PROVE UInv'
  <2>1. Len(u.image) \in 1 .. Capacity
    BY UploadsAssumption, ImageFacts
  <2>2. UploadTypeOK'
    BY <1>2, <1>a, <2>1 DEF Begin, UInv, UploadTypeOK
  <2>3. SessionInv' /\ TerminatorFits'
    BY <1>2 DEF Begin, SizeOK, UInv, SessionInv, TerminatorFits
  <2> QED BY <2>2, <2>3 DEF UInv
<1>3. ASSUME NEW u \in Uploads, Commit(u.owner, u.id) PROVE UInv'
  <2>1. active /\ UNCHANGED <<idle, owner, id, lang, size, crc, received, announced,
                              buffer, running>>
    BY <1>3 DEF Commit, Live
  <2>2. UploadTypeOK'
    BY <1>3, <2>1 DEF Commit, UInv, UploadTypeOK, Verified
  <2>3. SessionInv'
    BY <2>1 DEF UInv, SessionInv
  <2>4. CASE Verified /\ ~running
    <3>1. program' = [id |-> id, lang |-> lang, image |-> Received]
      BY <1>3, <2>4 DEF Commit
    <3>2. Len(Received) = size
      BY <2>1, ReceivedFacts DEF UInv
    <3>3. lang = "python" => Len(Received) <= SourceLimit
      BY <2>1, <3>2 DEF UInv, SessionInv
    <3>4. Len(Received) \in Nat
      BY <2>1, <3>2, <1>a DEF UInv, UploadTypeOK
    <3>5. TerminatorFits'
      BY <3>1, <3>3, <3>4, <1>a, UploadsAssumption DEF TerminatorFits
    <3> QED BY <2>2, <2>3, <3>5 DEF UInv
  <2>5. CASE ~(Verified /\ ~running)
    BY <1>3, <2>2, <2>3, <2>5 DEF Commit, UInv, TerminatorFits
  <2> QED BY <2>4, <2>5
<1>4. ASSUME NEW u \in Uploads, Abort(u.owner, u.id) \/ StartProgram(u.id) PROVE UInv'
  <2>1. UploadTypeOK'
    BY <1>4 DEF UInv, UploadTypeOK, Abort, StartProgram
  <2>2. SessionInv' /\ TerminatorFits'
    BY <1>4 DEF UInv, SessionInv, TerminatorFits, Abort, StartProgram
  <2> QED BY <2>1, <2>2 DEF UInv
<1> QED BY <1>1, <1>2, <1>3, <1>4 DEF Control

(* A payload is a sequence of bytes.                                       *)
LEMMA ImageTypes == \A d \in Payloads : \E n \in Nat : d \in [1 .. n -> Bytes]
BY UploadsAssumption DEF Payloads

(* The invariant holds when the service comes up.                          *)
LEMMA InitHolds == UploadInit => UInv
<1> SUFFICES ASSUME UploadInit PROVE UInv
  OBVIOUS
<1>1. Capacity \in Nat /\ 0 \in 0 .. Expiry /\ 0 \in Bytes
  BY UploadsAssumption DEF Capacity
<1>2. active \in BOOLEAN /\ running \in BOOLEAN /\ idle \in 0 .. Expiry
  BY <1>1 DEF UploadInit
<1>3. /\ size \in 0 .. Capacity /\ received \in 0 .. size
      /\ buffer \in [1 .. Capacity -> Bytes]
  BY <1>1 DEF UploadInit
<1> QED BY <1>2, <1>3 DEF UploadInit, UInv, UploadTypeOK, SessionInv, TerminatorFits

(* Every request keeps the invariant.                                      *)
LEMMA UploadStep == UInv /\ [Control \/ AnyChunk]_uploadVars => UInv'
<1> SUFFICES ASSUME UInv, [Control \/ AnyChunk]_uploadVars PROVE UInv'
  OBVIOUS
<1>1. CASE Control
  BY <1>1, ControlStep
<1>2. CASE AnyChunk
  <2>1. PICK u \in Uploads, offset \in 0 .. Capacity, data \in Payloads :
          Chunk(u.owner, u.id, offset, data)
    BY <1>2 DEF AnyChunk
  <2>2. PICK n \in Nat : data \in [1 .. n -> Bytes]
    BY ImageTypes
  <2>3. offset \in Nat
    BY UploadsAssumption DEF Capacity
  <2> QED BY <2>1, <2>2, <2>3, ChunkStep
<1>3. CASE UNCHANGED uploadVars
  BY <1>3 DEF uploadVars, sessionVars, UInv, UploadTypeOK, SessionInv, TerminatorFits
<1> QED BY <1>1, <1>2, <1>3

(* The announced upload describes the session in every reachable state.    *)
THEOREM UploadInvariant == UploadSpec => []UInv
BY InitHolds, UploadStep, PTL DEF UploadSpec

(* Type correctness: received never exceeds the announced size, nor the    *)
(* size the buffer (upload.c:38, upload.c:46).                             *)
THEOREM UploadTypeCorrect == UploadSpec => []UploadTypeOK
<1>1. UInv => UploadTypeOK
  BY DEF UInv
<1> QED BY <1>1, UploadInvariant, PTL

(* The terminator COMMIT writes behind a Python source is inside p->source *)
(* (upload.c:60).                                                          *)
THEOREM SourceTerminatorFits == UploadSpec => []TerminatorFits
<1>1. UInv => TerminatorFits
  BY DEF UInv
<1> QED BY <1>1, UploadInvariant, PTL

(***************************************************************************)
(* The upload implements Staging                                           *)
(***************************************************************************)
Stage == IF Live THEN announced ELSE None

(* A step that keeps the committed program and the mapped session, or ends *)
(* the session.                                                            *)
LEMMA StutterOrDrop ==
  ASSUME UNCHANGED program, Stage' = Stage \/ Stage' = None
  PROVE  [Abstract!Next]_(Abstract!vars)
BY DEF Stage, Abstract!Next, Abstract!Drop, Abstract!vars

(* Every request is a step of Staging or a stutter of it.                  *)
LEMMA StagingStep == UInv /\ [Control \/ AnyChunk]_uploadVars => [Abstract!Next]_(Abstract!vars)
<1> SUFFICES ASSUME UInv, [Control \/ AnyChunk]_uploadVars
             PROVE  [Abstract!Next]_(Abstract!vars)
  OBVIOUS
<1>a. Expiry \in Nat /\ idle \in Nat /\ 0 < Expiry
  BY UploadsAssumption DEF UInv, UploadTypeOK
<1>1. CASE Refused \/ StopProgram \/ Pass
  <2>1. UNCHANGED <<program, announced>>
    BY <1>1 DEF Refused, StopProgram, Pass
  <2>2. Live' => Live
    BY <1>1, <1>a DEF Refused, StopProgram, Pass, Live
  <2> QED BY <2>1, <2>2, StutterOrDrop DEF Stage
<1>2. ASSUME NEW u \in Uploads, Begin(u) PROVE [Abstract!Next]_(Abstract!vars)
  <2>1. ~Live /\ active' /\ idle' = 0 /\ announced' = u /\ UNCHANGED program
    BY <1>2 DEF Begin
  <2>2. Live'
    BY <2>1, <1>a DEF Live
  <2>3. Abstract!Open(u)
    BY <2>1, <2>2 DEF Abstract!Open
  <2> QED BY <2>3 DEF Abstract!Next
<1>3. ASSUME NEW u \in Uploads, Commit(u.owner, u.id) PROVE [Abstract!Next]_(Abstract!vars)
  <2>1. Live /\ active /\ UNCHANGED <<announced, idle>>
    BY <1>3 DEF Commit, Live
  <2>2. CASE Verified /\ ~running
    <3>1. /\ program' = [id |-> id, lang |-> lang, image |-> Received]
          /\ active' = FALSE
      BY <1>3, <2>2 DEF Commit
    <3>2. /\ Received \in Images /\ Len(Received) = Len(announced.image)
          /\ Crc(Received) = Crc(announced.image)
      BY <2>1, <2>2, ReceivedFacts DEF Verified, UInv
    <3>3. announced \in Uploads /\ announced.id = id /\ announced.lang = lang
      BY <2>1 DEF UInv, SessionInv
    <3>4. announced # None
      BY <3>3, UploadsAssumption
    <3>5. Abstract!Install(Received)
      BY <2>1, <3>1, <3>2, <3>3, <3>4 DEF Abstract!Install, Live
    <3> QED BY <3>2, <3>5 DEF Abstract!Next
  <2>3. CASE ~(Verified /\ ~running)
    <3>1. UNCHANGED program
      BY <1>3, <2>3 DEF Commit
    <3>2. Stage' = Stage \/ Stage' = None
      BY <2>1 DEF Stage, Live
    <3> QED BY <3>1, <3>2, StutterOrDrop
  <2> QED BY <2>2, <2>3
<1>4. ASSUME NEW u \in Uploads, Abort(u.owner, u.id) \/ StartProgram(u.id)
      PROVE  [Abstract!Next]_(Abstract!vars)
  <2>1. UNCHANGED program /\ ~Live'
    BY <1>4 DEF Abort, StartProgram, Live
  <2> QED BY <2>1, StutterOrDrop DEF Stage
<1>5. CASE AnyChunk
  <2>1. PICK u \in Uploads, offset \in 0 .. Capacity, data \in Payloads :
          Chunk(u.owner, u.id, offset, data)
    BY <1>5 DEF AnyChunk
  <2>2. Live /\ active' = active /\ idle' = 0 /\ UNCHANGED <<announced, program>>
    BY <2>1 DEF Chunk, Addressed
  <2>3. Live'
    BY <2>2, <1>a DEF Live
  <2> QED BY <2>2, <2>3, StutterOrDrop DEF Stage
<1>6. CASE UNCHANGED uploadVars
  <2>1. UNCHANGED <<program, announced, active, idle>>
    BY <1>6 DEF uploadVars, sessionVars
  <2> QED BY <2>1, StutterOrDrop DEF Stage, Live
<1> QED BY <1>1, <1>2, <1>3, <1>4, <1>5, <1>6 DEF Control

(* Whatever the payloads, the committed program is only ever replaced in   *)
(* one step, by an image of the length and checksum that the open          *)
(* session's BEGIN announced (upload.c:54-73).                             *)
THEOREM UploadImplementsStaging == UploadSpec => Promise
<1>1. UploadInit => Abstract!Init
  BY DEF UploadInit, Abstract!Init, Live
<1>2. UInv /\ [Control \/ AnyChunk]_uploadVars => [Abstract!Next]_(Abstract!vars)
  BY StagingStep
<1> QED BY <1>1, <1>2, UploadInvariant, PTL DEF UploadSpec, Promise, Abstract!Spec

(***************************************************************************)
(* Acknowledged bytes and honest clients                                   *)
(***************************************************************************)
LEMMA StableStep ==
  ASSUME UInv, [Control \/ AnyChunk]_uploadVars, active, active', received' # 0
  PROVE  \A k \in 1 .. received : buffer'[k] = buffer[k]
<1>1. CASE Control
  BY <1>1 DEF Control, Refused, StopProgram, Pass, Begin, Commit, Abort, StartProgram
<1>2. CASE AnyChunk
  <2>1. PICK u \in Uploads, offset \in 0 .. Capacity, data \in Payloads :
          Chunk(u.owner, u.id, offset, data)
    BY <1>2 DEF AnyChunk
  <2>2. PICK n \in Nat : data \in [1 .. n -> Bytes]
    BY ImageTypes
  <2>3. offset \in Nat
    BY UploadsAssumption DEF Capacity
  <2> QED BY <2>1, <2>2, <2>3, ChunkStep
<1>3. CASE UNCHANGED uploadVars
  BY <1>3 DEF uploadVars
<1> QED BY <1>1, <1>2, <1>3

(* An acknowledged byte is never overwritten while its session is open: a  *)
(* conflicting retry is refused (upload.c:47-51).                          *)
THEOREM AcknowledgedBytesAreStable == UploadSpec => AcknowledgedStable
<1>1. UInv /\ [Control \/ AnyChunk]_uploadVars =>
        [active /\ active' /\ received' # 0 =>
           \A k \in 1 .. received : buffer'[k] = buffer[k]]_uploadVars
  BY StableStep
<1> QED BY <1>1, UploadInvariant, PTL DEF UploadSpec, AcknowledgedStable

(* Honest chunks, lost, repeated or reordered, extend the prefix.          *)
LEMMA PrefixStep ==
  UInv /\ ReceivedIsPrefix /\ [Control \/ OwnChunk]_uploadVars => UInv' /\ ReceivedIsPrefix'
<1> SUFFICES ASSUME UInv, ReceivedIsPrefix, [Control \/ OwnChunk]_uploadVars
             PROVE  UInv' /\ ReceivedIsPrefix'
  OBVIOUS
<1>1. CASE Control
  <2>1. UInv'
    BY <1>1, ControlStep
  <2>2. ASSUME NEW u \in Uploads, Begin(u) PROVE ReceivedIsPrefix'
    <3>1. received' = 0
      BY <2>2 DEF Begin
    <3>2. 1 .. received' = {}
      BY <3>1
    <3> QED BY <3>2 DEF ReceivedIsPrefix
  <2>3. CASE \A u \in Uploads : ~Begin(u)
    <3>1. /\ UNCHANGED <<buffer, received, announced>> /\ (active' => active)
      BY <1>1, <2>3 DEF Control, Refused, StopProgram, Pass, Commit, Abort, StartProgram, Live,
         UInv, UploadTypeOK
    <3> QED BY <2>1, <3>1 DEF ReceivedIsPrefix
  <2> QED BY <2>1, <2>2, <2>3
<1>2. CASE OwnChunk
  <2>1. PICK u \in Uploads, offset \in 0 .. Capacity, n \in 1 .. ChunkLimit :
          /\ offset + n <= Len(u.image)
          /\ Chunk(u.owner, u.id, offset, [k \in 1 .. n |-> u.image[offset + k]])
    BY <1>2 DEF OwnChunk
  <2> DEFINE data == [k \in 1 .. n |-> u.image[offset + k]]
  <2>2. offset \in Nat /\ n \in Nat
    BY UploadsAssumption DEF Capacity
  <2>3. Len(u.image) \in Nat /\ u.image \in [1 .. Len(u.image) -> Bytes]
    BY UploadsAssumption, ImageFacts
  <2>4. data \in [1 .. n -> Bytes]
    <3>1. \A k \in 1 .. n : offset + k \in 1 .. Len(u.image)
      BY <2>1, <2>2, <2>3
    <3>2. \A k \in 1 .. n : u.image[offset + k] \in Bytes
      BY <2>3, <3>1
    <3> QED BY <3>2
  <2>5. /\ UInv'
        /\ active /\ active' /\ owner = u.owner /\ id = u.id /\ UNCHANGED announced
        /\ \A k \in 1 .. received : buffer'[k] = buffer[k]
        /\ \A k \in received + 1 .. received' :
             k - offset \in 1 .. n /\ buffer'[k] = data[k - offset]
    <3>1. Chunk(u.owner, u.id, offset, data)
      BY <2>1
    <3> HIDE DEF data
    <3> QED BY <2>2, <2>4, <3>1, ChunkStep
  <2>6. FreshIds => announced = u
    BY <2>5 DEF UInv, SessionInv, FreshIds
  <2>7. received \in Nat /\ received' \in Nat
    BY <2>5, UploadsAssumption DEF UInv, UploadTypeOK, Capacity
  <2>8. ASSUME FreshIds, NEW k \in 1 .. received' PROVE buffer'[k] = u.image[k]
    <3>1. CASE k \in 1 .. received
      BY <3>1, <2>5, <2>6, <2>8 DEF ReceivedIsPrefix
    <3>2. CASE k \in received + 1 .. received'
      <4>1. k - offset \in 1 .. n /\ buffer'[k] = data[k - offset]
        BY <3>2, <2>5
      <4>2. data[k - offset] = u.image[offset + (k - offset)]
        BY <4>1
      <4>3. offset + (k - offset) = k
        BY <2>2, <2>7
      <4> QED BY <4>1, <4>2, <4>3
    <3> QED BY <3>1, <3>2, <2>7
  <2> QED BY <2>5, <2>6, <2>8 DEF ReceivedIsPrefix
<1>3. CASE UNCHANGED uploadVars
  BY <1>3 DEF uploadVars, sessionVars, UInv, UploadTypeOK, SessionInv, TerminatorFits, ReceivedIsPrefix
<1> QED BY <1>1, <1>2, <1>3

(* Lost, repeated, late and reordered chunks of honest clients never       *)
(* corrupt a session: what was received is a prefix of what was announced  *)
(* (upload.c:43-52).                                                       *)
THEOREM HonestUploadsArePrefixes == HonestSpec => []ReceivedIsPrefix
<1>1. UploadInit => UInv /\ ReceivedIsPrefix
  BY InitHolds DEF UploadInit, ReceivedIsPrefix
<1>2. UInv /\ ReceivedIsPrefix /\ [Control \/ OwnChunk]_uploadVars
        => (UInv /\ ReceivedIsPrefix)'
  BY PrefixStep
<1> QED BY <1>1, <1>2, PTL DEF HonestSpec

(* A complete session of an honest client holds the announced image.       *)
LEMMA CompleteIsAnnounced ==
  ASSUME UInv, ReceivedIsPrefix, FreshIds, active, received = size
  PROVE  Received = announced.image
<1>1. announced.image \in [1 .. size -> Bytes]
  BY ReceivedFacts, ImageFacts DEF UInv
<1>2. \A k \in 1 .. size : buffer[k] = announced.image[k]
  BY DEF ReceivedIsPrefix
<1> QED BY <1>1, <1>2 DEF Received

(* COMMIT of an honest session installs an announced image.                *)
LEMMA HonestCommitStep ==
  UInv /\ ReceivedIsPrefix /\ CommittedIsAnnounced /\ [Control \/ OwnChunk]_uploadVars
    => CommittedIsAnnounced'
<1> SUFFICES ASSUME UInv, ReceivedIsPrefix, CommittedIsAnnounced,
                    [Control \/ OwnChunk]_uploadVars
             PROVE  CommittedIsAnnounced'
  OBVIOUS
<1>1. CASE UNCHANGED program
  BY <1>1 DEF CommittedIsAnnounced, FreshIds
<1>2. CASE program' # program
  <2>1. PICK u \in Uploads : Commit(u.owner, u.id)
    BY <1>2 DEF Control, Refused, StopProgram, Pass, Begin, Abort, StartProgram, OwnChunk, Chunk,
       uploadVars, sessionVars
  <2>2. /\ active /\ received = size
        /\ program' = [id |-> id, lang |-> lang, image |-> Received]
    BY <1>2, <2>1 DEF Commit, Live
  <2>3. announced \in Uploads /\ announced.id = id /\ announced.lang = lang
    BY <2>2 DEF UInv, SessionInv
  <2>4. FreshIds => Received = announced.image
    BY <2>2, CompleteIsAnnounced
  <2> QED BY <2>2, <2>3, <2>4 DEF CommittedIsAnnounced, FreshIds
<1> QED BY <1>1, <1>2

(* Honest clients over an unreliable transport: what COMMIT installs is    *)
(* exactly what some client announced (upload.c:54-73), without relying on *)
(* the checksum.                                                           *)
THEOREM HonestCommitsAreExact == HonestSpec => []CommittedIsAnnounced
<1>1. UploadInit => UInv /\ ReceivedIsPrefix /\ CommittedIsAnnounced
  BY InitHolds DEF UploadInit, ReceivedIsPrefix, CommittedIsAnnounced
<1>2. UInv /\ ReceivedIsPrefix /\ CommittedIsAnnounced /\ [Control \/ OwnChunk]_uploadVars
        => (UInv /\ ReceivedIsPrefix /\ CommittedIsAnnounced)'
  BY PrefixStep, HonestCommitStep
<1> QED BY <1>1, <1>2, PTL DEF HonestSpec
=============================================================================
