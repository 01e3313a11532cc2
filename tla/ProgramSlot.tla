---------------------------- MODULE ProgramSlot ----------------------------
(***************************************************************************)
(* What SAVE and LOAD promise: the flash slot holds no program or one      *)
(* complete program; SAVE replaces it in one step or not at all, whatever  *)
(* fails and whenever power is lost; LOAD yields exactly its content.      *)
(***************************************************************************)
CONSTANTS Programs, None

VARIABLES
  memory, \* the committed program in RAM
  slot    \* the saved program

Init == memory = None /\ slot \in Programs \cup {None}

Commit(p) == memory' = p /\ UNCHANGED slot

Save == memory # None /\ slot' = memory /\ UNCHANGED memory

Load == slot # None /\ memory' = slot /\ UNCHANGED slot

PowerLoss == memory' = None /\ UNCHANGED slot

Next == (\E p \in Programs : Commit(p)) \/ Save \/ Load \/ PowerLoss

Spec == Init /\ [][Next]_<<memory, slot>>
=============================================================================
