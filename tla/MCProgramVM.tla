---------------------------- MODULE MCProgramVM ----------------------------
(***************************************************************************)
(* Model-checking instance of ProgramVM: every program of at most two rows *)
(* over an instruction set that holds each operation and rows that         *)
(* validation must reject (an unknown operation, a missing port, jumps and *)
(* a branch past the end), every program of three rows with the last one   *)
(* an end, a jump or a command, programs that can run for ever, and one    *)
(* longer program that uses all the blocking operations.                   *)
(***************************************************************************)
EXTENDS ProgramVM

R(op, a, b, c) == [op |-> op, a |-> a, b |-> b, c |-> c]

MCRows ==
  { R(OP_END, 0, 0, 0), R(OP_SPEED, 0, 100, 0), R(OP_WAIT, 1, 0, 0),
    R(OP_UNTIL, 257, 5, 0), R(OP_JUMP, 0, 0, 0), R(OP_JUMP, 3, 0, 0),
    R(OP_BRANCH, 3, 1, 0), R(OP_BRANCH, 4, 9, 3), R(OP_MOVE, 1, 90, 100),
    R(OP_ARM, 0, 90, 100), R(OP_AWAIT, 3, 0, 0), R(9, 0, 0, 0),
    R(OP_SPEED, 2, 100, 0) }

MCLong ==
  << R(OP_ARM, 0, 90, 100), R(OP_ARM, 1, 90, 100), R(OP_AWAIT, 3, 0, 0),
     R(OP_MOVE, 0, -90, 100), R(OP_BRANCH, 3, 1, 0), R(OP_WAIT, 0, 0, 0),
     R(OP_END, 0, 0, 0) >>

MCLastRows ==
  { R(OP_END, 0, 0, 0), R(OP_JUMP, 0, 0, 0), R(OP_SPEED, 0, 100, 0) }

(* Programs that can run for ever: a jump loop, a loop that drives a       *)
(* motor, a condition that is never met, a wait in a loop.                 *)
MCEndless ==
  { << R(OP_JUMP, 0, 0, 0), R(OP_END, 0, 0, 0) >>,
    << R(OP_SPEED, 0, 100, 0), R(OP_BRANCH, 3, 1, 0), R(OP_END, 0, 0, 0) >>,
    << R(OP_UNTIL, 3, 1, 0), R(OP_END, 0, 0, 0) >>,
    << R(OP_WAIT, 1, 0, 0), R(OP_JUMP, 0, 0, 0), R(OP_END, 0, 0, 0) >> }

MCCandidates ==
  UNION {[1 .. n -> MCRows] : n \in 1 .. 2}
    \cup {<<r, s, t>> : r \in MCRows, s \in MCRows, t \in MCLastRows}
    \cup MCEndless \cup {MCLong}
=============================================================================
