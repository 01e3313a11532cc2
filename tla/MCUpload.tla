------------------------------ MODULE MCUpload ------------------------------
(***************************************************************************)
(* Two transports that use the same ids; images of one to four one-bit     *)
(* bytes; rows of two bytes, the last of which must be zero (END).         *)
(***************************************************************************)
EXTENDS Upload, Bitwise, SequencesExt

U(o, i, l, w) == [owner |-> o, id |-> i, lang |-> l, image |-> w]

MCUploads ==
  { U(1, 1, "native", <<1, 0, 0, 0>>), U(2, 1, "python", <<1, 1, 1>>),
    U(1, 2, "native", <<0, 1>>),       U(2, 2, "python", <<1, 0>>),
    U(1, 3, "python", <<1, 1, 1, 1>>) }

(* bw_program_crc32 with one bit per byte and a one-bit register, the      *)
(* polynomial x + 1: small enough for images to collide.                   *)
CrcStep(c, b) ==
  LET x == c ^^ b IN IF x % 2 = 1 THEN (x \div 2) ^^ 1 ELSE x \div 2

MCCrc(w) == 1 - FoldLeft(CrcStep, 1, w)

MCValidCode(w) == w[Len(w)] = 0 /\ w[Len(w) - 1] = 0
=============================================================================
