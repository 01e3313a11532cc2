--------------------------- MODULE ProgramStorage ---------------------------
(***************************************************************************)
(* SAVE and LOAD of apps/hubprogram/storage.c, one file operation at a     *)
(* time, with errors of every operation and loss of power between any two. *)
(* The service mutex keeps other requests out while SAVE or LOAD runs.     *)
(*                                                                         *)
(* A file is a sequence of blocks.  The record of program p is the         *)
(* sequence Record(p); the header and the CRC make every other content     *)
(* invalid.  The file system is external: what is assumed of it is that    *)
(* rename replaces the target atomically and that synchronised data        *)
(* survive; of data not yet synchronised any prefix may survive.           *)
(***************************************************************************)
EXTENDS Naturals, Sequences

CONSTANTS
  Programs,  \* programs that can be committed
  Size(_),   \* blocks of a program's record
  Id(_),     \* the id a program was committed under
  None,
  Absent     \* content of a file that does not exist

SizeAssumption == \A p \in Programs : Size(p) \in Nat \ {0}

Record(p) == [k \in 1 .. Size(p) |-> <<p, k>>]

VARIABLES
  memory,  \* the committed program of g_program, None when EMPTY
  step,    \* the next operation of bw_program_save
  file,    \* content of the slot file, or Absent
  tmp,     \* content of the temporary file, or Absent
  pos,     \* blocks written through the open handle
  synced,  \* tmp survives a loss of power
  result   \* outcome of the last SAVE since power-up or the last change

vars == <<memory, step, file, tmp, pos, synced, result>>

Steps == {"idle", "open", "write", "fsync", "close", "rename", "unlink"}

Init ==
  /\ memory = None /\ step = "idle" /\ result = "none"
  /\ file \in {Absent} \cup {Record(p) : p \in Programs}
  /\ tmp = Absent /\ pos = 0 /\ synced = TRUE

(* An upload replaces the program (module Upload).                         *)
Commit(p) ==
  /\ step = "idle" /\ memory' = p /\ result' = "none"
  /\ UNCHANGED <<step, file, tmp, pos, synced>>

(* SAVE with the id of the committed program; another id is refused.       *)
SaveRequest(id) ==
  /\ step = "idle" /\ memory # None /\ Id(memory) = id
  /\ step' = "open" /\ result' = "none"
  /\ UNCHANGED <<memory, file, tmp, pos, synced>>

(* Mutant: the temporary file is opened without O_TRUNC.                   *)
OpenTmpNoTrunc ==
  /\ step = "open"
  /\ tmp' = IF tmp = Absent THEN <<>> ELSE tmp
  /\ pos' = 0 /\ synced' = FALSE /\ step' = "write"
  /\ UNCHANGED <<memory, file, result>>

OpenTmp ==
  /\ step = "open"
  /\ tmp' = <<>> /\ pos' = 0 /\ synced' = FALSE /\ step' = "write"
  /\ UNCHANGED <<memory, file, result>>

(* transfer(): the record is written in pieces of any size.                *)
Write(n) ==
  /\ step = "write" /\ n \in pos + 1 .. Size(memory)
  /\ tmp' = SubSeq(Record(memory), 1, n) \o SubSeq(tmp, n + 1, Len(tmp))
  /\ pos' = n
  /\ step' = IF n = Size(memory) THEN "fsync" ELSE "write"
  /\ UNCHANGED <<memory, file, synced, result>>

Fsync ==
  /\ step = "fsync" /\ synced' = TRUE /\ step' = "close"
  /\ UNCHANGED <<memory, file, tmp, pos, result>>

Close ==
  /\ step = "close" /\ step' = "rename"
  /\ UNCHANGED <<memory, file, tmp, pos, synced, result>>

Rename ==
  /\ step = "rename"
  /\ file' = tmp /\ tmp' = Absent /\ synced' = TRUE
  /\ step' = "idle" /\ result' = "ok"
  /\ UNCHANGED <<memory, pos>>

(* Mutant: an error of write or fsync does not keep rename from running.   *)
FailIgnored ==
  /\ step \in {"open", "write", "fsync", "close", "rename"}
  /\ step' = "rename"
  /\ UNCHANGED <<memory, file, tmp, pos, synced, result>>

(* Any operation may fail; after a failure the handle is closed and only   *)
(* unlink follows.                                                         *)
Fail ==
  /\ step \in {"open", "write", "fsync", "close", "rename"}
  /\ step' = "unlink"
  /\ UNCHANGED <<memory, file, tmp, pos, synced, result>>

(* The result of unlink is not examined.                                   *)
Unlink ==
  /\ step = "unlink" /\ step' = "idle" /\ result' = "error"
  /\ \/ tmp' = Absent /\ synced' = TRUE
     \/ UNCHANGED <<tmp, synced>>
  /\ UNCHANGED <<memory, file, pos>>

(* The program a complete and valid slot file holds under this id.         *)
Restored(id) == {p \in Programs : Id(p) = id /\ file = Record(p)}

(* LOAD: bw_program_restore only reads; it fails if Restored is empty.     *)
LoadRequest(id) ==
  /\ step = "idle"
  /\ memory' \in Restored(id) /\ result' = "none"
  /\ UNCHANGED <<step, file, tmp, pos, synced>>

(* Power is lost and comes back.                                           *)
PowerLoss ==
  /\ memory' = None /\ step' = "idle" /\ result' = "none"
  /\ tmp' \in IF synced \/ tmp = Absent THEN {tmp}
              ELSE {SubSeq(tmp, 1, n) : n \in 0 .. Len(tmp)} \cup {Absent}
  /\ synced' = TRUE /\ pos' = 0
  /\ UNCHANGED file

Ids == {Id(p) : p \in Programs}

Next ==
  \/ \E p \in Programs : Commit(p)
  \/ \E id \in Ids : SaveRequest(id) \/ LoadRequest(id)
  \/ OpenTmp \/ Fsync \/ Close \/ Rename \/ Fail \/ Unlink
  \/ (step = "write" /\ \E n \in 1 .. Size(memory) : Write(n))
  \/ PowerLoss

Spec == Init /\ [][Next]_vars

(***************************************************************************)
(* Properties                                                              *)
(***************************************************************************)
(* What ProgramSlot calls the slot, in terms of the file.                  *)
SlotContent ==
  IF \E p \in Programs : file = Record(p)
  THEN CHOOSE p \in Programs : file = Record(p)
  ELSE IF file = Absent THEN None ELSE file

Abstract == INSTANCE ProgramSlot WITH slot <- SlotContent

(* A step as the slot sees it.                                             *)
SlotStep == [Abstract!Next]_<<memory, SlotContent>>

(* Whatever fails and whenever power is lost, the slot behaves like a      *)
(* single cell that holds one complete program: a torn, mixed or           *)
(* half-written record is never in it and LOAD never returns one.          *)
SlotPromise == Abstract!Spec

(* SAVE reports success only when the program in memory is in the slot,    *)
(* and that stays so until memory changes.                                 *)
ReportIsTrue == result = "ok" => file = Record(memory)
=============================================================================
