------------------------------ MODULE Staging ------------------------------
(***************************************************************************)
(* What the upload protocol promises whatever bytes arrive: one staging    *)
(* session at a time, and a committed program that is only ever replaced   *)
(* in one step, under the id and language the open session announced, by   *)
(* an image of the announced length and checksum.                          *)
(***************************************************************************)
EXTENDS Sequences

CONSTANTS
  Uploads, \* what clients announce: records owner, id, lang, image
  Images,  \* what can be received
  Crc(_),  \* the checksum
  None     \* no session, no program

VARIABLES
  session, \* the announced upload of the open session, or None
  program  \* the committed program: record id, lang, image, or None

vars == <<session, program>>

Init == session = None /\ program = None

Open(u) == session = None /\ session' = u /\ UNCHANGED program

(* Abort, expiry, or a failed verification.                                *)
Drop == session # None /\ session' = None /\ UNCHANGED program

Install(w) ==
  /\ session # None
  /\ Len(w) = Len(session.image) /\ Crc(w) = Crc(session.image)
  /\ program' = [id |-> session.id, lang |-> session.lang, image |-> w]
  /\ session' = None

Next ==
  \/ \E u \in Uploads : Open(u)
  \/ Drop
  \/ \E w \in Images : Install(w)

Spec == Init /\ [][Next]_vars
=============================================================================
