------------------------------- MODULE Upload -------------------------------
(***************************************************************************)
(* The upload protocol of apps/hubprogram/upload.c, byte by byte: one      *)
(* staging buffer that is never cleared, chunks with offsets, idempotent   *)
(* retries, the checks of COMMIT and the expiry of an idle session.        *)
(*                                                                         *)
(* The transports lose, repeat, delay and reorder packets, so any packet   *)
(* of any client may arrive at any time.  In `UploadSpec' the payload of a *)
(* chunk is arbitrary.  In `HonestSpec' it is of the image that its sender *)
(* uploads under its id; only the delivery is unreliable.                  *)
(*                                                                         *)
(* A request with a malformed header, and every request that is refused,   *)
(* is the action Refused.  Packets of a VM that is active never get here   *)
(* (module HubService).                                                    *)
(***************************************************************************)
EXTENDS Naturals, Sequences

CONSTANTS
  Bytes,        \* values of a payload byte; 0 is NUL
  RowSize,      \* bytes of an instruction row (16)
  RowLimit,     \* BW_PROGRAM_LIMIT
  SourceLimit,  \* longest Python source (4095)
  ChunkLimit,   \* payload bytes of a packet (10)
  Expiry,       \* idle time that ends a session (30 s)
  Uploads,      \* records owner, id, lang, image that clients announce
  Crc(_),       \* bw_program_crc32
  ValidCode(_), \* bw_program_validate of the decoded rows
  None

Capacity == RowLimit * RowSize
Images == UNION {[1 .. n -> Bytes] : n \in 1 .. Capacity}

ASSUME UploadsAssumption ==
  /\ RowSize \in Nat /\ RowLimit \in Nat /\ SourceLimit \in Nat
  /\ SourceLimit < Capacity /\ 0 \in Bytes
  /\ ChunkLimit \in Nat /\ Expiry \in Nat \ {0}
  /\ \A u \in Uploads : /\ u.owner \in Nat \ {0} /\ u.id \in Nat \ {0}
                        /\ u.lang \in {"native", "python"}
                        /\ u.image \in Images
  /\ None \notin Uploads
  /\ \A u \in Uploads : None # [id |-> u.id, lang |-> u.lang, image |-> u.image]

VARIABLES
  active, idle,           \* u->active, now - u->activity (saturated)
  owner, id, lang,        \* u->owner, u->id, u->language
  size, crc, received,    \* u->size, u->crc, u->received
  buffer,                 \* u->buffer.bytes, index 1 is byte 0
  program, running,       \* the committed program; p->state is RUNNING
  announced               \* history: the upload whose BEGIN opened the session

sessionVars == <<active, idle, owner, id, lang, size, crc, received, announced>>
uploadVars == <<sessionVars, buffer, program, running>>

UploadInit ==
  /\ active = FALSE /\ idle = 0 /\ owner = 0 /\ id = 0 /\ lang = "native"
  /\ size = 0 /\ crc = 0 /\ received = 0
  /\ buffer \in {[k \in 1 .. Capacity |-> 0]}
  /\ program = None /\ running = FALSE /\ announced = None

(* The session after the expiry test at the head of bw_program_request.    *)
Live == active /\ idle < Expiry

Refused ==
  /\ active' = Live
  /\ UNCHANGED <<idle, owner, id, lang, size, crc, received, announced,
                 buffer, program, running>>

(* Mutant: a source may fill the whole buffer.                             *)
SizeOKOffByOne(u) ==
  IF u.lang = "python" THEN Len(u.image) <= SourceLimit + 1
                       ELSE Len(u.image) % RowSize = 0 /\ Len(u.image) <= Capacity

(* BEGIN's count check: 1 .. 4095 source bytes or 1 .. 256 rows.           *)
SizeOK(u) ==
  IF u.lang = "python" THEN Len(u.image) <= SourceLimit
                       ELSE Len(u.image) % RowSize = 0 /\ Len(u.image) <= Capacity

Begin(u) ==
  /\ ~running /\ ~Live /\ SizeOK(u)
  /\ active' = TRUE /\ idle' = 0 /\ announced' = u
  /\ owner' = u.owner /\ id' = u.id /\ lang' = u.lang
  /\ size' = Len(u.image) /\ crc' = Crc(u.image) /\ received' = 0
  /\ UNCHANGED <<buffer, program, running>>

(* Mutant: the end of the chunk is not compared with the announced size.   *)
AddressedUnbounded(o, i, offset, n) == Live /\ owner = o /\ id = i

(* Mutant: chunks of other transports reach the open session.              *)
AddressedAnyOwner(o, i, offset, n) == Live /\ id = i /\ offset + n <= size

Addressed(o, i, offset, n) ==
  Live /\ owner = o /\ id = i /\ offset + n <= size

(* Mutant: a chunk behind the received bytes overwrites them.              *)
AppendAnywhere(offset, data) ==
  /\ offset <= received
  /\ buffer' = [k \in 1 .. Capacity |->
                  IF k \in offset + 1 .. offset + Len(data)
                  THEN data[k - offset] ELSE buffer[k]]
  /\ received' = offset + Len(data)

(* The next bytes in order.                                                *)
AppendBytes(offset, data) ==
  /\ offset = received
  /\ buffer' = [k \in 1 .. Capacity |->
                  IF k \in offset + 1 .. offset + Len(data)
                  THEN data[k - offset] ELSE buffer[k]]
  /\ received' = offset + Len(data)

(* A repetition of bytes already received, accepted if identical.          *)
Retry(offset, data) ==
  /\ offset < received /\ offset + Len(data) <= received
  /\ \A k \in 1 .. Len(data) : buffer[offset + k] = data[k]
  /\ UNCHANGED <<buffer, received>>

Chunk(o, i, offset, data) ==
  /\ Addressed(o, i, offset, Len(data))
  /\ AppendBytes(offset, data) \/ Retry(offset, data)
  /\ idle' = 0
  /\ UNCHANGED <<active, owner, id, lang, size, crc, announced, program, running>>

Received == [k \in 1 .. size |-> buffer[k]]

(* Mutant: the checksum is not compared.                                   *)
VerifiedNoCrc ==
  IF lang = "python" THEN \A k \in 1 .. size : buffer[k] # 0
                     ELSE ValidCode(Received)

Verified ==
  /\ Crc(Received) = crc
  /\ IF lang = "python" THEN \A k \in 1 .. size : buffer[k] # 0
                        ELSE ValidCode(Received)

(* Mutant: COMMIT does not ask whether all bytes have arrived.             *)
CommitIncomplete(o, i) ==
  /\ Live /\ owner = o /\ id = i
  /\ active' = FALSE
  /\ program' = IF Verified /\ ~running
                THEN [id |-> id, lang |-> lang, image |-> Received]
                ELSE program
  /\ UNCHANGED <<idle, owner, id, lang, size, crc, received, announced, buffer, running>>

(* COMMIT of a complete session; a failed check ends the session.  That a  *)
(* program runs meanwhile is tested as well, with the session kept for     *)
(* Python and dropped for rows, but cannot happen.                         *)
Commit(o, i) ==
  /\ Live /\ owner = o /\ id = i /\ received = size
  /\ active' = (Verified /\ running /\ lang = "python")
  /\ program' = IF Verified /\ ~running
                THEN [id |-> id, lang |-> lang, image |-> Received]
                ELSE program
  /\ UNCHANGED <<idle, owner, id, lang, size, crc, received, announced, buffer, running>>

Abort(o, i) ==
  /\ Live /\ owner = o /\ id = i
  /\ active' = FALSE
  /\ UNCHANGED <<idle, owner, id, lang, size, crc, received, announced,
                 buffer, program, running>>

StartProgram(i) ==
  /\ ~Live /\ ~running /\ program # None /\ program.id = i
  /\ active' = FALSE /\ running' = TRUE
  /\ UNCHANGED <<idle, owner, id, lang, size, crc, received, announced,
                 buffer, program>>

(* STOP, or the program ends on the worker.                                *)
StopProgram ==
  /\ running /\ running' = FALSE
  /\ active' = Live
  /\ UNCHANGED <<idle, owner, id, lang, size, crc, received, announced,
                 buffer, program>>

Pass ==
  /\ active /\ idle < Expiry /\ idle' = idle + 1
  /\ UNCHANGED <<active, owner, id, lang, size, crc, received, announced,
                 buffer, program, running>>

Control ==
  \/ Refused \/ StopProgram \/ Pass
  \/ \E u \in Uploads :
       Begin(u) \/ Commit(u.owner, u.id) \/ Abort(u.owner, u.id) \/ StartProgram(u.id)

Payloads == UNION {[1 .. n -> Bytes] : n \in 1 .. ChunkLimit}

AnyChunk ==
  \E u \in Uploads, offset \in 0 .. Capacity, data \in Payloads :
    Chunk(u.owner, u.id, offset, data)

(* A chunk of client u's image, possibly late, repeated or out of order.   *)
OwnChunk ==
  \E u \in Uploads, offset \in 0 .. Capacity, n \in 1 .. ChunkLimit :
    /\ offset + n <= Len(u.image)
    /\ Chunk(u.owner, u.id, offset, [k \in 1 .. n |-> u.image[offset + k]])

UploadSpec == UploadInit /\ [][Control \/ AnyChunk]_uploadVars

HonestSpec == UploadInit /\ [][Control \/ OwnChunk]_uploadVars

(* Clients never upload two images under one id.                           *)
FreshIds == \A u, v \in Uploads : u.owner = v.owner /\ u.id = v.id => u = v

(***************************************************************************)
(* Properties                                                              *)
(***************************************************************************)
(* Session flags and counters keep their bounds: received bytes never      *)
(* exceed the announced size, nor the size the staging buffer.             *)
UploadTypeOK ==
  /\ active \in BOOLEAN /\ running \in BOOLEAN /\ idle \in 0 .. Expiry
  /\ size \in 0 .. Capacity /\ received \in 0 .. size
  /\ buffer \in [1 .. Capacity -> Bytes]

(* A committed Python source leaves room for the NUL that COMMIT writes    *)
(* behind it: p->source has as many bytes as the staging buffer.           *)
TerminatorFits ==
  program # None /\ program.lang = "python" => Len(program.image) < Capacity

(* Whatever payloads arrive, the committed program is only ever replaced   *)
(* as a whole, under the id and language that the open session's BEGIN     *)
(* announced and by an image of the announced length and checksum.         *)
Abstract == INSTANCE Staging WITH session <- IF Live THEN announced ELSE None

Promise == Abstract!Spec

(* With unreliable delivery only, the received bytes always are a prefix   *)
(* of the announced image: late chunks of an earlier session, chunks of    *)
(* another transport under the same id, repetitions and bytes left in the  *)
(* buffer never get in.  A complete upload therefore passes the CRC check. *)
ReceivedIsPrefix ==
  FreshIds /\ active => \A k \in 1 .. received : buffer[k] = announced.image[k]

(* With unreliable delivery only, the committed program is exactly one of  *)
(* the images that clients announced: no half-received, mixed or stale     *)
(* image gets through COMMIT, not even one whose checksum collides.        *)
CommittedIsAnnounced ==
  FreshIds /\ program # None =>
    \E u \in Uploads : program = [id |-> u.id, lang |-> u.lang, image |-> u.image]

(* Bytes that were acknowledged never change while their session lasts.    *)
AcknowledgedStable ==
  [][active /\ active' /\ received' # 0 =>
       \A k \in 1 .. received : buffer'[k] = buffer[k]]_uploadVars
=============================================================================
