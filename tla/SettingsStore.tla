--------------------------- MODULE SettingsStore ----------------------------
(***************************************************************************)
(* The settings of the Bluetooth host in the flash file system             *)
(* (zephyr_compat/src/settings.c): saving by a temporary file and a        *)
(* rename, deleting, and the load at the start of the transport, which     *)
(* hands every file to a registered handler and then commits.              *)
(*                                                                         *)
(* A step is one call of the file system or of a handler.  A value has     *)
(* Pieces pieces; what was not synchronised may be lost in a crash, a      *)
(* rename is atomic.  External: the file system, which may refuse a call,  *)
(* and the handlers of the Zephyr host.                                    *)
(***************************************************************************)
EXTENDS Integers, Sequences, SequencesExt

CONSTANTS Key,           \* records [dir, leaf] of the keys that are saved
          Value, None,
          Handler,       \* records [name, cprio, takes]: takes are the keys its h_set knows
          Pieces, MaxOps, MaxCrashes,
          Unreadable     \* whether the medium may refuse to be read

\* Whatever is saved is below the name of a handler, as the host registers one for everything of its own.
SettingsAssumption ==
    /\ None \notin Value /\ Pieces \in Nat \ {0} /\ {MaxOps, MaxCrashes} \subseteq Nat /\ Unreadable \in BOOLEAN
    /\ \A h \in Handler : h.cprio \in Int
    /\ \A k \in Key : \E h \in Handler : IsPrefix(h.name, k.dir)

VARIABLES
    file, tmp,           \* per key: content [v, n, sync], v = None when there is no file
    handlers,            \* the list of registered handlers
    save,                \* the save in progress: step, key, value, result
    load,                \* the load: step, names left, handlers left to commit
    loaded, committed,   \* what the handlers were given; who has committed
    acked,               \* per key the value of the last success
    ops, crashes

vars == <<file, tmp, handlers, save, load, loaded, committed, acked, ops, crashes>>

Empty == [v |-> None, n |-> 0, sync |-> 0]
Idle == [pc |-> "idle", k |-> CHOOSE k \in Key : TRUE, v |-> None, ok |-> TRUE]
NoLoad == [pc |-> "off", left |-> {}, hs |-> <<>>]

Init ==
    /\ file = [k \in Key |-> Empty] /\ tmp = [k \in Key |-> Empty] /\ handlers = <<>> /\ save = Idle /\ load = NoLoad
    /\ loaded = [k \in Key |-> None] /\ committed = <<>> /\ acked = [k \in Key |-> None] /\ ops = 0 /\ crashes = 0

Storage == UNCHANGED <<handlers, load, loaded, committed, crashes>>

-----------------------------------------------------------------------------
(* Handlers. *)

\* settings_register: in front of the first one with a greater number
Insert(hs, h) ==
    LET Place == {m \in 0..Len(hs) :
                     /\ \A i \in 1..m : hs[i].cprio <= h.cprio
                     /\ m < Len(hs) => hs[m + 1].cprio > h.cprio}
    IN  {InsertAt(hs, m + 1, h) : m \in Place}

\* the constructors run before the application, in the order of the link
Register(h) ==
    /\ load.pc = "off" /\ h \notin Range(handlers) /\ handlers' \in Insert(handlers, h)
    /\ UNCHANGED <<file, tmp, save, load, loaded, committed, acked, ops, crashes>>

\* settings_name_steq: whole components
Matches(h, name) == \/ IsPrefix(h.name, name.k.dir)
                    \/ ~name.tmp /\ h.name = Append(name.k.dir, name.k.leaf)

-----------------------------------------------------------------------------
(* Saving and deleting. *)

Ready == save.pc = "idle" /\ load.pc \in {"commit", "up"}

\* settings_save_one, the parents and the temporary file, each of which may fail
Open(k, v) ==
    /\ Ready /\ ops < MaxOps /\ ops' = ops + 1
    /\ \/ UNCHANGED <<tmp, save>>
       \/ tmp' = [tmp EXCEPT ![k] = [v |-> v, n |-> 0, sync |-> 0]] /\ save' = [pc |-> "write", k |-> k, v |-> v, ok |-> TRUE]
    /\ UNCHANGED <<file, acked>> /\ Storage

\* the loop over write: as many pieces as it likes, an interruption, or an error
Write ==
    /\ save.pc = "write"
    /\ \/ \E n \in (tmp[save.k].n + 1)..Pieces :
             tmp' = [tmp EXCEPT ![save.k].n = n] /\ save' = [save EXCEPT !.pc = IF n = Pieces THEN "sync" ELSE "write"]
       \/ UNCHANGED tmp /\ save' = [save EXCEPT !.pc = "close", !.ok = FALSE]
    /\ UNCHANGED <<file, acked, ops>> /\ Storage

\* fsync is left out
SyncNot ==
    /\ save.pc = "sync" /\ save' = [save EXCEPT !.pc = "close"] /\ UNCHANGED <<file, tmp, acked, ops>> /\ Storage

Sync ==
    /\ save.pc = "sync"
    /\ \/ tmp' = [tmp EXCEPT ![save.k].sync = tmp[save.k].n] /\ save' = [save EXCEPT !.pc = "close"]
       \/ UNCHANGED tmp /\ save' = [save EXCEPT !.pc = "close", !.ok = FALSE]
    /\ UNCHANGED <<file, acked, ops>> /\ Storage

Close ==
    /\ save.pc = "close"
    /\ \E ok \in BOOLEAN :
          LET good == save.ok /\ ok IN save' = [save EXCEPT !.pc = IF good THEN "rename" ELSE "unlink", !.ok = good]
    /\ UNCHANGED <<file, tmp, acked, ops>> /\ Storage

\* the value becomes visible and the call returns success, or it fails
Rename ==
    /\ save.pc = "rename"
    /\ \/ /\ file' = [file EXCEPT ![save.k] = tmp[save.k]] /\ tmp' = [tmp EXCEPT ![save.k] = Empty]
          /\ acked' = [acked EXCEPT ![save.k] = save.v] /\ save' = Idle
       \/ UNCHANGED <<file, tmp, acked>> /\ save' = [save EXCEPT !.pc = "unlink", !.ok = FALSE]
    /\ UNCHANGED ops /\ Storage

Unlink ==
    /\ save.pc = "unlink" /\ tmp' = [tmp EXCEPT ![save.k] = Empty] /\ save' = Idle /\ UNCHANGED <<file, acked, ops>> /\ Storage

\* settings_delete: a file that is not there is no error
Delete(k) ==
    /\ Ready /\ ops < MaxOps /\ ops' = ops + 1
    /\ \/ file' = [file EXCEPT ![k] = Empty] /\ acked' = [acked EXCEPT ![k] = None]
       \/ UNCHANGED <<file, acked>>
    /\ UNCHANGED <<tmp, save>> /\ Storage

-----------------------------------------------------------------------------
(* The load of btsensor_transport_start. *)

Names(t) == {[k |-> k, tmp |-> t] : k \in {x \in Key : IF t THEN tmp[x].v # None ELSE file[x].v # None}}

Start ==
    /\ load.pc = "off" /\ Range(handlers) = Handler
    /\ load' = [pc |-> "visit", left |-> Names(TRUE) \cup Names(FALSE), hs |-> handlers]
    /\ loaded' = [k \in Key |-> None] /\ committed' = <<>>
    /\ UNCHANGED <<file, tmp, handlers, save, acked, ops, crashes>>

\* dispatch_setting: the first handler in the list that matches; nothing when there is none
First(name) ==
    LET Fits == {i \in 1..Len(handlers) : Matches(handlers[i], name)}
    IN  {handlers[i] : i \in {j \in Fits : \A m \in Fits : j <= m}}

\* a handler's error is passed over
VisitOn(name) ==
    /\ load.pc = "visit" /\ name \in load.left
    /\ loaded' = IF \A h \in First(name) : ~name.tmp /\ name.k \in h.takes THEN [loaded EXCEPT ![name.k] = file[name.k].v] ELSE loaded
    /\ load' = [load EXCEPT !.left = @ \ {name}]
    /\ UNCHANGED <<file, tmp, handlers, save, committed, acked, ops, crashes>>

\* visit_directory and dispatch_setting: a file is opened and given to its handler; an error ends the load
Visit(name) ==
    /\ load.pc = "visit" /\ name \in load.left
    /\ \/ /\ \A h \in First(name) : ~name.tmp /\ name.k \in h.takes
          /\ loaded' = [loaded EXCEPT ![name.k] = file[name.k].v] /\ load' = [load EXCEPT !.left = @ \ {name}]
       \/ /\ \E h \in First(name) : name.tmp \/ name.k \notin h.takes
          /\ load' = [NoLoad EXCEPT !.pc = "failed"] /\ UNCHANGED loaded
       \/ Unreadable /\ load' = [NoLoad EXCEPT !.pc = "failed"] /\ UNCHANGED loaded     \* stat, open or read fails
    /\ UNCHANGED <<file, tmp, handlers, save, committed, acked, ops, crashes>>

\* settings_load_subtree: h_commit in the order of the list, once everything is loaded
Commit ==
    /\ \/ load.pc = "visit" /\ load.left = {} /\ load' = [load EXCEPT !.pc = "commit"] /\ UNCHANGED committed
       \/ /\ load.pc = "commit" /\ save.pc = "idle" /\ load.hs # <<>> /\ committed' = Append(committed, Head(load.hs))
          /\ load' = [load EXCEPT !.hs = Tail(@)]
       \/ load.pc = "commit" /\ save.pc = "idle" /\ load.hs = <<>> /\ load' = [load EXCEPT !.pc = "up"] /\ UNCHANGED committed
    /\ UNCHANGED <<file, tmp, handlers, save, loaded, acked, ops, crashes>>

\* the supply fails, or Bluetooth is stopped between two calls
Crash ==
    /\ load.pc # "off" /\ crashes < MaxCrashes /\ crashes' = crashes + 1 /\ save' = Idle /\ load' = NoLoad
    /\ \E f, t \in [Key -> 0..Pieces] :
          /\ \A k \in Key : f[k] \in file[k].sync..file[k].n /\ t[k] \in tmp[k].sync..tmp[k].n
          /\ file' = [k \in Key |-> [v |-> file[k].v, n |-> f[k], sync |-> f[k]]]
          /\ tmp' = [k \in Key |-> [v |-> tmp[k].v, n |-> t[k], sync |-> t[k]]]
    /\ UNCHANGED <<handlers, loaded, committed, acked, ops>>

Stop ==
    /\ load.pc \in {"up", "failed"} /\ save.pc = "idle" /\ load' = NoLoad
    /\ UNCHANGED <<file, tmp, handlers, save, loaded, committed, acked, ops, crashes>>

Next ==
    \/ \E h \in Handler : Register(h)
    \/ \E k \in Key : Delete(k) \/ (\E v \in Value : Open(k, v))
    \/ Write \/ Sync \/ Close \/ Rename \/ Unlink
    \/ Start \/ (\E name \in [k : Key, tmp : BOOLEAN] : Visit(name)) \/ Commit
    \/ Crash \/ Stop

Spec == Init /\ [][Next]_vars

-----------------------------------------------------------------------------
Content == [v : Value \cup {None}, n : 0..Pieces, sync : 0..Pieces]

TypeOK ==
    /\ file \in [Key -> Content] /\ tmp \in [Key -> Content]
    /\ save.pc \in {"idle", "write", "sync", "close", "rename", "unlink"}
    /\ load.pc \in {"off", "visit", "commit", "up", "failed"}
    /\ \A k \in Key : file[k].sync <= file[k].n /\ tmp[k].sync <= tmp[k].n
    /\ Range(handlers) \subseteq Handler /\ ops \in 0..MaxOps /\ crashes \in 0..MaxCrashes

\* The file of a key is the whole value of the last save that succeeded, and on the medium: a
\* save that failed or was cut off by a crash has changed nothing.
KeyWhole == \A k \in Key : file[k].v = acked[k] /\ (acked[k] # None => file[k].n = Pieces /\ file[k].sync = Pieces)

\* As long as there was no crash, no temporary file outlives its save.
NoLitter == save.pc = "idle" /\ crashes = 0 => \A k \in Key : tmp[k].v = None

\* A load that ends with success has given every stored key to its handler with the value of the
\* last save that succeeded, and has met no half-written file.
LoadIsTrue == load.pc = "visit" /\ load'.pc = "commit" => loaded = acked /\ \A k \in Key : tmp[k].v = None

\* The commits come after the load, in the order of their priorities, whatever the order in
\* which the constructors ran.
CommitsInOrder ==
    /\ \A i, j \in 1..Len(committed) : i < j => committed[i].cprio <= committed[j].cprio
    /\ load.pc \in {"visit", "failed"} => committed = <<>>

\* On a medium that can be read, Bluetooth starts: what was saved can be loaded again.
LoadSucceeds == load.pc # "failed"
=============================================================================
