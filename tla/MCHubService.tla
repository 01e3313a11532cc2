---------------------------- MODULE MCHubService ----------------------------
(* HubService with a native and a Python program; the ids tell them apart. *)
EXTENDS HubService

MCPrograms == {[id |-> 1, lang |-> "native"], [id |-> 2, lang |-> "python"]}
=============================================================================
