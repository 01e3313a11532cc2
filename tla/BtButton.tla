------------------------------ MODULE BtButton ------------------------------
(***************************************************************************)
(* The Bluetooth button as a character device (stm32_btbutton.c): a tick   *)
(* every 50 ms samples the resistor ladder and counts samples that agree;  *)
(* readers poll, are notified of a transition and read the level.          *)
(*                                                                         *)
(* A step is one critical section of the device's lock.  External: the     *)
(* sample, any level at any tick, and the readers' loop of poll and read.  *)
(***************************************************************************)
EXTENDS Integers, FiniteSets

CONSTANTS Reader, None,
          BTBTN_DEBOUNCE_SAMPLES, BTBTN_NPOLLWAITERS,
          MaxChanges     \* bound on the transitions

BtButtonAssumption == None \notin Reader /\ {BTBTN_DEBOUNCE_SAMPLES, BTBTN_NPOLLWAITERS} \subseteq Nat \ {0} /\ MaxChanges \in Nat

VARIABLES
    pressed, pending, pending_count, fresh, fds, openrefs,   \* btbtn_dev_s
    run,                 \* ticks in a row whose sample was not the level that is reported
    changes,             \* transitions so far
    reader               \* per reader: step, slot, POLLIN, transitions it has seen

vars == <<pressed, pending, pending_count, fresh, fds, openrefs, run, changes, reader>>

Slot == 1..BTBTN_NPOLLWAITERS
Closed == [pc |-> "closed", slot |-> 0, in |-> FALSE, seen |-> 0]

Init ==
    /\ pressed = FALSE /\ pending = FALSE /\ pending_count = 0 /\ fresh = FALSE /\ fds = [i \in Slot |-> None] /\ openrefs = 0
    /\ run = 0 /\ changes = 0 /\ reader = [r \in Reader |-> Closed]

-----------------------------------------------------------------------------
(* The tick. *)

\* poll_notify for the slots that are taken
Notified == [r \in Reader |-> IF \E i \in Slot : fds[i] = r THEN [reader[r] EXCEPT !.in = TRUE] ELSE reader[r]]

\* btbtn_sample_adc (an error of the decoder is a released button) and btbtn_work_handler
Tick(sample) ==
    /\ (sample # pressed => changes < MaxChanges) /\ UNCHANGED <<fds, openrefs>>
    /\ \/ sample = pressed /\ pending' = sample /\ pending_count' = 0 /\ run' = 0 /\ UNCHANGED <<pressed, fresh, changes, reader>>
       \/ sample # pressed /\ sample # pending /\ pending' = sample /\ pending_count' = 1 /\ run' = run + 1
          /\ UNCHANGED <<pressed, fresh, changes, reader>>
       \/ /\ sample # pressed /\ sample = pending /\ UNCHANGED pending
          /\ IF pending_count + 1 < BTBTN_DEBOUNCE_SAMPLES
             THEN pending_count' = pending_count + 1 /\ run' = run + 1 /\ UNCHANGED <<pressed, fresh, changes, reader>>
             ELSE /\ pressed' = sample /\ pending_count' = 0 /\ fresh' = TRUE /\ reader' = Notified
                  /\ changes' = changes + 1 /\ run' = 0

-----------------------------------------------------------------------------
(* The readers. *)

Device == UNCHANGED <<pressed, pending, pending_count, run, changes>>

Open(r) ==
    /\ reader[r].pc = "closed" /\ reader' = [reader EXCEPT ![r] = [Closed EXCEPT !.pc = "open", !.seen = changes]]
    /\ openrefs' = openrefs + 1 /\ Device /\ UNCHANGED <<fresh, fds>>

Close(r) ==
    /\ reader[r].pc = "open" /\ reader' = [reader EXCEPT ![r] = Closed]
    /\ openrefs' = IF openrefs > 0 THEN openrefs - 1 ELSE openrefs
    /\ Device /\ UNCHANGED <<fresh, fds>>

Free == {i \in Slot : fds[i] = None}

\* what changed before the call is not looked at
SetupBlind(r) ==
    /\ reader[r].pc = "open" /\ Free # {} /\ Device /\ UNCHANGED <<fresh, openrefs>>
    /\ LET i == CHOOSE i \in Free : \A j \in Free : i <= j IN
       fds' = [fds EXCEPT ![i] = r] /\ reader' = [reader EXCEPT ![r].pc = "wait", ![r].slot = i]

\* btbtn_poll, setup: the first free slot, and at once POLLIN when the state is fresh
Setup(r) ==
    /\ reader[r].pc = "open" /\ Device /\ UNCHANGED <<fresh, openrefs>>
    /\ \/ Free = {} /\ UNCHANGED <<fds, reader>>      \* -EBUSY
       \/ /\ Free # {}
          /\ LET i == CHOOSE i \in Free : \A j \in Free : i <= j IN
             fds' = [fds EXCEPT ![i] = r] /\ reader' = [reader EXCEPT ![r].pc = "wait", ![r].slot = i, ![r].in = fresh]

\* the slot is kept
TeardownKeeps(r) ==
    /\ reader[r].pc = "wait" /\ reader' = [reader EXCEPT ![r].pc = IF reader[r].in THEN "read" ELSE "open", ![r].slot = 0, ![r].in = FALSE]
    /\ Device /\ UNCHANGED <<fresh, openrefs, fds>>

\* btbtn_poll, teardown, after a notification or when the caller's time is over
Teardown(r) ==
    /\ reader[r].pc = "wait" /\ fds' = [fds EXCEPT ![reader[r].slot] = None]
    /\ reader' = [reader EXCEPT ![r].pc = IF reader[r].in THEN "read" ELSE "open", ![r].slot = 0, ![r].in = FALSE]
    /\ Device /\ UNCHANGED <<fresh, openrefs>>

Read(r) ==
    /\ reader[r].pc \in {"read", "open"} /\ reader' = [reader EXCEPT ![r].pc = "open", ![r].seen = changes]
    /\ fresh' = FALSE /\ Device /\ UNCHANGED <<fds, openrefs>>

ReaderStep(r) == Open(r) \/ Close(r) \/ Setup(r) \/ Teardown(r) \/ Read(r)

Next == (\E sample \in BOOLEAN : Tick(sample)) \/ (\E r \in Reader : ReaderStep(r))

Spec == Init /\ [][Next]_vars

ToldTeardown(r) == reader[r].in /\ Teardown(r)
ToldRead(r) == reader[r].pc = "read" /\ Read(r)

\* a reader that polls, and that reads when it is told to
FairSpec ==
    /\ Spec
    /\ \A r \in Reader : WF_vars(Setup(r)) /\ WF_vars(ToldTeardown(r)) /\ WF_vars(ToldRead(r))

-----------------------------------------------------------------------------
TypeOK ==
    /\ {pressed, pending, fresh} \subseteq BOOLEAN /\ pending_count \in 0..(BTBTN_DEBOUNCE_SAMPLES - 1)
    /\ fds \in [Slot -> Reader \cup {None}] /\ openrefs = Cardinality({r \in Reader : reader[r].pc # "closed"})
    /\ \A r \in Reader : reader[r].pc \in {"closed", "open", "wait", "read"} /\ reader[r].seen \in 0..changes

\* The reported level changes exactly when five ticks in a row have seen the other one.
Debounced == run = pending_count /\ (pending_count > 0 => pending # pressed)

\* A slot belongs to one reader that waits in poll, and every such reader has one.
SlotsAreOwned ==
    \A r \in Reader : IF reader[r].pc = "wait" THEN {i \in Slot : fds[i] = r} = {reader[r].slot} ELSE \A i \in Slot : fds[i] # r

\* A reader never sleeps in poll over a transition it has not read.
WakesOnEvery == \A r \in Reader : reader[r].pc = "wait" /\ ~reader[r].in => reader[r].seen = changes

NoticedDue(r) == reader[r].pc # "closed" /\ reader[r].seen < changes
NoticedMet(r) == reader[r].pc = "closed" \/ reader[r].seen = changes

\* Every transition is read in the end by a reader that polls for ever.
Noticed == \A r \in Reader : NoticedDue(r) ~> NoticedMet(r)
=============================================================================
