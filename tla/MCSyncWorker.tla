---------------------------- MODULE MCSyncWorker ----------------------------
(***************************************************************************)
(* Instances of SyncWorker for TLC: two events.                            *)
(***************************************************************************)
EXTENDS SyncWorker

CONSTANT tk

Steady == [e \in 1..2 |-> e]

\* Both events are logged within one tick of the clock.
Ties == [e \in 1..2 |-> 0]

Once == [e \in 1..1 |-> 0]
=============================================================================
