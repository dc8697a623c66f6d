----------------------------- MODULE MCTracker -----------------------------
(***************************************************************************)
(* Instances of Tracker for TLC.  Both intervals of the configuration are  *)
(* 60 polls; here they are 2, so that two heartbeats, a change to idle and *)
(* a change back fit in a run.                                             *)
(***************************************************************************)
EXTENDS Tracker, TLC

CONSTANTS chrome, code

Symmetry == Permutations({chrome, code})
=============================================================================
