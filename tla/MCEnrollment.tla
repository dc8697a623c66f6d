---------------------------- MODULE MCEnrollment ----------------------------
(***************************************************************************)
(* Instances of Enrollment for TLC.                                        *)
(***************************************************************************)
EXTENDS Enrollment, TLC

CONSTANTS c1, c2, c3, c4, t1, t2, u1, u2

\* Two users at once, one of them three times.
TwoTabs == (c1 :> t1) @@ (c2 :> t1) @@ (c3 :> t1) @@ (c4 :> t2)
TwoUsers == (c1 :> u1) @@ (c2 :> u1) @@ (c3 :> u1) @@ (c4 :> u2)
=============================================================================
