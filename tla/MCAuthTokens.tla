---------------------------- MODULE MCAuthTokens ----------------------------
(***************************************************************************)
(* Instances of AuthTokens for TLC.                                        *)
(***************************************************************************)
EXTENDS AuthTokens, TLC

CONSTANTS c1, c2, c3, t1, t2

\* Two calls of one page and one of another.
TwoTabs == (c1 :> t1) @@ (c2 :> t1) @@ (c3 :> t2)

Mixed == (c1 :> {"confirm"}) @@ (c2 :> {"confirm"}) @@ (c3 :> {"confirm", "login", "logout"})
=============================================================================
