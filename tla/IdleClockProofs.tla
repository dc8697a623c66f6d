-------------------------- MODULE IdleClockProofs --------------------------
(***************************************************************************)
(* What the collector's idle time guarantees for a word of any size.  The  *)
(* wrapped count falls behind the real one and never gets ahead of it,     *)
(* and reading it signed only takes more away.                             *)
(***************************************************************************)
EXTENDS IdleClock, TLAPS

TypeInv ==
    /\ uptime \in Nat /\ input \in 0..uptime
    /\ tick \in 0..(Modulus - 1) /\ dwTime \in 0..(Modulus - 1)

IInv ==
    /\ TypeInv
    /\ tick - dwTime <= uptime - input
    /\ uptime < Modulus => tick = uptime /\ dwTime = input

LEMMA ClockInvariant == Spec => []IInv
<1> USE ModulusAssumption DEF IInv, TypeInv
<1>1. Init => IInv
  BY DEF Init
<1>2. ASSUME IInv, [Next]_vars PROVE IInv'
  <2>1. CASE Count
    BY <1>2, <2>1 DEF Count
  <2>2. CASE UserInput
    BY <1>2, <2>2 DEF UserInput
  <2>3. CASE UNCHANGED vars
    BY <1>2, <2>3 DEF vars
  <2> QED
    BY <1>2, <2>1, <2>2, <2>3 DEF Next
<1> QED
  BY <1>1, <1>2, PTL DEF Spec

\* The collector never reports more idle time than has passed.
THEOREM IdleTimeSound == Spec => []NeverFalselyIdle
<1>1. IInv => NeverFalselyIdle
  BY ModulusAssumption DEF IInv, TypeInv, NeverFalselyIdle, IdleTime, Signed
<1> QED
  BY <1>1, ClockInvariant, PTL

\* It is exact until the count has gone half its way.
THEOREM IdleTimeExactAtFirst == Spec => []ExactAtFirst
<1>1. IInv => ExactAtFirst
  BY ModulusAssumption DEF IInv, TypeInv, ExactAtFirst, IdleTime, Signed
<1> QED
  BY <1>1, ClockInvariant, PTL
=============================================================================
