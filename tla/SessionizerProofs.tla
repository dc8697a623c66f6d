------------------------- MODULE SessionizerProofs -------------------------
(***************************************************************************)
(* Proofs about Sessionizer, for any number of workers, any batch limit,   *)
(* any heartbeats and any clock.                                           *)
(*                                                                         *)
(* Neither the invariant on committed sessions nor NoDoubleClaim is        *)
(* inductive alone: that a commit does not undo another worker's needs the *)
(* uncommitted rows to have been computed from the sessions still stored,  *)
(* which needs row locks to be exclusive and claims to be disjoint.  IInv  *)
(* is that conjunction.                                                    *)
(*                                                                         *)
(* The lemmas about SessionDerivation come first: what a session row says  *)
(* about the heartbeats it was built from, and that upserting the row of a *)
(* batch is the same as having built one row from all the heartbeats.      *)
(***************************************************************************)
EXTENDS Sessionizer, FiniteSetTheorems, WellFoundedInduction, TLAPS

-----------------------------------------------------------------------------
(* Least and greatest elements *)

LEMMA LeastOfNaturals ==
    ASSUME NEW S, S \subseteq Nat, S # {}
    PROVE  \E n \in S : \A m \in S : n <= m
<1> DEFINE Less == {p \in Nat \X Nat : p[1] < p[2]}
<1>1. IsWellFoundedOn(Less, Nat)
  BY NatLessThanWellFounded DEF OpToRel
<1> HIDE DEF Less
<1>2. PICK n \in S : \A m \in S : ~ (<<m, n>> \in Less)
  BY <1>1, WFMin
<1>3. ASSUME NEW m \in S  PROVE n <= m
  <2>1. m \in Nat /\ n \in Nat /\ <<m, n>> \notin Less
    BY <1>2
  <2>2. m < n => <<m, n>> \in Less
    BY <2>1 DEF Less
  <2> QED
    BY <2>1, <2>2
<1> QED
  BY <1>2, <1>3

LEMMA MinOfTimes ==
    ASSUME NEW S, S \subseteq Time, S # {}
    PROVE  /\ Min(S) \in S
           /\ \A x \in S : Min(S) <= x
<1>1. S \subseteq Nat
  BY BoundAssumption DEF Time
<1>2. PICK x \in S : \A y \in S : x <= y
  BY <1>1, LeastOfNaturals
<1> QED
  BY <1>2 DEF Min

LEMMA MaxOfTimes ==
    ASSUME NEW S, S \subseteq Time, S # {}
    PROVE  /\ Max(S) \in S
           /\ \A x \in S : Max(S) >= x
<1> DEFINE Gap == {MaxTime - x : x \in S}
<1>1. Gap \subseteq Time /\ Gap # {}
  <2>1. \A x \in Time : MaxTime - x \in Time
    BY BoundAssumption DEF Time
  <2> QED
    BY <2>1
<1> HIDE DEF Gap
<1>2. Min(Gap) \in Gap /\ \A d \in Gap : Min(Gap) <= d
  BY <1>1, MinOfTimes
<1>3. PICK x \in S : Min(Gap) = MaxTime - x
  BY <1>2 DEF Gap
<1>4. \A y \in S : MaxTime - y \in Gap
  BY DEF Gap
<1>5. \A y \in S : x >= y
  BY <1>2, <1>3, <1>4, BoundAssumption DEF Time
<1> QED
  BY <1>5 DEF Max

LEMMA MinOfUnion ==
    ASSUME NEW A, NEW B, A \subseteq Time, B \subseteq Time, A # {}, B # {}
    PROVE  Min(A \cup B) = Least(Min(A), Min(B))
<1>1. /\ A \cup B \subseteq Time
      /\ A \cup B # {}
      /\ Time \subseteq Nat
  BY BoundAssumption DEF Time
<1>2. /\ Min(A) \in A /\ \A x \in A : Min(A) <= x
      /\ Min(B) \in B /\ \A x \in B : Min(B) <= x
  BY MinOfTimes
<1>3. Min(A \cup B) \in A \cup B /\ \A x \in A \cup B : Min(A \cup B) <= x
  BY <1>1, MinOfTimes
<1>4. Min(A \cup B) <= Min(A) /\ Min(A \cup B) <= Min(B)
  BY <1>2, <1>3
<1>5. Min(A) <= Min(A \cup B) \/ Min(B) <= Min(A \cup B)
  BY <1>2, <1>3
<1>6. Min(A) \in Nat /\ Min(B) \in Nat /\ Min(A \cup B) \in Nat
  BY <1>1, <1>2, <1>3
<1> QED
  BY <1>4, <1>5, <1>6 DEF Least

-----------------------------------------------------------------------------
(* Sums *)

\* Induction over the subsets of a finite set, as a least counterexample.
LEMMA SmallestSubset ==
    ASSUME NEW S, IsFiniteSet(S), NEW Bad, Bad \subseteq SUBSET S, Bad # {}
    PROVE  \E T \in Bad : \A U \in SUBSET T : U # T => U \notin Bad
<1> DEFINE sizes == {Cardinality(T) : T \in Bad}
<1>1. ASSUME NEW T \in Bad  PROVE IsFiniteSet(T) /\ Cardinality(T) \in Nat
  BY FS_Subset, FS_CardinalityType
<1>2. PICK n \in sizes : \A m \in sizes : n <= m
  <2>1. sizes \subseteq Nat /\ sizes # {}
    BY <1>1
  <2> HIDE DEF sizes
  <2> QED
    BY <2>1, LeastOfNaturals
<1>3. PICK T \in Bad : n = Cardinality(T)
  OBVIOUS
<1>4. ASSUME NEW U \in SUBSET T, U # T, U \in Bad  PROVE FALSE
  <2>1. Cardinality(T) <= Cardinality(U)
    BY <1>2, <1>3, <1>4
  <2>2. Cardinality(U) <= Cardinality(T) /\ Cardinality(U) # Cardinality(T)
    BY <1>1, <1>4, FS_Subset
  <2> QED
    BY <1>1, <1>4, <2>1, <2>2
<1> QED
  BY <1>4

\* The recursion by which a sum is defined.
IsSum(iter, f, S) ==
    iter = [s \in SUBSET S |->
               IF s = {} THEN 0
               ELSE LET x == CHOOSE x \in s : TRUE
                    IN  f[x] + iter[s \ {x}]]

LEMMA SumIsRecursive ==
    ASSUME NEW f, NEW S
    PROVE  SumFunctionOnSet(f, S) = (CHOOSE iter : IsSum(iter, f, S))[S]
BY DEF SumFunctionOnSet, FoldFunctionOnSet, MapThenFoldSet, IsSum

LEMMA SumsAgree ==
    ASSUME NEW f, NEW S, IsFiniteSet(S), NEW T \in SUBSET S,
           NEW i, IsSum(i, f, S), NEW j, IsSum(j, f, T)
    PROVE  \A s \in SUBSET T : i[s] = j[s]
<1> DEFINE Bad == {s \in SUBSET T : i[s] # j[s]}
<1>1. SUFFICES ASSUME Bad # {} PROVE FALSE
  OBVIOUS
<1>2. PICK s \in Bad : \A u \in SUBSET s : u # s => u \notin Bad
  <2>1. Bad \subseteq SUBSET S
    OBVIOUS
  <2> HIDE DEF Bad
  <2> QED
    BY <1>1, <2>1, SmallestSubset
<1>3. CASE s = {}
  BY <1>3 DEF IsSum
<1>4. CASE s # {}
  <2> DEFINE x == CHOOSE x \in s : TRUE
  <2>1. x \in s
    BY <1>4
  <2>2. s \ {x} \in SUBSET s /\ s \ {x} # s
    BY <2>1
  <2>3. i[s \ {x}] = j[s \ {x}]
    BY <1>2, <2>2
  <2>4. i[s] = f[x] + i[s \ {x}]
    BY <1>4 DEF IsSum
  <2>5. j[s] = f[x] + j[s \ {x}]
    BY <1>4 DEF IsSum
  <2> QED
    BY <2>3, <2>4, <2>5
<1> QED
  BY <1>3, <1>4

LEMMA SumExists ==
    ASSUME NEW f, NEW S, IsFiniteSet(S)
    PROVE  \E i : IsSum(i, f, S)
<1> DEFINE Bad == {T \in SUBSET S : ~ \E i : IsSum(i, f, T)}
<1>1. SUFFICES ASSUME Bad # {} PROVE FALSE
  OBVIOUS
<1>2. PICK T \in Bad : \A U \in SUBSET T : U # T => U \notin Bad
  <2>1. Bad \subseteq SUBSET S
    OBVIOUS
  <2> HIDE DEF Bad
  <2> QED
    BY <1>1, <2>1, SmallestSubset
<1> DEFINE Iter(U) == CHOOSE i : IsSum(i, f, U)
           Value(s) == IF s = {} THEN 0
                       ELSE LET x == CHOOSE x \in s : TRUE
                            IN  f[x] + Iter(s \ {x})[s \ {x}]
           iter == [s \in SUBSET T |-> Value(s)]
<1>3. ASSUME NEW U \in SUBSET T, U # T  PROVE IsSum(Iter(U), f, U)
  BY <1>2, <1>3
<1>4. ASSUME NEW s \in SUBSET T
      PROVE  iter[s] = IF s = {} THEN 0
                       ELSE LET x == CHOOSE x \in s : TRUE
                            IN  f[x] + iter[s \ {x}]
  <2>1. CASE s = {}
    BY <2>1
  <2>2. CASE s # {}
    <3> DEFINE x == CHOOSE x \in s : TRUE
               u == s \ {x}
    <3>1. x \in s
      BY <2>2
    <3>2. u \in SUBSET T /\ u # T
      BY <3>1
    <3>3. iter[s] = f[x] + Iter(u)[u]
      BY <2>2
    <3>4. iter[u] = Iter(u)[u]
      <4> HIDE DEF u, Iter
      <4>1. iter[u] = Value(u)
        BY <3>2
      <4>2. IsSum(Iter(u), f, u)
        BY <1>3, <3>2
      <4>3. CASE u = {}
        BY <4>1, <4>2, <4>3 DEF IsSum
      <4>4. CASE u # {}
        <5> DEFINE y == CHOOSE y \in u : TRUE
                   v == u \ {y}
        <5>1. y \in u /\ v \in SUBSET u /\ v \in SUBSET T /\ v # T
          BY <3>2, <4>4
        <5>2. iter[u] = f[y] + Iter(v)[v]
          BY <4>1, <4>4
        <5>3. Iter(u)[u] = f[y] + Iter(u)[v]
          BY <4>2, <4>4 DEF IsSum
        <5> HIDE DEF v, y
        <5>4. IsSum(Iter(v), f, v)
          BY <1>3, <5>1
        <5>5. IsFiniteSet(u)
          BY <3>2, FS_Subset
        <5>6. Iter(u)[v] = Iter(v)[v]
          BY <4>2, <5>1, <5>4, <5>5, SumsAgree
        <5> QED
          BY <5>2, <5>3, <5>6
      <4> QED
        BY <4>3, <4>4
    <3> HIDE DEF iter, Iter
    <3> QED
      BY <2>2, <3>3, <3>4
  <2> QED
    BY <2>1, <2>2
<1>5. IsSum(iter, f, T)
  <2>1. iter = [s \in SUBSET T |-> iter[s]]
    OBVIOUS
  <2> HIDE DEF iter
  <2> QED
    BY <1>4, <2>1 DEF IsSum
<1> QED
  BY <1>2, <1>5

LEMMA SumUnfolds ==
    ASSUME NEW f, NEW S, IsFiniteSet(S)
    PROVE  /\ S = {} => SumFunctionOnSet(f, S) = 0
           /\ S # {} =>
                 \E x \in S :
                    SumFunctionOnSet(f, S) = f[x] + SumFunctionOnSet(f, S \ {x})
<1> DEFINE Iter(U) == CHOOSE i : IsSum(i, f, U)
<1>1. ASSUME NEW U, IsFiniteSet(U)
      PROVE  IsSum(Iter(U), f, U) /\ SumFunctionOnSet(f, U) = Iter(U)[U]
  BY <1>1, SumExists, SumIsRecursive
<1> HIDE DEF Iter
<1>2. CASE S = {}
  BY <1>1, <1>2 DEF IsSum
<1>3. CASE S # {}
  <2> DEFINE x == CHOOSE x \in S : TRUE
             U == S \ {x}
  <2>1. x \in S /\ U \in SUBSET S
    BY <1>3
  <2>2. Iter(S)[S] = f[x] + Iter(S)[U]
    BY <1>1, <1>3 DEF IsSum
  <2> HIDE DEF U
  <2>3. IsFiniteSet(U)
    BY <2>1, FS_Subset
  <2>4. Iter(S)[U] = Iter(U)[U]
    BY <1>1, <2>1, <2>3, SumsAgree
  <2>5. SumFunctionOnSet(f, S) = f[x] + SumFunctionOnSet(f, U)
    BY <1>1, <2>2, <2>3, <2>4
  <2> QED
    BY <1>3, <2>1, <2>5 DEF U
<1> QED
  BY <1>2, <1>3

LEMMA SumIsNat ==
    ASSUME NEW S, IsFiniteSet(S), NEW f, \A x \in S : f[x] \in Nat
    PROVE  SumFunctionOnSet(f, S) \in Nat
<1> DEFINE Bad == {T \in SUBSET S : SumFunctionOnSet(f, T) \notin Nat}
<1>1. SUFFICES ASSUME Bad # {} PROVE FALSE
  OBVIOUS
<1>2. PICK T \in Bad : \A U \in SUBSET T : U # T => U \notin Bad
  <2>1. Bad \subseteq SUBSET S
    OBVIOUS
  <2> HIDE DEF Bad
  <2> QED
    BY <1>1, <2>1, SmallestSubset
<1>3. IsFiniteSet(T)
  BY FS_Subset
<1>4. T # {}
  BY <1>3, SumUnfolds
<1>5. PICK x \in T :
         SumFunctionOnSet(f, T) = f[x] + SumFunctionOnSet(f, T \ {x})
  BY <1>3, <1>4, SumUnfolds
<1>6. T \ {x} \in SUBSET T /\ T \ {x} # T
  BY <1>5
<1>7. T \ {x} \notin Bad
  BY <1>2, <1>6
<1>8. f[x] \in Nat /\ SumFunctionOnSet(f, T \ {x}) \in Nat
  BY <1>5, <1>6, <1>7
<1>9. SumFunctionOnSet(f, T) \in Nat
  BY <1>5, <1>8
<1> QED
  BY <1>9

\* Whichever element is taken first.
LEMMA SumTakesAny ==
    ASSUME NEW S, IsFiniteSet(S), NEW f, \A x \in S : f[x] \in Nat, NEW x \in S
    PROVE  SumFunctionOnSet(f, S) = f[x] + SumFunctionOnSet(f, S \ {x})
<1> DEFINE Sum(T) == SumFunctionOnSet(f, T)
           Bad == {T \in SUBSET S : \E y \in T : Sum(T) # f[y] + Sum(T \ {y})}
<1>1. SUFFICES ASSUME Bad # {} PROVE FALSE
  OBVIOUS
<1>2. PICK T \in Bad : \A U \in SUBSET T : U # T => U \notin Bad
  <2>1. Bad \subseteq SUBSET S
    OBVIOUS
  <2> HIDE DEF Bad
  <2> QED
    BY <1>1, <2>1, SmallestSubset
<1>3. PICK y \in T : Sum(T) # f[y] + Sum(T \ {y})
  OBVIOUS
<1>4. ASSUME NEW U \in SUBSET T  PROVE IsFiniteSet(U) /\ Sum(U) \in Nat
  BY FS_Subset, SumIsNat
<1>5. PICK z \in T : Sum(T) = f[z] + Sum(T \ {z})
  BY <1>3, <1>4, SumUnfolds
<1>6. y # z
  BY <1>3, <1>5
<1>7. Sum(T \ {z}) = f[y] + Sum((T \ {z}) \ {y})
  <2>1. T \ {z} \in SUBSET S /\ T \ {z} \notin Bad
    BY <1>2, <1>5
  <2>2. y \in T \ {z}
    BY <1>6
  <2> HIDE DEF Sum
  <2> QED
    BY <2>1, <2>2
<1>8. Sum(T \ {y}) = f[z] + Sum((T \ {y}) \ {z})
  <2>1. T \ {y} \in SUBSET S /\ T \ {y} \notin Bad
    BY <1>2, <1>3
  <2>2. z \in T \ {y}
    BY <1>6
  <2> HIDE DEF Sum
  <2> QED
    BY <2>1, <2>2
<1>9. (T \ {z}) \ {y} = (T \ {y}) \ {z}
  OBVIOUS
<1>10. f[y] \in Nat /\ f[z] \in Nat /\ Sum((T \ {y}) \ {z}) \in Nat
  <2>1. (T \ {y}) \ {z} \in SUBSET T
    OBVIOUS
  <2> HIDE DEF Sum
  <2> QED
    BY <1>4, <2>1
<1>11. Sum(T) = f[y] + Sum(T \ {y})
  <2> DEFINE rest == (T \ {y}) \ {z}
  <2>1. Sum(T \ {z}) = f[y] + Sum(rest)
    BY <1>7, <1>9
  <2>2. Sum(T \ {y}) = f[z] + Sum(rest) /\ Sum(rest) \in Nat
    BY <1>8, <1>10
  <2> HIDE DEF Sum, rest
  <2> QED
    BY <1>5, <1>10, <2>1, <2>2
<1> QED
  BY <1>3, <1>11

\* What is summed over disjoint sets adds up.
LEMMA SumOfUnion ==
    ASSUME NEW f, NEW A, NEW B, IsFiniteSet(A), IsFiniteSet(B), A \cap B = {},
           \A x \in A \cup B : f[x] \in Nat
    PROVE  SumFunctionOnSet(f, A \cup B) =
              SumFunctionOnSet(f, A) + SumFunctionOnSet(f, B)
<1> DEFINE Sum(T) == SumFunctionOnSet(f, T)
           Bad == {T \in SUBSET A : Sum(T \cup B) # Sum(T) + Sum(B)}
<1>1. SUFFICES ASSUME Bad # {} PROVE FALSE
  OBVIOUS
<1>2. PICK T \in Bad : \A U \in SUBSET T : U # T => U \notin Bad
  <2>1. Bad \subseteq SUBSET A
    OBVIOUS
  <2> HIDE DEF Bad
  <2> QED
    BY <1>1, <2>1, SmallestSubset
<1>3. ASSUME NEW U \in SUBSET A
      PROVE  /\ IsFiniteSet(U) /\ IsFiniteSet(U \cup B)
             /\ Sum(U) \in Nat /\ Sum(U \cup B) \in Nat /\ Sum(B) \in Nat
  BY FS_Subset, FS_Union, SumIsNat
<1>4. CASE T = {}
  <2>1. Sum({}) = 0 /\ {} \cup B = B
    BY FS_EmptySet, SumUnfolds
  <2>2. Sum(T \cup B) = Sum(T) + Sum(B)
    <3> HIDE DEF Sum
    <3> QED
      BY <1>3, <1>4, <2>1
  <2> QED
    BY <2>2
<1>5. CASE T # {}
  <2>1. PICK x \in T : TRUE
    BY <1>5
  <2> DEFINE U == T \ {x}
  <2>2. U \in SUBSET T /\ U # T /\ U \in SUBSET A /\ T \in SUBSET A
    BY <2>1
  <2>3. (T \cup B) \ {x} = U \cup B
    BY <2>1
  <2>4. Sum(T) = f[x] + Sum(U)
    BY <1>3, <2>1, <2>2, SumTakesAny
  <2>5. Sum(T \cup B) = f[x] + Sum(U \cup B)
    <3>1. x \in T \cup B /\ IsFiniteSet(T \cup B) /\ \A y \in T \cup B : f[y] \in Nat
      BY <1>3, <2>1, <2>2
    <3>2. Sum(T \cup B) = f[x] + Sum((T \cup B) \ {x})
      BY <3>1, SumTakesAny
    <3> QED
      BY <2>3, <3>2
  <2>6. Sum(U \cup B) = Sum(U) + Sum(B)
    BY <1>2, <2>2
  <2>7. f[x] \in Nat
    BY <2>1, <2>2
  <2>8. Sum(T \cup B) = Sum(T) + Sum(B)
    <3> HIDE DEF Sum, U
    <3> QED
      BY <1>3, <2>2, <2>4, <2>5, <2>6, <2>7
  <2> QED
    BY <2>8
<1> QED
  BY <1>4, <1>5

\* A sum grows with its summands.
LEMMA SumGrows ==
    ASSUME NEW S, IsFiniteSet(S), NEW f, NEW g,
           \A x \in S : f[x] \in Nat /\ g[x] \in Nat /\ f[x] <= g[x]
    PROVE  SumFunctionOnSet(f, S) <= SumFunctionOnSet(g, S)
<1> DEFINE F(T) == SumFunctionOnSet(f, T)
           G(T) == SumFunctionOnSet(g, T)
           Bad == {T \in SUBSET S : ~ (F(T) <= G(T))}
<1>1. SUFFICES ASSUME Bad # {} PROVE FALSE
  OBVIOUS
<1>2. PICK T \in Bad : \A U \in SUBSET T : U # T => U \notin Bad
  <2>1. Bad \subseteq SUBSET S
    OBVIOUS
  <2> HIDE DEF Bad
  <2> QED
    BY <1>1, <2>1, SmallestSubset
<1>3. ASSUME NEW U \in SUBSET S
      PROVE  IsFiniteSet(U) /\ F(U) \in Nat /\ G(U) \in Nat
  BY FS_Subset, SumIsNat
<1>4. T # {}
  BY <1>3, SumUnfolds
<1>5. PICK x \in T : TRUE
  BY <1>4
<1> DEFINE U == T \ {x}
<1>6. U \in SUBSET T /\ U # T /\ U \in SUBSET S /\ T \in SUBSET S
  BY <1>5
<1>7. F(T) = f[x] + F(U) /\ G(T) = g[x] + G(U)
  BY <1>3, <1>5, <1>6, SumTakesAny
<1>8. F(U) <= G(U)
  BY <1>2, <1>6
<1>9. f[x] \in Nat /\ g[x] \in Nat /\ f[x] <= g[x]
  BY <1>5, <1>6
<1>10. F(T) <= G(T)
  <2> HIDE DEF F, G, U
  <2> QED
    BY <1>3, <1>6, <1>7, <1>8, <1>9
<1> QED
  BY <1>10

LEMMA SumOfSubset ==
    ASSUME NEW S, IsFiniteSet(S), NEW f, \A x \in S : f[x] \in Nat, NEW T \in SUBSET S
    PROVE  SumFunctionOnSet(f, T) <= SumFunctionOnSet(f, S)
<1>1. IsFiniteSet(T) /\ IsFiniteSet(S \ T) /\ T \cup (S \ T) = S
  BY FS_Subset
<1>2. /\ SumFunctionOnSet(f, T) \in Nat
      /\ SumFunctionOnSet(f, S \ T) \in Nat
  BY <1>1, SumIsNat
<1>3. SumFunctionOnSet(f, T \cup (S \ T)) =
         SumFunctionOnSet(f, T) + SumFunctionOnSet(f, S \ T)
  BY <1>1, SumOfUnion
<1>4. SumFunctionOnSet(f, T \cup (S \ T)) = SumFunctionOnSet(f, S)
  BY <1>1
<1> QED
  BY <1>2, <1>3, <1>4

LEMMA SameSummands ==
    ASSUME NEW S, IsFiniteSet(S), NEW f, NEW g,
           \A x \in S : f[x] \in Nat /\ g[x] = f[x]
    PROVE  SumFunctionOnSet(f, S) = SumFunctionOnSet(g, S)
<1>1. /\ SumFunctionOnSet(f, S) \in Nat
      /\ SumFunctionOnSet(g, S) \in Nat
  BY SumIsNat
<1>2. \A x \in S : f[x] \in Nat /\ g[x] \in Nat /\ f[x] <= g[x] /\ g[x] <= f[x]
  OBVIOUS
<1>3. SumFunctionOnSet(f, S) <= SumFunctionOnSet(g, S)
  BY <1>2, SumGrows
<1>4. SumFunctionOnSet(g, S) <= SumFunctionOnSet(f, S)
  BY <1>2, SumGrows
<1> QED
  BY <1>1, <1>3, <1>4

\* Stretches of a line that do not overlap are together no longer than what
\* they lie in.  Take away the last of them; those of no length do not matter.
LEMMA StretchesAddUp ==
    ASSUME NEW S, IsFiniteSet(S), NEW len, NEW lo, NEW hi, NEW a \in Nat, NEW b \in Nat,
           a <= b,
           \A x \in S : /\ len[x] \in Nat /\ lo[x] \in Nat /\ hi[x] \in Nat
                       /\ len[x] <= hi[x] - lo[x]
                       /\ a <= lo[x] /\ hi[x] <= b,
           \A x, y \in S : x # y => hi[x] <= lo[y] \/ hi[y] <= lo[x]
    PROVE  SumFunctionOnSet(len, S) <= b - a
<1> DEFINE Sum(T) == SumFunctionOnSet(len, T)
           Holds(T, c) == \A x \in T : hi[x] <= c
           Bad == {T \in SUBSET S :
                     \E c \in Nat : a <= c /\ Holds(T, c) /\ ~ (Sum(T) <= c - a)}
<1>1. SUFFICES ASSUME S \in Bad PROVE FALSE
  OBVIOUS
<1>2. PICK T \in Bad : \A U \in SUBSET T : U # T => U \notin Bad
  <2>1. Bad \subseteq SUBSET S /\ Bad # {}
    BY <1>1
  <2> HIDE DEF Bad
  <2> QED
    BY <2>1, SmallestSubset
<1>3. PICK c \in Nat : a <= c /\ Holds(T, c) /\ ~ (Sum(T) <= c - a)
  OBVIOUS
<1>4. ASSUME NEW U \in SUBSET T  PROVE IsFiniteSet(U) /\ Sum(U) \in Nat
  BY FS_Subset, SumIsNat
<1>5. T # {}
  <2>1. T = {} => Sum(T) = 0
    BY <1>4, SumUnfolds
  <2> QED
    BY <1>3, <2>1
<1>6. ASSUME NEW x \in T, NEW d \in Nat, a <= d, Holds(T \ {x}, d)
      PROVE  Sum(T) = len[x] + Sum(T \ {x}) /\ Sum(T \ {x}) <= d - a
  <2>1. T \ {x} \in SUBSET T /\ T \ {x} # T
    OBVIOUS
  <2>2. T \ {x} \in SUBSET S /\ T \ {x} \notin Bad
    BY <1>2, <2>1
  <2>3. Sum(T) = len[x] + Sum(T \ {x})
    BY <1>4, SumTakesAny
  <2> QED
    BY <1>6, <2>2, <2>3
<1>7. \A x \in T : len[x] > 0
  <2>1. ASSUME NEW x \in T, len[x] = 0  PROVE FALSE
    <3>1. Sum(T) = len[x] + Sum(T \ {x}) /\ Sum(T \ {x}) <= c - a
      BY <1>3, <1>6
    <3>2. Sum(T) \in Nat /\ Sum(T \ {x}) \in Nat
      BY <1>4
    <3> HIDE DEF Sum
    <3> QED
      BY <1>3, <2>1, <3>1, <3>2
  <2> QED
    BY <2>1
<1>8. PICK x \in T : \A y \in T : lo[y] <= lo[x]
  <2> DEFINE Below == {b - lo[y] : y \in T}
  <2>1. Below \subseteq Nat /\ Below # {}
    <3>1. \A y \in T : b - lo[y] \in Nat
      OBVIOUS
    <3> QED
      BY <1>5, <3>1
  <2>2. PICK n \in Below : \A m \in Below : n <= m
    <3> HIDE DEF Below
    <3> QED
      BY <2>1, LeastOfNaturals
  <2>3. PICK x \in T : n = b - lo[x]
    OBVIOUS
  <2>4. \A y \in T : b - lo[x] <= b - lo[y]
    BY <2>2, <2>3
  <2> QED
    BY <2>4
<1>9. Holds(T \ {x}, lo[x])
  <2>1. ASSUME NEW y \in T \ {x}  PROVE hi[y] <= lo[x]
    <3>1. hi[y] <= lo[x] \/ hi[x] <= lo[y]
      OBVIOUS
    <3>2. lo[x] < hi[x] /\ lo[y] <= lo[x]
      BY <1>7, <1>8
    <3> QED
      BY <3>1, <3>2
  <2> QED
    BY <2>1
<1>10. Sum(T) = len[x] + Sum(T \ {x}) /\ Sum(T \ {x}) <= lo[x] - a
  BY <1>6, <1>9
<1>11. Sum(T) \in Nat /\ Sum(T \ {x}) \in Nat
  BY <1>4
<1>12. /\ len[x] \in Nat /\ lo[x] \in Nat /\ hi[x] \in Nat
       /\ len[x] <= hi[x] - lo[x] /\ hi[x] <= c
  BY <1>3
<1> QED
  <2> HIDE DEF Sum
  <2> QED
    BY <1>3, <1>10, <1>11, <1>12

-----------------------------------------------------------------------------
(* The heartbeats of one state *)

LEMMA TimesTyped ==
    ASSUME NEW events, events \subseteq Heartbeat
    PROVE  /\ Timestamps(events) \subseteq Time
           /\ EndTimestamps(events) \subseteq Timestamps(events)
           /\ events # {} => Timestamps(events) # {}
BY HeartbeatAssumption DEF Timestamps, EndTimestamps, HeartbeatRow

LEMMA OneEndTimestamp ==
    ASSUME NEW k, NEW s \in EndTimestamps(EventsOf(Heartbeat, k)),
           NEW t \in EndTimestamps(EventsOf(Heartbeat, k))
    PROVE  s = t
<1>1. PICK g \in EventsOf(Heartbeat, k) :
          g.event_type = "STATE_END" /\ s = g.timestamp
  BY DEF EndTimestamps, Timestamps
<1>2. PICK h \in EventsOf(Heartbeat, k) :
          h.event_type = "STATE_END" /\ t = h.timestamp
  BY DEF EndTimestamps, Timestamps
<1>3. /\ g \in Heartbeat /\ h \in Heartbeat
      /\ g.device = h.device /\ g.state = h.state
  BY DEF EventsOf, KeyOf
<1> QED
  BY <1>1, <1>2, <1>3, OneEndAssumption DEF AtMostOneEnd, KeyOf

LEMMA EndOfIsTime ==
    ASSUME NEW events, events \subseteq Heartbeat
    PROVE  /\ EndOf(events) = NoTime <=> EndTimestamps(events) = {}
           /\ EndOf(events) # NoTime => EndOf(events) \in EndTimestamps(events)
<1>1. EndTimestamps(events) \subseteq Time
  BY TimesTyped
<1>2. NoTime \notin Time
  BY NullAssumption, BoundAssumption DEF Time
<1>3. EndTimestamps(events) # {} =>
          Min(EndTimestamps(events)) \in EndTimestamps(events)
  BY <1>1, MinOfTimes
<1> QED
  BY <1>1, <1>2, <1>3 DEF EndOf

LEMMA EndOfUnion ==
    ASSUME NEW k, NEW A, NEW B,
           A \subseteq EventsOf(Heartbeat, k), B \subseteq EventsOf(Heartbeat, k)
    PROVE  EndOf(A \cup B) = Greatest(EndOf(A), EndOf(B))
<1>1. A \subseteq Heartbeat /\ B \subseteq Heartbeat /\ A \cup B \subseteq Heartbeat
  BY DEF EventsOf
<1>2. EndTimestamps(A \cup B) = EndTimestamps(A) \cup EndTimestamps(B)
  BY DEF EndTimestamps, Timestamps
<1>3. EndTimestamps(A \cup B) \subseteq EndTimestamps(EventsOf(Heartbeat, k))
  BY DEF EndTimestamps, Timestamps
<1>4. \A s, t \in EndTimestamps(A \cup B) : s = t
  BY <1>3, OneEndTimestamp
<1>5. EndTimestamps(A \cup B) \subseteq Nat
  BY <1>1, TimesTyped, BoundAssumption DEF Time
<1>6. \A E \in {A, B, A \cup B} :
          /\ EndOf(E) = NoTime <=> EndTimestamps(E) = {}
          /\ EndOf(E) # NoTime => EndOf(E) \in EndTimestamps(E)
  BY <1>1, EndOfIsTime
<1> QED
  BY <1>2, <1>4, <1>5, <1>6 DEF Greatest

LEMMA SpanOfTimes ==
    ASSUME NEW events, events \subseteq Heartbeat, events # {}
    PROVE  /\ StartOf(events) \in Timestamps(events)
           /\ Max(Timestamps(events)) \in Timestamps(events)
           /\ \A t \in Timestamps(events) :
                 StartOf(events) <= t /\ t <= Max(Timestamps(events))
           /\ Timestamps(events) \subseteq Nat
<1>1. Timestamps(events) \subseteq Time /\ Timestamps(events) # {}
  BY TimesTyped
<1>2. Time \subseteq Nat
  BY BoundAssumption DEF Time
<1> QED
  BY <1>1, <1>2, MinOfTimes, MaxOfTimes DEF StartOf

-----------------------------------------------------------------------------
(* What a row says about the heartbeats of its key *)

\* row is what the table must hold for a key whose heartbeats are events.
Describes(row, events) ==
    IF events = {} THEN row = NoSession
    ELSE /\ row \in SessionRow
         /\ row.start = StartOf(events)
         /\ row.end = EndOf(events)
         /\ row.end # NoTime => row.duration = row.end - row.start
         /\ row.duration <= Max(Timestamps(events)) - Min(Timestamps(events))

LEMMA LastTimestampInSpan ==
    ASSUME NEW events, events \subseteq Heartbeat, events # {}
    PROVE  LastTimestamp(events) \in Timestamps(events)
BY SpanOfTimes, EndOfIsTime, TimesTyped DEF LastTimestamp

\* A row built from a batch describes that batch.
LEMMA BuildDescribes ==
    ASSUME NEW events, events \subseteq Heartbeat, events # {}
    PROVE  Describes(BuildSession(events), events)
<1> DEFINE times == Timestamps(events)
           last == LastTimestamp(events)
           row == BuildSession(events)
<1>1. /\ StartOf(events) \in times /\ Max(times) \in times
      /\ \A t \in times : StartOf(events) <= t /\ t <= Max(times)
      /\ times \subseteq Nat
  BY SpanOfTimes
<1>2. times \subseteq Time
  BY TimesTyped
<1>3. last \in times
  BY LastTimestampInSpan
<1>4. EndOf(events) # NoTime => EndOf(events) = last
  BY DEF LastTimestamp
<1>5. EndOf(events) \in Time \cup {NoTime}
  BY <1>2, <1>3, <1>4
<1>6. last - StartOf(events) \in Nat
  BY <1>1, <1>3
<1>7. last - StartOf(events) <= Max(times) - StartOf(events)
  BY <1>1, <1>3
<1>8. /\ row \in SessionRow
      /\ row.start = StartOf(events)
      /\ row.end = EndOf(events)
      /\ row.duration = last - StartOf(events)
  BY <1>1, <1>2, <1>5, <1>6 DEF BuildSession, SessionRow
<1>9. StartOf(events) = Min(times)
  BY DEF StartOf
<1> QED
  BY <1>4, <1>7, <1>8, <1>9 DEF Describes

\* A closed row is the row one run over all the heartbeats would build.
LEMMA ClosedIsBuilt ==
    ASSUME NEW events, events \subseteq Heartbeat, events # {},
           NEW row, Describes(row, events), row.end # NoTime
    PROVE  row = BuildSession(events)
<1>1. /\ row \in SessionRow
      /\ row.start = StartOf(events) /\ row.end = EndOf(events)
      /\ row.duration = LastTimestamp(events) - StartOf(events)
  BY DEF Describes, LastTimestamp
<1>2. row = [start |-> row.start, end |-> row.end, duration |-> row.duration]
  BY <1>1 DEF SessionRow
<1> QED
  BY <1>1, <1>2 DEF BuildSession

\* Upserting a batch's row into one that describes the heartbeats absorbed so
\* far yields one that describes them all.
LEMMA UpsertAbsorbs ==
    ASSUME NEW k, NEW old, NEW A, NEW B,
           A \subseteq EventsOf(Heartbeat, k), B \subseteq EventsOf(Heartbeat, k),
           B # {}, Describes(old, A)
    PROVE  Describes(UpsertSession(old, BuildSession(B)), A \cup B)
<1> DEFINE new == BuildSession(B)
           row == UpsertSession(old, new)
           all == A \cup B
<1>1. A \subseteq Heartbeat /\ B \subseteq Heartbeat
  BY DEF EventsOf
<1>2. Describes(new, B)
  BY <1>1, BuildDescribes
<1>3. CASE A = {}
  BY <1>2, <1>3 DEF Describes, UpsertSession
<1>4. CASE A # {}
  <2> DEFINE end == Greatest(old.end, new.end)
             first == Least(old.start, new.start)
  <2>1. /\ old \in SessionRow /\ new \in SessionRow
        /\ old.start = StartOf(A) /\ new.start = StartOf(B)
        /\ old.end = EndOf(A) /\ new.end = EndOf(B)
    BY <1>2, <1>4 DEF Describes
  <2>2. old # NoSession
    BY <2>1, NullAssumption
  <2>3. first = StartOf(all)
    <3>1. Timestamps(all) = Timestamps(A) \cup Timestamps(B)
      BY DEF Timestamps
    <3>2. /\ Timestamps(A) \subseteq Time /\ Timestamps(A) # {}
          /\ Timestamps(B) \subseteq Time /\ Timestamps(B) # {}
      BY <1>1, <1>4, TimesTyped
    <3>3. Min(Timestamps(all)) = Least(Min(Timestamps(A)), Min(Timestamps(B)))
      BY <3>1, <3>2, MinOfUnion
    <3> QED
      BY <2>1, <3>3 DEF StartOf
  <2>4. end = EndOf(all)
    BY <2>1, EndOfUnion
  <2>5. row = [start |-> first, end |-> end,
               duration |-> IF end # NoTime THEN end - first
                            ELSE old.duration]
    BY <2>2 DEF UpsertSession, UpdateSession
  <2>6. all \subseteq Heartbeat /\ all # {}
    BY <1>1, <1>4
  <2>7. Describes(BuildSession(all), all)
    BY <2>6, BuildDescribes
  <2>8. CASE end # NoTime
    <3>1. end - first = LastTimestamp(all) - StartOf(all)
      BY <2>3, <2>4, <2>8 DEF LastTimestamp
    <3>2. row = BuildSession(all)
      BY <2>3, <2>4, <2>5, <2>8, <3>1 DEF BuildSession
    <3> QED
      BY <2>7, <3>2
  <2>9. CASE end = NoTime
    <3>1. old.duration \in Nat /\ old.duration
                <= Max(Timestamps(A)) - Min(Timestamps(A))
      BY <1>4, <2>1 DEF Describes, SessionRow
    <3>2. Timestamps(A) \subseteq Timestamps(all)
      BY DEF Timestamps
    <3>3. /\ StartOf(all) <= StartOf(A) 
          /\ Max(Timestamps(A)) <= Max(Timestamps(all))
          /\ {StartOf(all), StartOf(A), Max(Timestamps(A)),
              Max(Timestamps(all))} \subseteq Nat
      BY <1>1, <1>4, <2>6, <3>2, SpanOfTimes
    <3>4. old.duration <= Max(Timestamps(all)) - StartOf(all)
      BY <3>1, <3>3 DEF StartOf
    <3>5. /\ first \in Time /\ end \in Time \cup {NoTime}
      BY <1>1, <2>1, <2>9 DEF Least, SessionRow
    <3>6. /\ row \in SessionRow
          /\ row.start = first /\ row.end = end
          /\ row.duration = old.duration
      BY <2>5, <2>9, <3>1, <3>5 DEF SessionRow
    <3> QED
      BY <2>3, <2>4, <2>6, <2>9, <3>4, <3>6 DEF Describes, StartOf
  <2> QED
    BY <2>8, <2>9
<1> QED
  BY <1>3, <1>4

-----------------------------------------------------------------------------
(* The inductive invariant *)

\* Claimed heartbeats are stored and not yet processed.
BatchesPending == \A w \in Workers : batch[w] \subseteq heartbeats \ processed

BatchesDisjoint ==
    \A v, w \in Workers : v # w => batch[v] \cap batch[w] = {}

\* A session row has one uncommitted writer.
OneWriter ==
    \A v, w \in Workers, k \in SessionKey :
        k \in Written(v) /\ k \in Written(w) => v = w

\* An uncommitted row folds the worker's batch into the row committed now.
DraftsCurrent ==
    \A w \in Workers : \A k \in Written(w) :
        /\ k \in KeysOf(batch[w])
        /\ draft[w][k] = UpsertSession(sessions[k],
                                       BuildSession(EventsOf(batch[w], k)))

SessionsDescribed ==
    \A k \in SessionKey : Describes(sessions[k], EventsOf(processed, k))

IInv ==
    /\ TypeOK
    /\ BatchesPending
    /\ BatchesDisjoint
    /\ OneWriter
    /\ DraftsCurrent
    /\ SessionsDescribed

-----------------------------------------------------------------------------
(* The parts of a batch *)

LEMMA KeyFacts ==
    ASSUME NEW events, events \subseteq Heartbeat
    PROVE  /\ KeysOf(events) \subseteq SessionKey
           /\ \A k : EventsOf(events, k) \subseteq EventsOf(Heartbeat, k)
           /\ \A k : EventsOf(events, k) # {} <=> k \in KeysOf(events)
BY DEF KeysOf, SessionKey, EventsOf

LEMMA DescribedTyped ==
    ASSUME NEW row, NEW events, Describes(row, events)
    PROVE  row \in SessionRow \cup {NoSession}
BY DEF Describes

\* The row a worker writes describes the heartbeats its commit will leave
\* processed.
LEMMA DraftDescribes ==
    ASSUME IInv, NEW w \in Workers, NEW k \in KeysOf(batch[w])
    PROVE  Describes(UpsertSession(sessions[k],
                                   BuildSession(EventsOf(batch[w], k))),
                     EventsOf(processed \cup batch[w], k))
<1>1. batch[w] \subseteq Heartbeat /\ processed \subseteq Heartbeat
  BY DEF IInv, TypeOK
<1>2. k \in SessionKey /\ EventsOf(batch[w], k) # {}
  BY <1>1, KeyFacts
<1>3. /\ EventsOf(processed, k) \subseteq EventsOf(Heartbeat, k)
      /\ EventsOf(batch[w], k) \subseteq EventsOf(Heartbeat, k)
  BY <1>1, KeyFacts
<1>4. Describes(sessions[k], EventsOf(processed, k))
  BY <1>2 DEF IInv, SessionsDescribed
<1>5. EventsOf(processed \cup batch[w], k)
          = EventsOf(processed, k) \cup EventsOf(batch[w], k)
  BY DEF EventsOf
<1> QED
  BY <1>2, <1>3, <1>4, <1>5, UpsertAbsorbs

\* A heartbeat of another key does not concern this key's session.
LEMMA OtherKeysUndisturbed ==
    ASSUME IInv, NEW w \in Workers, NEW k \in SessionKey, k \notin KeysOf(batch[w])
    PROVE  EventsOf(processed \cup batch[w], k) = EventsOf(processed, k)
BY DEF KeysOf, EventsOf

-----------------------------------------------------------------------------
(* Every step preserves it *)

LEMMA InitIInv == Init => IInv
<1> SUFFICES ASSUME Init PROVE IInv
  OBVIOUS
<1> USE DEF Init
<1>1. TypeOK
  BY DEF TypeOK, NoRows
<1>2. \A w \in Workers : Written(w) = {}
  BY DEF Written, NoRows
<1>3. BatchesPending /\ BatchesDisjoint
  BY DEF BatchesPending, BatchesDisjoint
<1>4. OneWriter /\ DraftsCurrent
  BY <1>2 DEF OneWriter, DraftsCurrent
<1>5. SessionsDescribed
  BY DEF SessionsDescribed, Describes, EventsOf, NoRows
<1> QED
  BY <1>1, <1>3, <1>4, <1>5 DEF IInv

LEMMA IngestIInv ==
    ASSUME IInv, NEW rows \in SUBSET Heartbeat, Ingest(rows)
    PROVE  IInv'
<1> USE DEF IInv, Ingest
<1>1. TypeOK'
  BY DEF TypeOK
<1>2. BatchesPending' /\ BatchesDisjoint'
  BY DEF BatchesPending, BatchesDisjoint
<1>3. OneWriter' /\ DraftsCurrent'
  BY DEF OneWriter, DraftsCurrent, Written
<1>4. SessionsDescribed'
  BY DEF SessionsDescribed
<1> QED
  BY <1>1, <1>2, <1>3, <1>4

LEMMA ClaimIInv ==
    ASSUME IInv, NEW w \in Workers, Claim(w)
    PROVE  IInv'
<1>1. /\ batch[w] = {}
      /\ batch' = [batch EXCEPT ![w] = FirstRows(Claimable)]
      /\ UNCHANGED <<heartbeats, processed, sessions, draft, crashes>>
  BY DEF Claim
<1>2. /\ FirstRows(Claimable) \subseteq heartbeats \ processed
      /\ \A v \in Workers : FirstRows(Claimable) \cap batch[v] = {}
  BY DEF FirstRows, Claimable, Claimed
<1>3. TypeOK'
  BY <1>1, <1>2 DEF IInv, TypeOK
<1>4. BatchesPending'
  BY <1>1, <1>2 DEF IInv, TypeOK, BatchesPending
<1>5. BatchesDisjoint'
  BY <1>1, <1>2 DEF IInv, TypeOK, BatchesDisjoint
<1>6. OneWriter'
  BY <1>1 DEF IInv, OneWriter, Written
<1>7. DraftsCurrent'
  <2>1. Written(w) = {}
    BY <1>1 DEF IInv, DraftsCurrent, KeysOf
  <2>2. \A v \in Workers : Written(v)' = Written(v)
    BY <1>1 DEF Written
  <2>3. \A v \in Workers : v # w => batch'[v] = batch[v]
    BY <1>1 DEF IInv, TypeOK
  <2> QED
    BY <1>1, <2>1, <2>2, <2>3 DEF IInv, DraftsCurrent
<1>8. SessionsDescribed'
  BY <1>1 DEF IInv, SessionsDescribed
<1> QED
  BY <1>3, <1>4, <1>5, <1>6, <1>7, <1>8 DEF IInv

LEMMA UpsertIInv ==
    ASSUME IInv, NEW w \in Workers, NEW k \in SessionKey, UpsertRow(w, k)
    PROVE  IInv'
<1> DEFINE row == UpsertSession(sessions[k],
                                BuildSession(EventsOf(batch[w], k)))
<1>1. /\ k \in KeysOf(batch[w]) \ Written(w)
      /\ \A v \in Workers \ {w} : k \notin Written(v)
      /\ draft' = [draft EXCEPT ![w][k] = row]
      /\ UNCHANGED <<heartbeats, processed, sessions, batch, crashes>>
  BY DEF UpsertRow, IsNextRow, LockedByOther
<1>2. row \in SessionRow \cup {NoSession}
  BY <1>1, DraftDescribes, DescribedTyped
<1> HIDE DEF row
<1>3. /\ draft'[w][k] = row
      /\ \A v \in Workers, j \in SessionKey :
            v # w \/ j # k => draft'[v][j] = draft[v][j]
  BY <1>1 DEF IInv, TypeOK
<1>4. \A v \in Workers : \A j \in Written(v)' :
          j \in Written(v) \/ (v = w /\ j = k)
  BY <1>3 DEF Written
<1>5. TypeOK'
  BY <1>1, <1>2 DEF IInv, TypeOK
<1>6. BatchesPending' /\ BatchesDisjoint'
  BY <1>1 DEF IInv, BatchesPending, BatchesDisjoint
<1>7. OneWriter'
  BY <1>1, <1>4 DEF IInv, OneWriter
<1>8. DraftsCurrent'
  <2> SUFFICES ASSUME NEW v \in Workers, NEW j \in Written(v)'
               PROVE  /\ j \in KeysOf(batch[v])
                      /\ draft'[v][j] =
                            UpsertSession(sessions[j],
                                          BuildSession(EventsOf(batch[v], j)))
    BY <1>1 DEF DraftsCurrent
  <2>1. CASE v = w /\ j = k
    BY <1>1, <1>3, <2>1 DEF row
  <2>2. CASE ~(v = w /\ j = k)
    <3>1. j \in Written(v) /\ j \in SessionKey
      BY <1>4, <2>2 DEF Written
    <3>2. draft'[v][j] = draft[v][j]
      BY <1>3, <2>2, <3>1
    <3> QED
      BY <3>1, <3>2 DEF IInv, DraftsCurrent
  <2> QED
    BY <2>1, <2>2
<1>9. SessionsDescribed'
  BY <1>1 DEF IInv, SessionsDescribed
<1> QED
  BY <1>5, <1>6, <1>7, <1>8, <1>9 DEF IInv

LEMMA CommitIInv ==
    ASSUME IInv, NEW w \in Workers, Commit(w)
    PROVE  IInv'
<1>1. /\ KeysOf(batch[w]) = Written(w)
      /\ processed' = processed \cup batch[w]
      /\ sessions' = [k \in SessionKey |->
                         IF k \in Written(w) THEN draft[w][k] ELSE sessions[k]]
      /\ batch' = [batch EXCEPT ![w] = {}]
      /\ draft' = [draft EXCEPT ![w] = NoRows]
      /\ UNCHANGED <<heartbeats, crashes>>
  BY DEF Commit
<1>2. /\ batch'[w] = {} /\ Written(w)' = {}
      /\ \A v \in Workers \ {w} :
            /\ batch'[v] = batch[v]
            /\ draft'[v] = draft[v]
            /\ Written(v)' = Written(v)
  BY <1>1 DEF IInv, TypeOK, Written, NoRows
<1>3. TypeOK'
  BY <1>1 DEF IInv, TypeOK, BatchesPending, NoRows
<1>4. BatchesPending'
  BY <1>1, <1>2 DEF IInv, BatchesPending, BatchesDisjoint
<1>5. BatchesDisjoint'
  BY <1>2 DEF IInv, BatchesDisjoint
<1>6. OneWriter'
  BY <1>2 DEF IInv, OneWriter
<1>7. DraftsCurrent'
  <2> SUFFICES ASSUME NEW v \in Workers \ {w}, NEW j \in Written(v)
               PROVE  /\ j \in KeysOf(batch'[v])
                      /\ draft'[v][j] =
                            UpsertSession(sessions'[j],
                                          BuildSession(EventsOf(batch'[v], j)))
    BY <1>2 DEF DraftsCurrent
  <2>1. j \in SessionKey /\ j \notin Written(w)
    BY DEF IInv, OneWriter, Written
  <2>2. sessions'[j] = sessions[j]
    BY <1>1, <2>1
  <2> QED
    BY <1>2, <2>2 DEF IInv, DraftsCurrent
<1>8. SessionsDescribed'
  <2> SUFFICES ASSUME NEW k \in SessionKey
               PROVE  Describes(sessions'[k], EventsOf(processed', k))
    BY DEF SessionsDescribed
  <2>1. CASE k \in Written(w)
    <3>1. sessions'[k] = UpsertSession(sessions[k],
                                       BuildSession(EventsOf(batch[w], k)))
      BY <1>1, <2>1 DEF IInv, DraftsCurrent
    <3> QED
      BY <1>1, <2>1, <3>1, DraftDescribes
  <2>2. CASE k \notin Written(w)
    BY <1>1, <2>2, OtherKeysUndisturbed DEF IInv, SessionsDescribed
  <2> QED
    BY <2>1, <2>2
<1> QED
  BY <1>3, <1>4, <1>5, <1>6, <1>7, <1>8 DEF IInv

LEMMA RollbackIInv ==
    ASSUME IInv, NEW w \in Workers, Rollback(w), crashes' \in Nat
    PROVE  IInv'
<1>1. /\ batch' = [batch EXCEPT ![w] = {}]
      /\ draft' = [draft EXCEPT ![w] = NoRows]
      /\ UNCHANGED <<heartbeats, processed, sessions>>
  BY DEF Rollback
<1>2. /\ batch'[w] = {} /\ Written(w)' = {}
      /\ \A v \in Workers \ {w} :
            /\ batch'[v] = batch[v]
            /\ draft'[v] = draft[v]
            /\ Written(v)' = Written(v)
  BY <1>1 DEF IInv, TypeOK, Written, NoRows
<1>3. TypeOK'
  BY <1>1 DEF IInv, TypeOK, NoRows
<1>4. BatchesPending' /\ BatchesDisjoint'
  BY <1>1, <1>2 DEF IInv, BatchesPending, BatchesDisjoint
<1>5. OneWriter'
  BY <1>2 DEF IInv, OneWriter
<1>6. DraftsCurrent'
  BY <1>1, <1>2 DEF IInv, DraftsCurrent
<1>7. SessionsDescribed'
  BY <1>1 DEF IInv, SessionsDescribed
<1> QED
  BY <1>3, <1>4, <1>5, <1>6, <1>7 DEF IInv

LEMMA NextIInv == IInv /\ [Next]_vars => IInv'
<1> SUFFICES ASSUME IInv, [Next]_vars PROVE IInv'
  OBVIOUS
<1>1. CASE \E rows \in SUBSET Heartbeat : Ingest(rows)
  BY <1>1, IngestIInv
<1>2. ASSUME NEW w \in Workers, Claim(w)  PROVE IInv'
  BY <1>2, ClaimIInv
<1>3. ASSUME NEW w \in Workers, NEW k \in SessionKey, UpsertRow(w, k)
      PROVE  IInv'
  BY <1>3, UpsertIInv
<1>4. ASSUME NEW w \in Workers, Commit(w)  PROVE IInv'
  BY <1>4, CommitIInv
<1>5. ASSUME NEW w \in Workers, Crash(w) \/ DeadlockAbort(w)  PROVE IInv'
  <2>1. Rollback(w) /\ crashes' \in Nat
    BY <1>5 DEF Crash, DeadlockAbort, IInv, TypeOK
  <2> QED
    BY <2>1, RollbackIInv
<1>6. CASE UNCHANGED vars
  BY <1>6 DEF IInv, TypeOK, BatchesPending, BatchesDisjoint, OneWriter,
              DraftsCurrent, SessionsDescribed, Written, vars
<1> QED
  BY <1>1, <1>2, <1>3, <1>4, <1>5, <1>6 DEF Next

THEOREM Inductive == Spec => []IInv
BY InitIInv, NextIInv, PTL DEF Spec

-----------------------------------------------------------------------------
(* What it implies *)

\* The type invariant.
THEOREM TypeCorrect == Spec => []TypeOK
<1>1. IInv => TypeOK
  BY DEF IInv
<1> QED
  BY <1>1, Inductive, PTL

\* FOR UPDATE SKIP LOCKED gives every pending heartbeat to one task at most.
THEOREM ClaimsAreExclusive == Spec => []NoDoubleClaim
<1>1. IInv => NoDoubleClaim
  BY DEF IInv, BatchesPending, BatchesDisjoint, NoDoubleClaim
<1> QED
  BY <1>1, Inductive, PTL

\* Sessions are derived from the heartbeats stamped processed, whatever the
\* batches, the workers and the crashes.
THEOREM SessionsDerived == Spec => []SessionsDeriveFromProcessed
<1>1. ASSUME IInv, NEW k \in SessionKey
      PROVE  LET events == EventsOf(processed, k)
             IN  IF events = {} THEN sessions[k] = NoSession
                 ELSE /\ sessions[k] # NoSession
                      /\ sessions[k].start = StartOf(events)
                      /\ sessions[k].end = EndOf(events)
  <2>1. Describes(sessions[k], EventsOf(processed, k))
    BY <1>1 DEF IInv, SessionsDescribed
  <2> QED
    BY <2>1, NullAssumption DEF Describes
<1>2. IInv => SessionsDeriveFromProcessed
  BY <1>1 DEF SessionsDeriveFromProcessed
<1> QED
  BY <1>2, Inductive, PTL

LEMMA StoredSession ==
    ASSUME IInv, NEW k \in SessionKey, sessions[k] # NoSession
    PROVE  /\ EventsOf(processed, k) \subseteq Heartbeat
           /\ EventsOf(processed, k) # {}
           /\ Describes(sessions[k], EventsOf(processed, k))
<1>1. Describes(sessions[k], EventsOf(processed, k))
  BY DEF IInv, SessionsDescribed
<1>2. EventsOf(processed, k) # {}
  BY <1>1 DEF Describes
<1>3. EventsOf(processed, k) \subseteq Heartbeat
  BY DEF IInv, TypeOK, EventsOf
<1> QED
  BY <1>1, <1>2, <1>3

\* A session that has ended, its duration included, is what one run over all
\* its heartbeats would have built.
THEOREM ClosedSessionsRecomputable == Spec => []ClosedSessionIsRecomputable
<1>1. IInv => ClosedSessionIsRecomputable
  BY StoredSession, ClosedIsBuilt DEF ClosedSessionIsRecomputable
<1> QED
  BY <1>1, Inductive, PTL

\* Sessions of states that do not overlap, open or closed, together count no
\* more time than there is from their first heartbeat to their last.
THEOREM DurationsWithinSpan == Spec => []NeverOverReports
<1>1. ASSUME IInv, NEW keys \in (SUBSET StoredKeys) \ {{}}, IsFiniteSet(keys),
             OneAfterAnother({h \in processed : KeyOf(h) \in keys})
      PROVE  SumFunction([k \in keys |-> sessions[k].duration])
                <= Max(Timestamps({h \in processed : KeyOf(h) \in keys}))
                     - Min(Timestamps({h \in processed : KeyOf(h) \in keys}))
  <2> DEFINE events == {h \in processed : KeyOf(h) \in keys}
             len == [k \in keys |-> sessions[k].duration]
             lo == [k \in keys |-> StartOf(EventsOf(events, k))]
             hi == [k \in keys |-> Max(Timestamps(EventsOf(events, k)))]
             a == StartOf(events)
             b == Max(Timestamps(events))
  <2>1. events \subseteq Heartbeat
    BY <1>1 DEF IInv, TypeOK
  <2>2. ASSUME NEW k \in keys
        PROVE  /\ EventsOf(events, k) \subseteq events
               /\ EventsOf(events, k) # {}
               /\ k \in KeysOf(events)
               /\ Describes(sessions[k], EventsOf(events, k))
    <3>1. k \in SessionKey /\ sessions[k] # NoSession
      BY <1>1 DEF StoredKeys
    <3>2. EventsOf(events, k) = EventsOf(processed, k)
      BY DEF EventsOf
    <3>3. /\ EventsOf(processed, k) # {}
          /\ Describes(sessions[k], EventsOf(processed, k))
      BY <1>1, <3>1, StoredSession
    <3> QED
      BY <3>2, <3>3 DEF EventsOf, KeysOf
  <2>3. events # {}
    BY <1>1, <2>2
  <2> HIDE DEF events
  <2>4. /\ a \in Timestamps(events) /\ b \in Timestamps(events)
        /\ Timestamps(events) \subseteq Nat
        /\ \A t \in Timestamps(events) : a <= t /\ t <= b
    BY <2>1, <2>3, SpanOfTimes
  <2>5. ASSUME NEW k \in keys
        PROVE  /\ lo[k] \in Timestamps(EventsOf(events, k))
               /\ hi[k] \in Timestamps(EventsOf(events, k))
               /\ Timestamps(EventsOf(events, k)) \subseteq Timestamps(events)
    <3>1. EventsOf(events, k) \subseteq Heartbeat /\ EventsOf(events, k) # {}
      BY <2>1, <2>2
    <3> QED
      BY <2>2, <3>1, SpanOfTimes DEF Timestamps
  <2>6. ASSUME NEW k \in keys
        PROVE  /\ len[k] \in Nat /\ lo[k] \in Nat /\ hi[k] \in Nat
               /\ len[k] <= hi[k] - lo[k]
               /\ a <= lo[k] /\ hi[k] <= b
    BY <2>2, <2>4, <2>5 DEF Describes, SessionRow, StartOf
  <2>7. ASSUME NEW j \in keys, NEW k \in keys, j # k
        PROVE  hi[j] <= lo[k] \/ hi[k] <= lo[j]
    BY <1>1, <2>2, <2>5, <2>7 DEF OneAfterAnother, events
  <2>8. a \in Nat /\ b \in Nat /\ a <= b
    BY <2>4
  <2>9. SumFunctionOnSet(len, keys) <= b - a
    <3> HIDE DEF len, lo, hi, a, b
    <3> QED
      BY <1>1, <2>6, <2>7, <2>8, StretchesAddUp
  <2>10. SumFunction(len) = SumFunctionOnSet(len, keys)
    BY DEF SumFunction
  <2> QED
    BY <2>9, <2>10 DEF StartOf, events
<1>2. IInv => NeverOverReports
  BY <1>1 DEF NeverOverReports
<1> QED
  BY <1>2, Inductive, PTL

LEMMA ProcessedGrows ==
    ASSUME IInv, [Next]_vars
    PROVE  processed \subseteq processed'
BY DEF Next, Ingest, Claim, UpsertRow, Commit, Crash, DeadlockAbort,
       Rollback, vars

LEMMA MoreEventsGrow ==
    ASSUME NEW k, NEW A, NEW B, A # {}, A \subseteq B,
           B \subseteq EventsOf(Heartbeat, k)
    PROVE  /\ StartOf(B) <= StartOf(A)
           /\ EndOf(A) # NoTime => EndOf(B) = EndOf(A)
<1>1. A \subseteq Heartbeat /\ B \subseteq Heartbeat /\ B # {}
  BY DEF EventsOf
<1>2. Timestamps(A) \subseteq Timestamps(B)
  BY DEF Timestamps
<1>3. StartOf(B) <= StartOf(A)
  BY <1>1, <1>2, SpanOfTimes
<1>4. ASSUME EndOf(A) # NoTime  PROVE EndOf(B) = EndOf(A)
  <2>1. EndTimestamps(A) \subseteq EndTimestamps(B)
    BY DEF EndTimestamps, Timestamps
  <2>2. EndTimestamps(B) \subseteq EndTimestamps(EventsOf(Heartbeat, k))
    BY DEF EndTimestamps, Timestamps
  <2>3. EndOf(A) \in EndTimestamps(A)
    BY <1>1, <1>4, EndOfIsTime
  <2>4. EndOf(B) \in EndTimestamps(B)
    BY <1>1, <2>1, <2>3, EndOfIsTime
  <2> QED
    BY <2>1, <2>2, <2>3, <2>4, OneEndTimestamp
<1> QED
  BY <1>3, <1>4

LEMMA SessionGrowsStep ==
    ASSUME IInv, IInv', [Next]_vars, NEW k \in SessionKey,
           sessions[k] # NoSession
    PROVE  /\ sessions'[k] # NoSession
           /\ sessions'[k].start <= sessions[k].start
           /\ sessions[k].end # NoTime => sessions'[k].end = sessions[k].end
<1> DEFINE A == EventsOf(processed, k)
           B == EventsOf(processed', k)
<1>1. A # {} /\ Describes(sessions[k], A)
  BY StoredSession
<1>2. Describes(sessions'[k], B)
  BY DEF IInv, SessionsDescribed
<1>3. A \subseteq B /\ B \subseteq EventsOf(Heartbeat, k)
  BY ProcessedGrows DEF IInv, TypeOK, EventsOf
<1>4. /\ sessions[k].start = StartOf(A) /\ sessions[k].end = EndOf(A)
      /\ sessions'[k].start = StartOf(B) /\ sessions'[k].end = EndOf(B)
      /\ sessions'[k] \in SessionRow
  BY <1>1, <1>2, <1>3 DEF Describes
<1> QED
  BY <1>1, <1>3, <1>4, MoreEventsGrow, NullAssumption

\* A committed session is never deleted or started later, and keeps its end.
THEOREM SessionsGrow == Spec => SessionsOnlyGrow
<1>1. IInv /\ IInv' /\ [Next]_vars =>
        [\A k \in SessionKey :
          sessions[k] # NoSession =>
              /\ sessions'[k] # NoSession
              /\ sessions'[k].start <= sessions[k].start
              /\ sessions[k].end # NoTime => sessions'[k].end = sessions[k].end
        ]_vars
  BY SessionGrowsStep
<1> QED
  BY <1>1, Inductive, PTL DEF Spec, SessionsOnlyGrow

-----------------------------------------------------------------------------
(* No circle of waits *)

\* A batch reaches the rows in the order of its keys.
RowsInOrder ==
    \A w \in Workers :
        \A j \in Written(w), k \in KeysOf(batch[w]) \ Written(w) :
            EarlierKey(batch[w], j, k)

LEMMA RowsInOrderStep ==
    ASSUME IInv, RowsInOrder, [Next]_vars
    PROVE  RowsInOrder'
<1> USE DEF RowsInOrder
<1>1. CASE UNCHANGED <<batch, draft>>
  BY <1>1 DEF Written
<1>2. ASSUME NEW w \in Workers, Claim(w)  PROVE RowsInOrder'
  <2>1. Written(w) = {}
    BY <1>2 DEF Claim, IInv, DraftsCurrent, KeysOf
  <2>2. \A v \in Workers : Written(v)' = Written(v)
    BY <1>2 DEF Claim, Written
  <2>3. \A v \in Workers : v # w => batch'[v] = batch[v]
    BY <1>2 DEF Claim, IInv, TypeOK
  <2> QED
    BY <2>1, <2>2, <2>3
<1>3. ASSUME NEW w \in Workers, NEW k \in SessionKey, UpsertRow(w, k)
      PROVE  RowsInOrder'
  <2>1. /\ \A j \in KeysOf(batch[w]) \ Written(w) :
              j # k => EarlierKey(batch[w], k, j)
        /\ batch' = batch
    BY <1>3 DEF UpsertRow, IsNextRow
  <2>2. \A v \in Workers, j \in SessionKey :
            v # w \/ j # k => draft'[v][j] = draft[v][j]
    BY <1>3 DEF UpsertRow, IInv, TypeOK
  <2>3. \A v \in Workers : \A j \in SessionKey :
            v # w \/ j # k => (j \in Written(v)' <=> j \in Written(v))
    BY <2>2 DEF Written
  <2>4. ASSUME NEW v \in Workers, NEW i \in Written(v)',
               NEW j \in KeysOf(batch[v]) \ Written(v)'
        PROVE  EarlierKey(batch[v], i, j)
    <3>1. i \in SessionKey /\ j \in SessionKey
      BY <2>4, KeyFacts DEF Written, IInv, TypeOK
    <3>2. k \in Written(w)'
      <4>1. k \in KeysOf(batch[w]) /\ EventsOf(processed \cup batch[w], k) # {}
        BY <1>3 DEF UpsertRow, IsNextRow, KeysOf, EventsOf
      <4>2. draft'[w][k] = UpsertSession(sessions[k],
                                         BuildSession(EventsOf(batch[w], k)))
        BY <1>3 DEF UpsertRow, IInv, TypeOK
      <4>3. draft'[w][k] # NoSession
        BY <4>1, <4>2, DraftDescribes, NullAssumption DEF Describes
      <4> QED
        BY <4>3 DEF Written
    <3>3. v = w => j # k
      BY <2>4, <3>2
    <3>4. j \in KeysOf(batch[v]) \ Written(v)
      BY <2>3, <2>4, <3>1, <3>3
    <3>5. CASE v = w /\ i = k
      BY <2>1, <3>3, <3>4, <3>5
    <3>6. CASE ~(v = w /\ i = k)
      BY <2>3, <2>4, <3>1, <3>4, <3>6
    <3> QED
      BY <3>5, <3>6
  <2> QED
    BY <2>1, <2>4
<1>4. ASSUME NEW w \in Workers, Commit(w) \/ Rollback(w)  PROVE RowsInOrder'
  <2>1. /\ batch'[w] = {}
        /\ \A v \in Workers \ {w} :
              batch'[v] = batch[v] /\ Written(v)' = Written(v)
    BY <1>4 DEF Commit, Rollback, IInv, TypeOK, Written
  <2> QED
    BY <2>1 DEF KeysOf
<1> QED
  BY <1>1, <1>2, <1>3, <1>4 DEF Next, Ingest, Crash, DeadlockAbort, vars

\* Any set of heartbeats has a first one.
LEMMA FirstHeartbeat ==
    ASSUME NEW S, S \subseteq Heartbeat, S # {}
    PROVE  \E h \in S : \A g \in S : ~Before(g, h)
<1>1. \A h \in S : h.device \in Nat /\ h.timestamp \in Nat /\ h.id \in Nat
  BY HeartbeatAssumption, BoundAssumption DEF HeartbeatRow, Time
<1>2. PICK d \in {h.device : h \in S} : \A e \in {h.device : h \in S} : d <= e
  <2>1. {h.device : h \in S} \subseteq Nat /\ {h.device : h \in S} # {}
    BY <1>1
  <2> QED
    BY <2>1, LeastOfNaturals
<1> DEFINE OfDevice == {h \in S : h.device = d}
<1>3. PICK t \in {h.timestamp : h \in OfDevice} :
          \A e \in {h.timestamp : h \in OfDevice} : t <= e
  <2>1. {h.timestamp : h \in OfDevice} \subseteq Nat
        /\ {h.timestamp : h \in OfDevice} # {}
    BY <1>1, <1>2
  <2> QED
    BY <2>1, LeastOfNaturals
<1> DEFINE AtTime == {h \in OfDevice : h.timestamp = t}
<1>4. PICK n \in {h.id : h \in AtTime} : \A e \in {h.id : h \in AtTime} : n <= e
  <2>1. {h.id : h \in AtTime} \subseteq Nat /\ {h.id : h \in AtTime} # {}
    BY <1>1, <1>3
  <2> QED
    BY <2>1, LeastOfNaturals
<1>5. PICK h \in AtTime : h.id = n
  BY <1>4
<1>6. ASSUME NEW g \in S  PROVE ~Before(g, h)
  <2>1. h.device <= g.device
    BY <1>2, <1>5
  <2>2. g.device = h.device => h.timestamp <= g.timestamp
    BY <1>3, <1>5
  <2>3. g.device = h.device /\ g.timestamp = h.timestamp => h.id <= g.id
    BY <1>4, <1>5
  <2> QED
    BY <1>1, <1>5, <2>1, <2>2, <2>3 DEF Before
<1> QED
  BY <1>5, <1>6

\* In a circle take the heartbeat that is first among those of the rows waited
\* for: whoever waits for its worker waits for a row that comes before.
LEMMA NoCircle ==
    ASSUME IInv, RowsInOrder, StatesApart,
           NEW w \in Workers, InWaitCycle(w)
    PROVE  FALSE
<1>1. PICK cycle \in SUBSET Workers :
          /\ w \in cycle
          /\ \A v \in cycle :
                /\ \E u \in cycle : WaitsFor(v, u)
                /\ \E u \in cycle : WaitsFor(u, v)
  BY DEF InWaitCycle
<1> DEFINE Awaited(v) == {h \in batch[v] : IsNextRow(v, KeyOf(h))}
           All == UNION {Awaited(v) : v \in cycle}
<1>2. \A v \in Workers : batch[v] \subseteq heartbeats /\ batch[v] \subseteq Heartbeat
  BY DEF IInv, TypeOK, BatchesPending
<1>3. ASSUME NEW v \in Workers, NEW k, IsNextRow(v, k)
      PROVE  \E h \in Awaited(v) : KeyOf(h) = k
  BY <1>3 DEF IsNextRow, KeysOf
<1>4. All \subseteq Heartbeat
  BY <1>2
<1>5. All # {}
  <2>1. PICK k \in SessionKey : IsNextRow(w, k)
    BY <1>1 DEF WaitsFor
  <2> QED
    BY <1>1, <1>3, <2>1
<1>6. PICK h \in All : \A g \in All : ~Before(g, h)
  <2> HIDE DEF All
  <2> QED
    BY <1>4, <1>5, FirstHeartbeat
<1>7. PICK v \in cycle : h \in Awaited(v)
  BY <1>6
<1>8. PICK u \in cycle, k \in SessionKey : IsNextRow(u, k) /\ k \in Written(v)
  BY <1>1, <1>7 DEF WaitsFor
<1>9. PICK g \in Awaited(u) : KeyOf(g) = k
  BY <1>3, <1>8
<1>10. KeyOf(h) \in KeysOf(batch[v]) \ Written(v) /\ k \in KeysOf(batch[v])
  BY <1>7, <1>8 DEF IsNextRow, IInv, DraftsCurrent
<1>11. PICK e \in EventsOf(batch[v], k) :
          \A f \in EventsOf(batch[v], KeyOf(h)) : Before(e, f)
  BY <1>7, <1>8, <1>10 DEF RowsInOrder, EarlierKey
<1>12. /\ e \in EventsOf(heartbeats, k) /\ g \in EventsOf(heartbeats, k)
       /\ h \in EventsOf(heartbeats, KeyOf(h)) /\ Before(e, h)
       /\ k # KeyOf(h) /\ k \in KeysOf(heartbeats) /\ KeyOf(h) \in KeysOf(heartbeats)
  BY <1>2, <1>7, <1>8, <1>9, <1>10, <1>11 DEF EventsOf, KeysOf
<1>13. ~Before(h, e)
  <2>1. e \in HeartbeatRow /\ h \in HeartbeatRow
    BY <1>2, <1>4, <1>6, <1>11, HeartbeatAssumption DEF EventsOf
  <2> QED
    BY <1>12, <2>1, BoundAssumption DEF Before, HeartbeatRow, Time
<1>14. Before(g, h)
  BY <1>12, <1>13 DEF StatesApart, Apart
<1>15. g \in All
  BY <1>8, <1>9
<1> QED
  BY <1>6, <1>14, <1>15

\* While the states of the stored heartbeats are apart no tasks wait for each
\* other in a circle, so that PostgreSQL has nothing to abort.
THEOREM NeverDeadlocked == Spec => []NoWaitCycle
<1>1. Init => RowsInOrder
  BY DEF Init, RowsInOrder, KeysOf
<1>2. IInv /\ RowsInOrder => NoWaitCycle
  BY NoCircle DEF NoWaitCycle
<1> QED
  BY <1>1, <1>2, RowsInOrderStep, Inductive, PTL DEF Spec

-----------------------------------------------------------------------------
(* Progress *)

\* A worker has something to do, and nothing keeps it from doing it: the guards
\* of Claim (which must find a row), Commit and UpsertRow.
CanGoOn(w) ==
    \/ batch[w] = {} /\ FirstRows(Claimable) # {}
    \/ batch[w] # {} /\ KeysOf(batch[w]) = Written(w)
    \/ \E k \in SessionKey : IsNextRow(w, k) /\ ~LockedByOther(w, k)

\* While heartbeats are pending some worker can go on, unless PostgreSQL has to
\* abort one; and it never has to while the states are apart.
NobodyStuck ==
    heartbeats # processed =>
        /\ \E w \in Workers : CanGoOn(w) \/ InWaitCycle(w)
        /\ StatesApart => \E w \in Workers : CanGoOn(w)

LEMMA FirstRowExists ==
    ASSUME IInv, Claimable # {}
    PROVE  FirstRows(Claimable) # {}
<1>1. Claimable \subseteq Heartbeat
  BY DEF Claimable, IInv, TypeOK
<1>2. PICK h \in Claimable : \A g \in Claimable : ~Before(g, h)
  BY <1>1, FirstHeartbeat
<1>3. {g \in Claimable : Before(g, h)} = {}
  BY <1>2
<1>4. Cardinality({g \in Claimable : Before(g, h)}) < BatchLimit
  BY <1>3, FS_EmptySet, LimitAssumption
<1> QED
  BY <1>4 DEF FirstRows

\* A worker that has not written all its rows has a next one.
LEMMA NextRowExists ==
    ASSUME IInv, NEW w \in Workers, KeysOf(batch[w]) # Written(w)
    PROVE  \E k \in SessionKey : IsNextRow(w, k)
<1> DEFINE left == {h \in batch[w] : KeyOf(h) \notin Written(w)}
<1>1. batch[w] \subseteq Heartbeat /\ Written(w) \subseteq KeysOf(batch[w])
  BY DEF IInv, TypeOK, DraftsCurrent
<1>2. left \subseteq Heartbeat /\ left # {}
  BY <1>1 DEF KeysOf
<1>3. PICK h \in left : \A g \in left : ~Before(g, h)
  <2> HIDE DEF left
  <2> QED
    BY <1>2, FirstHeartbeat
<1>4. KeyOf(h) \in KeysOf(batch[w]) \ Written(w) /\ KeyOf(h) \in SessionKey
  BY <1>1 DEF KeysOf, SessionKey
<1>5. ASSUME NEW g \in left, KeyOf(g) # KeyOf(h)  PROVE Before(h, g)
  <2>1. g \in HeartbeatRow /\ h \in HeartbeatRow /\ g.id # h.id
    BY <1>2, <1>5, HeartbeatAssumption, UniqueIdAssumption
  <2> QED
    BY <1>3, <1>5, <2>1, BoundAssumption DEF Before, HeartbeatRow, Time
<1>6. ASSUME NEW j \in KeysOf(batch[w]) \ Written(w), j # KeyOf(h)
      PROVE  EarlierKey(batch[w], KeyOf(h), j)
  <2>1. h \in EventsOf(batch[w], KeyOf(h))
    BY DEF EventsOf
  <2>2. \A g \in EventsOf(batch[w], j) : g \in left /\ KeyOf(g) # KeyOf(h)
    BY <1>6 DEF EventsOf
  <2> HIDE DEF left
  <2> QED
    BY <1>5, <2>1, <2>2 DEF EarlierKey
<1> QED
  BY <1>4, <1>6 DEF IsNextRow

\* In a finite set whose members all wait for one another there is a circle: the
\* smallest such set, as a worker nobody waits for could be left out.
LEMMA CircleExists ==
    ASSUME NEW S \in SUBSET Workers, S # {}, \A v \in S : \E u \in S : WaitsFor(v, u)
    PROVE  \E w \in Workers : InWaitCycle(w)
<1> DEFINE Bad == {T \in SUBSET S : T # {} /\ \A v \in T : \E u \in T : WaitsFor(v, u)}
<1>1. PICK T \in Bad : \A U \in SUBSET T : U # T => U \notin Bad
  <2>1. IsFiniteSet(S) /\ Bad \subseteq SUBSET S /\ Bad # {}
    BY WorkersAssumption, FS_Subset
  <2> HIDE DEF Bad
  <2> QED
    BY <2>1, SmallestSubset
<1>2. ASSUME NEW v \in T  PROVE \E u \in T : WaitsFor(u, v)
  <2> SUFFICES ASSUME \A u \in T : ~WaitsFor(u, v) PROVE FALSE
    OBVIOUS
  <2> DEFINE U == T \ {v}
  <2>1. \A u \in U : \E x \in U : WaitsFor(u, x)
    OBVIOUS
  <2>2. U # {}
    <3>1. PICK u \in T : WaitsFor(v, u)
      BY <1>2
    <3>2. u # v
      BY <3>1 DEF WaitsFor
    <3> QED
      BY <3>2
  <2>3. U \in SUBSET T /\ U # T /\ U \in Bad
    BY <1>2, <2>1, <2>2
  <2> QED
    BY <1>1, <2>3
<1>3. PICK w \in T : TRUE
  OBVIOUS
<1> QED
  BY <1>2, <1>3 DEF InWaitCycle

LEMMA SomebodyGoesOn ==
    ASSUME IInv, heartbeats # processed
    PROVE  \E w \in Workers : CanGoOn(w) \/ InWaitCycle(w)
<1> SUFFICES ASSUME \A w \in Workers : ~CanGoOn(w)
             PROVE  \E w \in Workers : InWaitCycle(w)
  OBVIOUS
<1> DEFINE Busy == {w \in Workers : batch[w] # {}}
<1>1. Busy # {}
  <2> SUFFICES ASSUME Busy = {} PROVE FALSE
    OBVIOUS
  <2>1. Claimable # {}
    <3>1. \A w \in Workers : batch[w] = {}
      OBVIOUS
    <3>2. Claimed = {}
      BY <3>1 DEF Claimed
    <3> QED
      BY <3>2 DEF Claimable, IInv, TypeOK
  <2>2. PICK w \in Workers : CanGoOn(w)
    BY <2>1, FirstRowExists, WorkersAssumption DEF CanGoOn
  <2> QED
    BY <2>2
<1>2. ASSUME NEW v \in Busy  PROVE \E u \in Busy : WaitsFor(v, u)
  <2>1. PICK k \in SessionKey : IsNextRow(v, k)
    BY NextRowExists DEF CanGoOn
  <2>2. PICK u \in Workers \ {v} : k \in Written(u)
    BY <2>1 DEF CanGoOn, LockedByOther
  <2>3. batch[u] # {}
    BY <2>2 DEF IInv, DraftsCurrent, KeysOf
  <2> QED
    BY <2>1, <2>2, <2>3 DEF WaitsFor
<1> HIDE DEF Busy
<1> QED
  <2>1. Busy \in SUBSET Workers
    BY DEF Busy
  <2> QED
    BY <1>1, <1>2, <2>1, CircleExists

\* What liveness rests on, however many workers there are: waiting for rows
\* never brings sessionization to a standstill.
THEOREM SomebodyCanGoOn == Spec => []NobodyStuck
<1>1. IInv /\ NoWaitCycle => NobodyStuck
  BY SomebodyGoesOn DEF NobodyStuck, NoWaitCycle
<1> QED
  BY <1>1, Inductive, NeverDeadlocked, PTL

-----------------------------------------------------------------------------
(* Refinement *)

\* The abstract specification derives with the same operators.
LEMMA SameOperators ==
    /\ Log!SessionKey = SessionKey
    /\ \A events, k : Log!EventsOf(events, k) = EventsOf(events, k)
    /\ \A events : Log!StartOf(events) = StartOf(events)
    /\ \A events : Log!EndOf(events) = EndOf(events)
<1>1. \A h : Log!KeyOf(h) = KeyOf(h)
  BY DEF KeyOf, Log!KeyOf
<1>2. \A S : Log!Min(S) = Min(S)
  BY DEF Min, Log!Min
<1>3. \A events : Log!Timestamps(events) = Timestamps(events)
  BY DEF Timestamps, Log!Timestamps
<1>4. \A events : Log!EndTimestamps(events) = EndTimestamps(events)
  BY <1>3 DEF EndTimestamps, Log!EndTimestamps
<1> QED
  BY <1>1, <1>2, <1>3, <1>4
  DEF SessionKey, Log!SessionKey, EventsOf, Log!EventsOf,
      StartOf, Log!StartOf, EndOf, Log!EndOf

MappedIsDerived ==
    [k \in SessionKey |-> Stretch(sessions[k])] = Log!Derived(processed)

\* The mapped stretches are the derived ones.
LEMMA MappedStretch == IInv => MappedIsDerived
<1> SUFFICES ASSUME IInv PROVE MappedIsDerived
  OBVIOUS
<1>1. ASSUME NEW k \in SessionKey
      PROVE  Stretch(sessions[k]) = Log!StretchOf(EventsOf(processed, k))
  <2>1. Describes(sessions[k], EventsOf(processed, k))
    BY <1>1 DEF IInv, SessionsDescribed
  <2>2. Log!StretchOf(EventsOf(processed, k)) =
           IF EventsOf(processed, k) = {} THEN NoSession
           ELSE [start |-> StartOf(EventsOf(processed, k)),
                 end |-> EndOf(EventsOf(processed, k))]
    BY SameOperators DEF Log!StretchOf
  <2> QED
    BY <2>1, <2>2, NullAssumption DEF Describes, Stretch
<1>2. Log!Derived(processed) =
          [k \in SessionKey |-> Log!StretchOf(EventsOf(processed, k))]
  BY SameOperators DEF Log!Derived
<1> QED
  BY <1>1, <1>2 DEF MappedIsDerived

\* Every behaviour of the workers is one of the abstract log, its fairness
\* apart (that is left to TLC).
THEOREM RefinesSessionLog == Spec => Log!Init /\ [][Log!Next]_Log!vars
<1>1. Init => Log!Init
  <2> SUFFICES ASSUME Init PROVE Log!Init
    OBVIOUS
  <2>1. [k \in SessionKey |-> Stretch(sessions[k])] = Log!Derived({})
    BY InitIInv, MappedStretch DEF Init, MappedIsDerived
  <2> QED
    BY <2>1 DEF Init, Log!Init
<1>2. IInv' => MappedIsDerived'
  BY MappedStretch, PTL
<1>3. IInv /\ IInv' /\ [Next]_vars => [Log!Next]_Log!vars
  <2> SUFFICES ASSUME IInv, IInv', [Next]_vars
               PROVE  [Log!Next]_Log!vars
    OBVIOUS
  <2>1. [k \in SessionKey |-> Stretch(sessions[k])]' = Log!Derived(processed')
    BY <1>2 DEF MappedIsDerived
  <2>2. ASSUME NEW rows \in SUBSET Heartbeat, Ingest(rows)
        PROVE  Log!Store(rows)
    BY <2>2 DEF Ingest, Log!Store
  <2>3. ASSUME NEW w \in Workers, Commit(w)
        PROVE  batch[w] \in SUBSET (heartbeats \ processed) /\ Log!Absorb(batch[w])
    BY <2>1, <2>3 DEF Commit, Log!Absorb, IInv, BatchesPending
  <2>4. ASSUME NEW w \in Workers,
               \/ Claim(w) \/ Crash(w) \/ DeadlockAbort(w)
               \/ \E k \in SessionKey : UpsertRow(w, k)
        PROVE  UNCHANGED Log!vars
    BY <2>4 DEF Claim, Crash, DeadlockAbort, Rollback, UpsertRow, Log!vars
  <2>5. CASE UNCHANGED vars
    BY <2>5 DEF vars, Log!vars
  <2> QED
    BY <2>2, <2>3, <2>4, <2>5 DEF Next, Log!Next
<1> QED
  BY <1>1, <1>3, Inductive, PTL DEF Spec
=============================================================================
