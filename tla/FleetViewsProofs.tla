------------------------- MODULE FleetViewsProofs -------------------------
(***************************************************************************)
(* What the pages of FleetViews count and sum up, for fleets of any size.  *)
(* The sums are folds over sets; what they come to is proved by induction  *)
(* on the subsets of a finite set, as the smallest subset on which a claim *)
(* fails (theorem WFMin of WellFoundedInduction).                          *)
(***************************************************************************)
EXTENDS FleetViews, FiniteSetTheorems, SequenceTheorems, WellFoundedInduction, TLAPS

-----------------------------------------------------------------------------
(* Induction *)

\* Induction on the subsets of a finite set: the smallest one that is not in T
LEMMA SubsetInduction ==
    ASSUME NEW S, IsFiniteSet(S), NEW T,
           \A A \in SUBSET S : (\A B \in SUBSET A : B # A => B \in T) => A \in T
    PROVE  \A A \in SUBSET S : A \in T
<1> DEFINE R == StrictSubsetOrdering(S)
           U == { A \in SUBSET S : A \notin T }
<1> SUFFICES ASSUME U # {} PROVE FALSE
    OBVIOUS
<1>0. FiniteSubsetsOf(S) = SUBSET S
    BY ONLY IsFiniteSet(S), FS_FiniteSubsetsOfFinite
<1>1. IsWellFoundedOn(R, SUBSET S)
    BY ONLY <1>0, FS_StrictSubsetOrderingWellFounded
<1>2. U \subseteq SUBSET S
    OBVIOUS
<1> HIDE DEF R, U
<1>3. PICK A \in U : \A B \in U : <<B, A>> \notin R
    BY <1>1, <1>2, WFMin
<1>4. A \in SUBSET S /\ A \notin T
    BY <1>3 DEF U
<1>5. ASSUME NEW B \in SUBSET A, B # A PROVE B \in T
    BY <1>3, <1>4, <1>5 DEF R, U, StrictSubsetOrdering
<1> QED BY <1>4, <1>5

\* Induction on the natural numbers, as the sizes of the subsets of 1..n
LEMMA SetOfNaturals ==
    ASSUME NEW T, 0 \in T, \A k \in Nat : k \in T => k + 1 \in T
    PROVE  Nat \subseteq T
<1> SUFFICES ASSUME NEW n \in Nat PROVE n \in T
    OBVIOUS
<1> DEFINE S == 1..n
           V == { A \in SUBSET S : Cardinality(A) \in T }
<1>1. IsFiniteSet(S) /\ Cardinality(S) = n
    BY FS_Interval
<1>2. ASSUME NEW A \in SUBSET S, \A B \in SUBSET A : B # A => B \in V
      PROVE  A \in V
  <2>1. CASE A = {}
      BY <2>1, FS_EmptySet
  <2>2. CASE A # {}
    <3>1. PICK x \in A : TRUE
        BY <2>2
    <3>2. A \ { x } \in V
        BY <1>2
    <3>3. IsFiniteSet(A)
        BY <1>1, FS_Subset
    <3>4. Cardinality(A) \in Nat /\ Cardinality(A \ { x }) = Cardinality(A) - 1
          /\ Cardinality(A \ { x }) \in Nat
        BY <3>1, <3>3, FS_RemoveElement, FS_CardinalityType
    <3>5. Cardinality(A) = Cardinality(A \ { x }) + 1
        BY <3>4
    <3> QED BY <3>2, <3>4, <3>5
  <2> QED BY <2>1, <2>2
<1> HIDE DEF S, V
<1>3. S \in V
    BY <1>1, <1>2, SubsetInduction
<1> QED BY <1>1, <1>3 DEF V

-----------------------------------------------------------------------------
\* The member of a set that a fold takes first
Pick(s) == CHOOSE x \in s : TRUE

\* g is the table of the sums of f over the subsets of S, as a fold fills it.
SumTable(g, f, S) ==
    g = [s \in SUBSET S |-> IF s = {} THEN 0 ELSE f[Pick(s)] + g[s \ { Pick(s) }]]

\* A set with members has a first one.
LEMMA PickIsThere == ASSUME NEW s, s # {} PROVE Pick(s) \in s
BY DEF Pick

\* There is such a table: by induction on the size of the subsets it is for.
LEMMA SumTableIsThere ==
    ASSUME NEW f, NEW S, IsFiniteSet(S)
    PROVE  \E g : SumTable(g, f, S)
<1> DEFINE Small(k) == { s \in SUBSET S : Cardinality(s) <= k }
           Partly(g, k) ==
             g = [s \in Small(k) |-> IF s = {} THEN 0 ELSE f[Pick(s)] + g[s \ { Pick(s) }]]
           T == { k \in Nat : \E g : Partly(g, k) }
<1>0. ASSUME NEW s \in SUBSET S PROVE IsFiniteSet(s) /\ Cardinality(s) \in Nat
    BY FS_Subset, FS_CardinalityType
<1>1. 0 \in T
  <2>1. ASSUME NEW s \in Small(0) PROVE s = {}
      BY <1>0, FS_EmptySet
  <2>2. Partly([s \in Small(0) |-> 0], 0)
      BY <2>1
  <2> QED BY <2>2
<1>2. ASSUME NEW k \in Nat, k \in T PROVE k + 1 \in T
  <2>1. PICK g : Partly(g, k)
      BY <1>2
  <2> DEFINE h == [s \in Small(k + 1) |->
                     IF s \in Small(k) THEN g[s] ELSE f[Pick(s)] + g[s \ { Pick(s) }]]
  <2>2. ASSUME NEW s \in Small(k + 1), s # {}
        PROVE  s \ { Pick(s) } \in Small(k) /\ s \ { Pick(s) } \in Small(k + 1)
    <3>1. Pick(s) \in s /\ IsFiniteSet(s) /\ Cardinality(s) \in Nat /\ Cardinality(s) <= k + 1
        BY <1>0, <2>2, PickIsThere
    <3>2. Cardinality(s \ { Pick(s) }) = Cardinality(s) - 1
        BY <3>1, FS_RemoveElement
    <3> QED BY <3>1, <3>2
  <2>3. {} \in Small(k)
      BY FS_EmptySet
  <2> HIDE DEF Small
  <2>4. ASSUME NEW s \in Small(k + 1)
        PROVE  h[s] = IF s = {} THEN 0 ELSE f[Pick(s)] + h[s \ { Pick(s) }]
    <3>1. CASE s = {}
        BY <2>1, <2>3, <3>1
    <3>2. CASE s # {}
      <4>1. h[s \ { Pick(s) }] = g[s \ { Pick(s) }]
          BY <2>2, <3>2
      <4>2. h[s] = f[Pick(s)] + g[s \ { Pick(s) }]
        <5>1. CASE s \in Small(k)
          <6>1. g[s] = f[Pick(s)] + g[s \ { Pick(s) }]
              BY <2>1, <3>2, <5>1
          <6> QED BY <5>1, <6>1
        <5>2. CASE s \notin Small(k)
            BY <5>2
        <5> QED BY <5>1, <5>2
      <4> QED BY <3>2, <4>1, <4>2
    <3> QED BY <3>1, <3>2
  <2>5. Partly(h, k + 1)
      BY <2>4
  <2> HIDE DEF h, Partly
  <2>6. \E q : Partly(q, k + 1)
      BY <2>5
  <2> QED BY <2>6
<1> HIDE DEF T
<1>3. Nat \subseteq T
    BY <1>1, <1>2, SetOfNaturals
<1>4. Cardinality(S) \in T
    BY <1>3, FS_CardinalityType
<1>5. PICK g : Partly(g, Cardinality(S))
    BY <1>4 DEF T
<1>6. Small(Cardinality(S)) = SUBSET S
    BY FS_Subset
<1> QED BY <1>5, <1>6 DEF SumTable


\* A sum is an entry of its table.
LEMMA SumHasTable ==
    ASSUME NEW f, NEW S, IsFiniteSet(S)
    PROVE  \E g : SumTable(g, f, S) /\ SumFunctionOnSet(f, S) = g[S]
<1>1. PICK h : SumTable(h, f, S)
    BY SumTableIsThere
<1>2. h = [s \in SUBSET S |-> IF s = {} THEN 0 ELSE f[Pick(s)] + h[s \ { Pick(s) }]]
    BY <1>1 DEF SumTable
<1> QED BY ONLY <1>2 DEF SumTable, SumFunctionOnSet, FoldFunctionOnSet, MapThenFoldSet, Pick

\* The table of a subset is part of the table of the whole.
LEMMA TablesAgree ==
    ASSUME NEW f, NEW S, IsFiniteSet(S), NEW T \in SUBSET S,
           NEW g, SumTable(g, f, S), NEW h, SumTable(h, f, T)
    PROVE  \A A \in SUBSET T : g[A] = h[A]
<1> DEFINE V == { A \in SUBSET T : g[A] = h[A] }
<1>1. IsFiniteSet(T)
    BY FS_Subset
<1>2. ASSUME NEW A \in SUBSET T, \A B \in SUBSET A : B # A => B \in V
      PROVE  A \in V
  <2>1. CASE A = {}
      BY <2>1 DEF SumTable
  <2>2. CASE A # {}
    <3>1. Pick(A) \in A
        BY <2>2, PickIsThere
    <3>2. A \ { Pick(A) } \in V
        BY <1>2, <3>1
    <3>3. g[A] = f[Pick(A)] + g[A \ { Pick(A) }] /\ h[A] = f[Pick(A)] + h[A \ { Pick(A) }]
        BY <2>2 DEF SumTable
    <3> QED BY <3>2, <3>3
  <2> QED BY <2>1, <2>2
<1> HIDE DEF V
<1>3. \A A \in SUBSET T : A \in V
    BY ONLY <1>1, <1>2, SubsetInduction
<1> QED BY <1>3 DEF V

\* What a sum is: nothing, or the first term and the sum of the others.
LEMMA SumUnfolds ==
    ASSUME NEW f, NEW S, IsFiniteSet(S)
    PROVE  /\ SumFunctionOnSet(f, {}) = 0
           /\ S # {} => SumFunctionOnSet(f, S)
                          = f[Pick(S)] + SumFunctionOnSet(f, S \ { Pick(S) })
<1>1. SumFunctionOnSet(f, {}) = 0
  <2>1. PICK g : SumTable(g, f, {}) /\ SumFunctionOnSet(f, {}) = g[{}]
      BY SumHasTable, FS_EmptySet
  <2> QED BY <2>1 DEF SumTable
<1>2. ASSUME S # {}
      PROVE SumFunctionOnSet(f, S) = f[Pick(S)] + SumFunctionOnSet(f, S \ { Pick(S) })
  <2> DEFINE T == S \ { Pick(S) }
  <2>1. T \in SUBSET S /\ IsFiniteSet(T)
      BY FS_Subset
  <2> HIDE DEF T
  <2>2. PICK g : SumTable(g, f, S) /\ SumFunctionOnSet(f, S) = g[S]
      BY SumHasTable
  <2>3. PICK h : SumTable(h, f, T) /\ SumFunctionOnSet(f, T) = h[T]
      BY <2>1, SumHasTable
  <2>4. g[T] = h[T]
      BY <2>1, <2>2, <2>3, TablesAgree
  <2>5. g[S] = f[Pick(S)] + g[T]
      BY <1>2, <2>2 DEF SumTable, T
  <2> QED BY <2>2, <2>3, <2>4, <2>5 DEF T
<1> QED BY <1>1, <1>2

\* A sum of natural numbers is one.
LEMMA SumIsNatural ==
    ASSUME NEW f, NEW S, IsFiniteSet(S), \A x \in S : f[x] \in Nat
    PROVE  SumFunctionOnSet(f, S) \in Nat
<1> DEFINE V == { A \in SUBSET S : SumFunctionOnSet(f, A) \in Nat }
<1>1. ASSUME NEW A \in SUBSET S, \A B \in SUBSET A : B # A => B \in V
      PROVE  A \in V
  <2>1. IsFiniteSet(A)
      BY ONLY IsFiniteSet(S), A \in SUBSET S, FS_Subset
  <2>2. CASE A = {}
    <3>1. SumFunctionOnSet(f, A) = 0
        BY ONLY <2>1, <2>2, SumUnfolds
    <3> QED BY <3>1
  <2>3. CASE A # {}
    <3>1. Pick(A) \in A
        BY <2>3, PickIsThere
    <3>2. SumFunctionOnSet(f, A \ { Pick(A) }) \in Nat
        BY <1>1, <3>1
    <3>3. f[Pick(A)] \in Nat
        BY <3>1
    <3>4. SumFunctionOnSet(f, A) = f[Pick(A)] + SumFunctionOnSet(f, A \ { Pick(A) })
        BY <2>1, <2>3, SumUnfolds
    <3> QED BY <3>2, <3>3, <3>4
  <2> QED BY <2>2, <2>3
<1> HIDE DEF V
<1>2. \A A \in SUBSET S : A \in V
    BY ONLY IsFiniteSet(S), <1>1, SubsetInduction
<1> QED BY <1>2 DEF V

\* The order in which the fold goes through the set does not matter.
LEMMA SumTakes ==
    ASSUME NEW f, NEW S, IsFiniteSet(S), \A x \in S : f[x] \in Nat, NEW x \in S
    PROVE  SumFunctionOnSet(f, S) = f[x] + SumFunctionOnSet(f, S \ { x })
<1> DEFINE V == { A \in SUBSET S : \A y \in A :
                    SumFunctionOnSet(f, A) = f[y] + SumFunctionOnSet(f, A \ { y }) }
<1>1. ASSUME NEW A \in SUBSET S, \A B \in SUBSET A : B # A => B \in V, NEW y \in A
      PROVE  SumFunctionOnSet(f, A) = f[y] + SumFunctionOnSet(f, A \ { y })
  <2>1. IsFiniteSet(A) /\ A # {}
      BY ONLY IsFiniteSet(S), A \in SUBSET S, y \in A, FS_Subset
  <2>2. PICK z \in A : z = Pick(A)
      BY <2>1, PickIsThere
  <2>3. SumFunctionOnSet(f, A) = f[z] + SumFunctionOnSet(f, A \ { z })
      BY <2>1, <2>2, SumUnfolds
  <2>4. CASE y = z
      BY <2>3, <2>4
  <2>5. CASE y # z
    <3> DEFINE C == (A \ { y }) \ { z }
    <3>1. C = (A \ { z }) \ { y } /\ C \in SUBSET S
        OBVIOUS
    <3>2. A \ { z } \in V /\ y \in A \ { z } /\ A \ { y } \in V /\ z \in A \ { y }
        BY <1>1, <2>2, <2>5
    <3>3. SumFunctionOnSet(f, A \ { z }) = f[y] + SumFunctionOnSet(f, (A \ { z }) \ { y })
        BY <3>2
    <3>4. SumFunctionOnSet(f, A \ { y }) = f[z] + SumFunctionOnSet(f, (A \ { y }) \ { z })
        BY <3>2
    <3> HIDE DEF C
    <3>5. SumFunctionOnSet(f, C) \in Nat
        BY <3>1, SumIsNatural, FS_Subset
    <3>6. f[y] \in Nat /\ f[z] \in Nat
        OBVIOUS
    <3>7. SumFunctionOnSet(f, A \ { z }) = f[y] + SumFunctionOnSet(f, C)
          /\ SumFunctionOnSet(f, A \ { y }) = f[z] + SumFunctionOnSet(f, C)
        BY <3>1, <3>3, <3>4 DEF C
    <3> QED BY <2>3, <3>5, <3>6, <3>7
  <2> QED BY <2>4, <2>5
<1>2. ASSUME NEW A \in SUBSET S, \A B \in SUBSET A : B # A => B \in V
      PROVE  A \in V
    BY <1>1, <1>2
<1> HIDE DEF V
<1>3. \A A \in SUBSET S : A \in V
    BY ONLY IsFiniteSet(S), <1>2, SubsetInduction
<1> QED BY <1>3 DEF V


\* Equal terms have equal sums.
LEMMA SumIsOfTerms ==
    ASSUME NEW f, NEW g, NEW S, IsFiniteSet(S), \A x \in S : f[x] = g[x]
    PROVE  SumFunctionOnSet(f, S) = SumFunctionOnSet(g, S)
<1> DEFINE V == { A \in SUBSET S : SumFunctionOnSet(f, A) = SumFunctionOnSet(g, A) }
<1>1. ASSUME NEW A \in SUBSET S, \A B \in SUBSET A : B # A => B \in V
      PROVE  A \in V
  <2>1. IsFiniteSet(A)
      BY ONLY IsFiniteSet(S), A \in SUBSET S, FS_Subset
  <2>2. CASE A = {}
    <3>1. SumFunctionOnSet(f, A) = 0 /\ SumFunctionOnSet(g, A) = 0
        BY ONLY <2>1, <2>2, SumUnfolds
    <3> QED BY <3>1
  <2>3. CASE A # {}
    <3>1. Pick(A) \in A
        BY <2>3, PickIsThere
    <3>2. A \ { Pick(A) } \in V
        BY <1>1, <3>1
    <3>3. /\ SumFunctionOnSet(f, A) = f[Pick(A)] + SumFunctionOnSet(f, A \ { Pick(A) })
          /\ SumFunctionOnSet(g, A) = g[Pick(A)] + SumFunctionOnSet(g, A \ { Pick(A) })
        BY <2>1, <2>3, SumUnfolds
    <3> QED BY <3>1, <3>2, <3>3
  <2> QED BY <2>2, <2>3
<1> HIDE DEF V
<1>2. \A A \in SUBSET S : A \in V
    BY ONLY IsFiniteSet(S), <1>1, SubsetInduction
<1> QED BY <1>2 DEF V

\* A sum of ones counts.
LEMMA SumCounts ==
    ASSUME NEW f, NEW S, IsFiniteSet(S), \A x \in S : f[x] = 1
    PROVE  SumFunctionOnSet(f, S) = Cardinality(S)
<1> DEFINE V == { A \in SUBSET S : SumFunctionOnSet(f, A) = Cardinality(A) }
<1>1. ASSUME NEW A \in SUBSET S, \A B \in SUBSET A : B # A => B \in V
      PROVE  A \in V
  <2>1. IsFiniteSet(A)
      BY ONLY IsFiniteSet(S), A \in SUBSET S, FS_Subset
  <2>2. CASE A = {}
    <3>1. SumFunctionOnSet(f, A) = 0 /\ Cardinality(A) = 0
        BY ONLY <2>1, <2>2, SumUnfolds, FS_EmptySet
    <3> QED BY <3>1
  <2>3. CASE A # {}
    <3>1. Pick(A) \in A
        BY <2>3, PickIsThere
    <3>2. A \ { Pick(A) } \in V
        BY <1>1, <3>1
    <3>3. SumFunctionOnSet(f, A) = f[Pick(A)] + SumFunctionOnSet(f, A \ { Pick(A) })
        BY <2>1, <2>3, SumUnfolds
    <3>4. Cardinality(A) \in Nat /\ Cardinality(A \ { Pick(A) }) = Cardinality(A) - 1
        BY ONLY <2>1, <3>1, FS_RemoveElement, FS_CardinalityType
    <3> QED BY <3>1, <3>2, <3>3, <3>4
  <2> QED BY <2>2, <2>3
<1> HIDE DEF V
<1>2. \A A \in SUBSET S : A \in V
    BY ONLY IsFiniteSet(S), <1>1, SubsetInduction
<1> QED BY <1>2 DEF V

\* What is apart is summed apart.
LEMMA SumOfTwo ==
    ASSUME NEW f, NEW C, IsFiniteSet(C), NEW D, IsFiniteSet(D), C \cap D = {},
           \A x \in C \cup D : f[x] \in Nat
    PROVE  SumFunctionOnSet(f, C \cup D) = SumFunctionOnSet(f, C) + SumFunctionOnSet(f, D)
<1> DEFINE V == { A \in SUBSET C : SumFunctionOnSet(f, A \cup D)
                                     = SumFunctionOnSet(f, A) + SumFunctionOnSet(f, D) }
<1>0. SumFunctionOnSet(f, D) \in Nat
    BY SumIsNatural
<1>1. ASSUME NEW A \in SUBSET C, \A B \in SUBSET A : B # A => B \in V
      PROVE  A \in V
  <2>1. IsFiniteSet(A)
      BY ONLY IsFiniteSet(C), A \in SUBSET C, FS_Subset
  <2>2. CASE A = {}
    <3>1. SumFunctionOnSet(f, A) = 0 /\ A \cup D = D
        BY ONLY <2>1, <2>2, SumUnfolds
    <3>2. SumFunctionOnSet(f, A \cup D) = SumFunctionOnSet(f, A) + SumFunctionOnSet(f, D)
      <4>1. SumFunctionOnSet(f, A \cup D) = SumFunctionOnSet(f, D)
          BY ONLY <3>1, Zenon
      <4>2. SumFunctionOnSet(f, A) = 0
          BY <3>1
      <4> QED BY ONLY <1>0, <4>1, <4>2
    <3> QED BY <3>2
  <2>3. CASE A # {}
    <3>1. PICK x \in A : TRUE
        BY <2>3
    <3>2. A \ { x } \in V
        BY <1>1, <3>1
    <3>3. /\ IsFiniteSet(A \cup D) /\ x \in A \cup D /\ (A \cup D) \ { x } = (A \ { x }) \cup D
          /\ \A y \in A \cup D : f[y] \in Nat
          /\ IsFiniteSet(A \ { x })
      <4>1. IsFiniteSet(A \cup D) /\ IsFiniteSet(A \ { x })
          BY ONLY <2>1, IsFiniteSet(D), FS_Union, FS_RemoveElement
      <4>2. x \in A \cup D /\ (A \cup D) \ { x } = (A \ { x }) \cup D
          BY <3>1
      <4> QED BY <4>1, <4>2
    <3>4. SumFunctionOnSet(f, A \cup D) = f[x] + SumFunctionOnSet(f, (A \cup D) \ { x })
        BY ONLY <3>3, SumTakes
    <3>5. SumFunctionOnSet(f, A) = f[x] + SumFunctionOnSet(f, A \ { x })
        BY ONLY <2>1, <3>1, <3>3, SumTakes
    <3>6. SumFunctionOnSet(f, A \ { x }) \in Nat /\ f[x] \in Nat
        BY <3>1, <3>3, SumIsNatural
    <3>7. SumFunctionOnSet(f, (A \ { x }) \cup D)
            = SumFunctionOnSet(f, A \ { x }) + SumFunctionOnSet(f, D)
        BY <3>2
    <3>8. SumFunctionOnSet(f, A \cup D) = SumFunctionOnSet(f, A) + SumFunctionOnSet(f, D)
      <4>1. SumFunctionOnSet(f, A \cup D)
              = f[x] + (SumFunctionOnSet(f, A \ { x }) + SumFunctionOnSet(f, D))
          BY ONLY <3>3, <3>4, <3>7, Zenon
      <4> QED BY ONLY <1>0, <3>5, <3>6, <4>1
    <3> QED BY <3>8
  <2> QED BY <2>2, <2>3
<1> HIDE DEF V
<1>2. \A A \in SUBSET C : A \in V
    BY ONLY IsFiniteSet(C), <1>1, SubsetInduction
<1> QED BY <1>2 DEF V

\* The parts of a set, each summed apart, have the sum of the whole.
LEMMA SumOfParts ==
    ASSUME NEW f, NEW D, IsFiniteSet(D), \A x \in D : f[x] \in Nat,
           NEW K, IsFiniteSet(K), NEW h, \A k \in K : h[k] \in SUBSET D,
           \A k \in K, l \in K : k # l => h[k] \cap h[l] = {},
           NEW w, \A k \in K : w[k] = SumFunctionOnSet(f, h[k])
    PROVE  SumFunctionOnSet(w, K) = SumFunctionOnSet(f, UNION { h[k] : k \in K })
<1> DEFINE Whole(A) == UNION { h[k] : k \in A }
           V == { A \in SUBSET K : SumFunctionOnSet(w, A) = SumFunctionOnSet(f, Whole(A)) }
<1>0. ASSUME NEW A \in SUBSET K
      PROVE  IsFiniteSet(A) /\ Whole(A) \in SUBSET D /\ IsFiniteSet(Whole(A))
  <2>1. Whole(A) \in SUBSET D
      OBVIOUS
  <2> HIDE DEF Whole
  <2> QED BY <2>1, FS_Subset
<1>1. ASSUME NEW A \in SUBSET K, \A B \in SUBSET A : B # A => B \in V
      PROVE  A \in V
  <2>1. IsFiniteSet(A)
      BY <1>0
  <2>2. CASE A = {}
    <3>1. Whole(A) = {}
        BY <2>2
    <3> HIDE DEF Whole
    <3>2. SumFunctionOnSet(w, A) = 0 /\ SumFunctionOnSet(f, Whole(A)) = 0
        BY ONLY <2>1, <2>2, <3>1, SumUnfolds
    <3> QED BY <3>2
  <2>3. CASE A # {}
    <3>1. PICK x \in A : x = Pick(A)
        BY <2>3, PickIsThere
    <3> DEFINE B == A \ { x }
    <3>2. B \in SUBSET K /\ B \in V
        BY <1>1, <3>1
    <3>3. Whole(A) = h[x] \cup Whole(B) /\ h[x] \cap Whole(B) = {}
        BY <3>1
    <3>4. h[x] \in SUBSET D
        BY <3>1
    <3> HIDE DEF Whole
    <3>5. SumFunctionOnSet(w, A) = w[x] + SumFunctionOnSet(w, B)
        BY <2>1, <2>3, <3>1, SumUnfolds
    <3>6. w[x] = SumFunctionOnSet(f, h[x])
        BY <3>1
    <3>7. SumFunctionOnSet(w, B) = SumFunctionOnSet(f, Whole(B))
        BY <3>2
    <3> HIDE DEF B
    <3>8. IsFiniteSet(h[x]) /\ IsFiniteSet(Whole(B)) /\ \A y \in h[x] \cup Whole(B) : f[y] \in Nat
        BY <1>0, <3>2, <3>4, FS_Subset
    <3>9. SumFunctionOnSet(f, Whole(A)) = SumFunctionOnSet(f, h[x]) + SumFunctionOnSet(f, Whole(B))
        BY ONLY <3>3, <3>8, SumOfTwo
    <3> QED BY <3>5, <3>6, <3>7, <3>9
  <2> QED BY <2>2, <2>3
<1> HIDE DEF V
<1>2. \A A \in SUBSET K : A \in V
    BY ONLY IsFiniteSet(K), <1>1, SubsetInduction
<1> QED BY <1>2 DEF V

\* The same for sizes
LEMMA SizeOfParts ==
    ASSUME NEW D, IsFiniteSet(D),
           NEW K, IsFiniteSet(K), NEW h, \A k \in K : h[k] \in SUBSET D,
           \A k \in K, l \in K : k # l => h[k] \cap h[l] = {},
           NEW w, \A k \in K : w[k] = Cardinality(h[k])
    PROVE  SumFunctionOnSet(w, K) = Cardinality(UNION { h[k] : k \in K })
<1> DEFINE f == [x \in D |-> 1]
           U == UNION { h[k] : k \in K }
<1>1. \A x \in D : f[x] \in Nat /\ f[x] = 1
    OBVIOUS
<1>2. U \in SUBSET D
    OBVIOUS
<1> HIDE DEF f
<1>3. ASSUME NEW C \in SUBSET D PROVE SumFunctionOnSet(f, C) = Cardinality(C)
    BY <1>1, SumCounts, FS_Subset
<1>4. \A k \in K : w[k] = SumFunctionOnSet(f, h[k])
    BY <1>3
<1>5. SumFunctionOnSet(w, K) = SumFunctionOnSet(f, U)
    BY <1>1, <1>4, SumOfParts
<1> QED BY <1>2, <1>3, <1>5

-----------------------------------------------------------------------------
(* Sums over what is grouped *)

\* What a function makes of a finite set is finite.
LEMMA ImageIsFinite ==
    ASSUME NEW S, IsFiniteSet(S), NEW f
    PROVE  IsFiniteSet({ f[x] : x \in S })
<1> DEFINE T == { f[x] : x \in S }
           g == [x \in S |-> f[x]]
<1>1. g \in Surjection(S, T)
    BY DEF Surjection
<1> HIDE DEF g, T
<1>2. IsFiniteSet(T)
    BY <1>1, FS_Surjection
<1> QED BY <1>2 DEF T

\* The classes of a set by f, each counted, count the set.
LEMMA ClassesCount ==
    ASSUME NEW D, IsFiniteSet(D), NEW f, NEW w,
           DOMAIN w = { f[x] : x \in D },
           \A k \in DOMAIN w : w[k] = Cardinality({ x \in D : f[x] = k })
    PROVE  SumFunction(w) = Cardinality(D)
<1> DEFINE K == DOMAIN w
           h == [k \in K |-> { x \in D : f[x] = k }]
<1>1. IsFiniteSet(K)
    BY ImageIsFinite
<1>2. /\ \A k \in K : h[k] \in SUBSET D /\ w[k] = Cardinality(h[k])
      /\ \A k \in K, l \in K : k # l => h[k] \cap h[l] = {}
    OBVIOUS
<1>3. UNION { h[k] : k \in K } = D
  <2>1. ASSUME NEW x \in D PROVE f[x] \in K /\ x \in h[f[x]]
      OBVIOUS
  <2>2. \A k \in K : h[k] \subseteq D
      BY <1>2
  <2> HIDE DEF K, h
  <2> QED BY <2>1, <2>2
<1> HIDE DEF K, h
<1>4. SumFunctionOnSet(w, K) = Cardinality(UNION { h[k] : k \in K })
    BY ONLY IsFiniteSet(D), <1>1, <1>2, SizeOfParts
<1> QED BY <1>3, <1>4 DEF SumFunction, K

\* The same for any sum, and for classes of any subset
LEMMA ClassesSum ==
    ASSUME NEW D, IsFiniteSet(D), NEW m, \A x \in D : m[x] \in Nat,
           NEW f, NEW w, DOMAIN w = { f[x] : x \in D },
           \A k \in DOMAIN w : w[k] = SumFunctionOnSet(m, { x \in D : f[x] = k })
    PROVE  SumFunction(w) = SumFunctionOnSet(m, D)
<1> DEFINE K == DOMAIN w
           h == [k \in K |-> { x \in D : f[x] = k }]
<1>1. IsFiniteSet(K)
    BY ImageIsFinite
<1>2. /\ \A k \in K : h[k] \in SUBSET D /\ w[k] = SumFunctionOnSet(m, h[k])
      /\ \A k \in K, l \in K : k # l => h[k] \cap h[l] = {}
    OBVIOUS
<1>3. UNION { h[k] : k \in K } = D
  <2>1. ASSUME NEW x \in D PROVE f[x] \in K /\ x \in h[f[x]]
      OBVIOUS
  <2>2. \A k \in K : h[k] \subseteq D
      BY <1>2
  <2> HIDE DEF K, h
  <2> QED BY <2>1, <2>2
<1> HIDE DEF K, h
<1>4. SumFunctionOnSet(w, K) = SumFunctionOnSet(m, UNION { h[k] : k \in K })
    BY ONLY IsFiniteSet(D), \A x \in D : m[x] \in Nat, <1>1, <1>2, SumOfParts
<1> QED BY <1>3, <1>4 DEF SumFunction, K

-----------------------------------------------------------------------------
(* The capacity *)

\* The groups are apart, and each has its count.
LEMMA DetailsAreGroups ==
    ASSUME NEW fleet, IsFiniteSet(DOMAIN fleet)
    PROVE  /\ IsFiniteSet(Details(fleet))
           /\ \A d \in Details(fleet) :
                 /\ \E n \in DOMAIN fleet : d.group = GroupOf(fleet, n)
                 /\ d.count = Cardinality({ n \in DOMAIN fleet : GroupOf(fleet, n) = d.group })
           /\ \A n \in DOMAIN fleet : \E d \in Details(fleet) : d.group = GroupOf(fleet, n)
           /\ \A d \in Details(fleet), e \in Details(fleet) : d.group = e.group => d = e
<1> DEFINE D == DOMAIN fleet
           g == [n \in D |-> GroupOf(fleet, n)]
           G == { g[n] : n \in D }
           r == [k \in G |-> [group |-> k, count |-> Cardinality({ n \in D : g[n] = k })]]
<1>1. IsFiniteSet(G)
    BY ImageIsFinite
<1>2. \A n \in D : g[n] = GroupOf(fleet, n)
    OBVIOUS
<1>3. Details(fleet) = { r[k] : k \in G }
    BY DEF Details
<1>4. \A k \in G : r[k].group = k /\ r[k].count = Cardinality({ n \in D : g[n] = k })
    OBVIOUS
<1>5. \A k \in G : { n \in D : g[n] = k } = { n \in D : GroupOf(fleet, n) = k }
    BY <1>2
<1> HIDE DEF r, g
<1>6. IsFiniteSet(Details(fleet))
    BY <1>1, <1>3, ImageIsFinite
<1>7. ASSUME NEW d \in Details(fleet)
      PROVE  /\ \E n \in D : d.group = GroupOf(fleet, n)
             /\ d.count = Cardinality({ n \in D : GroupOf(fleet, n) = d.group })
  <2>1. PICK k \in G : d = r[k]
      BY <1>3
  <2>2. \E n \in D : k = GroupOf(fleet, n)
      BY <1>2
  <2>3. d.group = k /\ d.count = Cardinality({ n \in D : g[n] = k })
      BY <1>4, <2>1
  <2> QED BY <1>5, <2>2, <2>3
<1>8. ASSUME NEW n \in D PROVE \E d \in Details(fleet) : d.group = GroupOf(fleet, n)
  <2>1. g[n] \in G /\ r[g[n]] \in Details(fleet) /\ r[g[n]].group = g[n]
      BY <1>3, <1>4
  <2> QED BY <1>2, <2>1
<1>9. ASSUME NEW d \in Details(fleet), NEW e \in Details(fleet), d.group = e.group
      PROVE  d = e
  <2>1. PICK k \in G : d = r[k]
      BY <1>3
  <2>2. PICK l \in G : e = r[l]
      BY <1>3
  <2>3. k = l
      BY <1>4, <1>9, <2>1, <2>2
  <2> QED BY <2>1, <2>2, <2>3
<1> QED BY <1>6, <1>7, <1>8, <1>9

\* The counts of some of the groups count the nodes that are in them.
LEMMA GroupsCount ==
    ASSUME NEW fleet, IsFiniteSet(DOMAIN fleet), NEW E \in SUBSET Details(fleet)
    PROVE  SumFunction([d \in E |-> d.count])
             = Cardinality({ n \in DOMAIN fleet : \E d \in E : d.group = GroupOf(fleet, n) })
<1> DEFINE D == DOMAIN fleet
           w == [d \in E |-> d.count]
           h == [d \in E |-> { n \in D : GroupOf(fleet, n) = d.group }]
           U == { n \in D : \E d \in E : d.group = GroupOf(fleet, n) }
<1>1. IsFiniteSet(E)
    BY DetailsAreGroups, FS_Subset
<1>2. /\ \A d \in E : h[d] \in SUBSET D
      /\ DOMAIN w = E
    OBVIOUS
<1>3. \A d \in E : w[d] = Cardinality(h[d])
    BY DetailsAreGroups
<1>4. ASSUME NEW d \in E, NEW e \in E, d # e PROVE h[d] \cap h[e] = {}
  <2>1. d.group # e.group
      BY <1>4, DetailsAreGroups
  <2> QED BY <2>1
<1>5. UNION { h[d] : d \in E } = U
    OBVIOUS
<1> HIDE DEF w, h, U
<1>6. SumFunctionOnSet(w, E) = Cardinality(UNION { h[d] : d \in E })
    BY ONLY IsFiniteSet(DOMAIN fleet), <1>1, <1>2, <1>3, <1>4, SizeOfParts
<1> QED BY <1>2, <1>5, <1>6 DEF SumFunction, w, U

\* A column of the capacity counts the nodes by what they have there.
LEMMA ColumnsCount ==
    ASSUME NEW fleet, IsFiniteSet(DOMAIN fleet), NEW column
    PROVE  LET t == SumBy(Details(fleet), column)
           IN  /\ DOMAIN t = { GroupOf(fleet, n)[column] : n \in DOMAIN fleet }
               /\ \A v \in DOMAIN t :
                     t[v] = Cardinality({ n \in DOMAIN fleet : GroupOf(fleet, n)[column] = v })
               /\ SumFunction(t) = Cardinality(DOMAIN fleet)
<1> DEFINE D == DOMAIN fleet
           t == SumBy(Details(fleet), column)
           f == [n \in D |-> GroupOf(fleet, n)[column]]
<1>1. /\ \A d \in Details(fleet) : \E n \in D : d.group = GroupOf(fleet, n)
      /\ \A n \in D : \E d \in Details(fleet) : d.group = GroupOf(fleet, n)
    BY DetailsAreGroups
<1>2. DOMAIN t = { d.group[column] : d \in Details(fleet) }
    BY DEF SumBy
<1>3. { d.group[column] : d \in Details(fleet) } = { GroupOf(fleet, n)[column] : n \in D }
    BY <1>1
<1>4. ASSUME NEW v \in DOMAIN t
      PROVE  t[v] = Cardinality({ n \in D : GroupOf(fleet, n)[column] = v })
  <2> DEFINE E == { d \in Details(fleet) : d.group[column] = v }
             A == { n \in D : \E d \in E : d.group = GroupOf(fleet, n) }
             B == { n \in D : GroupOf(fleet, n)[column] = v }
  <2>1. t[v] = SumFunction([d \in E |-> d.count])
      BY DEF SumBy
  <2>2. SumFunction([d \in E |-> d.count]) = Cardinality(A)
    <3>1. E \in SUBSET Details(fleet)
        OBVIOUS
    <3> HIDE DEF E
    <3> QED BY <3>1, GroupsCount
  <2>3. A = B
      BY <1>1
  <2> QED BY <2>1, <2>2, <2>3
<1>5. /\ DOMAIN t = { f[n] : n \in D }
      /\ \A v \in DOMAIN t : t[v] = Cardinality({ n \in D : f[n] = v })
  <2>1. \A n \in D : f[n] = GroupOf(fleet, n)[column]
      OBVIOUS
  <2>2. \A v : { n \in D : f[n] = v } = { n \in D : GroupOf(fleet, n)[column] = v }
      BY <2>1
  <2> HIDE DEF f, t
  <2> QED BY <1>2, <1>3, <1>4, <2>1, <2>2
<1> HIDE DEF t, f
<1>6. SumFunction(t) = Cardinality(D)
    BY ONLY IsFiniteSet(DOMAIN fleet), <1>5, ClassesCount
<1> QED BY <1>2, <1>3, <1>4, <1>6 DEF t

\* The total of the capacity counts them all.
LEMMA TotalCounts ==
    ASSUME NEW fleet, IsFiniteSet(DOMAIN fleet)
    PROVE  Capacity(fleet).total = Cardinality(DOMAIN fleet)
<1> DEFINE E == Details(fleet)
<1>1. Capacity(fleet).total = SumFunction([d \in E |-> d.count])
    BY DEF Capacity
<1>2. { n \in DOMAIN fleet : \E d \in E : d.group = GroupOf(fleet, n) } = DOMAIN fleet
    BY DetailsAreGroups
<1>3. E \in SUBSET Details(fleet)
    OBVIOUS
<1> HIDE DEF E
<1>4. SumFunction([d \in E |-> d.count])
        = Cardinality({ n \in DOMAIN fleet : \E d \in E : d.group = GroupOf(fleet, n) })
    BY <1>3, GroupsCount
<1> QED BY <1>1, <1>2, <1>4

-----------------------------------------------------------------------------
(* The topology and the power page *)

\* What the topology sums up
SummaryFields == { "nodes", "power", "gpus", "healthy" }

\* The sums of parts that are classes of the fleet, by any field, are the sum of the whole.
LEMMA SumOfClasses ==
    ASSUME NEW D, IsFiniteSet(D), NEW m, \A x \in D : m[x] \in Nat,
           NEW field \in SummaryFields,
           NEW f, NEW parts, DOMAIN parts = { f[x] : x \in D },
           \A k \in DOMAIN parts : parts[k][field] = SumFunctionOnSet(m, { x \in D : f[x] = k })
    PROVE  SumOf(parts)[field] = SumFunctionOnSet(m, D)
<1> DEFINE w == [k \in DOMAIN parts |-> parts[k][field]]
<1>1. SumOf(parts)[field] = SumFunction(w)
    BY DEF SumOf, SummaryFields
<1>2. /\ DOMAIN w = { f[x] : x \in D }
      /\ \A k \in DOMAIN w : w[k] = SumFunctionOnSet(m, { x \in D : f[x] = k })
    OBVIOUS
<1> HIDE DEF w
<1>3. SumFunction(w) = SumFunctionOnSet(m, D)
    BY ONLY IsFiniteSet(D), \A x \in D : m[x] \in Nat, <1>2, ClassesSum
<1> QED BY <1>1, <1>3

\* m is what the summaries sum up under a field.
Measures(fleet, m, field) ==
    /\ field \in SummaryFields
    /\ \A n \in DOMAIN fleet : m[n] \in Nat
    /\ \A N \in SUBSET DOMAIN fleet : Summary(fleet, N)[field] = SumFunctionOnSet(m, N)

\* The nodes, the power and the GPUs of a part are such measures.
LEMMA MeasuresAreThere ==
    ASSUME NEW fleet, IsFiniteSet(DOMAIN fleet), DOMAIN fleet \subseteq Nodes
    PROVE  /\ Measures(fleet, [n \in Nodes |-> 1], "nodes")
           /\ Measures(fleet, [n \in Nodes |-> Inventory[n].power], "power")
           /\ Measures(fleet, [n \in Nodes |-> Inventory[n].gpus], "gpus")
<1> DEFINE D == DOMAIN fleet
           one == [n \in Nodes |-> 1]
           power == [n \in Nodes |-> Inventory[n].power]
           gpus == [n \in Nodes |-> Inventory[n].gpus]
<1>1. \A n \in D : one[n] = 1 /\ power[n] = Inventory[n].power /\ gpus[n] = Inventory[n].gpus
    OBVIOUS
<1>2. \A n \in D : power[n] \in Nat /\ gpus[n] \in Nat /\ one[n] \in Nat
  <2>1. \A n \in D : Inventory[n].power \in Nat /\ Inventory[n].gpus \in Nat
      BY ViewsAssumption DEF InventoryRecord
  <2> QED BY <1>1, <2>1
<1> HIDE DEF one, power, gpus
<1>3. ASSUME NEW N \in SUBSET D
      PROVE  /\ Summary(fleet, N)["nodes"] = SumFunctionOnSet(one, N)
             /\ Summary(fleet, N)["power"] = SumFunctionOnSet(power, N)
             /\ Summary(fleet, N)["gpus"] = SumFunctionOnSet(gpus, N)
  <2>1. IsFiniteSet(N)
      BY FS_Subset
  <2>2. Summary(fleet, N)["nodes"] = SumFunctionOnSet(one, N)
    <3>1. SumFunctionOnSet(one, N) = Cardinality(N)
        BY <1>1, <2>1, SumCounts
    <3> QED BY <3>1 DEF Summary
  <2>3. Summary(fleet, N)["power"] = SumFunctionOnSet(power, N)
    <3> DEFINE q == [n \in N |-> Inventory[n].power]
    <3>1. DOMAIN q = N /\ \A n \in N : q[n] = power[n]
        BY <1>1
    <3>2. Summary(fleet, N)["power"] = SumFunction(q)
        BY DEF Summary
    <3> HIDE DEF q
    <3>3. SumFunctionOnSet(q, N) = SumFunctionOnSet(power, N)
        BY ONLY <2>1, <3>1, SumIsOfTerms
    <3> QED BY <3>1, <3>2, <3>3 DEF SumFunction
  <2>4. Summary(fleet, N)["gpus"] = SumFunctionOnSet(gpus, N)
    <3> DEFINE q == [n \in N |-> Inventory[n].gpus]
    <3>1. DOMAIN q = N /\ \A n \in N : q[n] = gpus[n]
        BY <1>1
    <3>2. Summary(fleet, N)["gpus"] = SumFunction(q)
        BY DEF Summary
    <3> HIDE DEF q
    <3>3. SumFunctionOnSet(q, N) = SumFunctionOnSet(gpus, N)
        BY ONLY <2>1, <3>1, SumIsOfTerms
    <3> QED BY <3>1, <3>2, <3>3 DEF SumFunction
  <2> QED BY <2>2, <2>3, <2>4
<1>4. Measures(fleet, one, "nodes") /\ Measures(fleet, power, "power")
      /\ Measures(fleet, gpus, "gpus")
    BY <1>2, <1>3 DEF Measures, SummaryFields
<1> QED BY <1>4 DEF one, power, gpus

\* A zone sums up what is in it.
ZonesAreSums(fleet, m, field) ==
    /\ DOMAIN TopologyZones(fleet) = { OrUnknown(Inventory[n].az) : n \in DOMAIN fleet }
    /\ \A z \in DOMAIN TopologyZones(fleet) :
          TopologyZones(fleet)[z][field]
            = SumFunctionOnSet(m, { n \in DOMAIN fleet : OrUnknown(Inventory[n].az) = z })

\* The racks of a zone come to the zone.
LEMMA ZonesSum ==
    ASSUME NEW fleet, IsFiniteSet(DOMAIN fleet), NEW m, NEW field, Measures(fleet, m, field)
    PROVE  ZonesAreSums(fleet, m, field)
<1> DEFINE D == DOMAIN fleet
           racks == TopologyRacks(fleet)
           zone(n) == OrUnknown(Inventory[n].az)
<1>1. /\ DOMAIN racks = { PlaceOf(n) : n \in D }
      /\ \A p \in DOMAIN racks : racks[p] = Summary(fleet, { n \in D : PlaceOf(n) = p })
    BY DEF TopologyRacks
<1>2. \A n \in D : PlaceOf(n)[1] = zone(n)
    BY DEF PlaceOf
<1>3. /\ DOMAIN TopologyZones(fleet) = { p[1] : p \in DOMAIN racks }
      /\ \A z \in DOMAIN TopologyZones(fleet) :
            TopologyZones(fleet)[z] = SumOf([p \in { q \in DOMAIN racks : q[1] = z } |-> racks[p]])
    BY DEF TopologyZones
<1>4. DOMAIN TopologyZones(fleet) = { zone(n) : n \in D }
  <2> HIDE DEF racks, zone
  <2> QED BY <1>1, <1>2, <1>3
<1>5. ASSUME NEW z \in DOMAIN TopologyZones(fleet)
      PROVE  TopologyZones(fleet)[z][field] = SumFunctionOnSet(m, { n \in D : zone(n) = z })
  <2> DEFINE K == { q \in DOMAIN racks : q[1] = z }
             parts == [p \in K |-> racks[p]]
             C == { n \in D : zone(n) = z }
             f == [n \in C |-> PlaceOf(n)]
  <2>1. IsFiniteSet(C) /\ C \in SUBSET D
      BY FS_Subset
  <2>2. DOMAIN parts = { f[n] : n \in C }
    <3>1. \A n \in C : f[n] = PlaceOf(n)
        OBVIOUS
    <3>2. K = { PlaceOf(n) : n \in C }
        BY <1>1, <1>2
    <3> QED BY <3>1, <3>2
  <2>3. ASSUME NEW p \in DOMAIN parts
        PROVE  parts[p][field] = SumFunctionOnSet(m, { n \in C : f[n] = p })
    <3>1. parts[p] = Summary(fleet, { n \in D : PlaceOf(n) = p }) /\ p[1] = z
        BY <1>1
    <3>2. { n \in D : PlaceOf(n) = p } = { n \in C : f[n] = p }
        BY <1>2, <3>1
    <3> HIDE DEF C, f
    <3>3. { n \in D : PlaceOf(n) = p } \in SUBSET D
        OBVIOUS
    <3> QED BY <3>1, <3>2, <3>3 DEF Measures
  <2>4. \A n \in C : m[n] \in Nat
      BY DEF Measures
  <2>5. field \in SummaryFields
      BY DEF Measures
  <2>6. TopologyZones(fleet)[z] = SumOf(parts)
      BY <1>3
  <2> HIDE DEF parts, C, f
  <2>7. SumOf(parts)[field] = SumFunctionOnSet(m, C)
      BY ONLY <2>1, <2>2, <2>3, <2>4, <2>5, SumOfClasses
  <2> QED BY <2>6, <2>7 DEF C
<1> QED BY <1>4, <1>5 DEF ZonesAreSums

\* The zones come to the fleet, and so do the racks of the power page.
LEMMA FleetSums ==
    ASSUME NEW fleet, IsFiniteSet(DOMAIN fleet), NEW m, NEW field, Measures(fleet, m, field)
    PROVE  /\ Topology(fleet)[field] = SumFunctionOnSet(m, DOMAIN fleet)
           /\ SumOf(PowerRacks(fleet))[field] = SumFunctionOnSet(m, DOMAIN fleet)
<1>0. /\ DOMAIN TopologyZones(fleet) = { OrUnknown(Inventory[n].az) : n \in DOMAIN fleet }
      /\ \A z \in DOMAIN TopologyZones(fleet) :
            TopologyZones(fleet)[z][field]
              = SumFunctionOnSet(m, { n \in DOMAIN fleet : OrUnknown(Inventory[n].az) = z })
  <2>1. ZonesAreSums(fleet, m, field)
      BY ZonesSum
  <2> QED BY <2>1 DEF ZonesAreSums
<1> DEFINE D == DOMAIN fleet
<1>1. \A n \in D : m[n] \in Nat
    BY DEF Measures
<1>2. field \in SummaryFields
    BY DEF Measures
<1>3. Topology(fleet)[field] = SumFunctionOnSet(m, D)
  <2> DEFINE zones == TopologyZones(fleet)
             f == [n \in D |-> OrUnknown(Inventory[n].az)]
  <2>1. \A n \in D : f[n] = OrUnknown(Inventory[n].az)
      OBVIOUS
  <2> HIDE DEF f
  <2>0. /\ DOMAIN zones = { OrUnknown(Inventory[n].az) : n \in D }
        /\ \A z \in DOMAIN zones : zones[z][field]
              = SumFunctionOnSet(m, { n \in D : OrUnknown(Inventory[n].az) = z })
      BY <1>0
  <2>2. DOMAIN zones = { f[n] : n \in D }
      BY <2>0, <2>1
  <2>3. ASSUME NEW z \in DOMAIN zones
        PROVE  zones[z][field] = SumFunctionOnSet(m, { n \in D : f[n] = z })
    <3>1. { n \in D : f[n] = z } = { n \in D : OrUnknown(Inventory[n].az) = z }
        BY <2>1
    <3> QED BY <2>0, <3>1
  <2>4. Topology(fleet) = SumOf(zones)
      BY DEF Topology
  <2> HIDE DEF zones
  <2>5. SumOf(zones)[field] = SumFunctionOnSet(m, D)
      BY ONLY IsFiniteSet(DOMAIN fleet), <1>1, <1>2, <2>2, <2>3, SumOfClasses
  <2> QED BY <2>4, <2>5
<1>4. SumOf(PowerRacks(fleet))[field] = SumFunctionOnSet(m, D)
  <2> DEFINE racks == PowerRacks(fleet)
             f == [n \in D |-> Inventory[n].rack]
  <2>1. \A n \in D : f[n] = Inventory[n].rack
      OBVIOUS
  <2> HIDE DEF f
  <2>2. DOMAIN racks = { f[n] : n \in D }
      BY <2>1 DEF PowerRacks, NetboxRacks
  <2>3. ASSUME NEW r \in DOMAIN racks
        PROVE  racks[r][field] = SumFunctionOnSet(m, { n \in D : f[n] = r })
    <3>1. { n \in D : f[n] = r } = { n \in D : Inventory[n].rack = r }
        BY <2>1
    <3>2. racks[r] = Summary(fleet, { n \in D : Inventory[n].rack = r })
        BY DEF PowerRacks, NetboxRacks
    <3>3. { n \in D : Inventory[n].rack = r } \in SUBSET D
        OBVIOUS
    <3> QED BY <3>1, <3>2, <3>3 DEF Measures
  <2> HIDE DEF racks
  <2>4. SumOf(racks)[field] = SumFunctionOnSet(m, D)
      BY ONLY IsFiniteSet(DOMAIN fleet), <1>1, <1>2, <2>2, <2>3, SumOfClasses
  <2> QED BY <2>4 DEF racks
<1> QED BY <1>3, <1>4

-----------------------------------------------------------------------------
(* What the pages agree on, for any fleet of known nodes with states *)

Fleet(fleet) ==
    /\ DOMAIN fleet \subseteq Nodes
    /\ \A n \in DOMAIN fleet : fleet[n].state \in State

\* A fleet is a set of nodes, and those are finitely many.
LEMMA FleetIsFinite == ASSUME NEW fleet, Fleet(fleet) PROVE IsFiniteSet(DOMAIN fleet)
BY ViewsAssumption, FS_Subset DEF Fleet

\* The table t counts the nodes by what they have in a column.
CountsBy(fleet, column, t) ==
    /\ DOMAIN t = { GroupOf(fleet, n)[column] : n \in DOMAIN fleet }
    /\ \A v \in DOMAIN t :
          t[v] = Cardinality({ n \in DOMAIN fleet : GroupOf(fleet, n)[column] = v })

\* A column of the capacity
LEMMA CapacityColumn ==
    ASSUME NEW fleet, Fleet(fleet), NEW column \in { "state", "type", "az", "sku" }
    PROVE  /\ CountsBy(fleet, column, Capacity(fleet).by[column])
           /\ SumFunction(Capacity(fleet).by[column]) = Cardinality(DOMAIN fleet)
<1> DEFINE t == Capacity(fleet).by[column]
           s == SumBy(Details(fleet), column)
<1>1. t = s
    BY DEF Capacity
<1> HIDE DEF t
<1>2. IsFiniteSet(DOMAIN fleet)
    BY FleetIsFinite
<1>3. /\ DOMAIN s = { GroupOf(fleet, n)[column] : n \in DOMAIN fleet }
      /\ \A v \in DOMAIN s :
            s[v] = Cardinality({ n \in DOMAIN fleet : GroupOf(fleet, n)[column] = v })
      /\ SumFunction(s) = Cardinality(DOMAIN fleet)
    BY <1>2, ColumnsCount
<1> HIDE DEF s
<1> QED BY <1>1, <1>3 DEF t, CountsBy

\* GET /health/summary and GET /metrics
LEMMA SummaryIsInMetrics ==
    ASSUME NEW fleet, NEW capacity
    PROVE  LET summary == HealthSummary(fleet, capacity)
               metrics == Metrics(fleet, capacity)
           IN  summary = [field \in DOMAIN summary |-> metrics[field]]
BY DEF HealthSummary, Metrics

\* Every sum of all nodes comes to their number.
THEOREM TotalsAgree ==
    ASSUME NEW fleet, Fleet(fleet)
    PROVE  LET size == Cardinality(DOMAIN fleet)
           IN  /\ CliCapacity(fleet).total = size
               /\ \A i \in 1..4 : SumFunction(CliCapacity(fleet).tables[i]) = size
               /\ Metrics(fleet, Capacity(fleet)).total = size
               /\ Topology(fleet)["nodes"] = size
               /\ SumOf(PowerRacks(fleet))["nodes"] = size
               /\ Topology(fleet)["power"] = SumOf(PowerRacks(fleet))["power"]
               /\ Topology(fleet)["gpus"] = SumOf(PowerRacks(fleet))["gpus"]
<1> DEFINE size == Cardinality(DOMAIN fleet)
<1>0. IsFiniteSet(DOMAIN fleet) /\ DOMAIN fleet \subseteq Nodes
    BY FleetIsFinite DEF Fleet
<1>1. Capacity(fleet).total = size
    BY <1>0, TotalCounts
<1>2. CliCapacity(fleet).total = size /\ Metrics(fleet, Capacity(fleet)).total = size
    BY <1>1 DEF CliCapacity, Metrics
<1>3. ASSUME NEW i \in 1..4 PROVE SumFunction(CliCapacity(fleet).tables[i]) = size
  <2>1. \A c \in { "state", "type", "az", "sku" } : SumFunction(Capacity(fleet).by[c]) = size
      BY CapacityColumn
  <2>2. CliCapacity(fleet).tables[i] \in { Capacity(fleet).by["state"], Capacity(fleet).by["az"],
                                           Capacity(fleet).by["sku"], Capacity(fleet).by["type"] }
      BY DEF CliCapacity
  <2> QED BY <2>1, <2>2
<1>4. Topology(fleet)["nodes"] = size /\ SumOf(PowerRacks(fleet))["nodes"] = size
  <2> DEFINE one == [n \in Nodes |-> 1]
  <2>1. Measures(fleet, one, "nodes")
      BY <1>0, MeasuresAreThere
  <2>2. \A n \in DOMAIN fleet : one[n] = 1
      BY <1>0
  <2> HIDE DEF one
  <2>3. SumFunctionOnSet(one, DOMAIN fleet) = size
      BY <1>0, <2>2, SumCounts
  <2>4. /\ Topology(fleet)["nodes"] = SumFunctionOnSet(one, DOMAIN fleet)
        /\ SumOf(PowerRacks(fleet))["nodes"] = SumFunctionOnSet(one, DOMAIN fleet)
      BY <1>0, <2>1, FleetSums
  <2> QED BY <2>3, <2>4
<1>5. Topology(fleet)["power"] = SumOf(PowerRacks(fleet))["power"]
  <2> DEFINE m == [n \in Nodes |-> Inventory[n].power]
  <2>1. Measures(fleet, m, "power")
      BY <1>0, MeasuresAreThere
  <2> HIDE DEF m
  <2> QED BY <1>0, <2>1, FleetSums
<1>6. Topology(fleet)["gpus"] = SumOf(PowerRacks(fleet))["gpus"]
  <2> DEFINE m == [n \in Nodes |-> Inventory[n].gpus]
  <2>1. Measures(fleet, m, "gpus")
      BY <1>0, MeasuresAreThere
  <2> HIDE DEF m
  <2> QED BY <1>0, <2>1, FleetSums
<1> QED BY <1>2, <1>3, <1>4, <1>5, <1>6

\* Without a node that is asked for, `status' is the filtered list.
LEMMA ListingIsFiltered ==
    ASSUME NEW fleet, NEW state, NEW az, NEW type
    PROVE  DOMAIN CliStatus(fleet, NotGiven, state, az, type) = Filtered(fleet, state, az, type)
BY DEF CliStatus, NodeList

\* A list with one filter is as long as the capacity says.
LEMMA ListingsAgree ==
    ASSUME NEW fleet, Fleet(fleet)
    PROVE  LET by == Capacity(fleet).by
               Listing(state, az, type) ==
                   Cardinality(DOMAIN CliStatus(fleet, NotGiven, state, az, type))
           IN  /\ \A s \in DOMAIN by["state"] : by["state"][s] = Listing(s, NotGiven, NotGiven)
               /\ \A az \in DOMAIN by["az"] : by["az"][az] = Listing(NotGiven, az, NotGiven)
               /\ \A t \in DOMAIN by["type"] : by["type"][t] = Listing(NotGiven, NotGiven, t)
<1> DEFINE by == Capacity(fleet).by
           D == DOMAIN fleet
<1>1. \A n \in D : /\ GroupOf(fleet, n)["state"] = fleet[n].state
                   /\ GroupOf(fleet, n)["az"] = Inventory[n].az
                   /\ GroupOf(fleet, n)["type"] = Inventory[n].type
    BY DEF GroupOf
<1>2. /\ CountsBy(fleet, "state", by["state"])
      /\ CountsBy(fleet, "az", by["az"])
      /\ CountsBy(fleet, "type", by["type"])
    BY CapacityColumn
<1>3. \A n \in D : /\ fleet[n].state # NotGiven
                   /\ Inventory[n].az # NotGiven
                   /\ Inventory[n].type # NotGiven
  <2>1. \A n \in D : n \in Nodes /\ fleet[n].state \in State
      BY DEF Fleet
  <2>2. \A n \in D : Inventory[n].type \in { "gpu", "cpu" }
      BY <2>1, ViewsAssumption DEF InventoryRecord
  <2>3. NotGiven \notin State /\ NotGiven \notin { "gpu", "cpu" }
      BY DEF NotGiven, State
  <2> QED BY <2>1, <2>2, <2>3, NamesAssumption
<1> HIDE DEF by
<1>4. ASSUME NEW s \in DOMAIN by["state"]
      PROVE  by["state"][s] = Cardinality(Filtered(fleet, s, NotGiven, NotGiven))
  <2>1. s # NotGiven
      BY <1>1, <1>2, <1>3 DEF CountsBy
  <2>2. { n \in D : GroupOf(fleet, n)["state"] = s } = Filtered(fleet, s, NotGiven, NotGiven)
      BY <1>1, <2>1 DEF Filtered
  <2> QED BY <1>2, <2>2 DEF CountsBy
<1>5. ASSUME NEW az \in DOMAIN by["az"]
      PROVE  by["az"][az] = Cardinality(Filtered(fleet, NotGiven, az, NotGiven))
  <2>1. az # NotGiven
      BY <1>1, <1>2, <1>3 DEF CountsBy
  <2>2. { n \in D : GroupOf(fleet, n)["az"] = az } = Filtered(fleet, NotGiven, az, NotGiven)
      BY <1>1, <2>1 DEF Filtered
  <2> QED BY <1>2, <2>2 DEF CountsBy
<1>6. ASSUME NEW t \in DOMAIN by["type"]
      PROVE  by["type"][t] = Cardinality(Filtered(fleet, NotGiven, NotGiven, t))
  <2>1. t # NotGiven
      BY <1>1, <1>2, <1>3 DEF CountsBy
  <2>2. { n \in D : GroupOf(fleet, n)["type"] = t } = Filtered(fleet, NotGiven, NotGiven, t)
      BY <1>1, <2>1 DEF Filtered
  <2> QED BY <1>2, <2>2 DEF CountsBy
<1> QED BY <1>4, <1>5, <1>6, ListingIsFiltered DEF by

\* A zone of the topology has as many nodes as the capacity counts there.
LEMMA ZonesAgree ==
    ASSUME NEW fleet, Fleet(fleet), NEW az \in DOMAIN Capacity(fleet).by["az"]
    PROVE  Capacity(fleet).by["az"][az] = TopologyZones(fleet)[OrUnknown(az)]["nodes"]
<1> DEFINE D == DOMAIN fleet
           A == { n \in D : GroupOf(fleet, n)["az"] = az }
           B == { n \in D : OrUnknown(Inventory[n].az) = OrUnknown(az) }
           one == [n \in Nodes |-> 1]
<1>0. IsFiniteSet(D) /\ D \subseteq Nodes
    BY FleetIsFinite DEF Fleet
<1>1. \A n \in D : GroupOf(fleet, n)["az"] = Inventory[n].az
    BY DEF GroupOf
<1>2. CountsBy(fleet, "az", Capacity(fleet).by["az"])
    BY CapacityColumn
<1>3. Capacity(fleet).by["az"][az] = Cardinality(A)
    BY <1>2 DEF CountsBy
<1>4. PICK m \in D : az = Inventory[m].az
    BY <1>1, <1>2 DEF CountsBy
<1>5. A = B
  <2>1. az # NoZone /\ \A n \in D : Inventory[n].az # NoZone
      BY <1>0, <1>4, NamesAssumption
  <2> QED BY <1>1, <2>1 DEF OrUnknown
<1>6. Measures(fleet, one, "nodes")
    BY <1>0, MeasuresAreThere
<1>7. \A n \in D : one[n] = 1
    BY <1>0
<1> HIDE DEF one
<1>8. ZonesAreSums(fleet, one, "nodes")
    BY <1>0, <1>6, ZonesSum
<1>9. OrUnknown(az) \in DOMAIN TopologyZones(fleet)
    BY <1>4, <1>8 DEF ZonesAreSums
<1>10. TopologyZones(fleet)[OrUnknown(az)]["nodes"] = SumFunctionOnSet(one, B)
    BY <1>8, <1>9 DEF ZonesAreSums
<1>11. SumFunctionOnSet(one, B) = Cardinality(B)
  <2>1. IsFiniteSet(B) /\ \A n \in B : one[n] = 1
      BY <1>0, <1>7, FS_Subset
  <2> HIDE DEF B
  <2> QED BY <2>1, SumCounts
<1> QED BY <1>3, <1>5, <1>10, <1>11

\* GET /firmware/matrix counts the SKUs as the capacity does.
LEMMA MatrixAgrees ==
    ASSUME NEW fleet, Fleet(fleet)
    PROVE  LET matrix == FirmwareMatrix(fleet)
               by == Capacity(fleet).by
           IN  /\ DOMAIN matrix = DOMAIN by["sku"]
               /\ \A sku \in DOMAIN matrix : matrix[sku].count = by["sku"][sku]
<1> DEFINE D == DOMAIN fleet
           matrix == FirmwareMatrix(fleet)
           t == Capacity(fleet).by["sku"]
<1>1. \A n \in D : GroupOf(fleet, n)["sku"] = Inventory[n].sku
    BY DEF GroupOf
<1>2. CountsBy(fleet, "sku", t)
    BY CapacityColumn
<1>3. DOMAIN matrix = { Inventory[n].sku : n \in D }
    BY DEF FirmwareMatrix
<1>4. \A sku \in DOMAIN matrix :
        matrix[sku].count = Cardinality({ n \in D : Inventory[n].sku = sku })
    BY DEF FirmwareMatrix
<1> HIDE DEF matrix, t
<1>5. DOMAIN matrix = DOMAIN t
    BY <1>1, <1>2, <1>3 DEF CountsBy
<1>6. ASSUME NEW sku \in DOMAIN matrix PROVE matrix[sku].count = t[sku]
  <2>1. { n \in D : Inventory[n].sku = sku } = { n \in D : GroupOf(fleet, n)["sku"] = sku }
      BY <1>1
  <2>2. t[sku] = Cardinality({ n \in D : GroupOf(fleet, n)["sku"] = sku })
      BY <1>2, <1>5 DEF CountsBy
  <2> QED BY <1>4, <2>1, <2>2
<1> QED BY <1>5, <1>6 DEF matrix, t

\* The racks and the tenants have all nodes between them.
LEMMA RacksAgree ==
    ASSUME NEW fleet, Fleet(fleet)
    PROVE  LET racks == NetboxRacks(fleet)
           IN  /\ UNION { CliRacks(fleet, NotGiven)[r] : r \in DOMAIN racks } = DOMAIN fleet
               /\ \A r \in DOMAIN racks : DOMAIN RackNodes(fleet, r) = racks[r]
               /\ UNION { DOMAIN TenantNodes(fleet, Inventory[n].tenant) : n \in Nodes }
                    = DOMAIN fleet
<1> DEFINE D == DOMAIN fleet
           racks == NetboxRacks(fleet)
<1>0. D \subseteq Nodes
    BY DEF Fleet
<1>1. DOMAIN racks = { Inventory[n].rack : n \in D }
    BY DEF NetboxRacks
<1>2. \A r \in DOMAIN racks : racks[r] = { n \in D : Inventory[n].rack = r }
    BY DEF NetboxRacks
<1>3. \A r \in DOMAIN racks : CliRacks(fleet, NotGiven)[r] = racks[r]
    BY DEF CliRacks
<1>4. \A r \in DOMAIN racks : DOMAIN RackNodes(fleet, r) = { n \in D : Inventory[n].rack = r }
    BY DEF RackNodes
<1>5. \A n \in Nodes : DOMAIN TenantNodes(fleet, Inventory[n].tenant)
                         = { m \in D : Inventory[m].tenant = Inventory[n].tenant }
    BY DEF TenantNodes
<1> HIDE DEF racks
<1>6. UNION { CliRacks(fleet, NotGiven)[r] : r \in DOMAIN racks } = D
  <2>1. \A n \in D : Inventory[n].rack \in DOMAIN racks
                     /\ n \in CliRacks(fleet, NotGiven)[Inventory[n].rack]
      BY <1>1, <1>2, <1>3
  <2>2. \A r \in DOMAIN racks : CliRacks(fleet, NotGiven)[r] \subseteq D
      BY <1>2, <1>3
  <2> QED BY <2>1, <2>2
<1>7. UNION { DOMAIN TenantNodes(fleet, Inventory[n].tenant) : n \in Nodes } = D
  <2>1. \A n \in D : n \in Nodes /\ n \in DOMAIN TenantNodes(fleet, Inventory[n].tenant)
      BY <1>0, <1>5
  <2>2. \A n \in Nodes : DOMAIN TenantNodes(fleet, Inventory[n].tenant) \subseteq D
      BY <1>5
  <2> QED BY <2>1, <2>2
<1> QED BY <1>2, <1>4, <1>6, <1>7 DEF racks

\* The GPU nodes that are ready are among the nodes that are ready.
LEMMA GpusAreAmongReady ==
    ASSUME NEW fleet, Fleet(fleet), NEW capacity
    PROVE  Metrics(fleet, capacity).gpuAvailable
             <= Cardinality(DOMAIN CliStatus(fleet, NotGiven, "certified_ready", NotGiven, NotGiven))
<1> DEFINE A == Filtered(fleet, "certified_ready", NotGiven, "gpu")
           B == Filtered(fleet, "certified_ready", NotGiven, NotGiven)
<1>1. A \in SUBSET B /\ B \in SUBSET DOMAIN fleet
    BY DEF Filtered
<1>2. Metrics(fleet, capacity).gpuAvailable = Cardinality(A)
    BY DEF Metrics
<1>3. DOMAIN CliStatus(fleet, NotGiven, "certified_ready", NotGiven, NotGiven) = B
    BY ListingIsFiltered
<1> HIDE DEF A, B
<1>4. Cardinality(A) <= Cardinality(B)
    BY <1>1, FleetIsFinite, FS_Subset
<1> QED BY <1>2, <1>3, <1>4

\* A filter and its opposite split the incidents.
LEMMA IncidentsSplit ==
    /\ ShownIncidents("true") \cap ShownIncidents("false") = {}
    /\ ShownIncidents("true") \cup ShownIncidents("false") = ShownIncidents(NotGiven)
BY DEF ShownIncidents, NotGiven

\* The parts of a platform that carry firmware are the ones whose versions it has.
LEMMA PartsAreInstalled ==
    \A sku \in Skus : /\ PartFields(Platform(sku)) = Installed(sku) \ DriverFields
                      /\ Installed(sku) \subseteq FwFields
<1> SUFFICES ASSUME NEW sku \in Skus
             PROVE  /\ PartFields(Platform(sku)) = Installed(sku) \ DriverFields
                    /\ Installed(sku) \subseteq FwFields
    OBVIOUS
<1>1. CASE sku = "CPU-Server"
    BY <1>1 DEF PartFields, Platform, Installed, DriverFields, GpuFields, BoardFields, FwFields
<1>2. CASE sku = "DGX-B200"
    BY <1>2 DEF PartFields, Platform, Installed, DriverFields, GpuFields, BoardFields, FwFields
<1>3. CASE sku = "DGX-H200"
    BY <1>3 DEF PartFields, Platform, Installed, DriverFields, GpuFields, BoardFields, FwFields
<1>4. CASE sku = "A100-80G"
    BY <1>4 DEF PartFields, Platform, Installed, DriverFields, GpuFields, BoardFields, FwFields
<1> QED BY <1>1, <1>2, <1>3, <1>4 DEF Skus

\* A node's parts list has the versions that the firmware pages show.
LEMMA PartsAgree ==
    ASSUME NEW fleet, Fleet(fleet), NEW n \in DOMAIN fleet
    PROVE  LET bom == NodeBom(n)
               installed == { f \in FwFields : Compliance(fleet)[n][f] # "" }
           IN  /\ DOMAIN bom = installed \ DriverFields
               /\ \A f \in DOMAIN bom :
                     bom[f] \in FirmwareMatrix(fleet)[Inventory[n].sku].versions[f]
<1> DEFINE sku == Inventory[n].sku
           bom == NodeBom(n)
<1>1. sku \in Skus /\ sku # ""
  <2>1. sku \in Skus
      BY ViewsAssumption DEF Fleet, InventoryRecord
  <2> QED BY <2>1 DEF Skus
<1>2. /\ DOMAIN bom = Installed(sku) \ DriverFields
      /\ \A f \in DOMAIN bom : bom[f] = Version(n, f)
    BY <1>1, PartsAreInstalled DEF NodeBom
<1>3. \A f \in FwFields : Compliance(fleet)[n][f] = Version(n, f)
    BY DEF Compliance
<1>4. \A f \in FwFields : Version(n, f) # "" <=> f \in Installed(sku)
    BY <1>1 DEF Version
<1>5. { f \in FwFields : Compliance(fleet)[n][f] # "" } = Installed(sku)
    BY <1>1, <1>3, <1>4, PartsAreInstalled
<1>6. \A f \in FwFields : FirmwareMatrix(fleet)[sku].versions[f]
                            = { Version(m, f) : m \in { k \in DOMAIN fleet : Inventory[k].sku = sku } } \ { "" }
    BY DEF FirmwareMatrix
<1>7. ASSUME NEW f \in DOMAIN bom PROVE bom[f] \in FirmwareMatrix(fleet)[sku].versions[f]
  <2>1. f \in FwFields /\ f \in Installed(sku) /\ bom[f] = Version(n, f) /\ Version(n, f) # ""
      BY <1>1, <1>2, <1>4, PartsAreInstalled
  <2> QED BY <1>6, <2>1
<1> QED BY <1>2, <1>5, <1>7

\* What the pages copy from a row is the same on all of them.
LEMMA ColumnsAgree ==
    ASSUME NEW fleet
    PROVE  LET devices == NetboxDevices(fleet)
               certified == Certifications(fleet)
               network == NetworkHealth(fleet)
               nodes == NodeList(fleet, NotGiven, NotGiven, NotGiven)
           IN  /\ DOMAIN devices = DOMAIN fleet /\ DOMAIN certified = DOMAIN fleet
               /\ \A n \in DOMAIN fleet :
                     /\ NodePage(fleet, n) = [m \in { n } |-> nodes[n]]
                     /\ devices[n].state = nodes[n].state /\ devices[n].owner = nodes[n].owner
                     /\ { devices[n].health, certified[n].health }
                           \cup { network[m].health : m \in { n } \cap DOMAIN network }
                           = { nodes[n].health }
<1> DEFINE devices == NetboxDevices(fleet)
           certified == Certifications(fleet)
           network == NetworkHealth(fleet)
           nodes == NodeList(fleet, NotGiven, NotGiven, NotGiven)
<1>1. DOMAIN devices = DOMAIN fleet /\ DOMAIN certified = DOMAIN fleet
    BY DEF NetboxDevices, Certifications
<1>2. ASSUME NEW n \in DOMAIN fleet PROVE nodes[n] = NodeView(fleet, n)
  <2>1. n \in Filtered(fleet, NotGiven, NotGiven, NotGiven)
      BY DEF Filtered
  <2> QED BY <2>1 DEF NodeList
<1>3. ASSUME NEW n \in DOMAIN fleet
      PROVE  /\ devices[n].state = fleet[n].state /\ devices[n].owner = fleet[n].cordon.by
             /\ devices[n].health = fleet[n].health /\ certified[n].health = fleet[n].health
    BY DEF NetboxDevices, Certifications
<1>4. \A m \in DOMAIN network : network[m].health = fleet[m].health
    BY DEF NetworkHealth
<1>5. ASSUME NEW n \in DOMAIN fleet
      PROVE  /\ nodes[n].state = fleet[n].state /\ nodes[n].owner = fleet[n].cordon.by
             /\ nodes[n].health = fleet[n].health
  <2>1. nodes[n] = NodeView(fleet, n)
      BY <1>2
  <2>2. /\ NodeView(fleet, n).state = fleet[n].state
        /\ NodeView(fleet, n).owner = fleet[n].cordon.by
        /\ NodeView(fleet, n).health = fleet[n].health
      BY DEF NodeView
  <2> HIDE DEF nodes
  <2> QED BY ONLY <2>1, <2>2
<1>6. ASSUME NEW n \in DOMAIN fleet PROVE NodePage(fleet, n) = [m \in { n } |-> nodes[n]]
  <2>1. { n } \cap DOMAIN fleet = { n }
      OBVIOUS
  <2>2. NodePage(fleet, n) = [m \in { n } |-> NodeView(fleet, m)]
      BY <2>1 DEF NodePage
  <2> HIDE DEF nodes
  <2> QED BY <1>2, <2>2
<1> HIDE DEF devices, certified, network, nodes
<1>7. ASSUME NEW n \in DOMAIN fleet
      PROVE  { devices[n].health, certified[n].health }
                \cup { network[m].health : m \in { n } \cap DOMAIN network } = { nodes[n].health }
    BY <1>3, <1>4, <1>5
<1> QED BY <1>1, <1>3, <1>5, <1>6, <1>7 DEF devices, certified, network, nodes

-----------------------------------------------------------------------------
(* The newest first *)

\* get_recent_alerts takes as many lines as there may be, from the last one back.
LEMMA AlertsAreNewest ==
    ASSUME NEW S, NEW lines \in Seq(S), NEW limit \in Nat \ { 0 }
    PROVE  LET shown == RecentAlerts(lines, limit)
           IN  /\ Len(shown) = IF limit < Len(lines) THEN limit ELSE Len(lines)
               /\ \A i \in 1..Len(shown) : shown[i] = lines[Len(lines) + 1 - i]
<1> DEFINE n == Len(lines)
           first == IF limit > n THEN 1 ELSE n - limit + 1
           part == SubSeq(lines, first, n)
           k == IF limit < n THEN limit ELSE n
<1>1. n \in Nat /\ \A i \in 1..n : lines[i] \in S
    BY LenProperties, ElementOfSeq
<1> HIDE DEF n
<1>2. /\ first \in Int /\ 1 <= first /\ first <= n + 1
      /\ k \in Nat /\ n - first + 1 = k
    BY <1>1
<1>4. RecentAlerts(lines, limit) = Reverse(part)
    BY DEF RecentAlerts, n
<1> HIDE DEF first, k
<1>3. Len(part) = k /\ \A i \in 1..k : part[i] = lines[first + i - 1]
  <2>1. n \in Int /\ \A i \in first..n : lines[i] \in S
      BY <1>1, <1>2
  <2>2. Len(part) = (IF first <= n THEN n - first + 1 ELSE 0)
        /\ \A i \in 1..(n - first + 1) : part[i] = lines[first + i - 1]
      BY ONLY <1>2, <2>1, SubSeqProperties
  <2>3. (IF first <= n THEN n - first + 1 ELSE 0) = k
      BY <1>1, <1>2
  <2> HIDE DEF part
  <2> QED BY <1>2, <2>2, <2>3
<1> HIDE DEF part
<1>5. Reverse(part) = [i \in 1..k |-> part[(k - i) + 1]]
    BY <1>3 DEF Reverse
<1>6. Len(Reverse(part)) = k
    BY <1>2, <1>5
<1>7. ASSUME NEW i \in 1..k PROVE Reverse(part)[i] = lines[n + 1 - i]
  <2>1. (k - i) + 1 \in 1..k /\ first + ((k - i) + 1) - 1 = n + 1 - i
      BY <1>1, <1>2
  <2>2. part[(k - i) + 1] = lines[first + ((k - i) + 1) - 1]
      BY <1>3, <2>1
  <2> QED BY <1>5, <2>1, <2>2
<1> QED BY <1>4, <1>6, <1>7 DEF k, n

\* Of some numbered things, one has the least number.
LEMMA LeastIsThere ==
    ASSUME NEW E, IsFiniteSet(E), \A e \in E : e.no \in Nat, E # {}
    PROVE  \E e \in E : \A d \in E : e.no <= d.no
<1> DEFINE V == { A \in SUBSET E : A = {} \/ \E e \in A : \A d \in A : e.no <= d.no }
<1>1. ASSUME NEW A \in SUBSET E, \A B \in SUBSET A : B # A => B \in V
      PROVE  A \in V
  <2>1. CASE A = {}
      BY <2>1
  <2>2. CASE A # {}
    <3>1. PICK x \in A : TRUE
        BY <2>2
    <3>2. A \ { x } \in V
        BY <1>1, <3>1
    <3>3. CASE A \ { x } = {}
      <4>1. \A d \in A : x.no <= d.no
          BY <3>1, <3>3
      <4> QED BY <3>1, <4>1
    <3>4. CASE A \ { x } # {}
      <4>1. PICK y \in A \ { x } : \A d \in A \ { x } : y.no <= d.no
          BY <3>2, <3>4
      <4>2. x.no \in Nat /\ y.no \in Nat /\ \A d \in A : d.no \in Nat
          BY <3>1, <4>1
      <4>3. CASE x.no <= y.no
        <5>1. \A d \in A : x.no <= d.no
            BY <4>1, <4>2, <4>3
        <5> QED BY <3>1, <5>1
      <4>4. CASE y.no <= x.no
        <5>1. \A d \in A : y.no <= d.no
            BY <4>1, <4>2, <4>4
        <5> QED BY <4>1, <5>1
      <4> QED BY <4>2, <4>3, <4>4
    <3> QED BY <3>3, <3>4
  <2> QED BY <2>1, <2>2
<1> HIDE DEF V
<1>2. \A A \in SUBSET E : A \in V
    BY ONLY IsFiniteSet(E), <1>1, SubsetInduction
<1> QED BY <1>2 DEF V

\* The events of E that were written after e
Newer(E, e) == { d \in E : d.no > e.no }
\* The last events of E, as many as the page has room for
Newest(E, limit) == { e \in E : Cardinality(Newer(E, e)) < limit }

\* As many as there may be are the newest ones, where no two have one number.
LEMMA NewestAreCounted ==
    ASSUME NEW E, IsFiniteSet(E), \A e \in E : e.no \in Nat,
           \A e \in E, d \in E : e.no = d.no => e = d, NEW limit \in Nat
    PROVE  Cardinality(Newest(E, limit))
             = IF limit < Cardinality(E) THEN limit ELSE Cardinality(E)
<1> DEFINE V == { A \in SUBSET E : Cardinality(Newest(A, limit))
                                     = IF limit < Cardinality(A) THEN limit ELSE Cardinality(A) }
<1>0. ASSUME NEW A \in SUBSET E PROVE IsFiniteSet(A) /\ Cardinality(A) \in Nat
    BY FS_Subset, FS_CardinalityType
<1>1. ASSUME NEW A \in SUBSET E, \A B \in SUBSET A : B # A => B \in V
      PROVE  A \in V
  <2>1. CASE A = {}
    <3>1. Newest(A, limit) = {} /\ Cardinality({}) = 0
        BY <2>1, FS_EmptySet DEF Newest
    <3> QED BY <2>1, <3>1
  <2>2. CASE A # {}
    <3>1. PICK m \in A : \A d \in A : m.no <= d.no
        BY <1>0, <2>2, LeastIsThere
    <3> DEFINE B == A \ { m }
    <3>2. B \in SUBSET A /\ B # A /\ B \in SUBSET E /\ m \notin B /\ A = B \cup { m }
        BY <3>1
    <3>3. \A e \in B : e.no > m.no
      <4>1. \A e \in B : e.no # m.no /\ e.no \in Nat /\ m.no \in Nat /\ m.no <= e.no
          BY <3>1
      <4> QED BY <4>1
    <3>4. B \in V
        BY <1>1, <3>2
    <3>5. \A e \in B : Newer(A, e) = Newer(B, e)
      <4>1. \A e \in B : ~(m.no > e.no)
        <5>1. \A e \in B : e.no \in Nat /\ m.no \in Nat /\ e.no > m.no
            BY <3>1, <3>3
        <5> QED BY <5>1
      <4> QED BY <4>1 DEF Newer
    <3>6. Newer(A, m) = B
      <4>1. ~(m.no > m.no)
        <5>1. m.no \in Nat
            BY <3>1
        <5> QED BY <5>1
      <4> QED BY <3>3, <4>1 DEF Newer
    <3> HIDE DEF B
    <3>7. Newest(A, limit) = Newest(B, limit) \cup { x \in { m } : Cardinality(B) < limit }
        BY <3>2, <3>5, <3>6 DEF Newest
    <3>8. Cardinality(A) = Cardinality(B) + 1 /\ Cardinality(B) \in Nat
        BY <1>0, <3>2, FS_AddElement
    <3>9. Cardinality(Newest(B, limit))
            = IF limit < Cardinality(B) THEN limit ELSE Cardinality(B)
        BY <3>4
    <3>10. CASE Cardinality(B) < limit
      <4>1. Newest(A, limit) = Newest(B, limit) \cup { m } /\ m \notin Newest(B, limit)
          BY <3>2, <3>7, <3>10 DEF Newest
      <4>2. IsFiniteSet(Newest(B, limit))
        <5>1. Newest(B, limit) \in SUBSET E
            BY <3>2 DEF Newest
        <5> QED BY <1>0, <5>1
      <4>3. Cardinality(Newest(A, limit)) = Cardinality(Newest(B, limit)) + 1
          BY <4>1, <4>2, FS_AddElement
      <4> QED BY <3>8, <3>9, <3>10, <4>3
    <3>11. CASE ~(Cardinality(B) < limit)
      <4>1. Newest(A, limit) = Newest(B, limit)
          BY <3>7, <3>11
      <4> QED BY <3>8, <3>9, <3>11, <4>1
    <3> QED BY <3>10, <3>11
  <2> QED BY <2>1, <2>2
<1> HIDE DEF V
<1>2. \A A \in SUBSET E : A \in V
    BY ONLY IsFiniteSet(E), <1>1, SubsetInduction
<1> QED BY <1>2 DEF V

\* No event that a page leaves out is newer than one that it shows.
THEOREM EventsAreNewest ==
    ASSUME NEW events, IsFiniteSet(events), \A e \in events : e.no \in Nat,
           \A e \in events, d \in events : e.no = d.no => e = d,
           NEW node, NEW limit \in Nat
    PROVE  LET shown == RecentEvents(events, node, limit)
               others == EventsPage(events, node) \ shown
           IN  /\ Cardinality(shown) <= limit
               /\ others # {} => Cardinality(shown) = limit
               /\ \A e \in shown, d \in others : e.no > d.no
<1> DEFINE E == { e \in events : node \in { NotGiven, e.about } }
           shown == Newest(E, limit)
           others == EventsPage(events, node) \ shown
<1>1. /\ E \in SUBSET events /\ IsFiniteSet(E) /\ Cardinality(E) \in Nat
      /\ \A e \in E : e.no \in Nat
      /\ \A e \in E, d \in E : e.no = d.no => e = d
  <2>1. E \in SUBSET events
      OBVIOUS
  <2> HIDE DEF E
  <2>2. IsFiniteSet(E) /\ Cardinality(E) \in Nat
      BY <2>1, FS_Subset, FS_CardinalityType
  <2> QED BY <2>1, <2>2
<1>2. RecentEvents(events, node, limit) = shown
    BY DEF RecentEvents, Newest, Newer
<1>3. EventsPage(events, node) \subseteq E
    BY DEF EventsPage, RecentEvents
<1> HIDE DEF E
<1>4. Cardinality(shown) = IF limit < Cardinality(E) THEN limit ELSE Cardinality(E)
    BY <1>1, NewestAreCounted
<1>5. shown \in SUBSET E
    BY DEF Newest
<1>6. Cardinality(shown) <= limit
    BY <1>1, <1>4
<1>7. ASSUME others # {} PROVE Cardinality(shown) = limit
  <2>1. shown # E
      BY <1>3, <1>7
  <2>2. Cardinality(shown) # Cardinality(E)
      BY <1>1, <1>5, <2>1, FS_Subset
  <2> QED BY <1>1, <1>4, <2>2
<1>8. ASSUME NEW e \in shown, NEW d \in others PROVE e.no > d.no
  <2>1. e \in E /\ d \in E /\ d \notin shown /\ e.no \in Nat /\ d.no \in Nat
      BY <1>1, <1>3, <1>5
  <2> SUFFICES ASSUME e.no <= d.no PROVE FALSE
      BY <2>1
  <2>2. Newer(E, d) \in SUBSET Newer(E, e)
    <3>1. \A x \in E : x.no > d.no => x.no > e.no
        BY <1>1, <2>1
    <3> QED BY <3>1 DEF Newer
  <2>3. IsFiniteSet(Newer(E, e)) /\ Newer(E, e) \in SUBSET E
    <3>1. Newer(E, e) \in SUBSET E
        BY DEF Newer
    <3> QED BY <1>1, <3>1, FS_Subset
  <2>4. /\ Cardinality(Newer(E, d)) <= Cardinality(Newer(E, e))
        /\ Cardinality(Newer(E, d)) \in Nat /\ Cardinality(Newer(E, e)) \in Nat
      BY <2>2, <2>3, FS_Subset, FS_CardinalityType
  <2>5. Cardinality(Newer(E, e)) < limit /\ ~(Cardinality(Newer(E, d)) < limit)
      BY <2>1 DEF Newest
  <2> QED BY <2>4, <2>5
<1> QED BY <1>2, <1>6, <1>7, <1>8
=============================================================================
