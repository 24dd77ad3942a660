------------------------------ MODULE FoldLemmas -------------------------------
(***************************************************************************)
(* What the other proof modules need of numbers, finite sets, sums and     *)
(* folds.  The provers take no operator as a parameter, so induction is    *)
(* over the members of a set, and a sum or a fold is one of a function.    *)
(***************************************************************************)
EXTENDS Integers, FiniteSetsExt, SequencesExt, FiniteSetTheorems,
        WellFoundedInduction, TLAPS

-----------------------------------------------------------------------------
(* Induction.                                                              *)

\* Every set of numbers has a least one.
LEMMA LeastNumber ==
  ASSUME NEW T \in SUBSET Nat, T # {}
  PROVE  \E m \in T : \A k \in T : m <= k
<1> DEFINE R == {p \in Nat \X Nat : p[1] < p[2]}
<1>1. PICK m \in T : \A k \in T : ~(<<k, m>> \in R)
  <2>1. IsWellFoundedOn(R, Nat)
    BY NatLessThanWellFounded DEF OpToRel
  <2> HIDE DEF R
  <2>2. QED BY <2>1, WFMin
<1>2. \A k \in T : ~(k < m)
  BY <1>1
<1> QED BY <1>2

\* What holds of 0, and of each number's successor, holds of all.
LEMMA CountingUp ==
  ASSUME NEW P, 0 \in P, \A n \in Nat : n \in P => n + 1 \in P
  PROVE  \A n \in Nat : n \in P
<1> DEFINE T == {n \in Nat : n \notin P}
<1> SUFFICES ASSUME T # {} PROVE FALSE
  OBVIOUS
<1>1. PICK m \in T : \A k \in T : m <= k
  <2>1. T \in SUBSET Nat
    OBVIOUS
  <2> HIDE DEF T
  <2> QED BY <2>1, LeastNumber
<1>2. m - 1 \in Nat /\ ~(m <= m - 1)
  BY <1>1
<1> QED BY <1>1, <1>2

\* What holds of the empty set, and of a set with one more member, holds of every
\* finite set.
LEMMA GrowingSets ==
  ASSUME NEW S, IsFiniteSet(S), NEW P, {} \in P,
         \A T \in SUBSET S : T \in P => \A x \in S \ T : T \cup {x} \in P
  PROVE  S \in P
<1> DEFINE Q == {n \in Nat : \A T \in SUBSET S : Cardinality(T) = n => T \in P}
<1>1. 0 \in Q
  BY FS_Subset, FS_EmptySet
<1>2. ASSUME NEW n \in Nat, n \in Q PROVE n + 1 \in Q
  <2> SUFFICES ASSUME NEW T \in SUBSET S, Cardinality(T) = n + 1 PROVE T \in P
    OBVIOUS
  <2>1. IsFiniteSet(T) /\ T # {}
    BY FS_Subset, FS_EmptySet
  <2>2. PICK x \in T : TRUE
    BY <2>1
  <2>3. Cardinality(T \ {x}) = n
    <3>1. Cardinality(T \ {x}) = Cardinality(T) - 1
      BY <2>1, FS_RemoveElement
    <3> QED BY <3>1
  <2>4. T \ {x} \in P
    BY <1>2, <2>3
  <2>5. (T \ {x}) \cup {x} = T /\ x \in S \ (T \ {x})
    OBVIOUS
  <2> QED BY <2>4, <2>5
<1>3. \A n \in Nat : n \in Q
  <2> HIDE DEF Q
  <2> QED BY <1>1, <1>2, CountingUp
<1> QED BY <1>3, FS_CardinalityType

-----------------------------------------------------------------------------
(* Folds.                                                                  *)

\* iter folds the subsets of S with g, from base on, each with the member c chooses of
\* it last.
Folds(iter, S, c, g, base) ==
  iter = [s \in SUBSET S |->
            IF s = {} THEN base ELSE g[<<c[s], iter[s \ {c[s]}]>>]]

Chooses(c, S) == \A s \in SUBSET S : s # {} => c[s] \in s

\* There is such a function...
LEMMA FoldExists ==
  ASSUME NEW S, IsFiniteSet(S), NEW c, Chooses(c, S), NEW A, NEW base \in A,
         NEW g, \A x \in S, a \in A : g[<<x, a>>] \in A
  PROVE  \E iter : Folds(iter, S, c, g, base) /\ iter \in [SUBSET S -> A]
<1> DEFINE Upto(n) == {s \in SUBSET S : Cardinality(s) <= n}
           Value(h, s) == IF s = {} THEN base ELSE g[<<c[s], h[s \ {c[s]}]>>]
           Good(h, n) == h \in [Upto(n) -> A] /\ \A s \in Upto(n) : h[s] = Value(h, s)
           Q == {n \in Nat : \E h : Good(h, n)}
<1>1. \A s \in SUBSET S : Cardinality(s) \in Nat /\ IsFiniteSet(s)
  BY FS_Subset, FS_CardinalityType
<1>2. ASSUME NEW n \in Nat, NEW s \in Upto(n + 1), s # {}
      PROVE  s \ {c[s]} \in Upto(n) /\ c[s] \in S
  <2>1. c[s] \in s
    BY <1>2 DEF Chooses
  <2>2. Cardinality(s \ {c[s]}) = Cardinality(s) - 1
    BY <1>1, <2>1, FS_RemoveElement
  <2> QED BY <1>1, <2>1, <2>2
<1>3. 0 \in Q
  <2> DEFINE h == [s \in Upto(0) |-> base]
  <2>1. \A s \in Upto(0) : s = {}
    BY <1>1, FS_EmptySet
  <2>2. Good(h, 0)
    BY <2>1
  <2> QED BY <2>2
<1>4. ASSUME NEW n \in Nat, n \in Q PROVE n + 1 \in Q
  <2>1. PICK h : Good(h, n)
    BY <1>4
  <2> DEFINE k == [s \in Upto(n + 1) |-> Value(h, s)]
  <2>2. \A s \in Upto(n) : k[s] = h[s] /\ s \in Upto(n + 1)
    BY <1>1, <2>1
  <2>3. ASSUME NEW s \in Upto(n + 1) PROVE k[s] \in A /\ k[s] = Value(k, s)
    <3>1. CASE s = {}
      BY <3>1
    <3>2. CASE s # {}
      <4>1. s \ {c[s]} \in Upto(n) /\ c[s] \in S
        BY <1>2, <3>2
      <4>2. h[s \ {c[s]}] \in A /\ k[s \ {c[s]}] = h[s \ {c[s]}]
        BY <2>1, <2>2, <4>1
      <4>3. k[s] = g[<<c[s], h[s \ {c[s]}]>>]
        BY <3>2
      <4> HIDE DEF k
      <4> QED BY <3>2, <4>1, <4>2, <4>3
    <3> QED BY <3>1, <3>2
  <2>4. k \in [Upto(n + 1) -> A]
    <3>1. k = [s \in Upto(n + 1) |-> k[s]]
      OBVIOUS
    <3> HIDE DEF k
    <3> QED BY <2>3, <3>1
  <2> HIDE DEF k
  <2>5. Good(k, n + 1)
    BY <2>3, <2>4
  <2> HIDE DEF Good
  <2> QED BY <2>5
<1>5. PICK n \in Nat : n = Cardinality(S)
  BY FS_CardinalityType
<1>6. PICK h : Good(h, n)
  <2>1. \A m \in Nat : m \in Q
    <3> HIDE DEF Q
    <3> QED BY <1>3, <1>4, CountingUp
  <2> QED BY <2>1
<1>7. Upto(n) = SUBSET S
  BY <1>5, FS_Subset
<1>8. Folds(h, S, c, g, base) /\ h \in [SUBSET S -> A]
  <2>1. h \in [SUBSET S -> A] /\ \A s \in SUBSET S : h[s] = Value(h, s)
    BY <1>6, <1>7
  <2>2. h = [s \in SUBSET S |-> Value(h, s)]
    BY <2>1
  <2> QED BY <2>1, <2>2 DEF Folds
<1> QED BY <1>8

\* ...and on each subset there is only one.
LEMMA FoldUnique ==
  ASSUME NEW S, IsFiniteSet(S), NEW c, Chooses(c, S), NEW g, NEW base,
         NEW h, NEW k, Folds(h, S, c, g, base), Folds(k, S, c, g, base)
  PROVE  \A s \in SUBSET S : h[s] = k[s]
<1> DEFINE Q == {n \in Nat : \A s \in SUBSET S : Cardinality(s) = n => h[s] = k[s]}
<1>1. \A s \in SUBSET S : Cardinality(s) \in Nat /\ IsFiniteSet(s)
  BY FS_Subset, FS_CardinalityType
<1>2. ASSUME NEW s \in SUBSET S
      PROVE  /\ h[s] = IF s = {} THEN base ELSE g[<<c[s], h[s \ {c[s]}]>>]
             /\ k[s] = IF s = {} THEN base ELSE g[<<c[s], k[s \ {c[s]}]>>]
  BY DEF Folds
<1>3. 0 \in Q
  BY <1>1, <1>2, FS_EmptySet
<1>4. ASSUME NEW n \in Nat, n \in Q PROVE n + 1 \in Q
  <2> SUFFICES ASSUME NEW s \in SUBSET S, Cardinality(s) = n + 1 PROVE h[s] = k[s]
    OBVIOUS
  <2>1. s # {} /\ c[s] \in s
    BY FS_EmptySet DEF Chooses
  <2>2. Cardinality(s \ {c[s]}) = n
    <3>1. Cardinality(s \ {c[s]}) = Cardinality(s) - 1
      BY <1>1, <2>1, FS_RemoveElement
    <3> QED BY <3>1
  <2>3. h[s \ {c[s]}] = k[s \ {c[s]}]
    BY <1>4, <2>2
  <2> QED BY <1>2, <2>1, <2>3
<1>5. \A n \in Nat : n \in Q
  <2> HIDE DEF Q
  <2> QED BY <1>3, <1>4, CountingUp
<1> QED BY <1>1, <1>5

-----------------------------------------------------------------------------
(* Sums.                                                                   *)

AnyOf(s) == CHOOSE x \in s : TRUE

\* Any member is one.
LEMMA AnyOfIsOne == \A s : s # {} => AnyOf(s) \in s
BY DEF AnyOf

\* iter adds up f over the subsets of S.
Adds(iter, f, S) ==
  iter = [s \in SUBSET S |->
            IF s = {} THEN 0
            ELSE f[AnyOf(s)] + iter[s \ {AnyOf(s)}]]

SumOf(f, S) == (CHOOSE iter : Adds(iter, f, S))[S]

\* A sum is a fold.
LEMMA AddsIsFold ==
  ASSUME NEW S, NEW f, \A x \in S : f[x] \in Int
  PROVE  \E c, g : /\ Chooses(c, S)
                   /\ \A x \in S, a \in Int : g[<<x, a>>] = f[x] + a
                   /\ \A iter \in [SUBSET S -> Int] :
                        Adds(iter, f, S) <=> Folds(iter, S, c, g, 0)
<1> DEFINE c == [s \in SUBSET S |-> AnyOf(s)]
           g == [p \in S \X Int |-> f[p[1]] + p[2]]
<1>1. \A s \in SUBSET S : c[s] = AnyOf(s) /\ (s # {} => c[s] \in s)
  BY AnyOfIsOne
<1>2. \A x \in S, a \in Int : g[<<x, a>>] = f[x] + a
  OBVIOUS
<1>3. ASSUME NEW iter \in [SUBSET S -> Int]
      PROVE  Adds(iter, f, S) <=> Folds(iter, S, c, g, 0)
  <2> DEFINE Here(s)  == IF s = {} THEN 0 ELSE f[AnyOf(s)] + iter[s \ {AnyOf(s)}]
             There(s) == IF s = {} THEN 0 ELSE g[<<c[s], iter[s \ {c[s]}]>>]
  <2>1. ASSUME NEW s \in SUBSET S PROVE Here(s) = There(s)
    <3>1. CASE s = {}
      BY <3>1
    <3>2. CASE s # {}
      <4>1. PICK y \in S : y = c[s]
        BY <1>1, <3>2
      <4>2. iter[s \ {y}] \in Int
        OBVIOUS
      <4>3. g[<<y, iter[s \ {y}]>>] = f[y] + iter[s \ {y}]
        BY <1>2, <4>2
      <4> HIDE DEF c, g
      <4> QED BY <1>1, <3>2, <4>1, <4>3
    <3> QED BY <3>1, <3>2
  <2>2. [s \in SUBSET S |-> Here(s)] = [s \in SUBSET S |-> There(s)]
    <3> HIDE DEF Here, There
    <3> QED BY <2>1
  <2> QED BY <2>2 DEF Adds, Folds
<1> HIDE DEF c, g
<1> QED BY <1>1, <1>2, <1>3 DEF Chooses

\* What adds up integers is an integer.
LEMMA AddsType ==
  ASSUME NEW S, IsFiniteSet(S), NEW f, \A x \in S : f[x] \in Int, NEW iter, Adds(iter, f, S)
  PROVE  iter \in [SUBSET S -> Int]
<1> DEFINE Q == {n \in Nat : \A s \in SUBSET S : Cardinality(s) = n => iter[s] \in Int}
<1>1. \A s \in SUBSET S : Cardinality(s) \in Nat /\ IsFiniteSet(s)
  BY FS_Subset, FS_CardinalityType
<1>2. ASSUME NEW s \in SUBSET S
      PROVE  iter[s] = IF s = {} THEN 0
                       ELSE f[AnyOf(s)] + iter[s \ {AnyOf(s)}]
  BY DEF Adds
<1>3. 0 \in Q
  BY <1>1, <1>2, FS_EmptySet
<1>4. ASSUME NEW n \in Nat, n \in Q PROVE n + 1 \in Q
  <2> SUFFICES ASSUME NEW s \in SUBSET S, Cardinality(s) = n + 1 PROVE iter[s] \in Int
    OBVIOUS
  <2>1. PICK y : y = AnyOf(s)
    OBVIOUS
  <2>2. s # {} /\ y \in s
    BY <2>1, FS_EmptySet, AnyOfIsOne
  <2>3. Cardinality(s \ {y}) = n
    <3>1. Cardinality(s \ {y}) = Cardinality(s) - 1
      BY <1>1, <2>2, FS_RemoveElement
    <3> QED BY <3>1
  <2>4. iter[s \ {y}] \in Int /\ f[y] \in Int
    BY <1>4, <2>2, <2>3
  <2>5. iter[s] = f[y] + iter[s \ {y}]
    BY <1>2, <2>1, <2>2
  <2> QED BY <2>4, <2>5
<1>5. \A n \in Nat : n \in Q
  <2> HIDE DEF Q
  <2> QED BY <1>3, <1>4, CountingUp
<1>6. \A s \in SUBSET S : iter[s] \in Int
  BY <1>1, <1>5
<1> QED BY <1>6 DEF Adds

\* There is one...
LEMMA AddsExist ==
  ASSUME NEW S, IsFiniteSet(S), NEW f, \A x \in S : f[x] \in Int
  PROVE  \E iter \in [SUBSET S -> Int] : Adds(iter, f, S)
<1>1. PICK c, g : /\ Chooses(c, S)
                  /\ \A x \in S, a \in Int : g[<<x, a>>] = f[x] + a
                  /\ \A iter \in [SUBSET S -> Int] :
                       Adds(iter, f, S) <=> Folds(iter, S, c, g, 0)
  BY AddsIsFold
<1>2. PICK A : A = Int
  OBVIOUS
<1>3. ASSUME NEW x \in S, NEW a \in A PROVE g[<<x, a>>] \in A
  <2>1. f[x] \in Int /\ a \in Int
    BY <1>2
  <2>2. g[<<x, a>>] = f[x] + a
    BY <1>1, <2>1
  <2> QED BY <1>2, <2>1, <2>2
<1>4. \E iter : Folds(iter, S, c, g, 0) /\ iter \in [SUBSET S -> A]
  <2>1. 0 \in A
    BY <1>2
  <2> QED BY <1>1, <1>3, <2>1, FoldExists
<1> QED BY <1>1, <1>2, <1>4

\* ...which takes the members in any order.
LEMMA AddsAnyOrder ==
  ASSUME NEW S, IsFiniteSet(S), NEW f, \A x \in S : f[x] \in Int, NEW iter, Adds(iter, f, S)
  PROVE  \A s \in SUBSET S : \A y \in s : iter[s] = f[y] + iter[s \ {y}]
<1> DEFINE Q == {n \in Nat : \A s \in SUBSET S : Cardinality(s) = n =>
                               \A y \in s : iter[s] = f[y] + iter[s \ {y}]}
<1>1. \A s \in SUBSET S : Cardinality(s) \in Nat /\ IsFiniteSet(s) /\ iter[s] \in Int
  <2>1. \A s \in SUBSET S : Cardinality(s) \in Nat /\ IsFiniteSet(s)
    BY FS_Subset, FS_CardinalityType
  <2>2. iter \in [SUBSET S -> Int]
    BY AddsType
  <2> QED BY <2>1, <2>2
<1>2. ASSUME NEW s \in SUBSET S, NEW x, x = AnyOf(s), s # {}
      PROVE  x \in s /\ iter[s] = f[x] + iter[s \ {x}]
  BY <1>2, AnyOfIsOne DEF Adds
<1>3. 0 \in Q
  BY <1>1, FS_EmptySet
<1>4. ASSUME NEW n \in Nat, n \in Q PROVE n + 1 \in Q
  <2> SUFFICES ASSUME NEW s \in SUBSET S, Cardinality(s) = n + 1, NEW y \in s
               PROVE iter[s] = f[y] + iter[s \ {y}]
    OBVIOUS
  <2>1. PICK x : x = AnyOf(s)
    OBVIOUS
  <2>2. x \in s /\ iter[s] = f[x] + iter[s \ {x}]
    BY <1>2, <2>1
  <2>3. CASE x = y
    BY <2>2, <2>3
  <2>4. CASE x # y
    <3>1. Cardinality(s \ {x}) = n /\ Cardinality(s \ {y}) = n
      <4>1. Cardinality(s \ {x}) = Cardinality(s) - 1 /\ Cardinality(s \ {y}) = Cardinality(s) - 1
        BY <1>1, <2>2, FS_RemoveElement
      <4> QED BY <4>1
    <3>2. iter[s \ {x}] = f[y] + iter[(s \ {x}) \ {y}]
      BY <1>4, <2>4, <3>1
    <3>3. iter[s \ {y}] = f[x] + iter[(s \ {y}) \ {x}]
      BY <1>4, <2>2, <2>4, <3>1
    <3>4. PICK u : u = (s \ {x}) \ {y} /\ u = (s \ {y}) \ {x} /\ u \in SUBSET S
      BY <2>4
    <3>5. iter[u] \in Int /\ f[x] \in Int /\ f[y] \in Int
      BY <1>1, <2>2, <3>4
    <3>6. iter[s \ {x}] = f[y] + iter[u] /\ iter[s \ {y}] = f[x] + iter[u]
      BY <3>2, <3>3, <3>4
    <3> HIDE DEF Q
    <3> QED BY <2>2, <3>5, <3>6
  <2> QED BY <2>3, <2>4
<1>5. \A n \in Nat : n \in Q
  <2> HIDE DEF Q
  <2> QED BY <1>3, <1>4, CountingUp
<1> QED BY <1>1, <1>5

\* Two sums of what is the same are the same.
LEMMA AddsTheSame ==
  ASSUME NEW S, IsFiniteSet(S), NEW f, \A x \in S : f[x] \in Int, NEW h, Adds(h, f, S),
         NEW T, IsFiniteSet(T), NEW e, \A x \in T : e[x] \in Int, NEW k, Adds(k, e, T),
         NEW U \in SUBSET (S \cap T), \A x \in U : f[x] = e[x]
  PROVE  h[U] = k[U]
<1> DEFINE P == {V \in SUBSET U : h[V] = k[V]}
<1>1. {} \in P
  BY DEF Adds
<1>2. ASSUME NEW V \in SUBSET U, V \in P, NEW x \in U \ V PROVE V \cup {x} \in P
  <2>1. h[V \cup {x}] = f[x] + h[(V \cup {x}) \ {x}]
    BY AddsAnyOrder
  <2>2. k[V \cup {x}] = e[x] + k[(V \cup {x}) \ {x}]
    BY AddsAnyOrder
  <2>3. (V \cup {x}) \ {x} = V
    BY <1>2
  <2> QED BY <1>2, <2>1, <2>2, <2>3
<1>3. IsFiniteSet(U)
  BY FS_Subset
<1>4. U \in P
  <2> HIDE DEF P
  <2> QED BY <1>1, <1>2, <1>3, GrowingSets
<1> QED BY <1>4

\* The sum by any such function.
LEMMA SumIs ==
  ASSUME NEW S, IsFiniteSet(S), NEW f, \A x \in S : f[x] \in Int, NEW iter, Adds(iter, f, S)
  PROVE  iter[S] = SumOf(f, S)
<1>1. Adds(CHOOSE h : Adds(h, f, S), f, S)
  BY Zenon
<1> QED BY <1>1, AddsTheSame DEF SumOf

\* A sum of integers is one.
LEMMA SumType ==
  ASSUME NEW S, IsFiniteSet(S), NEW f, \A x \in S : f[x] \in Int
  PROVE  SumOf(f, S) \in Int
<1>1. PICK iter \in [SUBSET S -> Int] : Adds(iter, f, S)
  BY AddsExist
<1> QED BY <1>1, SumIs

\* There is nothing to sum up.
LEMMA SumOfNone == ASSUME NEW f PROVE SumOf(f, {}) = 0
<1>1. PICK iter \in [SUBSET {} -> Int] : Adds(iter, f, {})
  BY AddsExist, FS_EmptySet
<1>2. iter[{}] = SumOf(f, {})
  BY <1>1, SumIs, FS_EmptySet
<1> QED BY <1>1, <1>2 DEF Adds

\* One member apart from the others.
LEMMA SumOfMore ==
  ASSUME NEW S, IsFiniteSet(S), NEW f, \A x \in S : f[x] \in Int, NEW x \in S
  PROVE  SumOf(f, S) = f[x] + SumOf(f, S \ {x})
<1>1. PICK iter \in [SUBSET S -> Int] : Adds(iter, f, S)
  BY AddsExist
<1>2. IsFiniteSet(S \ {x}) /\ \A y \in S \ {x} : f[y] \in Int
  BY FS_RemoveElement
<1>3. PICK less \in [SUBSET (S \ {x}) -> Int] : Adds(less, f, S \ {x})
  BY <1>2, AddsExist
<1>4. iter[S \ {x}] = less[S \ {x}]
  BY <1>1, <1>2, <1>3, AddsTheSame
<1>5. iter[S] = f[x] + iter[S \ {x}]
  BY <1>1, AddsAnyOrder
<1>6. iter[S] = SumOf(f, S) /\ less[S \ {x}] = SumOf(f, S \ {x})
  BY <1>1, <1>2, <1>3, SumIs
<1> QED BY <1>4, <1>5, <1>6

\* Functions that agree have the same sum.
LEMMA SumOfSame ==
  ASSUME NEW S, IsFiniteSet(S), NEW f, \A x \in S : f[x] \in Int, NEW e, \A x \in S : e[x] = f[x]
  PROVE  SumOf(e, S) = SumOf(f, S)
<1>1. PICK iter \in [SUBSET S -> Int] : Adds(iter, f, S)
  BY AddsExist
<1>2. PICK same \in [SUBSET S -> Int] : Adds(same, e, S)
  BY AddsExist
<1>3. iter[S] = same[S]
  BY <1>1, <1>2, AddsTheSame
<1> QED BY <1>1, <1>2, <1>3, SumIs

-----------------------------------------------------------------------------
(* Folds from the left.                                                    *)

\* A set of numbers up to some number has a greatest one.
LEMMA GreatestOf ==
  ASSUME NEW n \in Nat, NEW s \in SUBSET (0 .. n), s # {}
  PROVE  Max(s) \in s /\ \A x \in s : Max(s) >= x
<1> DEFINE T == {n - x : x \in s}
<1>1. T \in SUBSET Nat /\ T # {}
  <2>1. \A x \in s : x \in 0 .. n
    OBVIOUS
  <2>2. \A x \in s : n - x \in Nat
    BY <2>1
  <2> QED BY <2>2
<1>2. PICK m \in T : \A k \in T : m <= k
  <2> HIDE DEF T
  <2> QED BY <1>1, LeastNumber
<1>3. PICK x \in s : m = n - x
  BY <1>2
<1>4. \A y \in s : x >= y
  <2>1. \A y \in s : n - x <= n - y
    BY <1>2, <1>3
  <2> HIDE DEF T
  <2> QED BY <2>1
<1> HIDE DEF T
<1> QED BY <1>4, Zenon DEF Max

\* iter folds the first numbers with g, from base on, in their order.
LeftFolds(iter, n, g, base) ==
  iter = [s \in SUBSET (1 .. n) |->
            IF s = {} THEN base ELSE g[<<Max(s), iter[s \ {Max(s)}]>>]]

\* There is such a function.
LEMMA LeftFoldExists ==
  ASSUME NEW n \in Nat, NEW A, NEW base \in A, NEW g, \A i \in 1 .. n, a \in A : g[<<i, a>>] \in A
  PROVE  \E iter : LeftFolds(iter, n, g, base) /\ iter \in [SUBSET (1 .. n) -> A]
<1> DEFINE S == 1 .. n
           c == [s \in SUBSET S |-> Max(s)]
<1>1. IsFiniteSet(S) /\ S \subseteq 0 .. n
  BY FS_Interval
<1>2. Chooses(c, S)
  BY <1>1, GreatestOf DEF Chooses
<1>3. PICK iter : Folds(iter, S, c, g, base) /\ iter \in [SUBSET S -> A]
  <2> HIDE DEF S, c
  <2>1. \A x \in S, a \in A : g[<<x, a>>] \in A
    BY DEF S
  <2> QED BY <1>1, <1>2, <2>1, FoldExists
<1>4. LeftFolds(iter, n, g, base)
  <2> DEFINE Here(s)  == IF s = {} THEN base ELSE g[<<c[s], iter[s \ {c[s]}]>>]
             There(s) == IF s = {} THEN base ELSE g[<<Max(s), iter[s \ {Max(s)}]>>]
  <2>1. \A s \in SUBSET S : c[s] = Max(s)
    OBVIOUS
  <2>2. \A s \in SUBSET S : Here(s) = There(s)
    <3> HIDE DEF c, S
    <3> QED BY <2>1
  <2>3. [s \in SUBSET S |-> Here(s)] = [s \in SUBSET S |-> There(s)]
    <3> HIDE DEF Here, There, S
    <3> QED BY <2>2
  <2> QED BY <1>3, <2>3 DEF LeftFolds, Folds
<1> QED BY <1>3, <1>4

\* It takes one number after the other.
LEMMA FirstNumbers ==
  ASSUME NEW n \in Nat, NEW k \in 1 .. n
  PROVE  /\ 1 .. k \in SUBSET (1 .. n) /\ 1 .. k # {}
         /\ Max(1 .. k) = k /\ (1 .. k) \ {k} = 1 .. (k - 1)
<1>1. 1 .. k \in SUBSET (1 .. n) /\ 1 .. k # {} /\ 1 .. k \in SUBSET (0 .. n)
  OBVIOUS
<1>2. Max(1 .. k) \in 1 .. k /\ \A x \in 1 .. k : Max(1 .. k) >= x
  BY <1>1, GreatestOf
<1>3. Max(1 .. k) = k
  BY <1>2
<1>4. (1 .. k) \ {k} = 1 .. (k - 1)
  OBVIOUS
<1> QED BY <1>1, <1>3, <1>4

-----------------------------------------------------------------------------
(* Ways back.                                                              *)

\* Functions that come from place to place: each value from that of the place before,
\* the first one from base.
Walks(back, D, o, from, g, base) ==
  back = [p \in D |-> IF p = o THEN base ELSE g[<<p, back[from[p]]>>]]

\* There is one, if every place before is nearer to the first.
LEMMA WalkExists ==
  ASSUME NEW D, NEW o, NEW from, NEW N \in Nat, NEW rank \in [D -> 0 .. N],
         \A p \in D : p # o => from[p] \in D /\ rank[from[p]] < rank[p],
         NEW V, NEW base \in V, NEW g, \A p \in D \ {o}, v \in V : g[<<p, v>>] \in V
  PROVE  \E back : Walks(back, D, o, from, g, base) /\ back \in [D -> V]
<1> DEFINE Upto(n) == {p \in D : rank[p] < n}
           Value(h, p) == IF p = o THEN base ELSE g[<<p, h[from[p]]>>]
           Good(h, n) == h \in [Upto(n) -> V] /\ \A p \in Upto(n) : h[p] = Value(h, p)
           Q == {n \in Nat : \E h : Good(h, n)}
<1>1. \A p \in D : rank[p] \in Nat /\ rank[p] < N + 1
  OBVIOUS
<1>2. 0 \in Q
  <2> DEFINE h == [p \in {} |-> base]
  <2>1. Upto(0) = {}
    BY <1>1
  <2>2. Good(h, 0)
    BY <2>1
  <2> QED BY <2>2
<1>3. ASSUME NEW n \in Nat, n \in Q PROVE n + 1 \in Q
  <2>1. PICK h : Good(h, n)
    BY <1>3
  <2> DEFINE k == [p \in Upto(n + 1) |-> Value(h, p)]
  <2>2. ASSUME NEW p \in Upto(n + 1), p # o PROVE from[p] \in Upto(n)
    <3>1. from[p] \in D /\ rank[from[p]] < rank[p] /\ rank[p] < n + 1
      BY <2>2
    <3>2. rank[from[p]] < n
      BY <1>1, <3>1
    <3> QED BY <3>1, <3>2
  <2>3. \A p \in Upto(n) : k[p] = h[p] /\ p \in Upto(n + 1)
    <3>1. \A p \in Upto(n) : p \in Upto(n + 1)
      BY <1>1
    <3> QED BY <2>1, <3>1
  <2>4. ASSUME NEW p \in Upto(n + 1) PROVE k[p] \in V /\ k[p] = Value(k, p)
    <3>1. CASE p = o
      BY <3>1
    <3>2. CASE p # o
      <4>1. from[p] \in Upto(n)
        BY <2>2, <3>2
      <4>2. h[from[p]] \in V /\ k[from[p]] = h[from[p]]
        BY <2>1, <2>3, <4>1
      <4>3. k[p] = g[<<p, h[from[p]]>>] /\ p \in D \ {o}
        BY <3>2
      <4> HIDE DEF k
      <4> QED BY <3>2, <4>2, <4>3
    <3> QED BY <3>1, <3>2
  <2>5. k \in [Upto(n + 1) -> V]
    <3>1. k = [p \in Upto(n + 1) |-> k[p]]
      OBVIOUS
    <3> HIDE DEF k
    <3> QED BY <2>4, <3>1
  <2> HIDE DEF k
  <2>6. Good(k, n + 1)
    BY <2>4, <2>5
  <2> HIDE DEF Good
  <2> QED BY <2>6
<1>4. PICK h : Good(h, N + 1)
  <2>1. \A m \in Nat : m \in Q
    <3> HIDE DEF Q
    <3> QED BY <1>2, <1>3, CountingUp
  <2>2. N + 1 \in Q
    <3>1. N + 1 \in Nat
      OBVIOUS
    <3> HIDE DEF Q
    <3> QED BY <2>1, <3>1
  <2> QED BY <2>2
<1>5. Upto(N + 1) = D
  BY <1>1
<1>6. h \in [D -> V] /\ \A p \in D : h[p] = Value(h, p)
  BY <1>4, <1>5
<1>7. h = [p \in D |-> Value(h, p)]
  BY <1>6
<1> QED BY <1>6, <1>7 DEF Walks

-----------------------------------------------------------------------------
(* Sets in an order.                                                       *)

\* One of the members has the greatest weight.
LEMMA Heaviest ==
  ASSUME NEW S, IsFiniteSet(S), S # {}, NEW w, \A x \in S : w[x] \in Int
  PROVE  \E x \in S : \A y \in S : w[y] <= w[x]
<1> DEFINE P == {T \in SUBSET S : T # {} => \E x \in T : \A y \in T : w[y] <= w[x]}
<1>1. {} \in P
  OBVIOUS
<1>2. ASSUME NEW T \in SUBSET S, T \in P, NEW z \in S \ T PROVE T \cup {z} \in P
  <2>1. CASE T = {}
    BY <2>1
  <2>2. CASE T # {}
    <3>1. PICK x \in T : \A y \in T : w[y] <= w[x]
      BY <1>2, <2>2
    <3>2. CASE w[z] <= w[x]
      BY <3>1, <3>2
    <3>3. CASE ~(w[z] <= w[x])
      <4>1. w[x] <= w[z] /\ w[z] <= w[z] /\ \A y \in T : w[y] <= w[z]
        BY <3>1, <3>3
      <4> QED BY <4>1
    <3> QED BY <3>2, <3>3
  <2> QED BY <2>1, <2>2
<1>3. S \in P
  <2> HIDE DEF P
  <2> QED BY <1>1, <1>2, GrowingSets
<1> QED BY <1>3

\* The members in a sequence, each of them once...
Once(q, S) ==
  /\ q \in [1 .. Cardinality(S) -> S]
  /\ \A i, j \in 1 .. Cardinality(S) : i # j => q[i] # q[j]

\* ...one of which has the lighter ones first.
LEMMA InOrder ==
  ASSUME NEW S, IsFiniteSet(S), NEW w, \A x \in S : w[x] \in Int
  PROVE  \E q : Once(q, S) /\ \A i, j \in 1 .. Cardinality(S) : i < j => w[q[i]] <= w[q[j]]
<1> DEFINE Ordered(q, T) == \A i, j \in 1 .. Cardinality(T) : i < j => w[q[i]] <= w[q[j]]
           Q == {n \in Nat : \A T \in SUBSET S : Cardinality(T) = n =>
                               \E q : Once(q, T) /\ Ordered(q, T)}
<1>1. \A T \in SUBSET S : Cardinality(T) \in Nat /\ IsFiniteSet(T)
  BY FS_Subset, FS_CardinalityType
<1>2. 0 \in Q
  <2>1. ASSUME NEW T \in SUBSET S, Cardinality(T) = 0 PROVE \E q : Once(q, T) /\ Ordered(q, T)
    <3> DEFINE q == [i \in 1 .. 0 |-> 0]
    <3>1. Once(q, T) /\ Ordered(q, T)
      BY <2>1 DEF Once
    <3> QED BY <3>1
  <2> QED BY <2>1
<1>3. ASSUME NEW n \in Nat, n \in Q PROVE n + 1 \in Q
  <2> SUFFICES ASSUME NEW T \in SUBSET S, Cardinality(T) = n + 1
               PROVE  \E q : Once(q, T) /\ Ordered(q, T)
    OBVIOUS
  <2>1. T # {} /\ IsFiniteSet(T)
    BY <1>1, FS_EmptySet
  <2>2. PICK x \in T : \A y \in T : w[y] <= w[x]
    <3>1. \A y \in T : w[y] \in Int
      OBVIOUS
    <3> QED BY <2>1, <3>1, Heaviest
  <2>3. Cardinality(T \ {x}) = n
    <3>1. Cardinality(T \ {x}) = Cardinality(T) - 1
      BY <2>1, FS_RemoveElement
    <3> QED BY <3>1
  <2>4. PICK q : Once(q, T \ {x}) /\ Ordered(q, T \ {x})
    BY <1>3, <2>3
  <2>5. /\ q \in [1 .. n -> T \ {x}]
        /\ \A i, j \in 1 .. n : i # j => q[i] # q[j]
        /\ \A i, j \in 1 .. n : i < j => w[q[i]] <= w[q[j]]
    BY <2>3, <2>4 DEF Once
  <2> DEFINE p == [i \in 1 .. (n + 1) |-> IF i = n + 1 THEN x ELSE q[i]]
  <2>6. p[n + 1] = x /\ \A i \in 1 .. n : p[i] = q[i] /\ p[i] \in T \ {x}
    BY <2>5
  <2>7. \A i \in 1 .. (n + 1) : i \in 1 .. n \/ i = n + 1
    OBVIOUS
  <2>8. p \in [1 .. (n + 1) -> T]
    BY <2>5, <2>7
  <2> HIDE DEF p
  <2>9. Once(p, T)
    <3>1. ASSUME NEW i \in 1 .. (n + 1), NEW j \in 1 .. (n + 1), i # j PROVE p[i] # p[j]
      BY <2>5, <2>6, <2>7, <3>1
    <3> QED BY <2>8, <3>1 DEF Once
  <2>10. Ordered(p, T)
    <3>1. ASSUME NEW i \in 1 .. (n + 1), NEW j \in 1 .. (n + 1), i < j PROVE w[p[i]] <= w[p[j]]
      <4>1. i \in 1 .. n
        BY <3>1
      <4>2. CASE j = n + 1
        BY <2>2, <2>6, <4>1, <4>2
      <4>3. CASE j \in 1 .. n
        BY <2>5, <2>6, <3>1, <4>1, <4>3
      <4> QED BY <2>7, <4>2, <4>3
    <3> QED BY <3>1
  <2> QED BY <2>9, <2>10
<1>4. \A n \in Nat : n \in Q
  <2> HIDE DEF Q
  <2> QED BY <1>2, <1>3, CountingUp
<1> QED BY <1>1, <1>4

\* Every member is in it.
LEMMA OnceCovers ==
  ASSUME NEW S, IsFiniteSet(S), NEW q, Once(q, S)
  PROVE  \A x \in S : \E i \in 1 .. Cardinality(S) : q[i] = x
<1>1. PICK n \in Nat : n = Cardinality(S)
  BY FS_CardinalityType
<1>2. IsFiniteSet(1 .. n) /\ Cardinality(1 .. n) = n
  BY <1>1, FS_Interval
<1>3. q \in Injection(1 .. n, S)
  BY <1>1 DEF Once, Injection, IsInjective
<1>4. q \in Surjection(1 .. n, S)
  BY <1>1, <1>2, <1>3, FS_Injection
<1> QED BY <1>1, <1>4 DEF Surjection
===============================================================================
