----------------------------- MODULE FoldLemmas -----------------------------
(***************************************************************************)
(* Induction over numbers and finite sets, with the sets of what it is     *)
(* proved for in place of a predicate, and what the folds that the model   *)
(* is built from compute, from it.                                         *)
(***************************************************************************)
EXTENDS Retain, Totals, FiniteSetTheorems, TLAPS

\* A set of numbers that is not empty has a least one.
LEMMA LeastNumber ==
    ASSUME NEW T, T \subseteq Nat, T # {}
    PROVE  \E n \in T : \A m \in T : n <= m
<1>1. IsWellFoundedOn({ss \in Nat \X Nat : ss[1] < ss[2]}, Nat)
  BY NatLessThanWellFounded DEF OpToRel
<1>2. PICK n \in T : \A m \in T : ~(<<m, n>> \in {ss \in Nat \X Nat : ss[1] < ss[2]})
  BY <1>1, WFMin
<1>3. \A m \in T : ~(m < n)
  BY <1>2
<1> QED BY <1>3

\* A set of numbers with 0 and every successor has all numbers.
LEMMA NumberInduction ==
    ASSUME NEW T, 0 \in T, \A n \in Nat : n \in T => n + 1 \in T
    PROVE  \A n \in Nat : n \in T
<1> SUFFICES ASSUME Nat \ T # {} PROVE FALSE
  OBVIOUS
<1>1. PICK n \in Nat \ T : \A m \in Nat \ T : n <= m
  BY LeastNumber
<1> QED BY <1>1, n # 0, n - 1 \in Nat

\* A set of subsets of a finite set that has each one whose proper subsets it
\* has, has them all.
LEMMA SubsetInduction ==
    ASSUME NEW S, IsFiniteSet(S), NEW P,
           \A s \in SUBSET S : (\A t \in SUBSET s : t # s => t \in P) => s \in P
    PROVE  \A s \in SUBSET S : s \in P
<1> SUFFICES ASSUME (SUBSET S) \ P # {} PROVE FALSE
  OBVIOUS
<1> DEFINE Sizes == {Cardinality(s) : s \in (SUBSET S) \ P}
<1>1. \A s \in SUBSET S : IsFiniteSet(s) /\ Cardinality(s) \in Nat
  BY FS_Subset, FS_CardinalityType
<1>2. PICK n \in Sizes : \A m \in Sizes : n <= m
  <2>1. Sizes \subseteq Nat /\ Sizes # {}
    BY <1>1
  <2> HIDE DEF Sizes
  <2> QED BY <2>1, LeastNumber
<1>3. PICK s \in (SUBSET S) \ P : Cardinality(s) = n
  BY <1>2
<1>4. ASSUME NEW t \in SUBSET s, t # s PROVE t \in P
  <2>1. Cardinality(t) <= Cardinality(s) /\ Cardinality(t) # Cardinality(s)
    BY <1>1, <1>4, FS_Subset
  <2>2. t \in SUBSET S
    BY <1>3
  <2> QED BY <2>1, <2>2, <1>1, <1>2, <1>3
<1> QED BY <1>3, <1>4

-----------------------------------------------------------------------------
(* Folding a finite set by the elements that `pick` takes one after another *)

Picks(pick, S) == \A s \in SUBSET S : s # {} => pick[s] \in s

Folded(g, s, base, step, pick) ==
    IF s = {} THEN base ELSE step[pick[s]][g[s \ {pick[s]}]]

IsFold(g, S, base, step, pick) ==
    \A s \in SUBSET S : g[s] = Folded(g, s, base, step, pick)

\* The equation of a fold has a solution on the subsets of a finite set.
LEMMA FoldExists ==
    ASSUME NEW S, IsFiniteSet(S), NEW V, NEW base \in V, NEW step \in [S -> [V -> V]],
           NEW pick, Picks(pick, S)
    PROVE  \E g \in [SUBSET S -> V] : IsFold(g, S, base, step, pick)
<1> DEFINE UpTo(g, n) == \A s \in SUBSET S : Cardinality(s) <= n =>
                            g[s] = Folded(g, s, base, step, pick)
           T == {n \in Nat : \E g \in [SUBSET S -> V] : UpTo(g, n)}
<1>1. \A s \in SUBSET S : Cardinality(s) \in Nat /\ IsFiniteSet(s)
                            /\ (Cardinality(s) = 0 <=> s = {})
  BY FS_Subset, FS_CardinalityType, FS_EmptySet
<1>2. \A s \in SUBSET S : s # {} => /\ s \ {pick[s]} \in SUBSET S
                                    /\ Cardinality(s \ {pick[s]}) = Cardinality(s) - 1
  BY <1>1, FS_RemoveElement DEF Picks
<1>3. 0 \in T
  <2>1. UpTo([s \in SUBSET S |-> base], 0)
    BY <1>1 DEF Folded
  <2> QED BY <2>1
<1>4. ASSUME NEW n \in Nat, n \in T PROVE n + 1 \in T
  <2>1. PICK g \in [SUBSET S -> V] : UpTo(g, n)
    BY <1>4
  <2> DEFINE h == [s \in SUBSET S |-> Folded(g, s, base, step, pick)]
  <2>2. h \in [SUBSET S -> V]
    BY <1>2 DEF Folded, Picks
  <2>3. ASSUME NEW s \in SUBSET S, Cardinality(s) <= n + 1
        PROVE  h[s] = Folded(h, s, base, step, pick)
    <3>1. CASE s = {}
      BY <3>1 DEF Folded
    <3>2. CASE s # {}
      <4>1. s \ {pick[s]} \in SUBSET S /\ Cardinality(s \ {pick[s]}) <= n
        BY <1>1, <1>2, <2>3, <3>2
      <4>2. g[s \ {pick[s]}] = h[s \ {pick[s]}]
        BY <2>1, <4>1
      <4> QED BY <3>2, <4>2 DEF Folded
    <3> QED BY <3>1, <3>2
  <2>4. UpTo(h, n + 1)
    BY <2>3
  <2> HIDE DEF h, UpTo
  <2> QED BY <2>2, <2>4
<1>5. Cardinality(S) \in T
  <2> HIDE DEF T
  <2> QED BY <1>1, <1>3, <1>4, NumberInduction
<1>6. PICK g \in [SUBSET S -> V] : UpTo(g, Cardinality(S))
  BY <1>5
<1>7. \A s \in SUBSET S : Cardinality(s) <= Cardinality(S)
  BY FS_Subset
<1> QED BY <1>6, <1>7 DEF IsFold

\* It has one only: what a fold is on the subsets of a set does not depend on
\* the set that it was defined for.
LEMMA FoldUnique ==
    ASSUME NEW S, IsFiniteSet(S), NEW base, NEW step,
           NEW pick, Picks(pick, S),
           NEW g, IsFold(g, S, base, step, pick),
           NEW h, IsFold(h, S, base, step, pick)
    PROVE  \A s \in SUBSET S : g[s] = h[s]
<1> DEFINE P == {s \in SUBSET S : g[s] = h[s]}
<1>1. ASSUME NEW s \in SUBSET S, \A t \in SUBSET s : t # s => t \in P
      PROVE  s \in P
  <2>1. CASE s = {}
    BY <2>1 DEF Folded, IsFold
  <2>2. CASE s # {}
    <3>1. s \ {pick[s]} \in P
      BY <1>1, <2>2 DEF Picks
    <3> QED BY <2>2, <3>1 DEF Folded, IsFold
  <2> QED BY <2>1, <2>2
<1> HIDE DEF P
<1>2. \A s \in SUBSET S : s \in P
  BY <1>1, SubsetInduction
<1> QED BY <1>2 DEF P

-----------------------------------------------------------------------------
(* What a finite set adds up to, in whatever order it is added up *)

\* The element that the community modules' sum of a set takes first.
Some(s) == CHOOSE x \in s : TRUE
\* f has numbers on S.
Numbers(f, S) == \A x \in S : f[x] \in Nat

\* The equation that the sum of f on the subsets of S solves.
Sums(g, f, S) ==
    g = [s \in SUBSET S |-> IF s = {} THEN 0 ELSE f[Some(s)] + g[s \ {Some(s)}]]

\* The fold that Total is defined by is a solution of its equation.
LEMMA TotalIsFold ==
    ASSUME NEW S, IsFiniteSet(S), NEW f, Numbers(f, S)
    PROVE  \E g \in [SUBSET S -> Nat] : Sums(g, f, S) /\ Total(f, S) = g[S]
<1> DEFINE step == [x \in S |-> [y \in Nat |-> f[x] + y]]
           pick == [s \in SUBSET S |-> Some(s)]
<1>1. Picks(pick, S)
  BY DEF Some, Picks
<1>2. step \in [S -> [Nat -> Nat]] /\ 0 \in Nat
  BY DEF Numbers
<1>3. PICK g \in [SUBSET S -> Nat] : IsFold(g, S, 0, step, pick)
  <2> HIDE DEF step, pick
  <2> QED BY <1>1, <1>2, FoldExists
<1>4. \A s \in SUBSET S : g[s] = IF s = {} THEN 0 ELSE f[Some(s)] + g[s \ {Some(s)}]
  BY <1>1, <1>3 DEF Folded, IsFold, Picks
<1>5. Sums(g, f, S)
  BY <1>4 DEF Sums
<1> DEFINE G == CHOOSE h : Sums(h, f, S)
<1>6. Sums(G, f, S)
  BY <1>5
<1>7. Total(f, S) = G[S]
  BY DEF Total, MapThenSumSet, MapThenFoldSet, Some, Sums
<1>8. \A s \in SUBSET S : G[s] = g[s]
  <2>1. \A s \in SUBSET S : G[s] = IF s = {} THEN 0 ELSE f[Some(s)] + G[s \ {Some(s)}]
    <3> HIDE DEF G
    <3> QED BY <1>6 DEF Sums
  <2> DEFINE P == {s \in SUBSET S : G[s] = g[s]}
  <2>2. ASSUME NEW s \in SUBSET S, \A t \in SUBSET s : t # s => t \in P
        PROVE  s \in P
    <3> HIDE DEF G
    <3>1. CASE s = {}
      BY <1>4, <2>1, <3>1
    <3>2. CASE s # {}
      <4>1. s \ {Some(s)} \in P
        BY <2>2, <3>2 DEF Some
      <4> QED BY <1>4, <2>1, <3>2, <4>1
    <3> QED BY <3>1, <3>2
  <2> HIDE DEF G, P
  <2>3. \A s \in SUBSET S : s \in P
    BY <2>2, SubsetInduction
  <2> QED BY <2>3 DEF P
<1> HIDE DEF G
<1> QED BY <1>5, <1>7, <1>8

\* A sum of numbers is a number.
LEMMA TotalType ==
    ASSUME NEW S, IsFiniteSet(S), NEW f, Numbers(f, S)
    PROVE  Total(f, S) \in Nat
<1>1. PICK g \in [SUBSET S -> Nat] : Total(f, S) = g[S]
  BY TotalIsFold
<1>2. S \in SUBSET S
  OBVIOUS
<1> QED BY <1>1, <1>2

\* The empty sum is 0.
LEMMA TotalOfNothing == ASSUME NEW f PROVE Total(f, {}) = 0
<1>1. Numbers(f, {}) /\ IsFiniteSet({})
  BY FS_EmptySet DEF Numbers
<1>2. PICK g \in [SUBSET {} -> Nat] : Sums(g, f, {}) /\ Total(f, {}) = g[{}]
  BY <1>1, TotalIsFold
<1> QED BY <1>2 DEF Sums

\* A sum takes out the element that the fold runs through first ...
LEMMA TotalRemoveSome ==
    ASSUME NEW S, IsFiniteSet(S), NEW f, Numbers(f, S), S # {}
    PROVE  Total(f, S) = f[Some(S)] + Total(f, S \ {Some(S)})
<1> DEFINE T == S \ {Some(S)}
<1>1. IsFiniteSet(T) /\ Numbers(f, T) /\ T \in SUBSET S
  BY FS_RemoveElement DEF Numbers
<1>2. PICK g \in [SUBSET S -> Nat] : Sums(g, f, S) /\ Total(f, S) = g[S]
  BY TotalIsFold
<1>3. PICK h \in [SUBSET T -> Nat] : Sums(h, f, T) /\ Total(f, T) = h[T]
  <2> HIDE DEF T
  <2> QED BY <1>1, TotalIsFold
<1> DEFINE P == {s \in SUBSET T : g[s] = h[s]}
<1>4. ASSUME NEW s \in SUBSET T, \A t \in SUBSET s : t # s => t \in P
      PROVE  s \in P
  <2>0. s \in SUBSET S
    OBVIOUS
  <2>1. CASE s = {}
    BY <1>2, <1>3, <2>1 DEF Sums
  <2>2. CASE s # {}
    <3>1. s \ {Some(s)} \in P
      BY <1>4, <2>2 DEF Some
    <3>2. g[s] = f[Some(s)] + g[s \ {Some(s)}]
      BY <1>2, <2>0, <2>2 DEF Sums
    <3>3. h[s] = f[Some(s)] + h[s \ {Some(s)}]
      BY <1>3, <2>2 DEF Sums
    <3> QED BY <3>1, <3>2, <3>3
  <2> QED BY <2>1, <2>2
<1>5. T \in P
  <2>1. IsFiniteSet(T) /\ T \in SUBSET T
    BY <1>1
  <2> HIDE DEF T, P
  <2>2. \A s \in SUBSET T : s \in P
    BY <2>1, <1>4, SubsetInduction
  <2> QED BY <2>1, <2>2
<1>6. g[S] = f[Some(S)] + g[T]
  BY <1>2 DEF Sums
<1> QED BY <1>2, <1>3, <1>5, <1>6

\* ... and any other element as well.
LEMMA TotalRemove ==
    ASSUME NEW S, IsFiniteSet(S), NEW f, Numbers(f, S), NEW x \in S
    PROVE  Total(f, S) = f[x] + Total(f, S \ {x})
<1> DEFINE P == {s \in SUBSET S : \A y \in s : Total(f, s) = f[y] + Total(f, s \ {y})}
<1>1. ASSUME NEW s \in SUBSET S, \A t \in SUBSET s : t # s => t \in P
      PROVE  s \in P
  <2> SUFFICES ASSUME NEW y \in s PROVE Total(f, s) = f[y] + Total(f, s \ {y})
    OBVIOUS
  <2> DEFINE c == Some(s)
  <2>1. \A t \in SUBSET s : IsFiniteSet(t) /\ Numbers(f, t) /\ Total(f, t) \in Nat
    <3>1. \A t \in SUBSET s : IsFiniteSet(t) /\ Numbers(f, t)
      BY FS_Subset DEF Numbers
    <3> QED BY <3>1, TotalType
  <2>2. c \in s /\ f[c] \in Nat /\ f[y] \in Nat
    BY DEF Some, Numbers
  <2>3. Total(f, s) = f[c] + Total(f, s \ {c})
    BY <2>1, TotalRemoveSome
  <2>4. CASE y # c
    <3> HIDE DEF c
    <3>1. s \ {c} \in P /\ y \in s \ {c} /\ s \ {y} \in P /\ c \in s \ {y}
      BY <1>1, <2>2, <2>4
    <3>2. Total(f, s \ {c}) = f[y] + Total(f, (s \ {c}) \ {y})
      BY <3>1
    <3>3. Total(f, s \ {y}) = f[c] + Total(f, (s \ {y}) \ {c})
      BY <3>1
    <3>4. (s \ {c}) \ {y} = (s \ {y}) \ {c} /\ (s \ {c}) \ {y} \in SUBSET s
      OBVIOUS
    <3>5. PICK b \in Nat : b = Total(f, (s \ {c}) \ {y})
      BY <2>1, <3>4
    <3>6. Total(f, s \ {c}) = f[y] + b /\ Total(f, s \ {y}) = f[c] + b
      BY <3>2, <3>3, <3>4, <3>5
    <3>7. Total(f, s) = f[c] + (f[y] + b)
      BY <2>3, <3>6
    <3> QED BY <2>2, <3>5, <3>6, <3>7
  <2> QED BY <2>3, <2>4
<1> HIDE DEF P
<1>2. S \in P
  BY <1>1, SubsetInduction
<1> QED BY <1>2 DEF P

\* An element that joins a set adds its value to the sum.
LEMMA TotalAdd ==
    ASSUME NEW S, IsFiniteSet(S), NEW f, Numbers(f, S), NEW x, x \notin S, f[x] \in Nat
    PROVE  Total(f, S \cup {x}) = f[x] + Total(f, S)
<1>1. IsFiniteSet(S \cup {x}) /\ Numbers(f, S \cup {x})
  BY FS_AddElement DEF Numbers
<1>2. (S \cup {x}) \ {x} = S
  OBVIOUS
<1> QED BY <1>1, <1>2, TotalRemove

\* A sum depends on the values at its elements only.
LEMMA TotalSame ==
    ASSUME NEW S, IsFiniteSet(S), NEW f, Numbers(f, S), NEW g, \A x \in S : f[x] = g[x]
    PROVE  Total(f, S) = Total(g, S)
<1> DEFINE P == {s \in SUBSET S : Total(f, s) = Total(g, s)}
<1>1. ASSUME NEW s \in SUBSET S, \A t \in SUBSET s : t # s => t \in P
      PROVE  s \in P
  <2>1. IsFiniteSet(s) /\ Numbers(f, s) /\ Numbers(g, s)
    BY FS_Subset DEF Numbers
  <2>2. CASE s = {}
    BY <2>2, TotalOfNothing
  <2>3. CASE s # {}
    <3>1. PICK x \in s : TRUE
      BY <2>3
    <3>2. s \ {x} \in P
      BY <1>1, <3>1
    <3>3. Total(f, s) = f[x] + Total(f, s \ {x}) /\ Total(g, s) = g[x] + Total(g, s \ {x})
      BY <2>1, <3>1, TotalRemove
    <3> QED BY <3>1, <3>2, <3>3
  <2> QED BY <2>2, <2>3
<1> HIDE DEF P
<1>2. S \in P
  BY <1>1, SubsetInduction
<1> QED BY <1>2 DEF P

\* A sum of values of at most m is at most m for each element.
LEMMA TotalBound ==
    ASSUME NEW S, IsFiniteSet(S), NEW f, Numbers(f, S), NEW m \in Nat, \A x \in S : f[x] <= m
    PROVE  Total(f, S) <= Cardinality(S) * m
<1> DEFINE P == {s \in SUBSET S : Total(f, s) <= Cardinality(s) * m}
<1>1. ASSUME NEW s \in SUBSET S, \A t \in SUBSET s : t # s => t \in P
      PROVE  s \in P
  <2>1. IsFiniteSet(s) /\ Numbers(f, s) /\ Cardinality(s) \in Nat
    BY FS_Subset, FS_CardinalityType DEF Numbers
  <2>2. CASE s = {}
    BY <2>2, TotalOfNothing, FS_EmptySet
  <2>3. CASE s # {}
    <3>1. PICK x \in s : TRUE
      BY <2>3
    <3>2. s \ {x} \in P
      BY <1>1, <3>1
    <3>3. Total(f, s) = f[x] + Total(f, s \ {x})
      BY <2>1, <3>1, TotalRemove
    <3>4. Cardinality(s \ {x}) = Cardinality(s) - 1
      BY <2>1, <3>1, FS_RemoveElement
    <3>5. IsFiniteSet(s \ {x}) /\ Numbers(f, s \ {x})
      BY <2>1, FS_RemoveElement DEF Numbers
    <3>6. Total(f, s \ {x}) \in Nat /\ f[x] \in Nat /\ f[x] <= m
      BY <3>1, <3>5, TotalType DEF Numbers
    <3>7. (Cardinality(s) - 1) * m = Cardinality(s) * m - m
      BY <2>1
    <3> QED BY <2>1, <3>2, <3>3, <3>4, <3>6, <3>7
  <2> QED BY <2>2, <2>3
<1> HIDE DEF P
<1>2. S \in P
  BY <1>1, SubsetInduction
<1> QED BY <1>2 DEF P

\* A part of a set adds up to no more than the set.
LEMMA TotalOfPart ==
    ASSUME NEW S, IsFiniteSet(S), NEW f, Numbers(f, S), NEW t \in SUBSET S
    PROVE  Total(f, t) <= Total(f, S)
<1> DEFINE rest == S \ t
           P == {u \in SUBSET rest : Total(f, t) <= Total(f, t \cup u)}
<1>1. \A s \in SUBSET S : IsFiniteSet(s) /\ Numbers(f, s)
  BY FS_Subset DEF Numbers
<1>2. \A s \in SUBSET S : Total(f, s) \in Nat
  BY <1>1, TotalType
<1>3. ASSUME NEW u \in SUBSET rest, \A v \in SUBSET u : v # u => v \in P
      PROVE  u \in P
  <2>1. CASE u = {}
    <3>1. t \cup u = t
      BY <2>1
    <3> QED BY <1>2, <3>1
  <2>2. CASE u # {}
    <3>1. PICK x \in u : TRUE
      BY <2>2
    <3> DEFINE s == t \cup u
    <3>2. s \in SUBSET S /\ x \in s /\ s \ {x} = t \cup (u \ {x})
      BY <3>1
    <3>3. Total(f, t) <= Total(f, t \cup (u \ {x}))
      BY <1>3, <3>1
    <3>4. Total(f, s) = f[x] + Total(f, s \ {x})
      <4> HIDE DEF s
      <4> QED BY <1>1, <3>2, TotalRemove
    <3>5. f[x] \in Nat /\ Total(f, t) \in Nat /\ Total(f, s \ {x}) \in Nat
      BY <1>2, <3>2 DEF Numbers
    <3>6. Total(f, t) <= Total(f, s \ {x})
      BY <3>2, <3>3
    <3>7. Total(f, t) <= Total(f, s)
      <4> HIDE DEF s
      <4> QED BY <3>4, <3>5, <3>6
    <3> QED BY <3>7
  <2> QED BY <2>1, <2>2
<1>4. rest \in P
  <2>1. IsFiniteSet(rest) /\ rest \in SUBSET rest
    BY FS_Subset
  <2> HIDE DEF P, rest
  <2>2. \A s \in SUBSET rest : s \in P
    BY <2>1, <1>3, SubsetInduction
  <2> QED BY <2>1, <2>2
<1>5. t \cup rest = S
  OBVIOUS
<1> QED BY <1>4, <1>5

\* A sum is positive when something in it is, and only then.
LEMMA TotalPositive ==
    ASSUME NEW S, IsFiniteSet(S), NEW f, Numbers(f, S)
    PROVE  Total(f, S) > 0 <=> \E x \in S : f[x] > 0
<1>1. ASSUME NEW x \in S, f[x] > 0 PROVE Total(f, S) > 0
  <2>1. Total(f, S) = f[x] + Total(f, S \ {x})
    BY TotalRemove
  <2>2. IsFiniteSet(S \ {x}) /\ Numbers(f, S \ {x})
    BY FS_Subset DEF Numbers
  <2>3. Total(f, S \ {x}) \in Nat /\ f[x] \in Nat
    BY <2>2, TotalType DEF Numbers
  <2> QED BY <1>1, <2>1, <2>3
<1>2. ASSUME \A x \in S : ~(f[x] > 0) PROVE ~(Total(f, S) > 0)
  <2>1. \A x \in S : f[x] <= 0
    BY <1>2 DEF Numbers
  <2>2. Total(f, S) <= Cardinality(S) * 0 /\ Total(f, S) \in Nat
    BY <2>1, TotalBound, TotalType
  <2>3. Cardinality(S) \in Nat
    BY FS_CardinalityType
  <2> QED BY <2>2, <2>3
<1> QED BY <1>1, <1>2

-----------------------------------------------------------------------------
(* Folding a sequence, element by element *)

\* A finite set of numbers that is not empty has a largest one.
LEMMA MaxOfNumbers ==
    ASSUME NEW S, IsFiniteSet(S), S \subseteq Nat, S # {}
    PROVE  Max(S) \in S /\ \A n \in S : n <= Max(S)
<1> DEFINE P == {u \in SUBSET S : u # {} => \E m \in u : \A n \in u : n <= m}
<1>1. ASSUME NEW u \in SUBSET S, \A v \in SUBSET u : v # u => v \in P
      PROVE  u \in P
  <2>1. CASE u = {}
    BY <2>1
  <2>2. CASE u # {}
    <3>1. PICK x \in u : TRUE
      BY <2>2
    <3>2. u \ {x} \in P
      BY <1>1, <3>1
    <3>3. CASE u \ {x} = {}
      BY <3>1, <3>3
    <3>4. CASE u \ {x} # {}
      <4>1. PICK m \in u \ {x} : \A n \in u \ {x} : n <= m
        BY <3>2, <3>4
      <4>2. x <= m \/ m <= x
        BY <3>1
      <4> QED BY <4>1, <4>2, <3>1
    <3> QED BY <3>3, <3>4
  <2> QED BY <2>1, <2>2
<1>2. S \in P
  <2> HIDE DEF P
  <2> QED BY <1>1, SubsetInduction
<1> QED BY <1>2 DEF Max

\* The largest element of each set of indices.
Latest(n) == [u \in SUBSET (1..n) |-> Max(u)]

\* The indices of a sequence are finitely many.
LEMMA IndicesAreFinite == ASSUME NEW n \in Nat PROVE IsFiniteSet(1..n)
<1>1. 1 \in Int /\ n \in Int
  OBVIOUS
<1> QED BY <1>1, FS_Interval

\* Latest picks an element of each set of indices that has one.
LEMMA LatestPicks == ASSUME NEW n \in Nat PROVE Picks(Latest(n), 1..n)
<1>1. ASSUME NEW u \in SUBSET (1..n), u # {} PROVE Max(u) \in u
  <2>1. u \subseteq 1..n /\ u \subseteq Nat /\ IsFiniteSet(1..n)
    BY IndicesAreFinite
  <2>2. IsFiniteSet(u)
    BY <2>1, FS_Subset
  <2> QED BY <1>1, <2>1, <2>2, MaxOfNumbers
<1> QED BY <1>1 DEF Picks, Latest

\* A fold by the latest index goes from one prefix to the next.
LEMMA PrefixFold ==
    ASSUME NEW n \in Nat, NEW base, NEW step, NEW g, IsFold(g, 1..n, base, step, Latest(n))
    PROVE  g[{}] = base /\ \A i \in 1..n : g[1..i] = step[i][g[1..(i - 1)]]
<1>1. g[{}] = base
  BY DEF IsFold, Folded
<1>2. ASSUME NEW i \in 1..n PROVE g[1..i] = step[i][g[1..(i - 1)]]
  <2>1. 1..i \in SUBSET (1..n) /\ 1..i # {} /\ i \in 1..i
    OBVIOUS
  <2>2. IsFiniteSet(1..i) /\ 1..i \subseteq Nat
    BY IndicesAreFinite
  <2>3. Max(1..i) \in 1..i /\ i <= Max(1..i)
    BY <2>1, <2>2, MaxOfNumbers
  <2>4. Latest(n)[1..i] = i
    BY <2>1, <2>3 DEF Latest
  <2>5. (1..i) \ {i} = 1..(i - 1)
    OBVIOUS
  <2> QED BY <2>1, <2>4, <2>5 DEF IsFold, Folded
<1> QED BY <1>1, <1>2

\* g has, for each set of indices, what the fold makes of them.
FoldsIndices(g, n, base, step) ==
    \A u \in SUBSET (1..n) : g[u] = IF u = {} THEN base ELSE step[Max(u)][g[u \ {Max(u)}]]

\* The equation of a fold over the indices of a sequence has a solution.
LEMMA SequenceFoldExists ==
    ASSUME NEW n \in Nat, NEW V, NEW base \in V, NEW step \in [1..n -> [V -> V]]
    PROVE  \E g \in [SUBSET (1..n) -> V] : FoldsIndices(g, n, base, step)
<1>1. IsFiniteSet(1..n) /\ Picks(Latest(n), 1..n)
  BY IndicesAreFinite, LatestPicks
<1>2. PICK g \in [SUBSET (1..n) -> V] : IsFold(g, 1..n, base, step, Latest(n))
  BY <1>1, FoldExists
<1>3. FoldsIndices(g, n, base, step)
  BY <1>2 DEF IsFold, Folded, Latest, FoldsIndices
<1> QED BY <1>2, <1>3

\* Taking the latest index away leads from each prefix to the one before it.
LEMMA PrefixIndices ==
    ASSUME NEW n \in Nat
    PROVE  /\ 1..0 = {} /\ {} \in SUBSET (1..n)
           /\ \A u \in SUBSET (1..n) : u # {} => Max(u) \in u
           /\ \A i \in 1..n : /\ 1..i \in SUBSET (1..n) /\ 1..i # {}
                             /\ Max(1..i) = i /\ (1..i) \ {i} = 1..(i - 1)
<1>1. 1..0 = {} /\ {} \in SUBSET (1..n)
  OBVIOUS
<1>2. ASSUME NEW u \in SUBSET (1..n), u # {} PROVE Max(u) \in u /\ \A k \in u : k <= Max(u)
  <2>1. u \subseteq 1..n /\ u \subseteq Nat /\ IsFiniteSet(1..n)
    BY IndicesAreFinite
  <2>2. IsFiniteSet(u)
    BY <2>1, FS_Subset
  <2> QED BY <1>2, <2>1, <2>2, MaxOfNumbers
<1>3. ASSUME NEW i \in 1..n
      PROVE  /\ 1..i \in SUBSET (1..n) /\ 1..i # {}
             /\ Max(1..i) = i /\ (1..i) \ {i} = 1..(i - 1)
  <2>1. 1..i \in SUBSET (1..n) /\ i \in 1..i /\ (1..i) \ {i} = 1..(i - 1)
    OBVIOUS
  <2>2. Max(1..i) \in 1..i /\ i <= Max(1..i)
    BY <2>1, <1>2
  <2> QED BY <2>1, <2>2
<1> QED BY <1>1, <1>2, <1>3

\* The greater and the lesser of two numbers, and the least of three.
LEMMA MaxMin ==
    ASSUME NEW a \in Int, NEW b \in Int
    PROVE  /\ Max({a, b}) = IF a >= b THEN a ELSE b
           /\ Min({a, b}) = IF a <= b THEN a ELSE b
           /\ \A c \in Int : Min({a, b, c}) \in {a, b, c} /\ Min({a, b, c}) <= a
                             /\ Min({a, b, c}) <= b /\ Min({a, b, c}) <= c
<1>1. Max({a, b}) = IF a >= b THEN a ELSE b
  BY DEF Max
<1>2. Min({a, b}) = IF a <= b THEN a ELSE b
  BY DEF Min
<1>3. ASSUME NEW c \in Int
      PROVE  Min({a, b, c}) \in {a, b, c} /\ Min({a, b, c}) <= a
               /\ Min({a, b, c}) <= b /\ Min({a, b, c}) <= c
  <2>1. ASSUME NEW x \in {a, b, c}, x <= a, x <= b, x <= c
        PROVE  \E y \in {a, b, c} : \A z \in {a, b, c} : y <= z
    BY <2>1
  <2>2. \/ a <= b /\ a <= c
        \/ b <= a /\ b <= c
        \/ c <= a /\ c <= b
    BY <1>3
  <2>3. \E y \in {a, b, c} : \A z \in {a, b, c} : y <= z
    BY <1>3, <2>1, <2>2
  <2> QED BY <2>3 DEF Min
<1> QED BY <1>1, <1>2, <1>3

\* A set of numbers that is not empty has a least one, which is Min.
LEMMA MinOfNumbers ==
    ASSUME NEW S, S \subseteq Nat, S # {}
    PROVE  Min(S) \in S /\ \A n \in S : Min(S) <= n
BY LeastNumber DEF Min

\* What the least or the greatest element of a set is like determines it.
LEMMA ExtremeIs ==
    ASSUME NEW S, S \subseteq Int, NEW m \in S
    PROVE  /\ (\A n \in S : m <= n) => Min(S) = m
           /\ (\A n \in S : m >= n) => Max(S) = m
<1>1. ASSUME \A n \in S : m <= n PROVE Min(S) = m
  <2>1. Min(S) \in S /\ \A n \in S : Min(S) <= n
    BY <1>1 DEF Min
  <2>2. Min(S) \in Int /\ Min(S) <= m /\ m <= Min(S)
    BY <1>1, <2>1
  <2> QED BY <2>2
<1>2. ASSUME \A n \in S : m >= n PROVE Max(S) = m
  <2>1. Max(S) \in S /\ \A n \in S : Max(S) >= n
    BY <1>2 DEF Max
  <2>2. Max(S) \in Int /\ Max(S) >= m /\ m >= Max(S)
    BY <1>2, <2>1
  <2> QED BY <2>2
<1> QED BY <1>1, <1>2

-----------------------------------------------------------------------------
(* Retain *)

RetainedBy(g, seq, kept) ==
    g = [u \in SUBSET (DOMAIN seq) |->
            IF u = {} THEN <<>>
            ELSE IF seq[Max(u)] \in kept THEN Append(g[u \ {Max(u)}], seq[Max(u)])
            ELSE g[u \ {Max(u)}]]

\* h has what is retained of each prefix of seq.
Retaining(h, seq, kept) ==
    /\ h[0] = <<>> /\ Retain(seq, kept) = h[Len(seq)]
    /\ \A i \in 1..Len(seq) :
         h[i] = IF seq[i] \in kept THEN Append(h[i - 1], seq[i]) ELSE h[i - 1]

\* Retain goes through the sequence once, from its first element to its last.
LEMMA RetainPrefixes ==
    ASSUME NEW S, NEW seq \in Seq(S), NEW kept
    PROVE  \E h \in [0..Len(seq) -> Seq(S)] : Retaining(h, seq, kept)
<1> DEFINE n == Len(seq)
           D == 1..n
           step == [i \in D |-> [acc \in Seq(S) |->
                      IF seq[i] \in kept THEN Append(acc, seq[i]) ELSE acc]]
<1>1. n \in Nat /\ IsFiniteSet(D) /\ DOMAIN seq = D /\ \A i \in D : seq[i] \in S
  BY IndicesAreFinite
<1>2. step \in [D -> [Seq(S) -> Seq(S)]] /\ <<>> \in Seq(S)
  BY <1>1
<1>3. PICK g \in [SUBSET D -> Seq(S)] : IsFold(g, D, <<>>, step, Latest(n))
  <2>1. Picks(Latest(n), D)
    BY <1>1, LatestPicks
  <2> HIDE DEF step, D, n
  <2> QED BY <1>1, <1>2, <2>1, FoldExists
<1>4. \A u \in SUBSET D : u # {} => Max(u) \in D /\ Latest(n)[u] = Max(u)
  BY <1>1, LatestPicks DEF Latest, Picks
<1>5. RetainedBy(g, seq, kept)
  BY <1>1, <1>3, <1>4 DEF RetainedBy, IsFold, Folded
<1> DEFINE G == CHOOSE f : RetainedBy(f, seq, kept)
<1>6. RetainedBy(G, seq, kept)
  BY <1>5
<1>7. Retain(seq, kept) = G[DOMAIN seq]
  BY DEF Retain, FoldLeft, MapThenFoldSet, RetainedBy
<1>8. \A u \in SUBSET D : G[u] = g[u]
  <2> DEFINE P == {u \in SUBSET D : G[u] = g[u]}
  <2>1. ASSUME NEW u \in SUBSET D, \A v \in SUBSET u : v # u => v \in P
        PROVE  u \in P
    <3> HIDE DEF G
    <3>1. CASE u = {}
      BY <1>1, <1>5, <1>6, <3>1 DEF RetainedBy
    <3>2. CASE u # {}
      <4>1. Max(u) \in u
        BY <3>2, <1>1, LatestPicks DEF Latest, Picks
      <4>2. G[u \ {Max(u)}] = g[u \ {Max(u)}]
        BY <2>1, <4>1
      <4> QED BY <1>1, <1>5, <1>6, <3>2, <4>2 DEF RetainedBy
    <3> QED BY <3>1, <3>2
  <2> HIDE DEF G, P, D
  <2>2. \A u \in SUBSET D : u \in P
    BY <1>1, <2>1, SubsetInduction
  <2> QED BY <2>2 DEF P
<1> DEFINE h == [i \in 0..n |-> g[1..i]]
<1>9. h \in [0..n -> Seq(S)] /\ h[0] = g[{}] /\ h[n] = g[D]
  BY <1>1, 1..0 = {}
<1>10. g[{}] = <<>> /\ \A i \in D : g[1..i] = step[i][g[1..(i - 1)]]
  <2> DEFINE none == <<>>
  <2>1. n \in Nat /\ IsFold(g, 1..n, none, step, Latest(n))
    BY <1>1, <1>3
  <2>2. g[{}] = none /\ \A i \in 1..n : g[1..i] = step[i][g[1..(i - 1)]]
    <3> HIDE DEF step, n, none
    <3>1. n \in Nat
      BY <2>1
    <3>2. IsFold(g, 1..n, none, step, Latest(n))
      BY <2>1
    <3>3. g[{}] = none
      BY <3>1, <3>2, PrefixFold
    <3>4. \A i \in 1..n : g[1..i] = step[i][g[1..(i - 1)]]
      BY <3>1, <3>2, PrefixFold
    <3> QED BY <3>3, <3>4
  <2> QED BY <2>2
<1>11. ASSUME NEW i \in 1..n
       PROVE h[i] = IF seq[i] \in kept THEN Append(h[i - 1], seq[i]) ELSE h[i - 1]
  <2>1. i - 1 \in 0..n /\ i \in 0..n /\ h[i - 1] \in Seq(S)
    <3> HIDE DEF h, n
    <3>1. i - 1 \in 0..n /\ i \in 0..n
      BY <1>1
    <3> QED BY <3>1, <1>9
  <2>2. h[i] = step[i][h[i - 1]]
    BY <1>10, <2>1
  <2> HIDE DEF h
  <2> QED BY <2>1, <2>2
<1>12. Retain(seq, kept) = h[n]
  <2> HIDE DEF G
  <2> QED BY <1>1, <1>7, <1>8, <1>9
<1> HIDE DEF h, G, step
<1> QED BY <1>9, <1>10, <1>11, <1>12 DEF Retaining

\* The elements after Append.
LEMMA AppendFacts ==
    ASSUME NEW S, NEW seq \in Seq(S), NEW e \in S
    PROVE  /\ Append(seq, e) \in Seq(S) /\ Append(seq, e) # <<>>
           /\ Len(Append(seq, e)) = Len(seq) + 1
           /\ Append(seq, e)[Len(seq) + 1] = e
           /\ \A i \in 1..Len(seq) : Append(seq, e)[i] = seq[i]
           /\ Range(Append(seq, e)) = Range(seq) \cup {e}
<1>1. /\ Append(seq, e) \in Seq(S) /\ Append(seq, e) # <<>>
      /\ Len(Append(seq, e)) = Len(seq) + 1
      /\ Append(seq, e)[Len(seq) + 1] = e
      /\ \A i \in 1..Len(seq) : Append(seq, e)[i] = seq[i]
  OBVIOUS
<1>2. Range(Append(seq, e)) = Range(seq) \cup {e}
  <2>1. DOMAIN Append(seq, e) = 1..(Len(seq) + 1) /\ DOMAIN seq = 1..Len(seq)
    BY <1>1
  <2>2. 1..(Len(seq) + 1) = (1..Len(seq)) \cup {Len(seq) + 1}
    OBVIOUS
  <2> QED BY <1>1, <2>1, <2>2 DEF Range
<1> QED BY <1>1, <1>2

\* What is retained are the elements that are kept, the first one first.
LEMMA RetainFacts ==
    ASSUME NEW S, NEW seq \in Seq(S), NEW kept
    PROVE  /\ Retain(seq, kept) \in Seq(S)
           /\ Range(Retain(seq, kept)) = Range(seq) \cap kept
           /\ Retain(seq, kept) # <<>> =>
                \E i \in 1..Len(seq) :
                    /\ seq[i] \in kept /\ Retain(seq, kept)[1] = seq[i]
                    /\ \A j \in 1..(i - 1) : seq[j] \notin kept
<1> DEFINE n == Len(seq)
<1>1. n \in Nat /\ DOMAIN seq = 1..n /\ \A i \in 1..n : seq[i] \in S
  OBVIOUS
<1>2. PICK h \in [0..n -> Seq(S)] :
        /\ h[0] = <<>> /\ Retain(seq, kept) = h[n]
        /\ \A i \in 1..n : h[i] = IF seq[i] \in kept THEN Append(h[i - 1], seq[i]) ELSE h[i - 1]
  BY RetainPrefixes DEF Retaining
<1> HIDE DEF n
<1> DEFINE First(r, i) == \E k \in 1..i : /\ seq[k] \in kept /\ r[1] = seq[k]
                                          /\ \A j \in 1..(k - 1) : seq[j] \notin kept
           Good(r, i) == /\ Range(r) = {seq[j] : j \in 1..i} \cap kept
                         /\ IF r = <<>> THEN \A j \in 1..i : seq[j] \notin kept ELSE First(r, i)
           T == {i \in Nat : i <= n => Good(h[i], i)}
<1>3. 0 \in T
  <2>1. Range(<<>>) = {} /\ {seq[j] : j \in 1..0} = {}
    BY DEF Range
  <2> QED BY <1>2, <2>1
<1>4. ASSUME NEW i \in Nat, i \in T, i + 1 <= n PROVE Good(h[i + 1], i + 1)
  <2>1. i + 1 \in 1..n /\ (i + 1) - 1 = i /\ i \in 0..n /\ i + 1 \in 0..n /\ i <= n
    BY <1>1, <1>4
  <2> DEFINE r == h[i]
             e == seq[i + 1]
             s == h[i + 1]
  <2>2. r \in Seq(S) /\ s \in Seq(S) /\ e \in S /\ Good(r, i)
    <3>1. Good(r, i)
      <4> HIDE DEF Good
      <4> QED BY <1>4, <2>1
    <3>2. r \in Seq(S) /\ s \in Seq(S) /\ e \in S
      BY <1>1, <1>2, <2>1
    <3> QED BY <3>1, <3>2
  <2>3. s = IF e \in kept THEN Append(r, e) ELSE r
    BY <1>2, <2>1
  <2>4. {seq[j] : j \in 1..(i + 1)} = {seq[j] : j \in 1..i} \cup {e}
    <3>1. 1..(i + 1) = (1..i) \cup {i + 1}
      OBVIOUS
    <3> QED BY <3>1
  <2> HIDE DEF r, e, s
  <2>5. CASE e \in kept
    <3>1. s = Append(r, e)
      BY <2>3, <2>5
    <3>2. Range(s) = Range(r) \cup {e} /\ s # <<>>
      BY <2>2, <3>1, AppendFacts
    <3>3. Range(s) = {seq[j] : j \in 1..(i + 1)} \cap kept
      BY <2>2, <2>4, <2>5, <3>2
    <3>4. CASE r = <<>>
      <4>1. s[1] = e
        BY <2>2, <3>1, <3>4
      <4>2. (i + 1) \in 1..(i + 1) /\ (i + 1) - 1 = i
        OBVIOUS
      <4>3. First(s, i + 1)
        BY <2>2, <2>5, <3>4, <4>1, <4>2 DEF e
      <4> QED BY <3>2, <3>3, <4>3 DEF s
    <3>5. CASE r # <<>>
      <4>1. s[1] = r[1]
        BY <2>2, <3>1, <3>5
      <4>2. First(r, i) /\ 1..i \subseteq 1..(i + 1)
        BY <2>2, <3>5
      <4>3. First(s, i + 1)
        BY <4>1, <4>2
      <4> QED BY <3>2, <3>3, <4>3 DEF s
    <3> QED BY <3>4, <3>5
  <2>6. CASE e \notin kept
    <3>1. s = r
      BY <2>3, <2>6
    <3>2. Range(s) = {seq[j] : j \in 1..(i + 1)} \cap kept
      BY <2>2, <2>4, <2>6, <3>1
    <3>3. ASSUME r = <<>>, NEW j \in 1..(i + 1) PROVE seq[j] \notin kept
      <4>1. j \in 1..i \/ j = i + 1
        OBVIOUS
      <4> QED BY <2>2, <2>6, <3>3, <4>1 DEF e
    <3>4. r # <<>> => First(s, i + 1)
      BY <2>2, <3>1, 1..i \subseteq 1..(i + 1)
    <3> QED BY <3>1, <3>2, <3>3, <3>4 DEF s
  <2> QED BY <2>5, <2>6
<1>5. n \in T
  <2> HIDE DEF Good
  <2>1. \A i \in Nat : i \in T => i + 1 \in T
    BY <1>4
  <2> HIDE DEF T
  <2> QED BY <1>1, <1>3, <2>1, NumberInduction
<1>6. Good(h[n], n) /\ h[n] \in Seq(S)
  BY <1>1, <1>2, <1>5
<1>7. Range(seq) = {seq[j] : j \in 1..n}
  BY <1>1 DEF Range
<1> QED BY <1>2, <1>6, <1>7 DEF n

-----------------------------------------------------------------------------
(* Induction over sequences, and what it shows of Retain *)

\* A set with the empty sequence and every extension of its sequences by one
\* element has all sequences.
LEMMA AppendInduction ==
    ASSUME NEW S, NEW T, <<>> \in T,
           \A s \in Seq(S) : s \in T => \A e \in S : Append(s, e) \in T
    PROVE  Seq(S) \subseteq T
<1> DEFINE N == {n \in Nat : \A s \in Seq(S) : Len(s) = n => s \in T}
<1>1. 0 \in N
  <2>1. \A s \in Seq(S) : Len(s) = 0 => s = <<>>
    OBVIOUS
  <2> QED BY <2>1
<1>2. ASSUME NEW n \in Nat, n \in N PROVE n + 1 \in N
  <2> SUFFICES ASSUME NEW s \in Seq(S), Len(s) = n + 1 PROVE s \in T
    OBVIOUS
  <2> DEFINE front == [i \in 1..n |-> s[i]]
  <2>1. front \in Seq(S) /\ Len(front) = n /\ s[n + 1] \in S
    OBVIOUS
  <2>2. Append(front, s[n + 1]) \in T
    <3> HIDE DEF front
    <3> QED BY <1>2, <2>1
  <2>3. s = Append(front, s[n + 1])
    OBVIOUS
  <2> QED BY <2>2, <2>3
<1>3. \A n \in Nat : n \in N
  <2> HIDE DEF N
  <2> QED BY <1>1, <1>2, NumberInduction
<1> QED BY <1>3

\* Retain passes over what comes next, or appends it.
LEMMA RetainAppend ==
    ASSUME NEW S, NEW seq \in Seq(S), NEW e \in S, NEW kept
    PROVE  /\ Retain(<<>>, kept) = <<>>
           /\ Retain(Append(seq, e), kept)
                = IF e \in kept THEN Append(Retain(seq, kept), e) ELSE Retain(seq, kept)
<1> DEFINE n == Len(seq)
           longer == Append(seq, e)
<1>1. /\ n \in Nat /\ longer \in Seq(S) /\ Len(longer) = n + 1 /\ longer[n + 1] = e
      /\ \A i \in 1..n : longer[i] = seq[i]
  BY AppendFacts
<1>2. PICK h \in [0..Len(seq) -> Seq(S)] : Retaining(h, seq, kept)
  BY RetainPrefixes
<1>3. PICK g \in [0..Len(longer) -> Seq(S)] : Retaining(g, longer, kept)
  <2> HIDE DEF longer
  <2> QED BY <1>1, RetainPrefixes
<1> HIDE DEF longer
<1> DEFINE T == {i \in Nat : i <= n => g[i] = h[i]}
<1>4. 0 \in T
  BY <1>2, <1>3 DEF Retaining
<1>5. ASSUME NEW i \in Nat, i \in T PROVE i + 1 \in T
  <2> SUFFICES ASSUME i + 1 <= n PROVE g[i + 1] = h[i + 1]
    OBVIOUS
  <2>1. /\ i + 1 \in 1..n /\ i + 1 \in 1..(n + 1) /\ (i + 1) - 1 = i /\ i <= n
        /\ g[i] = h[i]
    BY <1>1, <1>5
  <2>2. h[i + 1] = IF seq[i + 1] \in kept THEN Append(h[i], seq[i + 1]) ELSE h[i]
    BY <1>2, <2>1 DEF Retaining
  <2>3. g[i + 1] = IF longer[i + 1] \in kept THEN Append(g[i], longer[i + 1]) ELSE g[i]
    BY <1>1, <1>3, <2>1 DEF Retaining
  <2> QED BY <1>1, <2>1, <2>2, <2>3
<1>6. g[n] = h[n]
  <2>1. \A i \in Nat : i \in T
    <3> HIDE DEF T
    <3> QED BY <1>4, <1>5, NumberInduction
  <2> QED BY <1>1, <2>1
<1>7. g[n + 1] = IF e \in kept THEN Append(g[n], e) ELSE g[n]
  <2>1. n + 1 \in 1..(n + 1) /\ (n + 1) - 1 = n
    BY <1>1
  <2> QED BY <1>1, <1>3, <2>1 DEF Retaining
<1>8. Retain(<<>>, kept) = <<>>
  <2> DEFINE none == <<>>
  <2>1. none \in Seq(S) /\ Len(none) = 0
    OBVIOUS
  <2>2. PICK k \in [0..Len(none) -> Seq(S)] : Retaining(k, none, kept)
    <3> HIDE DEF none
    <3> QED BY <2>1, RetainPrefixes
  <2> QED BY <2>1, <2>2 DEF Retaining
<1>9. Retain(longer, kept) = g[n + 1] /\ Retain(seq, kept) = h[n]
  BY <1>1, <1>2, <1>3 DEF Retaining
<1> QED BY <1>6, <1>7, <1>8, <1>9 DEF longer

\* Retaining twice keeps what both keep.
LEMMA RetainTwice ==
    ASSUME NEW S, NEW A, NEW B, NEW seq \in Seq(S)
    PROVE  Retain(Retain(seq, A), B) = Retain(seq, A \cap B)
<1> DEFINE T == {s \in Seq(S) : Retain(Retain(s, A), B) = Retain(s, A \cap B)}
<1>1. <<>> \in T
  <2> DEFINE none == <<>>
  <2>1. none \in Seq(S) /\ \A kept : Retain(none, kept) = none
    <3>1. ASSUME NEW kept PROVE Retain(<<>>, kept) = <<>>
      <4>1. <<>> \in Seq({0}) /\ 0 \in {0}
        OBVIOUS
      <4> QED BY <4>1, RetainAppend
    <3> QED BY <3>1
  <2> HIDE DEF none
  <2>2. none \in T
    BY <2>1
  <2> QED BY <2>2 DEF none
<1>2. ASSUME NEW s \in Seq(S), s \in T, NEW e \in S PROVE Append(s, e) \in T
  <2> DEFINE longer == Append(s, e)
             r == Retain(s, A)
  <2>1. longer \in Seq(S) /\ r \in Seq(S)
    BY RetainFacts
  <2>2. Retain(longer, A) = IF e \in A THEN Append(r, e) ELSE r
    BY RetainAppend
  <2>3. Retain(longer, A \cap B)
          = IF e \in A \cap B THEN Append(Retain(s, A \cap B), e) ELSE Retain(s, A \cap B)
    BY RetainAppend
  <2>4. Retain(r, B) = Retain(s, A \cap B)
    BY <1>2
  <2> HIDE DEF r
  <2>5. Retain(Append(r, e), B) = IF e \in B THEN Append(Retain(r, B), e) ELSE Retain(r, B)
    BY <2>1, RetainAppend
  <2> HIDE DEF longer
  <2>6. Retain(Retain(longer, A), B) = Retain(longer, A \cap B)
    <3>1. CASE e \in A
      <4>1. Retain(longer, A) = Append(r, e) /\ (e \in A \cap B <=> e \in B)
        BY <2>2, <3>1
      <4> QED BY <2>3, <2>4, <2>5, <4>1
    <3>2. CASE e \notin A
      BY <2>2, <2>3, <2>4, <3>2
    <3> QED BY <3>1, <3>2
  <2>7. longer \in T
    BY <2>1, <2>6
  <2> QED BY <2>7 DEF longer
<1>3. Seq(S) \subseteq T
  <2> HIDE DEF T
  <2> QED BY <1>1, <1>2, AppendInduction
<1> QED BY <1>3

\* What is kept matters for the elements of the sequence only.
LEMMA RetainAgrees ==
    ASSUME NEW S, NEW A, NEW B, NEW seq \in Seq(S),
           \A x \in Range(seq) : x \in A <=> x \in B
    PROVE  Retain(seq, A) = Retain(seq, B)
<1> DEFINE T == {s \in Seq(S) : (\A x \in Range(s) : x \in A <=> x \in B)
                                    => Retain(s, A) = Retain(s, B)}
<1>1. <<>> \in T
  <2>1. ASSUME NEW kept PROVE Retain(<<>>, kept) = <<>>
    <3>1. <<>> \in Seq({0}) /\ 0 \in {0}
      OBVIOUS
    <3> QED BY <3>1, RetainAppend
  <2>2. Retain(<<>>, A) = <<>> /\ Retain(<<>>, B) = <<>>
    BY <2>1
  <2> QED BY <2>2
<1>2. ASSUME NEW s \in Seq(S), s \in T, NEW e \in S PROVE Append(s, e) \in T
  <2> DEFINE longer == Append(s, e)
  <2>1. longer \in Seq(S) /\ Range(longer) = Range(s) \cup {e}
    BY AppendFacts
  <2>2. Retain(longer, A) = IF e \in A THEN Append(Retain(s, A), e) ELSE Retain(s, A)
    BY RetainAppend
  <2>3. Retain(longer, B) = IF e \in B THEN Append(Retain(s, B), e) ELSE Retain(s, B)
    BY RetainAppend
  <2> HIDE DEF longer
  <2>4. ASSUME \A x \in Range(longer) : x \in A <=> x \in B
        PROVE  Retain(longer, A) = Retain(longer, B)
    <3>1. Retain(s, A) = Retain(s, B) /\ (e \in A <=> e \in B)
      BY <1>2, <2>1, <2>4
    <3> QED BY <2>2, <2>3, <3>1
  <2>5. longer \in T
    BY <2>1, <2>4
  <2> QED BY <2>5 DEF longer
<1>3. Seq(S) \subseteq T
  <2> HIDE DEF T
  <2> QED BY <1>1, <1>2, AppendInduction
<1> QED BY <1>3
=============================================================================
