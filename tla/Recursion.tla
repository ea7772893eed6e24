------------------------------ MODULE Recursion ------------------------------
(***************************************************************************)
(* Recursive functions and folds, of which the provers know no more than   *)
(* their definitions: that what they are chosen to satisfy can be          *)
(* satisfied is shown here, once for all the modules that use them.        *)
(***************************************************************************)
EXTENDS Integers, FiniteSetsExt, FiniteSetTheorems, WellFoundedInduction, TLAPS

-----------------------------------------------------------------------------
(* Recursion on numbers.                                                   *)

\* The order of the numbers as a relation.
LEMMA NatOrder ==
  \E R : IsWellFoundedOn(R, Nat) /\ \A x, y \in Nat : y < x => <<y, x>> \in R
<1> DEFINE R == OpToRel(<, Nat)
<1>1. IsWellFoundedOn(R, Nat)
  BY NatLessThanWellFounded
<1>2. \A x, y \in Nat : y < x => <<y, x>> \in R
  BY DEF OpToRel
<1> QED
  BY <1>1, <1>2, Zenon

\* A set of numbers that is not empty has a least one.
LEMMA LeastNatural ==
  ASSUME NEW T, T \subseteq Nat, T # {}
  PROVE  \E x \in T : \A y \in T : x <= y
<1>1. PICK R : IsWellFoundedOn(R, Nat) /\ \A x, y \in Nat : y < x => <<y, x>> \in R
  BY NatOrder
<1>2. \E x \in T : \A y \in T : ~(<<y, x>> \in R)
  BY <1>1, WFMin
<1>3. PICK x \in T : \A y \in T : ~(<<y, x>> \in R)
  BY <1>2
<1>4. \A y \in T : ~(y < x)
  BY <1>1, <1>3, Zenon
<1>5. \A y \in T : x <= y
  BY <1>4
<1> QED
  BY <1>5

\* A set of numbers to which 0 belongs, and with a number the next one, has them all.
LEMMA InductiveSet ==
  ASSUME NEW N, N \subseteq Nat, 0 \in N, \A n \in N : n + 1 \in N
  PROVE  \A n \in Nat : n \in N
<1> SUFFICES ASSUME NEW m \in Nat, m \notin N PROVE FALSE
  OBVIOUS
<1> DEFINE Others == Nat \ N
<1>1. Others \subseteq Nat /\ Others # {}
  OBVIOUS
<1>2. PICK least \in Others : \A n \in Others : least <= n
  BY <1>1, LeastNatural, Zenon
<1>3. least \in Nat /\ least # 0
  BY <1>2
<1>4. least - 1 \in Nat /\ ~(least <= least - 1)
  BY <1>3
<1>5. least - 1 \in N
  BY <1>2, <1>4
<1>6. (least - 1) + 1 \in N
  BY <1>5
<1>7. (least - 1) + 1 = least
  BY <1>3
<1> QED
  BY <1>2, <1>6, <1>7

\* G gives the value of a function at each point in terms of the function, of which
\* it uses only the values at points of lower rank.
Recursion(S, T, rank, G) ==
  /\ T # {}
  /\ rank \in [S -> Nat]
  /\ G \in [S -> [[S -> T] -> T]]
  /\ \A x \in S : \A f, g \in [S -> T] :
       (\A y \in S : rank[y] < rank[x] => f[y] = g[y]) => G[x][f] = G[x][g]

Solvable(S, T, G) == \E f \in [S -> T] : \A x \in S : f[x] = G[x][f]

\* Such an equation has a solution.
LEMMA RecursiveFunction ==
  ASSUME NEW S, NEW T, NEW rank, NEW G, Recursion(S, T, rank, G)
  PROVE  Solvable(S, T, G)
<1> USE DEF Recursion
<1> DEFINE Solves(f, n) == \A x \in S : rank[x] < n => f[x] = G[x][f]
           Unique == {n \in Nat : \A f, g \in [S -> T] :
                        Solves(f, n) /\ Solves(g, n) =>
                          \A x \in S : rank[x] < n => f[x] = g[x]}
           Solved == {n \in Nat : \E f \in [S -> T] : Solves(f, n)}
<1>0. \A x \in S : rank[x] \in Nat
  OBVIOUS
<1>1. ASSUME NEW n \in Nat, NEW x \in S
      PROVE  (rank[x] < n => rank[x] < n + 1) /\ (rank[x] < n + 1 => rank[x] < n \/ rank[x] = n)
  <2>1. \A r \in Nat : (r < n => r < n + 1) /\ (r < n + 1 => r < n \/ r = n)
    OBVIOUS
  <2> QED
    BY <1>0, <2>1, Zenon
<1>2. \A f \in [S -> T] : \A n \in Nat : Solves(f, n + 1) => Solves(f, n)
  BY <1>1
<1>3. \A n \in Nat : n \in Unique
  <2>1. 0 \in Unique
    <3>1. \A x \in S : ~(rank[x] < 0)
      BY <1>0
    <3> QED
      BY <3>1
  <2>2. ASSUME NEW n \in Unique PROVE n + 1 \in Unique
    <3> SUFFICES ASSUME NEW f \in [S -> T], NEW g \in [S -> T],
                        Solves(f, n + 1), Solves(g, n + 1),
                        NEW x \in S, rank[x] < n + 1
                 PROVE  f[x] = g[x]
      <4>1. n + 1 \in Nat
        OBVIOUS
      <4> HIDE DEF Solves
      <4> QED
        BY <4>1
    <3>1. \A y \in S : rank[y] < n => f[y] = g[y]
      BY <1>2
    <3>2. f[x] = G[x][f] /\ g[x] = G[x][g]
      OBVIOUS
    <3>3. CASE rank[x] = n
      <4>1. G[x][f] = G[x][g]
        BY <3>1, <3>3
      <4> QED
        BY <3>2, <4>1
    <3> QED
      BY <1>1, <3>1, <3>3
  <2> QED
    BY <2>1, <2>2, InductiveSet
<1>4. \A n \in Nat : n \in Solved
  <2>1. 0 \in Solved
    <3>1. PICK t : t \in T
      OBVIOUS
    <3>2. [x \in S |-> t] \in [S -> T]
      BY <3>1
    <3>3. \A f \in [S -> T] : Solves(f, 0)
      BY <1>0
    <3> QED
      BY <3>2, <3>3
  <2>2. ASSUME NEW n \in Solved PROVE n + 1 \in Solved
    <3>1. PICK f \in [S -> T] : Solves(f, n)
      OBVIOUS
    <3> DEFINE h == [x \in S |-> IF rank[x] < n THEN f[x] ELSE G[x][f]]
    <3>2. h \in [S -> T]
      <4>1. \A x \in S : G[x][f] \in T /\ f[x] \in T
        OBVIOUS
      <4> QED
        BY <4>1
    <3>3. \A x \in S : h[x] = G[x][f]
      BY <3>1
    <3>4. \A y \in S : rank[y] < n => h[y] = f[y]
      OBVIOUS
    <3> HIDE DEF h
    <3>5. ASSUME NEW x \in S, rank[x] < n + 1 PROVE h[x] = G[x][h]
      <4>1. \A y \in S : rank[y] < rank[x] => rank[y] < n
        BY <1>0, <3>5
      <4>2. G[x][h] = G[x][f]
        BY <3>2, <3>4, <4>1
      <4> QED
        BY <3>3, <4>2
    <3>6. Solves(h, n + 1)
      BY <3>5
    <3> QED
      BY <3>2, <3>6
  <2> QED
    BY <2>1, <2>2, InductiveSet
<1> DEFINE part(x) == CHOOSE f \in [S -> T] : Solves(f, rank[x] + 1)
           whole == [x \in S |-> part(x)[x]]
<1>5. ASSUME NEW x \in S PROVE part(x) \in [S -> T] /\ Solves(part(x), rank[x] + 1)
  <2>1. rank[x] + 1 \in Nat
    BY <1>0
  <2>2. rank[x] + 1 \in Solved
    BY <1>4, <2>1
  <2>3. \E f \in [S -> T] : Solves(f, rank[x] + 1)
    BY <2>2
  <2> HIDE DEF Solves
  <2> QED
    BY <2>3, Zenon
<1> HIDE DEF part
<1>6. whole \in [S -> T] /\ \A x \in S : whole[x] = part(x)[x]
  BY <1>5
<1> HIDE DEF whole
<1>7. ASSUME NEW x \in S PROVE whole[x] = G[x][whole]
  <2>1. rank[x] < rank[x] + 1
    BY <1>0
  <2>2. part(x)[x] = G[x][part(x)]
    BY <1>5, <2>1
  <2>3. ASSUME NEW y \in S, rank[y] < rank[x] PROVE whole[y] = part(x)[y]
    <3>1. rank[y] < rank[y] + 1 /\ rank[y] + 1 \in Nat
      BY <1>0
    <3>2. Solves(part(x), rank[y] + 1)
      <4>1. \A z \in S : rank[z] < rank[y] + 1 => rank[z] < rank[x] + 1
        BY <1>0, <2>3
      <4> QED
        BY <1>5, <4>1
    <3>3. Solves(part(y), rank[y] + 1)
      BY <1>5
    <3>4. rank[y] + 1 \in Unique
      BY <1>3, <3>1
    <3>5. part(x) \in [S -> T] /\ part(y) \in [S -> T]
      BY <1>5
    <3>6. part(y)[y] = part(x)[y]
      BY <3>1, <3>2, <3>3, <3>4, <3>5
    <3> QED
      BY <1>6, <3>6
  <2>4. G[x][whole] = G[x][part(x)]
    BY <1>5, <1>6, <2>3
  <2> QED
    BY <1>6, <2>2, <2>4
<1> QED
  BY <1>6, <1>7 DEF Solvable

-----------------------------------------------------------------------------
(* Folds.                                                                  *)

\* A set of indices that is not empty has a greatest one, which Max finds.
LEMMA GreatestIndex ==
  ASSUME NEW n \in Nat, NEW s \in SUBSET (1..n), s # {}
  PROVE  Max(s) \in s /\ \A i \in s : i <= Max(s)
<1> DEFINE gaps == {n - i : i \in s}
<1>1. gaps \subseteq Nat /\ gaps # {}
  OBVIOUS
<1>2. PICK g \in gaps : \A h \in gaps : g <= h
  BY <1>1, LeastNatural, Zenon
<1>3. PICK i \in s : g = n - i
  BY <1>2
<1>4. \A j \in s : i >= j
  <2>1. ASSUME NEW j \in s PROVE i >= j
    <3>1. n - i <= n - j
      BY <1>2, <1>3
    <3> QED
      BY <3>1
  <2> QED
    BY <2>1
<1>5. Max(s) \in s /\ \A j \in s : Max(s) >= j
  BY <1>4, Zenon DEF Max
<1> QED
  BY <1>5

\* f is what FoldLeft computes for each set of indices on its way over a sequence of
\* length n: step[i] is what it does at the element i.
FoldsOver(f, n, base, step) ==
  \A s \in SUBSET (1..n) :
    f[s] = IF s = {} THEN base ELSE step[Max(s)][f[s \ {Max(s)}]]

\* There is such an f.
LEMMA FoldSolvable ==
  ASSUME NEW n \in Nat, NEW T, NEW base \in T, NEW step \in [1..n -> [T -> T]]
  PROVE  \E f \in [SUBSET (1..n) -> T] : FoldsOver(f, n, base, step)
<1> DEFINE S == SUBSET (1..n)
           rank == [s \in S |-> Cardinality(s)]
           value(s, f) == IF s = {} THEN base ELSE step[Max(s)][f[s \ {Max(s)}]]
           G == [s \in S |-> [f \in [S -> T] |-> value(s, f)]]
<1>1. ASSUME NEW s \in S
      PROVE  /\ IsFiniteSet(s) /\ Cardinality(s) \in Nat
             /\ s # {} => /\ Max(s) \in 1..n /\ s \ {Max(s)} \in S
                         /\ Cardinality(s \ {Max(s)}) < Cardinality(s)
  <2>1. IsFiniteSet(1..n)
    BY FS_Interval
  <2>2. IsFiniteSet(s) /\ Cardinality(s) \in Nat
    BY <2>1, FS_Subset, FS_CardinalityType
  <2>3. CASE s # {}
    <3>1. Max(s) \in s
      BY <2>3, GreatestIndex
    <3>2. Cardinality(s \ {Max(s)}) = Cardinality(s) - 1
      BY <2>2, <3>1, FS_RemoveElement
    <3>3. Cardinality(s \ {Max(s)}) < Cardinality(s)
      BY <2>2, <3>2
    <3>4. Max(s) \in 1..n /\ s \ {Max(s)} \in S
      BY <3>1
    <3> QED
      BY <2>2, <3>3, <3>4
  <2> QED
    BY <2>2, <2>3
<1>2. \A s \in S : \A f \in [S -> T] : value(s, f) \in T
  <2> SUFFICES ASSUME NEW s \in S, NEW f \in [S -> T] PROVE value(s, f) \in T
    OBVIOUS
  <2>1. CASE s # {}
    <3>1. f[s \ {Max(s)}] \in T /\ step[Max(s)] \in [T -> T]
      BY <1>1, <2>1
    <3> QED
      BY <2>1, <3>1
  <2> QED
    BY <2>1
<1>3. \A s \in S : \A f \in [S -> T] : G[s][f] = value(s, f)
  OBVIOUS
<1>4. \A s \in S : \A f, g \in [S -> T] :
        (\A r \in S : rank[r] < rank[s] => f[r] = g[r]) => value(s, f) = value(s, g)
  <2> SUFFICES ASSUME NEW s \in S, NEW f \in [S -> T], NEW g \in [S -> T],
                      \A r \in S : rank[r] < rank[s] => f[r] = g[r]
               PROVE  value(s, f) = value(s, g)
    OBVIOUS
  <2>1. CASE s # {}
    <3>1. f[s \ {Max(s)}] = g[s \ {Max(s)}]
      BY <1>1, <2>1
    <3> QED
      BY <2>1, <3>1
  <2> QED
    BY <2>1
<1>5. G \in [S -> [[S -> T] -> T]]
  <2>1. ASSUME NEW s \in S PROVE [f \in [S -> T] |-> value(s, f)] \in [[S -> T] -> T]
    <3> HIDE DEF value, S
    <3> QED
      BY <1>2
  <2> HIDE DEF value, S
  <2> QED
    BY <2>1
<1>6. Recursion(S, T, rank, G)
  <2>1. rank \in [S -> Nat]
    BY <1>1
  <2> HIDE DEF G, rank, value, S
  <2>2. \A s \in S : \A f, g \in [S -> T] :
          (\A r \in S : rank[r] < rank[s] => f[r] = g[r]) => G[s][f] = G[s][g]
    <3> SUFFICES ASSUME NEW s \in S, NEW f \in [S -> T], NEW g \in [S -> T],
                        \A r \in S : rank[r] < rank[s] => f[r] = g[r]
                 PROVE  G[s][f] = G[s][g]
      OBVIOUS
    <3>1. value(s, f) = value(s, g)
      BY <1>4
    <3> QED
      BY <1>3, <3>1
  <2>3. T # {}
    OBVIOUS
  <2> QED
    BY <1>5, <2>1, <2>2, <2>3, Zenon DEF Recursion
<1>7. Solvable(S, T, G)
  BY <1>6, RecursiveFunction
<1>8. PICK f \in [S -> T] : \A s \in S : f[s] = G[s][f]
  BY <1>7 DEF Solvable
<1>9. \A s \in S : f[s] = value(s, f)
  BY <1>3, <1>8
<1> QED
  BY <1>9 DEF FoldsOver

\* FoldLeft goes over a sequence of length n from its start.
LEMMA FoldGoesOn ==
  ASSUME NEW n \in Nat, NEW m \in 1..n
  PROVE  1..m # {} /\ Max(1..m) = m /\ (1..m) \ {Max(1..m)} = 1..(m - 1)
<1>1. 1..m \in SUBSET (1..n) /\ m \in 1..m
  OBVIOUS
<1>2. Max(1..m) \in 1..m /\ \A i \in 1..m : i <= Max(1..m)
  BY <1>1, GreatestIndex
<1>3. Max(1..m) = m
  BY <1>1, <1>2
<1> QED
  BY <1>1, <1>3
=============================================================================
