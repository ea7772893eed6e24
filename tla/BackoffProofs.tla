--------------------------- MODULE BackoffProofs ----------------------------
(***************************************************************************)
(* Theorems about Backoff, for every width of integers, any number of      *)
(* retry sequences and retries, and decorators as many as one likes.       *)
(***************************************************************************)
EXTENDS Backoff, Recursion

-----------------------------------------------------------------------------
(* The integers of time.Duration.                                          *)

LEMMA Widths ==
  /\ Width \in Nat /\ Width - 1 \in Nat
  /\ 2^(Width - 1) \in Nat \ {0} /\ 2^Width = 2 * 2^(Width - 1)
<1>1. Width \in Nat /\ Width - 1 \in 0..(Width + MaxRetries) /\ (Width - 1) + 1 = Width
  BY BackoffAssumption
<1>2. 2^(Width - 1) \in Nat \ {0} /\ 2^((Width - 1) + 1) = 2 * 2^(Width - 1)
  BY <1>1, BackoffAssumption
<1> QED
  BY <1>1, <1>2

\* Arithmetic wraps into a duration, and leaves a duration what it is.
LEMMA WrapsIntoDuration ==
  ASSUME NEW n \in Int
  PROVE  /\ Wrap(n) \in Int
         /\ Smallest <= Wrap(n) /\ Wrap(n) <= Largest
         /\ Smallest <= n /\ n <= Largest => Wrap(n) = n
<1> DEFINE B == 2^(Width - 1)
           m == n + B
<1>1. B \in Nat \ {0} /\ Largest = B - 1 /\ Smallest = 0 - B /\ 2^Width = 2 * B
  BY Widths DEF Largest, Smallest
<1>2. Wrap(n) = (m % (2 * B)) + (0 - B)
  <2>1. n - Smallest = m
    BY <1>1
  <2> HIDE DEF m
  <2>2. Wrap(n) = (m % 2^Width) + Smallest
    BY <2>1 DEF Wrap
  <2> HIDE DEF B
  <2> QED
    BY <1>1, <2>2, Zenon
<1> HIDE DEF B
<1>3. m \in Int /\ 2 * B \in Nat \ {0}
  BY <1>1
<1>4. m % (2 * B) \in 0..(2 * B - 1)
  BY <1>3
<1>5. m \in 0..(2 * B - 1) => m % (2 * B) = m
  BY <1>3
<1> QED
  BY <1>1, <1>2, <1>4, <1>5

-----------------------------------------------------------------------------
(* What comes out of the strategies and the decorators is an integer.      *)

LEMMA Durations ==
  /\ Largest \in Int /\ Smallest \in Int /\ Smallest <= 0 /\ Largest >= 1
  /\ Bases \subseteq 1..Largest /\ Caps \subseteq 1..Largest /\ Hints \subseteq Int
  /\ JitterTenths \in Int /\ MinWait \in Int /\ MaxWait \in Int
<1>1. Largest = 2^(Width - 1) - 1 /\ Smallest = 0 - 2^(Width - 1)
  BY DEF Largest, Smallest
<1> DEFINE B == 2^(Width - 1)
<1>2. B \in Nat /\ B >= 2
  <2>1. Width \in Nat /\ Width - 2 \in 0..(Width + MaxRetries) /\ (Width - 2) + 1 = Width - 1
    BY BackoffAssumption
  <2> DEFINE H == 2^(Width - 2)
  <2>2. H \in Nat \ {0} /\ 2^((Width - 2) + 1) = 2 * H
    BY <2>1, BackoffAssumption
  <2> HIDE DEF H
  <2> QED
    BY <2>1, <2>2
<1> HIDE DEF B
<1>3. Largest = B - 1 /\ Smallest = 0 - B
  BY <1>1 DEF B
<1> QED
  BY <1>2, <1>3, BackoffAssumption DEF Duration

LEMMA Limits ==
  ASSUME NEW n \in Int, NEW limit \in Int
  PROVE  /\ AtMost(n, limit) \in {n, limit} /\ AtMost(n, limit) <= n /\ AtMost(n, limit) <= limit
         /\ AtLeast(n, limit) \in {n, limit} /\ AtLeast(n, limit) >= n
         /\ AtLeast(n, limit) >= limit
BY DEF AtMost, AtLeast

LEMMA JitteredTyped ==
  ASSUME NEW d \in Int, NEW tenths \in Int
  PROVE  Jittered(d, tenths) \subseteq Int
<1> DEFINE spread == (AtLeast(d, 0 - d) * tenths) \div 10
<1>1. spread \in Int
  <2>1. AtLeast(d, 0 - d) \in Int
    BY DEF AtLeast
  <2>2. AtLeast(d, 0 - d) * tenths \in Int
    BY <2>1
  <2> QED
    BY <2>2
<1> HIDE DEF spread
<1>2. Jittered(d, tenths) = {Wrap(d + j) : j \in (0 - spread)..spread}
  BY DEF Jittered, spread
<1>3. ASSUME NEW j \in (0 - spread)..spread PROVE Wrap(d + j) \in Int
  BY <1>1, WrapsIntoDuration
<1> QED
  BY <1>2, <1>3

LEMMA DecoratedTyped ==
  ASSUME NEW d \in Int, NEW decorator \in Decorators, NEW hint \in Int
  PROVE  Decorate(d, decorator, hint) \subseteq Int
<1>1. CASE decorator = "jitter"
  <2>1. Decorate(d, decorator, hint) = WithJitter(d)
    BY <1>1 DEF Decorate
  <2>2. AtMost(JitterTenths, 10) \in Int
    BY Durations, Limits
  <2>3. \A r \in Jittered(d, AtMost(JitterTenths, 10)) : AtLeast(r, 0) \in Int
    BY <2>2, JitteredTyped, Limits
  <2> QED
    BY <2>1, <2>3 DEF WithJitter
<1>2. CASE decorator \in {"max", "min", "retryAfter"}
  BY <1>2, Durations, Limits DEF Decorate, WithRetryAfter
<1> QED
  BY <1>1, <1>2 DEF Decorators

-----------------------------------------------------------------------------
(* The decorators, one around the other.                                   *)

EachDecorated(ds, decorator, hint) == UNION {Decorate(e, decorator, hint) : e \in ds}

\* f is what comes out, for each set of the decorators.
DecoratesBy(f, n, decorators, d, hint) ==
  \A s \in SUBSET (1..n) :
    f[s] = IF s = {} THEN {d} ELSE EachDecorated(f[s \ {Max(s)}], decorators[Max(s)], hint)

LEMMA DecoratedEquation ==
  ASSUME NEW d \in Int, NEW hint \in Int, NEW n \in Nat, NEW decorators \in [1..n -> Decorators]
  PROVE  \E f : Decorated(d, decorators, hint) = f[1..n] /\ DecoratesBy(f, n, decorators, d, hint)
<1> DEFINE all(ds, i) == EachDecorated(ds, decorators[i], hint)
           T == SUBSET Int
           body(f) == [s \in SUBSET (1..n) |->
                         IF s = {} THEN {d} ELSE all(f[s \ {Max(s)}], Max(s))]
           iter == CHOOSE f : f = body(f)
           step == [i \in 1..n |-> [ds \in T |-> all(ds, i)]]
<1>1. Decorated(d, decorators, hint) = iter[1..n]
  BY DEF Decorated, FoldLeft, MapThenFoldSet, EachDecorated
<1>2. \A i \in 1..n : \A ds \in T : all(ds, i) \in T
  BY DecoratedTyped DEF EachDecorated
<1>3. {d} \in T
  OBVIOUS
<1> HIDE DEF T, all
<1>4. step \in [1..n -> [T -> T]] /\ \A i \in 1..n : \A ds \in T : step[i][ds] = all(ds, i)
  BY <1>2
<1> HIDE DEF step
<1>5. PICK f \in [SUBSET (1..n) -> T] : FoldsOver(f, n, {d}, step)
  BY <1>3, <1>4, FoldSolvable
<1>6. ASSUME NEW s \in SUBSET (1..n), s # {}
      PROVE  f[s] = all(f[s \ {Max(s)}], Max(s))
  <2>1. Max(s) \in 1..n /\ f[s \ {Max(s)}] \in T
    BY <1>5, <1>6, GreatestIndex
  <2> QED
    BY <1>4, <1>5, <1>6, <2>1 DEF FoldsOver
<1>7. f = body(f)
  BY <1>5, <1>6 DEF FoldsOver
<1>8. iter = body(iter)
  <2> HIDE DEF body
  <2> QED
    BY <1>7
<1> HIDE DEF iter
<1>9. \A s \in SUBSET (1..n) :
        iter[s] = IF s = {} THEN {d} ELSE all(iter[s \ {Max(s)}], Max(s))
  BY <1>8
<1> QED
  BY <1>1, <1>9 DEF all, DecoratesBy

Lengthening == {"min", "retryAfter"}

\* What goes in only grows behind the decorators that cannot shorten it, and beyond
\* the hint behind WithRetryAfter.
LEMMA DecoratorsLengthen ==
  ASSUME NEW d \in Int, NEW hint \in Int, NEW n \in Nat, NEW ds \in [1..n -> Decorators],
         NEW wait \in Decorated(d, ds, hint)
  PROVE  /\ wait \in Int
         /\ hint > 0 => \A i \in 1..n :
              ds[i] = "retryAfter" /\ (\A j \in (i + 1)..n : ds[j] \in Lengthening)
                => wait >= hint
         /\ (\A i \in 1..n : ds[i] \in Lengthening) => wait >= d
<1> DEFINE Hinted(m) == \E i \in 1..m : ds[i] = "retryAfter"
                                       /\ \A j \in (i + 1)..m : ds[j] \in Lengthening
           Longer(m) == \A i \in 1..m : ds[i] \in Lengthening
           Sound(m, e) == /\ e \in Int
                          /\ hint > 0 /\ Hinted(m) => e >= hint
                          /\ Longer(m) => e >= d
<1>1. PICK f : Decorated(d, ds, hint) = f[1..n] /\ DecoratesBy(f, n, ds, d, hint)
  BY DecoratedEquation
<1>2. ASSUME NEW e \in Int, NEW decorator \in Decorators, NEW out \in Decorate(e, decorator, hint)
      PROVE  /\ out \in Int
             /\ decorator \in Lengthening => out >= e
             /\ decorator = "retryAfter" /\ hint > 0 => out >= hint
  <2>1. out \in Int
    BY DecoratedTyped
  <2>2. CASE decorator = "min"
    BY <2>1, <2>2, Durations, Limits DEF Decorate
  <2>3. CASE decorator = "retryAfter"
    BY <2>1, <2>3 DEF Decorate, WithRetryAfter
  <2> QED
    BY <2>1, <2>2, <2>3 DEF Lengthening
<1> DEFINE Done == {m \in Nat : m <= n => \A e \in f[1..m] : Sound(m, e)}
<1>3. 0 \in Done
  <2>0. {} \in SUBSET (1..n)
    OBVIOUS
  <2>1. f[{}] = {d}
    <3> HIDE DEF Hinted, Longer, Sound, Done
    <3> QED
      BY <1>1, <2>0 DEF DecoratesBy
  <2>2. 1..0 = {} /\ ~Hinted(0) /\ d >= d
    OBVIOUS
  <2>3. Sound(0, d)
    BY <2>2
  <2>4. f[1..0] = {d}
    BY <2>1, <2>2
  <2> HIDE DEF Sound
  <2> QED
    BY <2>3, <2>4
<1>4. ASSUME NEW m \in Done PROVE m + 1 \in Done
  <2> SUFFICES ASSUME m + 1 <= n, NEW out \in f[1..(m + 1)] PROVE Sound(m + 1, out)
    OBVIOUS
  <2>1. m \in Nat /\ m + 1 \in 1..n /\ (m + 1) - 1 = m /\ m <= n
    OBVIOUS
  <2>2. \A e \in f[1..m] : Sound(m, e)
    <3> HIDE DEF Sound
    <3> QED
      BY <2>1
  <2>3. f[1..(m + 1)] = EachDecorated(f[1..m], ds[m + 1], hint)
    <3>1. 1..(m + 1) # {} /\ Max(1..(m + 1)) = m + 1 /\ (1..(m + 1)) \ {m + 1} = 1..m
      BY <2>1, FoldGoesOn
    <3>2. 1..(m + 1) \in SUBSET (1..n)
      BY <2>1
    <3> QED
      BY <1>1, <3>1, <3>2 DEF DecoratesBy
  <2>4. PICK e \in f[1..m] : out \in Decorate(e, ds[m + 1], hint)
    BY <2>3 DEF EachDecorated
  <2>5. Sound(m, e) /\ ds[m + 1] \in Decorators
    BY <2>1, <2>2
  <2>6. /\ out \in Int
        /\ ds[m + 1] \in Lengthening => out >= e
        /\ ds[m + 1] = "retryAfter" /\ hint > 0 => out >= hint
    BY <1>2, <2>4, <2>5
  <2>7. Hinted(m + 1) => \/ ds[m + 1] = "retryAfter"
                         \/ ds[m + 1] \in Lengthening /\ Hinted(m)
    <3>0. SUFFICES ASSUME Hinted(m + 1), ds[m + 1] # "retryAfter"
                 PROVE  ds[m + 1] \in Lengthening /\ Hinted(m)
      OBVIOUS
    <3>1. PICK i \in 1..(m + 1) : ds[i] = "retryAfter"
                                  /\ \A j \in (i + 1)..(m + 1) : ds[j] \in Lengthening
      BY <3>0, Zenon
    <3>2. i \in 1..m
      BY <3>0, <3>1, <2>1
    <3>3. m + 1 \in (i + 1)..(m + 1) /\ \A j \in (i + 1)..m : j \in (i + 1)..(m + 1)
      BY <3>2, <2>1
    <3> QED
      BY <3>1, <3>2, <3>3
  <2>8. Longer(m + 1) => ds[m + 1] \in Lengthening /\ Longer(m)
    BY <2>1
  <2> HIDE DEF Hinted, Longer
  <2>9. hint > 0 /\ Hinted(m + 1) => out >= hint
    BY <2>5, <2>6, <2>7
  <2>10. Longer(m + 1) => out >= d
    BY <2>5, <2>6, <2>8
  <2> QED
    BY <2>6, <2>9, <2>10
<1>5. \A m \in Nat : m \in Done
  <2> HIDE DEF Sound
  <2>1. Done \subseteq Nat
    OBVIOUS
  <2> HIDE DEF Done
  <2> QED
    BY <1>3, <1>4, <2>1, InductiveSet
<1>6. Sound(n, wait)
  BY <1>1, <1>5
<1> QED
  BY <1>6

-----------------------------------------------------------------------------
(* The Fibonacci numbers.                                                  *)

\* The pair after i, in terms of the pairs p before it.
PairValue(p, i) ==
  IF i = 2 THEN <<1, 1>> ELSE <<p[i - 1][2], Wrap(p[i - 1][1] + p[i - 1][2])>>

\* The loop of fibonacci satisfies its recursive definition.
LEMMA FibonacciPairs ==
  ASSUME NEW n \in Nat, n > 2
  PROVE  \E p \in [2..n -> Int \X Int] :
           Fibonacci(n) = p[n][2] /\ \A i \in 2..n : p[i] = PairValue(p, i)
<1> DEFINE S == 2..n
           T == Int \X Int
           rank == [i \in S |-> i]
           G == [i \in S |-> [p \in [S -> T] |-> PairValue(p, i)]]
           loop == CHOOSE p : p = [i \in S |-> PairValue(p, i)]
<1>1. ASSUME NEW i \in S, NEW p \in [S -> T] PROVE PairValue(p, i) \in T
  <2>1. CASE i = 2
    BY <2>1 DEF PairValue
  <2>2. CASE i # 2
    <3>1. p[i - 1] \in T
      BY <2>2
    <3>2. p[i - 1][1] \in Int /\ p[i - 1][2] \in Int
      BY <3>1
    <3>3. Wrap(p[i - 1][1] + p[i - 1][2]) \in Int
      BY <3>2, WrapsIntoDuration
    <3> QED
      BY <2>2, <3>2, <3>3 DEF PairValue
  <2> QED
    BY <2>1, <2>2
<1>2. rank \in [S -> Nat] /\ \A i \in S : rank[i] = i
  OBVIOUS
<1>3. \A i \in S : \A p \in [S -> T] : G[i][p] = PairValue(p, i)
  OBVIOUS
<1>4. G \in [S -> [[S -> T] -> T]]
  <2> HIDE DEF T, S
  <2> QED
    BY <1>1
<1>5. ASSUME NEW i \in S, NEW f \in [S -> T], NEW g \in [S -> T],
             \A j \in S : rank[j] < rank[i] => f[j] = g[j]
      PROVE  G[i][f] = G[i][g]
  <2>1. i # 2 => f[i - 1] = g[i - 1]
    <3>1. i # 2 => i - 1 \in S /\ i - 1 < i
      OBVIOUS
    <3> QED
      BY <1>2, <1>5, <3>1
  <2>2. PairValue(f, i) = PairValue(g, i)
    BY <2>1 DEF PairValue
  <2> HIDE DEF T, S, G
  <2> QED
    BY <1>3, <2>2
<1> HIDE DEF rank, G, S
<1>6. T # {}
  <2>1. <<1, 1>> \in T
    OBVIOUS
  <2> QED
    BY <2>1
<1>7. Recursion(S, T, rank, G)
  <2> HIDE DEF T
  <2>1. rank \in [S -> Nat]
    BY <1>2
  <2>2. \A x \in S : \A f, g \in [S -> T] :
          (\A y \in S : rank[y] < rank[x] => f[y] = g[y]) => G[x][f] = G[x][g]
    BY <1>5, Zenon
  <2> QED
    BY <1>4, <1>6, <2>1, <2>2, Zenon DEF Recursion
<1> HIDE DEF T
<1>8. PICK f \in [S -> T] : \A i \in S : f[i] = G[i][f]
  <2>1. Solvable(S, T, G)
    BY <1>7, RecursiveFunction, Zenon
  <2> QED
    BY <2>1, Zenon DEF Solvable
<1>9. f = [i \in S |-> PairValue(f, i)]
  BY <1>3, <1>8
<1>10. loop = [i \in S |-> PairValue(loop, i)]
  BY <1>9, Zenon
<1>11. Fibonacci(n) = loop[n][2]
  BY DEF Fibonacci, PairValue, S
<1> HIDE DEF loop
<1>12. \A i \in S : loop[i] = PairValue(loop, i)
  BY <1>10
<1>13. \A i \in Nat : i \in S => loop[i] \in T
  <2> DEFINE N == {i \in Nat : i \in S => loop[i] \in T}
  <2>1. 0 \in N
    BY DEF S
  <2>2. ASSUME NEW i \in N, i + 1 \in S PROVE loop[i + 1] \in T
    <3>1. CASE i + 1 = 2
      <4>1. loop[i + 1] = <<1, 1>>
        BY <1>12, <2>2, <3>1 DEF PairValue
      <4> QED
        BY <4>1 DEF T
    <3>2. CASE i + 1 # 2
      <4>1. i \in S /\ (i + 1) - 1 = i
        BY <2>2, <3>2 DEF S
      <4>2. loop[i] \in T
        BY <4>1
      <4>3. loop[i][1] \in Int /\ loop[i][2] \in Int
        BY <4>2 DEF T
      <4>4. Wrap(loop[i][1] + loop[i][2]) \in Int
        BY <4>3, WrapsIntoDuration
      <4>5. loop[i + 1] = <<loop[i][2], Wrap(loop[i][1] + loop[i][2])>>
        BY <1>12, <2>2, <3>2, <4>1 DEF PairValue
      <4> QED
        BY <4>3, <4>4, <4>5 DEF T
    <3> QED
      BY <3>1, <3>2
  <2>3. N \subseteq Nat /\ \A i \in N : i + 1 \in N
    BY <2>2
  <2>4. \A i \in Nat : i \in N
    <3> HIDE DEF N
    <3> QED
      BY <2>1, <2>3, InductiveSet
  <2> QED
    BY <2>4
<1>14. loop \in [S -> T]
  <2>1. S \subseteq Nat
    BY DEF S
  <2> QED
    BY <1>10, <1>13, <2>1
<1> QED
  BY <1>11, <1>12, <1>14 DEF S, T

LEMMA FibonacciTyped ==
  ASSUME NEW n \in Nat
  PROVE  Fibonacci(n) \in Int
<1>1. CASE n <= 2
  BY <1>1 DEF Fibonacci
<1>2. CASE ~(n <= 2)
  BY <1>2, FibonacciPairs
<1> QED
  BY <1>1, <1>2

-----------------------------------------------------------------------------
(* The answers.                                                            *)

\* The latest answer was one of those that may be given to its question.
AnswerInv ==
  /\ strategy \in Strategies
  /\ retries \in [Sequences -> 0..MaxRetries]
  /\ lastBackoff \in Int
  /\ latest # Nothing =>
       /\ latest.attempt \in 0..MaxRetries
       /\ latest.hint \in Hints
       /\ \E last \in Int : latest.raw \in RawWaits(strategy, latest.attempt, last)
       /\ latest.wait \in Decorated(latest.raw, strategy.decorators, latest.hint)

LEMMA BetweenTyped ==
  ASSUME NEW a \in Int, NEW b \in Int
  PROVE  Between(a, b) \subseteq Int
<1>1. AtMost(a, b) \in Int /\ AtLeast(a, b) \in Int
  BY Limits
<1>2. ASSUME NEW n \in AtMost(a, b)..AtLeast(a, b) PROVE ToDuration(n) \subseteq Int
  BY <1>1, Durations DEF ToDuration
<1> QED
  BY <1>2 DEF Between

LEMMA StrategyFields ==
  ASSUME NEW s \in Strategies
  PROVE  /\ s.kind \in AllKinds /\ s.base \in 1..Largest /\ s.cap \in 1..Largest
         /\ s.base \in Int /\ s.cap \in Int
         /\ s.decorators \in [1..Len(s.decorators) -> Decorators]
         /\ Len(s.decorators) \in Nat /\ DOMAIN s.decorators = 1..Len(s.decorators)
<1>1. s.kind \in Kinds /\ s.base \in Bases /\ s.cap \in Caps /\ s.decorators \in Decorations
  BY DEF Strategies
<1>2. s.decorators \in Seq(Decorators)
  BY <1>1, BackoffAssumption
<1>3. s.kind \in AllKinds /\ s.base \in 1..Largest /\ s.cap \in 1..Largest
  BY <1>1, Durations, BackoffAssumption
<1> QED
  BY <1>2, <1>3, Durations

LEMMA PowersTyped ==
  ASSUME NEW n \in 0..MaxRetries
  PROVE  2^n \in Nat \ {0}
<1>1. n \in 0..(Width + MaxRetries)
  BY BackoffAssumption
<1> QED
  BY <1>1, BackoffAssumption

LEMMA RawWaitsTyped ==
  ASSUME NEW s \in Strategies, NEW attempt \in 0..MaxRetries, NEW last \in Int
  PROVE  RawWaits(s, attempt, last) \subseteq Int
<1> USE StrategyFields
<1>0. attempt \in Int /\ s.cap \in Int /\ s.base \in Int /\ s.kind \in AllKinds
  BY BackoffAssumption
<1>1. Linear(s, attempt) \in Int
  <2>1. Wrap(attempt + 1) \in Int
    BY <1>0, WrapsIntoDuration
  <2>2. s.base * Wrap(attempt + 1) \in Int
    BY <1>0, <2>1
  <2>3. Wrap(s.base * Wrap(attempt + 1)) \in Int
    BY <2>2, WrapsIntoDuration
  <2> QED
    BY <1>0, <2>3, Limits DEF Linear
<1>2. FibonacciWait(s, attempt) \in Int
  <2>1. Fibonacci(attempt + 1) \in Int
    BY <1>0, FibonacciTyped
  <2>2. s.base * Fibonacci(attempt + 1) \in Int
    BY <1>0, <2>1
  <2>3. Wrap(s.base * Fibonacci(attempt + 1)) \in Int
    BY <2>2, WrapsIntoDuration
  <2> QED
    BY <1>0, <2>3, Limits DEF FibonacciWait
<1>3. Decorrelated(s, attempt, last) \subseteq Int
  <2>1. \A d \in Between(s.base, last * 3) : AtMost(d, s.cap) \in Int
    BY <1>0, BetweenTyped, Limits
  <2> QED
    BY <1>0, <2>1 DEF Decorrelated
<1>4. Exponential(s, attempt) \subseteq Int
      \/ s.kind \notin {"exponential", "fullJitter", "equalJitter"}
  <2>1. Ceiling(s, attempt) \in Int
    <3>1. 2^attempt \in Int
      BY PowersTyped
    <3>2. s.base * 2^attempt \in Int
      BY <1>0, <3>1
    <3>3. Wrap(s.base * 2^attempt) \in Int
      BY <3>2, WrapsIntoDuration
    <3> QED
      BY <1>0, <3>3, Limits DEF Ceiling
  <2>2. Jittered(Ceiling(s, attempt), 2) \subseteq Int
    BY <2>1, JitteredTyped
  <2>3. /\ 0..Ceiling(s, attempt) \subseteq Int
        /\ \A x, y : x..y \subseteq Int
    OBVIOUS
  <2>4. s.kind \in {"exponential", "fullJitter", "equalJitter"}
          => Spread(s, Ceiling(s, attempt)) \subseteq Int
    BY <2>2, <2>3 DEF Spread
  <2> QED
    BY <1>0, <2>4 DEF Exponential
<1> QED
  BY <1>0, <1>1, <1>2, <1>3, <1>4 DEF RawWaits, AllKinds

LEMMA InitAnswer == Init => AnswerInv
BY BackoffAssumption DEF Init, AnswerInv

LEMMA NextAnswer == AnswerInv /\ [Next]_vars => AnswerInv'
<1>1. AnswerInv /\ UNCHANGED vars => AnswerInv'
  BY DEF AnswerInv, vars, Nothing
<1>2. ASSUME AnswerInv, NEW q \in Sequences, NEW hint \in Hints, Ask(q, hint)
      PROVE  AnswerInv'
  <2>1. retries[q] \in 0..MaxRetries /\ retries[q] < MaxRetries
    BY <1>2 DEF AnswerInv, Ask
  <2>2. retries' \in [Sequences -> 0..MaxRetries]
    BY <1>2, <2>1, BackoffAssumption DEF AnswerInv, Ask
  <2>3. PICK raw \in RawWaits(strategy, retries[q], lastBackoff) :
          /\ lastBackoff' = IF strategy.kind = "decorrelated" THEN raw ELSE lastBackoff
          /\ \E wait \in Decorated(raw, strategy.decorators, hint) :
               latest' = [attempt |-> retries[q], hint |-> hint, raw |-> raw, wait |-> wait]
    BY <1>2 DEF Ask
  <2>4. PICK wait \in Decorated(raw, strategy.decorators, hint) :
          latest' = [attempt |-> retries[q], hint |-> hint, raw |-> raw, wait |-> wait]
    BY <2>3
  <2>5. raw \in Int
    BY <1>2, <2>1, <2>3, RawWaitsTyped DEF AnswerInv
  <2>6. strategy' = strategy /\ lastBackoff' \in Int
    BY <1>2, <2>3, <2>5 DEF Ask, AnswerInv
  <2>7. /\ latest'.attempt = retries[q] /\ latest'.hint = hint
        /\ latest'.raw = raw /\ latest'.wait = wait
    BY <2>4
  <2> QED
    BY <1>2, <2>1, <2>2, <2>3, <2>4, <2>6, <2>7 DEF AnswerInv
<1>3. ASSUME AnswerInv, NEW q \in Sequences, StartOver(q)
      PROVE  AnswerInv'
  <2>1. retries' \in [Sequences -> 0..MaxRetries]
    BY <1>3, BackoffAssumption DEF AnswerInv, StartOver
  <2> QED
    BY <1>3, <2>1 DEF AnswerInv, StartOver, Nothing
<1> QED
  BY <1>1, <1>2, <1>3 DEF Next

\* A server's hint is a minimum and never shortens a wait (backoff.go, WithRetryAfter),
\* whatever the strategy behind it, and however many decorators are around it.
THEOREM HintsAreMinimal == Spec => []HintIsAMinimum
<1>1. AnswerInv => HintIsAMinimum
  <2>1. CASE latest = Nothing
    BY <2>1 DEF HintIsAMinimum, Nothing
  <2>2. ASSUME AnswerInv, latest # Nothing PROVE HintIsAMinimum
    <3> DEFINE ds == strategy.decorators
    <3>1. ds \in [1..Len(ds) -> Decorators] /\ Len(ds) \in Nat /\ DOMAIN ds = 1..Len(ds)
      BY <2>2, StrategyFields DEF AnswerInv
    <3>2. latest.raw \in Int
      BY <2>2, RawWaitsTyped DEF AnswerInv
    <3>3. latest.hint \in Int
      BY <2>2, Durations DEF AnswerInv
    <3>4. latest.wait \in Decorated(latest.raw, ds, latest.hint)
      BY <2>2 DEF AnswerInv
    <3> HIDE DEF ds
    <3>5. /\ latest.hint > 0 => \A i \in 1..Len(ds) :
               ds[i] = "retryAfter" /\ (\A j \in (i + 1)..Len(ds) : ds[j] \in Lengthening)
                 => latest.wait >= latest.hint
          /\ (\A i \in 1..Len(ds) : ds[i] \in Lengthening) => latest.wait >= latest.raw
      BY <3>1, <3>2, <3>3, <3>4, DecoratorsLengthen
    <3> QED
      BY <3>1, <3>5 DEF HintIsAMinimum, Lengthening, ds
  <2> QED
    BY <2>1, <2>2
<1> QED
  BY <1>1, InitAnswer, NextAnswer, PTL DEF Spec

-----------------------------------------------------------------------------
(* The curves.                                                             *)

NumberValue(f, n) == IF n <= 2 THEN 1 ELSE f[n - 1] + f[n - 2]

\* The Fibonacci numbers satisfy their recursive definition, are positive and grow.
LEMMA FibonacciEquation ==
  /\ \A n \in Nat : FibonacciNumber[n] = NumberValue(FibonacciNumber, n)
  /\ \A n \in Nat : FibonacciNumber[n] \in Nat \ {0}
<1> DEFINE rank == [i \in Nat |-> i]
           G == [i \in Nat |-> [f \in [Nat -> Nat] |-> NumberValue(f, i)]]
<1>1. \A i \in Nat : \A f \in [Nat -> Nat] : NumberValue(f, i) \in Nat
  BY DEF NumberValue
<1>2. rank \in [Nat -> Nat] /\ \A i \in Nat : rank[i] = i
  OBVIOUS
<1>3. \A i \in Nat : \A f \in [Nat -> Nat] : G[i][f] = NumberValue(f, i)
  OBVIOUS
<1>4. G \in [Nat -> [[Nat -> Nat] -> Nat]]
  BY <1>1
<1>5. ASSUME NEW i \in Nat, NEW f \in [Nat -> Nat], NEW g \in [Nat -> Nat],
             \A j \in Nat : rank[j] < rank[i] => f[j] = g[j]
      PROVE  G[i][f] = G[i][g]
  <2>1. ~(i <= 2) => f[i - 1] = g[i - 1] /\ f[i - 2] = g[i - 2]
    BY <1>2, <1>5
  <2>2. NumberValue(f, i) = NumberValue(g, i)
    BY <2>1 DEF NumberValue
  <2> HIDE DEF G
  <2> QED
    BY <1>3, <2>2
<1> HIDE DEF rank, G
<1>6. Recursion(Nat, Nat, rank, G)
  <2>1. \A x \in Nat : \A f, g \in [Nat -> Nat] :
          (\A y \in Nat : rank[y] < rank[x] => f[y] = g[y]) => G[x][f] = G[x][g]
    BY <1>5, Zenon
  <2>2. Nat # {}
    OBVIOUS
  <2> QED
    BY <1>2, <1>4, <2>1, <2>2, Zenon DEF Recursion
<1>7. PICK f \in [Nat -> Nat] : \A i \in Nat : f[i] = G[i][f]
  <2>1. Solvable(Nat, Nat, G)
    BY <1>6, RecursiveFunction, Zenon
  <2> QED
    BY <2>1, Zenon DEF Solvable
<1>8. f = [i \in Nat |-> NumberValue(f, i)]
  BY <1>3, <1>7
<1>9. FibonacciNumber = CHOOSE g : g = [i \in Nat |-> NumberValue(g, i)]
  BY DEF FibonacciNumber, NumberValue
<1>10. FibonacciNumber = [i \in Nat |-> NumberValue(FibonacciNumber, i)]
  BY <1>8, <1>9, Zenon
<1>11. \A n \in Nat : FibonacciNumber[n] = NumberValue(FibonacciNumber, n)
  BY <1>10
<1>12. \A n \in Nat : FibonacciNumber[n] \in Nat \ {0}
  <2> DEFINE N == {n \in Nat : \A m \in 0..n : FibonacciNumber[m] \in Nat \ {0}}
  <2>1. 0 \in N
    BY <1>11 DEF NumberValue
  <2>2. ASSUME NEW n \in N PROVE n + 1 \in N
    <3>1. FibonacciNumber[n + 1] \in Nat \ {0}
      <4>1. n \in Nat /\ n + 1 \in Nat
        OBVIOUS
      <4>2. CASE n + 1 <= 2
        BY <1>11, <4>1, <4>2 DEF NumberValue
      <4>3. CASE ~(n + 1 <= 2)
        <5>1. (n + 1) - 1 \in 0..n /\ (n + 1) - 2 \in 0..n
          BY <4>3
        <5>2. /\ FibonacciNumber[(n + 1) - 1] \in Nat \ {0}
              /\ FibonacciNumber[(n + 1) - 2] \in Nat \ {0}
          BY <5>1
        <5>3. FibonacciNumber[n + 1]
                = FibonacciNumber[(n + 1) - 1] + FibonacciNumber[(n + 1) - 2]
          BY <1>11, <4>1, <4>3 DEF NumberValue
        <5> QED
          BY <5>2, <5>3
      <4> QED
        BY <4>2, <4>3
    <3>2. \A m \in 0..(n + 1) : m \in 0..n \/ m = n + 1
      OBVIOUS
    <3> QED
      BY <3>1, <3>2
  <2>3. \A n \in Nat : n \in N
    <3>1. N \subseteq Nat /\ \A n \in N : n + 1 \in N
      BY <2>2
    <3> HIDE DEF N
    <3> QED
      BY <2>1, <3>1, InductiveSet
  <2>4. ASSUME NEW n \in Nat PROVE FibonacciNumber[n] \in Nat \ {0}
    BY <2>3
  <2> QED
    BY <2>4
<1> QED
  BY <1>11, <1>12

LEMMA FibonacciGrows ==
  ASSUME NEW n \in Nat
  PROVE  \A i \in 1..n : FibonacciNumber[i] <= FibonacciNumber[n]
<1> DEFINE N == {m \in Nat : \A i \in 1..m : FibonacciNumber[i] <= FibonacciNumber[m]}
<1>1. 0 \in N
  OBVIOUS
<1>2. ASSUME NEW m \in N PROVE m + 1 \in N
  <2>1. CASE m = 0
    BY <2>1, FibonacciEquation
  <2>2. CASE m # 0
    <3>1. FibonacciNumber[m] <= FibonacciNumber[m + 1]
      <4>1. m \in Nat \ {0} /\ m + 1 \in Nat /\ (m + 1) - 1 = m
        BY <2>2
      <4>2. CASE m + 1 <= 2
        BY <4>1, <4>2, FibonacciEquation DEF NumberValue
      <4>3. CASE ~(m + 1 <= 2)
        <5>1. FibonacciNumber[m + 1] = FibonacciNumber[m] + FibonacciNumber[(m + 1) - 2]
          BY <4>1, <4>3, FibonacciEquation DEF NumberValue
        <5>2. (m + 1) - 2 \in Nat
          BY <4>3
        <5>3. FibonacciNumber[m] \in Nat /\ FibonacciNumber[(m + 1) - 2] \in Nat
          BY <4>1, <5>2, FibonacciEquation
        <5> QED
          BY <5>1, <5>3
      <4> QED
        BY <4>2, <4>3
    <3>2. ASSUME NEW i \in 1..(m + 1) PROVE FibonacciNumber[i] <= FibonacciNumber[m + 1]
      <4>1. i \in 1..m \/ i = m + 1
        OBVIOUS
      <4>2. /\ FibonacciNumber[i] \in Nat /\ FibonacciNumber[m] \in Nat
            /\ FibonacciNumber[m + 1] \in Nat
        BY FibonacciEquation
      <4>3. i \in 1..m => FibonacciNumber[i] <= FibonacciNumber[m]
        OBVIOUS
      <4> HIDE DEF N
      <4> QED
        BY <3>1, <4>1, <4>2, <4>3
    <3> QED
      BY <3>2
  <2> QED
    BY <2>1, <2>2
<1>3. N \subseteq Nat /\ \A m \in N : m + 1 \in N
  BY <1>2
<1>4. n \in N
  <2> HIDE DEF N
  <2> QED
    BY <1>1, <1>3, InductiveSet
<1> QED
  BY <1>4

\* As long as the Fibonacci number fits, fibonacci computes it.
LEMMA FibonacciExact ==
  ASSUME NEW n \in Nat, FibonacciNumber[n] <= Largest
  PROVE  Fibonacci(n) = FibonacciNumber[n]
<1>1. CASE n <= 2
  BY <1>1, FibonacciEquation DEF Fibonacci, NumberValue
<1>2. CASE ~(n <= 2)
  <2>1. PICK p \in [2..n -> Int \X Int] :
          Fibonacci(n) = p[n][2] /\ \A i \in 2..n : p[i] = PairValue(p, i)
    <3>1. n > 2
      BY <1>2
    <3> QED
      BY <3>1, FibonacciPairs, Zenon
  <2> DEFINE N == {i \in Nat : i + 2 <= n =>
                     p[i + 2] = <<FibonacciNumber[i + 1], FibonacciNumber[i + 2]>>}
  <2>2. 0 \in N
    <3>1. p[2] = <<1, 1>>
      BY <1>2, <2>1 DEF PairValue
    <3>2. FibonacciNumber[1] = 1 /\ FibonacciNumber[2] = 1
      BY FibonacciEquation DEF NumberValue
    <3> QED
      BY <3>1, <3>2
  <2>3. ASSUME NEW i \in N PROVE i + 1 \in N
    <3> DEFINE k == i + 3
               a == FibonacciNumber[i + 1]
               b == FibonacciNumber[i + 2]
    <3>0. i \in Nat /\ k \in Nat /\ (i + 1) + 2 = k /\ (i + 1) + 1 = i + 2
          /\ k - 1 = i + 2 /\ k - 2 = i + 1 /\ ~(k <= 2) /\ k # 2
      OBVIOUS
    <3>1. ASSUME k <= n PROVE p[k] = <<b, FibonacciNumber[k]>>
      <4>1. k \in 2..n /\ i + 2 <= n /\ k \in 1..n
        BY <3>0, <3>1
      <4>2. p[i + 2] = <<a, b>>
        BY <4>1
      <4>3. p[k] = <<b, Wrap(a + b)>>
        <5>1. p[k] = PairValue(p, k)
          BY <2>1, <4>1
        <5>2. PairValue(p, k) = <<p[i + 2][2], Wrap(p[i + 2][1] + p[i + 2][2])>>
          BY <3>0 DEF PairValue
        <5> HIDE DEF a, b, k
        <5> QED
          BY <4>2, <5>1, <5>2
      <4>4. FibonacciNumber[k] = b + a
        BY <3>0, FibonacciEquation DEF NumberValue
      <4>5. a \in Nat /\ b \in Nat /\ FibonacciNumber[k] \in Nat /\ FibonacciNumber[n] \in Nat
        BY <3>0, FibonacciEquation
      <4>6. FibonacciNumber[k] <= FibonacciNumber[n]
        BY <4>1, FibonacciGrows
      <4> HIDE DEF a, b, k
      <4>7. Smallest <= a + b /\ a + b <= Largest /\ a + b \in Int
        BY <4>4, <4>5, <4>6, Durations
      <4>8. Wrap(a + b) = a + b
        BY <4>7, WrapsIntoDuration
      <4> QED
        BY <4>3, <4>4, <4>5, <4>8
    <3> HIDE DEF b
    <3> QED
      BY <3>0, <3>1 DEF b
  <2>4. \A i \in Nat : i \in N
    <3>1. N \subseteq Nat /\ \A i \in N : i + 1 \in N
      BY <2>3
    <3> HIDE DEF N
    <3> QED
      BY <2>2, <3>1, InductiveSet
  <2>5. n - 2 \in Nat /\ (n - 2) + 2 = n
    BY <1>2
  <2>6. n - 2 \in N
    BY <2>4, <2>5
  <2>7. p[n] = <<FibonacciNumber[(n - 2) + 1], FibonacciNumber[n]>>
    BY <2>5, <2>6
  <2> QED
    BY <2>1, <2>7
<1> QED
  BY <1>1, <1>2

\* A shift by Width - 1 bits or more overflows.
LEMMA PowersOverflow ==
  ASSUME NEW m \in 0..MaxRetries, m >= Width - 1
  PROVE  2^m > Largest
<1> DEFINE w == Width - 1
           B == 2^w
           N == {i \in Nat : w + i <= Width + MaxRetries => 2^(w + i) >= B}
<1>1. w \in Nat /\ Width \in Nat /\ MaxRetries \in Nat /\ w + 1 = Width /\ B \in Nat
  BY Widths, BackoffAssumption
<1>2. Largest = B - 1
  BY DEF Largest
<1>3. 0 \in N
  <2>1. w + 0 = w /\ B >= B
    BY <1>1
  <2> QED
    BY <2>1
<1> HIDE DEF w, B
<1>4. ASSUME NEW i \in N PROVE i + 1 \in N
  <2> SUFFICES ASSUME w + (i + 1) <= Width + MaxRetries PROVE 2^(w + (i + 1)) >= B
    OBVIOUS
  <2>1. i \in Nat /\ w + i \in 0..(Width + MaxRetries) /\ (w + i) + 1 = w + (i + 1)
    BY <1>1
  <2>2. 2^(w + i) \in Nat \ {0} /\ 2^((w + i) + 1) = 2 * 2^(w + i)
    BY <2>1, BackoffAssumption
  <2>3. 2^(w + i) >= B
    BY <1>1, <2>1
  <2> DEFINE x == 2^(w + i)
  <2>4. x \in Nat /\ x >= B /\ 2^(w + (i + 1)) = 2 * x
    BY <2>1, <2>2, <2>3
  <2> HIDE DEF x
  <2> QED
    BY <1>1, <2>4
<1>5. \A i \in Nat : i \in N
  <2>1. N \subseteq Nat /\ \A i \in N : i + 1 \in N
    BY <1>4
  <2> HIDE DEF N
  <2> QED
    BY <1>3, <2>1, InductiveSet
<1>6. m - w \in Nat /\ w + (m - w) = m /\ w + (m - w) <= Width + MaxRetries
  BY <1>1 DEF w
<1>7. 2^m >= B
  BY <1>5, <1>6
<1>8. 2^m \in Nat
  BY PowersTyped
<1> DEFINE x == 2^m
<1> HIDE DEF x
<1>9. x >= B /\ x \in Nat
  BY <1>7, <1>8 DEF x
<1>10. x > Largest
  BY <1>1, <1>2, <1>9
<1> QED
  BY <1>10 DEF x

LEMMA Quotient ==
  ASSUME NEW limit \in Nat, NEW p \in Nat \ {0}, NEW b \in Nat
  PROVE  b > limit \div p <=> b * p > limit
<1> DEFINE q == limit \div p
           r == limit % p
<1>1. q \in Int /\ r \in 0..(p - 1) /\ limit = p * q + r
  OBVIOUS
<1> HIDE DEF q, r
<1>2. ASSUME b >= q + 1 PROVE b * p > limit
  <2>1. b * p >= (q + 1) * p
    BY <1>1, <1>2
  <2>2. (q + 1) * p = p * q + p
    BY <1>1
  <2> QED
    BY <1>1, <2>1, <2>2
<1>3. ASSUME b <= q PROVE b * p <= limit
  <2>1. b * p <= q * p
    BY <1>1, <1>3
  <2>2. q * p = p * q
    BY <1>1
  <2> QED
    BY <1>1, <2>1, <2>2
<1>4. b > q <=> b * p > limit
  BY <1>1, <1>2, <1>3
<1> QED
  BY <1>4 DEF q

\* overflowsExp is true exactly if the product does not fit.
LEMMA OverflowIsSeen ==
  ASSUME NEW base \in 1..Largest, NEW attempt \in 0..MaxRetries
  PROVE  OverflowsExp(base, attempt) <=> base * 2^attempt > Largest
<1> DEFINE p == 2^attempt
<1>1. p \in Nat \ {0} /\ attempt \in Int /\ Width \in Int
  BY PowersTyped, BackoffAssumption
<1>2. attempt >= Width - 1 => p > Largest
  BY PowersOverflow
<1>3. OverflowsExp(base, attempt) <=> attempt >= Width - 1 \/ base > Largest \div p
  BY DEF OverflowsExp
<1> HIDE DEF p
<1>4. Largest \in Nat /\ base \in Nat
  BY Durations
<1>5. base > Largest \div p <=> base * p > Largest
  BY <1>1, <1>4, Quotient
<1>6. p > Largest => base * p > Largest
  <2>1. base * p >= p
    BY <1>1, Durations
  <2> QED
    BY <1>1, <2>1, Durations
<1>7. base * p > Largest <=> OverflowsExp(base, attempt)
  BY <1>2, <1>3, <1>5, <1>6
<1> QED
  BY <1>7 DEF p

\* A product that fits is what the wrapping product is.
LEMMA ExactProduct ==
  ASSUME NEW a \in 1..Largest, NEW b \in Nat, a * b <= Largest
  PROVE  b <= Largest /\ Wrap(a * b) = a * b
<1>1. a \in Nat \ {0} /\ Largest \in Int /\ Smallest \in Int /\ Smallest <= 0
  BY Durations
<1>2. a * b >= b /\ a * b \in Nat
  <2>1. a * b = b + (a - 1) * b
    BY <1>1
  <2>2. (a - 1) * b \in Nat
    BY <1>1
  <2> QED
    BY <1>1, <2>1, <2>2
<1> DEFINE c == a * b
<1> HIDE DEF c
<1>3. c \in Int /\ Smallest <= c /\ c <= Largest
  BY <1>1, <1>2 DEF c
<1>4. Wrap(c) = c
  BY <1>3, WrapsIntoDuration
<1> QED
  BY <1>1, <1>2, <1>4 DEF c

LEMMA LinearFollows ==
  ASSUME NEW s \in Strategies, NEW attempt \in Nat, s.base * (attempt + 1) <= Largest
  PROVE  Linear(s, attempt) = AtMost(s.base * (attempt + 1), s.cap)
<1>1. s.base \in 1..Largest /\ attempt + 1 \in Nat
  BY StrategyFields
<1>2. attempt + 1 <= Largest /\ Wrap(s.base * (attempt + 1)) = s.base * (attempt + 1)
  BY <1>1, ExactProduct
<1>3. Wrap(attempt + 1) = attempt + 1
  BY <1>1, <1>2, Durations, WrapsIntoDuration
<1> QED
  BY <1>2, <1>3 DEF Linear

LEMMA FibonacciFollows ==
  ASSUME NEW s \in Strategies, NEW attempt \in Nat,
         s.base * FibonacciNumber[attempt + 1] <= Largest
  PROVE  FibonacciWait(s, attempt) = AtMost(s.base * FibonacciNumber[attempt + 1], s.cap)
<1> DEFINE F == FibonacciNumber[attempt + 1]
<1>1. s.base \in 1..Largest /\ attempt + 1 \in Nat /\ F \in Nat
  BY StrategyFields, FibonacciEquation
<1>2. F <= Largest /\ Wrap(s.base * F) = s.base * F
  BY <1>1, ExactProduct
<1>3. Fibonacci(attempt + 1) = F
  BY <1>1, <1>2, FibonacciExact
<1> QED
  BY <1>2, <1>3 DEF FibonacciWait

\* What is taken from below a ceiling is near enough to it.
LEMMA SpreadFollows ==
  ASSUME NEW s, NEW c \in 0..Largest, NEW raw \in Spread(s, c)
  PROVE  /\ s.kind = "exponential" /\ 6 * c <= 5 * Largest =>
              5 * raw >= 4 * c /\ 5 * raw <= 6 * c
         /\ s.kind = "fullJitter"  => raw \in 0..c
         /\ s.kind = "equalJitter" => raw \in (c \div 2)..c
<1>1. ASSUME s.kind = "exponential", 6 * c <= 5 * Largest
      PROVE  5 * raw >= 4 * c /\ 5 * raw <= 6 * c
  <2>1. raw \in Jittered(c, 2)
    BY <1>1 DEF Spread
  <2>2. c \in Nat /\ AtLeast(c, 0 - c) = c
    BY DEF AtLeast
  <2> DEFINE spread == (c * 2) \div 10
  <2>3. spread \in Nat /\ 10 * spread <= 2 * c
    BY <2>2
  <2> HIDE DEF spread
  <2>4. PICK j \in (0 - spread)..spread : raw = Wrap(c + j)
    BY <2>1, <2>2 DEF Jittered, spread
  <2>5. c + j \in Int /\ Smallest <= c + j /\ c + j <= Largest
    BY <1>1, <2>2, <2>3, Durations
  <2>6. raw = c + j
    BY <2>4, <2>5, WrapsIntoDuration
  <2> QED
    BY <2>2, <2>3, <2>6
<1>2. ASSUME s.kind = "fullJitter" PROVE raw \in 0..c
  BY <1>2 DEF Spread
<1>3. ASSUME s.kind = "equalJitter" PROVE raw \in (c \div 2)..c
  <2>1. raw \in (c \div 2)..(c \div 2 + c \div 2)
    BY <1>3 DEF Spread
  <2>2. c \div 2 + c \div 2 <= c /\ c \div 2 \in Int
    BY Durations
  <2> QED
    BY <2>1, <2>2, Durations
<1> QED
  BY <1>1, <1>2, <1>3

LEMMA ExponentialFollows ==
  ASSUME NEW s \in Strategies, NEW attempt \in 0..MaxRetries,
         s.kind \in {"exponential", "fullJitter", "equalJitter"},
         NEW raw \in Exponential(s, attempt), NEW c, c = AtMost(s.base * 2^attempt, s.cap)
  PROVE  /\ s.kind = "exponential" /\ 6 * c <= 5 * Largest =>
              5 * raw >= 4 * c /\ 5 * raw <= 6 * c
         /\ s.kind = "fullJitter"  => raw \in 0..c
         /\ s.kind = "equalJitter" => raw \in (c \div 2)..c
<1> DEFINE product == s.base * 2^attempt
<1>1. s.base \in 1..Largest /\ s.cap \in 1..Largest /\ 2^attempt \in Nat \ {0}
  BY StrategyFields, PowersTyped
<1>2. product \in Nat
  <2>1. s.base \in Nat
    BY <1>1, Durations
  <2> QED
    BY <1>1, <2>1
<1>3. CASE OverflowsExp(s.base, attempt)
  <2>1. product > Largest
    BY <1>1, <1>3, OverflowIsSeen
  <2> HIDE DEF product
  <2>2. c = s.cap
    BY <1>1, <2>1, Durations DEF AtMost, product
  <2>3. raw = s.cap
    BY <1>3 DEF Exponential
  <2>4. c \in Nat
    BY <1>1, <2>2, Durations
  <2> QED
    BY <2>2, <2>3, <2>4
<1>4. CASE ~OverflowsExp(s.base, attempt)
  <2>1. product <= Largest
    BY <1>1, <1>2, <1>4, OverflowIsSeen, Durations
  <2>2. Wrap(product) = product
    BY <1>1, <2>1, ExactProduct
  <2>3. Ceiling(s, attempt) = c
    BY <2>2 DEF Ceiling
  <2>4. raw \in Spread(s, c)
    BY <1>4, <2>3 DEF Exponential
  <2> HIDE DEF product
  <2>5. c \in 0..Largest
    BY <1>1, <1>2, <2>1, Durations DEF AtMost, product
  <2> QED
    BY <2>4, <2>5, SpreadFollows
<1> QED
  BY <1>3, <1>4

\* Every wait follows the curve its strategy documents (backoff.go), for any width of
\* integers and any number of retries: exactly for the linear and the Fibonacci strategy
\* as long as their product fits, and for the exponential ones whether it fits or not.
THEOREM CurvesAreFollowed == Spec => []WaitsFollowCurve
<1>1. AnswerInv => WaitsFollowCurve
  <2> SUFFICES ASSUME AnswerInv, latest # Nothing PROVE WaitsFollowCurve
    BY DEF WaitsFollowCurve
  <2> DEFINE s == strategy
             n == latest.attempt
             raw == latest.raw
  <2>1. s \in Strategies /\ n \in 0..MaxRetries /\ n \in Nat /\ s.kind \in AllKinds
    BY StrategyFields, BackoffAssumption DEF AnswerInv
  <2>2. PICK last \in Int : raw \in RawWaits(s, n, last)
    BY DEF AnswerInv
  <2> DEFINE product == Curve(s, n)
             capped  == AtMost(product, s.cap)
  <2> HIDE DEF s, n, raw
  <2>3. s.kind = "constant" => raw = s.base
    BY <2>2 DEF RawWaits
  <2>4. ASSUME s.kind = "linear", product <= Largest PROVE raw = capped
    <3>1. product = s.base * (n + 1)
      BY <2>4 DEF Curve
    <3>2. raw = Linear(s, n)
      BY <2>2, <2>4 DEF RawWaits
    <3> QED
      BY <2>1, <2>4, <3>1, <3>2, LinearFollows
  <2>5. ASSUME s.kind = "fibonacci", product <= Largest PROVE raw = capped
    <3>1. product = s.base * FibonacciNumber[n + 1]
      BY <2>5 DEF Curve
    <3>2. raw = FibonacciWait(s, n)
      BY <2>2, <2>5 DEF RawWaits
    <3> QED
      BY <2>1, <2>5, <3>1, <3>2, FibonacciFollows
  <2>6. ASSUME s.kind \in {"exponential", "fullJitter", "equalJitter"}
        PROVE  /\ s.kind = "exponential" /\ 6 * capped <= 5 * Largest =>
                    5 * raw >= 4 * capped /\ 5 * raw <= 6 * capped
               /\ s.kind = "fullJitter"  => raw \in 0..capped
               /\ s.kind = "equalJitter" => raw \in (capped \div 2)..capped
    <3>1. product = s.base * 2^n
      BY <2>6 DEF Curve
    <3>2. raw \in Exponential(s, n)
      BY <2>2, <2>6 DEF RawWaits
    <3>3. capped = AtMost(s.base * 2^n, s.cap)
      BY <3>1
    <3> HIDE DEF capped, product
    <3> QED
      BY <2>1, <2>6, <3>2, <3>3, ExponentialFollows
  <2> HIDE DEF product, capped
  <2>7. CASE s.kind = "constant"
    BY <2>3, <2>7 DEF WaitsFollowCurve, s, raw
  <2>8. CASE s.kind \in {"linear", "fibonacci"}
    BY <2>4, <2>5, <2>8 DEF WaitsFollowCurve, s, n, raw, product, capped
  <2>9. CASE s.kind = "exponential"
    BY <2>6, <2>9 DEF WaitsFollowCurve, s, n, raw, product, capped
  <2>10. CASE s.kind = "fullJitter"
    BY <2>6, <2>10 DEF WaitsFollowCurve, s, n, raw, product, capped
  <2>11. CASE s.kind = "equalJitter"
    BY <2>6, <2>11 DEF WaitsFollowCurve, s, n, raw, product, capped
  <2>12. CASE s.kind = "decorrelated"
    BY <2>12 DEF WaitsFollowCurve, s
  <2> QED
    BY <2>1, <2>7, <2>8, <2>9, <2>10, <2>11, <2>12 DEF AllKinds
<1> QED
  BY <1>1, InitAnswer, NextAnswer, PTL DEF Spec

-----------------------------------------------------------------------------
(* The memory of the decorrelated backoff.                                 *)

LEMMA Bounds ==
  /\ Largest \in Int /\ Smallest \in Int /\ Smallest <= 0
  /\ Bases \subseteq Nat \ {0} /\ Caps \subseteq Nat \ {0}
BY Durations

\* As long as three times the last wait fits in a duration, a wait is what the
\* last one was moved to within base..maxDuration.
LEMMA DecorrelatedBounds ==
  ASSUME NEW s, s.base \in Nat \ {0}, s.cap \in Nat \ {0}, s.base <= s.cap,
         3 * s.cap <= Largest, NEW n \in Nat, NEW last \in Int,
         n > 0 => last \in s.base..s.cap
  PROVE  Decorrelated(s, n, last) \subseteq s.base..s.cap
<1> USE Bounds
<1>1. CASE n = 0
  BY <1>1 DEF Decorrelated
<1>2. CASE n # 0
  <2>1. last * 3 \in s.base..Largest
    BY <1>2
  <2>2. ASSUME NEW m \in s.base..(last * 3) PROVE ToDuration(m) = {m}
    BY <2>1, <2>2 DEF ToDuration, Duration
  <2>3. AtMost(s.base, last * 3) = s.base /\ AtLeast(s.base, last * 3) = last * 3
    BY <2>1 DEF AtMost, AtLeast
  <2>4. Between(s.base, last * 3) \subseteq s.base..(last * 3)
    BY <2>2, <2>3 DEF Between
  <2>5. \A d \in s.base..(last * 3) : AtMost(d, s.cap) \in s.base..s.cap
    BY <2>1 DEF AtMost
  <2>6. Decorrelated(s, n, last) = {AtMost(d, s.cap) : d \in Between(s.base, last * 3)}
    BY <1>2 DEF Decorrelated
  <2> QED
    BY <2>4, <2>5, <2>6
<1> QED
  BY <1>1, <1>2

\* The strategies of which the property speaks.
SafelyDecorrelated ==
  /\ strategy.kind = "decorrelated" /\ strategy.base <= strategy.cap
  /\ 3 * strategy.cap <= Largest

\* A sequence asks for a first wait before it asks for another, so while any
\* sequence is past its first, the memory holds a sound wait.
MemoryInv ==
  /\ strategy \in Strategies
  /\ retries \in [Sequences -> Nat]
  /\ SafelyDecorrelated =>
       /\ (\E q \in Sequences : retries[q] > 0) =>
            lastBackoff \in strategy.base..strategy.cap
       /\ latest # Nothing => latest.raw \in strategy.base..strategy.cap

LEMMA StrategyTyped ==
  ASSUME strategy \in Strategies
  PROVE  strategy.base \in Nat \ {0} /\ strategy.cap \in Nat \ {0}
BY Bounds DEF Strategies

LEMMA InitMemory == Init => MemoryInv
BY DEF Init, MemoryInv

LEMMA AskKeepsMemory ==
  ASSUME MemoryInv, NEW q \in Sequences, NEW hint \in Hints, Ask(q, hint)
  PROVE  MemoryInv'
<1>1. strategy' \in Strategies /\ retries' \in [Sequences -> Nat]
  BY DEF Ask, MemoryInv
<1>2. CASE SafelyDecorrelated
  <2>1. PICK raw \in RawWaits(strategy, retries[q], lastBackoff) :
          lastBackoff' = raw /\ latest'.raw = raw
    BY <1>2 DEF Ask, SafelyDecorrelated
  <2>2. raw \in Decorrelated(strategy, retries[q], lastBackoff)
    BY <1>2, <2>1 DEF RawWaits, SafelyDecorrelated
  <2>3. /\ retries[q] \in Nat
        /\ retries[q] > 0 => lastBackoff \in strategy.base..strategy.cap
    BY <1>2 DEF MemoryInv
  <2>4. raw \in strategy.base..strategy.cap
    <3>1. CASE retries[q] = 0
      BY <2>2, <3>1, StrategyTyped, <1>2 DEF Decorrelated, SafelyDecorrelated, MemoryInv
    <3>2. CASE retries[q] # 0
      BY <2>2, <2>3, <3>2, StrategyTyped, DecorrelatedBounds, <1>2
         DEF SafelyDecorrelated, MemoryInv
    <3> QED
      BY <3>1, <3>2
  <2> QED
    BY <1>1, <2>1, <2>4 DEF MemoryInv, Ask
<1>3. CASE ~SafelyDecorrelated
  BY <1>1, <1>3 DEF MemoryInv, SafelyDecorrelated, Ask
<1> QED
  BY <1>2, <1>3

LEMMA StartOverKeepsMemory ==
  ASSUME MemoryInv, NEW q \in Sequences, StartOver(q)
  PROVE  MemoryInv'
<1>1. /\ retries' \in [Sequences -> Nat]
      /\ \A p \in Sequences : retries'[p] > 0 => retries[p] > 0
      /\ UNCHANGED <<strategy, lastBackoff, latest>>
  BY DEF StartOver, MemoryInv
<1> QED
  BY <1>1 DEF MemoryInv, SafelyDecorrelated, Nothing

LEMMA NextMemory == MemoryInv /\ [Next]_vars => MemoryInv'
<1>1. MemoryInv /\ UNCHANGED vars => MemoryInv'
  BY DEF MemoryInv, SafelyDecorrelated, vars, Nothing
<1> QED
  BY <1>1, AskKeepsMemory, StartOverKeepsMemory DEF Next

\* However retry sequences interleave on one decorrelated backoff, none is told to
\* wait less than base or more than maxDuration.
THEOREM DecorrelatedStaysInBounds == Spec => []SharedMemoryIsSound
<1>1. MemoryInv => SharedMemoryIsSound
  BY DEF MemoryInv, SafelyDecorrelated, SharedMemoryIsSound
<1> QED
  BY <1>1, InitMemory, NextMemory, PTL DEF Spec
=============================================================================
