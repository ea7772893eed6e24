------------------------------- MODULE Backoff -------------------------------
(***************************************************************************)
(* The backoff strategies and decorators of backoff.go, in the integers of *)
(* time.Duration: signed, Width bits wide, wrapping.                       *)
(*                                                                         *)
(* One BackoffFunc is built and then shared by the retry sequences of      *)
(* Sequences, as the RetryConfig of a client is by all its requests.  Each *)
(* of them asks for the waits before its retries 0, 1, 2, ... and starts   *)
(* over with its next request; only the decorrelated strategy remembers    *)
(* anything between two questions.                                         *)
(*                                                                         *)
(* rand.Float64 may return any fraction, so a random wait is any duration  *)
(* of an interval; the ends of the interval are taken to belong to it, as  *)
(* they do once float64 has rounded.                                       *)
(***************************************************************************)
EXTENDS Integers, SequencesExt

CONSTANTS
  Width,          \* the bits of time.Duration and of int: 64 in the code
  Sequences,      \* the retry sequences that share the BackoffFunc
  Kinds,          \* the strategies that may be built ...
  Bases, Caps,    \* ... their base and maxDuration arguments ...
  Decorations,    \* ... and the decorators around them, innermost first
  JitterTenths,   \* jitterFraction of WithJitter, in tenths
  MinWait,        \* minDuration of WithMin
  MaxWait,        \* maxDuration of WithMax
  Hints,          \* the waits a server may ask for; 0 for no usable header
  MaxRetries      \* bound: the retries of one sequence

AllKinds == {"constant", "linear", "exponential", "fibonacci", "decorrelated",
             "fullJitter", "equalJitter"}
Decorators == {"jitter", "max", "min", "retryAfter"}

Largest  == 2^(Width - 1) - 1
Smallest == 0 - 2^(Width - 1)
Duration == Smallest..Largest

ASSUME BackoffAssumption ==
  /\ Width \in Nat \ {0, 1}
  /\ Kinds \subseteq AllKinds
  /\ Bases \subseteq 1..Largest
  /\ Caps \subseteq 1..Largest
  /\ Decorations \subseteq Seq(Decorators)
  /\ JitterTenths \in Int
  /\ MinWait \in 0..Largest
  /\ MaxWait \in 0..Largest
  /\ Hints \subseteq Duration
  /\ MaxRetries \in Nat
  \* Of powers the provers know nothing else:
  /\ \A n \in 0..(Width + MaxRetries) : 2^n \in Nat \ {0} /\ 2^(n + 1) = 2 * 2^n

\* What Go's arithmetic makes of the integer n.
Wrap(n) == ((n - Smallest) % 2^Width) + Smallest

AtMost(n, cap) == IF n > cap THEN cap ELSE n
AtLeast(n, floor) == IF n < floor THEN floor ELSE n

-----------------------------------------------------------------------------
(* The strategies.                                                         *)

\* Mutant: the product is not checked, only the shift.
OverflowsExp_ShiftOnly(base, attempt) == attempt >= Width - 1

\* overflowsExp
OverflowsExp(base, attempt) ==
  attempt >= Width - 1 \/ base > Largest \div 2^attempt

\* fibonacci: pair[i] is <<a, b>> when the loop is through with i.
Fibonacci(n) ==
  LET pair[i \in 2..n] ==
        IF i = 2 THEN <<1, 1>> ELSE <<pair[i - 1][2], Wrap(pair[i - 1][1] + pair[i - 1][2])>>
  IN  IF n <= 2 THEN 1 ELSE pair[n][2]

\* time.Duration(x) of a float64 that does not fit is up to the platform.
ToDuration(n) ==
  IF n \in Duration THEN {n} ELSE {Smallest, Largest}

\* minVal + rand.Float64()*(maxVal-minVal)
Between(a, b) == UNION {ToDuration(n) : n \in AtMost(a, b)..AtLeast(a, b)}

\* d, with up to tenths/10 of it added or taken away.
Jittered(d, tenths) ==
  LET spread == (AtLeast(d, 0 - d) * tenths) \div 10
  IN  {Wrap(d + j) : j \in (0 - spread)..spread}

Linear(s, attempt) == AtMost(Wrap(s.base * Wrap(attempt + 1)), s.cap)

FibonacciWait(s, attempt) == AtMost(Wrap(s.base * Fibonacci(attempt + 1)), s.cap)

\* base * (1 << attempt), once it is known not to overflow, and its cap.
Ceiling(s, attempt) == AtMost(Wrap(s.base * 2^attempt), s.cap)

\* The waits an exponential strategy picks from below its ceiling.
Spread(s, c) ==
  CASE s.kind = "exponential" -> Jittered(c, 2)
    [] s.kind = "fullJitter"  -> 0..c
    [] s.kind = "equalJitter" -> (c \div 2)..(c \div 2 + c \div 2)

Exponential(s, attempt) ==
  IF OverflowsExp(s.base, attempt) THEN {s.cap} ELSE Spread(s, Ceiling(s, attempt))

\* Mutant: the first retry does not restart the memory.
Decorrelated_NoRestart(s, attempt, last) ==
  {AtMost(d, s.cap) : d \in Between(s.base, last * 3)}

\* last is what the strategy remembers.
Decorrelated(s, attempt, last) ==
  IF attempt = 0 THEN {s.base} ELSE {AtMost(d, s.cap) : d \in Between(s.base, last * 3)}

\* The waits the strategy may return for the retry numbered attempt.
RawWaits(s, attempt, last) ==
  CASE s.kind = "constant"     -> {s.base}
    [] s.kind = "linear"       -> {Linear(s, attempt)}
    [] s.kind = "fibonacci"    -> {FibonacciWait(s, attempt)}
    [] s.kind = "decorrelated" -> Decorrelated(s, attempt, last)
    [] OTHER                   -> Exponential(s, attempt)

-----------------------------------------------------------------------------
(* The decorators.                                                         *)

\* WithJitter
WithJitter(d) ==
  IF JitterTenths <= 0
    THEN {d}
    ELSE {AtLeast(r, 0) : r \in Jittered(d, AtMost(JitterTenths, 10))}

\* Mutant: the hint replaces the wait.
WithRetryAfter_Replaces(d, hint) == IF hint > 0 THEN hint ELSE d

\* WithRetryAfter; parseRetryAfter finds a usable hint in a 429 or 503 only.
WithRetryAfter(d, hint) == IF hint # 0 /\ hint > d THEN hint ELSE d

Decorate(d, decorator, hint) ==
  CASE decorator = "jitter"     -> WithJitter(d)
    [] decorator = "max"        -> {AtMost(d, MaxWait)}
    [] decorator = "min"        -> {AtLeast(d, MinWait)}
    [] decorator = "retryAfter" -> {WithRetryAfter(d, hint)}

\* The waits that come out of all the decorators when d goes in.
Decorated(d, decorators, hint) ==
  FoldLeft(LAMBDA ds, decorator : UNION {Decorate(e, decorator, hint) : e \in ds},
           {d}, decorators)

-----------------------------------------------------------------------------
VARIABLES
  strategy,      \* the BackoffFunc, fixed from the start
  lastBackoff,   \* what DecorrelatedJitterBackoff remembers
  retries,       \* retries[q]: the number of the next retry of q
  latest         \* the latest question and its answer: the retry, the hint,
                 \* the wait of the strategy and the one that is returned

vars == <<strategy, lastBackoff, retries, latest>>

\* No question has been asked yet.
Nothing == [attempt |-> 0 - 1, hint |-> 0, raw |-> 0, wait |-> 0]

Strategies == [kind : Kinds, base : Bases, cap : Caps, decorators : Decorations]

Init ==
  /\ strategy \in Strategies
  /\ lastBackoff = 0
  /\ retries = [q \in Sequences |-> 0]
  /\ latest = Nothing

\* q is about to retry, after a response that asked to wait for hint.
Ask(q, hint) ==
  /\ retries[q] < MaxRetries
  /\ \E raw \in RawWaits(strategy, retries[q], lastBackoff) :
       /\ lastBackoff' = IF strategy.kind = "decorrelated" THEN raw ELSE lastBackoff
       /\ \E wait \in Decorated(raw, strategy.decorators, hint) :
            latest' = [attempt |-> retries[q], hint |-> hint, raw |-> raw, wait |-> wait]
  /\ retries' = [retries EXCEPT ![q] = @ + 1]
  /\ UNCHANGED strategy

\* q has its answer or gives up; its next request starts over.
StartOver(q) ==
  /\ retries[q] > 0
  /\ retries' = [retries EXCEPT ![q] = 0]
  /\ UNCHANGED <<strategy, lastBackoff, latest>>

Next ==
  \E q \in Sequences :
    \/ \E hint \in Hints : Ask(q, hint)
    \/ StartOver(q)

Spec == Init /\ [][Next]_vars

-----------------------------------------------------------------------------
(* Correctness.                                                            *)

\* The Fibonacci numbers: 1, 1, 2, 3, 5, ...
FibonacciNumber[n \in Nat] ==
  IF n <= 2 THEN 1 ELSE FibonacciNumber[n - 1] + FibonacciNumber[n - 2]

\* The documented curve, in integers without bounds.
Curve(s, attempt) ==
  CASE s.kind \in {"constant", "decorrelated"} -> s.base
    [] s.kind = "linear"    -> s.base * (attempt + 1)
    [] s.kind = "fibonacci" -> s.base * FibonacciNumber[attempt + 1]
    [] OTHER                -> s.base * 2^attempt

\* Every wait follows the curve its strategy documents, up to the cap and the
\* jitter: exactly for the linear and the Fibonacci strategy as long as their
\* product fits, and for the exponential ones whether it fits or not, so the
\* test of overflowsExp is neither too early nor too late by a single bit.
WaitsFollowCurve ==
  LET s == strategy
      product == Curve(s, latest.attempt)
      capped  == AtMost(product, s.cap)
  IN  latest # Nothing =>
        CASE s.kind = "constant"    -> latest.raw = s.base
          [] s.kind \in {"linear", "fibonacci"} ->
               product <= Largest => latest.raw = capped
          [] s.kind = "exponential" ->
               6 * capped <= 5 * Largest =>
                 /\ 5 * latest.raw >= 4 * capped
                 /\ 5 * latest.raw <= 6 * capped
          [] s.kind = "fullJitter"  -> latest.raw \in 0..capped
          [] s.kind = "equalJitter" -> latest.raw \in (capped \div 2)..capped
          [] s.kind = "decorrelated" -> TRUE

\* However retry sequences interleave on one decorrelated backoff, and wherever
\* in their sequence they are, none is told to wait less than base or more than
\* maxDuration: the value that another left behind is always a sound one.  (Of
\* a cap whose threefold overflows time.Duration this is not true.)
SharedMemoryIsSound ==
  strategy.kind = "decorrelated" /\ strategy.base <= strategy.cap
    /\ 3 * strategy.cap <= Largest /\ latest # Nothing
    => latest.raw \in strategy.base..strategy.cap

\* A server's hint is a minimum and never shortens a wait: behind WithRetryAfter,
\* decorated further or not by anything that cannot shorten a wait, the wait is
\* at least the hint and at least what the strategy wanted.
HintIsAMinimum ==
  LET ds == strategy.decorators
      lengthening == {"min", "retryAfter"}
  IN  /\ latest.hint > 0 => \A i \in DOMAIN ds :
           ds[i] = "retryAfter" /\ (\A j \in (i + 1)..Len(ds) : ds[j] \in lengthening)
             => latest.wait >= latest.hint
      /\ (\A i \in DOMAIN ds : ds[i] \in lengthening) => latest.wait >= latest.raw

\* "Backoff strategies: constant, linear, exponential, Fibonacci, and their
\* jitter variants - all zero-alloc and overflow-safe" (CHANGELOG.md): no
\* product that overflows comes out as a negative wait.
OverflowSafe == latest.raw >= 0
=============================================================================
