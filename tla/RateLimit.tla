------------------------------ MODULE RateLimit ------------------------------
(***************************************************************************)
(* The rate-limit middleware of ratelimit.go over a TokenBucket: one        *)
(* rateLimitRoundTripper, whose retryAt all its round trips share, and one *)
(* round trip for each element of Calls.                                   *)
(*                                                                         *)
(* A round trip looks at retryAt once, sleeps until the moment it read,    *)
(* asks the limiter, calls the next RoundTripper and, on a 429 that        *)
(* carries Retry-After, moves retryAt.                                     *)
(***************************************************************************)
EXTENDS TokenBucket, FiniteSets

CONSTANTS
  RespectRetryAfter,   \* RateLimitConfig; WaitOnLimit is Blocking = Calls
  HintSeconds,         \* the delay-seconds a server may send with a 429
  HintDates,           \* the HTTP-dates a server may send with a 429
  DurationBits,        \* the width of time.Duration
  MaxConcurrent        \* bound: round trips under way at one time

\* The last conjunct is true of every DurationBits; the provers do not know it.
ASSUME RateLimitAssumption ==
  /\ Blocking \in {{}, Calls}
  /\ RespectRetryAfter \in BOOLEAN
  /\ HintSeconds \subseteq Int
  /\ HintDates \subseteq Nat
  /\ DurationBits \in Nat \ {0}
  /\ MaxConcurrent \in Nat
  /\ 2^(DurationBits - 1) \in Nat \ {0}

\* What next.RoundTrip returns: a 429 with one of the hints, or anything else
\* (another status, an error, a hint that does not parse).
NoHint == [form |-> "none", value |-> 0]
Replies == {NoHint}
             \union [form : {"seconds"}, value : HintSeconds]
             \union [form : {"date"}, value : HintDates]

\* time.Duration(seconds) * time.Second, in a signed integer of DurationBits.
AsDuration(seconds) ==
  LET half == 2^(DurationBits - 1)
  IN  ((seconds * Unit + half) % (2 * half)) - half

-----------------------------------------------------------------------------
VARIABLES
  retryAt,      \* retryAt of rateLimitRoundTripper
  stage,        \* stage[c]: where the round trip c is
  coolUntil,    \* coolUntil[c]: the retryAt for which c sleeps
  reply,        \* reply[c]: what the next RoundTripper answered to c
  bodyClosed,   \* bodyClosed[c]: did the middleware close the request body?
  asked         \* history: the latest moment until which a server that has
                \* been heard asked not to be called

middleware == <<retryAt, stage, coolUntil, reply, bodyClosed, asked>>
vars == <<now, limiter, ctxDone, middleware>>

LimitStages == {"new", "cooling", "limiting", "sending", "recording",
                "returned", "failed"}

\* Under way.
Busy == {"cooling", "limiting", "sending", "recording"}

Init ==
  /\ BucketInit
  /\ retryAt = 0          \* time.Time{}: never after now
  /\ stage = [c \in Calls |-> "new"]
  /\ coolUntil = [c \in Calls |-> 0]
  /\ reply = [c \in Calls |-> NoHint]
  /\ bodyClosed = [c \in Calls |-> FALSE]
  /\ asked = 0

-----------------------------------------------------------------------------
Enters(c) ==
  /\ stage[c] = "new"
  /\ Cardinality({d \in Calls : stage[d] \in Busy}) < MaxConcurrent

Cooling == RespectRetryAfter /\ now < retryAt

\* The call turns to the limiter.
TurnToLimiter(c) ==
  /\ stage' = [stage EXCEPT ![c] = "limiting"]
  /\ Call(c)
  /\ UNCHANGED <<retryAt, coolUntil, reply, bodyClosed, asked>>

\* The check under retryLock finds no Retry-After window.
EnterFree(c) ==
  /\ Enters(c)
  /\ ~Cooling
  /\ TurnToLimiter(c)

\* It finds one, and starts a timer for the rest of it.
EnterCooling(c) ==
  /\ Enters(c)
  /\ Cooling
  /\ stage' = [stage EXCEPT ![c] = "cooling"]
  /\ coolUntil' = [coolUntil EXCEPT ![c] = retryAt]
  /\ UNCHANGED <<now, limiter, ctxDone, retryAt, reply, bodyClosed, asked>>

\* Mutant: the timer is one tick short.
CoolDownOver_Short(c) ==
  /\ stage[c] = "cooling"
  /\ now + 1 >= coolUntil[c]
  /\ TurnToLimiter(c)

CoolDownOver(c) ==
  /\ stage[c] = "cooling"
  /\ now >= coolUntil[c]
  /\ TurnToLimiter(c)

\* Mutant: the body is left to a transport that is never called.
CloseAndFail_Leak(c) ==
  /\ stage' = [stage EXCEPT ![c] = "failed"]
  /\ UNCHANGED <<now, limiter, ctxDone, retryAt, coolUntil, reply, bodyClosed, asked>>

\* A short circuit: the body is closed and the transport never called.
CloseAndFail(c) ==
  /\ stage' = [stage EXCEPT ![c] = "failed"]
  /\ bodyClosed' = [bodyClosed EXCEPT ![c] = TRUE]
  /\ UNCHANGED <<now, limiter, ctxDone, retryAt, coolUntil, reply, asked>>

\* Mutant: the cool-down is a time.Sleep.
CoolDownCanceled_Deaf(c) == FALSE

CoolDownCanceled(c) ==
  /\ stage[c] = "cooling"
  /\ ctxDone[c]
  /\ CloseAndFail(c)

\* WaitContext or TryAcquire of the limiter.
AskLimiter(c) ==
  /\ stage[c] = "limiting"
  /\ LimiterStep(c)
  /\ UNCHANGED <<ctxDone, middleware>>

Refused(c) ==
  /\ stage[c] = "limiting"
  /\ at[c] \in {"refused", "canceled"}
  /\ CloseAndFail(c)

\* next.RoundTrip is called: the request leaves.
Send(c) ==
  /\ stage[c] = "limiting"
  /\ at[c] = "granted"
  /\ stage' = [stage EXCEPT ![c] = "sending"]
  /\ UNCHANGED <<now, limiter, ctxDone, retryAt, coolUntil, reply, bodyClosed, asked>>

\* next.RoundTrip returns r.
Answer(c, r) ==
  /\ stage[c] = "sending"
  /\ reply' = [reply EXCEPT ![c] = r]
  /\ stage' = [stage EXCEPT ![c] =
       IF RespectRetryAfter /\ r # NoHint THEN "recording" ELSE "returned"]
  /\ UNCHANGED <<now, limiter, ctxDone, retryAt, coolUntil, bodyClosed, asked>>

\* Where reply r asks to wait until, and where retryAt goes: the same, unless
\* the product overflows.
Later(a, b) == IF a >= b THEN a ELSE b
AskedUntil(r)  == IF r.form = "date" THEN r.value ELSE now + r.value * Unit
WindowEnd(r)   == IF r.form = "date" THEN r.value ELSE now + AsDuration(r.value)

\* Mutant: the hint is taken for a number of ticks, not of seconds.
Record_Ticks(c) ==
  /\ stage[c] = "recording"
  /\ retryAt' = IF reply[c].form = "date" THEN reply[c].value ELSE now + reply[c].value
  /\ asked' = Later(asked, AskedUntil(reply[c]))
  /\ stage' = [stage EXCEPT ![c] = "returned"]
  /\ UNCHANGED <<now, limiter, ctxDone, coolUntil, reply, bodyClosed>>

\* The clock is read under retryLock, and the new window replaces the old one
\* even if it ends sooner.
Record(c) ==
  /\ stage[c] = "recording"
  /\ retryAt' = WindowEnd(reply[c])
  /\ asked' = Later(asked, AskedUntil(reply[c]))
  /\ stage' = [stage EXCEPT ![c] = "returned"]
  /\ UNCHANGED <<now, limiter, ctxDone, coolUntil, reply, bodyClosed>>

\* What the goroutine of c does by itself, the transport excepted.
Step(c) ==
  \/ CoolDownOver(c)
  \/ CoolDownCanceled(c)
  \/ AskLimiter(c)
  \/ Refused(c)
  \/ Send(c)
  \/ Record(c)

\* The caller's context ends while the middleware may be waiting.
Cancel(c) ==
  /\ ~ctxDone[c]
  /\ stage[c] \in {"new", "cooling", "limiting"}
  /\ ctxDone' = [ctxDone EXCEPT ![c] = TRUE]
  /\ UNCHANGED <<now, limiter, middleware>>

Next ==
  \/ Elapse /\ UNCHANGED middleware
  \/ \E c \in Calls :
       \/ EnterFree(c)
       \/ EnterCooling(c)
       \/ Step(c)
       \/ Cancel(c)
       \/ \E r \in Replies : Answer(c, r)

Spec == Init /\ [][Next]_vars

(***************************************************************************)
(* Goroutines that can run do.  The clock and the transport owe nothing,   *)
(* and neither select owes its ctx.Done case anything while its timer is   *)
(* due as well.                                                            *)
(***************************************************************************)
FairSpec == Spec /\ \A c \in Calls : WF_vars(Step(c))

-----------------------------------------------------------------------------
(* Correctness.                                                            *)

\* Every variable keeps its type, those of the bucket included.
TypeOK ==
  /\ BucketTypeOK
  /\ retryAt \in Int
  /\ stage \in [Calls -> LimitStages]
  /\ coolUntil \in [Calls -> Nat]
  /\ reply \in [Calls -> Replies]
  /\ bodyClosed \in [Calls -> BOOLEAN]
  /\ asked \in Nat

\* A request leaves.
Leaves(c) == stage[c] = "limiting" /\ stage'[c] = "sending"

\* A round trip that met a Retry-After window on its way in does not reach the
\* transport before the end of that window, whatever the limiter, the other
\* round trips and their answers do to it meanwhile.
SeenWindowHonoured ==
  [][\A c \in Calls : Leaves(c) => now >= coolUntil[c]]_vars

\* "RespectRetryAfter if true, respects Retry-After header from responses"
\* (RateLimitConfig): no request leaves before the moment until which the
\* servers heard so far asked to wait.
RetryAfterRespected ==
  [][\A c \in Calls : Leaves(c) => now >= asked]_vars

\* The body of a request is closed by the middleware exactly when the request
\* fails without reaching the transport, and such a request holds no token: a
\* token is never spent on a call that does not go out.
ShortCircuitsAreClean ==
  \A c \in Calls :
    /\ bodyClosed[c] <=> stage[c] = "failed"
    /\ stage[c] = "failed" => at[c] # "granted"

\* A canceled caller is not kept waiting, neither for a window nor for a token.
CancellationFreesCaller ==
  \A c \in Calls :
    ctxDone[c] /\ stage[c] \in {"cooling", "limiting"}
      ~> stage[c] \notin {"cooling", "limiting"}
=============================================================================
