-------------------------------- MODULE Chain --------------------------------
(***************************************************************************)
(* A client with the middlewares in the recommended order,                 *)
(*   Logging, Metrics, RateLimit, Retry, CircuitBreaker, transport,        *)
(* and one Client.Do for each element of Ops.                              *)
(*                                                                         *)
(* RateLimit and CircuitBreaker are the modules of those names: an         *)
(* operation is one round trip of the former, and each of its attempts one *)
(* call of the latter.  Retry is its loop; what a single call has to do    *)
(* with bodies and contexts is in module Retry, the total budget in        *)
(* TimeoutRetry.  IsRetryable and IsFailure are the defaults.              *)
(***************************************************************************)
EXTENDS CircuitBreaker, ErrorClass

CONSTANTS
  Ops,                     \* the operations
  MaxAttempts,             \* RetryConfig
  Retriable,               \* the operations for which canRetry holds
  Answers,                 \* what the transport may answer
  Quiet,                   \* the results for which ShouldLog is false
  Unit, CfgRate, CfgBurst, \* of the token bucket
  Blocking, RespectRetryAfter, HintSeconds, HintDates, DurationBits

Attempts == 0..(MaxAttempts - 1)

ASSUME ChainAssumption ==
  /\ MaxAttempts \in Nat \ {0}
  /\ Calls = Ops \X Attempts
  /\ Retriable \subseteq Ops
  /\ TransportOutcomes = Outcomes
  /\ Unit \in Nat \ {0}
  /\ HintSeconds \subseteq Int
  /\ HintDates \subseteq Nat
  /\ ~MayPanic

VARIABLES
  tokens, lastRefill, at, wakeAt, ctxDone, grants, misses,   \* of RateLimit
  retryAt, stage, coolUntil, reply, bodyClosed, asked,
  phase,        \* phase[o]: where o is in Retry, and in Metrics and Logging
  attempt,      \* attempt[o]: the loop variable of Retry
  answers,      \* answers[c]: resp and err of the attempt c
  result,       \* result[o]: what comes out of RateLimit
  openBodies,   \* the request bodies that nobody has closed yet; that of
                \* attempt 0 is the caller's own
  metered,      \* metered[o]: the events that Metrics recorded
  logged,       \* logged[o]: the entries that Logging wrote
  overlapped    \* history: have two operations ever been under way at once?

RL == INSTANCE RateLimit WITH Calls <- Ops

\* A response is its status and its Retry-After; an error has status 0.
RoundTrips == [status : Nat, err : Seq(Layers), hint : RL!Replies]
Failure(e) == [status |-> 0, err |-> e, hint |-> RL!NoHint]
NoAnswer == Failure(<<>>)

ASSUME AnswerAssumption ==
  /\ Answers \subseteq RoundTrips
  /\ \A a \in Answers : a.err # <<>> => WellFormed(a.err)

limiting == <<tokens, lastRefill, at, wakeAt, grants, misses, retryAt, stage,
              coolUntil, reply, bodyClosed, asked>>
breaking == <<breaker, pc, gen, outcome, pending, history>>
retrying == <<phase, attempt, answers>>
reporting == <<result, metered, logged>>
chainVars == <<now, limiting, ctxDone, breaking, retrying, reporting, openBodies,
               overlapped>>

\* "outside" is not in Retry yet; the rest of an operation is in stage and in pc.
Phases == {"outside", "calling", "backoff", "left", "metered", "logged"}

ChainInit ==
  /\ Init
  /\ RL!Init
  /\ phase = [o \in Ops |-> "outside"]
  /\ attempt = [o \in Ops |-> 0]
  /\ answers = [c \in Calls |-> NoAnswer]
  /\ result = [o \in Ops |-> NoAnswer]
  /\ openBodies = Ops \X {0}
  /\ metered = [o \in Ops |-> <<>>]
  /\ logged = [o \in Ops |-> <<>>]
  /\ overlapped = FALSE

UnderWay(o) == stage[o] # "new" /\ phase[o] # "logged"

-----------------------------------------------------------------------------
(* RateLimit.                                                              *)

Enter(o) ==
  /\ RL!EnterFree(o) \/ RL!EnterCooling(o)
  /\ overlapped' = (overlapped \/ \E p \in Ops : UnderWay(p))
  /\ UNCHANGED <<breaking, retrying, reporting, openBodies>>

\* Mutant: every short circuit is reported as a canceled context.
LimitError_Context(o) == <<"canceled">>

\* The error that RateLimit returns when it calls nobody.
LimitError(o) ==
  IF at[o] = "refused" THEN <<"rateLimited">> ELSE <<"canceled">>

\* The steps of RateLimit before it calls Retry and after that has returned.
LimitStep(o) ==
  /\ \/ RL!CoolDownOver(o)
     \/ RL!CoolDownCanceled(o)
     \/ RL!AskLimiter(o)
     \/ RL!Refused(o)
     \/ RL!Record(o)
  /\ result' = IF stage'[o] = "failed" THEN [result EXCEPT ![o] = Failure(LimitError(o))]
                                       ELSE result
  /\ openBodies' = {b \in openBodies : ~(b = <<o, 0>> /\ bodyClosed'[o])}
  /\ UNCHANGED <<breaking, retrying, metered, logged, overlapped>>

\* RateLimit calls Retry.
EnterRetry(o) ==
  /\ RL!Send(o)
  /\ phase' = [phase EXCEPT ![o] = "calling"]
  /\ UNCHANGED <<breaking, attempt, answers, reporting, openBodies, overlapped>>

-----------------------------------------------------------------------------
(* Retry and the circuit breaker.                                          *)

CallOf(o) == <<o, attempt[o]>>

\* Mutant: a rejected request is left to a transport that is never called.
Rejected_Leak(c) == openBodies

\* The breaker closes the body of a request that it rejects.
Rejected(c) == openBodies \ {c}

\* The current attempt asks the breaker.
Admit(o) ==
  /\ phase[o] = "calling"
  /\ TryAdmit(CallOf(o))
  /\ openBodies' = IF pc'[CallOf(o)] = "rejected" THEN Rejected(CallOf(o)) ELSE openBodies
  /\ answers' = [answers EXCEPT ![CallOf(o)] =
                   IF pc'[CallOf(o)] = "rejected" THEN Failure(<<"circuitOpen">>) ELSE @]
  /\ UNCHANGED <<limiting, ctxDone, phase, attempt, reporting, overlapped>>

\* What the predicate of the breaker makes of an answer.
OutcomeOf(a) ==
  IF a.err # <<>>
    THEN IF "IsCanceled" \in Says(a.err) THEN "canceled" ELSE "error"
    ELSE IF a.status >= 500 THEN "response5xx" ELSE "response"

\* The transport owns the body of the request that it was given, and answers.
\* It does not report a cancellation that has not happened.
Transport(o, a) ==
  /\ phase[o] = "calling"
  /\ TransportReturn(CallOf(o), OutcomeOf(a))
  /\ "IsCanceled" \in Says(a.err) => ctxDone[o]
  /\ answers' = [answers EXCEPT ![CallOf(o)] = a]
  /\ openBodies' = openBodies \ {CallOf(o)}
  /\ UNCHANGED <<limiting, ctxDone, phase, attempt, reporting, overlapped>>

BreakerStep(o) ==
  /\ phase[o] = "calling"
  /\ Continue(CallOf(o))
  /\ UNCHANGED <<limiting, ctxDone, retrying, reporting, openBodies, overlapped>>

\* Mutant: the transition is published while Retry goes on.
Returned_Async == {"done", "rejected", "reporting"}

\* The stages of a call in which the breaker has returned to Retry.
Returned == {"done", "rejected"}

\* Mutant: every error is worth another try.
TryAgain_AnyError(o) ==
  LET a == answers[CallOf(o)]
  IN  o \in Retriable /\ (a.err # <<>> \/ DefaultIsRetryable(a.status, a.err))

TryAgain(o) ==
  LET a == answers[CallOf(o)]
  IN  o \in Retriable /\ DefaultIsRetryable(a.status, a.err)

LastAttempt(o) == attempt[o] = MaxAttempts - 1

\* Retry returns a to RateLimit, which looks for a Retry-After.
LeaveRetry(o, a) ==
  /\ phase' = [phase EXCEPT ![o] = "left"]
  /\ result' = [result EXCEPT ![o] = a]
  /\ RL!Answer(o, a.hint)
  /\ UNCHANGED <<breaking, attempt, answers, metered, logged, overlapped>>

Return(o) ==
  /\ phase[o] = "calling"
  /\ pc[CallOf(o)] \in Returned
  /\ ~TryAgain(o) \/ LastAttempt(o)
  /\ LeaveRetry(o, answers[CallOf(o)])
  /\ UNCHANGED openBodies

Backoff(o) ==
  /\ phase[o] = "calling"
  /\ pc[CallOf(o)] \in Returned
  /\ TryAgain(o)
  /\ ~LastAttempt(o)
  /\ phase' = [phase EXCEPT ![o] = "backoff"]
  /\ attempt' = [attempt EXCEPT ![o] = @ + 1]
  /\ UNCHANGED <<now, limiting, ctxDone, breaking, answers, reporting, openBodies,
                 overlapped>>

\* The timer fires, at any time, and GetBody makes another body.  (That GetBody
\* fails is in module Retry.)
BackoffOver(o) ==
  /\ phase[o] = "backoff"
  /\ phase' = [phase EXCEPT ![o] = "calling"]
  /\ openBodies' = openBodies \union {CallOf(o)}
  /\ UNCHANGED <<now, limiting, ctxDone, breaking, attempt, answers, reporting,
                 overlapped>>

\* Mutant: the wait is a time.Sleep.
BackoffCanceled_Deaf(o) == FALSE

BackoffCanceled(o) ==
  /\ phase[o] = "backoff"
  /\ ctxDone[o]
  /\ LeaveRetry(o, Failure(<<"canceled">>))
  /\ openBodies' = openBodies \ {<<o, 0>>}

-----------------------------------------------------------------------------
(* Metrics and Logging.                                                    *)

\* What the layers above RateLimit see.
Answered(o) == stage[o] \in {"returned", "failed"}

\* The kind under which an error is counted, as metrics.md shows.
Event(a) ==
  [status |-> a.status, kind |-> Kind[a.err], success |-> a.err = <<>> /\ a.status < 500]

Meter(o) ==
  /\ Answered(o)
  /\ phase[o] \in {"outside", "left"}
  /\ phase' = [phase EXCEPT ![o] = "metered"]
  /\ metered' = [metered EXCEPT ![o] = Append(@, Event(result[o]))]
  /\ UNCHANGED <<now, limiting, ctxDone, breaking, attempt, answers, result, logged,
                 openBodies, overlapped>>

Log(o) ==
  /\ phase[o] = "metered"
  /\ phase' = [phase EXCEPT ![o] = "logged"]
  /\ logged' = IF result[o] \in Quiet THEN logged
                                      ELSE [logged EXCEPT ![o] = Append(@, result[o])]
  /\ UNCHANGED <<now, limiting, ctxDone, breaking, attempt, answers, result, metered,
                 openBodies, overlapped>>

-----------------------------------------------------------------------------
EndOfContext(o) ==
  /\ ~ctxDone[o]
  /\ ctxDone' = [ctxDone EXCEPT ![o] = TRUE]
  /\ UNCHANGED <<now, limiting, breaking, retrying, reporting, openBodies, overlapped>>

Clock ==
  /\ Tick
  /\ UNCHANGED <<limiting, ctxDone, retrying, reporting, openBodies, overlapped>>

\* What the goroutine of o does by itself.
OwnStep(o) ==
  \/ LimitStep(o)
  \/ EnterRetry(o)
  \/ Admit(o)
  \/ BreakerStep(o)
  \/ Return(o)
  \/ Backoff(o)
  \/ BackoffCanceled(o)
  \/ Meter(o)
  \/ Log(o)

ChainNext ==
  \/ Clock
  \/ \E o \in Ops :
       \/ Enter(o)
       \/ OwnStep(o)
       \/ BackoffOver(o)
       \/ EndOfContext(o)
       \/ \E a \in Answers : Transport(o, a)

ChainSpec == ChainInit /\ [][ChainNext]_chainVars

(***************************************************************************)
(* Goroutines that can run do, and the transport answers.  Nothing is      *)
(* assumed of callers, of their contexts, of the clock, nor of the timers  *)
(* of the backoff.                                                         *)
(***************************************************************************)
ChainFairSpec ==
  /\ ChainSpec
  /\ \A o \in Ops : WF_chainVars(OwnStep(o) \/ \E a \in Answers : Transport(o, a))

-----------------------------------------------------------------------------
(* Correctness.                                                            *)

\* When an operation is over, every request body it had, its own and those made
\* for its attempts, has gone to the transport or been closed by the layer that
\* stopped the request, whichever of them that was.
BodiesReleased ==
  \A o \in Ops : phase[o] \in {"left", "metered", "logged"} \/ stage[o] = "failed" =>
    \A k \in Attempts : <<o, k>> \notin openBodies

\* Only a failure that may pass is retried: an operation that the breaker refused,
\* or that met an error whose root is final, makes no further attempt, so a
\* circuit that opens cuts the attempts of everybody who is in the middle of them.
\* Of a root that Classify knows nothing of, a connection must have met it.
OnlyTransientRetried ==
  \A o \in Ops : \A k \in 0..(attempt[o] - 1) :
    LET a == answers[<<o, k>>]
    IN  IF a.err = <<>> THEN a.status \in {429, 502, 503, 504}
                        ELSE \/ Root(a.err) \in Transient
                             \/ Root(a.err) = "opaque" /\ Has(a.err, {"opConnect"})

\* "It observes the final outcome of the whole exchange, including retries and
\* circuit-breaker short-circuits, as a single entry" (logging.md); and refusals
\* "classify as circuit_open and rate_limited" (metrics.md): an operation leaves
\* one event and, unless ShouldLog declines it, one entry, which agree with what
\* the last layer that acted on it did; no attempt leaves any.
ReportedOnce ==
  \A o \in Ops :
    LET kind == CASE stage[o] = "failed" /\ at[o] = "refused" -> "rate_limited"
                  [] pc[CallOf(o)] = "rejected" -> "circuit_open"
                  [] OTHER -> Kind[result[o].err]
    IN  /\ Len(metered[o]) = IF phase[o] \in {"metered", "logged"} THEN 1 ELSE 0
        /\ metered[o] # <<>> =>
             /\ metered[o][1].kind = kind
             /\ metered[o][1].success =>
                  pc[CallOf(o)] = "done" /\ outcome[CallOf(o)] = "response"
        /\ phase[o] = "logged" /\ result[o] \notin Quiet => logged[o] = <<result[o]>>
        /\ phase[o] # "logged" \/ result[o] \in Quiet => logged[o] = <<>>

\* An operation whose context is done ends, in whatever layer it is: in a
\* Retry-After window, waiting for a token, in the transport or in a backoff.
CanceledOperationsEnd ==
  \A o \in Ops : ctxDone[o] /\ UnderWay(o) ~> phase[o] = "logged"

\* "Transitions are published in order for a single request stream" (circuit-
\* breaker.md): as long as operations have not overlapped, retries included.
StreamPublishesInOrder == ~overlapped => PublishedInOrder

\* "RespectRetryAfter if true, respects Retry-After header from responses", for a
\* client that runs one operation at a time.
StreamRespectsRetryAfter ==
  [][~overlapped => \A o \in Ops : RL!Leaves(o) => now >= asked]_chainVars
=============================================================================
