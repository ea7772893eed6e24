-------------------------------- MODULE Retry --------------------------------
(***************************************************************************)
(* One RoundTrip through the retry middleware of retry.go.                 *)
(*                                                                         *)
(* The middleware runs on the caller's goroutine.  What can happen around  *)
(* it at any moment is that the caller's context ends, that a backoff      *)
(* timer fires, and whatever the next RoundTripper answers.  What it must  *)
(* keep straight are the things each attempt opens: a request body, a      *)
(* context with its timer, and a response body.                            *)
(*                                                                         *)
(* Attempts are numbered from 0, as in the code; body 0 is the caller's    *)
(* own, body k > 0 the one GetBody made for attempt k.                     *)
(***************************************************************************)
EXTENDS Integers, FiniteSets

CONSTANTS
  CfgMaxAttempts,      \* RetryConfig
  AttemptTimeout,      \* is cfg.AttemptTimeout positive?
  RetryAllMethods

ASSUME RetryAssumption ==
  /\ CfgMaxAttempts \in Int
  /\ AttemptTimeout \in BOOLEAN
  /\ RetryAllMethods \in BOOLEAN

MaxAttempts == IF CfgMaxAttempts <= 0 THEN 3 ELSE CfgMaxAttempts

Attempts == 0..(MaxAttempts - 1)

(***************************************************************************)
(* The requests: whether the method is idempotent, and what their body is: *)
(* none, one that GetBody can replay, or one that can be sent only once.   *)
(***************************************************************************)
Requests == [idempotent : BOOLEAN, body : {"none", "replayable", "oneShot"}]

(***************************************************************************)
(* What next.RoundTrip may answer: a response with a body or without one,  *)
(* or an error, and whether cfg.IsRetryable is true of it.                 *)
(***************************************************************************)
Answers == [form : {"response", "bare", "error"}, retryable : BOOLEAN]

-----------------------------------------------------------------------------
VARIABLES
  request,     \* the request, chosen at the start
  pc,          \* where the call is
  attempt,     \* the loop variable
  answer,      \* resp and err
  ctxDone,     \* is the caller's context done?
  timerFired,  \* has the backoff timer fired?
  reqBody,     \* reqBody[k]: the request body of attempt k
  attemptCtx,  \* attemptCtx[k]: the context WithTimeout made for attempt k
  respBody,    \* respBody[k]: the body of the response to attempt k
  sends        \* history: how often each request body was handed to next

vars == <<request, pc, attempt, answer, ctxDone, timerFired, reqBody,
          attemptCtx, respBody, sends>>

PCs == {"start", "backoff", "prepare", "attempt", "judge", "returned", "failed"}
BodyStates == {"absent", "open", "handed", "closed"}

Finished == pc \in {"returned", "failed"}

Init ==
  /\ request \in Requests
  /\ pc = "start"
  /\ attempt = 0
  /\ answer = [form |-> "error", retryable |-> FALSE]
  /\ ctxDone \in BOOLEAN
  /\ timerFired = FALSE
  /\ reqBody = [k \in Attempts |->
                  IF k = 0 /\ request.body # "none" THEN "open" ELSE "absent"]
  /\ attemptCtx = [k \in Attempts |-> "none"]
  /\ respBody = [k \in Attempts |-> "absent"]
  /\ sends = [k \in Attempts |-> 0]

-----------------------------------------------------------------------------
\* Mutant: idempotent methods are retried whatever their body.
CanRetry_AnyBody == RetryAllMethods \/ request.idempotent

CanRetry ==
  /\ RetryAllMethods \/ request.idempotent
  /\ request.body # "oneShot"

\* The body with which attempt k goes out: its own when GetBody made one, or
\* the one that Clone shares with the original request.
BodyOf(k) == IF request.body = "replayable" THEN k ELSE 0

\* closeRequestBody of the original request: closing twice is harmless.
OriginalClosed ==
  [reqBody EXCEPT ![0] = IF @ = "absent" THEN @ ELSE "closed"]

\* attempt: the context is derived and next.RoundTrip called, which owns the
\* request body from here on and closes it.
StartAttempt(k) ==
  /\ pc' = "attempt"
  /\ attemptCtx' = [attemptCtx EXCEPT ![k] = IF AttemptTimeout THEN "live" ELSE @]

HandBody(k, bodies) ==
  /\ reqBody' = [bodies EXCEPT ![BodyOf(k)] = IF @ = "absent" THEN @ ELSE "handed"]
  /\ sends' = [sends EXCEPT ![BodyOf(k)] = @ + 1]

Begin ==
  /\ pc = "start"
  /\ StartAttempt(0)
  /\ HandBody(0, reqBody)
  /\ UNCHANGED <<request, attempt, answer, ctxDone, timerFired, respBody>>

\* Mutant: a response without a body is taken for one with a body.
Answer_KeepsBare(a) ==
  /\ pc = "attempt"
  /\ answer' = a
  /\ respBody' = [respBody EXCEPT ![attempt] = IF a.form = "response" THEN "open" ELSE @]
  /\ attemptCtx' = [attemptCtx EXCEPT ![attempt] =
       IF AttemptTimeout /\ a.form = "error" THEN "canceled" ELSE @]
  /\ pc' = "judge"
  /\ UNCHANGED <<request, attempt, ctxDone, timerFired, reqBody, sends>>

\* next.RoundTrip answers: attempt cancels the context at once when no body
\* will be read under it, and otherwise leaves it to the body (cancelBody).
Answer(a) ==
  /\ pc = "attempt"
  /\ answer' = a
  /\ respBody' = [respBody EXCEPT ![attempt] = IF a.form = "response" THEN "open" ELSE @]
  /\ attemptCtx' = [attemptCtx EXCEPT ![attempt] =
       IF AttemptTimeout /\ a.form # "response" THEN "canceled" ELSE @]
  /\ pc' = "judge"
  /\ UNCHANGED <<request, attempt, ctxDone, timerFired, reqBody, sends>>

TryAgain == CanRetry /\ answer.retryable

\* Mutant: the loop counts from 0 to MaxAttempts.
LastAttempt_OneMore == attempt = MaxAttempts

LastAttempt == attempt = MaxAttempts - 1

\* Closing a response body closes the transport's and releases the context.
CloseResponse(k) ==
  /\ respBody' = [respBody EXCEPT ![k] = IF @ = "open" THEN "closed" ELSE @]
  /\ attemptCtx' = [attemptCtx EXCEPT ![k] = IF @ = "live" THEN "canceled" ELSE @]

\* Mutant: every retryable response is drained, the last one too.
Return_Drained ==
  /\ pc = "judge"
  /\ ~TryAgain \/ LastAttempt
  /\ pc' = "returned"
  /\ IF TryAgain THEN CloseResponse(attempt) ELSE UNCHANGED <<respBody, attemptCtx>>
  /\ UNCHANGED <<request, attempt, answer, ctxDone, timerFired, reqBody, sends>>

\* The answer goes to the caller: there is no retrying it, or no attempt left.
Return ==
  /\ pc = "judge"
  /\ ~TryAgain \/ LastAttempt
  /\ pc' = "returned"
  /\ UNCHANGED <<request, attempt, answer, ctxDone, timerFired, reqBody,
                 attemptCtx, respBody, sends>>

\* Mutant: the drained response is left open.
DrainAndWait_NoClose ==
  /\ pc = "judge"
  /\ TryAgain
  /\ ~LastAttempt
  /\ attempt' = attempt + 1
  /\ timerFired' = FALSE
  /\ pc' = "backoff"
  /\ UNCHANGED <<request, answer, ctxDone, reqBody, attemptCtx, respBody, sends>>

\* Mutant: the next body is made before the wait.
DrainAndWait_PreparesFirst ==
  /\ pc = "judge"
  /\ TryAgain
  /\ ~LastAttempt
  /\ CloseResponse(attempt)
  /\ attempt' = attempt + 1
  /\ timerFired' = FALSE
  /\ pc' = "backoff"
  /\ reqBody' = [reqBody EXCEPT ![attempt + 1] =
                   IF request.body = "replayable" THEN "open" ELSE @]
  /\ UNCHANGED <<request, answer, ctxDone, sends>>

\* drainAndClose, then the timer of waitBackoff starts.
DrainAndWait ==
  /\ pc = "judge"
  /\ TryAgain
  /\ ~LastAttempt
  /\ CloseResponse(attempt)
  /\ attempt' = attempt + 1
  /\ timerFired' = FALSE
  /\ pc' = "backoff"
  /\ UNCHANGED <<request, answer, ctxDone, reqBody, sends>>

\* The select of waitBackoff: either case is taken when both are ready.
BackoffOver ==
  /\ pc = "backoff"
  /\ timerFired
  /\ pc' = "prepare"
  /\ UNCHANGED <<request, attempt, answer, ctxDone, timerFired, reqBody,
                 attemptCtx, respBody, sends>>

Fail ==
  /\ reqBody' = OriginalClosed
  /\ pc' = "failed"
  /\ UNCHANGED <<request, attempt, answer, ctxDone, timerFired, attemptCtx,
                 respBody, sends>>

\* Mutant: waitBackoff sleeps.
BackoffCanceled_Deaf == FALSE

BackoffCanceled ==
  /\ pc = "backoff"
  /\ ctxDone
  /\ Fail

\* prepareRequest and attempt for attempt > 0.
Again ==
  /\ pc = "prepare"
  /\ StartAttempt(attempt)
  /\ HandBody(attempt, [reqBody EXCEPT ![attempt] =
                          IF request.body = "replayable" THEN "open" ELSE @])
  /\ UNCHANGED <<request, attempt, answer, ctxDone, timerFired, respBody>>

GetBodyFails ==
  /\ pc = "prepare"
  /\ request.body = "replayable"
  /\ Fail

-----------------------------------------------------------------------------
(* Around the middleware.                                                  *)

EndContext ==
  /\ ~ctxDone
  /\ ctxDone' = TRUE
  /\ UNCHANGED <<request, pc, attempt, answer, timerFired, reqBody, attemptCtx,
                 respBody, sends>>

FireTimer ==
  /\ pc = "backoff"
  /\ ~timerFired
  /\ timerFired' = TRUE
  /\ UNCHANGED <<request, pc, attempt, answer, ctxDone, reqBody, attemptCtx,
                 respBody, sends>>

\* The caller closes the response it got.
CallerCloses ==
  /\ pc = "returned"
  /\ respBody[attempt] = "open"
  /\ CloseResponse(attempt)
  /\ UNCHANGED <<request, pc, attempt, answer, ctxDone, timerFired, reqBody, sends>>

\* What the goroutine of the caller does by itself in the middleware.
OwnStep ==
  \/ Begin
  \/ Return
  \/ DrainAndWait
  \/ BackoffOver
  \/ BackoffCanceled
  \/ Again
  \/ GetBodyFails

\* RoundTrip, with what it waits for.
RoundTripStep ==
  \/ OwnStep
  \/ \E a \in Answers : Answer(a)
  \/ FireTimer

Next ==
  \/ RoundTripStep
  \/ EndContext
  \/ CallerCloses

Spec == Init /\ [][Next]_vars

-----------------------------------------------------------------------------
(* Correctness.                                                            *)

\* Every variable keeps its type.
TypeOK ==
  /\ request \in Requests
  /\ pc \in PCs
  /\ attempt \in Attempts
  /\ answer \in Answers
  /\ ctxDone \in BOOLEAN
  /\ timerFired \in BOOLEAN
  /\ reqBody \in [Attempts -> BodyStates]
  /\ attemptCtx \in [Attempts -> {"none", "live", "canceled"}]
  /\ respBody \in [Attempts -> {"absent", "open", "closed"}]
  /\ sends \in [Attempts -> Nat]

\* No request body goes to the transport twice unless it is no body at all, so
\* nothing is ever resent from a reader that has been read; and a request that
\* may not be retried goes out once.
NothingSentTwice ==
  /\ request.body # "none" => \A k \in Attempts : sends[k] <= 1
  /\ ~CanRetry => attempt = 0

\* When the call is over, however it ended, every request body was given to
\* the transport or closed: the caller's own and those GetBody made.
NoRequestBodyLeaks ==
  Finished => \A k \in Attempts : reqBody[k] # "open"

\* At most one response is open, that of the latest attempt, and none while
\* the middleware waits for another or once it has failed: connections are
\* given back before the backoff, not after it.
OneResponseOpen ==
  /\ \A k \in Attempts : respBody[k] = "open" => k = attempt
  /\ pc \in {"backoff", "prepare", "failed"} => \A k \in Attempts : respBody[k] # "open"

\* The context of an attempt lives exactly as long as it is needed: through
\* its RoundTrip and then until its response body is closed, by the middleware
\* or by the caller.  No timer outlives the call and none cuts off the body
\* that the caller is reading.
ContextsFollowBodies ==
  \A k \in Attempts :
    attemptCtx[k] = "live" <=>
      AttemptTimeout /\ (respBody[k] = "open" \/ (pc = "attempt" /\ k = attempt))

\* The caller gets a response it can read, the one of the last attempt when
\* every attempt was retryable: that one alone is not drained.
ReturnedResponseReadable ==
  [][pc # "returned" /\ pc' = "returned" /\ answer.form = "response" =>
       respBody'[attempt] = "open" /\ attemptCtx'[attempt] # "canceled"]_vars

\* "Context cancellation always wins: a canceled request is never retried,
\* including during a backoff wait" (web/docs/resiliency/retry.md).
CanceledNeverRetried ==
  [][pc = "backoff" /\ pc' = "prepare" => ~ctxDone]_vars
=============================================================================
