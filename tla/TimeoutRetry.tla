---------------------------- MODULE TimeoutRetry ----------------------------
(***************************************************************************)
(* The Timeout middleware of timeout.go around the retry middleware: the   *)
(* "total budget" wiring, Timeout -> Retry.                                *)
(*                                                                         *)
(* Timeout derives the context under which Retry and all its attempts run, *)
(* and the contexts of the attempts derive from that one.  A response that *)
(* is handed up is wrapped once by the attempt and once more by Timeout, so*)
(* that one Close by the caller releases both, the inner one first.        *)
(*                                                                         *)
(* The clock is left out: a deadline passes when EndContext says so.       *)
(***************************************************************************)
EXTENDS Retry

VARIABLES
  stage,     \* where the call is in Timeout's RoundTrip
  budget     \* the context that WithTimeout made there

layer == <<stage, budget>>
tvars == <<vars, layer>>

TInit ==
  /\ Init
  /\ stage = "outside"
  /\ budget = "none"

\* A caller whose own deadline is no later is passed through; so is everybody
\* when the duration is not positive.
StepAside ==
  /\ stage = "outside"
  /\ stage' = "inside"
  /\ UNCHANGED <<vars, budget>>

SetDeadline ==
  /\ stage = "outside"
  /\ stage' = "inside"
  /\ budget' = "live"
  /\ UNCHANGED vars

\* next.RoundTrip, which is Retry.
Inside ==
  /\ stage = "inside"
  /\ RoundTripStep
  /\ UNCHANGED layer

\* Mutant: cancel is deferred.
Leave_Defer ==
  /\ stage = "inside"
  /\ Finished
  /\ stage' = "left"
  /\ budget' = IF budget = "live" THEN "canceled" ELSE budget
  /\ UNCHANGED vars

\* An error or a response without a body releases the context; otherwise it
\* goes with the body.
Leave ==
  /\ stage = "inside"
  /\ Finished
  /\ stage' = "left"
  /\ budget' = IF budget = "live" /\ (pc = "failed" \/ answer.form # "response")
                 THEN "canceled" ELSE budget
  /\ UNCHANGED vars

\* cancelBody.Close: the body it wraps first, then its own context.
CloseBoth ==
  /\ stage = "left"
  /\ CallerCloses
  /\ budget' = IF budget = "live" THEN "canceled" ELSE budget
  /\ UNCHANGED stage

TNext ==
  \/ StepAside
  \/ SetDeadline
  \/ Inside
  \/ Leave
  \/ CloseBoth
  \/ EndContext /\ UNCHANGED layer

TSpec == TInit /\ [][TNext]_tvars

(***************************************************************************)
(* The goroutine of the caller runs, and the transport answers a request   *)
(* whose context is done, as net/http's does.  Nothing is assumed of the   *)
(* backoff timer, which may be set to hours, of a transport whose context  *)
(* is not done, nor of the caller.                                         *)
(***************************************************************************)
TFairSpec ==
  /\ TSpec
  /\ WF_tvars(StepAside \/ SetDeadline)
  /\ WF_tvars(Inside /\ OwnStep)
  /\ WF_tvars(Inside /\ ctxDone /\ \E a \in Answers : Answer(a))
  /\ WF_tvars(Leave)

-----------------------------------------------------------------------------
(* Correctness.                                                            *)

\* The budget covers every attempt, every backoff and the reading of the body,
\* and is released on every way out: its context lives until the call has
\* failed, or has answered without a body, or the caller has closed the body;
\* and no caller ever holds an open body under a context that was canceled.
BudgetCoversExchange ==
  /\ budget = "live" =>
       \/ stage = "inside"
       \/ stage = "left" /\ respBody[attempt] = "open"
  /\ budget = "canceled" =>
       stage = "left" /\ \A k \in Attempts : respBody[k] # "open" /\ attemptCtx[k] # "live"

\* Once its context is done, by the budget, by the deadline of the caller or by
\* cancellation, a call ends without waiting for a backoff timer: whatever the
\* select takes when both are ready, it cannot keep retrying.
DoneCallsEnd == (ctxDone /\ stage = "inside") ~> stage = "left"
=============================================================================
