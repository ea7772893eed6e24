----------------------------- MODULE RetryProofs -----------------------------
(***************************************************************************)
(* Theorems about Retry, alone and inside a Timeout, for every number of   *)
(* attempts, with and without a timeout per attempt.                       *)
(***************************************************************************)
EXTENDS TimeoutRetry, TLAPS

LEMMA AtLeastOneAttempt == MaxAttempts \in Nat \ {0} /\ 0 \in Attempts /\ Attempts \subseteq Nat
BY RetryAssumption DEF MaxAttempts, Attempts

-----------------------------------------------------------------------------
(* The inductive invariant.                                                *)

\* The attempt k has not gone out.
NotYet(k) == k > attempt \/ (k = attempt /\ pc \in {"start", "backoff", "prepare"})

\* What is open: a response that has just come in or been returned, and before
\* the start the request body of the caller.
OpenThings ==
  /\ \A k \in Attempts :
       /\ respBody[k] = "open" => k = attempt /\ pc \in {"judge", "returned"}
       /\ reqBody[k] = "open" => k = 0 /\ pc = "start"
       /\ attemptCtx[k] # "none" => AttemptTimeout
  /\ pc = "judge" /\ answer.form = "response" => respBody[attempt] = "open"
  /\ pc \in {"judge", "returned"} /\ answer.form # "response" => respBody[attempt] # "open"

\* There is a second attempt only of what may be retried, and a body that has
\* not gone out has not been handed to anybody.
Handed ==
  /\ attempt > 0 => CanRetry
  /\ pc = "start" => attempt = 0
  /\ pc \in {"backoff", "prepare"} => CanRetry
  /\ request.body # "none" =>
       \A k \in Attempts : sends[k] <= 1 /\ (NotYet(k) => sends[k] = 0)

RetryInv == TypeOK /\ OpenThings /\ ContextsFollowBodies /\ Handed

\* The invariants that the runs check follow from it.
LEMMA InvImplies ==
  RetryInv => NothingSentTwice /\ NoRequestBodyLeaks /\ OneResponseOpen
BY DEF RetryInv, OpenThings, Handed, TypeOK, NothingSentTwice, NoRequestBodyLeaks,
       OneResponseOpen, Finished, Attempts

LEMMA InitInv == Init => RetryInv
<1> SUFFICES ASSUME Init PROVE RetryInv
  OBVIOUS
<1>1. TypeOK
  BY AtLeastOneAttempt DEF Init, TypeOK, PCs, BodyStates, Answers
<1>2. OpenThings /\ ContextsFollowBodies
  BY DEF Init, OpenThings, ContextsFollowBodies
<1>3. Handed
  BY AtLeastOneAttempt DEF Init, Handed
<1> QED
  BY <1>1, <1>2, <1>3 DEF RetryInv

-----------------------------------------------------------------------------
(* One lemma for each part of the invariant, one step for each action.     *)

\* Handing a body over changes the entry of one attempt.
LEMMA HandBodyTyped ==
  ASSUME TypeOK, NEW k \in Attempts, NEW bodies \in [Attempts -> BodyStates],
         HandBody(k, bodies)
  PROVE  /\ reqBody' \in [Attempts -> BodyStates]
         /\ sends' \in [Attempts -> Nat]
         /\ \A j \in Attempts :
              reqBody'[j] = IF j = BodyOf(k) /\ bodies[j] # "absent" THEN "handed" ELSE bodies[j]
         /\ \A j \in Attempts : sends'[j] = IF j = BodyOf(k) THEN sends[j] + 1 ELSE sends[j]
<1> DEFINE b == BodyOf(k)
<1>1. b \in Attempts
  BY AtLeastOneAttempt DEF BodyOf
<1>2. /\ reqBody' = [bodies EXCEPT ![b] = IF @ = "absent" THEN @ ELSE "handed"]
      /\ sends' = [sends EXCEPT ![b] = @ + 1]
  BY DEF HandBody
<1> HIDE DEF b
<1>3. sends \in [Attempts -> Nat] /\ "handed" \in BodyStates
  BY DEF TypeOK, BodyStates
<1>4. /\ reqBody' \in [Attempts -> BodyStates]
      /\ \A j \in Attempts :
           reqBody'[j] = IF j = b /\ bodies[j] # "absent" THEN "handed" ELSE bodies[j]
  BY <1>1, <1>2, <1>3
<1>5. /\ sends' \in [Attempts -> Nat]
      /\ \A j \in Attempts : sends'[j] = IF j = b THEN sends[j] + 1 ELSE sends[j]
  BY <1>1, <1>2, <1>3
<1> QED
  BY <1>4, <1>5 DEF b

\* The bodies from which attempt k takes its own.
Prepared(k) ==
  [reqBody EXCEPT ![k] = IF request.body = "replayable" THEN "open" ELSE @]

LEMMA PreparedTyped ==
  ASSUME TypeOK, NEW k \in Attempts
  PROVE  Prepared(k) \in [Attempts -> BodyStates]
BY DEF Prepared, TypeOK, BodyStates

LEMMA TypePreserved == TypeOK /\ [Next]_vars => TypeOK'
<1> SUFFICES ASSUME TypeOK, [Next]_vars PROVE TypeOK'
  OBVIOUS
<1> USE AtLeastOneAttempt DEF TypeOK, PCs, BodyStates
<1>2. CASE Begin
  <2>1. reqBody' \in [Attempts -> BodyStates] /\ sends' \in [Attempts -> Nat]
    BY <1>2, HandBodyTyped DEF Begin
  <2> QED
    BY <1>2, <2>1 DEF Begin, StartAttempt
<1>3. ASSUME NEW a \in Answers, Answer(a) PROVE TypeOK'
  BY <1>3 DEF Answer
<1>4. CASE Return
  BY <1>4 DEF Return
<1>5. CASE DrainAndWait
  <2>1. attempt + 1 \in Attempts
    BY <1>5 DEF DrainAndWait, LastAttempt, Attempts
  <2> QED
    BY <1>5, <2>1 DEF DrainAndWait, CloseResponse
<1>6. CASE BackoffOver
  BY <1>6 DEF BackoffOver
<1>7. CASE BackoffCanceled
  BY <1>7 DEF BackoffCanceled, Fail, OriginalClosed
<1>8. CASE Again
  <2>1. HandBody(attempt, Prepared(attempt))
    BY <1>8 DEF Again, Prepared
  <2>2. reqBody' \in [Attempts -> BodyStates] /\ sends' \in [Attempts -> Nat]
    BY <2>1, HandBodyTyped, PreparedTyped
  <2> QED
    BY <1>8, <2>2 DEF Again, StartAttempt
<1>9. CASE GetBodyFails
  BY <1>9 DEF GetBodyFails, Fail, OriginalClosed
<1>10. CASE FireTimer
  BY <1>10 DEF FireTimer
<1>11. CASE EndContext
  BY <1>11 DEF EndContext
<1>12. CASE CallerCloses
  BY <1>12 DEF CallerCloses, CloseResponse
<1>13. CASE UNCHANGED vars
  BY <1>13 DEF vars
<1> QED
  BY <1>2, <1>3, <1>4, <1>5, <1>6, <1>7, <1>8, <1>9, <1>10, <1>11, <1>12, <1>13
     DEF Next, RoundTripStep, OwnStep

LEMMA OpenPreserved == RetryInv /\ [Next]_vars => OpenThings'
<1> SUFFICES ASSUME RetryInv, [Next]_vars PROVE OpenThings'
  OBVIOUS
<1> USE AtLeastOneAttempt DEF RetryInv, TypeOK, OpenThings
<1>2. CASE Begin
  <2>1. \A j \in Attempts : reqBody[j] = "open" => j = 0
    OBVIOUS
  <2>2. \A j \in Attempts : reqBody'[j] # "open"
    BY <1>2, <2>1, HandBodyTyped DEF Begin, BodyOf
  <2> QED
    BY <1>2, <2>2 DEF Begin, StartAttempt
<1>3. ASSUME NEW a \in Answers, Answer(a) PROVE OpenThings'
  BY <1>3 DEF Answer
<1>4. CASE Return
  BY <1>4 DEF Return
<1>5. CASE DrainAndWait
  BY <1>5 DEF DrainAndWait, CloseResponse
<1>6. CASE BackoffOver
  BY <1>6 DEF BackoffOver
<1>7. CASE BackoffCanceled
  BY <1>7 DEF BackoffCanceled, Fail, OriginalClosed
<1>8. CASE Again
  BY <1>8 DEF Again, StartAttempt, HandBody, BodyOf
<1>9. CASE GetBodyFails
  BY <1>9 DEF GetBodyFails, Fail, OriginalClosed
<1>10. CASE FireTimer
  BY <1>10 DEF FireTimer
<1>11. CASE EndContext
  BY <1>11 DEF EndContext
<1>12. CASE CallerCloses
  BY <1>12 DEF CallerCloses, CloseResponse
<1>13. CASE UNCHANGED vars
  BY <1>13 DEF vars
<1> QED
  BY <1>2, <1>3, <1>4, <1>5, <1>6, <1>7, <1>8, <1>9, <1>10, <1>11, <1>12, <1>13
     DEF Next, RoundTripStep, OwnStep

LEMMA ContextsPreserved == RetryInv /\ [Next]_vars => ContextsFollowBodies'
<1> SUFFICES ASSUME RetryInv, [Next]_vars PROVE ContextsFollowBodies'
  OBVIOUS
<1> USE AtLeastOneAttempt DEF RetryInv, TypeOK, OpenThings, ContextsFollowBodies
<1>2. CASE Begin
  BY <1>2 DEF Begin, StartAttempt, Handed
<1>3. ASSUME NEW a \in Answers, Answer(a) PROVE ContextsFollowBodies'
  BY <1>3 DEF Answer
<1>4. CASE Return
  BY <1>4 DEF Return
<1>5. CASE DrainAndWait
  BY <1>5 DEF DrainAndWait, CloseResponse
<1>6. CASE BackoffOver
  BY <1>6 DEF BackoffOver
<1>7. CASE BackoffCanceled
  BY <1>7 DEF BackoffCanceled, Fail
<1>8. CASE Again
  BY <1>8 DEF Again, StartAttempt
<1>9. CASE GetBodyFails
  BY <1>9 DEF GetBodyFails, Fail
<1>10. CASE FireTimer
  BY <1>10 DEF FireTimer
<1>11. CASE EndContext
  BY <1>11 DEF EndContext
<1>12. CASE CallerCloses
  BY <1>12 DEF CallerCloses, CloseResponse
<1>13. CASE UNCHANGED vars
  BY <1>13 DEF vars
<1> QED
  BY <1>2, <1>3, <1>4, <1>5, <1>6, <1>7, <1>8, <1>9, <1>10, <1>11, <1>12, <1>13
     DEF Next, RoundTripStep, OwnStep

LEMMA HandedPreserved == RetryInv /\ [Next]_vars => Handed'
<1> SUFFICES ASSUME RetryInv, [Next]_vars PROVE Handed'
  OBVIOUS
<1> USE AtLeastOneAttempt DEF RetryInv, TypeOK, Handed, NotYet, CanRetry
<1>2. CASE Begin
  BY <1>2 DEF Begin, StartAttempt, HandBody, BodyOf
<1>3. ASSUME NEW a \in Answers, Answer(a) PROVE Handed'
  BY <1>3 DEF Answer
<1>4. CASE Return
  BY <1>4 DEF Return
<1>5. CASE DrainAndWait
  BY <1>5 DEF DrainAndWait, TryAgain
<1>6. CASE BackoffOver
  BY <1>6 DEF BackoffOver
<1>7. CASE BackoffCanceled
  BY <1>7 DEF BackoffCanceled, Fail
<1>8. CASE Again
  BY <1>8 DEF Again, StartAttempt, HandBody, BodyOf, Requests
<1>9. CASE GetBodyFails
  BY <1>9 DEF GetBodyFails, Fail
<1>10. CASE FireTimer
  BY <1>10 DEF FireTimer
<1>11. CASE EndContext
  BY <1>11 DEF EndContext
<1>12. CASE CallerCloses
  BY <1>12 DEF CallerCloses
<1>13. CASE UNCHANGED vars
  BY <1>13 DEF vars
<1> QED
  BY <1>2, <1>3, <1>4, <1>5, <1>6, <1>7, <1>8, <1>9, <1>10, <1>11, <1>12, <1>13
     DEF Next, RoundTripStep, OwnStep

LEMMA Inductive == RetryInv /\ [Next]_vars => RetryInv'
<1>1. RetryInv => TypeOK
  BY DEF RetryInv
<1> QED
  BY <1>1, TypePreserved, OpenPreserved, ContextsPreserved, HandedPreserved DEF RetryInv

\* The inductive invariant holds for every number of attempts.
THEOREM RetryInvariant == Spec => []RetryInv
BY InitInv, Inductive, PTL DEF Spec

\* Every variable of a retried call keeps its type; the loop never runs past
\* MaxAttempts.
THEOREM RetryTypeCorrect == Spec => []TypeOK
<1>1. RetryInv => TypeOK
  BY DEF RetryInv
<1> QED
  BY <1>1, RetryInvariant, PTL

\* No body is sent twice, and what may not be retried is not.
THEOREM NothingIsSentTwice == Spec => []NothingSentTwice
BY InvImplies, RetryInvariant, PTL

\* Every request body is handed over or closed by the time the call is over.
THEOREM RequestBodiesDoNotLeak == Spec => []NoRequestBodyLeaks
BY InvImplies, RetryInvariant, PTL

\* A response is closed before the next attempt is waited for.
THEOREM OneResponseAtATime == Spec => []OneResponseOpen
BY InvImplies, RetryInvariant, PTL

\* The context of an attempt lives exactly through its RoundTrip and the reading
\* of its body.
THEOREM ContextsAreReleased == Spec => []ContextsFollowBodies
<1>1. RetryInv => ContextsFollowBodies
  BY DEF RetryInv
<1> QED
  BY <1>1, RetryInvariant, PTL

\* A response that RoundTrip returns can be read.
THEOREM ResponsesAreReadable == Spec => ReturnedResponseReadable
<1> DEFINE Readable ==
      pc # "returned" /\ pc' = "returned" /\ answer.form = "response" =>
        respBody'[attempt] = "open" /\ attemptCtx'[attempt] # "canceled"
<1>1. ASSUME RetryInv, Next PROVE Readable
  <2>1. CASE Return
    <3>1. /\ pc = "judge" /\ UNCHANGED <<respBody, attemptCtx>>
          /\ attempt \in Attempts
          /\ attemptCtx[attempt] \in {"none", "live", "canceled"}
      BY <1>1, <2>1 DEF Return, RetryInv, TypeOK
    <3>2. answer.form = "response" => respBody[attempt] = "open"
      BY <1>1, <3>1 DEF RetryInv, OpenThings
    <3>3. answer.form = "response" => attemptCtx[attempt] # "canceled"
      BY <1>1, <3>1, <3>2 DEF RetryInv, OpenThings, ContextsFollowBodies
    <3> QED
      BY <3>1, <3>2, <3>3
  <2>2. CASE ~Return
    <3>1. pc' = "returned" => pc = "returned"
      BY <1>1, <2>2 DEF Next, RoundTripStep, OwnStep, Begin, StartAttempt, Answer,
         DrainAndWait, BackoffOver, BackoffCanceled, Fail, Again, GetBodyFails,
         FireTimer, EndContext, CallerCloses
    <3> QED
      BY <3>1
  <2> QED
    BY <2>1, <2>2
<1>2. RetryInv /\ [Next]_vars => [Readable]_vars
  BY <1>1
<1> QED
  BY <1>2, RetryInvariant, PTL DEF Spec, ReturnedResponseReadable

-----------------------------------------------------------------------------
(* The budget of a Timeout around Retry.                                   *)

\* What Timeout knows of the call inside it.
LayerInv ==
  /\ stage \in {"outside", "inside", "left"}
  /\ budget \in {"none", "live", "canceled"}
  /\ stage = "outside" => budget = "none" /\ pc = "start"
  /\ stage = "left" => Finished
  /\ stage = "inside" /\ pc = "returned" /\ answer.form = "response"
       => respBody[attempt] = "open"

BudgetInv == RetryInv /\ LayerInv /\ BudgetCoversExchange

LEMMA InitBudget == TInit => BudgetInv
BY InitInv DEF TInit, BudgetInv, LayerInv, BudgetCoversExchange, Init

\* Under Timeout, Retry does nothing that it does not do alone.
LEMMA TimeoutStepsRetry == TNext => [Next]_vars
BY DEF TNext, StepAside, SetDeadline, Inside, Leave, CloseBoth, Next

LEMMA NextBudget == BudgetInv /\ [TNext]_tvars => BudgetInv'
<1> SUFFICES ASSUME BudgetInv, [TNext]_tvars PROVE BudgetInv'
  OBVIOUS
<1>0. RetryInv' /\ RetryInv /\ attempt \in Attempts
  BY TimeoutStepsRetry, Inductive DEF BudgetInv, tvars, RetryInv, TypeOK
<1>1. CASE StepAside \/ SetDeadline
  <2>1. /\ stage = "outside" /\ stage' = "inside" /\ UNCHANGED <<pc, answer, attempt, respBody>>
        /\ budget' \in {"none", "live"}
    BY <1>1 DEF StepAside, SetDeadline, vars, BudgetInv, LayerInv
  <2>2. ~(pc = "returned" /\ answer.form = "response") \/ respBody[attempt] = "open"
    BY <2>1 DEF BudgetInv, LayerInv
  <2> QED
    BY <1>0, <2>1, <2>2 DEF BudgetInv, LayerInv, BudgetCoversExchange
<1>2. CASE Inside
  <2>1. stage = "inside" /\ UNCHANGED <<stage, budget>> /\ budget # "canceled"
    BY <1>2 DEF Inside, layer, BudgetInv, BudgetCoversExchange
  <2>2. pc' = "returned" /\ answer'.form = "response" => respBody'[attempt'] = "open"
    <3>1. CASE Return
      BY <1>0, <3>1 DEF Return, RetryInv, OpenThings
    <3>2. CASE FireTimer
      BY <3>2 DEF FireTimer
    <3>3. CASE ~Return /\ ~FireTimer
      BY <1>2, <3>3 DEF Inside, RoundTripStep, OwnStep, Begin, StartAttempt, Answer,
         DrainAndWait, BackoffOver, BackoffCanceled, Fail, Again, GetBodyFails
    <3> QED
      BY <3>1, <3>2, <3>3
  <2> QED
    BY <1>0, <2>1, <2>2 DEF BudgetInv, LayerInv, BudgetCoversExchange
<1>3. CASE Leave
  <2>1. /\ stage = "inside" /\ stage' = "left" /\ Finished
        /\ UNCHANGED <<pc, answer, attempt, respBody, attemptCtx>>
        /\ budget' = IF budget = "live" /\ (pc = "failed" \/ answer.form # "response")
                       THEN "canceled" ELSE budget
    BY <1>3 DEF Leave, vars
  <2>2. pc = "failed" \/ answer.form # "response" =>
          \A k \in Attempts : respBody[k] # "open" /\ attemptCtx[k] # "live"
    BY <1>0, <2>1 DEF Finished, RetryInv, OpenThings, ContextsFollowBodies
  <2>3. pc # "failed" /\ answer.form = "response" => respBody[attempt] = "open"
    BY <2>1 DEF Finished, BudgetInv, LayerInv
  <2>4. budget # "canceled"
    BY <2>1 DEF BudgetInv, BudgetCoversExchange
  <2> QED
    BY <1>0, <2>1, <2>2, <2>3, <2>4
       DEF BudgetInv, LayerInv, BudgetCoversExchange, Finished
<1>4. CASE CloseBoth
  <2>1. /\ stage = "left" /\ stage' = "left" /\ pc = "returned"
        /\ UNCHANGED <<pc, answer, attempt>>
        /\ respBody[attempt] = "open" /\ CloseResponse(attempt)
        /\ budget' = IF budget = "live" THEN "canceled" ELSE budget
    BY <1>4 DEF CloseBoth, CallerCloses
  <2>2. \A k \in Attempts : respBody'[k] # "open" /\ attemptCtx'[k] # "live"
    BY <1>0, <2>1 DEF CloseResponse, RetryInv, TypeOK, OpenThings, ContextsFollowBodies
  <2> QED
    BY <1>0, <2>1, <2>2 DEF BudgetInv, LayerInv, BudgetCoversExchange, Finished
<1>5. CASE EndContext /\ UNCHANGED layer
  BY <1>0, <1>5 DEF EndContext, layer, BudgetInv, LayerInv, BudgetCoversExchange, Finished
<1>6. CASE UNCHANGED tvars
  BY <1>0, <1>6 DEF tvars, vars, layer, BudgetInv, LayerInv, BudgetCoversExchange, Finished
<1> QED
  BY <1>1, <1>2, <1>3, <1>4, <1>5, <1>6 DEF TNext

\* The budget's context covers every attempt, every backoff and the reading of
\* the body, is released on every way out, and is never canceled under a body
\* that the caller still holds open.
THEOREM BudgetIsKept == TSpec => []BudgetCoversExchange
<1>1. BudgetInv => BudgetCoversExchange
  BY DEF BudgetInv
<1> QED
  BY <1>1, InitBudget, NextBudget, PTL DEF TSpec

\* Retry under Timeout behaves as Retry, so that every theorem about it holds.
THEOREM TimeoutImplementsRetry == TSpec => Spec
<1>1. TInit => Init
  BY DEF TInit
<1>2. [TNext]_tvars => [Next]_vars
  BY TimeoutStepsRetry DEF tvars
<1> QED
  BY <1>1, <1>2, PTL DEF TSpec, Spec
=============================================================================
