-------------------------------- MODULE MCChain --------------------------------
(***************************************************************************)
(* Chain on a small instance.                                              *)
(***************************************************************************)
EXTENDS Chain

\* The calls of the breaker: two operations of three attempts each.
TwoByThree == Ops \X {0, 1, 2}

Status(s, hint) == [status |-> s, err |-> <<>>, hint |-> hint]

\* A success, a quota with a hint of when to come back, errors of the network that
\* may pass and that will not, and that of a caller that has gone.  To both
\* predicates a 5xx is one of the former or, if its status is not retryable, of
\* the latter.
SampleAnswers ==
  {Status(200, RL!NoHint)}
  \union {Status(429, [form |-> "seconds", value |-> s]) : s \in HintSeconds}
  \union {Failure(<<"opConnect", "refused">>), Failure(<<"opConnect", "dnsNotFound">>),
          Failure(<<"canceled">>)}

\* Canceled operations are not worth an entry.
QuietResults == {Failure(<<"canceled">>)}
=============================================================================
