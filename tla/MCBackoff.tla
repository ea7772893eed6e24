------------------------------ MODULE MCBackoff ------------------------------
(***************************************************************************)
(* Backoff on small instances: durations of a few bits, so that every      *)
(* strategy meets its cap and the end of the integers within a few retries.*)
(***************************************************************************)
EXTENDS Backoff

\* The bare strategy, one that waits no less than the server asks, and one that
\* is first kept within bounds.
UsualDecorations == {<<>>, <<"retryAfter", "min">>, <<"max", "jitter", "retryAfter">>}

NoDecoration == {<<>>}

SequenceSymmetry == Permutations(Sequences)
=============================================================================
