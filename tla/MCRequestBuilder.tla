--------------------------- MODULE MCRequestBuilder ---------------------------
(***************************************************************************)
(* RequestBuilder on small instances.                                      *)
(***************************************************************************)
EXTENDS RequestBuilder

\* Readers of the size of the buffer and beyond, one of which fails at its end.
SmallSizes == [fits |-> 2, over |-> 3, large |-> 4, broken |-> 1, bytes |-> 1]

OneOfEach == [fits |-> 2, bytes |-> 1]

\* A parameter whose value spells another placeholder, and one that spells a
\* query.
AwkwardValues == {"b", "?"}
PathAndQuery ==
  {<<Token("a"), Token("/"), Token("b")>>, <<Token("b"), Token("?"), Token("q")>>}

\* What net and net/http make of a failure, and the errors of this package.
NetErrorChains ==
  {prefix \o <<root>> :
     prefix \in {<<>>, <<"opConnect">>, <<"opOther">>, <<"opOther", "opConnect">>},
     root \in (Transient \union Permanent \union {"opaque"})}
  \union {<<root>> : root \in Refusals}
=============================================================================
