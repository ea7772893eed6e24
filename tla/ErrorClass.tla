------------------------------ MODULE ErrorClass ------------------------------
(***************************************************************************)
(* Classify of errorclass.go, and the predicates that the retry middleware *)
(* and the circuit breaker build on it.                                    *)
(*                                                                         *)
(* An error is the sequence of its layers, the outermost first: the tail   *)
(* of the sequence is what Unwrap returns, and <<>> is nil.  The last      *)
(* layer is the root cause.  Errors that wrap several others (errors.Join) *)
(* are left out.                                                           *)
(***************************************************************************)
EXTENDS Integers, Sequences

(***************************************************************************)
(* The layers that wrap another error: "wrap" has nothing but Unwrap, as   *)
(* fmt.Errorf("%w") and ClassifiedError; "url" is a *url.Error; the others *)
(* are *net.OpError with Op dial, read or write, or another Op.            *)
(***************************************************************************)
Plain == {"wrap", "url"}
Operations == {"opConnect", "opOther"}

(***************************************************************************)
(* The root causes.  "deadline" and "canceled" stand for the errors of a   *)
(* context and all that match them with Is; "timedOut" for any other error *)
(* that says it is a timeout (ETIMEDOUT, a TLS handshake that took too     *)
(* long); "refused" for the four errnos of classifyConnection; "x509" for  *)
(* the four certificate errors; "opaque" for all that Classify knows       *)
(* nothing of.                                                             *)
(***************************************************************************)
Transient == {"deadline", "timedOut", "dnsTemporary", "dnsTimeout", "refused"}
Permanent == {"canceled", "dnsNotFound", "x509"}
Refusals  == {"circuitOpen", "rateLimited"}
Roots     == Transient \union Permanent \union Refusals \union {"opaque"}

Layers == Plain \union Operations \union Roots

Root(e) == e[Len(e)]
Has(e, layers) == \E i \in DOMAIN e : e[i] \in layers

\* The errors that net, net/http and this package make, and what their callers
\* wrap around them: one root cause, and operations directly around what went
\* wrong in the network.  (An os.SyscallError and the errno in it are one layer.)
WellFormed(e) ==
  /\ e # <<>> /\ Root(e) \in Roots
  /\ \A i \in 1..(Len(e) - 1) :
       /\ e[i] \in Plain \union Operations
       /\ e[i] \in Operations => e[i + 1] \in Operations \union (Roots \ Refusals)

\* What is left of e below the first layer that is in `layers'.
Below(e, layers) ==
  LET i == CHOOSE i \in DOMAIN e :
             e[i] \in layers /\ \A j \in 1..(i - 1) : e[j] \notin layers
  IN  SubSeq(e, i + 1, Len(e))

-----------------------------------------------------------------------------
\* Does the outermost layer of e say that it is a timeout?  Those that wrap
\* another error ask that one, and no further than that.
Timeout[e \in Seq(Layers)] ==
  /\ e # <<>>
  /\ \/ e[1] \in {"deadline", "timedOut", "dnsTimeout"}
     \/ e[1] \in Operations \union {"url"} /\ Timeout[Tail(e)]

\* The types that have the methods of net.Error.
NetErrors == Operations \union
  {"url", "deadline", "timedOut", "refused", "dnsNotFound", "dnsTemporary", "dnsTimeout"}

\* errors.As finds the first net.Error, and that one says it is a timeout.
NetTimeout(e) ==
  /\ Has(e, NetErrors)
  /\ \E i \in DOMAIN e :
       /\ e[i] \in NetErrors
       /\ \A j \in 1..(i - 1) : e[j] \notin NetErrors
       /\ Timeout[SubSeq(e, i, Len(e))]

-----------------------------------------------------------------------------
\* classifySentinel: by identity.
SentinelKind(e) ==
  CASE e = <<"circuitOpen">> -> "circuit_open"
    [] e = <<"rateLimited">> -> "rate_limited"
    [] OTHER -> "unknown"

ContextKind(e) ==
  IF Has(e, {"deadline"}) THEN "timeout"
  ELSE IF Has(e, {"canceled"}) THEN "canceled" ELSE "unknown"

NetTimeoutKind(e) == IF NetTimeout(e) THEN "timeout" ELSE "unknown"

DNSKind(e) ==
  IF Has(e, {"dnsNotFound"}) THEN "dns_not_found"
  ELSE IF Has(e, {"dnsTemporary", "dnsTimeout"}) THEN "dns" ELSE "unknown"

\* classifyTLS
TLSKind(e) == IF Has(e, {"x509"}) THEN "tls" ELSE "unknown"

\* classifyConnection: errors.As finds the first OpError only.
ConnectionKind(e) ==
  IF \/ Has(e, {"refused"})
     \/ \E i \in DOMAIN e :
          e[i] = "opConnect" /\ \A j \in 1..(i - 1) : e[j] \notin Operations
    THEN "connection"
    ELSE "unknown"

\* Mutant: a sentinel is recognised by identity only.
WrappedSentinelKind_Identity(e) == SentinelKind(e)

\* classifyWrappedSentinel: anywhere in the chain.
WrappedSentinelKind(e) ==
  IF Has(e, {"circuitOpen"}) THEN "circuit_open"
  ELSE IF Has(e, {"rateLimited"}) THEN "rate_limited" ELSE "unknown"

\* The first of two verdicts, if it is one, or else the other.
OrElse(kind, other) == IF kind # "unknown" THEN kind ELSE other

\* Mutant: the connection is looked at before the name.
TransportKind_ConnectionFirst(e) ==
  OrElse(NetTimeoutKind(e),
    OrElse(ConnectionKind(e),
      OrElse(DNSKind(e), OrElse(TLSKind(e), WrappedSentinelKind(e)))))

\* The branches of classifyError after that of url.Error.
TransportKind(e) ==
  OrElse(NetTimeoutKind(e),
    OrElse(DNSKind(e),
      OrElse(TLSKind(e), OrElse(ConnectionKind(e), WrappedSentinelKind(e)))))

\* classifyError.  A url.Error hands the verdict to the error inside it.
Kind[e \in Seq(Layers)] ==
  LET early == OrElse(SentinelKind(e), ContextKind(e))
  IN  IF early # "unknown" THEN early
      ELSE IF Has(e, {"url"}) /\ Below(e, {"url"}) # <<>>
        THEN IF Timeout[Below(e, {"url"})] THEN "timeout" ELSE Kind[Below(e, {"url"})]
        ELSE TransportKind(e)

-----------------------------------------------------------------------------
\* The helpers of the package, each with the kinds for which it says yes.
HelperKinds ==
  [IsTimeout     |-> {"timeout"},
   IsCanceled    |-> {"canceled"},
   IsConnection  |-> {"connection"},
   IsDNS         |-> {"dns", "dns_not_found"},
   IsDNSNotFound |-> {"dns_not_found"},
   IsTLS         |-> {"tls"},
   IsRetryable   |-> {"timeout", "connection", "dns"}]

\* Those that say yes to e; none does to nil, whose kind is unknown.
Says(e) == {h \in DOMAIN HelperKinds : Kind[e] \in HelperKinds[h]}

\* DefaultIsRetryable: of an error, its kind; of a response, its status.
RetryableStatus == {429, 502, 503, 504}
DefaultIsRetryable(status, e) ==
  IF e # <<>> THEN "IsRetryable" \in Says(e) ELSE status \in RetryableStatus
=============================================================================
