-------------------------- MODULE ErrorClassProofs --------------------------
(***************************************************************************)
(* What Classify says of every error that net, net/http and this package   *)
(* make, however deep it is wrapped.                                       *)
(***************************************************************************)
EXTENDS ErrorClass, Recursion, SequenceTheorems, TLAPS

-----------------------------------------------------------------------------
(* The recursive definitions, as equations.                                *)

Errors == Seq(Layers)

\* What holds of an error when it holds of all shorter ones holds of all.
LEMMA ErrorInduction ==
  ASSUME NEW P, \A e \in Errors : (\A d \in Errors : Len(d) < Len(e) => d \in P) => e \in P
  PROVE  \A e \in Errors : e \in P
<1> SUFFICES ASSUME NEW e \in Errors, e \notin P PROVE FALSE
  OBVIOUS
<1> DEFINE Lengths == {Len(d) : d \in Errors \ P}
<1>1. \A d \in Errors : Len(d) \in Nat
  BY DEF Errors
<1>2. Lengths \subseteq Nat /\ \A d \in Errors \ P : Len(d) \in Lengths
  BY <1>1
<1>3. Lengths # {}
  BY <1>2
<1>4. PICK n \in Lengths : \A m \in Lengths : n <= m
  BY <1>2, <1>3, LeastNatural, Zenon
<1>5. PICK least \in Errors \ P : n = Len(least)
  BY <1>4
<1>6. \A d \in Errors : Len(d) < Len(least) => d \in P
  <2>1. ASSUME NEW d \in Errors, d \notin P PROVE Len(least) <= Len(d)
    BY <1>2, <1>4, <1>5, <2>1
  <2> QED
    BY <1>1, <2>1
<1> QED
  BY <1>5, <1>6

\* What Timeout says of e if f is what it says of shorter errors.
SaysTimeout(f, e) ==
  /\ e # <<>>
  /\ \/ e[1] \in {"deadline", "timedOut", "dnsTimeout"}
     \/ e[1] \in Operations \union {"url"} /\ f[Tail(e)]

\* Timeout is what its definition says.
LEMMA TimeoutEquation ==
  /\ Timeout \in [Errors -> BOOLEAN]
  /\ \A e \in Errors : Timeout[e] = SaysTimeout(Timeout, e)
<1> DEFINE rank == [e \in Errors |-> Len(e)]
           G == [e \in Errors |-> [f \in [Errors -> BOOLEAN] |-> SaysTimeout(f, e)]]
<1>1. rank \in [Errors -> Nat] /\ \A e \in Errors : rank[e] = Len(e)
  BY DEF Errors
<1>2. ASSUME NEW e \in Errors, NEW f PROVE SaysTimeout(f, e) \in BOOLEAN
  BY DEF SaysTimeout
<1>3. G \in [Errors -> [[Errors -> BOOLEAN] -> BOOLEAN]]
  BY <1>2
<1>4. \A e \in Errors : \A f \in [Errors -> BOOLEAN] : G[e][f] = SaysTimeout(f, e)
  OBVIOUS
<1>5. ASSUME NEW e \in Errors, NEW f, NEW g,
             \A d \in Errors : rank[d] < rank[e] => f[d] = g[d]
      PROVE  SaysTimeout(f, e) = SaysTimeout(g, e)
  <2>1. CASE e = <<>>
    BY <2>1 DEF SaysTimeout
  <2>2. CASE e # <<>>
    <3>1. Tail(e) \in Errors /\ Len(Tail(e)) < Len(e)
      BY <2>2 DEF Errors
    <3>2. f[Tail(e)] = g[Tail(e)]
      BY <1>1, <1>5, <3>1
    <3> QED
      BY <3>2 DEF SaysTimeout
  <2> QED
    BY <2>1, <2>2
<1> HIDE DEF rank, G
<1>6. PICK f \in [Errors -> BOOLEAN] : \A e \in Errors : f[e] = G[e][f]
  <2>1. ASSUME NEW e \in Errors, NEW f \in [Errors -> BOOLEAN], NEW g \in [Errors -> BOOLEAN],
               \A d \in Errors : rank[d] < rank[e] => f[d] = g[d]
        PROVE  G[e][f] = G[e][g]
    BY <1>4, <1>5, <2>1
  <2>2. BOOLEAN # {}
    OBVIOUS
  <2>3. rank \in [Errors -> Nat]
    BY <1>1
  <2>4. \A x \in Errors : \A f, g \in [Errors -> BOOLEAN] :
          (\A y \in Errors : rank[y] < rank[x] => f[y] = g[y]) => G[x][f] = G[x][g]
    BY <2>1, Zenon
  <2>5. Recursion(Errors, BOOLEAN, rank, G)
    BY <1>3, <2>2, <2>3, <2>4, Zenon DEF Recursion
  <2>6. Solvable(Errors, BOOLEAN, G)
    BY <2>5, RecursiveFunction, Zenon
  <2> QED
    BY <2>6, Zenon DEF Solvable
<1>7. f = [e \in Errors |-> SaysTimeout(f, e)]
  BY <1>4, <1>6
<1>8. Timeout = CHOOSE g : g = [e \in Errors |-> SaysTimeout(g, e)]
  BY DEF Timeout, SaysTimeout, Errors
<1>9. Timeout = [e \in Errors |-> SaysTimeout(Timeout, e)]
  BY <1>7, <1>8, Zenon
<1> QED
  BY <1>2, <1>9

\* What is below a layer is a shorter error: a part of e.
LEMMA BelowLayer ==
  ASSUME NEW e \in Errors, NEW layers, Has(e, layers)
  PROVE  \E i \in 1..Len(e) :
           /\ e[i] \in layers
           /\ \A j \in 1..(i - 1) : e[j] \notin layers
           /\ Below(e, layers) = SubSeq(e, i + 1, Len(e))
<1> DEFINE First(i) == e[i] \in layers /\ \A j \in 1..(i - 1) : e[j] \notin layers
<1>1. DOMAIN e = 1..Len(e) /\ Len(e) \in Nat
  BY DEF Errors
<1>2. \E i \in DOMAIN e : First(i)
  <2> DEFINE Found == {i \in 1..Len(e) : e[i] \in layers}
  <2>1. Found \subseteq Nat /\ Found # {}
    BY <1>1 DEF Has
  <2>2. PICK i \in Found : \A j \in Found : i <= j
    BY <2>1, LeastNatural, Zenon
  <2>3. ASSUME NEW j \in 1..(i - 1) PROVE e[j] \notin layers
    <3>1. j \in 1..Len(e) /\ ~(i <= j)
      BY <1>1, <2>2, <2>3
    <3> QED
      BY <2>2, <3>1
  <2> QED
    BY <1>1, <2>2, <2>3
<1> DEFINE i == CHOOSE k \in DOMAIN e : First(k)
<1>3. i \in DOMAIN e /\ First(i)
  <2> HIDE DEF First
  <2> QED
    BY <1>2, Zenon
<1>4. Below(e, layers) = SubSeq(e, i + 1, Len(e))
  BY DEF Below
<1> HIDE DEF i
<1> QED
  BY <1>1, <1>3, <1>4

\* So the recursion of Kind ends.
LEMMA BelowIsShorter ==
  ASSUME NEW e \in Errors, NEW layers, Has(e, layers)
  PROVE  Below(e, layers) \in Errors /\ Len(Below(e, layers)) < Len(e)
<1>1. PICK i \in 1..Len(e) : Below(e, layers) = SubSeq(e, i + 1, Len(e))
  BY BelowLayer, Zenon
<1>2. SubSeq(e, i + 1, Len(e)) \in Errors /\ Len(SubSeq(e, i + 1, Len(e))) < Len(e)
  <2>1. i \in Nat /\ i >= 1 /\ i <= Len(e) /\ Len(e) \in Nat
    BY DEF Errors
  <2>2. \A k \in (i + 1)..Len(e) : e[k] \in Layers
    BY <2>1 DEF Errors
  <2> QED
    BY <2>1, <2>2 DEF Errors
<1> QED
  BY <1>1, <1>2

\* What Kind says of e if f is what it says of shorter errors.
Early(e) == OrElse(SentinelKind(e), ContextKind(e))
Inner(e) == Below(e, {"url"})

SaysKind(f, e) ==
  IF Early(e) # "unknown" THEN Early(e)
  ELSE IF Has(e, {"url"}) /\ Inner(e) # <<>>
    THEN IF Timeout[Inner(e)] THEN "timeout" ELSE f[Inner(e)]
    ELSE TransportKind(e)

\* The kinds of errorclass.go.
KindNames == {"unknown", "timeout", "canceled", "connection", "dns", "dns_not_found",
              "tls", "circuit_open", "rate_limited"}

\* The branches of classifyError give kinds.
LEMMA KindsNamed ==
  ASSUME NEW e
  PROVE  /\ Early(e) \in {"unknown", "circuit_open", "rate_limited", "timeout", "canceled"}
         /\ TransportKind(e) \in KindNames
BY DEF Early, TransportKind, OrElse, SentinelKind, ContextKind, NetTimeoutKind, DNSKind,
       TLSKind, ConnectionKind, WrappedSentinelKind, KindNames

\* Kind is what its definition says.
LEMMA KindEquation ==
  /\ Kind \in [Errors -> KindNames]
  /\ \A e \in Errors : Kind[e] = SaysKind(Kind, e)
<1> DEFINE rank == [e \in Errors |-> Len(e)]
           G == [e \in Errors |-> [f \in [Errors -> KindNames] |-> SaysKind(f, e)]]
<1>1. rank \in [Errors -> Nat] /\ \A e \in Errors : rank[e] = Len(e)
  BY DEF Errors
<1>2. ASSUME NEW e \in Errors, NEW f \in [Errors -> KindNames]
      PROVE  SaysKind(f, e) \in KindNames
  <2>1. Has(e, {"url"}) => f[Inner(e)] \in KindNames
    BY BelowIsShorter DEF Inner
  <2>2. "timeout" \in KindNames /\ Early(e) \in KindNames /\ TransportKind(e) \in KindNames
    BY KindsNamed DEF KindNames
  <2> QED
    BY <2>1, <2>2 DEF SaysKind
<1>3. G \in [Errors -> [[Errors -> KindNames] -> KindNames]]
  BY <1>2
<1>4. \A e \in Errors : \A f \in [Errors -> KindNames] : G[e][f] = SaysKind(f, e)
  OBVIOUS
<1>5. ASSUME NEW e \in Errors, NEW f, NEW g,
             \A d \in Errors : rank[d] < rank[e] => f[d] = g[d]
      PROVE  SaysKind(f, e) = SaysKind(g, e)
  <2>1. Has(e, {"url"}) => f[Inner(e)] = g[Inner(e)]
    BY <1>1, <1>5, BelowIsShorter DEF Inner
  <2> QED
    BY <2>1 DEF SaysKind
<1> HIDE DEF rank, G
<1>6. PICK f \in [Errors -> KindNames] : \A e \in Errors : f[e] = G[e][f]
  <2>1. ASSUME NEW e \in Errors, NEW f \in [Errors -> KindNames],
               NEW g \in [Errors -> KindNames],
               \A d \in Errors : rank[d] < rank[e] => f[d] = g[d]
        PROVE  G[e][f] = G[e][g]
    BY <1>4, <1>5, <2>1
  <2>2. KindNames # {}
    BY DEF KindNames
  <2>3. rank \in [Errors -> Nat]
    BY <1>1
  <2>4. \A x \in Errors : \A f, g \in [Errors -> KindNames] :
          (\A y \in Errors : rank[y] < rank[x] => f[y] = g[y]) => G[x][f] = G[x][g]
    BY <2>1, Zenon
  <2>5. Recursion(Errors, KindNames, rank, G)
    BY <1>3, <2>2, <2>3, <2>4, Zenon DEF Recursion
  <2>6. Solvable(Errors, KindNames, G)
    BY <2>5, RecursiveFunction, Zenon
  <2> QED
    BY <2>6, Zenon DEF Solvable
<1>7. f = [e \in Errors |-> SaysKind(f, e)]
  BY <1>4, <1>6
<1>8. Kind = CHOOSE g : g = [e \in Errors |-> SaysKind(g, e)]
  BY DEF Kind, SaysKind, Errors, Early, Inner
<1>9. Kind = [e \in Errors |-> SaysKind(Kind, e)]
  BY <1>7, <1>8, Zenon
<1>10. \A e \in Errors : Kind[e] = SaysKind(Kind, e)
  BY <1>9
<1>11. \A e \in Errors : Kind[e] \in KindNames
  <2> DEFINE Named == {e \in Errors : Kind[e] \in KindNames}
  <2>1. ASSUME NEW e \in Errors, \A d \in Errors : Len(d) < Len(e) => d \in Named
        PROVE  e \in Named
    <3>1. Has(e, {"url"}) => Kind[Inner(e)] \in KindNames
      BY <2>1, BelowIsShorter DEF Inner
    <3>2. "timeout" \in KindNames /\ Early(e) \in KindNames /\ TransportKind(e) \in KindNames
      BY KindsNamed DEF KindNames
    <3>3. SaysKind(Kind, e) \in KindNames
      BY <3>1, <3>2 DEF SaysKind
    <3> QED
      BY <1>10, <3>3
  <2> HIDE DEF Named
  <2>2. \A e \in Errors : e \in Named
    BY <2>1, ErrorInduction
  <2> QED
    BY <2>2 DEF Named
<1>12. Kind \in [Errors -> KindNames]
  <2>1. Kind = [e \in Errors |-> Kind[e]]
    BY <1>9, <1>10
  <2> QED
    BY <1>11, <2>1
<1> QED
  BY <1>10, <1>12

-----------------------------------------------------------------------------
(* The parts of an error.                                                  *)

\* What is left of e from its layer number i on.
From(e, i) == SubSeq(e, i, Len(e))

\* It is an error again, made of the same layers.
LEMMA FromProperties ==
  ASSUME NEW e \in Errors, NEW i \in 1..(Len(e) + 1)
  PROVE  /\ From(e, i) \in Errors
         /\ Len(From(e, i)) = Len(e) - i + 1
         /\ \A j \in 1..Len(From(e, i)) : From(e, i)[j] = e[i + j - 1]
<1>1. Len(e) \in Nat /\ \A k \in 1..Len(e) : e[k] \in Layers
  BY DEF Errors
<1>2. i \in Int /\ \A k \in i..Len(e) : e[k] \in Layers
  BY <1>1
<1>3. /\ From(e, i) \in Seq(Layers)
      /\ Len(From(e, i)) = IF i <= Len(e) THEN Len(e) - i + 1 ELSE 0
      /\ \A j \in 1..(Len(e) - i + 1) : From(e, i)[j] = e[i + j - 1]
  BY <1>1, <1>2, SubSeqProperties DEF From
<1> QED
  BY <1>1, <1>3 DEF Errors

\* So is what Unwrap returns.
LEMMA TailProperties ==
  ASSUME NEW e \in Errors, e # <<>>
  PROVE  /\ Tail(e) = From(e, 2) /\ Tail(e) \in Errors
         /\ Len(e) \in Nat \ {0} /\ Len(Tail(e)) = Len(e) - 1
         /\ \A j \in 1..Len(Tail(e)) : Tail(e)[j] = e[j + 1]
<1>1. Len(e) \in Nat \ {0}
  BY EmptySeq DEF Errors
<1>2. Tail(e) = From(e, 2)
  BY TailIsSubSeq DEF Errors, From
<1> QED
  BY <1>1, <1>2, HeadTailProperties DEF Errors

\* Where the root cause and the operations of an error are.
LEMMA WellFormedProperties ==
  ASSUME NEW e \in Errors, WellFormed(e)
  PROVE  /\ Len(e) \in Nat \ {0} /\ DOMAIN e = 1..Len(e)
         /\ e[Len(e)] = Root(e) /\ Root(e) \in Roots
         /\ \A i \in 1..Len(e) : e[i] \in Roots => i = Len(e)
         /\ \A i \in 1..Len(e) : i # Len(e) =>
              /\ e[i] \in Plain \union Operations
              /\ e[i] \in Operations => e[i + 1] \in Operations \union (Roots \ Refusals)
<1>1. Len(e) \in Nat \ {0} /\ DOMAIN e = 1..Len(e)
  BY EmptySeq DEF Errors, WellFormed
<1>2. \A i \in 1..Len(e) : i # Len(e) => i \in 1..(Len(e) - 1)
  <2>1. \A n \in Nat : \A i \in 1..n : i # n => i \in 1..(n - 1)
    OBVIOUS
  <2> QED
    BY <1>1, <2>1, Zenon
<1>3. \A i \in 1..Len(e) : i # Len(e) => e[i] \notin Roots
  BY <1>2 DEF WellFormed, Plain, Operations, Roots, Transient, Permanent, Refusals
<1> QED
  BY <1>1, <1>2, <1>3 DEF WellFormed, Root

\* What is left of an error is an error with the same root cause.
LEMMA FromWellFormed ==
  ASSUME NEW e \in Errors, WellFormed(e), NEW i \in 1..Len(e)
  PROVE  WellFormed(From(e, i)) /\ Root(From(e, i)) = Root(e) /\ From(e, i) # <<>>
<1> DEFINE s == From(e, i)
<1>1. /\ s \in Errors /\ Len(s) = Len(e) - i + 1
      /\ \A j \in 1..Len(s) : s[j] = e[i + j - 1]
  <2>1. i \in 1..(Len(e) + 1)
    BY WellFormedProperties
  <2> QED
    BY <2>1, FromProperties
<1>2. Len(e) \in Nat /\ i \in 1..Len(e) /\ Len(s) >= 1 /\ Len(s) \in Nat
  BY <1>1, WellFormedProperties
<1> HIDE DEF s
<1>3. s # <<>>
  BY <1>2, EmptySeq
<1>4. Root(s) = Root(e)
  <2>1. s[Len(s)] = e[i + Len(s) - 1] /\ i + Len(s) - 1 = Len(e)
    BY <1>1, <1>2
  <2> QED
    BY <2>1 DEF Root
<1>5. ASSUME NEW j \in 1..(Len(s) - 1)
      PROVE  /\ s[j] \in Plain \union Operations
             /\ s[j] \in Operations => s[j + 1] \in Operations \union (Roots \ Refusals)
  <2>1. /\ i + j - 1 \in 1..Len(e) /\ i + j - 1 # Len(e)
        /\ j \in 1..Len(s) /\ j + 1 \in 1..Len(s)
        /\ i + (j + 1) - 1 = (i + j - 1) + 1
    BY <1>1, <1>2
  <2>2. s[j] = e[i + j - 1] /\ s[j + 1] = e[(i + j - 1) + 1]
    BY <1>1, <2>1
  <2> QED
    BY <2>1, <2>2, WellFormedProperties
<1>6. Root(s) \in Roots
  BY <1>4, WellFormedProperties
<1> QED
  BY <1>3, <1>4, <1>5, <1>6 DEF s, WellFormed

\* That is so in particular of what Unwrap returns.
LEMMA TailWellFormed ==
  ASSUME NEW e \in Errors, WellFormed(e), Len(e) # 1
  PROVE  /\ Tail(e) \in Errors /\ Len(Tail(e)) < Len(e) /\ Tail(e)[1] = e[2]
         /\ WellFormed(Tail(e)) /\ Root(Tail(e)) = Root(e)
<1>0. Len(e) \in Nat \ {0} /\ e # <<>>
  BY WellFormedProperties DEF WellFormed
<1>1. 2 \in 1..Len(e) /\ Len(e) - 1 < Len(e)
  <2>1. \A n \in Nat \ {0} : n # 1 => 2 \in 1..n /\ n - 1 < n
    OBVIOUS
  <2> QED
    BY <1>0, <2>1, Zenon
<1>2. Tail(e) = From(e, 2) /\ Tail(e) \in Errors /\ Len(Tail(e)) = Len(e) - 1
  BY <1>0, TailProperties
<1>3. Tail(e)[1] = e[2]
  <2>1. 1 \in 1..Len(Tail(e))
    BY <1>0, <1>2
  <2> QED
    BY <1>0, <2>1, TailProperties
<1> QED
  BY <1>1, <1>2, <1>3, FromWellFormed

-----------------------------------------------------------------------------
(* Timeouts.                                                               *)

\* The root causes that say that they are a timeout.
TimedOut == {"deadline", "timedOut", "dnsTimeout"}

\* Only an error whose root cause is a timeout says that it is one.
LEMMA TimeoutHasRoot ==
  \A e \in Errors : WellFormed(e) /\ Timeout[e] => Root(e) \in TimedOut
<1> DEFINE P == {e \in Errors : WellFormed(e) /\ Timeout[e] => Root(e) \in TimedOut}
<1>1. ASSUME NEW e \in Errors, \A d \in Errors : Len(d) < Len(e) => d \in P
      PROVE  e \in P
  <2> SUFFICES ASSUME WellFormed(e), Timeout[e] PROVE Root(e) \in TimedOut
    OBVIOUS
  <2>1. e[1] \in TimedOut \/ (e[1] \in Operations \union {"url"} /\ Timeout[Tail(e)])
    BY TimeoutEquation DEF SaysTimeout, TimedOut
  <2>2. Len(e) \in Nat \ {0} /\ 1 \in 1..Len(e)
    BY WellFormedProperties
  <2>3. CASE e[1] \in TimedOut
    <3>1. e[1] \in Roots
      BY <2>3 DEF TimedOut, Roots, Transient
    <3>2. Len(e) = 1
      BY <2>2, <3>1, WellFormedProperties
    <3> QED
      BY <2>3, <3>2 DEF Root
  <2>4. CASE e[1] \notin TimedOut
    <3>1. e[1] \in Operations \union {"url"} /\ Timeout[Tail(e)]
      BY <2>1, <2>4
    <3>2. Len(e) # 1
      <4>1. e[1] \notin Roots
        BY <3>1 DEF Operations, Roots, Transient, Permanent, Refusals
      <4> QED
        BY <4>1, WellFormedProperties
    <3>3. Tail(e) \in P /\ WellFormed(Tail(e)) /\ Root(Tail(e)) = Root(e)
      BY <1>1, <3>2, TailWellFormed
    <3> QED
      BY <3>1, <3>3
  <2> QED
    BY <2>3, <2>4
<1> HIDE DEF P
<1>2. \A e \in Errors : e \in P
  BY <1>1, ErrorInduction
<1> QED
  BY <1>2 DEF P

\* A timeout that only operations have been wrapped around says that it is one.
LEMMA OperationsTimeOut ==
  \A e \in Errors : WellFormed(e) /\ Root(e) \in TimedOut /\ e[1] \notin Plain => Timeout[e]
<1> DEFINE P == {e \in Errors :
                   WellFormed(e) /\ Root(e) \in TimedOut /\ e[1] \notin Plain => Timeout[e]}
<1>1. ASSUME NEW e \in Errors, \A d \in Errors : Len(d) < Len(e) => d \in P
      PROVE  e \in P
  <2> SUFFICES ASSUME WellFormed(e), Root(e) \in TimedOut, e[1] \notin Plain
               PROVE  Timeout[e]
    OBVIOUS
  <2>1. e # <<>> /\ Len(e) \in Nat \ {0} /\ 1 \in 1..Len(e)
    BY WellFormedProperties DEF WellFormed
  <2>2. CASE Len(e) = 1
    BY <2>1, <2>2, TimeoutEquation DEF SaysTimeout, Root, TimedOut
  <2>3. CASE Len(e) # 1
    <3>1. e[1] \in Operations /\ e[2] \notin Plain
      <4>1. e[1] \in Operations /\ e[1 + 1] \in Operations \union (Roots \ Refusals)
        BY <2>1, <2>3, WellFormedProperties
      <4>2. \A l \in Operations \union Roots : l \notin Plain
        BY DEF Plain, Operations, Roots, Transient, Permanent, Refusals
      <4> QED
        BY <4>1, <4>2
    <3>2. Timeout[Tail(e)]
      BY <1>1, <2>3, <3>1, TailWellFormed
    <3> QED
      BY <2>1, <3>1, <3>2, TimeoutEquation DEF SaysTimeout
  <2> QED
    BY <2>2, <2>3
<1> HIDE DEF P
<1>2. \A e \in Errors : e \in P
  BY <1>1, ErrorInduction
<1> QED
  BY <1>2 DEF P

-----------------------------------------------------------------------------
(* The kind of a well-formed error is that of its root cause.              *)

\* The layers of an error that are root causes are its root cause.
LEMMA HasRoot ==
  ASSUME NEW e \in Errors, WellFormed(e), NEW causes, causes \subseteq Roots
  PROVE  Has(e, causes) <=> Root(e) \in causes
<1>1. /\ Len(e) \in 1..Len(e) /\ DOMAIN e = 1..Len(e) /\ e[Len(e)] = Root(e)
      /\ \A i \in 1..Len(e) : e[i] \in Roots => i = Len(e)
  BY WellFormedProperties
<1>2. Has(e, causes) => Root(e) \in causes
  BY <1>1, Zenon DEF Has
<1>3. Root(e) \in causes => Has(e, causes)
  BY <1>1, Zenon DEF Has
<1> QED
  BY <1>2, <1>3

\* Below an operation there are operations, and a root cause that is no refusal.
LEMMA BelowOperations ==
  ASSUME NEW e \in Errors, WellFormed(e), NEW j \in 1..Len(e), e[j] \in Operations
  PROVE  \A k \in j..Len(e) : e[k] \in Operations \union (Roots \ Refusals)
<1> DEFINE N == {n \in Nat :
                   j + n <= Len(e) => e[j + n] \in Operations \union (Roots \ Refusals)}
<1>1. Len(e) \in Nat /\ j \in Nat \ {0}
  BY WellFormedProperties
<1>2. 0 \in N
  <2>1. j + 0 = j
    BY <1>1
  <2> QED
    BY <2>1
<1>3. ASSUME NEW n \in N PROVE n + 1 \in N
  <2> SUFFICES ASSUME j + (n + 1) <= Len(e)
               PROVE  e[j + (n + 1)] \in Operations \union (Roots \ Refusals)
    OBVIOUS
  <2>1. j + n \in 1..Len(e) /\ j + n # Len(e) /\ j + (n + 1) = (j + n) + 1 /\ j + n <= Len(e)
    BY <1>1
  <2>2. e[j + n] \in Operations \union (Roots \ Refusals)
    BY <2>1
  <2>3. e[j + n] \notin Roots
    BY <2>1, WellFormedProperties
  <2>4. e[(j + n) + 1] \in Operations \union (Roots \ Refusals)
    BY <2>1, <2>2, <2>3, WellFormedProperties
  <2> QED
    BY <2>1, <2>4
<1>4. \A n \in Nat : n \in N
  <2> N \subseteq Nat
    OBVIOUS
  <2> HIDE DEF N
  <2> QED
    BY <1>2, <1>3, InductiveSet
<1> SUFFICES ASSUME NEW k \in j..Len(e) PROVE e[k] \in Operations \union (Roots \ Refusals)
  OBVIOUS
<1>5. k - j \in Nat /\ j + (k - j) = k /\ k <= Len(e)
  BY <1>1
<1>6. k - j \in N
  BY <1>4, <1>5
<1> QED
  BY <1>5, <1>6

\* What is around the operations of an error has no part in its ConnectionKind.
LEMMA ConnectionOfSuffix ==
  ASSUME NEW e \in Errors, WellFormed(e), NEW i \in 1..Len(e),
         \A j \in 1..(i - 1) : e[j] \notin Operations
  PROVE  ConnectionKind(From(e, i)) = ConnectionKind(e)
<1> DEFINE s == From(e, i)
           Connecting(d) == \E k \in 1..Len(d) :
             d[k] = "opConnect" /\ \A j \in 1..(k - 1) : d[j] \notin Operations
<1>1. Len(e) \in Nat /\ i \in 1..(Len(e) + 1)
  BY WellFormedProperties
<1>2. /\ s \in Errors /\ Len(s) = Len(e) - i + 1 /\ Len(s) \in Nat
      /\ \A j \in 1..Len(s) : s[j] = e[i + j - 1]
  BY <1>1, FromProperties
<1>3. WellFormed(s) /\ Root(s) = Root(e)
  BY FromWellFormed
<1>4. Has(s, {"refused"}) <=> Has(e, {"refused"})
  <2>1. {"refused"} \subseteq Roots
    BY DEF Roots, Transient
  <2> HIDE DEF s
  <2> QED
    BY <1>2, <1>3, <2>1, HasRoot
<1> HIDE DEF s
<1>5. ASSUME Connecting(e) PROVE Connecting(s)
  <2>1. PICK k \in 1..Len(e) :
          e[k] = "opConnect" /\ \A j \in 1..(k - 1) : e[j] \notin Operations
    BY <1>5
  <2>2. ~(k \in 1..(i - 1))
    BY <2>1 DEF Operations
  <2>3. k - i + 1 \in 1..Len(s) /\ i + (k - i + 1) - 1 = k
    BY <1>1, <1>2, <2>2
  <2>4. s[k - i + 1] = "opConnect"
    BY <1>2, <2>1, <2>3
  <2>5. ASSUME NEW j \in 1..((k - i + 1) - 1) PROVE s[j] \notin Operations
    <3>1. j \in 1..Len(s) /\ i + j - 1 \in 1..(k - 1)
      BY <1>1, <1>2, <2>3
    <3> QED
      BY <1>2, <2>1, <3>1
  <2> QED
    BY <2>3, <2>4, <2>5
<1>6. ASSUME Connecting(s) PROVE Connecting(e)
  <2>1. PICK k \in 1..Len(s) :
          s[k] = "opConnect" /\ \A j \in 1..(k - 1) : s[j] \notin Operations
    BY <1>6
  <2>2. i + k - 1 \in 1..Len(e)
    BY <1>1, <1>2
  <2>3. e[i + k - 1] = "opConnect"
    BY <1>2, <2>1
  <2>4. ASSUME NEW j \in 1..((i + k - 1) - 1) PROVE e[j] \notin Operations
    <3>1. CASE j \in 1..(i - 1)
      BY <3>1
    <3>2. CASE j \notin 1..(i - 1)
      <4>1. j - i + 1 \in 1..(k - 1) /\ j - i + 1 \in 1..Len(s) /\ i + (j - i + 1) - 1 = j
        BY <1>1, <1>2, <3>2
      <4>2. s[j - i + 1] = e[j]
        BY <1>2, <4>1
      <4> QED
        BY <2>1, <4>1, <4>2
    <3> QED
      BY <3>1, <3>2
  <2> QED
    BY <2>2, <2>3, <2>4
<1>7. DOMAIN s = 1..Len(s) /\ DOMAIN e = 1..Len(e)
  BY <1>2 DEF Errors
<1> QED
  BY <1>4, <1>5, <1>6, <1>7 DEF ConnectionKind, s

\* errors.As finds the timeout of an error in which there is no url.Error.
LEMMA NetTimeoutOfRoot ==
  ASSUME NEW e \in Errors, WellFormed(e)
  PROVE  /\ NetTimeout(e) => Root(e) \in TimedOut
         /\ ~Has(e, {"url"}) /\ Root(e) \in TimedOut => NetTimeout(e)
<1>1. Len(e) \in 1..Len(e) /\ Len(e) \in Nat /\ DOMAIN e = 1..Len(e) /\ e[Len(e)] = Root(e)
  BY WellFormedProperties
<1>2. \A i \in 1..Len(e) : From(e, i) \in Errors /\ SubSeq(e, i, Len(e)) = From(e, i)
  <2>1. \A i \in 1..Len(e) : i \in 1..(Len(e) + 1)
    BY <1>1
  <2> QED
    BY <2>1, FromProperties DEF From
<1>3. ASSUME NetTimeout(e) PROVE Root(e) \in TimedOut
  <2>1. PICK i \in 1..Len(e) : Timeout[From(e, i)]
    BY <1>1, <1>2, <1>3 DEF NetTimeout
  <2>2. WellFormed(From(e, i)) /\ Root(From(e, i)) = Root(e)
    BY FromWellFormed
  <2> QED
    BY <1>2, <2>1, <2>2, TimeoutHasRoot
<1>4. ASSUME ~Has(e, {"url"}), Root(e) \in TimedOut PROVE NetTimeout(e)
  <2>1. Root(e) \in NetErrors
    BY <1>4 DEF TimedOut, NetErrors
  <2> DEFINE Found == {i \in 1..Len(e) : e[i] \in NetErrors}
  <2>2. Found \subseteq Nat /\ Found # {}
    BY <1>1, <2>1
  <2>3. PICK i \in Found : \A j \in Found : i <= j
    BY <2>2, LeastNatural, Zenon
  <2>4. ASSUME NEW j \in 1..(i - 1) PROVE e[j] \notin NetErrors
    <3>1. j \in 1..Len(e) /\ ~(i <= j)
      BY <1>1, <2>3
    <3> QED
      BY <2>3, <3>1
  <2>5. e[i] \notin Plain
    BY <1>1, <1>4 DEF Has, Plain, NetErrors, Operations
  <2>6. From(e, i) \in Errors /\ WellFormed(From(e, i)) /\ Root(From(e, i)) = Root(e)
    BY <1>2, FromWellFormed
  <2>7. From(e, i)[1] = e[i]
    <3>1. i \in 1..Len(e) /\ i \in 1..(Len(e) + 1) /\ i + 1 - 1 = i
      BY <1>1
    <3>2. 1 \in 1..Len(From(e, i))
      <4>1. Len(From(e, i)) = Len(e) - i + 1
        BY <3>1, FromProperties
      <4> QED
        BY <1>1, <3>1, <4>1
    <3>3. From(e, i)[1] = e[i + 1 - 1]
      BY <3>1, <3>2, FromProperties
    <3> QED
      BY <3>1, <3>3
  <2>8. Timeout[From(e, i)]
    BY <1>4, <2>5, <2>6, <2>7, OperationsTimeOut
  <2>9. Has(e, NetErrors)
    BY <1>1, <2>3 DEF Has
  <2> QED
    BY <1>1, <1>2, <2>3, <2>4, <2>8, <2>9 DEF NetTimeout
<1> QED
  BY <1>3, <1>4

\* The kind of each root cause.  Of an opaque one it is what the operations around
\* it say: that a connection was being made or used, or nothing.
KindOfRoot(e) ==
  CASE Root(e) \in TimedOut      -> "timeout"
    [] Root(e) = "canceled"      -> "canceled"
    [] Root(e) = "dnsTemporary"  -> "dns"
    [] Root(e) = "dnsNotFound"   -> "dns_not_found"
    [] Root(e) = "x509"          -> "tls"
    [] Root(e) = "refused"       -> "connection"
    [] Root(e) = "circuitOpen"   -> "circuit_open"
    [] Root(e) = "rateLimited"   -> "rate_limited"
    [] OTHER                      -> ConnectionKind(e)

\* The branches of classifyError, on an error without a url.Error.
LEMMA TransportKindOfRoot ==
  ASSUME NEW e \in Errors, WellFormed(e), ~Has(e, {"url"}),
         Root(e) \notin {"deadline", "canceled"}
  PROVE  TransportKind(e) = KindOfRoot(e)
<1>1. Root(e) \in Roots
  BY WellFormedProperties
<1>2. NetTimeout(e) <=> Root(e) \in TimedOut
  BY NetTimeoutOfRoot
<1>3. /\ Has(e, {"dnsNotFound"}) <=> Root(e) = "dnsNotFound"
      /\ Has(e, {"dnsTemporary", "dnsTimeout"}) <=> Root(e) \in {"dnsTemporary", "dnsTimeout"}
      /\ Has(e, {"x509"}) <=> Root(e) = "x509"
      /\ Has(e, {"refused"}) <=> Root(e) = "refused"
      /\ Has(e, {"circuitOpen"}) <=> Root(e) = "circuitOpen"
      /\ Has(e, {"rateLimited"}) <=> Root(e) = "rateLimited"
  <2>1. /\ {"dnsNotFound"} \subseteq Roots /\ {"dnsTemporary", "dnsTimeout"} \subseteq Roots
        /\ {"x509"} \subseteq Roots /\ {"refused"} \subseteq Roots
        /\ {"circuitOpen"} \subseteq Roots /\ {"rateLimited"} \subseteq Roots
    BY DEF Roots, Transient, Permanent, Refusals
  <2>2. \A causes : causes \subseteq Roots => (Has(e, causes) <=> Root(e) \in causes)
    BY HasRoot
  <2> QED
    BY <2>1, <2>2
<1>4. ConnectionKind(e) \in {"connection", "unknown"}
  BY DEF ConnectionKind
<1>5. Root(e) = "refused" => ConnectionKind(e) = "connection"
  BY <1>3 DEF ConnectionKind
<1>6. Root(e) \in Refusals => ConnectionKind(e) = "unknown"
  <2> SUFFICES ASSUME Root(e) \in Refusals PROVE ConnectionKind(e) = "unknown"
    OBVIOUS
  <2>1. ASSUME NEW i \in DOMAIN e PROVE e[i] \notin Operations
    <3>1. i \in 1..Len(e) /\ Len(e) \in i..Len(e) /\ e[Len(e)] = Root(e)
      BY WellFormedProperties
    <3>2. SUFFICES ASSUME e[i] \in Operations PROVE FALSE
      OBVIOUS
    <3>3. e[Len(e)] \in Operations \union (Roots \ Refusals)
      BY <3>1, <3>2, BelowOperations
    <3> QED
      BY <3>1, <3>3 DEF Refusals, Operations
  <2> QED
    BY <1>3, <2>1 DEF ConnectionKind, Operations, Refusals
<1> DEFINE r == Root(e)
<1> HIDE DEF r
<1>7. r = Root(e)
  BY DEF r
<1>8. TransportKind(e) =
        OrElse(IF r \in TimedOut THEN "timeout" ELSE "unknown",
          OrElse(IF r = "dnsNotFound" THEN "dns_not_found"
                 ELSE IF r \in {"dnsTemporary", "dnsTimeout"} THEN "dns" ELSE "unknown",
            OrElse(IF r = "x509" THEN "tls" ELSE "unknown",
              OrElse(ConnectionKind(e),
                IF r = "circuitOpen" THEN "circuit_open"
                ELSE IF r = "rateLimited" THEN "rate_limited" ELSE "unknown"))))
  BY <1>2, <1>3, <1>7 DEF TransportKind, NetTimeoutKind, DNSKind, TLSKind, WrappedSentinelKind
<1> QED
  BY <1>1, <1>4, <1>5, <1>6, <1>7, <1>8
     DEF OrElse, KindOfRoot, TimedOut, Roots, Transient, Permanent, Refusals

\* However an error is wrapped, its kind is that of its root cause.
THEOREM ClassifiedByRoot ==
  \A e \in Errors : WellFormed(e) => Kind[e] = KindOfRoot(e)
<1> DEFINE P == {e \in Errors : WellFormed(e) => Kind[e] = KindOfRoot(e)}
<1>1. ASSUME NEW e \in Errors, \A d \in Errors : Len(d) < Len(e) => d \in P
      PROVE  e \in P
  <2> SUFFICES ASSUME WellFormed(e) PROVE Kind[e] = KindOfRoot(e)
    OBVIOUS
  <2>1. Kind[e] = SaysKind(Kind, e)
    BY KindEquation
  <2>2. CASE e = <<"circuitOpen">> \/ e = <<"rateLimited">>
    <3>1. Root(e) = e[1]
      BY <2>2 DEF Root
    <3> QED
      BY <2>1, <2>2, <3>1
         DEF SaysKind, Early, OrElse, SentinelKind, ContextKind, KindOfRoot, TimedOut
  <2>3. CASE e # <<"circuitOpen">> /\ e # <<"rateLimited">>
    <3>1. SentinelKind(e) = "unknown"
      BY <2>3 DEF SentinelKind
    <3>2. /\ Has(e, {"deadline"}) <=> Root(e) = "deadline"
          /\ Has(e, {"canceled"}) <=> Root(e) = "canceled"
      <4>1. {"deadline"} \subseteq Roots /\ {"canceled"} \subseteq Roots
        BY DEF Roots, Transient, Permanent
      <4> QED
        BY <4>1, HasRoot
    <3>3. CASE Root(e) \in {"deadline", "canceled"}
      BY <2>1, <3>1, <3>2, <3>3
         DEF SaysKind, Early, OrElse, ContextKind, KindOfRoot, TimedOut
    <3>4. CASE Root(e) \notin {"deadline", "canceled"}
      <4>1. Early(e) = "unknown"
        BY <3>1, <3>2, <3>4 DEF Early, OrElse, ContextKind
      <4>2. CASE ~Has(e, {"url"})
        BY <2>1, <3>4, <4>1, <4>2, TransportKindOfRoot DEF SaysKind
      <4>3. CASE Has(e, {"url"})
        <5>1. PICK i \in 1..Len(e) : e[i] = "url" /\ Inner(e) = From(e, i + 1)
          BY <4>3, BelowLayer DEF Inner, From
        <5>2. Len(e) \in Nat /\ i # Len(e) /\ i + 1 \in 1..Len(e)
          <6>1. Len(e) \in Nat \ {0} /\ e[Len(e)] \in Roots
            BY WellFormedProperties
          <6>2. "url" \notin Roots
            BY DEF Roots, Transient, Permanent, Refusals
          <6> QED
            BY <5>1, <6>1, <6>2
        <5>3. WellFormed(Inner(e)) /\ Root(Inner(e)) = Root(e) /\ Inner(e) # <<>>
          BY <5>1, <5>2, FromWellFormed
        <5>4. Inner(e) \in Errors /\ Len(Inner(e)) < Len(e)
          BY <4>3, BelowIsShorter DEF Inner
        <5>5. Kind[Inner(e)] = KindOfRoot(Inner(e))
          BY <1>1, <5>3, <5>4
        <5>6. ConnectionKind(Inner(e)) = ConnectionKind(e)
          <6>1. ASSUME NEW j \in 1..((i + 1) - 1) PROVE e[j] \notin Operations
            <7>1. j \in 1..Len(e) /\ i \in j..Len(e)
              BY <5>2
            <7>2. SUFFICES ASSUME e[j] \in Operations PROVE FALSE
              OBVIOUS
            <7>3. e[i] \in Operations \union (Roots \ Refusals)
              BY <7>1, <7>2, BelowOperations
            <7> QED
              BY <5>1, <7>3 DEF Operations, Roots, Transient, Permanent, Refusals
          <6> QED
            BY <5>1, <5>2, <6>1, ConnectionOfSuffix
        <5>7. KindOfRoot(Inner(e)) = KindOfRoot(e)
          BY <5>3, <5>6 DEF KindOfRoot
        <5>8. Timeout[Inner(e)] => KindOfRoot(e) = "timeout"
          <6>1. Timeout[Inner(e)] => Root(e) \in TimedOut
            BY <5>3, <5>4, TimeoutHasRoot, Zenon
          <6>2. Root(e) \in TimedOut => KindOfRoot(e) = "timeout"
            BY DEF KindOfRoot, TimedOut
          <6> QED
            BY <6>1, <6>2
        <5> QED
          BY <2>1, <4>1, <4>3, <5>3, <5>5, <5>7, <5>8 DEF SaysKind
      <4> QED
        BY <4>2, <4>3
    <3> QED
      BY <3>3, <3>4
  <2> QED
    BY <2>2, <2>3
<1> HIDE DEF P
<1>2. \A e \in Errors : e \in P
  BY <1>1, ErrorInduction
<1> QED
  BY <1>2 DEF P

\* What Classify says of an error is what it says of it when fmt.Errorf or a
\* url.Error has been wrapped around it.
THEOREM WrappingKeepsKind ==
  ASSUME NEW e \in Errors, WellFormed(e), NEW layer \in Plain
  PROVE  LET w == <<layer>> \o e
         IN  w \in Errors /\ WellFormed(w) /\ Root(w) = Root(e) /\ Kind[w] = Kind[e]
<1> DEFINE w == <<layer>> \o e
<1>1. /\ Len(e) \in Nat \ {0} /\ Root(e) \in Roots /\ e[Len(e)] = Root(e)
      /\ \A i \in 1..Len(e) : e[i] \in Layers
  BY WellFormedProperties DEF Errors
<1>2. layer \in Layers /\ layer \notin Operations
  BY DEF Layers, Plain, Operations
<1>3. /\ w \in Errors /\ Len(w) = Len(e) + 1 /\ w[1] = layer
      /\ \A i \in 2..(Len(e) + 1) : w[i] = e[i - 1]
  BY <1>1, <1>2 DEF Errors
<1> HIDE DEF w
<1>4. w # <<>> /\ Root(w) = Root(e)
  <2>1. w # <<>>
    BY <1>1, <1>3, EmptySeq
  <2>2. Len(e) + 1 \in 2..(Len(e) + 1) /\ (Len(e) + 1) - 1 = Len(e)
    BY <1>1
  <2> QED
    BY <1>1, <1>3, <2>1, <2>2 DEF Root
<1>5. WellFormed(w)
  <2>1. ASSUME NEW i \in 1..(Len(w) - 1)
        PROVE  /\ w[i] \in Plain \union Operations
               /\ w[i] \in Operations => w[i + 1] \in Operations \union (Roots \ Refusals)
    <3>1. CASE i = 1
      BY <1>2, <1>3, <3>1
    <3>2. CASE i # 1
      <4>1. /\ i \in 2..(Len(e) + 1) /\ i + 1 \in 2..(Len(e) + 1)
            /\ (i + 1) - 1 = (i - 1) + 1 /\ i - 1 \in 1..(Len(e) - 1)
        BY <1>1, <1>3, <3>2
      <4>2. w[i] = e[i - 1] /\ w[i + 1] = e[(i - 1) + 1]
        BY <1>3, <4>1
      <4> QED
        BY <4>1, <4>2 DEF WellFormed
    <3> QED
      BY <3>1, <3>2
  <2> QED
    BY <1>1, <1>4, <2>1 DEF WellFormed
<1>6. e = From(w, 2)
  <2>1. Tail(w) = From(w, 2) /\ Tail(w) \in Errors /\ Len(Tail(w)) = Len(w) - 1
        /\ \A j \in 1..Len(Tail(w)) : Tail(w)[j] = w[j + 1]
    BY <1>3, <1>4, TailProperties
  <2>2. Len(Tail(w)) = Len(e)
    BY <1>1, <1>3, <2>1
  <2>3. ASSUME NEW j \in 1..Len(e) PROVE Tail(w)[j] = e[j]
    <3>1. j + 1 \in 2..(Len(e) + 1) /\ (j + 1) - 1 = j
      BY <1>1
    <3> QED
      BY <1>3, <2>1, <2>2, <3>1
  <2>4. Tail(w) = e
    BY <2>1, <2>2, <2>3, SeqEqual DEF Errors
  <2> QED
    BY <2>1, <2>4
<1>7. ConnectionKind(w) = ConnectionKind(e)
  <2>1. 2 \in 1..Len(w) /\ \A j \in 1..(2 - 1) : w[j] \notin Operations
    BY <1>1, <1>2, <1>3
  <2> QED
    BY <1>3, <1>5, <1>6, <2>1, ConnectionOfSuffix
<1>8. KindOfRoot(w) = KindOfRoot(e)
  BY <1>4, <1>7 DEF KindOfRoot
<1>9. Kind[w] = Kind[e]
  BY <1>3, <1>5, <1>8, ClassifiedByRoot
<1> QED
  BY <1>3, <1>4, <1>5, <1>9 DEF w

\* Only an error whose root cause is transient is worth another attempt; one whose
\* root cause is opaque may be.
THEOREM OnlyTransientRetryable ==
  ASSUME NEW e \in Errors, WellFormed(e), Root(e) # "opaque"
  PROVE  "IsRetryable" \in Says(e) <=> Root(e) \in Transient
<1>1. Kind[e] = KindOfRoot(e)
  BY ClassifiedByRoot
<1>2. Root(e) \in Roots
  BY WellFormedProperties
<1>3. "IsRetryable" \in Says(e) <=> Kind[e] \in {"timeout", "connection", "dns"}
  BY DEF Says, HelperKinds
<1>4. KindOfRoot(e) \in {"timeout", "connection", "dns"} <=> Root(e) \in Transient
  <2>1. CASE Root(e) \in Transient
    BY <2>1 DEF KindOfRoot, TimedOut, Transient
  <2>2. CASE Root(e) \in Permanent \union Refusals
    BY <2>2 DEF KindOfRoot, TimedOut, Transient, Permanent, Refusals
  <2> QED
    BY <1>2, <2>1, <2>2 DEF Roots
<1> QED
  BY <1>1, <1>3, <1>4
=============================================================================
