------------------------- MODULE RequestBuilderProofs -------------------------
(***************************************************************************)
(* What the builder sends and what it leaves behind, for all readers and   *)
(* sizes, every size of the buffer and any number of executions and        *)
(* attempts.                                                               *)
(***************************************************************************)
EXTENDS RequestBuilder, ErrorClassProofs, Recursion, FiniteSetTheorems

Sources == Readers \union ByteBodies \union {"none"}

Pieces == [src : Sources, from : Int, to : Int]

\* The part of TypeOK that the arguments below need.
Typed ==
  /\ {"body", "bodyBytes", "headers", "timeout"} \subseteq DOMAIN rb
  /\ rb.body \in Readers \union {"none", "own"}
  /\ rb.bodyBytes \in ByteBodies \union {"none"}
  /\ rb.timeout \in BOOLEAN
  /\ position \in [Readers -> Int]
  /\ startAt \in [Readers -> Int]
  /\ request \in [body : Pieces, getBody : Pieces]
  /\ last \in Sources
  /\ wire \in Seq([src : Sources, from : Int, to : Int, eof : BOOLEAN])

\* Which field the last body setter left its argument in.
LastKept ==
  /\ last \in Readers => rb.body = last
  /\ last \in ByteBodies => rb.body = "own" /\ rb.bodyBytes = last
  /\ last = "none" => rb.body = "none"

\* Where a reader was when the execution began is where it is until its body is
\* resolved, and nothing has been sent before the chain is called.
Begun ==
  /\ stage = "resolving" => startAt = position
  /\ stage \in {"idle", "resolving", "requesting", "climbing"} => wire = <<>>

\* The request carries what was described, at once and when it is replayed.
RequestDescribed ==
  stage \in {"requesting", "sending"} /\ ~BytesLinger =>
    /\ request.body = Described
    /\ request.getBody \in {NoPiece, Described}

BuilderInv == Typed /\ LastKept /\ Begun /\ RequestDescribed /\ SentAsDescribed

-----------------------------------------------------------------------------
\* What was described is a piece of a source.
LEMMA DescribedIsPiece == Typed => Described \in Pieces
BY BuilderAssumption DEF Typed, Described, Pieces, Sources, Whole, NoPiece

\* As long as nobody calls a setter or executes the builder, what was described
\* stays the same, and so does what is still to be shown of the request.
LEMMA DescriptionStays ==
  ASSUME UNCHANGED <<rb, last, startAt>>
  PROVE  Described' = Described /\ BytesLinger' = BytesLinger
BY DEF Described, BytesLinger, Whole, NoPiece

\* bufferBody reads all that is left unless it reads more than it may keep.
LEMMA BufferedAll ==
  ASSUME Typed, rb.body \in Readers
  PROVE  /\ Buffered \in Int
         /\ Buffered <= MaxBuffer => position[rb.body] + Buffered = Size[rb.body]
<1>1. Size[rb.body] \in Int /\ position[rb.body] \in Int /\ MaxBuffer \in Int
  BY BuilderAssumption DEF Typed
<1>2. Left \in Int /\ position[rb.body] + Left = Size[rb.body]
  BY <1>1 DEF Left
<1>3. /\ Buffered = IF Left > MaxBuffer + 1 THEN MaxBuffer + 1 ELSE Left
      /\ Buffered \in Int
  BY <1>1, <1>2 DEF Buffered, BufferLimit
<1> QED
  BY <1>1, <1>2, <1>3

LEMMA InitBuilder == Init => BuilderInv
<1> SUFFICES ASSUME Init PROVE BuilderInv
  OBVIOUS
<1>1. Typed
  BY BuilderAssumption DEF Init, Typed, NewBuilder, NoRequest, NoPiece, Pieces, Sources
<1>2. LastKept /\ Begun /\ RequestDescribed /\ SentAsDescribed
  BY BuilderAssumption DEF Init, LastKept, Begun, RequestDescribed, SentAsDescribed,
     NewBuilder
<1> QED
  BY <1>1, <1>2 DEF BuilderInv

-----------------------------------------------------------------------------
\* A setter changes what is described, and finds nothing sent.
LEMMA SetKeeps == BuilderInv /\ Set => BuilderInv'
<1> SUFFICES ASSUME BuilderInv, Set PROVE BuilderInv'
  OBVIOUS
<1> USE DEF BuilderInv
<1>1. /\ stage = "idle" /\ stage' = "idle"
      /\ UNCHANGED <<position, startAt, request, wire>>
  BY DEF Set, SetBody, SetBodyBytes, SetBodyEncoded, MarshalFails, SetHeader,
     SetPathParam, SetQueryParam, Context, SetTimeout, Setter, Setting, exchange
<1>2. /\ {"body", "bodyBytes", "headers", "timeout"} \subseteq DOMAIN rb'
      /\ rb'.timeout \in BOOLEAN
      /\ rb'.body \in Readers \union {"none", "own"}
      /\ rb'.bodyBytes \in ByteBodies \union {"none"}
      /\ last' \in Sources
      /\ LastKept'
  <2> USE BuilderAssumption DEF Typed, LastKept, Setter, Sources
  <2>1. CASE \E r \in Readers \union {"none"} : SetBody(r)
    BY <2>1 DEF SetBody
  <2>2. CASE \E b \in ByteBodies : SetBodyBytes(b) \/ SetBodyEncoded(b)
    BY <2>2 DEF SetBodyBytes, SetBodyEncoded
  <2>3. CASE \/ MarshalFails
             \/ SetHeader
             \/ \E k \in Keys, v \in Values : SetPathParam(k, v)
             \/ SetQueryParam
             \/ \E isNil \in BOOLEAN : Context(isNil)
    BY <2>3 DEF MarshalFails, SetHeader, SetPathParam, SetQueryParam, Context
  <2>4. CASE \E positive \in BOOLEAN : SetTimeout(positive)
    BY <2>4 DEF SetTimeout
  <2> QED
    BY <2>1, <2>2, <2>3, <2>4 DEF Set
<1>3. Typed'
  BY <1>1, <1>2 DEF Typed
<1>4. Begun' /\ RequestDescribed' /\ SentAsDescribed'
  BY <1>1 DEF Begun, RequestDescribed, SentAsDescribed
<1> QED
  BY <1>2, <1>3, <1>4

\* Each way through resolveBody makes a request of what was described.
LEMMA ResolveKeeps == BuilderInv /\ Resolve => BuilderInv'
<1> SUFFICES ASSUME BuilderInv, Resolve PROVE BuilderInv'
  OBVIOUS
<1> USE DEF BuilderInv
<1>1. /\ stage = "resolving" /\ wire = <<>> /\ startAt = position
      /\ UNCHANGED <<rb, last, startAt, wire>>
  BY DEF Resolve, ResolveNil, ResolveBytes, ResolveBuffered, ResolveStream, ResolveFails,
     Resolved, Buffering, history, Begun
<1>2. Described' = Described /\ BytesLinger' = BytesLinger
  BY <1>1, DescriptionStays
<1>3. LastKept' /\ SentAsDescribed'
  BY <1>1 DEF LastKept, SentAsDescribed
<1>4. CASE ResolveNil
  <2>1. /\ stage' = "requesting"
        /\ request' = [body |-> NoPiece,
                       getBody |-> IF rb.bodyBytes = "none" THEN NoPiece
                                                            ELSE Whole(rb.bodyBytes)]
        /\ position' = position
        /\ rb.body = "none"
    BY <1>4 DEF ResolveNil, Resolved
  <2>2. last = "none"
    BY <2>1, BuilderAssumption DEF Typed, LastKept, Sources
  <2>3. ~BytesLinger => rb.bodyBytes = "none"
    BY <2>2, BuilderAssumption DEF BytesLinger
  <2>4. Described = NoPiece
    BY <2>2, BuilderAssumption DEF Described
  <2>5. request' \in [body : Pieces, getBody : Pieces]
    BY <2>1, BuilderAssumption DEF Typed, Pieces, Sources, Whole, NoPiece
  <2> QED
    BY <1>1, <1>2, <1>3, <2>1, <2>3, <2>4, <2>5 DEF Typed, Begun, RequestDescribed
<1>5. CASE ResolveBytes
  <2>1. /\ stage' = "requesting"
        /\ request' = [body |-> Whole(rb.bodyBytes), getBody |-> Whole(rb.bodyBytes)]
        /\ position' = position
        /\ rb.body # "none" /\ rb.bodyBytes \in ByteBodies
    BY <1>5 DEF ResolveBytes, Resolved, Typed
  <2>2. ~BytesLinger => Described = Whole(rb.bodyBytes)
    BY <2>1, BuilderAssumption DEF BytesLinger, Described, LastKept
  <2>3. request' \in [body : Pieces, getBody : Pieces]
    BY <2>1, BuilderAssumption DEF Pieces, Sources, Whole
  <2> QED
    BY <1>1, <1>2, <1>3, <2>1, <2>2, <2>3 DEF Typed, Begun, RequestDescribed
<1>6. CASE ResolveBuffered \/ ResolveStream
  <2>1. /\ stage' = "requesting"
        /\ rb.body \in Readers /\ rb.bodyBytes = "none"
        /\ position' = [position EXCEPT ![rb.body] = @ + Buffered]
    BY <1>6 DEF ResolveBuffered, ResolveStream, Buffering, Resolved
  <2>2. last = rb.body
    BY <2>1, BuilderAssumption DEF Typed, LastKept, Sources
  <2>3. Described = [src |-> rb.body, from |-> position[rb.body], to |-> Size[rb.body]]
    BY <1>1, <2>1, <2>2 DEF Described
  <2>4. /\ Buffered \in Int
        /\ Buffered <= MaxBuffer => position[rb.body] + Buffered = Size[rb.body]
    BY <2>1, BufferedAll
  <2>5. request'.body = Described /\ request'.getBody \in {NoPiece, Described}
    <3>1. CASE ResolveBuffered
      <4>1. position[rb.body] + Buffered = Size[rb.body]
        BY <2>4, <3>1 DEF ResolveBuffered
      <4> QED
        BY <2>3, <3>1, <4>1 DEF ResolveBuffered, Resolved
    <3>2. CASE ResolveStream
      BY <2>3, <3>2 DEF ResolveStream, Resolved
    <3> QED
      BY <1>6, <3>1, <3>2
  <2>6. request' \in [body : Pieces, getBody : Pieces]
    <3>1. Described \in Pieces /\ NoPiece \in Pieces
      BY DescribedIsPiece DEF NoPiece, Pieces, Sources
    <3>2. /\ DOMAIN request' = {"body", "getBody"}
          /\ request' = [body |-> request'.body, getBody |-> request'.getBody]
      BY <1>6 DEF ResolveBuffered, ResolveStream, Resolved
    <3> QED
      BY <2>5, <3>1, <3>2
  <2>7. position' \in [Readers -> Int]
    BY <2>1, <2>4 DEF Typed
  <2> QED
    BY <1>1, <1>2, <1>3, <2>1, <2>5, <2>6, <2>7 DEF Typed, Begun, RequestDescribed
<1>7. CASE ResolveFails
  <2>1. stage' = "failed" /\ request' = request
        /\ position' = [position EXCEPT ![rb.body] = @ + Buffered] /\ rb.body \in Readers
    BY <1>7 DEF ResolveFails, Buffering, Fail
  <2>2. position' \in [Readers -> Int]
    BY <2>1, BufferedAll DEF Typed
  <2> QED
    BY <1>1, <1>2, <1>3, <2>1, <2>2 DEF Typed, Begun, RequestDescribed
<1> QED
  BY <1>4, <1>5, <1>6, <1>7 DEF Resolve

\* An attempt reads a part of what was described, from its first byte on.
LEMMA AttemptKeeps ==
  ASSUME BuilderInv, NEW n \in 0..(request.body.to + request.getBody.to), Attempt(n)
  PROVE  BuilderInv'
<1> USE DEF BuilderInv
<1> DEFINE piece == IF wire = <<>> \/ request.getBody = NoPiece
                      THEN request.body ELSE request.getBody
           sent == [src |-> piece.src, from |-> piece.from, to |-> piece.from + n,
                    eof |-> n = piece.to - piece.from]
<1>1. /\ stage = "sending"
      /\ wire' = Append(wire, sent)
      /\ position' = position
           \/ position' = [position EXCEPT ![piece.src] = piece.from + n]
      /\ UNCHANGED <<rb, request, last, startAt, stage>>
  BY DEF Attempt
<1>2. Described' = Described /\ BytesLinger' = BytesLinger
  BY <1>1, DescriptionStays
<1>3. piece \in Pieces /\ n \in Int
  BY DEF Typed, Pieces
<1>4. ~BytesLinger => piece = Described
  BY <1>1 DEF RequestDescribed
<1> HIDE DEF piece
<1>5. sent \in [src : Sources, from : Int, to : Int, eof : BOOLEAN]
  BY <1>3 DEF Pieces
<1>6. ~BytesLinger => CarriesDescribed(sent)
  <2>1. /\ sent.src = piece.src /\ sent.from = piece.from /\ sent.to = piece.from + n
        /\ sent.eof <=> n = piece.to - piece.from
    BY Zenon
  <2>2. piece.from \in Int /\ piece.to \in Int
    BY <1>3 DEF Pieces
  <2> HIDE DEF sent
  <2> QED
    BY <1>3, <1>4, <2>1, <2>2 DEF CarriesDescribed
<1> HIDE DEF sent
<1>7. Typed'
  BY <1>1, <1>3, <1>5 DEF Typed, Pieces
<1>8. SentAsDescribed'
  <2> SUFFICES ASSUME ~BytesLinger, NEW i \in DOMAIN wire'
               PROVE  CarriesDescribed(wire[i])'
    BY <1>2 DEF SentAsDescribed
  <2>1. CarriesDescribed(wire'[i])
    <3>1. CASE i \in DOMAIN wire
      BY <1>1, <1>5, <3>1 DEF SentAsDescribed, Typed
    <3>2. CASE i \notin DOMAIN wire
      BY <1>1, <1>5, <1>6, <3>2 DEF Typed
    <3> QED
      BY <3>1, <3>2
  <2> QED
    BY <1>2, <2>1 DEF CarriesDescribed
<1> QED
  BY <1>1, <1>2, <1>7, <1>8 DEF LastKept, Begun, RequestDescribed

\* The caller's part: a new execution, or one left behind.
LEMMA CallerKeeps ==
  BuilderInv /\ (\/ \E t \in Templates, order \in SetToSeqs(DOMAIN rb.pathParams) :
                     Execute(t, order)
                 \/ AnswerBare \/ Close \/ GoOn
                 \/ \E e \in ErrorsOf(cause) : PassUp(e))
    => BuilderInv'
<1> USE DEF BuilderInv
<1>1. ASSUME BuilderInv,
             NEW t \in Templates, NEW order \in SetToSeqs(DOMAIN rb.pathParams),
             Execute(t, order)
      PROVE  BuilderInv'
  BY <1>1 DEF Execute, Typed, LastKept, Begun, RequestDescribed, SentAsDescribed
<1>2. ASSUME BuilderInv, AnswerBare \/ Close \/ GoOn
      PROVE  BuilderInv'
  <2>1. /\ stage' = "idle" /\ request' = NoRequest /\ wire' = <<>>
        /\ UNCHANGED <<rb, position, last, startAt>>
    BY <1>2 DEF AnswerBare, Close, GoOn, Forget
  <2> QED
    BY <1>2, <2>1 DEF Typed, LastKept, Begun, RequestDescribed, SentAsDescribed,
       NoRequest, NoPiece, Pieces, Sources
<1>3. ASSUME BuilderInv, NEW e \in ErrorsOf(cause), PassUp(e)
      PROVE  BuilderInv'
  BY <1>3, BuilderAssumption
     DEF PassUp, NewBuilder, NoRequest, NoPiece, Pieces, Sources, Typed, LastKept, Begun,
         RequestDescribed, SentAsDescribed
<1> QED
  BY <1>1, <1>2, <1>3

\* The steps that move neither a body nor a reader.
LEMMA OthersKeep ==
  BuilderInv /\ (\/ ExecuteMarshalErr \/ NewRequestFails \/ Do \/ DoPanics
                 \/ MiddlewareSetsHeader \/ AnswerResponse \/ AnswerError
                 \/ \E layer \in Plain : Wrap(layer)
                 \/ UNCHANGED vars)
    => BuilderInv'
<1> SUFFICES ASSUME BuilderInv,
                    \/ ExecuteMarshalErr \/ NewRequestFails \/ Do \/ DoPanics
                    \/ MiddlewareSetsHeader \/ AnswerResponse \/ AnswerError
                    \/ \E layer \in Plain : Wrap(layer)
                    \/ UNCHANGED vars
             PROVE  BuilderInv'
  OBVIOUS
<1> USE DEF BuilderInv
<1>1. /\ UNCHANGED <<position, startAt, request, last, wire>>
      /\ rb' = rb \/ rb' = [rb EXCEPT !.headers = @ \union {"X-Middleware"}]
  BY DEF ExecuteMarshalErr, NewRequestFails, Do, DoPanics, MiddlewareSetsHeader,
     AnswerResponse, AnswerError, Wrap, vars, exchange, history
<1>2. /\ {"body", "bodyBytes", "headers", "timeout"} \subseteq DOMAIN rb'
      /\ rb'.body = rb.body /\ rb'.bodyBytes = rb.bodyBytes /\ rb'.timeout = rb.timeout
  BY <1>1 DEF Typed
<1>3. /\ stage' \in {"requesting", "sending"} => stage \in {"requesting", "sending"}
      /\ stage' \in {"idle", "resolving", "requesting", "climbing"} => stage' = stage
  BY DEF ExecuteMarshalErr, NewRequestFails, Do, DoPanics, MiddlewareSetsHeader,
     AnswerResponse, AnswerError, Wrap, Fail, vars
<1>4. Described' = Described /\ BytesLinger' = BytesLinger
  BY <1>1, <1>2 DEF Described, BytesLinger, Whole, NoPiece
<1>5. Typed' /\ LastKept' /\ Begun'
  BY <1>1, <1>2, <1>3 DEF Typed, LastKept, Begun
<1>6. RequestDescribed' /\ SentAsDescribed'
  BY <1>1, <1>3, <1>4 DEF RequestDescribed, SentAsDescribed, CarriesDescribed
<1> QED
  BY <1>5, <1>6

\* Every attempt carries the body that the last setter described (request.go,
\* resolveBody and bufferBody), whatever the sizes, the order of the setters and the
\* number of executions and attempts.
THEOREM SendsWhatWasDescribed == Spec => []SentAsDescribed
<1>1. BuilderInv /\ [Next]_vars => BuilderInv'
  BY SetKeeps, ResolveKeeps, AttemptKeeps, CallerKeeps, OthersKeep DEF Next
<1>2. BuilderInv => SentAsDescribed
  BY DEF BuilderInv
<1> QED
  BY InitBuilder, <1>1, <1>2, PTL DEF Spec

-----------------------------------------------------------------------------
\* What an execution holds on to, and where its headers are.
CleanInv ==
  /\ {"headers", "timeout"} \subseteq DOMAIN rb
  /\ rb.timeout \in BOOLEAN
  /\ header # "builder"
  /\ HeadersAsSet
  /\ DeadlineFollowsBody

\* A setter runs while no deadline does.
LEMMA SetCleans == CleanInv /\ Set => CleanInv'
<1> SUFFICES ASSUME CleanInv, Set PROVE CleanInv'
  OBVIOUS
<1>1. stage = "idle" /\ stage' = "idle" /\ UNCHANGED <<header, deadline>>
  BY DEF Set, SetBody, SetBodyBytes, SetBodyEncoded, MarshalFails, SetHeader,
     SetPathParam, SetQueryParam, Context, SetTimeout, Setter, Setting, exchange
<1>2. /\ {"headers", "timeout"} \subseteq DOMAIN rb'
      /\ rb'.timeout \in BOOLEAN
      /\ rb'.headers \subseteq rb.headers \union {"Content-Type"}
  <2> USE DEF CleanInv, Setter
  <2>1. CASE \E r \in Readers \union {"none"} : SetBody(r)
    BY <2>1 DEF SetBody
  <2>2. CASE \E b \in ByteBodies : SetBodyBytes(b) \/ SetBodyEncoded(b)
    BY <2>2 DEF SetBodyBytes, SetBodyEncoded
  <2>3. CASE \/ MarshalFails
             \/ SetHeader
             \/ \E k \in Keys, v \in Values : SetPathParam(k, v)
             \/ SetQueryParam
             \/ \E isNil \in BOOLEAN : Context(isNil)
    BY <2>3 DEF MarshalFails, SetHeader, SetPathParam, SetQueryParam, Context
  <2>4. CASE \E positive \in BOOLEAN : SetTimeout(positive)
    BY <2>4 DEF SetTimeout
  <2> QED
    BY <2>1, <2>2, <2>3, <2>4 DEF Set
<1> QED
  BY <1>1, <1>2 DEF CleanInv, HeadersAsSet, DeadlineFollowsBody

LEMMA NextCleans == CleanInv /\ [Next]_vars => CleanInv'
<1> SUFFICES ASSUME CleanInv, [Next]_vars PROVE CleanInv'
  OBVIOUS
<1> USE DEF CleanInv, HeadersAsSet, DeadlineFollowsBody
<1>1. CASE Set
  BY <1>1, SetCleans
\* Outside of the exchange, and in the middle of it.
<1>2. CASE \/ \E t \in Templates, order \in SetToSeqs(DOMAIN rb.pathParams) :
                Execute(t, order)
           \/ ExecuteMarshalErr
           \/ Resolve
           \/ NewRequestFails
           \/ DoPanics
           \/ MiddlewareSetsHeader
           \/ \E n \in 0..(request.body.to + request.getBody.to) : Attempt(n)
           \/ GoOn
           \/ \E layer \in Plain : Wrap(layer)
           \/ UNCHANGED vars
  <2>1. UNCHANGED <<rb, header, deadline>>
    BY <1>2 DEF Execute, ExecuteMarshalErr, Resolve, ResolveNil, ResolveBytes,
       ResolveBuffered, ResolveStream, ResolveFails, Resolved, NewRequestFails, DoPanics,
       MiddlewareSetsHeader, Attempt, GoOn, Wrap, vars, exchange
  <2>2. stage' \in {"sending", "answered"} <=> stage \in {"sending", "answered"}
    BY <1>2 DEF Execute, ExecuteMarshalErr, Resolve, ResolveNil, ResolveBytes,
       ResolveBuffered, ResolveStream, ResolveFails, Resolved, Buffering, Fail, Setting,
       NewRequestFails, DoPanics, MiddlewareSetsHeader, Attempt, GoOn, Wrap, vars
  <2> QED
    BY <2>1, <2>2
<1>3. CASE Do
  <2>1. /\ stage' = "sending" /\ rb' = rb /\ header' = "copy"
        /\ deadline' = IF rb.timeout THEN "live" ELSE "none"
    BY <1>3 DEF Do, Clone
  <2> QED
    BY <2>1
<1>4. CASE AnswerResponse \/ AnswerBare \/ AnswerError \/ Close
  <2>1. UNCHANGED <<rb, header>>
    BY <1>4 DEF AnswerResponse, AnswerBare, AnswerError, Close
  <2>2. \/ stage = "sending" /\ stage' = "answered" /\ deadline' = deadline
        \/ stage' \in {"idle", "failed"} /\ deadline' # "live"
    BY <1>4 DEF AnswerResponse, AnswerBare, AnswerError, Close, DeadlineAfter, Fail
  <2> QED
    BY <2>1, <2>2
<1>5. CASE \E e \in ErrorsOf(cause) : PassUp(e)
  BY <1>5 DEF PassUp, NewBuilder
<1> QED
  BY <1>1, <1>2, <1>3, <1>4, <1>5 DEF Next

LEMMA CleanAlways == Spec => []CleanInv
<1>1. Init => CleanInv
  BY DEF Init, NewBuilder, CleanInv, HeadersAsSet, DeadlineFollowsBody
<1> QED
  BY <1>1, NextCleans, PTL DEF Spec

\* The clone of Client.Do keeps what middlewares set out of the builder.
THEOREM HeadersStayAsSet == Spec => []HeadersAsSet
<1>1. CleanInv => HeadersAsSet
  BY DEF CleanInv
<1> QED
  BY CleanAlways, <1>1, PTL

\* The context of SetTimeout (request.go, execute) lives exactly through the
\* exchange and the reading of its body.
THEOREM DeadlineIsReleased == Spec => []DeadlineFollowsBody
<1>1. CleanInv => DeadlineFollowsBody
  BY DEF CleanInv
<1> QED
  BY CleanAlways, <1>1, PTL
-----------------------------------------------------------------------------
(* What Classify says of the errors that the caller passes up.             *)

\* The causes of a failure are well-formed errors.
LEMMA CausesWellFormed ==
  \A e \in ErrorsOf(cause) : e \in Errors /\ WellFormed(e)
<1>1. <<"opaque">> \in Errors /\ <<"url", "opaque">> \in Errors
  BY DEF Errors, Layers, Plain, Roots
<1>2. WellFormed(<<"opaque">>)
  BY DEF WellFormed, Root, Roots
<1>3. WellFormed(<<"url", "opaque">>)
  BY DEF WellFormed, Root, Roots, Plain, Operations
<1>4. \A e \in TransportErrors : e \in Errors /\ WellFormed(e)
  BY BuilderAssumption DEF Errors
<1> QED
  BY <1>1, <1>2, <1>3, <1>4 DEF ErrorsOf

\* The inductive invariant: an error that climbs has kept the root cause and the
\* kind that it had, and there is none otherwise.
Climbing ==
  IF stage = "climbing"
    THEN /\ err \in Errors /\ origin \in Errors
         /\ WellFormed(err) /\ WellFormed(origin)
         /\ Root(err) = Root(origin) /\ Kind[err] = Kind[origin]
    ELSE err = <<>> /\ origin = <<>>

LEMMA InitClimbing == Init => Climbing
BY DEF Init, Climbing

LEMMA NextClimbing == Climbing /\ [Next]_vars => Climbing'
<1> SUFFICES ASSUME Climbing, [Next]_vars PROVE Climbing'
  OBVIOUS
<1>1. ASSUME UNCHANGED errors, stage' = stage \/ "climbing" \notin {stage, stage'} PROVE Climbing'
  BY <1>1 DEF Climbing, errors
<1>2. CASE Set
  BY <1>1, <1>2 DEF Set, SetBody, SetBodyBytes, SetBodyEncoded, MarshalFails, SetHeader,
     SetPathParam, SetQueryParam, Context, SetTimeout, Setter
<1>3. CASE \E t \in Templates, order \in SetToSeqs(DOMAIN rb.pathParams) : Execute(t, order)
  BY <1>1, <1>3 DEF Execute, Setting
<1>4. CASE ExecuteMarshalErr \/ Resolve \/ NewRequestFails \/ Do \/ DoPanics
  BY <1>1, <1>4
     DEF ExecuteMarshalErr, Setting, Resolve, ResolveNil, ResolveBytes, ResolveBuffered,
         ResolveStream, ResolveFails, Resolved, Buffering, Fail, NewRequestFails, Do,
         DoPanics
<1>5. CASE MiddlewareSetsHeader \/ AnswerResponse \/ AnswerError
  BY <1>1, <1>5 DEF MiddlewareSetsHeader, AnswerResponse, AnswerError, Fail
<1>6. CASE \E n \in 0..(request.body.to + request.getBody.to) : Attempt(n)
  BY <1>1, <1>6 DEF Attempt
<1>7. CASE AnswerBare \/ Close \/ GoOn
  BY <1>7 DEF AnswerBare, Close, GoOn, Forget, Climbing
<1>8. CASE \E e \in ErrorsOf(cause) : PassUp(e)
  <2>1. PICK e \in ErrorsOf(cause) : err' = e /\ origin' = e /\ stage' = "climbing"
    BY <1>8 DEF PassUp
  <2> QED
    BY <2>1, CausesWellFormed DEF Climbing
<1>9. CASE \E layer \in Plain : Wrap(layer)
  <2>1. PICK layer \in Plain : Wrap(layer)
    BY <1>9
  <2>2. /\ stage = "climbing" /\ stage' = "climbing"
        /\ err' = <<layer>> \o err /\ origin' = origin
    BY <2>1 DEF Wrap
  <2>3. err \in Errors /\ WellFormed(err)
    BY <2>2 DEF Climbing
  <2>4. /\ err' \in Errors /\ WellFormed(err') /\ Root(err') = Root(err)
        /\ Kind[err'] = Kind[err]
    BY <2>2, <2>3, WrappingKeepsKind
  <2> QED
    BY <2>2, <2>4 DEF Climbing
<1>10. CASE UNCHANGED vars
  BY <1>1, <1>10 DEF vars
<1> QED
  BY <1>2, <1>3, <1>4, <1>5, <1>6, <1>7, <1>8, <1>9, <1>10 DEF Next

LEMMA ClimbingInvariant == Spec => []Climbing
BY InitClimbing, NextClimbing, PTL DEF Spec

\* Classify and all helpers say of an error what they said of it where it came
\* from, whatever well-formed errors the chain returns and however often they are
\* wrapped.
THEOREM KindSurvives == Spec => []KindSurvivesWrapping
<1>1. Climbing => KindSurvivesWrapping
  BY DEF Climbing, KindSurvivesWrapping, Says
<1> QED
  BY <1>1, ClimbingInvariant, PTL

\* Whether such an error is worth a retry depends on its root cause alone.
THEOREM RootDecides == Spec => []RootCauseDecides
<1>1. Climbing => RootCauseDecides
  <2> SUFFICES ASSUME Climbing, err # <<>>, Root(err) # "opaque"
               PROVE  "IsRetryable" \in Says(err) <=> Root(err) \in Transient
    BY DEF RootCauseDecides
  <2>1. err \in Errors /\ WellFormed(err)
    BY DEF Climbing
  <2> QED
    BY <2>1, OnlyTransientRetryable
<1> QED
  BY <1>1, ClimbingInvariant, PTL

-----------------------------------------------------------------------------
(* The type invariant.                                                     *)

\* The fields of the builder of which nothing above depends.
FieldsInv ==
  /\ DOMAIN rb = DOMAIN NewBuilder
  /\ rb.headers \subseteq {"Content-Type", "X-Middleware"}
  /\ DOMAIN rb.pathParams \subseteq Keys /\ IsFiniteSet(DOMAIN rb.pathParams)
  /\ rb.query \in BOOLEAN /\ rb.nilContext \in BOOLEAN /\ rb.err \in BOOLEAN

\* A reader is read to its end at most, and the request has no more of it.
ReadersInv ==
  /\ \A r \in Readers : position[r] \in 0..Size[r] /\ startAt[r] \in 0..Size[r]
  /\ LET piece == request.body
     IN  piece.src \in Readers =>
           piece.from >= 0 /\ piece.from <= piece.to /\ piece.to <= Size[piece.src]

StageInv ==
  /\ stage \in BuilderStages
  /\ header \in {"none", "builder", "copy"}
  /\ deadline \in {"none", "live", "canceled"}
  /\ cause \in {"none", "marshal", "read", "request", "transport"}
  /\ executions \in 0..MaxExecutions
  /\ Len(wire) <= MaxAttempts

LEMMA InitFields == Init => FieldsInv
BY FS_EmptySet DEF Init, FieldsInv, NewBuilder

LEMMA NextFields == FieldsInv /\ [Next]_vars => FieldsInv'
<1> SUFFICES ASSUME FieldsInv, [Next]_vars PROVE FieldsInv'
  OBVIOUS
<1>0. DOMAIN NewBuilder = {"body", "bodyBytes", "headers", "pathParams", "query",
                           "nilContext", "timeout", "err"}
  BY DEF NewBuilder
<1>1. CASE UNCHANGED rb
  BY <1>1 DEF FieldsInv
<1>2. CASE \E k \in Keys, v \in Values : SetPathParam(k, v)
  <2>1. PICK k \in Keys, v \in Values : SetPathParam(k, v)
    BY <1>2
  <2>2. /\ DOMAIN rb' = DOMAIN rb
        /\ DOMAIN rb'.pathParams = DOMAIN rb.pathParams \union {k}
        /\ rb'.headers = rb.headers /\ rb'.query = rb.query
        /\ rb'.nilContext = rb.nilContext /\ rb'.err = rb.err
    BY <2>1, <1>0 DEF FieldsInv, SetPathParam, Setter
  <2> QED
    BY <2>2, FS_AddElement DEF FieldsInv
<1>3. CASE \/ \E r \in Readers \union {"none"} : SetBody(r)
           \/ \E b \in ByteBodies : SetBodyBytes(b) \/ SetBodyEncoded(b)
           \/ MarshalFails
           \/ SetHeader
  BY <1>0, <1>3
     DEF FieldsInv, SetBody, SetBodyBytes, SetBodyEncoded, MarshalFails, SetHeader, Setter
<1>4. CASE \/ SetQueryParam
           \/ \E isNil \in BOOLEAN : Context(isNil)
           \/ \E positive \in BOOLEAN : SetTimeout(positive)
  BY <1>0, <1>4 DEF FieldsInv, SetQueryParam, Context, SetTimeout, Setter
<1>5. CASE MiddlewareSetsHeader
  BY <1>0, <1>5 DEF FieldsInv, MiddlewareSetsHeader
<1>6. CASE \E e \in ErrorsOf(cause) : PassUp(e)
  BY <1>6, FS_EmptySet DEF FieldsInv, PassUp, NewBuilder
<1>7. CASE \/ \E t \in Templates, order \in SetToSeqs(DOMAIN rb.pathParams) : Execute(t, order)
           \/ ExecuteMarshalErr \/ Resolve \/ NewRequestFails \/ Do \/ DoPanics
           \/ \E n \in 0..(request.body.to + request.getBody.to) : Attempt(n)
           \/ AnswerResponse \/ AnswerBare \/ AnswerError \/ Close \/ GoOn
           \/ \E layer \in Plain : Wrap(layer)
           \/ UNCHANGED vars
  BY <1>1, <1>7
     DEF Execute, ExecuteMarshalErr, Resolve, ResolveNil, ResolveBytes, ResolveBuffered,
         ResolveStream, ResolveFails, Resolved, NewRequestFails, Do, DoPanics, Attempt,
         AnswerResponse, AnswerBare, AnswerError, Close, GoOn, Wrap, vars
<1> QED
  BY <1>2, <1>3, <1>4, <1>5, <1>6, <1>7 DEF Next, Set

LEMMA InitStages == Init => StageInv
BY BuilderAssumption DEF Init, StageInv, BuilderStages

LEMMA NextStages == Typed /\ StageInv /\ [Next]_vars => StageInv'
<1> SUFFICES ASSUME Typed, StageInv, [Next]_vars PROVE StageInv'
  OBVIOUS
<1> USE BuilderAssumption DEF StageInv, BuilderStages
<1>1. CASE Set
  BY <1>1 DEF Set, SetBody, SetBodyBytes, SetBodyEncoded, MarshalFails, SetHeader,
     SetPathParam, SetQueryParam, Context, SetTimeout, Setter, exchange
<1>2. CASE \E t \in Templates, order \in SetToSeqs(DOMAIN rb.pathParams) : Execute(t, order)
  BY <1>2 DEF Execute, Setting
<1>3. CASE ExecuteMarshalErr
  BY <1>3 DEF ExecuteMarshalErr, Setting, Fail
<1>4. CASE Resolve
  BY <1>4 DEF Resolve, ResolveNil, ResolveBytes, ResolveBuffered, ResolveStream,
     ResolveFails, Resolved, Buffering, Fail, history
<1>5. CASE NewRequestFails \/ Do \/ DoPanics
  BY <1>5 DEF NewRequestFails, Do, DoPanics, Fail, Clone, exchange, history
<1>6. CASE MiddlewareSetsHeader \/ AnswerResponse \/ AnswerError
  BY <1>6 DEF MiddlewareSetsHeader, AnswerResponse, AnswerError, Fail, DeadlineAfter,
     exchange, history
<1>7. CASE \E n \in 0..(request.body.to + request.getBody.to) : Attempt(n)
  <2>1. PICK n \in 0..(request.body.to + request.getBody.to) : Attempt(n)
    BY <1>7
  <2>2. PICK sent : wire' = Append(wire, sent)
    BY <2>1 DEF Attempt
  <2>3. wire = <<>> \/ Len(wire) < MaxAttempts
    BY <2>1 DEF Attempt
  <2>4. Len(wire') = Len(wire) + 1 /\ Len(wire) \in Nat
    BY <2>2 DEF Typed
  <2>5. Len(wire') <= MaxAttempts
    BY <2>3, <2>4
  <2> QED
    BY <2>1, <2>5 DEF Attempt
<1>8. CASE AnswerBare \/ Close \/ GoOn
  BY <1>8 DEF AnswerBare, Close, GoOn, Forget, DeadlineAfter
<1>9. CASE \E e \in ErrorsOf(cause) : PassUp(e)
  BY <1>9 DEF PassUp
<1>10. CASE \E layer \in Plain : Wrap(layer)
  BY <1>10 DEF Wrap, exchange, history
<1>11. CASE UNCHANGED vars
  BY <1>11 DEF vars, exchange, history
<1> QED
  BY <1>1, <1>2, <1>3, <1>4, <1>5, <1>6, <1>7, <1>8, <1>9, <1>10, <1>11 DEF Next

LEMMA InitReaders == Init => ReadersInv
BY BuilderAssumption DEF Init, ReadersInv, NoRequest, NoPiece

LEMMA NextReaders == Typed /\ ReadersInv /\ [Next]_vars => ReadersInv'
<1> SUFFICES ASSUME Typed, ReadersInv, [Next]_vars PROVE ReadersInv'
  OBVIOUS
<1>0. \A r \in Readers : Size[r] \in Nat
  BY BuilderAssumption
<1>1. ASSUME UNCHANGED <<position, startAt>>, UNCHANGED request \/ request' = NoRequest
      PROVE  ReadersInv'
  BY <1>1, BuilderAssumption DEF ReadersInv, NoRequest, NoPiece
<1>2. CASE Set
  BY <1>1, <1>2 DEF Set, SetBody, SetBodyBytes, SetBodyEncoded, MarshalFails, SetHeader,
     SetPathParam, SetQueryParam, Context, SetTimeout, Setter, exchange
<1>3. CASE \E t \in Templates, order \in SetToSeqs(DOMAIN rb.pathParams) : Execute(t, order)
  BY <1>3 DEF Execute, ReadersInv
<1>4. CASE ResolveNil \/ ResolveBytes
  <2>1. UNCHANGED <<position, startAt>> /\ request'.body.src \notin Readers
    BY <1>4, BuilderAssumption
       DEF ResolveNil, ResolveBytes, Resolved, history, NoPiece, Whole, Typed
  <2> QED
    BY <2>1 DEF ReadersInv
<1>5. CASE ResolveBuffered \/ ResolveStream \/ ResolveFails
  <2> DEFINE r == rb.body
  <2>1. /\ r \in Readers
        /\ position' = [position EXCEPT ![r] = @ + Buffered]
        /\ startAt' = startAt
    BY <1>5 DEF ResolveBuffered, ResolveStream, ResolveFails, Buffering, Resolved, history
  <2>2. position[r] \in 0..Size[r] /\ MaxBuffer \in Nat /\ Size[r] \in Nat
    BY <2>1, BuilderAssumption DEF ReadersInv
  <2>3. Buffered \in 0..(Size[r] - position[r])
    BY <2>2 DEF Buffered, BufferLimit, Left
  <2>4. position[r] + Buffered \in 0..Size[r]
    BY <2>2, <2>3
  <2>5. \A s \in Readers : position'[s] \in 0..Size[s] /\ startAt'[s] \in 0..Size[s]
    BY <2>1, <2>4 DEF Typed, ReadersInv
  <2>6. \/ request'.body = [src |-> r, from |-> position[r], to |-> position[r] + Buffered]
        \/ request'.body = [src |-> r, from |-> position[r], to |-> Size[r]]
        \/ request' = request
    <3>1. CASE ResolveBuffered
      BY <3>1 DEF ResolveBuffered, Resolved
    <3>2. CASE ResolveStream
      BY <3>2 DEF ResolveStream, Resolved
    <3>3. CASE ResolveFails
      BY <3>3 DEF ResolveFails
    <3> QED
      BY <1>5, <3>1, <3>2, <3>3
  <2> QED
    BY <2>2, <2>3, <2>4, <2>5, <2>6 DEF ReadersInv
<1>6. CASE \E n \in 0..(request.body.to + request.getBody.to) : Attempt(n)
  <2>1. PICK n \in 0..(request.body.to + request.getBody.to) : Attempt(n)
    BY <1>6
  <2>2. UNCHANGED <<request, startAt>>
    BY <2>1 DEF Attempt
  <2>3. CASE position' = position
    BY <1>1, <2>2, <2>3
  <2>4. CASE position' # position
    <3> DEFINE piece == request.body
    <3>1. ~Replayable
      BY <2>1, <2>4 DEF Attempt
    <3>2. request.getBody = NoPiece
      BY <3>1 DEF Replayable
    <3>3. /\ n <= piece.to - piece.from
          /\ position' = [position EXCEPT ![piece.src] = piece.from + n]
      BY <2>1, <2>4, <3>2 DEF Attempt
    <3>4. piece.src \in Readers
      BY <2>4, <3>3 DEF Typed
    <3>5. piece.from \in Int /\ piece.to \in Int /\ n \in Nat
      BY <3>2 DEF Typed, Pieces, NoPiece
    <3>6. piece.from + n \in 0..Size[piece.src]
      BY <1>0, <3>3, <3>4, <3>5 DEF ReadersInv
    <3> HIDE DEF piece
    <3>7. \A s \in Readers : position'[s] \in 0..Size[s]
      BY <3>3, <3>4, <3>6 DEF Typed, ReadersInv
    <3> QED
      BY <2>2, <3>7 DEF ReadersInv
  <2> QED
    BY <2>3, <2>4
<1>7. CASE \E e \in ErrorsOf(cause) : PassUp(e)
  <2>1. /\ position' = [r \in Readers |-> 0] /\ startAt' = [r \in Readers |-> 0]
        /\ request' = NoRequest
    BY <1>7 DEF PassUp
  <2> QED
    BY <1>0, <2>1, BuilderAssumption DEF ReadersInv, NoRequest, NoPiece
<1>8. CASE \/ ExecuteMarshalErr \/ NewRequestFails \/ Do \/ DoPanics
           \/ MiddlewareSetsHeader \/ AnswerResponse \/ AnswerBare \/ AnswerError
           \/ Close \/ GoOn
           \/ \E layer \in Plain : Wrap(layer)
           \/ UNCHANGED vars
  BY <1>1, <1>8 DEF ExecuteMarshalErr, NewRequestFails, Do, DoPanics,
     MiddlewareSetsHeader, AnswerResponse, AnswerBare, AnswerError, Close, GoOn, Wrap,
     Forget, vars, exchange, history
<1> QED
  BY <1>2, <1>3, <1>4, <1>5, <1>6, <1>7, <1>8 DEF Next, Resolve

\* Every variable of the builder's exchange keeps its type, no reader is read past
\* its end and no request is attempted more often than the chain may.
THEOREM BuilderTypeCorrect == Spec => []TypeOK
<1>1. BuilderInv /\ [Next]_vars => BuilderInv'
  BY SetKeeps, ResolveKeeps, AttemptKeeps, CallerKeeps, OthersKeep DEF Next
<1>2. BuilderInv => Typed
  BY DEF BuilderInv
<1>3. Typed /\ FieldsInv /\ StageInv /\ ReadersInv /\ Climbing => TypeOK
  <2> SUFFICES ASSUME Typed, FieldsInv, StageInv, ReadersInv, Climbing PROVE TypeOK
    OBVIOUS
  <2>1. err \in Seq(Layers) /\ origin \in Seq(Layers)
    <3>1. CASE stage = "climbing"
      BY <3>1, Zenon DEF Climbing, Errors
    <3>2. CASE stage # "climbing"
      <4>1. <<>> \in Seq(Layers)
        OBVIOUS
      <4> QED
        BY <3>2, <4>1, Zenon DEF Climbing
    <3> QED
      BY <3>1, <3>2
  <2>2. {err, origin} \subseteq Seq(Layers)
    BY <2>1
  <2>3. {rb.query, rb.nilContext, rb.timeout, rb.err} \subseteq BOOLEAN
    BY Zenon DEF Typed, FieldsInv
  <2>4. /\ rb.body \in {"none", "own"} \union Readers
        /\ rb.bodyBytes \in {"none"} \union ByteBodies
        /\ last \in {"none"} \union Readers \union ByteBodies
    BY DEF Typed, Sources
  <2> QED
    BY <2>2, <2>3, <2>4 DEF FieldsInv, StageInv, ReadersInv, TypeOK
<1> QED
  BY <1>1, <1>2, <1>3, InitBuilder, InitFields, NextFields, InitStages, NextStages,
     InitReaders, NextReaders, ClimbingInvariant, PTL DEF Spec

-----------------------------------------------------------------------------
(* The URL.                                                                *)

\* The parameters params put into the URL t one after the other.
Substituted(t, order, params) ==
  FoldLeft(LAMBDA url, k : PutInPlace(url, k, params[k]), t, order)

\* f is what becomes of t, for each set of places in an order of n parameters.
PutsInto(f, n, t, order, params) ==
  \A s \in SUBSET (1..n) :
    f[s] = IF s = {} THEN t
           ELSE PutInPlace(f[s \ {Max(s)}], order[Max(s)], params[order[Max(s)]])

\* FoldLeft over the parameters satisfies its recursive definition.
LEMMA SubstitutionEquation ==
  ASSUME NEW t, NEW params, NEW n \in Nat, NEW order, DOMAIN order = 1..n,
         t = [i \in DOMAIN t |-> t[i]]
  PROVE  \E f : Substituted(t, order, params) = f[1..n] /\ PutsInto(f, n, t, order, params)
<1> DEFINE put(url, i) == PutInPlace(url, order[i], params[order[i]])
           T == [DOMAIN t -> {t[i] : i \in DOMAIN t}
                               \union {PathEscape(params[order[i]]) : i \in 1..n}]
           body(f) == [s \in SUBSET (1..n) |->
                         IF s = {} THEN t ELSE put(f[s \ {Max(s)}], Max(s))]
           iter == CHOOSE f : f = body(f)
           step == [i \in 1..n |-> [url \in T |-> put(url, i)]]
<1>1. Substituted(t, order, params) = iter[1..n]
  BY DEF Substituted, FoldLeft, MapThenFoldSet
<1>2. \A i \in 1..n : \A url \in T : put(url, i) \in T
  BY DEF PutInPlace
<1>3. t \in T
  OBVIOUS
<1> HIDE DEF T, put
<1>4. step \in [1..n -> [T -> T]] /\ \A i \in 1..n : \A url \in T : step[i][url] = put(url, i)
  BY <1>2
<1> HIDE DEF step
<1>5. PICK f \in [SUBSET (1..n) -> T] : FoldsOver(f, n, t, step)
  BY <1>3, <1>4, FoldSolvable
<1>6. ASSUME NEW s \in SUBSET (1..n), s # {}
      PROVE  f[s] = put(f[s \ {Max(s)}], Max(s))
  <2>1. Max(s) \in 1..n /\ f[s \ {Max(s)}] \in T
    BY <1>5, <1>6, GreatestIndex
  <2> QED
    BY <1>4, <1>5, <1>6, <2>1 DEF FoldsOver
<1>7. f = body(f)
  BY <1>5, <1>6 DEF FoldsOver
<1>8. iter = body(iter)
  <2> HIDE DEF body
  <2> QED
    BY <1>7
<1> HIDE DEF iter
<1>9. \A s \in SUBSET (1..n) :
        iter[s] = IF s = {} THEN t ELSE put(iter[s \ {Max(s)}], Max(s))
  BY <1>8
<1> QED
  BY <1>1, <1>9 DEF put, PutsInto

\* Whatever the order, each parameter goes into all its places, and what has been
\* put there is not taken for a placeholder.
LEMMA AllSubstituted ==
  ASSUME NEW t, NEW params, NEW order \in SetToSeqs(DOMAIN params),
         IsFiniteSet(DOMAIN params), t = [i \in DOMAIN t |-> t[i]]
  PROVE  Substituted(t, order, params) =
           [i \in DOMAIN t |-> IF \E k \in DOMAIN params : t[i] = Token(k)
                                 THEN PathEscape(params[t[i].text]) ELSE t[i]]
<1> DEFINE n == Cardinality(DOMAIN params)
           value(i, m) == IF \E j \in 1..m : t[i] = Token(order[j])
                            THEN PathEscape(params[t[i].text]) ELSE t[i]
           url(m) == [i \in DOMAIN t |-> value(i, m)]
<1>1. /\ n \in Nat /\ order \in [1..n -> DOMAIN params]
      /\ \A i, j \in 1..n : i # j => order[i] # order[j]
  BY FS_CardinalityType DEF SetToSeqs
<1>2. \A k \in DOMAIN params : \E j \in 1..n : order[j] = k
  <2>1. order \in Injection(1..n, DOMAIN params)
    BY <1>1 DEF Injection, IsInjective
  <2>2. IsFiniteSet(1..n) /\ Cardinality(1..n) = n
    BY <1>1, FS_Interval
  <2>3. order \in Surjection(1..n, DOMAIN params)
    BY <2>1, <2>2, FS_Injection
  <2> QED
    BY <2>3 DEF Surjection
<1>3. \A k : /\ Token(k).text = k
             /\ \A v : PathEscape(v) # Token(k)
  BY DEF Token, PathEscape
<1>4. PICK f : Substituted(t, order, params) = f[1..n] /\ PutsInto(f, n, t, order, params)
  <2>1. DOMAIN order = 1..n
    BY <1>1
  <2> QED
    BY <1>1, <2>1, SubstitutionEquation
<1> DEFINE Done == {m \in Nat : m <= n => f[1..m] = url(m)}
<1>5. 0 \in Done
  <2>1. 1..0 = {} /\ \A i : value(i, 0) = t[i]
    OBVIOUS
  <2>2. f[{}] = t
    BY <1>4 DEF PutsInto
  <2> QED
    BY <2>1, <2>2
<1>6. ASSUME NEW m \in Done PROVE m + 1 \in Done
  <2> SUFFICES ASSUME m + 1 <= n PROVE f[1..(m + 1)] = url(m + 1)
    OBVIOUS
  <2>1. m \in Nat /\ m + 1 \in 1..n /\ (m + 1) - 1 = m /\ m <= n
    BY <1>1
  <2>2. f[1..m] = url(m)
    BY <2>1
  <2> DEFINE key == order[m + 1]
  <2>3. f[1..(m + 1)] = PutInPlace(f[1..m], key, params[key])
    <3>1. 1..(m + 1) # {} /\ Max(1..(m + 1)) = m + 1 /\ (1..(m + 1)) \ {m + 1} = 1..m
      BY <1>1, <2>1, FoldGoesOn
    <3>2. 1..(m + 1) \in SUBSET (1..n)
      BY <1>1, <2>1
    <3> QED
      BY <1>4, <3>1, <3>2 DEF PutsInto
  <2>4. ASSUME NEW i \in DOMAIN t
        PROVE  value(i, m + 1) = IF value(i, m) = Token(key) THEN PathEscape(params[key])
                                                             ELSE value(i, m)
    <3>1. 1..(m + 1) = (1..m) \union {m + 1}
      BY <2>1
    <3>2. CASE \E j \in 1..m : t[i] = Token(order[j])
      <4>1. value(i, m) = PathEscape(params[t[i].text])
        BY <3>2
      <4>2. value(i, m + 1) = PathEscape(params[t[i].text])
        BY <3>1, <3>2
      <4> QED
        BY <1>3, <4>1, <4>2
    <3>3. CASE ~ \E j \in 1..m : t[i] = Token(order[j])
      <4>1. value(i, m) = t[i]
        BY <3>3
      <4>2. (\E j \in 1..(m + 1) : t[i] = Token(order[j])) <=> t[i] = Token(key)
        BY <3>1, <3>3
      <4>3. t[i] = Token(key) => t[i].text = key
        BY <1>3
      <4> QED
        BY <4>1, <4>2, <4>3
    <3> QED
      BY <3>2, <3>3
  <2> HIDE DEF value, key
  <2>5. PutInPlace(url(m), key, params[key]) = url(m + 1)
    BY <2>4 DEF PutInPlace
  <2> QED
    BY <2>2, <2>3, <2>5
<1>7. \A m \in Nat : m \in Done
  BY <1>5, <1>6, InductiveSet
<1>8. f[1..n] = url(n)
  BY <1>1, <1>7
<1>9. ASSUME NEW i \in DOMAIN t
      PROVE  (\E j \in 1..n : t[i] = Token(order[j])) <=> \E k \in DOMAIN params : t[i] = Token(k)
  BY <1>1, <1>2
<1> QED
  BY <1>4, <1>8, <1>9

LEMMA NextUrl == FieldsInv /\ UrlAsDescribed /\ [Next]_vars => UrlAsDescribed'
<1> SUFFICES ASSUME FieldsInv, UrlAsDescribed, [Next]_vars, stage' = "resolving"
             PROVE  UrlAsDescribed'
  BY DEF UrlAsDescribed
<1>1. CASE UNCHANGED vars
  BY <1>1 DEF UrlAsDescribed, WithQuery, HasQuery, Token, vars, exchange
<1>2. CASE \E t \in Templates, order \in SetToSeqs(DOMAIN rb.pathParams) : Execute(t, order)
  <2>1. PICK t \in Templates, order \in SetToSeqs(DOMAIN rb.pathParams) : Execute(t, order)
    BY <1>2
  <2> DEFINE url == [i \in DOMAIN t |->
                       IF \E k \in DOMAIN rb.pathParams : t[i] = Token(k)
                         THEN PathEscape(rb.pathParams[t[i].text]) ELSE t[i]]
  <2>2. finalURL' = WithQuery(Substituted(t, order, rb.pathParams)) /\ rb' = rb
    BY <2>1 DEF Execute, BuildURL, Substituted
  <2>3. t = [i \in DOMAIN t |-> t[i]]
    BY BuilderAssumption
  <2>4. Substituted(t, order, rb.pathParams) = url
    BY <2>3, AllSubstituted DEF FieldsInv
  <2>5. finalURL' = WithQuery(url)
    BY <2>2, <2>4
  <2> QED
    BY <2>2, <2>5 DEF UrlAsDescribed, WithQuery, HasQuery, PathEscape, Token
<1>3. CASE Set \/ Resolve
  BY <1>3 DEF Set, SetBody, SetBodyBytes, SetBodyEncoded, MarshalFails, SetHeader,
     SetPathParam, SetQueryParam, Context, SetTimeout, Setter, Setting, Resolve, ResolveNil,
     ResolveBytes, ResolveBuffered, ResolveStream, ResolveFails, Resolved, Fail
<1>4. CASE \/ ExecuteMarshalErr \/ NewRequestFails \/ Do \/ DoPanics
           \/ MiddlewareSetsHeader \/ AnswerResponse \/ AnswerBare \/ AnswerError
           \/ Close \/ GoOn
           \/ \E n \in 0..(request.body.to + request.getBody.to) : Attempt(n)
           \/ \E e \in ErrorsOf(cause) : PassUp(e)
           \/ \E layer \in Plain : Wrap(layer)
  BY <1>4 DEF ExecuteMarshalErr, NewRequestFails, Do, DoPanics, MiddlewareSetsHeader,
     AnswerResponse, AnswerBare, AnswerError, Close, GoOn, Attempt, PassUp, Wrap, Fail
<1> QED
  BY <1>1, <1>2, <1>3, <1>4 DEF Next

\* The URL of an execution (request.go, execute) is the template with all the
\* parameters in their places at once and the query at its end, in whatever order
\* Go ranges over the parameters.
THEOREM URLIsDescribed == Spec => []UrlAsDescribed
<1>1. Init => UrlAsDescribed
  BY DEF Init, UrlAsDescribed
<1> QED
  BY <1>1, InitFields, NextFields, NextUrl, PTL DEF Spec
=============================================================================
