---------------------------- MODULE RequestBuilder ----------------------------
(***************************************************************************)
(* RequestBuilder of request.go and Client.Do: a caller that calls the     *)
(* setters in any order, executes the builder more than once, reads or     *)
(* closes what it gets and passes errors up through its own frames.        *)
(*                                                                         *)
(* Below Do there is a chain that may retry, add headers to the request it *)
(* was given, and answer with anything.                                    *)
(***************************************************************************)
EXTENDS ErrorClass, SequencesExt

CONSTANTS
  Readers,           \* the io.Readers given to SetBody
  Broken,            \* those that fail with something else than EOF
  ByteBodies,        \* the byte slices of the other setters, not nil
  Size,              \* Size[s]: the length of the reader or slice s
  MaxBuffer,         \* maxBufferBytes
  Keys,              \* the path parameters
  Values,            \* the texts they are set to
  Templates,         \* the URLs given to Execute
  TransportErrors,   \* what the chain may return as an error
  MaxAttempts,       \* bound: how often the chain sends a request
  MaxExecutions,     \* bound: executions of the builder
  MaxLayers          \* bound: layers of an error

ASSUME BuilderAssumption ==
  /\ Broken \subseteq Readers
  /\ Readers \intersect ByteBodies = {}
  /\ {"none", "own"} \intersect (Readers \union ByteBodies) = {}
  /\ Size \in [Readers \union ByteBodies -> Nat]
  /\ MaxBuffer \in Nat
  /\ MaxAttempts \in Nat \ {0}
  /\ {MaxExecutions, MaxLayers} \subseteq Nat
  /\ \A e \in TransportErrors : e \in Seq(Layers) /\ WellFormed(e)
  /\ \A t \in Templates : t \in Seq([text : STRING, escaped : BOOLEAN])

-----------------------------------------------------------------------------
VARIABLES
  rb,            \* the RequestBuilder: its fields as in the code, except that
                 \* headers is the set of their names, query says whether
                 \* queryParams holds any, nilContext whether ctx is nil, timeout
                 \* whether it is positive, and err whether it is set
  position,      \* position[r]: how much of the reader r has been read
  stage,         \* where the caller is
  finalURL,      \* of the execution under way
  request,       \* req.Body and what req.GetBody makes, of that execution
  header,        \* req.Header: no request, the builder's own map, or a copy
  deadline,      \* the context that execute made
  cause,         \* what made the execution fail
  err,           \* the error, once the caller looks at it
  executions,
  last,          \* history: what the last body setter was given
  startAt,       \* history: position when the execution began
  wire,          \* history: what each attempt of the execution read
  origin         \* history: err, before the caller wrapped it

exchange == <<position, finalURL, request, header, deadline, cause>>
errors == <<err, origin>>
history == <<executions, last, startAt, wire>>
vars == <<rb, exchange, errors, history, stage>>

BuilderStages == {"idle", "resolving", "requesting", "sending", "answered",
                  "failed", "climbing", "panicked"}

\* A piece of a source, from its byte number `from' up to `to'.
NoPiece == [src |-> "none", from |-> 0, to |-> 0]
Whole(b) == [src |-> b, from |-> 0, to |-> Size[b]]

NoRequest == [body |-> NoPiece, getBody |-> NoPiece]

\* What Client.R returns.
NewBuilder ==
  [body |-> "none", bodyBytes |-> "none", headers |-> {}, pathParams |-> <<>>,
   query |-> FALSE, nilContext |-> FALSE, timeout |-> FALSE, err |-> FALSE]

Init ==
  /\ rb = NewBuilder
  /\ position = [r \in Readers |-> 0]
  /\ stage = "idle"
  /\ finalURL = <<>>
  /\ request = NoRequest
  /\ header = "none"
  /\ deadline = "none"
  /\ cause = "none"
  /\ err = <<>>
  /\ executions = 0
  /\ last = "none"
  /\ startAt = position
  /\ wire = <<>>
  /\ origin = <<>>

-----------------------------------------------------------------------------
(* The setters.                                                            *)

Setting == stage = "idle" /\ executions < MaxExecutions

Setter(updated, source) ==
  /\ Setting
  /\ rb' = updated
  /\ last' = source
  /\ UNCHANGED <<exchange, errors, executions, startAt, wire, stage>>

\* Of a reader or of nil: rb.bodyBytes stays.
SetBody(r) == Setter([rb EXCEPT !.body = r], r)

\* SetBodyBytes and SetBodyString.
SetBodyBytes(b) == Setter([rb EXCEPT !.body = "own", !.bodyBytes = b], b)

\* SetBodyJSON, SetBodyXML and SetBodyForm, which set the Content-Type first.
SetBodyEncoded(b) ==
  Setter([rb EXCEPT !.body = "own", !.bodyBytes = b, !.headers = @ \union {"Content-Type"}], b)

\* SetBodyJSON or SetBodyXML of a value that does not marshal.
MarshalFails == Setter([rb EXCEPT !.err = TRUE], last)

SetHeader == Setter([rb EXCEPT !.headers = @ \union {"Content-Type"}], last)

SetPathParam(k, v) ==
  Setter([rb EXCEPT !.pathParams =
            [p \in DOMAIN @ \union {k} |-> IF p = k THEN v ELSE @[p]]], last)

SetQueryParam == Setter([rb EXCEPT !.query = TRUE], last)

Context(isNil) == Setter([rb EXCEPT !.nilContext = isNil], last)

SetTimeout(positive) == Setter([rb EXCEPT !.timeout = positive], last)

-----------------------------------------------------------------------------
(* The URL: a sequence of tokens, of which those whose text is a key stand *)
(* for "{key}".  url.PathEscape leaves nothing in a value that could be    *)
(* taken for a placeholder, or for the "?" of the query.                   *)

Token(text) == [text |-> text, escaped |-> FALSE]

\* Mutant: the value goes in as it is.
PathEscape_Raw(v) == Token(v)

PathEscape(v) == [text |-> v, escaped |-> TRUE]

\* strings.ReplaceAll(url, "{k}", url.PathEscape(v))
PutInPlace(url, k, v) ==
  [i \in DOMAIN url |-> IF url[i] = Token(k) THEN PathEscape(v) ELSE url[i]]

HasQuery(url) == \E i \in DOMAIN url : url[i] = Token("?")

WithQuery(url) ==
  IF rb.query
    THEN url \o <<Token(IF HasQuery(url) THEN "&" ELSE "?"), Token("query")>>
    ELSE url

\* The parameters are replaced in the order in which Go ranges over the map.
BuildURL(template, order) ==
  WithQuery(FoldLeft(LAMBDA url, k : PutInPlace(url, k, rb.pathParams[k]), template, order))

-----------------------------------------------------------------------------
(* execute                                                                 *)

Fail(why) ==
  /\ stage' = "failed"
  /\ cause' = why

Execute(template, order) ==
  /\ Setting
  /\ ~rb.err
  /\ stage' = "resolving"
  /\ finalURL' = BuildURL(template, order)
  /\ executions' = executions + 1
  /\ startAt' = position
  /\ wire' = <<>>
  /\ UNCHANGED <<rb, position, request, header, deadline, cause, errors, last>>

ExecuteMarshalErr ==
  /\ Setting
  /\ rb.err
  /\ Fail("marshal")
  /\ executions' = executions + 1
  /\ UNCHANGED <<rb, position, finalURL, request, header, deadline, errors,
                 last, startAt, wire>>

\* Mutant: the limit is maxBufferBytes itself.
BufferLimit_Exact == MaxBuffer

\* What bufferBody reads at most.
BufferLimit == MaxBuffer + 1

Resolved(rbody, getBody) ==
  /\ stage' = "requesting"
  /\ request' = [body |-> rbody, getBody |-> getBody]
  /\ UNCHANGED <<rb, finalURL, header, deadline, cause, errors, history>>

\* resolveBody: nothing to read from.  GetBody is set all the same if there are
\* bytes.
ResolveNil ==
  /\ stage = "resolving"
  /\ rb.body = "none"
  /\ Resolved(NoPiece, IF rb.bodyBytes = "none" THEN NoPiece ELSE Whole(rb.bodyBytes))
  /\ UNCHANGED position

\* There are bytes.
ResolveBytes ==
  /\ stage = "resolving"
  /\ rb.body # "none"
  /\ rb.bodyBytes # "none"
  /\ Resolved(Whole(rb.bodyBytes), Whole(rb.bodyBytes))
  /\ UNCHANGED position

Left == Size[rb.body] - position[rb.body]

\* Mutant: what was asked for is taken for what was read.
Buffered_Asked == BufferLimit

\* How much bufferBody gets from io.LimitReader.
Buffered == IF Left > BufferLimit THEN BufferLimit ELSE Left

\* bufferBody reads from the reader, which fails if it is read to its end.
Buffering(fails) ==
  /\ stage = "resolving"
  /\ rb.body \in Readers
  /\ rb.bodyBytes = "none"
  /\ position' = [position EXCEPT ![rb.body] = @ + Buffered]
  /\ fails <=> rb.body \in Broken /\ Buffered < BufferLimit

\* All of it fits: the request can be replayed.
ResolveBuffered ==
  /\ Buffering(FALSE)
  /\ Buffered <= MaxBuffer
  /\ LET piece == [src |-> rb.body, from |-> position[rb.body], to |-> position[rb.body] + Buffered]
     IN  Resolved(piece, piece)

\* It does not: what was read goes before the rest, and the request goes out once.
ResolveStream ==
  /\ Buffering(FALSE)
  /\ Buffered > MaxBuffer
  /\ Resolved([src |-> rb.body, from |-> position[rb.body], to |-> Size[rb.body]], NoPiece)

ResolveFails ==
  /\ Buffering(TRUE)
  /\ Fail("read")
  /\ UNCHANGED <<rb, finalURL, request, header, deadline, errors, history>>

\* http.NewRequest does not like the URL or the method.
NewRequestFails ==
  /\ stage = "requesting"
  /\ Fail("request")
  /\ UNCHANGED <<rb, position, finalURL, request, header, deadline, errors, history>>

\* Mutant: Do puts the context into a shallow copy of the request.
Clone_Shallow(map) == map

\* req.Clone, on the header map of the request.
Clone(map) == "copy"

\* context.WithTimeout panics on a nil parent.
DoPanics ==
  /\ stage = "requesting"
  /\ rb.timeout /\ rb.nilContext
  /\ stage' = "panicked"
  /\ UNCHANGED <<rb, exchange, errors, history>>

\* The request gets the header map of the builder, the timeout starts, and
\* Client.Do, to which a nil context is Background, calls the chain.
Do ==
  /\ stage = "requesting"
  /\ ~(rb.timeout /\ rb.nilContext)
  /\ stage' = "sending"
  /\ header' = Clone("builder")
  /\ finalURL' = <<>>
  /\ deadline' = IF rb.timeout THEN "live" ELSE "none"
  /\ UNCHANGED <<rb, position, request, cause, errors, history>>

-----------------------------------------------------------------------------
(* The chain, and what execute makes of its answer.                        *)

\* A middleware sets a header on the request it was given.
MiddlewareSetsHeader ==
  /\ stage = "sending"
  /\ rb' = IF header = "builder" THEN [rb EXCEPT !.headers = @ \union {"X-Middleware"}] ELSE rb
  /\ UNCHANGED <<exchange, errors, history, stage>>

\* canRetry, of a method that may be retried.
Replayable == request.body = NoPiece \/ request.getBody # NoPiece

\* The transport reads n of the body of the next attempt: all there is, or less
\* if it has had enough.  Nobody else reads a stream meanwhile.
Attempt(n) ==
  LET piece == IF wire = <<>> \/ request.getBody = NoPiece
                 THEN request.body ELSE request.getBody
  IN  /\ stage = "sending"
      /\ wire # <<>> => Replayable /\ Len(wire) < MaxAttempts
      /\ n <= piece.to - piece.from
      /\ wire' = Append(wire, [src |-> piece.src, from |-> piece.from,
                               to |-> piece.from + n,
                               eof |-> n = piece.to - piece.from])
      /\ position' =
           IF ~Replayable /\ piece.from + n > position[piece.src]
             THEN [position EXCEPT ![piece.src] = piece.from + n]
             ELSE position
      /\ UNCHANGED <<rb, finalURL, request, header, deadline, cause, errors,
                     executions, last, startAt, stage>>

\* Mutant: cancel is deferred.
DeadlineAfter_Defer(form) == IF deadline = "live" THEN "canceled" ELSE deadline

\* cancel is left to the body, if there is one.
DeadlineAfter(form) ==
  IF deadline = "live" /\ form # "response" THEN "canceled" ELSE deadline

\* What the execution leaves behind besides the builder and the readers.
Forget ==
  /\ finalURL' = <<>>
  /\ request' = NoRequest
  /\ wire' = <<>>
  /\ cause' = "none"
  /\ err' = <<>>

AnswerResponse ==
  /\ stage = "sending"
  /\ wire # <<>>
  /\ stage' = "answered"
  /\ deadline' = DeadlineAfter("response")
  /\ UNCHANGED <<rb, position, finalURL, request, header, cause, errors, history>>

\* There is no body for the caller to close.
AnswerBare ==
  /\ stage = "sending"
  /\ wire # <<>>
  /\ stage' = "idle"
  /\ deadline' = DeadlineAfter("bare")
  /\ Forget
  /\ UNCHANGED <<rb, position, header, origin, executions, last, startAt>>

\* With attempts or without any: a middleware may refuse.
AnswerError ==
  /\ stage = "sending"
  /\ Fail("transport")
  /\ deadline' = DeadlineAfter("error")
  /\ UNCHANGED <<rb, position, finalURL, request, header, errors, history>>

-----------------------------------------------------------------------------
(* The caller.                                                             *)

\* Closes the body, by itself or through DecodeJSON, whatever that returns.
Close ==
  /\ stage = "answered"
  /\ stage' = "idle"
  /\ deadline' = IF deadline = "live" THEN "canceled" ELSE deadline
  /\ Forget
  /\ UNCHANGED <<rb, position, header, origin, executions, last, startAt>>

\* Goes on with the builder in spite of an error.
GoOn ==
  /\ stage = "failed"
  /\ stage' = "idle"
  /\ Forget
  /\ UNCHANGED <<rb, position, header, deadline, origin, executions, last, startAt>>

\* The errors behind each cause; that of NewRequest is a *url.Error for a URL
\* that does not parse.
ErrorsOf(why) ==
  CASE why = "transport" -> TransportErrors
    [] why = "request"   -> {<<"url", "opaque">>, <<"opaque">>}
    [] OTHER             -> {<<"opaque">>}

\* Leaves the function with the error, and the builder behind.
PassUp(e) ==
  /\ stage = "failed"
  /\ e \in ErrorsOf(cause)
  /\ stage' = "climbing"
  /\ err' = e
  /\ origin' = e
  /\ rb' = NewBuilder
  /\ position' = [r \in Readers |-> 0]
  /\ finalURL' = <<>> /\ request' = NoRequest /\ header' = "none"
  /\ deadline' = "none" /\ cause' = "none"
  /\ executions' = MaxExecutions /\ last' = "none" /\ wire' = <<>>
  /\ startAt' = [r \in Readers |-> 0]

\* A frame of the caller wraps it: fmt.Errorf("%w"), Classify, or a url.Error.
Wrap(layer) ==
  /\ stage = "climbing"
  /\ Len(err) < MaxLayers
  /\ err' = <<layer>> \o err
  /\ UNCHANGED <<rb, exchange, origin, history, stage>>

-----------------------------------------------------------------------------
Set ==
  \/ \E r \in Readers \union {"none"} : SetBody(r)
  \/ \E b \in ByteBodies : SetBodyBytes(b) \/ SetBodyEncoded(b)
  \/ MarshalFails
  \/ SetHeader
  \/ \E k \in Keys, v \in Values : SetPathParam(k, v)
  \/ SetQueryParam
  \/ \E isNil \in BOOLEAN : Context(isNil)
  \/ \E positive \in BOOLEAN : SetTimeout(positive)

Resolve ==
  \/ ResolveNil
  \/ ResolveBytes
  \/ ResolveBuffered
  \/ ResolveStream
  \/ ResolveFails

Next ==
  \/ Set
  \/ \E t \in Templates, order \in SetToSeqs(DOMAIN rb.pathParams) : Execute(t, order)
  \/ ExecuteMarshalErr
  \/ Resolve
  \/ NewRequestFails
  \/ Do
  \/ DoPanics
  \/ MiddlewareSetsHeader
  \/ \E n \in 0..(request.body.to + request.getBody.to) : Attempt(n)
  \/ AnswerResponse
  \/ AnswerBare
  \/ AnswerError
  \/ Close
  \/ GoOn
  \/ \E e \in ErrorsOf(cause) : PassUp(e)
  \/ \E layer \in Plain : Wrap(layer)

Spec == Init /\ [][Next]_vars

-----------------------------------------------------------------------------
(* Correctness.                                                            *)

\* Every variable keeps its type, and no reader is read past its end.
TypeOK ==
  /\ rb.body \in {"none", "own"} \union Readers
  /\ rb.bodyBytes \in {"none"} \union ByteBodies
  /\ rb.headers \subseteq {"Content-Type", "X-Middleware"}
  /\ DOMAIN rb.pathParams \subseteq Keys
  /\ {rb.query, rb.nilContext, rb.timeout, rb.err} \subseteq BOOLEAN
  /\ header \in {"none", "builder", "copy"}
  /\ \A r \in Readers : position[r] \in 0..Size[r] /\ startAt[r] \in 0..Size[r]
  /\ stage \in BuilderStages
  /\ deadline \in {"none", "live", "canceled"}
  /\ cause \in {"none", "marshal", "read", "request", "transport"}
  /\ {err, origin} \subseteq Seq(Layers)
  /\ executions \in 0..MaxExecutions
  /\ last \in {"none"} \union Readers \union ByteBodies
  /\ Len(wire) <= MaxAttempts

\* The body that the last body setter asked for, as it was when the execution
\* began: a reader is what is left of it.
Described ==
  IF last \in Readers THEN [src |-> last, from |-> startAt[last], to |-> Size[last]]
  ELSE IF last \in ByteBodies THEN Whole(last) ELSE NoPiece

CarriesDescribed(attempt) ==
  /\ attempt.src = Described.src
  /\ attempt.from = Described.from
  /\ attempt.eof => attempt.to = Described.to

\* A reader was given to SetBody after bytes had been given to another setter.
BytesLinger == rb.bodyBytes # "none" /\ last \notin ByteBodies

\* Every attempt of every execution carries the whole body that the last setter
\* described, from its first byte on: bytes however often the builder is executed
\* and the request retried, a reader across the boundary of the buffer, and a
\* stream on one attempt only.  (For BytesLinger see LastBodyWins.)
SentAsDescribed ==
  ~BytesLinger => \A i \in DOMAIN wire : CarriesDescribed(wire[i])

\* "SetBody sets the request body from a reader" (request.go): the body that is
\* sent is the one that the last setter gave.
LastBodyWins == \A i \in DOMAIN wire : CarriesDescribed(wire[i])

\* What a middleware does to the headers of its request never reaches those of
\* the builder, and so no later execution.
HeadersAsSet == "X-Middleware" \notin rb.headers

\* The context of SetTimeout lives exactly as long as the exchange and the body
\* that the caller reads under it, and is released on every other way out of
\* execute.
DeadlineFollowsBody ==
  deadline = "live" <=> rb.timeout /\ stage \in {"sending", "answered"}

\* The URL is the template with every parameter put in its place at once and the
\* query at the end, in whatever order Go ranges over the parameters and whatever
\* their values spell.
UrlAsDescribed ==
  stage = "resolving" =>
    \E t \in Templates :
      finalURL = WithQuery([i \in DOMAIN t |->
        IF \E k \in DOMAIN rb.pathParams : t[i] = Token(k)
          THEN [text |-> rb.pathParams[t[i].text], escaped |-> TRUE] ELSE t[i]])

\* Whatever frames an error climbs through on its way to the code that handles
\* it, Classify and all the helpers say of it what they said at first.
KindSurvivesWrapping ==
  Kind[err] = Kind[origin] /\ Says(err) = Says(origin)

\* Whether an error is worth a retry depends on its root cause, and neither on
\* the operation that met it nor on what has been wrapped around it: an unknown
\* name, a bad certificate, a cancellation or a refusal of this client is final.
RootCauseDecides ==
  err # <<>> /\ Root(err) # "opaque" =>
    ("IsRetryable" \in Says(err) <=> Root(err) \in Transient)
=============================================================================
