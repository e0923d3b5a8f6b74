# A TLA+ verification of connect-go v2

This directory holds TLA+ models of the Connect RPC library for Go (the packages
`connect`, `connecthttp`, `connectinprocess` and `connectgzip`) and of its migration tool
`connect-go-v2-migrate`, TLC configurations that check them on small instances, and TLAPS
proofs of the properties that matter most.
`PROJECT.json` is the index: which definition models which lines, what each run checks,
which fault each property catches, and the hazards the work is aimed at.

## The system

A program calls a procedure through `connect.Client` (`connect.go`). The client asks its
transport for a `ClientStream` and drives it: `Send`, `CloseSend`, `Receive`, `Close`. On
the other side a transport calls `connect.Server.Call`, which runs a handler on a
`ServerStream`. Metadata travels in a `CallInfo` per side.

| Part | Source | Modelled by |
|---|---|---|
| in-process streams: two goroutines, unbuffered channels | `connectinprocess/stream.go` | `InProcessStream`, `RPCStream` |
| in-process unary calls, call contexts, `CallInfo` reuse | `connectinprocess/unary.go`, `connect.go` | `InProcessCalls` |
| HTTP client stream, request goroutine, request pipe | `connecthttp/client_stream.go`, `duplex_http_call.go` | `HTTPClientStream` |
| HTTP unary request body, retries, buffer pool | `duplex_http_call.go`, `envelope.go`, `bufferpool.go` | `UnaryRequestBody` |
| Connect, gRPC, gRPC-Web: messages, end, trailers, errors | `protocol_connect.go`, `protocol_grpc.go`, `envelope.go`, `server_stream.go`, `error.go` | `WireStream` |
| method, codec, version and compression negotiation, error writer, unknown methods | `protocol_connect.go`, `protocol_grpc.go`, `protocol.go`, `handler.go`, `connecthttp.go`, `error_writer.go` | `Negotiation` |
| message sizes against send and read limits | `envelope.go`, `compression.go`, `protocol_connect.go` | `MessageLimits` |
| errors on the wire: codes, messages, details | `protocol_connect.go`, `protocol_grpc.go`, `connect.go` | `ErrorWire` |
| deadlines along chains of calls | `protocol_connect.go`, `protocol_grpc.go` | `DeadlineChain` |
| the code a failed call is told with | `error.go`, `duplex_http_call.go`, `envelope.go` | `CallErrors` |
| gzip pools | `connectgzip/connectgzip.go`, `compression.go` | `GzipPool` |
| migration tool | `cmd/connect-go-v2-migrate` | `MigrateTool`, `MigrateRun`, `MigrateGo`, `MigrateFunc`, `MigrateConstruct`, `MigrateTemplate` |
| options, header maps, codecs, HTTP info | rest of `connecthttp`, `connectproto` | not modelled |
| in-memory HTTP server, code generator, conformance harness, examples, generated code | `internal`, `cmd/protoc-gen-connect-go` | not modelled |

How the parts meet: `InProcessStream` is one of the two transports below `Client`, and
`HTTPClientStream` is the client half of the other. `WireStream` puts the server half and
a client's receive side on the two ends of one HTTP exchange; what it takes for granted
of the client half (one request, body read in order, a failure closes both directions) is
what `HTTPClientStream` establishes. `UnaryRequestBody` looks inside the one step
`SendUnaryReturns` of `HTTPClientStream`, `Negotiation` inside the decision `RejectCall` of
`WireStream`, `DeadlineChain` at the timeout header of the same request and
`InProcessCalls` at what several calls share. `MessageLimits` and `ErrorWire` are the two
conversions that `Negotiation` puts on the wire between client and server, and `CallErrors`
continues `DeadlineChain` with the end of a call: the deadline it races is the one the chain
computed. The migration tool is a program of its own.

## Modules

**`RPCStream`** is the abstract specification: what a client and server stream promise,
whatever carries them. Messages are taken in the order they were accepted; the handler's
outcome is decided once; the client learns the end after the last response, as success
exactly for a nil error.

**`InProcessStream`** models `streamPair`. Channels are unbuffered, so a message passes in
one joint step of sender and receiver (`RequestPasses`, `ResponsePasses`); every other
`select` case is an action of its own, enabled by its channel, so that the random choice of
`select` is TLC's choice. `run`'s deferred functions are separate steps, in their order.
Copying a message takes a step after the hand-over; with `Reusers` a side may write into
the value in between. `sync.Once` is the guard on `run` and `closeSendCh`. The context is
live, cancelled or expired. Mapping to `RPCStream`: `outcome` is `serverErr` once the
handler returned, `end` is what `Receive` reported.

**`HTTPClientStream`** models one stream with five activities: send side, receive side,
`Close`, the goroutine `makeRequest`, and net/http. The compare-and-swap on `requestSent`
is `StartRequest`; `makeRequest` publishes in the code's order (result, pipe, then
`responseReady`). `blockUntilResponseReady` is `Await` and `CloseAwaits`, with its two
selects told apart. Stream type and protocol are variables chosen at the start, so that one
run covers every combination. External: `io.Pipe`, `Do`, what the server sends, when the
transport closes the request body.

**`WireStream`** models one RPC between handler and client, of a protocol and stream type
chosen at the start: request envelopes and their end, the handler's `Receive`, `Send`,
trailers and return, `Close` per protocol, and the client's reading of message or end.
Messages are numbered. Any message may turn out too big to send, or too big or broken when
it is read; `endLimit` says which limit, if any, the end-of-stream message exceeds.
A connection may be lost, inside a message or between two, and an intermediary
may end a response early as if it were complete. `Receive` may be called again after the
end (`ReceiveAgain`, `MaxAgain` times): gRPC merges its trailers again and decides again. A handler's panic resets the stream:
`connecthttp` has no recover (a comment at `connectinprocess/unary.go:122` says it does).

**`UnaryRequestBody`** models `sendUnary`'s `payloadCloser` byte by byte: `Read`,
`WriteTo` (which holds the mutex while it writes), `Rewind`, `Release`, the reuse of the
buffer by the pool, and attempts of net/http whose readers overlap. A write may block as long
as the context of the request is live, and `Release` waits for the mutex.

**`InProcessCalls`** models calls that share a `CallInfo`: one after the other on a reused
context, and nested ones from inside a handler, with the synchronous unary stream in full
and the metadata side of the streaming one. Calls are named by number, and a header's value
is the call that set it. An error is its code, who made it (the server side of which call, or a
client stream) and whether it is marked remote. `asClientErr` marks what the server side of a
nested call made; what its client stream made itself (no response, or one that cannot be copied)
is returned unmarked.

**`DeadlineChain`** models both timeout headers and a chain of handlers. Units, the limit
of header values and `MaxDuration` are constants, with the arithmetic relations of the real
ones as assumptions (1e8 values, ten digits, `math.MaxInt64` nanoseconds satisfy them).
`dropped` records that a Connect client wrote no header for a deadline it had.

**`CallErrors`** extends `DeadlineChain` by the call that reached the last handler: it waits in
`Do` or in a read while the timer of its context fires late, its caller cancels, the server
gives up at its own deadline, the connection breaks, or a dialer or `http.Client` gives up
after a time of its own, with or without a deadline of the call. `wrapIfContextError`,
`wrapIfContextDone` and `wrapIfRSTError` run one after the other, and time may pass between
two of them.

**`MessageLimits`** is what a marshaler and an unmarshaler do with the size of one message:
whether it is compressed, the send limit, the read limit before and after decompression, and
`readMaxBytes+1` in an integer type that ends at `MaxInt`.

**`ErrorWire`** models the encodings of an error as the code does them, byte by byte where the
bytes matter: percent-encoding and its decoder, base64 with and without padding, JSON that
replaces what is not UTF-8, codes by name and by number.

**`Negotiation`** composes the two: one exchange from the client's options to its verdict, for
every configuration of both sides. `Send` chooses GET or POST; `Middleware` answers with an
`ErrorWriter`; `ServeHTTP` routes to the procedure, the catch-all of its service, or nowhere,
and `NewConn` negotiates; `TakeRequest`, `Handle` and `Respond` are the handler; `Receive`
validates the response and reads message and end. A limit or threshold that matters in one
step only is chosen in that step.

**`GzipPool`** models the pools of writers and readers and their users, who may use an object
once more after Close. `Reset` of a reader can fail; the pools may drop what they hold.

**The migration tool.** `MigrateRun` models runs: discovery, templates, sources, the typed
pass, the report, and between two runs a user who does what the report says. Dry runs and
`-w` runs alternate. Writes, parsing and loading may fail, and a run may be killed between
two files or in the middle of a write. A write truncates the file before it fills it, so that one
that fails leaves the file as it was or destroys it (`Outcomes`). What is left of a destroyed
file is taken as nothing: one that is cut after its imports does not parse and is left alone
just so. A file is a record of what the passes look for; `MigrateGo` is `Rewrite` of one
file (order of the passes, what waits for regenerated bindings, selectors, error forms,
imports), `MigrateFunc` the passes over one function and its closures (signature, `.Msg` by
the position it is used at, metadata, streams, receive loops), `MigrateConstruct` those over
server and client construction (options given one by one or spread), and `MigrateTemplate` the
line scanner for Buf templates (options on one line as plain text or in brackets) and the diff. `MigrateRun` takes what is
made of a file and of a template as parameters (`RewriteFile`, `StripMsg` and others); `MigrateTool` states
what the runs come to when these are the passes, as `Migrate.cfg` says they are. What code means before
and after (`Outcome` of a receive loop, `V1Constructs` and `V2Constructs` of a construction,
`Entries` of a template) is stated apart from the passes.

`MCInProcessStream`, `MCDeadlineChain`, `MCNegotiation` and `MCMigrate` give values that a
configuration file cannot write. `MCReuse` puts `UnaryRequestBody` and `GzipPool` into one run:
they share no state, so it explores each beside the other in an initial state. The other modules
are run as they are. The theorems
about a module are in the one of its name that ends in `Proofs`; those about `CallErrors` are in
`DeadlineChainProofs`, those about `MessageLimits` and `ErrorWire` in `NegotiationProofs`, and
those about `UnaryRequestBody` and `GzipPool` in `ReuseProofs`.

Definitions marked *Fault* are slightly wrong versions of the definition that follows
them: each property is shown to fail when the fault takes the definition's place, so that
it says something about the code. They take part in no specification.

## Runs

| Run | Instance | Question |
|---|---|---|
| `inprocess_stream` | 2 requests, 1 response | nothing lost, end published, refines `RPCStream`; abort and early return release every operation |
| `http_stream` | 3 stream types, Connect and gRPC, 1 send, 2 messages | one request, final result, body and pipe released, truthful end; context and failure release every operation |
| `wire` | 3 protocols, 4 stream types, 2 requests, 2 responses, 2 more Receives | success is complete, errors are the handler's, verdict and trailers are delivered |
| `calls` | 2 calls, 1 nested in the first | metadata isolation, verdicts and whose they are |
| `deadline_chain` | 3 hops, both headers, scaled units; the last call fails in every way | deadlines never grow and are not refused; only Connect drops one; the code told is true |
| `negotiation` | 2 codecs, 2 compressors, all protocols and stream types, sizes and limits 0 to 3 of an integer type that ends at 3, errors with every code, messages of up to 2 bytes and up to one detail | messages arrive whole, the server's decision is told, errors arrive as they are |
| `reuse` | 1 byte of data, 2 attempts; 3 users, 3 writers, 3 readers, 2 uses | retries and late readers of a pooled buffer, a Send that waits for a write; exclusive use of pooled objects |
| `migrate` | about 13000 projects of two files, bindings and a template, in eight families; one fault | see below |

The bounds: every race in the stream components is between one pending operation per side
and one event, and two messages in a direction let one be taken while another waits; a
second message is also what tells a single-response call that took one from one that got too
many. `HTTPClientStream` sends one message, since its pipe holds none; the second Send of a
server stream is refused before it reaches any shared state. Two attempts make one overlap; a
third reader would do what the second does. Three users make the writer of the first pass to
the second while a third competes. In `DeadlineChain` the units are scaled (`SmallSize`) so
that a handful of nanoseconds crosses every unit boundary and the hour limit; the theorems
cover the real sizes. `Window` restricts the calls whose failure is looked at to those with
little time left, the others being like them until time has passed. In `Negotiation` an
integer type that ends at 3 has a size below, at and above each limit and the limit that
`+1` would wrap; `NegotiationProofs` covers all sizes. Compressions are alike but for their names,
so states that only differ in which is which count once. The bytes of messages are a space, `%`, a digit
and the two bytes of one character: with them a message can hold an escape that was not
meant as one, a broken character and a space to be trimmed. The projects of `MCMigrate` put
together every two selectors, holders, metadata accesses or options; passes of the tool look
at one construct at a time, and at a second one when names or imports collide.

The properties of `migrate`: `LeftIsReported` (what the tool leaves, it has named),
`RerunIsQuiet` (no pass rewrites what a pass wrote), `ImportsResolve` (through every fault),
`ReportIsTrue` (what a run lists it did, what it lost it said and exited with an error, and a dry
run proposes what `-w` does), `EditsAreInScope` (generated files: which are never edited, and
which by the typed pass alone), `MeaningKept` (interceptors, read limits, receive loops, stream
types, deferred files), `TemplateIsMigrated`, `DiffIsFaithful` (the hunks give the new text) and
`StepsSuffice` (a user who does the steps in order ends with v2 bindings).

Deadlock is checked everywhere except in `deadline_chain`, where a chain ends after its last
hop.

### Disagreements between documentation and code

Four have a run that is expected to fail, one property that states the documentation, and an
entry under "findings" with the quotation.

| Run | What TLC shows |
|---|---|
| `inprocess_abort_eof` | a closed in-process stream can look half-closed to its handler |
| `http_close_blocks` | `Close` waits for the response beside the `Receive` it should release |
| `calls_abandoned` | an abandoned stream writes into a later call's metadata |
| `migrate_generated` | the typed pass edits an unmarked file below an `out:` directory, which the usage text says is never edited |

A fifth is in the model and has no run: in-process `Send` returns once the handler has taken
the message, before it has copied it, so a client that fills the same value again changes what
the handler gets (`connectinprocess.go:63-64`: "the client and server never share message
state"). With `Reusers = {"client"}` TLC finds `ImplementsContract` violated.

Others are written into the passing properties as exceptions, so that the properties say
exactly how far the promise goes:

- `EndIsDelivered`: a trailer set after the response of a unary call is dropped, in Connect an
  error returned after it as well; so is an end-of-stream message above the send limit. A
  Receive after the end repeats the trailers.
- `SuccessIsComplete`: in a Connect unary call a handler that sends nothing counts as one that
  sent an empty message, and an error after the response as success.
- `ReportsLastEnded`: unless a stream was abandoned (`calls_abandoned` is the case it excludes).
- `OutputIsOwn`: unless an object was used after Close when it already had a new user; until
  then such a use is rejected.
- `DeadlineKept`: unless a Connect client dropped the deadline, because it was below a
  millisecond or had more than ten digits.
- `DeadlineIsTold`: timeout headers are rounded down, so a server may reset a stream, by less
  than a unit, before the client's deadline; the client is then told `canceled`.
- `CodeIsTrue`: the error of `Do` on a stream is the one that is not compared with the context.
  `deadline_exceeded` does not say whose deadline: a timeout of a dialer or an `http.Client` is
  told with it, also to a call that has none.
- `VerdictIsHandlers`: a nested call's error that its client stream made itself is not marked
  remote; a handler that returns it tells the caller `unimplemented` or `unknown` as its own.
- `SendReturns`: after `Do` has returned, `Release` waits for a write that holds the mutex; a peer
  that reads nothing can keep Send until the context of the request ends.
- `DecisionIsTold`: an end-of-stream message is subject to the limits of both sides; above
  them the client learns `internal` or `resource_exhausted`. Connect turns codes that are not
  canonical into `unknown`, gRPC keeps the number. A detail whose type is not UTF-8 makes a
  gRPC error `internal`.
- `ErrorIsWhole`: JSON replaces what is not UTF-8; headers, and the trailers of gRPC-Web, lose the
  spaces around a message that comes without details.
- `MessageIsWhole`: a message within the read limit is refused when its compressed form exceeds
  that limit.
- An unknown method of a streaming protocol over HTTP/1.1 is answered 505, since the catch-all
  serves it as a bidirectional stream, and not as unimplemented (`connecthttp.go:236-239`).

Of the migration tool, the properties exclude:

- `Stranded`: a file that is not ready and whose `Code` or `NewError` selectors move to v2
  loses its v1 import; later runs return it unchanged and without a diagnostic
  (`docs/v2-migration.md:38`, `docs/v2-guide.md:676`).
- `KnownGaps`: symbols in none of the tables, once v2 has the name `connect`; a handler
  constructor whose results are assigned to variables; response metadata set in a function
  without request parameter or client response.
- `RerunIsQuiet`: an error message that is computed is converted again by every run
  (`rewrite.go:1287-1289` says "so the rewrite is idempotent").
- `UnseenMsg`: the per-file passes look for `.Msg` at the common positions. In a `var`, behind a
  dereference, in an assertion, in parentheses, in a range or a switch, on a request or reply that
  was just made, and, for the result of `CloseAndReceive`, in closures, it stays without a word
  until some result flips and the typed pass runs.
- `CleanRun`: after a failed write, a failed load or a kill, a dangling `.Msg` stays, because
  later runs see no flipped result (`main.go:141`).
- `ReportIsTrue`: a write that fails midway destroys the file. The run says that it could not write
  it, does not list it and exits with 1. When the typed pass fails to write a file that was written
  before, the file stays listed, with the first rewrite.
- `Misplaced`: an option the tool does not look into, which carries an interceptor, becomes an
  argument of `Mount` or the transport; such a file does not build.
- `DoesNotBuild`: spread options do not survive. A mount gets the slice without its `...`, and a
  client gets `WithReadMaxBytes(0), opts...`, which Go does not accept; `construction.go:239-240`
  says "It goes first so a later option, including one inside a spread, still wins." Such a file
  fails to build, and is not given another meaning.
- `ReshapeChanges`: a receive loop whose error handler does not leave the loop, or that never
  asked for the error, behaves differently as a v2 loop.
- `Unseen`: template entries whose reference is not on the line with the dash, and lists of
  options at the indentation of `opt:`, are not seen by the line scanner.
- `edge`: in `opt: [a, simple=true]` the last option takes the bracket with it, and the template
  can no longer be read; in `opt: [simple]` it stays (`bufgen.go:249-268` splits at the commas).
- `StepsSuffice`: the remote plugin the tool pins may not be published. No listed step says so; a
  diagnostic does, and what to do instead (`bufgen.go:115-116`), and the property is about a user
  who does that before the steps. Only the run that pins the plugin gives the diagnostic.

Noted while reading and stated by no property: in-process response headers reach the client
with the end and not with the first response; `Close` on an unused HTTP stream sends a
request without the call's headers; `Receive` does not open an HTTP stream; `SendHeaders`
uses up the one request of a server stream; the server's `SendHeaders` does nothing; the
`RequestEncoding` reported is the configured compression, also when the request was not
compressed. A file with handlers only imports no generated package, so the tool takes it for
ready (`docs/v2-guide.md:674`); the seeded client context is shared by later calls of the
function; the JSON report leaves out the fallback `go install` step when Go files were
rewritten.

## Fairness

A goroutine whose operation can proceed does so: weak fairness on each operation's steps
(`SendStep`, `ReceiveStep`, `RunStep` and so on), which is what the Go scheduler gives.
Nothing is assumed of the programs: neither that a client calls anything nor that a handler
receives, sends or returns. Of net/http, `HTTPClientStream` assumes that `Do` returns once
the context is done, and that the transport closes the request body once the context is
done, the response body is closed or the request failed; `http.RoundTripper` and
`Request.Context` document this. `UnaryRequestBody` assumes that a write of net/http ends once
the context of the request is done, for the same reason, and of a live one nothing: `SendReturns`
says what follows when no write lasts for ever as a condition of its own.
The server is not assumed to answer. The remaining modules check safety only.

## Proofs

**`InProcessStreamProofs`**, for any number of messages. `TypeCorrect` is inductive by
itself. `NothingInFlight` and `EndIsPublished` are proved with

    IInv == TypeOK /\ NothingInFlight /\ RunPublishes /\ HandlerQuiet /\ EndKnown
            /\ HalfCloseStopsSend /\ CopyHoldsLast

`RunPublishes` ties the place in `run` to what is published (metadata before `responseCh`
before `serverDone`), `HandlerQuiet` says that no server operation is pending once the
handler returned, `EndKnown` what a client that was told the end may rely on,
`HalfCloseStopsSend` that after `CloseSend` no Send waits to hand over, and `CopyHoldsLast`
that the message being copied is the last accepted. Without the first two the end could be
told with a response still unsent. `CloseSendIsFinal` is the action property, and
`Implements` the refinement of `RPCStream`: every action is shown to be one abstract action
or a stutter. It assumes `Reusers = {}`, that no side writes into a message it sent.

**`DeadlineChainProofs`**, for all units, limits and chain lengths under the named
assumptions. `GRPCRoundTrip` is about the codec alone: what is encoded is accepted, is not
longer, and loses less than a unit. The chain's invariant is

    IInv == TypeOK /\ NeverExtended /\ NeverRejected /\ HeaderAccepted /\ HeaderFits

where the last two say of a header on its way that its reader will accept it, and that its
duration is bounded by what is left plus the time in flight. `DeadlineIsKept` adds `Carries`:
unless a deadline was dropped, a header on its way carries one. For gRPC it rests on the lemma
that every duration gets a unit (`GRPCWritesUnit`).

The same module proves `CallErrors`. `CallIsAChain` shows that a chain whose last call fails is
a chain, step by step, so `IInv` holds of it. On top of it,

    CallInv == CallTypeOK /\ RoundsByLess /\ InSteps /\ FailureIsTrue /\ CodeSoFar

`RoundsByLess` carries what is lost to the unit of the header over to the handler's deadline,
`InSteps` says how far `duplexHTTPCall` has come with an error, `FailureIsTrue` what the context
and the transport may have said by then, and `CodeSoFar` what each wrapper may have made of it,
although timers fire between them. Nothing keeps the transport from a timeout of its own at any
time, so `CodesAreTrue` says of `deadline_exceeded` that either the transport timed out or the
caller's deadline has passed. `ServersDeadlineIsTold` follows as well.

**`NegotiationProofs`**, for all codecs, compressors, sizes, limits and widths of the integer
type. `LimitIsExact` is about the limit alone: reading one byte more than the limit, where there
is one, tells every message that is too large. `UnmarshalIsWhole` and `UnmarshalFuncIsWhole`
lift it to the two unmarshalers, for a message that was compressed with what its headers
name. That the headers do so is the invariant

    IInv == MessageIsWhole
            /\ (pc = "serve"   => Carries(request.msg, request.encoding))
            /\ (pc = "handle"  => Carries(request.msg, pools.request))
            /\ (pc = "receive" => CarriesBoth(response))

where `Carries` says that a Connect unary message was compressed with exactly what is named,
and an envelope with that or nothing. There is one lemma per action, and under it one per way to
send (GET, POST, fallback) and to answer (refusal, error writer, error with an end of stream,
message). `MessageArrivesWhole` follows. The numbers of `readLimited` do the work: an unguarded
`readMaxBytes+1` makes `LimitIsExact` false.

What the client is told needs the other half of the exchange:

    TellInv == client \in Clients(streamType)
               /\ (until the handler returns   => decided = Nothing)
               /\ (pc = "serve"   => request.accept = client.compressors
                                     /\ request.encoding \in Agreed)
               /\ (until the response is sent  => pools.response \in Agreed)
               /\ (pc = "respond" => decided \in AnyError \cup {NoError})
               /\ (pc = "receive" /\ decided # Nothing => Tells(response, decided))
               /\ DecisionIsTold /\ ErrorIsWhole

`Agreed` are the compressions the client reads, and `Tells` says that a response is a success,
the 404 of a missing procedure, or the error in the way of the protocol, with an HTTP status
that is no success (`StatusIsAnError`). For `Receive`, `IInv` shows that a message that cannot
be read was too large (`UnreadIsWithheld`), and the theorems about `ErrorWire` that what
`validateResponse` makes of the response is the error. `ClientsAreTold` and `ErrorsArriveWhole`
follow. `AnyError` is larger than the `Errors` of the run: messages of any bytes and length, details of any sizes
and number, with any code. An error without a code and with details that cannot be marshaled
is among them; it is `internal` in gRPC, and `DecisionIsTold` is worded to say so.

`NegotiationProofs` also has the theorems about `ErrorWire`, for messages and details of any
length. `grpcPercentEncode` and `grpcPercentDecode` are loops over bytes, so their proofs are inductions. The provers cannot
instantiate an induction theorem that takes a predicate; `SetInduction`, proved from the
well-foundedness of the numbers, says the same of a set of numbers, and the sets are written
down in each proof. `Laid` describes what a loop has written (`Written`): every piece in its
place, right behind the one before. With it `DecodeOfLaid` goes from the end of a text to its
beginning: from the place where the escape of a byte begins, `grpcPercentDecode` returns that
byte and the ones after it. `PercentRoundTrip` follows. For `TrimmedRoundTrip`, `SpacesOfLaid`
shows that the spaces around the encoded text are those around the message, since no escape
begins or ends with one, and `PartIsLaid` that what is left is the encoding of the rest.
`BinaryRoundTrip` is base64 without padding. `ConnectReturnsTheError` and
`TrailersReturnTheError` put these together for whole errors.

**`WireStreamProofs`**, for any number of requests, responses and calls of Receive after the
end; the handler may send at least once (`MaxResponses` is not 0). Two invariants are
inductive, one for each direction. `RequestInv` adds to `RequestIsComplete` how far a handler
with a single request has come: between its two reads it has consumed exactly the one message.
`HandlerGetsWholeRequest` follows. The other is

    ResponseInv == TypeOK /\ InOrder /\ EndIsHandlers /\ ServerInOrder /\ ClientInOrder
                   /\ SuccessIsComplete /\ ErrorIsHandlers

`InOrder` is its heart: what the client took is the beginning of what was sent, what is in the
body continues it place by place, an end-stream envelope is the last in the body and stands
right behind all that was sent, and only a response that was cut off has a torn envelope or lacks
something. So an end that is reached proves that nothing is missing, wherever a response broke
off. `EndIsHandlers` says of each place a protocol puts the end (envelope, HTTP trailers,
headers, status) that only a handler that returned has written it. `ServerInOrder` and
`ClientInOrder` tie counters and flags of the two sides to that. The lemma `EndFoundIsTrue`
joins them, and `ClientSuccessIsComplete` and `ClientErrorIsHandlers` follow.

`EndReachesTheClient` needs the converse, that an end is there to be found:

    DeliveryInv == TrailerType /\ FlushedOnce /\ ServerHasEnded /\ EndIsWritten /\ IsDelivered

`FlushedOnce` says that trailers are flushed before the handler returned only with the response
of a unary call, `ServerHasEnded` what a response carries once its handler has returned, and
`EndIsWritten` that an end in the body stands behind every response. With `ResponseInv`, a
client that reaches the end has it. What excuses a call stays (`ExcuseStays`).

**`HTTPClientStreamProofs`**, for streams of any length.

    IInv == TypeOK /\ Lifecycle /\ FailureIsSeen /\ Published /\ BodyReleased /\ Reported
            /\ ReceivesOnce /\ ClosedAtEnd

`Lifecycle` says that `makeRequest` runs once and closes `responseReady` last; `Published` that
Receive and Close go on only after that, unless the context is done: without it a body could be
opened after the last one to close it has left. `Reported` and `ReceivesOnce` count messages
for `EndIsAlwaysTruthful`; `FailureIsSeen` and `ClosedAtEnd` are what `SendErrsOut` needs of the
pipe. `ResponseIsPublishedOnce` is the action property.

**`InProcessCallsProofs`**, for any number of calls and any set of handlers that make a call of
their own. `HandlesAreOwn` says that a nested call never has the caller's `CallInfo`, so
that `MetadataIsOwn`; `InTurn` that the caller makes one call after the other, so that
`ReportsLast`: the `CallInfo` was cleared when the last call began. With `HandlerServesCall`,
that a caller is told only after the handler returned, these give the first theorems.
`VerdictsAreMarked` says of a verdict that what a server side made is that call's own and marked
remote; so when a handler returns it, `asClientErr` makes it the handler's own `internal`. With
it `VerdictsAreHandlers`, for errors from both sides of nested calls.
`HandleReportsLast` is about callers that abandon no stream, as its property is; the run
`calls_abandoned` shows what happens to the others.

**`ReuseProofs`**, about buffers and pooled objects that are used again. `UnaryRequestBody`, for
messages of any length and any number of attempts: `ReleasedFirst` orders discarding the payload,
the return of Send and the reuse of the buffer, which gives `LateReadersSeeNoReuse`. For
`RetriesSendTheMessage`, `InOrder` bounds each byte an attempt was given from below by its place
and from above by the offset; the bounds meet when the attempt has all bytes, even if an earlier
attempt took some in between. `GzipPool`, for any number of calls, writers and readers:
`OpenIsOwn` says that who has an object open has it alone, reset to its own destination or
source, and `PooledIsClosed` that an object is in a pool once at most, and closed. Both hold
until an object is used after its Close, and so does `OutputIsAlwaysOwn`.

**`MigrateRunProofs`**, for all projects of two files (and a template), any number of faults and
any rewriting: nothing is assumed of what `RewriteFile`, `StripMsg` and `RewriteTemplate` return, so the theorems
hold whatever the passes do.

    ReportInv == Shape /\ Begun /\ Accounted /\ Faulted /\ AtStart /\ Underway /\ AtEnd

`Accounted` says, in the middle of a run as at its end, that the disk is what the recorded
rewrites make of what the run started from, but for files that a failed write destroyed, and
these the run knows. `Faulted` says that a run with such a file will exit with an error, and
that a name is dealt with once before the typed pass, so that only there a file can both be
listed and have failed. That gives the report. That a `-w` run does what the dry run proposed
compares two runs, which the invariant does without looking at both: a job is what a run starts
from, `RewritesOf`, `DiagsOf` and `FinalOf` say what it comes to when nothing fails, and
`Underway` and `AtEnd` that each run is on the way there or there. Two runs from the same
beginning then end alike (`ReportsAreTrue`). The typed pass is where this could go wrong: it reads
the disk with the rewrites on top, and only because of `Accounted` is that the same for a run
that has written and one that has not.

`GeneratedFilesAreKept` adds `ScopeInv`: what is marked, or under an `out:` directory, is neither
to do nor on record before the typed pass, and what is marked is as it was, so that the typed
pass, which looks for the mark in what it reads, leaves it out.

Only model-checked are all liveness, which is outside the prover's reach, and what depends on
the passes of the migration tool: `LeftIsReported`, `RerunIsQuiet`, `ImportsResolve`,
`MeaningKept`, `TemplateIsMigrated`, `DiffIsFaithful` and `StepsSuffice`. They compare what files
mean before and after passes over many kinds of syntax, and the scanner and the diff are folds
over lines, so that each would need an induction over the text; they are checked over the shapes
of `MCMigrate`.

## Not modelled

- Codecs and the protobuf runtime: conversions without state; that they can fail is modelled.
- Options, header maps and `HTTPInfo`: setters, copies and accessors. Options are the constants
  and initial choices of the models.
- Interceptor chains (function composition) and procedure registration (a map filled before
  serving).
- 304 responses to a GET, and the escaping of a GET's parameters.
- Of the migration tool: positions, comments and layout of syntax trees, colours and wording of
  reports, which directories a walk skips, and how packages are
  loaded by the Go toolchain.
- The code generator writes text from descriptors in one pass; of it only the names of
  generated stream types matter to another part (`generatedStreamName`).
- The in-memory HTTP server, the conformance programs, the examples and generated code use the
  library or test it.
