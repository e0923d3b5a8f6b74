------------------------------ MODULE WireStream ------------------------------
(***************************************************************************)
(* One RPC from the server's handler to the client's Receive, as the       *)
(* Connect, gRPC and gRPC-Web protocols write it into an HTTP response and *)
(* read it back: a handlerStream over a handler connection, the request    *)
(* and response on the wire, a client connection under a client stream.    *)
(*                                                                         *)
(* The response carries enveloped messages and then its end: an end-stream *)
(* envelope (Connect streams, gRPC-Web), HTTP trailers (gRPC), headers     *)
(* (gRPC-Web without a body) or the HTTP status (Connect unary, which has  *)
(* no envelopes).  The connection can be lost, and an intermediary can end *)
(* a response early as if it were complete.                                *)
(***************************************************************************)
EXTENDS Naturals, Sequences

CONSTANTS
    Protocols,     \* subset of {"connect", "grpc", "grpcweb"}
    StreamTypes,   \* subset of {"unary", "client", "server", "bidi"}
    Limits,        \* subset of {"none", "send", "read"}
    MaxRequests,   \* bound on the request messages
    MaxResponses,  \* bound on the handler's calls of Send
    MaxAgain       \* bound on the calls of Receive after the end

\* The i-th Send of the handler sends response i.  Three more things are told
\* apart where a response is expected: the end-stream envelope, an envelope
\* that was cut off, and the zero message an empty Connect unary body decodes to.
EndStream == 0
Partial == MaxResponses + 1
Zero == MaxResponses + 2
Response == 1..MaxResponses

ASSUME WireAssumption ==
    /\ Protocols \subseteq {"connect", "grpc", "grpcweb"}
    /\ StreamTypes \subseteq {"unary", "client", "server", "bidi"}
    /\ Limits \subseteq {"none", "send", "read"}
    /\ MaxRequests \in Nat /\ MaxResponses \in Nat \ {0} /\ MaxAgain \in Nat

\* What a handler returns, and the verdict that is: the code of its own error,
\* or one that hides the error of another server or of the standard library.
Outcome == {"nil", "coded", "remote", "context", "plain"}
Verdict == {"ok", "coded", "internal", "canceled", "unknown"}

VARIABLES
    protocol,         \* of the call
    streamType,       \* of the procedure
    endLimit,         \* the end-stream envelope exceeds the server's limit to
                      \* "send", the client's to "read", or "none"
    reqSent, reqGot,  \* requests the client sent, requests the handler consumed
    reqEnd,           \* the request body: "open", "eof" or "reset"
    handler,          \* "running", "closed" the connection, "done" or "aborted"
    outcome,          \* what the handler returned, or "none"
    hrecv,            \* handlerStream.Receive: [pc, res]
    rxEnd,            \* handlerStream.rxEnd
    sends,            \* calls of Send by the handler
    sent,             \* responses for which Send returned nil
    wroteToBody,      \* grpcHandlerConn.wroteToBody, connectUnaryMarshaler.wroteHeader
    trailer,          \* the handler has set a trailer in its CallInfo
    trailerFlushed,   \* handlerStream.trailerFlushed
    connTrailer,      \* the connection's responseTrailer holds it
    head,             \* response headers: "none", "ok", "trailers", "error", "refused"
    body,             \* the response body: envelopes not yet read
    bodyEnd,          \* what follows them: "open", "eof" or "reset"
    cut,              \* the response was cut off
    endVerdict,       \* the verdict the response carries, or "none"
    endTrailer,       \* the response carries the trailer
    crecv,            \* the client's Receive: "idle" or "second"
    got,              \* responses the client took
    ended,            \* "open", a verdict the client was told, or "local"
    gotTrailer,       \* how many times the client's CallInfo has the trailer
    endRead,          \* the client's connection holds the end it found
    again             \* what Receive returned after the end was told

call == <<protocol, streamType, endLimit>>
request == <<call, reqSent, reqGot, reqEnd>>
receiving == <<hrecv, rxEnd>>
sending == <<sends, sent, wroteToBody>>
trailers == <<trailer, trailerFlushed, connTrailer>>
end == <<endVerdict, endTrailer>>
response == <<head, body, bodyEnd, cut, end>>
client == <<crecv, got, ended, gotTrailer, endRead, again>>
vars == <<request, handler, outcome, receiving, sending, trailers, response, client>>

Unary == streamType = "unary"
ConnectUnary == protocol = "connect" /\ Unary
SingleRequest == streamType \in {"unary", "server"}
SingleResponse == streamType \in {"unary", "client"}

Init ==
    /\ protocol \in Protocols /\ streamType \in StreamTypes
    /\ endLimit \in IF ConnectUnary \/ protocol = "grpc" THEN {"none"} ELSE Limits
    /\ reqSent = 0 /\ reqGot = 0 /\ reqEnd = "open"
    /\ handler = "running" /\ outcome = "none"
    /\ hrecv = [pc |-> "idle", res |-> "none"] /\ rxEnd = FALSE
    /\ sends = 0 /\ sent = <<>> /\ wroteToBody = FALSE
    /\ trailer = FALSE /\ trailerFlushed = FALSE /\ connTrailer = FALSE
    /\ head = "none" /\ body = <<>> /\ bodyEnd = "open" /\ cut = FALSE
    /\ endVerdict = "none" /\ endTrailer = FALSE
    /\ crecv = "idle" /\ got = <<>> /\ ended = "open"
    /\ gotTrailer = 0 /\ endRead = FALSE /\ again = <<>>

-----------------------------------------------------------------------------
(* The request.                                                            *)

ClientSends ==
    /\ reqEnd = "open"
    /\ reqSent < IF ConnectUnary THEN 1 ELSE MaxRequests
    /\ reqSent' = reqSent + 1
    /\ UNCHANGED <<call, reqGot, reqEnd, handler, outcome, receiving, sending, trailers, response,
                   client>>

ClientClosesSend ==
    /\ reqEnd = "open"
    /\ reqEnd' = "eof"
    /\ UNCHANGED <<call, reqSent, reqGot, handler, outcome, receiving, sending, trailers, response,
                   client>>

\* What reading one message of the request body can give, and how many
\* envelopes that consumes.  Connect unary reads the whole body, and takes an
\* empty one for the zero message; a second read finds the end.
RequestReads ==
    IF ConnectUnary
    THEN IF hrecv.pc = "second" THEN {<<"eof", 0>>}
         ELSE CASE reqEnd = "open" -> {}
                [] reqEnd = "eof" ->
                     {<<"message", reqSent - reqGot>>, <<"fail", reqSent - reqGot>>}
                [] reqEnd = "reset" -> {<<"fail", 0>>}
    ELSE CASE reqGot < reqSent -> {<<"message", 1>>, <<"fail", 1>>}
           [] reqGot = reqSent /\ reqEnd = "open" -> {}
           [] reqGot = reqSent /\ reqEnd = "eof" -> {<<"eof", 0>>}
           [] reqGot = reqSent /\ reqEnd = "reset" -> {<<"fail", 0>>}

\* Fault: the first message is taken for the whole request.
HandlerReceiveFirst ==
    /\ handler = "running" /\ hrecv.pc = "idle"
    /\ \E read \in RequestReads :
         /\ reqGot' = reqGot + read[2]
         /\ hrecv' = [pc |-> "idle", res |-> read[1]]
         /\ rxEnd' = SingleRequest
    /\ UNCHANGED <<call, reqSent, reqEnd, handler, outcome, sending, trailers, response, client>>

\* A call of handlerStream.Receive.  With a single request, the first one reads
\* a message and reads on for the end, and later ones report the end.
HandlerReceive ==
    /\ handler = "running" /\ hrecv.pc = "idle"
    /\ \/ /\ SingleRequest /\ rxEnd
          /\ hrecv' = [pc |-> "idle", res |-> "end"]
          /\ UNCHANGED <<call, reqGot, rxEnd>>
       \/ /\ ~(SingleRequest /\ rxEnd)
          /\ rxEnd' = SingleRequest
          /\ \E read \in RequestReads :
               /\ reqGot' = reqGot + read[2]
               /\ hrecv' = IF ~SingleRequest THEN [pc |-> "idle", res |-> read[1]]
                           ELSE IF read[1] = "message" THEN [pc |-> "second", res |-> "none"]
                           ELSE [pc |-> "idle", res |-> "fail"]
    /\ UNCHANGED <<call, reqSent, reqEnd, handler, outcome, sending, trailers, response, client>>

HandlerReceiveSecond ==
    /\ handler = "running" /\ hrecv.pc = "second"
    /\ \E read \in RequestReads :
         /\ reqGot' = reqGot + read[2]
         /\ hrecv' = [pc |-> "idle", res |-> IF read[1] = "eof" THEN "message" ELSE "fail"]
    /\ UNCHANGED <<call, reqSent, reqEnd, handler, outcome, rxEnd, sending, trailers, response, client>>

-----------------------------------------------------------------------------
(* The handler's responses.                                                *)

SetTrailer ==
    /\ handler = "running" /\ ~trailer
    /\ trailer' = TRUE
    /\ UNCHANGED <<request, handler, outcome, receiving, sending, trailerFlushed, connTrailer,
                   response, client>>

flushTrailer ==
    /\ trailerFlushed' = TRUE
    /\ connTrailer' = IF trailerFlushed THEN connTrailer ELSE trailer

\* What a write adds to the response: nothing once the response was cut off.
Write(frame) == body' = IF cut THEN body ELSE Append(body, frame)

\* The response headers go out with the first write or flush.
Commit(status) == head' = IF head = "none" /\ ~cut THEN status ELSE head

\* Send: a message that exceeds the limit is refused.  An enveloped response is
\* flushed either way, which commits its headers; Connect unary commits them
\* with the message, and its trailers with them.  A write into a connection
\* that is lost may fail.
HandlerSend ==
    /\ handler = "running" /\ hrecv.pc = "idle"
    /\ sends < IF ConnectUnary THEN 1 ELSE MaxResponses
    /\ sends' = sends + 1
    /\ IF Unary THEN flushTrailer ELSE UNCHANGED <<trailerFlushed, connTrailer>>
    /\ \E tooBig \in BOOLEAN, written \in BOOLEAN :
         /\ written => ~tooBig
         /\ written \/ tooBig \/ cut
         /\ sent' = IF written THEN Append(sent, sends') ELSE sent
         /\ IF written THEN Write(sends') ELSE UNCHANGED body
         /\ IF ConnectUnary /\ tooBig
            THEN UNCHANGED <<head, wroteToBody, end>>
            ELSE /\ Commit("ok")
                 /\ wroteToBody' = TRUE
                 /\ endVerdict' = IF ConnectUnary THEN "ok" ELSE endVerdict
                 /\ endTrailer' = IF ConnectUnary THEN connTrailer' ELSE endTrailer
    /\ UNCHANGED <<request, handler, outcome, receiving, trailer, bodyEnd, cut,
                   client>>

-----------------------------------------------------------------------------
(* The end of the call on the server.                                      *)

\* Fault: the error of another server is passed on.
scrubHandlerErrorForwards(o) ==
    CASE o = "nil" -> "ok"
      [] o = "context" -> "canceled"
      [] o = "plain" -> "unknown"
      [] OTHER -> o

scrubHandlerError(o) ==
    CASE o = "nil" -> "ok"
      [] o = "coded" -> "coded"
      [] o = "remote" -> "internal"
      [] o = "context" -> "canceled"
      [] o = "plain" -> "unknown"

\* Fault: the trailers of the connection are left out.
CloseWithoutTrailer(verdict, tr, custom) ==
    /\ Commit("ok")
    /\ endVerdict' = verdict /\ endTrailer' = FALSE
    /\ IF protocol = "grpc" THEN UNCHANGED body ELSE Write(EndStream)

\* A Connect unary response that was committed stays as it is; otherwise the
\* status says whether there is an error, and the headers carry the trailers.
CloseUnary(verdict, tr) ==
    IF wroteToBody THEN UNCHANGED <<head, body, end>>
    ELSE /\ Commit(IF verdict = "ok" THEN "ok" ELSE "error")
         /\ endVerdict' = verdict /\ endTrailer' = tr
         /\ UNCHANGED body

\* MarshalEndStream: an envelope like any other, which can be too big to send.
CloseEndStream(verdict, tr) ==
    /\ Commit("ok")
    /\ IF endLimit = "send" THEN UNCHANGED <<body, end>>
       ELSE /\ Write(EndStream)
            /\ endVerdict' = verdict /\ endTrailer' = tr

\* Fault: a gRPC-Web response whose headers are out still gets its status as
\* headers.
CloseTrailersOnly(verdict, tr, custom) ==
    CASE ConnectUnary -> CloseUnary(verdict, tr)
      [] protocol # "connect" ->
           /\ Commit(IF protocol = "grpc" THEN "ok" ELSE "trailers")
           /\ endVerdict' = verdict /\ endTrailer' = tr
           /\ UNCHANGED body
      [] OTHER -> CloseEndStream(verdict, tr)

\* Close of a handler connection: `tr` is whether its responseTrailer holds the
\* trailer, `custom` whether its handler set headers of its own.  gRPC has HTTP
\* trailers; gRPC-Web puts them into the headers of a response without a body.
Close(verdict, tr, custom) ==
    CASE ConnectUnary -> CloseUnary(verdict, tr)
      [] protocol = "grpc" \/ (protocol = "grpcweb" /\ ~wroteToBody /\ ~custom) ->
           /\ Commit(IF protocol = "grpc" THEN "ok" ELSE "trailers")
           /\ endVerdict' = verdict /\ endTrailer' = tr
           /\ UNCHANGED body
      [] OTHER -> CloseEndStream(verdict, tr)

\* ServeHTTP turns the request down before there is a connection.
RefuseRequest ==
    /\ handler = "running" /\ sends = 0 /\ hrecv.pc = "idle" /\ hrecv.res = "none"
    /\ ~trailer
    /\ handler' = "done"
    /\ Commit("refused")
    /\ bodyEnd' = IF cut THEN bodyEnd ELSE "eof"
    /\ UNCHANGED <<request, outcome, receiving, sending, trailers, body, cut, end, client>>

\* The compression, protocol version, codec or timeout of the request is
\* invalid: the connection is closed with an error of its own, and no handler
\* runs.
RejectCall ==
    /\ handler = "running" /\ sends = 0 /\ hrecv.pc = "idle" /\ hrecv.res = "none"
    /\ ~trailer
    /\ handler' = "closed" /\ outcome' = "coded"
    /\ Close("coded", FALSE, FALSE)
    /\ UNCHANGED <<request, receiving, sending, trailers, bodyEnd, cut, client>>

\* Server.Call returns: the trailers are flushed and the connection closed.
HandlerReturns ==
    /\ handler = "running" /\ hrecv.pc = "idle"
    /\ handler' = "closed"
    /\ outcome' \in Outcome
    /\ flushTrailer
    /\ \E custom \in BOOLEAN : Close(scrubHandlerError(outcome'), connTrailer', custom)
    /\ UNCHANGED <<request, receiving, sending, trailer, bodyEnd, cut, client>>

\* ServeHTTP has returned: net/http ends the response (external).
ServerEndsResponse ==
    /\ handler = "closed"
    /\ handler' = "done"
    /\ bodyEnd' = IF cut THEN bodyEnd ELSE "eof"
    /\ UNCHANGED <<request, outcome, receiving, sending, trailers, head, body, cut, end, client>>

-----------------------------------------------------------------------------
(* What can happen to the response on its way (external).                  *)

\* The response breaks off: what was not yet read may be lost, in the middle of
\* an envelope or between two.  A reset is an error to the reader.  An early
\* end looks complete to HTTP; a Connect unary response has no framing of its
\* own and is taken to have a Content-Length, so that it cannot end early.
BreaksOff(how) ==
    /\ cut' = TRUE
    /\ bodyEnd' = how
    /\ \E n \in 0..Len(body) :
         \/ body' = SubSeq(body, 1, n)
         \/ n < Len(body) /\ body' = Append(SubSeq(body, 1, n), Partial)
    /\ UNCHANGED <<head, end>>

\* The handler panicked: net/http resets the stream.
HandlerPanics ==
    /\ handler = "running" /\ hrecv.pc = "idle"
    /\ handler' = "aborted"
    /\ IF cut THEN UNCHANGED response ELSE BreaksOff("reset")
    /\ UNCHANGED <<request, outcome, receiving, sending, trailers, client>>

ConnectionLost ==
    /\ ~cut /\ bodyEnd = "open"
    /\ \E how \in IF ConnectUnary THEN {"reset"} ELSE {"eof", "reset"} : BreaksOff(how)
    /\ reqEnd' = IF reqEnd = "open" THEN "reset" ELSE reqEnd
    /\ UNCHANGED <<call, reqSent, reqGot, handler, outcome, receiving, sending, trailers, client>>

-----------------------------------------------------------------------------
(* The client.                                                             *)

\* envelopeReader.Unmarshal: what reading the next envelope can give.  The
\* one that ends the stream is accepted when the body ends after it; any other
\* may exceed the limit, and is then discarded, or fail to decode.
Unmarshal ==
    IF body = <<>>
    THEN CASE bodyEnd = "open" -> {} [] bodyEnd = "eof" -> {"eof"} [] bodyEnd = "reset" -> {"broken"}
    ELSE LET env == Head(body) IN
         CASE env = Partial -> {"broken"}
           [] env = EndStream /\ endLimit = "read" -> {"broken"}
           [] env = EndStream /\ endLimit # "read" ->
                IF bodyEnd = "open" THEN {}
                ELSE {IF bodyEnd = "eof" /\ Len(body) = 1 THEN "special" ELSE "broken"}
           [] env \in Response -> {"message", "broken"}

\* The end of the call, verdict and trailers, is found: in the end-stream
\* envelope, in the HTTP trailers (gRPC) or, in a gRPC-Web response that has
\* neither body nor trailers, in the headers.
EndFound(read) ==
    CASE protocol = "grpc" -> bodyEnd = "eof" /\ ~cut
      [] protocol = "connect" -> read = "special"
      [] protocol = "grpcweb" ->
           read = "special" \/ (read = "eof" /\ got = <<>> /\ head = "trailers")

\* Fault: a status of OK passes for the end of the stream, whatever was wrong
\* with the message that was being read.
ConnReceiveTrustsStatus(read) == IF EndFound(read) THEN endVerdict ELSE "local"

\* Fault: a response without an end is told as an error of the server.
ConnReceiveBlamesServer(read) ==
    IF EndFound(read) /\ (endVerdict = "ok" => read \in {"eof", "special"})
    THEN endVerdict ELSE "unknown"

\* Receive of a streaming client connection after a read that gave no message.
\* An end that was found is the server's verdict, except that gRPC does not
\* let an OK hide a message that could not be read.
ConnReceive(read) ==
    IF EndFound(read) /\ (endVerdict = "ok" => read \in {"eof", "special"})
    THEN endVerdict ELSE "local"

\* Receive reads a message.  With a single response it reads on.
ReceiveMessage ==
    /\ ended = "open" /\ ~ConnectUnary /\ head = "ok"
    /\ "message" \in Unmarshal
    /\ got' = Append(got, Head(body))
    /\ body' = Tail(body)
    /\ \/ /\ ~SingleResponse
          /\ UNCHANGED <<crecv, ended>>
       \/ /\ SingleResponse /\ crecv = "idle"
          /\ crecv' = "second"
          /\ UNCHANGED ended
       \/ /\ SingleResponse /\ crecv = "second"   \* unary stream has multiple messages
          /\ crecv' = "idle"
          /\ ended' = "local"
    /\ UNCHANGED <<request, handler, outcome, receiving, sending, trailers, head, bodyEnd, cut, end,
                   gotTrailer, endRead, again>>

\* mergeHeaders: the trailers that were found are added to the client's.
Merge(found) == gotTrailer' = gotTrailer + (IF found /\ endTrailer THEN 1 ELSE 0)

\* The client is told the end.  With a single response the end of the stream
\* counts only after its message.
Ends(verdict) ==
    /\ ended' = IF SingleResponse /\ verdict = "ok" /\ crecv = "idle" THEN "local" ELSE verdict
    /\ crecv' = "idle"

\* Receive reads something else than a message.  gRPC reads the body to its end
\* to get at the trailers.
ReceiveEnd ==
    /\ ended = "open" /\ ~ConnectUnary /\ head \in {"ok", "trailers"}
    /\ \E read \in Unmarshal \ {"message"} :
         /\ protocol = "grpc" => bodyEnd # "open"
         /\ Ends(ConnReceive(read))
         /\ endRead' = EndFound(read)
         /\ Merge(endRead')
    /\ UNCHANGED <<request, handler, outcome, receiving, sending, trailers, response, got, again>>

\* Connect unary: an error status carries the error as its body; otherwise the
\* whole body is one message.
ReceiveUnary ==
    /\ ended = "open" /\ ConnectUnary /\ head \in {"ok", "error"} /\ bodyEnd # "open"
    /\ LET message == IF body = <<>> THEN Zero ELSE Head(body) IN
         \/ /\ bodyEnd = "reset"
            /\ ended' = "local"
            /\ UNCHANGED <<got, gotTrailer>>
         \/ /\ bodyEnd = "eof" /\ head = "error"
            /\ ended' = endVerdict
            /\ Merge(TRUE)
            /\ UNCHANGED got
         \/ /\ bodyEnd = "eof" /\ head = "ok"
            /\ \/ ended' = "ok" /\ got' = <<message>>
               \/ ended' = "local" /\ UNCHANGED got       \* too big, or the codec fails
            /\ Merge(TRUE)
    /\ UNCHANGED <<request, handler, outcome, receiving, sending, trailers, response, crecv, endRead,
                   again>>

\* validateResponse refuses a status that is not OK; or Do failed.
ReceiveRefused ==
    /\ ended = "open"
    /\ head = "refused" \/ (head = "none" /\ bodyEnd # "open")
    /\ ended' = "local"
    /\ UNCHANGED <<request, handler, outcome, receiving, sending, trailers, response, crecv, got,
                   gotTrailer, endRead, again>>

\* Fault: a status of OK passes for the end of the stream again.
ReceiveAgainTrustsStatus ==
    /\ ended # "open" /\ Len(again) < MaxAgain
    /\ again' = Append(again, IF endRead THEN endVerdict ELSE "local")
    /\ UNCHANGED <<request, handler, outcome, receiving, sending, trailers, response, crecv, got, ended,
                   gotTrailer, endRead>>

\* Receive is called after the end.  A single response has been received, and
\* that is all it says.  A stream reads on, from a body that is closed: the error
\* of the end it holds is returned again, and otherwise the error of that read;
\* the trailers it holds are merged once more, unless they came as headers.
ReceiveAgain ==
    /\ ended # "open" /\ Len(again) < MaxAgain
    /\ IF SingleResponse
       THEN again' = Append(again, "eof") /\ UNCHANGED gotTrailer
       ELSE /\ again' = Append(again, IF endRead /\ endVerdict # "ok" THEN endVerdict ELSE "local")
            /\ Merge(endRead /\ head # "trailers")
    /\ UNCHANGED <<request, handler, outcome, receiving, sending, trailers, response, crecv, got, ended,
                   endRead>>

-----------------------------------------------------------------------------
\* The call is over on both sides.
Finished ==
    /\ ended # "open" /\ handler \in {"done", "aborted"}
    /\ UNCHANGED vars

Next ==
    \/ ClientSends \/ ClientClosesSend
    \/ HandlerReceive \/ HandlerReceiveSecond
    \/ SetTrailer \/ HandlerSend
    \/ RefuseRequest \/ RejectCall \/ HandlerReturns \/ ServerEndsResponse
    \/ HandlerPanics \/ ConnectionLost
    \/ ReceiveMessage \/ ReceiveEnd \/ ReceiveUnary \/ ReceiveRefused \/ ReceiveAgain
    \/ Finished

Spec == Init /\ [][Next]_vars

-----------------------------------------------------------------------------
(* Properties.                                                             *)

\* ServerStream and ClientStream report "clean receive-side completion" with
\* io.EOF.  The client is told that a call succeeded only if its handler
\* returned nil and every response the handler sent was taken, however the
\* response was cut off, refused or undecodable; a single response is one.
\* Connect unary has no end of its own: there a response that was sent stands
\* for success, and none for the zero message.
SuccessIsComplete ==
    ended = "ok" =>
        /\ outcome = "nil" \/ (ConnectUnary /\ sent # <<>>)
        /\ got = sent \/ (ConnectUnary /\ sent = <<>> /\ got = <<Zero>>)
        /\ SingleResponse => Len(got) = 1

\* An error the client attributes to the server is the handler's own verdict:
\* scrubHandlerError's, never the code of an error the handler got from another
\* server, nor one read from a response that was cut off.  And it is final:
\* however often Receive is called after the end, a stream repeats the server's
\* error, and one that failed or ended never reports success.
ErrorIsHandlers ==
    /\ ended \notin {"open", "local", "ok"} =>
          outcome # "none" /\ ended \in Verdict /\ ended = scrubHandlerError(outcome)
    /\ \A i \in DOMAIN again :
         IF ended \in Verdict \ {"ok"} /\ ~SingleResponse THEN again[i] = ended
         ELSE again[i] \notin Verdict

\* A response that ended as its server meant it to.
Whole == handler = "done" /\ ~cut /\ head # "refused"

\* Something other than the handler went wrong with the call: the response was
\* cut off or refused, a message or the end could not be read, or a single
\* response was none or several.
Excused ==
    \/ cut \/ head = "refused" \/ endLimit # "none"
    \/ \E i \in DOMAIN sent : i > Len(got)
    \/ SingleResponse /\ (Len(sent) > 1 \/ (sent = <<>> /\ endVerdict = "ok"))

\* ServerStream: "the transport finalizes the RPC when the handler returns,
\* encoding the handler's error and any trailers".  Once a response has ended, it
\* carries the verdict of its handler and its trailers; but for an end-stream
\* message that is too big to send and, in a unary call, what comes after the
\* response (trailers; in Connect the error as well).  And the client finds what
\* the response carries, wherever the protocol put it: unless the call went wrong on
\* the way, it is told the verdict and given the trailers, once (a Receive after
\* the end may repeat them, and never brings any that were not there).
EndIsDelivered ==
    /\ Whole /\ endLimit # "send" =>
          /\ ~(ConnectUnary /\ wroteToBody) => endVerdict = scrubHandlerError(outcome)
          /\ ~(Unary /\ sends > 0) => endTrailer = trailer
    /\ ended # "open" /\ ~Excused =>
          /\ ended = endVerdict
          /\ IF endTrailer THEN gotTrailer >= 1 /\ (again = <<>> => gotTrailer = 1)
             ELSE gotTrailer = 0

\* A handler that is told the end of the requests has consumed every request
\* the client sent and the client has closed its side; the only request of a
\* unary or server-streaming call is the only one that was sent.
RequestIsComplete ==
    /\ hrecv.res = "eof" => reqEnd = "eof" /\ reqGot = reqSent
    /\ SingleRequest /\ hrecv.res = "message" =>
          /\ reqEnd = "eof" /\ reqGot = reqSent /\ reqSent <= 1
          /\ ~ConnectUnary => reqSent = 1
=============================================================================
