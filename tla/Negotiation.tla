----------------------------- MODULE Negotiation -----------------------------
(***************************************************************************)
(* How a client and a server that were configured apart agree on the HTTP  *)
(* method, the codec, the compression and the size of the messages of an   *)
(* RPC, or how the client learns that they do not: the request headers and *)
(* the choice of GET on the client; net/http middleware with an            *)
(* ErrorWriter, Mount's routes, handler.ServeHTTP, NewConn and             *)
(* negotiateCompression on the server; validateResponse and the reading of *)
(* the response and of its end back on the client.  What is decided, and   *)
(* what the client is told, is an error in the sense of ErrorWire, of code *)
(* "ok" when there is none.                                                *)
(*                                                                         *)
(* A media type is its protocol and its codec.  Limits are chosen where    *)
(* they are applied; whether a message fits into a URL is a choice too.    *)
(***************************************************************************)
EXTENDS MessageLimits, ErrorWire

CONSTANTS
    Codecs,        \* codec names
    Compressors,   \* compression names
    Protocols,     \* subset of {"connect", "grpc", "grpcweb"}: client protocols
    StreamTypes    \* subset of {"unary", "client", "server", "bidi"}

ASSUME NegotiationAssumption ==
    /\ Codecs # {} /\ Identity \notin Compressors
    /\ Protocols \subseteq {"connect", "grpc", "grpcweb"}
    /\ StreamTypes \subseteq {"unary", "client", "server", "bidi"}

Encoding == Compressors \cup {Identity}

\* NewClientStream refuses a send compression that is not among the compressors.
\* GET is an option of Connect unary calls; another protocol ignores it.
Clients(streamType) ==
    {c \in [protocol : Protocols, codec : Codecs, compressors : SUBSET Compressors,
            send : Encoding, get : {"off", "on", "fallback"}] :
        /\ c.send \in c.compressors \cup {Identity}
        /\ c.protocol # "connect" \/ streamType # "unary" => c.get = "off"}

Servers ==
    [codecs : SUBSET Codecs \ {{}}, compressors : SUBSET Compressors, idempotent : BOOLEAN]

NoMessage == [size |-> 0, wire |-> 0, by |-> Identity]
NoRequest == [method |-> "none", codec |-> "none", encoding |-> Identity, versioned |-> TRUE,
              accept |-> {}, msg |-> NoMessage]

\* A response has its end apart from the messages (in headers, HTTP trailers or a
\* JSON body), in an envelope of its own, or not at all.  Its media type is a codec,
\* or that of a plain HTTP response.
Reply(status, media, error, encoding, sent, msg) ==
    [status |-> status, media |-> media, error |-> error, encoding |-> encoding,
     sent |-> sent, msg |-> msg, ends |-> "apart", end |-> NoMessage]
Ended(r, ends, end) ==
    [status |-> r.status, media |-> r.media, error |-> r.error, encoding |-> r.encoding,
     sent |-> r.sent, msg |-> r.msg, ends |-> ends, end |-> end]
NoResponse == Reply(0, "plain", Success, Identity, FALSE, NoMessage)
NotTaken == [size |-> 0, wire |-> 0, limit |-> 0, got |-> 0]

VARIABLES
    streamType,   \* of the procedure; both sides have it from the schema
    client,       \* the client's options
    server,       \* the handler's options
    pc,           \* "send", "serve", "handle", "handled", "respond", "receive", "done"
    known,        \* whether the server has the procedure
    request,      \* the request on the wire
    pools,        \* the request and response compression the handler chose
    decided,      \* what the server means to answer, once it does
    response,     \* the response on the wire
    taken,        \* the last message that was unmarshaled, and with what result
    verdict       \* what the client was told

vars == <<streamType, client, server, pc, known, request, pools, decided, response, taken,
          verdict>>
config == <<streamType, client, server>>

Init ==
    /\ streamType \in StreamTypes
    /\ client \in Clients(streamType)
    /\ server \in Servers
    /\ pc = "send"
    /\ known = TRUE
    /\ request = NoRequest
    /\ pools = [request |-> Identity, response |-> Identity]
    /\ decided = Nothing
    /\ response = NoResponse
    /\ taken = NotTaken
    /\ verdict = Nothing

ConnectUnary == client.protocol = "connect" /\ streamType = "unary"

\* The protocols that put the end of a stream into an envelope.
Enveloped == ~ConnectUnary /\ client.protocol # "grpc"

Take(m, limit, got) == [size |-> m.size, wire |-> m.wire, limit |-> limit, got |-> got]

Fails(code) ==
    /\ pc' = "done" /\ verdict' = Plain(code)
    /\ UNCHANGED <<config, known, request, pools, decided, response, taken>>

-----------------------------------------------------------------------------
(* The client sends.                                                       *)

\* Fault: a compressed Connect unary request does not name its compression.
SendsUnnamed(method, m) ==
    \E versioned \in IF client.protocol = "connect" THEN BOOLEAN ELSE {TRUE} :
      /\ request' = [method |-> method, codec |-> client.codec,
                     encoding |-> IF ConnectUnary THEN Identity ELSE client.send,
                     versioned |-> versioned, accept |-> client.compressors, msg |-> m]
      /\ pc' = "serve"
      /\ UNCHANGED <<config, known, pools, decided, response, taken, verdict>>

\* The request goes out with the headers of WriteRequestHeader.  An enveloped
\* protocol names the compression it may use; a Connect unary request only the
\* one it does use.  A codec of a GET is a parameter of its URL.  (This client
\* always states the version of the Connect protocol; others may leave it out.)
Sends(method, m) ==
    \E versioned \in IF client.protocol = "connect" THEN BOOLEAN ELSE {TRUE} :
      /\ request' = [method |-> method, codec |-> client.codec,
                     encoding |-> IF ConnectUnary THEN m.by ELSE client.send,
                     versioned |-> versioned, accept |-> client.compressors, msg |-> m]
      /\ pc' = "serve"
      /\ UNCHANGED <<config, known, pools, decided, response, taken, verdict>>

\* The marshaler refuses to send what is larger than sendMaxBytes.
Marshal(size, packed) ==
    \E minBytes \in {0, 2}, sendMaxBytes \in Sizes :
      LET written == Write(size, packed, client.send, minBytes, sendMaxBytes)
      IN  IF written = {} THEN Fails("resource_exhausted")
          ELSE \E m \in written : Sends("POST", m)

\* marshalWithGet: the message goes into the URL as it is when it fits there and
\* into sendMaxBytes, compressed when only that fits, and into a POST with the
\* fallback when neither does.
marshalWithGet(size, packed) ==
    \E sendMaxBytes \in Sizes, fits, compressedFits \in BOOLEAN :
      LET plain == [size |-> size, wire |-> size, by |-> Identity]
          compressed == [size |-> size, wire |-> packed, by |-> client.send]
          isTooBig == Exceeds(size, sendMaxBytes)
      IN  IF isTooBig /\ client.send = Identity THEN Fails("resource_exhausted")
          ELSE IF ~isTooBig /\ fits THEN Sends("GET", plain)
          ELSE IF ~isTooBig /\ client.send = Identity
               THEN IF client.get = "fallback" THEN Sends("POST", plain)
                    ELSE Fails("resource_exhausted")
          ELSE IF Exceeds(packed, sendMaxBytes) THEN Fails("resource_exhausted")
          ELSE IF compressedFits THEN Sends("GET", compressed)
          ELSE IF client.get = "fallback" THEN Sends("POST", compressed)
          ELSE Fails("resource_exhausted")

\* The marshaler of a Connect unary call to a method without side effects.  A
\* codec that has no stable form cannot be used with GET.
MarshalGet(size, packed) ==
    \E stable \in BOOLEAN :
      IF stable THEN marshalWithGet(size, packed)
      ELSE IF client.get = "fallback" THEN Marshal(size, packed)
      ELSE Fails("internal")

\* The client's spec may be newer than the server's and say that the method has no
\* side effects.
Send ==
    /\ pc = "send"
    /\ \E size \in Sizes : \E packed \in Packed(size) :
         \/ Marshal(size, packed)
         \/ ConnectUnary /\ client.get # "off" /\ MarshalGet(size, packed)

-----------------------------------------------------------------------------
(* The server.                                                             *)

\* The response leaves; the server is done with the request.
Answers(error, r) ==
    /\ decided' = error
    /\ response' = r
    /\ pc' = "receive"
    /\ request' = NoRequest /\ taken' = NotTaken
    /\ UNCHANGED <<config, pools, verdict>>

\* A plain HTTP status, before any protocol handler took the request.  Not found is
\* how an unknown method or service is told.
Refuse(status) ==
    Answers(IF status = 404 THEN Plain("unimplemented") ELSE Nothing,
            Reply(status, "plain", Success, Identity, FALSE, NoMessage))

\* The HTTP status of a code.
connectCodeToHTTP(code) ==
    IF code \in Canonical
    THEN <<499, 500, 400, 504, 404, 409, 403, 429, 400, 409, 400, 501, 500, 503, 500, 401>>[code]
    ELSE 500

\* The end of a stream is itself a message of the marshaler: it is compressed, and
\* subject to sendMaxBytes.  When that does not let it through, the response ends
\* without it.
MarshalEnd(r, pool, minBytes, sendMaxBytes) ==
    {LET written == Write(size, packed, pool, minBytes, sendMaxBytes)
     IN  IF written = {} THEN Ended(r, "missing", NoMessage)
         ELSE Ended(r, "enveloped", CHOOSE m \in written : TRUE) :
        size \in {1, MaxInt}, packed \in {1, MaxInt}}

\* What becomes of an error on the wire.  Headers may lose the spaces around a
\* message, and the trailers of gRPC-Web do.
Encoded(error, enveloped) ==
    IF client.protocol = "connect" THEN {newConnectWireError(error)}
    ELSE LET trailer == grpcErrorToTrailer(error)
             trimmed == [trailer EXCEPT !.message = TrimSpace(@)]
         IN  IF enveloped THEN {trimmed} ELSE {trailer, trimmed}

\* The handler's connection is closed with an error and no message was sent: the
\* error is in a JSON body for Connect unary; in HTTP trailers for gRPC; in headers
\* for gRPC-Web as long as there are no other headers and no Send was tried; in an
\* envelope otherwise.
CloseWith(error, pool, sendMaxBytes, tried) ==
    LET r(wire) == IF ConnectUnary
                   THEN Reply(connectCodeToHTTP(Code(error)), "json", wire, Identity,
                              FALSE, NoMessage)
                   ELSE Reply(200, client.codec, wire, pool, FALSE, NoMessage)
    IN  \/ /\ ~Enveloped \/ (client.protocol = "grpcweb" /\ ~tried)
           /\ \E wire \in Encoded(error, FALSE) : Answers(error, r(wire))
        \/ /\ Enveloped
           /\ \E minBytes \in {0, 2}, wire \in Encoded(error, TRUE) :
                \E ended \in MarshalEnd(r(wire), pool, minBytes, sendMaxBytes) :
                  Answers(error, ended)

\* connectCheckProtocolVersion.
connectCheckProtocolVersion(required) == required => request.versioned

\* ErrorWriter.classifyRequest, with the check of the protocol version.
classifyRequest(required) ==
    IF client.protocol # "connect" THEN client.protocol
    ELSE IF streamType # "unary" THEN "connectstream"
    ELSE IF ~connectCheckProtocolVersion(required) THEN "unknown"
    ELSE "connectunary"

\* Fault: the error of a stream is written as that of a unary call.
writeErrorUnary(error, required) ==
    Answers(error, Reply(connectCodeToHTTP(Code(error)), "json", newConnectWireError(error),
                         Identity, FALSE, NoMessage))

\* ErrorWriter.Write: neither limits nor compression apply.  A request of an unknown
\* protocol is answered like a Connect unary one.
writeError(error, required) ==
    \E wire \in Encoded(error, FALSE), size \in {1, MaxInt} :
      LET type == classifyRequest(required)
          r == IF type \in {"connectunary", "unknown"}
               THEN Reply(connectCodeToHTTP(Code(error)), "json", wire, Identity, FALSE, NoMessage)
               ELSE Reply(200, client.codec, wire, Identity, FALSE, NoMessage)
      IN  Answers(error, IF type # "connectstream" THEN r
                         ELSE Ended(r, "enveloped",
                                    [size |-> size, wire |-> size, by |-> Identity]))

\* net/http middleware in front of the handlers refuses the request.
Middleware ==
    /\ pc = "serve"
    /\ \E required \in BOOLEAN : writeError(Plain("resource_exhausted"), required)
    /\ UNCHANGED known

\* Fault: the response is compressed with whatever the handler has.
negotiateCompressionOwn(sent, accept) ==
    IF sent \notin server.compressors \cup {Identity} THEN {}
    ELSE {[request |-> sent, response |-> r] :
            r \in IF server.compressors = {} THEN {Identity} ELSE server.compressors}

\* negotiateCompression: the request's compression must be known, the response
\* uses the same, or else the first the client accepts (any: the client's order is
\* not modelled) that the handler has.  Empty when the request's is unknown.
negotiateCompression(sent, accept) ==
    IF sent \notin server.compressors \cup {Identity} THEN {}
    ELSE LET mutual == accept \cap server.compressors
         IN  {[request |-> sent, response |-> r] :
                r \in IF sent # Identity THEN {sent}
                      ELSE IF mutual = {} THEN {Identity} ELSE mutual}

\* Streams of responses are flushed after every message.
checkServerStreamsCanFlush(specType, flusher) == specType \in {"server", "bidi"} => flusher

\* NewConn: compression, then the flusher that server streams need, then the
\* version that a unary Connect handler may require.
NewConn(specType, flusher, required) ==
    LET chosen == negotiateCompression(request.encoding, request.accept)
    IN  IF chosen = {}
        THEN \E sendMaxBytes \in Sizes :
               CloseWith(Plain("unimplemented"), Identity, sendMaxBytes, FALSE)
        ELSE \E p \in chosen :
               IF ~checkServerStreamsCanFlush(specType, flusher)
               THEN \E sendMaxBytes \in Sizes :
                      CloseWith(Plain("internal"), p.response, sendMaxBytes, FALSE)
               ELSE IF ConnectUnary /\ ~connectCheckProtocolVersion(required)
               THEN CloseWith(Plain("invalid_argument"), p.response, 0, FALSE)
               ELSE /\ pools' = p
                    /\ pc' = "handle"
                    /\ UNCHANGED <<config, request, decided, response, taken, verdict>>

\* protocolConnect.NewHandler: GET is for unary methods without side effects.
connectNewHandler(specType, idempotent) ==
    [methods |-> IF specType = "unary" /\ idempotent THEN {"POST", "GET"} ELSE {"POST"},
     accept |-> server.codecs]

\* protocolGRPC.NewHandler.
grpcNewHandler == [methods |-> {"POST"}, accept |-> server.codecs]

\* handler.ServeHTTP of a procedure: full duplex needs HTTP/2; the method, then the
\* media type, select a protocol handler.
ServeProcedure(specType, idempotent, protoMajor, flusher, required) ==
    LET handler == IF client.protocol = "connect" THEN connectNewHandler(specType, idempotent)
                   ELSE grpcNewHandler
    IN  IF specType = "bidi" /\ protoMajor < 2 THEN Refuse(505)
        ELSE IF request.method \notin handler.methods THEN Refuse(405)
        ELSE IF request.codec \notin handler.accept THEN Refuse(415)
        ELSE NewConn(specType, flusher, required)

\* The catch-all of a service: POSTs of an RPC protocol are served like the
\* procedures, in the most permissive shape the framing allows.
newUnknownMethodHandler(protoMajor, flusher, required) ==
    IF request.method # "POST" \/ classifyRequest(required) = "unknown" THEN Refuse(404)
    ELSE ServeProcedure(IF ConnectUnary THEN "unary" ELSE "bidi", FALSE,
                        protoMajor, flusher, required)

\* The mux routes by the path: to the procedure, to the catch-all of its service, or
\* nowhere.
ServeHTTP ==
    /\ pc = "serve"
    /\ \E protoMajor \in {1, 2}, flusher, required \in BOOLEAN :
         \/ known' = TRUE
            /\ ServeProcedure(streamType, server.idempotent, protoMajor, flusher, required)
         \/ known' = FALSE /\ newUnknownMethodHandler(protoMajor, flusher, required)
         \/ known' = FALSE /\ Refuse(404)

\* The handler receives its request.
TakeRequest ==
    /\ pc = "handle" /\ known
    /\ \E limit \in Sizes :
         taken' = Take(request.msg, limit,
                       IF ConnectUnary THEN UnmarshalFunc(request.msg, pools.request, limit)
                       ELSE Unmarshal(request.msg, pools.request, limit))
    /\ pc' = "handled"
    /\ UNCHANGED <<config, known, request, pools, decided, response, verdict>>

\* Server.Call without a method of the name, a Receive that failed, or an error of
\* the handler's own: that is what the handler returns.
Handle ==
    /\ \/ pc = "handle" /\ ~known /\ decided' = Plain("unimplemented")
       \/ pc = "handled" /\ taken.got = Refused /\ decided' = Plain("resource_exhausted")
       \/ pc = "handled" /\ taken.got = Garbage /\ decided' = Plain("invalid_argument")
       \/ pc = "handled" /\ taken.got >= 0 /\ decided' \in Errors \cup {NoError}
    /\ pc' = "respond"
    /\ request' = NoRequest /\ taken' = NotTaken
    /\ UNCHANGED <<config, known, pools, response, verdict>>

\* The handler responds.  A Connect unary response names its compression when it
\* was large enough for it; the others name what they may use.  A message that
\* exceeds sendMaxBytes is not sent, and the handler returns that error.
Respond ==
    /\ pc = "respond"
    /\ \E sendMaxBytes \in Sizes :
         IF decided # NoError THEN CloseWith(decided, pools.response, sendMaxBytes, FALSE)
         ELSE \E size \in Sizes, minBytes \in {0, 2} : \E packed \in Packed(size) :
           LET written == Write(size, packed, pools.response, minBytes, sendMaxBytes)
           IN  IF written = {}
               THEN CloseWith(Plain("resource_exhausted"), pools.response, sendMaxBytes, TRUE)
               ELSE \E m \in written :
                 LET r == Reply(200, client.codec, Success,
                                IF ConnectUnary THEN m.by ELSE pools.response, TRUE, m)
                 IN  \/ ~Enveloped /\ Answers(decided, r)
                     \/ /\ Enveloped
                        /\ \E ended \in MarshalEnd(r, pools.response, minBytes, sendMaxBytes) :
                             Answers(decided, ended)
    /\ UNCHANGED known

-----------------------------------------------------------------------------
(* The client receives.                                                    *)

httpToCode(status) ==
    CASE status = 400 -> "internal"
      [] status = 401 -> "unauthenticated"
      [] status = 403 -> "permission_denied"
      [] status = 404 -> "unimplemented"
      [] status \in {429, 502, 503, 504} -> "unavailable"
      [] OTHER -> "unknown"

\* A unary Connect response has the codec of the request, or is an error in JSON.
\* Empty, or the code of what is wrong.
connectValidateUnaryResponseContentType ==
    IF response.status # 200
    THEN IF response.media = "json" THEN {} ELSE {httpToCode(response.status)}
    ELSE IF response.media = client.codec THEN {}
    ELSE IF response.media = "plain" THEN {"unknown"} ELSE {"internal"}

\* The same of a Connect stream.
connectValidateStreamResponseContentType ==
    IF response.status # 200 THEN {httpToCode(response.status)}
    ELSE IF response.media = client.codec THEN {}
    ELSE IF response.media = "plain" THEN {"unknown"} ELSE {"internal"}

\* The same of gRPC and gRPC-Web.
grpcValidateResponseContentType ==
    IF response.status # 200 THEN {httpToCode(response.status)}
    ELSE IF response.media = client.codec THEN {}
    ELSE IF response.media = "plain" THEN {"unknown"} ELSE {"internal"}

\* The error at the end of the response, if there is one.
EndError(otherwise) ==
    IF client.protocol # "connect" THEN grpcErrorForTrailer(response.error)
    ELSE IF response.error.text = NoText THEN NoError
    ELSE asError(response.error, otherwise)

\* Fault: an HTTP status is final, whatever the body says.
validateResponseStatus ==
    IF response.status # 200 THEN Plain(httpToCode(response.status))
    ELSE IF response.encoding \notin client.compressors \cup {Identity} THEN Plain("internal")
    ELSE EndError("internal")

\* validateResponse: the media type, then the compression, must be the client's;
\* then the error is decoded, if there is one.
validateResponse ==
    LET invalid == IF ConnectUnary THEN connectValidateUnaryResponseContentType
                   ELSE IF client.protocol = "connect"
                   THEN connectValidateStreamResponseContentType
                   ELSE grpcValidateResponseContentType
    IN  IF invalid # {} THEN Plain(CHOOSE code \in invalid : TRUE)
        ELSE IF response.encoding \notin client.compressors \cup {Identity} THEN Plain("internal")
        ELSE EndError(IF ConnectUnary THEN httpToCode(response.status) ELSE "internal")

\* The error of a message that could not be read.
Unread(got) == Plain(IF got = Refused THEN "resource_exhausted" ELSE "invalid_argument")

\* The client receives the message, if there is one, and then the end.  A stream
\* that ends without its end is an error.
Receive ==
    /\ pc = "receive"
    /\ \E limit \in Sizes :
         LET got == IF ConnectUnary THEN UnmarshalFunc(response.msg, response.encoding, limit)
                    ELSE Unmarshal(response.msg, response.encoding, limit)
             ended == Unmarshal(response.end, response.encoding, limit)
             valid == response.status = 200
                      /\ response.encoding \in client.compressors \cup {Identity}
         IN  IF valid /\ response.sent /\ got < 0
             THEN taken' = Take(response.msg, limit, got) /\ verdict' = Unread(got)
             ELSE IF valid /\ response.ends = "missing"
             THEN taken' = taken /\ verdict' = Plain("internal")
             ELSE IF valid /\ response.ends = "enveloped" /\ ended < 0
             THEN taken' = Take(response.end, limit, ended) /\ verdict' = Unread(ended)
             ELSE /\ taken' = IF valid /\ response.sent THEN Take(response.msg, limit, got)
                              ELSE taken
                  /\ verdict' = validateResponse
    /\ pc' = "done"
    /\ UNCHANGED <<config, known, request, pools, decided, response>>

Finished == pc = "done" /\ UNCHANGED vars

Next ==
    \/ Send \/ Middleware \/ ServeHTTP \/ TakeRequest \/ Handle \/ Respond \/ Receive
    \/ Finished

Spec == Init /\ [][Next]_vars

-----------------------------------------------------------------------------
(* Properties.                                                             *)

\* Whatever was negotiated, a message arrives as it was sent, or is refused because
\* it (or what it was compressed to) is larger than readMaxBytes; never is one taken
\* apart with another compression, cut off at the limit or refused within it,
\* whichever limit that is.
MessageIsWhole ==
    taken.got = IF Exceeds(taken.size, taken.limit) \/ Exceeds(taken.wire, taken.limit)
                THEN Refused ELSE taken.size

\* What the client is told is not what the server decided: the client's readMaxBytes
\* refused the message or the end of the stream, or the server's sendMaxBytes kept
\* back that end ("internal" is then all the client learns).
Withheld ==
    \/ taken.got = Refused /\ verdict = Plain("resource_exhausted")
    \/ response.ends = "missing" /\ verdict = Plain("internal")

\* The client is told what the server (its handler, NewConn, Mount's catch-all or
\* middleware with an ErrorWriter) decided, by the code and not by the HTTP status it
\* maps to.  An error with details that Protobuf cannot marshal is internal in gRPC.
\* One without a code is unknown, and never a success; so is one whose code is not
\* canonical in Connect, where gRPC keeps the number.
DecisionIsTold ==
    pc = "done" /\ decided # Nothing =>
        \/ Withheld
        \/ verdict.code = IF /\ client.protocol # "connect"
                             /\ \E i \in DOMAIN decided.details : decided.details[i] = BadDetail
                          THEN CodeNamed("internal")
                          ELSE IF decided.code = 0 \/ (decided.code = 17 /\ client.protocol = "connect")
                          THEN CodeNamed("unknown") ELSE decided.code

\* The message and the details of a handler's error arrive as they are in every
\* protocol, whatever bytes they are made of, '%' and the bytes of other characters
\* included.  Only JSON replaces what is not UTF-8, headers lose the spaces around a
\* message that no status goes along with, and details whose type is not UTF-8 are
\* changed (Connect) or lost with the rest of the error (gRPC).
ErrorIsWhole ==
    LET bad == \E i \in DOMAIN decided.details : decided.details[i] = BadDetail
        ascii == \A i \in DOMAIN decided.message : decided.message[i] < 128
        character == decided.message = <<195, 169>>
    IN  pc = "done" /\ decided \notin {Nothing, NoError} /\ ~Withheld /\ ~bad =>
          /\ verdict.details = decided.details
          /\ \/ verdict.message = decided.message
             \/ client.protocol = "connect" /\ ~ascii /\ ~character
             \/ /\ client.protocol # "connect" /\ decided.details = <<>>
                /\ verdict.message = TrimSpace(decided.message)
=============================================================================
