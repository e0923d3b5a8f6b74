-------------------------- MODULE HTTPClientStream --------------------------
(***************************************************************************)
(* One streaming RPC on the client side of the HTTP transport: a           *)
(* connectStreamingClientStream over its duplexHTTPCall.                   *)
(*                                                                         *)
(* Five activities interleave: the client's send side, its receive side,   *)
(* Close, the goroutine makeRequest, and net/http (external), which reads  *)
(* the request body from a pipe, returns from Do and fills the response    *)
(* body.  A read of the response body yields a message, the clean end of   *)
(* the stream, or a failure.                                               *)
(***************************************************************************)
EXTENDS Naturals

CONSTANTS
    StreamTypes,  \* subset of {"client", "server", "bidi"}
    Protocols,    \* subset of {"connect", "grpc"} (which stands for gRPC-Web too)
    MaxSends,     \* bound on the calls of Send
    MaxMessages   \* bound on the response messages of the server

ASSUME ParametersAssumption ==
    /\ StreamTypes \subseteq {"client", "server", "bidi"}
    /\ Protocols \subseteq {"connect", "grpc"}
    /\ MaxSends \in Nat /\ MaxMessages \in Nat

VARIABLES
    streamType,    \* of the procedure
    protocol,      \* of the client
    ctx,           \* the call's context: "live" or "done"
    requestSent,   \* duplexHTTPCall.requestSent
    request,       \* how far makeRequest has come
    started,       \* history: how many times Do was called
    response,      \* duplexHTTPCall.response: "nil" or "response"
    responseErr,   \* duplexHTTPCall.responseErr: "nil" or "error"
    responseReady, \* responseReady is closed
    pipe,          \* request body: "open", "writer" or "reader" closed, "both"
    body,          \* response body: "none", "open" or "closed"
    inbox,         \* response messages in the body that were not read
    tail,          \* what follows them: "none" yet, "clean", "error" or "cut"
    send,          \* Send and SendHeaders: [pc, msg, calls, res]
    recv,          \* Receive: [pc, msgs, res]
    rxEnd,         \* connectStreamingClientStream.rxEnd
    close,         \* Close: "idle", "await", "parked" or "returned"
    taken,         \* history: response messages Receive took
    served         \* history: response messages the server sent

vars == <<streamType, protocol, ctx, requestSent, request, started, response, responseErr,
          responseReady, pipe, body, inbox, tail, send, recv, rxEnd, close, taken, served>>
config == <<streamType, protocol>>
call == <<requestSent, request>>
result == <<response, responseErr, responseReady>>
incoming == <<inbox, tail, served>>
receiver == <<recv, rxEnd, taken>>

Pipes == streamType \in {"client", "bidi"}
WriterClosed(p) == IF p \in {"reader", "both"} THEN "both" ELSE "writer"
ReaderClosed(p) == IF p \in {"writer", "both"} THEN "both" ELSE "reader"

Init ==
    /\ streamType \in StreamTypes /\ protocol \in Protocols
    /\ ctx = "live"
    /\ requestSent = FALSE
    /\ request = "none" /\ started = 0
    /\ response = "nil" /\ responseErr = "nil" /\ responseReady = FALSE
    /\ pipe = "open"
    /\ body = "none" /\ inbox = 0 /\ tail = "none"
    /\ send = [pc |-> "idle", msg |-> "none", calls |-> 0, res |-> "none"]
    /\ recv = [pc |-> "idle", msgs |-> 0, res |-> "none"]
    /\ rxEnd = FALSE
    /\ close = "idle"
    /\ taken = 0 /\ served = 0

-----------------------------------------------------------------------------
(* The send side.  "After Close, the stream must not be used again": an    *)
(* operation may be pending when Close is called, none begins afterwards.  *)

\* Fault: requestSent is not looked at.
StartRequestAgain ==
    /\ requestSent' = TRUE
    /\ request' = "spawned"

\* requestSent.CompareAndSwap: the first caller starts makeRequest.
StartRequest ==
    /\ requestSent' = TRUE
    /\ request' = IF requestSent THEN request ELSE "spawned"

\* CloseWrite closes the pipe's writer.  Without a pipe it closes a request
\* body whose Close does nothing.
CloseWrite ==
    /\ StartRequest
    /\ pipe' = IF Pipes THEN WriterClosed(pipe) ELSE pipe

\* Send of a message, or SendHeaders, whose payload is empty.
Send(msg) ==
    /\ close = "idle" /\ send.pc = "idle"
    /\ LET calls == IF msg = "message" THEN send.calls + 1 ELSE send.calls IN
         /\ calls <= MaxSends
         /\ \/ /\ Pipes \/ ~requestSent
               /\ StartRequest
               /\ send' = [pc |-> IF Pipes THEN "started" ELSE "request", msg |-> msg,
                           calls |-> calls, res |-> "none"]
            \/ /\ ~Pipes /\ requestSent    \* sendUnary: request already sent
               /\ send' = [pc |-> "idle", msg |-> "none", calls |-> calls,
                           res |-> "already_sent"]
               /\ UNCHANGED call
    /\ UNCHANGED <<config, ctx, started, result, pipe, body, incoming, receiver, close>>

SendReturns(res) ==
    /\ send' = [pc |-> "idle", msg |-> "none", calls |-> send.calls, res |-> res]
    /\ UNCHANGED <<config, ctx, call, started, result, pipe, body, incoming, receiver, close>>

\* The context is looked at once, before the message is written.
SendChecks ==
    /\ send.pc = "started"
    /\ \/ ctx = "done" /\ SendReturns("ctx")
       \/ ctx = "live" /\ send.msg = "headers" /\ SendReturns("nil")
       \/ /\ ctx = "live" /\ send.msg = "message"
          /\ send' = [send EXCEPT !.pc = "write"]
          /\ UNCHANGED <<config, ctx, call, started, result, pipe, body, incoming, receiver,
                         close>>

\* The write fails on a closed pipe, with the context's error when it is done.
SendFails ==
    /\ send.pc = "write" /\ pipe # "open"
    /\ SendReturns(IF ctx = "done" THEN "ctx" ELSE "eof")

\* sendUnary runs makeRequest itself and returns when that does.
SendUnaryReturns ==
    /\ send.pc = "request" /\ request = "done"
    /\ SendReturns(IF responseErr # "nil" /\ ctx = "done" THEN "ctx" ELSE "nil")

CloseSend ==
    /\ close = "idle" /\ send.pc = "idle"
    /\ CloseWrite
    /\ send' = [send EXCEPT !.res = "closed"]
    /\ UNCHANGED <<config, ctx, started, result, body, incoming, receiver, close>>

-----------------------------------------------------------------------------
(* makeRequest, around its call of Do.                                     *)

Underway == request \notin {"none", "spawned"}

CallDo ==
    /\ request = "spawned"
    /\ request' = "doing"
    /\ started' = started + 1
    /\ UNCHANGED <<config, ctx, requestSent, result, pipe, body, incoming, send, receiver,
                   close>>

\* Fault: the error of Do is not recorded.
DoFailsSilently ==
    /\ request = "doing"
    /\ request' = "failing"
    /\ UNCHANGED <<config, ctx, requestSent, started, result, pipe, body, incoming, send,
                   receiver, close>>

DoFails ==
    /\ request = "doing"
    /\ responseErr' = "error"
    /\ request' = "failing"
    /\ UNCHANGED <<config, ctx, requestSent, started, response, responseReady, pipe, body,
                   incoming, send, receiver, close>>

\* The response is refused when it fails validation, or when a bidi stream got
\* an HTTP/1 response.
DoResponds ==
    /\ request = "doing"
    /\ response' = "response" /\ body' = "open"
    /\ \/ responseErr' = "error" /\ request' = "failing"
       \/ UNCHANGED responseErr /\ request' = "publish"
    /\ UNCHANGED <<config, ctx, requestSent, started, responseReady, pipe, incoming, send,
                   receiver, close>>

\* Fault: a failed request leaves the write side open.
FailureLeavesWrite ==
    /\ request = "failing"
    /\ request' = "publish"
    /\ UNCHANGED <<config, ctx, requestSent, started, result, pipe, body, incoming, send,
                   receiver, close>>

\* Every failure closes the write side before the response is published.
FailureClosesWrite ==
    /\ request = "failing"
    /\ request' = "publish"
    /\ pipe' = IF Pipes THEN WriterClosed(pipe) ELSE pipe
    /\ UNCHANGED <<config, ctx, requestSent, started, result, body, incoming, send, receiver,
                   close>>

PublishResponse ==
    /\ request = "publish"
    /\ responseReady' = TRUE
    /\ request' = "done"
    /\ UNCHANGED <<config, ctx, requestSent, started, response, responseErr, pipe, body,
                   incoming, send, receiver, close>>

-----------------------------------------------------------------------------
(* The receive side.                                                       *)

Receive ==
    /\ close = "idle" /\ recv.pc = "idle"
    /\ \/ /\ streamType = "client" /\ rxEnd
          /\ recv' = [pc |-> "idle", msgs |-> 0, res |-> "eof_again"]
          /\ UNCHANGED rxEnd
       \/ /\ ~(streamType = "client" /\ rxEnd)
          /\ rxEnd' = (streamType = "client")
          /\ recv' = [pc |-> "await", msgs |-> 0, res |-> "none"]
    /\ UNCHANGED <<config, ctx, call, started, result, pipe, body, incoming, send, close,
                   taken>>

RecvTo(pc, res) == recv' = [pc |-> pc, msgs |-> recv.msgs, res |-> res]

\* Fault: a parked Receive waits for the response alone.
AwaitIgnoresContext ==
    /\ recv.pc \in {"await", "parked"}
    /\ responseReady
    /\ RecvTo(IF responseErr = "nil" THEN "read" ELSE "finish",
              IF responseErr = "nil" THEN "none" ELSE "fail")
    /\ UNCHANGED <<config, ctx, call, started, result, pipe, body, incoming, send, rxEnd, close,
                   taken>>

\* blockUntilResponseReady, then the context check of Read.
Await ==
    /\ recv.pc \in {"await", "parked"}
    /\ \/ /\ responseReady /\ responseErr = "nil" /\ ctx = "live"
          /\ RecvTo("read", "none")
          /\ UNCHANGED <<call, pipe>>
       \/ /\ responseReady /\ responseErr = "nil" /\ ctx = "done"
          /\ RecvTo("finish", "fail")
          /\ CloseWrite
       \/ /\ responseReady /\ responseErr # "nil"
          /\ RecvTo("finish", "fail")
          /\ UNCHANGED <<call, pipe>>
       \/ /\ ~responseReady /\ recv.pc = "await"
          /\ RecvTo("parked", "none")
          /\ UNCHANGED <<call, pipe>>
       \/ /\ recv.pc = "parked" /\ ctx = "done"
          /\ RecvTo("finish", "fail")
          /\ UNCHANGED <<call, pipe>>
    /\ UNCHANGED <<config, ctx, started, result, body, incoming, send, rxEnd, close, taken>>

\* Fault: a client-streaming RPC is content with the first message.
ReadMessageOnce ==
    /\ recv.pc = "read" /\ body = "open" /\ inbox > 0
    /\ inbox' = inbox - 1
    /\ taken' = taken + 1
    /\ recv' = [pc |-> IF streamType = "client" THEN "finish" ELSE "idle", msgs |-> 1,
                res |-> "message"]
    /\ UNCHANGED <<config, ctx, call, started, result, pipe, body, tail, served, send, rxEnd,
                   close>>

\* A message.  A client-streaming RPC reads on, to see that it was the only one.
ReadMessage ==
    /\ recv.pc = "read" /\ body = "open" /\ inbox > 0
    /\ inbox' = inbox - 1
    /\ taken' = taken + 1
    /\ recv' = IF streamType # "client" THEN [pc |-> "idle", msgs |-> 1, res |-> "message"]
               ELSE IF recv.msgs = 0 THEN [pc |-> "await", msgs |-> 1, res |-> "none"]
               ELSE [pc |-> "finish", msgs |-> 2, res |-> "fail"]
    /\ UNCHANGED <<config, ctx, call, started, result, pipe, body, tail, served, send, rxEnd,
                   close>>

\* A gRPC response without a body or trailers carries its status in the
\* headers; Receive then returns without closing the write side.
TrailersOnly == protocol = "grpc" /\ served = 0

\* Fault: the end of the stream leaves the write side open.
ReadEndLeavesWrite ==
    /\ recv.pc = "read"
    /\ \E end \in {"clean", "error", "cut"} :
         /\ \/ body = "open" /\ inbox = 0 /\ tail = end
            \/ end = "cut" /\ (body = "closed" \/ ctx = "done")
         /\ RecvTo("finish", IF end = "clean" /\ streamType # "client" THEN "eof" ELSE "fail")
    /\ UNCHANGED <<config, ctx, call, started, result, pipe, body, incoming, send, rxEnd, close,
                   taken>>

\* The end: the status is the server's own, or the body is cut, closed by
\* Close or torn down with the context.
ReadEnd ==
    /\ recv.pc = "read"
    /\ \E end \in {"clean", "error", "cut"} :
         /\ \/ body = "open" /\ inbox = 0 /\ tail = end
            \/ end = "cut" /\ (body = "closed" \/ ctx = "done")
         /\ RecvTo("finish",
                   CASE end # "clean" -> "fail"
                     [] end = "clean" /\ streamType # "client" -> "eof"
                     [] end = "clean" /\ streamType = "client" ->
                          IF recv.msgs = 1 THEN "message" ELSE "fail")
         /\ \/ CloseWrite
            \/ TrailersOnly /\ end # "cut" /\ UNCHANGED <<call, pipe>>
    /\ UNCHANGED <<config, ctx, started, result, body, incoming, send, rxEnd, close, taken>>

\* Fault: CloseRead gives up on a response that was refused.
CloseReadAccepted == body' = IF responseReady /\ responseErr = "nil" THEN "closed" ELSE body

\* CloseRead closes the body of whatever response was published.
CloseRead == body' = IF responseReady /\ response # "nil" THEN "closed" ELSE body

ReceiveReturns ==
    /\ recv.pc = "finish"
    /\ RecvTo("idle", recv.res)
    /\ CloseRead
    /\ UNCHANGED <<config, ctx, call, started, result, pipe, incoming, send, rxEnd, close,
                   taken>>

-----------------------------------------------------------------------------
(* Close: CloseWrite, then CloseRead.                                      *)

Close ==
    /\ close = "idle"
    /\ CloseWrite
    /\ close' = "await"
    /\ UNCHANGED <<config, ctx, started, result, body, incoming, send, receiver>>

CloseAwaits ==
    /\ close \in {"await", "parked"}
    /\ \/ responseReady /\ CloseRead /\ close' = "returned"
       \/ ~responseReady /\ close = "await" /\ close' = "parked" /\ UNCHANGED body
       \/ close = "parked" /\ ctx = "done" /\ close' = "returned" /\ UNCHANGED body
    /\ UNCHANGED <<config, ctx, call, started, result, pipe, incoming, send, receiver>>

-----------------------------------------------------------------------------
(* net/http and the server (external), and the context.                    *)

TransportReads ==
    /\ send.pc = "write" /\ pipe = "open" /\ Underway
    /\ SendReturns("nil")

TransportCloses ==
    /\ Pipes /\ Underway /\ pipe \in {"open", "writer"}
    /\ pipe' = ReaderClosed(pipe)
    /\ UNCHANGED <<config, ctx, call, started, result, body, incoming, send, receiver, close>>

ServerSends ==
    /\ body = "open" /\ tail = "none" /\ served < MaxMessages
    /\ served' = served + 1 /\ inbox' = inbox + 1
    /\ UNCHANGED <<config, ctx, call, started, result, pipe, body, tail, send, receiver, close>>

ServerEnds ==
    /\ body = "open" /\ tail = "none"
    /\ tail' \in {"clean", "error", "cut"}
    /\ UNCHANGED <<config, ctx, call, started, result, pipe, body, inbox, served, send,
                   receiver, close>>

ContextDone ==
    /\ ctx = "live"
    /\ ctx' = "done"
    /\ UNCHANGED <<config, call, started, result, pipe, body, incoming, send, receiver, close>>

-----------------------------------------------------------------------------
SendStep == SendChecks \/ SendFails \/ SendUnaryReturns
ReceiveStep == Await \/ ReadMessage \/ ReadEnd \/ ReceiveReturns
RequestStep == CallDo \/ FailureClosesWrite \/ PublishResponse
DoReturns == DoFails \/ DoResponds

\* The stream was closed and no operation is pending.
Finished ==
    /\ close = "returned" /\ send.pc = "idle" /\ recv.pc = "idle"
    /\ UNCHANGED vars

Next ==
    \/ \E msg \in {"headers", "message"} : Send(msg)
    \/ SendStep \/ CloseSend
    \/ Receive \/ ReceiveStep
    \/ Close \/ CloseAwaits
    \/ RequestStep \/ DoReturns
    \/ TransportReads \/ TransportCloses \/ ServerSends \/ ServerEnds
    \/ ContextDone
    \/ Finished

\* A goroutine that can run does run.  net/http owes an answer only to a
\* request whose context is done, and lets go of the request body of a request
\* whose context is done, that failed, or whose response body was closed.
\* Nothing is assumed of the server.
Fairness ==
    /\ WF_vars(SendStep) /\ WF_vars(ReceiveStep) /\ WF_vars(CloseAwaits) /\ WF_vars(RequestStep)
    /\ WF_vars(ctx = "done" /\ DoReturns)
    /\ WF_vars(
          /\ ctx = "done" \/ body = "closed" \/ (responseErr # "nil" /\ response = "nil")
          /\ TransportCloses)

Spec == Init /\ [][Next]_vars /\ Fairness

-----------------------------------------------------------------------------
(* Properties.                                                             *)

\* Readers of response and responseErr hold no lock.  What responseReady
\* publishes is a result ("There's always a response if responseErr is nil"),
\* and nobody writes it afterwards, whichever of Send, SendHeaders, CloseSend, Close
\* and a failing Receive try to start the request: one of them does.
ResponseIsFinal ==
    [][/\ started' <= 1
       /\ responseReady => UNCHANGED result
       /\ responseReady' => response' # "nil" \/ responseErr' # "nil"]_vars

\* The receive side came to its end: an end or a failure was reported, or the
\* only Receive of a client-streaming RPC returned.
ReceiveEnded ==
    /\ recv.pc = "idle"
    /\ recv.res \in {"eof", "fail"} \/ (streamType = "client" /\ recv.res = "message")

\* connect.go: "Reading to io.EOF releases the stream's resources; to abandon a
\* stream earlier, cancel the call's context or call Close."  A response body is
\* left open only to a context that is done, even when the response was refused
\* or arrived while Receive or Close was giving up on it.
BodyReleased == (ReceiveEnded \/ close = "returned") /\ ctx = "live" => body # "open"

\* A clean end is reported only for a response that ended cleanly, after every
\* message in it was taken; a client-streaming RPC succeeds only if the server
\* sent exactly one message.
EndIsTruthful ==
    /\ recv.res = "eof" => tail = "clean" /\ taken = served
    /\ streamType = "client" /\ recv.res = "message" => tail = "clean" /\ served = 1

\* Receive: "we also want to close the writer so Send errors out".  After the
\* end of a Connect stream, no Send that begins later finds an open pipe.
SendErrsOutAfterEnd ==
    protocol = "connect" /\ streamType = "bidi" /\ ReceiveEnded /\ ctx = "live" => pipe # "open"

\* A context that is done releases Send, Receive and Close, even when the server
\* never answers and the request was never made.  A request that failed, or whose
\* response was refused, releases them too, also a Send that is writing to a pipe
\* nobody reads; and so does the end of the receive side, for every protocol.
EndReleases ==
    LET over == ctx = "done" \/ responseErr # "nil"
    IN  /\ ((over \/ ReceiveEnded) /\ send.pc # "idle") ~> (send.pc = "idle")
        /\ (over /\ recv.pc # "idle") ~> (recv.pc = "idle")
        /\ (over /\ close # "idle") ~> (close = "returned")

-----------------------------------------------------------------------------
(* What the documentation says and the code does not do.                   *)

\* ClientStream.Close: "Close releases the stream's resources, unblocking a
\* pending Receive and tearing the stream down."
CloseUnblocksReceive == (close # "idle" /\ recv.pc # "idle") ~> (recv.pc = "idle")
=============================================================================
