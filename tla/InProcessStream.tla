--------------------------- MODULE InProcessStream ---------------------------
(***************************************************************************)
(* One streaming RPC of the in-process transport: connectinprocess's       *)
(* streamPair with its client half (clientStream), its server half         *)
(* (serverStream) and the goroutine run that executes the handler.         *)
(*                                                                         *)
(* Four activities interleave: the client's send side, the client's        *)
(* receive side, Close (which any client goroutine may call) and the       *)
(* handler, whose own send and receive sides may overlap.  The channels    *)
(* are unbuffered, so a message changes hands in one joint step; the       *)
(* receiver copies it afterwards, in a step of its own, because the sender *)
(* is already running again by then.  A select with several ready cases    *)
(* takes any of them.                                                      *)
(*                                                                         *)
(* A message is the number of the Send that carries it.                    *)
(***************************************************************************)
EXTENDS Naturals, Sequences

CONSTANTS
    MaxRequests,   \* bound on the client's calls of Send
    MaxResponses,  \* bound on the handler's calls of Send
    Reusers        \* the sides that write their next message into the value
                   \* of the last one: a subset of {"client", "server"}

ASSUME BoundsAssumption ==
    /\ MaxRequests \in Nat
    /\ MaxResponses \in Nat
    /\ Reusers \subseteq {"client", "server"}

VARIABLES
    ctx,         \* the stream context: "live", "canceled" or "expired"
    closeSendCh, \* closeSendCh is closed
    responseCh,  \* responseCh is closed
    serverDone,  \* serverDone is closed
    serverErr,   \* streamPair.serverErr, an element of HandlerError
    metadata,    \* response metadata in the client's CallInfo
    run,         \* how far the goroutine run has come
    send,        \* the client's Send: [pc, msg, calls, res]
    recv,        \* the client's Receive: [pc, msg]
    close,       \* the client's Close: "idle", "cancel" or "closed"
    halfClosed,  \* CloseSend was called
    hrecv,       \* the handler's Receive: [pc, msg, res]
    hsend,       \* the handler's Send: [pc, calls]
    reqSent, reqGot, respSent, respGot,  \* history: accepted and taken
    ended        \* history: "open", or what Receive said of the end: "eof" or
                 \* the code of an error, an element of Verdict

vars == <<ctx, closeSendCh, responseCh, serverDone, serverErr, metadata, run,
          send, recv, close, halfClosed, hrecv, hsend, reqSent, reqGot, respSent, respGot,
          ended>>
closing == <<close, halfClosed>>
client == <<send, recv, closing>>
handler == <<hrecv, hsend>>
history == <<reqSent, reqGot, respSent, respGot, ended>>
lifecycle == <<responseCh, serverDone, serverErr, metadata>>

\* Messages, and what a Receive whose CopyFunc failed took in place of one.
CopyFailed == 0
Request == 0..MaxRequests
Response == 0..MaxResponses

-----------------------------------------------------------------------------
(* Errors.                                                                 *)

\* What a handler can return: nil, an *Error it wrote, an *Error it received
\* from an upstream call, a context error or another error.  A panic is
\* recovered into an *Error with CodeInternal.
HandlerError == {"nil", "local", "remote", "canceled", "deadline", "plain", "panic"}

\* Fault: an upstream verdict is forwarded as it is.
asClientErrForwards ==
    [local |-> "handler_code", remote |-> "upstream_code", panic |-> "internal",
     canceled |-> "canceled", deadline |-> "deadline_exceeded", plain |-> "unknown"]

\* What the client sees of a handler's error: an upstream verdict is not
\* forwarded, an error that is not an *Error keeps only its context meaning.
asClientErr ==
    [local |-> "handler_code", remote |-> "internal", panic |-> "internal",
     canceled |-> "canceled", deadline |-> "deadline_exceeded", plain |-> "unknown"]

Verdict == {"handler_code", "internal", "canceled", "deadline_exceeded", "unknown"}

Cancel(c) == IF c = "live" THEN "canceled" ELSE c

-----------------------------------------------------------------------------
Init ==
    /\ ctx = "live"
    /\ closeSendCh = FALSE
    /\ responseCh = FALSE
    /\ serverDone = FALSE
    /\ serverErr = "nil"
    /\ metadata = "absent"
    /\ run = "unstarted"
    /\ send = [pc |-> "idle", msg |-> 0, calls |-> 0, res |-> "none"]
    /\ recv = [pc |-> "idle", msg |-> 0]
    /\ close = "idle" /\ halfClosed = FALSE
    /\ hrecv = [pc |-> "idle", msg |-> 0, res |-> "none"]
    /\ hsend = [pc |-> "idle", calls |-> 0]
    /\ reqSent = <<>> /\ reqGot = <<>>
    /\ respSent = <<>> /\ respGot = <<>>
    /\ ended = "open"

\* The goroutine run is started once, by whichever side comes first.
dispatch == run' = IF run = "unstarted" THEN "handler" ELSE run

-----------------------------------------------------------------------------
(* The client's send side.  An operation may begin after Close: the        *)
(* goroutine that calls it need not be the one that called Close.          *)

SendHeaders ==
    /\ send.pc = "idle"
    /\ dispatch
    /\ UNCHANGED <<ctx, closeSendCh, lifecycle, client, handler, history>>

\* A client that reuses its message value may write it while the handler is
\* still copying from it: the copy then holds the old or the new content.
ClientWrites(m) ==
    IF "client" \in Reusers /\ hrecv.pc = "copy"
    THEN \E content \in {hrecv.msg, m} : hrecv' = [hrecv EXCEPT !.msg = content]
    ELSE UNCHANGED hrecv

\* Fault: Send does not look at closeSendCh before it offers its message.
SendUnchecked ==
    /\ send.pc = "idle" /\ send.calls < MaxRequests
    /\ send' = [pc |-> "checked", msg |-> send.calls + 1, calls |-> send.calls + 1, res |-> "none"]
    /\ dispatch
    /\ UNCHANGED <<ctx, closeSendCh, lifecycle, recv, closing, handler, history>>

\* Send, up to the end of its first select.
Send ==
    /\ send.pc = "idle" /\ send.calls < MaxRequests
    /\ LET m == send.calls + 1 IN
         /\ ClientWrites(m)
         /\ \/ /\ closeSendCh
               /\ send' = [pc |-> "idle", msg |-> 0, calls |-> m, res |-> "eof"]
               /\ UNCHANGED run
            \/ /\ ~closeSendCh
               /\ send' = [pc |-> "checked", msg |-> m, calls |-> m, res |-> "none"]
               /\ dispatch
    /\ UNCHANGED <<ctx, closeSendCh, lifecycle, recv, closing, hsend, history>>

\* Send reaches its second select, where it is visible to the handler.
SendBlocks ==
    /\ send.pc = "checked"
    /\ send' = [send EXCEPT !.pc = "select"]
    /\ UNCHANGED <<ctx, closeSendCh, lifecycle, run, recv, closing, handler, history>>

SendReturns(res) ==
    /\ send.pc = "select"
    /\ send' = [pc |-> "idle", msg |-> 0, calls |-> send.calls, res |-> res]

\* Fault: a blocked Send does not watch serverDone.
SendEOFOnCloseOnly ==
    /\ closeSendCh
    /\ SendReturns("eof")
    /\ UNCHANGED <<ctx, closeSendCh, lifecycle, run, recv, closing, handler, history>>

SendEOF ==
    /\ closeSendCh \/ serverDone
    /\ SendReturns("eof")
    /\ UNCHANGED <<ctx, closeSendCh, lifecycle, run, recv, closing, handler, history>>

SendCtx ==
    /\ ctx # "live"
    /\ SendReturns(ctx)
    /\ UNCHANGED <<ctx, closeSendCh, lifecycle, run, recv, closing, handler, history>>

\* requestCh: Send returns nil and the handler's Receive holds the message.
RequestPasses ==
    /\ hrecv.pc \in {"select", "drain"}
    /\ SendReturns("nil")
    /\ hrecv' = [pc |-> "copy", msg |-> send.msg, res |-> "none"]
    /\ reqSent' = Append(reqSent, send.msg)
    /\ UNCHANGED <<ctx, closeSendCh, lifecycle, run, recv, closing, hsend,
                   reqGot, respSent, respGot, ended>>

CloseSend ==
    /\ send.pc = "idle"
    /\ closeSendCh' = TRUE
    /\ halfClosed' = TRUE
    /\ UNCHANGED <<ctx, lifecycle, run, send, recv, close, handler, history>>

\* Close is CloseSend followed by cancel; other goroutines run in between.
Close ==
    /\ close = "idle"
    /\ closeSendCh' = TRUE
    /\ close' = "cancel"
    /\ UNCHANGED <<ctx, lifecycle, run, send, recv, halfClosed, handler, history>>

\* Fault: Close leaves the stream context alone.
CloseCancelsNothing ==
    /\ close = "cancel"
    /\ close' = "closed"
    /\ UNCHANGED <<ctx, closeSendCh, lifecycle, run, send, recv, halfClosed, handler, history>>

CloseCancels ==
    /\ close = "cancel"
    /\ ctx' = Cancel(ctx)
    /\ close' = "closed"
    /\ UNCHANGED <<closeSendCh, lifecycle, run, send, recv, halfClosed, handler, history>>

-----------------------------------------------------------------------------
(* The client's receive side.                                              *)

Receive ==
    /\ recv.pc = "idle"
    /\ dispatch
    /\ recv' = [recv EXCEPT !.pc = "select"]
    /\ UNCHANGED <<ctx, closeSendCh, lifecycle, send, closing, handler, history>>

\* Fault: Receive looks at the context again after it took a message.
ReceiveCtxDrops ==
    /\ recv.pc \in {"select", "copy"} /\ ctx # "live"
    /\ recv' = [pc |-> "idle", msg |-> 0]
    /\ UNCHANGED <<ctx, closeSendCh, lifecycle, run, send, closing, handler, history>>

ReceiveCtx ==
    /\ recv.pc = "select" /\ ctx # "live"
    /\ recv' = [recv EXCEPT !.pc = "idle"]
    /\ UNCHANGED <<ctx, closeSendCh, lifecycle, run, send, closing, handler, history>>

\* Fault: the handler's error is not looked at.
ReceiveEndAlwaysEOF ==
    /\ recv.pc = "select" /\ responseCh
    /\ ctx' = Cancel(ctx)
    /\ recv' = [recv EXCEPT !.pc = "idle"]
    /\ ended' = "eof"
    /\ UNCHANGED <<closeSendCh, lifecycle, run, send, closing, handler,
                   reqSent, reqGot, respSent, respGot>>

\* responseCh is closed: Receive cancels the stream context and reports how
\* the handler ended.
ReceiveEnd ==
    /\ recv.pc = "select" /\ responseCh
    /\ ctx' = Cancel(ctx)
    /\ recv' = [recv EXCEPT !.pc = "idle"]
    /\ ended' = IF serverErr = "nil" THEN "eof" ELSE asClientErr[serverErr]
    /\ UNCHANGED <<closeSendCh, lifecycle, run, send, closing, handler,
                   reqSent, reqGot, respSent, respGot>>

\* The message content is copied, or CopyFunc fails.
ReceiveCopies ==
    /\ recv.pc = "copy"
    /\ \E content \in {recv.msg, CopyFailed} :
         respGot' = Append(respGot, content)
    /\ recv' = [pc |-> "idle", msg |-> 0]
    /\ UNCHANGED <<ctx, closeSendCh, lifecycle, run, send, closing, handler,
                   reqSent, reqGot, respSent, ended>>

-----------------------------------------------------------------------------
(* The handler's side of the stream.  serverStream.SendHeaders does         *)
(* nothing, so it is no step.                                              *)

InHandler == run = "handler"

HandlerReceive ==
    /\ InHandler /\ hrecv.pc = "idle"
    /\ hrecv' = [pc |-> "select", msg |-> 0, res |-> "none"]
    /\ UNCHANGED <<ctx, closeSendCh, lifecycle, run, client, hsend, history>>

HandlerReceiveCtx ==
    /\ hrecv.pc = "select" /\ ctx # "live"
    /\ hrecv' = [pc |-> "idle", msg |-> 0, res |-> ctx]
    /\ UNCHANGED <<ctx, closeSendCh, lifecycle, run, client, hsend, history>>

\* The half-close was selected: one more look at requestCh before io.EOF.
HandlerReceiveClosed ==
    /\ hrecv.pc = "select" /\ closeSendCh
    /\ hrecv' = [hrecv EXCEPT !.pc = "drain"]
    /\ UNCHANGED <<ctx, closeSendCh, lifecycle, run, client, hsend, history>>

HandlerReceiveEOF ==
    /\ hrecv.pc = "drain" /\ send.pc # "select"
    /\ hrecv' = [pc |-> "idle", msg |-> 0, res |-> "eof"]
    /\ UNCHANGED <<ctx, closeSendCh, lifecycle, run, client, hsend, history>>

HandlerReceiveCopies ==
    /\ hrecv.pc = "copy"
    /\ \E content \in {hrecv.msg, CopyFailed} :
         /\ hrecv' = [pc |-> "idle", msg |-> 0,
                      res |-> IF content = CopyFailed THEN "copy_error" ELSE "nil"]
         /\ reqGot' = Append(reqGot, content)
    /\ UNCHANGED <<ctx, closeSendCh, lifecycle, run, client, hsend,
                   reqSent, respSent, respGot, ended>>

\* As ClientWrites, for a handler that reuses its response value.
ServerWrites(m) ==
    IF "server" \in Reusers /\ recv.pc = "copy"
    THEN \E content \in {recv.msg, m} : recv' = [recv EXCEPT !.msg = content]
    ELSE UNCHANGED recv

HandlerSend ==
    /\ InHandler /\ hsend.pc = "idle" /\ hsend.calls < MaxResponses
    /\ ServerWrites(hsend.calls + 1)
    /\ hsend' = [pc |-> "select", calls |-> hsend.calls + 1]
    /\ UNCHANGED <<ctx, closeSendCh, lifecycle, run, send, closing, hrecv, history>>

HandlerSendCtx ==
    /\ hsend.pc = "select" /\ ctx # "live"
    /\ hsend' = [hsend EXCEPT !.pc = "idle"]
    /\ UNCHANGED <<ctx, closeSendCh, lifecycle, run, client, hrecv, history>>

\* responseCh: the handler's Send returns and the client holds the message.
ResponsePasses ==
    /\ hsend.pc = "select" /\ recv.pc = "select"
    /\ hsend' = [hsend EXCEPT !.pc = "idle"]
    /\ recv' = [pc |-> "copy", msg |-> hsend.calls]
    /\ respSent' = Append(respSent, hsend.calls)
    /\ UNCHANGED <<ctx, closeSendCh, lifecycle, run, send, closing, hrecv,
                   reqSent, reqGot, respGot, ended>>

-----------------------------------------------------------------------------
(* The goroutine run, from the handler's return to its last deferred call. *)

\* The handler returns or panics, with none of its operations pending.
HandlerReturns ==
    /\ InHandler /\ hrecv.pc = "idle" /\ hsend.pc = "idle"
    /\ serverErr' \in HandlerError
    /\ run' = "returned"
    /\ UNCHANGED <<ctx, closeSendCh, responseCh, serverDone, metadata, client,
                   handler, history>>

SyncMetadata ==
    /\ run = "returned"
    /\ metadata' = "writing"
    /\ run' = "syncing"
    /\ UNCHANGED <<ctx, closeSendCh, responseCh, serverDone, serverErr, client,
                   handler, history>>

MetadataSynced ==
    /\ run = "syncing"
    /\ metadata' = "synced"
    /\ run' = "synced"
    /\ UNCHANGED <<ctx, closeSendCh, responseCh, serverDone, serverErr, client,
                   handler, history>>

\* Fault: the deferred calls are in another order.
CloseResponseChFirst ==
    /\ run = "returned"
    /\ responseCh' = TRUE
    /\ run' = "ending"
    /\ UNCHANGED <<ctx, closeSendCh, serverDone, serverErr, metadata, client,
                   handler, history>>

CloseResponseCh ==
    /\ run = "synced"
    /\ responseCh' = TRUE
    /\ run' = "ending"
    /\ UNCHANGED <<ctx, closeSendCh, serverDone, serverErr, metadata, client,
                   handler, history>>

CloseServerDone ==
    /\ run = "ending"
    /\ serverDone' = TRUE
    /\ run' = "done"
    /\ UNCHANGED <<ctx, closeSendCh, responseCh, serverErr, metadata, client,
                   handler, history>>

-----------------------------------------------------------------------------
(* The call context, which the caller cancels or whose deadline passes.    *)

ContextDone ==
    /\ ctx = "live"
    /\ ctx' \in {"canceled", "expired"}
    /\ UNCHANGED <<closeSendCh, lifecycle, run, client, handler, history>>

-----------------------------------------------------------------------------
SendStep == SendBlocks \/ SendEOF \/ SendCtx
ReceiveStep == ReceiveCtx \/ ReceiveEnd \/ ReceiveCopies
HandlerReceiveStep ==
    HandlerReceiveCtx \/ HandlerReceiveClosed \/ HandlerReceiveEOF \/ HandlerReceiveCopies
RunStep == SyncMetadata \/ MetadataSynced \/ CloseResponseCh \/ CloseServerDone

Next ==
    \/ SendHeaders \/ Send \/ SendStep \/ CloseSend
    \/ Close \/ CloseCancels
    \/ Receive \/ ReceiveStep
    \/ RequestPasses \/ ResponsePasses
    \/ HandlerReceive \/ HandlerReceiveStep
    \/ HandlerSend \/ HandlerSendCtx
    \/ HandlerReturns \/ RunStep
    \/ ContextDone

\* A goroutine that can run does run.  The programs on both ends are not
\* assumed to call anything, and the handler is not assumed to return.
Fairness ==
    /\ WF_vars(SendStep) /\ WF_vars(ReceiveStep) /\ WF_vars(CloseCancels)
    /\ WF_vars(HandlerReceiveStep) /\ WF_vars(HandlerSendCtx)
    /\ WF_vars(RequestPasses) /\ WF_vars(ResponsePasses)
    /\ WF_vars(RunStep)

Spec == Init /\ [][Next]_vars /\ Fairness

-----------------------------------------------------------------------------
(* Properties.                                                             *)

\* What the operations' program counters and results can be.
ClientSend == [pc : {"idle", "checked", "select"}, msg : Request, calls : Request,
               res : {"none", "nil", "eof", "canceled", "expired"}]
ClientReceive == [pc : {"idle", "select", "copy"}, msg : Response]
ServerReceive == [pc : {"idle", "select", "drain", "copy"}, msg : Request,
                  res : {"none", "nil", "eof", "canceled", "expired", "copy_error"}]
ServerSend == [pc : {"idle", "select"}, calls : Response]

\* Every variable has its type.
TypeOK ==
    /\ ctx \in {"live", "canceled", "expired"}
    /\ closeSendCh \in BOOLEAN /\ responseCh \in BOOLEAN /\ serverDone \in BOOLEAN
    /\ serverErr \in HandlerError
    /\ metadata \in {"absent", "writing", "synced"}
    /\ run \in {"unstarted", "handler", "returned", "syncing", "synced", "ending", "done"}
    /\ send \in ClientSend /\ recv \in ClientReceive
    /\ close \in {"idle", "cancel", "closed"} /\ halfClosed \in BOOLEAN
    /\ hrecv \in ServerReceive /\ hsend \in ServerSend
    /\ reqSent \in Seq(Request) /\ reqGot \in Seq(Request)
    /\ respSent \in Seq(Response) /\ respGot \in Seq(Response)
    /\ ended \in {"open", "eof"} \cup Verdict

\* stream.go: "each Send blocks until the peer's Receive consumes the message".
\* At any moment what a side's Send accepted is what the peer took, in order,
\* plus the one message the peer is copying: a cancellation, a half-close or
\* the end of the handler never drops a message that Send reported as sent.
NothingInFlight ==
    /\ Len(reqSent) = Len(reqGot) + (IF hrecv.pc = "copy" THEN 1 ELSE 0)
    /\ Len(respSent) = Len(respGot) + (IF recv.pc = "copy" THEN 1 ELSE 0)

\* run: "metadata sync must happen before either channel is closed".  A client
\* that was told the end of the stream, by Receive or by the io.EOF of a Send
\* it did not cut off itself, finds the response metadata synced and the
\* verdict ready for its next Receive.
EndIsPublished ==
    ended # "open" \/ (send.res = "eof" /\ ~closeSendCh)
        => metadata = "synced" /\ responseCh

\* clientStream.Send looks at closeSendCh before it offers its message, so no
\* request is accepted after CloseSend, even by a handler that is waiting.
NoSendAfterCloseSend == [][halfClosed => reqSent' = reqSent]_vars

\* connect.go: cancelling the context "unblocks any pending operation", and
\* Close cancels it: each pending operation, of either side, then returns.  And a
\* handler that returned without reading every request leaves neither Send nor
\* Receive of its client blocked.
EndReleases ==
    LET aborted == ctx # "live" \/ close # "idle"
        returned == run \notin {"unstarted", "handler"}
    IN  /\ ((aborted \/ returned) /\ send.pc # "idle") ~> (send.pc = "idle")
        /\ ((aborted \/ returned) /\ recv.pc # "idle") ~> (recv.pc = "idle")
        /\ (aborted /\ hrecv.pc # "idle") ~> (hrecv.pc = "idle")
        /\ (aborted /\ hsend.pc # "idle") ~> (hsend.pc = "idle")

\* The abstract stream: the handler's outcome is decided when it returns.
Contract == INSTANCE RPCStream WITH
    Message <- Request \cup Response,
    Failed <- CopyFailed,
    Outcome <- HandlerError,
    Success <- "nil",
    Pending <- "pending",
    outcome <- IF run \in {"unstarted", "handler"} THEN "pending" ELSE serverErr,
    end <- IF ended \in Verdict THEN "error" ELSE ended

\* Programs that do not write into a message they have sent get the stream of
\* RPCStream: messages in order and intact, and the end of the stream after
\* every response, with success exactly for a handler that returned nil.
ImplementsContract == Contract!Spec

-----------------------------------------------------------------------------
(* What the documentation says and the code does not do.                   *)

\* serverStream.Receive: "An aborted RPC is a cancellation of the call context,
\* so ctx.Done reports it. closeSendCh is the clean half-close".
EOFIsHalfClose == hrecv.res = "eof" => halfClosed
=============================================================================
