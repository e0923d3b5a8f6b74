--------------------------- MODULE InProcessCalls ---------------------------
(***************************************************************************)
(* Calls that share call metadata over the in-process transport: a caller  *)
(* makes one call after the other with the same context, hence the same    *)
(* client CallInfo, and the handler of a call makes a call of its own on   *)
(* the context it was given.  Models the Call methods of Client, the       *)
(* contexts of connect.go, Server.Call, and the synchronous unary stream   *)
(* of connectinprocess/unary.go.  Of a streaming call only what touches    *)
(* the metadata is kept (InProcessStream has the rest): the handler runs   *)
(* on a goroutine of its own, which outlives a stream the caller closed.   *)
(*                                                                         *)
(* Metadata is one key per header, whose value is the call that set it.    *)
(***************************************************************************)
EXTENDS Naturals

CONSTANTS
    MaxCalls,     \* calls the caller makes
    Kinds,        \* subset of {"unary", "stream"}: how it makes them
    Nests         \* the calls whose handler makes a call of its own

ASSUME CallsAssumption ==
    /\ MaxCalls \in Nat \ {0}
    /\ Kinds \subseteq {"unary", "stream"}
    /\ Nests \subseteq 1..MaxCalls

\* The caller's calls, and the call each handler may make.
Calls == 1..MaxCalls
NestedOf(id) == id + MaxCalls
Nested == {NestedOf(c) : c \in Nests}
Ids == Calls \cup Nested
Parent(id) == id - MaxCalls

\* A client CallInfo: the caller's is 0; a call whose context has none gets its own.
Infos == {0} \cup Ids
None == 0
Caller == "caller"
Header == {None} \cup Ids
Metadata == [response : Header, trailer : Header]
NoMetadata == [response |-> None, trailer |-> None]

\* An error: its code ("nil" is success, Plain is an error without a code, "failed" a
\* code the handler chose), who made it (the server side of a call, or the client side
\* of whichever), and whether it is marked as a peer's verdict (Error.IsRemote).
Internal == "internal"
Unimplemented == "unimplemented"
Unknown == "unknown"
Plain == "plain"
Client == 0
Makers == {Client} \cup Ids
Codes == {"nil", "failed", Plain, Internal, Unimplemented, Unknown}
Error(code, by) == [code |-> code, by |-> by, remote |-> FALSE]
Errors == [code : Codes, by : Makers, remote : BOOLEAN]
Success == Error("nil", Client)
NotTold == Error("none", Client)

VARIABLES
    caller,       \* per call: "idle", "open", "ended" or "abandoned", for its caller
    kind,         \* per call: how it was made
    handle,       \* per call: the client CallInfo its stream uses
    request,      \* per client CallInfo: who set the request header
    info,         \* per client CallInfo: its response metadata
    handler,      \* per call: "none", "running", "returned" or "synced"
    serverInfo,   \* per call: the response metadata of the server CallInfo
    seen,         \* per call: the request header the handler sees
    requestMsg,   \* per call: the captured request is there
    responseMsg,  \* per call: the responses the handler put into the slot
    serverErr,    \* per call: what Server.Call returned
    verdict       \* per call: what its caller was told

callerVars == <<caller, kind, handle, verdict>>
handlerVars == <<handler, serverInfo, seen, requestMsg, responseMsg, serverErr>>
infoVars == <<request, info>>
vars == <<callerVars, handlerVars, infoVars>>

Init ==
    /\ caller = [id \in Ids |-> "idle"]
    /\ kind = [id \in Ids |-> "unary"]
    /\ handle = [id \in Ids |-> id]
    /\ request = [i \in Infos |-> IF i = 0 THEN Caller ELSE "none"]
    /\ info = [i \in Infos |-> NoMetadata]
    /\ handler = [id \in Ids |-> "none"]
    /\ serverInfo = [id \in Ids |-> NoMetadata]
    /\ seen = [id \in Ids |-> "none"]
    /\ requestMsg = [id \in Ids |-> FALSE]
    /\ responseMsg = [id \in Ids |-> 0]
    /\ serverErr = [id \in Ids |-> Success]
    /\ verdict = [id \in Ids |-> NotTold]

-----------------------------------------------------------------------------
(* Contexts.                                                               *)

\* Fault: the caller's CallInfo is not shadowed.
clearClientContextNot(id) == handle[Parent(id)]

\* Server.Call shadows the client CallInfo of the context it is given, so a
\* handler's call finds none and gets a fresh one.
clearClientContext(id) == id

\* The client CallInfo of the context that call id is made with.
CallInfoForClientContext(id) == IF id \in Calls THEN 0 ELSE clearClientContext(id)

\* Fault: a reused CallInfo keeps the metadata of the call before.
ensureClientContextKeeps(i) == info

\* A reused CallInfo has its response metadata cleared.
ensureClientContext(i) == [info EXCEPT ![i] = NoMetadata]

\* syncHeader sets the keys the server set and leaves the others alone.
syncHeader(dst, src) ==
    [f \in DOMAIN dst |-> IF src[f] = None THEN dst[f] ELSE src[f]]

-----------------------------------------------------------------------------
(* The caller.                                                             *)

\* The caller makes its calls one after the other; a handler makes at most one.
MayCall(id) ==
    /\ caller[id] = "idle"
    /\ IF id \in Calls
       THEN \A c \in Calls : c < id => caller[c] \in {"ended", "abandoned"}
       ELSE handler[Parent(id)] = "running"

\* A Call method up to the dispatch: the context, the stream, the request sent
\* (a unary request is captured; a streaming one starts the goroutine).
Call(id) ==
    /\ MayCall(id)
    /\ \E k \in IF id \in Calls THEN Kinds ELSE {"unary"} : kind' = [kind EXCEPT ![id] = k]
    /\ handle' = [handle EXCEPT ![id] = CallInfoForClientContext(id)]
    /\ info' = ensureClientContext(handle'[id])
    /\ caller' = [caller EXCEPT ![id] = "open"]
    /\ requestMsg' = [requestMsg EXCEPT ![id] = kind'[id] = "unary"]
    /\ UNCHANGED <<request, verdict, handler, serverInfo, seen, responseMsg, serverErr>>

\* The dispatch: the request headers go to the server CallInfo, and Server.Call
\* runs the handler of the procedure (or the one for unknown procedures), or fails
\* at once when there is none.
dispatch(id) ==
    /\ caller[id] = "open" /\ handler[id] = "none"
    /\ seen' = [seen EXCEPT ![id] = request[handle[id]]]
    /\ \/ handler' = [handler EXCEPT ![id] = "running"] /\ UNCHANGED serverErr
       \/ /\ handler' = [handler EXCEPT ![id] = "returned"]
          /\ serverErr' = [serverErr EXCEPT ![id] = Error(Unimplemented, id)]
    /\ UNCHANGED <<callerVars, infoVars, serverInfo, requestMsg, responseMsg>>

\* Close of a stream cancels it and leaves the goroutine behind.
Close(id) ==
    /\ kind[id] = "stream" /\ caller[id] = "open"
    /\ caller' = [caller EXCEPT ![id] = "abandoned"]
    /\ UNCHANGED <<kind, handle, verdict, handlerVars, infoVars>>

-----------------------------------------------------------------------------
(* The handler.                                                            *)

Running(id) ==
    /\ handler[id] = "running"
    /\ id \in Nests => caller[NestedOf(id)] # "open"

\* Receive takes the captured request, once; an io.EOF after that changes nothing.
HandlerReceive(id) ==
    /\ Running(id) /\ kind[id] = "unary" /\ requestMsg[id]
    /\ requestMsg' = [requestMsg EXCEPT ![id] = FALSE]
    /\ UNCHANGED <<callerVars, infoVars, handler, serverInfo, seen, responseMsg, serverErr>>

\* Send fills the response slot of a unary stream (a second Send would fill it anew).
HandlerSend(id) ==
    /\ Running(id) /\ kind[id] = "unary" /\ responseMsg[id] = 0
    /\ responseMsg' = [responseMsg EXCEPT ![id] = @ + 1]
    /\ UNCHANGED <<callerVars, infoVars, handler, serverInfo, seen, requestMsg, serverErr>>

\* The handler sets a response header or a trailer.
HandlerSetsMetadata(id, f) ==
    /\ Running(id)
    /\ serverInfo' = [serverInfo EXCEPT ![id][f] = id]
    /\ UNCHANGED <<callerVars, infoVars, handler, seen, requestMsg, responseMsg, serverErr>>

\* The handler returns: nil, an error of its own with or without a code, or the error
\* its own call got.
HandlerReturns(id) ==
    /\ Running(id)
    /\ handler' = [handler EXCEPT ![id] = "returned"]
    /\ \E err \in {Success, Error("failed", id), Error(Plain, id)}
                  \cup {verdict[NestedOf(c)] : c \in Nests \cap {id}} :
         err # NotTold /\ serverErr' = [serverErr EXCEPT ![id] = err]
    /\ UNCHANGED <<callerVars, infoVars, serverInfo, seen, requestMsg, responseMsg>>

\* A panic of the handler is recovered into an error.
HandlerPanics(id) ==
    /\ Running(id)
    /\ handler' = [handler EXCEPT ![id] = "returned"]
    /\ serverErr' = [serverErr EXCEPT ![id] = Error(Internal, id)]
    /\ UNCHANGED <<callerVars, infoVars, serverInfo, seen, requestMsg, responseMsg>>

-----------------------------------------------------------------------------
(* The end of the call.                                                    *)

\* Fault: an error that is marked already is passed on.
asClientErrForwards(id) ==
    LET err == serverErr[id]
    IN  IF err.code \in {"nil", Plain} THEN err ELSE [err EXCEPT !.remote = TRUE]

\* Fault: the error of the server is not marked for the client.
asClientErrUnmarked(id) ==
    LET err == serverErr[id]
    IN  IF err.remote THEN [code |-> Internal, by |-> id, remote |-> TRUE] ELSE err

\* The server's error as its client gets it, marked as a peer's verdict.  One that is
\* marked already is the verdict of another call's server: it becomes an internal error
\* of this one.  An error without a code gets one (Unknown stands for the codes of the
\* context errors too).
asClientErr(id) ==
    LET err == serverErr[id]
    IN  IF err.code = "nil" THEN Success
        ELSE IF err.remote THEN [code |-> Internal, by |-> id, remote |-> TRUE]
        ELSE [code |-> IF err.code = Plain THEN Unknown ELSE err.code,
              by |-> err.by, remote |-> TRUE]

\* What Receive can make of the handler's end.  A unary stream without a response
\* is an error, and so is a response that cannot be copied: errors the client side
\* makes itself, which carry no mark.
Told(id) ==
    IF kind[id] = "unary" /\ serverErr[id].code = "nil"
    THEN IF responseMsg[id] = 0 THEN {Error(Unimplemented, Client)}
         ELSE {Success, Error(Plain, Client)}
    ELSE {asClientErr(id)}

\* Server.Call has returned: its metadata is copied into the client CallInfo, and
\* the caller that still waits is told.  For a stream the copy is the goroutine's,
\* whether anybody waits or not.
DispatchReturns(id) ==
    /\ handler[id] = "returned"
    /\ handler' = [handler EXCEPT ![id] = "synced"]
    /\ info' = [info EXCEPT ![handle[id]] = syncHeader(@, serverInfo[id])]
    /\ IF caller[id] = "open"
       THEN /\ caller' = [caller EXCEPT ![id] = "ended"]
            /\ \E told \in Told(id) : verdict' = [verdict EXCEPT ![id] = told]
       ELSE UNCHANGED <<caller, verdict>>
    /\ UNCHANGED <<kind, handle, request, serverInfo, seen, requestMsg, responseMsg, serverErr>>

Finished ==
    /\ \A c \in Calls : caller[c] \in {"ended", "abandoned"} /\ handler[c] \in {"none", "synced"}
    /\ UNCHANGED vars

Next ==
    \/ \E id \in Ids :
         \/ Call(id) \/ dispatch(id) \/ Close(id)
         \/ HandlerReceive(id) \/ HandlerSend(id)
         \/ \E f \in {"response", "trailer"} : HandlerSetsMetadata(id, f)
         \/ HandlerReturns(id) \/ HandlerPanics(id)
         \/ DispatchReturns(id)
    \/ Finished

Spec == Init /\ [][Next]_vars

-----------------------------------------------------------------------------
(* Properties.                                                             *)

\* The caller's last call.
MostRecent(c) == caller[c] # "idle" /\ \A d \in Calls : d > c => caller[d] = "idle"

\* NewClientContext: "A reused handle reports the most recent call."  A caller
\* that reads its streams to their end finds, once the last call has ended, what
\* its handler set and nothing of the calls made before it.
ReportsLastEnded ==
    (\A c \in Calls : caller[c] # "abandoned") =>
        \A c \in Calls : MostRecent(c) /\ caller[c] = "ended" => info[0] = serverInfo[c]

\* clearClientContext: the call a handler makes neither carries the request
\* headers of the call the handler serves nor overwrites its response metadata,
\* however deep the two contexts are nested.
NestedIsIsolated ==
    /\ \A n \in Nested : seen[n] # Caller
    /\ info[0].response \notin Nested /\ info[0].trailer \notin Nested

\* A caller is told of success only when the handler returned nil (and responded,
\* for a unary call).  And an error that the server side of a call made is told to
\* that call's caller alone: a handler that returns the error its own call got does
\* not pass that server's verdict off as its own, since asClientErr marked it.  What
\* the client side of that call made itself (no response, or one that cannot be
\* copied) is not marked, and the caller is told its code as if it were the handler's.
VerdictIsHandlers ==
    \A id \in Ids :
      /\ verdict[id].code = "nil" => /\ handler[id] = "synced" /\ serverErr[id].code = "nil"
                                     /\ kind[id] = "unary" => responseMsg[id] > 0
      /\ verdict[id].by \in {id, Client}

-----------------------------------------------------------------------------
(* What the documentation says and the code does not do.                   *)

\* NewClientContext: "A reused handle reports the most recent call."
ReportsMostRecent ==
    \A c \in Calls : MostRecent(c) /\ caller[c] = "ended" => info[0] = serverInfo[c]
=============================================================================
