------------------------------ MODULE CallErrors ------------------------------
(***************************************************************************)
(* The code a client is told when a call of the chain fails: the call that *)
(* reached the innermost handler is still waiting, in http.Client.Do or in *)
(* a read of the response, on a context with a deadline of its own.  The   *)
(* peer may reset the stream, the connection may break, the context may be *)
(* canceled, and its deadline may pass some time before the timer of the   *)
(* context says so.  duplexHTTPCall wraps the error step by step, and each *)
(* step looks at the context again.                                        *)
(***************************************************************************)
EXTENDS DeadlineChain

CONSTANT Window    \* the calls looked at arrive with this much, or less, left

ASSUME WindowAssumption == Window \in Nat

\* HTTP/2 codes of a stream the peer resets, and what else Do or a read may
\* return: context.Canceled, context.DeadlineExceeded or os.ErrDeadlineExceeded,
\* of the caller's context or of a limit of the transport's own (the timeout of a
\* dialer or of the http.Client), or another error.
Reset == {"CANCEL", "REFUSED_STREAM", "ENHANCE_YOUR_CALM", "INADEQUATE_SECURITY", "INTERNAL_ERROR"}
TimedOut == {"DeadlineExceeded", "osDeadlineExceeded"}
Failure == Reset \cup TimedOut \cup {"Canceled", "broken"}

VARIABLES
    op,                \* "send" (a unary Send, in Do), "do" (a stream, in Do),
                       \* "body" (reading the response), or "none"
    step,              \* "check", "wait", then the wrapper to run: "context",
                       \* "rst", "reader", "ready"; "told" at last
    callerDeadline,    \* the caller's deadline, as deadline and
    callerBudget,      \* budget are the handler's
    ctxErr,            \* ctx.Err() of the caller: "nil", "canceled", "deadline_exceeded"
    err,               \* what the transport returned, or "none"
    code,              \* the code it has been given, or "none"
    early,             \* history: what was left of the caller's deadline when the
                       \* server gave up at its own, or Never
    late               \* history: the context was done when the transport failed

context == <<callerDeadline, callerBudget, ctxErr>>
call == <<op, step, err, code, early, late>>
callVars == <<vars, context, call>>

Never == MaxDuration + 1

CallInit ==
    /\ Init
    /\ op = "none" /\ step = "wait"
    /\ callerDeadline = "none" /\ callerBudget = 0 /\ ctxErr = "nil"
    /\ err = "none" /\ code = "none" /\ early = Never /\ late = FALSE

-----------------------------------------------------------------------------
(* The chain: at some point its last call waits for the answer.            *)

TimePasses ==
    /\ Elapse /\ step # "told"
    /\ callerBudget' = IF callerDeadline = "set" THEN callerBudget - 1 ELSE callerBudget
    /\ UNCHANGED <<callerDeadline, ctxErr, call>>

Calls ==
    /\ op = "none"
    /\ connectNewConn \/ grpcNewConn \/ Send
    /\ UNCHANGED <<context, call>>

\* A handler starts.  It makes the next call of the chain, or it is the one
\* whose caller is looked at.
Arrives ==
    /\ op = "none"
    /\ connectSetTimeout \/ grpcSetTimeout
    /\ \/ UNCHANGED <<context, op, step>>
       \/ /\ left <= Window
          /\ callerDeadline' = deadline /\ callerBudget' = budget
          /\ op' \in {"send", "do", "body"}
          /\ step' = IF op' = "body" THEN "check" ELSE "wait"
          /\ UNCHANGED ctxErr
    /\ UNCHANGED <<err, code, early, late>>

Watched == op # "none" /\ step # "told" /\ pc = "handler"

\* The timer of the context fires, some time after the deadline (external).
TimerFires ==
    /\ Watched
    /\ ctxErr = "nil" /\ callerDeadline = "set" /\ callerBudget <= 0
    /\ ctxErr' = "deadline_exceeded"
    /\ UNCHANGED <<vars, callerDeadline, callerBudget, call>>

CallerCancels ==
    /\ Watched
    /\ ctxErr = "nil"
    /\ ctxErr' = "canceled"
    /\ UNCHANGED <<vars, callerDeadline, callerBudget, call>>

-----------------------------------------------------------------------------
(* The transport fails (external).                                         *)

Fails(failure) ==
    /\ Watched /\ step = "wait"
    /\ err' = failure /\ step' = "context" /\ late' = (ctxErr # "nil")
    /\ UNCHANGED <<vars, context, op, code>>

\* The server observes that the deadline it was given has elapsed, and resets
\* the stream.
ServerGivesUp ==
    /\ deadline = "set" /\ budget <= 0
    /\ Fails("CANCEL")
    /\ early' = callerBudget

\* Or it resets it for another reason, or the connection breaks, or the
\* transport gives up, because the context is done or of its own accord.
TransportFails ==
    /\ \E failure \in Failure :
         /\ failure = "REFUSED_STREAM" => op # "body"
         /\ Fails(failure)
    /\ UNCHANGED early

-----------------------------------------------------------------------------
(* The wrappers: the code they give to an error that has none yet.         *)

\* An error of a context, whichever context it was.
wrapIfContextError(e) ==
    CASE e = "Canceled" -> "canceled"
      [] e \in TimedOut -> "deadline_exceeded"
      [] OTHER -> "none"

\* Fault: only what the transport returned is looked at.
wrapIfContextDoneErr(e) == wrapIfContextError(e)

wrapIfContextDone(e) ==
    IF wrapIfContextError(e) # "none" THEN wrapIfContextError(e)
    ELSE IF ctxErr # "nil" THEN ctxErr ELSE "none"

\* Fault: the context is asked whether the deadline has passed.
wrapIfRSTErrorAsksContext(e) ==
    CASE e = "CANCEL" -> IF ctxErr = "deadline_exceeded" THEN "deadline_exceeded" ELSE "canceled"
      [] e = "REFUSED_STREAM" -> "unavailable"
      [] e = "ENHANCE_YOUR_CALM" -> "resource_exhausted"
      [] e = "INADEQUATE_SECURITY" -> "permission_denied"
      [] e = "INTERNAL_ERROR" -> "internal"
      [] OTHER -> "none"

\* Fault: a deadline that is set is taken for one that has passed.
wrapIfRSTErrorAnyDeadline(e) ==
    CASE e = "CANCEL" -> IF callerDeadline = "set" THEN "deadline_exceeded" ELSE "canceled"
      [] e = "REFUSED_STREAM" -> "unavailable"
      [] e = "ENHANCE_YOUR_CALM" -> "resource_exhausted"
      [] e = "INADEQUATE_SECURITY" -> "permission_denied"
      [] e = "INTERNAL_ERROR" -> "internal"
      [] OTHER -> "none"

wrapIfRSTError(e) ==
    CASE e = "CANCEL" ->
           IF callerDeadline = "set" /\ callerBudget < 0 THEN "deadline_exceeded" ELSE "canceled"
      [] e = "REFUSED_STREAM" -> "unavailable"
      [] e = "ENHANCE_YOUR_CALM" -> "resource_exhausted"
      [] e = "INADEQUATE_SECURITY" -> "permission_denied"
      [] e = "INTERNAL_ERROR" -> "internal"
      [] OTHER -> "none"

-----------------------------------------------------------------------------
(* duplexHTTPCall.                                                         *)

Gives(c, next) ==
    /\ code' = c /\ step' = next
    /\ UNCHANGED <<vars, context, op, err, early, late>>

\* Read: the context is checked before the body is read.
ReadChecks ==
    /\ op = "body" /\ step = "check"
    /\ IF ctxErr # "nil" THEN Gives(ctxErr, "told") ELSE Gives("none", "wait")

\* Read: the error of the body.
ReadWraps ==
    /\ op = "body"
    /\ \/ step = "context" /\ Gives(wrapIfContextDone(err), "rst")
       \/ step = "rst" /\ Gives(IF code # "none" THEN code ELSE wrapIfRSTError(err), "reader")

\* The reader of the message looks at the context once more.
ReaderWraps ==
    /\ op = "body" /\ step = "reader"
    /\ \E unread \in {"invalid_argument", "unknown"} :    \* in the prefix, in the message
         LET c == IF code # "none" THEN code ELSE wrapIfContextDone(err)
         IN  Gives(IF c # "none" THEN c ELSE unread, "told")

\* makeRequest: the error of Do.
makeRequest ==
    /\ op \in {"send", "do"}
    /\ \/ step = "context" /\ Gives(wrapIfContextError(err), "rst")
       \/ /\ step = "rst"
          /\ LET c == IF code # "none" THEN code ELSE wrapIfRSTError(err)
             IN  Gives(IF c # "none" THEN c ELSE "unavailable", "ready")

\* Fault: the error of Do is returned as it is.
sendUnaryUnchecked == op = "send" /\ step = "ready" /\ Gives(code, "told")

\* sendUnary: a context that is done goes before the error of Do.
sendUnary ==
    /\ op = "send" /\ step = "ready"
    /\ Gives(IF ctxErr # "nil" THEN ctxErr ELSE code, "told")

\* A stream waits for Do to return or the context to be done.
blockUntilResponseReady ==
    /\ op = "do" /\ Watched
    /\ \/ step = "ready" /\ Gives(code, "told")
       \/ step # "ready" /\ ctxErr # "nil" /\ Gives(ctxErr, "told")

CallNext ==
    \/ TimePasses \/ Calls \/ Arrives
    \/ TimerFires \/ CallerCancels
    \/ ServerGivesUp \/ TransportFails
    \/ ReadChecks \/ ReadWraps \/ ReaderWraps
    \/ makeRequest \/ sendUnary \/ blockUntilResponseReady

CallSpec == CallInit /\ [][CallNext]_callVars

-----------------------------------------------------------------------------
(* Properties.                                                             *)

\* "Some server implementations will cancel the HTTP/2 stream with a RST_STREAM
\* frame when they observe that the client's deadline has elapsed": the client
\* is then told deadline_exceeded, also when the timer of its context is late.
\* It is told canceled if its context was canceled, or if its own deadline had
\* not passed when the server gave up, which rounding the timeout down to its
\* unit can cause, by less than that unit.
DeadlineIsTold ==
    step = "told" /\ early # Never =>
        \/ code = "deadline_exceeded"
        \/ code = "canceled" /\ (ctxErr = "canceled" \/ (0 <= early /\ early < Size[unit]))

\* A code is never made up: deadline_exceeded means that the caller's deadline
\* has passed or that the transport itself reported a timeout, canceled that the
\* context was canceled or that the transport or the peer said so.  Neither code
\* says whose timeout or cancellation it was: a dialer or an http.Client that gives
\* up after a time of its own makes a call without a deadline fail with
\* deadline_exceeded.  And once the context was done when the transport failed, the
\* failure is not blamed on the server or the network.  The error of Do on a stream
\* is the one case where the code does not look at the context.
CodeIsTrue ==
    step = "told" =>
        /\ code = "deadline_exceeded" =>
             err \in TimedOut \/ (callerDeadline = "set" /\ callerBudget <= 0)
        /\ code = "canceled" => ctxErr = "canceled" \/ err \in {"Canceled", "CANCEL"}
        /\ late /\ op # "do" => code \in {"canceled", "deadline_exceeded"}
=============================================================================
