------------------------------ MODULE RPCStream ------------------------------
(***************************************************************************)
(* What a ClientStream / ServerStream pair promises the two programs that  *)
(* use it, whatever transport carries the messages (the documentation of   *)
(* ClientStream and ServerStream in connect.go).  Messages are taken in    *)
(* the order they were accepted, none is invented, repeated or skipped,    *)
(* the handler's outcome is decided once, and the client is told the end   *)
(* of the stream only after the handler returned and every response it     *)
(* sent was taken: "eof" for a handler that succeeded, "error" otherwise.  *)
(***************************************************************************)
EXTENDS Naturals, Sequences

CONSTANTS
    Message,     \* what Send and Receive carry
    Failed,      \* stands for a message whose Receive consumed it and failed
    Outcome,     \* what a handler can return
    Success,     \* the member of Outcome that is a nil error
    Pending      \* the handler has not returned; not a member of Outcome

VARIABLES
    reqSent, reqGot,     \* requests accepted by Send, taken by the handler
    respSent, respGot,   \* responses accepted by Send, taken by the client
    outcome,             \* what the handler returned
    end                  \* "open", "eof" or "error": what the client was told

vars == <<reqSent, reqGot, respSent, respGot, outcome, end>>

\* The oldest message not yet taken is taken, intact or with a failure.
Take(sent, got) ==
    {Append(got, m) : m \in {sent[Len(got) + 1], Failed}}

Init ==
    /\ reqSent = <<>> /\ reqGot = <<>>
    /\ respSent = <<>> /\ respGot = <<>>
    /\ outcome = Pending
    /\ end = "open"

ClientSends(m) ==
    /\ reqSent' = Append(reqSent, m)
    /\ UNCHANGED <<reqGot, respSent, respGot, outcome, end>>

HandlerReceives ==
    /\ outcome = Pending
    /\ Len(reqGot) < Len(reqSent)
    /\ reqGot' \in Take(reqSent, reqGot)
    /\ UNCHANGED <<reqSent, respSent, respGot, outcome, end>>

HandlerSends(m) ==
    /\ outcome = Pending
    /\ respSent' = Append(respSent, m)
    /\ UNCHANGED <<reqSent, reqGot, respGot, outcome, end>>

ClientReceives ==
    /\ end = "open"
    /\ Len(respGot) < Len(respSent)
    /\ respGot' \in Take(respSent, respGot)
    /\ UNCHANGED <<reqSent, reqGot, respSent, outcome, end>>

HandlerReturns(o) ==
    /\ outcome = Pending
    /\ outcome' = o
    /\ UNCHANGED <<reqSent, reqGot, respSent, respGot, end>>

ClientEnds ==
    /\ end = "open"
    /\ outcome # Pending
    /\ Len(respGot) = Len(respSent)
    /\ end' = IF outcome = Success THEN "eof" ELSE "error"
    /\ UNCHANGED <<reqSent, reqGot, respSent, respGot, outcome>>

Next ==
    \/ \E m \in Message : ClientSends(m) \/ HandlerSends(m)
    \/ HandlerReceives
    \/ ClientReceives
    \/ \E o \in Outcome : HandlerReturns(o)
    \/ ClientEnds

Spec == Init /\ [][Next]_vars
=============================================================================
