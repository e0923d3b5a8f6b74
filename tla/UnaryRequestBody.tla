-------------------------- MODULE UnaryRequestBody --------------------------
(***************************************************************************)
(* The request body of a unary or server-streaming RPC over HTTP:          *)
(* duplexHTTPCall.sendUnary hands net/http a payloadCloser around the      *)
(* message's envelope, which lives in a buffer of the buffer pool.         *)
(*                                                                         *)
(* net/http (external) may try the request more than once, and the reader  *)
(* of an attempt may go on reading after a later attempt began, or after   *)
(* Do and Send returned, when the buffer is already used for something     *)
(* else.  GetBody gives every attempt the same payloadCloser, rewound.     *)
(* Nothing says that a write to the connection ever ends while the context *)
(* of the request is live; once that has ended, net/http gives it up.      *)
(***************************************************************************)
EXTENDS Naturals, Sequences, FiniteSetsExt

CONSTANTS
    DataLen,       \* bytes of the message
    MaxAttempts    \* bound on the attempts of net/http

ASSUME BodyAssumption == DataLen \in Nat /\ MaxAttempts \in Nat \ {0}

Attempts == 1..MaxAttempts

\* The envelope is a prefix of 5 bytes and the message.  A byte is known by its
\* place; Garbage is a byte of whoever uses the buffer next.
PrefixLen == 5
ContentLength == PrefixLen + DataLen
Garbage == 0
Message == [i \in 1..ContentLength |-> i]

VARIABLES
    ctx,        \* the request's context: "live" or "done"
    send,       \* sendUnary: "new", "do", "release" or "returned"
    payload,    \* payloadCloser.payload: "nil" or "envelope"
    mu,         \* payloadCloser.mu: 0 when free, or the attempt that holds it
    offset,     \* envelope.offset
    buffer,     \* what envelope.Data's buffer holds: "message" or "reused"
    attempt,    \* the attempt net/http is making; 0 before the first
    reader,     \* per attempt: "none", "reading", "eof" or "stopped"
    received,   \* per attempt: the bytes it was given
    shared      \* an earlier attempt read since the last Rewind

vars == <<ctx, send, payload, mu, offset, buffer, attempt, reader, received, shared>>

Init ==
    /\ ctx = "live"
    /\ send = "new"
    /\ payload = "nil" /\ mu = 0 /\ offset = 0
    /\ buffer = "message"
    /\ attempt = 0
    /\ reader = [a \in Attempts |-> "none"]
    /\ received = [a \in Attempts |-> <<>>]
    /\ shared = FALSE

-----------------------------------------------------------------------------
(* sendUnary.                                                              *)

\* The request gets its body, and Do makes the first attempt.
SendUnary ==
    /\ send = "new"
    /\ send' = "do"
    /\ payload' = "envelope"
    /\ attempt' = 1
    /\ reader' = [reader EXCEPT ![1] = "reading"]
    /\ UNCHANGED <<ctx, mu, offset, buffer, received, shared>>

\* Do has returned (external).
DoReturns ==
    /\ send = "do"
    /\ send' = "release"
    /\ UNCHANGED <<ctx, payload, mu, offset, buffer, attempt, reader, received, shared>>

\* Fault: Release does not discard the payload.
ReleaseNothing ==
    /\ send = "release"
    /\ send' = "returned"
    /\ UNCHANGED <<ctx, payload, mu, offset, buffer, attempt, reader, received, shared>>

\* Fault: Release waits until nobody reads any more.
ReleaseWaits ==
    /\ send = "release" /\ \A a \in Attempts : reader[a] # "reading"
    /\ payload' = "nil"
    /\ send' = "returned"
    /\ UNCHANGED <<ctx, mu, offset, buffer, attempt, reader, received, shared>>

\* The deferred Release, under the lock, and the return of Send.
Release ==
    /\ send = "release" /\ mu = 0
    /\ payload' = "nil"
    /\ send' = "returned"
    /\ UNCHANGED <<ctx, mu, offset, buffer, attempt, reader, received, shared>>

\* The marshaler puts the buffer back into the pool, and somebody gets it.
BufferReused ==
    /\ send = "returned" /\ buffer = "message"
    /\ buffer' = "reused"
    /\ UNCHANGED <<ctx, send, payload, mu, offset, attempt, reader, received, shared>>

-----------------------------------------------------------------------------
(* The payloadCloser and its envelope, as the reader of attempt a uses it. *)

\* The next n bytes of the envelope.
Bytes(n) == [i \in 1..n |-> IF buffer = "message" THEN offset + i ELSE Garbage]
Remaining == ContentLength - offset

\* Attempt a is given n bytes.
Deliver(a, n) ==
    /\ received' = [received EXCEPT ![a] = @ \o Bytes(n)]
    /\ offset' = offset + n
    /\ shared' = (shared \/ (a # attempt /\ n > 0))

\* Fault: the copy is not bounded by what is left.
ReadPastEnd(a, n) ==
    /\ reader[a] = "reading" /\ mu = 0 /\ payload = "envelope"
    /\ Deliver(a, n)
    /\ UNCHANGED <<ctx, send, payload, mu, buffer, attempt, reader>>

\* Fault: the offset moves only when the destination had room for the rest.
ReadTwice(a, n) ==
    /\ reader[a] = "reading" /\ mu = 0
    /\ IF payload = "nil" \/ Remaining = 0
       THEN /\ reader' = [reader EXCEPT ![a] = "eof"]
            /\ UNCHANGED <<received, offset, shared>>
       ELSE /\ Len(received[a]) < ContentLength
            /\ received' = [received EXCEPT ![a] = @ \o Bytes(Min({n, Remaining}))]
            /\ offset' = IF n < Remaining THEN offset ELSE ContentLength
            /\ UNCHANGED <<reader, shared>>
    /\ UNCHANGED <<ctx, send, payload, mu, buffer, attempt>>

\* Read into a buffer of n bytes: as much as fits of what is left; the end of
\* the envelope is an io.EOF, and so is a payload that was released.
Read(a, n) ==
    /\ reader[a] = "reading" /\ mu = 0
    /\ IF payload = "nil" \/ Remaining = 0
       THEN /\ reader' = [reader EXCEPT ![a] = "eof"]
            /\ UNCHANGED <<received, offset, shared>>
       ELSE /\ Deliver(a, Min({n, Remaining}))
            /\ UNCHANGED reader
    /\ UNCHANGED <<ctx, send, payload, mu, buffer, attempt>>

\* WriteTo holds the lock while it writes, which may block.  A payload that was
\* released is nothing to write.
WriteTo(a) ==
    /\ reader[a] = "reading" /\ mu = 0
    /\ IF payload = "nil"
       THEN reader' = [reader EXCEPT ![a] = "eof"] /\ UNCHANGED mu
       ELSE mu' = a /\ UNCHANGED reader
    /\ UNCHANGED <<ctx, send, payload, offset, buffer, attempt, received, shared>>

\* The write took everything, or failed part of the way; io.Copy is done with it.
WriteToReturns(a) ==
    /\ mu = a /\ mu' = 0
    /\ \E n \in 0..Remaining :
         /\ Deliver(a, n)
         /\ reader' = [reader EXCEPT ![a] = IF n = Remaining THEN "eof" ELSE "stopped"]
    /\ UNCHANGED <<ctx, send, payload, buffer, attempt>>

-----------------------------------------------------------------------------
(* net/http (external).                                                    *)

\* Fault: the payload is not rewound.
RewindNothing == offset' = offset

\* Rewind seeks to the start of the envelope.
Rewind == offset' = 0

\* Another attempt: GetBody rewinds the payload under the lock, and fails when
\* it was released.  The reader of the attempt before may still be reading.
Retry ==
    /\ attempt \in 1..MaxAttempts - 1 /\ send = "do"
    /\ mu = 0 /\ payload = "envelope"
    /\ Rewind
    /\ attempt' = attempt + 1
    /\ reader' = [reader EXCEPT ![attempt'] = "reading"]
    /\ shared' = FALSE
    /\ UNCHANGED <<ctx, send, payload, mu, buffer, received>>

\* The context is cancelled, or its deadline passes.
ContextEnds ==
    /\ ctx = "live" /\ send # "new"
    /\ ctx' = "done"
    /\ UNCHANGED <<send, payload, mu, offset, buffer, attempt, reader, received, shared>>

\* The reader of an attempt gives up or has all it needs.
ReaderStops(a) ==
    /\ reader[a] = "reading" /\ mu # a
    /\ reader' = [reader EXCEPT ![a] = "stopped"]
    /\ UNCHANGED <<ctx, send, payload, mu, offset, buffer, attempt, received, shared>>

Finished ==
    /\ send = "returned"
    /\ \A a \in Attempts : reader[a] # "reading"
    /\ UNCHANGED vars

Next ==
    \/ SendUnary \/ DoReturns \/ Release \/ BufferReused
    \/ \E a \in Attempts :
         \/ \E n \in 1..ContentLength : Read(a, n)
         \/ WriteTo(a) \/ WriteToReturns(a) \/ ReaderStops(a)
    \/ Retry \/ ContextEnds
    \/ Finished

\* Send goes on when Do has returned and the lock is free.  The context of a request
\* "controls the entire lifetime of a request", so net/http gives up a write when that
\* has ended; until then a peer that reads nothing may block it for ever.
Fairness ==
    /\ WF_vars(Release)
    /\ \A a \in Attempts : WF_vars(ctx = "done" /\ WriteToReturns(a))

Spec == Init /\ [][Next]_vars /\ Fairness

-----------------------------------------------------------------------------
(* Properties.                                                             *)

\* sendUnary: "Release the payload ensuring that after Send returns the payload
\* is safe to be reused."  However late a reader of whichever attempt is, it
\* never sees a byte of the buffer's next user.
ReusedIsUnread == \A a \in Attempts : \A i \in DOMAIN received[a] : received[a][i] # Garbage

\* An attempt that was given as many bytes as the request declares was given the
\* message, also when the reader of an earlier attempt took bytes in between.  And
\* every attempt sends it from its first byte: the attempt that reached the end of
\* the body before the payload was released, and shared it with no earlier attempt,
\* was given all of it.
RetrySendsAll ==
    /\ attempt > 0
    /\ \/ Len(received[attempt]) = ContentLength
       \/ payload = "envelope" /\ ~shared /\ reader[attempt] = "eof"
    => received[attempt] = Message

\* Release takes the lock that WriteTo holds while it writes, so that a Send whose Do
\* has returned may still wait for a write to the connection.  It waits for nothing
\* else, in particular not for readers that take their time: when no write lasts for
\* ever, Send returns; and whatever blocks a write, Send returns once the context of
\* the request has ended.
SendReturns ==
    /\ []<>(mu = 0) => ((send = "release") ~> (send = "returned"))
    /\ (send = "release" /\ ctx = "done") ~> (send = "returned")
=============================================================================
