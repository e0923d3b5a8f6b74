----------------------- MODULE HTTPClientStreamProofs -----------------------
(***************************************************************************)
(* Proofs about HTTPClientStream, for streams of any length.               *)
(***************************************************************************)
EXTENDS HTTPClientStream, TLAPS

Places == {"idle", "await", "parked", "read", "finish"}
Results == {"none", "message", "eof", "fail", "eof_again"}

TypeOK ==
    /\ streamType \in {"client", "server", "bidi"}
    /\ protocol \in {"connect", "grpc"}
    /\ ctx \in {"live", "done"}
    /\ requestSent \in BOOLEAN /\ responseReady \in BOOLEAN /\ rxEnd \in BOOLEAN
    /\ pipe \in {"open", "writer", "reader", "both"}
    /\ inbox \in Nat /\ taken \in Nat /\ served \in Nat
    /\ recv \in [pc : Places, msgs : 0..2, res : Results]

\* makeRequest runs once, and publishes a result when it is done: only then is the
\* response body closed.
Lifecycle ==
    /\ request \in {"none", "spawned", "doing", "failing", "publish", "done"}
    /\ request = "none" => ~requestSent
    /\ request # "none" => requestSent
    /\ started = IF request \in {"none", "spawned"} THEN 0 ELSE 1
    /\ request \in {"none", "spawned", "doing"} => response = "nil" /\ responseErr = "nil"
    /\ request \in {"failing", "publish", "done"} => response # "nil" \/ responseErr # "nil"
    /\ responseReady => request = "done"
    /\ response = "nil" => body = "none"

\* A request that failed has closed the write side when it is published.
FailureIsSeen == Pipes /\ request \in {"publish", "done"} /\ responseErr # "nil" => pipe # "open"

\* Receive reads a response that was published.  While the context is live, it gives up
\* only on one that was, and Close returns only then.
Published ==
    /\ recv.pc = "read" => responseReady /\ responseErr = "nil"
    /\ ctx = "live" /\ (recv.pc = "finish" \/ ReceiveEnded \/ close = "returned") => responseReady

\* What Receive reports, while it does and afterwards.
Reported ==
    /\ recv.pc \in {"await", "parked", "read"} => recv.res = "none" /\ recv.msgs <= 1
    /\ inbox + taken = served
    /\ recv.res = "eof" => tail = "clean" /\ inbox = 0
    /\ streamType = "client" /\ recv.res = "message" => tail = "clean" /\ inbox = 0 /\ taken = 1

\* A client-streaming RPC receives once.
ReceivesOnce ==
    streamType = "client" =>
        /\ ~rxEnd => recv.pc = "idle" /\ taken = 0
        /\ recv.pc # "idle" => taken = recv.msgs

\* The write side is closed before Receive returns the end of a Connect stream.
ClosedAtEnd ==
    protocol = "connect" /\ streamType = "bidi" /\ ctx = "live"
        /\ (recv.pc = "finish" \/ ReceiveEnded) => pipe # "open"

IInv ==
    /\ TypeOK /\ Lifecycle /\ FailureIsSeen /\ Published /\ BodyReleased /\ Reported
    /\ ReceivesOnce /\ ClosedAtEnd
-----------------------------------------------------------------------------
(* The actions.                                                            *)

\* Receive moves on, and keeps its count.
LEMMA RecvToIsTyped ==
    ASSUME TypeOK, \E pc \in Places, res \in Results : RecvTo(pc, res)
    PROVE  recv' \in [pc : Places, msgs : 0..2, res : Results]
<1>1. PICK pc \in Places, res \in Results : recv' = [pc |-> pc, msgs |-> recv.msgs, res |-> res]
  BY DEF RecvTo
<1>2. recv.msgs \in 0..2  BY DEF TypeOK
<1> QED  BY <1>1, <1>2

SendSide == (\E msg \in {"headers", "message"} : Send(msg)) \/ SendStep \/ TransportReads

\* Sending starts the request at most.
LEMMA SendSideIsSound == IInv /\ SendSide => IInv'
<1> SUFFICES ASSUME IInv, SendSide  PROVE IInv'  OBVIOUS
<1> USE DEF IInv, config, call, result, incoming, receiver, SendSide, Send, StartRequest,
            SendStep, SendChecks, SendFails, SendUnaryReturns, SendReturns, TransportReads
<1>1. TypeOK'
  <2>1. requestSent' \in BOOLEAN  BY DEF TypeOK
  <2>2. UNCHANGED <<config, ctx, responseReady, pipe, body, incoming, receiver>>  OBVIOUS
  <2> QED  BY <2>1, <2>2 DEF TypeOK
<1>2. Lifecycle'  BY DEF Lifecycle, TypeOK
<1>3. FailureIsSeen'  BY DEF FailureIsSeen, Lifecycle, Pipes, TypeOK
<1>4. Published' /\ BodyReleased' /\ Reported' /\ ReceivesOnce' /\ ClosedAtEnd'
  BY DEF Published, ReceiveEnded, BodyReleased, Reported, ReceivesOnce, ClosedAtEnd, Pipes
<1> QED  BY <1>1, <1>2, <1>3, <1>4

\* CloseSend and Close start the request too, and close the pipe.
LEMMA WriteClosesIsSound == IInv /\ (CloseSend \/ Close) => IInv'
<1> SUFFICES ASSUME IInv, CloseSend \/ Close  PROVE IInv'  OBVIOUS
<1> USE DEF IInv, config, call, result, incoming, receiver, CloseSend, Close, CloseWrite,
            StartRequest, WriterClosed
<1>1. TypeOK'  BY DEF TypeOK
<1>2. Lifecycle'  BY DEF Lifecycle, TypeOK
<1>3. FailureIsSeen'  BY DEF FailureIsSeen, Lifecycle, Pipes, TypeOK
<1>4. Published'  BY DEF Published, ReceiveEnded, Lifecycle, TypeOK
<1>5. ClosedAtEnd'
  BY DEF ClosedAtEnd, FailureIsSeen, Published, Lifecycle, ReceiveEnded, Pipes, TypeOK
<1>6. BodyReleased' /\ Reported' /\ ReceivesOnce'
  BY DEF BodyReleased, ReceiveEnded, Reported, ReceivesOnce
<1> QED  BY <1>1, <1>2, <1>3, <1>4, <1>5, <1>6

LEMMA CallDoIsSound == IInv /\ CallDo => IInv'
<1> SUFFICES ASSUME IInv, CallDo  PROVE IInv'  OBVIOUS
<1> USE DEF IInv, config, call, result, incoming, receiver, CallDo
<1>1. Lifecycle'  BY DEF Lifecycle, TypeOK
<1>2. TypeOK' /\ FailureIsSeen' /\ Published' /\ BodyReleased' /\ Reported' /\ ReceivesOnce'
      /\ ClosedAtEnd'
  BY DEF TypeOK, FailureIsSeen, Pipes, Published, ReceiveEnded, BodyReleased, Reported,
         ReceivesOnce, ClosedAtEnd
<1> QED  BY <1>1, <1>2

\* Nobody reads a response before it is published, nor closes its body.
LEMMA DoReturnsIsSound == IInv /\ DoReturns => IInv'
<1> SUFFICES ASSUME IInv, DoReturns  PROVE IInv'  OBVIOUS
<1> USE DEF IInv, config, call, result, incoming, receiver, DoReturns, DoFails, DoResponds
<1>1. Lifecycle'  BY DEF Lifecycle, TypeOK
<1>2. FailureIsSeen'  BY DEF FailureIsSeen, Lifecycle, Pipes, TypeOK
<1>3. Published'  BY DEF Published, ReceiveEnded, Lifecycle, TypeOK
<1>4. BodyReleased'  BY DEF BodyReleased, Published, ReceiveEnded, Lifecycle, TypeOK
<1>5. TypeOK' /\ Reported' /\ ReceivesOnce' /\ ClosedAtEnd'
  BY DEF TypeOK, Reported, ReceivesOnce, ClosedAtEnd, ReceiveEnded, Pipes
<1> QED  BY <1>1, <1>2, <1>3, <1>4, <1>5

LEMMA FailureClosesWriteIsSound == IInv /\ FailureClosesWrite => IInv'
<1> SUFFICES ASSUME IInv, FailureClosesWrite  PROVE IInv'  OBVIOUS
<1> USE DEF IInv, config, call, result, incoming, receiver, FailureClosesWrite, WriterClosed
<1>1. TypeOK'  BY DEF TypeOK
<1>2. Lifecycle'  BY DEF Lifecycle, TypeOK
<1>3. FailureIsSeen'  BY DEF FailureIsSeen, Lifecycle, Pipes, TypeOK
<1>4. ClosedAtEnd'
  BY DEF ClosedAtEnd, FailureIsSeen, Published, Lifecycle, ReceiveEnded, Pipes, TypeOK
<1>5. Published' /\ BodyReleased' /\ Reported' /\ ReceivesOnce'
  BY DEF Published, ReceiveEnded, BodyReleased, Reported, ReceivesOnce
<1> QED  BY <1>1, <1>2, <1>3, <1>4, <1>5

LEMMA PublishResponseIsSound == IInv /\ PublishResponse => IInv'
<1> SUFFICES ASSUME IInv, PublishResponse  PROVE IInv'  OBVIOUS
<1> USE DEF IInv, config, call, result, incoming, receiver, PublishResponse
<1>1. TypeOK'  BY DEF TypeOK
<1>2. Lifecycle'  BY DEF Lifecycle, TypeOK
<1>3. FailureIsSeen'  BY DEF FailureIsSeen, Lifecycle, Pipes, TypeOK
<1>4. Published'  BY DEF Published, ReceiveEnded, Lifecycle, TypeOK
<1>5. BodyReleased' /\ Reported' /\ ReceivesOnce' /\ ClosedAtEnd'
  BY DEF BodyReleased, ReceiveEnded, Reported, ReceivesOnce, ClosedAtEnd, Pipes
<1> QED  BY <1>1, <1>2, <1>3, <1>4, <1>5

\* A new Receive forgets what the last one reported.
LEMMA ReceiveIsSound == IInv /\ Receive => IInv'
<1> SUFFICES ASSUME IInv, Receive  PROVE IInv'  OBVIOUS
<1> USE DEF IInv, config, call, result, incoming, receiver, Receive
<1>1. TypeOK'
  <2>1. recv' \in [pc : Places, msgs : 0..2, res : Results]  BY DEF Places, Results
  <2>2. rxEnd' \in BOOLEAN  BY DEF TypeOK
  <2>3. UNCHANGED <<config, ctx, requestSent, responseReady, pipe, incoming, taken>>  OBVIOUS
  <2> QED  BY <2>1, <2>2, <2>3 DEF TypeOK
<1>2. Published'  BY DEF Published, ReceiveEnded, Lifecycle, TypeOK
<1>3. BodyReleased'  BY DEF BodyReleased, Published, ReceiveEnded, Lifecycle, TypeOK
<1>4. Reported'  BY DEF Reported, ReceivesOnce, TypeOK
<1>5. ReceivesOnce'
  <2>1. CASE streamType = "client" /\ rxEnd
    <3>1. recv'.pc = "idle" /\ rxEnd'  BY <2>1
    <3> QED  BY <3>1 DEF ReceivesOnce
  <2>2. CASE streamType = "client" /\ ~rxEnd
    <3>1. recv'.msgs = 0 /\ taken' = taken  BY <2>2
    <3>2. rxEnd' = TRUE
      <4>1. rxEnd' = (streamType = "client")  BY <2>2, Zenon DEF Receive
      <4> QED  BY <2>2, <4>1
    <3> QED  BY <2>2, <3>1, <3>2 DEF ReceivesOnce
  <2>3. CASE streamType # "client"  BY <2>3 DEF ReceivesOnce
  <2> QED  BY <2>1, <2>2, <2>3
<1>6. ClosedAtEnd'
  BY DEF ClosedAtEnd, FailureIsSeen, Published, Lifecycle, ReceiveEnded, Pipes, TypeOK
<1>7. Lifecycle' /\ FailureIsSeen'
  BY DEF Lifecycle, FailureIsSeen, Pipes
<1> QED  BY <1>1, <1>2, <1>3, <1>4, <1>5, <1>6, <1>7

\* Receive gives up, on a live context, only when the request failed and was published.
LEMMA AwaitIsSound == IInv /\ Await => IInv'
<1> SUFFICES ASSUME IInv, Await  PROVE IInv'  OBVIOUS
<1> USE DEF IInv, config, call, result, incoming, receiver
<1>1. TypeOK'
  <2>1. \E pc \in Places, res \in Results : RecvTo(pc, res)
    BY DEF Await, Places, Results
  <2>2. recv' \in [pc : Places, msgs : 0..2, res : Results]  BY <2>1, RecvToIsTyped
  <2>3. requestSent' \in BOOLEAN /\ pipe' \in {"open", "writer", "reader", "both"}
    BY DEF Await, CloseWrite, StartRequest, WriterClosed, TypeOK
  <2>4. UNCHANGED <<config, ctx, responseReady, incoming, rxEnd, taken>>  BY DEF Await
  <2> QED  BY <2>2, <2>3, <2>4 DEF TypeOK
<1> USE DEF Await, RecvTo, CloseWrite, StartRequest, WriterClosed
<1>2. Lifecycle'  BY DEF Lifecycle, TypeOK
<1>3. FailureIsSeen'  BY DEF FailureIsSeen, Lifecycle, Pipes, TypeOK
<1>4. Published'  BY DEF Published, ReceiveEnded, Lifecycle, TypeOK
<1>5. BodyReleased'  BY DEF BodyReleased, Published, ReceiveEnded, Lifecycle, TypeOK
<1>6. Reported'  BY DEF Reported, ReceivesOnce, TypeOK
<1>7. ReceivesOnce'
  <2>1. recv.pc # "idle" /\ recv'.msgs = recv.msgs /\ UNCHANGED <<streamType, rxEnd, taken>>
    OBVIOUS
  <2> QED  BY <2>1 DEF ReceivesOnce, TypeOK
<1>8. ClosedAtEnd'
  BY DEF ClosedAtEnd, FailureIsSeen, Published, Lifecycle, ReceiveEnded, Pipes, TypeOK
<1> QED  BY <1>1, <1>2, <1>3, <1>4, <1>5, <1>6, <1>7, <1>8

\* A message is taken; the second one of a client-streaming RPC is a failure.
LEMMA ReadMessageIsSound == IInv /\ ReadMessage => IInv'
<1> SUFFICES ASSUME IInv, ReadMessage  PROVE IInv'  OBVIOUS
<1> USE DEF IInv, config, call, result, incoming, receiver, ReadMessage
<1>1. TypeOK'
  <2>1. recv' \in [pc : Places, msgs : 0..2, res : Results]  BY DEF Places, Results
  <2>2. inbox' \in Nat /\ taken' \in Nat  BY DEF TypeOK
  <2>3. UNCHANGED <<config, ctx, requestSent, responseReady, pipe, served, rxEnd>>  OBVIOUS
  <2> QED  BY <2>1, <2>2, <2>3 DEF TypeOK
<1>2. Published'  BY DEF Published, ReceiveEnded, Lifecycle, TypeOK
<1>3. BodyReleased'  BY DEF BodyReleased, Published, ReceiveEnded, Lifecycle, TypeOK
<1>4. Reported'  BY DEF Reported, ReceivesOnce, TypeOK
<1>5. ReceivesOnce'  BY DEF ReceivesOnce, Reported, TypeOK
<1>6. ClosedAtEnd'
  BY DEF ClosedAtEnd, FailureIsSeen, Published, Lifecycle, ReceiveEnded, Pipes, TypeOK
<1>7. Lifecycle' /\ FailureIsSeen'
  BY DEF Lifecycle, FailureIsSeen, Pipes
<1> QED  BY <1>1, <1>2, <1>3, <1>4, <1>5, <1>6, <1>7

\* The end is the server's when every message before it was read.
LEMMA ReadEndIsSound == IInv /\ ReadEnd => IInv'
<1> SUFFICES ASSUME IInv, ReadEnd  PROVE IInv'  OBVIOUS
<1> USE DEF IInv, config, call, result, incoming, receiver
<1>1. TypeOK'
  <2>1. \E pc \in Places, res \in Results : RecvTo(pc, res)
    BY DEF ReadEnd, Places, Results
  <2>2. recv' \in [pc : Places, msgs : 0..2, res : Results]  BY <2>1, RecvToIsTyped
  <2>3. requestSent' \in BOOLEAN /\ pipe' \in {"open", "writer", "reader", "both"}
    BY DEF ReadEnd, CloseWrite, StartRequest, WriterClosed, TypeOK
  <2>4. UNCHANGED <<config, ctx, responseReady, incoming, rxEnd, taken>>  BY DEF ReadEnd
  <2> QED  BY <2>2, <2>3, <2>4 DEF TypeOK
<1> USE DEF ReadEnd, RecvTo, CloseWrite, StartRequest, WriterClosed, TrailersOnly
<1>2. Lifecycle'  BY DEF Lifecycle, TypeOK
<1>3. FailureIsSeen'  BY DEF FailureIsSeen, Lifecycle, Pipes, TypeOK
<1>4. Published'  BY DEF Published, ReceiveEnded, Lifecycle, TypeOK
<1>5. BodyReleased'  BY DEF BodyReleased, Published, ReceiveEnded, Lifecycle, TypeOK
<1>6. Reported'  BY DEF Reported, ReceivesOnce, TypeOK
<1>7. ReceivesOnce'
  <2>1. recv.pc # "idle" /\ recv'.msgs = recv.msgs /\ UNCHANGED <<streamType, rxEnd, taken>>
    OBVIOUS
  <2> QED  BY <2>1 DEF ReceivesOnce, TypeOK
<1>8. ClosedAtEnd'
  BY DEF ClosedAtEnd, FailureIsSeen, Published, Lifecycle, ReceiveEnded, Pipes, TypeOK
<1> QED  BY <1>1, <1>2, <1>3, <1>4, <1>5, <1>6, <1>7, <1>8

\* CloseRead closes the body of what was published before Receive returns.
LEMMA ReceiveReturnsIsSound == IInv /\ ReceiveReturns => IInv'
<1> SUFFICES ASSUME IInv, ReceiveReturns  PROVE IInv'  OBVIOUS
<1> USE DEF IInv, config, call, result, incoming, receiver
<1>1. TypeOK'
  <2>1. recv.res \in Results /\ RecvTo("idle", recv.res)
    BY DEF TypeOK, ReceiveReturns
  <2>2. recv' \in [pc : Places, msgs : 0..2, res : Results]  BY <2>1, RecvToIsTyped DEF Places
  <2>3. UNCHANGED <<config, ctx, requestSent, responseReady, pipe, incoming, rxEnd, taken>>
    BY DEF ReceiveReturns
  <2> QED  BY <2>2, <2>3 DEF TypeOK
<1> USE DEF ReceiveReturns, RecvTo, CloseRead
<1>2. Lifecycle'  BY DEF Lifecycle, TypeOK
<1>3. Published'  BY DEF Published, ReceiveEnded, Lifecycle, TypeOK
<1>4. BodyReleased'  BY DEF BodyReleased, Published, ReceiveEnded, Lifecycle, TypeOK
<1>5. Reported'  BY DEF Reported, ReceivesOnce, TypeOK
<1>6. ReceivesOnce'  BY DEF ReceivesOnce, Reported, TypeOK
<1>7. ClosedAtEnd'
  BY DEF ClosedAtEnd, FailureIsSeen, Published, Lifecycle, ReceiveEnded, Pipes, TypeOK
<1>8. FailureIsSeen'
  BY DEF FailureIsSeen, Pipes
<1> QED  BY <1>1, <1>2, <1>3, <1>4, <1>5, <1>6, <1>7, <1>8

LEMMA CloseAwaitsIsSound == IInv /\ CloseAwaits => IInv'
<1> SUFFICES ASSUME IInv, CloseAwaits  PROVE IInv'  OBVIOUS
<1> USE DEF IInv, config, call, result, incoming, receiver, CloseAwaits, CloseRead
<1>1. Lifecycle'  BY DEF Lifecycle, TypeOK
<1>2. Published'  BY DEF Published, ReceiveEnded, Lifecycle, TypeOK
<1>3. BodyReleased'  BY DEF BodyReleased, Published, ReceiveEnded, Lifecycle, TypeOK
<1>4. TypeOK'  BY DEF TypeOK
<1>5. FailureIsSeen' /\ ClosedAtEnd'  BY DEF FailureIsSeen, Pipes, ClosedAtEnd, ReceiveEnded
<1>6. Reported' /\ ReceivesOnce'  BY DEF Reported, ReceivesOnce
<1> QED  BY <1>1, <1>2, <1>3, <1>4, <1>5, <1>6

External == TransportCloses \/ ServerSends \/ ServerEnds \/ ContextDone

\* The transport, the server and the context.
LEMMA ExternalIsSound == IInv /\ External => IInv'
<1> SUFFICES ASSUME IInv, External  PROVE IInv'  OBVIOUS
<1> USE DEF IInv, config, call, result, incoming, receiver, External, TransportCloses,
            ReaderClosed, ServerSends, ServerEnds, ContextDone
<1>1. TypeOK'  BY DEF TypeOK
<1>2. Lifecycle'  BY DEF Lifecycle, TypeOK
<1>3. FailureIsSeen'  BY DEF FailureIsSeen, Lifecycle, Pipes, TypeOK
<1>4. Published'  BY DEF Published, ReceiveEnded, Lifecycle, TypeOK
<1>5. BodyReleased'  BY DEF BodyReleased, Published, ReceiveEnded, Lifecycle, TypeOK
<1>6. Reported'  BY DEF Reported, ReceivesOnce, TypeOK
<1>7. ClosedAtEnd'
  BY DEF ClosedAtEnd, FailureIsSeen, Published, Lifecycle, ReceiveEnded, Pipes, TypeOK
<1>8. ReceivesOnce'
  BY DEF ReceivesOnce
<1> QED  BY <1>1, <1>2, <1>3, <1>4, <1>5, <1>6, <1>7, <1>8
-----------------------------------------------------------------------------
(* The theorems.                                                           *)

LEMMA InitIsSound == Init => IInv
<1> SUFFICES ASSUME Init  PROVE IInv  OBVIOUS
<1>1. TypeOK
  <2>1. streamType \in {"client", "server", "bidi"} /\ protocol \in {"connect", "grpc"}
    BY ParametersAssumption DEF Init
  <2>2. recv \in [pc : Places, msgs : 0..2, res : Results]  BY DEF Init, Places, Results
  <2> QED  BY <2>1, <2>2 DEF Init, TypeOK
<1>2. recv.pc = "idle" /\ recv.res = "none"  BY DEF Init
<1>3. Lifecycle /\ FailureIsSeen  BY DEF Init, Lifecycle, FailureIsSeen
<1>4. Published /\ BodyReleased /\ ClosedAtEnd
  BY <1>2 DEF Init, Published, BodyReleased, ClosedAtEnd, ReceiveEnded
<1>5. Reported /\ ReceivesOnce  BY <1>2 DEF Init, Reported, ReceivesOnce
<1> QED  BY <1>1, <1>3, <1>4, <1>5 DEF IInv

LEMMA NextIsSound == IInv /\ [Next]_vars => IInv'
<1> SUFFICES ASSUME IInv, [Next]_vars  PROVE IInv'  OBVIOUS
<1>1. CASE SendSide
  BY <1>1, SendSideIsSound
<1>2. CASE CloseSend \/ Close  BY <1>2, WriteClosesIsSound
<1>3. CASE RequestStep
  BY <1>3, CallDoIsSound, FailureClosesWriteIsSound, PublishResponseIsSound DEF RequestStep
<1>4. CASE DoReturns  BY <1>4, DoReturnsIsSound
<1>5. CASE Receive  BY <1>5, ReceiveIsSound
<1>6. CASE ReceiveStep
  BY <1>6, AwaitIsSound, ReadMessageIsSound, ReadEndIsSound, ReceiveReturnsIsSound DEF ReceiveStep
<1>7. CASE CloseAwaits  BY <1>7, CloseAwaitsIsSound
<1>8. CASE External  BY <1>8, ExternalIsSound
<1>9. CASE Finished \/ UNCHANGED vars
  <2>1. UNCHANGED vars  BY <1>9 DEF Finished
  <2>2. TypeOK' /\ Lifecycle'  BY <2>1 DEF vars, IInv, TypeOK, Lifecycle
  <2>3. FailureIsSeen' /\ BodyReleased'  BY <2>1 DEF vars, IInv, FailureIsSeen, Pipes, BodyReleased, ReceiveEnded
  <2>4. Published' /\ ClosedAtEnd'  BY <2>1 DEF vars, IInv, Published, ClosedAtEnd, ReceiveEnded
  <2>5. Reported' /\ ReceivesOnce'  BY <2>1 DEF vars, IInv, Reported, ReceivesOnce
  <2> QED  BY <2>2, <2>3, <2>4, <2>5 DEF IInv
<1> QED
  BY <1>1, <1>2, <1>3, <1>4, <1>5, <1>6, <1>7, <1>8, <1>9 DEF Next, SendSide, External

LEMMA AlwaysIInv == Spec => []IInv
BY InitIsSound, NextIsSound, PTL DEF Spec

\* The response body is left open only to a context that is done: CloseRead, on every
\* way out of Receive and Close, sees the response that makeRequest published.
THEOREM BodyIsReleased == Spec => []BodyReleased
<1>1. IInv => BodyReleased  BY DEF IInv
<1> QED  BY <1>1, AlwaysIInv, PTL

\* Receive reports a clean end, or the one message of a client-streaming RPC, only for a
\* response that ended cleanly after the messages that were taken.
THEOREM EndIsAlwaysTruthful == Spec => []EndIsTruthful
<1>1. IInv => EndIsTruthful  BY DEF IInv, TypeOK, Reported, EndIsTruthful
<1> QED  BY <1>1, AlwaysIInv, PTL

\* After the end of a Connect stream the pipe is closed, so Send errors out.
THEOREM SendErrsOut == Spec => []SendErrsOutAfterEnd
<1>1. IInv => SendErrsOutAfterEnd  BY DEF IInv, ClosedAtEnd, SendErrsOutAfterEnd
<1> QED  BY <1>1, AlwaysIInv, PTL

\* makeRequest runs once, publishes a result, and nobody changes it after responseReady
\* was closed: reading it without a lock is safe.
THEOREM ResponseIsPublishedOnce == Spec => ResponseIsFinal
<1>1. IInv /\ IInv' /\ [Next]_vars =>
        [/\ started' <= 1
         /\ responseReady => UNCHANGED result
         /\ responseReady' => response' # "nil" \/ responseErr' # "nil"]_vars
  <2> SUFFICES ASSUME IInv, IInv', Next
               PROVE  /\ started' <= 1
                      /\ responseReady => UNCHANGED result
                      /\ responseReady' => response' # "nil" \/ responseErr' # "nil"
    OBVIOUS
  <2>1. started' <= 1  BY DEF IInv, Lifecycle
  <2>2. responseReady' => response' # "nil" \/ responseErr' # "nil"  BY DEF IInv, Lifecycle
  <2>3. ASSUME request = "done"  PROVE responseReady => UNCHANGED result
    BY <2>3 DEF Next, Send, SendStep, SendChecks, SendFails, SendUnaryReturns, SendReturns,
           CloseSend, Close, CloseAwaits, Receive, ReceiveStep, Await, ReadMessage, ReadEnd,
           ReceiveReturns, RequestStep, CallDo, FailureClosesWrite, PublishResponse, DoReturns,
           DoFails, DoResponds, TransportReads, TransportCloses, ServerSends, ServerEnds,
           ContextDone, Finished, vars, result
  <2> QED  BY <2>1, <2>2, <2>3 DEF IInv, Lifecycle
<1> QED  BY <1>1, AlwaysIInv, PTL DEF Spec, ResponseIsFinal
=============================================================================
