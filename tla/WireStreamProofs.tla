--------------------------- MODULE WireStreamProofs ---------------------------
(***************************************************************************)
(* Proofs about WireStream, for any number of requests and responses,      *)
(* however the response is cut off on its way.                             *)
(***************************************************************************)
EXTENDS WireStream, SequenceTheorems, TLAPS

Frame == Response \cup {EndStream, Partial}

TypeOK ==
    /\ protocol \in {"connect", "grpc", "grpcweb"}
    /\ streamType \in {"unary", "client", "server", "bidi"}
    /\ endLimit \in {"none", "send", "read"}
    /\ handler \in {"running", "closed", "done", "aborted"}
    /\ outcome \in Outcome \cup {"none"}
    /\ sends \in Nat /\ sent \in Seq(Response)
    /\ wroteToBody \in BOOLEAN /\ cut \in BOOLEAN
    /\ head \in {"none", "ok", "trailers", "error", "refused"}
    /\ body \in Seq(Frame)
    /\ bodyEnd \in {"open", "eof", "reset"}
    /\ crecv \in {"idle", "second"}
    /\ got \in Seq(Response \cup {Zero})
    /\ endRead \in BOOLEAN /\ again \in Seq(Verdict \cup {"eof", "local"})

RequestTypeOK ==
    /\ reqSent \in Nat /\ reqGot \in Nat /\ reqGot <= reqSent
    /\ reqEnd \in {"open", "eof", "reset"}
    /\ hrecv \in [pc : {"idle", "second"}, res : {"none", "message", "fail", "eof", "end"}]
    /\ rxEnd \in BOOLEAN

\* How far a handler with a single request has come.
RequestInOrder ==
    /\ ConnectUnary => reqSent <= 1
    /\ ConnectUnary /\ hrecv.pc = "second" => reqEnd = "eof" /\ reqGot = reqSent
    /\ SingleRequest /\ ~ConnectUnary /\ hrecv.pc = "second" => reqGot = 1
    /\ SingleRequest /\ ~rxEnd => reqGot = 0 /\ hrecv.pc = "idle"
    /\ hrecv.pc = "second" => SingleRequest /\ hrecv.res = "none"

RequestInv == RequestTypeOK /\ RequestInOrder /\ RequestIsComplete

\* What the client took is what was sent first, and what is in the body follows it.
\* Only a response that was cut off lacks some of it; an end-stream envelope is
\* the last and comes after all of it.
InOrder ==
    ended = "open" =>
        /\ Len(got) <= Len(sent)
        /\ \A i \in 1..Len(got) : got[i] = sent[i]
        /\ \A i \in 1..Len(body) :
             /\ body[i] \in Response => Len(got) + i <= Len(sent) /\ body[i] = sent[Len(got) + i]
             /\ body[i] = EndStream =>
                  /\ i = Len(body) /\ Len(got) + i = Len(sent) + 1
                  /\ handler # "running" /\ protocol # "grpc" /\ ~ConnectUnary /\ endVerdict # "none"
             /\ body[i] = Partial => cut
        /\ ~cut /\ (protocol = "grpc" \/ ConnectUnary \/ handler = "running") =>
             Len(got) + Len(body) = Len(sent)

\* The end a response carries is the verdict of its handler, which has returned.
EndIsHandlers ==
    /\ handler = "running" => outcome = "none"
    /\ ~ConnectUnary /\ handler = "running" => endVerdict = "none"
    /\ ~ConnectUnary /\ endVerdict # "none" =>
         outcome # "none" /\ endVerdict = scrubHandlerError(outcome)
    /\ protocol = "grpc" /\ handler \in {"closed", "done"} /\ head # "refused" /\ ~cut =>
         endVerdict # "none"
    /\ head = "error" => /\ ConnectUnary /\ outcome \notin {"none", "nil"}
                         /\ endVerdict = scrubHandlerError(outcome)
    /\ head = "trailers" => sent = <<>> /\ handler # "running" /\ endVerdict # "none" /\ ~ConnectUnary
    /\ ConnectUnary /\ head = "ok" => sent # <<>> \/ outcome = "nil"

\* How far the server has come with the response.
ServerInOrder ==
    /\ sends = 0 => sent = <<>> /\ ~wroteToBody
    /\ ConnectUnary => sends <= 1
    /\ Len(sent) <= sends
    /\ ~ConnectUnary /\ sends > 0 => wroteToBody
    /\ handler = "running" /\ sends = 0 => head = "none"
    /\ bodyEnd = "eof" /\ ~cut => handler = "done"
    /\ ConnectUnary /\ bodyEnd = "eof" => ~cut

\* How far the client has come.
ClientInOrder ==
    /\ ended \in Verdict \cup {"open", "local"}
    /\ ended = "open" =>
         /\ again = <<>> /\ ~endRead
         /\ SingleResponse => Len(got) = (IF crecv = "second" THEN 1 ELSE 0)
         /\ ConnectUnary => crecv = "idle"
    /\ ended = "ok" => handler # "running"
    /\ ended # "open" /\ ~SingleResponse =>
         IF ended \in Verdict \ {"ok"} THEN endRead /\ endVerdict = ended
         ELSE ~(endRead /\ endVerdict # "ok")
    /\ endRead => endVerdict # "none" /\ handler # "running"

ResponseInv ==
    /\ TypeOK /\ InOrder /\ EndIsHandlers /\ ServerInOrder /\ ClientInOrder
    /\ SuccessIsComplete /\ ErrorIsHandlers
-----------------------------------------------------------------------------
(* The request.                                                            *)

\* What a read can give, and when.
LEMMA ReadsAreTrue ==
    ASSUME RequestInv, NEW read \in RequestReads
    PROVE  /\ read[1] \in {"message", "fail", "eof"} /\ read[2] \in Nat
           /\ reqGot + read[2] <= reqSent
           /\ read[1] = "eof" => read[2] = 0 /\ reqEnd = "eof" /\ reqGot = reqSent
           /\ ConnectUnary /\ read[1] = "message" => reqEnd = "eof" /\ reqGot + read[2] = reqSent
           /\ ~ConnectUnary /\ read[1] = "message" => read[2] = 1
<1>1. reqSent \in Nat /\ reqGot \in Nat /\ reqGot <= reqSent /\ reqEnd \in {"open", "eof", "reset"}
  BY DEF RequestInv, RequestTypeOK
<1>2. CASE ConnectUnary
  <2>1. CASE hrecv.pc = "second"
    <3>1. read = <<"eof", 0>>  BY <1>2, <2>1 DEF RequestReads
    <3>2. reqEnd = "eof" /\ reqGot = reqSent  BY <1>2, <2>1 DEF RequestInv, RequestInOrder
    <3> QED  BY <1>1, <3>1, <3>2
  <2>2. CASE hrecv.pc # "second"
    <3>1. \/ reqEnd = "eof" /\ read \in {<<"message", reqSent - reqGot>>, <<"fail", reqSent - reqGot>>}
          \/ read = <<"fail", 0>>
      BY <1>1, <1>2, <2>2 DEF RequestReads
    <3> QED  BY <1>1, <3>1, <1>2
  <2> QED  BY <2>1, <2>2
<1>3. CASE ~ConnectUnary
  <2>1. \/ reqGot < reqSent /\ read \in {<<"message", 1>>, <<"fail", 1>>}
        \/ reqGot = reqSent /\ reqEnd = "eof" /\ read = <<"eof", 0>>
        \/ read = <<"fail", 0>>
    BY <1>1, <1>3 DEF RequestReads
  <2> QED  BY <1>1, <1>3, <2>1
<1> QED  BY <1>2, <1>3

\* The client sends or closes its side, or the connection is lost.
LEMMA ClientSideIsSound ==
    RequestInv /\ (ClientSends \/ ClientClosesSend \/ ConnectionLost) => RequestInv'
<1> SUFFICES ASSUME RequestInv, ClientSends \/ ClientClosesSend \/ ConnectionLost
             PROVE  RequestInv'
  OBVIOUS
<1>1. /\ UNCHANGED <<call, reqGot, receiving>>
      /\ \/ reqEnd = "open" /\ UNCHANGED reqEnd /\ reqSent' = reqSent + 1
            /\ reqSent < IF ConnectUnary THEN 1 ELSE MaxRequests
         \/ UNCHANGED reqSent /\ reqEnd' \in {"open", "eof", "reset"}
            /\ (reqEnd' = reqEnd \/ reqEnd = "open")
  BY DEF ClientSends, ClientClosesSend, ConnectionLost, RequestInv, RequestTypeOK
<1>2. RequestTypeOK'  BY <1>1 DEF RequestInv, RequestTypeOK, receiving
<1>3. RequestInOrder'
  BY <1>1 DEF RequestInv, RequestTypeOK, RequestInOrder, ConnectUnary, Unary, SingleRequest, call, receiving
<1>4. RequestIsComplete'
  BY <1>1 DEF RequestInv, RequestTypeOK, RequestIsComplete, ConnectUnary, Unary, SingleRequest, call, receiving
<1> QED  BY <1>2, <1>3, <1>4 DEF RequestInv

LEMMA HandlerReceiveIsSound == RequestInv /\ HandlerReceive => RequestInv'
<1> SUFFICES ASSUME RequestInv, HandlerReceive  PROVE RequestInv'  OBVIOUS
<1>1. hrecv.pc = "idle" /\ UNCHANGED <<call, reqSent, reqEnd>>  BY DEF HandlerReceive
<1>2. CASE SingleRequest /\ rxEnd
  <2>1. hrecv' = [pc |-> "idle", res |-> "end"] /\ UNCHANGED <<reqGot, rxEnd>>
    BY <1>2 DEF HandlerReceive
  <2> QED
    BY <1>1, <1>2, <2>1 DEF RequestInv, RequestTypeOK, RequestInOrder, RequestIsComplete, ConnectUnary,
                           Unary, SingleRequest, call
<1>3. CASE ~(SingleRequest /\ rxEnd)
  <2>1. PICK read \in RequestReads :
          /\ reqGot' = reqGot + read[2]
          /\ hrecv' = IF ~SingleRequest THEN [pc |-> "idle", res |-> read[1]]
                      ELSE IF read[1] = "message" THEN [pc |-> "second", res |-> "none"]
                      ELSE [pc |-> "idle", res |-> "fail"]
    BY <1>3 DEF HandlerReceive
  <2>2. rxEnd' = SingleRequest  BY <1>3 DEF HandlerReceive
  <2>3. /\ read[1] \in {"message", "fail", "eof"} /\ read[2] \in Nat
        /\ reqGot + read[2] <= reqSent
        /\ read[1] = "eof" => read[2] = 0 /\ reqEnd = "eof" /\ reqGot = reqSent
        /\ ConnectUnary /\ read[1] = "message" => reqEnd = "eof" /\ reqGot + read[2] = reqSent
        /\ ~ConnectUnary /\ read[1] = "message" => read[2] = 1
    BY ReadsAreTrue
  <2>4. hrecv' \in [pc : {"idle", "second"}, res : {"none", "message", "fail", "eof", "end"}]
    BY <2>1, <2>3
  <2>5. rxEnd' \in BOOLEAN  BY <2>2 DEF SingleRequest
  <2>6. RequestTypeOK'  BY <1>1, <2>1, <2>3, <2>4, <2>5 DEF RequestInv, RequestTypeOK
  <2>7. CASE SingleRequest
    <3>1. SingleRequest' /\ (ConnectUnary' <=> ConnectUnary) /\ rxEnd'
      BY <1>1, <2>2, <2>7 DEF SingleRequest, ConnectUnary, Unary, call
    <3>2. reqGot = 0  BY <1>3, <2>7 DEF RequestInv, RequestInOrder
    <3>3. \/ hrecv' = [pc |-> "second", res |-> "none"] /\ read[1] = "message"
          \/ hrecv' = [pc |-> "idle", res |-> "fail"]
      BY <2>1, <2>7
    <3>4. RequestInOrder'
      BY <1>1, <2>1, <2>3, <3>1, <3>2, <3>3 DEF RequestInv, RequestTypeOK, RequestInOrder
    <3>5. RequestIsComplete'  BY <3>3 DEF RequestIsComplete
    <3> QED  BY <2>6, <3>4, <3>5 DEF RequestInv
  <2>8. CASE ~SingleRequest
    <3>1. ~SingleRequest' /\ ~ConnectUnary'
      BY <1>1, <2>8 DEF SingleRequest, ConnectUnary, Unary, call
    <3>2. hrecv' = [pc |-> "idle", res |-> read[1]]  BY <2>1, <2>8
    <3>3. RequestInOrder'  BY <3>1, <3>2 DEF RequestInOrder
    <3>4. RequestIsComplete'
      BY <1>1, <2>1, <2>3, <3>1, <3>2 DEF RequestIsComplete, RequestInv, RequestTypeOK
    <3> QED  BY <2>6, <3>3, <3>4 DEF RequestInv
  <2> QED  BY <2>7, <2>8
<1> QED  BY <1>2, <1>3

LEMMA HandlerReceiveSecondIsSound == RequestInv /\ HandlerReceiveSecond => RequestInv'
<1> SUFFICES ASSUME RequestInv, HandlerReceiveSecond  PROVE RequestInv'  OBVIOUS
<1>1. hrecv.pc = "second" /\ UNCHANGED <<call, reqSent, reqEnd, rxEnd>>
  BY DEF HandlerReceiveSecond
<1>2. PICK read \in RequestReads :
        /\ reqGot' = reqGot + read[2]
        /\ hrecv' = [pc |-> "idle", res |-> IF read[1] = "eof" THEN "message" ELSE "fail"]
  BY DEF HandlerReceiveSecond
<1>3. /\ read[2] \in Nat /\ reqGot + read[2] <= reqSent
      /\ read[1] = "eof" => read[2] = 0 /\ reqEnd = "eof" /\ reqGot = reqSent
  BY ReadsAreTrue
<1>4. hrecv'.pc = "idle" /\ hrecv'.res \in {"message", "fail"} /\ (hrecv'.res = "message" => read[1] = "eof")
  BY <1>2
<1>5. RequestTypeOK'  BY <1>1, <1>2, <1>3 DEF RequestInv, RequestTypeOK
<1>6. /\ SingleRequest' = SingleRequest /\ ConnectUnary' = ConnectUnary /\ SingleRequest /\ rxEnd
  BY <1>1 DEF RequestInv, RequestInOrder, SingleRequest, ConnectUnary, Unary, call
<1>7. RequestInOrder'  BY <1>1, <1>4, <1>6 DEF RequestInv, RequestInOrder
<1>8. RequestIsComplete'
  BY <1>1, <1>2, <1>3, <1>4, <1>6 DEF RequestInv, RequestTypeOK, RequestInOrder, RequestIsComplete
<1> QED  BY <1>5, <1>7, <1>8 DEF RequestInv

LEMMA RequestNextIsSound == RequestInv /\ [Next]_vars => RequestInv'
<1> SUFFICES ASSUME RequestInv, [Next]_vars  PROVE RequestInv'  OBVIOUS
<1>1. CASE ClientSends \/ ClientClosesSend \/ ConnectionLost  BY <1>1, ClientSideIsSound
<1>2. CASE HandlerReceive  BY <1>2, HandlerReceiveIsSound
<1>3. CASE HandlerReceiveSecond  BY <1>3, HandlerReceiveSecondIsSound
<1>4. CASE UNCHANGED <<request, receiving>>
  BY <1>4 DEF RequestInv, RequestTypeOK, RequestInOrder, RequestIsComplete, ConnectUnary, Unary,
             SingleRequest, request, receiving, call
<1>5. CASE \/ SetTrailer \/ HandlerSend \/ RefuseRequest \/ RejectCall \/ HandlerReturns
           \/ ServerEndsResponse \/ HandlerPanics \/ ReceiveMessage \/ ReceiveEnd \/ ReceiveUnary
           \/ ReceiveRefused \/ ReceiveAgain \/ Finished \/ UNCHANGED vars
  <2>1. UNCHANGED <<request, receiving>>
    BY <1>5 DEF SetTrailer, HandlerSend, RefuseRequest, RejectCall, HandlerReturns, ServerEndsResponse,
                HandlerPanics, ReceiveMessage, ReceiveEnd, ReceiveUnary, ReceiveRefused, ReceiveAgain,
                Finished, vars
  <2> QED  BY <1>4, <2>1
<1> QED  BY <1>1, <1>2, <1>3, <1>5 DEF Next

-----------------------------------------------------------------------------
(* Envelopes, verdicts and reads.                                          *)

LEMMA FramesAreDistinct ==
    /\ Response \subseteq Nat /\ Frame \subseteq Nat /\ MaxResponses \in Nat \ {0}
    /\ EndStream \notin Response /\ Partial \notin Response /\ EndStream # Partial
    /\ EndStream \in Frame /\ Partial \in Frame /\ Response \subseteq Frame
BY WireAssumption DEF EndStream, Partial, Response, Frame

LEMMA ScrubIsVerdict ==
    ASSUME NEW o \in Outcome
    PROVE  /\ scrubHandlerError(o) \in Verdict /\ (scrubHandlerError(o) = "ok" <=> o = "nil")
           /\ scrubHandlerError(o) # "none"
BY DEF Outcome, Verdict, scrubHandlerError

\* The elements of a sequence that grew, shrank or was cut, over any set.
LEMMA AppendFacts ==
    ASSUME NEW S, NEW q \in Seq(S), NEW e \in S
    PROVE  /\ Append(q, e) \in Seq(S) /\ Len(Append(q, e)) = Len(q) + 1 /\ Len(q) \in Nat
           /\ \A i \in 1..Len(q) : Append(q, e)[i] = q[i]
           /\ Append(q, e)[Len(q) + 1] = e
BY AppendProperties

LEMMA TailFacts ==
    ASSUME NEW S, NEW q \in Seq(S), q # <<>>
    PROVE  /\ Tail(q) \in Seq(S) /\ Len(Tail(q)) = Len(q) - 1 /\ Len(q) \in Nat \ {0}
           /\ \A i \in 1..Len(q) - 1 : Tail(q)[i] = q[i + 1]
           /\ Head(q) = q[1] /\ Head(q) \in S
BY HeadTailProperties, EmptySeq

LEMMA SubSeqFacts ==
    ASSUME NEW S, NEW q \in Seq(S), NEW n \in 0..Len(q)
    PROVE  /\ SubSeq(q, 1, n) \in Seq(S) /\ Len(SubSeq(q, 1, n)) = n
           /\ \A i \in 1..n : SubSeq(q, 1, n)[i] = q[i]
<1>1. Len(q) \in Nat  OBVIOUS
<1> QED  BY <1>1, SubSeqProperties

\* What a read of the response says about the body.
LEMMA UnmarshalIsTrue ==
    ASSUME TypeOK
    PROVE  /\ Unmarshal \subseteq {"eof", "broken", "special", "message"}
           /\ "message" \in Unmarshal => body # <<>> /\ Head(body) \in Response
           /\ "special" \in Unmarshal => /\ Len(body) = 1 /\ body # <<>> /\ Head(body) = EndStream
                                         /\ bodyEnd = "eof"
           /\ "eof" \in Unmarshal => body = <<>> /\ bodyEnd = "eof"
<1>1. CASE body = <<>>
  <2>1. \/ bodyEnd = "open" /\ Unmarshal = {}
        \/ bodyEnd = "eof" /\ Unmarshal = {"eof"}
        \/ bodyEnd = "reset" /\ Unmarshal = {"broken"}
    BY <1>1 DEF TypeOK, Unmarshal
  <2> QED  BY <1>1, <2>1
<1>2. CASE body # <<>>
  <2>1. Head(body) \in Frame  BY <1>2, TailFacts DEF TypeOK
  <2>2. CASE Head(body) \in Response
    <3>1. Unmarshal = {"message", "broken"}
      BY <1>2, <2>2, FramesAreDistinct DEF Unmarshal
    <3> QED  BY <1>2, <2>2, <3>1
  <2>3. CASE Head(body) = Partial
    <3>1. Unmarshal = {"broken"}  BY <1>2, <2>3, FramesAreDistinct DEF Unmarshal
    <3> QED  BY <3>1
  <2>4. CASE Head(body) = EndStream
    <3>1. \/ Unmarshal \in {{}, {"broken"}}
          \/ Unmarshal = {"special"} /\ bodyEnd = "eof" /\ Len(body) = 1
      BY <1>2, <2>4, FramesAreDistinct DEF Unmarshal
    <3> QED  BY <1>2, <2>4, <3>1
  <2> QED  BY <2>1, <2>2, <2>3, <2>4 DEF Frame
<1> QED  BY <1>1, <1>2

\* While the handler runs, the client was told nothing or an error of its own.
LEMMA RunningIsUntold ==
    ASSUME ResponseInv, handler = "running"
    PROVE  /\ outcome = "none" /\ ended \in {"open", "local"} /\ ~endRead
           /\ head \notin {"error", "trailers"}
           /\ ~ConnectUnary => endVerdict = "none"
<1>1. outcome = "none" /\ (~ConnectUnary => endVerdict = "none") /\ head \notin {"error", "trailers"}
  BY DEF ResponseInv, EndIsHandlers
<1>2. ended \in {"open", "local", "ok"}  BY <1>1 DEF ResponseInv, ErrorIsHandlers
<1>3. ended # "ok" /\ ~endRead  BY DEF ResponseInv, ClientInOrder
<1> QED  BY <1>1, <1>2, <1>3

\* An end that was found is the handler's, and comes after every response.
LEMMA EndFoundIsTrue ==
    ASSUME ResponseInv, ended = "open", ~ConnectUnary, head \in {"ok", "trailers"},
           NEW read \in Unmarshal, EndFound(read)
    PROVE  /\ endVerdict # "none" /\ outcome \in Outcome /\ endVerdict = scrubHandlerError(outcome)
           /\ handler # "running"
           /\ read \in {"eof", "special"} => got = sent
<1>1. /\ read = "special" => /\ Len(body) = 1 /\ body # <<>> /\ Head(body) = EndStream /\ bodyEnd = "eof"
      /\ read = "eof" => body = <<>> /\ bodyEnd = "eof"
  BY UnmarshalIsTrue DEF ResponseInv
<1>2. got \in Seq(Response \cup {Zero}) /\ sent \in Seq(Response \cup {Zero}) /\ Len(got) \in Nat /\ Len(sent) \in Nat
  BY SeqMonotonic DEF ResponseInv, TypeOK
<1>3. ASSUME Len(got) = Len(sent)  PROVE got = sent
  <2>1. \A i \in 1..Len(got) : got[i] = sent[i]  BY DEF ResponseInv, InOrder
  <2> QED  BY <1>2, <1>3, <2>1, SeqEqual
<1>4. CASE read = "special"
  <2>1. body[1] = EndStream  BY <1>1, <1>4, TailFacts DEF ResponseInv, TypeOK
  <2>2. Len(got) + 1 = Len(sent) + 1 /\ handler # "running" /\ endVerdict # "none"
    BY <1>1, <1>4, <2>1 DEF ResponseInv, InOrder
  <2>3. Len(got) = Len(sent)  BY <1>2, <2>2
  <2> QED  BY <1>3, <2>2, <2>3 DEF ResponseInv, EndIsHandlers, TypeOK
<1>5. CASE protocol = "grpc" /\ read # "special"
  <2>1. bodyEnd = "eof" /\ ~cut  BY <1>5 DEF EndFound
  <2>2. handler = "done"  BY <2>1 DEF ResponseInv, ServerInOrder
  <2>3. endVerdict # "none"  BY <1>5, <2>1, <2>2 DEF ResponseInv, EndIsHandlers
  <2>4. read = "eof" => Len(got) = Len(sent)
    <3>1. read = "eof" => Len(got) + Len(body) = Len(sent) /\ Len(body) = 0
      BY <1>1, <1>5, <2>1 DEF ResponseInv, InOrder
    <3> QED  BY <1>2, <3>1
  <2> QED  BY <1>3, <1>5, <2>2, <2>3, <2>4 DEF ResponseInv, EndIsHandlers, TypeOK
<1>6. CASE protocol # "grpc" /\ read # "special"
  <2>1. read = "eof" /\ got = <<>> /\ head = "trailers"
    BY <1>6 DEF EndFound, ResponseInv, TypeOK
  <2>2. sent = <<>> /\ handler # "running" /\ endVerdict # "none"
    BY <2>1 DEF ResponseInv, EndIsHandlers
  <2> QED  BY <2>1, <2>2 DEF ResponseInv, EndIsHandlers, TypeOK
<1> QED  BY <1>4, <1>5, <1>6

-----------------------------------------------------------------------------
(* The server's side of the response.                                      *)

\* Steps that only concern the request or the trailers.
LEMMA OtherStepsAreSound ==
    ResponseInv /\ UNCHANGED <<call, handler, outcome, sending, head, body, bodyEnd, cut, endVerdict,
                               crecv, got, ended, endRead, again>> => ResponseInv'
<1> SUFFICES ASSUME ResponseInv,
                    UNCHANGED <<call, handler, outcome, sending, head, body, bodyEnd, cut, endVerdict,
                                crecv, got, ended, endRead, again>>
             PROVE  ResponseInv'
  OBVIOUS
<1>1. TypeOK'  BY DEF ResponseInv, TypeOK, call, sending
<1>2. InOrder'  BY DEF ResponseInv, InOrder, call, sending, ConnectUnary, Unary
<1>3. EndIsHandlers'  BY DEF ResponseInv, EndIsHandlers, call, sending, ConnectUnary, Unary
<1>4. ServerInOrder'  BY DEF ResponseInv, ServerInOrder, call, sending, ConnectUnary, Unary
<1>5. ClientInOrder'
  BY DEF ResponseInv, ClientInOrder, call, sending, ConnectUnary, Unary, SingleResponse
<1>6. SuccessIsComplete'
  BY DEF ResponseInv, SuccessIsComplete, call, sending, ConnectUnary, Unary, SingleResponse
<1>7. ErrorIsHandlers'  BY DEF ResponseInv, ErrorIsHandlers, call, SingleResponse
<1> QED  BY <1>1, <1>2, <1>3, <1>4, <1>5, <1>6, <1>7 DEF ResponseInv

\* A step of the server that tells the client nothing leaves what it was told
\* true, while the handler runs.
LEMMA UntoldIsSound ==
    ASSUME ResponseInv, handler = "running", outcome' \in Outcome \cup {"none"},
           UNCHANGED <<call, crecv, got, ended, endRead, again>>
    PROVE  ClientInOrder' /\ SuccessIsComplete' /\ ErrorIsHandlers'
<1>1. ended \in {"open", "local"} /\ ~endRead  BY RunningIsUntold
<1>2. ClientInOrder'
  BY <1>1 DEF ResponseInv, ClientInOrder, call, ConnectUnary, Unary, SingleResponse, Verdict
<1>3. SuccessIsComplete'  BY <1>1 DEF SuccessIsComplete
<1>4. ErrorIsHandlers'  BY <1>1 DEF ResponseInv, ErrorIsHandlers, call, SingleResponse, Verdict
<1> QED  BY <1>2, <1>3, <1>4

LEMMA SendIsSound == ResponseInv /\ HandlerSend => ResponseInv'
<1> SUFFICES ASSUME ResponseInv, HandlerSend  PROVE ResponseInv'
  OBVIOUS
<1>1. PICK tooBig \in BOOLEAN, written \in BOOLEAN :
         /\ written => ~tooBig
         /\ written \/ tooBig \/ cut
         /\ sent' = IF written THEN Append(sent, sends') ELSE sent
         /\ IF written THEN Write(sends') ELSE UNCHANGED body
         /\ IF ConnectUnary /\ tooBig
            THEN UNCHANGED <<head, wroteToBody, end>>
            ELSE /\ Commit("ok")
                 /\ wroteToBody' = TRUE
                 /\ endVerdict' = IF ConnectUnary THEN "ok" ELSE endVerdict
                 /\ endTrailer' = IF ConnectUnary THEN connTrailer' ELSE endTrailer
  BY DEF HandlerSend
<1>2. /\ handler = "running" /\ sends' = sends + 1
      /\ UNCHANGED <<call, handler, outcome, bodyEnd, cut, crecv, got, ended, endRead, again>>
  BY DEF HandlerSend, request, client
<1>3. /\ outcome = "none" /\ ended \in {"open", "local"} /\ head \notin {"error", "trailers"}
      /\ ~ConnectUnary => endVerdict = "none"
  BY <1>2, RunningIsUntold
<1>4. sends \in Nat /\ sends' \in Response /\ (ConnectUnary => sends = 0)
  BY <1>2, WireAssumption DEF HandlerSend, ResponseInv, TypeOK, Response
<1>5. \/ ~written /\ UNCHANGED <<sent, body>>
      \/ written /\ sent' = Append(sent, sends') /\ cut /\ UNCHANGED body
      \/ written /\ sent' = Append(sent, sends') /\ ~cut /\ body' = Append(body, sends')
  BY <1>1 DEF Write
<1>6. /\ \/ ConnectUnary /\ tooBig /\ UNCHANGED <<head, wroteToBody, endVerdict>>
         \/ /\ ~(ConnectUnary /\ tooBig) /\ wroteToBody' = TRUE
            /\ head' = IF head = "none" /\ ~cut THEN "ok" ELSE head
            /\ endVerdict' = IF ConnectUnary THEN "ok" ELSE endVerdict
      /\ head' \notin {"error", "trailers"}
      /\ ~ConnectUnary => endVerdict' = "none" /\ wroteToBody' = TRUE
  BY <1>1, <1>3 DEF Commit, end
<1>7. sent \in Seq(Response) /\ body \in Seq(Frame) /\ sends' \in Frame /\ Len(sent) \in Nat /\ Len(body) \in Nat
      /\ got \in Seq(Response \cup {Zero}) /\ Len(got) \in Nat
  BY <1>4, FramesAreDistinct DEF ResponseInv, TypeOK
<1>8. UNCHANGED <<protocol, streamType>> /\ ConnectUnary' = ConnectUnary
  BY <1>2 DEF call, ConnectUnary, Unary
<1>9. /\ Append(sent, sends') \in Seq(Response) /\ Len(Append(sent, sends')) = Len(sent) + 1
      /\ \A i \in 1..Len(sent) : Append(sent, sends')[i] = sent[i]
      /\ Append(sent, sends')[Len(sent) + 1] = sends' /\ Append(sent, sends') # <<>>
  BY <1>4, <1>7, AppendProperties
<1>10. /\ Append(body, sends') \in Seq(Frame) /\ Len(Append(body, sends')) = Len(body) + 1
       /\ \A i \in 1..Len(body) : Append(body, sends')[i] = body[i]
       /\ Append(body, sends')[Len(body) + 1] = sends'
  BY <1>4, <1>7, AppendProperties
<1>11. TypeOK'
  <2>1. sent' \in Seq(Response) /\ body' \in Seq(Frame)  BY <1>5, <1>7, <1>9, <1>10
  <2>2. wroteToBody' \in BOOLEAN /\ head' \in {"none", "ok", "trailers", "error", "refused"}
    BY <1>6 DEF ResponseInv, TypeOK
  <2>3. sends' \in Nat  BY <1>2, <1>4
  <2> QED  BY <1>2, <2>1, <2>2, <2>3 DEF ResponseInv, TypeOK, call
<1>12. InOrder'
  <2> SUFFICES ASSUME ended = "open"
               PROVE  /\ Len(got) <= Len(sent')
                      /\ \A i \in 1..Len(got) : got[i] = sent'[i]
                      /\ \A i \in 1..Len(body') :
                           /\ body'[i] \in Response =>
                                Len(got) + i <= Len(sent') /\ body'[i] = sent'[Len(got) + i]
                           /\ body'[i] # EndStream
                           /\ body'[i] = Partial => cut
                      /\ ~cut => Len(got) + Len(body') = Len(sent')
    BY <1>2, <1>8 DEF InOrder
  <2>1. /\ Len(got) <= Len(sent)
        /\ \A i \in 1..Len(got) : got[i] = sent[i]
        /\ \A i \in 1..Len(body) :
             /\ body[i] \in Response => Len(got) + i <= Len(sent) /\ body[i] = sent[Len(got) + i]
             /\ body[i] # EndStream
             /\ body[i] = Partial => cut
        /\ ~cut => Len(got) + Len(body) = Len(sent)
    BY <1>2 DEF ResponseInv, InOrder
  <2>2. CASE ~written /\ UNCHANGED <<sent, body>>  BY <2>1, <2>2
  <2>3. CASE sent' = Append(sent, sends') /\ cut /\ UNCHANGED body  BY <2>1, <2>3, <1>7, <1>9
  <2>4. CASE sent' = Append(sent, sends') /\ ~cut /\ body' = Append(body, sends')
    <3>1. Len(sent') = Len(sent) + 1 /\ Len(body') = Len(body) + 1  BY <2>4, <1>9, <1>10
    <3>2. Len(got) + Len(body) = Len(sent)  BY <2>1, <2>4
    <3>3. ASSUME NEW i \in 1..Len(body')
          PROVE  /\ body'[i] \in Response => Len(got) + i <= Len(sent') /\ body'[i] = sent'[Len(got) + i]
                 /\ body'[i] # EndStream /\ body'[i] # Partial
      <4>1. CASE i \in 1..Len(body)
        <5>1. body'[i] = body[i]  BY <2>4, <4>1, <1>10
        <5>2. Len(got) + i \in 1..Len(sent)  BY <4>1, <3>2, <1>7
        <5>3. sent'[Len(got) + i] = sent[Len(got) + i]  BY <2>4, <5>2, <1>9
        <5> QED  BY <2>1, <2>4, <3>1, <4>1, <5>1, <5>2, <5>3, <1>7
      <4>2. CASE i = Len(body) + 1
        <5>1. body'[i] = sends' /\ sent'[Len(sent) + 1] = sends'  BY <2>4, <4>2, <1>9, <1>10
        <5>2. Len(got) + i = Len(sent) + 1  BY <4>2, <3>2, <1>7
        <5> QED  BY <3>1, <5>1, <5>2, <1>4, <1>7, FramesAreDistinct
      <4> QED  BY <3>1, <4>1, <4>2, <1>7
    <3>4. Len(got) <= Len(sent') /\ Len(got) + Len(body') = Len(sent')
      <4>1. Len(got) \in Nat /\ Len(body) \in Nat /\ Len(sent) \in Nat  BY <1>7
      <4> QED  BY <3>1, <3>2, <4>1
    <3>5. \A i \in 1..Len(got) : got[i] = sent'[i]  BY <2>1, <2>4, <1>7, <1>9
    <3> QED  BY <3>3, <3>4, <3>5
  <2> QED  BY <1>5, <2>2, <2>3, <2>4
<1>13. EndIsHandlers'
  <2>1. ConnectUnary /\ head' = "ok" => sent' # <<>>
    <3> SUFFICES ASSUME ConnectUnary, head' = "ok"  PROVE sent' # <<>>
      OBVIOUS
    <3>1. CASE head = "ok"
      BY <1>3, <1>5, <1>9, <3>1 DEF ResponseInv, EndIsHandlers
    <3>2. CASE head # "ok"
      <4>1. ~cut /\ ~tooBig  BY <1>6, <3>2
      <4> QED  BY <1>1, <1>9, <4>1
    <3> QED  BY <3>1, <3>2
  <2> QED  BY <1>2, <1>3, <1>6, <1>8, <2>1 DEF EndIsHandlers
<1>14. ServerInOrder'
  <2>1. Len(sent) <= sends /\ (bodyEnd = "eof" /\ ~cut => handler = "done")
        /\ (ConnectUnary /\ bodyEnd = "eof" => ~cut)
    BY DEF ResponseInv, ServerInOrder
  <2>2. Len(sent') <= sends'  BY <1>2, <1>4, <1>5, <1>7, <1>9, <2>1
  <2>3. sends' # 0 /\ (ConnectUnary => sends' <= 1)  BY <1>2, <1>4
  <2> QED  BY <1>2, <1>6, <1>8, <2>1, <2>2, <2>3 DEF ServerInOrder
<1>15. ClientInOrder' /\ SuccessIsComplete' /\ ErrorIsHandlers'
  BY <1>2, <1>3, UntoldIsSound
<1> QED  BY <1>11, <1>12, <1>13, <1>14, <1>15 DEF ResponseInv

\* Close writes the end after every response, once, and with the verdict.
LEMMA CloseIsSound ==
    ASSUME ResponseInv, handler = "running", handler' = "closed", outcome' \in Outcome,
           NEW tr, NEW custom, Close(scrubHandlerError(outcome'), tr, custom),
           UNCHANGED <<call, sending, bodyEnd, cut, crecv, got, ended, endRead, again>>
    PROVE  ResponseInv'
<1> DEFINE v == scrubHandlerError(outcome')
<1>1. v \in Verdict /\ (v = "ok" <=> outcome' = "nil") /\ v # "none" /\ outcome' # "none"
  BY ScrubIsVerdict DEF Outcome
<1>2. /\ outcome = "none" /\ ended \in {"open", "local"} /\ head \notin {"error", "trailers"}
      /\ ~ConnectUnary => endVerdict = "none"
  BY RunningIsUntold
<1>3. UNCHANGED <<protocol, streamType, endLimit, sends, sent, wroteToBody>> /\ ConnectUnary' = ConnectUnary
  BY DEF call, sending, ConnectUnary, Unary
<1>4. \/ ConnectUnary /\ wroteToBody /\ UNCHANGED <<head, body, endVerdict>>
      \/ /\ ConnectUnary /\ ~wroteToBody /\ UNCHANGED body /\ endVerdict' = v
         /\ head' = IF head = "none" /\ ~cut THEN (IF v = "ok" THEN "ok" ELSE "error") ELSE head
      \/ /\ ~ConnectUnary /\ protocol = "grpc" /\ UNCHANGED body /\ endVerdict' = v
         /\ head' = IF head = "none" /\ ~cut THEN "ok" ELSE head
      \/ /\ ~ConnectUnary /\ protocol = "grpcweb" /\ ~wroteToBody /\ UNCHANGED body /\ endVerdict' = v
         /\ head' = IF head = "none" /\ ~cut THEN "trailers" ELSE head
      \/ /\ ~ConnectUnary /\ protocol # "grpc" /\ UNCHANGED <<body, endVerdict>>
         /\ head' = IF head = "none" /\ ~cut THEN "ok" ELSE head
      \/ /\ ~ConnectUnary /\ protocol # "grpc" /\ endVerdict' = v
         /\ body' = IF cut THEN body ELSE Append(body, EndStream)
         /\ head' = IF head = "none" /\ ~cut THEN "ok" ELSE head
  <2>1. CASE ConnectUnary
    <3>1. CloseUnary(v, tr)  BY <2>1 DEF Close, ConnectUnary
    <3> QED  BY <2>1, <3>1 DEF CloseUnary, Commit, end
  <2>2. CASE ~ConnectUnary /\ (protocol = "grpc" \/ (protocol = "grpcweb" /\ ~wroteToBody /\ ~custom))
    <3>1. /\ Commit(IF protocol = "grpc" THEN "ok" ELSE "trailers")
          /\ endVerdict' = v /\ UNCHANGED body
      BY <2>2 DEF Close
    <3> QED  BY <2>2, <3>1 DEF Commit
  <2>3. CASE ~ConnectUnary /\ ~(protocol = "grpc" \/ (protocol = "grpcweb" /\ ~wroteToBody /\ ~custom))
    <3>1. CloseEndStream(v, tr)  BY <2>3 DEF Close
    <3>2. CASE endLimit = "send"
      BY <2>3, <3>1, <3>2 DEF CloseEndStream, Commit, end
    <3>3. CASE endLimit # "send"
      BY <2>3, <3>1, <3>3 DEF CloseEndStream, Commit, Write
    <3> QED  BY <3>2, <3>3
  <2> QED  BY <2>1, <2>2, <2>3
<1> HIDE DEF v
<1>5. sent \in Seq(Response) /\ body \in Seq(Frame) /\ Len(sent) \in Nat /\ Len(body) \in Nat
      /\ got \in Seq(Response \cup {Zero}) /\ Len(got) \in Nat
  BY DEF ResponseInv, TypeOK
<1>6. /\ Append(body, EndStream) \in Seq(Frame) /\ Len(Append(body, EndStream)) = Len(body) + 1
      /\ \A i \in 1..Len(body) : Append(body, EndStream)[i] = body[i]
      /\ Append(body, EndStream)[Len(body) + 1] = EndStream
  BY <1>5, FramesAreDistinct, AppendProperties
<1>7. TypeOK'
  <2>1. body' \in Seq(Frame)  BY <1>4, <1>5, <1>6
  <2>2. head' \in {"none", "ok", "trailers", "error", "refused"}  BY <1>4 DEF ResponseInv, TypeOK
  <2> QED  BY <1>3, <2>1, <2>2 DEF ResponseInv, TypeOK
<1>8. InOrder'
  <2>1. SUFFICES ASSUME ended = "open"
                 PROVE  /\ Len(got) <= Len(sent)
                        /\ \A i \in 1..Len(got) : got[i] = sent[i]
                        /\ \A i \in 1..Len(body') :
                             /\ body'[i] \in Response =>
                                  Len(got) + i <= Len(sent) /\ body'[i] = sent[Len(got) + i]
                             /\ body'[i] = EndStream =>
                                  /\ i = Len(body') /\ Len(got) + i = Len(sent) + 1
                                  /\ protocol # "grpc" /\ ~ConnectUnary /\ endVerdict' # "none"
                             /\ body'[i] = Partial => cut
                        /\ ~cut /\ (protocol = "grpc" \/ ConnectUnary) =>
                             Len(got) + Len(body') = Len(sent)
    BY <1>3 DEF InOrder
  <2>2. /\ Len(got) <= Len(sent)
        /\ \A i \in 1..Len(got) : got[i] = sent[i]
        /\ \A i \in 1..Len(body) :
             /\ body[i] \in Response => Len(got) + i <= Len(sent) /\ body[i] = sent[Len(got) + i]
             /\ body[i] # EndStream
             /\ body[i] = Partial => cut
        /\ ~cut => Len(got) + Len(body) = Len(sent)
    BY <2>1 DEF ResponseInv, InOrder
  <2>3. CASE UNCHANGED body  BY <2>2, <2>3
  <2>4. CASE /\ ~ConnectUnary /\ protocol # "grpc" /\ endVerdict' = v /\ ~cut
             /\ body' = Append(body, EndStream)
    <3>1. Len(body') = Len(body) + 1 /\ Len(got) + Len(body) = Len(sent)  BY <2>2, <2>4, <1>6
    <3>2. ASSUME NEW i \in 1..Len(body')
          PROVE  /\ body'[i] \in Response => Len(got) + i <= Len(sent) /\ body'[i] = sent[Len(got) + i]
                 /\ body'[i] = EndStream => i = Len(body') /\ Len(got) + i = Len(sent) + 1
                 /\ body'[i] # Partial
      <4>1. CASE i \in 1..Len(body)  BY <2>2, <2>4, <4>1, <1>6
      <4>2. CASE i = Len(body) + 1
        <5>1. body'[i] = EndStream  BY <2>4, <4>2, <1>6
        <5>2. i = Len(body') /\ Len(got) + i = Len(sent) + 1  BY <3>1, <4>2, <1>5
        <5> QED  BY <5>1, <5>2, FramesAreDistinct
      <4> QED  BY <3>1, <4>1, <4>2, <1>5
    <3> QED  BY <1>1, <2>2, <2>4, <3>2
  <2> QED  BY <1>4, <2>3, <2>4
<1>9. EndIsHandlers'
  <2>1. ~ConnectUnary /\ endVerdict' # "none" => endVerdict' = v  BY <1>2, <1>4
  <2>2. protocol = "grpc" => endVerdict' = v
    BY <1>4 DEF ConnectUnary
  <2>3. head' = "error" => ConnectUnary /\ outcome' \notin {"none", "nil"} /\ endVerdict' = v
    BY <1>1, <1>2, <1>4
  <2>4. head' = "trailers" => sent = <<>> /\ endVerdict' # "none" /\ ~ConnectUnary
    <3>1. ~ConnectUnary /\ ~wroteToBody => sent = <<>>
      <4>1. sends \in Nat /\ (sends = 0 => sent = <<>>) /\ (~ConnectUnary /\ sends > 0 => wroteToBody)
        BY DEF ResponseInv, TypeOK, ServerInOrder
      <4> QED  BY <4>1
    <3> QED  BY <1>1, <1>2, <1>4, <3>1
  <2>5. ConnectUnary /\ head' = "ok" => sent # <<>> \/ outcome' = "nil"
    <3>1. ConnectUnary /\ head = "ok" => sent # <<>>  BY <1>2 DEF ResponseInv, EndIsHandlers
    <3> QED  BY <1>1, <1>4, <3>1
  <2> QED  BY <1>1, <1>3, <2>1, <2>2, <2>3, <2>4, <2>5 DEF EndIsHandlers, v
<1>10. ServerInOrder'  BY <1>3 DEF ResponseInv, ServerInOrder
<1>11. ClientInOrder' /\ SuccessIsComplete' /\ ErrorIsHandlers'  BY UntoldIsSound
<1> QED  BY <1>7, <1>8, <1>9, <1>10, <1>11 DEF ResponseInv

LEMMA CloseStepsAreSound == ResponseInv /\ (RejectCall \/ HandlerReturns) => ResponseInv'
<1> SUFFICES ASSUME ResponseInv, RejectCall \/ HandlerReturns  PROVE ResponseInv'
  OBVIOUS
<1>1. CASE RejectCall
  <2>1. /\ handler = "running" /\ handler' = "closed" /\ outcome' = "coded"
        /\ Close("coded", FALSE, FALSE)
        /\ UNCHANGED <<call, sending, bodyEnd, cut, crecv, got, ended, endRead, again>>
    BY <1>1 DEF RejectCall, request, client
  <2>2. outcome' \in Outcome /\ scrubHandlerError(outcome') = "coded"
    BY <2>1 DEF Outcome, scrubHandlerError
  <2>3. Close(scrubHandlerError(outcome'), FALSE, FALSE)  BY <2>1, <2>2
  <2> QED  BY <2>1, <2>2, <2>3, CloseIsSound
<1>2. CASE HandlerReturns
  <2>1. /\ handler = "running" /\ handler' = "closed" /\ outcome' \in Outcome
        /\ UNCHANGED <<call, sending, bodyEnd, cut, crecv, got, ended, endRead, again>>
    BY <1>2 DEF HandlerReturns, request, client
  <2>2. PICK custom \in BOOLEAN : Close(scrubHandlerError(outcome'), connTrailer', custom)
    BY <1>2 DEF HandlerReturns
  <2> QED  BY <2>1, <2>2, CloseIsSound
<1> QED  BY <1>1, <1>2

\* The response ends, with a connection that was closed or without one.
LEMMA ResponseEndIsSound == ResponseInv /\ (RefuseRequest \/ ServerEndsResponse) => ResponseInv'
<1> SUFFICES ASSUME ResponseInv, RefuseRequest \/ ServerEndsResponse  PROVE ResponseInv'
  OBVIOUS
<1>1. /\ UNCHANGED <<call, outcome, sending, body, cut, endVerdict, crecv, got, ended, endRead, again>>
      /\ handler' = "done" /\ bodyEnd' = (IF cut THEN bodyEnd ELSE "eof")
      /\ \/ /\ handler = "running" /\ sends = 0
            /\ head' = IF head = "none" /\ ~cut THEN "refused" ELSE head
         \/ handler = "closed" /\ UNCHANGED head
  BY DEF RefuseRequest, ServerEndsResponse, request, client, end, Commit
<1>2. UNCHANGED <<protocol, streamType, endLimit, sends, sent, wroteToBody>> /\ ConnectUnary' = ConnectUnary
      /\ SingleResponse' = SingleResponse
  BY <1>1 DEF call, sending, ConnectUnary, Unary, SingleResponse
<1>3. TypeOK'  BY <1>1, <1>2 DEF ResponseInv, TypeOK
<1>4. InOrder'  BY <1>1, <1>2 DEF ResponseInv, InOrder
<1>5. EndIsHandlers'
  <2>1. handler = "running" /\ sends = 0 => head = "none"  BY DEF ResponseInv, ServerInOrder
  <2> QED  BY <1>1, <1>2, <2>1 DEF ResponseInv, EndIsHandlers
<1>6. ServerInOrder'  BY <1>1, <1>2 DEF ResponseInv, ServerInOrder
<1>7. ClientInOrder'  BY <1>1, <1>2 DEF ResponseInv, ClientInOrder
<1>8. SuccessIsComplete'  BY <1>1, <1>2 DEF ResponseInv, SuccessIsComplete
<1>9. ErrorIsHandlers'  BY <1>1, <1>2 DEF ResponseInv, ErrorIsHandlers
<1> QED  BY <1>3, <1>4, <1>5, <1>6, <1>7, <1>8, <1>9 DEF ResponseInv

\* Breaking off takes away the last of the body, and makes up no end.
LEMMA BreakingOffIsSound ==
    ASSUME ResponseInv, NEW how \in {"eof", "reset"}, ConnectUnary => how = "reset", BreaksOff(how),
           handler' = handler \/ (handler = "running" /\ handler' = "aborted"),
           UNCHANGED <<call, outcome, sending, crecv, got, ended, endRead, again>>
    PROVE  ResponseInv'
<1>1. PICK n \in 0..Len(body) :
         \/ body' = SubSeq(body, 1, n)
         \/ n < Len(body) /\ body' = Append(SubSeq(body, 1, n), Partial)
  BY DEF BreaksOff
<1>2. cut' = TRUE /\ bodyEnd' = how /\ UNCHANGED <<head, endVerdict>>  BY DEF BreaksOff, end
<1>3. UNCHANGED <<protocol, streamType, endLimit, sends, sent, wroteToBody>> /\ ConnectUnary' = ConnectUnary
      /\ SingleResponse' = SingleResponse
  BY DEF call, sending, ConnectUnary, Unary, SingleResponse
<1>4. body \in Seq(Frame) /\ Len(body) \in Nat /\ n \in Nat  BY DEF ResponseInv, TypeOK
<1>5. /\ SubSeq(body, 1, n) \in Seq(Frame) /\ Len(SubSeq(body, 1, n)) = n
      /\ \A i \in 1..n : SubSeq(body, 1, n)[i] = body[i]
  BY <1>4, SubSeqFacts
<1>6. /\ Append(SubSeq(body, 1, n), Partial) \in Seq(Frame)
      /\ Len(Append(SubSeq(body, 1, n), Partial)) = n + 1
      /\ \A i \in 1..n : Append(SubSeq(body, 1, n), Partial)[i] = SubSeq(body, 1, n)[i]
      /\ Append(SubSeq(body, 1, n), Partial)[n + 1] = Partial
  BY <1>5, FramesAreDistinct, AppendFacts
<1>7. /\ body' \in Seq(Frame)
      /\ \/ Len(body') = n /\ \A i \in 1..n : body'[i] = body[i]
         \/ /\ n < Len(body) /\ Len(body') = n + 1
            /\ (\A i \in 1..n : body'[i] = body[i]) /\ body'[n + 1] = Partial
  BY <1>1, <1>5, <1>6
<1>8. TypeOK'  BY <1>2, <1>3, <1>7 DEF ResponseInv, TypeOK
<1>9. InOrder'
  <2>1. SUFFICES ASSUME ended = "open", NEW i \in 1..Len(body')
                 PROVE  /\ body'[i] \in Response =>
                             Len(got) + i <= Len(sent) /\ body'[i] = sent[Len(got) + i]
                        /\ body'[i] = EndStream =>
                             /\ i = Len(body') /\ Len(got) + i = Len(sent) + 1
                             /\ handler # "running" /\ protocol # "grpc" /\ ~ConnectUnary
                             /\ endVerdict # "none"
    BY <1>2, <1>3 DEF ResponseInv, InOrder
  <2>2. CASE i \in 1..n
    <3>1. body'[i] = body[i] /\ i \in 1..Len(body)  BY <1>4, <1>7, <2>2
    <3>2. /\ body[i] \in Response => Len(got) + i <= Len(sent) /\ body[i] = sent[Len(got) + i]
          /\ body[i] = EndStream =>
               /\ i = Len(body) /\ Len(got) + i = Len(sent) + 1
               /\ handler # "running" /\ protocol # "grpc" /\ ~ConnectUnary /\ endVerdict # "none"
      BY <2>1, <3>1 DEF ResponseInv, InOrder
    <3>3. i = Len(body) => Len(body') = i  BY <1>4, <1>7, <2>2
    <3> QED  BY <3>1, <3>2, <3>3
  <2>3. CASE i \notin 1..n
    <3>1. body'[i] = Partial  BY <1>4, <1>7, <2>1, <2>3
    <3> QED  BY <3>1, FramesAreDistinct
  <2> QED  BY <2>2, <2>3
<1>10. EndIsHandlers'  BY <1>2, <1>3 DEF ResponseInv, EndIsHandlers
<1>11. ServerInOrder'  BY <1>2, <1>3 DEF ResponseInv, ServerInOrder
<1>12. ClientInOrder'  BY <1>2, <1>3 DEF ResponseInv, ClientInOrder
<1>13. SuccessIsComplete'  BY <1>3 DEF ResponseInv, SuccessIsComplete
<1>14. ErrorIsHandlers'  BY <1>3 DEF ResponseInv, ErrorIsHandlers
<1> QED  BY <1>8, <1>9, <1>10, <1>11, <1>12, <1>13, <1>14 DEF ResponseInv

LEMMA FaultsAreSound == ResponseInv /\ (HandlerPanics \/ ConnectionLost) => ResponseInv'
<1> SUFFICES ASSUME ResponseInv, HandlerPanics \/ ConnectionLost  PROVE ResponseInv'
  OBVIOUS
<1>1. CASE ConnectionLost
  <2>1. PICK how \in IF ConnectUnary THEN {"reset"} ELSE {"eof", "reset"} : BreaksOff(how)
    BY <1>1 DEF ConnectionLost
  <2>2. how \in {"eof", "reset"} /\ (ConnectUnary => how = "reset")  BY <2>1
  <2>3. UNCHANGED <<call, handler, outcome, sending, crecv, got, ended, endRead, again>>
    BY <1>1 DEF ConnectionLost, client
  <2> QED  BY <2>1, <2>2, <2>3, BreakingOffIsSound
<1>2. CASE HandlerPanics /\ ~cut
  <2>1. /\ BreaksOff("reset") /\ handler = "running" /\ handler' = "aborted"
        /\ UNCHANGED <<call, outcome, sending, crecv, got, ended, endRead, again>>
    BY <1>2 DEF HandlerPanics, request, client
  <2> QED  BY <2>1, BreakingOffIsSound
<1>3. CASE HandlerPanics /\ cut
  <2>1. /\ handler = "running" /\ handler' = "aborted"
        /\ UNCHANGED <<call, outcome, sending, head, body, bodyEnd, cut, endVerdict,
                       crecv, got, ended, endRead, again>>
    BY <1>3 DEF HandlerPanics, request, client, response, end
  <2>2. UNCHANGED <<protocol, streamType, endLimit, sends, sent, wroteToBody>> /\ ConnectUnary' = ConnectUnary
        /\ SingleResponse' = SingleResponse
    BY <2>1 DEF call, sending, ConnectUnary, Unary, SingleResponse
  <2>3. TypeOK'  BY <2>1, <2>2 DEF ResponseInv, TypeOK
  <2>4. InOrder'  BY <1>3, <2>1, <2>2 DEF ResponseInv, InOrder
  <2>5. EndIsHandlers'  BY <2>1, <2>2 DEF ResponseInv, EndIsHandlers
  <2>6. ServerInOrder'  BY <1>3, <2>1, <2>2 DEF ResponseInv, ServerInOrder
  <2>7. ClientInOrder'  BY <2>1, <2>2 DEF ResponseInv, ClientInOrder
  <2>8. SuccessIsComplete'  BY <2>1, <2>2 DEF ResponseInv, SuccessIsComplete
  <2>9. ErrorIsHandlers'  BY <2>1, <2>2 DEF ResponseInv, ErrorIsHandlers
  <2> QED  BY <2>3, <2>4, <2>5, <2>6, <2>7, <2>8, <2>9 DEF ResponseInv
<1> QED  BY <1>1, <1>2, <1>3

-----------------------------------------------------------------------------
(* The client's side of the response.                                      *)

\* A step of the client changes nothing of the server's.
LEMMA ClientStepsKeepServer ==
    ASSUME ResponseInv, UNCHANGED <<call, handler, outcome, sending, head, bodyEnd, cut, endVerdict>>
    PROVE  EndIsHandlers' /\ ServerInOrder'
<1>1. EndIsHandlers'  BY DEF ResponseInv, EndIsHandlers, call, sending, ConnectUnary, Unary
<1>2. ServerInOrder'  BY DEF ResponseInv, ServerInOrder, call, sending, ConnectUnary, Unary
<1> QED  BY <1>1, <1>2

LEMMA ReceiveMessageIsSound == ResponseInv /\ ReceiveMessage => ResponseInv'
<1> SUFFICES ASSUME ResponseInv, ReceiveMessage  PROVE ResponseInv'
  OBVIOUS
<1>1. /\ UNCHANGED <<call, handler, outcome, sending, head, bodyEnd, cut, endVerdict, endRead, again>>
      /\ ended = "open" /\ ~ConnectUnary /\ got' = Append(got, Head(body)) /\ body' = Tail(body)
      /\ \/ ~SingleResponse /\ UNCHANGED <<crecv, ended>>
         \/ SingleResponse /\ crecv = "idle" /\ crecv' = "second" /\ UNCHANGED ended
         \/ SingleResponse /\ crecv = "second" /\ crecv' = "idle" /\ ended' = "local"
  BY DEF ReceiveMessage, request, end
<1>2. body # <<>> /\ Head(body) \in Response
  BY UnmarshalIsTrue DEF ReceiveMessage, ResponseInv
<1>3. UNCHANGED <<protocol, streamType, endLimit, sends, sent, wroteToBody>> /\ ConnectUnary' = ConnectUnary
      /\ SingleResponse' = SingleResponse
  BY <1>1 DEF call, sending, ConnectUnary, Unary, SingleResponse
<1>4. body \in Seq(Frame) /\ got \in Seq(Response \cup {Zero}) /\ Len(got) \in Nat /\ Len(sent) \in Nat
  BY DEF ResponseInv, TypeOK
<1>5. /\ body' \in Seq(Frame) /\ Len(body') = Len(body) - 1 /\ Len(body) \in Nat \ {0}
      /\ \A i \in 1..Len(body) - 1 : body'[i] = body[i + 1]
      /\ Head(body) = body[1]
  BY <1>1, <1>2, <1>4, TailFacts
<1>6. /\ got' \in Seq(Response \cup {Zero}) /\ Len(got') = Len(got) + 1
      /\ \A i \in 1..Len(got) : got'[i] = got[i]
      /\ got'[Len(got) + 1] = Head(body)
  BY <1>1, <1>2, <1>4, AppendFacts
<1>7. TypeOK'  BY <1>1, <1>3, <1>5, <1>6 DEF ResponseInv, TypeOK
<1>8. InOrder'
  <2>1. /\ Len(got) <= Len(sent)
        /\ \A i \in 1..Len(got) : got[i] = sent[i]
        /\ \A i \in 1..Len(body) :
             /\ body[i] \in Response => Len(got) + i <= Len(sent) /\ body[i] = sent[Len(got) + i]
             /\ body[i] = EndStream =>
                  /\ i = Len(body) /\ Len(got) + i = Len(sent) + 1
                  /\ handler # "running" /\ protocol # "grpc" /\ ~ConnectUnary /\ endVerdict # "none"
             /\ body[i] = Partial => cut
        /\ ~cut /\ (protocol = "grpc" \/ ConnectUnary \/ handler = "running") =>
             Len(got) + Len(body) = Len(sent)
    BY <1>1 DEF ResponseInv, InOrder
  <2>2. Len(got) + 1 <= Len(sent) /\ body[1] = sent[Len(got) + 1]
    BY <1>2, <1>5, <2>1
  <2>3. Len(got') <= Len(sent)  BY <1>6, <2>2
  <2>4. \A i \in 1..Len(got') : got'[i] = sent[i]  BY <1>4, <1>5, <1>6, <2>1, <2>2
  <2>5. ASSUME NEW i \in 1..Len(body')
        PROVE  /\ body'[i] \in Response => Len(got') + i <= Len(sent) /\ body'[i] = sent[Len(got') + i]
               /\ body'[i] = EndStream =>
                    /\ i = Len(body') /\ Len(got') + i = Len(sent) + 1
                    /\ handler # "running" /\ protocol # "grpc" /\ ~ConnectUnary /\ endVerdict # "none"
               /\ body'[i] = Partial => cut
    <3>1. i + 1 \in 1..Len(body) /\ body'[i] = body[i + 1] /\ Len(got') + i = Len(got) + (i + 1)
      BY <1>4, <1>5, <1>6
    <3>2. i + 1 = Len(body) => i = Len(body')  BY <1>5
    <3> QED  BY <2>1, <3>1, <3>2
  <2>6. ~cut /\ (protocol = "grpc" \/ ConnectUnary \/ handler = "running") =>
             Len(got') + Len(body') = Len(sent)
    <3>1. Len(got') + Len(body') = Len(got) + Len(body)  BY <1>4, <1>5, <1>6
    <3> QED  BY <2>1, <3>1
  <2> QED  BY <1>1, <1>3, <2>3, <2>4, <2>5, <2>6 DEF InOrder
<1>9. EndIsHandlers' /\ ServerInOrder'  BY <1>1, ClientStepsKeepServer
<1>10. ended' \in {"open", "local"} /\ again = <<>> /\ ~endRead
  BY <1>1 DEF ResponseInv, ClientInOrder
<1>11. ClientInOrder'
  <2>1. SingleResponse => Len(got) = (IF crecv = "second" THEN 1 ELSE 0)
    BY <1>1 DEF ResponseInv, ClientInOrder
  <2>2. ended' = "open" /\ SingleResponse => Len(got') = 1 /\ crecv' = "second"
    BY <1>1, <1>6, <2>1
  <2> QED  BY <1>1, <1>3, <1>10, <2>2 DEF ClientInOrder, Verdict
<1>12. SuccessIsComplete'  BY <1>10 DEF SuccessIsComplete
<1>13. ErrorIsHandlers'  BY <1>1, <1>10 DEF ErrorIsHandlers
<1> QED  BY <1>7, <1>8, <1>9, <1>11, <1>12, <1>13 DEF ResponseInv

LEMMA ReceiveEndIsSound == ResponseInv /\ ReceiveEnd => ResponseInv'
<1> SUFFICES ASSUME ResponseInv, ReceiveEnd  PROVE ResponseInv'
  OBVIOUS
<1>1. PICK read \in Unmarshal \ {"message"} :
         /\ protocol = "grpc" => bodyEnd # "open"
         /\ Ends(ConnReceive(read))
         /\ endRead' = EndFound(read)
         /\ Merge(endRead')
  BY DEF ReceiveEnd
<1>2. /\ ended = "open" /\ ~ConnectUnary /\ head \in {"ok", "trailers"} /\ crecv' = "idle"
      /\ UNCHANGED <<call, handler, outcome, sending, head, body, bodyEnd, cut, endVerdict, got, again>>
  BY <1>1 DEF ReceiveEnd, request, response, end, Ends
<1>3. UNCHANGED <<protocol, streamType, endLimit, sends, sent, wroteToBody>> /\ ConnectUnary' = ConnectUnary
      /\ SingleResponse' = SingleResponse
  BY <1>2 DEF call, sending, ConnectUnary, Unary, SingleResponse
<1>4. EndFound(read) => /\ endVerdict # "none" /\ outcome \in Outcome /\ outcome # "none"
                        /\ endVerdict = scrubHandlerError(outcome) /\ endVerdict \in Verdict
                        /\ (endVerdict = "ok" => outcome = "nil")
                        /\ handler # "running" /\ (read \in {"eof", "special"} => got = sent)
  BY <1>1, <1>2, EndFoundIsTrue, ScrubIsVerdict DEF Outcome
<1>5. endRead' \in BOOLEAN /\ (endRead' <=> EndFound(read))
  BY <1>1, Zenon DEF EndFound, ResponseInv, TypeOK
<1>6. \/ /\ EndFound(read) /\ (endVerdict = "ok" => read \in {"eof", "special"})
         /\ ended' = IF SingleResponse /\ endVerdict = "ok" /\ crecv = "idle" THEN "local" ELSE endVerdict
      \/ ended' = "local" /\ (EndFound(read) => endVerdict = "ok")
  BY <1>1 DEF Ends, ConnReceive
<1>7. again = <<>> /\ (SingleResponse => Len(got) = (IF crecv = "second" THEN 1 ELSE 0))
      /\ crecv \in {"idle", "second"}
  BY <1>2 DEF ResponseInv, ClientInOrder, TypeOK
<1>8. ended' # "open" /\ ended' \in Verdict \cup {"local"}  BY <1>4, <1>6 DEF Verdict
<1>9. TypeOK'  BY <1>2, <1>3, <1>5 DEF ResponseInv, TypeOK
<1>10. InOrder'  BY <1>8 DEF InOrder
<1>11. EndIsHandlers' /\ ServerInOrder'  BY <1>2, ClientStepsKeepServer
<1>12. ended' = "ok" => EndFound(read) /\ endVerdict = "ok" /\ read \in {"eof", "special"}
                        /\ (SingleResponse => crecv = "second")
  BY <1>6, <1>7
<1>13. ClientInOrder'
  <2>1. ~SingleResponse =>
          IF ended' \in Verdict \ {"ok"} THEN endRead' /\ endVerdict = ended'
          ELSE ~(endRead' /\ endVerdict # "ok")
    BY <1>4, <1>5, <1>6 DEF Verdict
  <2>2. (ended' = "ok" => handler # "running") /\ (endRead' => endVerdict # "none" /\ handler # "running")
    BY <1>4, <1>5, <1>12
  <2> QED  BY <1>2, <1>3, <1>8, <2>1, <2>2 DEF ClientInOrder
<1>14. SuccessIsComplete'
  <2>1. ended' = "ok" => outcome = "nil" /\ got = sent /\ (SingleResponse => Len(got) = 1)
    BY <1>4, <1>7, <1>12
  <2> QED  BY <1>2, <1>3, <2>1 DEF SuccessIsComplete
<1>15. ErrorIsHandlers'
  <2>1. ended' \notin {"open", "local", "ok"} =>
          outcome # "none" /\ ended' \in Verdict /\ ended' = scrubHandlerError(outcome)
    BY <1>4, <1>6
  <2>2. outcome' = outcome /\ scrubHandlerError(outcome') = scrubHandlerError(outcome) /\ again' = <<>>
    BY <1>2, <1>7
  <2> QED  BY <2>1, <2>2 DEF ErrorIsHandlers
<1> QED  BY <1>9, <1>10, <1>11, <1>13, <1>14, <1>15 DEF ResponseInv

\* A Connect unary body that arrived whole is the one response that was sent.
LEMMA UnaryBodyIsResponse ==
    ASSUME ResponseInv, ended = "open", ConnectUnary, head = "ok", bodyEnd = "eof"
    PROVE  /\ handler = "done"
           /\ body = <<>> => sent = <<>> /\ outcome = "nil"
           /\ body # <<>> => sent # <<>> /\ <<Head(body)>> = sent
<1>1. ~cut /\ handler = "done" /\ sends <= 1 /\ Len(sent) <= sends /\ sends \in Nat
  BY DEF ResponseInv, ServerInOrder, TypeOK
<1>2. Len(got) = 0
  BY DEF ResponseInv, ClientInOrder, ConnectUnary, Unary, SingleResponse
<1>3. sent \in Seq(Response) /\ body \in Seq(Frame) /\ Len(sent) \in Nat /\ Len(body) \in Nat
  BY DEF ResponseInv, TypeOK
<1>4. Len(body) = Len(sent) /\ Len(sent) <= 1
  <2>1. Len(got) + Len(body) = Len(sent)  BY <1>1 DEF ResponseInv, InOrder
  <2> QED  BY <1>1, <1>2, <1>3, <2>1
<1>5. CASE body = <<>>
  <2>1. sent = <<>>  BY <1>3, <1>4, <1>5, EmptySeq
  <2> QED  BY <1>1, <1>5, <2>1 DEF ResponseInv, EndIsHandlers
<1>6. CASE body # <<>>
  <2>1. Len(body) = 1 /\ Len(sent) = 1 /\ Head(body) = body[1] /\ body[1] \in Frame
    BY <1>3, <1>4, <1>6, TailFacts
  <2>2. /\ body[1] \in Response => body[1] = sent[Len(got) + 1]
        /\ body[1] # EndStream /\ body[1] # Partial
    BY <1>1, <2>1 DEF ResponseInv, InOrder
  <2>3. body[1] \in Response /\ body[1] = sent[1]  BY <1>2, <2>1, <2>2 DEF Frame
  <2>4. <<Head(body)>> = sent  BY <1>3, <2>1, <2>3
  <2> QED  BY <1>1, <1>6, <2>1, <2>4
<1> QED  BY <1>5, <1>6

\* The client is told the end of a call with a single response or an error of
\* its own: nothing else has to be shown than what it was told.
LEMMA ToldIsSound ==
    ASSUME ResponseInv, ended = "open", ended' \in Verdict \cup {"local"},
           ended' # "local" => ConnectUnary /\ handler # "running",
           got' \in Seq(Response \cup {Zero}),
           UNCHANGED <<call, handler, outcome, sending, head, body, bodyEnd, cut, endVerdict, crecv,
                       endRead, again>>
    PROVE  /\ TypeOK' /\ InOrder' /\ EndIsHandlers' /\ ServerInOrder' /\ ClientInOrder'
           /\ ConnectUnary' = ConnectUnary /\ SingleResponse' = SingleResponse /\ again' = <<>>
           /\ scrubHandlerError(outcome') = scrubHandlerError(outcome)
<1>1. UNCHANGED <<protocol, streamType, endLimit, sends, sent, wroteToBody>> /\ ConnectUnary' = ConnectUnary
      /\ SingleResponse' = SingleResponse
  BY DEF call, sending, ConnectUnary, Unary, SingleResponse
<1>2. ended' # "open"  BY DEF Verdict
<1>3. again = <<>> /\ ~endRead  BY DEF ResponseInv, ClientInOrder
<1>4. TypeOK'  BY <1>1 DEF ResponseInv, TypeOK
<1>5. InOrder'  BY <1>2 DEF InOrder
<1>6. EndIsHandlers' /\ ServerInOrder'  BY ClientStepsKeepServer
<1>7. ClientInOrder'
  <2>1. ended' # "local" => SingleResponse  BY DEF ConnectUnary, Unary, SingleResponse
  <2>2. "local" \notin Verdict \ {"ok"}  BY DEF Verdict
  <2> QED  BY <1>1, <1>2, <1>3, <2>1, <2>2 DEF ClientInOrder
<1> QED  BY <1>1, <1>3, <1>4, <1>5, <1>6, <1>7

LEMMA ReceiveUnaryIsSound == ResponseInv /\ (ReceiveUnary \/ ReceiveRefused) => ResponseInv'
<1> SUFFICES ASSUME ResponseInv, ReceiveUnary \/ ReceiveRefused  PROVE ResponseInv'
  OBVIOUS
<1> DEFINE message == IF body = <<>> THEN Zero ELSE Head(body)
<1>1. /\ ended = "open"
      /\ UNCHANGED <<call, handler, outcome, sending, head, body, bodyEnd, cut, endVerdict, crecv,
                     endRead, again>>
      /\ \/ ended' = "local" /\ UNCHANGED got
         \/ ConnectUnary /\ bodyEnd = "eof" /\ head = "error" /\ ended' = endVerdict /\ UNCHANGED got
         \/ ConnectUnary /\ bodyEnd = "eof" /\ head = "ok" /\ ended' = "ok" /\ got' = <<message>>
  BY DEF ReceiveUnary, ReceiveRefused, request, response, end, client
<1>2. got \in Seq(Response \cup {Zero})  BY DEF ResponseInv, TypeOK
<1>3. CASE ended' = "local" /\ UNCHANGED got
  <2>1. /\ TypeOK' /\ InOrder' /\ EndIsHandlers' /\ ServerInOrder' /\ ClientInOrder' /\ again' = <<>>
    BY <1>1, <1>2, <1>3, ToldIsSound
  <2>2. SuccessIsComplete' /\ ErrorIsHandlers'
    BY <1>3, <2>1 DEF SuccessIsComplete, ErrorIsHandlers
  <2> QED  BY <2>1, <2>2 DEF ResponseInv
<1>4. CASE ConnectUnary /\ bodyEnd = "eof" /\ head = "error" /\ ended' = endVerdict /\ UNCHANGED got
  <2>1. /\ outcome \in Outcome \ {"nil"} /\ outcome # "none" /\ endVerdict = scrubHandlerError(outcome)
        /\ handler # "running"
    BY <1>4 DEF ResponseInv, EndIsHandlers, TypeOK
  <2>2. endVerdict \in Verdict /\ endVerdict # "ok"  BY <2>1, ScrubIsVerdict
  <2>3. /\ TypeOK' /\ InOrder' /\ EndIsHandlers' /\ ServerInOrder' /\ ClientInOrder' /\ again' = <<>>
        /\ scrubHandlerError(outcome') = scrubHandlerError(outcome)
    BY <1>1, <1>2, <1>4, <2>1, <2>2, ToldIsSound
  <2>4. SuccessIsComplete' /\ ErrorIsHandlers'
    BY <1>1, <1>4, <2>1, <2>2, <2>3 DEF SuccessIsComplete, ErrorIsHandlers
  <2> QED  BY <2>3, <2>4 DEF ResponseInv
<1>5. CASE ConnectUnary /\ bodyEnd = "eof" /\ head = "ok" /\ ended' = "ok" /\ got' = <<message>>
  <2>1. /\ handler = "done" /\ (body = <<>> => sent = <<>> /\ outcome = "nil")
        /\ (body # <<>> => sent # <<>> /\ <<Head(body)>> = sent)
    BY <1>1, <1>5, UnaryBodyIsResponse
  <2>2. \/ sent = <<>> /\ outcome = "nil" /\ got' = <<Zero>>
        \/ sent # <<>> /\ got' = sent
    BY <1>5, <2>1
  <2>3. got' \in Seq(Response \cup {Zero}) /\ Len(got') = 1
    <3>1. sent \in Seq(Response \cup {Zero})  BY SeqMonotonic DEF ResponseInv, TypeOK
    <3>2. <<Zero>> \in Seq(Response \cup {Zero})  OBVIOUS
    <3>3. Len(got') = 1  BY <1>5
    <3> QED  BY <2>2, <3>1, <3>2, <3>3
  <2>4. "ok" \in Verdict  BY DEF Verdict
  <2>5. /\ TypeOK' /\ InOrder' /\ EndIsHandlers' /\ ServerInOrder' /\ ClientInOrder'
        /\ ConnectUnary' = ConnectUnary /\ again' = <<>>
    BY <1>1, <1>5, <2>1, <2>3, <2>4, ToldIsSound
  <2>6. sent' = sent /\ outcome' = outcome  BY <1>1 DEF sending
  <2>7. SuccessIsComplete'
    BY <1>5, <2>2, <2>3, <2>5, <2>6 DEF SuccessIsComplete
  <2>8. ErrorIsHandlers'  BY <1>5, <2>5 DEF ErrorIsHandlers
  <2> QED  BY <2>5, <2>7, <2>8 DEF ResponseInv
<1> QED  BY <1>1, <1>3, <1>4, <1>5

LEMMA ReceiveAgainIsSound == ResponseInv /\ ReceiveAgain => ResponseInv'
<1> SUFFICES ASSUME ResponseInv, ReceiveAgain  PROVE ResponseInv'
  OBVIOUS
<1> DEFINE told == IF SingleResponse THEN "eof"
                   ELSE IF endRead /\ endVerdict # "ok" THEN endVerdict ELSE "local"
<1>1. /\ ended # "open" /\ again' = Append(again, told)
      /\ UNCHANGED <<call, handler, outcome, sending, head, body, bodyEnd, cut, endVerdict, crecv, got,
                     ended, endRead>>
  BY DEF ReceiveAgain, request, response, end
<1>2. UNCHANGED <<protocol, streamType, endLimit, sends, sent, wroteToBody>> /\ ConnectUnary' = ConnectUnary
      /\ SingleResponse' = SingleResponse
  BY <1>1 DEF call, sending, ConnectUnary, Unary, SingleResponse
<1>3. IF ended \in Verdict \ {"ok"} /\ ~SingleResponse THEN told = ended
      ELSE told \in {"eof", "local"}
  <2>1. ~SingleResponse => IF ended \in Verdict \ {"ok"} THEN endRead /\ endVerdict = ended
                           ELSE ~(endRead /\ endVerdict # "ok")
    BY <1>1 DEF ResponseInv, ClientInOrder
  <2> QED  BY <2>1
<1> HIDE DEF told
<1>4. told \in Verdict \cup {"eof", "local"} /\ {"eof", "local"} \cap Verdict = {}
  BY <1>3 DEF Verdict
<1>5. /\ again' \in Seq(Verdict \cup {"eof", "local"}) /\ Len(again') = Len(again) + 1 /\ Len(again) \in Nat
      /\ \A i \in 1..Len(again) : again'[i] = again[i]
      /\ again'[Len(again) + 1] = told
  BY <1>1, <1>4, AppendFacts DEF ResponseInv, TypeOK
<1>6. TypeOK'  BY <1>1, <1>2, <1>5 DEF ResponseInv, TypeOK
<1>7. InOrder'  BY <1>1 DEF InOrder
<1>8. EndIsHandlers' /\ ServerInOrder'  BY <1>1, ClientStepsKeepServer
<1>9. ClientInOrder'  BY <1>1, <1>2 DEF ResponseInv, ClientInOrder
<1>10. SuccessIsComplete'  BY <1>1, <1>2 DEF ResponseInv, SuccessIsComplete
<1>11. ErrorIsHandlers'
  <2>1. \A i \in 1..Len(again) :
          IF ended \in Verdict \ {"ok"} /\ ~SingleResponse THEN again[i] = ended
          ELSE again[i] \notin Verdict
    BY DEF ResponseInv, ErrorIsHandlers, TypeOK
  <2>2. \A i \in 1..Len(again') :
          IF ended \in Verdict \ {"ok"} /\ ~SingleResponse THEN again'[i] = ended
          ELSE again'[i] \notin Verdict
    <3> SUFFICES ASSUME NEW i \in 1..Len(again')
                 PROVE  IF ended \in Verdict \ {"ok"} /\ ~SingleResponse THEN again'[i] = ended
                        ELSE again'[i] \notin Verdict
      OBVIOUS
    <3>1. CASE i \in 1..Len(again)
      <4>1. again'[i] = again[i]  BY <1>5, <3>1
      <4> QED  BY <2>1, <3>1, <4>1
    <3>2. CASE i = Len(again) + 1
      <4>1. again'[i] = told  BY <1>5, <3>2
      <4> QED  BY <1>3, <1>4, <4>1
    <3> QED  BY <1>5, <3>1, <3>2
  <2>3. DOMAIN again' = 1..Len(again')  BY <1>5
  <2>4. outcome' = outcome /\ scrubHandlerError(outcome') = scrubHandlerError(outcome) /\ ended' = ended
    BY <1>1
  <2> QED  BY <1>2, <2>2, <2>3, <2>4 DEF ResponseInv, ErrorIsHandlers
<1> QED  BY <1>6, <1>7, <1>8, <1>9, <1>10, <1>11 DEF ResponseInv
-----------------------------------------------------------------------------
(* The theorems.                                                           *)

LEMMA ResponseNextIsSound == ResponseInv /\ [Next]_vars => ResponseInv'
<1> SUFFICES ASSUME ResponseInv, [Next]_vars  PROVE ResponseInv'
  OBVIOUS
<1>1. CASE \/ ClientSends \/ ClientClosesSend \/ HandlerReceive \/ HandlerReceiveSecond
           \/ SetTrailer \/ Finished \/ UNCHANGED vars
  <2>1. UNCHANGED <<call, handler, outcome, sending, head, body, bodyEnd, cut, endVerdict,
                    crecv, got, ended, endRead, again>>
    <3>1. CASE ClientSends \/ ClientClosesSend
      BY <3>1 DEF ClientSends, ClientClosesSend, response, end, client
    <3>2. CASE HandlerReceive
      <4>1. UNCHANGED <<call, handler, outcome, sending, response, client>>
        BY <3>2 DEF HandlerReceive
      <4> QED  BY <4>1 DEF response, end, client
    <3>3. CASE HandlerReceiveSecond
      <4>1. UNCHANGED <<call, handler, outcome, sending, response, client>>
        BY <3>3 DEF HandlerReceiveSecond
      <4> QED  BY <4>1 DEF response, end, client
    <3>4. CASE SetTrailer
      BY <3>4 DEF SetTrailer, request, response, end, client
    <3>5. CASE Finished \/ UNCHANGED vars
      BY <3>5 DEF Finished, vars, request, response, end, client
    <3> QED  BY <1>1, <3>1, <3>2, <3>3, <3>4, <3>5
  <2> QED  BY <2>1, OtherStepsAreSound
<1>2. CASE HandlerSend  BY <1>2, SendIsSound
<1>3. CASE RejectCall \/ HandlerReturns  BY <1>3, CloseStepsAreSound
<1>4. CASE RefuseRequest \/ ServerEndsResponse  BY <1>4, ResponseEndIsSound
<1>5. CASE HandlerPanics \/ ConnectionLost  BY <1>5, FaultsAreSound
<1>6. CASE ReceiveMessage  BY <1>6, ReceiveMessageIsSound
<1>7. CASE ReceiveEnd  BY <1>7, ReceiveEndIsSound
<1>8. CASE ReceiveUnary \/ ReceiveRefused  BY <1>8, ReceiveUnaryIsSound
<1>9. CASE ReceiveAgain  BY <1>9, ReceiveAgainIsSound
<1> QED  BY <1>1, <1>2, <1>3, <1>4, <1>5, <1>6, <1>7, <1>8, <1>9 DEF Next

LEMMA ResponseInitIsSound == Init => ResponseInv
<1> SUFFICES ASSUME Init  PROVE ResponseInv
  OBVIOUS
<1>1. endLimit \in {"none", "send", "read"}  BY WireAssumption DEF Init
<1>2. TypeOK
  <2>1. protocol \in {"connect", "grpc", "grpcweb"} /\ streamType \in {"unary", "client", "server", "bidi"}
    BY WireAssumption DEF Init
  <2>2. /\ sent \in Seq(Response) /\ body \in Seq(Frame) /\ got \in Seq(Response \cup {Zero})
        /\ again \in Seq(Verdict \cup {"eof", "local"})
    BY EmptySeq DEF Init
  <2> QED  BY <1>1, <2>1, <2>2 DEF Init, TypeOK
<1>3. InOrder  BY DEF Init, InOrder
<1>4. EndIsHandlers  BY DEF Init, EndIsHandlers
<1>5. ServerInOrder  BY DEF Init, ServerInOrder
<1>6. ClientInOrder  BY DEF Init, ClientInOrder, Verdict
<1>7. SuccessIsComplete /\ ErrorIsHandlers  BY DEF Init, SuccessIsComplete, ErrorIsHandlers
<1> QED  BY <1>2, <1>3, <1>4, <1>5, <1>6, <1>7 DEF ResponseInv

\* handlerStream.Receive: a handler that was told the end has consumed every
\* request, and its single request is the only one that was sent.
THEOREM HandlerGetsWholeRequest == Spec => []RequestIsComplete
<1>1. Init => RequestInv
  <2> SUFFICES ASSUME Init  PROVE RequestInv
    OBVIOUS
  <2>1. /\ reqSent = 0 /\ reqGot = 0 /\ reqEnd = "open" /\ rxEnd = FALSE
        /\ hrecv = [pc |-> "idle", res |-> "none"]
    BY DEF Init
  <2>2. RequestTypeOK
    <3>1. hrecv \in [pc : {"idle", "second"}, res : {"none", "message", "fail", "eof", "end"}]
      BY <2>1
    <3>2. reqSent \in Nat /\ reqGot \in Nat /\ reqGot <= reqSent  BY <2>1
    <3>3. rxEnd \in BOOLEAN /\ reqEnd \in {"open", "eof", "reset"}  BY <2>1
    <3> QED  BY <3>1, <3>2, <3>3 DEF RequestTypeOK
  <2>3. RequestInOrder /\ RequestIsComplete  BY <2>1 DEF RequestInOrder, RequestIsComplete
  <2> QED  BY <2>2, <2>3 DEF RequestInv
<1>2. RequestInv => RequestIsComplete  BY DEF RequestInv
<1> QED  BY <1>1, <1>2, RequestNextIsSound, PTL DEF Spec

\* The client's Receive: success is told only for a call whose handler returned
\* nil, and after every response, wherever the response was cut off.
THEOREM ClientSuccessIsComplete == Spec => []SuccessIsComplete
<1>1. ResponseInv => SuccessIsComplete  BY DEF ResponseInv
<1> QED  BY <1>1, ResponseInitIsSound, ResponseNextIsSound, PTL DEF Spec

\* The client's Receive: an error told as the server's is the scrubbed error of
\* the handler, and no later Receive contradicts it.
THEOREM ClientErrorIsHandlers == Spec => []ErrorIsHandlers
<1>1. ResponseInv => ErrorIsHandlers  BY DEF ResponseInv
<1> QED  BY <1>1, ResponseInitIsSound, ResponseNextIsSound, PTL DEF Spec

-----------------------------------------------------------------------------
(* The end of the call, delivered.                                         *)

TrailerType == trailer \in BOOLEAN

\* The trailers are flushed once: with the response of a unary call, and
\* otherwise when the handler has returned.
FlushedOnce == handler = "running" /\ trailerFlushed => Unary /\ sends > 0

\* A response whose handler has returned carries the verdict and the trailers.
ServerHasEnded ==
    /\ handler \in {"closed", "done"} /\ ~cut => head # "none"
    /\ handler \in {"closed", "done"} /\ ~cut /\ head # "refused" /\ endLimit # "send" =>
         /\ ~(ConnectUnary /\ wroteToBody) => endVerdict = scrubHandlerError(outcome)
         /\ ~(Unary /\ sends > 0) => endTrailer = trailer

\* Where they are: behind every response, but for HTTP trailers and headers.
EndIsWritten ==
    /\ ended = "open" /\ ~ConnectUnary /\ protocol # "grpc" /\ handler \in {"closed", "done"} /\
       ~cut /\ head \notin {"refused", "trailers"} /\ endLimit # "send" =>
         Len(got) + Len(body) = Len(sent) + 1
    /\ ConnectUnary /\ head = "ok" => endVerdict = "ok"
    /\ ConnectUnary /\ handler = "running" /\ ~wroteToBody => head = "none" /\ endVerdict = "none"
    /\ ConnectUnary /\ wroteToBody /\ ~cut => head # "none"
    /\ head = "trailers" => protocol = "grpcweb"
    /\ bodyEnd = "reset" => cut

\* What the client was told and given.
IsDelivered ==
    /\ gotTrailer \in Nat
    /\ ended = "open" => gotTrailer = 0
    /\ ended # "open" /\ ~Excused =>
         /\ handler = "done" /\ ended = endVerdict
         /\ IF endTrailer THEN gotTrailer >= 1 /\ (again = <<>> => gotTrailer = 1)
            ELSE gotTrailer = 0

DeliveryInv == TrailerType /\ FlushedOnce /\ ServerHasEnded /\ EndIsWritten /\ IsDelivered

LEMMA InitDelivery == Init => DeliveryInv
<1> SUFFICES ASSUME Init  PROVE DeliveryInv
  OBVIOUS
<1>1. TrailerType /\ FlushedOnce /\ ServerHasEnded
  BY DEF Init, TrailerType, FlushedOnce, ServerHasEnded
<1>2. EndIsWritten  BY DEF Init, EndIsWritten
<1>3. IsDelivered  BY DEF Init, IsDelivered
<1> QED  BY <1>1, <1>2, <1>3 DEF DeliveryInv

\* What went wrong with a call stays wrong.
LEMMA ExcuseStays ==
    ASSUME ResponseInv, Excused, UNCHANGED <<call, got>>, cut => cut',
           head = "refused" => head' = "refused",
           sent' = sent \/ \E m \in Response : sent' = Append(sent, m),
           sent = <<>> /\ endVerdict = "ok" => sent' = <<>> /\ endVerdict' = "ok"
    PROVE  Excused'
<1>1. endLimit' = endLimit /\ SingleResponse' = SingleResponse /\ got' = got
  BY DEF call, SingleResponse
<1>2. sent \in Seq(Response) /\ Len(sent) \in Nat /\ Len(got) \in Nat
  BY DEF ResponseInv, TypeOK
<1>3. /\ sent' \in Seq(Response) /\ Len(sent') \in Nat /\ Len(sent) <= Len(sent')
      /\ DOMAIN sent = 1..Len(sent) /\ DOMAIN sent' = 1..Len(sent')
  <2>1. CASE sent' = sent  BY <1>2, <2>1
  <2>2. CASE \E m \in Response : sent' = Append(sent, m)
    BY <1>2, <2>2, AppendFacts
  <2> QED  BY <2>1, <2>2
<1>4. Len(sent) \in Nat /\ Len(sent') \in Nat /\ Len(sent) <= Len(sent')
  BY <1>2, <1>3
<1>5. ASSUME NEW i \in 1..Len(sent)  PROVE i \in 1..Len(sent')
  BY <1>4
<1>6. CASE cut \/ head = "refused" \/ endLimit # "none"
  BY <1>1, <1>6 DEF Excused
<1>7. CASE \E i \in DOMAIN sent : i > Len(got)
  <2>1. PICK i \in 1..Len(sent) : i > Len(got)  BY <1>3, <1>7
  <2>2. i \in 1..Len(sent')  BY <1>5, <2>1
  <2> QED  BY <1>1, <1>3, <2>1, <2>2 DEF Excused
<1>8. CASE SingleResponse /\ Len(sent) > 1
  <2>1. Len(sent') > 1  BY <1>8, <1>4
  <2> QED  BY <1>1, <1>8, <2>1 DEF Excused
<1>9. CASE SingleResponse /\ sent = <<>> /\ endVerdict = "ok"
  BY <1>1, <1>9 DEF Excused
<1> QED  BY <1>6, <1>7, <1>8, <1>9 DEF Excused

\* A step of the server before its response has ended leaves the client as it is.
LEMMA ServerStepDelivers ==
    ASSUME ResponseInv, DeliveryInv, handler # "done", UNCHANGED <<call, client>>, cut => cut',
           head = "refused" => head' = "refused",
           sent' = sent \/ \E m \in Response : sent' = Append(sent, m),
           sent = <<>> /\ endVerdict = "ok" => sent' = <<>> /\ endVerdict' = "ok"
    PROVE  IsDelivered'
<1>1. UNCHANGED <<got, ended, gotTrailer>>  BY DEF client
<1>2. gotTrailer \in Nat /\ (ended = "open" => gotTrailer = 0) /\ (ended # "open" => Excused)
  BY DEF DeliveryInv, IsDelivered
<1>3. ended # "open" => Excused'  BY <1>1, <1>2, ExcuseStays
<1> QED  BY <1>1, <1>2, <1>3 DEF IsDelivered

\* While the handler runs, only a Connect unary response has an end, with its message.
LEMMA RunningHasNoEnd ==
    ASSUME ResponseInv, DeliveryInv, handler = "running", endVerdict = "ok"
    PROVE  ConnectUnary /\ wroteToBody /\ sends # 0
<1>1. ConnectUnary  BY RunningIsUntold
<1>2. wroteToBody  BY <1>1 DEF DeliveryInv, EndIsWritten
<1> QED  BY <1>1, <1>2 DEF ResponseInv, ServerInOrder

LEMMA SendDelivers == ResponseInv /\ DeliveryInv /\ HandlerSend => DeliveryInv'
<1> SUFFICES ASSUME ResponseInv, DeliveryInv, HandlerSend  PROVE DeliveryInv'
  OBVIOUS
<1>1. PICK tooBig \in BOOLEAN, written \in BOOLEAN :
         /\ written => ~tooBig
         /\ written \/ tooBig \/ cut
         /\ sent' = IF written THEN Append(sent, sends') ELSE sent
         /\ IF written THEN Write(sends') ELSE UNCHANGED body
         /\ IF ConnectUnary /\ tooBig
            THEN UNCHANGED <<head, wroteToBody, end>>
            ELSE /\ Commit("ok")
                 /\ wroteToBody' = TRUE
                 /\ endVerdict' = IF ConnectUnary THEN "ok" ELSE endVerdict
                 /\ endTrailer' = IF ConnectUnary THEN connTrailer' ELSE endTrailer
  BY DEF HandlerSend
<1>2. /\ handler = "running" /\ sends' = sends + 1 /\ sends \in Nat
      /\ UNCHANGED <<call, handler, bodyEnd, cut, client>>
      /\ ~Unary => UNCHANGED trailerFlushed
  BY DEF HandlerSend, request, ResponseInv, TypeOK
<1>3. ConnectUnary' = ConnectUnary /\ Unary' = Unary  BY <1>2 DEF call, ConnectUnary, Unary
<1>4. sends' \in Response /\ (ConnectUnary => sends = 0)
  BY <1>2, WireAssumption DEF HandlerSend, Response
<1>5. /\ \/ ConnectUnary /\ tooBig /\ UNCHANGED <<head, wroteToBody, endVerdict>>
         \/ /\ wroteToBody' = TRUE /\ (ConnectUnary => endVerdict' = "ok")
            /\ ~cut => head' # "none"
      /\ head = "refused" => head' = "refused"
      /\ head' # "trailers"
  <2>1. head # "trailers"  BY <1>2, RunningIsUntold
  <2> QED  BY <1>1, <2>1 DEF Commit, end
<1>6. FlushedOnce'
  <2>1. sends' > 0  BY <1>2
  <2> QED  BY <1>2, <1>3, <2>1 DEF FlushedOnce, DeliveryInv
<1>7. ServerHasEnded'  BY <1>2 DEF ServerHasEnded
<1>8. EndIsWritten'
  BY <1>2, <1>3, <1>5 DEF DeliveryInv, EndIsWritten
<1>9. IsDelivered'
  <2>1. endVerdict # "ok"  BY <1>2, <1>4, RunningHasNoEnd
  <2>2. sent' = sent \/ \E m \in Response : sent' = Append(sent, m)  BY <1>1, <1>4
  <2> QED  BY <1>2, <1>5, <2>1, <2>2, ServerStepDelivers
<1>10. TrailerType'  BY DEF HandlerSend, DeliveryInv, TrailerType
<1> QED  BY <1>6, <1>7, <1>8, <1>9, <1>10 DEF DeliveryInv

\* Close puts the verdict and the trailers where the client will look for them.
LEMMA CloseDelivers ==
    ASSUME ResponseInv, DeliveryInv, handler = "running", handler' = "closed", outcome' \in Outcome,
           NEW tr, NEW custom, Close(scrubHandlerError(outcome'), tr, custom),
           ~(Unary /\ sends > 0) => tr = trailer,
           UNCHANGED <<call, sending, trailer, bodyEnd, cut, client>>
    PROVE  DeliveryInv'
<1> DEFINE v == scrubHandlerError(outcome')
<1>1. UNCHANGED <<protocol, streamType, endLimit, sends, sent, wroteToBody, got, ended>>
      /\ ConnectUnary' = ConnectUnary /\ Unary' = Unary
  BY DEF call, sending, client, ConnectUnary, Unary
<1>2. \/ ConnectUnary /\ wroteToBody /\ UNCHANGED <<head, body, endVerdict, endTrailer>>
      \/ /\ ConnectUnary /\ ~wroteToBody /\ UNCHANGED body /\ endVerdict' = v /\ endTrailer' = tr
         /\ head' = IF head = "none" /\ ~cut THEN (IF v = "ok" THEN "ok" ELSE "error") ELSE head
      \/ /\ ~ConnectUnary /\ protocol = "grpc" /\ UNCHANGED body /\ endVerdict' = v /\ endTrailer' = tr
         /\ head' = IF head = "none" /\ ~cut THEN "ok" ELSE head
      \/ /\ ~ConnectUnary /\ protocol = "grpcweb" /\ ~wroteToBody /\ UNCHANGED body
         /\ endVerdict' = v /\ endTrailer' = tr
         /\ head' = IF head = "none" /\ ~cut THEN "trailers" ELSE head
      \/ /\ ~ConnectUnary /\ protocol # "grpc" /\ endLimit = "send"
         /\ head' = IF head = "none" /\ ~cut THEN "ok" ELSE head
      \/ /\ ~ConnectUnary /\ protocol # "grpc" /\ endVerdict' = v /\ endTrailer' = tr
         /\ body' = IF cut THEN body ELSE Append(body, EndStream)
         /\ head' = IF head = "none" /\ ~cut THEN "ok" ELSE head
  <2>1. CASE ConnectUnary
    <3>1. CloseUnary(v, tr)  BY <2>1 DEF Close, ConnectUnary
    <3> QED  BY <2>1, <3>1 DEF CloseUnary, Commit, end
  <2>2. CASE ~ConnectUnary /\ (protocol = "grpc" \/ (protocol = "grpcweb" /\ ~wroteToBody /\ ~custom))
    <3>1. /\ Commit(IF protocol = "grpc" THEN "ok" ELSE "trailers")
          /\ endVerdict' = v /\ endTrailer' = tr /\ UNCHANGED body
      BY <2>2 DEF Close
    <3> QED  BY <2>2, <3>1 DEF Commit
  <2>3. CASE ~ConnectUnary /\ ~(protocol = "grpc" \/ (protocol = "grpcweb" /\ ~wroteToBody /\ ~custom))
    <3>1. CloseEndStream(v, tr)  BY <2>3 DEF Close
    <3>2. CASE endLimit = "send"
      BY <2>3, <3>1, <3>2 DEF CloseEndStream, Commit
    <3>3. CASE endLimit # "send"
      BY <2>3, <3>1, <3>3 DEF CloseEndStream, Commit, Write
    <3> QED  BY <3>2, <3>3
  <2> QED  BY <2>1, <2>2, <2>3
<1> HIDE DEF v
<1>3. head = "refused" => head' = "refused"  BY <1>2
<1>4. ConnectUnary /\ wroteToBody => Unary /\ sends > 0
  <2>1. sends \in Nat /\ (wroteToBody => sends # 0)  BY DEF ResponseInv, TypeOK, ServerInOrder
  <2> QED  BY <2>1 DEF ConnectUnary
<1>5. ~cut => head' # "none"
  <2>1. ConnectUnary /\ wroteToBody /\ ~cut => head # "none"
    BY DEF DeliveryInv, EndIsWritten
  <2> QED  BY <1>2, <2>1
<1>6. FlushedOnce'  BY DEF FlushedOnce
<1>7. ServerHasEnded'
  <2>1. ~(ConnectUnary /\ wroteToBody) /\ endLimit # "send" => endVerdict' = v /\ endTrailer' = tr
    BY <1>2
  <2>2. scrubHandlerError(outcome') = v  BY DEF v
  <2> QED  BY <1>1, <1>4, <1>5, <2>1, <2>2 DEF ServerHasEnded
<1>8. EndIsWritten'
  <2>1. ended = "open" /\ ~ConnectUnary /\ protocol # "grpc" /\ ~cut /\ head' # "trailers" /\ endLimit # "send" =>
          Len(got) + Len(body') = Len(sent) + 1
    <3> SUFFICES ASSUME ended = "open", ~ConnectUnary, protocol # "grpc", ~cut, head' # "trailers", endLimit # "send"
                 PROVE  Len(got) + Len(body') = Len(sent) + 1
      OBVIOUS
    <3>1. ~wroteToBody => head = "none"
      <4>1. sends > 0 => wroteToBody  BY DEF ResponseInv, ServerInOrder
      <4>2. sends \in Nat /\ (sends = 0 => head = "none")  BY DEF ResponseInv, TypeOK, ServerInOrder
      <4> QED  BY <4>1, <4>2
    <3>2. body' = Append(body, EndStream)  BY <1>2, <3>1
    <3>3. body \in Seq(Frame) /\ Len(body) \in Nat /\ Len(got) \in Nat /\ Len(sent) \in Nat
      BY DEF ResponseInv, TypeOK
    <3>4. Len(body') = Len(body) + 1  BY <3>2, <3>3, AppendFacts, FramesAreDistinct
    <3>5. Len(got) + Len(body) = Len(sent)  BY DEF ResponseInv, InOrder
    <3> QED  BY <3>3, <3>4, <3>5
  <2>2. ConnectUnary /\ head' = "ok" => endVerdict' = "ok"
    <3>1. ConnectUnary => (head = "ok" => endVerdict = "ok") /\ (~wroteToBody => head = "none")
      BY DEF DeliveryInv, EndIsWritten
    <3> QED  BY <1>2, <3>1
  <2>3. bodyEnd = "reset" => cut  BY DEF DeliveryInv, EndIsWritten
  <2>4. head' = "trailers" => protocol = "grpcweb"  BY <1>2, RunningIsUntold
  <2> QED  BY <1>1, <1>5, <2>1, <2>2, <2>3, <2>4 DEF EndIsWritten
<1>9. IsDelivered'
  <2>1. endVerdict = "ok" => endVerdict' = "ok"  BY <1>2, RunningHasNoEnd
  <2> QED  BY <1>1, <1>3, <2>1, ServerStepDelivers
<1>10. TrailerType'  BY DEF DeliveryInv, TrailerType
<1> QED  BY <1>6, <1>7, <1>8, <1>9, <1>10 DEF DeliveryInv

LEMMA CloseStepsDeliver == ResponseInv /\ DeliveryInv /\ (RejectCall \/ HandlerReturns) => DeliveryInv'
<1> SUFFICES ASSUME ResponseInv, DeliveryInv, RejectCall \/ HandlerReturns  PROVE DeliveryInv'
  OBVIOUS
<1>1. CASE RejectCall
  <2>1. /\ handler = "running" /\ handler' = "closed" /\ outcome' = "coded" /\ sends = 0
        /\ Close("coded", FALSE, FALSE) /\ ~trailer
        /\ UNCHANGED <<call, sending, trailer, bodyEnd, cut, client>>
    BY <1>1 DEF RejectCall, request, trailers
  <2>2. scrubHandlerError(outcome') = "coded" /\ outcome' \in Outcome
    BY <2>1 DEF scrubHandlerError, Outcome
  <2>3. trailer = FALSE  BY <2>1 DEF DeliveryInv, TrailerType
  <2>4. Close(scrubHandlerError(outcome'), FALSE, FALSE)  BY <2>1, <2>2
  <2> QED  BY <2>1, <2>2, <2>3, <2>4, CloseDelivers
<1>2. CASE HandlerReturns
  <2>1. PICK custom \in BOOLEAN : Close(scrubHandlerError(outcome'), connTrailer', custom)
    BY <1>2 DEF HandlerReturns
  <2>2. /\ handler = "running" /\ handler' = "closed" /\ outcome' \in Outcome
        /\ UNCHANGED <<call, sending, trailer, bodyEnd, cut, client>>
        /\ connTrailer' = IF trailerFlushed THEN connTrailer ELSE trailer
    BY <1>2 DEF HandlerReturns, request, flushTrailer
  <2>3. ~(Unary /\ sends > 0) => connTrailer' = trailer
    BY <2>2 DEF DeliveryInv, FlushedOnce
  <2> QED  BY <2>1, <2>2, <2>3, CloseDelivers
<1> QED  BY <1>1, <1>2

LEMMA ResponseEndDelivers ==
    ResponseInv /\ DeliveryInv /\ (RefuseRequest \/ ServerEndsResponse) => DeliveryInv'
<1> SUFFICES ASSUME ResponseInv, DeliveryInv, RefuseRequest \/ ServerEndsResponse  PROVE DeliveryInv'
  OBVIOUS
<1>1. /\ handler' = "done" /\ bodyEnd' = (IF cut THEN bodyEnd ELSE "eof")
      /\ UNCHANGED <<call, outcome, sending, trailers, body, cut, endVerdict, endTrailer, client>>
  BY DEF RefuseRequest, ServerEndsResponse, request, end
<1>2. /\ UNCHANGED <<protocol, streamType, endLimit, sends, sent, wroteToBody, trailer, got, ended>>
      /\ ConnectUnary' = ConnectUnary /\ Unary' = Unary
  BY <1>1 DEF call, sending, trailers, client, ConnectUnary, Unary
<1>3. \/ /\ RefuseRequest /\ handler = "running" /\ head = "none" /\ sends = 0
         /\ head' = IF cut THEN "none" ELSE "refused"
      \/ handler = "closed" /\ head' = head
  BY DEF RefuseRequest, ServerEndsResponse, Commit, ResponseInv, ServerInOrder
<1>4. FlushedOnce'  BY <1>1 DEF FlushedOnce
<1>5. ServerHasEnded'
  <2>1. scrubHandlerError(outcome') = scrubHandlerError(outcome)  BY <1>1
  <2> QED  BY <1>1, <1>2, <1>3, <2>1 DEF DeliveryInv, ServerHasEnded
<1>6. EndIsWritten'
  BY <1>1, <1>2, <1>3 DEF DeliveryInv, EndIsWritten
<1>7. IsDelivered'
  BY <1>1, <1>2, <1>3, ServerStepDelivers
<1> QED  BY <1>2, <1>4, <1>5, <1>6, <1>7 DEF DeliveryInv, TrailerType

LEMMA FaultsDeliver == ResponseInv /\ DeliveryInv /\ (HandlerPanics \/ ConnectionLost) => DeliveryInv'
<1> SUFFICES ASSUME ResponseInv, DeliveryInv, HandlerPanics \/ ConnectionLost  PROVE DeliveryInv'
  OBVIOUS
<1>1. /\ cut' /\ handler' \in {handler, "aborted"}
      /\ UNCHANGED <<call, sending, trailers, head, endVerdict, client>>
  <2>1. CASE ConnectionLost
    BY <2>1 DEF ConnectionLost, BreaksOff, end
  <2>2. CASE HandlerPanics
    <3>1. CASE cut  BY <2>2, <3>1 DEF HandlerPanics, request, response, end
    <3>2. CASE ~cut  BY <2>2, <3>2 DEF HandlerPanics, request, BreaksOff, end
    <3> QED  BY <3>1, <3>2
  <2> QED  BY <2>1, <2>2
<1>2. /\ UNCHANGED <<protocol, streamType, endLimit, sends, sent, wroteToBody, trailerFlushed, trailer>>
      /\ UNCHANGED <<ended, gotTrailer>> /\ ConnectUnary' = ConnectUnary /\ Unary' = Unary
  BY <1>1 DEF call, sending, trailers, client, ConnectUnary, Unary
<1>3. FlushedOnce'  BY <1>1, <1>2 DEF DeliveryInv, FlushedOnce
<1>4. ServerHasEnded'  BY <1>1 DEF ServerHasEnded
<1>5. EndIsWritten'  BY <1>1, <1>2 DEF DeliveryInv, EndIsWritten
<1>6. IsDelivered'  BY <1>1, <1>2 DEF DeliveryInv, IsDelivered, Excused
<1> QED  BY <1>1, <1>2, <1>3, <1>4, <1>5, <1>6 DEF DeliveryInv, TrailerType

-----------------------------------------------------------------------------
(* The client is told the end.                                             *)

\* A step of the client leaves what the server has done as it is.
LEMMA ClientStepsKeepEnd ==
    ASSUME DeliveryInv,
           UNCHANGED <<call, handler, outcome, sending, trailers, head, bodyEnd, cut, end>>
    PROVE  /\ TrailerType' /\ FlushedOnce' /\ ServerHasEnded'
           /\ ended' # "open" => EndIsWritten'
           /\ UNCHANGED <<endLimit, sent, endVerdict, endTrailer>>
           /\ ConnectUnary' = ConnectUnary /\ SingleResponse' = SingleResponse
<1>1. /\ UNCHANGED <<protocol, streamType, endLimit, sends, sent, wroteToBody, trailer, trailerFlushed>>
      /\ UNCHANGED <<endVerdict, endTrailer>>
      /\ ConnectUnary' = ConnectUnary /\ Unary' = Unary /\ SingleResponse' = SingleResponse
  BY DEF call, sending, trailers, end, ConnectUnary, Unary, SingleResponse
<1>2. TrailerType' /\ FlushedOnce'  BY <1>1 DEF DeliveryInv, TrailerType, FlushedOnce
<1>3. ServerHasEnded'
  <2>1. scrubHandlerError(outcome') = scrubHandlerError(outcome)  OBVIOUS
  <2> QED  BY <1>1, <2>1 DEF DeliveryInv, ServerHasEnded
<1>4. ended' # "open" => EndIsWritten'  BY <1>1 DEF DeliveryInv, EndIsWritten
<1> QED  BY <1>1, <1>2, <1>3, <1>4

LEMMA ReceiveMessageDelivers == ResponseInv /\ DeliveryInv /\ ReceiveMessage => DeliveryInv'
<1> SUFFICES ASSUME ResponseInv, DeliveryInv, ReceiveMessage  PROVE DeliveryInv'
  OBVIOUS
<1>1. /\ UNCHANGED <<call, handler, outcome, sending, trailers, head, bodyEnd, cut, end, gotTrailer>>
      /\ ended = "open" /\ ~ConnectUnary /\ got' = Append(got, Head(body)) /\ body' = Tail(body)
      /\ \/ UNCHANGED ended
         \/ SingleResponse /\ crecv = "second" /\ ended' = "local"
  BY DEF ReceiveMessage, request
<1>2. body # <<>> /\ Head(body) \in Response
  BY UnmarshalIsTrue DEF ReceiveMessage, ResponseInv
<1>3. body \in Seq(Frame) /\ got \in Seq(Response \cup {Zero}) /\ Len(got) \in Nat /\ Len(sent) \in Nat
  BY DEF ResponseInv, TypeOK
<1>4. Len(body') = Len(body) - 1 /\ Len(body) \in Nat \ {0} /\ Head(body) = body[1]
  BY <1>1, <1>2, <1>3, TailFacts
<1>5. Len(got') = Len(got) + 1
  BY <1>1, <1>2, <1>3, AppendFacts
<1>6. /\ TrailerType' /\ FlushedOnce' /\ ServerHasEnded' /\ (ended' # "open" => EndIsWritten')
      /\ UNCHANGED <<endLimit, sent, endVerdict>> /\ SingleResponse' = SingleResponse
      /\ ConnectUnary' = ConnectUnary /\ protocol' = protocol
  BY <1>1, ClientStepsKeepEnd DEF call
<1>7. ended' = "open" => EndIsWritten'
  <2>1. Len(got') + Len(body') = Len(got) + Len(body)
    <3>1. Len(got) \in Nat /\ Len(body) \in Nat  BY <1>3, <1>4
    <3> QED  BY <1>4, <1>5, <3>1
  <2>2. wroteToBody' = wroteToBody  BY <1>1 DEF sending
  <2> QED  BY <1>1, <1>6, <2>1, <2>2 DEF DeliveryInv, EndIsWritten
<1>8. IsDelivered'
  <2>1. gotTrailer' = 0  BY <1>1 DEF DeliveryInv, IsDelivered
  <2>2. ended' # "open" => Excused'
    <3> SUFFICES ASSUME ended' # "open"  PROVE Excused'
      OBVIOUS
    <3>1. SingleResponse /\ crecv = "second"  BY <1>1
    <3>2. Len(got) = 1  BY <1>1, <3>1 DEF ResponseInv, ClientInOrder
    <3>3. Len(got) + 1 <= Len(sent)
      <4>1. 1 \in 1..Len(body) /\ body[1] \in Response  BY <1>2, <1>4
      <4> QED  BY <1>1, <4>1 DEF ResponseInv, InOrder
    <3>4. Len(sent') > 1  BY <1>3, <1>6, <3>2, <3>3
    <3> QED  BY <1>6, <3>1, <3>4 DEF Excused
  <2> QED  BY <2>1, <2>2 DEF IsDelivered
<1> QED  BY <1>6, <1>7, <1>8 DEF DeliveryInv

\* A call with which nothing went wrong: what is left to read once its responses
\* have been taken is its end, wherever the protocol put it.
LEMMA EndIsFound ==
    ASSUME ResponseInv, DeliveryInv, ended = "open", ~ConnectUnary, head \in {"ok", "trailers"}, ~Excused,
           NEW read \in Unmarshal \ {"message"}
    PROVE  /\ EndFound(read) /\ read \in {"eof", "special"} /\ handler = "done"
           /\ sent = <<>> <=> Len(got) = 0
<1>1. /\ ~cut /\ endLimit = "none" /\ ~(\E i \in DOMAIN sent : i > Len(got))
  BY DEF Excused
<1>2. /\ sent \in Seq(Response) /\ Len(sent) \in Nat /\ Len(got) \in Nat /\ body \in Seq(Frame)
      /\ got \in Seq(Response \cup {Zero}) /\ DOMAIN sent = 1..Len(sent) /\ Len(body) \in Nat
  BY DEF ResponseInv, TypeOK
<1>3. Len(got) = Len(sent)
  <2>1. Len(got) <= Len(sent)  BY DEF ResponseInv, InOrder
  <2>2. ~(Len(got) < Len(sent))
    <3> SUFFICES ASSUME Len(got) < Len(sent)  PROVE FALSE
      OBVIOUS
    <3>1. Len(sent) \in 1..Len(sent)  BY <1>2
    <3> QED  BY <1>1, <1>2, <3>1
  <2> QED  BY <1>2, <2>1, <2>2
<1>4. sent = <<>> <=> Len(got) = 0
  BY <1>2, <1>3, EmptySeq
<1>5. bodyEnd # "reset"  BY <1>1 DEF DeliveryInv, EndIsWritten
<1>6. body # <<>> => /\ Head(body) = EndStream /\ Len(body) = 1 /\ protocol # "grpc"
  <2> SUFFICES ASSUME body # <<>>
               PROVE  Head(body) = EndStream /\ Len(body) = 1 /\ protocol # "grpc"
    OBVIOUS
  <2>1. Head(body) = body[1] /\ body[1] \in Frame /\ Len(body) \in Nat \ {0}
    BY <1>2, TailFacts
  <2>2. 1 \in 1..Len(body)  BY <2>1
  <2>3. /\ body[1] \in Response => Len(got) + 1 <= Len(sent)
        /\ body[1] = Partial => cut
        /\ body[1] = EndStream => 1 = Len(body) /\ protocol # "grpc"
    BY <2>2 DEF ResponseInv, InOrder
  <2>4. body[1] \notin Response  BY <1>2, <1>3, <2>3
  <2> QED  BY <1>1, <2>1, <2>3, <2>4 DEF Frame
<1>7. \/ body = <<>> /\ bodyEnd = "eof" /\ read = "eof"
      \/ body # <<>> /\ bodyEnd = "eof" /\ read = "special"
  <2>1. CASE body = <<>>
    BY <1>5, <2>1 DEF Unmarshal, ResponseInv, TypeOK
  <2>2. CASE body # <<>>
    <3>1. Head(body) = EndStream /\ Len(body) = 1  BY <1>6, <2>2
    <3>2. Unmarshal = IF bodyEnd = "open" THEN {}
                      ELSE {IF bodyEnd = "eof" /\ Len(body) = 1 THEN "special" ELSE "broken"}
      BY <1>1, <2>2, <3>1, FramesAreDistinct DEF Unmarshal
    <3> QED  BY <1>5, <2>2, <3>1, <3>2 DEF ResponseInv, TypeOK
  <2> QED  BY <2>1, <2>2
<1>8. handler = "done"  BY <1>1, <1>7 DEF ResponseInv, ServerInOrder
<1>9. EndFound(read)
  <2>1. CASE protocol = "grpc"  BY <1>1, <1>7, <2>1 DEF EndFound
  <2>2. CASE protocol # "grpc" /\ read = "special"
    BY <2>2 DEF EndFound, ResponseInv, TypeOK
  <2>3. CASE protocol # "grpc" /\ read = "eof"
    <3>1. Len(body) = 0  BY <1>7, <2>3
    <3>2. head = "trailers"
      <4> SUFFICES ASSUME head # "trailers"  PROVE FALSE
        OBVIOUS
      <4>1. Len(got) + Len(body) = Len(sent) + 1
        BY <1>1, <1>8, <2>3 DEF DeliveryInv, EndIsWritten
      <4> QED  BY <1>2, <1>3, <3>1, <4>1
    <3>3. sent = <<>>  BY <3>2 DEF ResponseInv, EndIsHandlers
    <3>4. got = <<>>  BY <1>2, <1>4, <3>3, EmptySeq
    <3>5. protocol = "grpcweb"
      BY <2>3, <3>2 DEF DeliveryInv, EndIsWritten
    <3> QED  BY <2>3, <3>2, <3>4, <3>5 DEF EndFound
  <2> QED  BY <1>7, <2>1, <2>2, <2>3
<1> QED  BY <1>4, <1>7, <1>8, <1>9

LEMMA ReceiveEndDelivers == ResponseInv /\ DeliveryInv /\ ReceiveEnd => DeliveryInv'
<1> SUFFICES ASSUME ResponseInv, DeliveryInv, ReceiveEnd  PROVE DeliveryInv'
  OBVIOUS
<1>1. PICK read \in Unmarshal \ {"message"} :
         /\ protocol = "grpc" => bodyEnd # "open"
         /\ Ends(ConnReceive(read))
         /\ endRead' = EndFound(read)
         /\ Merge(endRead')
  BY DEF ReceiveEnd
<1>2. /\ ended = "open" /\ ~ConnectUnary /\ head \in {"ok", "trailers"}
      /\ UNCHANGED <<call, handler, outcome, sending, trailers, head, body, bodyEnd, cut, end, got, again>>
  BY DEF ReceiveEnd, request, response
<1>3. /\ TrailerType' /\ FlushedOnce' /\ ServerHasEnded' /\ (ended' # "open" => EndIsWritten')
      /\ UNCHANGED <<endLimit, sent, endVerdict, endTrailer>> /\ SingleResponse' = SingleResponse
  BY <1>2, ClientStepsKeepEnd
<1>4. ended' # "open"
  <2>1. ResponseInv'  BY ReceiveEndIsSound
  <2>2. EndFound(read) => endVerdict \in Verdict
    BY <1>1, <1>2, EndFoundIsTrue, ScrubIsVerdict
  <2> QED  BY <1>1, <2>2 DEF Ends, ConnReceive, Verdict
<1>5. gotTrailer = 0 /\ gotTrailer' \in Nat
  <2>1. gotTrailer = 0  BY <1>2 DEF DeliveryInv, IsDelivered
  <2> QED  BY <1>1, <2>1 DEF Merge
<1>6. Excused' = Excused
  BY <1>2, <1>3 DEF Excused
<1>7. ASSUME ~Excused
      PROVE  /\ handler = "done" /\ ended' = endVerdict
             /\ gotTrailer' = IF endTrailer THEN 1 ELSE 0
  <2>1. /\ EndFound(read) /\ read \in {"eof", "special"} /\ handler = "done"
        /\ sent = <<>> <=> Len(got) = 0
    BY <1>1, <1>2, <1>7, EndIsFound
  <2>2. ConnReceive(read) = endVerdict  BY <2>1 DEF ConnReceive
  <2>3. ~(SingleResponse /\ endVerdict = "ok" /\ crecv = "idle")
    <3>1. SingleResponse /\ crecv = "idle" => Len(got) = 0
      BY <1>2 DEF ResponseInv, ClientInOrder
    <3> QED  BY <1>7, <2>1, <3>1 DEF Excused
  <2>4. ended' = endVerdict  BY <1>1, <2>2, <2>3 DEF Ends
  <2>5. gotTrailer' = IF endTrailer THEN 1 ELSE 0  BY <1>1, <1>5, <2>1 DEF Merge
  <2> QED  BY <2>1, <2>4, <2>5
<1>8. IsDelivered'
  BY <1>2, <1>3, <1>4, <1>5, <1>6, <1>7 DEF IsDelivered
<1> QED  BY <1>3, <1>4, <1>8 DEF DeliveryInv

LEMMA ReceiveUnaryDelivers ==
    ResponseInv /\ DeliveryInv /\ (ReceiveUnary \/ ReceiveRefused) => DeliveryInv'
<1> SUFFICES ASSUME ResponseInv, DeliveryInv, ReceiveUnary \/ ReceiveRefused  PROVE DeliveryInv'
  OBVIOUS
<1>1. /\ ended = "open"
      /\ UNCHANGED <<call, handler, outcome, sending, trailers, head, body, bodyEnd, cut, end, again>>
  BY DEF ReceiveUnary, ReceiveRefused, request, response
<1>2. /\ TrailerType' /\ FlushedOnce' /\ ServerHasEnded' /\ (ended' # "open" => EndIsWritten')
      /\ UNCHANGED <<endLimit, sent, endVerdict, endTrailer>> /\ SingleResponse' = SingleResponse
  BY <1>1, ClientStepsKeepEnd
<1>3. gotTrailer = 0  BY <1>1 DEF DeliveryInv, IsDelivered
<1>4. bodyEnd = "reset" => cut  BY DEF DeliveryInv, EndIsWritten
<1>5. bodyEnd \in {"open", "eof", "reset"}  BY DEF ResponseInv, TypeOK
<1>6. CASE ReceiveRefused
  <2>1. ended' = "local" /\ gotTrailer' = 0  BY <1>3, <1>6 DEF ReceiveRefused
  <2>2. cut \/ head = "refused"
    <3> SUFFICES ASSUME head = "none", bodyEnd # "open", ~cut  PROVE FALSE
      BY <1>6 DEF ReceiveRefused
    <3>1. handler = "done"  BY <1>4, <1>5 DEF ResponseInv, ServerInOrder
    <3> QED  BY <3>1 DEF DeliveryInv, ServerHasEnded
  <2>3. Excused'  BY <1>1, <2>2 DEF Excused
  <2>4. IsDelivered'  BY <2>1, <2>3 DEF IsDelivered
  <2> QED  BY <1>2, <2>1, <2>4 DEF DeliveryInv
<1>7. CASE ReceiveUnary
  <2>1. ConnectUnary /\ head \in {"ok", "error"} /\ bodyEnd # "open" /\ SingleResponse
    BY <1>7 DEF ReceiveUnary, ConnectUnary, Unary, SingleResponse
  <2>2. Len(got) = 0
    BY <1>1, <2>1 DEF ResponseInv, ClientInOrder
  <2>3. sent \in Seq(Response) /\ Len(sent) \in Nat /\ DOMAIN sent = 1..Len(sent)
    BY DEF ResponseInv, TypeOK
  <2>4. CASE bodyEnd = "reset" /\ ended' = "local" /\ UNCHANGED gotTrailer
    <3>1. Excused'  BY <1>1, <1>4, <2>4 DEF Excused
    <3>2. IsDelivered'  BY <1>3, <2>4, <3>1 DEF IsDelivered
    <3> QED  BY <1>2, <2>4, <3>2 DEF DeliveryInv
  <2>5. CASE bodyEnd = "eof" /\ head = "error" /\ ended' = endVerdict /\ Merge(TRUE)
    <3>1. outcome \in Outcome /\ endVerdict = scrubHandlerError(outcome)
      BY <2>5 DEF ResponseInv, EndIsHandlers, TypeOK
    <3>2. ended' # "open"  BY <2>5, <3>1, ScrubIsVerdict DEF Verdict
    <3>3. handler = "done"  BY <2>1, <2>5 DEF ResponseInv, ServerInOrder
    <3>4. gotTrailer' = IF endTrailer THEN 1 ELSE 0  BY <1>3, <2>5 DEF Merge
    <3>5. IsDelivered'  BY <1>1, <1>2, <2>5, <3>2, <3>3, <3>4 DEF IsDelivered
    <3> QED  BY <1>2, <3>2, <3>5 DEF DeliveryInv
  <2>6. CASE bodyEnd = "eof" /\ head = "ok" /\ Merge(TRUE) /\ ended' = "ok"
    <3>1. endVerdict = "ok"  BY <2>1, <2>6 DEF DeliveryInv, EndIsWritten
    <3>2. handler = "done"  BY <2>1, <2>6 DEF ResponseInv, ServerInOrder
    <3>3. gotTrailer' = IF endTrailer THEN 1 ELSE 0  BY <1>3, <2>6 DEF Merge
    <3>4. IsDelivered'  BY <1>1, <1>2, <2>6, <3>1, <3>2, <3>3 DEF IsDelivered
    <3> QED  BY <1>2, <2>6, <3>4 DEF DeliveryInv
  <2>7. CASE bodyEnd = "eof" /\ head = "ok" /\ Merge(TRUE) /\ ended' = "local" /\ UNCHANGED got
    <3>1. endVerdict = "ok"  BY <2>1, <2>7 DEF DeliveryInv, EndIsWritten
    <3>2. Excused'
      <4>1. CASE sent = <<>>  BY <1>2, <2>1, <3>1, <4>1 DEF Excused
      <4>2. CASE sent # <<>>
        <5>1. Len(sent) # 0  BY <2>3, <4>2, EmptySeq
        <5>2. 1 \in 1..Len(sent)  BY <2>3, <5>1
        <5>3. \E i \in DOMAIN sent' : i > Len(got')  BY <1>2, <2>2, <2>3, <2>7, <5>2
        <5> QED  BY <5>3 DEF Excused
      <4> QED  BY <4>1, <4>2
    <3>3. gotTrailer' \in Nat  BY <1>3, <2>7 DEF Merge
    <3>4. IsDelivered'  BY <2>7, <3>2, <3>3 DEF IsDelivered
    <3> QED  BY <1>2, <2>7, <3>4 DEF DeliveryInv
  <2> QED  BY <1>7, <2>4, <2>5, <2>6, <2>7 DEF ReceiveUnary
<1> QED  BY <1>6, <1>7

LEMMA ReceiveAgainDelivers == ResponseInv /\ DeliveryInv /\ ReceiveAgain => DeliveryInv'
<1> SUFFICES ASSUME ResponseInv, DeliveryInv, ReceiveAgain  PROVE DeliveryInv'
  OBVIOUS
<1>1. /\ ended # "open" /\ ended' = ended /\ got' = got
      /\ UNCHANGED <<call, handler, outcome, sending, trailers, head, bodyEnd, cut, end>>
      /\ \E told : again' = Append(again, told)
      /\ \/ gotTrailer' = gotTrailer
         \/ Merge(endRead /\ head # "trailers")
  BY DEF ReceiveAgain, request, response
<1>2. /\ TrailerType' /\ FlushedOnce' /\ ServerHasEnded' /\ (ended' # "open" => EndIsWritten')
      /\ UNCHANGED <<endLimit, sent, endVerdict, endTrailer>> /\ SingleResponse' = SingleResponse
  BY <1>1, ClientStepsKeepEnd
<1>3. again' # <<>>
  <2>1. ResponseInv'  BY ReceiveAgainIsSound
  <2>2. again' \in Seq(Verdict \cup {"eof", "local"})  BY <2>1 DEF ResponseInv, TypeOK
  <2>3. PICK told : again' = Append(again, told)  BY <1>1
  <2>4. again \in Seq(Verdict \cup {"eof", "local"})  BY DEF ResponseInv, TypeOK
  <2>5. Len(again') = Len(again) + 1 /\ Len(again) \in Nat  BY <2>3, <2>4
  <2>6. Len(again') # 0  BY <2>5
  <2> QED  BY <2>6
<1>4. Excused' = Excused  BY <1>1, <1>2 DEF Excused
<1>5. /\ gotTrailer \in Nat /\ gotTrailer' \in Nat /\ gotTrailer <= gotTrailer'
      /\ ~endTrailer => gotTrailer' = gotTrailer
  BY <1>1 DEF Merge, DeliveryInv, IsDelivered
<1>6. IsDelivered'
  <2>1. ASSUME ~Excused
        PROVE  /\ handler = "done" /\ ended = endVerdict
               /\ IF endTrailer THEN gotTrailer' >= 1 ELSE gotTrailer' = 0
    BY <1>1, <1>5, <2>1 DEF DeliveryInv, IsDelivered
  <2> QED  BY <1>1, <1>2, <1>3, <1>4, <1>5, <2>1 DEF IsDelivered
<1> QED  BY <1>1, <1>2, <1>6 DEF DeliveryInv

\* Steps that concern only the request, and a trailer set while the handler runs.
LEMMA OtherStepsDeliver ==
    ASSUME DeliveryInv, trailer' \in BOOLEAN, trailer' # trailer => handler = "running",
           UNCHANGED <<call, handler, outcome, sending, trailerFlushed, response, client>>
    PROVE  DeliveryInv'
<1>1. /\ UNCHANGED <<protocol, streamType, endLimit, sends, sent, wroteToBody>>
      /\ UNCHANGED <<head, body, bodyEnd, cut, endVerdict, endTrailer, got, ended, gotTrailer, again>>
      /\ ConnectUnary' = ConnectUnary /\ Unary' = Unary /\ SingleResponse' = SingleResponse
  BY DEF call, sending, response, end, client, ConnectUnary, Unary, SingleResponse
<1>2. TrailerType' /\ FlushedOnce'  BY <1>1 DEF DeliveryInv, TrailerType, FlushedOnce
<1>3. ServerHasEnded'
  <2>1. scrubHandlerError(outcome') = scrubHandlerError(outcome)  OBVIOUS
  <2> QED  BY <1>1, <2>1 DEF DeliveryInv, ServerHasEnded
<1>4. EndIsWritten'  BY <1>1 DEF DeliveryInv, EndIsWritten
<1>5. IsDelivered'
  <2>1. Excused' = Excused  BY <1>1 DEF Excused
  <2> QED  BY <1>1, <2>1 DEF DeliveryInv, IsDelivered
<1> QED  BY <1>2, <1>3, <1>4, <1>5 DEF DeliveryInv

LEMMA NextDelivers == ResponseInv /\ DeliveryInv /\ [Next]_vars => DeliveryInv'
<1> SUFFICES ASSUME ResponseInv, DeliveryInv, [Next]_vars  PROVE DeliveryInv'
  OBVIOUS
<1>1. CASE \/ ClientSends \/ ClientClosesSend \/ HandlerReceive \/ HandlerReceiveSecond
           \/ SetTrailer \/ Finished \/ UNCHANGED vars
  <2>1. trailer \in BOOLEAN  BY DEF DeliveryInv, TrailerType
  <2>2. CASE SetTrailer
    <3>1. /\ trailer' = TRUE /\ handler = "running"
          /\ UNCHANGED <<call, handler, outcome, sending, trailerFlushed, response, client>>
      BY <2>2 DEF SetTrailer, request
    <3> QED  BY <3>1, OtherStepsDeliver
  <2>3. CASE ClientSends \/ ClientClosesSend \/ HandlerReceive \/ HandlerReceiveSecond
    <3>1. UNCHANGED <<call, handler, outcome, sending, trailers, response, client>>
      BY <2>3 DEF ClientSends, ClientClosesSend, HandlerReceive, HandlerReceiveSecond
    <3> QED  BY <2>1, <3>1, OtherStepsDeliver DEF trailers
  <2>4. CASE Finished \/ UNCHANGED vars
    <3>1. UNCHANGED <<call, handler, outcome, sending, trailers, response, client>>
      BY <2>4 DEF Finished, vars, request
    <3> QED  BY <2>1, <3>1, OtherStepsDeliver DEF trailers
  <2> QED  BY <1>1, <2>2, <2>3, <2>4
<1>2. CASE HandlerSend  BY <1>2, SendDelivers
<1>3. CASE RejectCall \/ HandlerReturns  BY <1>3, CloseStepsDeliver
<1>4. CASE RefuseRequest \/ ServerEndsResponse  BY <1>4, ResponseEndDelivers
<1>5. CASE HandlerPanics \/ ConnectionLost  BY <1>5, FaultsDeliver
<1>6. CASE ReceiveMessage  BY <1>6, ReceiveMessageDelivers
<1>7. CASE ReceiveEnd  BY <1>7, ReceiveEndDelivers
<1>8. CASE ReceiveUnary \/ ReceiveRefused  BY <1>8, ReceiveUnaryDelivers
<1>9. CASE ReceiveAgain  BY <1>9, ReceiveAgainDelivers
<1> QED  BY <1>1, <1>2, <1>3, <1>4, <1>5, <1>6, <1>7, <1>8, <1>9 DEF Next

\* Close and the client's Receive: a response that has ended carries the verdict and
\* the trailers of its handler, and unless the call went wrong on the way the client
\* is told that verdict and given those trailers, in all three protocols.
THEOREM EndReachesTheClient == Spec => []EndIsDelivered
<1>1. DeliveryInv => EndIsDelivered
  BY DEF DeliveryInv, ServerHasEnded, IsDelivered, EndIsDelivered, Whole
<1> QED  BY <1>1, InitDelivery, ResponseInitIsSound, ResponseNextIsSound, NextDelivers, PTL DEF Spec
=============================================================================
