------------------------ MODULE InProcessStreamProofs ------------------------
(***************************************************************************)
(* Proofs about InProcessStream, for every number of messages.             *)
(***************************************************************************)
EXTENDS InProcessStream, TLAPS

LEMMA Contents ==
    /\ 0 \in Request /\ \A n \in Request : n < MaxRequests => n + 1 \in Request
    /\ 0 \in Response /\ \A n \in Response : n < MaxResponses => n + 1 \in Response
BY BoundsAssumption DEF Request, Response

LEMMA TypeInit == Init => TypeOK
<1> SUFFICES ASSUME Init PROVE TypeOK
  OBVIOUS
<1> USE Contents DEF Init
<1>1. send \in ClientSend /\ hsend \in ServerSend
  BY DEF ClientSend, ServerSend
<1>2. recv \in ClientReceive /\ hrecv \in ServerReceive
  BY DEF ClientReceive, ServerReceive
<1>3. /\ reqSent \in Seq(Request) /\ reqGot \in Seq(Request)
      /\ respSent \in Seq(Response) /\ respGot \in Seq(Response)
  OBVIOUS
<1>4. serverErr \in HandlerError
  BY DEF HandlerError
<1> QED BY <1>1, <1>2, <1>3, <1>4, Zenon DEF TypeOK

LEMMA TypeStep == TypeOK /\ [Next]_vars => TypeOK'
<1> SUFFICES ASSUME TypeOK, [Next]_vars PROVE TypeOK'
  OBVIOUS
<1> USE Contents DEF TypeOK, lifecycle, closing, client, handler, history
<1>1. CASE SendHeaders
  BY <1>1 DEF SendHeaders, dispatch
<1>2. CASE Send
  <2>1. hrecv' \in ServerReceive
    BY <1>2 DEF Send, ClientWrites, ServerReceive, ClientSend
  <2>2. send' \in ClientSend
    BY <1>2 DEF Send, ClientSend
  <2>3. run' \in {"unstarted", "handler", "returned", "syncing", "synced", "ending", "done"}
    BY <1>2 DEF Send, dispatch
  <2> QED BY <1>2, <2>1, <2>2, <2>3 DEF Send
<1>3. CASE SendStep
  BY <1>3 DEF SendStep, SendBlocks, SendEOF, SendCtx, SendReturns, ClientSend
<1>4. CASE CloseSend
  BY <1>4 DEF CloseSend
<1>5. CASE Close \/ CloseCancels
  <2>1. UNCHANGED <<lifecycle, run, send, recv, halfClosed, handler, history>>
    BY <1>5 DEF Close, CloseCancels
  <2>2. ctx' \in {"live", "canceled", "expired"}
    BY <1>5 DEF Close, CloseCancels, Cancel
  <2>3. closeSendCh' \in BOOLEAN /\ close' \in {"idle", "cancel", "closed"}
    BY <1>5 DEF Close, CloseCancels
  <2> QED BY <2>1, <2>2, <2>3
<1>6. CASE Receive
  <2>1. recv' \in ClientReceive
    BY <1>6 DEF Receive, ClientReceive
  <2> QED BY <1>6, <2>1 DEF Receive, dispatch
<1>7. CASE ReceiveStep
  <2>1. CASE ReceiveCtx
    BY <2>1, SMTT(60) DEF ReceiveCtx, ClientReceive
  <2>2. CASE ReceiveEnd
    BY <2>2, SMTT(60) DEF ReceiveEnd, ClientReceive, Cancel, asClientErr, HandlerError, Verdict
  <2>3. CASE ReceiveCopies
    BY <2>3 DEF ReceiveCopies, ClientReceive, CopyFailed
  <2> QED BY <1>7, <2>1, <2>2, <2>3 DEF ReceiveStep
<1>8. CASE RequestPasses
  <2>1. send' \in ClientSend /\ hrecv' \in ServerReceive
    BY <1>8 DEF RequestPasses, SendReturns, ClientSend, ServerReceive
  <2>2. send.msg \in Request
    BY DEF ClientSend
  <2> QED BY <1>8, <2>1, <2>2 DEF RequestPasses
<1>9. CASE ResponsePasses
  <2>1. recv' \in ClientReceive /\ hsend' \in ServerSend
    BY <1>9 DEF ResponsePasses, ClientReceive, ServerSend
  <2>2. hsend.calls \in Response
    BY DEF ServerSend
  <2> QED BY <1>9, <2>1, <2>2 DEF ResponsePasses
<1>10. CASE HandlerReceive
  BY <1>10 DEF HandlerReceive, ServerReceive
<1>11. CASE HandlerReceiveStep
  <2>1. CASE HandlerReceiveCopies
    <3>1. hrecv' \in ServerReceive
      BY <2>1 DEF HandlerReceiveCopies, ServerReceive
    <3>2. hrecv.msg \in Request /\ CopyFailed \in Request
      BY DEF ServerReceive, CopyFailed
    <3> QED BY <2>1, <3>1, <3>2 DEF HandlerReceiveCopies
  <2> QED
    BY <1>11, <2>1 DEF HandlerReceiveStep, HandlerReceiveCtx, HandlerReceiveClosed,
                       HandlerReceiveEOF, ServerReceive
<1>12. CASE HandlerSend
  BY <1>12 DEF HandlerSend, ServerWrites, ClientReceive, ServerSend
<1>13. CASE HandlerSendCtx
  BY <1>13, SMTT(60) DEF HandlerSendCtx, ServerSend
<1>14. CASE HandlerReturns
  BY <1>14 DEF HandlerReturns
<1>15. CASE RunStep
  BY <1>15 DEF RunStep, SyncMetadata, MetadataSynced, CloseResponseCh, CloseServerDone
<1>16. CASE ContextDone
  BY <1>16 DEF ContextDone
<1>17. CASE UNCHANGED vars
  BY <1>17 DEF vars
<1> QED
  BY <1>1, <1>2, <1>3, <1>4, <1>5, <1>6, <1>7, <1>8, <1>9, <1>10, <1>11, <1>12,
     <1>13, <1>14, <1>15, <1>16, <1>17 DEF Next

\* Type correctness: the state of a stream pair stays well formed.
THEOREM TypeCorrect == Spec => []TypeOK
BY TypeInit, TypeStep, PTL DEF Spec

-----------------------------------------------------------------------------
(* The inductive invariant.                                                *)

\* run closes its channels after the metadata is synced, responseCh first.
RunPublishes ==
    /\ run \in {"synced", "ending", "done"} => metadata = "synced"
    /\ responseCh <=> run \in {"ending", "done"}
    /\ serverDone <=> run = "done"

\* No operation of the handler is pending outside the handler.
HandlerQuiet == run # "handler" => hrecv.pc = "idle" /\ hsend.pc = "idle"

\* What the client knows of the end is what run published.
EndKnown ==
    /\ ended # "open" =>
         /\ responseCh /\ recv.pc # "copy"
         /\ ended = IF serverErr = "nil" THEN "eof" ELSE asClientErr[serverErr]
    /\ send.res = "eof" => closeSendCh \/ serverDone

\* CloseSend is called between Sends, and a later Send stops at its first select.
HalfCloseStopsSend == halfClosed => closeSendCh /\ send.pc = "idle"

\* A message being copied is the last one accepted.
CopyHoldsLast ==
    Reusers = {} =>
      /\ hrecv.pc = "copy" => hrecv.msg = reqSent[Len(reqSent)]
      /\ recv.pc = "copy" => recv.msg = respSent[Len(respSent)]

IInv ==
    /\ TypeOK /\ NothingInFlight
    /\ RunPublishes /\ HandlerQuiet /\ EndKnown /\ HalfCloseStopsSend /\ CopyHoldsLast

LEMMA InvInit == Init => IInv
<1> SUFFICES ASSUME Init PROVE IInv
  OBVIOUS
<1>1. TypeOK
  BY TypeInit
<1>2. NothingInFlight
  BY DEF Init, NothingInFlight
<1>3. RunPublishes /\ HandlerQuiet /\ EndKnown /\ HalfCloseStopsSend /\ CopyHoldsLast
  BY DEF Init, RunPublishes, HandlerQuiet, EndKnown, HalfCloseStopsSend, CopyHoldsLast
<1> QED BY <1>1, <1>2, <1>3 DEF IInv

\* The control state: who is running, what is closed, what the client knows.
LEMMA ControlStep ==
    IInv /\ [Next]_vars => RunPublishes' /\ HandlerQuiet' /\ EndKnown' /\ HalfCloseStopsSend'
<1> SUFFICES ASSUME IInv, [Next]_vars
             PROVE  RunPublishes' /\ HandlerQuiet' /\ EndKnown' /\ HalfCloseStopsSend'
  OBVIOUS
<1> USE DEF IInv, RunPublishes, HandlerQuiet, EndKnown, HalfCloseStopsSend,
            lifecycle, closing, client, handler, history
<1>1. CASE SendHeaders
  BY <1>1 DEF SendHeaders, dispatch
<1>2. CASE Send
  BY <1>2 DEF Send, ClientWrites, dispatch
<1>3. CASE SendStep
  BY <1>3 DEF SendStep, SendBlocks, SendEOF, SendCtx, SendReturns, TypeOK, ClientSend
<1>4. CASE CloseSend \/ Close \/ CloseCancels
  BY <1>4 DEF CloseSend, Close, CloseCancels
<1>5. CASE Receive
  BY <1>5 DEF Receive, dispatch
<1>6. CASE ReceiveStep
  BY <1>6 DEF ReceiveStep, ReceiveCtx, ReceiveEnd, ReceiveCopies, TypeOK, ClientReceive
<1>7. CASE RequestPasses
  BY <1>7 DEF RequestPasses, SendReturns
<1>8. CASE ResponsePasses
  BY <1>8 DEF ResponsePasses
<1>9. CASE HandlerReceive \/ HandlerReceiveStep
  BY <1>9 DEF HandlerReceive, HandlerReceiveStep, HandlerReceiveCtx, HandlerReceiveClosed,
              HandlerReceiveEOF, HandlerReceiveCopies, InHandler, TypeOK, ServerReceive
<1>10. CASE HandlerSend \/ HandlerSendCtx
  BY <1>10 DEF HandlerSend, HandlerSendCtx, ServerWrites, InHandler, TypeOK, ClientReceive,
               ServerSend
<1>11. CASE HandlerReturns
  BY <1>11 DEF HandlerReturns, InHandler
<1>12. CASE RunStep
  BY <1>12 DEF RunStep, SyncMetadata, MetadataSynced, CloseResponseCh, CloseServerDone
<1>13. CASE ContextDone \/ UNCHANGED vars
  BY <1>13 DEF ContextDone, vars
<1> QED
  BY <1>1, <1>2, <1>3, <1>4, <1>5, <1>6, <1>7, <1>8, <1>9, <1>10, <1>11, <1>12, <1>13 DEF Next

\* The messages: what was accepted, taken and is being copied.
LEMMA MessageStep ==
    IInv /\ [Next]_vars => NothingInFlight' /\ CopyHoldsLast'
<1> SUFFICES ASSUME IInv, [Next]_vars PROVE NothingInFlight' /\ CopyHoldsLast'
  OBVIOUS
<1>0. TypeOK /\ NothingInFlight /\ CopyHoldsLast
  BY DEF IInv
<1>1. CASE UNCHANGED <<hrecv, recv, reqSent, reqGot, respSent, respGot>>
  BY <1>0, <1>1 DEF NothingInFlight, CopyHoldsLast
<1>2. CASE Send
  BY <1>0, <1>2 DEF Send, ClientWrites, NothingInFlight, CopyHoldsLast, TypeOK, ServerReceive,
                    closing, history
<1>3. CASE Receive \/ ReceiveCtx \/ ReceiveEnd
  BY <1>0, <1>3 DEF Receive, ReceiveCtx, ReceiveEnd, NothingInFlight, CopyHoldsLast, TypeOK,
                    ClientReceive, handler, history
<1>4. CASE ReceiveCopies
  BY <1>0, <1>4 DEF ReceiveCopies, NothingInFlight, CopyHoldsLast, TypeOK, handler
<1>5. CASE RequestPasses
  BY <1>0, <1>5, SMTT(60) DEF RequestPasses, NothingInFlight, CopyHoldsLast, TypeOK
<1>6. CASE ResponsePasses
  BY <1>0, <1>6 DEF ResponsePasses, NothingInFlight, CopyHoldsLast, TypeOK
<1>7. CASE HandlerReceive \/ HandlerReceiveCtx \/ HandlerReceiveClosed \/ HandlerReceiveEOF
  BY <1>0, <1>7 DEF HandlerReceive, HandlerReceiveCtx, HandlerReceiveClosed, HandlerReceiveEOF,
                    NothingInFlight, CopyHoldsLast, TypeOK, ServerReceive, client, history
<1>8. CASE HandlerReceiveCopies
  BY <1>0, <1>8 DEF HandlerReceiveCopies, NothingInFlight, CopyHoldsLast, TypeOK, client
<1>9. CASE HandlerSend
  BY <1>0, <1>9 DEF HandlerSend, ServerWrites, NothingInFlight, CopyHoldsLast, TypeOK,
                    ClientReceive, history
<1>10. CASE SendHeaders \/ SendStep \/ CloseSend \/ Close \/ CloseCancels
  BY <1>1, <1>10 DEF SendHeaders, SendStep, SendBlocks, SendEOF, SendCtx, CloseSend, Close,
                     CloseCancels, client, handler, history
<1>11. CASE HandlerSendCtx \/ HandlerReturns \/ RunStep \/ ContextDone \/ UNCHANGED vars
  BY <1>1, <1>11 DEF HandlerSendCtx, HandlerReturns, RunStep, SyncMetadata, MetadataSynced,
                     CloseResponseCh, CloseServerDone, ContextDone, vars, client, handler, history
<1> QED
  BY <1>2, <1>3, <1>4, <1>5, <1>6, <1>7, <1>8, <1>9, <1>10, <1>11
     DEF Next, ReceiveStep, HandlerReceiveStep

LEMMA InvStep == IInv /\ [Next]_vars => IInv'
BY TypeStep, ControlStep, MessageStep DEF IInv

LEMMA Invariant == Spec => []IInv
BY InvInit, InvStep, PTL DEF Spec

\* A message that Send reported as sent is taken by the peer, or is being
\* copied by it: nothing is dropped, whatever is cancelled or closed.
THEOREM SentIsTaken == Spec => []NothingInFlight
BY Invariant, PTL DEF IInv

\* Whoever learns the end of the stream finds metadata and verdict published.
THEOREM EndPublished == Spec => []EndIsPublished
<1>1. IInv => EndIsPublished
  BY DEF IInv, EndIsPublished, EndKnown, RunPublishes
<1> QED BY <1>1, Invariant, PTL

\* No request is accepted after CloseSend.
THEOREM CloseSendIsFinal == Spec => NoSendAfterCloseSend
<1>1. IInv /\ [Next]_vars => [halfClosed => reqSent' = reqSent]_vars
  <2> SUFFICES ASSUME IInv, Next, halfClosed PROVE reqSent' = reqSent
    OBVIOUS
  <2>1. ~RequestPasses
    BY DEF IInv, HalfCloseStopsSend, RequestPasses, SendReturns
  <2> QED
    BY <2>1 DEF Next, SendHeaders, Send, SendStep, SendBlocks, SendEOF, SendCtx, CloseSend, Close,
         CloseCancels, Receive, ReceiveStep, ReceiveCtx, ReceiveEnd, ReceiveCopies, ResponsePasses,
         HandlerReceive, HandlerReceiveStep, HandlerReceiveCtx, HandlerReceiveClosed,
         HandlerReceiveEOF, HandlerReceiveCopies, HandlerSend, HandlerSendCtx, HandlerReturns,
         RunStep, SyncMetadata, MetadataSynced, CloseResponseCh, CloseServerDone, ContextDone,
         history
<1> QED BY <1>1, Invariant, PTL DEF Spec, NoSendAfterCloseSend

-----------------------------------------------------------------------------
(* The stream implements its contract.                                     *)

\* A step that leaves the messages, the outcome and the end as they are.
Silent ==
    /\ UNCHANGED <<reqSent, reqGot, respSent, respGot, ended, serverErr>>
    /\ run' = run \/ {run, run'} \cap {"unstarted", "handler"} = {}
                   \/ {run, run'} \subseteq {"unstarted", "handler"}

LEMMA SilentStutters == Silent => UNCHANGED Contract!vars
BY DEF Silent, Contract!vars

LEMMA ContractStep ==
    ASSUME Reusers = {}, IInv, [Next]_vars PROVE [Contract!Next]_Contract!vars
<1> USE DEF lifecycle, closing, client, handler, history
<1>1. CASE SendHeaders \/ Send \/ Receive
  <2>1. Silent
    BY <1>1 DEF SendHeaders, Send, Receive, dispatch, Silent
  <2> QED BY <2>1, SilentStutters
<1>2. CASE SendStep \/ CloseSend \/ Close \/ CloseCancels \/ ReceiveCtx
  <2>1. Silent
    BY <1>2 DEF SendStep, SendBlocks, SendEOF, SendCtx, CloseSend, Close, CloseCancels,
                ReceiveCtx, Silent
  <2> QED BY <2>1, SilentStutters
<1>3. CASE \/ HandlerReceive \/ HandlerReceiveCtx \/ HandlerReceiveClosed \/ HandlerReceiveEOF
           \/ HandlerSend \/ HandlerSendCtx \/ ContextDone \/ UNCHANGED vars
  <2>1. Silent
    BY <1>3 DEF HandlerReceive, HandlerReceiveCtx, HandlerReceiveClosed, HandlerReceiveEOF,
                HandlerSend, HandlerSendCtx, ContextDone, vars, Silent
  <2> QED BY <2>1, SilentStutters
<1>4. CASE RunStep
  <2>1. Silent
    BY <1>4 DEF RunStep, SyncMetadata, MetadataSynced, CloseResponseCh, CloseServerDone, Silent
  <2> QED BY <2>1, SilentStutters
<1>5. CASE RequestPasses
  <2>1. send.msg \in Request
    BY DEF IInv, TypeOK, ClientSend
  <2>2. Contract!ClientSends(send.msg)
    BY <1>5 DEF RequestPasses, Contract!ClientSends
  <2> QED BY <2>1, <2>2 DEF Contract!Next
<1>6. CASE ResponsePasses
  <2>1. hsend.calls \in Response /\ run = "handler"
    BY <1>6 DEF ResponsePasses, IInv, HandlerQuiet, TypeOK, ServerSend
  <2>2. Contract!HandlerSends(hsend.calls)
    BY <1>6, <2>1 DEF ResponsePasses, Contract!HandlerSends
  <2> QED BY <2>1, <2>2 DEF Contract!Next
<1>7. CASE HandlerReceiveCopies
  <2>1. run = "handler" /\ hrecv.pc = "copy"
    BY <1>7 DEF HandlerReceiveCopies, IInv, HandlerQuiet
  <2>2. Len(reqSent) = Len(reqGot) + 1 /\ hrecv.msg = reqSent[Len(reqSent)]
    BY <2>1 DEF IInv, NothingInFlight, CopyHoldsLast
  <2>3. Len(reqGot) \in Nat /\ Len(reqGot) < Len(reqSent)
    BY <2>2 DEF IInv, TypeOK
  <2>4. reqGot' \in Contract!Take(reqSent, reqGot)
    BY <1>7, <2>2, <2>3 DEF HandlerReceiveCopies, Contract!Take
  <2>5. Contract!HandlerReceives
    BY <1>7, <2>1, <2>3, <2>4 DEF HandlerReceiveCopies, Contract!HandlerReceives
  <2> QED BY <2>5 DEF Contract!Next
<1>8. CASE ReceiveCopies
  <2>1. ended = "open"
    BY <1>8 DEF ReceiveCopies, IInv, EndKnown
  <2>2. Len(respSent) = Len(respGot) + 1 /\ recv.msg = respSent[Len(respSent)]
    BY <1>8 DEF ReceiveCopies, IInv, NothingInFlight, CopyHoldsLast
  <2>3. Len(respGot) \in Nat /\ Len(respGot) < Len(respSent)
    BY <2>2 DEF IInv, TypeOK
  <2>4. respGot' \in Contract!Take(respSent, respGot)
    BY <1>8, <2>2, <2>3 DEF ReceiveCopies, Contract!Take
  <2>5. Contract!ClientReceives
    BY <1>8, <2>1, <2>3, <2>4 DEF ReceiveCopies, Contract!ClientReceives, Verdict
  <2> QED BY <2>5 DEF Contract!Next
<1>9. CASE HandlerReturns
  <2>1. serverErr' \in HandlerError /\ Contract!HandlerReturns(serverErr')
    BY <1>9 DEF HandlerReturns, InHandler, Contract!HandlerReturns
  <2> QED BY <2>1 DEF Contract!Next
<1>10. CASE ReceiveEnd
  <2>1. run \in {"ending", "done"} /\ run' = run
    BY <1>10 DEF ReceiveEnd, IInv, RunPublishes
  <2>2. Len(respGot) = Len(respSent)
    BY <1>10 DEF ReceiveEnd, IInv, NothingInFlight, TypeOK
  <2>3. CASE ended = "open"
    <3>1. Contract!ClientEnds
      BY <1>10, <2>1, <2>2, <2>3 DEF ReceiveEnd, IInv, TypeOK, HandlerError, asClientErr,
                                     Verdict, Contract!ClientEnds
    <3> QED BY <3>1 DEF Contract!Next
  <2>4. CASE ended # "open"
    <3>1. ended' = ended
      BY <1>10, <2>4 DEF ReceiveEnd, IInv, EndKnown
    <3> QED BY <1>10, <3>1, <2>1 DEF ReceiveEnd, Contract!vars
  <2> QED BY <2>3, <2>4
<1> QED
  BY <1>1, <1>2, <1>3, <1>4, <1>5, <1>6, <1>7, <1>8, <1>9, <1>10
     DEF Next, ReceiveStep, HandlerReceiveStep

\* The in-process stream is a stream of RPCStream: messages are taken intact
\* and in order, and the end is told once, truthfully, after every response.
THEOREM Implements == ASSUME Reusers = {} PROVE Spec => ImplementsContract
<1>1. Init => Contract!Init
  BY DEF Init, Contract!Init, Verdict
<1>2. IInv /\ [Next]_vars => [Contract!Next]_Contract!vars
  BY ContractStep
<1> QED BY <1>1, <1>2, Invariant, PTL DEF Spec, ImplementsContract, Contract!Spec
=============================================================================
