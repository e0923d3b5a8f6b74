------------------------ MODULE InProcessCallsProofs ------------------------
(***************************************************************************)
(* Proofs about InProcessCalls, for any number of calls that share call    *)
(* metadata, whichever of their handlers make a call of their own.         *)
(***************************************************************************)
EXTENDS InProcessCalls, TLAPS

Fields == {"response", "trailer"}

TypeOK ==
    /\ caller \in [Ids -> {"idle", "open", "ended", "abandoned"}]
    /\ kind \in [Ids -> {"unary", "stream"}]
    /\ handle \in [Ids -> Infos]
    /\ info \in [Infos -> [Fields -> Header]]
    /\ handler \in [Ids -> {"none", "running", "returned", "synced"}]
    /\ serverInfo \in [Ids -> [Fields -> Header]]
    /\ seen \in [Ids -> {"none", Caller}]
    /\ responseMsg \in [Ids -> Nat]
    /\ serverErr \in [Ids -> Errors]
    /\ verdict \in [Ids -> Errors \cup {NotTold}]

\* Nobody changes the request headers of a client CallInfo.
RequestsAreFixed == request = [i \in Infos |-> IF i = 0 THEN Caller ELSE "none"]

\* A handler runs for a call that was made, and has returned when its caller is told.
HandlerServesCall ==
    \A id \in Ids :
      /\ caller[id] = "idle" => handler[id] = "none"
      /\ caller[id] = "ended" => handler[id] = "synced"
      /\ handler[id] # "synced" => verdict[id] = NotTold

\* The caller's calls use its CallInfo, a handler's call uses its own.
HandlesAreOwn ==
    /\ \A n \in Nested : handle[n] = n
    /\ \A c \in Calls : caller[c] # "idle" => handle[c] = 0

\* A handler sets its own metadata, and the caller's CallInfo has that of its calls.
MetadataIsOwn ==
    /\ \A id \in Ids, f \in Fields : serverInfo[id][f] \in {None, id}
    /\ \A f \in Fields : info[0][f] \in {None} \cup Calls

\* The caller makes its calls one after the other.
InTurn ==
    \A c \in Calls, d \in Calls :
        d < c /\ caller[c] # "idle" => caller[d] \in {"ended", "abandoned"}

\* What the server side of a call made carries the mark once it is told, and a handler
\* that returns such an error of another call returns it with the mark.
VerdictsAreMarked ==
    \A id \in Ids :
      /\ verdict[id].by \in {id, Client} /\ (verdict[id].by # Client => verdict[id].remote)
      /\ serverErr[id].by \in {id, Client} \/ serverErr[id].remote

NoneAbandoned == \A c \in Calls : caller[c] # "abandoned"

\* The CallInfo was cleared for the last call, and nobody wrote it in between.
ReportsLast ==
    NoneAbandoned => \A c \in Calls : MostRecent(c) =>
        /\ caller[c] = "open" => info[0] = NoMetadata
        /\ caller[c] = "ended" => info[0] = serverInfo[c]

IInv ==
    /\ TypeOK /\ RequestsAreFixed /\ HandlerServesCall /\ HandlesAreOwn /\ MetadataIsOwn
    /\ InTurn /\ ReportsLast /\ NestedIsIsolated /\ VerdictsAreMarked /\ VerdictIsHandlers
-----------------------------------------------------------------------------
(* Calls and their metadata.                                               *)

LEMMA IdsAreDistinct ==
    /\ \A c \in Calls : c \in Nat /\ c > 0 /\ c \in Ids /\ c \in Infos /\ c \notin Nested
    /\ \A n \in Nested : n \in Nat /\ n > 0 /\ n \in Ids /\ n \in Infos /\ n \notin Calls
    /\ \A id \in Ids : id \in Calls \/ id \in Nested
    /\ 0 \in Infos /\ 0 \notin Ids
BY CallsAssumption DEF Calls, Nested, NestedOf, Ids, Infos

LEMMA NoMetadataIsEmpty ==
    NoMetadata \in [Fields -> Header] /\ \A f \in Fields : NoMetadata[f] = None
BY DEF NoMetadata, Fields, Header

\* The errors the code makes, and the one nobody was told.
LEMMA ErrorsAreTyped ==
    /\ Success \in Errors /\ Success.code = "nil" /\ Success.by = Client
    /\ NotTold.code = "none" /\ NotTold.by = Client /\ NotTold \notin Errors
    /\ \A code \in Codes, by \in Makers :
         /\ Error(code, by) \in Errors
         /\ Error(code, by).code = code /\ Error(code, by).by = by
    /\ Client \in Makers /\ Ids \subseteq Makers
<1>1. \A code \in Codes, by \in Makers :
        /\ Error(code, by) \in Errors
        /\ Error(code, by).code = code /\ Error(code, by).by = by
  BY DEF Error, Errors
<1>2. "none" \notin Codes /\ "nil" \in Codes
  BY DEF Codes, Plain, Internal, Unimplemented, Unknown
<1>3. NotTold.code = "none" /\ NotTold.by = Client  BY DEF NotTold, Error
<1>4. \A err \in Errors : err.code \in Codes  BY DEF Errors
<1> QED  BY <1>1, <1>2, <1>3, <1>4 DEF Success, Makers

\* syncHeader over metadata: field by field.
LEMMA SyncIsTyped ==
    ASSUME NEW dst \in [Fields -> Header], NEW src \in [Fields -> Header]
    PROVE  /\ syncHeader(dst, src) \in [Fields -> Header]
           /\ \A f \in Fields : syncHeader(dst, src)[f] = IF src[f] = None THEN dst[f] ELSE src[f]
BY DEF syncHeader

\* What was cleared takes what the server set and nothing else.
LEMMA SyncIntoEmpty ==
    ASSUME NEW src \in [Fields -> Header]
    PROVE  syncHeader(NoMetadata, src) = src
<1>1. /\ syncHeader(NoMetadata, src) \in [Fields -> Header]
      /\ \A f \in Fields : syncHeader(NoMetadata, src)[f] = src[f]
  BY SyncIsTyped, NoMetadataIsEmpty
<1> QED  BY <1>1

\* The last call is the one that is open.
LEMMA OpenIsLast ==
    ASSUME IInv, NEW c \in Calls, NEW d \in Calls, caller[c] = "open", MostRecent(d)
    PROVE  c = d
BY IdsAreDistinct DEF IInv, InTurn, MostRecent

LEMMA CallsAreNotNested ==
    ASSUME NEW meta, \A f \in Fields : meta[f] \in {None} \cup Calls
    PROVE  meta.response \notin Nested /\ meta.trailer \notin Nested
<1>1. \A f \in Fields : meta[f] \notin Nested  BY IdsAreDistinct DEF None
<1> QED  BY <1>1 DEF Fields

-----------------------------------------------------------------------------
(* The actions.                                                            *)

\* A call clears the CallInfo it uses: the caller's own, or one that only it uses.
LEMMA CallIsSound ==
    ASSUME IInv, NEW id \in Ids, Call(id)
    PROVE  IInv'
<1>1. caller[id] = "idle" /\ handler[id] = "none"
  BY DEF Call, MayCall, IInv, HandlerServesCall
<1>2. /\ caller' = [caller EXCEPT ![id] = "open"]
      /\ UNCHANGED <<request, verdict, handler, serverInfo, seen, responseMsg, serverErr>>
  BY DEF Call
<1>3. handle' = [handle EXCEPT ![id] = IF id \in Calls THEN 0 ELSE id]
  BY DEF Call, CallInfoForClientContext, clearClientContext
<1>4. PICK k \in {"unary", "stream"} : kind' = [kind EXCEPT ![id] = k]
  BY CallsAssumption DEF Call
<1>5. handle'[id] = IF id \in Calls THEN 0 ELSE id
  BY <1>3 DEF IInv, TypeOK
<1>6. info' = [info EXCEPT ![IF id \in Calls THEN 0 ELSE id] = NoMetadata]
  BY <1>5 DEF Call, ensureClientContext
<1>7. /\ caller'[id] = "open" /\ \A x \in Ids \ {id} : caller'[x] = caller[x]
      /\ \A x \in Ids \ {id} : handle'[x] = handle[x] /\ kind'[x] = kind[x]
  BY <1>2, <1>3, <1>4 DEF IInv, TypeOK
<1>8. TypeOK'
  <2>1. handle' \in [Ids -> Infos]  BY <1>3, IdsAreDistinct DEF IInv, TypeOK
  <2>2. info' \in [Infos -> [Fields -> Header]]
    BY <1>6, IdsAreDistinct, NoMetadataIsEmpty DEF IInv, TypeOK
  <2>3. caller' \in [Ids -> {"idle", "open", "ended", "abandoned"}]  BY <1>2 DEF IInv, TypeOK
  <2>4. kind' \in [Ids -> {"unary", "stream"}]  BY <1>4 DEF IInv, TypeOK
  <2> QED  BY <1>2, <2>1, <2>2, <2>3, <2>4 DEF IInv, TypeOK
<1>9. RequestsAreFixed' /\ HandlerServesCall'
  BY <1>1, <1>2, <1>7 DEF IInv, RequestsAreFixed, HandlerServesCall
<1>10. HandlesAreOwn'
  BY <1>5, <1>7, IdsAreDistinct DEF IInv, HandlesAreOwn
<1>11. info'[0] = IF id \in Calls THEN NoMetadata ELSE info[0]
  BY <1>6, IdsAreDistinct DEF IInv, TypeOK
<1>12. MetadataIsOwn'
  BY <1>2, <1>11, NoMetadataIsEmpty DEF IInv, MetadataIsOwn
<1>13. InTurn'
  <2> SUFFICES ASSUME NEW c \in Calls, NEW d \in Calls, d < c, caller'[c] # "idle"
               PROVE  caller'[d] \in {"ended", "abandoned"}
    BY DEF InTurn
  <2>1. c \in Ids /\ d \in Ids /\ c # d  BY IdsAreDistinct
  <2>2. CASE c = id
    BY <1>7, <2>1, <2>2 DEF Call, MayCall
  <2>3. CASE c # id
    <3>1. caller[d] \in {"ended", "abandoned"}  BY <1>7, <2>1, <2>3 DEF IInv, InTurn
    <3> QED  BY <1>1, <1>7, <2>1, <3>1
  <2> QED  BY <2>2, <2>3
<1>14. ReportsLast'
  <2> SUFFICES ASSUME NoneAbandoned', NEW c \in Calls, MostRecent(c)'
               PROVE  /\ caller'[c] = "open" => info'[0] = NoMetadata
                      /\ caller'[c] = "ended" => info'[0] = serverInfo'[c]
    BY DEF ReportsLast
  <2>1. CASE id \in Calls
    <3>1. c = id
      BY <1>7, <1>13, <2>1, IdsAreDistinct DEF MostRecent, InTurn
    <3> QED  BY <1>7, <1>11, <2>1, <3>1
  <2>2. CASE id \notin Calls
    <3>1. \A d \in Calls : caller'[d] = caller[d]  BY <1>7, <2>2, IdsAreDistinct
    <3>2. NoneAbandoned /\ MostRecent(c)  BY <3>1 DEF NoneAbandoned, MostRecent
    <3> QED  BY <1>2, <1>11, <2>2, <3>1, <3>2 DEF IInv, ReportsLast
  <2> QED  BY <2>1, <2>2
<1>15. NestedIsIsolated'
  <2>1. info'[0].response \notin Nested /\ info'[0].trailer \notin Nested
    BY <1>12, CallsAreNotNested DEF MetadataIsOwn
  <2> QED  BY <1>2, <2>1 DEF IInv, NestedIsIsolated
<1>16. VerdictIsHandlers'
  <2>1. verdict[id].code # "nil"
    BY <1>1, ErrorsAreTyped DEF IInv, HandlerServesCall
  <2> QED  BY <1>2, <1>7, <2>1 DEF IInv, VerdictIsHandlers
<1>17. VerdictsAreMarked'  BY <1>2 DEF IInv, VerdictsAreMarked
<1> QED
  BY <1>8, <1>9, <1>10, <1>12, <1>13, <1>14, <1>15, <1>16, <1>17 DEF IInv

\* What leaves the callers and the metadata as they are.
LEMMA MetadataFrame ==
    ASSUME IInv, UNCHANGED <<callerVars, infoVars, serverInfo>>
    PROVE  RequestsAreFixed' /\ HandlesAreOwn' /\ MetadataIsOwn' /\ InTurn' /\ ReportsLast'
BY DEF IInv, callerVars, infoVars, RequestsAreFixed, HandlesAreOwn, MetadataIsOwn, InTurn, ReportsLast,
       NoneAbandoned, MostRecent

\* The handler of a handler's call sees no request header of the caller.
LEMMA DispatchIsSound ==
    ASSUME IInv, NEW id \in Ids, dispatch(id)
    PROVE  IInv'
<1>1. /\ caller[id] = "open" /\ handler[id] = "none"
      /\ UNCHANGED <<callerVars, infoVars, serverInfo, requestMsg, responseMsg>>
  BY DEF dispatch
<1>2. RequestsAreFixed' /\ HandlesAreOwn' /\ MetadataIsOwn' /\ InTurn' /\ ReportsLast'
  BY <1>1, MetadataFrame
<1>3. /\ \E h \in {"running", "returned"} : handler' = [handler EXCEPT ![id] = h]
      /\ serverErr' \in {serverErr, [serverErr EXCEPT ![id] = Error(Unimplemented, id)]}
  BY DEF dispatch
<1>4. /\ handler'[id] \in {"running", "returned"}
      /\ \A x \in Ids \ {id} : handler'[x] = handler[x] /\ serverErr'[x] = serverErr[x]
  BY <1>3 DEF IInv, TypeOK
<1>5. seen' = [seen EXCEPT ![id] = request[handle[id]]]  BY DEF dispatch
<1>6. request[handle[id]] \in {"none", Caller} /\ (id \in Nested => request[handle[id]] = "none")
  BY IdsAreDistinct DEF IInv, TypeOK, RequestsAreFixed, HandlesAreOwn
<1>7. TypeOK'
  <2>1. seen' \in [Ids -> {"none", Caller}]  BY <1>5, <1>6 DEF IInv, TypeOK
  <2>2. handler' \in [Ids -> {"none", "running", "returned", "synced"}]  BY <1>3 DEF IInv, TypeOK
  <2>3. serverErr' \in [Ids -> Errors]
    <3>1. Error(Unimplemented, id) \in Errors  BY ErrorsAreTyped DEF Codes
    <3> QED  BY <1>3, <3>1 DEF IInv, TypeOK
  <2> QED  BY <1>1, <2>1, <2>2, <2>3 DEF IInv, TypeOK, callerVars, infoVars
<1>8. HandlerServesCall'
  BY <1>1, <1>4 DEF IInv, HandlerServesCall, callerVars
<1>9. \A n \in Nested : seen'[n] # Caller
  BY <1>5, <1>6 DEF IInv, TypeOK, NestedIsIsolated, Caller
<1>10. NestedIsIsolated'
  BY <1>1, <1>9 DEF IInv, NestedIsIsolated, infoVars
<1>11. VerdictIsHandlers'
  <2>1. verdict[id].code # "nil"
    BY <1>1, ErrorsAreTyped DEF IInv, HandlerServesCall
  <2> QED  BY <1>1, <1>4, <2>1 DEF IInv, VerdictIsHandlers, callerVars
<1>12. VerdictsAreMarked'
  <2>1. serverErr'[id] \in {serverErr[id], Error(Unimplemented, id)}
    BY <1>3 DEF IInv, TypeOK
  <2>2. Error(Unimplemented, id).by = id  BY DEF Error
  <2> QED  BY <1>1, <1>4, <2>1, <2>2 DEF IInv, VerdictsAreMarked, callerVars
<1> QED  BY <1>2, <1>7, <1>8, <1>10, <1>11, <1>12 DEF IInv

\* Close abandons a call: nothing is promised for the caller's CallInfo from then on.
LEMMA CloseIsSound ==
    ASSUME IInv, NEW id \in Ids, Close(id)
    PROVE  IInv'
<1>1. /\ caller[id] = "open" /\ caller' = [caller EXCEPT ![id] = "abandoned"]
      /\ UNCHANGED <<kind, handle, verdict, handlerVars, infoVars>>
  BY DEF Close
<1>2. caller'[id] = "abandoned" /\ \A x \in Ids \ {id} : caller'[x] = caller[x]
  BY <1>1 DEF IInv, TypeOK
<1>3. TypeOK'  BY <1>1 DEF IInv, TypeOK, handlerVars, infoVars
<1>4. RequestsAreFixed' /\ MetadataIsOwn' /\ NestedIsIsolated' /\ VerdictsAreMarked'
      /\ VerdictIsHandlers'
  BY <1>1 DEF IInv, RequestsAreFixed, MetadataIsOwn, NestedIsIsolated, VerdictsAreMarked,
             VerdictIsHandlers, handlerVars, infoVars
<1>5. HandlerServesCall' /\ HandlesAreOwn'
  BY <1>1, <1>2, IdsAreDistinct DEF IInv, HandlerServesCall, HandlesAreOwn, handlerVars
<1>6. InTurn'  BY <1>1, <1>2, IdsAreDistinct DEF IInv, InTurn
<1>7. ReportsLast'
  <2>1. CASE id \in Calls  BY <1>2, <2>1 DEF ReportsLast, NoneAbandoned
  <2>2. CASE id \notin Calls
    <3>1. \A d \in Calls : caller'[d] = caller[d]  BY <1>2, <2>2, IdsAreDistinct
    <3> QED
      BY <1>1, <3>1 DEF IInv, ReportsLast, NoneAbandoned, MostRecent, handlerVars, infoVars
  <2> QED  BY <2>1, <2>2
<1> QED  BY <1>3, <1>4, <1>5, <1>6, <1>7 DEF IInv

\* Receive and Send of the handler.
LEMMA HandlerStreamIsSound ==
    ASSUME IInv, NEW id \in Ids, HandlerReceive(id) \/ HandlerSend(id)
    PROVE  IInv'
<1>1. /\ UNCHANGED <<callerVars, infoVars, handler, serverInfo, seen, serverErr>>
      /\ responseMsg' \in {responseMsg, [responseMsg EXCEPT ![id] = @ + 1]}
  BY DEF HandlerReceive, HandlerSend
<1>2. responseMsg' \in [Ids -> Nat] /\ \A x \in Ids : responseMsg[x] > 0 => responseMsg'[x] > 0
  <2>1. CASE responseMsg' = responseMsg  BY <2>1 DEF IInv, TypeOK
  <2>2. CASE responseMsg' = [responseMsg EXCEPT ![id] = @ + 1]  BY <2>2 DEF IInv, TypeOK
  <2> QED  BY <1>1, <2>1, <2>2
<1>3. RequestsAreFixed' /\ HandlesAreOwn' /\ MetadataIsOwn' /\ InTurn' /\ ReportsLast'
  BY <1>1, MetadataFrame
<1>4. TypeOK'  BY <1>1, <1>2 DEF IInv, TypeOK, callerVars, infoVars
<1>5. HandlerServesCall' /\ NestedIsIsolated'
  BY <1>1 DEF IInv, HandlerServesCall, NestedIsIsolated, callerVars, infoVars
<1>6. VerdictsAreMarked' /\ VerdictIsHandlers'
  BY <1>1, <1>2 DEF IInv, VerdictsAreMarked, VerdictIsHandlers, callerVars
<1> QED  BY <1>3, <1>4, <1>5, <1>6 DEF IInv

\* A handler sets metadata of its own call, while nobody was told of the call's end.
LEMMA SetsMetadataIsSound ==
    ASSUME IInv, NEW id \in Ids, NEW f \in Fields, HandlerSetsMetadata(id, f)
    PROVE  IInv'
<1>1. /\ handler[id] = "running" /\ serverInfo' = [serverInfo EXCEPT ![id][f] = id]
      /\ UNCHANGED <<callerVars, infoVars, handler, seen, requestMsg, responseMsg, serverErr>>
  BY DEF HandlerSetsMetadata, Running
<1>2. /\ serverInfo' \in [Ids -> [Fields -> Header]]
      /\ \A x \in Ids \ {id} : serverInfo'[x] = serverInfo[x]
      /\ \A g \in Fields : serverInfo'[id][g] \in {serverInfo[id][g], id}
  BY <1>1 DEF IInv, TypeOK, Header
<1>3. TypeOK'  BY <1>1, <1>2 DEF IInv, TypeOK, callerVars, infoVars
<1>4. RequestsAreFixed' /\ HandlerServesCall' /\ HandlesAreOwn' /\ InTurn' /\ NestedIsIsolated'
      /\ VerdictsAreMarked' /\ VerdictIsHandlers'
  BY <1>1 DEF IInv, RequestsAreFixed, HandlerServesCall, HandlesAreOwn, InTurn, NestedIsIsolated,
             VerdictsAreMarked, VerdictIsHandlers, callerVars, infoVars
<1>5. MetadataIsOwn'  BY <1>1, <1>2 DEF IInv, MetadataIsOwn, infoVars
<1>6. ReportsLast'
  <2> SUFFICES ASSUME NoneAbandoned, NEW c \in Calls, MostRecent(c)
               PROVE  /\ caller[c] = "open" => info[0] = NoMetadata
                      /\ caller[c] = "ended" => info[0] = serverInfo'[c]
    BY <1>1 DEF ReportsLast, NoneAbandoned, MostRecent, callerVars, infoVars
  <2>1. caller[c] = "ended" => c # id /\ c \in Ids
    BY <1>1, IdsAreDistinct DEF IInv, HandlerServesCall
  <2> QED  BY <1>2, <2>1 DEF IInv, ReportsLast
<1> QED  BY <1>3, <1>4, <1>5, <1>6 DEF IInv

\* The handler returns or panics; its caller is not told yet.
LEMMA HandlerEndsIsSound ==
    ASSUME IInv, NEW id \in Ids, HandlerReturns(id) \/ HandlerPanics(id)
    PROVE  IInv'
<1>1. /\ handler[id] = "running" /\ handler' = [handler EXCEPT ![id] = "returned"]
      /\ UNCHANGED <<callerVars, infoVars, serverInfo, seen, requestMsg, responseMsg>>
  BY DEF HandlerReturns, HandlerPanics, Running
<1>2. PICK e \in Errors : /\ serverErr' = [serverErr EXCEPT ![id] = e]
                         /\ (e.by \in {id, Client} \/ e.remote)
  <2>0. \A code \in {"failed", Plain, Internal} :
          Error(code, id) \in Errors /\ Error(code, id).by = id
    <3>1. {"failed", Plain, Internal} \subseteq Codes /\ id \in Makers
      BY ErrorsAreTyped DEF Codes
    <3> QED  BY <3>1, ErrorsAreTyped
  <2>1. CASE HandlerPanics(id)
    <3>1. serverErr' = [serverErr EXCEPT ![id] = Error(Internal, id)]  BY <2>1 DEF HandlerPanics
    <3> QED  BY <2>0, <3>1
  <2>2. CASE HandlerReturns(id)
    <3>1. PICK e \in {Success, Error("failed", id), Error(Plain, id)}
                     \cup {verdict[NestedOf(c)] : c \in Nests \cap {id}} :
            e # NotTold /\ serverErr' = [serverErr EXCEPT ![id] = e]
      BY <2>2 DEF HandlerReturns
    <3>2. CASE e \in {Success, Error("failed", id), Error(Plain, id)}
      <4>1. e \in Errors /\ e.by \in {id, Client}  BY <2>0, <3>2, ErrorsAreTyped
      <4> QED  BY <3>1, <4>1
    <3>3. CASE id \in Nests /\ e = verdict[NestedOf(id)]
      <4>1. NestedOf(id) \in Ids  BY <3>3 DEF Ids, Nested
      <4>2. e \in Errors  BY <3>1, <3>3, <4>1 DEF IInv, TypeOK
      <4>3. e.by # Client => e.remote  BY <3>3, <4>1 DEF IInv, VerdictsAreMarked
      <4> QED  BY <3>1, <4>2, <4>3
    <3> QED  BY <3>1, <3>2, <3>3
  <2> QED  BY <2>1, <2>2
<1>4. /\ handler'[id] = "returned" /\ serverErr'[id] = e
      /\ \A x \in Ids \ {id} : handler'[x] = handler[x] /\ serverErr'[x] = serverErr[x]
  BY <1>1, <1>2 DEF IInv, TypeOK
<1>5. RequestsAreFixed' /\ HandlesAreOwn' /\ MetadataIsOwn' /\ InTurn' /\ ReportsLast'
  BY <1>1, MetadataFrame
<1>6. TypeOK'
  <2>1. serverErr' \in [Ids -> Errors]  BY <1>2 DEF IInv, TypeOK
  <2>2. handler' \in [Ids -> {"none", "running", "returned", "synced"}]  BY <1>1 DEF IInv, TypeOK
  <2> QED  BY <1>1, <2>1, <2>2 DEF IInv, TypeOK, callerVars, infoVars
<1>7. HandlerServesCall' /\ NestedIsIsolated'
  BY <1>1, <1>4 DEF IInv, HandlerServesCall, NestedIsIsolated, callerVars, infoVars
<1>8. VerdictIsHandlers'
  <2>1. verdict[id].code # "nil"
    BY <1>1, ErrorsAreTyped DEF IInv, HandlerServesCall
  <2> QED  BY <1>1, <1>4, <2>1 DEF IInv, VerdictIsHandlers, callerVars
<1>9. VerdictsAreMarked'
  BY <1>1, <1>2, <1>4 DEF IInv, VerdictsAreMarked, callerVars
<1> QED  BY <1>5, <1>6, <1>7, <1>8, <1>9 DEF IInv

\* What a caller is told.
LEMMA ToldIsTrue ==
    ASSUME IInv, NEW id \in Ids, NEW told \in Told(id)
    PROVE  /\ told \in Errors
           /\ told.code = "nil" =>
                serverErr[id].code = "nil" /\ (kind[id] = "unary" => responseMsg[id] > 0)
           /\ told.by \in {id, Client} /\ (told.by # Client => told.remote)
<1> DEFINE err == serverErr[id]
<1>1. /\ err \in Errors /\ responseMsg[id] \in Nat
      /\ err.by \in {id, Client} \/ err.remote
  BY DEF IInv, TypeOK, VerdictsAreMarked
<1>2. CASE kind[id] = "unary" /\ err.code = "nil"
  <2>1. told \in IF responseMsg[id] = 0 THEN {Error(Unimplemented, Client)}
                 ELSE {Success, Error(Plain, Client)}
    BY <1>2 DEF Told
  <2> QED
    BY <1>1, <1>2, <2>1, ErrorsAreTyped DEF Codes, Unimplemented, Plain
<1>3. CASE ~(kind[id] = "unary" /\ err.code = "nil")
  <2>1. told = asClientErr(id)  BY <1>3 DEF Told
  <2>2. CASE err.code = "nil"
    <3>1. told = Success  BY <2>1, <2>2 DEF asClientErr
    <3> QED  BY <1>3, <2>2, <3>1, ErrorsAreTyped
  <2>3. CASE err.code # "nil"
    <3>1. \/ err.remote /\ told = [code |-> Internal, by |-> id, remote |-> TRUE]
          \/ ~err.remote /\ \E code \in {Unknown, err.code} :
                              told = [code |-> code, by |-> err.by, remote |-> TRUE]
      BY <2>1, <2>3 DEF asClientErr
    <3>2. PICK code \in Codes, by \in {id, Client} :
            code # "nil" /\ told = [code |-> code, by |-> by, remote |-> TRUE]
      <4>1. /\ Internal \in Codes /\ Internal # "nil" /\ Unknown \in Codes /\ Unknown # "nil"
            /\ err.code \in Codes
        BY <1>1 DEF Errors, Codes, Internal, Unknown
      <4> QED  BY <1>1, <2>3, <3>1, <4>1
    <3>3. by \in Makers  BY ErrorsAreTyped
    <3> QED  BY <3>2, <3>3 DEF Errors
  <2> QED  BY <2>2, <2>3
<1> QED  BY <1>2, <1>3

\* The copy of the metadata goes to the CallInfo of the call, which was cleared for it.
LEMMA DispatchReturnsIsSound ==
    ASSUME IInv, NEW id \in Ids, DispatchReturns(id)
    PROVE  IInv'
<1>1. /\ handler[id] = "returned" /\ handler' = [handler EXCEPT ![id] = "synced"]
      /\ info' = [info EXCEPT ![handle[id]] = syncHeader(info[handle[id]], serverInfo[id])]
      /\ UNCHANGED <<kind, handle, request, serverInfo, seen, requestMsg, responseMsg, serverErr>>
  BY DEF DispatchReturns
<1>2. \/ /\ caller[id] = "open" /\ caller' = [caller EXCEPT ![id] = "ended"]
         /\ \E told \in Told(id) : verdict' = [verdict EXCEPT ![id] = told]
      \/ caller[id] # "open" /\ UNCHANGED <<caller, verdict>>
  BY DEF DispatchReturns
<1>3. handler'[id] = "synced" /\ \A x \in Ids \ {id} : handler'[x] = handler[x]
  BY <1>1 DEF IInv, TypeOK
<1>4. /\ caller[id] # "idle" /\ caller[id] # "ended"
      /\ caller'[id] = (IF caller[id] = "open" THEN "ended" ELSE caller[id])
      /\ \A x \in Ids \ {id} : caller'[x] = caller[x] /\ verdict'[x] = verdict[x]
  BY <1>1, <1>2 DEF IInv, TypeOK, HandlerServesCall
<1>5. \/ verdict'[id] = verdict[id]
      \/ \E told \in Told(id) : verdict'[id] = told
  BY <1>2 DEF IInv, TypeOK
<1> DEFINE synced == syncHeader(info[handle[id]], serverInfo[id])
<1>6. /\ synced \in [Fields -> Header]
      /\ \A f \in Fields : synced[f] \in {info[handle[id]][f], serverInfo[id][f]}
      /\ info[handle[id]] = NoMetadata => synced = serverInfo[id]
  <2>1. handle[id] \in Infos /\ info[handle[id]] \in [Fields -> Header] /\ serverInfo[id] \in [Fields -> Header]
    BY DEF IInv, TypeOK
  <2>2. /\ synced \in [Fields -> Header]
        /\ \A f \in Fields : synced[f] = IF serverInfo[id][f] = None THEN info[handle[id]][f]
                                         ELSE serverInfo[id][f]
    BY <2>1, SyncIsTyped
  <2>3. info[handle[id]] = NoMetadata => synced = serverInfo[id]  BY <2>1, SyncIntoEmpty
  <2> HIDE DEF synced
  <2> QED  BY <2>2, <2>3
<1> HIDE DEF synced
<1>7. info' = [info EXCEPT ![handle[id]] = synced]  BY <1>1 DEF synced
<1>8. info'[0] = IF id \in Calls THEN synced ELSE info[0]
  <2>1. handle[id] = IF id \in Calls THEN 0 ELSE id
    BY <1>4, IdsAreDistinct DEF IInv, HandlesAreOwn
  <2> QED  BY <1>7, <2>1, IdsAreDistinct DEF IInv, TypeOK
<1>9. TypeOK'
  <2>1. info' \in [Infos -> [Fields -> Header]]  BY <1>6, <1>7 DEF IInv, TypeOK
  <2>2. handler' \in [Ids -> {"none", "running", "returned", "synced"}]  BY <1>1 DEF IInv, TypeOK
  <2>3. caller' \in [Ids -> {"idle", "open", "ended", "abandoned"}]
    <3>1. caller \in [Ids -> {"idle", "open", "ended", "abandoned"}]  BY DEF IInv, TypeOK
    <3>2. caller' = [caller EXCEPT ![id] = "ended"] \/ caller' = caller  BY <1>2
    <3> QED  BY <3>1, <3>2
  <2>4. verdict' \in [Ids -> Errors \cup {NotTold}]
    <3>1. verdict \in [Ids -> Errors \cup {NotTold}]  BY DEF IInv, TypeOK
    <3>2. CASE \E told \in Told(id) : verdict' = [verdict EXCEPT ![id] = told]
      <4>1. PICK told \in Told(id) : verdict' = [verdict EXCEPT ![id] = told]  BY <3>2
      <4>2. told \in Errors  BY ToldIsTrue
      <4> QED  BY <3>1, <4>1, <4>2
    <3> QED  BY <1>2, <3>1, <3>2
  <2> QED  BY <1>1, <2>1, <2>2, <2>3, <2>4 DEF IInv, TypeOK
<1>10. RequestsAreFixed'  BY <1>1 DEF IInv, RequestsAreFixed
<1>11. HandlerServesCall'  BY <1>3, <1>4 DEF IInv, HandlerServesCall
<1>12. HandlesAreOwn'  BY <1>1, <1>4, IdsAreDistinct DEF IInv, HandlesAreOwn
<1>13. MetadataIsOwn'
  <2>1. id \in Calls => \A f \in Fields : synced[f] \in {None} \cup Calls
    BY <1>4, <1>6 DEF IInv, MetadataIsOwn, HandlesAreOwn
  <2> QED  BY <1>1, <1>8, <2>1 DEF IInv, MetadataIsOwn
<1>14. InTurn'  BY <1>4, IdsAreDistinct DEF IInv, InTurn
<1>15. ReportsLast'
  <2> SUFFICES ASSUME NoneAbandoned', NEW c \in Calls, MostRecent(c)'
               PROVE  /\ caller'[c] = "open" => info'[0] = NoMetadata
                      /\ caller'[c] = "ended" => info'[0] = serverInfo[c]
    BY <1>1 DEF ReportsLast
  <2>1. \A d \in Calls : d \in Ids /\ (caller'[d] = "idle" <=> caller[d] = "idle")
    BY <1>4, IdsAreDistinct
  <2>2. MostRecent(c)  BY <2>1 DEF MostRecent
  <2>3. NoneAbandoned  BY <1>4, <2>1 DEF NoneAbandoned
  <2>4. CASE id \in Calls
    <3>1. caller[id] = "open"  BY <1>4, <2>3, <2>4 DEF NoneAbandoned, IInv, TypeOK
    <3>2. c = id  BY <2>2, <2>4, <3>1, OpenIsLast
    <3>3. info[handle[id]] = NoMetadata
      BY <1>4, <2>2, <2>3, <2>4, <3>1, <3>2 DEF IInv, ReportsLast, HandlesAreOwn
    <3> QED  BY <1>4, <1>6, <1>8, <2>4, <3>1, <3>2, <3>3
  <2>5. CASE id \notin Calls
    BY <1>4, <1>8, <2>1, <2>2, <2>3, <2>5 DEF IInv, ReportsLast
  <2> QED  BY <2>4, <2>5
<1>16. NestedIsIsolated'
  <2>1. info'[0].response \notin Nested /\ info'[0].trailer \notin Nested
    BY <1>13, CallsAreNotNested DEF MetadataIsOwn
  <2> QED  BY <1>1, <2>1 DEF IInv, NestedIsIsolated
<1>17. VerdictIsHandlers' /\ VerdictsAreMarked'
  <2>1. verdict[id] = NotTold  BY <1>1 DEF IInv, HandlerServesCall
  <2>2. /\ verdict'[id].code = "nil" =>
             serverErr[id].code = "nil" /\ (kind[id] = "unary" => responseMsg[id] > 0)
        /\ verdict'[id].by \in {id, Client} /\ (verdict'[id].by # Client => verdict'[id].remote)
    BY <1>5, <2>1, ToldIsTrue, ErrorsAreTyped
  <2> QED  BY <1>1, <1>3, <1>4, <2>2 DEF IInv, VerdictIsHandlers, VerdictsAreMarked
<1> QED
  BY <1>9, <1>10, <1>11, <1>12, <1>13, <1>14, <1>15, <1>16, <1>17 DEF IInv

-----------------------------------------------------------------------------
(* The theorems.                                                           *)

LEMMA InitIsSound == Init => IInv
<1> SUFFICES ASSUME Init  PROVE IInv  OBVIOUS
<1>1. TypeOK
  BY IdsAreDistinct, NoMetadataIsEmpty, ErrorsAreTyped DEF Init, TypeOK
<1>2. RequestsAreFixed /\ HandlerServesCall /\ InTurn /\ ReportsLast
  BY IdsAreDistinct
  DEF Init, RequestsAreFixed, HandlerServesCall, InTurn, ReportsLast, MostRecent
<1>6. VerdictsAreMarked /\ VerdictIsHandlers
  BY ErrorsAreTyped DEF Init, VerdictsAreMarked, VerdictIsHandlers
<1>3. HandlesAreOwn  BY IdsAreDistinct DEF Init, HandlesAreOwn
<1>4. MetadataIsOwn  BY IdsAreDistinct, NoMetadataIsEmpty DEF Init, MetadataIsOwn
<1>5. NestedIsIsolated
  <2>1. info[0].response \notin Nested /\ info[0].trailer \notin Nested
    BY <1>4, CallsAreNotNested DEF MetadataIsOwn
  <2> QED  BY <2>1, IdsAreDistinct DEF Init, NestedIsIsolated, Caller
<1> QED  BY <1>1, <1>2, <1>3, <1>4, <1>5, <1>6 DEF IInv

LEMMA NextIsSound == IInv /\ [Next]_vars => IInv'
<1> SUFFICES ASSUME IInv, [Next]_vars  PROVE IInv'  OBVIOUS
<1>1. ASSUME NEW id \in Ids, Call(id)  PROVE IInv'  BY <1>1, CallIsSound
<1>2. ASSUME NEW id \in Ids, dispatch(id)  PROVE IInv'  BY <1>2, DispatchIsSound
<1>3. ASSUME NEW id \in Ids, Close(id)  PROVE IInv'  BY <1>3, CloseIsSound
<1>4. ASSUME NEW id \in Ids, HandlerReceive(id) \/ HandlerSend(id)  PROVE IInv'
  BY <1>4, HandlerStreamIsSound
<1>5. ASSUME NEW id \in Ids, NEW f \in {"response", "trailer"}, HandlerSetsMetadata(id, f)
      PROVE  IInv'
  BY <1>5, SetsMetadataIsSound DEF Fields
<1>6. ASSUME NEW id \in Ids, HandlerReturns(id) \/ HandlerPanics(id)  PROVE IInv'
  BY <1>6, HandlerEndsIsSound
<1>7. ASSUME NEW id \in Ids, DispatchReturns(id)  PROVE IInv'  BY <1>7, DispatchReturnsIsSound
<1>8. CASE Finished \/ UNCHANGED vars
  <2>1. UNCHANGED <<callerVars, infoVars, handlerVars>>  BY <1>8 DEF Finished, vars
  <2>2. RequestsAreFixed' /\ HandlesAreOwn' /\ MetadataIsOwn' /\ InTurn' /\ ReportsLast'
    BY <2>1, MetadataFrame DEF handlerVars
  <2>3. TypeOK' /\ HandlerServesCall' /\ NestedIsIsolated' /\ VerdictsAreMarked'
        /\ VerdictIsHandlers'
    BY <2>1 DEF IInv, TypeOK, HandlerServesCall, NestedIsIsolated, VerdictsAreMarked,
               VerdictIsHandlers, callerVars, infoVars, handlerVars
  <2> QED  BY <2>2, <2>3 DEF IInv
<1> QED  BY <1>1, <1>2, <1>3, <1>4, <1>5, <1>6, <1>7, <1>8 DEF Next

LEMMA AlwaysIInv == Spec => []IInv
BY InitIsSound, NextIsSound, PTL DEF Spec

\* A caller that reads its streams to their end finds in its CallInfo, once the last call
\* has ended, what that call's handler set and nothing else.
THEOREM HandleReportsLast == Spec => []ReportsLastEnded
<1>1. IInv => ReportsLastEnded
  BY DEF IInv, ReportsLast, NoneAbandoned, ReportsLastEnded
<1> QED  BY <1>1, AlwaysIInv, PTL

\* The call a handler makes neither carries the caller's request headers nor reaches the
\* caller's response metadata: Server.Call shadows the client CallInfo of its context.
THEOREM NestedCallsAreIsolated == Spec => []NestedIsIsolated
<1>1. IInv => NestedIsIsolated  BY DEF IInv
<1> QED  BY <1>1, AlwaysIInv, PTL

\* Success is told only of a handler that returned nil (and responded, for a unary call);
\* what the server side of a call failed with is told to that call's caller alone, and not
\* by a handler that returns it as its own: asClientErr marks it, and knows the mark.
THEOREM VerdictsAreHandlers == Spec => []VerdictIsHandlers
<1>1. IInv => VerdictIsHandlers  BY DEF IInv
<1> QED  BY <1>1, AlwaysIInv, PTL
=============================================================================
