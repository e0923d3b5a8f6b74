------------------------------ MODULE MigrateFunc ------------------------------
(***************************************************************************)
(* The migration tool on one Go function (cmd/connect-go-v2-migrate,       *)
(* rewrite.go and streams.go): the signature loses its v1 wrappers, .Msg   *)
(* goes with them, metadata access moves to a CallInfo, a v1 receive loop  *)
(* becomes a v2 one, a handler's stream parameter takes its generated      *)
(* type.                                                                   *)
(*                                                                         *)
(* The syntax tree is abstracted to what those passes match on.            *)
(*   holders  the locals that hold a v1 value: role says which ("param" is *)
(*            a *connect.Request parameter, "reply" a connect.NewResponse, *)
(*            "request" a connect.NewRequest, "response" the result of a   *)
(*            client call, "received" that of CloseAndReceive, the two     *)
(*            stream roles a stream, "bare" a v2 value), top says that a   *)
(*            top-level statement of the body assigns it, lhs how many     *)
(*            results that statement binds                                 *)
(*   acc      the metadata accesses: on a holder, via "v1" methods or via  *)
(*            the "server" or "client" CallInfo                            *)
(*   msg      the .Msg uses of the body, each on a local and at "chain"    *)
(*            (x.Msg.f), at a "listed" position (the right side of an      *)
(*            assignment, a result, an argument, an operand, an element)   *)
(*            or at an "other" one (a var declaration, *x.Msg, an          *)
(*            assertion, parentheses, a range or switch); inner those of a *)
(*            nested closure, shadow the closure's own parameters          *)
(*   ctx      a named context parameter; res a *connect.Response result    *)
(*   server, client   the CallInfo seeds in the body                       *)
(*   loop     the receive loop, or None                                    *)
(***************************************************************************)
EXTENDS Naturals, Sequences, FiniteSets, SequencesExt

None == [form |-> "none"]

NoFunc == [ctx |-> TRUE, res |-> FALSE, holders |-> {}, acc |-> {}, msg |-> {},
           inner |-> {}, shadow |-> {}, server |-> 0, client |-> 0, loop |-> None]

Named(fn, roles) == {h.name : h \in {k \in fn.holders : k.role \in roles}}

On(fn, names, whats) ==
    {a \in fn.acc : a.via = "v1" /\ a.on \in names /\ a.what \in whats}

Via(A, info) == {[a EXCEPT !.via = info] : a \in A}

ReMeta == "request_metadata_migration"

\* A step of the rewrite: the function so far and what the report gained.
Step(fn) == [fn |-> fn, warn |-> {}, used2 |-> FALSE, changed |-> FALSE, flipped |-> FALSE]

Warned(r, A) == [r EXCEPT !.warn = @ \cup {[rule |-> ReMeta, of |-> <<"access", a>>] : a \in A}]

Moved(r, A, info) ==
    IF A = {} THEN r
    ELSE [r EXCEPT !.fn.acc = (@ \ A) \cup Via(A, info), !.changed = TRUE]

-----------------------------------------------------------------------------
(* Signature, .Msg and metadata: rewriteFuncSignature to                   *)
(* rewriteClientResponseMetadata, in the order processFunc calls them.     *)

\* *connect.Request[T] parameters and *connect.Response[U] results lose the
\* wrapper; a flipped result can leave another file's .Msg dangling.
rewriteFuncSignature(r) ==
    LET params == {h \in r.fn.holders : h.role = "param"}
    IN  [r EXCEPT !.fn.holders = (@ \ params) \cup {[h EXCEPT !.role = "bare"] : h \in params},
                  !.fn.res = FALSE,
                  !.flipped = @ \/ r.fn.res,
                  !.changed = @ \/ r.fn.res \/ params # {}]

\* The outer scope's names, less those a closure's parameters shadow.
mergeUnwrappedScopes(outer, shadow, local) == local \cup (outer \ shadow)

\* The .Msg at a kind of position goes, for holders in the body and for those
\* of closure in a nested one.
dropMsgAt(r, at, holders, closure) ==
    LET body  == {u \in r.fn.msg : u.at = at /\ u.on \in holders}
        inner == {u \in r.fn.inner : u.at = at /\ u.on \in closure}
    IN  [r EXCEPT !.fn.msg = @ \ body, !.fn.inner = @ \ inner, !.changed = @ \/ body \cup inner # {}]

\* x.Msg.f becomes x.f.
dropMsgChains(r, holders, closure) == dropMsgAt(r, "chain", holders, closure)

\* Fault: closures are not entered.
rewriteBareMsgInBody(r, holders, closure) == dropMsgAt(r, "listed", holders, {})

\* Bare x.Msg becomes x "in common expression positions"; elsewhere it stays
\* and nothing is said.
rewriteBareMsg(r, holders, closure) == dropMsgAt(r, "listed", holders, closure)

\* One info, _ := CallInfoForServerContext(ctx) per body, at its top.
ensureServerCallInfo(r, A) ==
    LET m == Moved(r, A, "server")
    IN  IF A = {} \/ r.fn.server > 0 THEN m
        ELSE [m EXCEPT !.fn.server = 1, !.used2 = TRUE]

scanServerResponseHolders(fn) == Named(fn, {"reply"})

\* A named parameter that a seed can take the context from.
contextParamName(fn) == fn.ctx

rewriteRequestMetadataSilent(r, reqs) ==
    LET meta == On(r.fn, reqs, {"Header"})
                \cup On(r.fn, scanServerResponseHolders(r.fn), {"Header", "Trailer"})
    IN  IF r.fn.ctx THEN ensureServerCallInfo(r, meta) ELSE Warned(r, meta)

\* Server-side metadata: Spec() has no CallInfo form and is reported, as is
\* everything else where the function has no context to seed from.
rewriteRequestMetadata(r, reqs) ==
    LET spec == On(r.fn, reqs, {"Spec"})
        meta == On(r.fn, reqs, {"Header"})
                \cup On(r.fn, scanServerResponseHolders(r.fn), {"Header", "Trailer"})
        w    == Warned(r, spec)
    IN  IF contextParamName(r.fn) THEN ensureServerCallInfo(w, meta) ELSE Warned(w, meta)

seedClientContext(r, A) ==
    LET m == Moved(r, A, "client")
    IN  [m EXCEPT !.fn.client = @ + 1, !.used2 = TRUE]

bodyContainsRequestHeader(fn, requests) == On(fn, requests, {"Header"})

\* Headers set on a connect.NewRequest; TRUE in "seeded" keeps the response
\* pass from a second context.
rewriteClientRequestHeaders(r, requests) ==
    LET A == bodyContainsRequestHeader(r.fn, requests)
    IN  [seeded |-> A # {},
         r |-> IF A = {} THEN r
               ELSE IF ~contextParamName(r.fn) \/ Cardinality({a.on : a \in A}) > 1 THEN Warned(r, A)
               ELSE seedClientContext(r, A)]

\* Whether a top-level statement assigns the one holder in names, so that the
\* seed has a place before it.
holderAssigned(fn, names) == \A h \in fn.holders : h.name \in names => h.top

rewriteClientResponseMetadata(r, responses, seeded) ==
    LET A == On(r.fn, responses, {"Header", "Trailer"})
        names == {a.on : a \in A}
    IN  IF A = {} THEN r
        ELSE IF ~contextParamName(r.fn) \/ Cardinality(names) > 1 \/ seeded \/ ~holderAssigned(r.fn, names)
        THEN Warned(r, A)
        ELSE seedClientContext(r, A)

scanClientRequestHolders(fn) == Named(fn, {"request"})

scanClientResponseHolders(fn) == Named(fn, {"response"})

rewriteFuncBody(r, reqs) ==
    LET requests  == scanClientRequestHolders(r.fn)
        responses == scanClientResponseHolders(r.fn)
        holders   == reqs \cup responses
        closure   == mergeUnwrappedScopes(holders, r.fn.shadow, {})
        server    == IF holders = {} THEN r
                     ELSE rewriteBareMsg(rewriteRequestMetadata(dropMsgChains(r, holders, closure), reqs),
                                         holders, closure)
        headers   == rewriteClientRequestHeaders(server, requests)
    IN  rewriteClientResponseMetadata(headers.r, responses, headers.seeded)

-----------------------------------------------------------------------------
(* Handler stream types.  A name is a sequence of words; the generator     *)
(* names a stream type <Service><RPC>ServerStream, so that the RPC's name  *)
(* is a suffix of the names of other RPCs' types too ("Sum", "CumSum").    *)

generatedStreamName(service, rpc) == service \o rpc

SansService(s) == IF s # <<>> /\ Last(s) = "Service" THEN Front(s) ELSE s

\* The candidates whose service part names the receiver's type.
disambiguateByReceiver(matches, rpc, recvType) ==
    {t \in matches :
        LET service == SubSeq(t.name, 1, Len(t.name) - Len(rpc))
        IN  recvType # <<>> /\ (service = recvType \/ SansService(service) = recvType)}

lookupFirst(types, rpc, recvType, messages) ==
    LET matches == {t \in types : IsSuffix(rpc, t.name) /\ t.messages = messages}
    IN  IF matches = {} THEN {} ELSE {CHOOSE t \in matches : TRUE}

\* The type an RPC's handler gets: exactly one, or none with the ambiguous
\* candidates to report.
lookup(types, rpc, recvType, messages) ==
    LET matches == {t \in types : IsSuffix(rpc, t.name) /\ t.messages = messages}
        picked  == disambiguateByReceiver(matches, rpc, recvType)
    IN  IF Cardinality(matches) <= 1 THEN matches
        ELSE IF Cardinality(picked) = 1 THEN picked ELSE {}

-----------------------------------------------------------------------------
(* Receive loops.  post is what follows a v1 "for stream.Receive()": no    *)
(* look at stream.Err(), the adjacent "if err := stream.Err(); err != nil" *)
(* whose body the reshape folds into the loop, or any other use of         *)
(* stream.Err() (a success-path check, a bare return, a later check).      *)
(* A v2 loop handles the error inline or hoists it past the loop.          *)

Posts == {"ignore", "check", "success", "return"}

v1Loop(post, handler, stops, test) ==
    [form |-> "v1", post |-> post, handler |-> handler, stops |-> stops, test |-> test]

matchStreamErrCheck(loop) == loop.post = "check"

hasTrailingStreamErr(loop) == loop.post \in {"success", "return"}

\* Where v1 never looked: return the error, or fail the test.
defaultStreamErrHandler(loop) == IF loop.test THEN "fatal" ELSE "return"

\* The error is handled inside the loop; the statement after it is gone.
reshapeBoolLoop(loop, handler) == [loop EXCEPT !.form = "inline", !.post = "ignore", !.handler = handler]

\* The error is hoisted into a variable that the code after the loop reads.
reshapeBoolLoopTrailingErr(loop) == [loop EXCEPT !.form = "hoisted"]

rewriteStmtList(loop) ==
    IF loop.form # "v1" THEN loop
    ELSE IF matchStreamErrCheck(loop) THEN reshapeBoolLoop(loop, loop.handler)
    ELSE IF hasTrailingStreamErr(loop) THEN reshapeBoolLoopTrailingErr(loop)
    ELSE reshapeBoolLoop(loop, defaultStreamErrHandler(loop))

\* What a loop does on a stream of n messages that ends cleanly or in error:
\* the messages its body sees, the error the code after it is told, and how
\* the function goes on from there.
Outcome(loop, n, fails) ==
    LET seen   == IF loop.stops /\ n > 0 THEN 1 ELSE n
        broke  == loop.stops /\ n > 0
        err    == fails /\ ~broke
        handle == IF ~err THEN "completes" ELSE
                  IF loop.handler # "log" THEN "leaves with error" ELSE "logs, completes"
        after  == CASE loop.post = "ignore"  -> "completes"
                    [] loop.post = "check"   -> handle
                    [] loop.post = "success" -> IF err THEN "skips success block" ELSE "completes"
                    [] loop.post = "return"  -> IF err THEN "leaves with error" ELSE "completes"
    IN  [seen |-> seen,
         then |-> IF loop.form = "inline" /\ err
                  THEN IF loop.handler # "log" THEN "leaves with error" ELSE "loops on"
                  ELSE after]

\* The shapes whose meaning the reshape changes: a v1 function that never
\* looked at the error now returns it, and a folded check whose body does not
\* leave the function has become part of the loop.
ReshapeChanges(loop) ==
    loop.form = "v1" /\ (loop.post = "ignore" \/ (loop.post = "check" /\ loop.handler = "log"))

-----------------------------------------------------------------------------
(* rewriteStreams: stream parameters, loops, CloseAndReceive results,      *)
(* stream metadata.                                                        *)

\* Parameters of a v1 handler stream type, and the locals that a client's
\* method returned.
collectStreamParams(fn) == Named(fn, {"handlerStream"})

assignedFromMethodCall(fn) == Named(fn, {"clientStream"})

collectStreamVars(fn) == collectStreamParams(fn) \cup assignedFromMethodCall(fn)

tryConstructorTupleAgain(r) ==
    LET streams == {h \in r.fn.holders : h.role = "clientStream"}
    IN  [r EXCEPT !.fn.holders = (@ \ streams) \cup {[h EXCEPT !.lhs = @ + 1] : h \in streams},
                  !.changed = @ \/ streams # {}]

\* stream := client.M(ctx) binds v2's second result and checks it.
tryConstructorTuple(r) ==
    LET sole == {h \in r.fn.holders : h.role = "clientStream" /\ h.lhs = 1}
    IN  [r EXCEPT !.fn.holders = (@ \ sole) \cup {[h EXCEPT !.lhs = 2] : h \in sole},
                  !.changed = @ \/ sole # {}]

migrateHandlerStreamParam(r, resolved) ==
    LET params == {h \in r.fn.holders : h.role = "handlerStream"}
    IN  IF params = {} THEN r
        ELSE IF resolved
        THEN [r EXCEPT !.fn.holders = (@ \ params) \cup {[h EXCEPT !.role = "bareStream"] : h \in params},
                       !.changed = TRUE]
        ELSE [r EXCEPT !.warn = @ \cup {[rule |-> "stream_param_type", of |-> <<"local", h>>] : h \in params}]

StreamMeta == {"RequestHeader", "ResponseHeader", "ResponseTrailer"}

\* Handler streams read the server CallInfo; one client stream with a place
\* for the seed, in a body that has none yet, gets a client context.
rewriteStreamMetadata(r, handlers, clients) ==
    LET H == On(r.fn, handlers, StreamMeta)
        h == IF contextParamName(r.fn) THEN ensureServerCallInfo(r, H) ELSE Warned(r, H)
        C == On(r.fn, clients, StreamMeta)
        names == {a.on : a \in C}
    IN  IF C = {} THEN h
        ELSE IF ~contextParamName(r.fn) \/ Cardinality(names) > 1 \/ h.fn.client > 0 \/ ~holderAssigned(r.fn, names)
        THEN Warned(h, C)
        ELSE seedClientContext(h, C)

\* CloseRequest and CloseResponse have other names in v2.
threadStreamMethods(r, streams) == Moved(r, On(r.fn, streams, {"CloseRequest", "CloseResponse"}), "stream")

\* res, err := stream.CloseAndReceive(): the names of the bare results.
tryCloseAndReceive(r) == Named(r.fn, {"received"})

\* In the body alone: a closure is not told of these holders.
dropMsgForHolders(r, holders) == rewriteBareMsg(dropMsgChains(r, holders, {}), holders, {})

rewriteStreamBlocks(r) ==
    LET tuple == tryConstructorTuple(r)
        loop  == rewriteStmtList(tuple.fn.loop)
    IN  [tuple EXCEPT !.fn.loop = loop, !.changed = @ \/ loop # tuple.fn.loop]

rewriteStreams(r, resolved) ==
    LET handlers == collectStreamParams(r.fn)
        streams  == collectStreamVars(r.fn)
        blocks   == rewriteStreamBlocks(migrateHandlerStreamParam(r, resolved))
        received == dropMsgForHolders(threadStreamMethods(blocks, streams), tryCloseAndReceive(r))
    IN  IF streams = {} THEN r
        ELSE rewriteStreamMetadata(received, handlers, streams \ handlers)

\* processFunc, for a function whose bindings are v2.
processFunc(fn, resolved) ==
    LET reqs == Named(fn, {"param"})
    IN  rewriteStreams(rewriteFuncBody(rewriteFuncSignature(Step(fn)), reqs), resolved)
=============================================================================
