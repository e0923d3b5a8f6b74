------------------------------- MODULE MigrateGo -------------------------------
(***************************************************************************)
(* The migration tool on one Go file (Rewrite of rewrite.go): the order of *)
(* the passes, what waits for regenerated bindings, and the imports.       *)
(*                                                                         *)
(* A file has its imports (v1, v2: the local name of the library, "" when  *)
(* it is not imported; pkgs: the other v2 packages; stub: the generated    *)
(* package; eco: the ecosystem package; type: the generated stream type it *)
(* names), its selector sites [sym, q] with q the qualifier as written,    *)
(* one function, one block of construction statements, and one helper that *)
(* returns an option slice (elts: the options, lit: every return is a      *)
(* literal).  q is the name its v1 code was written with.  A function's v1 *)
(* types and constructors are sites of it too: FuncRefs.                   *)
(***************************************************************************)
EXTENDS MigrateFunc, MigrateConstruct

\* v1 NewError arguments, what each becomes, and the v2 arguments.
ErrorForms ==
    [new      |-> "text",      \* errors.New("s")
     computed |-> "message",   \* errors.New(expr)
     errorf   |-> "format",    \* fmt.Errorf("f", args...)
     wrap     |-> "err.Error", \* fmt.Errorf("... %w")
     nil      |-> "text",
     err      |-> "err.Error",
     message  |-> "message.Error"]

NewErrorSyms == DOMAIN ErrorForms

\* Symbols by the table of rewrite.go they are in.
FlipSyms     == {"Code", "format"}          \* Code*, Errorf, Error
ResidualSyms == {"EncodeBinaryHeader"}
MovedSyms    == {"WithReadMaxBytes"}        \* movedToConnectHTTP
ProtocolSyms == {"WithGRPC"}
ReshapedSyms == {"WithCodec", "HandlerOption", "NewErrorDetail", "WithInterceptors"}
WrapperSyms  == {"Request", "RequestLiteral", "NewRequest"}

\* What each package offers.  "AnyRequest" is in no table.
V1Exports == {"new", "computed", "errorf", "wrap", "nil", "err", "Code", "format", "EncodeBinaryHeader",
              "WithReadMaxBytes", "WithGRPC", "CallInfoForHandlerContext", "DetailGuard",
              "AnyRequest"} \cup ReshapedSyms \cup WrapperSyms
V2Exports == {"Code", "EncodeBinaryHeader", "text", "message", "format", "err.Error", "CallInfoForServerContext"}
OtherExports == [connecthttp |-> {"WithReadMaxBytes", "WithGRPC", "Option"},
                 connectproto |-> {"DetailGuard"}]

Site(sym, q) == [sym |-> sym, q |-> q]

\* The v1 selectors inside the function: wrapper and stream types,
\* NewRequest and NewResponse.
FuncRefs(f) ==
    IF f.fn.res \/ Named(f.fn, {"param", "request", "reply", "handlerStream"}) # {} THEN {f.q} ELSE {}

connectAlias(f) == IF f.v1 # "" THEN f.v1 ELSE "connect"

connectV2Alias(f) == IF f.v2 # "" THEN f.v2 ELSE "connect"

\* The options of the block's statements; the ones spelled with a v1 call.
Options(s) ==
    (IF "opts" \in DOMAIN s THEN Range(s.opts) ELSE {})
    \cup (IF "icpts" \in DOMAIN s THEN Range(s.icpts) ELSE {})

V1Options(f, is) ==
    {o \in UNION {Options(s) : s \in Range(f.block)} : o.is = is /\ o.by \in {"call", "local"}}

BlockRefs(f) == IF V1Options(f, "icpt") \cup V1Options(f, "limit") # {} THEN {f.q} ELSE {}

fileReferencesIdentInSites(f, name) == name \in {s.q : s \in f.sites}

fileReferencesIdent(f, name) == name \in {s.q : s \in f.sites} \cup FuncRefs(f) \cup BlockRefs(f)

\* A call of a generated constructor, v1 or v2 in shape.
usesConnectStub(f) ==
    f.stub # "" /\ \E s \in Range(f.block) : s.k \in {"handle", "assign", "client", "dial"}

-----------------------------------------------------------------------------
(* Passes.  A pass maps the rewrite in progress to the next: the file, the *)
(* references the rewrite introduced, the diagnostics.                     *)

newRewriteState(f) == [f |-> f, alias |-> connectAlias(f), alias2 |-> connectV2Alias(f),
               used2 |-> FALSE, pkgs |-> {}, flipped |-> FALSE, warn |-> {}]

Under(st, syms) == {s \in st.f.sites : s.q = st.alias /\ s.sym \in syms}

\* Replace the sites S by what To gives for each.
Replaced(st, S, To(_)) == [st EXCEPT !.f.sites = (@ \ S) \cup UNION {To(s) : s \in S}]

Uses2(st, S) == [st EXCEPT !.used2 = @ \/ S # {}]

UsesPkg(st, S, pkg) == [st EXCEPT !.pkgs = IF S = {} THEN @ ELSE @ \cup {pkg}]

Warn(st, rule, things) == [st EXCEPT !.warn = @ \cup {[rule |-> rule, of |-> <<"symbol", x>>] : x \in things}]

flip(st, syms) ==
    LET S == Under(st, syms)
    IN  Uses2(Replaced(st, S, LAMBDA s : {[s EXCEPT !.q = st.alias2]}), S)

move(st, syms, pkg) ==
    LET S == Under(st, syms)
    IN  UsesPkg(Replaced(st, S, LAMBDA s : {[s EXCEPT !.q = pkg]}), S, pkg)

isHTTPOnlyOptionElement(sym) == sym \in MovedSyms \cup ProtocolSyms

optionLiteralHTTPOnly(helper) == \A sym \in helper.elts : isHTTPOnlyOptionElement(sym)

\* A helper all of whose returns are literals of HTTP options: its slice type
\* becomes connecthttp's.
renameHTTPOnlyOptionTypes(st) ==
    LET helper == st.f.helper
        S == IF helper.lit /\ optionLiteralHTTPOnly(helper) THEN Under(st, {"HandlerOption"}) ELSE {}
    IN  UsesPkg(Replaced(st, S, LAMBDA s : {Site("Option", "connecthttp")}), S, "connecthttp")

\* if d, err := connect.NewErrorDetail(m); err == nil { e.AddDetail(d) }
matchDetailGuard(st) == Under(st, {"DetailGuard"})

\* becomes one assignment with connectproto's constructor.
rewriteErrorDetails(st) ==
    LET S == matchDetailGuard(st)
    IN  UsesPkg(Replaced(st, S, LAMBDA s : {[s EXCEPT !.q = "connectproto"]}), S, "connectproto")

\* A v1 argument is converted and the call flipped to v2; a v2 argument that
\* is visibly a string is left as it is.
convertNewErrorInPlace(st) ==
    LET S == Under(st, NewErrorSyms)
    IN  Uses2(Replaced(st, S, LAMBDA s : {Site(ErrorForms[s.sym], st.alias2)}), S)

unwrapConnectMessageLiteral(st) == Replaced(st, Under(st, {"RequestLiteral"}), LAMBDA s : {})

\* NewRequest, NewResponse and wrapper literals, once the bindings are v2.
rewriteExpr(st) ==
    LET bare(h) == IF h.role \in {"request", "reply"} THEN [h EXCEPT !.role = "bare"] ELSE h
        S == Under(st, {"NewRequest"})
        stripped == unwrapConnectMessageLiteral(Replaced(st, S, LAMBDA s : {}))
    IN  IF st.f.q # st.alias THEN stripped
        ELSE [stripped EXCEPT !.f.fn.holders = {bare(h) : h \in @}]

rewriteFileExprs(st, ready) ==
    LET bare == IF ready THEN rewriteExpr(st) ELSE st
    IN  flip(convertNewErrorInPlace(move(bare, ProtocolSyms, "connecthttp")), FlipSyms)

flipRemainingConnectSelectors(st) == flip(st, FlipSyms \cup ResidualSyms)

\* connect.WithReadMaxBytes in the block's statements and locals.
moveLimits(st) ==
    LET Move(opts) == [i \in DOMAIN opts |->
                          IF opts[i].is = "limit" /\ opts[i].by \in {"call", "local"}
                          THEN [opts[i] EXCEPT !.by = "moved"] ELSE opts[i]]
        Stmt(s) == IF "opts" \in DOMAIN s THEN [s EXCEPT !.opts = Move(@)] ELSE s
        limits == V1Options(st.f, "limit")
    IN  IF st.f.q # st.alias THEN st
        ELSE UsesPkg([st EXCEPT !.f.block = [i \in DOMAIN @ |-> Stmt(@[i])]], limits, "connecthttp")

\* Relocated symbols move, reshaped ones are reported, the renamed one keeps
\* its qualifier.  A symbol in no table is passed over.
rewriteMovedSymbols(st) ==
    LET renamed == Under(st, {"CallInfoForHandlerContext"})
        core    == Uses2(Replaced(st, renamed, LAMBDA s : {[s EXCEPT !.sym = "CallInfoForServerContext"]}), renamed)
        moved   == moveLimits(move(core, MovedSyms, "connecthttp"))
    IN  Warn(moved, "reshaped", {s.sym : s \in Under(moved, ReshapedSyms)}
                                \cup (IF V1Options(moved.f, "icpt") # {} /\ moved.alias = moved.f.q
                                      THEN {"WithInterceptors"} ELSE {}))

rewriteStubIndependent(st, ready) ==
    rewriteMovedSymbols(flipRemainingConnectSelectors(
        rewriteFileExprs(rewriteErrorDetails(renameHTTPOnlyOptionTypes(st)), ready)))

\* The function's passes, where its v1 code is under the alias they match;
\* types holds the generated stream type of its parameter when one resolves.
processFuncs(st, types) ==
    LET r == processFunc(st.f.fn, types # {})
        streams == Named(st.f.fn, {"handlerStream"}) # {}
    IN  IF st.f.q # st.alias THEN st
        ELSE [st EXCEPT !.f.fn = r.fn, !.used2 = @ \/ r.used2, !.flipped = r.flipped,
                        !.warn = @ \cup r.warn, !.f.type = IF streams THEN types ELSE @]

flipMessageWrapperTypes(st) == Replaced(st, Under(st, {"Request"}), LAMBDA s : {})

\* Server, then client construction.
rewriteConstruction(st) ==
    LET server == rewriteServerConstruction(st.f.block)
        client == rewriteClientConstruction(server.block)
        built  == client.block # st.f.block
        next   == [st EXCEPT !.f.block = client.block, !.warn = @ \cup server.warn \cup client.warn]
    IN  IF st.f.stub = "" \/ ~built THEN st
        ELSE [next EXCEPT !.used2 = TRUE, !.pkgs = @ \cup {"connecthttp"}]

warnEcosystemCalls(st) == Warn(st, "ecosystem_migration", IF st.f.eco = "v1" THEN {"NewMiddleware"} ELSE {})

\* Generated constructors, wrappers and stream types: one deferral per file.
firstStubDependentPos(st) ==
    \/ st.f.stub # "" /\ \E s \in Range(st.f.block) : s.k \in {"handle", "assign", "client", "dial"}
    \/ Under(st, WrapperSyms) # {}
    \/ st.alias \in FuncRefs(st.f)

deferStubDependent(st) ==
    Warn(st, "awaiting_v2_bindings",
         (IF firstStubDependentPos(st) THEN {"stub"} ELSE {}) \cup (IF st.f.eco = "v1" THEN {"eco"} ELSE {}))

residualConnectSymbols(st) ==
    {s.sym : s \in Under(st, V1Exports \cup V2Exports)}
    \cup (IF st.alias \in FuncRefs(st.f) THEN {"wrapper"} ELSE {})
    \cup (IF st.alias \in BlockRefs(st.f) THEN {"WithInterceptors"} ELSE {})

rewriteEcosystemImports(f, ready) == [f EXCEPT !.eco = IF ready /\ @ = "v1" THEN "v2" ELSE @]

\* v1 goes when v2 took over its name or nothing refers to it.
removeConnectV1Import(st) ==
    /\ st.f.v1 # ""
    /\ (st.used2 /\ st.alias = st.alias2) \/ ~fileReferencesIdent(st.f, st.alias)

\* A retained v1 import is reported with the symbols that keep it.
warnIfV1Retained(st, file) == IF file.v1 = "" THEN st ELSE Warn(st, "remove_v1_import", residualConnectSymbols(st))

finishRewrite(st, ready) ==
    LET added == [st.f EXCEPT !.v2 = IF st.used2 THEN st.alias2 ELSE @,
                              !.pkgs = @ \cup st.pkgs,
                              !.v1 = IF removeConnectV1Import(st) THEN "" ELSE @]
        file  == rewriteEcosystemImports(added, ready)
    IN  [file |-> file, flipped |-> st.flipped, warn |-> warnIfV1Retained(st, file).warn]

Rewrite(f, ready, types) ==
    LET st == newRewriteState(f)
        done == IF ready
                THEN finishRewrite(rewriteStubIndependent(warnEcosystemCalls(rewriteConstruction(
                         flipMessageWrapperTypes(processFuncs(st, types)))), TRUE), TRUE)
                ELSE finishRewrite(rewriteStubIndependent(deferStubDependent(st), FALSE), FALSE)
    IN  IF f.v1 = "" /\ ~usesConnectStub(f) /\ f.eco # "v1"
        THEN [file |-> f, flipped |-> FALSE, warn |-> {}]
        ELSE done

-----------------------------------------------------------------------------
(* The typed pass on one file: every .Msg goes whose receiver's type has   *)
(* none, wherever it stands.  v2 says that the file's bindings are v2, so  *)
(* that client calls return messages; bare that the function whose result  *)
(* the file uses does.                                                     *)

typeMissingMsg(fn, v2) == Named(fn, {"bare"} \cup IF v2 THEN {"response", "received"} ELSE {})

danglingMsgRanges(fn, v2) ==
    LET missing == typeMissingMsg(fn, v2)
    IN  {<<"body", u>> : u \in {w \in fn.msg : w.on \in missing}}
        \cup {<<"closure", u>> : u \in {w \in fn.inner : w.on \in missing \ fn.shadow}}

stripDanglingMsg(f, bare, v2) ==
    LET missing == typeMissingMsg(f.fn, v2)
    IN  [f EXCEPT !.fn.msg = {u \in @ : u.on \notin missing},
                  !.fn.inner = {u \in @ : u.on \notin missing \ f.fn.shadow},
                  !.remote = @ /\ ~bare]

-----------------------------------------------------------------------------
(* What is left of v1 in a file.                                           *)

\* The package a qualifier stands for.
Package(f, q) ==
    IF q = f.v1 THEN "v1" ELSE IF q = f.v2 THEN "v2" ELSE IF q \in f.pkgs THEN q ELSE "none"

Exports(pkg) ==
    CASE pkg = "v1" -> V1Exports [] pkg = "v2" -> V2Exports
      [] pkg \in DOMAIN OtherExports -> OtherExports[pkg] [] OTHER -> {}

\* Sites that do not resolve, or still resolve to v1.
LeftSites(f) ==
    {<<"symbol", s.sym>> : s \in {t \in f.sites : Package(f, t.q) = "v1" \/ t.sym \notin Exports(Package(f, t.q))}}

\* Metadata accesses and stream parameters still in v1 form.
LeftInFunc(fn) ==
    {<<"access", a>> : a \in {b \in fn.acc : b.via = "v1"}}
    \cup {<<"local", h>> : h \in {k \in fn.holders : k.role = "handlerStream"}}

\* The .Msg uses of a migrated function on values that have none, its closure's
\* included.
LeftMsg(fn) == danglingMsgRanges(fn, TRUE)

LeftWrappers(f) == f.fn.res \/ Named(f.fn, {"param", "request", "reply"}) # {}

LeftStatements(f) ==
    {<<"statement", s>> : s \in {t \in Range(f.block) : t.k \in {"handle", "assign", "client"}}}
=============================================================================
