------------------------------- MODULE MCMigrate -------------------------------
(* Projects to migrate, one family per part of the tool.                   *)
EXTENDS MigrateTool

Blank == [v1 |-> "", v2 |-> "", pkgs |-> {}, stub |-> "", eco |-> "", q |-> "connect", sites |-> {},
          fn |-> NoFunc, block |-> <<>>, type |-> {}, origin |-> "hand", remote |-> FALSE,
          helper |-> [elts |-> {}, lit |-> FALSE]]

Lost == [Blank EXCEPT !.origin = "lost"]

Connect == [Blank EXCEPT !.v1 = "connect"]

Handler(service, rpc, recv) == [service |-> service, rpc |-> rpc, recv |-> recv, messages |-> "m"]

NoHandler == Handler(<<"Foo">>, <<"Do">>, <<>>)

Alone(f, g) == [files |-> [a |-> f, b |-> Blank], tmpl |-> <<>>, gen |-> g,
                rpcs |-> {}, handler |-> NoHandler, faulty |-> FALSE,
                guided |-> FALSE, published |-> TRUE, q |-> "sdk"]

Bindings == {<<>>, "p" :> 1, "p" :> 2, "q" :> 1}

Stub(g) == IF g = <<>> THEN "" ELSE CHOOSE s \in DOMAIN g : TRUE

One(S) == {{}} \cup {{x} : x \in S}

Two(S) == {{}} \cup {{x, y} : x, y \in S}

\* v1 is imported where it is used: a wrapper somewhere else in the file.
Using(f) == IF fileReferencesIdent(f, f.q) THEN f ELSE [f EXCEPT !.sites = {Site("NewRequest", f.q)}]

Client == [k |-> "client", to |-> "url", svc |-> "x", opts |-> <<>>]

\* Selectors: up to two symbols, under the default name or another, beside a
\* v2 import or not, in a file that calls a generated constructor or not.
SelectorFiles ==
    {[Connect EXCEPT !.v1 = q, !.q = q, !.v2 = v2, !.eco = e, !.block = b, !.sites = {Site(y, q) : y \in syms}] :
        q \in {"connect", "connectrpc"}, v2 \in {""}, e \in {""}, b \in {<<>>, <<Client>>},
        syms \in Two(V1Exports)}
    \cup
    {[Connect EXCEPT !.q = "connect", !.v2 = v2, !.eco = e, !.sites = {Site(y, "connect") : y \in syms}] :
        v2 \in {"", "connectv2"}, e \in {"", "v1"}, syms \in One(V1Exports)}

HelperFiles ==
    {[Connect EXCEPT !.v1 = q, !.q = q, !.helper = [elts |-> elts, lit |-> lit],
                     !.sites = {Site(y, q) : y \in elts \cup {"HandlerOption"}}] :
        q \in {"connect", "connectrpc"}, lit \in BOOLEAN,
        elts \in SUBSET {"WithReadMaxBytes", "WithGRPC", "WithInterceptors", "WithCodec"}}

SelectorProjects ==
    {Alone([f EXCEPT !.stub = Stub(g), !.block = IF g = <<>> THEN <<>> ELSE @], g) : f \in SelectorFiles \cup HelperFiles, g \in Bindings}

\* Functions: up to two holders, up to two metadata accesses on them.
Holder(name, role, top) == [name |-> name, role |-> role, top |-> top, lhs |-> 1]

Holders == {Holder("req", "param", TRUE), Holder("reply", "reply", TRUE),
            Holder("r1", "request", TRUE), Holder("r2", "request", TRUE),
            Holder("res1", "response", TRUE), Holder("res2", "response", FALSE),
            Holder("got", "received", TRUE), Holder("hs", "handlerStream", TRUE),
            Holder("cs", "clientStream", TRUE), Holder("cs2", "clientStream", FALSE)}

Metadata(role) ==
    CASE role = "param" -> {"Header", "Spec"} [] role \in {"reply", "response"} -> {"Header", "Trailer"}
      [] role = "request" -> {"Header"} [] role = "handlerStream" -> {"RequestHeader", "ResponseTrailer"}
      [] role = "clientStream" -> {"ResponseHeader", "CloseResponse"} [] OTHER -> {}

Accesses(hs) == UNION {{[on |-> h.name, what |-> w, via |-> "v1"] : w \in Metadata(h.role)} : h \in hs}

\* CloseAndReceive is a client stream's.
Possible(hs) == "got" \in {h.name : h \in hs} => \E h \in hs : h.role = "clientStream"

HasMsg(hs) ==
    {[on |-> h.name, at |-> at] :
        h \in {k \in hs : k.role \in {"param", "response", "received", "request", "reply"}},
        at \in {"chain", "listed", "other"}}

Functions ==
    UNION {{[NoFunc EXCEPT !.holders = hs, !.acc = A, !.ctx = c, !.res = r,
                           !.msg = HasMsg(hs), !.inner = HasMsg(hs), !.shadow = sh] :
                A \in Two(Accesses(hs)), c \in BOOLEAN, r \in BOOLEAN, sh \in {{}, {"req"}}} :
            hs \in {T \in Two(Holders) : Possible(T)}}

FunctionProjects ==
    {Alone(Using([Connect EXCEPT !.fn = fn, !.stub = Stub(g)]), g) : fn \in Functions, g \in {<<>>, "p" :> 1}}

\* Receive loops.
LoopProjects ==
    {Alone(Using([Connect EXCEPT !.fn.holders = {Holder("cs", "clientStream", TRUE)},
                                 !.fn.loop = v1Loop(post, handler, stops, test), !.stub = "p"]), "p" :> 1) :
        post \in Posts, handler \in {"return", "log"}, stops \in BOOLEAN, test \in BOOLEAN}

\* Construction: one statement with up to two options, or two with up to one.
OptionSet == {Opt("icpt", "call", "validate"), Opt("icpt", "local", "validate"), Opt("icpt", "call", "auth"),
              Opt("icpt", "opaque", "auth"), Opt("limit", "call", "2"), Opt("limit", "local", "7"),
              Opt("limit", "opaque", "7"), Opt("http", "call", "gzip")}

Spreads == {<<Opt("icpt", "spread", "auth")>>, <<Opt("limit", "spread", "7")>>, <<Opt("http", "spread", "gzip")>>}

OptionLists(n) == UNION {[1..k -> OptionSet] : k \in 0..n} \cup Spreads

Stmt(k, to, svc, opts) == [k |-> k, to |-> to, svc |-> svc, opts |-> opts]

Blocks ==
    {<<Stmt(k, "mux", "x", opts)>> : k \in {"handle", "client", "assign"}, opts \in OptionLists(2)}
    \cup {<<Stmt("handle", "mux", "x", o1), Stmt("handle", to, "y", o2)>> :
            to \in {"mux", "admin"}, o1 \in OptionLists(1), o2 \in OptionLists(1)}

ConstructProjects == {Alone(Using([Connect EXCEPT !.stub = Stub(g), !.block = b]), g) : b \in Blocks, g \in {"p" :> 1, "p" :> 2}}

\* Templates: a connect-go entry in every layout, with an entry before or after.
Entry(ref, path, opts) == <<Line(2, TRUE, "ref", <<ref>>)>> \o path \o opts \o <<Line(4, FALSE, "key", <<"out">>)>>

OptLayouts ==
    {<<>>, <<Line(4, FALSE, "opt", <<"simple">>)>>, <<Line(4, FALSE, "opt", <<"paths", "simple">>)>>,
     <<Line(4, FALSE, "opt", <<"paths">>)>>,
     <<Line(4, FALSE, "opt", <<"[paths", "simple=true]">>)>>, <<Line(4, FALSE, "opt", <<"[simple]">>)>>,
     <<Line(4, FALSE, "opt", <<"[paths", "simple", "paths]">>)>>, <<Line(4, FALSE, "opt", <<"[simple", "paths]">>)>>,
     <<Line(4, FALSE, "opt", <<>>), Line(6, TRUE, "item", <<"simple">>)>>,
     <<Line(4, FALSE, "opt", <<>>), Line(6, FALSE, "comment", <<>>), Line(6, TRUE, "item", <<"simple">>),
       Line(0, FALSE, "blank", <<>>), Line(6, TRUE, "item", <<"paths">>)>>,
     <<Line(4, FALSE, "opt", <<>>), Line(4, TRUE, "item", <<"simple">>)>>}

\* path: overrides the binary of a local plugin.
Paths(ref) == {<<>>} \cup (IF ref = "local" THEN {<<Line(4, FALSE, "path", <<"gotool">>)>>} ELSE {})

ConnectRefs == {"local", "gotool", "remote1", "gosimple", "remote2"}

ConnectEntries == UNION {{Entry(r, p, o) : p \in Paths(r), o \in OptLayouts} : r \in ConnectRefs}
                  \cup {<<Line(2, TRUE, "key", <<"out">>), Line(4, FALSE, "ref", <<"remote1">>)>>}

OtherEntries == {<<>>, Entry("other", <<>>, <<Line(4, FALSE, "opt", <<"simple">>)>>),
                 Entry("remote1", <<>>, <<Line(4, FALSE, "opt", <<"simple">>)>>)}

TemplateProjects ==
    {[Alone(Blank, "p" :> 1) EXCEPT !.tmpl = before \o entry \o after, !.faulty = TRUE] :
        before \in OtherEntries, entry \in ConnectEntries, after \in OtherEntries}

\* A user who follows the steps, with local bindings, an SDK or a dependency.
\* Who names the v2 remote plugin already knows it as published.
GuidedProjects ==
    {p \in {[Alone([f EXCEPT !.stub = Stub(g)], g) EXCEPT !.tmpl = entry, !.guided = TRUE, !.published = pub, !.q = c] :
                f \in {Blank, Connect, [Blank EXCEPT !.eco = "v1"]}, entry \in ConnectEntries \cup {<<>>},
                g \in {"p" :> 1, "q" :> 1}, c \in {"sdk", "external"}, pub \in BOOLEAN} :
        p.published \/ \E e \in Range(Entries(p.tmpl)) : e.ref \cap {"remote1", "gosimple"} # {}}

\* Handler streams: RPCs whose names end in one another, of services named
\* like the receiver.
Services == {<<"Foo">>, <<"Foo", "Service">>, <<"Foo", "Cum">>, <<"Bar">>}

RPCs == {[service |-> s, rpc |-> r, messages |-> "m", stub |-> "p"] : s \in Services, r \in {<<"Sum">>, <<"Cum", "Sum">>}}

Receivers(service) == {<<>>, <<"Impl">>, service, SansService(service)}

StreamHandler ==
    [Connect EXCEPT !.fn.holders = {Holder("hs", "handlerStream", TRUE)}, !.fn.loop = v1Loop("check", "return", FALSE, FALSE)]

StreamProjects ==
    UNION {UNION {{[Alone(StreamHandler, "p" :> g) EXCEPT !.rpcs = rpcs, !.handler = Handler(own.service, own.rpc, recv)] :
                      recv \in Receivers(own.service), g \in {1, 2}} : own \in rpcs} : rpcs \in Two(RPCs)}

\* A result that flips in one file and its .Msg in another, with faults.
Reply == [Connect EXCEPT !.fn.res = TRUE, !.fn.holders = {Holder("reply", "reply", TRUE)},
                         !.sites = {Site("Code", "connect")}]

Callers == {[f EXCEPT !.remote = TRUE, !.origin = o] :
                f \in {Blank, [Connect EXCEPT !.sites = {Site("Code", "connect")}]}, o \in {"hand", "marked", "outdir"}}

CallerProjects ==
    {[Alone([Reply EXCEPT !.stub = s], "p" :> g) EXCEPT !.files["b"] = c, !.faulty = TRUE, !.tmpl = t] :
        s \in {"", "p"}, g \in {1, 2}, c \in Callers, t \in {<<>>, Entry("remote1", <<>>, <<>>)}}

GeneratedProjects == {[p EXCEPT !.faulty = FALSE] : p \in CallerProjects}

MCProjects == LoopProjects \cup (ConstructProjects \cup (TemplateProjects \cup (GuidedProjects \cup
              (StreamProjects \cup (CallerProjects \cup (SelectorProjects \cup FunctionProjects))))))
=============================================================================
