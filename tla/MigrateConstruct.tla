--------------------------- MODULE MigrateConstruct ---------------------------
(***************************************************************************)
(* The migration tool on server and client construction (construction.go   *)
(* of cmd/connect-go-v2-migrate).  v1 gives each handler and each client   *)
(* its own option list; v2 splits the list: interceptors belong to a       *)
(* connect.Server or connect.Client, the rest to the mount or transport,   *)
(* and reads are limited by default where v1 reads had no limit.           *)
(*                                                                         *)
(* A block is the sequence of its statements:                              *)
(*   handle    mux.Handle(pkg.New<Svc>Handler(svc, opts...))       (v1)    *)
(*   assign    path, handler := pkg.New<Svc>Handler(svc, opts...)  (v1)    *)
(*   client    pkg.New<Svc>Client(http, url, opts...)              (v1)    *)
(*   server    name := connect.NewServer(icpts...)                 (v2)    *)
(*   register  pkg.Register<Svc>Handler(name, svc)                 (v2)    *)
(*   mount     connecthttp.Mount(mux, name, opts...)               (v2)    *)
(*   dial      pkg.New<Svc>Client(connect.NewClient(...))          (v2)    *)
(* An option is what the passes recognise of its expression: is says       *)
(* whether it carries an interceptor, a read limit or something else, by   *)
(* whether it is an inline call of the v1 library, a local variable set to *)
(* one, a call moved to connecthttp, an expression the tool does not look  *)
(* into, or the slice of a spread opts..., which is then the only option   *)
(* written; val is the interceptor or the limit.                           *)
(***************************************************************************)
EXTENDS Naturals, Sequences, FiniteSets, SequencesExt

Opt(is, by, val) == [is |-> is, by |-> by, val |-> val]

Unlimited == "no limit"
DefaultReadMaxBytes == "v2 default"

-----------------------------------------------------------------------------
(* What a construction means: the interceptors a service's calls go        *)
(* through, in order, and the read limit.  The last limit given wins.      *)

Carrying(opts, what) == SelectSeq(opts, LAMBDA o : o.is = what)

Values(opts) == [i \in DOMAIN opts |-> opts[i].val]

ReadLimit(opts, default) ==
    LET limits == Carrying(opts, "limit")
    IN  IF limits = <<>> THEN default ELSE Last(limits).val

Statements(block) == Range(block)

\* Constructions by v1 statements, in the version of the library v1 code uses.
V1Constructs(block) ==
    {[to |-> s.to, svc |-> s.svc, icpts |-> Values(Carrying(s.opts, "icpt")),
      limit |-> ReadLimit(s.opts, Unlimited)] :
        s \in {t \in Statements(block) : t.k \in {"handle", "client"}}}

\* The v1 interceptor a v2 side-specific constructor stands for.
Kind(icpt) == IF icpt \in {"validate.Server", "validate.Client"} THEN "validate" ELSE icpt

V2Constructs(block) ==
    LET Has(k) == {s \in Statements(block) : s.k = k}
        Kinds(icpts) == [i \in DOMAIN icpts |-> Kind(icpts[i].val)]
    IN  {[to |-> x[3].to, svc |-> x[2].svc, icpts |-> Kinds(x[1].icpts),
          limit |-> ReadLimit(x[3].opts, DefaultReadMaxBytes)] :
            x \in {y \in Has("server") \X Has("register") \X Has("mount") :
                      y[1].name = y[2].name /\ y[1].name = y[3].name}}
        \cup {[to |-> s.to, svc |-> s.svc, icpts |-> Kinds(s.icpts),
               limit |-> ReadLimit(s.opts, DefaultReadMaxBytes)] : s \in Has("dial")}

-----------------------------------------------------------------------------
(* The passes.                                                             *)

\* Inline connect.WithInterceptors(...) and locals assigned one.
isInterceptorOption(o) == o.is = "icpt" /\ o.by \in {"call", "local"}

splitHandlerOptions(opts) ==
    [interceptors |-> SelectSeq(opts, isInterceptorOption),
     other |-> SelectSeq(opts, LAMBDA o : ~isInterceptorOption(o))]

\* validate.NewInterceptor has a v2 form per side when it is written inline;
\* every other interceptor stays as it is and is reported.
mapInterceptor(o, side) ==
    IF o.by = "call" /\ o.val = "validate"
    THEN [o EXCEPT !.by = "v2", !.val = IF side = "Server" THEN "validate.Server" ELSE "validate.Client"]
    ELSE [o EXCEPT !.by = IF @ = "call" THEN "v2" ELSE @]

unmapped(opts) == {o \in Range(opts) : ~(o.by = "call" /\ o.val = "validate")}

\* A limit the tool can read; or one may be hidden in a spread.
findReadLimit(opts, spread) ==
    IF \E o \in Range(opts) : o.is = "limit" /\ o.by \in {"call", "local"} THEN "set"
    ELSE IF spread THEN "hidden" ELSE "absent"

injectReadLimitLast(opts) == opts \o <<Opt("limit", "moved", Unlimited)>>

\* The pin goes first, so that any limit the tool cannot see still wins.
injectReadLimit(opts) == <<Opt("limit", "moved", Unlimited)>> \o opts

Spread(s) == \E o \in Range(s.opts) : o.by = "spread"

pinReadLimit(opts, spread) == IF findReadLimit(opts, spread) = "set" THEN opts ELSE injectReadLimit(opts)

reportReadLimit(s, presence) ==
    IF presence = "set" THEN {} ELSE {[rule |-> "read_limit_default", of |-> <<"statement", s, presence>>]}

Notes(s) ==
    LET split == splitHandlerOptions(s.opts)
    IN  {[rule |-> "interceptor_migration", of |-> <<"option", o>>] : o \in unmapped(split.interceptors)}
        \cup reportReadLimit(s, findReadLimit(split.other, Spread(s)))

\* Only the inline mux.Handle shape is matched; the key is the printed (mux,
\* options) pair.
matchConstruction(s) == s.k = "handle"

groupKey(s) == <<s.to, s.opts>>

\* Consecutive matches with equal keys share one server.
constructionRuns(block) ==
    LET Join(runs, s) ==
            IF ~matchConstruction(s) THEN Append(runs, [run |-> FALSE, stmts |-> <<s>>])
            ELSE IF runs # <<>> /\ Last(runs).run /\ groupKey(Last(runs).stmts[1]) = groupKey(s)
            THEN Append(Front(runs), [Last(runs) EXCEPT !.stmts = Append(@, s)])
            ELSE Append(runs, [run |-> TRUE, stmts |-> <<s>>])
    IN  FoldLeft(Join, <<>>, block)

\* A server name that neither the block nor an earlier replacement uses.
uniqueIdent(block) ==
    LET used == {s.name : s \in {t \in Statements(block) : t.k = "server"}}
    IN  CHOOSE n \in 1..(Len(block) + 1) : n \notin used /\ \A m \in 1..(n - 1) : m \in used

\* Mount gets the options without the dots of a spread.
buildConstructionReplacement(before, run) ==
    LET first == run[1]
        split == splitHandlerOptions(first.opts)
        name  == uniqueIdent(before)
        Plain(opts) == [i \in DOMAIN opts |-> [opts[i] EXCEPT !.by = IF @ = "spread" THEN "slice" ELSE @]]
    IN  <<[k |-> "server", name |-> name,
           icpts |-> [i \in DOMAIN split.interceptors |-> mapInterceptor(split.interceptors[i], "Server")]]>>
        \o [i \in DOMAIN run |-> [k |-> "register", name |-> name, svc |-> run[i].svc]]
        \o <<[k |-> "mount", to |-> first.to, name |-> name, opts |-> Plain(pinReadLimit(split.other, Spread(first)))]>>

\* A second group on a mux is reported: v2 interceptors apply per server.
differingOptions(runs) ==
    LET heads == SelectSeq(runs, LAMBDA r : r.run)
        First(i) == CHOOSE j \in 1..i : /\ heads[j].stmts[1].to = heads[i].stmts[1].to
                                        /\ \A k \in 1..(j - 1) : heads[k].stmts[1].to # heads[i].stmts[1].to
    IN  {[rule |-> "handler_construction", of |-> <<"statement", heads[i].stmts[1]>>] :
            i \in {n \in DOMAIN heads : groupKey(heads[n].stmts[1]) # groupKey(heads[First(n)].stmts[1])}}

rewriteServerConstruction(block) ==
    LET runs == constructionRuns(block)
        Emit(out, r) == out \o (IF r.run THEN buildConstructionReplacement(out, r.stmts) ELSE r.stmts)
    IN  [block |-> FoldLeft(Emit, <<>>, runs),
         warn |-> differingOptions(runs)
                  \cup UNION {Notes(r.stmts[1]) : r \in {q \in Range(runs) : q.run}}]

\* The interceptors go to connect.NewClient, the rest to the transport; a spread
\* goes there too, behind the pin.
rewriteClientConstruction(block) ==
    LET Dial(s) ==
            LET split == splitHandlerOptions(s.opts)
            IN  [k |-> "dial", to |-> s.to, svc |-> s.svc,
                 icpts |-> [i \in DOMAIN split.interceptors |-> mapInterceptor(split.interceptors[i], "Client")],
                 opts |-> pinReadLimit(split.other, Spread(s))]
    IN  [block |-> [i \in DOMAIN block |-> IF block[i].k = "client" THEN Dial(block[i]) ELSE block[i]],
         warn |-> UNION {Notes(s) : s \in {t \in Statements(block) : t.k = "client"}}]
=============================================================================
