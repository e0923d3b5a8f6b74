------------------------------ MODULE MigrateTool ------------------------------
(***************************************************************************)
(* The migration tool: what runs over a project (MigrateRun) come to that  *)
(* rewrite its Go files as MigrateGo says, RewriteFile being Rewrite and   *)
(* StripMsg being stripDanglingMsg, and its template as MigrateTemplate    *)
(* says.                                                                   *)
(***************************************************************************)
EXTENDS MigrateRun, MigrateGo, MigrateTemplate

-----------------------------------------------------------------------------
(* Properties.                                                             *)

Reported(n) == {d.of : d \in {e \in told : e.file = n}}

\* A file whose v1 import is gone while its stubs were not ready: Rewrite returns
\* it as it is on every later run.
Stranded(f) == f.v1 = "" /\ ~usesConnectStub(f) /\ f.eco # "v1"

\* What the tool is known to leave without a word: a symbol that is in none
\* of its tables, once v2 has taken over the name; a computed error message,
\* which a second run converts again; the metadata of a reply in
\* a function with neither a request parameter nor a client response; a
\* handler constructor whose results go to variables.
KnownGaps(f) ==
    LET was == project.files["a"].fn
    IN  {<<"symbol", "AnyRequest">>, <<"symbol", "message.Error">>}
        \cup (IF Named(was, {"param", "response"}) # {} THEN {}
              ELSE {<<"access", a>> : a \in {b \in f.fn.acc : b.on \in Named(was, {"reply"})}})
        \cup {<<"statement", s>> : s \in {t \in Range(f.block) : t.k = "assign"}}

\* The .Msg uses that no per-file pass looks at and no report names: those at
\* an uncommon position, those on a NewRequest or a NewResponse, and those of a
\* CloseAndReceive result in a closure.  Only the typed pass removes them.
UnseenMsg(was) ==
    {<<where, u>> \in {"body", "closure"} \X (was.msg \cup was.inner) :
        \/ u.at = "other"
        \/ u.on \in Named(was, {"request", "reply"})
        \/ where = "closure" /\ u.on \in Named(was, {"received"})}

\* rewrite.go, "reports anything that needs a manual change": after a -w run
\* in which nothing failed, whatever is left of v1 in a file whose bindings
\* are v2 - selectors, metadata, stream parameters, constructions - was named
\* by some completed run, and the wrappers are gone.  So is .Msg, where the
\* per-file passes look; and everywhere, in every file, when a result flipped.
LeftIsReported ==
    CleanRun =>
        /\ \A n \in run.ready :
              LET f == disk[n]
              IN  ~Stranded(run.src[n]) =>
                    /\ LeftSites(f) \cup LeftInFunc(f.fn) \cup LeftStatements(f) \subseteq Reported(n) \cup KnownGaps(f)
                    /\ LeftMsg(f.fn) \subseteq UnseenMsg(project.files[n].fn)
                    /\ ~LeftWrappers(f)
        /\ run.flipped => danglingMsg(disk, run.gen) = {}

\* A repeated -w run changes nothing: what a pass writes, no pass rewrites.
\* An error message that was computed is the exception: v2 code cannot be
\* told from v1 code there, and convertNewErrorInPlace appends .Error().
RerunIsQuiet ==
    CleanRun /\ run.gen = gen =>
        /\ RewriteBufGen(tmpl).out = tmpl
        /\ \A n \in run.ready :
              \/ "message" \in {s.sym : s \in disk[n].sites}
              \/ RewriteOf(disk[n], TRUE).file = disk[n]

\* Every qualifier of a file names one of its imports, whichever runs, faults
\* and kills it has been through: finishRewrite adds what the passes use and
\* drops v1 only when nothing needs its name.  A helper whose slice became
\* connecthttp's returns nothing but connecthttp's options.
ImportsResolve ==
    \A n \in Files :
        LET f == disk[n]
        IN  /\ \A q \in {s.q : s \in f.sites} \cup FuncRefs(f) \cup BlockRefs(f) : Package(f, q) # "none"
            /\ Site("Option", "connecthttp") \in f.sites =>
                  \A sym \in f.helper.elts : Site(sym, "connecthttp") \in f.sites

\* A statement that does not build: an option the v2 constructor does not take,
\* a slice where an option belongs, a spread beside another option.
DoesNotBuild(s) ==
    /\ s.k \in {"mount", "dial"}
    /\ \E o \in Range(s.opts) : o.is = "icpt" \/ o.by = "slice" \/ (o.by = "spread" /\ Len(s.opts) > 1)

\* The handler's stream parameter does not get another RPC's generated type, where
\* the RPC's own is loaded and the receiver is named after its service or
\* after none.
StreamTypeIsOwn ==
    LET h == project.handler
        own == [name |-> generatedStreamName(h.service, h.rpc), pkg |-> h.service, messages |-> h.messages]
    IN  own \in buildHandlerStreamResolver =>
            disk["a"].type \subseteq {own}

\* Migrated code means what it meant: every service keeps its interceptors in
\* order and its read limit, on the same mux or URL, and a receive loop shows
\* its body the same messages and leaves with the same error.  A
\* handler's stream parameter never gets another RPC's generated type (see
\* StreamTypeIsOwn for when its own is known).  While a file's bindings are v1,
\* its function and its construction statements stay as they were.  A file
\* that no longer builds (a hidden interceptor, any spread opts...) means
\* nothing, nor does one that a write destroyed.
MeaningKept ==
    /\ StreamTypeIsOwn
    /\ \A n \in Files :
        LET old == project.files[n]
            new == disk[n]
            kinds(f) == [i \in DOMAIN f.block |-> f.block[i].k]
        IN  new.origin # "lost" =>
            /\ old.stub # "" /\ gen[old.stub] = 1 => new.fn = old.fn /\ kinds(new) = kinds(old)
            /\ \/ \E s \in Range(new.block) : DoesNotBuild(s)
               \/ V1Constructs(new.block) \cup V2Constructs(new.block) = V1Constructs(old.block)
            /\ old.fn.loop.form = "v1" /\ ~ReshapeChanges(old.fn.loop) =>
                  \A k \in 0..2, fails \in BOOLEAN :
                      Outcome(new.fn.loop, k, fails) = Outcome(old.fn.loop, k, fails)

\* After a -w run whose template write succeeded, every connect-go entry asks
\* for v2 and every other entry, key and option is as it was; entries the
\* line scanner does not see are left alone.  A template that was not cut short
\* or lost stays readable, but for a simple beside a bracket: stripInlineSimple
\* takes the bracket with it.
TemplateIsMigrated ==
    LET old == Entries(project.tmpl)
        new == Entries(tmpl)
        Skipped(n) == Unseen(old[n]) \/ old[n].edge
    IN  \/ tmpl = EmptyTemplate /\ faults > 0
        \/ /\ DOMAIN new = DOMAIN old
           /\ \A n \in DOMAIN new : new[n].open => old[n].edge
           /\ \A n \in DOMAIN new : new[n] \in {old[n], Migrated(old[n])} \/ Skipped(n)
           /\ CleanRun => \A n \in DOMAIN new : Skipped(n) \/ new[n] = Migrated(old[n])

\* The diff a dry run shows for the template, applied to the old text, gives the
\* new one; every change is in exactly one hunk, and each hunk's header counts
\* its lines.
DiffIsFaithful ==
    Finished(FALSE) /\ "tmpl" \in DOMAIN run.rewrites =>
        LET a == run.rewrites["tmpl"].src
            b == run.rewrites["tmpl"].out
            script == editScript(a, b)
            Text(lines, tag) == LET kept == SelectSeq(lines, LAMBDA l : l.tag \in {"same", tag})
                                IN  [i \in DOMAIN kept |-> kept[i].line]
            Shown(tag) == SelectSeq(FlattenSeq(hunks(script)), LAMBDA l : l.tag = tag)
        IN  /\ Text(script, "removed") = a
            /\ Text(script, "added") = b
            /\ \A tag \in {"removed", "added"} : Shown(tag) = SelectSeq(script, LAMBDA l : l.tag = tag)
            /\ \A h \in Range(hunks(script)) :
                  LET at == bounds(h)
                  IN  /\ Text(h, "removed") = SubSeq(a, at.a.start, at.a.start + at.a.count - 1)
                      /\ Text(h, "added") = SubSeq(b, at.b.start, at.b.start + at.b.count - 1)

\* "First, move the dependencies and generated code to v2": once every step of
\* a regenerate-first report of a -w run is done, no binding of the main
\* module or of an SDK is v1, and go.mod has every module - where the template
\* write succeeded and the scanner saw every entry.  The steps regenerate with
\* the remote plugin that the tool pinned; where that is not published, they
\* suffice because the report says so and what to do first.
StepsSuffice ==
    CleanRun /\ project.guided /\ advice = <<>> /\ ~run.anyReady
        /\ ~(\E e \in Range(Entries(project.tmpl)) : Unseen(e) \/ e.edge) =>
            /\ goGetModules \subseteq env.mods
            /\ \A s \in DOMAIN gen : gen[s] = 1 => categorizeV1Stub(s) = "external"
=============================================================================
