--------------------------- MODULE MigrateRunProofs ----------------------------
(***************************************************************************)
(* Proofs about MigrateRun: for all projects of two files, any number of   *)
(* faults, and whatever RewriteFile and RewriteTemplate make of a file,    *)
(* the report says what the run did, and what is out of scope is not       *)
(* touched.                                                                *)
(***************************************************************************)
EXTENDS MigrateRun, TLAPS

-----------------------------------------------------------------------------
(* What a run does when nothing fails, as a function of what it started    *)
(* from, its job: the files, the template and the versions of the bindings.*)

JobOf(r) == [project |-> project, src |-> r.src, tsrc |-> r.tsrc, gen |-> r.gen]

SourcesOf(j) ==
    {n \in Files : /\ ~isGeneratedAST(j.src[n]) /\ j.project.files[n].origin # "outdir"
                   /\ fileUsesConnect(j.src[n])}

ReadyOf(j) == {n \in SourcesOf(j) : ~(j.src[n].stub # "" /\ j.gen[j.src[n].stub] = 1)}

WalkOf(j, n) == IF n \in SourcesOf(j) THEN <<n>> ELSE <<>>

TodoOf(j) ==
    IF ReadyOf(j) # {} \/ ~\E s \in DOMAIN j.gen : j.gen[s] = 1
    THEN WalkOf(j, "a") \o WalkOf(j, "b") ELSE <<>>

ResolverOf(j) ==
    {[name |-> StreamTypeName(h.service, h.rpc), pkg |-> h.service, messages |-> h.messages] :
        h \in {k \in j.project.rpcs : j.gen[k.stub] = 2}}

Result(j, n) ==
    LET h == j.project.handler
    IN  RewriteFile(j.src[n], n \in ReadyOf(j), StreamTypeOf(ResolverOf(j), h.rpc, h.recv, h.messages))

\* The template and the files by one name.
Source(j, n) == IF n = "tmpl" THEN j.tsrc ELSE j.src[n]

Target(j, n) == IF n = "tmpl" THEN RewriteTemplate(j.tsrc).out ELSE Result(j, n).file

Filed(name, diags) == {[file |-> name, rule |-> d.rule, of |-> d.of] : d \in diags}

NotesOf(j, n) ==
    IF n = "tmpl" THEN Filed(n, {[rule |-> m, of |-> <<"entry">>] : m \in RewriteTemplate(j.tsrc).notes})
    ELSE Filed(n, Result(j, n).warn)

\* After the template and the files of done.
RewritesOf(j, done) ==
    [n \in {m \in done : Target(j, m) # Source(j, m)} |-> [src |-> Source(j, n), out |-> Target(j, n)]]

DiagsOf(j, done) == UNION {NotesOf(j, n) : n \in done}

FlippedOf(j, done) == \E n \in done : n # "tmpl" /\ Result(j, n).flipped

NamesIn(todo) == {todo[i] : i \in DOMAIN todo}

\* Everything there is to do.
All(j) == {"tmpl"} \cup NamesIn(TodoOf(j))

\* The typed pass over the files as rewritten.
ViewOf(j) == [n \in Files |-> IF n \in DOMAIN RewritesOf(j, All(j))
                              THEN RewritesOf(j, All(j))[n].out ELSE j.src[n]]

StrippedOf(j) ==
    Recorded([n \in danglingMsg(ViewOf(j), j.gen) |-> [src |-> j.src[n], out |-> Stripped(ViewOf(j), j.gen, n)]],
             RewritesOf(j, All(j)))

FinalOf(j) == IF ReadyOf(j) # {} /\ FlippedOf(j, All(j)) THEN StrippedOf(j) ELSE RewritesOf(j, All(j))

-----------------------------------------------------------------------------
(* The invariant.                                                          *)

IsRun(r) ==
    r = [pc |-> r.pc, write |-> r.write, src |-> r.src, tsrc |-> r.tsrc, gen |-> r.gen, todo |-> r.todo,
         ready |-> r.ready, anyReady |-> r.anyReady, rewrites |-> r.rewrites, diags |-> r.diags,
         flipped |-> r.flipped, failed |-> r.failed, errored |-> r.errored, stripped |-> r.stripped,
         ended |-> r.ended]

Shape ==
    /\ disk = [n \in Files |-> disk[n]]
    /\ IsRun(run) /\ IsRun(dry)
    /\ run.pc \in {"idle", "template", "sources", "report"}
    /\ run.write \in BOOLEAN
    /\ run.todo \in {<<>>, <<"a">>, <<"b">>, <<"a", "b">>}
    /\ faults \in Nat

\* What a run that goes on works from.
Begun ==
    run.pc # "idle" =>
        /\ run.gen = gen
        /\ run.ended = "never"
        /\ run.ready = ReadyOf(JobOf(run))
        /\ run.anyReady = (run.ready # {})

Ended == run.ended \in {"exit 0", "exit 1"}

\* What the run lists of a file, or what it found.
Listed(n) == IF run.write /\ n \in DOMAIN run.rewrites THEN run.rewrites[n].out ELSE run.src[n]

ListedTemplate == IF run.write /\ "tmpl" \in DOMAIN run.rewrites THEN run.rewrites["tmpl"].out ELSE run.tsrc

\* The disk is what the run's rewrites make of what it started from, but for
\* what a failed write has destroyed.
Accounted ==
    run.pc # "idle" \/ Ended =>
        /\ run.src = [n \in Files |-> run.src[n]]
        /\ \A n \in Files : disk[n] = Listed(n) \/ (run.write /\ n \in run.failed /\ disk[n] = EmptyFile)
        /\ tmpl = ListedTemplate \/ (run.write /\ "tmpl" \in run.failed /\ tmpl = EmptyTemplate)

\* What failed is said, and it was not listed before the typed pass: every name
\* is dealt with once.
Faulted ==
    /\ faults = 0 => run.failed = {}
    /\ run.pc # "idle" /\ run.failed # {} => run.errored
    /\ Ended /\ run.failed # {} => run.ended = "exit 1"
    /\ run.pc = "template" => run.failed = {}
    /\ run.pc = "sources" => /\ run.failed \cap DOMAIN run.rewrites = {}
                             /\ NamesIn(run.todo) \cap (run.failed \cup DOMAIN run.rewrites) = {}
    /\ run.pc = "report" \/ Ended =>
          (run.failed \cap DOMAIN run.rewrites # {} => run.anyReady /\ run.flipped)

\* Nothing was done before the template; a file is done when it is no longer
\* to do.
AtStart ==
    run.pc = "template" =>
        /\ run.rewrites = <<>> /\ run.diags = {} /\ run.flipped = FALSE
        /\ run.todo = TodoOf(JobOf(run))

Underway ==
    faults = 0 /\ run.pc = "sources" =>
        LET j == JobOf(run)
            done == All(j) \ NamesIn(run.todo)
        IN  /\ NamesIn(run.todo) \subseteq NamesIn(TodoOf(j))
            /\ run.rewrites = RewritesOf(j, done)
            /\ run.diags = DiagsOf(j, done)
            /\ run.flipped = FlippedOf(j, done)

Complete(r) == r.rewrites = FinalOf(JobOf(r)) /\ r.diags = DiagsOf(JobOf(r), All(JobOf(r)))

AtEnd ==
    faults = 0 =>
        /\ run.pc = "report" \/ (run.pc = "idle" /\ Ended) => Complete(run)
        /\ dry # NoRun => Complete(dry)

ReportInv == Shape /\ Begun /\ Accounted /\ Faulted /\ AtStart /\ Underway /\ AtEnd

-----------------------------------------------------------------------------
(* The steps of a run, field by field.                                     *)

\* A step that goes on with the job.
Keeps ==
    /\ run'.src = run.src /\ run'.tsrc = run.tsrc /\ run'.gen = run.gen /\ run'.write = run.write
    /\ run'.ready = run.ready /\ run'.anyReady = run.anyReady
    /\ UNCHANGED <<gen, project>>

KillWriting == KillInTemplate \/ KillInSource \/ \E written \in SUBSET Files, n \in Files : KillInStrip(written, n)

\* The process is killed, between two files or in the middle of one.
LEMMA KillFields ==
  ASSUME IsRun(run), Kill \/ KillWriting
  PROVE  /\ IsRun(run') /\ Keeps
         /\ run.pc # "idle" /\ run'.pc = "idle" /\ run'.ended = "killed" /\ run'.todo = run.todo
         /\ Fault(TRUE)
         /\ UNCHANGED dry
<1>1. run' = [run EXCEPT !.pc = "idle", !.ended = "killed"] /\ UNCHANGED <<gen, project, dry>> /\ Fault(TRUE)
  BY Zenon DEF Kill, KillWriting, KillInTemplate, KillInSource, KillInStrip, Killed
<1>2. run.pc # "idle"
  BY Zenon DEF Kill, KillWriting, KillInTemplate, KillInSource, KillInStrip
<1> QED BY Zenon, <1>1, <1>2 DEF IsRun, Keeps

\* main.go rewrites the template first: the rewrite, the write, the record.
LEMMA TemplateFields ==
  ASSUME IsRun(run), NEW write \in Outcomes, DoTemplate(write)
  PROVE  LET src == run.tsrc
             out == RewriteTemplate(src).out
             new == [n \in {"tmpl"} |-> [src |-> src, out |-> out]]
             fails == write # "done"
         IN  /\ IsRun(run') /\ Keeps
             /\ run.pc = "template" /\ run'.pc = "sources"
             /\ run'.ended = run.ended /\ run'.todo = run.todo /\ run'.flipped = run.flipped
             /\ fails => run.write /\ out # src
             /\ run'.rewrites = IF out # src /\ ~fails THEN Recorded(new, run.rewrites) ELSE run.rewrites
             /\ run'.failed = IF fails THEN run.failed \cup {"tmpl"} ELSE run.failed
             /\ run'.errored = (run.errored \/ fails)
             /\ run'.diags = run.diags \cup Filed("tmpl", {[rule |-> m, of |-> <<"entry">>] :
                                                              m \in RewriteTemplate(src).notes})
             /\ tmpl' = IF run.write /\ out # src /\ ~fails THEN out
                        ELSE IF write = "lost" THEN EmptyTemplate ELSE tmpl
             /\ Fault(fails)
             /\ UNCHANGED <<disk, dry>>
<1> DEFINE src == run.tsrc
           out == RewriteTemplate(src).out
           diags == {[rule |-> n, of |-> <<"entry">>] : n \in RewriteTemplate(src).notes}
<1>1. /\ run.pc = "template" /\ UNCHANGED <<disk, gen, dry, project>> /\ Fault(write # "done")
      /\ write # "done" => run.write /\ out # src
      /\ run' = [processFile("tmpl", src, out, diags, write) EXCEPT !.pc = "sources"]
      /\ tmpl' = IF run.write /\ out # src THEN writeFilePreservingMode(tmpl, out, EmptyTemplate, write) ELSE tmpl
  BY DEF DoTemplate
<1>2. tmpl' = IF run.write /\ out # src /\ write = "done" THEN out
              ELSE IF write = "lost" THEN EmptyTemplate ELSE tmpl
  BY <1>1 DEF writeFilePreservingMode, Outcomes
<1>3. /\ IsRun(run') /\ Keeps
      /\ run'.pc = "sources"
      /\ run'.ended = run.ended /\ run'.todo = run.todo /\ run'.flipped = run.flipped
  BY Zenon, <1>1 DEF IsRun, Keeps, processFile
<1>4. /\ run'.rewrites = IF out # src /\ write = "done"
                         THEN Recorded([n \in {"tmpl"} |-> [src |-> src, out |-> out]], run.rewrites)
                         ELSE run.rewrites
      /\ run'.failed = IF write # "done" THEN run.failed \cup {"tmpl"} ELSE run.failed
      /\ run'.errored = (run.errored \/ write # "done")
      /\ run'.diags = run.diags \cup Filed("tmpl", diags)
  BY <1>1 DEF IsRun, processFile, Filed
<1> QED BY Zenon, <1>1, <1>2, <1>3, <1>4

\* processFile on the next source.
LEMMA SourceFields ==
  ASSUME IsRun(run), NEW write \in Outcomes, DoSource(write)
  PROVE  LET n == Head(run.todo)
             src == run.src[n]
             r == RewriteOf(src, n \in run.ready)
             new == [m \in {n} |-> [src |-> src, out |-> r.file]]
             fails == write # "done"
         IN  /\ IsRun(run') /\ Keeps
             /\ run.pc = "sources" /\ run'.pc = "sources"
             /\ run.todo # <<>> /\ run'.todo = Tail(run.todo)
             /\ run'.ended = run.ended /\ run'.flipped = (run.flipped \/ r.flipped)
             /\ fails => run.write /\ r.file # src
             /\ run'.rewrites = IF r.file # src /\ ~fails THEN Recorded(new, run.rewrites) ELSE run.rewrites
             /\ run'.failed = IF fails THEN run.failed \cup {n} ELSE run.failed
             /\ run'.errored = (run.errored \/ fails)
             /\ run'.diags = run.diags \cup Filed(n, r.warn)
             /\ disk' = IF run.write /\ r.file # src
                        THEN [disk EXCEPT ![n] = IF ~fails THEN r.file ELSE IF write = "lost" THEN EmptyFile ELSE @]
                        ELSE disk
             /\ Fault(fails)
             /\ UNCHANGED <<tmpl, dry>>
<1> DEFINE n == Head(run.todo)
           src == run.src[n]
           r == RewriteOf(src, n \in run.ready)
           out == r.file
<1>1. /\ run.pc = "sources" /\ run.todo # <<>> /\ UNCHANGED <<tmpl, gen, dry, project>> /\ Fault(write # "done")
      /\ write # "done" => run.write /\ out # src
      /\ run' = [processFile(n, src, out, r.warn, write) EXCEPT !.todo = Tail(@), !.flipped = @ \/ r.flipped]
      /\ disk' = IF run.write /\ out # src
                 THEN [disk EXCEPT ![n] = writeFilePreservingMode(@, out, EmptyFile, write)] ELSE disk
  BY Zenon DEF DoSource
<1> HIDE DEF r
<1>2. \A old : writeFilePreservingMode(old, out, EmptyFile, write) =
                  IF write = "done" THEN out ELSE IF write = "lost" THEN EmptyFile ELSE old
  BY DEF writeFilePreservingMode, Outcomes
<1>3. /\ IsRun(run') /\ Keeps
      /\ run'.pc = run.pc /\ run'.todo = Tail(run.todo)
      /\ run'.ended = run.ended /\ run'.flipped = (run.flipped \/ r.flipped)
  BY Zenon, <1>1 DEF IsRun, Keeps, processFile
<1>4. /\ run'.rewrites = IF out # src /\ write = "done"
                         THEN Recorded([m \in {n} |-> [src |-> src, out |-> out]], run.rewrites)
                         ELSE run.rewrites
      /\ run'.failed = IF write # "done" THEN run.failed \cup {n} ELSE run.failed
      /\ run'.errored = (run.errored \/ write # "done")
      /\ run'.diags = run.diags \cup Filed(n, r.warn)
  BY Zenon, <1>1 DEF IsRun, processFile, Filed
<1> QED BY Zenon, <1>1, <1>2, <1>3, <1>4 DEF r

\* A source that does not parse is passed over.
LEMMA ParseErrorFields ==
  ASSUME IsRun(run), ParseError
  PROVE  /\ IsRun(run') /\ Keeps
         /\ run.pc = "sources" /\ run'.pc = "sources"
         /\ run.todo # <<>> /\ run'.todo = Tail(run.todo)
         /\ run'.ended = run.ended /\ run'.rewrites = run.rewrites
         /\ run'.failed = run.failed /\ run'.errored = TRUE
         /\ Fault(TRUE)
         /\ UNCHANGED <<disk, tmpl, dry>>
  BY Zenon DEF IsRun, ParseError, Keeps

\* stripDanglingMsgPass edits the files with a dangling .Msg.
LEMMA StripFields ==
  ASSUME IsRun(run), NEW failed \in SUBSET Files, NEW lost \in SUBSET Files, DoStrip(failed, lost)
  PROVE  LET edited == danglingMsg(Overlay, run.gen) \ failed
             Out(n) == Stripped(Overlay, run.gen, n)
             Base(n) == IF n \in DOMAIN run.rewrites THEN run.rewrites[n].src ELSE Overlay[n]
         IN  /\ IsRun(run') /\ Keeps
             /\ run.pc = "sources" /\ run'.pc = "report"
             /\ run.todo = <<>> /\ run'.todo = run.todo
             /\ run.anyReady /\ run.flipped /\ run'.flipped = run.flipped
             /\ run'.ended = run.ended /\ run'.diags = run.diags
             /\ run'.rewrites = Recorded([n \in edited |-> [src |-> Base(n), out |-> Out(n)]], run.rewrites)
             /\ failed \subseteq danglingMsg(Overlay, run.gen) /\ lost \subseteq failed
             /\ failed # {} => run.write
             /\ run'.failed = run.failed \cup failed
             /\ run'.errored = (run.errored \/ failed # {})
             /\ disk' = [n \in Files |-> IF n \in lost THEN EmptyFile
                                         ELSE IF n \in edited /\ run.write THEN Out(n) ELSE disk[n]]
             /\ Fault(failed # {})
             /\ UNCHANGED <<tmpl, dry>>
  BY Zenon DEF IsRun, DoStrip, stripDanglingMsgPass, Keeps

\* The typed pass is not needed, or the project does not load.
LEMMA NoStripFields ==
  ASSUME IsRun(run), StripCannotLoad \/ SkipStrip
  PROVE  /\ IsRun(run') /\ Keeps
         /\ run.pc = "sources" /\ run'.pc = "report"
         /\ run.todo = <<>> /\ run'.todo = run.todo
         /\ run'.flipped = run.flipped /\ run'.ended = run.ended
         /\ run'.diags = run.diags /\ run'.rewrites = run.rewrites
         /\ run'.failed = run.failed /\ run'.errored = run.errored
         /\ \/ Fault(TRUE)
            \/ faults' = faults /\ ~(run.anyReady /\ run.flipped)
         /\ UNCHANGED <<disk, tmpl, dry>>
  BY Zenon DEF IsRun, StripCannotLoad, SkipStrip, Keeps

\* printReport ends the run.
LEMMA ReportFields ==
  ASSUME IsRun(run), NEW json \in BOOLEAN, printReport(json)
  PROVE  /\ IsRun(run') /\ Keeps
         /\ run.pc = "report" /\ run'.pc = "idle"
         /\ run'.todo = run.todo
         /\ run'.ended = IF run.errored THEN "exit 1" ELSE "exit 0"
         /\ run'.diags = run.diags /\ run'.rewrites = run.rewrites
         /\ run'.failed = run.failed /\ run'.flipped = run.flipped
         /\ dry' = IF run.write THEN dry ELSE run'
         /\ UNCHANGED <<disk, tmpl, faults>>
  BY DEF IsRun, printReport, Keeps

\* A run starts from what is on the disk: discovery's readiness and work list are
\* functions of its job.
LEMMA StartFields ==
  ASSUME NEW write \in BOOLEAN, Start(write)
  PROVE  /\ run.pc = "idle"
         /\ \E t, r : run' = [pc |-> "template", write |-> write, src |-> disk, tsrc |-> tmpl, gen |-> gen,
                     todo |-> t, ready |-> r, anyReady |-> r # {}, rewrites |-> <<>>, diags |-> {},
                     flipped |-> FALSE, failed |-> {}, errored |-> FALSE, stripped |-> FALSE, ended |-> "never"]
            /\ r = ReadyOf([project |-> project, src |-> disk, tsrc |-> tmpl, gen |-> gen])
            /\ t = TodoOf([project |-> project, src |-> disk, tsrc |-> tmpl, gen |-> gen])
         /\ UNCHANGED <<disk, tmpl, gen, dry, told, env, faults, project>>
<1> DEFINE j == [project |-> project, src |-> disk, tsrc |-> tmpl, gen |-> gen]
<1>1. SourcesOf(j) = Sources
  BY DEF SourcesOf, Sources, underGenDir
<1>2. ReadyOf(j) = {n \in Sources : ~importsV1Stub(disk[n])}
  BY <1>1 DEF ReadyOf, importsV1Stub
<1>3. hasV1Gen <=> \E s \in DOMAIN j.gen : j.gen[s] = 1
  BY DEF hasV1Gen
<1>4. run' = [pc |-> "template", write |-> write, src |-> disk, tsrc |-> tmpl, gen |-> gen,
                     todo |-> TodoOf(j), ready |-> ReadyOf(j), anyReady |-> ReadyOf(j) # {},
                     rewrites |-> <<>>, diags |-> {},
                     flipped |-> FALSE, failed |-> {}, errored |-> FALSE, stripped |-> FALSE, ended |-> "never"]
  <2>1. run' = [NoRun EXCEPT !.pc = "template", !.write = write, !.src = disk, !.tsrc = tmpl, !.gen = gen,
                                !.ready = ReadyOf(j), !.anyReady = ReadyOf(j) # {},
                                !.todo = TodoOf(j)]
    BY Zenon, <1>1, <1>2, <1>3 DEF Start, TodoOf, WalkOf
  <2> QED BY Zenon, <2>1 DEF NoRun
<1> QED BY Zenon, <1>4 DEF Start

-----------------------------------------------------------------------------
(* One more file done.                                                     *)

\* Before the first file.
LEMMA NothingDone ==
  ASSUME NEW j
  PROVE  RewritesOf(j, {}) = <<>> /\ DiagsOf(j, {}) = {} /\ FlippedOf(j, {}) = FALSE
  BY DEF RewritesOf, DiagsOf, FlippedOf

\* The diagnostics of one more file.
LEMMA OneMoreNoted ==
  ASSUME NEW j, NEW done, NEW n
  PROVE  DiagsOf(j, done \cup {n}) = DiagsOf(j, done) \cup NotesOf(j, n)
  BY DEF DiagsOf

\* Whether a result flipped, with one more file.
LEMMA OneMoreFlipped ==
  ASSUME NEW j, NEW done, NEW n
  PROVE  FlippedOf(j, done \cup {n}) = (FlippedOf(j, done) \/ (n # "tmpl" /\ Result(j, n).flipped))
  BY Zenon DEF FlippedOf

\* The record of one more file: none if the rewrite leaves it as it is.
LEMMA OneMoreRewritten ==
  ASSUME NEW j, NEW done, NEW n
  PROVE  RewritesOf(j, done \cup {n}) =
              IF Target(j, n) # Source(j, n)
              THEN Recorded([m \in {n} |-> [src |-> Source(j, n), out |-> Target(j, n)]], RewritesOf(j, done))
              ELSE RewritesOf(j, done)
<1>1. CASE Target(j, n) # Source(j, n)
  BY <1>1 DEF RewritesOf, Recorded
<1>2. CASE Target(j, n) = Source(j, n)
  <2>1. {m \in done \cup {n} : Target(j, m) # Source(j, m)} = {m \in done : Target(j, m) # Source(j, m)}
    BY <1>2
  <2> QED BY <2>1, <1>2 DEF RewritesOf
<1> QED BY <1>1, <1>2

\* Discovery lists files of the project, in their order and once each.
LEMMA TodoIsOfFiles ==
  ASSUME NEW j
  PROVE  TodoOf(j) \in {<<>>, <<"a">>, <<"b">>, <<"a", "b">>}
<1>1. WalkOf(j, "a") \in {<<>>, <<"a">>} /\ WalkOf(j, "b") \in {<<>>, <<"b">>}
  BY DEF WalkOf
<1>2. /\ <<>> \o <<>> = <<>> /\ <<"a">> \o <<>> = <<"a">>
      /\ <<>> \o <<"b">> = <<"b">> /\ <<"a">> \o <<"b">> = <<"a", "b">>
  <2>1. <<>> \o <<>> = <<>>
    OBVIOUS
  <2>2. <<"a">> \o <<>> = <<"a">>
    OBVIOUS
  <2>3. <<>> \o <<"b">> = <<"b">>
    OBVIOUS
  <2>4. <<"a">> \o <<"b">> = <<"a", "b">>
    <3> DEFINE s == <<"a">> \o <<"b">>
    <3>1. s \in Seq(Files) /\ Len(s) = 2
      BY DEF Files
    <3>2. s[1] = "a" /\ s[2] = "b"
      OBVIOUS
    <3> HIDE DEF s
    <3>3. s = <<s[1], s[2]>>
      BY <3>1
    <3> QED BY <3>2, <3>3 DEF s
  <2> QED BY <2>1, <2>2, <2>3, <2>4
<1>3. WalkOf(j, "a") \o WalkOf(j, "b") \in {<<>>, <<"a">>, <<"b">>, <<"a", "b">>}
  BY <1>1, <1>2, Zenon
<1> QED BY <1>3 DEF TodoOf

\* Taking the next file from the list leaves the others.
LEMMA TodoShape ==
  ASSUME NEW todo \in {<<>>, <<"a">>, <<"b">>, <<"a", "b">>}
  PROVE  /\ NamesIn(todo) \subseteq Files
         /\ todo = <<>> => NamesIn(todo) = {}
         /\ todo # <<>> => /\ Tail(todo) \in {<<>>, <<"a">>, <<"b">>, <<"a", "b">>}
                           /\ Head(todo) \in NamesIn(todo)
                           /\ NamesIn(Tail(todo)) = NamesIn(todo) \ {Head(todo)}
<1>0. \A x, y : NamesIn(<<x>>) = {x} /\ NamesIn(<<x, y>>) = {x, y} /\ NamesIn(<<>>) = {}
  BY DEF NamesIn
<1>1. CASE todo = <<>>
  BY <1>0, <1>1 DEF Files
<1>2. CASE todo = <<"a">>
  BY <1>0, <1>2 DEF Files
<1>3. CASE todo = <<"b">>
  BY <1>0, <1>3 DEF Files
<1>4. CASE todo = <<"a", "b">>
  BY <1>0, <1>4 DEF Files
<1> QED BY <1>1, <1>2, <1>3, <1>4

-----------------------------------------------------------------------------
(* Each step keeps the invariant.                                          *)

\* The job of a run does not change while it goes on.
LEMMA JobKept ==
  ASSUME Keeps
  PROVE  JobOf(run)' = JobOf(run)
  BY DEF Keeps, JobOf

\* The fault counter is zero exactly as long as nothing fails.
LEMMA FaultsKept ==
  ASSUME faults \in Nat, NEW happens \in BOOLEAN, Fault(happens)
  PROVE  faults' \in Nat /\ (faults' = 0 => faults = 0 /\ ~happens)
  BY DEF Fault

\* The last dry run stays complete.
LEMMA DryKept ==
  ASSUME AtEnd, UNCHANGED <<dry, project>>, faults' = 0 => faults = 0
  PROVE  faults' = 0 => (dry # NoRun => Complete(dry))'
  BY DEF AtEnd, Complete, JobOf

\* A run goes on with what it started from.
LEMMA BegunKept ==
  ASSUME Begun, Keeps, run.pc # "idle", run'.pc # "idle" => run'.ended = run.ended
  PROVE  Begun'
  BY JobKept DEF Begun, Keeps

\* What a run makes of a file is what its job says: the bindings do not change
\* under a run.
LEMMA ResultIsRewrite ==
  ASSUME Begun, run.pc # "idle", NEW n
  PROVE  RewriteOf(run.src[n], n \in run.ready) = Result(JobOf(run), n)
<1>1. run.gen = gen /\ run.ready = ReadyOf(JobOf(run))
  BY DEF Begun
<1>2. ResolverOf(JobOf(run)) = buildHandlerStreamResolver
  BY <1>1 DEF ResolverOf, buildHandlerStreamResolver, JobOf
<1>3. JobOf(run).project = project /\ JobOf(run).src = run.src
  BY DEF JobOf
<1> QED BY <1>1, <1>2, <1>3 DEF RewriteOf, Result

\* Each step keeps the invariant: the template,
LEMMA TemplateInv ==
  ASSUME ReportInv, NEW write \in Outcomes, DoTemplate(write)
  PROVE  ReportInv'
<1> DEFINE j == JobOf(run)
           src == run.tsrc
           out == RewriteTemplate(src).out
           new == [n \in {"tmpl"} |-> [src |-> src, out |-> out]]
           fails == write # "done"
<1>1. /\ IsRun(run') /\ Keeps
      /\ run.pc = "template" /\ run'.pc = "sources"
      /\ run'.ended = run.ended /\ run'.todo = run.todo /\ run'.flipped = run.flipped
      /\ fails => run.write /\ out # src
      /\ run'.rewrites = IF out # src /\ ~fails THEN Recorded(new, run.rewrites) ELSE run.rewrites
      /\ run'.failed = IF fails THEN run.failed \cup {"tmpl"} ELSE run.failed
      /\ run'.errored = (run.errored \/ fails)
      /\ run'.diags = run.diags \cup Filed("tmpl", {[rule |-> m, of |-> <<"entry">>] :
                                                       m \in RewriteTemplate(src).notes})
      /\ tmpl' = IF run.write /\ out # src /\ ~fails THEN out
                 ELSE IF write = "lost" THEN EmptyTemplate ELSE tmpl
      /\ Fault(fails)
      /\ UNCHANGED <<disk, dry>>
  BY Zenon, TemplateFields DEF ReportInv, Shape
<1>2. faults' \in Nat /\ (faults' = 0 => faults = 0 /\ ~fails)
  BY Zenon, <1>1, FaultsKept DEF ReportInv, Shape
<1>3. j' = j
  BY Zenon, <1>1, JobKept
<1>4. run.rewrites = <<>> /\ run.diags = {} /\ run.flipped = FALSE /\ run.todo = TodoOf(j) /\ run.failed = {}
  BY Zenon, <1>1 DEF ReportInv, AtStart, Faulted
<1>5. Shape'
  BY <1>1, <1>2 DEF ReportInv, Shape, Keeps
<1>6. Begun'
  BY Zenon, <1>1, BegunKept DEF ReportInv
<1>7. Accounted'
  <2>1. DOMAIN run'.rewrites \subseteq {"tmpl"}
    BY <1>1, <1>4 DEF Recorded
  <2>2. \A n \in Files : n \notin DOMAIN run'.rewrites /\ disk'[n] = run'.src[n]
    BY <2>1, <1>1, <1>4 DEF ReportInv, Accounted, Listed, Keeps, Files
  <2>3. tmpl = run.tsrc
    BY <1>1, <1>4 DEF ReportInv, Accounted, ListedTemplate
  <2>4. tmpl' = ListedTemplate' \/ (run'.write /\ "tmpl" \in run'.failed /\ tmpl' = EmptyTemplate)
    <3>1. CASE ~fails
      BY <3>1, <2>3, <1>1, <1>4 DEF Recorded, Keeps, ReportInv, Shape, ListedTemplate
    <3>2. CASE fails
      BY <3>2, <2>3, <1>1, <1>4 DEF Keeps, ListedTemplate
    <3> QED BY <3>1, <3>2
  <2> QED BY Zenon, <2>2, <2>4, <1>1 DEF ReportInv, Accounted, Listed, Keeps
<1>11. Faulted'
  <2>1. NamesIn(run.todo) \subseteq Files
    BY TodoShape DEF ReportInv, Shape
  <2>2. DOMAIN run'.rewrites \cup run'.failed \subseteq {"tmpl"} /\ DOMAIN run'.rewrites \cap run'.failed = {}
    BY <1>1, <1>4 DEF Recorded
  <2>3. NamesIn(run'.todo) \cap (run'.failed \cup DOMAIN run'.rewrites) = {}
    BY <2>1, <2>2, <1>1 DEF Files
  <2>4. run'.ended = "never"
    BY <1>1 DEF ReportInv, Begun
  <2>5. (faults' = 0 => run'.failed = {}) /\ (run'.failed # {} => run'.errored)
    BY Zenon, <1>1, <1>2, <1>4
  <2> QED BY Zenon, <2>2, <2>3, <2>4, <2>5, <1>1 DEF Faulted, Ended
<1>8. AtStart'
  BY Zenon, <1>1 DEF AtStart
<1>9. Underway'
  <2> SUFFICES ASSUME faults' = 0
               PROVE  /\ NamesIn(run.todo) \subseteq NamesIn(TodoOf(j))
                      /\ run'.rewrites = RewritesOf(j, All(j) \ NamesIn(run.todo))
                      /\ run'.diags = DiagsOf(j, All(j) \ NamesIn(run.todo))
                      /\ run'.flipped = FlippedOf(j, All(j) \ NamesIn(run.todo))
    BY Zenon, <1>1, <1>3 DEF Underway
  <2>1. All(j) \ NamesIn(run.todo) = {} \cup {"tmpl"}
    <3>1. NamesIn(run.todo) \subseteq Files
      BY TodoShape DEF ReportInv, Shape
    <3> QED BY <3>1, <1>4 DEF All, Files
  <2>2. Source(j, "tmpl") = src /\ Target(j, "tmpl") = out
    BY DEF Source, Target, JobOf
  <2>3. NotesOf(j, "tmpl") = Filed("tmpl", {[rule |-> m, of |-> <<"entry">>] :
                                               m \in RewriteTemplate(src).notes})
    BY DEF NotesOf, JobOf
  <2>4. run'.rewrites = RewritesOf(j, {} \cup {"tmpl"})
    <3>1. RewritesOf(j, {} \cup {"tmpl"}) = IF out # src
                                            THEN Recorded(new, RewritesOf(j, {})) ELSE RewritesOf(j, {})
      <4>1. RewritesOf(j, {} \cup {"tmpl"}) =
              IF Target(j, "tmpl") # Source(j, "tmpl")
              THEN Recorded([m \in {"tmpl"} |-> [src |-> Source(j, "tmpl"),
                                                 out |-> Target(j, "tmpl")]], RewritesOf(j, {}))
              ELSE RewritesOf(j, {})
        BY OneMoreRewritten, Zenon
      <4> QED BY <4>1, <2>2, Zenon
    <3>2. RewritesOf(j, {}) = run.rewrites
      BY <1>4, NothingDone, Zenon
    <3> HIDE DEF j, src, out, new
    <3> QED BY Zenon, <3>1, <3>2, <1>1, <1>2
  <2>5. run'.diags = DiagsOf(j, {} \cup {"tmpl"})
    <3>1. DiagsOf(j, {} \cup {"tmpl"}) = DiagsOf(j, {}) \cup NotesOf(j, "tmpl")
      BY OneMoreNoted, Zenon
    <3>2. DiagsOf(j, {}) = run.diags
      BY <1>4, NothingDone, Zenon
    <3> QED BY <3>1, <3>2, <2>3, <1>1, Zenon
  <2>6. run'.flipped = FlippedOf(j, {} \cup {"tmpl"})
    BY Zenon, <1>1, <1>4 DEF FlippedOf
  <2> QED BY Zenon, <2>1, <2>4, <2>5, <2>6, <1>4
<1>10. AtEnd'
  BY Zenon, <1>1, <1>2, DryKept DEF ReportInv, AtEnd, Keeps
<1> QED BY <1>5, <1>6, <1>7, <1>8, <1>9, <1>10, <1>11 DEF ReportInv

\* a source,
LEMMA SourceInv ==
  ASSUME ReportInv, NEW write \in Outcomes, DoSource(write)
  PROVE  ReportInv'
<1> DEFINE j == JobOf(run)
           n == Head(run.todo)
           src == run.src[n]
           r == Result(j, n)
           new == [m \in {n} |-> [src |-> src, out |-> r.file]]
           fails == write # "done"
           recorded == r.file # src /\ ~fails
<1>0. RewriteOf(src, n \in run.ready) = r
  BY Zenon, ResultIsRewrite DEF ReportInv, DoSource
<1>1. /\ IsRun(run') /\ Keeps
      /\ run.pc = "sources" /\ run'.pc = "sources"
      /\ run.todo # <<>> /\ run'.todo = Tail(run.todo)
      /\ run'.ended = run.ended /\ run'.flipped = (run.flipped \/ r.flipped)
      /\ fails => run.write /\ r.file # src
      /\ run'.rewrites = IF recorded THEN Recorded(new, run.rewrites) ELSE run.rewrites
      /\ run'.failed = IF fails THEN run.failed \cup {n} ELSE run.failed
      /\ run'.errored = (run.errored \/ fails)
      /\ run'.diags = run.diags \cup Filed(n, r.warn)
      /\ disk' = IF run.write /\ r.file # src
                 THEN [disk EXCEPT ![n] = IF ~fails THEN r.file ELSE IF write = "lost" THEN EmptyFile ELSE @]
                 ELSE disk
      /\ Fault(fails)
      /\ UNCHANGED <<tmpl, dry>>
  BY Zenon, <1>0, SourceFields DEF ReportInv, Shape
<1>2. faults' \in Nat /\ (faults' = 0 => faults = 0 /\ ~fails)
  BY Zenon, <1>1, FaultsKept DEF ReportInv, Shape
<1>3. j' = j
  BY Zenon, <1>1, JobKept
<1>4. /\ run'.todo \in {<<>>, <<"a">>, <<"b">>, <<"a", "b">>}
      /\ n \in NamesIn(run.todo) /\ n \in Files
      /\ NamesIn(run'.todo) = NamesIn(run.todo) \ {n}
  BY Zenon, <1>1, TodoShape DEF ReportInv, Shape
<1>5. Shape'
  <2>1. disk' = [m \in Files |-> disk'[m]]
    BY Zenon, <1>1 DEF ReportInv, Shape
  <2> QED BY Zenon, <2>1, <1>1, <1>2, <1>4 DEF ReportInv, Shape, Keeps
<1>6. Begun'
  BY Zenon, <1>1, BegunKept DEF ReportInv
<1>7. Accounted'
  <2>1. /\ \A m \in Files : disk[m] = Listed(m) \/ (run.write /\ m \in run.failed /\ disk[m] = EmptyFile)
        /\ tmpl = ListedTemplate \/ (run.write /\ "tmpl" \in run.failed /\ tmpl = EmptyTemplate)
    BY Zenon, <1>1 DEF ReportInv, Accounted
  <2>2. disk = [m \in Files |-> disk[m]] /\ run.write \in BOOLEAN
    BY DEF ReportInv, Shape
  <2>3. run.failed \subseteq run'.failed /\ n # "tmpl"
    BY Zenon, <1>1, <1>4 DEF Files
  <2>4. CASE ~recorded
    <3>1. run'.rewrites = run.rewrites /\ run'.write = run.write /\ run'.src = run.src /\ run'.tsrc = run.tsrc
      BY Zenon, <2>4, <1>1 DEF Keeps
    <3>2. \A m : Listed(m)' = Listed(m)
      BY Zenon, <3>1 DEF Listed
    <3>3. ListedTemplate' = ListedTemplate
      BY Zenon, <3>1 DEF ListedTemplate
    <3> HIDE DEF r, src, n
    <3>4. \A m \in Files : disk'[m] = disk[m] \/ (run.write /\ m \in run'.failed /\ disk'[m] = EmptyFile)
      <4>1. CASE ~fails
        BY Zenon, <4>1, <2>4, <1>1
      <4>2. CASE fails
        BY Zenon, <4>2, <2>2, <1>1, <1>4
      <4> QED BY <4>1, <4>2
    <3> QED BY Zenon, <3>1, <3>2, <3>3, <3>4, <2>1, <2>3, <1>1 DEF ReportInv, Accounted
  <2>5. CASE recorded
    <3>1. /\ DOMAIN run'.rewrites = {n} \cup DOMAIN run.rewrites
          /\ run'.rewrites[n].out = r.file
          /\ \A m \in DOMAIN run.rewrites : m # n => run'.rewrites[m] = run.rewrites[m]
      BY <2>5, <1>1 DEF Recorded
    <3>2. run'.write = run.write /\ run'.src = run.src /\ run'.tsrc = run.tsrc
      BY Zenon, <1>1 DEF Keeps
    <3> HIDE DEF r, src, n
    <3>3. disk' = IF run.write THEN [disk EXCEPT ![n] = r.file] ELSE disk
      BY Zenon, <2>2, <2>5, <1>1
    <3>4. \A m \in Files : disk'[m] = IF run.write /\ m = n THEN r.file ELSE disk[m]
      BY <3>3, <2>2, <1>4
    <3>5. ASSUME NEW m \in Files
          PROVE  disk'[m] = Listed(m)' \/ (run'.write /\ m \in run'.failed /\ disk'[m] = EmptyFile)
      <4>1. CASE m = n /\ run.write
        BY Zenon, <4>1, <3>1, <3>2, <3>4 DEF Listed
      <4>2. CASE m # n \/ ~run.write
        <5>1. Listed(m)' = Listed(m)
          BY Zenon, <4>2, <3>1, <3>2 DEF Listed
        <5>2. disk'[m] = disk[m]
          BY <4>2, <3>4
        <5> QED BY Zenon, <5>1, <5>2, <3>2, <2>1, <2>3
      <4> QED BY <4>1, <4>2
    <3>6. ListedTemplate' = ListedTemplate
      BY Zenon, <3>1, <3>2, <2>3 DEF ListedTemplate
    <3> QED BY Zenon, <3>2, <3>5, <3>6, <2>1, <2>3, <1>1 DEF ReportInv, Accounted
  <2> QED BY <2>4, <2>5
<1>11. Faulted'
  <2>1. /\ run.failed \cap DOMAIN run.rewrites = {}
        /\ NamesIn(run.todo) \cap (run.failed \cup DOMAIN run.rewrites) = {}
        /\ run.failed # {} => run.errored
        /\ faults = 0 => run.failed = {}
    BY Zenon, <1>1 DEF ReportInv, Faulted
  <2>2. DOMAIN run'.rewrites = IF recorded THEN {n} \cup DOMAIN run.rewrites ELSE DOMAIN run.rewrites
    BY Zenon, <1>1 DEF Recorded
  <2>3. run'.ended = "never"
    BY Zenon, <1>1 DEF ReportInv, Begun
  <2> HIDE DEF r, src, n
  <2>4. /\ run'.failed \cap DOMAIN run'.rewrites = {}
        /\ NamesIn(run'.todo) \cap (run'.failed \cup DOMAIN run'.rewrites) = {}
    BY <2>1, <2>2, <1>1, <1>4
  <2>5. (faults' = 0 => run'.failed = {}) /\ (run'.failed # {} => run'.errored)
    BY Zenon, <2>1, <1>1, <1>2
  <2> QED BY Zenon, <2>3, <2>4, <2>5, <1>1 DEF Faulted, Ended
<1>8. AtStart'
  BY Zenon, <1>1 DEF AtStart
<1>9. Underway'
  <2> SUFFICES ASSUME faults' = 0
               PROVE  /\ NamesIn(run'.todo) \subseteq NamesIn(TodoOf(j))
                      /\ run'.rewrites = RewritesOf(j, All(j) \ NamesIn(run'.todo))
                      /\ run'.diags = DiagsOf(j, All(j) \ NamesIn(run'.todo))
                      /\ run'.flipped = FlippedOf(j, All(j) \ NamesIn(run'.todo))
    BY Zenon, <1>3 DEF Underway
  <2> DEFINE done == All(j) \ NamesIn(run.todo)
  <2>1. /\ NamesIn(run.todo) \subseteq NamesIn(TodoOf(j))
        /\ run.rewrites = RewritesOf(j, done)
        /\ run.diags = DiagsOf(j, done)
        /\ run.flipped = FlippedOf(j, done)
    BY Zenon, <1>1, <1>2 DEF ReportInv, Underway
  <2>2. All(j) \ NamesIn(run'.todo) = done \cup {n}
    BY Zenon, <2>1, <1>4 DEF All
  <2>3. n # "tmpl"
    BY Zenon, <1>4 DEF Files
  <2>4. Source(j, n) = src /\ Target(j, n) = r.file
    BY Zenon, <2>3 DEF Source, Target, JobOf
  <2>5. NotesOf(j, n) = Filed(n, r.warn)
    BY Zenon, <2>3 DEF NotesOf
  <2> HIDE DEF done, r, src, n, j
  <2>6. run'.rewrites = RewritesOf(j, done \cup {n})
    <3>1. RewritesOf(j, done \cup {n}) =
            IF r.file # src THEN Recorded(new, RewritesOf(j, done)) ELSE RewritesOf(j, done)
      <4>1. RewritesOf(j, done \cup {n}) =
              IF Target(j, n) # Source(j, n)
              THEN Recorded([m \in {n} |-> [src |-> Source(j, n), out |-> Target(j, n)]], RewritesOf(j, done))
              ELSE RewritesOf(j, done)
        BY OneMoreRewritten, Zenon
      <4> QED BY <4>1, <2>4, Zenon DEF new
    <3> HIDE DEF new
    <3> QED BY Zenon, <3>1, <2>1, <1>1, <1>2 DEF recorded
  <2>7. run'.diags = DiagsOf(j, done \cup {n})
    <3>1. DiagsOf(j, done \cup {n}) = DiagsOf(j, done) \cup NotesOf(j, n)
      BY OneMoreNoted, Zenon
    <3> QED BY <3>1, <2>1, <2>5, <1>1, Zenon
  <2>8. run'.flipped = FlippedOf(j, done \cup {n})
    <3>1. FlippedOf(j, done \cup {n}) = (FlippedOf(j, done) \/ (n # "tmpl" /\ Result(j, n).flipped))
      BY OneMoreFlipped, Zenon
    <3> QED BY Zenon, <3>1, <2>1, <2>3, <1>1 DEF r
  <2> QED BY Zenon, <2>1, <2>2, <2>6, <2>7, <2>8, <1>4
<1>10. AtEnd'
  BY Zenon, <1>1, <1>2, DryKept DEF ReportInv, AtEnd, Keeps
<1> QED BY <1>5, <1>6, <1>7, <1>8, <1>9, <1>10, <1>11 DEF ReportInv

\* a source that does not parse,
LEMMA ParseErrorInv ==
  ASSUME ReportInv, ParseError
  PROVE  ReportInv'
<1>1. /\ IsRun(run') /\ Keeps
      /\ run.pc = "sources" /\ run'.pc = "sources"
      /\ run.todo # <<>> /\ run'.todo = Tail(run.todo)
      /\ run'.ended = run.ended /\ run'.rewrites = run.rewrites
      /\ run'.failed = run.failed /\ run'.errored = TRUE
      /\ Fault(TRUE)
      /\ UNCHANGED <<disk, tmpl, dry>>
  BY Zenon, ParseErrorFields DEF ReportInv, Shape
<1>2. faults' \in Nat /\ faults' # 0
  BY Zenon, <1>1, FaultsKept DEF ReportInv, Shape
<1>3. Shape'
  BY Zenon, <1>1, <1>2, TodoShape DEF ReportInv, Shape, Keeps
<1>4. Begun'
  BY Zenon, <1>1, BegunKept DEF ReportInv
<1>5. Accounted'
  BY Zenon, <1>1 DEF ReportInv, Accounted, Listed, ListedTemplate, Keeps
<1>6. AtStart' /\ Underway' /\ AtEnd'
  BY Zenon, <1>1, <1>2 DEF AtStart, Underway, AtEnd
<1>7. Faulted'
  <2>1. NamesIn(run'.todo) \subseteq NamesIn(run.todo)
    BY Zenon, <1>1, TodoShape DEF ReportInv, Shape
  <2>2. run'.ended = "never"
    BY Zenon, <1>1 DEF ReportInv, Begun
  <2>3. /\ run.failed \cap DOMAIN run.rewrites = {}
        /\ NamesIn(run.todo) \cap (run.failed \cup DOMAIN run.rewrites) = {}
    BY Zenon, <1>1 DEF ReportInv, Faulted
  <2> QED BY Zenon, <2>1, <2>2, <2>3, <1>1, <1>2 DEF Faulted, Ended
<1> QED BY <1>3, <1>4, <1>5, <1>6, <1>7 DEF ReportInv

\* the typed pass, over the disk with the rewrites on top,
LEMMA StripInv ==
  ASSUME ReportInv, NEW failed \in SUBSET Files, NEW lost \in SUBSET Files, DoStrip(failed, lost)
  PROVE  ReportInv'
<1> DEFINE j == JobOf(run)
           edited == danglingMsg(Overlay, run.gen) \ failed
           Out(n) == Stripped(Overlay, run.gen, n)
           Base(n) == IF n \in DOMAIN run.rewrites THEN run.rewrites[n].src ELSE Overlay[n]
           new == [n \in edited |-> [src |-> Base(n), out |-> Out(n)]]
<1>1. /\ IsRun(run') /\ Keeps
      /\ run.pc = "sources" /\ run'.pc = "report"
      /\ run.todo = <<>> /\ run'.todo = run.todo
      /\ run.anyReady /\ run.flipped /\ run'.flipped = run.flipped
      /\ run'.ended = run.ended /\ run'.diags = run.diags
      /\ run'.rewrites = Recorded(new, run.rewrites)
      /\ lost \subseteq failed /\ (failed # {} => run.write)
      /\ run'.failed = run.failed \cup failed
      /\ run'.errored = (run.errored \/ failed # {})
      /\ disk' = [n \in Files |-> IF n \in lost THEN EmptyFile
                                  ELSE IF n \in edited /\ run.write THEN Out(n) ELSE disk[n]]
      /\ Fault(failed # {})
      /\ UNCHANGED <<tmpl, dry>>
  BY Zenon, StripFields DEF ReportInv, Shape
<1>2. faults' \in Nat /\ (faults' = 0 => faults = 0 /\ failed = {})
  BY Zenon, <1>1, FaultsKept DEF ReportInv, Shape
<1>3. j' = j
  BY Zenon, <1>1, JobKept
<1>4. edited \subseteq Files
  BY Zenon DEF danglingMsg
<1>5. /\ \A n \in Files : disk[n] = Listed(n) \/ (run.write /\ n \in run.failed /\ disk[n] = EmptyFile)
      /\ tmpl = ListedTemplate \/ (run.write /\ "tmpl" \in run.failed /\ tmpl = EmptyTemplate)
  BY Zenon, <1>1 DEF ReportInv, Accounted
<1>6. Shape'
  <2>1. disk' = [n \in Files |-> disk'[n]]
    <3> HIDE DEF Out, edited
    <3> QED BY Zenon, <1>1
  <2> QED BY Zenon, <2>1, <1>1, <1>2 DEF ReportInv, Shape, Keeps
<1>7. Begun'
  BY Zenon, <1>1, BegunKept DEF ReportInv
<1>8. Accounted'
  <2> HIDE DEF edited, Base, Out
  <2>1. /\ DOMAIN run'.rewrites = edited \cup DOMAIN run.rewrites
        /\ \A n \in edited : run'.rewrites[n].out = Out(n)
        /\ \A n \in DOMAIN run.rewrites : n \notin edited => run'.rewrites[n] = run.rewrites[n]
    BY <1>1 DEF Recorded
  <2>2. \A n \in Files : disk'[n] = IF n \in lost THEN EmptyFile
                                     ELSE IF n \in edited /\ run.write THEN Out(n) ELSE disk[n]
    BY Zenon, <1>1
  <2>3. run'.write = run.write /\ run'.src = run.src /\ run'.tsrc = run.tsrc /\ run.write \in BOOLEAN
    BY Zenon, <1>1 DEF Keeps, ReportInv, Shape
  <2>4. ASSUME NEW n \in Files
        PROVE  disk'[n] = Listed(n)' \/ (run'.write /\ n \in run'.failed /\ disk'[n] = EmptyFile)
    <3>1. CASE n \in lost
      BY Zenon, <3>1, <2>2, <2>3, <1>1
    <3>2. CASE n \notin lost /\ n \in edited /\ run.write
      BY Zenon, <3>2, <2>1, <2>2, <2>3 DEF Listed
    <3>3. CASE n \notin lost /\ ~(n \in edited /\ run.write)
      <4>1. disk'[n] = disk[n]
        BY Zenon, <3>3, <2>2
      <4>2. Listed(n)' = Listed(n)
        BY Zenon, <3>3, <2>1, <2>3 DEF Listed
      <4> QED BY Zenon, <4>1, <4>2, <2>3, <1>1, <1>5
    <3> QED BY Zenon, <3>1, <3>2, <3>3
  <2>5. ListedTemplate' = ListedTemplate
    <3>1. "tmpl" \notin edited
      BY <1>4 DEF Files
    <3> QED BY Zenon, <3>1, <2>1, <2>3 DEF ListedTemplate
  <2> QED BY Zenon, <2>3, <2>4, <2>5, <1>1, <1>5 DEF ReportInv, Accounted
<1>12. Faulted'
  <2>1. (faults = 0 => run.failed = {}) /\ (run.failed # {} => run.errored)
    BY Zenon, <1>1 DEF ReportInv, Faulted
  <2>2. run'.ended = "never" /\ run'.anyReady /\ run'.flipped
    BY Zenon, <1>1 DEF ReportInv, Begun, Keeps
  <2> QED BY Zenon, <2>1, <2>2, <1>1, <1>2 DEF Faulted, Ended
<1>9. AtStart' /\ Underway'
  BY Zenon, <1>1 DEF AtStart, Underway
<1>10. faults' = 0 => Complete(run)'
  <2> SUFFICES ASSUME faults' = 0
               PROVE  run'.rewrites = FinalOf(j) /\ run'.diags = DiagsOf(j, All(j))
    BY Zenon, <1>3 DEF Complete
  <2>1. All(j) \ NamesIn(run.todo) = All(j)
    BY Zenon, <1>1, TodoShape DEF ReportInv, Shape
  <2>2. /\ run.rewrites = RewritesOf(j, All(j))
        /\ run.diags = DiagsOf(j, All(j))
        /\ run.flipped = FlippedOf(j, All(j))
    BY Zenon, <2>1, <1>1, <1>2 DEF ReportInv, Underway
  <2>3. ReadyOf(j) # {} /\ run.gen = j.gen
    BY Zenon, <1>1 DEF ReportInv, Begun, JobOf
  <2>8. run.failed = {}
    BY Zenon, <1>2 DEF ReportInv, Faulted
  <2>4. Overlay = ViewOf(j)
    <3>1. \A n \in Files : n \notin DOMAIN run.rewrites => disk[n] = j.src[n]
      BY Zenon, <2>8, <1>5 DEF JobOf, Listed
    <3> HIDE DEF j
    <3> QED BY Zenon, <3>1, <2>2 DEF Overlay, ViewOf
  <2>5. edited = danglingMsg(ViewOf(j), j.gen)
    BY Zenon, <2>3, <2>4, <1>2
  <2>6. \A n \in Files : Base(n) = j.src[n]
    <3>1. \A n \in Files : n \in DOMAIN run.rewrites => run.rewrites[n].src = Source(j, n)
      BY <2>2 DEF RewritesOf
    <3>2. \A n \in Files : Source(j, n) = j.src[n]
      BY Zenon DEF Source, Files
    <3>3. \A n \in Files : n \notin DOMAIN run.rewrites => Overlay[n] = j.src[n]
      BY Zenon, <2>8, <1>5 DEF Overlay, JobOf, Listed
    <3> HIDE DEF j
    <3> QED BY Zenon, <3>1, <3>2, <3>3
  <2>7. new = [n \in danglingMsg(ViewOf(j), j.gen) |-> [src |-> j.src[n], out |-> Stripped(ViewOf(j), j.gen, n)]]
    <3>1. \A n \in edited : Base(n) = j.src[n] /\ Out(n) = Stripped(ViewOf(j), j.gen, n)
      BY Zenon, <2>3, <2>4, <2>6, <1>4
    <3> HIDE DEF Base, Out, edited, j
    <3> QED BY Zenon, <3>1, <2>5
  <2> HIDE DEF new, j
  <2> QED BY Zenon, <2>2, <2>3, <2>7, <1>1 DEF FinalOf, StrippedOf
<1>11. AtEnd'
  <2>1. faults' = 0 => (dry # NoRun => Complete(dry))'
    BY Zenon, <1>1, <1>2, DryKept DEF ReportInv, Keeps
  <2> QED BY <2>1, <1>10 DEF AtEnd
<1> QED BY <1>6, <1>7, <1>8, <1>9, <1>11, <1>12 DEF ReportInv

\* no typed pass,
LEMMA NoStripInv ==
  ASSUME ReportInv, StripCannotLoad \/ SkipStrip
  PROVE  ReportInv'
<1> DEFINE j == JobOf(run)
<1>1. /\ IsRun(run') /\ Keeps
      /\ run.pc = "sources" /\ run'.pc = "report"
      /\ run.todo = <<>> /\ run'.todo = run.todo
      /\ run'.flipped = run.flipped /\ run'.ended = run.ended
      /\ run'.diags = run.diags /\ run'.rewrites = run.rewrites
      /\ run'.failed = run.failed /\ run'.errored = run.errored
      /\ \/ Fault(TRUE)
         \/ faults' = faults /\ ~(run.anyReady /\ run.flipped)
      /\ UNCHANGED <<disk, tmpl, dry>>
  BY Zenon, NoStripFields DEF ReportInv, Shape
<1>2. faults' \in Nat /\ (faults' = 0 => faults = 0 /\ ~(run.anyReady /\ run.flipped))
  BY Zenon, <1>1, FaultsKept DEF ReportInv, Shape
<1>3. j' = j
  BY Zenon, <1>1, JobKept
<1>4. Shape'
  BY Zenon, <1>1, <1>2 DEF ReportInv, Shape, Keeps
<1>5. Begun'
  BY Zenon, <1>1, BegunKept DEF ReportInv
<1>6. Accounted' /\ Faulted'
  <2>1. Accounted'
    BY Zenon, <1>1 DEF ReportInv, Accounted, Listed, ListedTemplate, Keeps
  <2>2. run'.ended = "never"
    BY Zenon, <1>1 DEF ReportInv, Begun
  <2>3. Faulted'
    BY Zenon, <2>2, <1>1, <1>2 DEF ReportInv, Faulted, Ended
  <2> QED BY <2>1, <2>3
<1>7. AtStart' /\ Underway'
  BY Zenon, <1>1 DEF AtStart, Underway
<1>8. faults' = 0 => Complete(run)'
  <2> SUFFICES ASSUME faults' = 0
               PROVE  run'.rewrites = FinalOf(j) /\ run'.diags = DiagsOf(j, All(j))
    BY <1>3 DEF Complete
  <2>1. All(j) \ NamesIn(run.todo) = All(j)
    BY Zenon, <1>1, TodoShape DEF ReportInv, Shape
  <2>2. /\ run.rewrites = RewritesOf(j, All(j))
        /\ run.diags = DiagsOf(j, All(j))
        /\ run.flipped = FlippedOf(j, All(j))
    BY Zenon, <2>1, <1>1, <1>2 DEF ReportInv, Underway
  <2>3. run.anyReady = (ReadyOf(j) # {})
    BY Zenon, <1>1 DEF ReportInv, Begun
  <2> HIDE DEF j
  <2> QED BY Zenon, <2>2, <2>3, <1>1, <1>2 DEF FinalOf
<1>9. AtEnd'
  <2>1. faults' = 0 => (dry # NoRun => Complete(dry))'
    BY Zenon, <1>1, <1>2, DryKept DEF ReportInv, Keeps
  <2> QED BY <2>1, <1>8 DEF AtEnd
<1> QED BY <1>4, <1>5, <1>6, <1>7, <1>9 DEF ReportInv

\* the report,
LEMMA PrintInv ==
  ASSUME ReportInv, NEW json \in BOOLEAN, printReport(json)
  PROVE  ReportInv'
<1>1. /\ IsRun(run') /\ Keeps
      /\ run.pc = "report" /\ run'.pc = "idle"
      /\ run'.todo = run.todo
      /\ run'.ended = IF run.errored THEN "exit 1" ELSE "exit 0"
      /\ run'.diags = run.diags /\ run'.rewrites = run.rewrites
      /\ run'.failed = run.failed /\ run'.flipped = run.flipped
      /\ dry' = IF run.write THEN dry ELSE run'
      /\ UNCHANGED <<disk, tmpl, faults>>
  BY Zenon, ReportFields DEF ReportInv, Shape
<1>2. Shape'
  BY Zenon, <1>1 DEF ReportInv, Shape, Keeps
<1>3. Begun' /\ AtStart' /\ Underway'
  BY Zenon, <1>1 DEF Begun, AtStart, Underway
<1>4. Accounted' /\ Faulted'
  <2>1. Accounted'
    BY Zenon, <1>1 DEF ReportInv, Accounted, Listed, ListedTemplate, Keeps
  <2>2. Faulted'
    BY Zenon, <1>1 DEF ReportInv, Faulted, Keeps
  <2> QED BY <2>1, <2>2
<1>5. AtEnd'
  <2>1. faults' = 0 => Complete(run)'
    BY Zenon, <1>1, JobKept DEF ReportInv, AtEnd, Complete
  <2>2. CASE run.write
    <3>1. faults' = 0 => (dry # NoRun => Complete(dry))'
      BY Zenon, <2>2, <1>1, DryKept DEF ReportInv, Keeps
    <3> QED BY <2>1, <3>1 DEF AtEnd
  <2>3. CASE ~run.write
    <3>1. dry' = run'
      BY Zenon, <2>3, <1>1
    <3>2. Complete(run)' => Complete(dry)'
      BY Zenon, <3>1 DEF Complete, JobOf
    <3> QED BY <2>1, <3>2 DEF AtEnd
  <2> QED BY <2>2, <2>3 DEF ReportInv, Shape
<1> QED BY <1>2, <1>3, <1>4, <1>5 DEF ReportInv

\* a kill,
LEMMA KillInv ==
  ASSUME ReportInv, Kill \/ KillWriting
  PROVE  ReportInv'
<1>1. /\ IsRun(run') /\ Keeps
      /\ run'.pc = "idle" /\ run'.ended = "killed" /\ run'.todo = run.todo
      /\ Fault(TRUE)
      /\ UNCHANGED dry
  BY Zenon, KillFields DEF ReportInv, Shape
<1>2. faults' \in Nat /\ faults' # 0
  BY Zenon, <1>1, FaultsKept DEF ReportInv, Shape
<1>3. disk' = [n \in Files |-> disk'[n]]
  <2>1. disk = [n \in Files |-> disk[n]]
    BY DEF ReportInv, Shape
  <2>2. CASE Kill \/ KillInTemplate
    BY Zenon, <2>1, <2>2 DEF Kill, KillInTemplate
  <2>3. CASE KillInSource
    BY Zenon, <2>1, <2>3 DEF KillInSource
  <2>4. CASE \E written \in SUBSET Files, n \in Files : KillInStrip(written, n)
    BY Zenon, <2>4 DEF KillInStrip
  <2> QED BY <2>2, <2>3, <2>4 DEF KillWriting
<1>4. Shape'
  BY Zenon, <1>1, <1>2, <1>3 DEF ReportInv, Shape, Keeps
<1>5. Begun' /\ Accounted' /\ Faulted' /\ AtStart' /\ Underway' /\ AtEnd'
  BY Zenon, <1>1, <1>2 DEF Begun, Accounted, Faulted, Ended, AtStart, Underway, AtEnd
<1> QED BY Zenon, <1>4, <1>5 DEF ReportInv

\* and the start of a run.
LEMMA StartInv ==
  ASSUME ReportInv, NEW write \in BOOLEAN, Start(write)
  PROVE  ReportInv'
<1> DEFINE j == [project |-> project, src |-> disk, tsrc |-> tmpl, gen |-> gen]
<1>1. /\ run.pc = "idle"
      /\ UNCHANGED <<disk, tmpl, gen, dry, told, env, faults, project>>
  BY Zenon, StartFields
<1>2. run' = [pc |-> "template", write |-> write, src |-> disk, tsrc |-> tmpl, gen |-> gen,
              todo |-> TodoOf(j), ready |-> ReadyOf(j), anyReady |-> ReadyOf(j) # {}, rewrites |-> <<>>,
              diags |-> {}, flipped |-> FALSE, failed |-> {}, errored |-> FALSE, stripped |-> FALSE,
              ended |-> "never"]
  BY Zenon, StartFields
<1>3. JobOf(run)' = j
  BY Zenon, <1>1, <1>2 DEF JobOf
<1> HIDE DEF j
<1>4. /\ IsRun(run') /\ run'.pc = "template" /\ run'.write = write /\ run'.src = disk /\ run'.tsrc = tmpl
      /\ run'.gen = gen /\ run'.todo = TodoOf(j) /\ run'.ready = ReadyOf(j)
      /\ run'.anyReady = (ReadyOf(j) # {})
      /\ run'.rewrites = <<>> /\ run'.diags = {} /\ run'.flipped = FALSE /\ run'.ended = "never"
      /\ run'.failed = {}
  BY Zenon, <1>2 DEF IsRun
<1>5. Shape'
  BY Zenon, <1>1, <1>4, TodoIsOfFiles DEF ReportInv, Shape
<1>6. Begun'
  BY Zenon, <1>1, <1>3, <1>4 DEF ReportInv, Shape, Begun
<1>7. Accounted' /\ Faulted'
  <2>1. \A n : Listed(n)' = disk[n]
    BY <1>4 DEF Listed
  <2>2. ListedTemplate' = tmpl
    BY <1>4 DEF ListedTemplate
  <2>3. Accounted'
    BY Zenon, <2>1, <2>2, <1>1, <1>4 DEF ReportInv, Shape, Accounted
  <2>4. Faulted'
    BY Zenon, <1>4 DEF Faulted, Ended
  <2> QED BY <2>3, <2>4
<1>8. AtStart'
  BY Zenon, <1>3, <1>4 DEF AtStart
<1>9. Underway' /\ AtEnd'
  BY Zenon, <1>1, <1>4, DryKept DEF ReportInv, Underway, AtEnd
<1> QED BY Zenon, <1>5, <1>6, <1>7, <1>8, <1>9 DEF ReportInv

\* Between runs only the bindings and the environment change.
LEMMA UserInv ==
  ASSUME ReportInv, run.pc = "idle" \/ UNCHANGED gen, UNCHANGED <<disk, tmpl, run, dry, faults, project>>
  PROVE  ReportInv'
<1>1. JobOf(run)' = JobOf(run) /\ JobOf(dry)' = JobOf(dry)
  BY Zenon DEF JobOf
<1>2. Shape' /\ Accounted' /\ Faulted'
  BY Zenon DEF ReportInv, Shape, Accounted, Listed, ListedTemplate, Faulted, Ended
<1>3. Begun'
  BY Zenon, <1>1 DEF ReportInv, Begun
<1>4. AtStart' /\ Underway'
  BY Zenon, <1>1 DEF ReportInv, AtStart, Underway
<1>5. AtEnd'
  BY Zenon, <1>1 DEF ReportInv, AtEnd, Complete, Ended
<1> QED BY Zenon, <1>2, <1>3, <1>4, <1>5 DEF ReportInv

\* The invariant holds of a project no run has touched,
LEMMA InitInv ==
  Init => ReportInv
<1> SUFFICES ASSUME Init PROVE ReportInv
  OBVIOUS
<1>1. disk = [n \in Files |-> disk[n]]
  BY Zenon DEF Init
<1>2. /\ IsRun(run) /\ IsRun(dry) /\ run.pc = "idle"
      /\ run.ended = "never" /\ run.todo = <<>> /\ run.write = FALSE /\ run.failed = {}
  BY Zenon DEF Init, NoRun, IsRun
<1>3. Shape
  BY Zenon, <1>1, <1>2 DEF Shape, Init
<1> QED BY Zenon, <1>2, <1>3 DEF Init, ReportInv, Begun, Accounted, Faulted, Ended, AtStart, Underway, AtEnd

\* is kept by every step,
LEMMA NextInv ==
  ASSUME ReportInv, [Next]_vars
  PROVE  ReportInv'
<1>1. CASE \E write \in BOOLEAN : Start(write)
  BY <1>1, StartInv
<1>2. CASE ToolStep
  BY Zenon, <1>2, TemplateInv, SourceInv, StripInv, ParseErrorInv, NoStripInv, PrintInv DEF ToolStep
<1>3. CASE Kill \/ KillWriting
  BY <1>3, KillInv
<1>4. CASE FollowStep
  BY <1>4, UserInv DEF FollowStep
<1>5. CASE BufGenerate
  BY Zenon, <1>5, UserInv DEF BufGenerate
<1>6. CASE UpdateDependency
  BY Zenon, <1>6, UserInv DEF UpdateDependency
<1>7. CASE UNCHANGED vars
  BY Zenon, <1>7, UserInv DEF vars
<1>8. CASE FollowNote
  BY <1>8, UserInv DEF FollowNote
<1> QED BY Zenon, <1>1, <1>2, <1>3, <1>4, <1>5, <1>6, <1>7, <1>8 DEF Next, KillWriting

\* and makes the report true.
LEMMA InvIsTrue ==
  ReportInv => ReportIsTrue
<1> SUFFICES ASSUME ReportInv PROVE ReportIsTrue
  OBVIOUS
<1>1. ASSUME NEW write \in BOOLEAN, Finished(write), NEW n \in Files
      PROVE  LET listed == IF write /\ n \in DOMAIN run.rewrites THEN run.rewrites[n].out ELSE run.src[n]
             IN  disk[n] = listed \/ (write /\ n \in run.failed /\ disk[n] = EmptyFile)
  BY Zenon, <1>1 DEF Finished, ReportInv, Accounted, Listed, Ended
<1>2. ASSUME Finished(TRUE)
      PROVE  LET listed == IF "tmpl" \in DOMAIN run.rewrites THEN run.rewrites["tmpl"].out ELSE run.tsrc
             IN  tmpl = listed \/ ("tmpl" \in run.failed /\ tmpl = EmptyTemplate)
  BY Zenon, <1>2 DEF Finished, ReportInv, Accounted, ListedTemplate, Ended
<1>4. ASSUME Finished(TRUE), run.failed # {}
      PROVE  /\ run.ended = "exit 1"
             /\ run.failed \cap DOMAIN run.rewrites # {} => run.anyReady /\ run.flipped
  BY Zenon, <1>4 DEF Finished, ReportInv, Faulted, Ended
<1>3. ASSUME CleanRun, faults = 0, dry.src = run.src, dry.tsrc = run.tsrc, dry.gen = run.gen
      PROVE  dry.rewrites = run.rewrites /\ dry.diags = run.diags
  <2>1. JobOf(dry) = JobOf(run)
    BY Zenon, <1>3 DEF JobOf
  <2>2. Complete(run)
    BY Zenon, <1>3 DEF CleanRun, Finished, ReportInv, AtEnd, Ended
  <2>3. CASE dry # NoRun
    BY Zenon, <2>1, <2>2, <2>3, <1>3 DEF ReportInv, AtEnd, Complete
  <2>4. dry # NoRun
    <3>1. DOMAIN run.src = Files
      BY Zenon, <1>3 DEF CleanRun, Finished, ReportInv, Accounted, Ended
    <3>2. DOMAIN NoRun.src = {}
      BY DEF NoRun
    <3> QED BY Zenon, <3>1, <3>2, <1>3 DEF Files
  <2> QED BY Zenon, <2>3, <2>4
<1> QED BY Zenon, <1>1, <1>2, <1>3, <1>4 DEF ReportIsTrue

\* What a finished run of connect-go-v2-migrate reports is what it did, to the
\* template and to every file, whichever file did not parse and whichever earlier
\* run was killed; what it destroyed by a write that failed it says it could not
\* write, and it exits with an error; and a -w run does what the dry run before
\* it proposed.
THEOREM ReportsAreTrue == Spec => []ReportIsTrue
<1>1. Init => ReportInv
  BY InitInv
<1>2. ReportInv /\ [Next]_vars => ReportInv'
  BY NextInv
<1>3. ReportInv => ReportIsTrue
  BY InvIsTrue
<1> QED BY <1>1, <1>2, <1>3, PTL DEF Spec

-----------------------------------------------------------------------------
(* What is out of scope is not touched.                                    *)

Outside(n) == project.files[n].origin \in {"marked", "outdir"}

\* A file marked as generated is still the one of the project, so that discovery
\* and the typed pass see the mark; and no pass but the typed one has a file
\* that is out of scope to do or on record.
ScopeInv ==
    /\ \A n \in Files : project.files[n].origin = "marked" => disk[n] = project.files[n]
    /\ run.pc \in {"template", "sources"} =>
          \A n \in Files : Outside(n) => n \notin NamesIn(run.todo) /\ n \notin DOMAIN run.rewrites

\* Discovery lists neither generated files nor what is under an out: directory.
LEMMA TodoIsInScope ==
  ASSUME NEW j, NEW n \in NamesIn(TodoOf(j))
  PROVE  n \in SourcesOf(j)
<1>1. CASE TodoOf(j) = <<>>
  BY <1>1 DEF NamesIn
<1>2. CASE TodoOf(j) # <<>>
  <2> DEFINE x == WalkOf(j, "a")
             y == WalkOf(j, "b")
  <2>1. TodoOf(j) = x \o y
    BY Zenon, <1>2 DEF TodoOf
  <2>2. x \in Seq(SourcesOf(j)) /\ y \in Seq(SourcesOf(j))
    BY DEF WalkOf
  <2> HIDE DEF x, y
  <2>3. x \o y \in Seq(SourcesOf(j))
    BY <2>2
  <2> QED BY <2>1, <2>3 DEF NamesIn
<1> QED BY Zenon, <1>1, <1>2

\* A step whose edits are in scope and that puts no file out of scope to do or
\* on record.
LEMMA ScopeKept ==
  ASSUME ScopeInv, EditInScope, UNCHANGED project,
         run'.pc \in {"template", "sources"} =>
            \A n \in Files : Outside(n) => n \notin NamesIn(run'.todo) /\ n \notin DOMAIN run'.rewrites
  PROVE  ScopeInv'
  BY Zenon DEF ScopeInv, EditInScope, Outside

\* A step that leaves the disk alone and puts no file to do or on record.
LEMMA DiskKept ==
  ASSUME ScopeInv, UNCHANGED <<disk, project>>,
         run'.pc \in {"template", "sources"} =>
            /\ run.pc \in {"template", "sources"}
            /\ NamesIn(run'.todo) \subseteq NamesIn(run.todo)
            /\ DOMAIN run'.rewrites \cap Files \subseteq DOMAIN run.rewrites
  PROVE  EditInScope /\ ScopeInv'
<1>1. EditInScope
  BY Zenon DEF EditInScope
<1> QED BY Zenon, <1>1, ScopeKept DEF ScopeInv

\* A run starts with nothing out of scope to do,
LEMMA StartInScope ==
  ASSUME ScopeInv, NEW write \in BOOLEAN, Start(write)
  PROVE  EditInScope /\ ScopeInv'
<1> DEFINE j == [project |-> project, src |-> disk, tsrc |-> tmpl, gen |-> gen]
<1>1. UNCHANGED <<disk, project>> /\ run'.todo = TodoOf(j) /\ run'.rewrites = <<>>
  BY StartFields
<1>2. ASSUME NEW n \in Files, Outside(n)
      PROVE  n \notin NamesIn(run'.todo)
  <2>1. n \notin SourcesOf(j)
    BY Zenon, <1>2 DEF SourcesOf, isGeneratedAST, ScopeInv, Outside
  <2> HIDE DEF j
  <2> QED BY Zenon, <2>1, <1>1, TodoIsInScope
<1>3. EditInScope
  BY Zenon, <1>1 DEF EditInScope
<1> QED BY <1>1, <1>2, <1>3, ScopeKept

\* changes one file at a time of what it has to do,
LEMMA HeadInScope ==
  ASSUME ReportInv, ScopeInv, run.pc = "sources", run.todo # <<>>,
         NEW new, disk' = disk \/ disk' = [disk EXCEPT ![Head(run.todo)] = new]
  PROVE  EditInScope
<1>1. Head(run.todo) \in NamesIn(run.todo)
  BY Zenon, TodoShape DEF ReportInv, Shape
<1>2. \A m \in Files : Outside(m) => m # Head(run.todo)
  BY Zenon, <1>1 DEF ScopeInv
<1>3. \A m \in Files : Outside(m) => disk'[m] = disk[m]
  BY Zenon, <1>2 DEF ReportInv, Shape
<1> QED BY Zenon, <1>3 DEF EditInScope, Outside

\* by a rewrite,
LEMMA SourceInScope ==
  ASSUME ReportInv, ScopeInv, NEW write \in Outcomes, DoSource(write)
  PROVE  EditInScope /\ ScopeInv'
<1> DEFINE n == Head(run.todo)
           out == RewriteOf(run.src[n], n \in run.ready).file
           new == [m \in {n} |-> [src |-> run.src[n], out |-> out]]
           made == IF write = "done" THEN out ELSE IF write = "lost" THEN EmptyFile ELSE disk[n]
<1>1. /\ UNCHANGED project
      /\ run.pc = "sources" /\ run'.pc = "sources"
      /\ run.todo # <<>> /\ run'.todo = Tail(run.todo)
      /\ run'.rewrites = run.rewrites \/ run'.rewrites = Recorded(new, run.rewrites)
      /\ disk' = disk \/ disk' = [disk EXCEPT ![n] = made]
  BY Zenon, SourceFields DEF ReportInv, Shape, Keeps
<1>2. n \in NamesIn(run.todo) /\ NamesIn(run'.todo) \subseteq NamesIn(run.todo)
  BY Zenon, <1>1, TodoShape DEF ReportInv, Shape
<1>3. DOMAIN run'.rewrites \subseteq DOMAIN run.rewrites \cup {n}
  BY Zenon, <1>1 DEF Recorded
<1>4. EditInScope
  <2> HIDE DEF made
  <2> QED BY Zenon, <1>1, HeadInScope
<1> HIDE DEF n, out
<1>5. \A m \in Files : Outside(m) => m \notin NamesIn(run'.todo) /\ m \notin DOMAIN run'.rewrites
  BY Zenon, <1>1, <1>2, <1>3 DEF ScopeInv
<1> QED BY Zenon, <1>1, <1>4, <1>5, ScopeKept

\* and then what the typed pass may change: not a file that is marked, and one
\* under an out: directory only by taking a dangling .Msg from it or losing it.
LEMMA PassInScope ==
  ASSUME ReportInv, ScopeInv, run.pc = "sources", run.todo = <<>>, run.flipped,
         NEW touched \in SUBSET danglingMsg(Overlay, run.gen),
         \A n \in Files : disk'[n] \in {Stripped(Overlay, run.gen, n), EmptyFile, disk[n]},
         \A n \in Files : n \notin touched => disk'[n] = disk[n]
  PROVE  EditInScope
<1>1. ASSUME NEW n \in Files, project.files[n].origin = "marked"
      PROVE  disk'[n] = disk[n]
  <2>1. disk[n] = project.files[n] /\ Overlay[n] = disk[n]
    BY Zenon, <1>1 DEF ScopeInv, Outside, Overlay
  <2>2. n \notin danglingMsg(Overlay, run.gen)
    BY Zenon, <2>1, <1>1 DEF danglingMsg, isGeneratedAST
  <2> QED BY Zenon, <2>2
<1> QED BY Zenon, <1>1 DEF EditInScope

\* The typed pass stays in scope, to its end
LEMMA StripInScope ==
  ASSUME ReportInv, ScopeInv, NEW failed \in SUBSET Files, NEW lost \in SUBSET Files, DoStrip(failed, lost)
  PROVE  EditInScope /\ ScopeInv'
<1> DEFINE dangling == danglingMsg(Overlay, run.gen)
           Out(n) == Stripped(Overlay, run.gen, n)
<1>1. /\ UNCHANGED project
      /\ run.pc = "sources" /\ run.todo = <<>> /\ run.flipped /\ run'.pc = "report"
      /\ failed \subseteq dangling /\ lost \subseteq failed
      /\ disk' = [n \in Files |-> IF n \in lost THEN EmptyFile
                                  ELSE IF n \in dangling \ failed /\ run.write THEN Out(n) ELSE disk[n]]
  BY Zenon, StripFields DEF ReportInv, Shape, Keeps
<1>2. /\ \A n \in Files : disk'[n] \in {Out(n), EmptyFile, disk[n]}
      /\ \A n \in Files : n \notin dangling => disk'[n] = disk[n]
  <2> HIDE DEF dangling, Out
  <2> QED BY Zenon, <1>1
<1>3. EditInScope
  BY Zenon, <1>1, <1>2, PassInScope
<1> QED BY Zenon, <1>1, <1>3, ScopeKept

\* or until it is killed, as does every kill.
LEMMA KillInScope ==
  ASSUME ReportInv, ScopeInv, Kill \/ KillWriting
  PROVE  EditInScope /\ ScopeInv'
<1>1. UNCHANGED project /\ run'.pc = "idle"
  BY Zenon, KillFields DEF ReportInv, Shape, Keeps
<1>2. CASE Kill \/ KillInTemplate
  BY Zenon, <1>1, <1>2, DiskKept DEF Kill, KillInTemplate
<1>3. CASE KillInSource
  <2>1. EditInScope
    BY Zenon, <1>3, HeadInScope DEF KillInSource
  <2> QED BY Zenon, <2>1, <1>1, ScopeKept
<1>4. ASSUME NEW written \in SUBSET Files, NEW n \in Files, KillInStrip(written, n)
      PROVE  EditInScope
  <2> DEFINE dangling == danglingMsg(Overlay, run.gen)
             Out(m) == Stripped(Overlay, run.gen, m)
  <2>1. /\ run.pc = "sources" /\ run.todo = <<>> /\ run.flipped
        /\ written \subseteq dangling /\ n \in dangling
        /\ disk' = [m \in Files |-> IF m = n THEN EmptyFile ELSE IF m \in written THEN Out(m) ELSE disk[m]]
    BY Zenon, <1>4 DEF KillInStrip
  <2>2. /\ \A m \in Files : disk'[m] \in {Out(m), EmptyFile, disk[m]}
        /\ \A m \in Files : m \notin dangling => disk'[m] = disk[m]
    <3> HIDE DEF dangling, Out
    <3> QED BY Zenon, <2>1
  <2> QED BY Zenon, <2>1, <2>2, PassInScope
<1>5. CASE \E written \in SUBSET Files, n \in Files : KillInStrip(written, n)
  BY Zenon, <1>1, <1>4, <1>5, ScopeKept
<1> QED BY Zenon, <1>2, <1>3, <1>5 DEF KillWriting

\* Every step stays in scope.
LEMMA NextInScope ==
  ASSUME ReportInv, ScopeInv, [Next]_vars
  PROVE  EditInScope /\ ScopeInv'
<1>1. CASE \E write \in BOOLEAN : Start(write)
  BY <1>1, StartInScope
<1>2. ASSUME NEW write \in Outcomes, DoTemplate(write)
      PROVE  EditInScope /\ ScopeInv'
  <2>1. /\ UNCHANGED <<disk, project>> /\ run.pc = "template" /\ run'.todo = run.todo
        /\ DOMAIN run'.rewrites \subseteq DOMAIN run.rewrites \cup {"tmpl"}
    BY Zenon, <1>2, TemplateFields DEF ReportInv, Shape, Keeps, Recorded
  <2> QED BY Zenon, <2>1, DiskKept DEF Files
<1>3. CASE \E write \in Outcomes : DoSource(write)
  BY Zenon, <1>3, SourceInScope
<1>4. CASE \E failed, lost \in SUBSET Files : DoStrip(failed, lost)
  BY Zenon, <1>4, StripInScope
<1>5. CASE ParseError
  <2>1. /\ UNCHANGED <<disk, project>> /\ run.pc = "sources" /\ run'.rewrites = run.rewrites
        /\ run.todo # <<>> /\ run'.todo = Tail(run.todo)
    BY Zenon, <1>5, ParseErrorFields DEF ReportInv, Shape, Keeps
  <2>2. NamesIn(run'.todo) \subseteq NamesIn(run.todo)
    BY Zenon, <2>1, TodoShape DEF ReportInv, Shape
  <2> QED BY Zenon, <2>1, <2>2, DiskKept
<1>6. CASE StripCannotLoad \/ SkipStrip
  BY Zenon, <1>6, NoStripFields, DiskKept DEF ReportInv, Shape, Keeps
<1>7. CASE \E json \in BOOLEAN : printReport(json)
  BY Zenon, <1>7, ReportFields, DiskKept DEF ReportInv, Shape, Keeps
<1>8. CASE Kill \/ KillWriting
  BY <1>8, KillInScope
<1>9. CASE UNCHANGED <<disk, run, project>>
  BY Zenon, <1>9, DiskKept
<1> QED
  BY Zenon, <1>1, <1>2, <1>3, <1>4, <1>5, <1>6, <1>7, <1>8, <1>9
     DEF Next, ToolStep, KillWriting, FollowNote, FollowStep, BufGenerate, UpdateDependency, vars

\* The tool never changes a file marked as generated, and changes one under a
\* template's out: directory in the typed pass alone, by taking a dangling .Msg
\* from it or by a write that destroys it, however often it is run, fails or is
\* killed, and whatever it makes of the files it does rewrite.
THEOREM GeneratedFilesAreKept == Spec => EditsAreInScope
<1>1. Init => ReportInv /\ ScopeInv
  BY InitInv DEF Init, ScopeInv, NoRun
<1>2. ReportInv /\ ScopeInv /\ [Next]_vars => ReportInv' /\ ScopeInv' /\ [EditInScope]_vars
  BY NextInv, NextInScope
<1> QED BY <1>1, <1>2, PTL DEF Spec, EditsAreInScope
=============================================================================
