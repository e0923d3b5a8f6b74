------------------------------- MODULE MigrateRun -------------------------------
(***************************************************************************)
(* Runs of connect-go-v2-migrate over a project (main.go, discover.go,     *)
(* msgpass.go): discovery decides per file whether its bindings are v2,    *)
(* templates and sources are rewritten and written one by one, a typed     *)
(* pass strips what a flipped result left dangling in other files, and a   *)
(* report says what was done.  Between runs the user regenerates the local *)
(* bindings and updates SDK modules, as the report tells them to.          *)
(*                                                                         *)
(* Faults: a write can fail, a file can fail to parse, the typed pass can  *)
(* fail to load the project, and the process can be killed, between files  *)
(* or in the middle of a write.  A write truncates the file before it      *)
(* fills it, so that one that fails or is cut short leaves the file as it  *)
(* was or destroys it; what remains is taken as nothing.  MaxFaults bounds *)
(* how many faults happen in a behaviour.                                  *)
(*                                                                         *)
(* What is made of a file and of a template is a parameter here.           *)
(***************************************************************************)
EXTENDS Naturals, Sequences

CONSTANTS Projects,   \* the projects to start from; faulty ones may meet a fault
          MaxFaults,
          EmptyFile,                                         \* what a lost write leaves of a Go file
          RewriteFile(_, _, _), RewriteTemplate(_),          \* what the passes make of one
          StripMsg(_, _, _),                                 \* and the typed pass of a file
          StreamTypeOf(_, _, _, _), StreamTypeName(_, _),    \* generated stream types
          EntriesOf(_), IsConnectEntry(_), IsV2Entry(_)      \* a template's plugins

VARIABLES disk,       \* the Go files, by name
          tmpl,       \* the Buf template
          gen,        \* the library version each generated package binds
          run,        \* the current or last run
          dry,        \* the last completed dry run
          told,       \* the manual diagnostics of completed runs, [file, rule, of]
          advice,     \* the steps of the last report that the user has not done yet
          env,        \* the plugin's version, installed or by go.mod; go.mod's modules; whether
                      \* the user generates with the installed plugin instead of a remote one
          faults,
          project     \* what the project was at first

vars == <<disk, tmpl, gen, run, dry, told, advice, env, faults, project>>

Files == {"a", "b"}

EmptyTemplate == <<>>

NoRun == [pc |-> "idle", write |-> FALSE, src |-> <<>>, tsrc |-> <<>>, gen |-> <<>>, todo |-> <<>>,
          ready |-> {}, anyReady |-> FALSE, rewrites |-> <<>>, diags |-> {}, flipped |-> FALSE,
          failed |-> {}, errored |-> FALSE, stripped |-> FALSE, ended |-> "never"]

Init ==
    /\ project \in Projects
    /\ disk = [n \in Files |-> project.files[n]]
    /\ tmpl = project.tmpl
    /\ gen = project.gen
    /\ run = NoRun
    /\ dry = NoRun
    /\ told = {}
    /\ advice = <<>>
    /\ env = [local |-> 1, gotool |-> 1, mods |-> {}, instead |-> FALSE]
    /\ faults = 0

-----------------------------------------------------------------------------
(* Discovery.                                                              *)

\* Imports connect, a package that does, or a v1 ecosystem package.
fileUsesConnect(f) == f.v1 # "" \/ f.v2 # "" \/ f.stub # "" \/ f.eco = "v1"

importsV1Stub(f) == f.stub # "" /\ gen[f.stub] = 1

isGeneratedAST(f) == f.origin = "marked"

\* Under a template's out: directory.
underGenDir(n) == project.files[n].origin = "outdir"

Sources == {n \in Files : ~isGeneratedAST(disk[n]) /\ ~underGenDir(n) /\ fileUsesConnect(disk[n])}

hasV1Gen == \E s \in DOMAIN gen : gen[s] = 1

\* The stream types of the generated packages on v2.
buildHandlerStreamResolver ==
    {[name |-> StreamTypeName(h.service, h.rpc), pkg |-> h.service, messages |-> h.messages] :
        h \in {k \in project.rpcs : gen[k.stub] = 2}}

Start(write) ==
    LET ready == {n \in Sources : ~importsV1Stub(disk[n])}
        Walk(n) == IF n \in Sources THEN <<n>> ELSE <<>>
        names == Walk("a") \o Walk("b")
    IN  /\ run.pc = "idle"
        /\ run' = [NoRun EXCEPT !.pc = "template", !.write = write, !.src = disk, !.tsrc = tmpl, !.gen = gen,
                                !.ready = ready, !.anyReady = ready # {},
                                !.todo = IF ready # {} \/ ~hasV1Gen THEN names ELSE <<>>]
        /\ advice' = <<>>
        /\ UNCHANGED <<disk, tmpl, gen, dry, told, env, faults, project>>

-----------------------------------------------------------------------------
(* Rewriting.  processFile: the rewrite, the write, the record, the        *)
(* diagnostics.  A failed write is said on stderr and not recorded; its    *)
(* diagnostics are.                                                        *)

\* How a write ends: done, with the file as it was, or with the file lost.
Outcomes == {"done", "kept", "lost"}

Fault(happens) ==
    /\ happens => project.faulty /\ faults < MaxFaults
    /\ faults' = IF happens THEN faults + 1 ELSE faults

\* The rewrites once new ones are recorded: a later one of a file replaces it.
Recorded(new, rewrites) ==
    [n \in DOMAIN new \cup DOMAIN rewrites |-> IF n \in DOMAIN new THEN new[n] ELSE rewrites[n]]

\* Fault: a rewrite is recorded whether or not it could be written.
processFileOptimist(name, src, out, diags, write) ==
    LET fails == out # src /\ run.write /\ write # "done"
    IN  [run EXCEPT !.rewrites = IF out # src THEN Recorded([n \in {name} |-> [src |-> src, out |-> out]], @) ELSE @,
                    !.failed = IF fails THEN @ \cup {name} ELSE @,
                    !.errored = @ \/ fails,
                    !.diags = @ \cup {[file |-> name, rule |-> d.rule, of |-> d.of] : d \in diags}]

processFile(name, src, out, diags, write) ==
    LET fails == out # src /\ run.write /\ write # "done"
        recorded == out # src /\ ~fails
    IN  [run EXCEPT !.rewrites = IF recorded THEN Recorded([n \in {name} |-> [src |-> src, out |-> out]], @) ELSE @,
                    !.failed = IF fails THEN @ \cup {name} ELSE @,
                    !.errored = @ \/ fails,
                    !.diags = @ \cup {[file |-> name, rule |-> d.rule, of |-> d.of] : d \in diags}]

\* What a file holds once out was, or was not, written to it.
writeFilePreservingMode(old, out, empty, write) ==
    CASE write = "done" -> out [] write = "kept" -> old [] write = "lost" -> empty

DoTemplate(write) ==
    LET r == RewriteTemplate(run.tsrc)
        diags == {[rule |-> n, of |-> <<"entry">>] : n \in r.notes}
        writes == run.write /\ r.out # run.tsrc
    IN  /\ run.pc = "template"
        /\ write # "done" => writes
        /\ run' = [processFile("tmpl", run.tsrc, r.out, diags, write) EXCEPT !.pc = "sources"]
        /\ tmpl' = IF writes THEN writeFilePreservingMode(tmpl, r.out, EmptyTemplate, write) ELSE tmpl
        /\ Fault(write # "done")
        /\ UNCHANGED <<disk, gen, dry, told, advice, env, project>>

RewriteOf(f, ready) ==
    LET h == project.handler
    IN  RewriteFile(f, ready, StreamTypeOf(buildHandlerStreamResolver, h.rpc, h.recv, h.messages))

DoSource(write) ==
    LET n == Head(run.todo)
        r == RewriteOf(run.src[n], n \in run.ready)
        next == processFile(n, run.src[n], r.file, r.warn, write)
        writes == run.write /\ r.file # run.src[n]
    IN  /\ run.pc = "sources" /\ run.todo # <<>>
        /\ write # "done" => writes
        /\ run' = [next EXCEPT !.todo = Tail(@), !.flipped = @ \/ r.flipped]
        /\ disk' = IF writes THEN [disk EXCEPT ![n] = writeFilePreservingMode(@, r.file, EmptyFile, write)] ELSE disk
        /\ Fault(write # "done")
        /\ UNCHANGED <<tmpl, gen, dry, told, advice, env, project>>

\* A file that does not parse is counted and left alone.
ParseError ==
    /\ run.pc = "sources" /\ run.todo # <<>>
    /\ run' = [run EXCEPT !.todo = Tail(@), !.errored = TRUE]
    /\ Fault(TRUE)
    /\ UNCHANGED <<disk, tmpl, gen, dry, told, advice, env, project>>

-----------------------------------------------------------------------------
(* The typed pass, over the disk with the rewrites laid on top.            *)

Overlay == [n \in Files |-> IF n \in DOMAIN run.rewrites THEN run.rewrites[n].out ELSE disk[n]]

\* A file of the view without the .Msg whose receivers have none: those of its
\* own locals, and those on the result of a's function once that is bare.
Stripped(view, bindings, n) ==
    StripMsg(view[n], view["a"].origin # "lost" /\ ~view["a"].fn.res,
             ~(view[n].stub # "" /\ bindings[view[n].stub] = 1))

\* Fault: generated files are not left out.
danglingMsgAnywhere(view, bindings) == {n \in Files : Stripped(view, bindings, n) # view[n]}

\* The files with such a .Msg; only the marked ones are passed over.
danglingMsg(view, bindings) ==
    {n \in Files : ~isGeneratedAST(view[n]) /\ Stripped(view, bindings, n) # view[n]}

\* The files of failed cannot be written, and those of lost among them are
\* destroyed; the others are written.
stripDanglingMsgPass(failed, lost) ==
    LET edited == danglingMsg(Overlay, run.gen) \ failed
        Out(n) == Stripped(Overlay, run.gen, n)
        Base(n) == IF n \in DOMAIN run.rewrites THEN run.rewrites[n].src ELSE Overlay[n]
    IN  /\ run' = [run EXCEPT !.pc = "report", !.stripped = failed = {},
                              !.rewrites = Recorded([n \in edited |-> [src |-> Base(n), out |-> Out(n)]], @),
                              !.failed = @ \cup failed,
                              !.errored = @ \/ failed # {}]
        /\ disk' = [n \in Files |-> IF n \in lost THEN EmptyFile
                                     ELSE IF n \in edited /\ run.write THEN Out(n) ELSE disk[n]]

DoStrip(failed, lost) ==
    /\ run.pc = "sources" /\ run.todo = <<>>
    /\ run.anyReady /\ run.flipped
    /\ failed \subseteq danglingMsg(Overlay, run.gen) /\ lost \subseteq failed
    /\ failed # {} => run.write
    /\ stripDanglingMsgPass(failed, lost)
    /\ Fault(failed # {})
    /\ UNCHANGED <<tmpl, gen, dry, told, advice, env, project>>

\* The project does not load: said on stderr, no error counted.
StripCannotLoad ==
    /\ run.pc = "sources" /\ run.todo = <<>>
    /\ run.anyReady /\ run.flipped
    /\ run' = [run EXCEPT !.pc = "report"]
    /\ Fault(TRUE)
    /\ UNCHANGED <<disk, tmpl, gen, dry, told, advice, env, project>>

SkipStrip ==
    /\ run.pc = "sources" /\ run.todo = <<>>
    /\ ~(run.anyReady /\ run.flipped)
    /\ run' = [run EXCEPT !.pc = "report"]
    /\ UNCHANGED <<disk, tmpl, gen, dry, told, advice, env, faults, project>>

-----------------------------------------------------------------------------
(* The report.  While v1 bindings keep every source from being rewritten   *)
(* it walks the user through the switch to v2; otherwise it lists what was *)
(* done, what is deferred and which modules go.mod lacks.                  *)

installNotes == {d.rule : d \in run.diags} \cap {"bufgen_reinstall_plugin", "bufgen_update_go_mod"}

\* A v1 stub of the main module is regenerated, one of a BSR SDK updated with
\* go get, another dependency's only named.
categorizeV1Stub(s) == IF s = "p" THEN "local" ELSE project.q

V1Stubs(category) == {s \in DOMAIN run.gen : run.gen[s] = 1 /\ categorizeV1Stub(s) = category}

goGetModules ==
    {"core"} \cup V1Stubs("sdk") \cup (IF \E n \in Files : run.src[n].eco = "v1" THEN {"eco"} ELSE {})

missingV2Modules == goGetModules \ env.mods

\* Some work is in scope.
missingV2ModulesAdvice ==
    IF run.rewrites = <<>> /\ run.diags = {} /\ ~\E n \in Files : fileUsesConnect(run.src[n]) THEN {}
    ELSE missingV2Modules

Do(cmd) == [cmd |-> cmd, mods |-> {}]

Get(mods) == [cmd |-> "go get", mods |-> mods]

\* Fault: the plugin is reinstalled after regenerating.
localGenStepsGenerateFirst ==
    <<Do("buf generate")>>
    \o (IF "bufgen_reinstall_plugin" \in installNotes THEN <<Do("go install")>> ELSE <<>>)
    \o (IF "bufgen_update_go_mod" \in installNotes THEN <<Do("go get -tool")>> ELSE <<>>)

localGenSteps ==
    (IF "bufgen_reinstall_plugin" \in installNotes \/ (installNotes = {} /\ run.rewrites = <<>>)
     THEN <<Do("go install")>> ELSE <<>>)
    \o (IF "bufgen_update_go_mod" \in installNotes THEN <<Do("go get -tool")>> ELSE <<>>)
    \o <<Do("buf generate")>>

phase1Steps ==
    (IF ~run.write /\ run.rewrites # <<>> THEN <<Do("migrate -w")>> ELSE <<>>)
    \o <<Get(goGetModules)>>
    \o (IF V1Stubs("local") # {} THEN localGenSteps ELSE <<>>)

printText ==
    IF (\E s \in DOMAIN run.gen : run.gen[s] = 1) /\ ~run.anyReady THEN phase1Steps
    ELSE (IF \E d \in run.diags : d.rule = "awaiting_v2_bindings" THEN <<Do("buf generate")>> ELSE <<>>)
         \o (IF missingV2ModulesAdvice # {} THEN <<Get(missingV2ModulesAdvice)>> ELSE <<>>)

printJSON ==
    IF \E s \in DOMAIN run.gen : run.gen[s] = 1 THEN phase1Steps
    ELSE IF missingV2ModulesAdvice # {} THEN <<Get(missingV2ModulesAdvice)>> ELSE <<>>

printReport(json) ==
    /\ run.pc = "report"
    /\ run' = [run EXCEPT !.pc = "idle", !.ended = IF run.errored THEN "exit 1" ELSE "exit 0"]
    /\ dry' = IF run.write THEN dry ELSE run'
    /\ told' = told \cup {d \in run.diags : d.rule # "awaiting_v2_bindings"}
    /\ advice' = IF json THEN printJSON ELSE printText
    /\ UNCHANGED <<disk, tmpl, gen, env, faults, project>>

Killed == run' = [run EXCEPT !.pc = "idle", !.ended = "killed"]

Kill ==
    /\ run.pc # "idle"
    /\ Killed
    /\ Fault(TRUE)
    /\ UNCHANGED <<disk, tmpl, gen, dry, told, advice, env, project>>

\* Killed while it writes the template, a source, or - the files of written
\* done - a file of the typed pass.
KillInTemplate ==
    /\ run.pc = "template" /\ run.write /\ RewriteTemplate(run.tsrc).out # run.tsrc
    /\ tmpl' = EmptyTemplate
    /\ Killed
    /\ Fault(TRUE)
    /\ UNCHANGED <<disk, gen, dry, told, advice, env, project>>

KillInSource ==
    LET n == Head(run.todo)
    IN  /\ run.pc = "sources" /\ run.todo # <<>>
        /\ run.write /\ RewriteOf(run.src[n], n \in run.ready).file # run.src[n]
        /\ disk' = [disk EXCEPT ![n] = EmptyFile]
        /\ Killed
        /\ Fault(TRUE)
        /\ UNCHANGED <<tmpl, gen, dry, told, advice, env, project>>

KillInStrip(written, n) ==
    /\ run.pc = "sources" /\ run.todo = <<>>
    /\ run.anyReady /\ run.flipped /\ run.write
    /\ written \subseteq danglingMsg(Overlay, run.gen) /\ n \in danglingMsg(Overlay, run.gen) \ written
    /\ disk' = [m \in Files |-> IF m = n THEN EmptyFile
                                 ELSE IF m \in written THEN Stripped(Overlay, run.gen, m) ELSE disk[m]]
    /\ Killed
    /\ Fault(TRUE)
    /\ UNCHANGED <<tmpl, gen, dry, told, advice, env, project>>

-----------------------------------------------------------------------------
(* The user, between runs.  A guided one does what the report says, step   *)
(* by step; another goes by the guide: the v2 plugin, buf generate once    *)
(* the template asks for v2, and new versions of the dependencies.         *)

\* The version of the plugin that an entry runs, 0 where it cannot run: the v2
\* remote plugin that the tool pins need not be published.
Runs(entry) ==
    IF entry.ref \cap {"remote1", "gosimple"} # {} THEN 1
    ELSE IF "gotool" \in entry.ref \cup entry.path THEN env.gotool
    ELSE IF "local" \in entry.ref THEN env.local
    ELSE IF project.published THEN 2
    ELSE IF env.instead THEN env.local ELSE 0

\* buf generate: v2 code when every entry can be read and every connect-go entry
\* runs the v2 plugin, which does not know the option simple.
Generated ==
    LET entries == EntriesOf(tmpl)
        connect == {n \in DOMAIN entries : IsConnectEntry(entries[n])}
    IN  IF connect = {} THEN env.local
        ELSE IF \A n \in DOMAIN entries : IsV2Entry(entries[n]) /\ (n \in connect => Runs(entries[n]) = 2)
        THEN 2 ELSE gen["p"]

\* "is not published yet ... generate with the local plugin instead: go install
\* ... and a local: entry".
UnpublishedNote == \E d \in told : d.rule = "bufgen_remote_unpublished"

FollowNote ==
    /\ run.pc = "idle" /\ project.guided
    /\ UnpublishedNote /\ ~project.published /\ ~env.instead
    /\ env' = [env EXCEPT !.local = 2, !.instead = TRUE]
    /\ UNCHANGED <<disk, tmpl, gen, run, dry, told, advice, faults, project>>

\* The next of the listed steps; a user told of the unpublished plugin does
\* that first.
FollowStep ==
    LET step == Head(advice)
    IN  /\ run.pc = "idle" /\ project.guided
        /\ advice # <<>> /\ step.cmd # "migrate -w"
        /\ UnpublishedNote => project.published \/ env.instead
        /\ env' = CASE step.cmd = "go install"   -> [env EXCEPT !.local = 2]
                    [] step.cmd = "go get -tool" -> [env EXCEPT !.gotool = 2]
                    [] step.cmd = "go get"       -> [env EXCEPT !.mods = @ \cup step.mods]
                    [] OTHER -> env
        /\ gen' = [s \in DOMAIN gen |->
                      IF s = "p" /\ step.cmd = "buf generate" THEN Generated
                      ELSE IF s \in step.mods THEN 2 ELSE gen[s]]
        /\ advice' = Tail(advice)
        /\ UNCHANGED <<disk, tmpl, run, dry, told, faults, project>>

BufGenerate ==
    /\ run.pc = "idle" /\ ~project.guided
    /\ "p" \in DOMAIN gen /\ gen["p"] = 1
    /\ \A n \in DOMAIN EntriesOf(tmpl) : IsV2Entry(EntriesOf(tmpl)[n])
    /\ gen' = [gen EXCEPT !["p"] = 2]
    /\ UNCHANGED <<disk, tmpl, run, dry, told, advice, env, faults, project>>

UpdateDependency ==
    /\ run.pc = "idle" /\ ~project.guided
    /\ "q" \in DOMAIN gen /\ gen["q"] = 1
    /\ gen' = [gen EXCEPT !["q"] = 2]
    /\ UNCHANGED <<disk, tmpl, run, dry, told, advice, env, faults, project>>

ToolStep ==
    \/ \E write \in Outcomes : DoTemplate(write) \/ DoSource(write)
    \/ \E failed, lost \in SUBSET Files : DoStrip(failed, lost)
    \/ ParseError \/ StripCannotLoad \/ SkipStrip
    \/ \E json \in BOOLEAN : (json => project.guided) /\ printReport(json)

Next ==
    \/ \E write \in BOOLEAN : Start(write)
    \/ ToolStep
    \/ Kill \/ KillInTemplate \/ KillInSource
    \/ \E written \in SUBSET Files, n \in Files : KillInStrip(written, n)
    \/ FollowNote
    \/ FollowStep
    \/ BufGenerate
    \/ UpdateDependency

Spec == Init /\ [][Next]_vars

-----------------------------------------------------------------------------
(* Properties.                                                             *)

Finished(write) == run.pc = "idle" /\ run.write = write /\ run.ended \in {"exit 0", "exit 1"}

\* A -w run in which nothing failed, the typed pass included.
CleanRun ==
    /\ Finished(TRUE) /\ run.ended = "exit 0"
    /\ run.anyReady /\ run.flipped => run.stripped

\* "A failed write must not be reported as applied": a finished run did to the
\* template and to every file what it lists, and nothing to what it does not
\* list - except to the ones it says it could not write, which are as they
\* were, as listed, or lost; it lists such a one only where the typed pass
\* failed to write it a second time, and it exits with an error.  A dry run
\* does nothing, and a -w run from where it started does what it proposed.
ReportIsTrue ==
    /\ \A write \in BOOLEAN : Finished(write) =>
          \A n \in Files :
              LET listed == IF write /\ n \in DOMAIN run.rewrites THEN run.rewrites[n].out ELSE run.src[n]
              IN  disk[n] = listed \/ (write /\ n \in run.failed /\ disk[n] = EmptyFile)
    /\ Finished(TRUE) =>
          LET listed == IF "tmpl" \in DOMAIN run.rewrites THEN run.rewrites["tmpl"].out ELSE run.tsrc
          IN  tmpl = listed \/ ("tmpl" \in run.failed /\ tmpl = EmptyTemplate)
    /\ Finished(TRUE) /\ run.failed # {} =>
          /\ run.ended = "exit 1"
          /\ run.failed \cap DOMAIN run.rewrites # {} => run.anyReady /\ run.flipped
    /\ CleanRun /\ faults = 0 /\ dry.src = run.src /\ dry.tsrc = run.tsrc /\ dry.gen = run.gen =>
          dry.rewrites = run.rewrites /\ dry.diags = run.diags

\* What a step does to the files that are out of scope.
EditInScope ==
    \A n \in Files :
        /\ project.files[n].origin = "marked" => disk'[n] = disk[n]
        /\ project.files[n].origin = "outdir" /\ disk'[n] # disk[n] =>
              /\ run.pc = "sources" /\ run.todo = <<>> /\ run.flipped
              /\ disk'[n] \in {Stripped(Overlay, run.gen, n), EmptyFile}

\* Files marked as generated are never edited, and files under a template's out:
\* directory by the typed pass alone, which takes a dangling .Msg from them or
\* loses them; GeneratedIsUnedited is what the usage text says.
EditsAreInScope == [][EditInScope]_vars

\* "Generated code is never edited. This includes files with a "DO NOT EDIT"
\* header and files under a buf.gen.yaml out directory": the usage text of
\* main.go, which the typed pass does not keep to.
GeneratedIsUnedited ==
    \A n \in Files : project.files[n].origin \in {"marked", "outdir"} => disk[n] = project.files[n]
=============================================================================
