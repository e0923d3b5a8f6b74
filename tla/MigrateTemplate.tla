---------------------------- MODULE MigrateTemplate ----------------------------
(***************************************************************************)
(* The migration tool on a Buf template (bufgen.go) and the diff it shows  *)
(* for a proposed change (diff.go).  A template is a sequence of lines; of *)
(* a line the scanner sees its indentation, whether it opens a sequence    *)
(* item, its key and its value, a sequence of words.                       *)
(*   ref    local:, remote:, name: or plugin:, the value being the kind of *)
(*          reference: "local" and "gotool" name the connect-go binary,    *)
(*          "remote1", "gosimple" and "remote2" its remote plugins,        *)
(*          "other" another generator                                      *)
(*   path   the v1 path: override, "plain" or "gotool"                     *)
(*   opt    an inline list of options, cut at the commas as the scanner    *)
(*          cuts it: the pieces of a flow sequence keep their brackets;    *)
(*          empty for the list form                                        *)
(*   item   an entry of an opt list; key any other key; comment and blank  *)
(***************************************************************************)
EXTENDS Naturals, Sequences, FiniteSets, SequencesExt, FiniteSetsExt

CONSTANT DiffContext

ASSUME DiffContextAssumption == DiffContext \in Nat

Ascending(S, n) == SelectSeq([i \in 1..n |-> i], LAMBDA i : i \in S)

Line(ind, dash, k, v) == [ind |-> ind, dash |-> dash, k |-> k, v |-> v]

-----------------------------------------------------------------------------
(* RewriteBufGen.                                                          *)

\* A sequence item whose own line names the connect-go generator.
connectPluginItem(line) == line.dash /\ line.k = "ref" /\ line.v # <<"other">>

\* The block of the item at i: up to the next line at the dash's indentation
\* or less, blank lines aside.
blockEnd(lines, i) ==
    LET after == {j \in (i + 1)..Len(lines) : lines[j].k # "blank" /\ lines[j].ind <= lines[i].ind}
    IN  IF after = {} THEN Len(lines) + 1 ELSE Min(after)

Block(lines, i) == (i + 1)..(blockEnd(lines, i) - 1)

\* simple and simple=..., whatever follows the sign.
isSimpleToken(token) == token \in {"simple", "simple=true]"}

\* opt: a,simple,b loses simple, and the line when nothing is left; opt: [a,
\* simple=true] loses its bracket too, and [simple] stays.
stripInlineSimple(lines, i) ==
    LET kept == SelectSeq(lines[i].v, LAMBDA t : ~isSimpleToken(t))
    IN  IF kept = lines[i].v THEN [replace |-> <<>>, delete |-> {}]
        ELSE IF kept = <<>> THEN [replace |-> <<>>, delete |-> {i}]
        ELSE [replace |-> i :> [lines[i] EXCEPT !.v = kept], delete |-> {}]

\* The items of the list under the opt: at i: indented deeper than it, until
\* something that is neither an item, a comment nor blank.
optItems(lines, i, end) ==
    LET ends == {j \in (i + 1)..(end - 1) :
                    /\ lines[j].k # "blank"
                    /\ lines[j].ind <= lines[i].ind \/ lines[j].k \notin {"item", "comment"}}
        stop == IF ends = {} THEN end ELSE Min(ends)
    IN  {j \in (i + 1)..(stop - 1) : lines[j].k = "item"}

stripListSimpleAll(lines, i, end) ==
    LET simple == {j \in optItems(lines, i, end) : isSimpleToken(lines[j].v[1])}
    IN  [replace |-> <<>>, delete |-> IF simple = {} THEN {} ELSE simple \cup {i}]

\* - simple goes, and opt: itself when every item was simple.
stripListSimple(lines, i, end) ==
    LET items  == optItems(lines, i, end)
        simple == {j \in items : isSimpleToken(lines[j].v[1])}
    IN  [replace |-> <<>>,
         delete |-> IF simple = {} THEN {} ELSE IF simple = items THEN simple \cup {i} ELSE simple]

\* Only the first opt: of a block is looked at.
stripSimpleOpt(lines, i) ==
    LET opts == {j \in Block(lines, i) : lines[j].k = "opt"}
    IN  IF opts = {} THEN [replace |-> <<>>, delete |-> {}]
        ELSE IF lines[Min(opts)].v # <<>> THEN stripInlineSimple(lines, Min(opts))
        ELSE stripListSimple(lines, Min(opts), blockEnd(lines, i))

\* A v1 path: can route a local plugin through go run or go tool.
pathOverride(lines, i) ==
    LET paths == {j \in Block(lines, i) : lines[j].k = "path"}
    IN  IF lines[i].v = <<"local">> /\ paths # {} /\ lines[Min(paths)].v = <<"gotool">>
        THEN "gotool" ELSE lines[i].v[1]

pinRemotePluginV2(lines, i) ==
    IF lines[i].v[1] \in {"remote1", "gosimple"}
    THEN i :> [lines[i] EXCEPT !.v = <<"remote2">>] ELSE <<>>

\* Fault: nothing is said of the plugin that was pinned.
pluginNoteQuiet(kind) ==
    CASE kind = "local"  -> {"bufgen_reinstall_plugin"}
      [] kind = "gotool" -> {"bufgen_update_go_mod"}
      [] OTHER           -> {}

pluginNote(kind) ==
    CASE kind = "local"                   -> {"bufgen_reinstall_plugin"}
      [] kind = "gotool"                  -> {"bufgen_update_go_mod"}
      [] kind \in {"remote1", "gosimple"} -> {"bufgen_remote_unpublished"}
      [] OTHER                            -> {}

\* The scan jumps from an item to the end of its block.
pluginItems(lines) ==
    {i \in DOMAIN lines : /\ connectPluginItem(lines[i])
                          /\ \A j \in 1..(i - 1) : connectPluginItem(lines[j]) => i \notin Block(lines, j)}

\* Deletions dropped, replacements substituted, the rest verbatim.
applyEdits(lines, replace, delete) ==
    LET kept == Ascending(DOMAIN lines \ delete, Len(lines))
    IN  [n \in DOMAIN kept |-> IF kept[n] \in DOMAIN replace THEN replace[kept[n]] ELSE lines[kept[n]]]

RewriteBufGen(lines) ==
    LET items   == pluginItems(lines)
        Strip(i) == stripSimpleOpt(lines, i)
        changes == [i \in items |-> pinRemotePluginV2(lines, i) @@ Strip(i).replace]
        edited  == UNION {DOMAIN changes[i] : i \in items}
        Owner(n) == CHOOSE i \in items : n \in DOMAIN changes[i]
    IN  [out |-> applyEdits(lines, [n \in edited |-> changes[Owner(n)][n]],
                            UNION {Strip(i).delete : i \in items}),
         notes |-> UNION {pluginNote(pathOverride(lines, i)) : i \in items}]

-----------------------------------------------------------------------------
(* What the template says, read as YAML: its plugin entries, each with its *)
(* reference, its options and the rest of its keys.  An opt list may be    *)
(* indented no deeper than opt: itself.                                    *)

\* The pieces of a flow sequence, each with the option it spells.
Opening == [t \in {"[paths", "[simple", "[simple]"} |-> IF t = "[paths" THEN "paths" ELSE "simple"]
Closing == [t \in {"paths]", "simple]", "simple=true]", "[simple]"} |-> IF t = "paths]" THEN "paths" ELSE "simple"]

OptionOf(token) ==
    IF token \in DOMAIN Opening THEN Opening[token]
    ELSE IF token \in DOMAIN Closing THEN Closing[token] ELSE token

Entries(lines) ==
    LET starts == Ascending({i \in DOMAIN lines : lines[i].dash /\ lines[i].k # "item"}, Len(lines))
        Body(n) == starts[n]..((IF n = Len(starts) THEN Len(lines) + 1 ELSE starts[n + 1]) - 1)
        Of(n, k) == {j \in Body(n) : lines[j].k = k}
        Words(n, k) == UNION {Range(lines[j].v) : j \in Of(n, k)}
        Opts(n) == IF Of(n, "opt") = {} THEN {}
                   ELSE {OptionOf(t) : t \in Words(n, "opt")} \cup Words(n, "item")
    IN  [n \in DOMAIN starts |->
            [ref |-> Words(n, "ref"), opts |-> Opts(n),
             path |-> Words(n, "path"), keys |-> Words(n, "key"),
             first |-> lines[starts[n]].k = "ref",
             open |-> (Words(n, "opt") \cap DOMAIN Opening = {}) # (Words(n, "opt") \cap DOMAIN Closing = {}),
             edge |-> \E t \in Words(n, "opt") : OptionOf(t) = "simple" /\ t # "simple",
             nested |-> \A j \in Of(n, "item") : \A i \in Of(n, "opt") : lines[j].ind > lines[i].ind]]

IsConnect(entry) == entry.ref \cap {"local", "gotool", "remote1", "gosimple", "remote2"} # {}

\* An entry the v2 generator accepts.
EntryIsV2(entry) ==
    /\ ~entry.open
    /\ IsConnect(entry) => "simple" \notin entry.opts /\ entry.ref \cap {"remote1", "gosimple"} = {}

\* Entries the scanner does not see or not wholly: a reference on a later line
\* than the dash, and an opt list that is not indented under its key.  (edge
\* says of an entry that its simple is at a bracket, open that a bracket of it
\* is not closed.)
Unseen(entry) == ~entry.first \/ ~entry.nested

\* The entry the migration is meant to leave behind.
Migrated(entry) ==
    IF ~IsConnect(entry) THEN entry
    ELSE [entry EXCEPT !.opts = @ \ {"simple"},
                       !.ref = {IF r \in {"remote1", "gosimple"} THEN "remote2" ELSE r : r \in @}]

-----------------------------------------------------------------------------
(* The diff: an edit script from a longest common subsequence, cut into    *)
(* hunks with context, each headed by its line ranges.                     *)

Diff(tag, line, a, b) == [tag |-> tag, line |-> line, aNum |-> a, bNum |-> b]

Larger(m, n) == IF m >= n THEN m ELSE n

editScript(a, b) ==
    LET Row(x, below) ==
            FoldRight(LAMBDA j, row : <<IF x = b[j] THEN below[j + 1] + 1 ELSE Larger(below[j], row[1])>> \o row,
                      [j \in DOMAIN b |-> j], <<0>>)
        lcs == FoldRight(LAMBDA x, rows : <<Row(x, rows[1])>> \o rows, a, <<[j \in 1..(Len(b) + 1) |-> 0]>>)
        walk[x \in (1..(Len(a) + 1)) \X (1..(Len(b) + 1))] ==
            LET i == x[1] j == x[2]
            IN  IF i > Len(a) /\ j > Len(b) THEN <<>>
                ELSE IF i <= Len(a) /\ j <= Len(b) /\ a[i] = b[j]
                THEN <<Diff("same", a[i], i, j)>> \o walk[<<i + 1, j + 1>>]
                ELSE IF j > Len(b) \/ (i <= Len(a) /\ lcs[i + 1][j] >= lcs[i][j + 1])
                THEN <<Diff("removed", a[i], i, 0)>> \o walk[<<i + 1, j>>]
                ELSE <<Diff("added", b[j], 0, j)>> \o walk[<<i, j + 1>>]
    IN  walk[<<1, 1>>]

\* The maximal runs of lines within DiffContext of a change.
hunks(script) ==
    LET visible == {k \in DOMAIN script :
                        \E i \in DOMAIN script : /\ script[i].tag # "same"
                                                 /\ i - DiffContext <= k /\ k <= i + DiffContext}
        starts == Ascending({k \in visible : k - 1 \notin visible}, Len(script))
        End(k) == Min({j \in k..Len(script) : j + 1 \notin visible})
    IN  [n \in DOMAIN starts |-> SubSeq(script, starts[n], End(starts[n]))]

boundsExclusive(hunk) ==
    LET Side(num(_)) == LET in == {num(l) : l \in Range(hunk)} \ {0}
                        IN  [start |-> IF in = {} THEN 0 ELSE Min(in),
                             count |-> IF in = {} THEN 0 ELSE Max(in) - Min(in)]
    IN  [a |-> Side(LAMBDA l : l.aNum), b |-> Side(LAMBDA l : l.bNum)]

\* The numbers of an @@ header.
bounds(hunk) ==
    LET Side(num(_)) == LET in == {num(l) : l \in Range(hunk)} \ {0}
                        IN  [start |-> IF in = {} THEN 0 ELSE Min(in), count |-> Cardinality(in)]
    IN  [a |-> Side(LAMBDA l : l.aNum), b |-> Side(LAMBDA l : l.bNum)]
=============================================================================
