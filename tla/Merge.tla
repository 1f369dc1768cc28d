--------------------------------- MODULE Merge --------------------------------
(***************************************************************************)
(* `cargo bp add <pack> -t <template>`: the rendered files of a template   *)
(* are applied to the user's project one after the other. A TOML or YAML   *)
(* file that exists is merged, any other file is skipped or overwritten;   *)
(* conflicts are asked about, one by one or for all that remain. The       *)
(* command can die at any point, and the user has an editor open while it  *)
(* waits for his answer.                                                   *)
(***************************************************************************)
EXTENDS Rows, Sequences

CONSTANTS
    Crates,       \* the crates of dependency tables
    Strategy,     \* path -> "toml", "yaml" or "plain", by the file name
    Rendered,     \* the rendered files, sorted by path: [path, content]
    Projects,     \* the files the command may meet: path -> content
    DeepKeys,     \* YAML keys whose maps are merged: jobs, on, permissions
    Edits,        \* what the user may write meanwhile: [path, content]
    EditorSaves,  \* what he may save in the editor of [e]dit
    MaxRuns,      \* bound on the commands started
    MaxEdits      \* bound on the edits

VARIABLES
    files,   \* the project: path -> content
    git,     \* the working tree: "none" (no repository), "clean" or "dirty"
    flags,   \* of the command: [overwrite, interactive]
    phase,   \* what the command does: see Phases
    next,    \* the rendered file whose turn it is
    batch,   \* BatchDecision: "none", "accept" or "skip"
    draft,   \* what a prompt offers to write: [whole, content]
    report,  \* path -> FileResult, "" as long as there is none
    applied, \* battery-pack.toml: is the template in applied_templates?
    left     \* what remains of the bounds: [runs, edits]

vars == <<files, git, flags, phase, next, batch, draft, report, applied, left>>

Paths == DOMAIN Strategy

Phases == {"idle", "git", "confirm", "render", "apply", "ask", "failed"}

-----------------------------------------------------------------------------
(* Contents. A tree is a function from paths of keys to leaves. A YAML file is
   a sequence of documents, printed the way the emitter does or not. Broken is
   a file that does not parse, Binary one that is not UTF-8. *)

NoFile == [form |-> "none"]
Broken == [form |-> "broken"]
Binary == [form |-> "binary"]
Plain(text) == [form |-> "plain", text |-> text]
Toml(deps, tree) == [form |-> "toml", deps |-> deps, tree |-> tree]
Yaml(docs, printed) == [form |-> "yaml", docs |-> docs, printed |-> printed]

(* The leaves of a YAML key without a value, and of one with an empty map. *)
Null == "null"
EmptyMap == "{}"

(* A tree is a function on paths. *)
IsTree(tree) ==
    /\ tree = [p \in DOMAIN tree |-> tree[p]]
    /\ \A p \in DOMAIN tree : p \in Seq({p[i] : i \in DOMAIN p})

(* What a file of that name can hold. *)
Fits(path, content) ==
    \/ content \in {NoFile, Broken, Binary}
    \/ /\ Strategy[path] = "toml" /\ content.form = "toml"
       /\ content = Toml(content.deps, content.tree)
       /\ content.deps \in [Sections -> [Crates -> Entry]]
       /\ IsTree(content.tree)
    \/ /\ Strategy[path] = "yaml" /\ content.form = "yaml"
       /\ content = Yaml(content.docs, content.printed)
       /\ content.docs \in Seq({content.docs[i] : i \in DOMAIN content.docs})
       /\ \A i \in DOMAIN content.docs : IsTree(content.docs[i])
    \/ Strategy[path] = "plain" /\ content.form = "plain"

(* A template renders to text. *)
ASSUME MergeAssumption ==
    /\ MaxRuns \in Nat /\ MaxEdits \in Nat
    /\ "Cargo.toml" \in Paths
    /\ Len(Rendered) \in Nat
    /\ \A i \in 1..Len(Rendered) :
          /\ Rendered[i].path \in Paths
          /\ Fits(Rendered[i].path, Rendered[i].content)
          /\ Rendered[i].content \notin {NoFile, Binary}
    /\ \A project \in Projects :
          /\ project = [p \in Paths |-> project[p]]
          /\ \A p \in Paths : Fits(p, project[p])
    /\ \A e \in Edits : e.path \in Paths /\ Fits(e.path, e.content)

IsPrefixOf(p, q) == Len(p) <= Len(q) /\ SubSeq(q, 1, Len(p)) = p

(* tree has something at p: a leaf, or a table. *)
Holds(tree, p) == \E q \in DOMAIN tree : IsPrefixOf(p, q)

IsTable(tree, p) == Holds(tree, p) /\ p \notin DOMAIN tree

(* A leaf of the template is new to a tree if its path leaves the tree inside
   tables that are merged key by key, those of the keys in deep. *)
IsNew(tree, deep, p) ==
    \E n \in 1..Len(p) :
        /\ <<>> \notin DOMAIN tree
        /\ \A i \in 1..(n - 1) : p[i] \in deep /\ IsTable(tree, SubSeq(p, 1, i))
        /\ ~Holds(tree, SubSeq(p, 1, n))

Additive(tree, deep, other) ==
    LET fresh == {p \in DOMAIN other : IsNew(tree, deep, p)}
    IN [p \in DOMAIN tree \cup fresh |-> IF p \in DOMAIN tree THEN tree[p] ELSE other[p]]

KeysOf(tree) == UNION {{p[i] : i \in DOMAIN p} : p \in DOMAIN tree}

(* should_upgrade_version, for a row of the template's. *)
Renews(old, row) == row.ver # 0 /\ Upgrades(old, row)

(* parse_dep_as_spec: a row's version and features. One without a version (an
   unresolved bp-managed row) reads as the empty version. *)
SpecOf(row) == IF Present(row) THEN [Row("version", row.ver, row.feats) EXCEPT !.req = row.req] ELSE row

(* sync_dep_in_table, with the template's row. *)
MergeRow(old, row) ==
    CASE ~Present(row) -> old
      [] Present(row) /\ ~Present(old) ->
            [Row("version", row.ver, row.feats) EXCEPT !.req = row.req]
      [] OTHER ->
            [old EXCEPT !.ver = IF Renews(old, row) THEN row.ver ELSE @,
                        !.req = IF Renews(old, row) THEN row.req ELSE @,
                        !.feats = @ \cup row.feats]

MergeDeps(old, new) ==
    [s \in Sections |-> [c \in Crates |-> MergeRow(old[s][c], SpecOf(new[s][c]))]]

MergeToml(old, new) ==
    Toml(MergeDeps(old.deps, new.deps), Additive(old.tree, KeysOf(new.tree), new.tree))

First(docs) == IF docs = <<>> THEN <<>> ELSE <<docs[1]>>

(* The leaves a merge gets to that give way: a null to any value of other's, an
   empty map to the keys of one. *)
Filled(tree, deep, other) ==
    {p \in DOMAIN tree :
        /\ \A i \in 1..Len(p) : p[i] \in deep
        /\ \/ tree[p] = Null /\ Holds(other, p) /\ ~(p \in DOMAIN other /\ other[p] = Null)
           \/ tree[p] = EmptyMap /\ IsTable(other, p)}

(* merge_yaml_values. *)
MergeValues(tree, deep, other) ==
    LET filled == Filled(tree, deep, other)
        kept == DOMAIN tree \ filled
        fresh == {p \in DOMAIN other :
                     IsNew(tree, deep, p) \/ \E q \in filled : IsPrefixOf(q, p)}
    IN [p \in kept \cup fresh |-> IF p \in kept THEN tree[p] ELSE other[p]]

(* Mutant: the template's documents are appended. *)
MergeYamlAppending(old, new) == Yaml(old.docs \o new.docs, TRUE)

(* merge_yaml works with the first document of each file. *)
MergeYaml(old, new) ==
    CASE new.docs = <<>> -> Yaml(First(old.docs), TRUE)
      [] old.docs = <<>> -> Yaml(First(new.docs), TRUE)
      [] OTHER -> Yaml(<<MergeValues(old.docs[1], DeepKeys, new.docs[1])>>, TRUE)

Merged(path, old, new) ==
    IF Strategy[path] = "toml" THEN MergeToml(old, new) ELSE MergeYaml(old, new)

-----------------------------------------------------------------------------
(* One file. *)

Current == Rendered[next]

Mine == files[Current.path]

(* The conflict is over a whole file: a plain one, or one that is not UTF-8. *)
Whole == Strategy[Current.path] = "plain" \/ Mine = Binary

Unmergeable == ~Whole /\ (Mine = Broken \/ Current.content = Broken)

(* Mutant: --overwrite also replaces a file that could be merged. *)
ProposedForced ==
    IF Whole \/ flags.overwrite THEN Current.content ELSE Merged(Current.path, Mine, Current.content)

Proposed == IF Whole THEN Current.content ELSE Merged(Current.path, Mine, Current.content)

(* Mutant: a command nobody attends asks, too. *)
VerdictAsking ==
    IF Whole
    THEN CASE flags.overwrite \/ batch = "accept" -> "overwritten"
           [] ~flags.overwrite /\ batch = "skip" -> "skipped"
           [] OTHER -> "asked"
    ELSE IF Proposed = Mine THEN "unchanged" ELSE "asked"

(* Mutant: the decision for all is forgotten. *)
VerdictForgetful ==
    CASE Whole /\ flags.overwrite -> "overwritten"
      [] Whole /\ ~flags.overwrite /\ ~flags.interactive -> "skipped"
      [] ~Whole /\ Proposed = Mine -> "unchanged"
      [] ~Whole /\ Proposed # Mine /\ ~flags.interactive -> "merged"
      [] OTHER -> "asked"

(* What becomes of the file; "asked" if the user is to say. *)
Verdict ==
    IF Whole
    THEN CASE flags.overwrite \/ batch = "accept" -> "overwritten"
           [] ~flags.overwrite /\ batch # "accept"
                 /\ (~flags.interactive \/ batch = "skip") -> "skipped"
           [] OTHER -> "asked"
    ELSE CASE Proposed = Mine -> "unchanged"
           [] Proposed # Mine /\ (~flags.interactive \/ batch = "accept") -> "merged"
           [] Proposed # Mine /\ flags.interactive /\ batch = "skip" -> "skipped"
           [] OTHER -> "asked"

NoDraft == [whole |-> FALSE, content |-> NoFile]

Touched(g) == IF g = "none" THEN "none" ELSE "dirty"

Writes(content, result) ==
    /\ files' = [files EXCEPT ![Current.path] = content]
    /\ git' = IF Mine = content THEN git ELSE Touched(git)
    /\ report' = [report EXCEPT ![Current.path] = result]
    /\ next' = next + 1

Leaves(result) ==
    /\ report' = [report EXCEPT ![Current.path] = result]
    /\ next' = next + 1
    /\ UNCHANGED <<files, git>>

-----------------------------------------------------------------------------
(* The command. *)

Init ==
    /\ files \in Projects
    /\ git \in {"none", "clean"}
    /\ flags = [overwrite |-> FALSE, interactive |-> FALSE]
    /\ phase = "idle" /\ next = 1 /\ batch = "none" /\ draft = NoDraft
    /\ report = [p \in Paths |-> ""]
    /\ applied = FALSE
    /\ left = [runs |-> MaxRuns, edits |-> MaxEdits]

Begins(overwrite, interactive) ==
    /\ phase \in {"idle", "failed"} /\ left.runs > 0
    /\ flags' = [overwrite |-> overwrite, interactive |-> interactive]
    /\ phase' = "git" /\ next' = 1 /\ batch' = "none" /\ draft' = NoDraft
    /\ report' = [p \in Paths |-> ""]
    /\ left' = [left EXCEPT !.runs = @ - 1]
    /\ UNCHANGED <<files, git, applied>>

(* check_git_clean. *)
GitCheck ==
    /\ phase = "git"
    /\ phase' = CASE git # "dirty" \/ flags.overwrite -> "render"
                  [] git = "dirty" /\ ~flags.overwrite /\ flags.interactive -> "confirm"
                  [] OTHER -> "failed"
    /\ UNCHANGED <<files, git, flags, next, batch, draft, report, applied, left>>

Proceed ==
    /\ phase = "confirm" /\ phase' = "render"
    /\ UNCHANGED <<files, git, flags, next, batch, draft, report, applied, left>>

(* The pack is found, its template rendered to memory. *)
Renders ==
    /\ phase = "render" /\ phase' = "apply"
    /\ UNCHANGED <<files, git, flags, next, batch, draft, report, applied, left>>

Turn == phase = "apply" /\ next <= Len(Rendered)

Creates ==
    /\ Turn /\ Mine = NoFile
    /\ Writes(Current.content, "created")
    /\ UNCHANGED <<flags, phase, batch, draft, applied, left>>

Clash == Turn /\ Mine # NoFile

Decides ==
    /\ Clash /\ ~Unmergeable
    /\ \/ Verdict \in {"overwritten", "merged"} /\ Writes(Proposed, Verdict)
       \/ Verdict \in {"skipped", "unchanged"} /\ Leaves(Verdict)
    /\ UNCHANGED <<flags, phase, batch, draft, applied, left>>

Prompts ==
    /\ Clash /\ ~Unmergeable /\ Verdict = "asked"
    /\ phase' = "ask" /\ draft' = [whole |-> Whole, content |-> Proposed]
    /\ UNCHANGED <<files, git, flags, next, batch, report, applied, left>>

(* A merge that fails ends the command. *)
MergeFails ==
    /\ Clash /\ Unmergeable /\ phase' = "failed"
    /\ UNCHANGED <<files, git, flags, next, batch, draft, report, applied, left>>

(* [a]ccept, [o]verwrite, and for all that remain. *)
Accepts(all) ==
    /\ phase = "ask"
    /\ Writes(draft.content, IF draft.whole THEN "overwritten" ELSE "merged")
    /\ batch' = IF all THEN "accept" ELSE batch
    /\ phase' = "apply" /\ draft' = NoDraft
    /\ UNCHANGED <<flags, applied, left>>

Skips(all) ==
    /\ phase = "ask"
    /\ Leaves("skipped")
    /\ batch' = IF all THEN "skip" ELSE batch
    /\ phase' = "apply" /\ draft' = NoDraft
    /\ UNCHANGED <<flags, applied, left>>

(* [e]dit: what the editor saves is not parsed again. *)
EditsDraft(content) ==
    /\ phase = "ask" /\ ~draft.whole /\ Fits(Current.path, content)
    /\ draft' = [draft EXCEPT !.content = content]
    /\ UNCHANGED <<files, git, flags, phase, next, batch, report, applied, left>>

(* record_applied_template, which needs a Cargo.toml. *)
Records ==
    /\ phase = "apply" /\ next > Len(Rendered)
    /\ IF files["Cargo.toml"] # NoFile
       THEN phase' = "idle" /\ applied' = TRUE /\ git' = IF applied THEN git ELSE Touched(git)
       ELSE phase' = "failed" /\ UNCHANGED <<applied, git>>
    /\ UNCHANGED <<files, flags, next, batch, draft, report, left>>

(* The command is killed, a write or the editor fails, "Proceed anyway?" is
   denied, the pack cannot be fetched or rendered. *)
Stops ==
    /\ phase \in {"confirm", "render", "apply", "ask"} /\ phase' = "failed"
    /\ UNCHANGED <<files, git, flags, next, batch, draft, report, applied, left>>

(* The user writes a file, between commands or while one waits for him. *)
UserWrites(e) ==
    /\ phase \in {"idle", "failed", "confirm", "ask"} /\ left.edits > 0
    /\ files[e.path] # e.content
    /\ files' = [files EXCEPT ![e.path] = e.content]
    /\ git' = Touched(git)
    /\ left' = [left EXCEPT !.edits = @ - 1]
    /\ UNCHANGED <<flags, phase, next, batch, draft, report, applied>>

(* git commit, between commands. *)
UserCommits ==
    /\ phase \in {"idle", "failed"} /\ git = "dirty" /\ git' = "clean"
    /\ UNCHANGED <<files, flags, phase, next, batch, draft, report, applied, left>>

Works == GitCheck \/ Renders \/ Creates \/ Decides \/ Prompts \/ MergeFails \/ Records

Answers ==
    \/ Proceed
    \/ \E all \in BOOLEAN : Accepts(all) \/ Skips(all)
    \/ \E content \in EditorSaves : EditsDraft(content)

Next ==
    \/ Works \/ Answers \/ Stops \/ UserCommits
    \/ \E o, i \in BOOLEAN : Begins(o, i)
    \/ \E e \in Edits : UserWrites(e)

(* The command's own steps follow each other; nothing makes the user answer. *)
Spec == Init /\ [][Next]_vars /\ WF_vars(Works)

===============================================================================
