------------------------------ MODULE MergeSafety -----------------------------
(***************************************************************************)
(* What applying a template owes the user.                                 *)
(***************************************************************************)
EXTENDS Merge

Strategies == {"toml", "yaml", "plain"}

Results == {"", "created", "merged", "skipped", "overwritten", "unchanged"}

(* Types: the shapes of the state, prompts only in an interactive command, a
   draft only at a prompt, and a turn only while files remain. *)
TypeOK ==
    /\ DOMAIN files = Paths
    /\ git \in {"none", "clean", "dirty"}
    /\ flags \in [overwrite : BOOLEAN, interactive : BOOLEAN]
    /\ phase \in Phases
    /\ next \in 1..(Len(Rendered) + 1)
    /\ batch \in {"none", "accept", "skip"}
    /\ (phase \in {"ask", "confirm"} \/ batch # "none") => flags.interactive
    /\ phase = "ask" => next <= Len(Rendered)
    /\ phase \notin {"ask", "failed"} => draft = NoDraft
    /\ report \in [Paths -> Results]
    /\ applied \in BOOLEAN
    /\ left \in [runs : 0..MaxRuns, edits : 0..MaxEdits]

-----------------------------------------------------------------------------

KeepsRow(old, new) ==
    Present(old) =>
        /\ new.form = old.form /\ new.extra = old.extra
        /\ old.feats \subseteq new.feats
        /\ new.ver >= old.ver \/ old.req \/ new.req

KeepsTree(old, new) == \A p \in DOMAIN old : p \in DOMAIN new /\ new[p] = old[p]

(* jobs, on and permissions that are empty may be filled. *)
KeepsValues(old, new) ==
    \A p \in DOMAIN old :
        \/ p \in DOMAIN new /\ new[p] = old[p]
        \/ /\ old[p] \in {Null, EmptyMap} /\ \A i \in 1..Len(p) : p[i] \in DeepKeys
           /\ Holds(new, p)

KeepsDocs(old, new) ==
    Len(old) <= Len(new) /\ \A i \in DOMAIN old : KeepsValues(old[i], new[i])

(* What new keeps of old, its documents after the first aside. *)
Keeps(old, new) ==
    CASE old.form = "none" -> TRUE
      [] old.form = "toml" ->
            /\ new.form = "toml"
            /\ \A s \in Sections, c \in Crates : KeepsRow(old.deps[s][c], new.deps[s][c])
            /\ KeepsTree(old.tree, new.tree)
      [] old.form = "yaml" ->
            new.form = "yaml" /\ KeepsDocs(First(old.docs), new.docs)
      [] OTHER -> new = old

(* The user has changed the draft, or the file under it. *)
Reworked ==
    \/ draft.whole \/ Mine.form \notin {"toml", "yaml"}
    \/ draft.content # Merged(Current.path, Mine, Current.content)

(* No key of a TOML or YAML file or its value (an empty jobs, on or permissions
   aside, which may be filled), no version, feature or row of a dependency
   and no other file is lost, whatever the flags, the answers to earlier
   prompts and the user's edits, but by the user's own hand: his editor, an
   answer to a prompt over a whole file or over a draft that is not the merge
   of the file as it is now, --overwrite or [O]verwrite all of a plain file
   (resolve_plain_conflict, resolve_structured_merge). *)
NothingLostUnasked ==
    [][\A p \in Paths :
          \/ Keeps(files[p], files'[p])
          \/ left'.edits < left.edits
          \/ phase = "ask" /\ p = Current.path /\ Reworked
          \/ phase = "apply" /\ p = Current.path /\ Whole
                /\ (flags.overwrite \/ batch = "accept")]_vars

(* An answer for all remaining conflicts is final: no prompt opens any more,
   and after [S]kip all no file that exists changes, --overwrite aside. *)
BatchIsFinal ==
    [][phase = "apply" /\ batch # "none" =>
          /\ phase' # "ask" /\ batch' = batch
          /\ (batch = "skip" /\ ~flags.overwrite) =>
                \A p \in Paths : files[p] # NoFile => files'[p] = files[p]]_vars

-----------------------------------------------------------------------------
(* A command nobody attends, from the file at k on. *)

Unattended(old, path, content, overwrite) ==
    CASE old = NoFile -> content
      [] old # NoFile /\ (Strategy[path] = "plain" \/ old = Binary) ->
            IF overwrite THEN content ELSE old
      [] OTHER -> Merged(path, old, content)

Stuck(old, path, content) ==
    /\ old # NoFile /\ Strategy[path] # "plain" /\ old # Binary
    /\ old = Broken \/ content = Broken

(* But for how a YAML file is printed. *)
Unprint(content) ==
    IF content.form = "yaml" THEN [content EXCEPT !.printed = TRUE] ELSE content

(* The files the command gets to, and what it leaves: each is met as it was. *)
Reached(from, k) ==
    {i \in k..Len(Rendered) : \A j \in k..i :
        ~Stuck(from[Rendered[j].path], Rendered[j].path, Rendered[j].content)}

AtPath(p, from, k) == {i \in Reached(from, k) : Rendered[i].path = p}

Outcome(from, k, overwrite) ==
    [p \in Paths |->
        IF AtPath(p, from, k) = {} THEN from[p]
        ELSE LET i == CHOOSE i \in AtPath(p, from, k) : TRUE
             IN Unattended(from[p], p, Rendered[i].content, overwrite)]

(* A template that renders no path twice, no TOML or YAML that does not parse
   and no second YAML document. *)
Orderly ==
    /\ \A i, j \in 1..Len(Rendered) : Rendered[i].path = Rendered[j].path => i = j
    /\ \A i \in 1..Len(Rendered) :
          /\ Rendered[i].content # Broken
          /\ Rendered[i].content.form = "yaml" => Len(Rendered[i].content.docs) <= 1

(* Wherever a command nobody attends may die, applying the template again from
   the start gets as far as it would have and ends with the files it would have
   left (apply_rendered_files): a file is merged, overwritten or skipped the
   second time to what it is. Only a workflow that was new is printed anew. *)
RerunConverges ==
    Orderly /\ phase = "apply" /\ ~flags.interactive =>
        LET again == Outcome(files, 1, flags.overwrite)
            once == Outcome(files, next, flags.overwrite)
        IN /\ Reached(files, next) = Reached(files, 1) \ 1..(next - 1)
           /\ 1..(next - 1) \subseteq Reached(files, 1)
           /\ \A p \in Paths : Unprint(again[p]) = Unprint(once[p])

(* A command that needs no more answers, because it must not ask or was told
   what to do with all that remains, comes to an end (the loop of
   apply_rendered_files). *)
Ends ==
    (phase \in {"render", "apply"} /\ (~flags.interactive \/ batch # "none"))
        ~> phase \in {"idle", "failed"}

===============================================================================
