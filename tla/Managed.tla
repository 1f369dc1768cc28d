-------------------------------- MODULE Managed -------------------------------
(***************************************************************************)
(* `bp-managed = true` in the manifest of a template: the row takes its    *)
(* version and features from the packs the generated project uses          *)
(* (registry.rs, resolve_bp_managed_content).                              *)
(*                                                                         *)
(* A template's manifest is                                                *)
(*   deps  : dependency table, the target-gated ones included -> name ->   *)
(*           [mark, crate, form, ver, feats, explicit, extra]              *)
(*   packs : the tables of [package.metadata.battery-pack], in order       *)
(* with mark "absent", "true" or "other" for the bp-managed key, crate the *)
(* real name of a renamed dependency, form the key that gives the version  *)
(* ("version", "workspace" or "none"), explicit when features are listed   *)
(* and extra for the keys beside. A pack is used by an entry               *)
(* [name, feats, keyed], keyed when it lists its features. A version is    *)
(* copied here and never compared, so its number stands for its text.      *)
(***************************************************************************)
EXTENDS Pack, Sequences, SequencesExt

CONSTANTS
    ShortName,   \* the full name of each pack -> its short name
    Workspace    \* packs of the crate root's workspace: full name -> [ver, spec]

DepRow ==
    [mark : {"absent", "true", "other"}, crate : STRING, form : {"version", "workspace", "none"},
     ver : Nat, feats : SUBSET CrateFeatures, explicit : BOOLEAN, extra : BOOLEAN]

UsedPack == [name : STRING, feats : SUBSET STRING, keyed : BOOLEAN]

IsManifest(m) ==
    /\ m \in [form : {"manifest"}, deps : {m.deps}, packs : Seq(UsedPack)]
    /\ \A t \in DOMAIN m.deps : m.deps[t] \in [DOMAIN m.deps[t] -> DepRow]

PackOK(pack) == pack \in [ver : Nat, spec : {pack.spec}] /\ WellFormed(pack.spec)

(* Packs were loaded by cargo. *)
ASSUME WorkspaceAssumption == \A p \in DOMAIN Workspace : PackOK(Workspace[p])

FullName(name) ==
    IF name \in DOMAIN ShortName THEN name ELSE CHOOSE p \in DOMAIN ShortName : ShortName[p] = name

-----------------------------------------------------------------------------
(* The scan. *)

Places(m) == UNION {{t} \X DOMAIN m.deps[t] : t \in DOMAIN m.deps}

Dep(m, at) == m.deps[at[1]][at[2]]

Marked(m) == {at \in Places(m) : Dep(m, at).mark # "absent"}

(* Conflicting and malformed markers. *)
Conflicting(m) ==
    \E at \in Marked(m) : Dep(m, at).mark = "other" \/ Dep(m, at).form # "none"

-----------------------------------------------------------------------------
(* The packs in use: those of the rendered battery-pack.toml, else those of
   the manifest's metadata. A state file that does not parse has none. *)

Feats(entry) == IF entry.keyed THEN entry.feats ELSE {"default"}

Active(m, state) ==
    CASE state.form = "none" -> m.packs
      [] state.form = "state" -> state.packs
      [] OTHER -> <<>>

NoPack == [ver |-> 0, spec |-> [crates |-> <<>>, features |-> <<>>, hidden |-> {}, exclusive |-> {}]]

(* A pack that is not in the workspace is fetched, if it can be. *)
Source(name, registry) ==
    LET pack == FullName(name)
    IN CASE pack \in DOMAIN Workspace -> Workspace[pack]
         [] pack \notin DOMAIN Workspace /\ pack \in DOMAIN registry -> registry[pack]
         [] OTHER -> NoPack

Extended(old, new) ==
    [x \in DOMAIN old \cup DOMAIN new |-> IF x \in DOMAIN new THEN new[x] ELSE old[x]]

Load(known, entry, registry) ==
    LET pack == Source(entry.name, registry)
    IN [ok |-> known.ok /\ pack # NoPack,
        crates |-> Extended(known.crates, ResolveForFeatures(pack.spec, Feats(entry))),
        vers |-> Extended(known.vers, [p \in {FullName(entry.name)} |-> pack.ver])]

(* The crates of all packs in use, a later pack's row over an earlier one's,
   and the versions of those packs and of the workspace's. *)
Known(m, state, registry) ==
    LET used == FoldLeft(LAMBDA known, entry : Load(known, entry, registry),
                         [ok |-> TRUE, crates |-> <<>>, vers |-> <<>>], Active(m, state))
    IN [used EXCEPT !.vers = Extended([p \in DOMAIN Workspace |-> Workspace[p].ver], @)]

-----------------------------------------------------------------------------
(* The rewrite. *)

Provided(dep, known) == dep.crate \in DOMAIN known.crates \cup DOMAIN known.vers

(* Listed features override the pack's; every other key stays. *)
Rewrite(dep, known) ==
    CASE dep.crate \in DOMAIN known.crates /\ ~dep.explicit ->
            [dep EXCEPT !.mark = "absent", !.form = "version",
                        !.ver = known.crates[dep.crate].ver,
                        !.feats = known.crates[dep.crate].feats,
                        !.explicit = known.crates[dep.crate].feats # {}]
      [] dep.crate \in DOMAIN known.crates /\ dep.explicit ->
            [dep EXCEPT !.mark = "absent", !.form = "version",
                        !.ver = known.crates[dep.crate].ver]
      [] OTHER ->
            [dep EXCEPT !.mark = "absent", !.form = "version", !.ver = known.vers[dep.crate]]

(* Mutant: target-gated tables are scanned and not rewritten. *)
RewriteRowsTop(m, known) ==
    [m EXCEPT !.deps =
        [t \in DOMAIN m.deps |-> [n \in DOMAIN m.deps[t] |->
            IF <<t, n>> \in Marked(m) /\ t \in Sections
            THEN Rewrite(m.deps[t][n], known) ELSE m.deps[t][n]]]]

RewriteRows(m, known) ==
    [m EXCEPT !.deps =
        [t \in DOMAIN m.deps |-> [n \in DOMAIN m.deps[t] |->
            IF <<t, n>> \in Marked(m) THEN Rewrite(m.deps[t][n], known) ELSE m.deps[t][n]]]]

Unresolved == [ok |-> FALSE]

(* A manifest without markers is returned as it is, and no pack is looked for. *)
ResolveManaged(m, state, registry) ==
    CASE Conflicting(m) -> Unresolved
      [] ~Conflicting(m) /\ Marked(m) = {} -> [ok |-> TRUE, content |-> m]
      [] OTHER ->
            LET known == Known(m, state, registry)
            IN IF known.ok /\ \A at \in Marked(m) : Provided(Dep(m, at), known)
               THEN [ok |-> TRUE, content |-> RewriteRows(m, known)]
               ELSE Unresolved

===============================================================================
