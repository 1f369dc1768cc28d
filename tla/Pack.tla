-------------------------------- MODULE Pack --------------------------------
(***************************************************************************)
(* A battery pack as bphelper-manifest reads it, and what a selection of   *)
(* its features resolves to: BatteryPackSpec::resolve_crates and           *)
(* resolve_for_features, the crate filter behind add, sync, status and     *)
(* bp-managed templates.                                                   *)
(*                                                                         *)
(* A pack is a record                                                      *)
(*   crates    : crate name -> [ver, req, feats, kind, optional]           *)
(*   features  : feature name -> set of feature references                 *)
(*   hidden    : the crate names its `hidden` globs match                  *)
(*   exclusive : the at-most-one categories, each the set of its items     *)
(* and nothing else of the manifest matters to the resolver.               *)
(***************************************************************************)
EXTENDS Rows

CONSTANT
    BeforeDefault   \* the feature names a BTreeSet<String> yields before "default"

Kinds == {"normal", "dev", "build"}

(* A crate of the pack: CrateSpec. Its version is a requirement, never empty,
   less the caret that cargo puts before a plain one (package_to_spec): req is
   any other, "=1.2", "~1.2" or ">=1, <2". *)
CrateSpec ==
    [ver : Nat \ {0}, req : BOOLEAN, feats : SUBSET CrateFeatures, kind : Kinds,
     optional : BOOLEAN]

-----------------------------------------------------------------------------
(* Feature references: [form, name, feature] with form "feature" for `foo`,
   "dep" for `dep:foo`, "strong" for `foo/bar` and "weak" for `foo?/bar`;
   name is FeatureRef::dep_name and feature the `bar`, "" without one. *)

(* A bare `foo` names a local feature when one exists, else a dependency. *)
IsLocal(p, r) == r.form = "feature" /\ r.name \in DOMAIN p.features

Closed(p, F) ==
    \A f \in F : \A r \in p.features[f] : IsLocal(p, r) => r.name \in F

(* The features add_feature_crates visits from F: the least set that holds F
   and every local feature its members refer to. *)
Expanded(p, F) ==
    {f \in DOMAIN p.features :
        \A G \in SUBSET DOMAIN p.features : F \subseteq G /\ Closed(p, G) => f \in G}

RefsOf(p, F) == UNION {p.features[f] : f \in Expanded(p, F)}

(* Crates the references activate: every form but the weak one. *)
Activated(p, refs) ==
    {c \in DOMAIN p.crates :
        \E r \in refs : r.name = c /\ r.form # "weak" /\ ~IsLocal(p, r)}

(* Dep features that the references of the given form add to crate c. *)
Augments(refs, form, c) ==
    {r.feature : r \in {q \in refs : q.form = form /\ q.name = c}}

-----------------------------------------------------------------------------
(* resolve_crates *)

(* Names some feature mentions on the dep side, weak mentions included. *)
Featured(p) == {r.name : r \in UNION {p.features[f] : f \in DOMAIN p.features}}

NonOptional(p) == {c \in DOMAIN p.crates : ~p.crates[c].optional}

(* What the resolver needs of a pack that cargo has loaded: typed rows, known
   dep features, and only `foo/bar` naming a crate that is not optional. *)
WellFormed(p) ==
    /\ p.crates \in [DOMAIN p.crates -> CrateSpec]
    /\ \A f \in DOMAIN p.features : \A r \in p.features[f] :
          /\ r.form \in {"strong", "weak"} => r.feature \in CrateFeatures
          /\ r.form = "strong" \/ r.name \notin NonOptional(p)

Visible(p) == DOMAIN p.crates \ p.hidden

(* Base dependencies, included whatever is selected. *)
Unconditional(p) ==
    {c \in Visible(p) : \/ p.crates[c].kind # "normal"
                        \/ c \in NonOptional(p) \ Featured(p)}

(* An empty selection stands for the default set; unknown names are ignored. *)
Requested(p, A) == (IF A = {} THEN {"default"} ELSE A) \cap DOMAIN p.features

(* Mutant: only a lone "default" is the default set. *)
TakesNonOptionalAlone(p, A) ==
    /\ "default" \notin DOMAIN p.features
    /\ A \in {{}, {"default"}}

(* The default set of a pack without a `default` feature. *)
TakesNonOptional(p, A) ==
    /\ "default" \notin DOMAIN p.features
    /\ A = {} \/ "default" \in A

Selected(p, A) ==
    Activated(p, RefsOf(p, Requested(p, A)))
        \cup (IF TakesNonOptional(p, A) THEN NonOptional(p) ELSE {})
        \cup Unconditional(p)

(* Taking the default set of a pack without a `default` feature INSERTS the
   plain row of each non-optional crate, over what the features iterated
   before "default" had added to it. *)
Surviving(p, A, c) ==
    IF TakesNonOptional(p, A) /\ c \in NonOptional(p)
    THEN Requested(p, A) \ BeforeDefault
    ELSE Requested(p, A)

Resolve(p, A) ==
    [c \in Selected(p, A) |->
        [p.crates[c] EXCEPT !.feats =
            @ \cup Augments(RefsOf(p, Surviving(p, A, c)), "strong", c)
              \cup Augments(RefsOf(p, Requested(p, A)), "weak", c)]]

-----------------------------------------------------------------------------
(* resolve_for_features: what every command but a fresh add reads. The set
   of active features holds the name "all" for ActiveFeatures::All. *)

IsAll(A) == "all" \in A

(* Mutant: --all-features stands for the default set. *)
NamesOfDefault(p, A) == IF IsAll(A) THEN {"default"} ELSE A

Names(p, A) == IF IsAll(A) THEN DOMAIN p.features ELSE A

(* Optional crates no feature mentions: their implicit features were stripped
   when the manifest was parsed. *)
Unmentioned(p) == (DOMAIN p.crates \ NonOptional(p)) \ Featured(p)

Offered(p, A) ==
    (Selected(p, Names(p, A)) \cup (IF IsAll(A) THEN Unmentioned(p) ELSE {}))
        \ p.hidden

ResolveForFeatures(p, A) ==
    LET resolved == Resolve(p, Names(p, A)) IN
    [c \in Offered(p, A) |->
        IF c \in DOMAIN resolved THEN resolved[c] ELSE p.crates[c]]

-----------------------------------------------------------------------------
(* Selections made by flag or in the picker. *)

HasMeaningfulChoices(p) ==
    \/ DOMAIN p.features \ {"default"} # {}
    \/ Cardinality(DOMAIN p.crates) > 3

ExclusiveSiblings(p, a, b) ==
    a # b /\ \E items \in p.exclusive : {a, b} \subseteq items

AtMostOneOfEach(p, items) ==
    \A a, b \in items : ~ExclusiveSiblings(p, a, b)

(* The crates a confirmed picker installs: the ticked features through the
   resolver, then the ticked rows of visible crates. *)
PickedCrates(p, feats, rows) ==
    LET resolved == IF feats = {} THEN <<>> ELSE Resolve(p, feats) IN
    [c \in DOMAIN resolved \cup (rows \cap Visible(p)) |->
        IF c \in DOMAIN resolved THEN resolved[c] ELSE p.crates[c]]

(* The features recorded as active after a pick: those whose visible members
   are all installed, whether or not the user ticked them. *)
FullySelected(p, installed) ==
    {f \in DOMAIN p.features :
        {r.name : r \in p.features[f]} \ p.hidden \subseteq installed}
=============================================================================
