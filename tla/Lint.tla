-------------------------------- MODULE Lint --------------------------------
(***************************************************************************)
(* The categories of a pack, from the author to the user: the author edits *)
(* [package.metadata.battery-pack] and runs `cargo bp validate`; a user    *)
(* who adds the pack gets one section of the picker per category, with     *)
(* rows marked for the default set or for what his project has, and the    *)
(* confirmed marks are decoded by position.                                *)
(*                                                                         *)
(* The picker itself is its contract (module PickerContract).              *)
(*                                                                         *)
(* Besides what module Pack reads, a pack has                              *)
(*   categories  : category -> [radio, titled]                             *)
(*   featureMeta, depMeta, templates : item -> the categories it names     *)
(*   repository  : is the field set?                                       *)
(*   misnamed    : is the name, or the keyword, not that of a pack?        *)
(*   extraFiles  : are there Rust files beside src/lib.rs?                 *)
(*   libCode     : is there more than documentation in src/lib.rs?         *)
(*   astray      : the templates whose directory is missing or holds a     *)
(*                 Cargo.toml, which `cargo package` would leave out       *)
(***************************************************************************)
EXTENDS Pack, SequencesExt

CONSTANTS
    Manifests,      \* the packs an author starts from
    Declared,       \* what he may declare: pairs of a category and whether it takes one
    Described,      \* what he may describe: pairs of a kind and a name
    Labels,         \* the sets of categories he may put an item in
    Projects        \* the crates of the pack a user's project may have

VARIABLES
    pack,       \* the pack as it is on disk, then as it is published
    report,     \* what the last validation reported, "none" before one
    stage,      \* "writing", then "picking", then "picked" or "left"
    fresh,      \* has the user's project none of the pack's crates?
    given,      \* the sections of the picker
    marks,      \* the marked rows
    outcome,    \* how the picker returned
    installed,  \* the crates to install
    applied     \* the templates to apply

(* A manifest has these tables, each with finitely many names. *)
IsManifest(p) ==
    /\ p = [crates |-> p.crates, features |-> p.features, hidden |-> p.hidden,
            categories |-> p.categories, featureMeta |-> p.featureMeta, depMeta |-> p.depMeta,
            templates |-> p.templates, repository |-> p.repository, misnamed |-> p.misnamed,
            extraFiles |-> p.extraFiles, libCode |-> p.libCode, astray |-> p.astray]
    /\ \A names \in {DOMAIN p.crates, DOMAIN p.features, DOMAIN p.categories, DOMAIN p.templates} :
          IsFiniteSet(names)

ASSUME ManifestsAssumption == \A p \in Manifests : IsManifest(p)

vars == <<pack, report, stage, fresh, given, marks, outcome, installed, applied>>

picker == <<given, marks, outcome>>

Picker == INSTANCE PickerContract WITH Inputs <- {}

-----------------------------------------------------------------------------
(* items_in_category and its inputs *)

FeaturesIn(p, k) == {f \in DOMAIN p.featureMeta : k \in p.featureMeta[f]}
DepsIn(p, k) == {d \in DOMAIN p.depMeta : k \in p.depMeta[d]}
TemplatesIn(p, k) == {t \in DOMAIN p.templates : k \in p.templates[t]}

ItemsIn(p, k) == FeaturesIn(p, k) \cup DepsIn(p, k) \cup TemplatesIn(p, k)

(* Every category some item names. *)
Mentioned(p) ==
    UNION ({p.featureMeta[f] : f \in DOMAIN p.featureMeta}
              \cup {p.depMeta[d] : d \in DOMAIN p.depMeta}
              \cup {p.templates[t] : t \in DOMAIN p.templates})

-----------------------------------------------------------------------------
(* validate_spec, validate_categories, validate_on_disk *)

Resolves(p, r) ==
    \/ r.name \in DOMAIN p.crates
    \/ IsLocal(p, r)

(* The local features the `default` feature lists. *)
Defaulted(p) ==
    IF "default" \notin DOMAIN p.features THEN {}
    ELSE {r.name : r \in {q \in p.features["default"] : q.form = "feature"}}

(* Mutant: only three defaults of one category count as a conflict. *)
ClashesLate(p, k) ==
    p.categories[k].radio /\ Cardinality(FeaturesIn(p, k) \cap Defaulted(p)) > 2

(* Two features of an at-most-one category in `default`. *)
Clashes(p, k) ==
    p.categories[k].radio /\ Cardinality(FeaturesIn(p, k) \cap Defaulted(p)) > 1

SpecErrors(p) ==
    {rule \in {"crate", "grouping"} :
        CASE rule = "crate" -> p.misnamed
          [] rule = "grouping" -> \E f \in DOMAIN p.features : \E r \in p.features[f] : ~Resolves(p, r)}

(* An optional dependency counts as a feature of its name. *)
CategoryErrors(p) ==
    {rule \in {"defined", "conflict", "unknown-feature", "unknown-dep"} :
        CASE rule = "defined" -> ~(Mentioned(p) \subseteq DOMAIN p.categories)
          [] rule = "conflict" -> \E k \in DOMAIN p.categories : Clashes(p, k)
          [] rule = "unknown-feature" ->
                \E f \in DOMAIN p.featureMeta \ DOMAIN p.features :
                    f \notin DOMAIN p.crates \/ ~p.crates[f].optional
          [] rule = "unknown-dep" -> ~(DOMAIN p.depMeta \subseteq DOMAIN p.crates)}

DiskErrors(p) ==
    {rule \in {"no-code", "templates"} :
        CASE rule = "no-code" -> p.extraFiles
          [] rule = "templates" -> DOMAIN p.templates \cap p.astray # {}}

Errors(p) == SpecErrors(p) \cup CategoryErrors(p) \cup DiskErrors(p)

Warnings(p) ==
    {rule \in {"repository", "lib", "empty", "pick-missing-title"} :
        CASE rule = "repository" -> ~p.repository
          [] rule = "lib" -> p.libCode
          [] rule = "empty" -> ~(DOMAIN p.categories \subseteq Mentioned(p))
          [] rule = "pick-missing-title" ->
                \E k \in DOMAIN p.categories : p.categories[k].radio /\ ~p.categories[k].titled}

(* validate_battery_pack_cmd: errors fail; with none or only warnings the
   pack is packaged and its templates are built (module Template). *)
Validate ==
    /\ stage = "writing"
    /\ report' = IF Errors(pack) # {} THEN "errors"
                 ELSE IF Warnings(pack) # {} THEN "warnings" ELSE "clean"
    /\ UNCHANGED <<pack, stage, fresh, picker, installed, applied>>

-----------------------------------------------------------------------------
(* The author's edits. The last report is of the manifest before them. *)

Edits(p) ==
    /\ stage = "writing"
    /\ pack' = p
    /\ report' = "none"
    /\ UNCHANGED <<stage, fresh, picker, installed, applied>>

With(meta, item, value) ==
    [i \in DOMAIN meta \cup {item} |-> IF i = item THEN value ELSE meta[i]]

Drop(meta, item) == [i \in DOMAIN meta \ {item} |-> meta[i]]

Declares(k, radio) ==
    Edits([pack EXCEPT !.categories = With(@, k, [radio |-> radio, titled |-> radio])])

Withdraws(k) == k \in DOMAIN pack.categories /\ Edits([pack EXCEPT !.categories = Drop(@, k)])

DescribesFeature(item, ks) == Edits([pack EXCEPT !.featureMeta = With(@, item, ks)])
DescribesDep(item, ks) == Edits([pack EXCEPT !.depMeta = With(@, item, ks)])
DescribesTemplate(item, ks) == Edits([pack EXCEPT !.templates[item] = ks])

Describes(item, ks) ==
    \/ <<"feature", item>> \in Described /\ DescribesFeature(item, ks)
    \/ <<"crate", item>> \in Described /\ DescribesDep(item, ks)
    \/ item \in DOMAIN pack.templates /\ DescribesTemplate(item, ks)

-----------------------------------------------------------------------------
(* pick_crates_interactive: the sections *)

PickRow(kind, name, checked) ==
    [kind |-> kind, name |-> name, checked |-> checked, template |-> kind = "template"]

(* What is on from the start: the default set, or the crates of the project. *)
Initially(p, pre) == IF pre = {} THEN Selected(p, {"default"}) ELSE pre

Members(p, f) == {r.name : r \in p.features[f]} \ p.hidden

FeatureChecked(p, pre, f) ==
    Members(p, f) # {} /\ Members(p, f) \subseteq Initially(p, pre)

FeatureRows(p, pre, names) ==
    {PickRow("feature", f, FeatureChecked(p, pre, f)) :
        f \in names \cap (DOMAIN p.features \ {"default"})}

CrateRows(p, pre, names) ==
    {PickRow("crate", c, c \in Initially(p, pre)) : c \in names \cap Visible(p)}

TemplateRows(p, names) == {PickRow("template", t, FALSE) : t \in names \cap DOMAIN p.templates}

(* Mutant: every section is one of checkboxes. *)
PickerSectionAny(radio, rows) == [radio |-> FALSE, collapsed |-> FALSE, rows |-> SetToSeq(rows)]

PickerSection(radio, rows) == [radio |-> radio, collapsed |-> FALSE, rows |-> SetToSeq(rows)]

CategoryRows(p, pre, k) ==
    FeatureRows(p, pre, FeaturesIn(p, k)) \cup CrateRows(p, pre, DepsIn(p, k))
        \cup TemplateRows(p, TemplatesIn(p, k))

(* What no declared category has goes to a section of its kind. *)
Rest(p, names, In(_, _)) == names \ UNION {In(p, k) : k \in DOMAIN p.categories}

GenericRows(p, pre) ==
    <<FeatureRows(p, pre, Rest(p, DOMAIN p.features, FeaturesIn)),
      CrateRows(p, pre, Rest(p, DOMAIN p.crates, DepsIn)),
      TemplateRows(p, Rest(p, DOMAIN p.templates, TemplatesIn))>>

(* Sections without a row are left out. *)
Filled(rows) == IF rows = {} THEN <<>> ELSE <<PickerSection(FALSE, rows)>>

PickerSections(p, pre) ==
    LET names == SetToSeq({k \in DOMAIN p.categories : CategoryRows(p, pre, k) # {}})
        rest == GenericRows(p, pre)
    IN  [i \in DOMAIN names |->
            PickerSection(p.categories[names[i]].radio, CategoryRows(p, pre, names[i]))]
           \o Filled(rest[1]) \o Filled(rest[2]) \o Filled(rest[3])

-----------------------------------------------------------------------------
(* The rows a picker opens with a mark on. *)
Ticked(sections) ==
    {m \in UNION {{s} \X DOMAIN sections[s].rows : s \in DOMAIN sections} :
        sections[m[1]].rows[m[2]].checked}

(* A user adds the pack. Packs need not have passed, or been given to,
   validation: nothing but the author's diligence asks for it. *)
Opens(pre) ==
    /\ stage = "writing"
    /\ Visible(pack) # {}
    /\ stage' = "picking"
    /\ fresh' = (pre = {})
    /\ given' = PickerSections(pack, pre)
    /\ marks' = Ticked(given')
    /\ outcome' = Picker!Open
    /\ UNCHANGED <<pack, report, installed, applied>>

MarksRows ==
    /\ stage = "picking"
    /\ \E s \in DOMAIN given : Picker!Mark(s)
    /\ UNCHANGED <<pack, report, stage, fresh, installed, applied>>

(* The names of a kind that are marked, in whichever section. *)
Picked(kind) ==
    {given[m[1]].rows[m[2]].name :
        m \in {n \in marks' : given[n[1]].rows[n[2]].kind = kind}}

Confirms ==
    /\ stage = "picking"
    /\ Picker!Confirm
    /\ stage' = "picked"
    /\ installed' = DOMAIN PickedCrates(pack, Picked("feature"), Picked("crate"))
    /\ applied' = Picked("template")
    /\ UNCHANGED <<pack, report, fresh>>

Leaves ==
    /\ stage = "picking"
    /\ Picker!Cancel
    /\ stage' = "left"
    /\ UNCHANGED <<pack, report, fresh, installed, applied>>

-----------------------------------------------------------------------------
Init ==
    /\ pack \in Manifests
    /\ report = "none" /\ stage = "writing" /\ fresh = TRUE
    /\ given = <<>> /\ marks = {} /\ outcome = Picker!Open
    /\ installed = {} /\ applied = {}

Next ==
    \/ Validate
    \/ \E d \in Declared : Declares(d[1], d[2]) \/ Withdraws(d[1])
    \/ \E item \in {d[2] : d \in Described}, ks \in Labels : Describes(item, ks)
    \/ \E pre \in Projects : Opens(pre \cap DOMAIN pack.crates)
    \/ MarksRows \/ Confirms \/ Leaves

LintSpec == Init /\ [][Next]_vars
=============================================================================
