----------------------------- MODULE LintSafety -----------------------------
(***************************************************************************)
(* What validation is worth to the user who opens the picker.              *)
(***************************************************************************)
EXTENDS Lint

Passed == report \in {"warnings", "clean"}

Radio(p) == {k \in DOMAIN p.categories : p.categories[k].radio}

(* The rule on conflicts looks at the features `default` lists. That is enough
   for a pack whose `default` is nothing but features, whose at-most-one
   categories hold features that bring crates no other reference brings in,
   directly or through another feature. *)
Own(p, f) ==
    \E c \in Members(p, f) \cap DOMAIN p.crates :
        /\ c \notin Unconditional(p)
        /\ \A g \in DOMAIN p.features \ {f} : \A r \in p.features[g] : r.name # c
        /\ \A g \in DOMAIN p.features \ {"default"} : \A r \in p.features[g] : r.name # f

Telling(p) ==
    /\ "default" \in DOMAIN p.features
    /\ \A r \in p.features["default"] : IsLocal(p, r)
    /\ \A k \in Radio(p) :
          /\ DepsIn(p, k) = {}
          /\ \A f \in FeaturesIn(p, k) \cap DOMAIN p.features : Own(p, f)

Untouched == marks = Ticked(given)

(* format.features.exclusive-conflict: a validated pack opens in a new project
   with no conflict the user did not make, so Enter is an answer. *)
OpensWithoutConflict ==
    stage = "picking" /\ Passed /\ fresh /\ Telling(pack) /\ Untouched =>
        Picker!NoConflict(marks)

(* feature_checked takes every name a feature lists for a crate. That is right
   for a pack whose features, where they bear a crate's name or a hidden one,
   list nothing else, like those cargo makes of optional crates. *)
Namesakes(p) ==
    \A f \in DOMAIN p.features \cap (DOMAIN p.crates \cup p.hidden) :
        \A r \in p.features[f] : r.name = f

(* The picker of an untouched project is the default set: confirmed as it
   opened, it installs exactly the visible crates of a plain add, and no
   template; whatever was marked, an item of one category only is never
   picked along with another item of that category if it takes one. *)
DefaultMarks == UNCHANGED marks /\ Untouched /\ fresh /\ Namesakes(pack)

TakesDefaults ==
    /\ installed' \cap Visible(pack) = Selected(pack, {"default"}) \cap Visible(pack)
    /\ applied' = {}

Only(p, k, item) == \A l \in DOMAIN p.categories : item \in ItemsIn(p, l) => l = k

OneEach ==
    \A k \in Radio(pack) :
        LET chosen(kind, items) == {kind} \X {i \in items \cap Picked(kind) : Only(pack, k, i)} IN
        Cardinality(chosen("feature", FeaturesIn(pack, k)) \cup chosen("crate", DepsIn(pack, k))
                        \cup chosen("template", TemplatesIn(pack, k))) <= 1

EnterAnswers == [][Confirms => (DefaultMarks => TakesDefaults) /\ OneEach]_vars
=============================================================================
