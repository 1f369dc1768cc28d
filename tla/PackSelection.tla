---------------------------- MODULE PackSelection ---------------------------
(***************************************************************************)
(* A pack whose features are switched on and off one at a time, as re-runs *)
(* of `cargo bp add <pack> -F <feature>` and edits in the picker do, and   *)
(* what the resolver promises of such a sequence.                          *)
(***************************************************************************)
EXTENDS Pack

CONSTANTS
    Packs,        \* the packs considered
    FeatureNames  \* the names a user may request, "all" included

VARIABLES
    spec,   \* the pack's spec, fixed along a behaviour
    active  \* the requested features

selection == <<spec, active>>

ASSUME PacksWellFormed == \A p \in Packs : WellFormed(p)

TypeOK == spec \in Packs /\ active \subseteq FeatureNames

SelectionInit == spec \in Packs /\ active = {}

Enable(f) ==
    /\ f \notin active
    /\ active' = active \cup {f}
    /\ UNCHANGED spec

Disable(f) ==
    /\ f \in active
    /\ active' = active \ {f}
    /\ UNCHANGED spec

SelectionNext == \E f \in FeatureNames : Enable(f) \/ Disable(f)

SelectionSpec == SelectionInit /\ [][SelectionNext]_selection

-----------------------------------------------------------------------------
(* Features are additive (format.features.additive): a selection that grows
   from a non-empty one loses no crate, and no dep feature either when the
   pack declares its own `default`. From the empty selection, which stands
   for the default set, the claim is not made. *)
Grows(p, A, B) ==
    /\ Selected(p, A) \subseteq Selected(p, B)
    /\ "default" \in DOMAIN p.features =>
          \A c \in Selected(p, A) : Resolve(p, A)[c].feats \subseteq Resolve(p, B)[c].feats

EnablingAdds ==
    [][active # {} /\ active \subseteq active' => Grows(spec, active, active')]_selection

(* --all-features is the widest selection: whatever some selection offers,
   all features offer too, with every dep feature that selection adds. *)
AllDominates ==
    \A c \in Offered(spec, active) :
        /\ c \in Offered(spec, {"all"})
        /\ ResolveForFeatures(spec, active)[c].feats
              \subseteq ResolveForFeatures(spec, {"all"})[c].feats
=============================================================================
