--------------------------- MODULE PackExpansion ----------------------------
(***************************************************************************)
(* resolve_crates, and the cycle search of validate_features, as they are  *)
(* written: depth-first walks of a pack's feature references, called for   *)
(* the selections of PackSelection. A walk is a stack of frames, the calls *)
(* of add_feature_crates or dfs_feature that run, innermost last, each     *)
(* with the references its loop has yet to take; a step takes one. In      *)
(* which order a loop takes its references is left open.                   *)
(***************************************************************************)
EXTENDS PackSelection, Sequences

VARIABLES
    phase,   \* "idle", "resolve", "resolved", "search", "cyclic", "acyclic"
    todo,    \* the names the outermost loop has yet to take
    frames,  \* the calls that run: [feature, refs]
    result,  \* of resolve_crates: crate -> its Cargo features
    pending, \* pending_weak: <<crate, feature>>
    visited  \* the features dfs_feature has entered

locals == <<todo, frames, result, pending, visited>>

expansion == <<spec, active, phase, todo, frames, result, pending, visited>>

ASSUME OrderAssumption == "default" \notin BeforeDefault

Nothing == [c \in {} |-> {}]

ExpansionInit ==
    /\ SelectionInit
    /\ phase = "idle" /\ todo = {} /\ frames = <<>>
    /\ result = Nothing /\ pending = {} /\ visited = {}

(* Only between calls does the selection change. *)
Selects == phase = "idle" /\ SelectionNext /\ UNCHANGED <<phase, locals>>

-----------------------------------------------------------------------------
(* The calls in progress. *)

Running == frames # <<>>
Top == frames[Len(frames)]

Called(refs, f) == [feature |-> f, refs |-> refs]

(* The innermost loop takes reference r. *)
Past(r) == [frames EXCEPT ![Len(frames)].refs = @ \ {r}]

(* It has taken them all. *)
Returns ==
    /\ phase \in {"resolve", "search"} /\ Running /\ Top.refs = {}
    /\ frames' = SubSeq(frames, 1, Len(frames) - 1)
    /\ UNCHANGED <<spec, active, phase, todo, result, pending, visited>>

-----------------------------------------------------------------------------
(* resolve_crates. *)

ResolvesSelection ==
    /\ phase = "idle" /\ phase' = "resolve"
    /\ todo' = (IF active = {} THEN {"default"} ELSE active)
    /\ UNCHANGED <<spec, active, frames, result, pending, visited>>

(* The selection comes sorted, from a BTreeSet. *)
Comes(f) ==
    /\ f \in todo
    /\ f \notin BeforeDefault => todo \cap BeforeDefault = {}
    /\ f \notin BeforeDefault \cup {"default"} => "default" \notin todo

(* The default set of a pack without a `default` feature is inserted. *)
DefaultCrates ==
    [c \in DOMAIN result \cup NonOptional(spec) |->
        IF c \in NonOptional(spec) THEN spec.crates[c].feats ELSE result[c]]

TakesFeature(f) ==
    /\ phase = "resolve" /\ ~Running /\ Comes(f)
    /\ todo' = todo \ {f}
    /\ frames' = IF f \in DOMAIN spec.features THEN <<Called(spec.features[f], f)>> ELSE <<>>
    /\ result' = IF f = "default" /\ f \notin DOMAIN spec.features THEN DefaultCrates ELSE result
    /\ UNCHANGED <<spec, active, phase, pending, visited>>

TakesRef(r) == phase = "resolve" /\ Running /\ r \in Top.refs

(* The features being expanded; a name is removed on the way back. *)
Visiting == {frames[i].feature : i \in 2 .. Len(frames)}

(* add_feature_crates, a local feature. *)
Expands(r) ==
    /\ TakesRef(r) /\ IsLocal(spec, r)
    /\ frames' = IF r.name \in Visiting THEN Past(r)
                 ELSE Append(Past(r), Called(spec.features[r.name], r.name))
    /\ UNCHANGED <<spec, active, phase, todo, result, pending, visited>>

(* Mutant: a weak reference adds its feature to what is there at once. *)
DefersToTheLoop(r) ==
    /\ TakesRef(r) /\ r.form = "weak"
    /\ frames' = Past(r)
    /\ result' = [c \in DOMAIN result |-> result[c] \cup (IF c = r.name THEN {r.feature} ELSE {})]
    /\ UNCHANGED <<spec, active, phase, todo, pending, visited>>

(* A weak reference waits for the end. *)
Defers(r) ==
    /\ TakesRef(r) /\ r.form = "weak"
    /\ frames' = Past(r)
    /\ pending' = pending \cup {<<r.name, r.feature>>}
    /\ UNCHANGED <<spec, active, phase, todo, result, visited>>

Extra(r) == IF r.form = "strong" THEN {r.feature} ELSE {}

(* add_dep: a fresh insert clones the row, a repeat merges its features in. *)
AddDep(c, extra) ==
    IF c \notin DOMAIN spec.crates THEN result
    ELSE [x \in DOMAIN result \cup {c} |->
             (IF x \in DOMAIN result THEN result[x] ELSE {})
                \cup (IF x = c THEN spec.crates[c].feats \cup extra ELSE {})]

Adds(r) ==
    /\ TakesRef(r) /\ r.form # "weak" /\ ~IsLocal(spec, r)
    /\ frames' = Past(r)
    /\ result' = AddDep(r.name, Extra(r))
    /\ UNCHANGED <<spec, active, phase, todo, pending, visited>>

(* The base dependencies, then the weak references to what is there. *)
Based == [c \in DOMAIN result \cup Unconditional(spec) |->
             IF c \in DOMAIN result THEN result[c] ELSE spec.crates[c].feats]

Resolved ==
    /\ phase = "resolve" /\ ~Running /\ todo = {} /\ phase' = "resolved"
    /\ result' = [c \in DOMAIN Based |-> Based[c] \cup {w[2] : w \in {v \in pending : v[1] = c}}]
    /\ UNCHANGED <<spec, active, todo, frames, pending, visited>>

-----------------------------------------------------------------------------
(* validate_features: the cycle search. It looks at the pack alone, before
   anything is selected. *)
LocalRefs(p, f) == {r.name : r \in {q \in p.features[f] : IsLocal(p, q)}}

Validates ==
    /\ phase = "idle" /\ active = {} /\ phase' = "search"
    /\ todo' = DOMAIN spec.features
    /\ UNCHANGED <<spec, active, frames, result, pending, visited>>

Stack == {frames[i].feature : i \in DOMAIN frames}

Enters(node, rest) ==
    /\ visited' = visited \cup {node}
    /\ frames' = Append(rest, Called({r \in spec.features[node] : IsLocal(spec, r)}, node))
    /\ UNCHANGED phase

(* Mutant: the features entered are looked at before the path. *)
DfsFeatureVisitedFirst(node, rest) ==
    IF node \in visited THEN frames' = rest /\ UNCHANGED <<phase, visited>>
    ELSE IF node \in Stack THEN phase' = "cyclic" /\ UNCHANGED <<frames, visited>>
    ELSE Enters(node, rest)

(* dfs_feature, called from a loop that goes on with rest. *)
DfsFeature(node, rest) ==
    IF node \in Stack THEN phase' = "cyclic" /\ UNCHANGED <<frames, visited>>
    ELSE IF node \in visited THEN frames' = rest /\ UNCHANGED <<phase, visited>>
    ELSE Enters(node, rest)

StartsAt(f) ==
    /\ phase = "search" /\ ~Running /\ f \in todo
    /\ todo' = todo \ {f}
    /\ DfsFeature(f, frames)
    /\ UNCHANGED <<spec, active, result, pending>>

Follows(r) ==
    /\ phase = "search" /\ Running /\ r \in Top.refs
    /\ DfsFeature(r.name, Past(r))
    /\ UNCHANGED <<spec, active, todo, result, pending>>

Passes ==
    /\ phase = "search" /\ ~Running /\ todo = {} /\ phase' = "acyclic"
    /\ UNCHANGED <<spec, active, locals>>

-----------------------------------------------------------------------------
(* The caller has its answer. *)
Answers ==
    /\ phase \in {"resolved", "cyclic", "acyclic"} /\ phase' = "idle"
    /\ todo' = {} /\ frames' = <<>> /\ result' = Nothing /\ pending' = {} /\ visited' = {}
    /\ UNCHANGED <<spec, active>>

Steps ==
    \/ Returns
    \/ \E f \in todo : TakesFeature(f) \/ StartsAt(f)
    \/ Running /\ \E r \in Top.refs : Expands(r) \/ Defers(r) \/ Adds(r) \/ Follows(r)
    \/ Resolved \/ Passes \/ Answers

ExpansionNext == Selects \/ ResolvesSelection \/ Validates \/ Steps

ExpansionSpec == ExpansionInit /\ [][ExpansionNext]_expansion

-----------------------------------------------------------------------------
(* The depth-first walk with its path-based guard yields the closed form in
   every reference graph, cyclic ones included (resolve_crates also runs on
   packs that validation has not seen). *)
WalkAgrees ==
    phase = "resolved" =>
        result = [c \in Selected(spec, active) |-> Resolve(spec, active)[c].feats]

(* validate_features reports a cycle exactly when a feature can reach itself. *)
CycleSearchAgrees ==
    phase \in {"cyclic", "acyclic"} =>
        (phase = "cyclic" <=> \E f \in DOMAIN spec.features : f \in Expanded(spec, LocalRefs(spec, f)))
=============================================================================
