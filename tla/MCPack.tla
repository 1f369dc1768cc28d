------------------------------- MODULE MCPack -------------------------------
(***************************************************************************)
(* Instance of PackExpansion over the small packs that cargo would load.   *)
(***************************************************************************)
EXTENDS PackExpansion

MCCrateFeatures == {"net", "derive"}
MCFeatureNames == {"all", "async", "default", "full"}
MCBeforeDefault == {"all", "async"}

Spec1(optional, kind) == [ver |-> 1, req |-> FALSE, feats |-> {}, kind |-> kind, optional |-> optional]

(* "tokio" is sometimes a base dependency; "serde" is optional or a dev one. *)
CrateTables ==
    {[tokio |-> Spec1(o, "normal"), serde |-> s] :
        o \in BOOLEAN, s \in {Spec1(TRUE, "normal"), Spec1(FALSE, "dev")}}

PackRef(form, name, feature) == [form |-> form, name |-> name, feature |-> feature]

Refs ==
    {PackRef("feature", "async", ""), PackRef("feature", "full", ""), PackRef("feature", "serde", ""),
     PackRef("dep", "tokio", ""), PackRef("strong", "tokio", "net"),
     PackRef("weak", "tokio", "net"), PackRef("weak", "serde", "derive")}

Locals == {r \in Refs : r.form = "feature"}

RefSets == {R \in SUBSET Refs : Cardinality(R) <= 2}

(* Cargo accepts only references to a local feature or a declared crate. *)
Declared(p) ==
    \A f \in DOMAIN p.features : \A r \in p.features[f] :
        IsLocal(p, r) \/ r.name \in DOMAIN p.crates

FeatureTables ==
    {t \in UNION {[D -> RefSets] : D \in {{"async", "full"}, {"async"}, {}}} :
        "full" \in DOMAIN t => Cardinality(t["full"]) <= 1}
        \cup {[f \in {"async", "default", "full"} |->
                  CASE f = "default" -> {d} [] f = "full" -> {g} [] OTHER -> {r, s}] :
              d, g \in Locals, r, s \in Refs}

MCPacks ==
    {p \in [crates : CrateTables, features : FeatureTables,
            hidden : {{}, {"serde"}}, exclusive : {{}}] : WellFormed(p) /\ Declared(p)}

=============================================================================
