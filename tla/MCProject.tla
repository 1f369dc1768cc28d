------------------------------ MODULE MCProject -----------------------------
(***************************************************************************)
(* Two packs that share crates at different versions and pins, one of them *)
(* with optional crates behind two exclusive features and a second         *)
(* revision.                                                               *)
(***************************************************************************)
EXTENDS ProjectSafety

MCPackNumbers == {1, 2}
MCCrates == {"cc", "log", "net"}
MCFeatureNames == {"all", "async", "blocking", "default"}
MCCrateFeatures == {"derive", "std"}
MCBeforeDefault == {"all", "async", "blocking"}
MCPeers == {"log"}

Crate(ver, feats, kind, optional) ==
    [ver |-> ver, req |-> FALSE, feats |-> feats, kind |-> kind, optional |-> optional]

Pinned(crate) == [crate EXCEPT !.req = TRUE]

MCRef(form, name, feature) == [form |-> form, name |-> name, feature |-> feature]

Exclusive == {{"async", "blocking"}}

First ==
    [crates |-> [log |-> Crate(1, {}, "normal", FALSE), net |-> Crate(1, {}, "normal", TRUE)],
     features |-> [async |-> {MCRef("dep", "net", ""), MCRef("strong", "log", "std")},
                   blocking |-> {MCRef("strong", "net", "derive")}],
     hidden |-> {}, exclusive |-> Exclusive]

FirstNext ==
    [crates |-> [log |-> Crate(3, {"std"}, "normal", FALSE), cc |-> Pinned(Crate(2, {}, "build", FALSE)),
                 net |-> Pinned(Crate(1, {}, "dev", TRUE))],
     features |-> [async |-> {MCRef("dep", "net", "")}],
     hidden |-> {}, exclusive |-> {}]

Second ==
    [crates |-> [log |-> Crate(2, {"derive"}, "normal", FALSE), cc |-> Crate(1, {}, "build", FALSE),
                 net |-> Pinned(Crate(2, {}, "normal", FALSE))],
     features |-> <<>>, hidden |-> {}, exclusive |-> {}]

MCCatalog == <<<<First, FirstNext>>, <<Second>>>>

(* For a workspace: net alone is pinned, by either pack. *)
WorkspaceNext == [FirstNext EXCEPT !.crates = [log |-> @.log, net |-> @.net]]

WorkspaceCatalog == <<<<First, WorkspaceNext>>, <<Second>>>>

Flags(features, noDefault, all, crates) ==
    [features |-> features, noDefault |-> noDefault, all |-> all, crates |-> crates]

MCRequests ==
    {Flags({}, FALSE, FALSE, {}), Flags({"async"}, FALSE, FALSE, {}),
     Flags({"blocking"}, FALSE, FALSE, {}), Flags({"blocking"}, TRUE, FALSE, {}),
     Flags({}, FALSE, TRUE, {}), Flags({}, FALSE, FALSE, {"net"})}

FewerRequests ==
    {Flags({}, FALSE, FALSE, {}), Flags({"async"}, FALSE, FALSE, {}),
     Flags({"blocking"}, TRUE, FALSE, {}), Flags({}, FALSE, TRUE, {})}

Custom == [form |-> "version", ver |-> 4, req |-> FALSE, feats |-> {"std"}, extra |-> TRUE]
Caret == [form |-> "version", ver |-> 4, req |-> TRUE, feats |-> {}, extra |-> FALSE]
Git == [form |-> "version", ver |-> 0, req |-> FALSE, feats |-> {}, extra |-> TRUE]

At(section, crate, entry) == [section |-> section, crate |-> crate, entry |-> entry]

MCUserRows ==
    {At("dependencies", "log", Absent), At("dependencies", "log", Custom),
     At("dependencies", "net", Git), At("dev-dependencies", "log", Custom),
     At("build-dependencies", "cc", Caret)}

FewerUserRows == {At("dependencies", "log", Absent)}

MCRootRows == {[crate |-> "log", entry |-> Caret], [crate |-> "net", entry |-> Git]}

FewerRootRows == {[crate |-> "log", entry |-> Caret]}

NoRootRows == {}
=============================================================================
