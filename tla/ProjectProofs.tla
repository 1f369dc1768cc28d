---------------------------- MODULE ProjectProofs ---------------------------
(***************************************************************************)
(* Proofs about the commands of module Project, for every set of packs,    *)
(* every catalog, and every number of commands and edits.                  *)
(***************************************************************************)
EXTENDS ProjectSafety, ListProofs

CrateMap(m) == DOMAIN m \subseteq Crates /\ m \in [DOMAIN m -> CrateSpec]

Known(spec) ==
    /\ WellFormed(spec)
    /\ DOMAIN spec.crates \subseteq Crates
    /\ DOMAIN spec.features \subseteq FeatureNames

-----------------------------------------------------------------------------
(* What resolution returns: rows of the pack, with dep features that exist. *)

(* References of a well-formed pack add known Cargo features. *)
LEMMA AugmentsType ==
    ASSUME NEW p, WellFormed(p), NEW F, NEW form \in {"strong", "weak"}, NEW c
    PROVE  Augments(RefsOf(p, F), form, c) \subseteq CrateFeatures
BY DEF WellFormed, RefsOf, Expanded, Augments

(* Resolution yields rows for crates of the pack. *)
LEMMA ResolveType ==
    ASSUME NEW p, WellFormed(p), NEW A
    PROVE  /\ Selected(p, A) \subseteq DOMAIN p.crates
           /\ Resolve(p, A) \in [Selected(p, A) -> CrateSpec]
<1>1. Selected(p, A) \subseteq DOMAIN p.crates
  BY DEF Selected, Activated, NonOptional, Unconditional, Visible
<1>2. ASSUME NEW c \in Selected(p, A)
      PROVE  Resolve(p, A)[c] \in CrateSpec
  <2> DEFINE strong == Augments(RefsOf(p, Surviving(p, A, c)), "strong", c)
             weak == Augments(RefsOf(p, Requested(p, A)), "weak", c)
  <2>1. p.crates[c] \in CrateSpec
    BY <1>1 DEF WellFormed
  <2>2. strong \subseteq CrateFeatures /\ weak \subseteq CrateFeatures
    BY AugmentsType
  <2>3. Resolve(p, A)[c] = [p.crates[c] EXCEPT !.feats = @ \cup strong \cup weak]
    BY DEF Resolve
  <2> HIDE DEF strong, weak
  <2>4. QED
    BY <2>1, <2>2, <2>3 DEF CrateSpec
<1>3. QED
  BY <1>1, <1>2 DEF Resolve

(* So does resolution for a stored selection, *)
LEMMA OfferedType ==
    ASSUME NEW p, Known(p), NEW A
    PROVE  CrateMap(ResolveForFeatures(p, A))
<1> DEFINE resolved == Resolve(p, Names(p, A))
<1>1. /\ DOMAIN resolved = Selected(p, Names(p, A))
      /\ DOMAIN resolved \subseteq DOMAIN p.crates
      /\ resolved \in [DOMAIN resolved -> CrateSpec]
  BY ResolveType DEF Known, Resolve
<1>2. Offered(p, A) \subseteq DOMAIN p.crates
  BY <1>1 DEF Offered, Unmentioned
<1> HIDE DEF resolved
<1>3. \A c \in Offered(p, A) :
         (IF c \in DOMAIN resolved THEN resolved[c] ELSE p.crates[c]) \in CrateSpec
  BY <1>1, <1>2 DEF Known, WellFormed
<1>4. ResolveForFeatures(p, A) =
         [c \in Offered(p, A) |-> IF c \in DOMAIN resolved THEN resolved[c] ELSE p.crates[c]]
  BY DEF ResolveForFeatures, resolved
<1>5. QED
  BY <1>2, <1>3, <1>4 DEF CrateMap, Known

(* and decoding what the picker confirmed. *)
LEMMA PickedType ==
    ASSUME NEW p, Known(p), NEW feats, NEW rows
    PROVE  CrateMap(PickedCrates(p, feats, rows))
<1> DEFINE resolved == IF feats = {} THEN <<>> ELSE Resolve(p, feats)
           D == DOMAIN resolved \cup (rows \cap Visible(p))
<1>1. DOMAIN resolved \subseteq DOMAIN p.crates /\ \A c \in DOMAIN resolved : resolved[c] \in CrateSpec
  <2>1. CASE feats = {}
    <3>1. DOMAIN resolved = {}
      BY <2>1
    <3>2. QED
      BY <3>1
  <2>2. CASE feats # {}
    BY <2>2, ResolveType DEF Known, Resolve
  <2>3. QED
    BY <2>1, <2>2
<1>2. PickedCrates(p, feats, rows) =
         [c \in D |-> IF c \in DOMAIN resolved THEN resolved[c] ELSE p.crates[c]]
  BY DEF PickedCrates
<1> HIDE DEF resolved
<1>3. D \subseteq DOMAIN p.crates
  BY <1>1 DEF Visible
<1>4. \A c \in D : (IF c \in DOMAIN resolved THEN resolved[c] ELSE p.crates[c]) \in CrateSpec
  BY <1>1, <1>3 DEF Known, WellFormed
<1>5. QED
  BY <1>2, <1>3, <1>4 DEF CrateMap, Known

Within(m, spec) == DOMAIN m \subseteq DOMAIN spec.crates

(* Nothing resolved from a pack lies outside it. *)
LEMMA ResolvedWithin ==
    ASSUME NEW spec, Known(spec)
    PROVE  /\ \A A : Within(Resolve(spec, A), spec) /\ Within(ResolveForFeatures(spec, A), spec)
           /\ \A feats, rows : Within(PickedCrates(spec, feats, rows), spec)
           /\ \A r, stored : Within(Chosen(spec, r, stored).crates, spec)
<1>1. \A A : Within(Resolve(spec, A), spec)
  BY ResolveType DEF Known, Resolve, Within
<1>2. \A A : Within(ResolveForFeatures(spec, A), spec)
  BY ResolveType DEF Known, Within, ResolveForFeatures, Offered, Unmentioned
<1>3. ASSUME NEW feats, NEW rows
      PROVE  Within(PickedCrates(spec, feats, rows), spec)
  <2> DEFINE resolved == IF feats = {} THEN <<>> ELSE Resolve(spec, feats)
  <2>1. DOMAIN resolved \subseteq DOMAIN spec.crates
    <3>1. CASE feats = {}
      <4>1. DOMAIN resolved = {}
        BY <3>1
      <4>2. QED
        BY <4>1
    <3>2. CASE feats # {}
      BY <1>1, <3>2 DEF Within
    <3>3. QED
      BY <3>1, <3>2
  <2>2. PickedCrates(spec, feats, rows) =
           [c \in DOMAIN resolved \cup (rows \cap Visible(spec)) |->
               IF c \in DOMAIN resolved THEN resolved[c] ELSE spec.crates[c]]
    BY DEF PickedCrates
  <2> HIDE DEF resolved
  <2>3. QED
    BY <2>1, <2>2 DEF Within, Visible
<1>4. ASSUME NEW r, NEW stored
      PROVE  Within(Chosen(spec, r, stored).crates, spec)
  <2> DEFINE features == Merged(spec, r, stored) \cup (IF r.noDefault THEN {} ELSE {"default"})
             named == [c \in r.crates \cap DOMAIN spec.crates |-> spec.crates[c]]
  <2>1. Within(named, spec)
    BY DEF Within
  <2>2. Within(<<>>, spec)
    <3>1. DOMAIN <<>> = {}
      OBVIOUS
    <3>2. QED
      BY <3>1 DEF Within
  <2>3. \/ Chosen(spec, r, stored) = [active |-> {}, crates |-> named]
        \/ Chosen(spec, r, stored) = [active |-> {"all"}, crates |-> ResolveForFeatures(spec, {"all"})]
        \/ Chosen(spec, r, stored) = [active |-> {}, crates |-> <<>>]
        \/ Chosen(spec, r, stored) = [active |-> features, crates |-> Resolve(spec, features)]
    BY DEF Chosen
  <2> HIDE DEF features, named
  <2>4. QED
    BY <1>1, <1>2, <2>1, <2>2, <2>3
<1>5. QED
  BY <1>1, <1>2, <1>3, <1>4

(* Resolving leaves a crate the version that the pack gives it. *)
LEMMA ResolvedRow ==
    ASSUME NEW p, Known(p), NEW A, NEW c \in DOMAIN ResolveForFeatures(p, A)
    PROVE  /\ c \in DOMAIN p.crates
           /\ Text(ResolveForFeatures(p, A)[c]) = Text(p.crates[c])
<1> DEFINE names == Names(p, A)
           strong == Augments(RefsOf(p, Surviving(p, names, c)), "strong", c)
           weak == Augments(RefsOf(p, Requested(p, names)), "weak", c)
           new == [p.crates[c] EXCEPT !.feats = @ \cup strong \cup weak]
<1>1. c \in DOMAIN p.crates
  BY ResolvedWithin DEF Within
<1>2. p.crates[c] \in CrateSpec
  BY <1>1 DEF Known, WellFormed
<1>3. Text(new) = Text(p.crates[c])
  <2> HIDE DEF strong, weak
  <2>1. new.ver = p.crates[c].ver /\ new.req = p.crates[c].req
    BY <1>2 DEF CrateSpec
  <2>2. QED
    BY <2>1 DEF Text
<1>4. ResolveForFeatures(p, A)[c] = new \/ ResolveForFeatures(p, A)[c] = p.crates[c]
  <2> HIDE DEF new
  <2>1. c \in DOMAIN Resolve(p, names) => Resolve(p, names)[c] = new
    BY DEF Resolve, new
  <2>2. QED
    BY <2>1 DEF ResolveForFeatures
<1> HIDE DEF new
<1>5. QED
  BY <1>1, <1>3, <1>4

-----------------------------------------------------------------------------
(* Tables stay tables, whatever is written into them. *)

(* Writing or syncing a row gives a row. *)
LEMMA EntryTypes ==
    /\ Absent \in Entry /\ Ref \in Entry
    /\ \A spec \in CrateSpec : AddEntry(spec) \in Entry
    /\ \A spec \in CrateSpec, e \in Entry : SyncEntry(e, spec) \in Entry
<1>1. Absent \in Entry /\ Ref \in Entry
  BY DEF Absent, Ref, Row, Entry, Present
<1>2. \A spec \in CrateSpec : AddEntry(spec) \in Entry
  BY DEF AddEntry, Row, Entry, CrateSpec, Present
<1>3. ASSUME NEW spec \in CrateSpec, NEW e \in Entry
      PROVE  SyncEntry(e, spec) \in Entry
  <2>1. CASE ~Present(e)
    BY <1>2, <2>1 DEF SyncEntry
  <2>2. CASE Present(e)
    <3>1. Upgrades(e, spec) \in BOOLEAN
      BY DEF Upgrades
    <3>2. QED
      BY <2>2, <3>1 DEF SyncEntry, Entry, CrateSpec, Present
  <2>3. QED
    BY <2>1, <2>2
<1>4. QED
  BY <1>1, <1>2, <1>3

(* The three ways a command edits the sections keep their shape, *)
LEMMA DepsTypes ==
    ASSUME NEW deps \in Tables, NEW m, CrateMap(m)
    PROVE  /\ AddDeps(deps, m) \in Tables
           /\ SyncDeps(deps, m) \in Tables
           /\ DropDeps(deps, m) \in Tables
<1>1. ASSUME NEW s \in Sections, NEW c \in Crates
      PROVE  /\ deps[s][c] \in Entry
             /\ In(s, c, m) => m[c] \in CrateSpec
  BY DEF Tables, CrateMap, In
<1>2. AddDeps(deps, m) \in Tables
  BY <1>1, EntryTypes DEF AddDeps, Tables
<1>3. SyncDeps(deps, m) \in Tables
  BY <1>1, EntryTypes DEF SyncDeps, Tables
<1>4. DropDeps(deps, m) \in Tables
  BY <1>1, EntryTypes DEF DropDeps, Tables
<1>5. QED
  BY <1>2, <1>3, <1>4

(* and so do those that edit the workspace table. *)
LEMMA RootTypes ==
    ASSUME NEW root \in [Crates -> Entry], NEW m, CrateMap(m), NEW names
    PROVE  /\ AddRoot(root, m) \in [Crates -> Entry]
           /\ SyncRoot(root, m) \in [Crates -> Entry]
           /\ Without(root, names) \in [Crates -> Entry]
<1>1. \A c \in DOMAIN m : m[c] \in CrateSpec
  BY DEF CrateMap
<1>2. QED
  BY <1>1, EntryTypes DEF AddRoot, SyncRoot, Without

(* A stored selection is never empty. *)
LEMMA StateTypes ==
    /\ NoState \in SavedState /\ NoState.active # {}
    /\ \A active \in SUBSET FeatureNames : \A m : CrateMap(m) =>
          StateOf(active, m) \in SavedState /\ StateOf(active, m).active # {}
<1>1. NoState \in SavedState /\ NoState.active # {}
  BY NamesAssumption DEF NoState, SavedState
<1>2. ASSUME NEW active \in SUBSET FeatureNames, NEW m, CrateMap(m)
      PROVE  StateOf(active, m) \in SavedState /\ StateOf(active, m).active # {}
  <2>1. Stored(active) \in SUBSET FeatureNames /\ Stored(active) # {}
    BY NamesAssumption DEF Stored, IsAll
  <2>2. QED
    BY <1>2, <2>1 DEF StateOf, SavedState, CrateMap
<1>3. QED
  BY <1>1, <1>2

-----------------------------------------------------------------------------
(* The drafts a command computes. *)

(* No command is a well-formed command. *)
LEMMA IdleOK == CommandOK(Idle)
<1>1. NoRows \in [Crates -> Entry] /\ [s \in Sections |-> NoRows] \in Tables
  BY EntryTypes DEF NoRows, Tables
<1>2. Idle.crates \in [DOMAIN Idle.crates -> CrateSpec] /\ DOMAIN Idle.crates = {}
  BY DEF Idle
<1>3. Idle \in Command(DOMAIN Idle.crates)
  BY <1>1, <1>2, StateTypes DEF Idle, Command
<1>4. QED
  BY <1>2, <1>3, StateTypes DEF CommandOK, Phases, Idle

(* What add drafts is well-formed, *)
LEMMA AddDraftOK ==
    ASSUME NEW d \in Disk, NEW p \in Packs, NEW spec, Known(spec), NEW choice,
           CrateMap(choice.crates), choice.active \subseteq FeatureNames
    PROVE  CommandOK(AddDraft(d, p, spec, choice))
<1> DEFINE gone == Deselected(spec, d.saved[p].managed, choice.crates)
           c == [Idle EXCEPT
                    !.op = "add", !.pack = p,
                    !.pc = IF Workspace THEN "root" ELSE "manifest",
                    !.crates = choice.crates, !.active = choice.active,
                    !.deps = DropDeps(AddDeps(d.deps, choice.crates), gone),
                    !.packs = d.packs,
                    !.root = Without(AddRoot(d.root, choice.crates), DOMAIN gone),
                    !.entry = StateOf(choice.active, choice.crates)]
<1>1. CrateMap(gone)
  BY DEF Deselected, CrateMap, Known, WellFormed
<1>2. d.deps \in Tables /\ d.root \in [Crates -> Entry] /\ d.packs \subseteq Packs
  BY DEF Disk
<1>3. DropDeps(AddDeps(d.deps, choice.crates), gone) \in Tables
  BY <1>1, <1>2, DepsTypes
<1>4. Without(AddRoot(d.root, choice.crates), DOMAIN gone) \in [Crates -> Entry]
  BY <1>1, <1>2, RootTypes
<1>5. /\ StateOf(choice.active, choice.crates) \in SavedState
      /\ StateOf(choice.active, choice.crates).active # {}
  BY StateTypes
<1>6. c.crates = choice.crates
  BY DEF Idle
<1>7. choice.crates \in [DOMAIN choice.crates -> CrateSpec] /\ DOMAIN choice.crates \subseteq Crates
  BY DEF CrateMap
<1>8. c \in Command(DOMAIN c.crates)
  BY <1>2, <1>3, <1>4, <1>5, <1>6, <1>7 DEF Idle, Command
<1>9. CommandOK(c)
  BY <1>5, <1>6, <1>7, <1>8 DEF CommandOK, Phases, Idle
<1>10. QED
  BY <1>9, IdleOK DEF AddDraft

(* and so is what rm drafts, asked or not. *)
LEMMA RmDraftOK ==
    ASSUME NEW deps \in Tables, NEW packs \in SUBSET Packs, NEW root \in [Crates -> Entry],
           NEW saved, NEW p \in Packs, NEW dropping \in BOOLEAN, NEW stale \in BOOLEAN
    PROVE  /\ CommandOK(RmDraft(deps, packs, root, saved, p, dropping))
           /\ CommandOK([RmDraft(deps, packs, root, saved, p, dropping) EXCEPT !.stale = stale])
<1> DEFINE safe == IF dropping THEN Safe(saved, packs, p) ELSE {}
           draft == [s \in Sections |->
                        IF s = "build-dependencies" THEN deps[s] ELSE Without(deps[s], safe)]
           c == RmDraft(deps, packs, root, saved, p, dropping)
<1>1. draft \in Tables
  <2>1. \A s \in Sections : deps[s] \in [Crates -> Entry]
    BY DEF Tables
  <2> HIDE DEF safe
  <2>2. \A s \in Sections : Without(deps[s], safe) \in [Crates -> Entry]
    BY <2>1, EntryTypes DEF Without
  <2>3. QED
    BY <2>1, <2>2 DEF Tables
<1>2. Without(root, safe) \in [Crates -> Entry]
  BY EntryTypes DEF Without
<1>3. c = [Idle EXCEPT
              !.op = "rm", !.pack = p, !.dropping = dropping,
              !.pc = IF dropping /\ Workspace THEN "root" ELSE "manifest",
              !.deps = draft, !.packs = packs \ {p}, !.root = Without(root, safe)]
  BY DEF RmDraft
<1> HIDE DEF safe, draft, c
<1>4. Idle \in Command({}) /\ Idle.crates = <<>> /\ DOMAIN Idle.crates = {}
  BY IdleOK DEF CommandOK, Idle
<1>5. /\ c \in Command({}) /\ c.crates = Idle.crates
      /\ c.op = "rm" /\ c.pack = p /\ c.pc \in {"root", "manifest"} /\ c.entry = Idle.entry
  BY <1>1, <1>2, <1>3, <1>4 DEF Command
<1>6. DOMAIN c.crates = {} /\ c.entry.active # {}
  BY <1>4, <1>5, StateTypes DEF Idle
<1>7. CommandOK(c)
  BY <1>5, <1>6 DEF CommandOK, Phases
<1>8. CommandOK([c EXCEPT !.stale = stale])
  <2> DEFINE e == [c EXCEPT !.stale = stale]
  <2>1. /\ e \in Command({}) /\ e.crates = c.crates /\ e.entry = c.entry
        /\ e.op = "rm" /\ e.pack = p /\ e.pc \in {"root", "manifest"}
    BY <1>5 DEF Command
  <2> HIDE DEF e
  <2>2. CommandOK(e)
    BY <1>6, <2>1 DEF CommandOK, Phases
  <2>3. QED
    BY <2>2 DEF e
<1>9. QED
  BY <1>7, <1>8 DEF c

(* Flags and the stored selection decide on crates of the pack. *)
LEMMA ChosenType ==
    ASSUME NEW spec, Known(spec), NEW r \in Requests, NEW stored \in SavedState
    PROVE  /\ CrateMap(Chosen(spec, r, stored).crates)
           /\ Chosen(spec, r, stored).active \subseteq FeatureNames
<1> DEFINE features == Merged(spec, r, stored) \cup (IF r.noDefault THEN {} ELSE {"default"})
           named == [c \in r.crates \cap DOMAIN spec.crates |-> spec.crates[c]]
<1>1. features \subseteq FeatureNames
  BY RequestsAssumption, NamesAssumption DEF Merged, SavedState
<1>2. CrateMap(named)
  BY DEF CrateMap, Known, WellFormed
<1>3. CrateMap(ResolveForFeatures(spec, {"all"}))
  BY OfferedType
<1>4. CrateMap(Resolve(spec, features))
  <2>1. /\ DOMAIN Resolve(spec, features) = Selected(spec, features)
        /\ Selected(spec, features) \subseteq DOMAIN spec.crates
        /\ Resolve(spec, features) \in [Selected(spec, features) -> CrateSpec]
    BY ResolveType DEF Known, Resolve
  <2>2. QED
    BY <2>1 DEF CrateMap, Known
<1>5. CrateMap(<<>>)
  <2>1. DOMAIN <<>> = {}
    OBVIOUS
  <2>2. QED
    BY <2>1 DEF CrateMap
<1>6. \/ Chosen(spec, r, stored) = [active |-> {}, crates |-> named]
      \/ Chosen(spec, r, stored) = [active |-> {"all"}, crates |-> ResolveForFeatures(spec, {"all"})]
      \/ Chosen(spec, r, stored) = [active |-> {}, crates |-> <<>>]
      \/ Chosen(spec, r, stored) = [active |-> features, crates |-> Resolve(spec, features)]
  BY DEF Chosen
<1> HIDE DEF features, named
<1>7. QED
  BY <1>1, <1>2, <1>3, <1>4, <1>5, <1>6, NamesAssumption

(* The preflight prunes managed crates and nothing else. *)
LEMMA PreflightOK ==
    ASSUME NEW d \in Disk, \A p \in Packs : d.saved[p].active # {}
    PROVE  /\ Preflight(d) \in Disk
           /\ Preflight(d).deps = d.deps /\ Preflight(d).packs = d.packs
           /\ Preflight(d).root = d.root
           /\ \A p \in Packs : Preflight(d).saved[p].active = d.saved[p].active
<1> DEFINE pruned == [p \in Packs |-> [d.saved[p] EXCEPT !.managed = @ \cap Declared(d)]]
<1>1. pruned \in [Packs -> SavedState] /\ \A p \in Packs : pruned[p].active = d.saved[p].active
  BY DEF Disk, SavedState
<1>2. Preflight(d) = d \/ Preflight(d) = [d EXCEPT !.saved = pruned]
  BY DEF Preflight
<1> HIDE DEF pruned
<1>3. QED
  BY <1>1, <1>2 DEF Disk

(* The spec of a pack is one of the catalog's. *)
LEMMA SpecKnown ==
    ASSUME TypeOK, NEW p \in Packs
    PROVE  Known(Spec(p))
BY CatalogAssumption DEF TypeOK, Spec, Known

(* The default set is a choice of crates. *)
LEMMA DefaultChoice ==
    ASSUME NEW spec, Known(spec)
    PROVE  CrateMap(Resolve(spec, {"default"}))
<1>1. /\ DOMAIN Resolve(spec, {"default"}) = Selected(spec, {"default"})
      /\ Selected(spec, {"default"}) \subseteq DOMAIN spec.crates
      /\ Resolve(spec, {"default"}) \in [Selected(spec, {"default"}) -> CrateSpec]
  BY ResolveType DEF Known, Resolve
<1>2. QED
  BY <1>1 DEF CrateMap, Known

-----------------------------------------------------------------------------
(* Every action keeps the shape of the files and of the command. *)

(* Starting a command keeps the types, *)
LEMMA BeginsOK ==
    ASSUME TypeOK, CommandBegins
    PROVE  TypeOK'
<1>1. /\ disk \in Disk /\ \A p \in Packs : disk.saved[p].active # {}
      /\ left \in [commands : Nat, edits : Nat]
      /\ disk.deps \in Tables /\ disk.packs \subseteq Packs /\ disk.root \in [Crates -> Entry]
      /\ disk.saved \in [Packs -> SavedState]
  BY DEF TypeOK, Disk
<1>2. Begins /\ disk' = Preflight(disk)
  BY DEF CommandBegins, OtherCommand, Add, AddInteractive, Sync, Rm, RmAsk
<1>3. rev' = rev /\ cmd = Idle /\ left' \in [commands : Nat, edits : Nat]
  BY <1>1, <1>2 DEF Begins
<1>4. disk' \in Disk /\ \A p \in Packs : disk'.saved[p].active # {}
  BY <1>1, <1>2, PreflightOK
<1>5. CommandOK(cmd)'
  <2>1. CASE OtherCommand
    BY <2>1 DEF OtherCommand, TypeOK, CommandOK, Phases
  <2>2. CASE \E p \in Packs, r \in Requests : Add(p, r)
    <3>1. PICK p \in Packs, r \in Requests : Add(p, r)
      BY <2>2
    <3>2. CommandOK(AddDraft(disk', p, Spec(p), Chosen(Spec(p), r, disk.saved[p])))
      BY <1>1, <1>4, AddDraftOK, SpecKnown, ChosenType
    <3>3. QED
      BY <3>1, <3>2 DEF Add, CommandOK, Phases
  <2>3. CASE \E p \in Packs, r \in Requests : AddInteractive(p, r)
    <3>1. PICK p \in Packs, r \in Requests : AddInteractive(p, r)
      BY <2>3
    <3>2. CASE cmd' = [Idle EXCEPT !.op = "add", !.pc = "picker", !.pack = p]
      <4> DEFINE c == [Idle EXCEPT !.op = "add", !.pc = "picker", !.pack = p]
      <4>1. CommandOK(c)
        BY IdleOK DEF CommandOK, Command, Phases, Idle
      <4>2. QED
        BY <3>2, <4>1 DEF CommandOK, Phases
    <3>3. CASE cmd' = AddDraft(disk', p, Spec(p),
                               [active |-> {"default"}, crates |-> Resolve(Spec(p), {"default"})])
      <4> DEFINE choice == [active |-> {"default"}, crates |-> Resolve(Spec(p), {"default"})]
      <4>1. CrateMap(choice.crates) /\ choice.active \subseteq FeatureNames
        BY SpecKnown, DefaultChoice, NamesAssumption
      <4>2. CommandOK(AddDraft(disk', p, Spec(p), choice))
        BY <1>4, <4>1, AddDraftOK, SpecKnown
      <4>3. QED
        BY <3>3, <4>2 DEF CommandOK, Phases
    <3>4. QED
      BY <3>1, <3>2, <3>3 DEF AddInteractive
  <2>4. CASE \E local \in BOOLEAN, path \in Packs \cup {0} : Sync(local, path)
    <3>1. PICK local \in BOOLEAN, path \in Packs \cup {0} : Sync(local, path)
      BY <2>4
    <3> DEFINE c == [Idle EXCEPT !.op = "sync", !.pc = "load", !.local = local, !.path = path,
                                 !.todo = disk.packs, !.deps = disk.deps, !.packs = disk.packs]
    <3>2. CommandOK(c)
      BY <1>1, IdleOK DEF CommandOK, Command, Phases, Idle
    <3>3. cmd' = c
      BY <3>1 DEF Sync
    <3>4. QED
      BY <3>2, <3>3 DEF CommandOK, Phases
  <2>5. CASE \E p \in Packs : RmAsk(p)
    <3>1. PICK p \in Packs : RmAsk(p)
      BY <2>5
    <3> DEFINE c == [Idle EXCEPT !.op = "rm", !.pc = "prompt", !.pack = p,
                                 !.deps = disk.deps, !.packs = disk.packs]
    <3>2. CommandOK(c)
      BY <1>1, IdleOK DEF CommandOK, Command, Phases, Idle
    <3>3. cmd' = c
      BY <3>1 DEF RmAsk
    <3>4. QED
      BY <3>2, <3>3 DEF CommandOK, Phases
  <2>6. CASE \E p \in Packs, dropping \in BOOLEAN : Rm(p, dropping)
    <3>1. PICK p \in Packs, dropping \in BOOLEAN : Rm(p, dropping)
      BY <2>6
    <3>2. (dropping /\ disk.saved[p].known) \in BOOLEAN
      OBVIOUS
    <3>3. CommandOK(RmDraft(disk.deps, disk.packs, disk.root, disk'.saved, p,
                            dropping /\ disk.saved[p].known))
      BY <1>1, <3>2, RmDraftOK
    <3>4. QED
      BY <3>1, <3>3 DEF Rm, CommandOK, Phases
  <2>7. QED
    BY <2>1, <2>2, <2>3, <2>4, <2>5, <2>6 DEF CommandBegins
<1>6. QED
  BY <1>3, <1>4, <1>5 DEF TypeOK

(* so does each write, *)
LEMMA WritesOK ==
    ASSUME TypeOK, WriteRoot \/ WriteManifest \/ WriteState
    PROVE  TypeOK'
<1>1. /\ disk \in Disk /\ CommandOK(cmd) /\ cmd \in Command(DOMAIN cmd.crates)
      /\ rev' = rev /\ left' = left
  BY DEF TypeOK, CommandOK, WriteRoot, WriteManifest, WriteState
<1>2. cmd.pc # "idle" /\ cmd.op \in {"add", "sync", "rm"}
  BY <1>1 DEF CommandOK, Phases, WriteRoot, WriteManifest, WriteState
<1>3. CASE WriteRoot
  <2>1. disk' \in Disk /\ \A p \in Packs : disk'.saved[p].active # {}
    BY <1>1, <1>3 DEF WriteRoot, TypeOK, Disk, Command
  <2> DEFINE c == [cmd EXCEPT !.pc = "manifest"]
  <2>2. CommandOK(c)
    BY <1>1, <1>2, <1>3 DEF WriteRoot, CommandOK, Command, Phases
  <2>3. CommandOK(cmd)'
    BY <1>3, <2>2 DEF WriteRoot, CommandOK, Phases
  <2>4. QED
    BY <1>1, <2>1, <2>3 DEF TypeOK
<1>4. CASE WriteManifest
  <2>1. disk' \in Disk /\ \A p \in Packs : disk'.saved[p].active # {}
    BY <1>1, <1>4 DEF WriteManifest, TypeOK, Disk, Command
  <2> DEFINE c == IF cmd.op = "sync" THEN Idle ELSE [cmd EXCEPT !.pc = "state"]
  <2>2. CommandOK(c)
    BY <1>1, <1>2, <1>4, IdleOK DEF WriteManifest, CommandOK, Command, Phases
  <2>3. CommandOK(cmd)'
    BY <1>4, <2>2 DEF WriteManifest, CommandOK, Phases
  <2>4. QED
    BY <1>1, <2>1, <2>3 DEF TypeOK
<1>5. CASE WriteState
  <2>1. cmd.pack \in Packs /\ cmd.entry \in SavedState /\ cmd.entry.active # {}
    BY <1>1, <1>5 DEF WriteState, CommandOK, Command, Phases
  <2>2. disk' \in Disk /\ \A p \in Packs : disk'.saved[p].active # {}
    BY <1>1, <1>5, <2>1 DEF WriteState, TypeOK, Disk
  <2> DEFINE next(pc) == [cmd EXCEPT !.pc = pc]
  <2>3. cmd.op = "sync" => CommandOK(next("manifest")) /\ CommandOK(next("load"))
    BY <1>1, <2>1 DEF CommandOK, Command, Phases
  <2>4. \/ cmd' = Idle
        \/ cmd.op = "sync" /\ (cmd' = next("manifest") \/ cmd' = next("load"))
    BY <1>5 DEF WriteState
  <2>5. CommandOK(cmd')
    BY <2>3, <2>4, IdleOK
  <2>6. CommandOK(cmd)'
    BY <2>5 DEF CommandOK, Phases
  <2>7. QED
    BY <1>1, <2>2, <2>6 DEF TypeOK
<1>6. QED
  BY <1>3, <1>4, <1>5

(* each step of a running command, *)
LEMMA StepsOK ==
    ASSUME TypeOK, CommandSteps
    PROVE  TypeOK'
<1>1. /\ disk \in Disk /\ CommandOK(cmd) /\ cmd \in Command(DOMAIN cmd.crates)
      /\ disk.deps \in Tables /\ disk.packs \subseteq Packs /\ disk.root \in [Crates -> Entry]
      /\ disk.saved \in [Packs -> SavedState]
  BY DEF TypeOK, CommandOK, Disk
<1>2. CASE WriteRoot \/ WriteManifest \/ WriteState
  BY <1>2, WritesOK
<1>3. CASE \E feats, rows : Pick(feats, rows)
  <2>1. PICK feats, rows : Pick(feats, rows)
    BY <1>3
  <2> DEFINE p == cmd.pack
             crates == PickedCrates(Spec(p), feats, rows)
             choice == [active |-> FullySelected(Spec(p), DOMAIN crates), crates |-> crates]
  <2>2. p \in Packs /\ Known(Spec(p))
    BY <1>1, <2>1, SpecKnown DEF Pick, CommandOK, Phases
  <2>3. CrateMap(crates)
    BY <2>2, PickedType
  <2>4. choice.active \subseteq FeatureNames
    <3> HIDE DEF crates
    <3>1. FullySelected(Spec(p), DOMAIN crates) \subseteq DOMAIN Spec(p).features
      BY DEF FullySelected
    <3>2. QED
      BY <2>2, <3>1 DEF Known
  <2>5. cmd' = AddDraft(disk, p, Spec(p), choice) /\ UNCHANGED <<disk, rev, left>>
    BY <2>1 DEF Pick
  <2> HIDE DEF crates
  <2>6. CommandOK(cmd')
    BY <1>1, <2>2, <2>3, <2>4, <2>5, AddDraftOK
  <2>7. QED
    BY <2>5, <2>6 DEF TypeOK, CommandOK, Phases
<1>4. CASE SyncPack
  <2>1. PICK p \in cmd.todo :
           LET active == disk.saved[p].active
               expected == ResolveForFeatures(Loaded(p), active)
           IN  /\ cmd.pc = "load"
               /\ disk' = [disk EXCEPT !.root = SyncRoot(@, expected)]
               /\ cmd' = [cmd EXCEPT !.pc = "state", !.pack = p, !.todo = @ \ {p},
                                     !.deps = SyncDeps(@, expected),
                                     !.entry = StateOf(active, expected)]
               /\ UNCHANGED <<rev, left>>
    BY <1>4 DEF SyncPack
  <2> DEFINE active == disk.saved[p].active
             expected == ResolveForFeatures(Loaded(p), active)
             c == [cmd EXCEPT !.pc = "state", !.pack = p, !.todo = @ \ {p},
                              !.deps = SyncDeps(@, expected), !.entry = StateOf(active, expected)]
  <2>2. p \in Packs /\ cmd.op = "sync" /\ cmd.path \in Packs \cup {0}
    BY <1>1, <2>1 DEF CommandOK, Command, Phases
  <2>3. CrateMap(expected)
    <3>1. Known(Loaded(p))
      BY <2>2, SpecKnown DEF Loaded
    <3>2. QED
      BY <3>1, OfferedType
  <2>4. active \in SUBSET FeatureNames
    BY <1>1, <2>2 DEF SavedState
  <2> HIDE DEF active, expected
  <2>5. /\ SyncDeps(cmd.deps, expected) \in Tables
        /\ SyncRoot(disk.root, expected) \in [Crates -> Entry]
        /\ StateOf(active, expected) \in SavedState /\ StateOf(active, expected).active # {}
    <3>1. cmd.deps \in Tables
      BY <1>1 DEF Command
    <3>2. QED
      BY <1>1, <2>3, <2>4, <3>1, DepsTypes, RootTypes, StateTypes
  <2>6. disk' \in Disk /\ \A q \in Packs : disk'.saved[q].active # {}
    BY <2>1, <2>5 DEF TypeOK, Disk, active, expected
  <2>7. CommandOK(c)
    BY <1>1, <2>2, <2>5 DEF CommandOK, Command, Phases
  <2>8. CommandOK(cmd')
    BY <2>1, <2>7 DEF active, expected
  <2>9. QED
    BY <2>1, <2>6, <2>8 DEF TypeOK, CommandOK, Phases
<1>5. CASE SyncFails \/ Quit
  BY <1>5, IdleOK DEF SyncFails, Quit, TypeOK, CommandOK, Phases
<1>6. CASE \E yes \in BOOLEAN : RmAnswer(yes)
  <2>1. PICK yes \in BOOLEAN : RmAnswer(yes)
    BY <1>6
  <2>2. /\ cmd.pack \in Packs /\ cmd.deps \in Tables /\ cmd.packs \in SUBSET Packs
        /\ cmd.stale \in BOOLEAN
    BY <1>1, <2>1 DEF RmAnswer, CommandOK, Command, Phases
  <2>3. CommandOK(cmd')
    BY <1>1, <2>1, <2>2, RmDraftOK DEF RmAnswer
  <2>4. QED
    BY <2>1, <2>3 DEF RmAnswer, TypeOK, CommandOK, Phases
<1>7. QED
  BY <1>2, <1>3, <1>4, <1>5, <1>6 DEF CommandSteps

(* and whatever the user and the registry do. *)
LEMMA EnvironmentOK ==
    ASSUME TypeOK, Environment
    PROVE  TypeOK'
<1>1. /\ disk \in Disk /\ CommandOK(cmd) /\ cmd \in Command(DOMAIN cmd.crates)
      /\ left \in [commands : Nat, edits : Nat]
      /\ disk.deps \in Tables
  BY DEF TypeOK, CommandOK, Disk
<1>2. ASSUME Edits
      PROVE  rev' = rev /\ CommandOK(cmd') /\ left' \in [commands : Nat, edits : Nat]
  <2> DEFINE c == [cmd EXCEPT !.stale = TRUE]
  <2>1. cmd.pc = "prompt" => CommandOK(c)
    BY <1>1 DEF CommandOK, Command, Phases
  <2>2. CommandOK(cmd')
    BY <1>1, <1>2, <2>1 DEF Edits
  <2>3. QED
    BY <1>1, <1>2, <2>2 DEF Edits
<1>3. CASE \E p \in Packs : RegisterPack(p)
  BY <1>1, <1>2, <1>3 DEF RegisterPack, TypeOK, Disk, CommandOK, Phases
<1>4. CASE \E row \in UserRows : UserWrites(row)
  <2>1. PICK row \in UserRows : UserWrites(row)
    BY <1>4
  <2>2. row.section \in Sections /\ row.crate \in Crates /\ row.entry \in Entry
    BY RowsAssumption
  <2>3. [disk.deps EXCEPT ![row.section][row.crate] = row.entry] \in Tables
    BY <1>1, <2>2 DEF Tables
  <2>4. disk' = [disk EXCEPT !.deps = [disk.deps EXCEPT ![row.section][row.crate] = row.entry]]
    BY <1>1, <2>1 DEF UserWrites, Disk
  <2>5. disk' \in Disk /\ disk'.saved = disk.saved
    BY <1>1, <2>3, <2>4 DEF Disk
  <2>6. QED
    BY <1>2, <2>1, <2>5 DEF UserWrites, TypeOK, CommandOK, Phases
<1>5. CASE \E row \in RootRows : UserWritesRoot(row)
  <2>1. PICK row \in RootRows : UserWritesRoot(row)
    BY <1>5
  <2>2. row.crate \in Crates /\ row.entry \in Entry
    BY RowsAssumption
  <2>3. disk' \in Disk /\ disk'.saved = disk.saved
    BY <1>1, <2>1, <2>2 DEF UserWritesRoot, Disk
  <2>4. QED
    BY <1>2, <2>1, <2>3 DEF UserWritesRoot, TypeOK, CommandOK, Phases
<1>6. CASE \E p \in Packs : Publish(p)
  <2>1. PICK p \in Packs : Publish(p)
    BY <1>6
  <2>2. rev' \in [Packs -> Nat] /\ \A q \in Packs : rev'[q] \in DOMAIN Catalog[q]
    BY <2>1 DEF Publish, TypeOK
  <2>3. QED
    BY <2>1, <2>2 DEF Publish, TypeOK, CommandOK, Phases
<1>7. QED
  BY <1>3, <1>4, <1>5, <1>6 DEF Environment

(* A fresh project is well-typed. *)
LEMMA InitOK == Init => TypeOK
<1> SUFFICES ASSUME Init PROVE TypeOK
  OBVIOUS
<1> DEFINE d == [deps |-> [s \in Sections |-> NoRows], packs |-> disk.packs, root |-> disk.root,
                 saved |-> [p \in Packs |-> NoState]]
<1>1. /\ disk = d /\ disk.packs \subseteq Packs
      /\ disk.root = [c \in Crates |-> IF Workspace /\ c \in PeerRefs
                                       THEN Row("version", 1, {}) ELSE Absent]
  BY DEF Init
<1>2. Row("version", 1, {}) \in Entry
  BY DEF Row, Entry, Present
<1>3. disk \in Disk
  BY <1>1, <1>2, EntryTypes, StateTypes DEF Disk, Tables, NoRows
<1>4. \A p \in Packs : disk.saved[p].active # {}
  BY <1>1, StateTypes
<1>5. rev \in [Packs -> Nat] /\ \A p \in Packs : rev[p] \in DOMAIN Catalog[p]
  BY CatalogAssumption DEF Init
<1>6. left \in [commands : Nat, edits : Nat]
  BY BoundsAssumption DEF Init
<1>7. QED
  BY <1>3, <1>4, <1>5, <1>6, IdleOK DEF TypeOK, Init

(* A stuttering step keeps the types. *)
LEMMA UnchangedOK ==
    ASSUME TypeOK, UNCHANGED vars
    PROVE  TypeOK'
BY DEF vars, TypeOK, CommandOK, Phases

(* The files always have the shape the commands expect, a stored selection is
   never empty (from_active_features), and a running command is at a point its
   handler has. *)
THEOREM TypeInvariance == ProjectSpec => []TypeOK
<1>1. TypeOK /\ [Next]_vars => TypeOK'
  BY BeginsOK, StepsOK, EnvironmentOK, UnchangedOK DEF Next
<1>2. QED
  BY InitOK, <1>1, PTL DEF ProjectSpec

-----------------------------------------------------------------------------
(* sync only adds. Its draft of Cargo.toml is ahead of the file: that is the
   invariant which makes the final write, after any number of packs, safe. *)

(* Keeping a row is reflexive and transitive. *)
LEMMA KeepsOrder ==
    ASSUME NEW texts
    PROVE  /\ \A e \in Entry : Keeps(e, e, texts)
           /\ \A e, f, g \in Entry : Keeps(g, f, texts) /\ Keeps(f, e, texts) => Keeps(g, e, texts)
<1>1. \A e \in Entry : Keeps(e, e, texts)
  BY DEF Keeps, Entry, Present, Text
<1>2. ASSUME NEW e \in Entry, NEW f \in Entry, NEW g \in Entry,
             Keeps(g, f, texts), Keeps(f, e, texts)
      PROVE  Keeps(g, e, texts)
  <2>1. /\ Present(e) => g.form = e.form
        /\ e.feats \subseteq g.feats
        /\ e.extra => g.extra
    BY <1>2 DEF Keeps, Present
  <2>2. Text(g) # Text(e) => Text(g) \in texts /\ (Present(e) => e.ver # 0)
    <3>1. Present(e) => Present(f)
      BY <1>2 DEF Keeps, Present
    <3>2. Text(f) = Text(e) => f.ver = e.ver
      BY DEF Text
    <3>3. QED
      BY <1>2, <3>1, <3>2 DEF Keeps
  <2>3. (\A text \in texts : IsPlain(text)) /\ ~e.req => ~g.req /\ e.ver <= g.ver
    <3>1. e.ver \in Nat /\ f.ver \in Nat /\ g.ver \in Nat
      BY DEF Entry
    <3>2. QED
      BY <1>2, <3>1 DEF Keeps
  <2>4. QED
    BY <2>1, <2>2, <2>3 DEF Keeps
<1>3. QED
  BY <1>1, <1>2

(* Syncing a row keeps what it had: its version is kept or the crate's. *)
LEMMA SyncEntryKeeps ==
    ASSUME NEW e \in Entry, NEW spec \in CrateSpec, NEW texts, Text(spec) \in texts
    PROVE  Keeps(SyncEntry(e, spec), e, texts)
<1> DEFINE new == SyncEntry(e, spec)
<1>1. e.ver \in Nat /\ e.req \in BOOLEAN /\ spec.ver \in Nat \ {0} /\ spec.req \in BOOLEAN
  BY DEF Entry, CrateSpec
<1>2. IsPlain(Text(spec)) <=> ~spec.req
  BY DEF IsPlain, Text
<1>3. CASE ~Present(e)
  <2>1. e = Absent /\ new = AddEntry(spec)
    BY <1>3 DEF Entry, SyncEntry
  <2>2. /\ e.ver = 0 /\ ~e.req /\ e.feats = {} /\ ~e.extra
        /\ new.ver = spec.ver /\ new.req = spec.req /\ Text(new) = Text(spec)
    BY <2>1 DEF Absent, AddEntry, Row, Text
  <2> HIDE DEF new
  <2>3. QED
    BY <1>1, <1>2, <1>3, <2>2 DEF Keeps, new
<1>4. CASE Present(e)
  <2>1. /\ new.form = e.form /\ e.feats \subseteq new.feats /\ new.extra = e.extra
        /\ new.ver = IF Upgrades(e, spec) THEN spec.ver ELSE e.ver
        /\ new.req = IF Upgrades(e, spec) THEN spec.req ELSE e.req
    BY <1>4 DEF SyncEntry, Entry
  <2> HIDE DEF new
  <2>2. CASE Upgrades(e, spec)
    <3>1. e.ver # 0 /\ Text(new) = Text(spec) /\ new.ver = spec.ver /\ new.req = spec.req
      BY <2>1, <2>2 DEF Upgrades, Text
    <3>2. ~e.req /\ ~spec.req => e.ver < spec.ver
      BY <2>2 DEF Upgrades
    <3>3. QED
      BY <1>1, <1>2, <2>1, <3>1, <3>2 DEF Keeps, new
  <2>3. CASE ~Upgrades(e, spec)
    <3>1. Text(new) = Text(e) /\ new.ver = e.ver /\ new.req = e.req
      BY <2>1, <2>3 DEF Text
    <3>2. QED
      BY <1>1, <2>1, <3>1 DEF Keeps, new
  <2>4. QED
    BY <2>2, <2>3
<1>5. QED
  BY <1>3, <1>4

(* and so in every table. *)
LEMMA SyncTablesKeep ==
    ASSUME NEW m, CrateMap(m), NEW texts, \A c \in DOMAIN m : Text(m[c]) \in texts[c]
    PROVE  /\ \A root \in [Crates -> Entry], c \in Crates :
                 Keeps(SyncRoot(root, m)[c], root[c], texts[c])
           /\ \A deps \in Tables, s \in Sections, c \in Crates :
                 Keeps(SyncDeps(deps, m)[s][c], deps[s][c], texts[c])
<1>1. \A c \in DOMAIN m : m[c] \in CrateSpec
  BY DEF CrateMap
<1>2. \A root \in [Crates -> Entry], c \in Crates :
         Keeps(SyncRoot(root, m)[c], root[c], texts[c])
  BY <1>1, KeepsOrder, SyncEntryKeeps DEF SyncRoot
<1>3. ASSUME NEW deps \in Tables, NEW s \in Sections, NEW c \in Crates
      PROVE  Keeps(SyncDeps(deps, m)[s][c], deps[s][c], texts[c])
  <2>1. deps[s][c] \in Entry /\ Keeps(deps[s][c], deps[s][c], texts[c])
    BY KeepsOrder DEF Tables
  <2>2. ~Present(deps[s][c]) => Keeps(Ref, deps[s][c], texts[c])
    <3>1. /\ Absent.feats = {} /\ ~Absent.extra /\ Text(Absent) = Text(Ref)
          /\ ~Present(Absent) /\ ~Ref.req /\ Absent.ver = 0 /\ Ref.ver = 0
      BY DEF Absent, Ref, Row, Present, Text
    <3>2. Keeps(Ref, Absent, texts[c])
      BY <3>1 DEF Keeps
    <3>3. QED
      BY <2>1, <3>2 DEF Entry
  <2>3. In(s, c, m) => Keeps(SyncEntry(deps[s][c], m[c]), deps[s][c], texts[c])
    BY <1>1, <2>1, SyncEntryKeeps DEF In
  <2>4. SyncDeps(deps, m)[s][c] =
           CASE In(s, c, m) /\ Workspace -> IF Present(deps[s][c]) THEN deps[s][c] ELSE Ref
             [] In(s, c, m) /\ ~Workspace -> SyncEntry(deps[s][c], m[c])
             [] OTHER -> deps[s][c]
    BY DEF SyncDeps
  <2>5. QED
    BY <2>1, <2>2, <2>3, <2>4
<1>4. QED
  BY <1>2, <1>3

DraftAhead ==
    cmd.op = "sync" =>
        /\ \A s \in Sections, c \in Crates :
              Keeps(cmd.deps[s][c], disk.deps[s][c], Recommended(c))
        /\ disk.packs \subseteq cmd.packs /\ cmd.todo \subseteq cmd.packs

(* Only add and rm draft with these operators. *)
LEMMA DraftOps ==
    /\ \A d, p, spec, choice : AddDraft(d, p, spec, choice).op \in {"none", "add"}
    /\ \A deps, packs, root, saved, p, dropping :
          RmDraft(deps, packs, root, saved, p, dropping).op = "rm"
BY DEF AddDraft, RmDraft, Idle

(* A command becomes a sync only by Sync, and nothing but its own steps
   happens while it is one. *)
LEMMA OnlySync ==
    ASSUME TypeOK, [Next]_vars
    PROVE  /\ cmd.op = "sync" =>
                 WriteManifest \/ WriteState \/ SyncPack \/ SyncFails \/ Quit \/ UNCHANGED vars
           /\ cmd.op # "sync" /\ cmd'.op = "sync" =>
                 /\ disk'.deps = disk.deps /\ cmd'.deps = disk.deps
                 /\ disk'.packs = disk.packs /\ cmd'.packs = disk.packs
                 /\ cmd'.todo = disk.packs
<1>1. Idle.op = "none" /\ Phases(cmd) /\ cmd \in Command(DOMAIN cmd.crates)
  BY DEF TypeOK, CommandOK, Idle
<1>2. CASE CommandBegins
  <2>1. cmd = Idle /\ disk' = Preflight(disk)
    BY <1>2 DEF CommandBegins, OtherCommand, Add, AddInteractive, Sync, Rm, RmAsk, Begins
  <2>2. disk'.deps = disk.deps /\ disk'.packs = disk.packs
    BY <2>1, PreflightOK DEF TypeOK
  <2>3. cmd'.op = "sync" =>
           cmd'.deps = disk.deps /\ cmd'.packs = disk.packs /\ cmd'.todo = disk.packs
    <3>1. CASE OtherCommand
      BY <1>1, <2>1, <3>1 DEF OtherCommand
    <3>2. CASE \E p \in Packs, r \in Requests : Add(p, r) \/ AddInteractive(p, r)
      <4>1. \A p : [Idle EXCEPT !.op = "add", !.pc = "picker", !.pack = p].op = "add"
        BY DEF Idle
      <4>2. cmd'.op \in {"none", "add"}
        <5>1. PICK p \in Packs, r \in Requests : Add(p, r) \/ AddInteractive(p, r)
          BY <3>2
        <5>2. \/ \E d, choice : cmd' = AddDraft(d, p, Spec(p), choice)
              \/ cmd' = [Idle EXCEPT !.op = "add", !.pc = "picker", !.pack = p]
          BY <5>1, ZenonT(30) DEF Add, AddInteractive
        <5>3. CASE \E d, choice : cmd' = AddDraft(d, p, Spec(p), choice)
          BY <5>3, DraftOps
        <5>4. CASE cmd' = [Idle EXCEPT !.op = "add", !.pc = "picker", !.pack = p]
          <6>1. cmd'.op = "add"
            BY <4>1, <5>4, Zenon
          <6>2. QED
            BY <6>1
        <5>5. QED
          BY <5>2, <5>3, <5>4
      <4>3. QED
        BY <4>2
    <3>3. CASE \E local \in BOOLEAN, path \in Packs \cup {0} : Sync(local, path)
      BY <3>3 DEF Sync, Idle
    <3>4. CASE \E p \in Packs : RmAsk(p) \/ \E dropping \in BOOLEAN : Rm(p, dropping)
      <4>1. CASE \E p \in Packs : RmAsk(p)
        <5>1. PICK p \in Packs : RmAsk(p)
          BY <4>1
        <5> DEFINE c == [Idle EXCEPT !.op = "rm", !.pc = "prompt", !.pack = p,
                                     !.deps = disk.deps, !.packs = disk.packs]
        <5>2. c.op = "rm"
          BY DEF Idle
        <5>3. cmd' = c
          BY <5>1 DEF RmAsk
        <5>4. QED
          BY <5>2, <5>3
      <4>2. CASE \E p \in Packs, dropping \in BOOLEAN : Rm(p, dropping)
        <5>1. PICK p \in Packs, dropping \in BOOLEAN : Rm(p, dropping)
          BY <4>2
        <5>2. cmd' = RmDraft(disk.deps, disk.packs, disk.root, disk'.saved, p,
                             dropping /\ disk.saved[p].known)
          BY <5>1 DEF Rm
        <5>3. cmd'.op = "rm"
          BY <5>2, DraftOps
        <5>4. QED
          BY <5>3
      <4>3. QED
        BY <3>4, <4>1, <4>2
    <3>5. QED
      BY <1>2, <3>1, <3>2, <3>3, <3>4 DEF CommandBegins
  <2>4. QED
    BY <1>1, <2>1, <2>2, <2>3
<1>3. CASE CommandSteps
  <2>1. CASE cmd.op = "sync"
    <3>1. ~WriteRoot /\ ~(\E yes \in BOOLEAN : RmAnswer(yes)) /\ ~(cmd.pc = "picker")
      BY <1>1, <2>1 DEF WriteRoot, RmAnswer, Phases
    <3>2. QED
      BY <1>3, <2>1, <3>1 DEF CommandSteps
  <2>2. CASE cmd.op # "sync"
    <3>1. CASE WriteRoot \/ WriteManifest \/ WriteState
      <4>1. cmd' = Idle \/ \E pc : cmd' = [cmd EXCEPT !.pc = pc]
        BY <2>2, <3>1 DEF WriteRoot, WriteManifest, WriteState
      <4>2. \A pc : [cmd EXCEPT !.pc = pc].op = cmd.op
        BY <1>1 DEF Command
      <4>3. QED
        BY <1>1, <2>2, <4>1, <4>2
    <3>2. CASE SyncPack
      BY <1>1, <2>2, <3>2 DEF SyncPack, Phases
    <3>3. CASE \E feats, rows : Pick(feats, rows)
      BY <2>2, <3>3, DraftOps DEF Pick
    <3>4. CASE \E yes \in BOOLEAN : RmAnswer(yes)
      <4>1. PICK yes \in BOOLEAN : RmAnswer(yes)
        BY <3>4
      <4> DEFINE draft == RmDraft(cmd.deps, cmd.packs, disk.root, disk.saved, cmd.pack, yes)
      <4>2. draft.op = "rm"
        BY DraftOps
      <4>3. cmd' = [draft EXCEPT !.stale = cmd.stale]
        BY <4>1 DEF RmAnswer
      <4> HIDE DEF draft
      <4>4. [draft EXCEPT !.stale = cmd.stale].op = draft.op
        OBVIOUS
      <4>5. QED
        BY <2>2, <4>2, <4>3, <4>4
    <3>5. CASE SyncFails \/ Quit
      BY <1>1, <3>5 DEF SyncFails, Quit
    <3>6. QED
      BY <1>3, <2>2, <3>1, <3>2, <3>3, <3>4, <3>5 DEF CommandSteps
  <2>3. QED
    BY <2>1, <2>2
<1>4. CASE Environment
  <2>1. cmd.op # "sync" /\ (cmd' = cmd \/ cmd' = [cmd EXCEPT !.stale = TRUE])
    BY <1>1, <1>4 DEF Environment, RegisterPack, UserWrites, UserWritesRoot, Publish, Edits,
                      Phases
  <2>2. [cmd EXCEPT !.stale = TRUE].op = cmd.op
    BY <1>1 DEF Command
  <2>3. QED
    BY <2>1, <2>2
<1>5. CASE UNCHANGED vars
  BY <1>5 DEF vars
<1>6. QED
  BY <1>2, <1>3, <1>4, <1>5 DEF Next

(* What sync wants of a crate is one of the versions recommended. *)
LEMMA SyncWants ==
    ASSUME TypeOK, NEW p \in cmd.packs, NEW A
    PROVE  /\ CrateMap(ResolveForFeatures(Loaded(p), A))
           /\ \A c \in DOMAIN ResolveForFeatures(Loaded(p), A) :
                 Text(ResolveForFeatures(Loaded(p), A)[c]) \in Recommended(c)
<1>1. p \in Packs /\ cmd.path \in Packs \cup {0}
  BY DEF TypeOK, CommandOK, Command
<1>2. Known(Loaded(p))
  BY <1>1, SpecKnown DEF Loaded
<1>3. QED
  BY <1>2, OfferedType, ResolvedRow DEF Recommended

(* A sync's draft stays ahead of the files, and each of its writes keeps every row. *)
LEMMA SyncStep ==
    ASSUME TypeOK, DraftAhead, [Next]_vars
    PROVE  DraftAhead' /\ (cmd.op = "sync" => KeepsAll(disk', disk))
<1>1. /\ disk \in Disk /\ disk.deps \in Tables /\ disk.root \in [Crates -> Entry]
      /\ cmd \in Command(DOMAIN cmd.crates) /\ cmd.deps \in Tables /\ Phases(cmd)
  BY DEF TypeOK, CommandOK, Disk, Command
<1>2. /\ \A s \in Sections, c \in Crates : \A texts :
            Keeps(disk.deps[s][c], disk.deps[s][c], texts)
      /\ \A c \in Crates : \A texts : Keeps(disk.root[c], disk.root[c], texts)
  BY <1>1, KeepsOrder DEF Tables
<1>3. CASE cmd.op # "sync"
  BY <1>2, <1>3, OnlySync DEF DraftAhead
<1>4. CASE cmd.op = "sync"
  <2>1. CASE SyncPack
    <3>1. PICK p \in cmd.todo :
             LET expected == ResolveForFeatures(Loaded(p), disk.saved[p].active)
             IN  /\ disk' = [disk EXCEPT !.root = SyncRoot(@, expected)]
                 /\ cmd' = [cmd EXCEPT !.pc = "state", !.pack = p, !.todo = @ \ {p},
                                       !.deps = SyncDeps(@, expected),
                                       !.entry = StateOf(disk.saved[p].active, expected)]
                 /\ rev' = rev
      BY <2>1 DEF SyncPack
    <3> DEFINE expected == ResolveForFeatures(Loaded(p), disk.saved[p].active)
               texts == [c \in Crates |-> Recommended(c)]
    <3>2. CrateMap(expected) /\ \A c \in DOMAIN expected : Text(expected[c]) \in texts[c]
      <4>1. p \in cmd.packs
        BY <1>4 DEF DraftAhead
      <4>2. QED
        BY <4>1, SyncWants DEF CrateMap
    <3>3. /\ disk'.deps = disk.deps /\ disk'.packs = disk.packs
          /\ disk'.root = SyncRoot(disk.root, expected)
          /\ cmd'.deps = SyncDeps(cmd.deps, expected) /\ cmd'.packs = cmd.packs
          /\ cmd'.todo \subseteq cmd.todo /\ cmd'.path = cmd.path
      BY <1>1, <3>1 DEF Disk, Command
    <3> HIDE DEF expected
    <3>4. \A c : Recommended(c)' = Recommended(c)
      BY <3>1, <3>3 DEF Recommended, Loaded, Spec
    <3>5. KeepsAll(disk', disk)
      <4>1. \A c \in Crates : Keeps(disk'.root[c], disk.root[c], texts[c])
        <5> HIDE DEF texts
        <5>1. QED
          BY <1>1, <3>2, <3>3, SyncTablesKeep
      <4>2. QED
        BY <1>2, <3>3, <4>1 DEF KeepsAll
    <3>6. SyncDeps(cmd.deps, expected) \in Tables
      BY <1>1, <3>2, DepsTypes
    <3>7. ASSUME NEW s \in Sections, NEW c \in Crates
          PROVE  Keeps(cmd'.deps[s][c], disk'.deps[s][c], Recommended(c))
      <4>1. Keeps(SyncDeps(cmd.deps, expected)[s][c], cmd.deps[s][c], texts[c])
        <5> HIDE DEF texts
        <5>1. QED
          BY <1>1, <3>2, SyncTablesKeep
      <4>2. Keeps(cmd.deps[s][c], disk.deps[s][c], texts[c])
        BY <1>4 DEF DraftAhead
      <4>3. /\ SyncDeps(cmd.deps, expected)[s][c] \in Entry
            /\ cmd.deps[s][c] \in Entry /\ disk.deps[s][c] \in Entry
        BY <1>1, <3>6 DEF Tables
      <4>4. Keeps(SyncDeps(cmd.deps, expected)[s][c], disk.deps[s][c], texts[c])
        <5> HIDE DEF texts
        <5>1. QED
          BY <4>1, <4>2, <4>3, KeepsOrder
      <4>5. QED
        BY <3>3, <4>4
    <3>8. QED
      BY <1>4, <3>3, <3>4, <3>5, <3>7 DEF DraftAhead
  <2>2. CASE WriteManifest
    BY <1>1, <1>2, <1>4, <2>2 DEF WriteManifest, DraftAhead, KeepsAll, Disk, Idle
  <2>3. CASE WriteState
    <3>1. /\ disk'.deps = disk.deps /\ disk'.packs = disk.packs /\ disk'.root = disk.root
          /\ cmd'.deps = cmd.deps /\ cmd'.packs = cmd.packs
          /\ cmd'.todo = cmd.todo /\ cmd'.path = cmd.path /\ rev' = rev
      BY <1>1, <1>4, <2>3 DEF WriteState, Disk, Command
    <3>2. \A c : Recommended(c)' = Recommended(c)
      BY <3>1 DEF Recommended, Loaded, Spec
    <3>3. QED
      BY <1>2, <1>4, <3>1, <3>2 DEF DraftAhead, KeepsAll
  <2>4. CASE SyncFails \/ Quit
    <3>1. disk' = disk /\ cmd' = Idle /\ Idle.op = "none"
      BY <2>4 DEF SyncFails, Quit, Idle
    <3>2. KeepsAll(disk', disk)
      BY <1>2, <3>1 DEF KeepsAll
    <3>3. QED
      BY <3>1, <3>2 DEF DraftAhead
  <2>5. CASE UNCHANGED vars
    <3>1. \A c : Recommended(c)' = Recommended(c)
      BY <2>5 DEF vars, Recommended, Loaded, Spec
    <3>2. QED
      BY <1>2, <1>4, <2>5, <3>1 DEF vars, DraftAhead, KeepsAll
  <2>6. QED
    BY <1>4, <2>1, <2>2, <2>3, <2>4, <2>5, OnlySync
<1>5. QED
  BY <1>3, <1>4

(* manifest.sync.*: whatever the packs, the versions and the user's own rows,
   no step of sync removes a row, lowers a plain version, or drops a feature or
   anything else the user wrote. *)
THEOREM SyncAdditive == ProjectSpec => SyncNeverWeakens
<1>1. Init => DraftAhead
  BY DEF Init, DraftAhead, Idle
<1>2. TypeOK /\ DraftAhead /\ [Next]_vars => DraftAhead'
  BY SyncStep
<1>3. TypeOK /\ DraftAhead /\ [Next]_vars => [cmd.op = "sync" => KeepsAll(disk', disk)]_vars
  BY SyncStep
<1>4. QED
  BY <1>1, <1>2, <1>3, TypeInvariance, PTL DEF ProjectSpec, SyncNeverWeakens

-----------------------------------------------------------------------------
(* add and rm keep their hands off what is not theirs: the drafts they write
   differ from the files on disk in their own pack's crates only. *)

(* The draft of add is the file outside the pack. *)
SameOutside(c, d, spec) ==
    \A x \in Crates \ DOMAIN spec.crates :
        c.root[x] = d.root[x] /\ \A s \in Sections : c.deps[s][x] = d.deps[s][x]

(* When add computes its draft, the draft is the file outside the pack. *)
LEMMA AddDraftOutside ==
    ASSUME NEW d, NEW p, NEW spec, NEW choice, Within(choice.crates, spec)
    PROVE  \/ AddDraft(d, p, spec, choice) = Idle
           \/ /\ AddDraft(d, p, spec, choice).pack = p
              /\ AddDraft(d, p, spec, choice).pc # "picker"
              /\ SameOutside(AddDraft(d, p, spec, choice), d, spec)
<1> DEFINE gone == Deselected(spec, d.saved[p].managed, choice.crates)
           deps == DropDeps(AddDeps(d.deps, choice.crates), gone)
           root == Without(AddRoot(d.root, choice.crates), DOMAIN gone)
           draft == AddDraft(d, p, spec, choice)
<1>1. DOMAIN gone \subseteq DOMAIN spec.crates
  BY DEF Deselected
<1> HIDE DEF gone
<1>2. ASSUME NEW x \in Crates \ DOMAIN spec.crates
      PROVE  root[x] = d.root[x] /\ \A s \in Sections : deps[s][x] = d.deps[s][x]
  <2>1. x \notin DOMAIN gone /\ x \notin DOMAIN choice.crates
    BY <1>1 DEF Within
  <2>2. root[x] = d.root[x]
    BY <2>1 DEF Without, AddRoot
  <2>3. ASSUME NEW s \in Sections
        PROVE  deps[s][x] = d.deps[s][x]
    BY <2>1 DEF DropDeps, AddDeps, In
  <2>4. QED
    BY <2>2, <2>3
<1> HIDE DEF deps, root
<1>3. CASE DOMAIN choice.crates = {}
  BY <1>3 DEF AddDraft
<1>4. CASE DOMAIN choice.crates # {}
  <2>1. draft.pack = p /\ draft.pc # "picker" /\ draft.root = root /\ draft.deps = deps
    BY <1>4 DEF AddDraft, Idle, deps, root, gone
  <2> HIDE DEF draft
  <2>2. SameOutside(draft, d, spec)
    BY <1>2, <2>1 DEF SameOutside
  <2>3. QED
    BY <2>1, <2>2 DEF draft
<1>5. QED
  BY <1>3, <1>4

-----------------------------------------------------------------------------
(* Who moves while a command writes, and how add comes to write. *)

(* While a command writes, nobody else moves. *)
LEMMA Writers ==
    ASSUME TypeOK, [Next]_vars, cmd.pc \in {"root", "manifest", "state"}
    PROVE  WriteRoot \/ WriteManifest \/ WriteState \/ Quit \/ UNCHANGED vars
<1>1. cmd # Idle
  BY DEF Idle
<1>2. ~CommandBegins
  BY <1>1 DEF CommandBegins, OtherCommand, Add, AddInteractive, Sync, Rm, RmAsk, Begins
<1>3. ~Environment
  BY <1>1 DEF Environment, RegisterPack, UserWrites, UserWritesRoot, Publish, Edits
<1>4. CommandSteps => WriteRoot \/ WriteManifest \/ WriteState \/ Quit
  BY DEF CommandSteps, SyncPack, SyncFails, RmAnswer
<1>5. QED
  BY <1>2, <1>3, <1>4 DEF Next

(* A write step moves on inside its command or ends it. *)
LEMMA WriteMoves ==
    ASSUME TypeOK, WriteRoot \/ WriteManifest \/ WriteState
    PROVE  cmd' = Idle \/ \E pc : cmd' = [cmd EXCEPT !.pc = pc]
BY DEF WriteRoot, WriteManifest, WriteState

(* So does the user, beside a command that waits. *)
LEMMA UserMoves ==
    ASSUME TypeOK, Environment
    PROVE  /\ cmd'.op = cmd.op /\ cmd'.pc = cmd.pc
           /\ cmd.op # "rm" => cmd' = cmd
           /\ cmd.op = "rm" => cmd'.stale
<1>1. Phases(cmd) /\ cmd \in Command(DOMAIN cmd.crates) /\ Idle.op = "none" /\ Idle.pc = "idle"
  BY DEF TypeOK, CommandOK, Idle
<1>2. \/ cmd = Idle /\ cmd' = cmd
      \/ cmd.pc \in {"idle", "picker"} /\ cmd' = cmd
      \/ cmd.pc = "prompt" /\ cmd' = [cmd EXCEPT !.stale = TRUE]
  BY DEF Environment, RegisterPack, UserWrites, UserWritesRoot, Publish, Edits
<1>3. /\ [cmd EXCEPT !.stale = TRUE].op = cmd.op
      /\ [cmd EXCEPT !.stale = TRUE].pc = cmd.pc
      /\ [cmd EXCEPT !.stale = TRUE].stale = TRUE
  BY <1>1 DEF Command
<1>4. cmd.pc = "prompt" => cmd.op = "rm"
  BY <1>1 DEF Phases
<1>5. cmd.op = "rm" => cmd.pc \notin {"idle", "picker"} /\ cmd # Idle
  BY <1>1 DEF Phases
<1>6. QED
  BY <1>2, <1>3, <1>4, <1>5

(* Answering the prompt of rm drafts from the Cargo.toml read before it. *)
LEMMA AnswerMoves ==
    ASSUME TypeOK, NEW yes, RmAnswer(yes)
    PROVE  /\ cmd'.op = "rm" /\ cmd'.pc # "prompt" /\ cmd'.stale = cmd.stale
           /\ LET draft == RmDraft(cmd.deps, cmd.packs, disk.root, disk.saved, cmd.pack, yes)
              IN  /\ cmd'.pack = draft.pack /\ cmd'.packs = draft.packs
                  /\ cmd'.deps = draft.deps /\ cmd'.root = draft.root
<1> DEFINE draft == RmDraft(cmd.deps, cmd.packs, disk.root, disk.saved, cmd.pack, yes)
<1>1. /\ draft.op = "rm" /\ draft.pc # "prompt"
      /\ DOMAIN draft = DOMAIN Idle /\ "stale" \in DOMAIN Idle
  BY DEF RmDraft, Idle
<1>2. cmd' = [draft EXCEPT !.stale = cmd.stale]
  BY DEF RmAnswer
<1> HIDE DEF draft
<1>3. /\ [draft EXCEPT !.stale = cmd.stale].op = draft.op
      /\ [draft EXCEPT !.stale = cmd.stale].pc = draft.pc
      /\ [draft EXCEPT !.stale = cmd.stale].pack = draft.pack
      /\ [draft EXCEPT !.stale = cmd.stale].packs = draft.packs
      /\ [draft EXCEPT !.stale = cmd.stale].deps = draft.deps
      /\ [draft EXCEPT !.stale = cmd.stale].root = draft.root
      /\ [draft EXCEPT !.stale = cmd.stale].stale = cmd.stale
  BY <1>1
<1>4. QED
  BY <1>1, <1>2, <1>3 DEF draft

(* A draft of add is computed from the files as they are at that moment. *)
LEMMA AddBegins ==
    ASSUME TypeOK, [Next]_vars, cmd'.op = "add", cmd'.pc # "picker",
           cmd.op # "add" \/ cmd.pc = "picker"
    PROVE  \E p \in Packs : \E choice :
              /\ Within(choice.crates, Spec(p))
              /\ rev' = rev
              /\ cmd' = AddDraft(disk', p, Spec(p), choice)
              /\ \/ cmd.pc # "picker" /\ disk' = Preflight(disk)
                 \/ cmd.pc = "picker" /\ disk' = disk /\ p = cmd.pack
<1>1. /\ Idle.op = "none" /\ Idle.pc = "idle" /\ Phases(cmd) /\ cmd \in Command(DOMAIN cmd.crates)
      /\ \A p \in Packs : Known(Spec(p))
  BY SpecKnown DEF TypeOK, CommandOK, Idle
<1>2. CASE CommandBegins
  <2>1. CASE OtherCommand
    BY <1>1, <2>1 DEF OtherCommand, Begins
  <2>2. CASE \E p \in Packs, r \in Requests : Add(p, r)
    <3>1. PICK p \in Packs, r \in Requests : Add(p, r)
      BY <2>2
    <3>2. Within(Chosen(Spec(p), r, disk.saved[p]).crates, Spec(p))
      BY <1>1, ResolvedWithin
    <3>3. /\ rev' = rev /\ cmd = Idle /\ disk' = Preflight(disk)
          /\ cmd' = AddDraft(disk', p, Spec(p), Chosen(Spec(p), r, disk.saved[p]))
      BY <3>1 DEF Add, Begins
    <3>4. QED
      BY <1>1, <3>2, <3>3
  <2>3. CASE \E p \in Packs, r \in Requests : AddInteractive(p, r)
    <3>1. PICK p \in Packs, r \in Requests : AddInteractive(p, r)
      BY <2>3
    <3> DEFINE asks == [Idle EXCEPT !.op = "add", !.pc = "picker", !.pack = p]
               choice == [active |-> {"default"}, crates |-> Resolve(Spec(p), {"default"})]
    <3>2. asks.pc = "picker"
      BY DEF Idle
    <3>3. Within(choice.crates, Spec(p))
      BY <1>1, ResolvedWithin
    <3>4. /\ rev' = rev /\ cmd = Idle /\ disk' = Preflight(disk)
          /\ (cmd' = asks \/ cmd' = AddDraft(disk', p, Spec(p), choice))
      BY <3>1 DEF AddInteractive, Begins
    <3> HIDE DEF asks, choice
    <3>5. QED
      BY <1>1, <3>2, <3>3, <3>4
  <2>4. CASE \E local \in BOOLEAN, path \in Packs \cup {0} : Sync(local, path)
    <3>1. cmd'.op = "sync"
      BY <2>4 DEF Sync, Idle
    <3>2. QED
      BY <3>1
  <2>5. CASE \E p \in Packs : RmAsk(p)
    <3>1. PICK p \in Packs : RmAsk(p)
      BY <2>5
    <3> DEFINE asks == [Idle EXCEPT !.op = "rm", !.pc = "prompt", !.pack = p,
                                    !.deps = disk.deps, !.packs = disk.packs]
    <3>2. asks.op = "rm"
      BY DEF Idle
    <3>3. cmd' = asks
      BY <3>1 DEF RmAsk
    <3>4. QED
      BY <3>2, <3>3
  <2>6. CASE \E p \in Packs, dropping \in BOOLEAN : Rm(p, dropping)
    <3>1. PICK p \in Packs, dropping \in BOOLEAN : Rm(p, dropping)
      BY <2>6
    <3>2. cmd' = RmDraft(disk.deps, disk.packs, disk.root, disk'.saved, p,
                         dropping /\ disk.saved[p].known)
      BY <3>1 DEF Rm
    <3>3. cmd'.op = "rm"
      BY <3>2, DraftOps
    <3>4. QED
      BY <3>3
  <2>7. QED
    BY <1>2, <2>1, <2>2, <2>3, <2>4, <2>5, <2>6 DEF CommandBegins
<1>3. CASE CommandSteps
  <2>1. CASE WriteRoot \/ WriteManifest \/ WriteState
    <3>1. cmd.pc # "picker"
      BY <2>1 DEF WriteRoot, WriteManifest, WriteState
    <3>2. \A pc : [cmd EXCEPT !.pc = pc].op = cmd.op
      BY <1>1 DEF Command
    <3>3. QED
      BY <1>1, <2>1, <3>1, <3>2, WriteMoves
  <2>2. CASE SyncPack
    <3>1. cmd.op = "sync"
      BY <1>1, <2>2 DEF SyncPack, Phases
    <3>2. cmd'.op = cmd.op
      BY <1>1, <2>2 DEF SyncPack, Command
    <3>3. QED
      BY <3>1, <3>2
  <2>3. CASE \E feats, rows : Pick(feats, rows)
    <3>1. PICK feats, rows : Pick(feats, rows)
      BY <2>3
    <3> DEFINE crates == PickedCrates(Spec(cmd.pack), feats, rows)
               choice == [active |-> FullySelected(Spec(cmd.pack), DOMAIN crates),
                          crates |-> crates]
    <3>2. cmd.pack \in Packs
      BY <1>1, <3>1 DEF Pick, Phases
    <3>3. Within(choice.crates, Spec(cmd.pack))
      BY <1>1, <3>2, ResolvedWithin
    <3>4. /\ rev' = rev /\ disk' = disk /\ cmd.pc = "picker"
          /\ cmd' = AddDraft(disk, cmd.pack, Spec(cmd.pack), choice)
      BY <3>1 DEF Pick
    <3> HIDE DEF choice
    <3>5. QED
      BY <3>2, <3>3, <3>4
  <2>4. CASE \E yes \in BOOLEAN : RmAnswer(yes)
    BY <2>4, AnswerMoves
  <2>5. CASE SyncFails \/ Quit
    BY <1>1, <2>5 DEF SyncFails, Quit
  <2>6. QED
    BY <1>3, <2>1, <2>2, <2>3, <2>4, <2>5 DEF CommandSteps
<1>4. CASE Environment
  BY <1>4, UserMoves
<1>5. CASE UNCHANGED vars
  BY <1>5 DEF vars
<1>6. QED
  BY <1>2, <1>3, <1>4, <1>5 DEF Next

-----------------------------------------------------------------------------
DraftLocal ==
    cmd.op = "add" /\ cmd.pc # "picker" => SameOutside(cmd, disk, Spec(cmd.pack))

(* So it is local when it is computed, *)
LEMMA AddDraftLocal ==
    ASSUME TypeOK, [Next]_vars, cmd.op # "add" \/ cmd.pc = "picker"
    PROVE  DraftLocal'
<1> SUFFICES ASSUME cmd'.op = "add", cmd'.pc # "picker"
             PROVE  SameOutside(cmd', disk', Catalog[cmd'.pack][rev'[cmd'.pack]])
  BY DEF DraftLocal, SameOutside, Spec
<1>1. PICK p \in Packs : \E choice : /\ Within(choice.crates, Spec(p))
                                     /\ rev' = rev
                                     /\ cmd' = AddDraft(disk', p, Spec(p), choice)
  BY AddBegins
<1>2. PICK choice : /\ Within(choice.crates, Spec(p))
                    /\ rev' = rev
                    /\ cmd' = AddDraft(disk', p, Spec(p), choice)
  BY <1>1
<1>3. cmd' # Idle
  BY DEF Idle
<1>4. cmd'.pack = p /\ SameOutside(cmd', disk', Spec(p))
  BY <1>2, <1>3, AddDraftOutside
<1>5. QED
  BY <1>2, <1>4 DEF Spec

(* stays local while it is written, and each write is local too. *)
LEMMA AddStep ==
    ASSUME TypeOK, DraftLocal, [Next]_vars
    PROVE  /\ DraftLocal'
           /\ cmd.op = "add" /\ Stepping => SameOutside(disk', disk, Spec(cmd.pack))
<1>1. disk \in Disk /\ cmd \in Command(DOMAIN cmd.crates) /\ Phases(cmd)
  BY DEF TypeOK, CommandOK
<1>2. CASE cmd.op # "add"
  BY <1>2, AddDraftLocal
<1>3. CASE cmd.op = "add" /\ cmd.pc = "picker"
  <2>1. Environment \/ disk' = disk
    <3>0. cmd # Idle
      BY <1>3 DEF Idle
    <3>1. ~CommandBegins
      BY <3>0 DEF CommandBegins, OtherCommand, Add, AddInteractive, Sync, Rm, RmAsk, Begins
    <3>2. CommandSteps => disk' = disk
      BY <1>3 DEF CommandSteps, WriteRoot, WriteManifest, WriteState, Pick, SyncPack,
                  SyncFails, RmAnswer, Quit
    <3>3. QED
      BY <3>1, <3>2 DEF Next, vars
  <2>2. Environment => ~Stepping
    BY UserMoves DEF Stepping
  <2>3. QED
    BY <1>3, <2>1, <2>2, AddDraftLocal DEF SameOutside
<1>4. CASE cmd.op = "add" /\ cmd.pc # "picker"
  <2>1. SameOutside(cmd, disk, Spec(cmd.pack)) /\ cmd.pc \in {"root", "manifest", "state"}
    BY <1>1, <1>4 DEF DraftLocal, Phases
  <2>2. WriteRoot \/ WriteManifest \/ WriteState \/ Quit \/ UNCHANGED vars
    BY <2>1, Writers
  <2>3. /\ SameOutside(disk', disk, Spec(cmd.pack))
        /\ SameOutside(cmd, disk', Spec(cmd.pack))
    <3>1. \/ /\ disk'.root = cmd.root \/ disk'.root = disk.root
             /\ disk'.deps = cmd.deps \/ disk'.deps = disk.deps
          \/ disk' = disk
      <4>1. CASE WriteRoot
        BY <1>1, <4>1 DEF WriteRoot, Disk
      <4>2. CASE WriteManifest
        BY <1>1, <4>2 DEF WriteManifest, Disk
      <4>3. CASE WriteState
        BY <1>1, <4>3 DEF WriteState, Disk
      <4>4. CASE Quit \/ UNCHANGED vars
        BY <4>4 DEF Quit, vars
      <4>5. QED
        BY <2>2, <4>1, <4>2, <4>3, <4>4
    <3>2. QED
      BY <2>1, <3>1 DEF SameOutside
  <2>4. \/ cmd' = Idle
        \/ /\ cmd'.pack = cmd.pack /\ cmd'.root = cmd.root /\ cmd'.deps = cmd.deps
           /\ rev' = rev
    BY <1>1, <2>2 DEF WriteRoot, WriteManifest, WriteState, Quit, vars, Command
  <2>5. DraftLocal'
    <3>1. CASE cmd' = Idle
      BY <3>1 DEF DraftLocal, Idle
    <3>2. CASE cmd'.pack = cmd.pack /\ cmd'.root = cmd.root /\ cmd'.deps = cmd.deps /\ rev' = rev
      BY <2>3, <3>2 DEF DraftLocal, SameOutside, Spec
    <3>3. QED
      BY <2>4, <3>1, <3>2
  <2>6. QED
    BY <2>3, <2>5
<1>5. QED
  BY <1>2, <1>3, <1>4

(* Whatever the packs and the user's rows, no step of add, from the picker to
   the last file, touches a row of a crate its pack does not list. *)
THEOREM AddLocal == ProjectSpec => AddLeavesOthersAlone
<1>1. Init => DraftLocal
  BY DEF Init, DraftLocal, Idle
<1>2. TypeOK /\ DraftLocal /\ [Next]_vars => DraftLocal'
  BY AddStep
<1>3. TypeOK /\ DraftLocal /\ [Next]_vars =>
         [cmd.op = "add" /\ Stepping =>
             \A c \in Crates \ DOMAIN Spec(cmd.pack).crates :
                /\ disk'.root[c] = disk.root[c]
                /\ \A s \in Sections : disk'.deps[s][c] = disk.deps[s][c]]_vars
  BY AddStep DEF SameOutside
<1>4. QED
  BY <1>1, <1>2, <1>3, TypeInvariance, PTL DEF ProjectSpec, AddLeavesOthersAlone

-----------------------------------------------------------------------------
(* rm: what the draft may differ in. *)

(* A run of rm starts with its flags or with its prompt. *)
LEMMA RmBegins ==
    ASSUME TypeOK, [Next]_vars, cmd.op # "rm", cmd'.op = "rm"
    PROVE  \E p \in Packs : RmAsk(p) \/ \E dropping \in BOOLEAN : Rm(p, dropping)
<1>1. /\ Idle.op = "none" /\ Phases(cmd) /\ cmd \in Command(DOMAIN cmd.crates)
  BY DEF TypeOK, CommandOK, Idle
<1>2. CASE CommandBegins
  <2>1. ~OtherCommand
    BY <1>1 DEF OtherCommand, Begins
  <2>2. \A p \in Packs, r \in Requests : ~Add(p, r)
    BY DraftOps DEF Add
  <2>3. ASSUME NEW p \in Packs, NEW r \in Requests, AddInteractive(p, r)
        PROVE  FALSE
    <3> DEFINE asks == [Idle EXCEPT !.op = "add", !.pc = "picker", !.pack = p]
    <3>1. asks.op = "add"
      BY DEF Idle
    <3>2. cmd' = asks \/ \E choice : cmd' = AddDraft(disk', p, Spec(p), choice)
      BY <2>3 DEF AddInteractive
    <3> HIDE DEF asks
    <3>3. QED
      BY <3>1, <3>2, DraftOps
  <2>4. ASSUME NEW local, NEW path, Sync(local, path)
        PROVE  FALSE
    <3>1. cmd'.op = "sync"
      BY <2>4 DEF Sync, Idle
    <3>2. QED
      BY <3>1
  <2>5. QED
    BY <1>2, <2>1, <2>2, <2>3, <2>4 DEF CommandBegins
<1>3. CASE CommandSteps
  <2>1. CASE WriteRoot \/ WriteManifest \/ WriteState
    <3>1. \A pc : [cmd EXCEPT !.pc = pc].op = cmd.op
      BY <1>1 DEF Command
    <3>2. QED
      BY <1>1, <2>1, <3>1, WriteMoves
  <2>2. CASE SyncPack
    <3>1. cmd'.op = cmd.op
      BY <1>1, <2>2 DEF SyncPack, Command
    <3>2. QED
      BY <3>1
  <2>3. CASE \E feats, rows : Pick(feats, rows)
    BY <2>3, DraftOps DEF Pick
  <2>4. CASE \E yes \in BOOLEAN : RmAnswer(yes)
    BY <1>1, <2>4 DEF RmAnswer, Phases
  <2>5. CASE SyncFails \/ Quit
    BY <1>1, <2>5 DEF SyncFails, Quit
  <2>6. QED
    BY <1>3, <2>1, <2>2, <2>3, <2>4, <2>5 DEF CommandSteps
<1>4. CASE Environment
  BY <1>4, UserMoves
<1>5. CASE UNCHANGED vars
  BY <1>5 DEF vars
<1>6. QED
  BY <1>2, <1>3, <1>4, <1>5 DEF Next

(* The rows of the crates that other registered packs manage are as given. *)
Spares(deps, root, packs, pack, saved, olddeps, oldroot) ==
    \A q \in packs \ {pack} : \A c \in saved[q].managed :
       root[c] = oldroot[c] /\ \A s \in Sections : deps[s][c] = olddeps[s][c]

SparingDraft(draft, deps, root, packs, p, saved) ==
    /\ draft.op = "rm" /\ draft.pack = p /\ draft.packs = packs \ {p}
    /\ draft.pc \in {"root", "manifest"}
    /\ Spares(draft.deps, draft.root, draft.packs, p, saved, deps, root)

(* When rm computes its draft, it spares the crates other packs manage. *)
LEMMA RmDraftSpares ==
    ASSUME NEW deps, NEW packs, packs \subseteq Packs, NEW root,
           NEW saved, saved \in [Packs -> SavedState], NEW p, NEW dropping
    PROVE  SparingDraft(RmDraft(deps, packs, root, saved, p, dropping),
                        deps, root, packs, p, saved)
<1> DEFINE safe == IF dropping THEN Safe(saved, packs, p) ELSE {}
           kept == [s \in Sections |->
                      IF s = "build-dependencies" THEN deps[s] ELSE Without(deps[s], safe)]
           draft == RmDraft(deps, packs, root, saved, p, dropping)
<1>1. ASSUME NEW q \in packs \ {p}, NEW c \in saved[q].managed
      PROVE  c \in Crates /\ c \notin safe
  BY <1>1 DEF SavedState, Safe
<1> HIDE DEF safe
<1>2. \A q \in packs \ {p} : \A c \in saved[q].managed :
         /\ Without(root, safe)[c] = root[c]
         /\ \A s \in Sections : kept[s][c] = deps[s][c]
  BY <1>1 DEF Without
<1> HIDE DEF kept
<1>3. /\ draft.op = "rm" /\ draft.pack = p /\ draft.packs = packs \ {p}
      /\ draft.pc \in {"root", "manifest"}
      /\ draft.deps = kept /\ draft.root = Without(root, safe)
  BY DEF RmDraft, Idle, kept, safe
<1> HIDE DEF draft
<1>4. Spares(draft.deps, draft.root, draft.packs, p, saved, deps, root)
  BY <1>2, <1>3 DEF Spares
<1>5. SparingDraft(draft, deps, root, packs, p, saved)
  BY <1>3, <1>4 DEF SparingDraft
<1>6. QED
  BY <1>5 DEF draft

(* At the prompt rm holds Cargo.toml as it is on disk, unless the user edited
   it since; once it writes, its draft spares the other packs' crates. *)
DraftSpares ==
    cmd.op = "rm" /\ ~cmd.stale =>
       IF cmd.pc = "prompt" THEN cmd.deps = disk.deps
       ELSE Spares(cmd.deps, cmd.root, cmd.packs, cmd.pack, disk.saved, disk.deps, disk.root)

DiskSpares ==
    Spares(disk'.deps, disk'.root, cmd.packs, cmd.pack, disk.saved, disk.deps, disk.root)

(* Files that stay as they are spare every crate. *)
LEMMA SparesNothing ==
    ASSUME NEW deps, NEW root, NEW packs, NEW pack, NEW saved
    PROVE  Spares(deps, root, packs, pack, saved, deps, root)
BY DEF Spares

(* The draft of rm goes on sparing them, and so does each write. *)
LEMMA RmStep ==
    ASSUME TypeOK, DraftSpares, [Next]_vars
    PROVE  DraftSpares' /\ (cmd.op = "rm" /\ ~cmd.stale /\ Stepping => DiskSpares)
<1>1. /\ disk \in Disk /\ disk.deps \in Tables /\ disk.root \in [Crates -> Entry]
      /\ disk.packs \in SUBSET Packs /\ disk.saved \in [Packs -> SavedState]
      /\ cmd \in Command(DOMAIN cmd.crates) /\ cmd.deps \in Tables
      /\ cmd.packs \in SUBSET Packs /\ Phases(cmd) /\ Idle.op = "none" /\ Idle.pc = "idle"
  BY DEF TypeOK, CommandOK, Disk, Command, Idle
<1>2. CASE cmd.op # "rm"
  <2> SUFFICES ASSUME cmd'.op = "rm" PROVE DraftSpares'
    BY <1>2 DEF DraftSpares
  <2>1. PICK p \in Packs : RmAsk(p) \/ \E dropping \in BOOLEAN : Rm(p, dropping)
    BY <1>2, RmBegins
  <2>2. disk' = Preflight(disk)
    BY <2>1 DEF RmAsk, Rm
  <2>3. /\ disk' \in Disk /\ disk'.deps = disk.deps /\ disk'.root = disk.root
        /\ disk'.saved \in [Packs -> SavedState]
    <3>1. disk' \in Disk /\ disk'.deps = disk.deps /\ disk'.root = disk.root
      BY <1>1, <2>2, PreflightOK DEF TypeOK
    <3>2. QED
      BY <3>1 DEF Disk
  <2>4. CASE RmAsk(p)
    <3> DEFINE asks == [Idle EXCEPT !.op = "rm", !.pc = "prompt", !.pack = p,
                                    !.deps = disk.deps, !.packs = disk.packs]
    <3>1. asks.pc = "prompt" /\ asks.deps = disk.deps
      BY DEF Idle
    <3>2. cmd' = asks
      BY <2>4 DEF RmAsk
    <3> HIDE DEF asks
    <3>3. QED
      BY <2>3, <3>1, <3>2 DEF DraftSpares
  <2>5. CASE \E dropping \in BOOLEAN : Rm(p, dropping)
    <3>1. PICK drop : cmd' = RmDraft(disk.deps, disk.packs, disk.root, disk'.saved, p, drop)
      BY <2>5 DEF Rm
    <3> DEFINE draft == RmDraft(disk.deps, disk.packs, disk.root, disk'.saved, p, drop)
    <3>2. SparingDraft(draft, disk.deps, disk.root, disk.packs, p, disk'.saved)
      BY <1>1, <2>3, RmDraftSpares
    <3> HIDE DEF draft
    <3>3. cmd' = draft
      BY <3>1 DEF draft
    <3>4. QED
      BY <2>3, <3>2, <3>3 DEF DraftSpares, SparingDraft
  <2>6. QED
    BY <2>1, <2>4, <2>5
<1>3. CASE cmd.op = "rm" /\ cmd.pc = "prompt"
  <2>1. CASE Environment
    BY <1>3, <2>1, UserMoves DEF DraftSpares, Stepping
  <2>2. CASE \E yes \in BOOLEAN : RmAnswer(yes)
    <3>1. PICK yes \in BOOLEAN : RmAnswer(yes)
      BY <2>2
    <3> DEFINE draft == RmDraft(cmd.deps, cmd.packs, disk.root, disk.saved, cmd.pack, yes)
    <3>2. disk' = disk
      BY <3>1 DEF RmAnswer
    <3>3. /\ cmd'.stale = cmd.stale /\ cmd'.pc # "prompt"
          /\ cmd'.pack = draft.pack /\ cmd'.packs = draft.packs
          /\ cmd'.deps = draft.deps /\ cmd'.root = draft.root
      BY <3>1, AnswerMoves
    <3>4. SparingDraft(draft, cmd.deps, disk.root, cmd.packs, cmd.pack, disk.saved)
      BY <1>1, RmDraftSpares
    <3> HIDE DEF draft
    <3>5. DiskSpares
      BY <3>2, SparesNothing DEF DiskSpares
    <3>6. QED
      BY <1>3, <3>2, <3>3, <3>4, <3>5 DEF DraftSpares, SparingDraft
  <2>3. CASE Quit
    <3>1. disk' = disk /\ cmd' = Idle
      BY <2>3 DEF Quit
    <3>2. QED
      BY <1>1, <3>1, SparesNothing DEF DraftSpares, DiskSpares
  <2>4. CASE UNCHANGED vars
    BY <2>4 DEF vars, DraftSpares, Stepping
  <2>5. [Next]_vars => Environment \/ (\E yes \in BOOLEAN : RmAnswer(yes)) \/ Quit \/ UNCHANGED vars
    <3>1. cmd # Idle
      BY <1>1, <1>3
    <3>2. ~CommandBegins
      BY <3>1 DEF CommandBegins, OtherCommand, Add, AddInteractive, Sync, Rm, RmAsk, Begins
    <3>3. CommandSteps => (\E yes \in BOOLEAN : RmAnswer(yes)) \/ Quit
      BY <1>3 DEF CommandSteps, WriteRoot, WriteManifest, WriteState, SyncPack, SyncFails
    <3>4. QED
      BY <3>2, <3>3 DEF Next
  <2>6. QED
    BY <2>1, <2>2, <2>3, <2>4, <2>5
<1>4. CASE cmd.op = "rm" /\ cmd.pc # "prompt"
  <2>1. WriteRoot \/ WriteManifest \/ WriteState \/ Quit \/ UNCHANGED vars
    BY <1>1, <1>4, Writers DEF Phases
  <2>2. CASE UNCHANGED vars
    BY <2>2 DEF vars, DraftSpares, Stepping
  <2>3. CASE Quit \/ WriteState
    <3>1. cmd' = Idle /\ disk'.deps = disk.deps /\ disk'.root = disk.root
      BY <1>1, <1>4, <2>3 DEF Quit, WriteState, Disk
    <3>2. QED
      BY <1>1, <3>1, SparesNothing DEF DraftSpares, DiskSpares
  <2>4. CASE WriteRoot \/ WriteManifest
    <3>1. /\ disk'.saved = disk.saved
          /\ \/ disk'.root = cmd.root /\ disk'.deps = disk.deps
             \/ disk'.root = disk.root /\ disk'.deps = cmd.deps
      BY <1>1, <2>4 DEF WriteRoot, WriteManifest, Disk
    <3>2. \E pc : cmd' = [cmd EXCEPT !.pc = pc] /\ pc # "prompt"
      BY <1>4, <2>4 DEF WriteRoot, WriteManifest
    <3>3. /\ cmd'.pc # "prompt" /\ cmd'.stale = cmd.stale /\ cmd'.pack = cmd.pack
          /\ cmd'.packs = cmd.packs /\ cmd'.deps = cmd.deps /\ cmd'.root = cmd.root
      BY <1>1, <3>2 DEF Command
    <3>4. cmd.stale \/ Spares(cmd.deps, cmd.root, cmd.packs, cmd.pack, disk.saved, disk.deps, disk.root)
      BY <1>4 DEF DraftSpares
    <3>5. QED
      BY <1>4, <3>1, <3>3, <3>4 DEF DraftSpares, DiskSpares, Spares
  <2>5. QED
    BY <2>1, <2>2, <2>3, <2>4
<1>5. QED
  BY <1>2, <1>3, <1>4

(* Whatever the packs, whoever shares a crate and however rm is answered, no
   step of rm touches a row of a crate another registered pack manages, as long
   as the user left Cargo.toml alone at the prompt. *)
THEOREM RmSparesShared == ProjectSpec => RmKeepsShared
<1>1. Init => DraftSpares
  BY DEF Init, DraftSpares, Idle
<1>2. TypeOK /\ DraftSpares /\ [Next]_vars => DraftSpares'
  BY RmStep
<1>3. TypeOK /\ DraftSpares /\ [Next]_vars =>
         [cmd.op = "rm" /\ ~cmd.stale /\ Stepping =>
             \A q \in cmd.packs \ {cmd.pack} : \A c \in disk.saved[q].managed :
                /\ disk'.root[c] = disk.root[c]
                /\ \A s \in Sections : disk'.deps[s][c] = disk.deps[s][c]]_vars
  BY RmStep DEF DiskSpares, Spares
<1>4. QED
  BY <1>1, <1>2, <1>3, TypeInvariance, PTL DEF ProjectSpec, RmKeepsShared

-----------------------------------------------------------------------------
(* add and sync: a reference to the workspace table is written to Cargo.toml
   after the row it refers to. *)

IsRef(e) == e.form = "workspace"

Backed(new, old, root) ==
    \A s \in Sections, c \in Crates :
       IsRef(new[s][c]) => IsRef(old[s][c]) \/ Present(root[c])

RefsBacked ==
    cmd.op \in {"add", "sync"} /\ cmd.pc # "picker" =>
       Backed(cmd.deps, disk.deps, IF cmd.pc = "root" THEN cmd.root ELSE disk.root)

(* Each reference that the draft of add introduces has its workspace row. *)
LEMMA AddDraftBacked ==
    ASSUME NEW d, NEW p, NEW spec, NEW choice
    PROVE  LET draft == AddDraft(d, p, spec, choice) IN
           \/ draft = Idle
           \/ Backed(draft.deps, d.deps, IF draft.pc = "root" THEN draft.root ELSE d.root)
<1> DEFINE gone == Deselected(spec, d.saved[p].managed, choice.crates)
           deps == DropDeps(AddDeps(d.deps, choice.crates), gone)
           root == Without(AddRoot(d.root, choice.crates), DOMAIN gone)
           draft == AddDraft(d, p, spec, choice)
<1>1. DOMAIN gone \cap DOMAIN choice.crates = {}
  BY DEF Deselected
<1> HIDE DEF gone
<1>2. ASSUME NEW s \in Sections, NEW c \in Crates, IsRef(deps[s][c]), ~IsRef(d.deps[s][c])
      PROVE  Workspace /\ Present(root[c])
  <2>1. ~In(s, c, gone) /\ In(s, c, choice.crates) /\ Workspace
    BY <1>2 DEF DropDeps, AddDeps, IsRef, Absent, AddEntry, Row
  <2>2. c \in DOMAIN choice.crates /\ c \notin DOMAIN gone
    BY <1>1, <2>1 DEF In
  <2>3. root[c] = AddEntry(choice.crates[c])
    BY <2>1, <2>2 DEF Without, AddRoot
  <2>4. QED
    BY <2>1, <2>3 DEF AddEntry, Row, Present
<1> HIDE DEF deps, root
<1>3. CASE DOMAIN choice.crates = {}
  BY <1>3 DEF AddDraft
<1>4. CASE DOMAIN choice.crates # {}
  <2>1. /\ draft.pc = IF Workspace THEN "root" ELSE "manifest"
        /\ draft.root = root /\ draft.deps = deps
    BY <1>4 DEF AddDraft, Idle, deps, root, gone
  <2> HIDE DEF draft
  <2>2. Backed(draft.deps, d.deps, IF draft.pc = "root" THEN draft.root ELSE d.root)
    BY <1>2, <2>1 DEF Backed
  <2>3. QED
    BY <2>2 DEF draft
<1>5. QED
  BY <1>3, <1>4

(* Syncing one pack adds references and their rows together. *)
LEMMA SyncBacked ==
    ASSUME NEW deps \in Tables, NEW root \in [Crates -> Entry], NEW m, CrateMap(m), NEW old,
           Backed(deps, old, root)
    PROVE  Backed(SyncDeps(deps, m), old, SyncRoot(root, m))
<1>1. \A c \in Crates : Present(root[c]) => Present(SyncRoot(root, m)[c])
  BY DEF SyncRoot, SyncEntry, Entry, Present
<1>2. \A c \in DOMAIN m : m[c] \in CrateSpec
  BY DEF CrateMap
<1>3. ASSUME NEW s \in Sections, NEW c \in Crates, IsRef(SyncDeps(deps, m)[s][c])
      PROVE  IsRef(old[s][c]) \/ Present(SyncRoot(root, m)[c])
  <2>1. CASE IsRef(deps[s][c])
    BY <1>1, <2>1 DEF Backed
  <2>2. CASE ~IsRef(deps[s][c])
    <3>1. deps[s][c] \in Entry
      BY DEF Tables
    <3>2. c \in DOMAIN m => ~IsRef(SyncEntry(deps[s][c], m[c]))
      BY <2>2, <3>1 DEF SyncEntry, AddEntry, Row, IsRef, Entry, Present
    <3>3. In(s, c, m) /\ Workspace
      BY <1>3, <2>2, <3>2 DEF SyncDeps, In
    <3>4. SyncRoot(root, m)[c] = SyncEntry(root[c], m[c]) /\ m[c] \in CrateSpec
      BY <1>2, <3>3 DEF SyncRoot, In
    <3>5. Present(SyncEntry(root[c], m[c]))
      <4>1. root[c] \in Entry
        OBVIOUS
      <4>2. QED
        BY <4>1 DEF SyncEntry, AddEntry, Row, Present, Entry
    <3>6. QED
      BY <3>4, <3>5
  <2>3. QED
    BY <2>1, <2>2
<1>4. QED
  BY <1>3 DEF Backed

(* A file introduces no reference of its own. *)
LEMMA BackedItself ==
    ASSUME NEW deps, NEW root
    PROVE  Backed(deps, deps, root)
BY DEF Backed

(* So a draft of add is backed when it is computed. *)
LEMMA AddDraftsBacked ==
    ASSUME TypeOK, [Next]_vars, cmd.op # "add" \/ cmd.pc = "picker", cmd'.op = "add"
    PROVE  RefsBacked'
<1> SUFFICES ASSUME cmd'.pc # "picker"
             PROVE  Backed(cmd'.deps, disk'.deps, IF cmd'.pc = "root" THEN cmd'.root ELSE disk'.root)
  BY DEF RefsBacked
<1>1. PICK p \in Packs : \E choice : cmd' = AddDraft(disk', p, Spec(p), choice)
  BY AddBegins
<1>2. PICK choice : cmd' = AddDraft(disk', p, Spec(p), choice)
  BY <1>1
<1>3. cmd' # Idle
  BY DEF Idle
<1>4. QED
  BY <1>2, <1>3, AddDraftBacked

(* What every step of add or sync owes a workspace that loads. *)
LoadsOn == RootKept /\ Loads(disk) => Loads(disk)'

(* A write whose references are backed leaves a workspace that loads. *)
LEMMA LoadsStep ==
    ASSUME Loads(disk), RootKept, Backed(disk'.deps, disk.deps, disk'.root)
    PROVE  Loads(disk)'
<1>1. /\ \A s \in Sections, c \in Crates : IsRef(disk'.deps[s][c]) => Present(disk'.root[c])
      /\ Workspace => \A c \in PeerRefs : Present(disk.root[c])
  BY DEF Loads, RootKept, Backed, IsRef
<1>2. Workspace => \A c \in PeerRefs : Present(disk'.root[c])
  BY <1>1, PeersAssumption DEF RootKept, Present
<1>3. QED
  BY <1>1, <1>2 DEF Loads, IsRef, Present

(* While the picker is open only the user writes. *)
LEMMA PickerWaits ==
    ASSUME TypeOK, [Next]_vars, cmd.op = "add", cmd.pc = "picker"
    PROVE  (Environment \/ disk' = disk) /\ cmd'.op # "sync"
<1>1. ~CommandBegins
  <2>1. cmd # Idle
    BY DEF Idle
  <2>2. QED
    BY <2>1 DEF CommandBegins, OtherCommand, Add, AddInteractive, Sync, Rm, RmAsk, Begins
<1>2. CommandSteps => disk' = disk
  BY DEF CommandSteps, WriteRoot, WriteManifest, WriteState, Pick, SyncPack, SyncFails,
         RmAnswer, Quit
<1>3. cmd'.op # "sync"
  <2>1. CASE \E feats, rows : Pick(feats, rows)
    BY <2>1, DraftOps DEF Pick
  <2>2. CASE Quit \/ Environment \/ UNCHANGED vars
    BY <2>2, UserMoves DEF Quit, Idle, vars
  <2>3. QED
    BY <1>1, <2>1, <2>2 DEF Next, CommandSteps, WriteRoot, WriteManifest, WriteState,
                            SyncPack, SyncFails, RmAnswer
<1>4. QED
  BY <1>1, <1>2, <1>3 DEF Next, vars

(* The user does not break a workspace whose rows he keeps. *)
LEMMA EnvironmentLoads ==
    ASSUME TypeOK, Environment, RootKept, Loads(disk)
    PROVE  Loads(disk)'
<1>1. disk \in Disk /\ disk.deps \in Tables /\ disk.root \in [Crates -> Entry]
  BY DEF TypeOK, Disk
<1>2. CASE \E p \in Packs : RegisterPack(p) \/ Publish(p)
  <2>1. disk'.deps = disk.deps
    BY <1>1, <1>2 DEF RegisterPack, Publish, Disk
  <2>2. QED
    BY <2>1, BackedItself, LoadsStep
<1>3. CASE \E row \in UserRows : UserWrites(row)
  <2>1. PICK row \in UserRows : UserWrites(row)
    BY <1>3
  <2>2. /\ disk' = [disk EXCEPT !.deps[row.section][row.crate] = row.entry]
        /\ IsRef(row.entry) => Present(disk.root[row.crate])
    BY <2>1 DEF UserWrites, IsRef
  <2>3. disk'.root = disk.root
    BY <1>1, <2>2 DEF Disk
  <2>4. \A s \in Sections, c \in Crates :
           disk'.deps[s][c] = IF s = row.section /\ c = row.crate THEN row.entry
                              ELSE disk.deps[s][c]
    BY <1>1, <2>2 DEF Disk, Tables
  <2>5. Backed(disk'.deps, disk.deps, disk'.root)
    BY <2>2, <2>3, <2>4 DEF Backed
  <2>6. QED
    BY <2>5, LoadsStep
<1>4. CASE \E row \in RootRows : UserWritesRoot(row)
  <2>1. disk'.deps = disk.deps
    BY <1>1, <1>4 DEF UserWritesRoot, Disk
  <2>2. QED
    BY <2>1, BackedItself, LoadsStep
<1>5. QED
  BY <1>2, <1>3, <1>4 DEF Environment

(* Drafts stay backed, so each write of add or sync keeps the workspace loading. *)
LEMMA LoadsKept ==
    ASSUME TypeOK, RefsBacked, [Next]_vars
    PROVE  RefsBacked' /\ (cmd.op \in {"add", "sync"} => LoadsOn)
<1>1. /\ disk \in Disk /\ disk.deps \in Tables /\ disk.root \in [Crates -> Entry]
      /\ cmd \in Command(DOMAIN cmd.crates) /\ cmd.deps \in Tables
      /\ cmd.root \in [Crates -> Entry] /\ Phases(cmd)
      /\ Idle.op = "none" /\ Idle.pc = "idle"
  BY DEF TypeOK, CommandOK, Disk, Command, Idle
<1>2. CASE cmd.op \notin {"add", "sync"}
  <2>1. CASE cmd'.op = "add"
    BY <1>2, <2>1, AddDraftsBacked
  <2>2. CASE cmd'.op = "sync"
    <3>1. disk'.deps = cmd'.deps
      BY <1>2, <2>2, OnlySync
    <3>2. QED
      BY <1>2, <3>1, BackedItself DEF RefsBacked
  <2>3. CASE cmd'.op \notin {"add", "sync"}
    BY <1>2, <2>3 DEF RefsBacked
  <2>4. QED
    BY <1>2, <2>1, <2>2, <2>3
<1>3. CASE cmd.op = "add" /\ cmd.pc = "picker"
  <2>1. Environment \/ disk' = disk
    BY <1>1, <1>3, PickerWaits
  <2>2. Environment => LoadsOn
    BY EnvironmentLoads DEF LoadsOn
  <2>3. disk' = disk => LoadsOn
    BY DEF LoadsOn, Loads
  <2>4. RefsBacked'
    <3>1. CASE cmd'.op = "add"
      BY <1>3, <3>1, AddDraftsBacked
    <3>2. CASE cmd'.op # "add"
      <4>1. cmd'.op # "sync"
        BY <1>1, <1>3, PickerWaits
      <4>2. QED
        BY <3>2, <4>1 DEF RefsBacked
    <3>3. QED
      BY <3>1, <3>2
  <2>5. QED
    BY <1>3, <2>1, <2>2, <2>3, <2>4
<1>4. CASE cmd.op \in {"add", "sync"} /\ cmd.pc # "picker"
  <2>1. Backed(cmd.deps, disk.deps, IF cmd.pc = "root" THEN cmd.root ELSE disk.root)
    BY <1>4 DEF RefsBacked
  <2>2. WriteRoot \/ WriteManifest \/ WriteState \/ SyncPack \/ SyncFails \/ Quit \/ UNCHANGED vars
    <3>1. CASE cmd.op = "sync"
      BY <3>1, OnlySync
    <3>2. CASE cmd.op = "add"
      BY <1>1, <1>4, <3>2, Writers DEF Phases
    <3>3. QED
      BY <1>4, <3>1, <3>2
  <2>3. CASE WriteRoot
    <3>1. /\ cmd.pc = "root" /\ disk'.root = cmd.root /\ disk'.deps = disk.deps
          /\ cmd' = [cmd EXCEPT !.pc = "manifest"]
      BY <1>1, <2>3 DEF WriteRoot, Disk
    <3>2. cmd'.pc # "root" /\ cmd'.deps = cmd.deps
      BY <1>1, <3>1 DEF Command
    <3>3. RefsBacked'
      BY <2>1, <3>1, <3>2 DEF RefsBacked, Backed
    <3>4. LoadsOn
      BY <3>1, BackedItself, LoadsStep DEF LoadsOn
    <3>5. QED
      BY <3>3, <3>4
  <2>4. CASE WriteManifest
    <3>1. /\ cmd.pc # "root" /\ disk'.root = disk.root /\ disk'.deps = cmd.deps
          /\ cmd' = IF cmd.op = "sync" THEN Idle ELSE [cmd EXCEPT !.pc = "state"]
      BY <1>1, <2>4 DEF WriteManifest, Disk
    <3>2. cmd' = Idle \/ cmd'.deps = cmd.deps
      BY <1>1, <3>1 DEF Command
    <3>3. RefsBacked'
      BY <1>1, <3>1, <3>2, BackedItself DEF RefsBacked
    <3>4. LoadsOn
      BY <2>1, <3>1, LoadsStep DEF LoadsOn
    <3>5. QED
      BY <3>3, <3>4
  <2>5. CASE WriteState
    <3>1. cmd.pc # "root" /\ disk'.root = disk.root /\ disk'.deps = disk.deps
      BY <1>1, <2>5 DEF WriteState, Disk
    <3>2. cmd' = Idle \/ \E pc \in {"manifest", "load"} : cmd' = [cmd EXCEPT !.pc = pc]
      BY <2>5 DEF WriteState
    <3>3. cmd' = Idle \/ (cmd'.deps = cmd.deps /\ cmd'.pc # "root")
      BY <1>1, <3>2 DEF Command
    <3>4. RefsBacked'
      BY <1>1, <2>1, <3>1, <3>3 DEF RefsBacked, Backed
    <3>5. LoadsOn
      BY <3>1, BackedItself, LoadsStep DEF LoadsOn
    <3>6. QED
      BY <3>4, <3>5
  <2>6. CASE SyncPack
    <3>1. PICK p \in cmd.todo :
             LET expected == ResolveForFeatures(Loaded(p), disk.saved[p].active)
             IN  /\ disk' = [disk EXCEPT !.root = SyncRoot(@, expected)]
                 /\ cmd' = [cmd EXCEPT !.pc = "state", !.pack = p, !.todo = @ \ {p},
                                       !.deps = SyncDeps(@, expected),
                                       !.entry = StateOf(disk.saved[p].active, expected)]
      BY <2>6 DEF SyncPack
    <3> DEFINE expected == ResolveForFeatures(Loaded(p), disk.saved[p].active)
    <3>2. CrateMap(expected)
      <4>1. p \in Packs /\ cmd.path \in Packs \cup {0}
        BY <1>1 DEF Command
      <4>2. Known(Loaded(p))
        BY <4>1, SpecKnown DEF Loaded
      <4>3. QED
        BY <4>2, OfferedType
    <3>3. /\ disk'.deps = disk.deps /\ disk'.root = SyncRoot(disk.root, expected)
          /\ cmd'.deps = SyncDeps(cmd.deps, expected) /\ cmd'.pc = "state"
      BY <1>1, <3>1 DEF Disk, Command
    <3> HIDE DEF expected
    <3>4. cmd.pc # "root"
      BY <2>6 DEF SyncPack
    <3>5. Backed(cmd'.deps, disk.deps, disk'.root)
      BY <1>1, <2>1, <3>2, <3>3, <3>4, SyncBacked
    <3>6. RefsBacked'
      BY <3>3, <3>5 DEF RefsBacked
    <3>7. LoadsOn
      BY <3>3, BackedItself, LoadsStep DEF LoadsOn
    <3>8. QED
      BY <3>6, <3>7
  <2>7. CASE SyncFails \/ Quit
    <3>1. disk' = disk /\ cmd' = Idle
      BY <2>7 DEF SyncFails, Quit
    <3>2. QED
      BY <1>1, <3>1 DEF RefsBacked, LoadsOn, Loads
  <2>8. CASE UNCHANGED vars
    BY <2>8 DEF vars, RefsBacked, LoadsOn, Loads
  <2>9. QED
    BY <2>2, <2>3, <2>4, <2>5, <2>6, <2>7, <2>8
<1>5. QED
  BY <1>1, <1>2, <1>3, <1>4 DEF Phases

(* Whatever the packs and wherever add or sync is interrupted, a workspace
   that loads still loads after each of their writes, and after each of the
   user's edits beside them, as long as no row of the workspace table goes. *)
THEOREM NothingDangles == ProjectSpec => NoNewDangling
<1>1. Init => RefsBacked
  BY DEF Init, RefsBacked, Idle
<1>2. TypeOK /\ RefsBacked /\ [Next]_vars => RefsBacked'
  BY LoadsKept
<1>3. TypeOK /\ RefsBacked /\ [Next]_vars =>
         [cmd.op \in {"add", "sync"} /\ RootKept /\ Loads(disk) => Loads(disk)']_vars
  BY LoadsKept DEF LoadsOn
<1>4. QED
  BY <1>1, <1>2, <1>3, TypeInvariance, PTL DEF ProjectSpec, NoNewDangling

-----------------------------------------------------------------------------
(* Rows that are synced. One row of a sync is what the packs that want its
   crate make of it, one after the other: asks[p] is what pack p wants, and
   row[some] what the row is when the packs of some, the first of those to do,
   have had their turn. *)
Asked(e, asks, p) == IF p \in DOMAIN asks THEN SyncEntry(e, asks[p]) ELSE e

RowRun(row, asks, todo) ==
    /\ DOMAIN asks \subseteq todo /\ todo \subseteq Packs
    /\ \A p \in DOMAIN asks : asks[p] \in CrateSpec
    /\ \A some \in SUBSET todo :
          /\ row[some] \in Entry
          /\ some # {} => row[some] = Asked(row[some \ {Max(some)}], asks, Max(some))

(* There is a last pack. *)
LEMMA PackBound ==
    /\ Cardinality(Packs) \in Nat /\ Packs \in SUBSET (1 .. Cardinality(Packs))
    /\ \A todo \in SUBSET Packs : todo # {} =>
          /\ Max(todo) \in todo /\ Max(todo) \in Packs
          /\ \A p \in todo : p <= Max(todo)
<1>1. Cardinality(Packs) \in Nat /\ Packs \in SUBSET (1 .. Cardinality(Packs))
  BY PacksAssumption, FS_CardinalityType
<1>2. ASSUME NEW todo \in SUBSET Packs, todo # {}
      PROVE  /\ Max(todo) \in todo /\ Max(todo) \in Packs
             /\ \A p \in todo : p <= Max(todo)
  <2>1. todo \in SUBSET (0 .. Cardinality(Packs))
    BY <1>1
  <2>2. QED
    BY <1>1, <1>2, <2>1, LargestOf
<1>3. QED
  BY <1>1, <1>2

(* A row without a version, a path or git dependency, that no sync gives one. *)
Bare(e) == Present(e) /\ e.ver = 0

(* Syncing a row gives the crate what it asks for and takes from no other what
   that one has, unless the two oppose each other. *)
LEMMA SyncMeets ==
    ASSUME NEW e \in Entry, NEW spec \in CrateSpec
    PROVE  /\ Present(SyncEntry(e, spec)) /\ (Bare(SyncEntry(e, spec)) <=> Bare(e))
           /\ spec.feats \subseteq SyncEntry(e, spec).feats
           /\ UpToDate(SyncEntry(e, spec), spec)
           /\ \A other \in CrateSpec :
                 /\ other.feats \subseteq e.feats => other.feats \subseteq SyncEntry(e, spec).feats
                 /\ Present(e) /\ UpToDate(e, other) /\ Agree(other, spec) =>
                       UpToDate(SyncEntry(e, spec), other)
<1>1. /\ e.ver \in Nat /\ e.req \in BOOLEAN /\ spec.ver \in Nat \ {0} /\ spec.req \in BOOLEAN
      /\ \A other \in CrateSpec : other.ver \in Nat \ {0} /\ other.req \in BOOLEAN
  BY DEF Entry, CrateSpec
<1> DEFINE new == SyncEntry(e, spec)
<1>2. CASE ~Present(e)
  <2>1. e = Absent /\ new = AddEntry(spec)
    BY <1>2 DEF Entry, SyncEntry
  <2>2. /\ Present(new) /\ e.feats = {} /\ new.feats = spec.feats
        /\ new.ver = spec.ver /\ new.req = spec.req
    BY <2>1 DEF Absent, AddEntry, Row, Present
  <2> HIDE DEF new
  <2>3. QED
    BY <1>1, <1>2, <2>2 DEF Bare, UpToDate, Text, new
<1>3. CASE Present(e)
  <2>1. /\ new.form = e.form /\ new.feats = e.feats \cup spec.feats
        /\ new.ver = IF Upgrades(e, spec) THEN spec.ver ELSE e.ver
        /\ new.req = IF Upgrades(e, spec) THEN spec.req ELSE e.req
    BY <1>3 DEF SyncEntry, Entry
  <2> HIDE DEF new
  <2>2. Present(new) /\ (Bare(new) <=> Bare(e))
    BY <1>1, <1>3, <2>1 DEF Present, Bare, Upgrades
  <2>3. UpToDate(new, spec)
    BY <1>1, <2>1 DEF UpToDate, Upgrades, Text
  <2>4. ASSUME NEW other \in CrateSpec, UpToDate(e, other), Agree(other, spec)
        PROVE  UpToDate(new, other)
    <3>1. CASE e.ver = 0
      BY <2>1, <3>1 DEF UpToDate, Upgrades
    <3>2. CASE e.ver # 0 /\ other.req
      BY <1>1, <2>1, <2>4, <3>2 DEF UpToDate, Upgrades, Text, Agree
    <3>3. CASE e.ver # 0 /\ ~other.req
      BY <1>1, <2>1, <2>4, <3>3 DEF UpToDate, Upgrades, Text, Agree
    <3>4. QED
      BY <3>1, <3>2, <3>3
  <2>5. QED
    BY <2>1, <2>2, <2>3, <2>4 DEF new
<1>4. QED
  BY <1>2, <1>3

(* An unopposed crate has what it asked for when the run is over. *)
LEMMA RowMeets ==
    ASSUME NEW row, NEW asks, NEW todo, RowRun(row, asks, todo), NEW some \in SUBSET todo
    PROVE  /\ Bare(row[some]) <=> Bare(row[{}])
           /\ \A p \in some \cap DOMAIN asks :
                 /\ Present(row[some]) /\ asks[p].feats \subseteq row[some].feats
                 /\ (\A q \in some \cap DOMAIN asks : p < q => Agree(asks[p], asks[q])) =>
                       UpToDate(row[some], asks[p])
<1> DEFINE Met(set) ==
             /\ Bare(row[set]) <=> Bare(row[{}])
             /\ \A p \in set \cap DOMAIN asks :
                   /\ Present(row[set]) /\ asks[p].feats \subseteq row[set].feats
                   /\ (\A q \in set \cap DOMAIN asks : p < q => Agree(asks[p], asks[q])) =>
                         UpToDate(row[set], asks[p])
           P == {set \in SUBSET todo : Met(set)}
<1>1. {} \in P
  OBVIOUS
<1>2. ASSUME NEW set \in SUBSET todo, set # {}, set \ {Max(set)} \in P
      PROVE  set \in P
  <2> DEFINE m == Max(set)
             rest == set \ {m}
  <2>1. /\ m \in set /\ m \in Nat /\ rest \in SUBSET todo /\ Met(rest)
        /\ \A p \in rest : p \in Nat /\ p < m
    <3>1. m \in set /\ m \in Packs /\ \A p \in set : p <= m
      BY <1>2, PackBound DEF RowRun
    <3>2. Packs \subseteq Nat /\ set \subseteq Packs
      BY PackBound DEF RowRun
    <3>3. m \in Nat /\ \A p \in rest : p \in Nat /\ p <= m /\ p # m
      BY <3>1, <3>2
    <3>4. \A p \in rest : p < m
      <4> HIDE DEF rest, m
      <4>1. QED
        BY <3>3
    <3>5. QED
      BY <1>2, <3>1, <3>3, <3>4
  <2>2. row[rest] \in Entry /\ row[set] \in Entry /\ row[set] = Asked(row[rest], asks, m)
    BY <1>2, <2>1 DEF RowRun
  <2>3. CASE m \notin DOMAIN asks
    <3>1. row[set] = row[rest] /\ set \cap DOMAIN asks = rest \cap DOMAIN asks
      BY <2>2, <2>3 DEF Asked
    <3>2. QED
      BY <2>1, <3>1
  <2>4. CASE m \in DOMAIN asks
    <3>1. row[set] = SyncEntry(row[rest], asks[m]) /\ asks[m] \in CrateSpec
      BY <2>2, <2>4 DEF Asked, RowRun
    <3>2. Bare(row[set]) <=> Bare(row[{}])
      BY <2>1, <2>2, <3>1, SyncMeets
    <3>3. ASSUME NEW p \in set \cap DOMAIN asks
          PROVE  /\ Present(row[set]) /\ asks[p].feats \subseteq row[set].feats
                 /\ (\A q \in set \cap DOMAIN asks : p < q => Agree(asks[p], asks[q])) =>
                       UpToDate(row[set], asks[p])
      <4>1. CASE p = m
        BY <2>2, <3>1, <4>1, SyncMeets
      <4>2. CASE p # m
        <5>1. p \in rest /\ p < m /\ asks[p] \in CrateSpec
          BY <2>1, <4>2 DEF RowRun
        <5>2. /\ Present(row[rest]) /\ asks[p].feats \subseteq row[rest].feats
              /\ (\A q \in rest \cap DOMAIN asks : p < q => Agree(asks[p], asks[q])) =>
                    UpToDate(row[rest], asks[p])
          BY <2>1, <5>1
        <5>3. /\ Present(row[set])
              /\ asks[p].feats \subseteq row[rest].feats => asks[p].feats \subseteq row[set].feats
              /\ Present(row[rest]) /\ UpToDate(row[rest], asks[p]) /\ Agree(asks[p], asks[m]) =>
                    UpToDate(row[set], asks[p])
          BY <2>2, <3>1, <5>1, SyncMeets
        <5> HIDE DEF rest
        <5>4. rest \subseteq set /\ m \in set \cap DOMAIN asks
          BY <2>1, <2>4 DEF rest
        <5>5. QED
          BY <5>1, <5>2, <5>3, <5>4
      <4>3. QED
        BY <4>1, <4>2
    <3>4. QED
      BY <3>2, <3>3
  <2>5. QED
    BY <2>3, <2>4
<1> HIDE DEF P
<1>3. todo \in SUBSET (1 .. Cardinality(Packs)) /\ Cardinality(Packs) \in Nat
  BY PackBound DEF RowRun
<1>4. SUBSET todo \subseteq P
  BY <1>1, <1>2, <1>3, SubsetInduction
<1>5. some \in P
  BY <1>4
<1>6. QED
  BY <1>5 DEF P

(* The version after a sync of a row depends on its version before, and after
   the sync with a requirement on nothing. *)
LEMMA SyncTexts ==
    ASSUME NEW e \in Entry, NEW spec \in CrateSpec
    PROVE  /\ Present(e) =>
                 /\ SyncEntry(e, spec).form = e.form /\ SyncEntry(e, spec).extra = e.extra
                 /\ SyncEntry(e, spec).feats = e.feats \cup spec.feats
                 /\ e.ver = 0 => Text(SyncEntry(e, spec)) = Text(e)
                 /\ UpToDate(e, spec) => Text(SyncEntry(e, spec)) = Text(e)
           /\ ~Bare(e) /\ spec.req => Text(SyncEntry(e, spec)) = Text(spec)
           /\ \A f \in Entry : Present(e) /\ Present(f) /\ Text(e) = Text(f) =>
                 Text(SyncEntry(e, spec)) = Text(SyncEntry(f, spec))
<1>1. spec.ver \in Nat \ {0} /\ spec.req \in BOOLEAN
  BY DEF CrateSpec
<1>2. ASSUME NEW g \in Entry, Present(g)
      PROVE  /\ SyncEntry(g, spec).form = g.form /\ SyncEntry(g, spec).extra = g.extra
             /\ SyncEntry(g, spec).feats = g.feats \cup spec.feats
             /\ Text(SyncEntry(g, spec)) = IF Upgrades(g, spec) THEN Text(spec) ELSE Text(g)
  <2> DEFINE new == SyncEntry(g, spec)
  <2>1. /\ new.form = g.form /\ new.extra = g.extra /\ new.feats = g.feats \cup spec.feats
        /\ new.ver = IF Upgrades(g, spec) THEN spec.ver ELSE g.ver
        /\ new.req = IF Upgrades(g, spec) THEN spec.req ELSE g.req
    BY <1>2 DEF SyncEntry, Entry
  <2> HIDE DEF new
  <2>2. Text(new) = IF Upgrades(g, spec) THEN Text(spec) ELSE Text(g)
    BY <2>1 DEF Text
  <2>3. QED
    BY <2>1, <2>2 DEF new
<1>3. ASSUME Present(e), UpToDate(e, spec)
      PROVE  ~Upgrades(e, spec)
  <2>1. e.ver \in Nat
    BY DEF Entry
  <2>2. QED
    BY <1>1, <1>3, <2>1 DEF UpToDate, Upgrades
<1>4. ASSUME ~Bare(e), spec.req
      PROVE  Text(SyncEntry(e, spec)) = Text(spec)
  <2>1. CASE Present(e)
    BY <1>2, <1>4, <2>1 DEF Bare, Upgrades
  <2>2. CASE ~Present(e)
    BY <2>2 DEF SyncEntry, AddEntry, Row, Text
  <2>3. QED
    BY <2>1, <2>2
<1>5. \A f \in Entry : Text(e) = Text(f) => (Upgrades(e, spec) <=> Upgrades(f, spec))
  <2>1. \A f \in Entry : Text(e) = Text(f) => e.ver = f.ver /\ e.req = f.req
    BY DEF Text
  <2>2. QED
    BY <2>1 DEF Upgrades
<1>6. e.ver = 0 => ~Upgrades(e, spec)
  BY DEF Upgrades
<1>7. QED
  BY <1>2, <1>3, <1>4, <1>5, <1>6

(* A run over the row that a run has left comes back to it. On the way it may
   differ from it in the version: packs that oppose each other change it back
   and forth, and the last requirement among them settles it. *)
LEMMA RowAgain ==
    ASSUME NEW row, NEW next, NEW asks, NEW todo,
           RowRun(row, asks, todo), RowRun(next, asks, todo), next[{}] = row[todo]
    PROVE  next[todo] = row[todo]
<1> DEFINE end == row[todo]
           wants == \E p \in DOMAIN asks : asks[p].req
           Close(set) ==
             /\ next[set].form = end.form /\ next[set].extra = end.extra
             /\ next[set].feats = end.feats
             /\ (end.ver = 0 \/ ~wants) => Text(next[set]) = Text(end)
             /\ end.ver # 0 /\ (\E p \in set \cap DOMAIN asks : asks[p].req) =>
                   Text(next[set]) = Text(row[set])
           P == {set \in SUBSET todo : Close(set)}
<1>1. {} \in P
  OBVIOUS
<1>2. /\ todo \in SUBSET (1 .. Cardinality(Packs)) /\ Cardinality(Packs) \in Nat
      /\ end \in Entry /\ DOMAIN asks \subseteq todo
      /\ \A p \in DOMAIN asks : asks[p] \in CrateSpec
  BY PackBound DEF RowRun
<1>3. /\ Bare(end) <=> Bare(row[{}])
      /\ \A p \in DOMAIN asks :
            /\ Present(end) /\ asks[p].feats \subseteq end.feats
            /\ ~wants => UpToDate(end, asks[p])
  <2>1. \A p \in DOMAIN asks : p \in todo \cap DOMAIN asks
    BY <1>2
  <2>2. ~wants => \A p, q \in DOMAIN asks : Agree(asks[p], asks[q])
    BY DEF Agree
  <2> HIDE DEF wants
  <2>3. QED
    BY <2>1, <2>2, RowMeets
<1>4. ASSUME NEW set \in SUBSET todo, set # {}, set \ {Max(set)} \in P
      PROVE  set \in P
  <2> DEFINE m == Max(set)
             rest == set \ {m}
  <2>1. m \in set /\ rest \in SUBSET todo /\ Close(rest)
    BY <1>4, PackBound DEF RowRun
  <2>2. /\ row[rest] \in Entry /\ row[set] = Asked(row[rest], asks, m)
        /\ next[rest] \in Entry /\ next[set] = Asked(next[rest], asks, m)
    BY <1>4, <2>1 DEF RowRun
  <2>3. CASE m \notin DOMAIN asks
    <3>1. /\ row[set] = row[rest] /\ next[set] = next[rest]
          /\ set \cap DOMAIN asks = rest \cap DOMAIN asks
      BY <2>2, <2>3 DEF Asked
    <3>2. QED
      BY <2>1, <3>1
  <2>4. CASE m \in DOMAIN asks
    <3> DEFINE spec == asks[m]
    <3>1. /\ row[set] = SyncEntry(row[rest], spec) /\ next[set] = SyncEntry(next[rest], spec)
          /\ spec \in CrateSpec /\ spec.feats \subseteq end.feats /\ Present(end)
          /\ ~wants => UpToDate(end, spec)
      BY <1>2, <1>3, <2>2, <2>4 DEF Asked
    <3>2. Present(next[rest])
      BY <2>1, <3>1 DEF Present
    <3> HIDE DEF spec, end, wants, rest
    <3>3. /\ next[set].form = end.form /\ next[set].extra = end.extra
          /\ next[set].feats = end.feats
      <4>1. /\ next[set].form = next[rest].form /\ next[set].extra = next[rest].extra
            /\ next[set].feats = next[rest].feats \cup spec.feats
        BY <2>2, <3>1, <3>2, SyncTexts
      <4>2. QED
        BY <2>1, <3>1, <4>1
    <3>4. ASSUME end.ver = 0 \/ ~wants
          PROVE  Text(next[set]) = Text(end)
      <4>1. Text(next[rest]) = Text(end)
        BY <2>1, <3>4
      <4>2. /\ end.ver = 0 => next[rest].ver = 0
            /\ UpToDate(end, spec) => UpToDate(next[rest], spec)
        BY <4>1 DEF Text, UpToDate
      <4>3. Text(next[set]) = Text(next[rest])
        BY <2>2, <3>1, <3>2, <3>4, <4>2, SyncTexts
      <4>4. QED
        BY <4>1, <4>3
    <3>5. ASSUME end.ver # 0, \E p \in set \cap DOMAIN asks : asks[p].req
          PROVE  Text(next[set]) = Text(row[set])
      <4>1. CASE spec.req
        <5>1. ~Bare(row[rest]) /\ ~Bare(next[rest])
          <6>1. Bare(row[rest]) <=> Bare(end)
            BY <1>3, <2>1, RowMeets
          <6>2. Bare(next[rest]) <=> Bare(end)
            BY <2>1, RowMeets DEF end
          <6>3. QED
            BY <3>5, <6>1, <6>2 DEF Bare
        <5>2. QED
          BY <2>2, <3>1, <4>1, <5>1, SyncTexts
      <4>2. CASE ~spec.req
        <5>1. PICK p \in rest \cap DOMAIN asks : asks[p].req
          BY <3>5, <4>2 DEF rest, spec
        <5>2. Text(next[rest]) = Text(row[rest])
          BY <2>1, <3>5, <5>1
        <5>3. Present(row[rest])
          BY <2>1, <5>1, RowMeets
        <5>4. QED
          BY <2>2, <3>1, <3>2, <5>2, <5>3, SyncTexts
      <4>3. QED
        BY <4>1, <4>2
    <3>6. QED
      BY <3>3, <3>4, <3>5
  <2>5. QED
    BY <2>3, <2>4
<1> HIDE DEF P
<1>5. SUBSET todo \subseteq P
  BY <1>1, <1>2, <1>4, SubsetInduction
<1>6. todo \in P
  BY <1>5
<1>7. Close(todo) /\ next[todo] \in Entry
  BY <1>6 DEF P, RowRun
<1>8. Text(next[todo]) = Text(end)
  <2>1. CASE end.ver = 0 \/ ~wants
    BY <1>7, <2>1
  <2>2. CASE end.ver # 0 /\ wants
    <3>1. \E p \in todo \cap DOMAIN asks : asks[p].req
      BY <1>2, <2>2
    <3>2. QED
      BY <1>7, <2>2, <3>1
  <2>3. QED
    BY <2>1, <2>2
<1>9. next[todo].ver = end.ver /\ next[todo].req = end.req
  BY <1>8 DEF Text
<1>10. \A e, f \in Entry :
          e.form = f.form /\ e.ver = f.ver /\ e.req = f.req /\ e.feats = f.feats /\ e.extra = f.extra
             => e = f
  BY DEF Entry
<1> HIDE DEF end, wants
<1>11. QED
  BY <1>2, <1>7, <1>9, <1>10 DEF end

(* The section of a crate. *)
LEMMA SectionsOf ==
    ASSUME NEW m, CrateMap(m), NEW c \in DOMAIN m
    PROVE  /\ m[c] \in CrateSpec /\ c \in Crates
           /\ SectionOf[m[c].kind] \in Sections
           /\ \A s : In(s, c, m) <=> s = SectionOf[m[c].kind]
<1>1. m[c] \in CrateSpec /\ c \in Crates
  BY DEF CrateMap
<1>2. m[c].kind \in Kinds
  BY <1>1 DEF CrateSpec
<1>3. QED
  BY <1>1, <1>2 DEF Kinds, SectionOf, Sections, In

-----------------------------------------------------------------------------
(* sync, pack by pack. *)

(* Files whose stored selections are not empty. *)
Files == {d \in Disk : \A p \in Packs : d.saved[p].active # {}}

(* Published revisions. *)
Revisions == {r \in [Packs -> Nat] : \A p \in Packs : r[p] \in DOMAIN Catalog[p]}

(* The spec sync takes for a pack, the crates it expects of it, and what it
   does, with these revisions. *)
SpecAt(r, path, p) ==
    Catalog[IF path = 0 THEN p ELSE path][r[IF path = 0 THEN p ELSE path]]

Wanted(r, path, d, p) == ResolveForFeatures(SpecAt(r, path, p), d.saved[p].active)

SyncOneAt(r, path, d, p) ==
    [d EXCEPT !.root = SyncRoot(@, Wanted(r, path, d, p)),
              !.deps = SyncDeps(@, Wanted(r, path, d, p)),
              !.saved[p] = StateOf(d.saved[p].active, Wanted(r, path, d, p))]

SyncAllAt(r, path, d, todo) ==
    MapThenFoldSet(LAMBDA p, acc : SyncOneAt(r, path, acc, p), d, LAMBDA p : p, Max, todo)

(* This is the sync of module ProjectSafety, at the revisions published now. *)
LEMMA SyncNow ==
    ASSUME NEW path, NEW d, NEW todo
    PROVE  SyncAll(path, d, todo) = SyncAllAt(rev, path, d, todo)
  BY DEF SyncAll, SyncAllAt, SyncOne, SyncOneAt, Wanted, SpecAt, Spec

(* What syncing pack p makes of the files. *)
SyncedOne(r, path, p, old, new) ==
    /\ CrateMap(Wanted(r, path, old, p)) /\ old \in Files /\ new \in Files
    /\ new.packs = old.packs
    /\ new.root = SyncRoot(old.root, Wanted(r, path, old, p))
    /\ new.deps = SyncDeps(old.deps, Wanted(r, path, old, p))
    /\ \A q \in Packs :
          new.saved[q] = IF q = p THEN StateOf(old.saved[p].active, Wanted(r, path, old, p))
                         ELSE old.saved[q]

(* Syncing one pack leaves files. *)
LEMMA SyncOneOK ==
    ASSUME NEW r \in Revisions, NEW d \in Files, NEW p \in Packs, NEW path \in Packs \cup {0}
    PROVE  SyncedOne(r, path, p, d, SyncOneAt(r, path, d, p))
<1> DEFINE active == d.saved[p].active
           expected == Wanted(r, path, d, p)
           entry == StateOf(active, expected)
           root == SyncRoot(d.root, expected)
           deps == SyncDeps(d.deps, expected)
           new == SyncOneAt(r, path, d, p)
<1>1. Known(SpecAt(r, path, p))
  BY CatalogAssumption DEF Revisions, Known, SpecAt
<1>2. CrateMap(expected)
  BY <1>1, OfferedType DEF Wanted
<1>3. /\ d \in Disk /\ d.saved \in [Packs -> SavedState] /\ d.deps \in Tables
      /\ d.root \in [Crates -> Entry] /\ active \in SUBSET FeatureNames /\ active # {}
      /\ d = [deps |-> d.deps, packs |-> d.packs, root |-> d.root, saved |-> d.saved]
      /\ d.packs \in SUBSET Packs
  <2>1. d \in Disk /\ active # {} /\ d.saved[p] \in SavedState
    BY DEF Files, Disk
  <2>2. active \in SUBSET FeatureNames
    BY <2>1 DEF SavedState
  <2>3. QED
    BY <2>1, <2>2 DEF Disk
<1>4. new = [d EXCEPT !.root = SyncRoot(@, expected), !.deps = SyncDeps(@, expected),
                      !.saved[p] = entry]
  BY DEF SyncOneAt
<1> HIDE DEF entry, expected, active
<1>5. entry \in SavedState /\ entry.active # {}
  BY <1>2, <1>3, StateTypes DEF entry
<1>6. root \in [Crates -> Entry] /\ deps \in Tables
  BY <1>2, <1>3, RootTypes, DepsTypes
<1>7. new = [deps |-> deps, packs |-> d.packs, root |-> root,
             saved |-> [d.saved EXCEPT ![p] = entry]]
  BY <1>3, <1>4
<1>8. [d.saved EXCEPT ![p] = entry] \in [Packs -> SavedState]
  BY <1>3, <1>5
<1>9. \A q \in Packs : [d.saved EXCEPT ![p] = entry][q].active # {}
  BY <1>3, <1>5 DEF Files
<1> HIDE DEF root, deps, new
<1>10. new \in Files
  BY <1>3, <1>6, <1>7, <1>8, <1>9 DEF Files, Disk
<1>11. \A q \in Packs : [d.saved EXCEPT ![p] = entry][q] = IF q = p THEN entry ELSE d.saved[q]
  BY <1>3
<1>12. QED
  BY <1>2, <1>7, <1>10, <1>11 DEF SyncedOne, active, expected, entry, root, deps, new

(* Syncing a set of packs is syncing all but the last, then the last. *)
LEMMA SyncAllRuns ==
    ASSUME NEW r \in Revisions, NEW d \in Files, NEW path \in Packs \cup {0}
    PROVE  /\ SyncAllAt(r, path, d, {}) = d
           /\ \A todo \in SUBSET Packs :
                 /\ SyncAllAt(r, path, d, todo) \in Files
                 /\ todo # {} =>
                       SyncAllAt(r, path, d, todo) =
                          SyncOneAt(r, path, SyncAllAt(r, path, d, todo \ {Max(todo)}), Max(todo))
<1> DEFINE N == Cardinality(Packs)
           step == [x \in Files \X Packs |-> SyncOneAt(r, path, x[1], x[2])]
<1>1. N \in Nat /\ Packs \in SUBSET (1 .. N)
  BY PackBound
<1>2. step \in [Files \X Packs -> Files]
  <2>1. \A x \in Files \X Packs : SyncOneAt(r, path, x[1], x[2]) \in Files
    BY SyncOneOK DEF SyncedOne
  <2>2. QED
    BY <2>1
<1>3. \A a \in Files, p \in Packs : step[<<a, p>>] = SyncOneAt(r, path, a, p)
  OBVIOUS
<1> HIDE DEF step, N
<1>4. PICK all \in [SUBSET Packs -> Files] : RunsOver(Packs, d, step, all)
  BY <1>1, <1>2, SetRun
<1>5. ASSUME NEW todo \in SUBSET Packs
      PROVE  SyncAllAt(r, path, d, todo) = all[todo]
  <2> DEFINE Def(f) ==
               f = [s \in SUBSET todo |->
                      IF s = {} THEN d ELSE SyncOneAt(r, path, f[s \ {Max(s)}], Max(s))]
             F == CHOOSE f : Def(f)
             mine == [s \in SUBSET todo |-> all[s]]
  <2>1. \A s \in SUBSET todo : s \in SUBSET Packs /\ s \ {Max(s)} \in SUBSET todo
    OBVIOUS
  <2>2. ASSUME NEW s \in SUBSET todo
        PROVE  mine[s] = IF s = {} THEN d ELSE SyncOneAt(r, path, mine[s \ {Max(s)}], Max(s))
    <3>1. CASE s = {}
      BY <1>4, <3>1 DEF RunsOver
    <3>2. CASE s # {}
      <4>1. Max(s) \in Packs /\ all[s \ {Max(s)}] \in Files /\ s \in SUBSET Packs
        BY <2>1, <3>2, PackBound
      <4>2. all[s] = step[<<all[s \ {Max(s)}], Max(s)>>]
        BY <1>4, <3>2, <4>1 DEF RunsOver
      <4>3. mine[s] = all[s] /\ mine[s \ {Max(s)}] = all[s \ {Max(s)}]
        BY <2>1
      <4>4. QED
        BY <1>3, <3>2, <4>1, <4>2, <4>3
    <3>3. QED
      BY <3>1, <3>2
  <2>3. Def(mine)
    BY <2>2
  <2>4. Def(F)
    BY <2>3
  <2>5. SyncAllAt(r, path, d, todo) = F[todo]
    BY DEF SyncAllAt, MapThenFoldSet
  <2>6. \A s \in SUBSET todo :
           F[s] = IF s = {} THEN d ELSE SyncOneAt(r, path, F[s \ {Max(s)}], Max(s))
    BY <2>4
  <2> HIDE DEF F, mine
  <2> DEFINE P == {s \in SUBSET todo : F[s] = mine[s]}
  <2>7. {} \in P
    BY <2>2, <2>6
  <2>8. \A s \in SUBSET todo : s # {} /\ s \ {Max(s)} \in P => s \in P
    BY <2>1, <2>2, <2>6
  <2> HIDE DEF P
  <2>9. todo \in SUBSET (1 .. N)
    BY <1>1
  <2>10. SUBSET todo \subseteq P
    BY <1>1, <2>7, <2>8, <2>9, SubsetInduction
  <2>11. F[todo] = mine[todo]
    BY <2>10 DEF P
  <2>12. QED
    BY <2>5, <2>11 DEF mine
<1>6. SyncAllAt(r, path, d, {}) = d
  BY <1>4, <1>5 DEF RunsOver
<1>7. ASSUME NEW todo \in SUBSET Packs, todo # {}
      PROVE  SyncAllAt(r, path, d, todo) =
                SyncOneAt(r, path, SyncAllAt(r, path, d, todo \ {Max(todo)}), Max(todo))
  <2>1. Max(todo) \in Packs /\ todo \ {Max(todo)} \in SUBSET Packs
    BY <1>7, PackBound
  <2>2. all[todo] = step[<<all[todo \ {Max(todo)}], Max(todo)>>]
    BY <1>4, <1>7 DEF RunsOver
  <2>3. QED
    BY <1>3, <1>5, <2>1, <2>2
<1>8. QED
  BY <1>5, <1>6, <1>7

(* The last step of syncing a set of packs. *)
LEMMA SyncLast ==
    ASSUME NEW r \in Revisions, NEW path \in Packs \cup {0},
           NEW todo \in SUBSET Packs, todo # {}
    PROVE  \E p \in todo, rest \in SUBSET Packs :
              /\ p = Max(todo) /\ rest = todo \ {Max(todo)} /\ p \in Packs /\ p \notin rest
              /\ todo \subseteq rest \cup {p} /\ rest \subseteq todo
              /\ \A d \in Files :
                    SyncedOne(r, path, p, SyncAllAt(r, path, d, rest), SyncAllAt(r, path, d, todo))
<1> DEFINE p == Max(todo)
           rest == todo \ {Max(todo)}
<1>1. p \in todo /\ p \in Packs
  BY PackBound
<1>2. rest \in SUBSET Packs /\ p \notin rest /\ todo \subseteq rest \cup {p} /\ rest \subseteq todo
  OBVIOUS
<1>3. ASSUME NEW d \in Files
      PROVE  SyncedOne(r, path, p, SyncAllAt(r, path, d, rest), SyncAllAt(r, path, d, todo))
  <2>1. SyncAllAt(r, path, d, todo) = SyncOneAt(r, path, SyncAllAt(r, path, d, rest), p)
    BY SyncAllRuns
  <2> HIDE DEF p, rest
  <2>2. SyncAllAt(r, path, d, rest) \in Files
    BY <1>2, SyncAllRuns
  <2>3. QED
    BY <1>1, <2>1, <2>2, SyncOneOK
<1>4. QED
  BY <1>1, <1>2, <1>3

(* "all" stands for itself, and no selection is empty, so what is stored of a
   selection asks for the same crates. *)
LEMMA StoredMeansSame ==
    ASSUME NEW A, A # {}
    PROVE  /\ Stored(Stored(A)) = Stored(A) /\ Stored(A) # {}
           /\ \A p : ResolveForFeatures(p, Stored(A)) = ResolveForFeatures(p, A)
<1>1. Stored(A) = IF IsAll(A) THEN {"all"} ELSE A
  BY DEF Stored
<1>2. IsAll(Stored(A)) <=> IsAll(A)
  BY <1>1 DEF IsAll
<1>3. \A p : Names(p, Stored(A)) = Names(p, A)
  BY <1>1, <1>2 DEF Names
<1>4. \A p : Offered(p, Stored(A)) = Offered(p, A)
  BY <1>2, <1>3 DEF Offered
<1>5. \A p : ResolveForFeatures(p, Stored(A)) = ResolveForFeatures(p, A)
  BY <1>3, <1>4 DEF ResolveForFeatures
<1>6. Stored(Stored(A)) = Stored(A) /\ Stored(A) # {}
  BY <1>1, <1>2 DEF Stored
<1>7. QED
  BY <1>5, <1>6

(* What has become of the records by syncing some packs: each of these says
   what it asks for; the other packs' entries are as they were. *)
SyncDone(r, path, d, todo, new) ==
    /\ new \in Files /\ new.packs = d.packs
    /\ \A p \in Packs \ todo : new.saved[p] = d.saved[p]
    /\ \A p \in todo : new.saved[p] = StateOf(d.saved[p].active, Wanted(r, path, d, p))

(* The crates wanted of a pack are crates, and files have their types. *)
LEMMA WantedType ==
    ASSUME NEW r \in Revisions, NEW d \in Files, NEW p \in Packs, NEW path \in Packs \cup {0}
    PROVE  CrateMap(Wanted(r, path, d, p)) /\ d.deps \in Tables /\ d.root \in [Crates -> Entry]
           /\ d.saved \in [Packs -> SavedState] /\ d.saved[p].active # {}
           /\ d.packs \in SUBSET Packs
<1>1. SyncedOne(r, path, p, d, SyncOneAt(r, path, d, p))
  BY SyncOneOK
<1>2. CrateMap(Wanted(r, path, d, p))
  BY <1>1 DEF SyncedOne
<1>3. QED
  BY <1>2 DEF Files, Disk

(* Syncing does just that. *)
LEMMA SyncAllDoes ==
    ASSUME NEW r \in Revisions, NEW d \in Files, NEW path \in Packs \cup {0}
    PROVE  \A todo \in SUBSET Packs : SyncDone(r, path, d, todo, SyncAllAt(r, path, d, todo))
<1> DEFINE P == {todo \in SUBSET Packs : SyncDone(r, path, d, todo, SyncAllAt(r, path, d, todo))}
<1>1. {} \in P
  BY SyncAllRuns DEF SyncDone
<1>2. ASSUME NEW todo \in SUBSET Packs, todo # {}, todo \ {Max(todo)} \in P
      PROVE  todo \in P
  <2>1. PICK p \in todo, rest \in SUBSET Packs :
           /\ p = Max(todo) /\ rest = todo \ {Max(todo)} /\ p \in Packs /\ p \notin rest
           /\ todo \subseteq rest \cup {p} /\ rest \subseteq todo
           /\ \A x \in Files :
                 SyncedOne(r, path, p, SyncAllAt(r, path, x, rest), SyncAllAt(r, path, x, todo))
    BY <1>2, SyncLast
  <2> DEFINE old == SyncAllAt(r, path, d, rest)
             new == SyncAllAt(r, path, d, todo)
             expected == Wanted(r, path, old, p)
  <2>2. SyncDone(r, path, d, rest, old)
    BY <1>2, <2>1
  <2>3. SyncedOne(r, path, p, old, new)
    BY <2>1
  <2> HIDE DEF old, new
  <2>4. old.saved[p] = d.saved[p] /\ expected = Wanted(r, path, d, p)
    BY <2>1, <2>2 DEF SyncDone, Wanted
  <2>5. /\ new \in Files /\ new.packs = old.packs
        /\ \A q \in Packs : new.saved[q] = IF q = p THEN StateOf(old.saved[p].active, expected)
                                           ELSE old.saved[q]
    BY <2>3 DEF SyncedOne
  <2> HIDE DEF expected
  <2>6. \A q \in Packs \ todo : new.saved[q] = d.saved[q]
    BY <2>1, <2>2, <2>5 DEF SyncDone
  <2>7. ASSUME NEW q \in todo
        PROVE  new.saved[q] = StateOf(d.saved[q].active, Wanted(r, path, d, q))
    <3>1. CASE q = p
      BY <2>1, <2>4, <2>5, <3>1
    <3>2. CASE q # p
      <4>1. q \in rest /\ q \in Packs
        BY <2>1, <3>2
      <4>2. QED
        BY <2>2, <2>5, <3>2, <4>1 DEF SyncDone
    <3>3. QED
      BY <3>1, <3>2
  <2>8. SyncDone(r, path, d, todo, new)
    BY <2>2, <2>5, <2>6, <2>7 DEF SyncDone
  <2>9. QED
    BY <2>8 DEF new
<1> HIDE DEF P
<1>3. SUBSET Packs \subseteq P
  BY <1>1, <1>2, PackBound, SubsetInduction
<1>4. QED
  BY <1>3 DEF P

(* What the last pack of a set makes of the tables. *)
LEMMA SyncAllLast ==
    ASSUME NEW r \in Revisions, NEW d \in Files, NEW path \in Packs \cup {0},
           NEW some \in SUBSET Packs, some # {}
    PROVE  LET p == Max(some)
               old == SyncAllAt(r, path, d, some \ {p})
               new == SyncAllAt(r, path, d, some)
               expected == Wanted(r, path, d, p)
           IN  /\ p \in some /\ CrateMap(expected)
               /\ old.deps \in Tables /\ old.root \in [Crates -> Entry]
               /\ new.root = SyncRoot(old.root, expected)
               /\ new.deps = SyncDeps(old.deps, expected)
<1>1. PICK p \in some, rest \in SUBSET Packs :
         /\ p = Max(some) /\ rest = some \ {Max(some)} /\ p \in Packs /\ p \notin rest
         /\ some \subseteq rest \cup {p} /\ rest \subseteq some
         /\ \A x \in Files :
               SyncedOne(r, path, p, SyncAllAt(r, path, x, rest), SyncAllAt(r, path, x, some))
  BY SyncLast
<1> DEFINE old == SyncAllAt(r, path, d, rest)
           new == SyncAllAt(r, path, d, some)
<1>2. SyncDone(r, path, d, rest, old) /\ SyncedOne(r, path, p, old, new)
  BY <1>1, SyncAllDoes
<1> HIDE DEF old, new
<1>3. Wanted(r, path, old, p) = Wanted(r, path, d, p)
  BY <1>1, <1>2 DEF SyncDone, Wanted
<1>4. /\ CrateMap(Wanted(r, path, d, p)) /\ old \in Files
      /\ new.root = SyncRoot(old.root, Wanted(r, path, d, p))
      /\ new.deps = SyncDeps(old.deps, Wanted(r, path, d, p))
  BY <1>2, <1>3 DEF SyncedOne
<1>5. old.deps \in Tables /\ old.root \in [Crates -> Entry]
  BY <1>4 DEF Files, Disk
<1>6. QED
  BY <1>1, <1>4, <1>5 DEF old, new

(* What the packs want of one row: of the workspace table, or of a section. *)
RootAsks(r, path, d, todo, c) ==
    [p \in {q \in todo : c \in DOMAIN Wanted(r, path, d, q)} |-> Wanted(r, path, d, p)[c]]

DepAsks(r, path, d, todo, s, c) ==
    [p \in {q \in todo : In(s, c, Wanted(r, path, d, q))} |-> Wanted(r, path, d, p)[c]]

(* A sync of many packs is a run over each row. *)
LEMMA SyncAllRows ==
    ASSUME NEW r \in Revisions, NEW d \in Files, NEW path \in Packs \cup {0},
           NEW todo \in SUBSET Packs, NEW c \in Crates
    PROVE  /\ Workspace =>
                 RowRun([some \in SUBSET todo |-> SyncAllAt(r, path, d, some).root[c]],
                        RootAsks(r, path, d, todo, c), todo)
           /\ \A s \in Sections : ~Workspace =>
                 RowRun([some \in SUBSET todo |-> SyncAllAt(r, path, d, some).deps[s][c]],
                        DepAsks(r, path, d, todo, s, c), todo)
<1>1. ASSUME NEW some \in SUBSET todo
      PROVE  /\ SyncAllAt(r, path, d, some).root[c] \in Entry
             /\ \A s \in Sections : SyncAllAt(r, path, d, some).deps[s][c] \in Entry
  <2>1. SyncAllAt(r, path, d, some) \in Files
    BY SyncAllRuns
  <2>2. QED
    BY <2>1 DEF Files, Disk, Tables
<1>2. \A p \in todo : CrateMap(Wanted(r, path, d, p))
  BY WantedType
<1>3. ASSUME NEW some \in SUBSET todo, some # {}
      PROVE  LET p == Max(some)
                 old == SyncAllAt(r, path, d, some \ {p})
                 new == SyncAllAt(r, path, d, some)
                 expected == Wanted(r, path, d, p)
             IN  /\ p \in todo /\ some \ {p} \in SUBSET todo
                 /\ new.root[c] = IF Workspace /\ c \in DOMAIN expected
                                  THEN SyncEntry(old.root[c], expected[c]) ELSE old.root[c]
                 /\ \A s \in Sections : ~Workspace =>
                       new.deps[s][c] = IF In(s, c, expected)
                                        THEN SyncEntry(old.deps[s][c], expected[c])
                                        ELSE old.deps[s][c]
  <2> DEFINE p == Max(some)
             old == SyncAllAt(r, path, d, some \ {p})
             new == SyncAllAt(r, path, d, some)
             expected == Wanted(r, path, d, p)
  <2>1. some \in SUBSET Packs
    OBVIOUS
  <2>2. /\ p \in some /\ new.root = SyncRoot(old.root, expected)
        /\ new.deps = SyncDeps(old.deps, expected)
    BY <1>3, <2>1, SyncAllLast
  <2> HIDE DEF p, old, new, expected
  <2>3. new.root[c] = IF Workspace /\ c \in DOMAIN expected
                     THEN SyncEntry(old.root[c], expected[c]) ELSE old.root[c]
    BY <2>2 DEF SyncRoot
  <2>4. ASSUME NEW s \in Sections, ~Workspace
        PROVE  new.deps[s][c] = IF In(s, c, expected) THEN SyncEntry(old.deps[s][c], expected[c])
                                ELSE old.deps[s][c]
    BY <2>2, <2>4 DEF SyncDeps
  <2>5. p \in todo /\ some \ {p} \in SUBSET todo
    BY <2>2
  <2>6. QED
    BY <2>3, <2>4, <2>5 DEF p, old, new, expected
<1>4. ASSUME Workspace
      PROVE  RowRun([some \in SUBSET todo |-> SyncAllAt(r, path, d, some).root[c]],
                    RootAsks(r, path, d, todo, c), todo)
  <2> DEFINE row == [some \in SUBSET todo |-> SyncAllAt(r, path, d, some).root[c]]
             asks == RootAsks(r, path, d, todo, c)
  <2>1. /\ DOMAIN asks = {q \in todo : c \in DOMAIN Wanted(r, path, d, q)}
        /\ \A p \in DOMAIN asks : asks[p] = Wanted(r, path, d, p)[c]
    BY DEF RootAsks
  <2>2. \A p \in DOMAIN asks : asks[p] \in CrateSpec
    BY <1>2, <2>1 DEF CrateMap
  <2> HIDE DEF asks
  <2>3. \A some \in SUBSET todo :
           /\ row[some] \in Entry
           /\ some # {} => row[some] = Asked(row[some \ {Max(some)}], asks, Max(some))
    BY <1>1, <1>3, <1>4, <2>1 DEF Asked
  <2> HIDE DEF row
  <2>4. RowRun(row, asks, todo)
    BY <2>1, <2>2, <2>3 DEF RowRun
  <2>5. QED
    BY <2>4 DEF row, asks
<1>5. ASSUME ~Workspace, NEW s \in Sections
      PROVE  RowRun([some \in SUBSET todo |-> SyncAllAt(r, path, d, some).deps[s][c]],
                    DepAsks(r, path, d, todo, s, c), todo)
  <2> DEFINE row == [some \in SUBSET todo |-> SyncAllAt(r, path, d, some).deps[s][c]]
             asks == DepAsks(r, path, d, todo, s, c)
  <2>1. /\ DOMAIN asks = {q \in todo : In(s, c, Wanted(r, path, d, q))}
        /\ \A p \in DOMAIN asks : asks[p] = Wanted(r, path, d, p)[c]
    BY DEF DepAsks
  <2>2. \A p \in DOMAIN asks : asks[p] \in CrateSpec
    BY <1>2, <2>1 DEF CrateMap, In
  <2> HIDE DEF asks
  <2>3. \A some \in SUBSET todo :
           /\ row[some] \in Entry
           /\ some # {} => row[some] = Asked(row[some \ {Max(some)}], asks, Max(some))
    BY <1>1, <1>3, <1>5, <2>1 DEF Asked
  <2> HIDE DEF row
  <2>4. RowRun(row, asks, todo)
    BY <2>1, <2>2, <2>3 DEF RowRun
  <2>5. QED
    BY <2>4 DEF row, asks
<1>6. QED
  BY <1>4, <1>5

(* Without a workspace sync leaves its table alone; in one it adds references
   to the sections and changes no row of theirs. *)
LEMMA SyncAllRefs ==
    ASSUME NEW r \in Revisions, NEW d \in Files, NEW path \in Packs \cup {0},
           NEW todo \in SUBSET Packs
    PROVE  /\ ~Workspace => SyncAllAt(r, path, d, todo).root = d.root
           /\ Workspace => \A s \in Sections, c \in Crates :
                 SyncAllAt(r, path, d, todo).deps[s][c] =
                    IF ~Present(d.deps[s][c]) /\ \E p \in todo : In(s, c, Wanted(r, path, d, p))
                    THEN Ref ELSE d.deps[s][c]
<1> DEFINE Left(some) ==
             /\ ~Workspace => SyncAllAt(r, path, d, some).root = d.root
             /\ Workspace => \A s \in Sections, c \in Crates :
                   SyncAllAt(r, path, d, some).deps[s][c] =
                      IF ~Present(d.deps[s][c]) /\ \E p \in some : In(s, c, Wanted(r, path, d, p))
                      THEN Ref ELSE d.deps[s][c]
           P == {some \in SUBSET Packs : Left(some)}
<1>1. {} \in P
  BY SyncAllRuns
<1>2. ASSUME NEW some \in SUBSET Packs, some # {}, some \ {Max(some)} \in P
      PROVE  some \in P
  <2> DEFINE p == Max(some)
             rest == some \ {p}
             old == SyncAllAt(r, path, d, rest)
             new == SyncAllAt(r, path, d, some)
             expected == Wanted(r, path, d, p)
  <2>1. /\ p \in some /\ old.root \in [Crates -> Entry]
        /\ new.root = SyncRoot(old.root, expected)
        /\ new.deps = SyncDeps(old.deps, expected)
    <3>1. some # {} /\ some \in SUBSET Packs
      BY <1>2
    <3>2. LET m == Max(some)
              was == SyncAllAt(r, path, d, some \ {m})
              is == SyncAllAt(r, path, d, some)
              asked == Wanted(r, path, d, m)
          IN  /\ m \in some /\ was.root \in [Crates -> Entry]
              /\ is.root = SyncRoot(was.root, asked) /\ is.deps = SyncDeps(was.deps, asked)
      BY <3>1, SyncAllLast, ZenonT(30)
    <3>3. QED
      BY <3>2
  <2>2. Left(rest)
    BY <1>2
  <2>3. ~Workspace => new.root = d.root
    BY <2>1, <2>2 DEF SyncRoot
  <2>4. ASSUME Workspace, NEW s \in Sections, NEW c \in Crates
        PROVE  new.deps[s][c] =
                  IF ~Present(d.deps[s][c]) /\ \E q \in some : In(s, c, Wanted(r, path, d, q))
                  THEN Ref ELSE d.deps[s][c]
    <3>1. new.deps[s][c] = IF In(s, c, expected) /\ ~Present(old.deps[s][c]) THEN Ref
                           ELSE old.deps[s][c]
      BY <2>1, <2>4 DEF SyncDeps
    <3>2. (\E q \in some : In(s, c, Wanted(r, path, d, q))) <=>
             In(s, c, expected) \/ \E q \in rest : In(s, c, Wanted(r, path, d, q))
      BY <2>1
    <3>3. Present(Ref)
      BY DEF Ref, Row, Present
    <3> HIDE DEF expected, rest, new
    <3>4. QED
      BY <2>2, <2>4, <3>1, <3>2, <3>3
  <2>5. QED
    BY <2>3, <2>4
<1> HIDE DEF P
<1>3. SUBSET Packs \subseteq P
  BY <1>1, <1>2, PackBound, SubsetInduction
<1>4. todo \in P
  BY <1>3
<1>5. QED
  BY <1>4 DEF P

(* So, after a sync, every pack of it has what it asks for. *)
LEMMA SyncAllMeets ==
    ASSUME NEW r \in Revisions, NEW d \in Files, NEW path \in Packs \cup {0},
           NEW todo \in SUBSET Packs, NEW p \in todo
    PROVE  SyncedTo(SyncAllAt(r, path, d, todo), p, [q \in todo |-> Wanted(r, path, d, q)])
<1> DEFINE new == SyncAllAt(r, path, d, todo)
           wanted == [q \in todo |-> Wanted(r, path, d, q)]
<1>1. new.saved[p].managed = DOMAIN wanted[p]
  <2>1. new.saved[p] = StateOf(d.saved[p].active, Wanted(r, path, d, p))
    BY SyncAllDoes DEF SyncDone
  <2> HIDE DEF new
  <2>2. QED
    BY <2>1 DEF StateOf
<1>2. ASSUME NEW c \in DOMAIN wanted[p]
      PROVE  LET spec == wanted[p][c]
                 declared == new.deps[SectionOf[spec.kind]][c]
                 row == IF Workspace THEN new.root[c] ELSE declared
             IN  /\ Present(declared) /\ Present(row)
                 /\ spec.feats \subseteq row.feats
                 /\ Unopposed(p, c, wanted) => UpToDate(row, spec)
  <2> DEFINE s == SectionOf[wanted[p][c].kind]
  <2>1. CrateMap(Wanted(r, path, d, p)) /\ c \in DOMAIN Wanted(r, path, d, p)
    BY WantedType
  <2>2. c \in Crates /\ s \in Sections /\ In(s, c, Wanted(r, path, d, p))
    BY <2>1, SectionsOf
  <2>3. CASE Workspace
    <3> DEFINE row == [some \in SUBSET todo |-> SyncAllAt(r, path, d, some).root[c]]
               asks == RootAsks(r, path, d, todo, c)
    <3>1. RowRun(row, asks, todo)
      BY <2>2, <2>3, SyncAllRows
    <3>2. /\ DOMAIN asks = {q \in todo : c \in DOMAIN wanted[q]}
          /\ \A q \in DOMAIN asks : asks[q] = wanted[q][c]
      BY DEF RootAsks
    <3>3. row[todo] = new.root[c] /\ todo \in SUBSET todo
      OBVIOUS
    <3> HIDE DEF row, asks, new, wanted
    <3>4. p \in todo \cap DOMAIN asks
      BY <3>2
    <3>5. /\ Present(row[todo]) /\ asks[p].feats \subseteq row[todo].feats
          /\ (\A q \in todo \cap DOMAIN asks : p < q => Agree(asks[p], asks[q])) =>
                UpToDate(row[todo], asks[p])
      BY <3>1, <3>3, <3>4, RowMeets
    <3>6. /\ Present(new.root[c]) /\ wanted[p][c].feats \subseteq new.root[c].feats
          /\ Unopposed(p, c, wanted) => UpToDate(new.root[c], wanted[p][c])
      <4>1. DOMAIN wanted = todo
        BY DEF wanted
      <4>2. Unopposed(p, c, wanted) =>
               \A q \in todo \cap DOMAIN asks : p < q => Agree(asks[p], asks[q])
        BY <3>2, <3>4, <4>1 DEF Unopposed
      <4>3. QED
        BY <3>2, <3>3, <3>4, <3>5, <4>2
    <3>7. Present(new.deps[s][c])
      <4>1. new.deps[s][c] = IF ~Present(d.deps[s][c])
                                   /\ \E q \in todo : In(s, c, Wanted(r, path, d, q))
                             THEN Ref ELSE d.deps[s][c]
        BY <2>2, <2>3, SyncAllRefs DEF new
      <4>2. Present(Ref)
        BY DEF Ref, Row, Present
      <4>3. QED
        BY <2>2, <4>1, <4>2
    <3>8. QED
      BY <2>3, <3>6, <3>7
  <2>4. CASE ~Workspace
    <3> DEFINE row == [some \in SUBSET todo |-> SyncAllAt(r, path, d, some).deps[s][c]]
               asks == DepAsks(r, path, d, todo, s, c)
    <3>1. RowRun(row, asks, todo)
      BY <2>2, <2>4, SyncAllRows
    <3>2. /\ DOMAIN asks \subseteq {q \in todo : c \in DOMAIN wanted[q]}
          /\ p \in DOMAIN asks
          /\ \A q \in DOMAIN asks : asks[q] = wanted[q][c]
      BY <2>2 DEF DepAsks, In
    <3>3. row[todo] = new.deps[s][c] /\ todo \in SUBSET todo
      OBVIOUS
    <3> HIDE DEF row, asks, new, wanted
    <3>4. p \in todo \cap DOMAIN asks
      BY <3>2
    <3>5. /\ Present(row[todo]) /\ asks[p].feats \subseteq row[todo].feats
          /\ (\A q \in todo \cap DOMAIN asks : p < q => Agree(asks[p], asks[q])) =>
                UpToDate(row[todo], asks[p])
      BY <3>1, <3>3, <3>4, RowMeets
    <3>6. /\ Present(new.deps[s][c]) /\ wanted[p][c].feats \subseteq new.deps[s][c].feats
          /\ Unopposed(p, c, wanted) => UpToDate(new.deps[s][c], wanted[p][c])
      <4>1. DOMAIN wanted = todo
        BY DEF wanted
      <4>2. Unopposed(p, c, wanted) =>
               \A q \in todo \cap DOMAIN asks : p < q => Agree(asks[p], asks[q])
        BY <3>2, <3>4, <4>1 DEF Unopposed
      <4>3. QED
        BY <3>2, <3>3, <3>4, <3>5, <4>2
    <3>7. QED
      BY <2>4, <3>6
  <2>5. QED
    BY <2>3, <2>4
<1> HIDE DEF new, wanted
<1>3. SyncedTo(new, p, wanted)
  BY <1>1, <1>2 DEF SyncedTo
<1>4. QED
  BY <1>3 DEF new, wanted

(* And the same packs, synced again, leave each table as the sync has left it,
   whatever has become of the other. *)
LEMMA SyncAllAgain ==
    ASSUME NEW r \in Revisions, NEW d \in Files, NEW e \in Files, NEW path \in Packs \cup {0},
           NEW todo \in SUBSET Packs,
           \A p \in todo : Wanted(r, path, e, p) = Wanted(r, path, d, p)
    PROVE  /\ e.root = SyncAllAt(r, path, d, todo).root =>
                 SyncAllAt(r, path, e, todo).root = e.root
           /\ e.deps = SyncAllAt(r, path, d, todo).deps =>
                 SyncAllAt(r, path, e, todo).deps = e.deps
<1> DEFINE once == SyncAllAt(r, path, d, todo)
           twice == SyncAllAt(r, path, e, todo)
<1>1. /\ twice.root \in [Crates -> Entry] /\ twice.deps \in Tables
      /\ e.root \in [Crates -> Entry] /\ e.deps \in Tables
  <2>1. twice \in Files
    BY SyncAllRuns
  <2>2. QED
    BY <2>1 DEF Files, Disk
<1>2. SyncAllAt(r, path, e, {}) = e
  BY SyncAllRuns
<1>3. \A c : RootAsks(r, path, e, todo, c) = RootAsks(r, path, d, todo, c)
  BY DEF RootAsks
<1>4. \A s, c : DepAsks(r, path, e, todo, s, c) = DepAsks(r, path, d, todo, s, c)
  BY DEF DepAsks
<1>5. ASSUME e.root = once.root
      PROVE  twice.root = e.root
  <2>1. CASE ~Workspace
    BY <2>1, SyncAllRefs
  <2>2. CASE Workspace
    <3>1. ASSUME NEW c \in Crates
          PROVE  twice.root[c] = e.root[c]
      <4> DEFINE row == [some \in SUBSET todo |-> SyncAllAt(r, path, d, some).root[c]]
                 next == [some \in SUBSET todo |-> SyncAllAt(r, path, e, some).root[c]]
                 asks == RootAsks(r, path, d, todo, c)
      <4>1. RowRun(row, asks, todo)
        BY <2>2, SyncAllRows
      <4>2. RowRun(next, RootAsks(r, path, e, todo, c), todo)
        BY <2>2, SyncAllRows
      <4>3. RowRun(next, asks, todo)
        BY <1>3, <4>2
      <4>4. next[{}] = e.root[c] /\ next[todo] = twice.root[c] /\ row[todo] = once.root[c]
        BY <1>2
      <4> HIDE DEF row, next, asks
      <4>5. next[todo] = row[todo]
        BY <1>5, <4>1, <4>3, <4>4, RowAgain
      <4>6. QED
        BY <1>5, <4>4, <4>5
    <3>2. QED
      BY <1>1, <3>1
  <2>3. QED
    BY <2>1, <2>2
<1>6. ASSUME e.deps = once.deps
      PROVE  twice.deps = e.deps
  <2>1. ASSUME NEW s \in Sections, NEW c \in Crates
        PROVE  twice.deps[s][c] = e.deps[s][c]
    <3>1. CASE ~Workspace
      <4> DEFINE row == [some \in SUBSET todo |-> SyncAllAt(r, path, d, some).deps[s][c]]
                 next == [some \in SUBSET todo |-> SyncAllAt(r, path, e, some).deps[s][c]]
                 asks == DepAsks(r, path, d, todo, s, c)
      <4>1. RowRun(row, asks, todo)
        BY <3>1, SyncAllRows
      <4>2. RowRun(next, DepAsks(r, path, e, todo, s, c), todo)
        BY <3>1, SyncAllRows
      <4>3. RowRun(next, asks, todo)
        BY <1>4, <4>2
      <4>4. /\ next[{}] = e.deps[s][c] /\ next[todo] = twice.deps[s][c]
            /\ row[todo] = once.deps[s][c]
        BY <1>2
      <4> HIDE DEF row, next, asks
      <4>5. next[todo] = row[todo]
        BY <1>6, <4>1, <4>3, <4>4, RowAgain
      <4>6. QED
        BY <1>6, <4>4, <4>5
    <3>2. CASE Workspace
      <4> DEFINE wants == \E p \in todo : In(s, c, Wanted(r, path, d, p))
      <4>1. once.deps[s][c] = IF ~Present(d.deps[s][c]) /\ wants THEN Ref ELSE d.deps[s][c]
        BY <3>2, SyncAllRefs
      <4>2. twice.deps[s][c] = IF ~Present(e.deps[s][c]) /\ wants THEN Ref ELSE e.deps[s][c]
        <5>1. twice.deps[s][c] =
                 IF ~Present(e.deps[s][c]) /\ \E p \in todo : In(s, c, Wanted(r, path, e, p))
                 THEN Ref ELSE e.deps[s][c]
          BY <3>2, SyncAllRefs
        <5> HIDE DEF twice
        <5>2. QED
          BY <5>1
      <4>3. Present(Ref)
        BY DEF Ref, Row, Present
      <4> HIDE DEF once, twice, wants
      <4>4. QED
        BY <1>6, <4>1, <4>2, <4>3
    <3>3. QED
      BY <3>1, <3>2
  <2>2. ASSUME NEW s \in Sections
        PROVE  twice.deps[s] = e.deps[s]
    <3>1. twice.deps[s] \in [Crates -> Entry] /\ e.deps[s] \in [Crates -> Entry]
      BY <1>1 DEF Tables
    <3> HIDE DEF twice
    <3>2. QED
      BY <2>1, <3>1
  <2> HIDE DEF twice
  <2>3. QED
    BY <1>1, <2>2 DEF Tables
<1>7. QED
  BY <1>5, <1>6

(* What sync makes of the tables depends on nothing else; whether the version
   of a file or of a draft is given to it, the deps come out of the deps. *)
LEMMA SyncAllSame ==
    ASSUME NEW r \in Revisions, NEW d \in Files, NEW e \in Files, NEW path \in Packs \cup {0},
           NEW todo \in SUBSET Packs, d.deps = e.deps, d.packs = e.packs,
           \A p \in Packs : Stored(d.saved[p].active) = Stored(e.saved[p].active)
    PROVE  /\ SyncAllAt(r, path, d, todo).deps = SyncAllAt(r, path, e, todo).deps
           /\ d.root = e.root => SyncAllAt(r, path, d, todo).root = SyncAllAt(r, path, e, todo).root
           /\ \A p \in todo : SyncAllAt(r, path, d, todo).saved[p] = SyncAllAt(r, path, e, todo).saved[p]
<1>1. ASSUME NEW p \in Packs
      PROVE  /\ Wanted(r, path, d, p) = Wanted(r, path, e, p)
             /\ StateOf(d.saved[p].active, Wanted(r, path, d, p))
                  = StateOf(e.saved[p].active, Wanted(r, path, e, p))
  <2>1. d.saved[p].active # {} /\ e.saved[p].active # {}
    BY DEF Files
  <2>2. Wanted(r, path, d, p) = Wanted(r, path, e, p)
    BY <2>1, StoredMeansSame DEF Wanted
  <2>3. QED
    BY <2>2 DEF StateOf
<1> DEFINE P == {some \in SUBSET Packs :
                    /\ SyncAllAt(r, path, d, some).deps = SyncAllAt(r, path, e, some).deps
                    /\ d.root = e.root => SyncAllAt(r, path, d, some).root = SyncAllAt(r, path, e, some).root}
<1>2. {} \in P
  BY SyncAllRuns
<1>3. ASSUME NEW some \in SUBSET Packs, some # {}, some \ {Max(some)} \in P
      PROVE  some \in P
  <2>1. PICK p \in some, rest \in SUBSET Packs :
           /\ p = Max(some) /\ rest = some \ {Max(some)} /\ p \in Packs /\ p \notin rest
           /\ some \subseteq rest \cup {p} /\ rest \subseteq some
           /\ \A x \in Files :
                 SyncedOne(r, path, p, SyncAllAt(r, path, x, rest), SyncAllAt(r, path, x, some))
    BY <1>3, SyncLast
  <2> DEFINE dold == SyncAllAt(r, path, d, rest)
             dnew == SyncAllAt(r, path, d, some)
             eold == SyncAllAt(r, path, e, rest)
             enew == SyncAllAt(r, path, e, some)
             dwant == Wanted(r, path, dold, p)
             ewant == Wanted(r, path, eold, p)
  <2>2. SyncDone(r, path, d, rest, dold) /\ SyncDone(r, path, e, rest, eold)
    BY <2>1, SyncAllDoes
  <2>6. dold.deps = eold.deps /\ (d.root = e.root => dold.root = eold.root)
    BY <1>3, <2>1
  <2>8. SyncedOne(r, path, p, dold, dnew) /\ SyncedOne(r, path, p, eold, enew)
    BY <2>1
  <2> HIDE DEF dold, dnew, eold, enew
  <2>3. /\ dnew.root = SyncRoot(dold.root, dwant) /\ dnew.deps = SyncDeps(dold.deps, dwant)
        /\ enew.root = SyncRoot(eold.root, ewant) /\ enew.deps = SyncDeps(eold.deps, ewant)
    BY <2>8 DEF SyncedOne
  <2>4. dwant = Wanted(r, path, d, p) /\ ewant = Wanted(r, path, e, p)
    BY <2>1, <2>2 DEF SyncDone, Wanted
  <2>5. dwant = ewant
    BY <1>1, <2>1, <2>4
  <2> HIDE DEF dwant, ewant
  <2>7. dnew.deps = enew.deps /\ (d.root = e.root => dnew.root = enew.root)
    BY <2>3, <2>5, <2>6
  <2>9. QED
    BY <2>7 DEF dnew, enew
<1> HIDE DEF P
<1>4. SUBSET Packs \subseteq P
  BY <1>2, <1>3, PackBound, SubsetInduction
<1>5. todo \in P
  BY <1>4
<1>6. ASSUME NEW p \in todo
      PROVE  SyncAllAt(r, path, d, todo).saved[p] = SyncAllAt(r, path, e, todo).saved[p]
  <2>1. SyncDone(r, path, d, todo, SyncAllAt(r, path, d, todo)) /\ SyncDone(r, path, e, todo, SyncAllAt(r, path, e, todo))
    BY SyncAllDoes
  <2>2. QED
    BY <1>1, <2>1 DEF SyncDone
<1>7. QED
  BY <1>5, <1>6 DEF P

(* Whichever way it is said which pack is the last. *)
LEMMA SyncAllEnds ==
    ASSUME NEW r \in Revisions, NEW d \in Files, NEW path \in Packs \cup {0},
           NEW todo \in SUBSET Packs, NEW p \in todo, \A q \in todo : q <= p
    PROVE  SyncAllAt(r, path, d, todo) = SyncOneAt(r, path, SyncAllAt(r, path, d, todo \ {p}), p)
<1>1. Max(todo) \in todo /\ p <= Max(todo) /\ Max(todo) <= p
  BY PackBound
<1>2. Max(todo) \in Nat /\ p \in Nat
  BY <1>1, PackBound
<1>3. Max(todo) = p
  <2>1. \A m, n \in Nat : m <= n /\ n <= m => m = n
    OBVIOUS
  <2>2. QED
    BY <1>1, <1>2, <2>1, Zenon
<1>4. todo # {}
  OBVIOUS
<1>5. SyncAllAt(r, path, d, todo) =
         SyncOneAt(r, path, SyncAllAt(r, path, d, todo \ {Max(todo)}), Max(todo))
  BY <1>4, SyncAllRuns
<1>6. QED
  BY <1>3, <1>5

(* A pack that comes after all others is synced last. *)
LEMMA SyncAllNext ==
    ASSUME NEW r \in Revisions, NEW d \in Files, NEW path \in Packs \cup {0},
           NEW done \in SUBSET Packs, NEW p \in Packs, \A q \in done : q < p
    PROVE  /\ SyncAllAt(r, path, d, done \cup {p}).root
                  = SyncRoot(SyncAllAt(r, path, d, done).root, Wanted(r, path, d, p))
           /\ SyncAllAt(r, path, d, done \cup {p}).deps
                  = SyncDeps(SyncAllAt(r, path, d, done).deps, Wanted(r, path, d, p))
<1> DEFINE both == done \cup {p}
           old == SyncAllAt(r, path, d, done)
           new == SyncAllAt(r, path, d, both)
<1>1. p \in Nat /\ done \subseteq Nat
  BY PackBound
<1>2. both \ {p} = done /\ p \notin done
  BY <1>1
<1>3. both \in SUBSET Packs /\ p \in both /\ \A q \in both : q <= p
  BY <1>1
<1> HIDE DEF both
<1>4. new = SyncOneAt(r, path, old, p)
  BY <1>2, <1>3, SyncAllEnds
<1>5. SyncDone(r, path, d, done, old)
  BY SyncAllDoes
<1> HIDE DEF old, new
<1>6. SyncedOne(r, path, p, old, new)
  BY <1>4, <1>5, SyncOneOK DEF SyncDone
<1>7. Wanted(r, path, old, p) = Wanted(r, path, d, p)
  BY <1>2, <1>5 DEF SyncDone, Wanted
<1>8. new.root = SyncRoot(old.root, Wanted(r, path, d, p))
      /\ new.deps = SyncDeps(old.deps, Wanted(r, path, d, p))
  BY <1>6, <1>7 DEF SyncedOne
<1>9. QED
  BY <1>8 DEF both, old, new

(* Packs that come first can be synced first. *)
LEMMA SyncAllSplit ==
    ASSUME NEW r \in Revisions, NEW d \in Files, NEW path \in Packs \cup {0},
           NEW done \in SUBSET Packs, NEW todo \in SUBSET Packs,
           \A p \in done, q \in todo : p < q
    PROVE  SyncAllAt(r, path, d, done \cup todo) = SyncAllAt(r, path, SyncAllAt(r, path, d, done), todo)
<1> DEFINE mid == SyncAllAt(r, path, d, done)
           P == {some \in SUBSET todo : SyncAllAt(r, path, d, done \cup some) = SyncAllAt(r, path, mid, some)}
<1>1. mid \in Files
  BY SyncAllRuns
<1> HIDE DEF mid
<1>2. {} \in P
  <2>1. SyncAllAt(r, path, mid, {}) = mid
    BY <1>1, SyncAllRuns
  <2>2. done \cup {} = done
    OBVIOUS
  <2>3. QED
    BY <2>1, <2>2 DEF mid
<1>3. ASSUME NEW some \in SUBSET todo, some # {}, some \ {Max(some)} \in P
      PROVE  some \in P
  <2> DEFINE both == done \cup some
  <2>1. PICK p \in some : p = Max(some) /\ \A q \in some : q <= p
    BY <1>3, PackBound
  <2>2. p \in both /\ both \in SUBSET Packs /\ \A q \in both : q <= p
    <3>1. Packs \subseteq Nat /\ p \in Packs
      BY PackBound
    <3>2. \A q \in done : q <= p
      BY <3>1
    <3>3. QED
      BY <2>1, <3>2
  <2>3. both \ {p} = done \cup (some \ {p})
    <3>1. p \in Nat
      BY PackBound
    <3>2. p \notin done
      BY <3>1
    <3>3. QED
      BY <3>2
  <2> HIDE DEF both
  <2>4. SyncAllAt(r, path, d, both) = SyncOneAt(r, path, SyncAllAt(r, path, d, both \ {p}), p)
    BY <2>2, SyncAllEnds
  <2>5. SyncAllAt(r, path, mid, some) = SyncOneAt(r, path, SyncAllAt(r, path, mid, some \ {p}), p)
    BY <1>1, <2>1, SyncAllEnds
  <2>6. SyncAllAt(r, path, d, done \cup (some \ {p})) = SyncAllAt(r, path, mid, some \ {p})
    BY <1>3, <2>1
  <2>7. QED
    BY <2>3, <2>4, <2>5, <2>6 DEF both
<1> HIDE DEF P
<1>4. todo \in SUBSET (1 .. Cardinality(Packs)) /\ Cardinality(Packs) \in Nat
  BY PackBound
<1>5. SUBSET todo \subseteq P
  BY <1>2, <1>3, <1>4, SubsetInduction
<1>6. todo \in P
  BY <1>5
<1>7. QED
  BY <1>6 DEF P, mid

(* A run of sync starts with every registered pack still to do. *)
LEMMA SyncBegins ==
    ASSUME TypeOK, [Next]_vars, cmd.op # "sync", cmd'.op = "sync"
    PROVE  \E local, path : Sync(local, path)
<1>1. /\ Idle.op = "none" /\ Phases(cmd) /\ cmd \in Command(DOMAIN cmd.crates)
  BY DEF TypeOK, CommandOK, Idle
<1>2. CASE CommandBegins
  <2>1. ~OtherCommand
    BY <1>1 DEF OtherCommand, Begins
  <2>2. \A p \in Packs, r \in Requests : ~Add(p, r)
    BY DraftOps DEF Add
  <2>3. ASSUME NEW p \in Packs, NEW r \in Requests, AddInteractive(p, r)
        PROVE  FALSE
    <3> DEFINE asks == [Idle EXCEPT !.op = "add", !.pc = "picker", !.pack = p]
    <3>1. asks.op = "add"
      BY DEF Idle
    <3>2. cmd' = asks \/ \E choice : cmd' = AddDraft(disk', p, Spec(p), choice)
      BY <2>3 DEF AddInteractive
    <3> HIDE DEF asks
    <3>3. QED
      BY <3>1, <3>2, DraftOps
  <2>4. ASSUME NEW p \in Packs, RmAsk(p)
        PROVE  FALSE
    <3> DEFINE asks == [Idle EXCEPT !.op = "rm", !.pc = "prompt", !.pack = p,
                                    !.deps = disk.deps, !.packs = disk.packs]
    <3>1. asks.op = "rm"
      BY DEF Idle
    <3>2. cmd' = asks
      BY <2>4 DEF RmAsk
    <3>3. QED
      BY <3>1, <3>2
  <2>5. \A p \in Packs, dropping \in BOOLEAN : ~Rm(p, dropping)
    BY DraftOps DEF Rm
  <2>6. QED
    BY <1>2, <2>1, <2>2, <2>3, <2>4, <2>5 DEF CommandBegins
<1>3. CASE CommandSteps
  <2>1. CASE WriteRoot \/ WriteManifest \/ WriteState
    <3>1. \A pc : [cmd EXCEPT !.pc = pc].op = cmd.op
      BY <1>1 DEF Command
    <3>2. QED
      BY <1>1, <2>1, <3>1, WriteMoves
  <2>2. CASE SyncPack
    BY <1>1, <2>2 DEF SyncPack, Phases
  <2>3. CASE \E feats, rows : Pick(feats, rows)
    BY <2>3, DraftOps DEF Pick
  <2>4. CASE \E yes \in BOOLEAN : RmAnswer(yes)
    BY <2>4, AnswerMoves
  <2>5. CASE SyncFails \/ Quit
    BY <1>1, <2>5 DEF SyncFails, Quit
  <2>6. QED
    BY <1>3, <2>1, <2>2, <2>3, <2>4, <2>5 DEF CommandSteps
<1>4. CASE Environment
  BY <1>4, UserMoves
<1>5. CASE UNCHANGED vars
  BY <1>5 DEF vars
<1>6. QED
  BY <1>2, <1>3, <1>4, <1>5 DEF Next

-----------------------------------------------------------------------------
(* The packs a running sync is through with. *)
Done == disk.packs \ cmd.todo

(* The files with another workspace table. *)
Rooted(d, found) == [deps |-> d.deps, packs |-> d.packs, root |-> found, saved |-> d.saved]

(* They are files. *)
LEMMA RootedOK ==
    ASSUME NEW d \in Files, NEW found \in [Crates -> Entry]
    PROVE  /\ Rooted(d, found) \in Files /\ Rooted(d, found).saved = d.saved
           /\ Rooted(d, found).deps = d.deps /\ Rooted(d, found).packs = d.packs
           /\ \A r, path, p : Wanted(r, path, Rooted(d, found), p) = Wanted(r, path, d, p)
BY DEF Rooted, Files, Disk, Wanted

(* A sync works its way up: the packs that are done are recorded, but for the
   one being recorded, and its draft and the workspace table are what syncing
   them has made of Cargo.toml and of the table it found. *)
SyncPlan ==
    cmd.op = "sync" =>
        /\ cmd.packs = disk.packs /\ cmd.todo \subseteq disk.packs
        /\ \A p \in Done, q \in cmd.todo : p < q
        /\ cmd.pc = "manifest" => cmd.todo = {}
        /\ cmd.pc = "state" =>
              /\ cmd.pack \in Done
              /\ cmd.entry = StateOf(disk.saved[cmd.pack].active, Wanted(rev, cmd.path, disk, cmd.pack))
        /\ \A p \in Done :
              \/ cmd.pc = "state" /\ p = cmd.pack
              \/ disk.saved[p] = StateOf(disk.saved[p].active, Wanted(rev, cmd.path, disk, p))
        /\ cmd.deps = SyncAllAt(rev, cmd.path, disk, Done).deps
        /\ \E found \in [Crates -> Entry] :
              disk.root = SyncAllAt(rev, cmd.path, Rooted(disk, found), Done).root

(* The types a sync works with. *)
LEMMA SyncTypes ==
    ASSUME TypeOK
    PROVE  /\ disk \in Files /\ disk.deps \in Tables /\ disk.root \in [Crates -> Entry]
           /\ disk.packs \in SUBSET Packs /\ disk.saved \in [Packs -> SavedState]
           /\ disk = [deps |-> disk.deps, packs |-> disk.packs, root |-> disk.root,
                      saved |-> disk.saved]
           /\ cmd \in Command(DOMAIN cmd.crates) /\ cmd.deps \in Tables
           /\ cmd.path \in Packs \cup {0} /\ cmd.todo \in SUBSET Packs
           /\ Phases(cmd) /\ rev \in Revisions
<1>1. disk \in Disk /\ (\A p \in Packs : disk.saved[p].active # {}) /\ CommandOK(cmd)
  BY DEF TypeOK
<1>2. /\ disk \in Files /\ disk.deps \in Tables /\ disk.root \in [Crates -> Entry]
      /\ disk.packs \in SUBSET Packs /\ disk.saved \in [Packs -> SavedState]
  BY <1>1 DEF Files, Disk
<1>3. disk = [deps |-> disk.deps, packs |-> disk.packs, root |-> disk.root,
              saved |-> disk.saved]
  BY <1>1 DEF Disk
<1>4. cmd \in Command(DOMAIN cmd.crates) /\ Phases(cmd)
  BY <1>1 DEF CommandOK
<1>5. cmd.deps \in Tables /\ cmd.path \in Packs \cup {0} /\ cmd.todo \in SUBSET Packs
  BY <1>4 DEF Command
<1>6. rev \in Revisions
  BY DEF TypeOK, Revisions
<1>7. QED
  BY <1>2, <1>3, <1>4, <1>5, <1>6

(* It holds when sync starts, *)
LEMMA SyncPlanStarts ==
    ASSUME TypeOK, TypeOK', NEW local, NEW path, Sync(local, path)
    PROVE  SyncPlan'
<1>1. /\ disk' = Preflight(disk)
      /\ cmd' = [Idle EXCEPT !.op = "sync", !.pc = "load", !.local = local, !.path = path,
                             !.todo = disk.packs, !.deps = disk.deps, !.packs = disk.packs]
  BY DEF Sync
<1>2. disk'.deps = disk.deps /\ disk'.packs = disk.packs
  BY <1>1, PreflightOK, SyncTypes DEF Files
<1>3. /\ cmd'.pc = "load" /\ cmd'.todo = disk.packs /\ cmd'.deps = disk.deps
      /\ cmd'.packs = disk.packs
  BY <1>1 DEF Idle
<1>4. Done' = {}
  BY <1>2, <1>3 DEF Done
<1>5. rev' \in Revisions /\ disk' \in Files /\ cmd'.path \in Packs \cup {0}
  <2>1. disk' \in Disk /\ (\A p \in Packs : disk'.saved[p].active # {}) /\ CommandOK(cmd')
    BY DEF TypeOK, CommandOK, Phases
  <2>2. QED
    BY <2>1 DEF TypeOK, Revisions, Files, CommandOK, Command
<1>6. SyncAllAt(rev', cmd'.path, disk', {}).deps = disk'.deps
  BY <1>5, SyncAllRuns
<1>7. \E found \in [Crates -> Entry] :
         disk'.root = SyncAllAt(rev', cmd'.path, Rooted(disk', found), {}).root
  <2>1. disk'.root \in [Crates -> Entry]
    BY <1>5 DEF Files, Disk
  <2>2. SyncAllAt(rev', cmd'.path, Rooted(disk', disk'.root), {}) = Rooted(disk', disk'.root)
    BY <1>5, <2>1, RootedOK, SyncAllRuns
  <2>3. Rooted(disk', disk'.root).root = disk'.root
    BY DEF Rooted
  <2>4. QED
    BY <2>1, <2>2, <2>3
<1>8. QED
  BY <1>2, <1>3, <1>4, <1>6, <1>7 DEF SyncPlan

(* What the step that syncs one pack changes. *)
LEMMA SyncPackDoes ==
    ASSUME TypeOK, SyncPack
    PROVE  \E p, expected :
              /\ p \in cmd.todo /\ p \in Packs /\ (\A q \in cmd.todo : p <= q)
              /\ expected = Wanted(rev, cmd.path, disk, p)
              /\ disk'.root = SyncRoot(disk.root, expected) /\ disk'.deps = disk.deps
              /\ disk'.packs = disk.packs /\ disk'.saved = disk.saved
              /\ cmd'.op = cmd.op /\ cmd'.pc = "state" /\ cmd'.pack = p
              /\ cmd'.todo = cmd.todo \ {p} /\ cmd'.path = cmd.path /\ cmd'.packs = cmd.packs
              /\ cmd'.deps = SyncDeps(cmd.deps, expected)
              /\ cmd'.entry = StateOf(disk.saved[p].active, expected)
              /\ rev' = rev
<1>1. PICK p \in cmd.todo :
        LET expected == Wanted(rev, cmd.path, disk, p) IN
        /\ \A q \in cmd.todo : p <= q
        /\ disk' = [disk EXCEPT !.root = SyncRoot(@, expected)]
        /\ cmd' = [cmd EXCEPT !.pc = "state", !.pack = p, !.todo = @ \ {p},
                              !.deps = SyncDeps(@, expected),
                              !.entry = StateOf(disk.saved[p].active, expected)]
        /\ rev' = rev
  BY DEF SyncPack, Wanted, SpecAt, Loaded, Spec
<1> DEFINE expected == Wanted(rev, cmd.path, disk, p)
<1>2. p \in Packs
  BY SyncTypes
<1>3. /\ disk' = [disk EXCEPT !.root = SyncRoot(@, expected)]
      /\ cmd' = [cmd EXCEPT !.pc = "state", !.pack = p, !.todo = @ \ {p},
                            !.deps = SyncDeps(@, expected),
                            !.entry = StateOf(disk.saved[p].active, expected)]
  BY <1>1
<1> HIDE DEF expected
<1>4. /\ disk'.root = SyncRoot(disk.root, expected) /\ disk'.deps = disk.deps
      /\ disk'.packs = disk.packs /\ disk'.saved = disk.saved
  BY <1>3, SyncTypes
<1>5. cmd \in Command(DOMAIN cmd.crates)
  BY SyncTypes
<1>6. /\ cmd'.op = cmd.op /\ cmd'.pc = "state" /\ cmd'.pack = p
      /\ cmd'.todo = cmd.todo \ {p} /\ cmd'.path = cmd.path /\ cmd'.packs = cmd.packs
      /\ cmd'.deps = SyncDeps(cmd.deps, expected)
      /\ cmd'.entry = StateOf(disk.saved[p].active, expected)
  BY <1>3, <1>5 DEF Command
<1>7. QED
  BY <1>1, <1>2, <1>4, <1>6 DEF expected

(* What the step that records it changes. *)
LEMMA WriteStateDoes ==
    ASSUME TypeOK, WriteState, cmd.op = "sync"
    PROVE  /\ cmd.pc = "state" /\ cmd.pack \in Packs
           /\ disk'.root = disk.root /\ disk'.deps = disk.deps /\ disk'.packs = disk.packs
           /\ disk'.saved \in [Packs -> SavedState]
           /\ \A p \in Packs :
                 disk'.saved[p] = IF p = cmd.pack THEN cmd.entry ELSE disk.saved[p]
           /\ cmd'.pc = (IF cmd.todo = {} THEN "manifest" ELSE "load")
           /\ cmd'.path = cmd.path /\ cmd'.packs = cmd.packs /\ cmd'.todo = cmd.todo
           /\ cmd'.deps = cmd.deps /\ rev' = rev
<1>1. /\ cmd.pc = "state" /\ disk' = [disk EXCEPT !.saved[cmd.pack] = cmd.entry]
      /\ cmd' = [cmd EXCEPT !.pc = IF cmd.todo = {} THEN "manifest" ELSE "load"]
      /\ rev' = rev
  BY DEF WriteState
<1>2. cmd.pack \in Packs
  BY <1>1, SyncTypes DEF Phases
<1>3. cmd \in Command(DOMAIN cmd.crates) /\ cmd.entry \in SavedState
  BY SyncTypes DEF Command
<1>4. /\ disk'.root = disk.root /\ disk'.deps = disk.deps /\ disk'.packs = disk.packs
      /\ disk'.saved = [disk.saved EXCEPT ![cmd.pack] = cmd.entry]
  BY <1>1, SyncTypes
<1>5. /\ disk'.saved \in [Packs -> SavedState]
      /\ \A p \in Packs :
            disk'.saved[p] = IF p = cmd.pack THEN cmd.entry ELSE disk.saved[p]
  BY <1>2, <1>3, <1>4, SyncTypes
<1>6. /\ cmd'.pc = (IF cmd.todo = {} THEN "manifest" ELSE "load")
      /\ cmd'.path = cmd.path /\ cmd'.packs = cmd.packs /\ cmd'.todo = cmd.todo
      /\ cmd'.deps = cmd.deps
  BY <1>1, <1>3 DEF Command
<1>7. QED
  BY <1>1, <1>2, <1>4, <1>5, <1>6

(* The plan holds when one more pack is synced, *)
LEMMA SyncPlanPack ==
    ASSUME TypeOK, TypeOK', SyncPlan, SyncPack, cmd.op = "sync"
    PROVE  SyncPlan'
<1>1. PICK p, expected :
        /\ p \in cmd.todo /\ p \in Packs /\ (\A q \in cmd.todo : p <= q)
        /\ expected = Wanted(rev, cmd.path, disk, p)
        /\ disk'.root = SyncRoot(disk.root, expected) /\ disk'.deps = disk.deps
        /\ disk'.packs = disk.packs /\ disk'.saved = disk.saved
        /\ cmd'.op = cmd.op /\ cmd'.pc = "state" /\ cmd'.pack = p
        /\ cmd'.todo = cmd.todo \ {p} /\ cmd'.path = cmd.path /\ cmd'.packs = cmd.packs
        /\ cmd'.deps = SyncDeps(cmd.deps, expected)
        /\ cmd'.entry = StateOf(disk.saved[p].active, expected)
        /\ rev' = rev
  BY SyncPackDoes
<1>2. /\ cmd.packs = disk.packs /\ cmd.todo \subseteq disk.packs
      /\ \A q \in Done, later \in cmd.todo : q < later
      /\ cmd.deps = SyncAllAt(rev, cmd.path, disk, Done).deps
      /\ cmd.pc # "state"
  BY DEF SyncPlan, SyncPack
<1>3. \A q \in Done :
         disk.saved[q] = StateOf(disk.saved[q].active, Wanted(rev, cmd.path, disk, q))
  BY <1>2 DEF SyncPlan
<1>4. /\ disk \in Files /\ disk' \in Files /\ rev \in Revisions /\ cmd.path \in Packs \cup {0}
      /\ cmd.deps \in Tables /\ disk.root \in [Crates -> Entry]
      /\ Done \in SUBSET Packs /\ p \notin Done
  <2>1. disk' \in Disk /\ \A q \in Packs : disk'.saved[q].active # {}
    BY DEF TypeOK
  <2>2. Done \in SUBSET Packs /\ p \notin Done
    BY <1>1, SyncTypes DEF Done
  <2>3. QED
    BY <2>1, <2>2, SyncTypes DEF Files
<1>5. Done' = Done \cup {p} /\ p \in disk.packs
  BY <1>1, <1>2 DEF Done
<1>6. \A q : Wanted(rev, cmd.path, disk', q) = Wanted(rev, cmd.path, disk, q)
  BY <1>1 DEF Wanted
<1>7. \A q \in Done : q < p
  BY <1>1, <1>2
<1>8. \E found \in [Crates -> Entry] :
         disk'.root = SyncAllAt(rev, cmd.path, Rooted(disk', found), Done').root
  <2>1. PICK found \in [Crates -> Entry] :
           disk.root = SyncAllAt(rev, cmd.path, Rooted(disk, found), Done).root
    BY DEF SyncPlan
  <2>2. Rooted(disk', found) = Rooted(disk, found)
    BY <1>1 DEF Rooted
  <2>3. /\ Rooted(disk, found) \in Files
        /\ Wanted(rev, cmd.path, Rooted(disk, found), p) = expected
    BY <1>1, <1>4, RootedOK
  <2>4. SyncAllAt(rev, cmd.path, Rooted(disk, found), Done \cup {p}).root
           = SyncRoot(disk.root, expected)
    BY <1>1, <1>4, <1>7, <2>1, <2>3, SyncAllNext
  <2>5. QED
    BY <1>1, <1>5, <2>1, <2>2, <2>4
<1>9. cmd'.deps = SyncAllAt(rev, cmd.path, disk', Done').deps
  <2>1. SyncAllAt(rev, cmd.path, disk', Done).deps = cmd.deps
    BY <1>1, <1>2, <1>4, SyncAllSame
  <2>2. SyncAllAt(rev, cmd.path, disk', Done \cup {p}).deps
           = SyncDeps(SyncAllAt(rev, cmd.path, disk', Done).deps, Wanted(rev, cmd.path, disk', p))
    BY <1>1, <1>4, <1>7, SyncAllNext
  <2>3. QED
    BY <1>1, <1>5, <1>6, <2>1, <2>2
<1>10. \A q \in Done', later \in cmd'.todo : q < later
  <2>1. \A later \in cmd.todo \ {p} : p < later
    <3>1. Packs \subseteq Nat /\ cmd.todo \subseteq Packs
      BY PackBound, SyncTypes
    <3>2. QED
      BY <1>1, <3>1
  <2>2. QED
    BY <1>1, <1>2, <1>5, <2>1
<1>11. \A q \in Done' : q # p =>
          disk'.saved[q] = StateOf(disk'.saved[q].active, Wanted(rev, cmd.path, disk', q))
  BY <1>1, <1>3, <1>5, <1>6
<1>12. QED
  BY <1>1, <1>2, <1>5, <1>6, <1>8, <1>9, <1>10, <1>11 DEF SyncPlan

(* when a pack is recorded, *)
LEMMA SyncPlanRecorded ==
    ASSUME TypeOK, TypeOK', SyncPlan, WriteState, cmd.op = "sync"
    PROVE  SyncPlan'
<1>1. /\ cmd.pc = "state" /\ cmd.pack \in Packs
      /\ disk'.root = disk.root /\ disk'.deps = disk.deps /\ disk'.packs = disk.packs
      /\ disk'.saved \in [Packs -> SavedState]
      /\ \A p \in Packs :
            disk'.saved[p] = IF p = cmd.pack THEN cmd.entry ELSE disk.saved[p]
      /\ cmd'.pc = (IF cmd.todo = {} THEN "manifest" ELSE "load")
      /\ cmd'.path = cmd.path /\ cmd'.packs = cmd.packs /\ cmd'.todo = cmd.todo
      /\ cmd'.deps = cmd.deps /\ rev' = rev
  BY WriteStateDoes
<1>2. /\ cmd.packs = disk.packs /\ cmd.todo \subseteq disk.packs
      /\ \A q \in Done, later \in cmd.todo : q < later
      /\ cmd.deps = SyncAllAt(rev, cmd.path, disk, Done).deps
      /\ cmd.entry = StateOf(disk.saved[cmd.pack].active, Wanted(rev, cmd.path, disk, cmd.pack))
  BY <1>1 DEF SyncPlan
<1>3. \A q \in Done :
         \/ q = cmd.pack
         \/ disk.saved[q] = StateOf(disk.saved[q].active, Wanted(rev, cmd.path, disk, q))
  BY <1>1 DEF SyncPlan
<1>4. /\ disk \in Files /\ disk' \in Files /\ rev \in Revisions /\ cmd.path \in Packs \cup {0}
      /\ Done \in SUBSET Packs
  <2>1. disk' \in Disk /\ \A q \in Packs : disk'.saved[q].active # {}
    BY DEF TypeOK
  <2>2. QED
    BY <2>1, SyncTypes DEF Files, Done
<1>5. Done' = Done
  BY <1>1 DEF Done
<1> DEFINE was == disk.saved[cmd.pack].active
<1>6. was # {} /\ cmd.entry.active = Stored(was) /\ disk'.saved[cmd.pack].active = Stored(was)
  BY <1>1, <1>2, <1>4 DEF Files, StateOf
<1>7. ASSUME NEW q \in Packs
      PROVE  /\ Stored(disk'.saved[q].active) = Stored(disk.saved[q].active)
             /\ Wanted(rev, cmd.path, disk', q) = Wanted(rev, cmd.path, disk, q)
             /\ q # cmd.pack => disk'.saved[q] = disk.saved[q]
  <2>1. CASE q = cmd.pack
    BY <1>6, <2>1, StoredMeansSame DEF Wanted
  <2>2. CASE q # cmd.pack
    BY <1>1, <2>2 DEF Wanted
  <2>3. QED
    BY <2>1, <2>2
<1>8. disk'.saved[cmd.pack] = StateOf(disk'.saved[cmd.pack].active,
                                      Wanted(rev, cmd.path, disk', cmd.pack))
  <2>1. disk'.saved[cmd.pack] = cmd.entry
    BY <1>1
  <2>2. Stored(Stored(was)) = Stored(was)
    BY <1>6, StoredMeansSame
  <2>3. Wanted(rev, cmd.path, disk', cmd.pack) = Wanted(rev, cmd.path, disk, cmd.pack)
    BY <1>1, <1>7
  <2>4. QED
    BY <1>2, <1>6, <2>1, <2>2, <2>3 DEF StateOf
<1>9. cmd.deps = SyncAllAt(rev, cmd.path, disk', Done).deps
  BY <1>1, <1>2, <1>4, <1>7, SyncAllSame
<1>10. ASSUME NEW q \in Done
       PROVE  disk'.saved[q] = StateOf(disk'.saved[q].active, Wanted(rev, cmd.path, disk', q))
  <2>1. q \in Packs
    BY <1>4
  <2>2. CASE q = cmd.pack
    BY <1>8, <2>2
  <2>3. CASE q # cmd.pack
    BY <1>3, <1>7, <2>1, <2>3
  <2>4. QED
    BY <2>2, <2>3
<1>11. \E found \in [Crates -> Entry] :
          disk'.root = SyncAllAt(rev, cmd.path, Rooted(disk', found), Done).root
  <2>1. PICK found \in [Crates -> Entry] :
           disk.root = SyncAllAt(rev, cmd.path, Rooted(disk, found), Done).root
    BY <1>1 DEF SyncPlan
  <2> DEFINE old == Rooted(disk, found)
             new == Rooted(disk', found)
  <2>2. /\ old \in Files /\ new \in Files /\ old.deps = new.deps /\ old.packs = new.packs
        /\ old.root = new.root
        /\ \A q \in Packs : Stored(old.saved[q].active) = Stored(new.saved[q].active)
    BY <1>1, <1>4, <1>7, RootedOK DEF Rooted
  <2> HIDE DEF old, new
  <2>3. SyncAllAt(rev, cmd.path, old, Done).root = SyncAllAt(rev, cmd.path, new, Done).root
    BY <1>4, <2>2, SyncAllSame
  <2>4. QED
    BY <1>1, <2>1, <2>3 DEF old, new
<1>12. cmd'.pc # "state" /\ (cmd'.pc = "manifest" => cmd.todo = {})
  BY <1>1
<1>13. QED
  BY <1>1, <1>2, <1>5, <1>9, <1>10, <1>11, <1>12 DEF SyncPlan

(* and so at every step. *)
LEMMA SyncPlanStep ==
    ASSUME TypeOK, TypeOK', SyncPlan, [Next]_vars
    PROVE  SyncPlan'
<1>1. CASE cmd.op # "sync" /\ cmd'.op = "sync"
  BY <1>1, SyncBegins, SyncPlanStarts
<1>2. CASE cmd.op = "sync"
  <2>1. CASE WriteManifest \/ SyncFails \/ Quit
    <3>1. cmd' = Idle
      BY <1>2, <2>1 DEF WriteManifest, SyncFails, Quit
    <3>2. QED
      BY <3>1 DEF SyncPlan, Idle
  <2>2. CASE WriteState
    BY <1>2, <2>2, SyncPlanRecorded
  <2>3. CASE SyncPack
    BY <1>2, <2>3, SyncPlanPack
  <2>4. CASE UNCHANGED vars
    BY <2>4 DEF vars, SyncPlan, Done
  <2>5. QED
    BY <1>2, <2>1, <2>2, <2>3, <2>4, OnlySync
<1>3. CASE cmd'.op # "sync"
  BY <1>3 DEF SyncPlan
<1>4. QED
  BY <1>1, <1>2, <1>3

(* The plan holds in every behaviour. *)
LEMMA SyncPlanned == ProjectSpec => [](TypeOK /\ SyncPlan)
<1>1. Init => SyncPlan
  BY DEF Init, SyncPlan, Idle
<1>2. TypeOK /\ TypeOK' /\ SyncPlan /\ [Next]_vars => SyncPlan'
  BY SyncPlanStep
<1>3. QED
  BY <1>1, <1>2, TypeInvariance, PTL DEF ProjectSpec

(* When the last write of a sync is made, every pack has what it asks for. *)
LEMMA SyncEnds ==
    ASSUME TypeOK, SyncPlan, [Next]_vars,
           cmd.op = "sync", cmd.pc = "manifest", disk'.deps = cmd.deps, cmd' = Idle,
           NEW p \in disk.packs
    PROVE  SyncedTo(disk', p, WantedNow)
<1> DEFINE wanted == WantedNow
<1>1. wanted = [q \in disk.packs |-> Wanted(rev, cmd.path, disk, q)]
  BY DEF WantedNow, Loaded, Spec, Wanted, SpecAt
<1> HIDE DEF wanted
<1>2. cmd.todo = {} /\ Done = disk.packs /\ disk.packs \in SUBSET Packs
  BY SyncTypes DEF SyncPlan, Done
<1>3. PICK found \in [Crates -> Entry] :
         disk.root = SyncAllAt(rev, cmd.path, Rooted(disk, found), disk.packs).root
  BY <1>2 DEF SyncPlan
<1> DEFINE d == Rooted(disk, found)
           new == SyncAllAt(rev, cmd.path, d, disk.packs)
<1>4. /\ d \in Files /\ d.deps = disk.deps /\ d.packs = disk.packs /\ d.saved = disk.saved
      /\ \A q : Wanted(rev, cmd.path, d, q) = Wanted(rev, cmd.path, disk, q)
  BY SyncTypes, RootedOK
<1> HIDE DEF d
<1>5. new.root = disk.root
  BY <1>3 DEF d
<1>6. new.deps = cmd.deps
  <2>1. cmd.deps = SyncAllAt(rev, cmd.path, disk, disk.packs).deps
    BY <1>2 DEF SyncPlan
  <2>2. QED
    BY <1>2, <1>4, <2>1, SyncTypes, SyncAllSame
<1>7. SyncedTo(new, p, wanted)
  <2>1. [q \in disk.packs |-> Wanted(rev, cmd.path, d, q)] = wanted
    BY <1>1, <1>4
  <2>2. SyncedTo(new, p, [q \in disk.packs |-> Wanted(rev, cmd.path, d, q)])
    BY <1>2, <1>4, SyncTypes, SyncAllMeets
  <2> HIDE DEF new
  <2>3. QED
    BY <2>1, <2>2
<1>8. disk'.root = disk.root /\ disk'.saved = disk.saved
  <2>1. Idle.op = "none"
    BY DEF Idle
  <2>2. WriteManifest \/ Quit
    BY <2>1, OnlySync DEF WriteState, SyncPack, SyncFails, vars
  <2>3. QED
    BY <2>2, SyncTypes DEF WriteManifest, Quit
<1>9. disk'.saved[p].managed = DOMAIN wanted[p]
  <2>1. disk.saved[p] = StateOf(disk.saved[p].active, Wanted(rev, cmd.path, disk, p))
    BY <1>2 DEF SyncPlan
  <2>2. QED
    BY <1>1, <1>8, <2>1 DEF StateOf
<1> HIDE DEF new
<1>10. SyncedTo(disk', p, wanted)
  BY <1>5, <1>6, <1>7, <1>8, <1>9 DEF SyncedTo
<1>11. QED
  BY <1>10 DEF wanted

(* manifest.sync.*: however many packs share a crate and whatever its rows were,
   when sync ends every crate of every registered pack is declared, up to date
   and recorded. *)
THEOREM SyncCompletes == ProjectSpec => SyncBringsUpToDate
<1>1. TypeOK /\ SyncPlan /\ [Next]_vars =>
         [cmd.op = "sync" /\ cmd.pc = "manifest" /\ disk'.deps = cmd.deps /\ cmd' = Idle =>
             \A p \in disk.packs : SyncedTo(disk', p, WantedNow)]_vars
  BY SyncEnds
<1>2. QED
  BY <1>1, SyncPlanned, PTL DEF ProjectSpec, SyncBringsUpToDate

-----------------------------------------------------------------------------
(* sync again. *)

(* The preflight leaves files and what sync reads of them. *)
LEMMA PreflightFiles ==
    ASSUME NEW d \in Files
    PROVE  /\ Preflight(d) \in Files
           /\ Preflight(d).deps = d.deps /\ Preflight(d).packs = d.packs
           /\ Preflight(d).root = d.root
           /\ \A p \in Packs : Preflight(d).saved[p].active = d.saved[p].active
           /\ \A r, path : \A p \in Packs : Wanted(r, path, Preflight(d), p) = Wanted(r, path, d, p)
<1>1. d \in Disk /\ \A p \in Packs : d.saved[p].active # {}
  BY DEF Files
<1>2. /\ Preflight(d) \in Disk
      /\ Preflight(d).deps = d.deps /\ Preflight(d).packs = d.packs
      /\ Preflight(d).root = d.root
      /\ \A p \in Packs : Preflight(d).saved[p].active = d.saved[p].active
  BY <1>1, PreflightOK
<1>3. Preflight(d) \in Files
  BY <1>1, <1>2 DEF Files
<1>4. \A r, path : \A p \in Packs : Wanted(r, path, Preflight(d), p) = Wanted(r, path, d, p)
  BY <1>2 DEF Wanted
<1>5. QED
  BY <1>2, <1>3, <1>4

(* A sync of files that a sync, and then any preflight, has left changes nothing. *)
LEMMA SyncTwice ==
    ASSUME NEW r \in Revisions, NEW d \in Files, NEW path \in Packs \cup {0},
           NEW todo \in SUBSET Packs
    PROVE  LET once == SyncAllAt(r, path, d, todo)
           IN  Outcome(SyncAllAt(r, path, Preflight(once), todo), todo) = Outcome(once, todo)
<1> DEFINE once == SyncAllAt(r, path, d, todo)
           next == Preflight(once)
           again == SyncAllAt(r, path, next, todo)
<1>1. SyncDone(r, path, d, todo, once)
  BY SyncAllDoes
<1>2. once \in Files
  BY <1>1 DEF SyncDone
<1> HIDE DEF once
<1>3. /\ next \in Files /\ next.deps = once.deps /\ next.packs = once.packs
      /\ next.root = once.root
      /\ \A p \in Packs : next.saved[p].active = once.saved[p].active
      /\ \A p \in Packs : Wanted(r, path, next, p) = Wanted(r, path, once, p)
  BY <1>2, PreflightFiles
<1> HIDE DEF next
<1>4. ASSUME NEW p \in todo
      PROVE  /\ Wanted(r, path, next, p) = Wanted(r, path, d, p)
             /\ StateOf(next.saved[p].active, Wanted(r, path, next, p)) = once.saved[p]
  <2> DEFINE A == d.saved[p].active
  <2>1. once.saved[p] = StateOf(A, Wanted(r, path, d, p))
    BY <1>1 DEF SyncDone
  <2>2. A # {}
    BY DEF Files
  <2>3. next.saved[p].active = Stored(A) /\ once.saved[p].active = Stored(A)
    BY <1>3, <2>1 DEF StateOf
  <2>4. Wanted(r, path, once, p) = Wanted(r, path, d, p)
    BY <2>2, <2>3, StoredMeansSame DEF Wanted
  <2>5. Wanted(r, path, next, p) = Wanted(r, path, d, p)
    BY <1>3, <2>4
  <2>6. Stored(Stored(A)) = Stored(A)
    BY <2>2, StoredMeansSame
  <2> HIDE DEF A
  <2>7. StateOf(Stored(A), Wanted(r, path, d, p)) = StateOf(A, Wanted(r, path, d, p))
    BY <2>6 DEF StateOf
  <2>8. QED
    BY <1>3, <2>1, <2>3, <2>5, <2>7
<1>5. again.root = next.root /\ again.deps = next.deps
  BY <1>3, <1>4, SyncAllAgain DEF once
<1>6. SyncDone(r, path, next, todo, again)
  BY <1>3, SyncAllDoes
<1> HIDE DEF again
<1>7. again.packs = once.packs /\ \A p \in todo : again.saved[p] = once.saved[p]
  BY <1>3, <1>4, <1>6 DEF SyncDone
<1>8. Outcome(again, todo) = Outcome(once, todo)
  BY <1>3, <1>5, <1>7 DEF Outcome
<1>9. QED
  BY <1>8 DEF again, next, once

(* manifest.sync: whatever the packs, a second sync finds everything up to date
   and writes nothing new. *)
THEOREM SyncOnce == ProjectSpec => []SyncIdempotent
<1>1. TypeOK => SyncIdempotent
  <2> SUFFICES ASSUME TypeOK
               PROVE  LET once == SyncAllAt(rev, 0, Preflight(disk), disk.packs)
                      IN  Outcome(SyncAllAt(rev, 0, Preflight(once), disk.packs), disk.packs)
                             = Outcome(once, disk.packs)
    BY SyncNow DEF SyncIdempotent
  <2>1. Preflight(disk) \in Files /\ disk.packs \in SUBSET Packs /\ rev \in Revisions
    BY SyncTypes, PreflightFiles
  <2>2. QED
    BY <2>1, SyncTwice
<1>2. QED
  BY <1>1, TypeInvariance, PTL

(* Files with a Cargo.toml of their own. *)
LEMMA Redrafted ==
    ASSUME NEW old, NEW deps, NEW packs, NEW root, NEW saved, NEW newdeps, NEW newpacks,
           old = [deps |-> deps, packs |-> packs, root |-> root, saved |-> saved]
    PROVE  [old EXCEPT !.deps = newdeps, !.packs = newpacks]
              = [deps |-> newdeps, packs |-> newpacks, root |-> root, saved |-> saved]
<1> DEFINE half == [old EXCEPT !.deps = newdeps]
<1>1. half = [deps |-> newdeps, packs |-> packs, root |-> root, saved |-> saved]
  OBVIOUS
<1>2. [old EXCEPT !.deps = newdeps, !.packs = newpacks] = [half EXCEPT !.packs = newpacks]
  OBVIOUS
<1> HIDE DEF half
<1>3. QED
  BY <1>1, <1>2

(* A sync that was interrupted, run again, ends where it would have ended. *)
LEMMA SyncReruns ==
    ASSUME TypeOK, SyncPlan, cmd.op = "sync"
    PROVE  Outcome(SyncAll(cmd.path, Preflight(disk), disk.packs), disk.packs)
              = Outcome(SyncFinish, disk.packs)
<1> DEFINE path == cmd.path
           todo == cmd.todo
           left_behind == Preflight(disk)
           mid == SyncAllAt(rev, path, left_behind, Done)
           recorded == IF cmd.pc = "state" THEN [disk EXCEPT !.saved[cmd.pack] = cmd.entry]
                       ELSE disk
           planned == [recorded EXCEPT !.deps = cmd.deps, !.packs = cmd.packs]
           again == SyncAllAt(rev, path, mid, todo)
           rest == SyncAllAt(rev, path, planned, todo)
<1>1. /\ disk \in Files /\ disk.deps \in Tables /\ disk.root \in [Crates -> Entry]
      /\ disk.packs \in SUBSET Packs /\ disk.saved \in [Packs -> SavedState]
      /\ disk = [deps |-> disk.deps, packs |-> disk.packs, root |-> disk.root,
                 saved |-> disk.saved]
      /\ cmd.deps \in Tables /\ path \in Packs \cup {0} /\ todo \in SUBSET Packs
      /\ rev \in Revisions
  BY SyncTypes
<1>2. /\ cmd.packs = disk.packs /\ todo \subseteq disk.packs
      /\ \A p \in Done, q \in todo : p < q
      /\ cmd.pc = "state" =>
            /\ cmd.pack \in Done
            /\ cmd.entry = StateOf(disk.saved[cmd.pack].active, Wanted(rev, path, disk, cmd.pack))
      /\ cmd.deps = SyncAllAt(rev, path, disk, Done).deps
  BY DEF SyncPlan
<1>3. \A p \in Done :
         \/ cmd.pc = "state" /\ p = cmd.pack
         \/ disk.saved[p] = StateOf(disk.saved[p].active, Wanted(rev, path, disk, p))
  BY DEF SyncPlan
<1>4. Done \in SUBSET Packs /\ Done \cup todo = disk.packs /\ Done \cap todo = {}
  BY <1>1, <1>2 DEF Done
<1> HIDE DEF path, todo
<1>5. /\ left_behind \in Files /\ left_behind.deps = disk.deps
      /\ left_behind.packs = disk.packs /\ left_behind.root = disk.root
      /\ \A p \in Packs : left_behind.saved[p].active = disk.saved[p].active
      /\ \A p \in Packs : Wanted(rev, path, left_behind, p) = Wanted(rev, path, disk, p)
  BY <1>1, PreflightFiles
<1> HIDE DEF left_behind
<1>6. /\ planned.deps = cmd.deps /\ planned.root = disk.root /\ planned.packs = disk.packs
      /\ planned \in Files
      /\ \A p \in Packs : planned.saved[p] = IF cmd.pc = "state" /\ p = cmd.pack THEN cmd.entry
                                             ELSE disk.saved[p]
  <2> DEFINE saved == IF cmd.pc = "state" THEN [disk.saved EXCEPT ![cmd.pack] = cmd.entry]
                      ELSE disk.saved
  <2>1. cmd.entry \in SavedState /\ cmd.entry.active # {}
    BY SyncTypes DEF TypeOK, CommandOK, Command
  <2>2. /\ saved \in [Packs -> SavedState]
        /\ \A p \in Packs : saved[p] = IF cmd.pc = "state" /\ p = cmd.pack THEN cmd.entry
                                       ELSE disk.saved[p]
    BY <1>1, <1>2, <1>4, <2>1
  <2>3. planned = [deps |-> cmd.deps, packs |-> disk.packs, root |-> disk.root,
                   saved |-> saved]
    <3>1. recorded = [deps |-> disk.deps, packs |-> disk.packs, root |-> disk.root,
                      saved |-> saved]
      <4>1. CASE cmd.pc = "state"
        BY <1>1, <4>1
      <4>2. CASE cmd.pc # "state"
        BY <1>1, <4>2
      <4>3. QED
        BY <4>1, <4>2
    <3> HIDE DEF saved, recorded
    <3>2. planned = [recorded EXCEPT !.deps = cmd.deps, !.packs = cmd.packs]
      BY DEF recorded
    <3>3. cmd.packs = disk.packs
      BY <1>2
    <3> HIDE DEF planned
    <3>4. QED
      BY <3>1, <3>2, <3>3, Redrafted
  <2> HIDE DEF saved, planned
  <2>4. \A p \in Packs : saved[p].active # {}
    BY <1>1, <2>1, <2>2 DEF Files
  <2>5. planned \in Files
    BY <1>1, <2>2, <2>3, <2>4 DEF Files, Disk
  <2>6. QED
    BY <2>2, <2>3, <2>5
<1> HIDE DEF planned
<1>7. SyncDone(rev, path, left_behind, Done, mid)
  BY <1>1, <1>4, <1>5, SyncAllDoes
<1>8. mid.deps = cmd.deps /\ mid.root = disk.root
  <2>1. mid.deps = SyncAllAt(rev, path, disk, Done).deps
    <3>1. \A p \in Packs : Stored(left_behind.saved[p].active) = Stored(disk.saved[p].active)
      BY <1>5
    <3>2. \A todos \in SUBSET Packs :
             SyncAllAt(rev, path, left_behind, todos).deps = SyncAllAt(rev, path, disk, todos).deps
      BY <1>1, <1>5, <3>1, SyncAllSame
    <3>3. QED
      BY <1>4, <3>2
  <2>2. PICK found \in [Crates -> Entry] :
           disk.root = SyncAllAt(rev, path, Rooted(disk, found), Done).root
    BY DEF SyncPlan, path
  <2>3. mid.root = left_behind.root
    <3> DEFINE then == Rooted(disk, found)
    <3>1. then \in Files /\ \A p \in Done : Wanted(rev, path, left_behind, p)
                                               = Wanted(rev, path, then, p)
      BY <1>1, <1>4, <1>5, RootedOK
    <3>2. left_behind.root = SyncAllAt(rev, path, then, Done).root
      BY <1>5, <2>2
    <3> HIDE DEF then
    <3>3. SyncAllAt(rev, path, left_behind, Done).root = left_behind.root
      <4>1. /\ left_behind \in Files /\ rev \in Revisions /\ path \in Packs \cup {0}
            /\ Done \in SUBSET Packs
        BY <1>1, <1>4, <1>5
      <4>2. QED
        BY <3>1, <3>2, <4>1, SyncAllAgain
    <3>4. QED
      BY <3>3
  <2>4. QED
    BY <1>2, <1>5, <2>1, <2>3
<1>9. SyncAllAt(rev, path, left_behind, disk.packs) = again
  <2>1. SyncAllAt(rev, path, left_behind, Done \cup todo) = again
    BY <1>1, <1>2, <1>4, <1>5, SyncAllSplit DEF todo, path
  <2>2. QED
    BY <1>4, <2>1
<1>10. mid \in Files /\ mid.packs = disk.packs
  BY <1>5, <1>7 DEF SyncDone
<1> HIDE DEF mid
<1>11. ASSUME NEW p \in Done
       PROVE  mid.saved[p] = planned.saved[p]
  <2>1. mid.saved[p] = StateOf(disk.saved[p].active, Wanted(rev, path, disk, p))
    BY <1>4, <1>5, <1>7 DEF SyncDone
  <2>2. QED
    BY <1>2, <1>3, <1>4, <1>6, <2>1
<1>12. ASSUME NEW p \in Packs \ Done
       PROVE  mid.saved[p].active = planned.saved[p].active
  BY <1>2, <1>5, <1>6, <1>7 DEF SyncDone
<1>13. \A p \in Packs : Stored(mid.saved[p].active) = Stored(planned.saved[p].active)
  BY <1>11, <1>12
<1>14. /\ again.deps = rest.deps /\ again.root = rest.root
       /\ \A p \in todo : again.saved[p] = rest.saved[p]
  <2>1. /\ SyncAllAt(rev, path, mid, todo).deps = SyncAllAt(rev, path, planned, todo).deps
        /\ mid.root = planned.root =>
              SyncAllAt(rev, path, mid, todo).root = SyncAllAt(rev, path, planned, todo).root
        /\ \A p \in todo : SyncAllAt(rev, path, mid, todo).saved[p]
                              = SyncAllAt(rev, path, planned, todo).saved[p]
    <3>1. mid.deps = planned.deps /\ mid.packs = planned.packs
      BY <1>6, <1>8, <1>10
    <3>2. QED
      BY <1>1, <1>6, <1>10, <1>13, <3>1, SyncAllSame
  <2>2. QED
    BY <1>6, <1>8, <2>1
<1>15. SyncDone(rev, path, mid, todo, again) /\ SyncDone(rev, path, planned, todo, rest)
  BY <1>1, <1>6, <1>10, SyncAllDoes
<1> HIDE DEF again, rest
<1>16. again.packs = rest.packs /\ \A p \in Done : again.saved[p] = rest.saved[p]
  <2>1. again.packs = rest.packs
    BY <1>6, <1>10, <1>15 DEF SyncDone
  <2>2. ASSUME NEW p \in Done
        PROVE  again.saved[p] = rest.saved[p]
    <3>1. p \in Packs \ todo
      BY <1>4
    <3>2. again.saved[p] = mid.saved[p] /\ rest.saved[p] = planned.saved[p]
      BY <1>15, <3>1 DEF SyncDone
    <3>3. QED
      BY <1>11, <3>2
  <2>3. QED
    BY <2>1, <2>2
<1>17. Outcome(again, disk.packs) = Outcome(rest, disk.packs)
  <2>1. \A p \in disk.packs : again.saved[p] = rest.saved[p]
    BY <1>4, <1>14, <1>16
  <2>2. QED
    BY <1>14, <1>16, <2>1 DEF Outcome
<1>18. SyncFinish = rest
  BY SyncNow DEF SyncFinish, rest, planned, recorded, path, todo
<1>19. SyncAll(cmd.path, Preflight(disk), disk.packs) = again
  BY <1>9, SyncNow DEF left_behind, path
<1>20. QED
  BY <1>17, <1>18, <1>19

-----------------------------------------------------------------------------
(* add again. *)

(* What add makes of the tables: its crates written, those it leaves out gone. *)
Added(deps, crates, gone) == DropDeps(AddDeps(deps, crates), gone)

AddedRoot(root, crates, names) == Without(AddRoot(root, crates), names)

AddedRow(row, crates, gone, s, c) ==
    CASE In(s, c, gone) -> Absent
      [] ~In(s, c, gone) /\ In(s, c, crates) -> IF Workspace THEN Ref ELSE AddEntry(crates[c])
      [] OTHER -> row

AddedRootRow(row, crates, names, c) ==
    CASE c \in names -> Absent
      [] c \notin names /\ Workspace /\ c \in DOMAIN crates -> AddEntry(crates[c])
      [] OTHER -> row

(* Row by row; *)
LEMMA AddedRows ==
    ASSUME NEW deps, NEW crates, NEW gone
    PROVE  \A s \in Sections, c \in Crates :
              Added(deps, crates, gone)[s][c] = AddedRow(deps[s][c], crates, gone, s, c)
  BY DEF AddDeps, AddedRow, Added, DropDeps

(* so for the workspace table; *)
LEMMA AddedRootRows ==
    ASSUME NEW root, NEW crates, NEW names
    PROVE  \A c \in Crates :
              AddedRoot(root, crates, names)[c] = AddedRootRow(root[c], crates, names, c)
  BY DEF AddRoot, AddedRootRow, AddedRoot, Without

(* nothing else tells two such tables apart. *)
LEMMA AddedEqual ==
    ASSUME NEW deps, NEW gone, NEW olddeps, NEW oldgone, NEW crates,
           \A s \in Sections, c \in Crates :
              Added(deps, crates, gone)[s][c] = Added(olddeps, crates, oldgone)[s][c]
    PROVE  Added(deps, crates, gone) = Added(olddeps, crates, oldgone)
<1>1. \A s \in Sections : Added(deps, crates, gone)[s] = Added(olddeps, crates, oldgone)[s]
  BY DEF Added, DropDeps
<1>2. QED
  BY <1>1 DEF Added, DropDeps

(* Nor two workspace tables. *)
LEMMA AddedRootEqual ==
    ASSUME NEW root, NEW names, NEW oldroot, NEW oldnames, NEW crates,
           \A c \in Crates :
              AddedRoot(root, crates, names)[c] = AddedRoot(oldroot, crates, oldnames)[c]
    PROVE  AddedRoot(root, crates, names) = AddedRoot(oldroot, crates, oldnames)
  BY DEF AddedRoot, Without

(* Adding the crates once more changes nothing, if what is dropped is gone. *)
LEMMA AddedTwice ==
    ASSUME NEW deps, NEW root, NEW crates, NEW gone, DOMAIN gone \cap DOMAIN crates = {},
           NEW more, DOMAIN more \subseteq DOMAIN gone, NEW names, names \subseteq DOMAIN gone,
           \A c \in DOMAIN more : more[c] = gone[c]
    PROVE  /\ Added(Added(deps, crates, gone), crates, more) = Added(deps, crates, gone)
           /\ AddedRoot(AddedRoot(root, crates, DOMAIN gone), crates, names)
                 = AddedRoot(root, crates, DOMAIN gone)
<1> DEFINE once == Added(deps, crates, gone)
           rootonce == AddedRoot(root, crates, DOMAIN gone)
<1>1. ASSUME NEW s \in Sections, NEW c \in Crates
      PROVE  Added(once, crates, more)[s][c] = Added(deps, crates, gone)[s][c]
  <2>1. once[s][c] = AddedRow(deps[s][c], crates, gone, s, c)
    BY AddedRows
  <2>2. /\ In(s, c, more) => In(s, c, gone)
        /\ In(s, c, gone) => ~In(s, c, crates)
    BY DEF In
  <2>3. AddedRow(once[s][c], crates, more, s, c) = once[s][c]
    BY <2>1, <2>2 DEF AddedRow
  <2>4. QED
    BY <2>3, AddedRows
<1>2. ASSUME NEW c \in Crates
      PROVE  AddedRoot(rootonce, crates, names)[c] = AddedRoot(root, crates, DOMAIN gone)[c]
  <2>1. rootonce[c] = AddedRootRow(root[c], crates, DOMAIN gone, c)
    BY AddedRootRows
  <2>2. AddedRootRow(rootonce[c], crates, names, c) = rootonce[c]
    BY <2>1 DEF AddedRootRow
  <2>3. QED
    BY <2>2, AddedRootRows
<1>3. QED
  BY <1>1, <1>2, AddedEqual, AddedRootEqual

(* Rows that are not there need not be dropped. *)
LEMMA AddedSame ==
    ASSUME NEW deps, NEW crates, NEW gone, DOMAIN gone \cap DOMAIN crates = {},
           NEW less, DOMAIN less \subseteq DOMAIN gone, \A c \in DOMAIN less : less[c] = gone[c],
           \A c \in DOMAIN gone \ DOMAIN less : \A s \in Sections :
              c \in Crates => deps[s][c] = Absent
    PROVE  Added(deps, crates, less) = Added(deps, crates, gone)
<1>1. ASSUME NEW s \in Sections, NEW c \in Crates
      PROVE  Added(deps, crates, less)[s][c] = Added(deps, crates, gone)[s][c]
  <2>1. /\ In(s, c, less) => In(s, c, gone)
        /\ In(s, c, gone) => ~In(s, c, crates)
        /\ In(s, c, gone) /\ ~In(s, c, less) => deps[s][c] = Absent
    BY DEF In
  <2>2. AddedRow(deps[s][c], crates, less, s, c) = AddedRow(deps[s][c], crates, gone, s, c)
    BY <2>1 DEF AddedRow
  <2>3. QED
    BY <2>2, AddedRows
<1>2. QED
  BY <1>1, AddedEqual

(* What add drafts, when its selection is not empty. *)
LEMMA AddDrafts ==
    ASSUME NEW d, NEW p, NEW spec, NEW choice, DOMAIN choice.crates # {}
    PROVE  LET gone == Deselected(spec, d.saved[p].managed, choice.crates)
               draft == AddDraft(d, p, spec, choice)
           IN  /\ draft.op = "add" /\ draft.pack = p /\ draft.packs = d.packs
               /\ draft.pc = (IF Workspace THEN "root" ELSE "manifest")
               /\ draft.crates = choice.crates /\ draft.active = choice.active
               /\ draft.deps = Added(d.deps, choice.crates, gone)
               /\ draft.root = AddedRoot(d.root, choice.crates, DOMAIN gone)
               /\ draft.entry = StateOf(choice.active, choice.crates)
<1> DEFINE gone == Deselected(spec, d.saved[p].managed, choice.crates)
           X == DropDeps(AddDeps(d.deps, choice.crates), gone)
           Y == Without(AddRoot(d.root, choice.crates), DOMAIN gone)
           Z == StateOf(choice.active, choice.crates)
<1>1. AddDraft(d, p, spec, choice) =
        [Idle EXCEPT
            !.op = "add", !.pack = p,
            !.pc = IF Workspace THEN "root" ELSE "manifest",
            !.crates = choice.crates, !.active = choice.active,
            !.deps = X, !.packs = d.packs, !.root = Y, !.entry = Z]
  BY DEF AddDraft
<1> HIDE DEF gone, X, Y, Z
<1>2. LET draft == AddDraft(d, p, spec, choice)
      IN  /\ draft.op = "add" /\ draft.pack = p /\ draft.packs = d.packs
          /\ draft.pc = (IF Workspace THEN "root" ELSE "manifest")
          /\ draft.crates = choice.crates /\ draft.active = choice.active
          /\ draft.deps = X /\ draft.root = Y /\ draft.entry = Z
  BY <1>1 DEF Idle
<1>3. QED
  BY <1>2 DEF gone, X, Y, Z, Added, AddedRoot

(* What a command that finishes leaves of its drafts. *)
LEMMA Finishes ==
    ASSUME NEW d \in Files, NEW c, c.pack \in Packs
    PROVE  /\ Finish(d, c).deps = c.deps /\ Finish(d, c).packs = c.packs
           /\ Finish(d, c).root = c.root /\ Finish(d, c).saved[c.pack] = c.entry
<1>1. /\ d = [deps |-> d.deps, packs |-> d.packs, root |-> d.root, saved |-> d.saved]
      /\ d.saved \in [Packs -> SavedState]
  BY DEF Files, Disk
<1>2. [d.saved EXCEPT ![c.pack] = c.entry][c.pack] = c.entry
  BY <1>1
<1>3. QED
  BY <1>1, <1>2 DEF Finish

(* Finishing a well-formed command leaves files. *)
LEMMA FinishOK ==
    ASSUME NEW d \in Files, NEW c, c.pack \in Packs, c.deps \in Tables,
           c.packs \in SUBSET Packs, c.root \in [Crates -> Entry],
           c.entry \in SavedState, c.entry.active # {}
    PROVE  Finish(d, c) \in Files
<1>1. /\ d = [deps |-> d.deps, packs |-> d.packs, root |-> d.root, saved |-> d.saved]
      /\ d.saved \in [Packs -> SavedState]
  BY DEF Files, Disk
<1> DEFINE saved == [d.saved EXCEPT ![c.pack] = c.entry]
<1>2. saved \in [Packs -> SavedState] /\ \A p \in Packs : saved[p].active # {}
  BY <1>1 DEF Files
<1>3. Finish(d, c) = [deps |-> c.deps, packs |-> c.packs, root |-> c.root, saved |-> saved]
  <2> DEFINE first == [d EXCEPT !.deps = c.deps]
             second == [first EXCEPT !.packs = c.packs]
             third == [second EXCEPT !.root = c.root]
  <2>1. Finish(d, c) = [third EXCEPT !.saved[c.pack] = c.entry]
    BY <1>1 DEF Finish
  <2>2. first = [deps |-> c.deps, packs |-> d.packs, root |-> d.root, saved |-> d.saved]
    BY <1>1
  <2> HIDE DEF first
  <2>3. second = [deps |-> c.deps, packs |-> c.packs, root |-> d.root, saved |-> d.saved]
    BY <2>2
  <2> HIDE DEF second
  <2>4. third = [deps |-> c.deps, packs |-> c.packs, root |-> c.root, saved |-> d.saved]
    BY <2>3
  <2> HIDE DEF third
  <2>5. QED
    BY <2>1, <2>4
<1> HIDE DEF saved
<1>4. QED
  BY <1>2, <1>3 DEF Files, Disk

(* What the preflight leaves of a pack's entry. *)
LEMMA PreflightEntry ==
    ASSUME NEW d \in Files, NEW p \in Packs
    PROVE  /\ Preflight(d).saved[p].known = d.saved[p].known
           /\ Preflight(d).saved[p].active = d.saved[p].active
           /\ Preflight(d).saved[p].managed =
                IF Loads(d) THEN d.saved[p].managed \cap Declared(d) ELSE d.saved[p].managed
<1>1. /\ d = [deps |-> d.deps, packs |-> d.packs, root |-> d.root, saved |-> d.saved]
      /\ d.saved[p] \in SavedState
  BY DEF Files, Disk
<1>2. CASE Loads(d)
  <2> DEFINE kept(q) == [d.saved[q] EXCEPT !.managed = @ \cap Declared(d)]
  <2>1. Preflight(d) = [d EXCEPT !.saved = [q \in Packs |-> kept(q)]]
    BY <1>2 DEF Preflight
  <2> HIDE DEF kept
  <2>2. Preflight(d).saved[p] = kept(p)
    BY <1>1, <2>1
  <2>3. QED
    BY <1>1, <1>2, <2>2 DEF kept, SavedState
<1>3. CASE ~Loads(d)
  BY <1>3 DEF Preflight
<1>4. QED
  BY <1>2, <1>3

(* Files are the same for the preflight if their tables are. *)
LEMMA SameFiles ==
    ASSUME NEW d, NEW e, d.deps = e.deps, d.root = e.root
    PROVE  Loads(d) = Loads(e) /\ Declared(d) = Declared(e)
  BY Zenon DEF Loads, Declared

(* What a second add finds selected is what the first one selected. *)
LEMMA ChosenAgain ==
    ASSUME NEW spec, NEW r \in Requests, ~IsAll(r.features),
           NEW stored, NEW next, DOMAIN Chosen(spec, r, stored).crates # {},
           next.known, next.active = Stored(Chosen(spec, r, stored).active)
    PROVE  /\ Chosen(spec, r, next).crates = Chosen(spec, r, stored).crates
           /\ Stored(Chosen(spec, r, next).active) = Stored(Chosen(spec, r, stored).active)
<1> DEFINE features == Merged(spec, r, stored) \cup (IF r.noDefault THEN {} ELSE {"default"})
           again == Merged(spec, r, next) \cup (IF r.noDefault THEN {} ELSE {"default"})
           named == [c \in r.crates \cap DOMAIN spec.crates |-> spec.crates[c]]
           every == ResolveForFeatures(spec, {"all"})
<1>1. CASE r.crates # {}
  <2>1. \A s : Chosen(spec, r, s) = [active |-> {}, crates |-> named]
    BY <1>1 DEF Chosen
  <2>2. QED
    BY <2>1
<1>2. CASE r.crates = {} /\ TakesAll(r, stored)
  <2>1. \A s : TakesAll(r, s) => Chosen(spec, r, s) = [active |-> {"all"}, crates |-> every]
    BY <1>2 DEF Chosen
  <2>2. Chosen(spec, r, stored).active = {"all"}
    BY <1>2, <2>1
  <2>3. next.active = {"all"} /\ IsAll(next.active)
    BY <2>2 DEF Stored, IsAll
  <2>4. TakesAll(r, next)
    BY <1>2, <2>3 DEF TakesAll
  <2>5. QED
    BY <1>2, <2>1, <2>4
<1>3. CASE r.crates = {} /\ ~TakesAll(r, stored)
  <2>1. \A s : ~TakesAll(r, s) =>
           LET all == Merged(spec, r, s) \cup (IF r.noDefault THEN {} ELSE {"default"})
           IN  Chosen(spec, r, s) = IF all = {} THEN [active |-> {}, crates |-> <<>>]
                                    ELSE [active |-> all, crates |-> Resolve(spec, all)]
    BY <1>3 DEF Chosen
  <2>2. Chosen(spec, r, stored) = IF features = {} THEN [active |-> {}, crates |-> <<>>]
                                  ELSE [active |-> features, crates |-> Resolve(spec, features)]
    BY <1>3, <2>1
  <2>3. features # {} /\ Chosen(spec, r, stored).active = features
    BY <2>2
  <2>4. ~r.all /\ (KeepsStored(r) /\ stored.known => ~IsAll(stored.active))
    BY <1>3 DEF TakesAll
  <2>5. ~IsAll(features)
    BY <2>4 DEF Merged, IsAll
  <2> DEFINE Keeping(s) == {f \in s.active : \A g \in r.features : ~ExclusiveSiblings(spec, g, f)}
  <2>6. Stored(features) = features
    BY <2>3, <2>5 DEF Stored
  <2>7. next.active = features
    BY <2>3, <2>6
  <2>8. ~TakesAll(r, next)
    BY <2>4, <2>5, <2>7 DEF TakesAll
  <2>9. again = features
    <3>1. CASE r.noDefault
      BY <3>1 DEF Merged, KeepsStored
    <3>2. CASE ~r.noDefault
      <4>1. KeepsStored(r)
        BY <1>3, <2>4, <3>2 DEF KeepsStored
      <4>2. Merged(spec, r, next) = r.features \cup Keeping(next)
        BY <4>1 DEF Merged
      <4>3. r.features \subseteq features
        BY DEF Merged
      <4>4. \A f \in features : f \in r.features \/ f = "default" \/ f \in Keeping(next)
        BY <2>7 DEF Merged
      <4>5. Keeping(next) \subseteq features
        BY <2>7
      <4> HIDE DEF features, Keeping
      <4>6. QED
        BY <3>2, <4>2, <4>3, <4>4, <4>5 DEF features
    <3>3. QED
      BY <3>1, <3>2
  <2>10. Chosen(spec, r, next) = Chosen(spec, r, stored)
    BY <2>1, <2>2, <2>8, <2>9
  <2>11. QED
    BY <2>10
<1>4. QED
  BY <1>1, <1>2, <1>3

(* What one add leaves, when its selection is not empty. *)
LEMMA AddOnceDoes ==
    ASSUME NEW d \in Files, NEW p \in Packs, NEW r, NEW choice,
           choice = Chosen(Spec(p), r, d.saved[p]), DOMAIN choice.crates # {}
    PROVE  LET ready == Preflight(d)
               gone == Deselected(Spec(p), ready.saved[p].managed, choice.crates)
               once == AddOnce(d, p, r)
           IN  /\ once.deps = Added(d.deps, choice.crates, gone)
               /\ once.root = AddedRoot(d.root, choice.crates, DOMAIN gone)
               /\ once.packs = d.packs
               /\ once.saved[p] = StateOf(choice.active, choice.crates)
<1> DEFINE ready == Preflight(d)
           gone == Deselected(Spec(p), ready.saved[p].managed, choice.crates)
           draft == AddDraft(ready, p, Spec(p), choice)
<1>1. ready \in Files /\ ready.deps = d.deps /\ ready.packs = d.packs /\ ready.root = d.root
  BY PreflightFiles
<1>2. AddOnce(d, p, r) = Finish(ready, draft)
  BY DEF AddOnce
<1>3. /\ draft.pack = p /\ draft.packs = ready.packs
      /\ draft.deps = Added(ready.deps, choice.crates, gone)
      /\ draft.root = AddedRoot(ready.root, choice.crates, DOMAIN gone)
      /\ draft.entry = StateOf(choice.active, choice.crates)
  BY AddDrafts
<1> HIDE DEF ready, gone, draft
<1>4. /\ Finish(ready, draft).deps = draft.deps /\ Finish(ready, draft).packs = draft.packs
      /\ Finish(ready, draft).root = draft.root /\ Finish(ready, draft).saved[p] = draft.entry
  BY <1>1, <1>3, Finishes
<1>5. QED
  BY <1>1, <1>2, <1>3, <1>4 DEF ready, gone

(* It leaves files. *)
LEMMA AddOnceFiles ==
    ASSUME TypeOK, NEW d \in Files, NEW p \in Packs, NEW r \in Requests
    PROVE  AddOnce(d, p, r) \in Files
<1> DEFINE choice == Chosen(Spec(p), r, d.saved[p])
           ready == Preflight(d)
           draft == AddDraft(ready, p, Spec(p), choice)
<1>1. ready \in Files
  BY PreflightFiles
<1>2. CASE DOMAIN choice.crates = {}
  BY <1>1, <1>2 DEF AddOnce
<1>3. CASE DOMAIN choice.crates # {}
  <2>1. AddOnce(d, p, r) = Finish(ready, draft)
    BY <1>3 DEF AddOnce
  <2>2. d.saved[p] \in SavedState
    BY DEF Files, Disk
  <2>3. Known(Spec(p))
    BY SpecKnown
  <2>4. CrateMap(choice.crates) /\ choice.active \subseteq FeatureNames
    BY <2>2, <2>3, ChosenType
  <2>5. ready \in Disk
    BY <1>1 DEF Files
  <2>6. draft.pack = p
    BY <1>3, AddDrafts
  <2> HIDE DEF choice, ready
  <2>7. CommandOK(draft)
    BY <2>3, <2>4, <2>5, AddDraftOK
  <2> HIDE DEF draft
  <2>8. /\ draft.deps \in Tables /\ draft.packs \in SUBSET Packs /\ draft.root \in [Crates -> Entry]
        /\ draft.entry \in SavedState /\ draft.entry.active # {}
    BY <2>7 DEF CommandOK, Command
  <2>9. Finish(ready, draft) \in Files
    BY <1>1, <2>6, <2>8, FinishOK
  <2>10. QED
    BY <2>1, <2>9
<1>4. QED
  BY <1>2, <1>3

(* cli.add.idempotent, for one request. *)
LEMMA AddTwice ==
    ASSUME TypeOK, NEW p \in Packs, NEW r \in Requests, ~IsAll(r.features)
    PROVE  Outcome(AddOnce(AddOnce(disk, p, r), p, r), {p}) = Outcome(AddOnce(disk, p, r), {p})
<1> DEFINE choice == Chosen(Spec(p), r, disk.saved[p])
           once == AddOnce(disk, p, r)
           twice == AddOnce(once, p, r)
<1>1. disk \in Files
  BY SyncTypes
<1>2. once \in Files
  BY <1>1, AddOnceFiles
<1>3. CASE DOMAIN choice.crates = {}
  <2>1. once = Preflight(disk)
    BY <1>3 DEF AddOnce
  <2>2. /\ once.saved[p].known = disk.saved[p].known
        /\ once.saved[p].active = disk.saved[p].active
    BY <1>1, <2>1, PreflightEntry
  <2>3. Chosen(Spec(p), r, once.saved[p]) = choice
    BY <2>2 DEF Chosen, Merged, TakesAll
  <2>4. twice = Preflight(once)
    BY <1>3, <2>3 DEF AddOnce
  <2>5. /\ once.deps = disk.deps /\ once.root = disk.root
        /\ twice.deps = once.deps /\ twice.packs = once.packs /\ twice.root = once.root
    BY <1>1, <1>2, <2>1, <2>4, PreflightFiles
  <2>6. Loads(once) = Loads(disk) /\ Declared(once) = Declared(disk)
    BY <2>5, SameFiles
  <2>7. /\ once.saved[p].managed = IF Loads(disk) THEN disk.saved[p].managed \cap Declared(disk)
                                   ELSE disk.saved[p].managed
        /\ twice.saved[p].managed = IF Loads(once) THEN once.saved[p].managed \cap Declared(once)
                                    ELSE once.saved[p].managed
        /\ twice.saved[p].known = once.saved[p].known
        /\ twice.saved[p].active = once.saved[p].active
    BY <1>1, <1>2, <2>1, <2>4, PreflightEntry
  <2>8. twice.saved[p].managed = once.saved[p].managed
    BY <2>6, <2>7
  <2>9. once.saved[p] \in SavedState /\ twice.saved[p] \in SavedState
    BY <1>2, <2>4, PreflightFiles DEF Files, Disk
  <2>10. twice.saved[p] = once.saved[p]
    BY <2>7, <2>8, <2>9 DEF SavedState
  <2> HIDE DEF once, twice
  <2>11. QED
    BY <2>5, <2>10 DEF Outcome, once, twice
<1>4. CASE DOMAIN choice.crates # {}
  <2> DEFINE crates == choice.crates
             gone == Deselected(Spec(p), Preflight(disk).saved[p].managed, crates)
             next == Chosen(Spec(p), r, once.saved[p])
             more == Deselected(Spec(p), Preflight(once).saved[p].managed, next.crates)
  <2>1. /\ once.deps = Added(disk.deps, crates, gone)
        /\ once.root = AddedRoot(disk.root, crates, DOMAIN gone)
        /\ once.saved[p] = StateOf(choice.active, crates)
    BY <1>1, <1>4, AddOnceDoes
  <2>2. /\ once.saved[p].known = TRUE /\ once.saved[p].active = Stored(choice.active)
        /\ once.saved[p].managed = DOMAIN crates
    BY <2>1 DEF StateOf
  <2>3. next.crates = crates /\ Stored(next.active) = Stored(choice.active)
    <3>1. once.saved[p].active = Stored(Chosen(Spec(p), r, disk.saved[p]).active)
      BY <2>2
    <3> DEFINE entry == once.saved[p]
    <3>2. entry.known /\ entry.active = Stored(Chosen(Spec(p), r, disk.saved[p]).active)
      BY <2>2, <3>1
    <3> HIDE DEF entry
    <3>3. /\ Chosen(Spec(p), r, entry).crates = choice.crates
          /\ Stored(Chosen(Spec(p), r, entry).active) = Stored(choice.active)
      BY <1>4, <3>2, ChosenAgain
    <3>4. QED
      BY <3>3 DEF entry
  <2>4. /\ twice.deps = Added(once.deps, next.crates, more)
        /\ twice.root = AddedRoot(once.root, next.crates, DOMAIN more)
        /\ twice.packs = once.packs
        /\ twice.saved[p] = StateOf(next.active, next.crates)
    BY <1>2, <1>4, <2>3, AddOnceDoes
  <2>5. DOMAIN more = {}
    <3>1. Preflight(once).saved[p].managed \subseteq DOMAIN crates
      BY <1>2, <2>2, PreflightEntry
    <3> HIDE DEF next, once
    <3>2. QED
      BY <2>3, <3>1 DEF Deselected
  <2>6. DOMAIN gone \cap DOMAIN crates = {}
    BY DEF Deselected
  <2> HIDE DEF once, twice, next, more, gone, crates
  <2>7. twice.deps = once.deps /\ twice.root = once.root
    BY <2>1, <2>3, <2>4, <2>5, <2>6, AddedTwice
  <2>8. twice.saved[p] = once.saved[p]
    BY <2>1, <2>3, <2>4 DEF StateOf
  <2>9. QED
    BY <2>4, <2>7, <2>8 DEF Outcome, once, twice
<1>5. QED
  BY <1>3, <1>4

(* cli.add.idempotent: whatever the packs and whatever a pack's entry was, the
   same flags given again select the same crates, drop nothing more and store
   the same selection. *)
THEOREM AddOnceIsEnough == ProjectSpec => []AddIdempotent
<1>1. TypeOK => AddIdempotent
  BY AddTwice DEF AddIdempotent
<1>2. QED
  BY <1>1, TypeInvariance, PTL

-----------------------------------------------------------------------------
(* Commands that are interrupted. What their drafts are to the files while
   they write: *)

(* An entry nobody recorded is as it was. *)
Recorded(e) == e.known \/ e = NoState

Unrecorded == Recorded(cmd.entry) /\ \A p \in Packs : Recorded(disk.saved[p])

(* Without a workspace there is no table of one. *)
NoRoot == ~Workspace => disk.root = NoRows /\ cmd.pc # "root"

(* Each command's preflight has pruned what a workspace that loads does not
   declare. *)
Pruned(d, p) == Loads(d) => d.saved[p].managed \subseteq Declared(d)

(* The draft of add is what its selection makes of the files, before and after
   each write of it. *)
AddPlanned(c, d, spec) ==
    LET gone == Deselected(spec, d.saved[c.pack].managed, c.crates) IN
    /\ DOMAIN c.crates # {}
    /\ c.deps = Added(d.deps, c.crates, gone)
    /\ c.packs = d.packs
    /\ c.root = AddedRoot(d.root, c.crates, DOMAIN gone)
    /\ c.entry = StateOf(c.active, c.crates)
    /\ c.pc # "root" => d.root = c.root
    /\ c.pc = "root" => Pruned(d, c.pack)

AddPlan ==
    cmd.op = "add" =>
       IF cmd.pc = "picker" THEN disk.saved[cmd.pack] = NoState
       ELSE AddPlanned(cmd, disk, Spec(cmd.pack))

(* The draft of rm is what dropping makes of them, until Cargo.toml is written. *)
RmDeps(deps, safe) ==
    [s \in Sections |-> IF s = "build-dependencies" THEN deps[s] ELSE Without(deps[s], safe)]

Dropped(saved, packs, p, dropping) == IF dropping THEN Safe(saved, packs, p) ELSE {}

RmPlanned(c, d) ==
    LET safe == Dropped(d.saved, d.packs, c.pack, c.dropping) IN
    /\ c.deps = RmDeps(d.deps, safe) /\ c.packs = d.packs \ {c.pack}
    /\ c.root = Without(d.root, safe) /\ c.entry = NoState

RmPlan ==
    cmd.op = "rm" /\ ~cmd.stale /\ cmd.pc # "state" =>
       /\ \A p \in Packs : Pruned(disk, p)
       /\ IF cmd.pc = "prompt" THEN cmd.deps = disk.deps /\ cmd.packs = disk.packs
          ELSE RmPlanned(cmd, disk)

-----------------------------------------------------------------------------
(* What the drafts record. *)

(* What rm drafts. *)
LEMMA RmDrafts ==
    ASSUME NEW deps, NEW packs, NEW root, NEW saved, NEW p, NEW dropping
    PROVE  LET draft == RmDraft(deps, packs, root, saved, p, dropping)
               safe == Dropped(saved, packs, p, dropping)
           IN  /\ draft.op = "rm" /\ draft.pack = p /\ draft.dropping = dropping
               /\ draft.pc = (IF dropping /\ Workspace THEN "root" ELSE "manifest")
               /\ draft.deps = RmDeps(deps, safe) /\ draft.packs = packs \ {p}
               /\ draft.root = Without(root, safe) /\ draft.entry = NoState
               /\ DOMAIN draft = DOMAIN Idle
<1> DEFINE safe == Dropped(saved, packs, p, dropping)
           X == RmDeps(deps, safe)
           Y == Without(root, safe)
<1>1. RmDraft(deps, packs, root, saved, p, dropping) =
        [Idle EXCEPT
            !.op = "rm", !.pack = p, !.dropping = dropping,
            !.pc = IF dropping /\ Workspace THEN "root" ELSE "manifest",
            !.deps = X, !.packs = packs \ {p}, !.root = Y]
  BY DEF RmDraft, RmDeps, Dropped
<1> HIDE DEF safe, X, Y
<1>2. LET draft == RmDraft(deps, packs, root, saved, p, dropping)
      IN  /\ draft.op = "rm" /\ draft.pack = p /\ draft.dropping = dropping
          /\ draft.pc = (IF dropping /\ Workspace THEN "root" ELSE "manifest")
          /\ draft.deps = X /\ draft.packs = packs \ {p} /\ draft.root = Y
          /\ draft.entry = NoState
          /\ DOMAIN draft = DOMAIN Idle
  BY <1>1 DEF Idle
<1>3. QED
  BY <1>2 DEF X, Y, safe

(* What the answer to rm's prompt drafts. *)
LEMMA AnswerDrafts ==
    ASSUME NEW yes, RmAnswer(yes)
    PROVE  LET safe == Dropped(disk.saved, cmd.packs, cmd.pack, yes)
           IN  /\ cmd'.op = "rm" /\ cmd'.pack = cmd.pack /\ cmd'.dropping = yes
               /\ cmd'.pc = (IF yes /\ Workspace THEN "root" ELSE "manifest")
               /\ cmd'.deps = RmDeps(cmd.deps, safe) /\ cmd'.packs = cmd.packs \ {cmd.pack}
               /\ cmd'.root = Without(disk.root, safe) /\ cmd'.entry = NoState
               /\ cmd'.stale = cmd.stale /\ disk' = disk /\ rev' = rev
<1> DEFINE draft == RmDraft(cmd.deps, cmd.packs, disk.root, disk.saved, cmd.pack, yes)
           safe == Dropped(disk.saved, cmd.packs, cmd.pack, yes)
<1>1. cmd' = [draft EXCEPT !.stale = cmd.stale] /\ disk' = disk /\ rev' = rev
  BY DEF RmAnswer
<1>2. /\ draft.op = "rm" /\ draft.pack = cmd.pack /\ draft.dropping = yes
      /\ draft.pc = (IF yes /\ Workspace THEN "root" ELSE "manifest")
      /\ draft.deps = RmDeps(cmd.deps, safe) /\ draft.packs = cmd.packs \ {cmd.pack}
      /\ draft.root = Without(disk.root, safe) /\ draft.entry = NoState
      /\ DOMAIN draft = DOMAIN Idle
  BY RmDrafts
<1>3. "stale" \in DOMAIN Idle
  BY DEF Idle
<1> HIDE DEF draft, safe
<1>4. /\ cmd'.op = draft.op /\ cmd'.pack = draft.pack /\ cmd'.dropping = draft.dropping
      /\ cmd'.pc = draft.pc /\ cmd'.deps = draft.deps /\ cmd'.packs = draft.packs
      /\ cmd'.root = draft.root /\ cmd'.entry = draft.entry /\ cmd'.stale = cmd.stale
  BY <1>1, <1>2, <1>3
<1>5. QED
  BY <1>1, <1>2, <1>4 DEF safe

(* No command begins with an entry of its own, or at the workspace table when
   there is none. *)
LEMMA BeginsBare ==
    ASSUME TypeOK, CommandBegins
    PROVE  /\ disk' = Preflight(disk) /\ cmd = Idle /\ rev' = rev
           /\ Recorded(cmd'.entry) /\ (~Workspace => cmd'.pc # "root")
<1>1. disk' = Preflight(disk) /\ cmd = Idle /\ rev' = rev
  BY DEF CommandBegins, OtherCommand, Add, AddInteractive, Sync, Rm, RmAsk, Begins
<1>2. Idle.entry = NoState /\ Idle.pc = "idle"
  BY DEF Idle
<1>3. \A d, p, spec, choice :
         LET draft == AddDraft(d, p, spec, choice)
         IN  Recorded(draft.entry) /\ (~Workspace => draft.pc # "root")
  <2>1. ASSUME NEW d, NEW p, NEW spec, NEW choice
        PROVE  LET draft == AddDraft(d, p, spec, choice)
               IN  Recorded(draft.entry) /\ (~Workspace => draft.pc # "root")
    <3>1. CASE DOMAIN choice.crates = {}
      BY <1>2, <3>1 DEF AddDraft, Recorded
    <3>2. CASE DOMAIN choice.crates # {}
      <4>1. \A A, m : StateOf(A, m).known
        BY DEF StateOf
      <4>2. QED
        BY <3>2, <4>1, AddDrafts DEF Recorded
    <3>3. QED
      BY <3>1, <3>2
  <2>2. QED
    BY <2>1
<1>4. CASE OtherCommand
  BY <1>1, <1>2, <1>4 DEF OtherCommand, Recorded
<1>5. CASE \E p \in Packs, r \in Requests : Add(p, r)
  BY <1>1, <1>3, <1>5 DEF Add
<1>6. CASE \E p \in Packs, r \in Requests : AddInteractive(p, r)
  <2>1. PICK p \in Packs, r \in Requests : AddInteractive(p, r)
    BY <1>6
  <2> DEFINE asks == [Idle EXCEPT !.op = "add", !.pc = "picker", !.pack = p]
  <2>2. asks.pc = "picker" /\ asks.entry = NoState
    BY DEF Idle
  <2>3. cmd' = asks \/ \E choice : cmd' = AddDraft(disk', p, Spec(p), choice)
    BY <2>1 DEF AddInteractive
  <2> HIDE DEF asks
  <2>4. QED
    BY <1>1, <1>3, <2>2, <2>3 DEF Recorded
<1>7. CASE \E local, path : Sync(local, path)
  <2>1. cmd'.entry = NoState /\ cmd'.pc = "load"
    BY <1>7 DEF Sync, Idle
  <2>2. QED
    BY <1>1, <2>1 DEF Recorded
<1>8. CASE \E p \in Packs : RmAsk(p)
  <2>1. cmd'.entry = NoState /\ cmd'.pc = "prompt"
    BY <1>8 DEF RmAsk, Idle
  <2>2. QED
    BY <1>1, <2>1 DEF Recorded
<1>9. CASE \E p \in Packs, dropping \in BOOLEAN : Rm(p, dropping)
  <2>1. PICK p \in Packs, dropping \in BOOLEAN : Rm(p, dropping)
    BY <1>9
  <2>2. cmd' = RmDraft(disk.deps, disk.packs, disk.root, disk'.saved, p,
                       dropping /\ disk.saved[p].known)
    BY <2>1 DEF Rm
  <2>3. cmd'.entry = NoState /\ (~Workspace => cmd'.pc # "root")
    BY <2>2, RmDrafts
  <2>4. QED
    BY <1>1, <2>3 DEF Recorded
<1>10. QED
  BY <1>4, <1>5, <1>6, <1>7, <1>8, <1>9 DEF CommandBegins

(* The preflight records nothing. *)
LEMMA PreflightRecords ==
    ASSUME NEW d \in Files, NEW p \in Packs, Recorded(d.saved[p])
    PROVE  Recorded(Preflight(d).saved[p])
<1>1. /\ Preflight(d).saved[p].known = d.saved[p].known
      /\ Preflight(d).saved[p].active = d.saved[p].active
      /\ Preflight(d).saved[p].managed \subseteq d.saved[p].managed
  BY PreflightEntry
<1>2. Preflight(d).saved[p] \in SavedState /\ d.saved[p] \in SavedState
  BY PreflightFiles DEF Files, Disk
<1>3. CASE d.saved[p] = NoState
  <2>1. Preflight(d).saved[p].managed = {}
    BY <1>1, <1>3 DEF NoState
  <2> DEFINE e == Preflight(d).saved[p]
  <2>2. e = [known |-> e.known, active |-> e.active, managed |-> e.managed]
    BY <1>2 DEF SavedState
  <2>3. d.saved[p].known = FALSE /\ d.saved[p].active = {"default"}
    BY <1>3 DEF NoState
  <2>4. e.known = FALSE /\ e.active = {"default"} /\ e.managed = {}
    BY <1>1, <2>1, <2>3
  <2> HIDE DEF e
  <2>5. e = NoState
    BY <2>2, <2>4 DEF NoState
  <2>6. QED
    BY <2>5 DEF Recorded, e
<1>4. CASE d.saved[p].known
  BY <1>1, <1>4 DEF Recorded
<1>5. QED
  BY <1>3, <1>4 DEF Recorded

(* Entries are recorded by commands only, and the workspace table is written
   only where there is one. *)
LEMMA BareStep ==
    ASSUME TypeOK, TypeOK', Unrecorded, NoRoot, [Next]_vars
    PROVE  Unrecorded' /\ NoRoot'
<1>1. /\ disk \in Files /\ disk.root \in [Crates -> Entry] /\ disk.saved \in [Packs -> SavedState]
      /\ disk = [deps |-> disk.deps, packs |-> disk.packs, root |-> disk.root,
                 saved |-> disk.saved]
      /\ cmd \in Command(DOMAIN cmd.crates) /\ Phases(cmd)
  BY SyncTypes
<1>2. Recorded(cmd.entry) /\ (\A p \in Packs : Recorded(disk.saved[p])) /\ Recorded(NoState)
  BY DEF Unrecorded, Recorded
<1>3. Idle.entry = NoState /\ Idle.pc = "idle"
  BY DEF Idle
<1>4. CASE CommandBegins
  <2>1. /\ disk' = Preflight(disk) /\ Recorded(cmd'.entry)
        /\ (~Workspace => cmd'.pc # "root")
    BY <1>4, BeginsBare
  <2>2. \A p \in Packs : Recorded(disk'.saved[p])
    BY <1>1, <1>2, <2>1, PreflightRecords
  <2>3. disk'.root = disk.root
    BY <1>1, <2>1, PreflightFiles
  <2>4. QED
    BY <2>1, <2>2, <2>3 DEF Unrecorded, NoRoot
<1>5. CASE WriteRoot
  <2>1. disk'.saved = disk.saved /\ cmd'.entry = cmd.entry /\ cmd.pc = "root"
    BY <1>1, <1>5 DEF WriteRoot, Command
  <2>2. Workspace
    BY <2>1 DEF NoRoot
  <2>3. QED
    BY <1>2, <2>1, <2>2 DEF Unrecorded, NoRoot
<1>6. CASE WriteManifest
  <2>1. disk'.saved = disk.saved /\ disk'.root = disk.root
    BY <1>1, <1>6 DEF WriteManifest
  <2>2. cmd' = Idle \/ cmd' = [cmd EXCEPT !.pc = "state"]
    BY <1>6 DEF WriteManifest
  <2>3. (cmd'.entry = cmd.entry \/ cmd'.entry = NoState) /\ cmd'.pc # "root"
    BY <1>1, <1>3, <2>2 DEF Command
  <2>4. QED
    BY <1>2, <2>1, <2>3 DEF Unrecorded, NoRoot
<1>7. CASE WriteState
  <2>1. cmd.pack \in Packs /\ cmd.entry \in SavedState
    BY <1>1, <1>7 DEF WriteState, Phases, Command
  <2>2. disk'.saved = [disk.saved EXCEPT ![cmd.pack] = cmd.entry] /\ disk'.root = disk.root
    BY <1>1, <1>7 DEF WriteState
  <2>3. cmd' = Idle \/ cmd' = [cmd EXCEPT !.pc = "manifest"] \/ cmd' = [cmd EXCEPT !.pc = "load"]
    BY <1>7 DEF WriteState
  <2>4. (cmd'.entry = cmd.entry \/ cmd'.entry = NoState) /\ cmd'.pc # "root"
    BY <1>1, <1>3, <2>3 DEF Command
  <2>5. \A p \in Packs : disk'.saved[p] = IF p = cmd.pack THEN cmd.entry ELSE disk.saved[p]
    BY <1>1, <2>2
  <2>6. QED
    BY <1>2, <2>2, <2>4, <2>5 DEF Unrecorded, NoRoot
<1>8. CASE \E feats, rows : Pick(feats, rows)
  <2>1. PICK choice : cmd' = AddDraft(disk, cmd.pack, Spec(cmd.pack), choice) /\ disk' = disk
    BY <1>8 DEF Pick
  <2>2. Recorded(cmd'.entry) /\ (~Workspace => cmd'.pc # "root")
    <3>1. CASE DOMAIN choice.crates = {}
      BY <1>2, <1>3, <2>1, <3>1 DEF AddDraft
    <3>2. CASE DOMAIN choice.crates # {}
      <4>1. \A A, m : StateOf(A, m).known
        BY DEF StateOf
      <4>2. QED
        BY <2>1, <3>2, <4>1, AddDrafts DEF Recorded
    <3>3. QED
      BY <3>1, <3>2
  <2>3. QED
    BY <1>2, <2>1, <2>2 DEF Unrecorded, NoRoot
<1>9. CASE SyncPack
  <2>1. PICK p, expected :
          /\ p \in Packs /\ expected = Wanted(rev, cmd.path, disk, p)
          /\ disk'.root = SyncRoot(disk.root, expected) /\ disk'.saved = disk.saved
          /\ cmd'.pc = "state" /\ cmd'.entry = StateOf(disk.saved[p].active, expected)
    BY <1>9, SyncPackDoes
  <2>2. cmd'.entry.known
    BY <2>1 DEF StateOf
  <2>3. ~Workspace => disk'.root = disk.root
    BY <1>1, <2>1 DEF SyncRoot
  <2>4. QED
    BY <1>2, <2>1, <2>2, <2>3 DEF Unrecorded, NoRoot, Recorded
<1>10. CASE SyncFails \/ Quit
  <2>1. cmd' = Idle /\ disk' = disk
    BY <1>10 DEF SyncFails, Quit
  <2>2. QED
    BY <1>2, <1>3, <2>1 DEF Unrecorded, NoRoot
<1>11. CASE \E yes \in BOOLEAN : RmAnswer(yes)
  <2>1. PICK yes \in BOOLEAN : RmAnswer(yes)
    BY <1>11
  <2>2. cmd'.entry = NoState /\ (~Workspace => cmd'.pc # "root") /\ disk' = disk
    BY <2>1, AnswerDrafts
  <2>3. QED
    BY <1>2, <2>2 DEF Unrecorded, NoRoot
<1>12. CASE Environment
  <2>1. cmd'.entry = cmd.entry /\ cmd'.pc = cmd.pc
    <3>1. cmd' = cmd \/ cmd' = [cmd EXCEPT !.stale = TRUE]
      BY <1>12 DEF Environment, RegisterPack, UserWrites, UserWritesRoot, Publish, Edits
    <3>2. QED
      BY <1>1, <3>1 DEF Command
  <2>2. disk'.saved = disk.saved
    BY <1>1, <1>12 DEF Environment, RegisterPack, UserWrites, UserWritesRoot, Publish
  <2>3. ~Workspace => disk'.root = disk.root
    BY <1>1, <1>12 DEF Environment, RegisterPack, UserWrites, UserWritesRoot, Publish
  <2>4. QED
    BY <1>2, <2>1, <2>2, <2>3 DEF Unrecorded, NoRoot
<1>13. CASE UNCHANGED vars
  BY <1>13 DEF vars, Unrecorded, NoRoot
<1>14. QED
  BY <1>4, <1>5, <1>6, <1>7, <1>8, <1>9, <1>10, <1>11, <1>12, <1>13 DEF Next, CommandSteps

-----------------------------------------------------------------------------
(* A draft of add is planned when it is computed. *)
LEMMA AddStarts ==
    ASSUME NEW d, NEW p, NEW spec, NEW choice, DOMAIN choice.crates # {},
           ~Workspace => d.root = NoRows, Pruned(d, p)
    PROVE  LET draft == AddDraft(d, p, spec, choice)
           IN  draft.pack = p /\ draft.pc # "picker" /\ AddPlanned(draft, d, spec)
<1> DEFINE gone == Deselected(spec, d.saved[p].managed, choice.crates)
           draft == AddDraft(d, p, spec, choice)
<1>1. /\ draft.op = "add" /\ draft.pack = p /\ draft.packs = d.packs
      /\ draft.pc = (IF Workspace THEN "root" ELSE "manifest")
      /\ draft.crates = choice.crates /\ draft.active = choice.active
      /\ draft.deps = Added(d.deps, choice.crates, gone)
      /\ draft.root = AddedRoot(d.root, choice.crates, DOMAIN gone)
      /\ draft.entry = StateOf(choice.active, choice.crates)
  BY AddDrafts
<1>2. ASSUME ~Workspace PROVE d.root = AddedRoot(d.root, choice.crates, DOMAIN gone)
  <2>1. d.root = NoRows
    BY <1>2
  <2>2. \A c \in Crates : AddedRoot(d.root, choice.crates, DOMAIN gone)[c] = Absent
    BY <1>2, <2>1, AddedRootRows DEF AddedRootRow, NoRows
  <2>3. AddedRoot(d.root, choice.crates, DOMAIN gone)
           = [c \in Crates |-> AddedRoot(d.root, choice.crates, DOMAIN gone)[c]]
    BY DEF AddedRoot, Without
  <2>4. QED
    BY <2>1, <2>2, <2>3 DEF NoRows
<1> HIDE DEF draft
<1>3. QED
  BY <1>1, <1>2 DEF AddPlanned, draft

(* It opens the picker for packs it has not added yet. *)
LEMMA PickerOpens ==
    ASSUME TypeOK, Unrecorded, [Next]_vars, cmd'.op = "add", cmd'.pc = "picker",
           ~(cmd.op = "add" /\ cmd.pc = "picker")
    PROVE  disk'.saved[cmd'.pack] = NoState
<1>1. /\ disk \in Files /\ cmd \in Command(DOMAIN cmd.crates) /\ Phases(cmd)
      /\ Idle.op = "none" /\ Idle.pc = "idle"
  BY SyncTypes DEF Idle
<1>2. \A d, p, spec, choice : AddDraft(d, p, spec, choice).pc # "picker"
  <2>1. ASSUME NEW d, NEW p, NEW spec, NEW choice PROVE AddDraft(d, p, spec, choice).pc # "picker"
    <3>1. CASE DOMAIN choice.crates = {}
      BY <1>1, <3>1 DEF AddDraft
    <3>2. CASE DOMAIN choice.crates # {}
      BY <3>2, AddDrafts
    <3>3. QED
      BY <3>1, <3>2
  <2>2. QED
    BY <2>1
<1>3. CASE CommandBegins
  <2>1. ~OtherCommand
    BY <1>1 DEF OtherCommand, Begins
  <2>2. \A p \in Packs, r \in Requests : ~Add(p, r)
    BY <1>2 DEF Add
  <2>3. \A local, path : ~Sync(local, path)
    BY DEF Sync, Idle
  <2>4. ASSUME NEW p \in Packs, RmAsk(p)
        PROVE  FALSE
    <3> DEFINE asks == [Idle EXCEPT !.op = "rm", !.pc = "prompt", !.pack = p,
                                    !.deps = disk.deps, !.packs = disk.packs]
    <3>1. asks.op = "rm"
      BY DEF Idle
    <3>2. cmd' = asks
      BY <2>4 DEF RmAsk
    <3>3. QED
      BY <3>1, <3>2
  <2>5. \A p \in Packs, dropping \in BOOLEAN : ~Rm(p, dropping)
    BY DraftOps DEF Rm
  <2>6. PICK p \in Packs, r \in Requests : AddInteractive(p, r)
    BY <1>3, <2>1, <2>2, <2>3, <2>4, <2>5 DEF CommandBegins
  <2>7. Interactive(Spec(p), r, disk.saved[p]) /\ disk' = Preflight(disk)
    BY <2>6 DEF AddInteractive
  <2>8. cmd'.pack = p
    <3> DEFINE asks == [Idle EXCEPT !.op = "add", !.pc = "picker", !.pack = p]
    <3>1. asks.pack = p
      BY DEF Idle
    <3>2. cmd' = asks \/ \E choice : cmd' = AddDraft(disk', p, Spec(p), choice)
      BY <2>6 DEF AddInteractive
    <3> HIDE DEF asks
    <3>3. QED
      BY <1>2, <3>1, <3>2
  <2>9. disk.saved[p].active # {}
    BY <1>1 DEF Files
  <2>10. ~disk.saved[p].known
    BY <2>7, <2>9 DEF Interactive, TakesAll, KeepsStored, Merged
  <2>11. disk.saved[p] = NoState
    BY <2>10 DEF Unrecorded, Recorded
  <2>12. Recorded(disk'.saved[p]) /\ ~disk'.saved[p].known
    BY <1>1, <2>7, <2>10, <2>11, PreflightRecords, PreflightEntry DEF Recorded
  <2>13. QED
    BY <2>8, <2>12 DEF Recorded
<1>4. CASE CommandSteps
  <2>1. CASE WriteRoot \/ WriteManifest \/ WriteState
    <3>1. cmd' = Idle \/ \E pc \in {"manifest", "state", "load"} : cmd' = [cmd EXCEPT !.pc = pc]
      BY <2>1 DEF WriteRoot, WriteManifest, WriteState
    <3>2. QED
      BY <1>1, <3>1 DEF Command
  <2>2. CASE SyncPack
    BY <2>2, SyncPackDoes
  <2>3. CASE \E feats, rows : Pick(feats, rows)
    BY <1>2, <2>3 DEF Pick
  <2>4. CASE \E yes \in BOOLEAN : RmAnswer(yes)
    BY <2>4, AnswerMoves
  <2>5. CASE SyncFails \/ Quit
    BY <1>1, <2>5 DEF SyncFails, Quit
  <2>6. QED
    BY <1>4, <2>1, <2>2, <2>3, <2>4, <2>5 DEF CommandSteps
<1>5. CASE Environment
  BY <1>5, UserMoves
<1>6. CASE UNCHANGED vars
  BY <1>6 DEF vars
<1>7. QED
  BY <1>3, <1>4, <1>5, <1>6 DEF Next

(* The preflight prunes. *)
LEMMA PreflightPrunes ==
    ASSUME NEW d \in Files, NEW p \in Packs
    PROVE  Pruned(Preflight(d), p)
<1>1. Preflight(d).deps = d.deps /\ Preflight(d).root = d.root
  BY PreflightFiles
<1>2. Loads(Preflight(d)) = Loads(d) /\ Declared(Preflight(d)) = Declared(d)
  BY <1>1, SameFiles
<1>3. Preflight(d).saved[p].managed =
        IF Loads(d) THEN d.saved[p].managed \cap Declared(d) ELSE d.saved[p].managed
  BY PreflightEntry
<1>4. QED
  BY <1>2, <1>3 DEF Pruned

(* While the picker is open the pack's entry stays, *)
LEMMA PickerStays ==
    ASSUME TypeOK, [Next]_vars, cmd.op = "add", cmd.pc = "picker", cmd'.op = "add",
           cmd'.pc = "picker"
    PROVE  cmd'.pack = cmd.pack /\ disk'.saved = disk.saved
<1>1. disk' = disk \/ disk'.saved = disk.saved
  <2>1. Environment \/ disk' = disk
    BY PickerWaits
  <2>2. Environment => disk'.saved = disk.saved
    BY SyncTypes DEF Environment, RegisterPack, UserWrites, UserWritesRoot, Publish
  <2>3. QED
    BY <2>1, <2>2
<1>2. cmd # Idle /\ Idle.op = "none" /\ cmd \in Command(DOMAIN cmd.crates) /\ Phases(cmd)
  BY SyncTypes DEF Idle
<1>3. ~CommandBegins
  BY <1>2 DEF CommandBegins, OtherCommand, Add, AddInteractive, Sync, Rm, RmAsk, Begins
<1>4. \A d, p, spec, choice : AddDraft(d, p, spec, choice).pc # "picker"
  <2>1. ASSUME NEW d, NEW p, NEW spec, NEW choice PROVE AddDraft(d, p, spec, choice).pc # "picker"
    <3>1. CASE DOMAIN choice.crates = {}
      BY <3>1 DEF AddDraft, Idle
    <3>2. CASE DOMAIN choice.crates # {}
      BY <3>2, AddDrafts
    <3>3. QED
      BY <3>1, <3>2
  <2>2. QED
    BY <2>1
<1>5. CommandSteps => FALSE
  <2>1. ~WriteRoot /\ ~WriteManifest /\ ~WriteState /\ ~SyncPack /\ ~SyncFails
    BY DEF WriteRoot, WriteManifest, WriteState, SyncPack, SyncFails
  <2>2. \A feats, rows : ~Pick(feats, rows)
    BY <1>4 DEF Pick
  <2>3. \A yes : ~RmAnswer(yes)
    BY DEF RmAnswer
  <2>4. ~Quit
    BY <1>2 DEF Quit
  <2>5. QED
    BY <2>1, <2>2, <2>3, <2>4 DEF CommandSteps
<1>6. cmd' = cmd
  BY <1>3, <1>5, UserMoves DEF Next, vars
<1>7. QED
  BY <1>1, <1>6

(* so add's plan holds when its draft is computed, *)
LEMMA AddPlanStarts ==
    ASSUME TypeOK, Unrecorded, NoRoot, AddPlan, [Next]_vars,
           cmd'.op = "add", cmd.op # "add" \/ cmd.pc = "picker"
    PROVE  AddPlan'
<1>1. disk \in Files /\ Phases(cmd)
  BY SyncTypes
<1>2. CASE cmd'.pc # "picker"
  <2>1. PICK p \in Packs : \E choice :
          /\ rev' = rev
          /\ cmd' = AddDraft(disk', p, Spec(p), choice)
          /\ \/ cmd.pc # "picker" /\ disk' = Preflight(disk)
             \/ cmd.pc = "picker" /\ disk' = disk /\ p = cmd.pack
    BY <1>2, AddBegins
  <2>2. PICK choice :
          /\ rev' = rev
          /\ cmd' = AddDraft(disk', p, Spec(p), choice)
          /\ \/ cmd.pc # "picker" /\ disk' = Preflight(disk)
             \/ cmd.pc = "picker" /\ disk' = disk /\ p = cmd.pack
    BY <2>1
  <2>3. DOMAIN choice.crates # {}
    <3>1. Idle.op = "none"
      BY DEF Idle
    <3>2. QED
      BY <2>2, <3>1 DEF AddDraft
  <2>4. Pruned(disk', p) /\ (~Workspace => disk'.root = NoRows)
    <3>1. CASE cmd.pc # "picker" /\ disk' = Preflight(disk)
      BY <1>1, <3>1, PreflightPrunes, PreflightFiles DEF NoRoot
    <3>2. CASE cmd.pc = "picker" /\ disk' = disk /\ p = cmd.pack
      <4>1. cmd.op = "add"
        BY <1>1, <3>2 DEF Phases
      <4>2. disk.saved[p].managed = {}
        BY <3>2, <4>1 DEF AddPlan, NoState
      <4>3. QED
        BY <3>2, <4>2 DEF Pruned, NoRoot
    <3>3. QED
      BY <2>2, <3>1, <3>2
  <2>5. cmd'.pack = p /\ AddPlanned(cmd', disk', Spec(p))
    BY <2>2, <2>3, <2>4, AddStarts
  <2>6. Spec(p)' = Spec(p)
    BY <2>2 DEF Spec
  <2>7. QED
    BY <1>2, <2>5, <2>6 DEF AddPlan
<1>3. CASE cmd'.pc = "picker"
  <2>1. CASE ~(cmd.op = "add" /\ cmd.pc = "picker")
    BY <1>3, <2>1, PickerOpens DEF AddPlan
  <2>2. CASE cmd.op = "add" /\ cmd.pc = "picker"
    BY <1>3, <2>2, PickerStays DEF AddPlan
  <2>3. QED
    BY <2>1, <2>2
<1>4. QED
  BY <1>2, <1>3

(* and while it is written. *)
LEMMA AddPlanStep ==
    ASSUME TypeOK, Unrecorded, NoRoot, AddPlan, [Next]_vars
    PROVE  AddPlan'
<1>1. /\ disk \in Files
      /\ disk = [deps |-> disk.deps, packs |-> disk.packs, root |-> disk.root,
                 saved |-> disk.saved]
      /\ cmd \in Command(DOMAIN cmd.crates) /\ Phases(cmd) /\ Idle.op = "none"
  BY SyncTypes DEF Idle
<1>2. CASE cmd'.op = "add" /\ (cmd.op # "add" \/ cmd.pc = "picker")
  BY <1>2, AddPlanStarts
<1>3. CASE cmd'.op = "add" /\ cmd.op = "add" /\ cmd.pc # "picker"
  <2>1. cmd.pc \in {"root", "manifest", "state"}
    BY <1>1, <1>3 DEF Phases
  <2>2. AddPlanned(cmd, disk, Spec(cmd.pack))
    BY <1>3 DEF AddPlan
  <2> DEFINE gone == Deselected(Spec(cmd.pack), disk.saved[cmd.pack].managed, cmd.crates)
  <2>3. DOMAIN gone \cap DOMAIN cmd.crates = {}
    BY DEF Deselected
  <2>4. /\ DOMAIN cmd.crates # {} /\ cmd.deps = Added(disk.deps, cmd.crates, gone)
        /\ cmd.packs = disk.packs /\ cmd.root = AddedRoot(disk.root, cmd.crates, DOMAIN gone)
        /\ cmd.entry = StateOf(cmd.active, cmd.crates)
        /\ cmd.pc # "root" => disk.root = cmd.root
    BY <2>2 DEF AddPlanned
  <2>5. /\ Added(cmd.deps, cmd.crates, gone) = cmd.deps
        /\ AddedRoot(cmd.root, cmd.crates, DOMAIN gone) = cmd.root
    BY <2>3, <2>4, AddedTwice
  <2>6. CASE WriteRoot \/ WriteManifest
    <3>1. /\ disk'.saved = disk.saved /\ disk'.packs = disk.packs /\ rev' = rev
          /\ \/ disk'.deps = disk.deps /\ disk'.root = cmd.root
             \/ disk'.deps = cmd.deps /\ disk'.root = disk.root /\ cmd.pc # "root"
      BY <1>1, <2>4, <2>6 DEF WriteRoot, WriteManifest
    <3>2. PICK pc \in {"manifest", "state"} : cmd' = [cmd EXCEPT !.pc = pc]
      BY <1>3, <2>6 DEF WriteRoot, WriteManifest
    <3>3. /\ cmd'.op = "add" /\ cmd'.pc \notin {"picker", "root"} /\ cmd'.pack = cmd.pack
          /\ cmd'.crates = cmd.crates /\ cmd'.active = cmd.active /\ cmd'.deps = cmd.deps
          /\ cmd'.packs = cmd.packs /\ cmd'.root = cmd.root /\ cmd'.entry = cmd.entry
      BY <1>1, <1>3, <3>2 DEF Command
    <3>4. Spec(cmd.pack)' = Catalog[cmd'.pack][rev'[cmd'.pack]] /\ Spec(cmd'.pack) = Spec(cmd.pack)
      BY <3>3 DEF Spec
    <3>5. Catalog[cmd'.pack][rev'[cmd'.pack]] = Spec(cmd.pack)
      BY <3>1, <3>3 DEF Spec
    <3>6. gone = Deselected(Spec(cmd.pack), disk'.saved[cmd'.pack].managed, cmd'.crates)
      BY <3>1, <3>3
    <3> HIDE DEF gone
    <3>7. /\ cmd'.deps = Added(disk'.deps, cmd'.crates, gone)
          /\ cmd'.root = AddedRoot(disk'.root, cmd'.crates, DOMAIN gone)
          /\ disk'.root = cmd'.root
      BY <2>4, <2>5, <3>1, <3>3
    <3>8. AddPlanned(cmd', disk', Spec(cmd.pack))
      BY <2>4, <3>1, <3>3, <3>6, <3>7 DEF AddPlanned
    <3>9. QED
      BY <3>3, <3>5, <3>8 DEF AddPlan, Spec
  <2>7. CASE WriteState \/ Quit
    BY <1>1, <1>3, <2>7 DEF WriteState, Quit
  <2>8. CASE UNCHANGED vars
    BY <1>3, <2>2, <2>8 DEF vars, AddPlan, Spec
  <2>9. QED
    BY <2>1, <2>6, <2>7, <2>8, Writers
<1>4. CASE cmd'.op # "add"
  BY <1>4 DEF AddPlan
<1>5. QED
  BY <1>2, <1>3, <1>4

(* rm's plan holds when it begins, *)
LEMMA RmPlanStarts ==
    ASSUME TypeOK, [Next]_vars, cmd.op # "rm", cmd'.op = "rm"
    PROVE  RmPlan'
<1>1. disk \in Files
  BY SyncTypes
<1>2. PICK p \in Packs : RmAsk(p) \/ \E dropping \in BOOLEAN : Rm(p, dropping)
  BY RmBegins
<1>3. disk' = Preflight(disk)
  BY <1>2 DEF RmAsk, Rm
<1>4. disk'.deps = disk.deps /\ disk'.packs = disk.packs /\ disk'.root = disk.root
  BY <1>1, <1>3, PreflightFiles
<1>5. \A q \in Packs : Pruned(disk', q)
  BY <1>1, <1>3, PreflightPrunes
<1>6. CASE RmAsk(p)
  <2> DEFINE asks == [Idle EXCEPT !.op = "rm", !.pc = "prompt", !.pack = p,
                                  !.deps = disk.deps, !.packs = disk.packs]
  <2>1. asks.pc = "prompt" /\ asks.deps = disk.deps /\ asks.packs = disk.packs
    BY DEF Idle
  <2>2. cmd' = asks
    BY <1>6 DEF RmAsk
  <2>3. QED
    BY <1>4, <1>5, <2>1, <2>2 DEF RmPlan
<1>7. CASE \E dropping \in BOOLEAN : Rm(p, dropping)
  <2>1. PICK dropping \in BOOLEAN :
           cmd' = RmDraft(disk'.deps, disk'.packs, disk'.root, disk'.saved, p, dropping)
    BY <1>4, <1>7 DEF Rm
  <2>2. RmPlanned(cmd', disk') /\ cmd'.pc # "prompt"
    BY <2>1, RmDrafts DEF RmPlanned
  <2>3. QED
    BY <1>5, <2>2 DEF RmPlan
<1>8. QED
  BY <1>2, <1>6, <1>7

(* and until Cargo.toml is written. *)
LEMMA RmPlanStep ==
    ASSUME TypeOK, RmPlan, [Next]_vars
    PROVE  RmPlan'
<1>1. /\ disk \in Files
      /\ disk = [deps |-> disk.deps, packs |-> disk.packs, root |-> disk.root,
                 saved |-> disk.saved]
      /\ cmd \in Command(DOMAIN cmd.crates) /\ Phases(cmd) /\ Idle.op = "none"
  BY SyncTypes DEF Idle
<1>2. CASE cmd'.op = "rm" /\ cmd.op # "rm"
  BY <1>2, RmPlanStarts
<1>3. CASE cmd'.op = "rm" /\ cmd.op = "rm" /\ ~cmd'.stale /\ cmd'.pc # "state"
  <2>1. cmd # Idle /\ ~CommandBegins /\ (Environment => FALSE)
    <3>1. cmd # Idle
      BY <1>1, <1>3
    <3>2. ~CommandBegins
      BY <3>1 DEF CommandBegins, OtherCommand, Add, AddInteractive, Sync, Rm, RmAsk, Begins
    <3>3. Environment => FALSE
      BY <1>3, UserMoves
    <3>4. QED
      BY <3>1, <3>2, <3>3
  <2>2. CASE cmd.pc = "prompt"
    <3>1. CASE \E yes \in BOOLEAN : RmAnswer(yes)
      <4>1. PICK yes \in BOOLEAN : RmAnswer(yes)
        BY <3>1
      <4>2. /\ cmd'.pc # "prompt" /\ cmd'.pack = cmd.pack /\ cmd'.dropping = yes
            /\ cmd'.stale = cmd.stale /\ disk' = disk /\ cmd'.entry = NoState
            /\ LET safe == Dropped(disk.saved, cmd.packs, cmd.pack, yes)
               IN  /\ cmd'.deps = RmDeps(cmd.deps, safe) /\ cmd'.packs = cmd.packs \ {cmd.pack}
                   /\ cmd'.root = Without(disk.root, safe)
        BY <4>1, AnswerDrafts
      <4>3. /\ \A p \in Packs : Pruned(disk, p)
            /\ cmd.deps = disk.deps /\ cmd.packs = disk.packs
        BY <1>3, <2>2, <4>2 DEF RmPlan
      <4>4. RmPlanned(cmd', disk')
        BY <4>2, <4>3 DEF RmPlanned
      <4>5. QED
        BY <4>2, <4>3, <4>4 DEF RmPlan
    <3>2. ~WriteRoot /\ ~WriteManifest /\ ~WriteState /\ ~SyncPack /\ ~SyncFails /\ ~Quit
      BY <1>1, <1>3, <2>2 DEF WriteRoot, WriteManifest, WriteState, SyncPack, SyncFails, Quit
    <3>3. \A feats, rows : ~Pick(feats, rows)
      BY <2>2 DEF Pick
    <3>4. CASE UNCHANGED vars
      BY <3>4 DEF vars, RmPlan
    <3>5. QED
      BY <2>1, <3>1, <3>2, <3>3, <3>4 DEF Next, CommandSteps
  <2>3. CASE cmd.pc # "prompt"
    <3>1. cmd.pc \in {"root", "manifest", "state"}
      BY <1>1, <1>3, <2>3 DEF Phases
    <3>2. CASE WriteRoot
      <4>1. /\ cmd.pc = "root" /\ disk'.root = cmd.root /\ disk'.deps = disk.deps
            /\ disk'.packs = disk.packs /\ disk'.saved = disk.saved
        BY <1>1, <3>2 DEF WriteRoot
      <4>2. /\ cmd'.pc = "manifest" /\ cmd'.pack = cmd.pack /\ cmd'.dropping = cmd.dropping
            /\ cmd'.stale = cmd.stale /\ cmd'.entry = cmd.entry /\ cmd'.deps = cmd.deps
            /\ cmd'.packs = cmd.packs /\ cmd'.root = cmd.root
        BY <1>1, <3>2 DEF WriteRoot, Command
      <4>3. (\A p \in Packs : Pruned(disk, p)) /\ RmPlanned(cmd, disk)
        BY <1>3, <4>1, <4>2 DEF RmPlan
      <4> DEFINE safe == Dropped(disk.saved, disk.packs, cmd.pack, cmd.dropping)
      <4>4. cmd.root = Without(disk.root, safe)
        BY <4>3 DEF RmPlanned
      <4> HIDE DEF safe
      <4>5. Without(cmd.root, safe) = cmd.root
        BY <4>4 DEF Without
      <4>6. \A c \in Crates : Present(disk'.root[c]) => Present(disk.root[c])
        <5>1. \A c \in Crates : disk'.root[c] = disk.root[c] \/ disk'.root[c] = Absent
          BY <4>1, <4>4 DEF Without
        <5>2. ~Present(Absent)
          BY DEF Present, Absent, Row
        <5>3. QED
          BY <5>1, <5>2
      <4>7. Loads(disk') => Loads(disk)
        BY <4>1, <4>6, PeersAssumption DEF Loads
      <4>8. Declared(disk') = Declared(disk)
        BY <4>1 DEF Declared
      <4>9. \A p \in Packs : Pruned(disk', p)
        BY <4>1, <4>3, <4>7, <4>8 DEF Pruned
      <4>10. RmPlanned(cmd', disk')
        BY <4>1, <4>2, <4>3, <4>5 DEF RmPlanned, safe
      <4>11. QED
        BY <4>2, <4>9, <4>10 DEF RmPlan
    <3>3. CASE WriteManifest \/ WriteState \/ Quit
      BY <1>1, <1>3, <3>3 DEF WriteManifest, WriteState, Quit, Command
    <3>4. CASE UNCHANGED vars
      BY <1>3, <3>4 DEF vars, RmPlan
    <3>5. QED
      BY <3>1, <3>2, <3>3, <3>4, Writers
  <2>4. QED
    BY <2>2, <2>3
<1>4. CASE ~(cmd'.op = "rm" /\ ~cmd'.stale /\ cmd'.pc # "state")
  BY <1>4 DEF RmPlan
<1>5. QED
  BY <1>2, <1>3, <1>4

(* Every command follows its plan. *)
Planned == TypeOK /\ Unrecorded /\ NoRoot /\ SyncPlan /\ AddPlan /\ RmPlan

(* In every behaviour each part of it holds from the first state on. *)
LEMMA PlansHold == ProjectSpec => []Planned
<1>1. Init => Planned
  <2>1. ASSUME Init
        PROVE  Planned
    <3>1. TypeOK
      BY <2>1, InitOK
    <3>2. Idle.op = "none" /\ Idle.pc = "idle" /\ Idle.entry = NoState /\ cmd = Idle
      BY <2>1 DEF Init, Idle
    <3>3. disk.saved = [p \in Packs |-> NoState] /\ (~Workspace => disk.root = NoRows)
      BY <2>1 DEF Init, NoRows
    <3>4. Unrecorded /\ NoRoot
      BY <3>2, <3>3 DEF Unrecorded, Recorded, NoRoot
    <3>5. SyncPlan /\ AddPlan /\ RmPlan
      BY <3>2 DEF SyncPlan, AddPlan, RmPlan
    <3>6. QED
      BY <3>1, <3>4, <3>5 DEF Planned
  <2>2. QED
    BY <2>1
<1>2. TypeOK /\ TypeOK' /\ Planned /\ [Next]_vars => Planned'
  BY SyncPlanStep, BareStep, AddPlanStep, RmPlanStep DEF Planned
<1>3. QED
  BY <1>1, <1>2, TypeInvariance, PTL DEF ProjectSpec

(* The outcome of a command is in its draft. *)
LEMMA SameOutcome ==
    ASSUME NEW d \in Files, NEW c, NEW e \in Files, NEW again, c.pack \in Packs,
           again.pack = c.pack, again.deps = c.deps, again.packs = c.packs,
           again.root = c.root, again.entry = c.entry
    PROVE  Outcome(Finish(e, again), {c.pack}) = Outcome(Finish(d, c), {c.pack})
<1> DEFINE one == Finish(d, c)
           two == Finish(e, again)
<1>1. /\ one.deps = c.deps /\ one.packs = c.packs /\ one.root = c.root
      /\ one.saved[c.pack] = c.entry
  BY Finishes
<1>2. /\ two.deps = c.deps /\ two.packs = c.packs /\ two.root = c.root
      /\ two.saved[c.pack] = c.entry
  BY Finishes
<1> HIDE DEF one, two
<1>3. Outcome(two, {c.pack}) = Outcome(one, {c.pack})
  BY <1>1, <1>2 DEF Outcome
<1>4. QED
  BY <1>3 DEF one, two

(* add, run again on what it left, drafts the same: a crate the preflight now
   counts as gone has no row any more, and the workspace table is the one the
   first run wrote, or untouched. *)
LEMMA AddReruns ==
    ASSUME TypeOK, AddPlan, cmd.op = "add", Writing
    PROVE  LET choice == [active |-> cmd.active, crates |-> cmd.crates]
               again == AddDraft(Preflight(disk), cmd.pack, Spec(cmd.pack), choice)
           IN  Outcome(Finish(Preflight(disk), again), {cmd.pack})
                  = Outcome(Finish(disk, cmd), {cmd.pack})
<1> DEFINE p == cmd.pack
           crates == cmd.crates
           choice == [active |-> cmd.active, crates |-> cmd.crates]
           ready == Preflight(disk)
           again == AddDraft(ready, p, Spec(p), choice)
           gone == Deselected(Spec(p), disk.saved[p].managed, crates)
           less == Deselected(Spec(p), ready.saved[p].managed, crates)
<1>1. disk \in Files /\ Phases(cmd) /\ disk.deps \in Tables
  BY SyncTypes
<1>2. p \in Packs
  BY <1>1 DEF Phases
<1>3. AddPlanned(cmd, disk, Spec(p))
  BY DEF AddPlan, Writing
<1>4. /\ DOMAIN crates # {} /\ cmd.deps = Added(disk.deps, crates, gone)
      /\ cmd.packs = disk.packs /\ cmd.root = AddedRoot(disk.root, crates, DOMAIN gone)
      /\ cmd.entry = StateOf(cmd.active, crates)
      /\ cmd.pc # "root" => disk.root = cmd.root
      /\ cmd.pc = "root" => Pruned(disk, p)
  BY <1>3 DEF AddPlanned
<1>5. /\ ready \in Files /\ ready.deps = disk.deps /\ ready.packs = disk.packs
      /\ ready.root = disk.root
  BY <1>1, PreflightFiles
<1>6. ready.saved[p].managed =
        IF Loads(disk) THEN disk.saved[p].managed \cap Declared(disk) ELSE disk.saved[p].managed
  BY <1>1, <1>2, PreflightEntry
<1>7. /\ again.pack = p /\ again.packs = ready.packs
      /\ again.deps = Added(ready.deps, crates, less)
      /\ again.root = AddedRoot(ready.root, crates, DOMAIN less)
      /\ again.entry = StateOf(cmd.active, crates)
  <2> HIDE DEF ready
  <2>1. choice.crates = crates /\ choice.active = cmd.active
    OBVIOUS
  <2> HIDE DEF choice
  <2>2. QED
    BY <1>4, <2>1, AddDrafts
<1>8. /\ DOMAIN gone \cap DOMAIN crates = {} /\ DOMAIN less \subseteq DOMAIN gone
      /\ \A c \in DOMAIN less : less[c] = gone[c]
  <2>1. ready.saved[p].managed \subseteq disk.saved[p].managed
    BY <1>6
  <2> HIDE DEF ready
  <2>2. QED
    BY <2>1 DEF Deselected
<1>9. ASSUME NEW c \in DOMAIN gone \ DOMAIN less, NEW s \in Sections, c \in Crates
      PROVE  disk.deps[s][c] = Absent
  <2>1. c \in disk.saved[p].managed /\ c \notin ready.saved[p].managed
    <3> HIDE DEF ready
    <3>1. QED
      BY <1>9 DEF Deselected
  <2>2. c \notin Declared(disk)
    BY <1>6, <2>1
  <2>3. ~Present(disk.deps[s][c])
    BY <1>9, <2>2 DEF Declared
  <2>4. disk.deps[s][c] \in Entry
    BY <1>1, <1>9 DEF Tables
  <2>5. QED
    BY <2>3, <2>4 DEF Entry
<1> HIDE DEF ready, again, choice
<1>10. again.deps = cmd.deps
  <2> HIDE DEF gone, less
  <2>1. Added(disk.deps, crates, less) = Added(disk.deps, crates, gone)
    BY <1>8, <1>9, AddedSame
  <2>2. QED
    BY <1>4, <1>5, <1>7, <2>1
<1>11. again.root = cmd.root
  <2>1. CASE cmd.pc = "root"
    <3>1. ready.saved[p].managed = disk.saved[p].managed
      BY <1>4, <1>6, <2>1 DEF Pruned
    <3>2. less = gone
      BY <3>1
    <3>3. QED
      BY <1>4, <1>5, <1>7, <3>2
  <2>2. CASE cmd.pc # "root"
    <3> HIDE DEF gone, less
    <3>1. /\ Added(Added(disk.deps, crates, gone), crates, less)
                = Added(disk.deps, crates, gone)
          /\ AddedRoot(AddedRoot(disk.root, crates, DOMAIN gone), crates, DOMAIN less)
                = AddedRoot(disk.root, crates, DOMAIN gone)
      BY <1>8, AddedTwice
    <3>2. QED
      BY <1>4, <1>5, <1>7, <2>2, <3>1
  <2>3. QED
    BY <2>1, <2>2
<1>12. Outcome(Finish(ready, again), {p}) = Outcome(Finish(disk, cmd), {p})
  BY <1>1, <1>2, <1>4, <1>5, <1>7, <1>10, <1>11, SameOutcome
<1>13. QED
  BY <1>12 DEF ready, again, choice

(* rm, run again before Cargo.toml is written, drops the same crates. *)
LEMMA RmReruns ==
    ASSUME TypeOK, RmPlan, cmd.op = "rm", cmd.pc \in {"root", "manifest"}, ~cmd.stale
    PROVE  LET ready == Preflight(disk)
               again == RmDraft(ready.deps, ready.packs, ready.root, ready.saved, cmd.pack,
                                cmd.dropping)
           IN  Outcome(Finish(ready, again), {cmd.pack}) = Outcome(Finish(disk, cmd), {cmd.pack})
<1> DEFINE p == cmd.pack
           ready == Preflight(disk)
           again == RmDraft(ready.deps, ready.packs, ready.root, ready.saved, p, cmd.dropping)
<1>1. disk \in Files /\ Phases(cmd) /\ disk.saved \in [Packs -> SavedState]
  BY SyncTypes
<1>2. p \in Packs
  BY <1>1 DEF Phases
<1>3. RmPlanned(cmd, disk) /\ \A q \in Packs : Pruned(disk, q)
  BY DEF RmPlan
<1>4. /\ ready \in Files /\ ready.deps = disk.deps /\ ready.packs = disk.packs
      /\ ready.root = disk.root
  BY <1>1, PreflightFiles
<1>5. \A q \in Packs : ready.saved[q].managed = disk.saved[q].managed
  BY <1>1, <1>3, PreflightEntry DEF Pruned
<1> HIDE DEF ready
<1>6. Dropped(ready.saved, ready.packs, p, cmd.dropping)
        = Dropped(disk.saved, disk.packs, p, cmd.dropping)
  <2>1. \A q \in disk.packs : q \in Packs
    BY <1>1 DEF Files, Disk
  <2>2. UNION {ready.saved[q].managed : q \in disk.packs \ {p}}
          = UNION {disk.saved[q].managed : q \in disk.packs \ {p}}
    BY <1>5, <2>1
  <2>3. Safe(ready.saved, disk.packs, p) = Safe(disk.saved, disk.packs, p)
    BY <1>2, <1>5, <2>2 DEF Safe
  <2>4. QED
    BY <1>4, <2>3 DEF Dropped
<1>7. LET safe == Dropped(ready.saved, ready.packs, p, cmd.dropping)
      IN  /\ again.pack = p /\ again.packs = ready.packs \ {p} /\ again.entry = NoState
          /\ again.deps = RmDeps(ready.deps, safe) /\ again.root = Without(ready.root, safe)
  BY RmDrafts
<1> HIDE DEF again
<1>8. /\ again.pack = p /\ again.packs = cmd.packs /\ again.entry = cmd.entry
      /\ again.deps = cmd.deps /\ again.root = cmd.root
  BY <1>3, <1>4, <1>6, <1>7 DEF RmPlanned
<1>9. Outcome(Finish(ready, again), {p}) = Outcome(Finish(disk, cmd), {p})
  BY <1>1, <1>2, <1>4, <1>8, SameOutcome
<1>10. QED
  BY <1>9 DEF ready, again

(* A command that dies between two writes loses nothing for good: whatever the
   packs, the rows and the moment, the command run again ends where the first
   run would have. *)
THEOREM RerunsConverge == ProjectSpec => []RerunConverges
<1>1. TypeOK /\ AddPlan /\ SyncPlan /\ RmPlan => RerunConverges
  BY AddReruns, SyncReruns, RmReruns DEF RerunConverges
<1>2. Planned => RerunConverges
  BY <1>1 DEF Planned
<1>3. QED
  BY <1>2, PlansHold, PTL

-----------------------------------------------------------------------------
(* What status says of sync. *)

(* A row that does not upgrade keeps its version. *)
LEMMA SyncEntryStays ==
    ASSUME NEW e \in Entry, NEW spec \in CrateSpec, Present(e), ~Upgrades(e, spec)
    PROVE  SyncEntry(e, spec).ver = e.ver /\ SyncEntry(e, spec).req = e.req
BY DEF SyncEntry, Entry

(* A row with a version is a row. *)
LEMMA VersionPresent ==
    ASSUME NEW e \in Entry, e.ver # 0
    PROVE  Present(e)
BY DEF Entry, Absent, Row

(* The row that status reads of a crate, as UserRow does. *)
ReadRow(deps, root, s, c) == IF deps[s][c].ver # 0 THEN deps[s][c] ELSE root[c]

(* It is read as before. *)
SameRead(olddeps, oldroot, newdeps, newroot, s, c) ==
    /\ ReadRow(newdeps, newroot, s, c).ver = ReadRow(olddeps, oldroot, s, c).ver
    /\ ReadRow(newdeps, newroot, s, c).req = ReadRow(olddeps, oldroot, s, c).req
    /\ Present(newdeps[s][c]) /\ newdeps[s][c].ver = olddeps[s][c].ver

(* A row that no expected crate upgrades is read as before the sync. *)
LEMMA SyncUnread ==
    ASSUME NEW deps \in Tables, NEW root \in [Crates -> Entry], NEW m, CrateMap(m),
           NEW s \in Sections, NEW c \in Crates, Present(deps[s][c]),
           ReadRow(deps, root, s, c).ver # 0, deps[s][c].ver = 0 => Workspace,
           c \in DOMAIN m => ~Upgrades(ReadRow(deps, root, s, c), m[c])
    PROVE  SameRead(deps, root, SyncDeps(deps, m), SyncRoot(root, m), s, c)
<1> DEFINE newrow == SyncDeps(deps, m)[s][c]
           newroot == SyncRoot(root, m)[c]
<1>1. deps[s][c] \in Entry /\ root[c] \in Entry
  BY DEF Tables
<1>2. newrow = CASE In(s, c, m) /\ Workspace -> IF Present(deps[s][c]) THEN deps[s][c] ELSE Ref
                 [] In(s, c, m) /\ ~Workspace -> SyncEntry(deps[s][c], m[c])
                 [] OTHER -> deps[s][c]
  BY DEF SyncDeps
<1>3. newroot = IF Workspace /\ c \in DOMAIN m THEN SyncEntry(root[c], m[c]) ELSE root[c]
  BY DEF SyncRoot
<1>4. c \in DOMAIN m => m[c] \in CrateSpec
  BY SectionsOf
<1>5. In(s, c, m) => c \in DOMAIN m
  BY DEF In
<1> HIDE DEF newrow, newroot
<1>6. CASE deps[s][c].ver # 0
  <2>1. newrow.ver = deps[s][c].ver /\ newrow.req = deps[s][c].req
    <3>1. CASE In(s, c, m) /\ ~Workspace
      <4>1. ~Upgrades(deps[s][c], m[c]) /\ m[c] \in CrateSpec
        BY <1>4, <1>5, <1>6, <3>1 DEF ReadRow
      <4>2. QED
        BY <1>1, <1>2, <3>1, <4>1, SyncEntryStays
    <3>2. CASE ~(In(s, c, m) /\ ~Workspace)
      BY <1>2, <3>2
    <3>3. QED
      BY <3>1, <3>2
  <2>2. Present(newrow)
    <3>1. newrow \in Entry
      BY DepsTypes DEF Tables, newrow
    <3>2. QED
      BY <1>6, <2>1, <3>1, VersionPresent
  <2>3. QED
    BY <1>6, <2>1, <2>2 DEF SameRead, ReadRow, newrow
<1>7. CASE deps[s][c].ver = 0
  <2>1. newrow = deps[s][c]
    BY <1>2, <1>7
  <2>2. newroot.ver = root[c].ver /\ newroot.req = root[c].req
    <3>1. CASE c \in DOMAIN m
      <4>1. Present(root[c])
        BY <1>1, <1>7, VersionPresent DEF ReadRow
      <4>2. ~Upgrades(root[c], m[c]) /\ m[c] \in CrateSpec
        BY <1>4, <1>7, <3>1 DEF ReadRow
      <4>3. SyncEntry(root[c], m[c]).ver = root[c].ver /\ SyncEntry(root[c], m[c]).req = root[c].req
        BY <1>1, <4>1, <4>2, SyncEntryStays
      <4>4. QED
        BY <1>3, <4>3
    <3>2. CASE c \notin DOMAIN m
      BY <1>3, <3>2
    <3>3. QED
      BY <3>1, <3>2
  <2>3. QED
    BY <1>7, <2>1, <2>2 DEF SameRead, ReadRow, newrow, newroot
<1>8. QED
  BY <1>6, <1>7

(* So it is after a whole sync, if none of the crates wanted upgrades it. *)
LEMMA SyncAllUnread ==
    ASSUME NEW r \in Revisions, NEW d \in Files, NEW todo \in SUBSET Packs,
           NEW s \in Sections, NEW c \in Crates, Present(d.deps[s][c]),
           ReadRow(d.deps, d.root, s, c).ver # 0, d.deps[s][c].ver = 0 => Workspace,
           \A p \in todo : c \in DOMAIN Wanted(r, 0, d, p) =>
              ~Upgrades(ReadRow(d.deps, d.root, s, c), Wanted(r, 0, d, p)[c])
    PROVE  SameRead(d.deps, d.root, SyncAllAt(r, 0, d, todo).deps,
                    SyncAllAt(r, 0, d, todo).root, s, c)
<1> DEFINE P == {some \in SUBSET todo :
                    SameRead(d.deps, d.root, SyncAllAt(r, 0, d, some).deps,
                             SyncAllAt(r, 0, d, some).root, s, c)}
<1>1. {} \in P
  BY SyncAllRuns DEF SameRead
<1>2. ASSUME NEW some \in SUBSET todo, some # {}, some \ {Max(some)} \in P
      PROVE  some \in P
  <2>1. PICK p \in some, rest \in SUBSET Packs :
           /\ p = Max(some) /\ rest = some \ {Max(some)} /\ p \in Packs /\ p \notin rest
           /\ some \subseteq rest \cup {p} /\ rest \subseteq some
           /\ \A x \in Files :
                 SyncedOne(r, 0, p, SyncAllAt(r, 0, x, rest), SyncAllAt(r, 0, x, some))
    BY <1>2, SyncLast
  <2> DEFINE old == SyncAllAt(r, 0, d, rest)
             new == SyncAllAt(r, 0, d, some)
             expected == Wanted(r, 0, old, p)
  <2>2. SyncDone(r, 0, d, rest, old)
    BY <2>1, SyncAllDoes
  <2>3. SameRead(d.deps, d.root, old.deps, old.root, s, c)
    BY <1>2, <2>1
  <2>4. SyncedOne(r, 0, p, old, new)
    BY <2>1
  <2> HIDE DEF old, new
  <2>5. /\ CrateMap(expected)
        /\ new.root = SyncRoot(old.root, expected)
        /\ new.deps = SyncDeps(old.deps, expected)
        /\ old.deps \in Tables /\ old.root \in [Crates -> Entry]
    BY <2>4 DEF SyncedOne, Files, Disk
  <2>6. expected = Wanted(r, 0, d, p)
    BY <2>1, <2>2 DEF SyncDone, Wanted
  <2> HIDE DEF expected
  <2>7. /\ Present(old.deps[s][c]) /\ ReadRow(old.deps, old.root, s, c).ver # 0
        /\ old.deps[s][c].ver = 0 => Workspace
        /\ c \in DOMAIN expected => ~Upgrades(ReadRow(old.deps, old.root, s, c), expected[c])
    BY <2>3, <2>6 DEF SameRead, Upgrades, Text
  <2>8. SameRead(old.deps, old.root, new.deps, new.root, s, c)
    BY <2>5, <2>7, SyncUnread
  <2>9. SameRead(d.deps, d.root, new.deps, new.root, s, c)
    BY <2>3, <2>8 DEF SameRead
  <2>10. QED
    BY <2>9 DEF new
<1> HIDE DEF P
<1>3. todo \in SUBSET (1 .. Cardinality(Packs)) /\ Cardinality(Packs) \in Nat
  BY PackBound
<1>4. SUBSET todo \subseteq P
  BY <1>1, <1>2, <1>3, SubsetInduction
<1>5. todo \in P
  BY <1>4
<1>6. QED
  BY <1>5 DEF P

(* A crate is read in one section. *)
LEMMA ReadOnce ==
    ASSUME NEW d, NEW c, NEW s \in ReadIn(d, c), NEW t \in ReadIn(d, c)
    PROVE  s = t
<1>1. s \in Sections /\ t \in Sections /\ Versioned(d, s, c) /\ Versioned(d, t, c)
  BY DEF ReadIn
<1>2. t \notin Before[s] /\ s \notin Before[t]
  BY <1>1 DEF ReadIn
<1>3. s # t => t \in Before[s] \/ s \in Before[t]
  BY <1>1 DEF Before, Sections
<1>4. QED
  BY <1>2, <1>3

(* A row that is read is there, and a reference is to a workspace's row. *)
LEMMA ReadRows ==
    ASSUME NEW d \in Files, NEW c \in Crates, NEW s \in ReadIn(d, c), ~Workspace => d.root = NoRows
    PROVE  /\ s \in Sections /\ Present(d.deps[s][c])
           /\ UserRow(d, s, c) = ReadRow(d.deps, d.root, s, c)
           /\ ReadRow(d.deps, d.root, s, c).ver # 0
           /\ d.deps[s][c].ver = 0 => Workspace
<1>1. s \in Sections /\ Versioned(d, s, c)
  BY DEF ReadIn
<1>2. d.deps[s][c] \in Entry /\ d.root[c] \in Entry
  BY <1>1 DEF Files, Disk, Tables
<1>3. CASE d.deps[s][c].ver # 0
  BY <1>1, <1>2, <1>3, VersionPresent DEF UserRow, ReadRow
<1>4. CASE d.deps[s][c].ver = 0
  <2>1. d.deps[s][c].form = "workspace" /\ d.root[c].ver # 0
    BY <1>1, <1>4 DEF Versioned
  <2>2. Present(d.deps[s][c])
    BY <2>1 DEF Present
  <2>3. Workspace
    <3>1. Absent.ver = 0
      BY DEF Absent, Row
    <3>2. QED
      BY <2>1, <3>1 DEF NoRows
  <2>4. QED
    BY <1>1, <1>4, <2>1, <2>2, <2>3 DEF UserRow, ReadRow
<1>5. QED
  BY <1>3, <1>4

(* No version changes without a warning. *)
LEMMA ChangesWarned ==
    ASSUME TypeOK, NoRoot, NEW c \in Crates, NEW s \in ReadIn(disk, c),
           \A p \in disk.packs : c \notin StatusWarns(disk, p)
    PROVE  Text(UserRow(SyncAll(0, Preflight(disk), disk.packs), s, c)) = Text(UserRow(disk, s, c))
<1> DEFINE ready == Preflight(disk)
           synced == SyncAllAt(rev, 0, ready, disk.packs)
<1>1. disk \in Files /\ rev \in Revisions /\ disk.packs \in SUBSET Packs
  BY SyncTypes
<1>2. /\ ready \in Files /\ ready.deps = disk.deps /\ ready.root = disk.root
      /\ \A p \in Packs : Wanted(rev, 0, ready, p) = Wanted(rev, 0, disk, p)
  BY <1>1, PreflightFiles
<1>3. /\ s \in Sections /\ Present(disk.deps[s][c])
      /\ UserRow(disk, s, c) = ReadRow(disk.deps, disk.root, s, c)
      /\ ReadRow(disk.deps, disk.root, s, c).ver # 0
      /\ disk.deps[s][c].ver = 0 => Workspace
  BY <1>1, ReadRows DEF NoRoot
<1>4. ASSUME NEW p \in disk.packs, c \in DOMAIN Wanted(rev, 0, ready, p)
      PROVE  ~Upgrades(ReadRow(disk.deps, disk.root, s, c), Wanted(rev, 0, ready, p)[c])
  <2>1. Wanted(rev, 0, ready, p) = ResolveForFeatures(Spec(p), disk.saved[p].active)
    BY <1>1, <1>2 DEF Wanted, SpecAt, Spec
  <2> HIDE DEF ready
  <2>2. QED
    BY <1>3, <1>4, <2>1 DEF StatusWarns
<1> HIDE DEF ready
<1>5. SameRead(ready.deps, ready.root, synced.deps, synced.root, s, c)
  BY <1>1, <1>2, <1>3, <1>4, SyncAllUnread
<1>6. synced = SyncAll(0, ready, disk.packs)
  BY SyncNow
<1> HIDE DEF synced
<1>7. UserRow(synced, s, c) = ReadRow(synced.deps, synced.root, s, c)
  BY DEF UserRow, ReadRow
<1>8. QED
  BY <1>2, <1>3, <1>5, <1>6, <1>7 DEF SameRead, Text, ready

(* Nothing that sync wrote is warned of, for a pack that no later one opposes. *)
LEMMA SyncedUnwarned ==
    ASSUME TypeOK, NoRoot, NEW p \in disk.packs, NEW c, NEW s, NEW wanted,
           wanted = [q \in disk.packs |-> ResolveForFeatures(Spec(q), disk.saved[q].active)],
           c \in StatusWarns(SyncAll(0, Preflight(disk), disk.packs), p),
           s \in ReadIn(SyncAll(0, Preflight(disk), disk.packs), c),
           Unopposed(p, c, wanted)
    PROVE  ~Synced(SyncAll(0, Preflight(disk), disk.packs), s, c, wanted[p][c])
<1> DEFINE ready == Preflight(disk)
           synced == SyncAllAt(rev, 0, ready, disk.packs)
           expected == wanted[p]
<1>1. disk \in Files /\ rev \in Revisions /\ disk.packs \in SUBSET Packs /\ p \in Packs
  BY SyncTypes
<1>2. /\ ready \in Files /\ ready.root = disk.root
      /\ ready.saved[p].active = disk.saved[p].active
      /\ \A q \in Packs : Wanted(rev, 0, ready, q) = Wanted(rev, 0, disk, q)
  BY <1>1, PreflightFiles
<1> HIDE DEF ready
<1>3. wanted = [q \in disk.packs |-> Wanted(rev, 0, ready, q)]
  <2>1. \A q \in disk.packs :
           ResolveForFeatures(Spec(q), disk.saved[q].active) = Wanted(rev, 0, ready, q)
    BY <1>1, <1>2 DEF Wanted, SpecAt, Spec
  <2>2. QED
    BY <2>1
<1>4. CrateMap(expected) /\ expected = Wanted(rev, 0, ready, p)
  BY <1>1, <1>2, <1>3, WantedType
<1>5. /\ synced \in Files /\ synced.saved[p] = StateOf(ready.saved[p].active, expected)
      /\ SyncedTo(synced, p, wanted)
  <2>1. SyncDone(rev, 0, ready, disk.packs, synced)
    BY <1>1, <1>2, SyncAllDoes
  <2>2. SyncedTo(synced, p, wanted)
    BY <1>1, <1>2, <1>3, SyncAllMeets
  <2> HIDE DEF synced, expected
  <2>3. QED
    BY <1>4, <2>1, <2>2 DEF SyncDone
<1>6. ~Workspace => synced.root = NoRows
  BY <1>1, <1>2, SyncAllRefs DEF NoRoot
<1>7. synced = SyncAll(0, ready, disk.packs)
  BY SyncNow
<1> HIDE DEF synced
<1>8. ResolveForFeatures(Spec(p), synced.saved[p].active) = expected
  <2>1. synced.saved[p].active = Stored(disk.saved[p].active) /\ disk.saved[p].active # {}
    BY <1>1, <1>2, <1>5 DEF StateOf, Files
  <2>2. QED
    BY <2>1, StoredMeansSame
<1> HIDE DEF expected
<1>9. PICK t \in ReadIn(synced, c) :
         c \in DOMAIN expected /\ Upgrades(UserRow(synced, t, c), expected[c])
  BY <1>7, <1>8 DEF StatusWarns, ready
<1>10. t = s /\ c \in Crates
  <2>1. s \in ReadIn(synced, c)
    BY <1>7 DEF ready
  <2>2. QED
    BY <1>4, <1>9, <2>1, ReadOnce DEF CrateMap
<1>11. ASSUME Synced(synced, s, c, expected[c])
       PROVE  FALSE
  <2>1. /\ s = SectionOf[expected[c].kind] /\ (Workspace => synced.deps[s][c].ver = 0)
    BY <1>11 DEF Synced
  <2>2. UpToDate(IF Workspace THEN synced.root[c] ELSE synced.deps[s][c], expected[c])
    BY <1>5, <1>9, <2>1 DEF SyncedTo, expected
  <2>3. /\ UserRow(synced, s, c) = ReadRow(synced.deps, synced.root, s, c)
        /\ synced.deps[s][c].ver = 0 => Workspace
    BY <1>5, <1>6, <1>9, <1>10, ReadRows
  <2>4. UpToDate(UserRow(synced, s, c), expected[c])
    BY <2>1, <2>2, <2>3 DEF ReadRow
  <2>5. UserRow(synced, s, c) \in Entry /\ expected[c] \in CrateSpec
    <3>1. s \in Sections
      BY <1>9, <1>10 DEF ReadIn
    <3>2. synced.deps[s][c] \in Entry /\ synced.root[c] \in Entry
      BY <1>5, <1>10, <3>1 DEF Files, Disk, Tables
    <3>3. QED
      BY <1>4, <1>9, <3>2, SectionsOf DEF UserRow
  <2>6. ~Upgrades(UserRow(synced, s, c), expected[c])
    <3> DEFINE e == UserRow(synced, s, c)
               spec == expected[c]
    <3>1. e.ver \in Nat /\ spec.ver \in Nat
      BY <2>5 DEF Entry, CrateSpec
    <3>2. UpToDate(e, spec)
      BY <2>4
    <3> HIDE DEF e, spec
    <3>3. ~Upgrades(e, spec)
      BY <3>1, <3>2 DEF Upgrades, UpToDate
    <3>4. QED
      BY <3>3 DEF e, spec
  <2>7. QED
    BY <1>9, <1>10, <2>6
<1>12. QED
  BY <1>7, <1>11 DEF expected, ready

(* What check calls outdated among the expected crates, status does too. *)
LEMMA CheckIsWarned ==
    ASSUME TypeOK, NoRoot, NEW p \in disk.packs
    PROVE  CheckWarns(disk, p) \cap DOMAIN ResolveForFeatures(Spec(p), disk.saved[p].active)
              \subseteq StatusWarns(disk, p)
<1> DEFINE expected == ResolveForFeatures(Spec(p), disk.saved[p].active)
<1>1. disk \in Files /\ rev \in Revisions /\ disk.packs \in SUBSET Packs /\ p \in Packs
  BY SyncTypes
<1>2. Known(Spec(p))
  BY <1>1, CatalogAssumption DEF Revisions, Known, Spec
<1> SUFFICES ASSUME NEW c \in CheckWarns(disk, p), c \in DOMAIN expected
             PROVE  c \in StatusWarns(disk, p)
  OBVIOUS
<1>3. c \in Crates /\ Text(expected[c]) = Text(Spec(p).crates[c])
  BY <1>2, ResolvedRow DEF Known
<1> HIDE DEF expected
<1>4. PICK s \in ReadIn(disk, c) :
         /\ ~UserRow(disk, s, c).req /\ ~Spec(p).crates[c].req
         /\ UserRow(disk, s, c).ver < Spec(p).crates[c].ver
  BY DEF CheckWarns
<1>5. UserRow(disk, s, c).ver # 0
  BY <1>1, <1>3, ReadRows DEF NoRoot
<1>6. Upgrades(UserRow(disk, s, c), expected[c])
  BY <1>3, <1>4, <1>5 DEF Upgrades, Text
<1>7. QED
  BY <1>4, <1>6 DEF StatusWarns, expected

(* cli.status.version-warn: sync changes no version that status has not warned
   of and leaves none to warn of, but where packs oppose each other, for every
   pack and whatever the user wrote. *)
THEOREM StatusIsTrue == ProjectSpec => []StatusTracksSync
<1>1. ASSUME TypeOK, NoRoot
      PROVE  StatusTracksSync
  <2> DEFINE synced == SyncAll(0, Preflight(disk), disk.packs)
             warned == UNION {StatusWarns(disk, p) : p \in disk.packs}
             wanted == [p \in disk.packs |-> ResolveForFeatures(Spec(p), disk.saved[p].active)]
  <2>1. ASSUME NEW c \in Crates, NEW s \in ReadIn(disk, c),
               Text(UserRow(synced, s, c)) # Text(UserRow(disk, s, c))
        PROVE  c \in warned
    BY <1>1, <2>1, ChangesWarned
  <2>2. ASSUME NEW p \in disk.packs, NEW c \in StatusWarns(synced, p), NEW s \in ReadIn(synced, c),
               Unopposed(p, c, wanted)
        PROVE  ~Synced(synced, s, c, wanted[p][c])
    <3> HIDE DEF wanted
    <3>1. wanted = [q \in disk.packs |-> ResolveForFeatures(Spec(q), disk.saved[q].active)]
      BY DEF wanted
    <3>2. QED
      BY <1>1, <2>2, <3>1, SyncedUnwarned
  <2>3. ASSUME NEW p \in disk.packs
        PROVE  CheckWarns(disk, p) \cap DOMAIN wanted[p] \subseteq StatusWarns(disk, p)
    BY <1>1, CheckIsWarned
  <2> HIDE DEF synced, warned, wanted
  <2>4. QED
    BY <2>1, <2>2, <2>3 DEF StatusTracksSync, synced, warned, wanted
<1>2. Planned => StatusTracksSync
  BY <1>1 DEF Planned
<1>3. QED
  BY <1>2, PlansHold, PTL
=============================================================================
