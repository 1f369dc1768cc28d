------------------------------- MODULE Project ------------------------------
(***************************************************************************)
(* A user's crate under `cargo bp add`, `sync` and `rm`: its Cargo.toml,   *)
(* the [workspace.dependencies] table its workspace may have, and          *)
(* battery-pack.toml. A command reads them, may wait at the picker or at a *)
(* prompt, then writes them one file after the other; it can die between   *)
(* any two writes, and the user edits Cargo.toml while no command holds a  *)
(* draft of it, or while one waits for an answer.                          *)
(***************************************************************************)
EXTENDS Pack

CONSTANTS
    Packs,        \* pack numbers; their order is that of the pack names
    Crates,       \* every crate name that occurs
    FeatureNames, \* every feature name that occurs
    Catalog,      \* Catalog[p][n] is what revision n of pack p contains
    Workspace,    \* is the crate a member of a workspace?
    PeerRefs,     \* crates other members take with `workspace = true`
    Requests,     \* the flags of `add`: [features, noDefault, all, crates]
    UserRows,     \* rows the user may write: [section, crate, entry]
    RootRows,     \* rows the user may write at the root: [crate, entry]
    MaxCommands,  \* bound on the commands started
    MaxEdits      \* bound on the user's edits

VARIABLES
    disk,  \* the files: [deps, packs, root, saved]
    rev,   \* the published revision of each pack
    cmd,   \* the command that runs, with the drafts it holds
    left   \* what remains of the two bounds

vars == <<disk, rev, cmd, left>>

ASSUME PacksAssumption == IsFiniteSet(Packs) /\ Packs \subseteq 1 .. Cardinality(Packs)

ASSUME NamesAssumption == {"all", "default"} \subseteq FeatureNames

ASSUME PeersAssumption == PeerRefs \subseteq Crates

ASSUME CatalogAssumption ==
    \A p \in Packs :
        /\ 1 \in DOMAIN Catalog[p] /\ DOMAIN Catalog[p] \subseteq Nat
        /\ \A n \in DOMAIN Catalog[p] :
              /\ WellFormed(Catalog[p][n])
              /\ DOMAIN Catalog[p][n].crates \subseteq Crates
              /\ DOMAIN Catalog[p][n].features \subseteq FeatureNames

ASSUME RequestsAssumption ==
    \A r \in Requests : r.features \subseteq FeatureNames

ASSUME BoundsAssumption == MaxCommands \in Nat /\ MaxEdits \in Nat

-----------------------------------------------------------------------------
(* A table without rows. *)
NoRows == [c \in Crates |-> Absent]

ASSUME RowsAssumption ==
    /\ \A row \in UserRows :
          row.section \in Sections /\ row.crate \in Crates /\ row.entry \in Entry
    /\ \A row \in RootRows :
          row.crate \in Crates /\ row.entry \in Entry /\ row.entry.form # "workspace"

-----------------------------------------------------------------------------
(* Whole tables, given the crates resolved from a pack. *)

In(s, c, crates) == c \in DOMAIN crates /\ SectionOf[crates[c].kind] = s

AddDeps(deps, crates) ==
    [s \in Sections |-> [c \in Crates |->
        IF In(s, c, crates) THEN IF Workspace THEN Ref ELSE AddEntry(crates[c])
        ELSE deps[s][c]]]

SyncDeps(deps, crates) ==
    [s \in Sections |-> [c \in Crates |->
        CASE In(s, c, crates) /\ Workspace -> IF Present(deps[s][c]) THEN deps[s][c] ELSE Ref
          [] In(s, c, crates) /\ ~Workspace -> SyncEntry(deps[s][c], crates[c])
          [] OTHER -> deps[s][c]]]

(* remove_deps_by_kind: only the section the pack puts the crate in. *)
DropDeps(deps, crates) ==
    [s \in Sections |-> [c \in Crates |-> IF In(s, c, crates) THEN Absent ELSE deps[s][c]]]

(* Mutant: the table is rebuilt from the pack alone. *)
AddRootAlone(root, crates) ==
    [c \in Crates |-> IF Workspace /\ c \in DOMAIN crates THEN AddEntry(crates[c]) ELSE Absent]

AddRoot(root, crates) ==
    [c \in Crates |-> IF Workspace /\ c \in DOMAIN crates THEN AddEntry(crates[c]) ELSE root[c]]

(* Mutant: rows the root lacks are left out. *)
SyncRootPresent(root, crates) ==
    [c \in Crates |-> IF Workspace /\ c \in DOMAIN crates /\ Present(root[c])
                      THEN SyncEntry(root[c], crates[c]) ELSE root[c]]

SyncRoot(root, crates) ==
    [c \in Crates |-> IF Workspace /\ c \in DOMAIN crates THEN SyncEntry(root[c], crates[c])
                      ELSE root[c]]

Without(table, names) == [c \in Crates |-> IF c \in names THEN Absent ELSE table[c]]

-----------------------------------------------------------------------------
(* battery-pack.toml: a pack without an entry has the default feature active
   and manages nothing. *)

NoState == [known |-> FALSE, active |-> {"default"}, managed |-> {}]

(* Mutant: an empty selection is stored as it is. *)
StoredAsIs(A) == IF IsAll(A) THEN {"all"} ELSE A

(* from_active_features and back: "all" swallows the rest, nothing selected is
   stored as the default set. *)
Stored(A) == CASE IsAll(A) -> {"all"} [] A = {} -> {"default"} [] OTHER -> A

StateOf(active, crates) ==
    [known |-> TRUE, active |-> Stored(active), managed |-> DOMAIN crates]

(* cargo metadata loads the workspace only if no `workspace = true` dangles. *)
Loads(d) ==
    /\ \A s \in Sections, c \in Crates :
          d.deps[s][c].form = "workspace" => Present(d.root[c])
    /\ Workspace => \A c \in PeerRefs : Present(d.root[c])

Declared(d) == {c \in Crates : \E s \in Sections : Present(d.deps[s][c])}

(* sync_state_with_current_manifest, run before every command. *)
Preflight(d) ==
    IF ~Loads(d) THEN d
    ELSE [d EXCEPT !.saved =
             [p \in Packs |-> [d.saved[p] EXCEPT !.managed = @ \cap Declared(d)]]]

-----------------------------------------------------------------------------
(* Commands. A running command holds the drafts it will write: deps and packs
   for Cargo.toml, root for the workspace table, entry for pack's state. What
   add selected (crates, active) and whether rm drops dependencies stays beside
   them, and stale notes that the user edited Cargo.toml after rm read it. *)

Idle ==
    [op |-> "none", pc |-> "idle", pack |-> 0, path |-> 0, local |-> FALSE, todo |-> {},
     crates |-> <<>>, active |-> {}, dropping |-> FALSE, stale |-> FALSE,
     deps |-> [s \in Sections |-> NoRows], packs |-> {}, root |-> NoRows, entry |-> NoState]

Spec(p) == Catalog[p][rev[p]]

Begins ==
    /\ cmd = Idle
    /\ left.commands > 0
    /\ left' = [left EXCEPT !.commands = @ - 1]
    /\ UNCHANGED rev

(* Any command's preflight; list, show, status and check write nothing else. *)
OtherCommand ==
    /\ Begins
    /\ disk' = Preflight(disk)
    /\ UNCHANGED cmd

(* The write steps of add and rm, and the last one of sync. *)
WriteRoot ==
    /\ cmd.pc = "root"
    /\ disk' = [disk EXCEPT !.root = cmd.root]
    /\ cmd' = [cmd EXCEPT !.pc = "manifest"]
    /\ UNCHANGED <<rev, left>>

(* Mutant: battery-pack.toml is written before Cargo.toml. *)
WriteStateFirst ==
    /\ cmd.pc = "manifest"
    /\ disk' = IF cmd.op = "sync" THEN [disk EXCEPT !.deps = cmd.deps, !.packs = cmd.packs]
               ELSE [disk EXCEPT !.saved[cmd.pack] = cmd.entry]
    /\ cmd' = IF cmd.op = "sync" THEN Idle ELSE [cmd EXCEPT !.pc = "state"]
    /\ UNCHANGED <<rev, left>>

WriteManifest ==
    /\ cmd.pc = "manifest"
    /\ disk' = [disk EXCEPT !.deps = cmd.deps, !.packs = cmd.packs]
    /\ cmd' = IF cmd.op = "sync" THEN Idle ELSE [cmd EXCEPT !.pc = "state"]
    /\ UNCHANGED <<rev, left>>

WriteState ==
    /\ cmd.pc = "state"
    /\ disk' = [disk EXCEPT !.saved[cmd.pack] = cmd.entry]
    /\ cmd' = CASE cmd.op # "sync" -> Idle
                [] cmd.op = "sync" /\ cmd.todo = {} -> [cmd EXCEPT !.pc = "manifest"]
                [] OTHER -> [cmd EXCEPT !.pc = "load"]
    /\ UNCHANGED <<rev, left>>

(* The process dies, is interrupted at the picker or prompt, or a write fails. *)
Quit ==
    /\ cmd # Idle
    /\ cmd' = Idle
    /\ UNCHANGED <<disk, rev, left>>

-----------------------------------------------------------------------------
(* add *)

(* -F on a pack that is already stored adds to what is stored, except that an
   at-most-one category switches to the item requested. *)
KeepsStored(r) == ~r.noDefault /\ ~r.all /\ r.crates = {}

Merged(spec, r, stored) ==
    IF ~(KeepsStored(r) /\ stored.known) THEN r.features
    ELSE r.features
            \cup {f \in stored.active : \A g \in r.features : ~ExclusiveSiblings(spec, g, f)}

TakesAll(r, stored) == r.all \/ (KeepsStored(r) /\ stored.known /\ IsAll(stored.active))

(* resolve_add_crates asks for the picker... *)
Interactive(spec, r, stored) ==
    /\ r.crates = {} /\ ~TakesAll(r, stored)
    /\ ~r.noDefault /\ Merged(spec, r, stored) = {}
    /\ HasMeaningfulChoices(spec)

(* ...or settles which features become active and which crates are written. *)
Chosen(spec, r, stored) ==
    LET features == Merged(spec, r, stored) \cup (IF r.noDefault THEN {} ELSE {"default"})
        choice(A, crates) == [active |-> A, crates |-> crates]
    IN  CASE r.crates # {} ->
                choice({}, [c \in r.crates \cap DOMAIN spec.crates |-> spec.crates[c]])
          [] r.crates = {} /\ TakesAll(r, stored) ->
                choice({"all"}, ResolveForFeatures(spec, {"all"}))
          [] r.crates = {} /\ ~TakesAll(r, stored) /\ features = {} -> choice({}, <<>>)
          [] OTHER -> choice(features, Resolve(spec, features))

(* Mutant: whatever was managed goes. *)
DeselectedAll(spec, managed, crates) ==
    [c \in managed \cap DOMAIN spec.crates |-> spec.crates[c]]

(* Crates managed so far that the new selection leaves out. *)
Deselected(spec, managed, crates) ==
    [c \in (managed \ DOMAIN crates) \cap DOMAIN spec.crates |-> spec.crates[c]]

(* Everything after the selection is computed from the files as they are then. *)
AddDraft(d, p, spec, choice) ==
    LET gone == Deselected(spec, d.saved[p].managed, choice.crates) IN
    IF DOMAIN choice.crates = {} THEN Idle
    ELSE [Idle EXCEPT
            !.op = "add", !.pack = p,
            !.pc = IF Workspace THEN "root" ELSE "manifest",
            !.crates = choice.crates, !.active = choice.active,
            !.deps = DropDeps(AddDeps(d.deps, choice.crates), gone),
            !.packs = d.packs,
            !.root = Without(AddRoot(d.root, choice.crates), DOMAIN gone),
            !.entry = StateOf(choice.active, choice.crates)]

Allowed(spec, r) == r.all \/ AtMostOneOfEach(spec, r.features \cup r.crates)

Add(p, r) ==
    /\ Begins
    /\ Allowed(Spec(p), r)
    /\ ~Interactive(Spec(p), r, disk.saved[p])
    /\ disk' = Preflight(disk)
    /\ cmd' = AddDraft(disk', p, Spec(p), Chosen(Spec(p), r, disk.saved[p]))

(* The picker on a terminal, the default set elsewhere. *)
AddInteractive(p, r) ==
    /\ Begins
    /\ Interactive(Spec(p), r, disk.saved[p])
    /\ disk' = Preflight(disk)
    /\ \/ /\ Visible(Spec(p)) # {}
          /\ cmd' = [Idle EXCEPT !.op = "add", !.pc = "picker", !.pack = p]
       \/ cmd' = AddDraft(disk', p, Spec(p),
                          [active |-> {"default"}, crates |-> Resolve(Spec(p), {"default"})])

(* The picker shows one radio section per at-most-one category. An item of
   several is marked in each on its own, and chosen when marked in one. *)
PickerAllows(spec, items) ==
    \E marked \in [spec.exclusive -> SUBSET items] :
        /\ \A E \in spec.exclusive : marked[E] \subseteq E /\ Cardinality(marked[E]) <= 1
        /\ items \cap UNION spec.exclusive = UNION {marked[E] : E \in spec.exclusive}

Pick(feats, rows) ==
    LET spec == Spec(cmd.pack)
        crates == PickedCrates(spec, feats, rows)
    IN  /\ cmd.pc = "picker"
        /\ feats \subseteq DOMAIN spec.features \ {"default"}
        /\ rows \subseteq Visible(spec)
        /\ PickerAllows(spec, feats \cup rows)
        /\ cmd' = AddDraft(disk, cmd.pack, spec,
                           [active |-> FullySelected(spec, DOMAIN crates), crates |-> crates])
        /\ UNCHANGED <<disk, rev, left>>

-----------------------------------------------------------------------------
(* sync *)

(* From the registry, from --crate-source (local) or from --path, which names
   one directory for every pack. *)
Sync(local, path) ==
    /\ Begins
    /\ disk.packs # {}
    /\ disk' = Preflight(disk)
    /\ cmd' = [Idle EXCEPT !.op = "sync", !.pc = "load", !.local = local, !.path = path,
                           !.todo = disk.packs, !.deps = disk.deps, !.packs = disk.packs]

Loaded(p) == Spec(IF cmd.path = 0 THEN p ELSE cmd.path)

SyncPack ==
    \E p \in cmd.todo :
        LET active == disk.saved[p].active
            expected == ResolveForFeatures(Loaded(p), active)
        IN
        /\ cmd.pc = "load"
        /\ \A q \in cmd.todo : p <= q
        /\ cmd.local \/ cmd.path # 0 \/ Loads(disk)
        /\ disk' = [disk EXCEPT !.root = SyncRoot(@, expected)]
        /\ cmd' = [cmd EXCEPT !.pc = "state", !.pack = p, !.todo = @ \ {p},
                              !.deps = SyncDeps(@, expected),
                              !.entry = StateOf(active, expected)]
        /\ UNCHANGED <<rev, left>>

(* cargo metadata cannot load the workspace: the command ends in an error. *)
SyncFails ==
    /\ cmd.pc = "load"
    /\ ~cmd.local /\ cmd.path = 0 /\ ~Loads(disk)
    /\ cmd' = Idle
    /\ UNCHANGED <<disk, rev, left>>

-----------------------------------------------------------------------------
(* rm *)

(* Mutant: what other packs manage is not looked at. *)
SafeAlone(saved, packs, p) == saved[p].managed

(* deps_safe_to_remove. *)
Safe(saved, packs, p) ==
    saved[p].managed \ UNION {saved[q].managed : q \in packs \ {p}}

(* The second half of remove_battery_pack, on the manifest read before the
   prompt (deps, packs) and the root table read after it. *)
RmDraft(deps, packs, root, saved, p, dropping) ==
    LET safe == IF dropping THEN Safe(saved, packs, p) ELSE {} IN
    [Idle EXCEPT
        !.op = "rm", !.pack = p, !.dropping = dropping,
        !.pc = IF dropping /\ Workspace THEN "root" ELSE "manifest",
        !.deps = [s \in Sections |->
                     IF s = "build-dependencies" THEN deps[s] ELSE Without(deps[s], safe)],
        !.packs = packs \ {p},
        !.root = Without(root, safe)]

(* --remove-deps drops, --keep-deps and a non-terminal do not. *)
Rm(p, dropping) ==
    /\ Begins
    /\ p \in disk.packs
    /\ disk' = Preflight(disk)
    /\ cmd' = RmDraft(disk.deps, disk.packs, disk.root, disk'.saved, p,
                      dropping /\ disk.saved[p].known)

(* On a terminal the user is asked, when there is something to remove. *)
RmAsk(p) ==
    /\ Begins
    /\ p \in disk.packs
    /\ disk' = Preflight(disk)
    /\ Safe(disk'.saved, disk.packs, p) # {}
    /\ cmd' = [Idle EXCEPT !.op = "rm", !.pc = "prompt", !.pack = p,
                           !.deps = disk.deps, !.packs = disk.packs]

RmAnswer(yes) ==
    /\ cmd.pc = "prompt"
    /\ cmd' = [RmDraft(cmd.deps, cmd.packs, disk.root, disk.saved, cmd.pack, yes)
                   EXCEPT !.stale = cmd.stale]
    /\ UNCHANGED <<disk, rev, left>>

-----------------------------------------------------------------------------
(* The world around. *)

(* The user edits while no command runs, or while one waits for an answer. *)
Edits ==
    /\ cmd.pc \in {"idle", "picker", "prompt"}
    /\ left.edits > 0
    /\ left' = [left EXCEPT !.edits = @ - 1]
    /\ cmd' = IF cmd.pc = "prompt" THEN [cmd EXCEPT !.stale = TRUE] ELSE cmd
    /\ UNCHANGED rev

(* cargo add --build <pack>. *)
RegisterPack(p) ==
    /\ Edits
    /\ p \notin disk.packs
    /\ disk' = [disk EXCEPT !.packs = @ \cup {p}]

UserWrites(row) ==
    /\ Edits
    /\ row.entry.form = "workspace" => Present(disk.root[row.crate])
    /\ disk.deps[row.section][row.crate] # row.entry
    /\ disk' = [disk EXCEPT !.deps[row.section][row.crate] = row.entry]

UserWritesRoot(row) ==
    /\ Edits
    /\ Workspace
    /\ disk.root[row.crate] # row.entry
    /\ disk' = [disk EXCEPT !.root[row.crate] = row.entry]

Publish(p) ==
    /\ cmd = Idle
    /\ rev[p] + 1 \in DOMAIN Catalog[p]
    /\ rev' = [rev EXCEPT ![p] = @ + 1]
    /\ UNCHANGED <<disk, cmd, left>>

-----------------------------------------------------------------------------
(* A crate to which no pack has been added; some may be registered. *)
Init ==
    /\ \E registered \in SUBSET Packs :
          disk = [deps |-> [s \in Sections |-> NoRows],
                  packs |-> registered,
                  root |-> [c \in Crates |-> IF Workspace /\ c \in PeerRefs
                                             THEN Row("version", 1, {}) ELSE Absent],
                  saved |-> [p \in Packs |-> NoState]]
    /\ rev = [p \in Packs |-> 1]
    /\ cmd = Idle
    /\ left = [commands |-> MaxCommands, edits |-> MaxEdits]

CommandBegins ==
    \/ OtherCommand
    \/ \E p \in Packs, r \in Requests : Add(p, r) \/ AddInteractive(p, r)
    \/ \E local \in BOOLEAN : Sync(local, 0)
    \/ \E p \in Packs : Sync(FALSE, p) \/ RmAsk(p) \/ \E dropping \in BOOLEAN : Rm(p, dropping)

CommandSteps ==
    \/ WriteRoot \/ WriteManifest \/ WriteState
    \/ cmd.pc = "picker" /\ \E feats \in SUBSET DOMAIN Spec(cmd.pack).features,
                               rows \in SUBSET Visible(Spec(cmd.pack)) : Pick(feats, rows)
    \/ SyncPack \/ SyncFails
    \/ \E yes \in BOOLEAN : RmAnswer(yes)
    \/ Quit

Environment ==
    \/ \E p \in Packs : RegisterPack(p) \/ Publish(p)
    \/ \E row \in UserRows : UserWrites(row)
    \/ \E row \in RootRows : UserWritesRoot(row)

Next == CommandBegins \/ CommandSteps \/ Environment

ProjectSpec == Init /\ [][Next]_vars
=============================================================================
