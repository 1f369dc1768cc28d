---------------------------- MODULE ProjectSafety ---------------------------
(***************************************************************************)
(* What the commands of module Project owe the user's files.               *)
(***************************************************************************)
EXTENDS Reports, FiniteSetsExt, Folds

(* The shape of the files, of a resolved selection and of a running command;
   a stored selection is never empty. *)
Tables == [Sections -> [Crates -> Entry]]

SavedState == [known : BOOLEAN, active : SUBSET FeatureNames, managed : SUBSET Crates]

Disk ==
    [deps : Tables, packs : SUBSET Packs, root : [Crates -> Entry], saved : [Packs -> SavedState]]

Command(selected) ==
    [op : {"none", "add", "sync", "rm"},
     pc : {"idle", "picker", "prompt", "load", "root", "manifest", "state"},
     pack : Packs \cup {0}, path : Packs \cup {0}, local : BOOLEAN, todo : SUBSET Packs,
     crates : [selected -> CrateSpec], active : SUBSET FeatureNames, dropping : BOOLEAN, stale : BOOLEAN,
     deps : Tables, packs : SUBSET Packs, root : [Crates -> Entry],
     entry : SavedState]

(* Which command can be at which point. *)
Phases(c) ==
    /\ \/ c.op = "none" /\ c.pc = "idle" /\ c = Idle
       \/ c.op = "add" /\ c.pc \in {"picker", "root", "manifest", "state"}
       \/ c.op = "sync" /\ c.pc \in {"load", "state", "manifest"}
       \/ c.op = "rm" /\ c.pc \in {"prompt", "root", "manifest", "state"}
    /\ c.op \in {"add", "rm"} \/ c.pc = "state" => c.pack \in Packs

CommandOK(c) ==
    /\ c \in Command(DOMAIN c.crates)
    /\ DOMAIN c.crates \subseteq Crates
    /\ c.entry.active # {}
    /\ Phases(c)

TypeOK ==
    /\ disk \in Disk
    /\ \A p \in Packs : disk.saved[p].active # {}
    /\ rev \in [Packs -> Nat]
    /\ \A p \in Packs : rev[p] \in DOMAIN Catalog[p]
    /\ CommandOK(cmd)
    /\ left \in [commands : Nat, edits : Nat]

-----------------------------------------------------------------------------
(* Where a command that is not interrupted ends. *)

Finish(d, c) ==
    [d EXCEPT !.deps = c.deps, !.packs = c.packs, !.root = c.root, !.saved[c.pack] = c.entry]

(* The part of the files a command on the given packs answers for. *)
Outcome(d, packs) ==
    <<d.deps, d.packs, d.root, [p \in packs |-> d.saved[p]]>>

(* The rest of a sync: its remaining packs, then the manifest. *)
SyncOne(path, d, p) ==
    LET active == d.saved[p].active
        expected == ResolveForFeatures(Spec(IF path = 0 THEN p ELSE path), active)
    IN  [d EXCEPT !.root = SyncRoot(@, expected),
                  !.deps = SyncDeps(@, expected),
                  !.saved[p] = StateOf(active, expected)]

SyncAll(path, d, todo) ==
    MapThenFoldSet(LAMBDA p, acc : SyncOne(path, acc, p), d, LAMBDA p : p, Max, todo)

SyncFinish ==
    LET recorded == IF cmd.pc = "state" THEN [disk EXCEPT !.saved[cmd.pack] = cmd.entry]
                    ELSE disk
    IN  SyncAll(cmd.path, [recorded EXCEPT !.deps = cmd.deps, !.packs = cmd.packs], cmd.todo)

(* A command that dies between two writes loses nothing for good: the same
   command, run again on what it left behind, ends with the very files an
   uninterrupted run would have written. For rm this is said until Cargo.toml
   is written, after which the pack counts as not installed. *)
Writing == cmd.pc \in {"root", "manifest", "state"}

RerunConverges ==
    LET left_behind == Preflight(disk) IN
    /\ cmd.op = "add" /\ Writing =>
          LET choice == [active |-> cmd.active, crates |-> cmd.crates]
              again == AddDraft(left_behind, cmd.pack, Spec(cmd.pack), choice)
          IN  Outcome(Finish(left_behind, again), {cmd.pack}) = Outcome(Finish(disk, cmd), {cmd.pack})
    /\ cmd.op = "sync" =>
          Outcome(SyncAll(cmd.path, left_behind, disk.packs), disk.packs)
             = Outcome(SyncFinish, disk.packs)
    /\ cmd.op = "rm" /\ cmd.pc \in {"root", "manifest"} /\ ~cmd.stale =>
          LET again == RmDraft(left_behind.deps, left_behind.packs, left_behind.root,
                               left_behind.saved, cmd.pack, cmd.dropping)
          IN  Outcome(Finish(left_behind, again), {cmd.pack}) = Outcome(Finish(disk, cmd), {cmd.pack})

-----------------------------------------------------------------------------
(* sync only adds: it removes no row, takes away no feature and nothing else
   the user wrote, and writes no version but one that a pack of it recommends,
   into a row that has one. Where those are all plain it lowers no plain
   version: only a requirement, "=1.2" or "*", replaces a newer one. *)
Recommended(c) ==
    {Text(Loaded(p).crates[c]) : p \in {q \in cmd.packs : c \in DOMAIN Loaded(q).crates}}

IsPlain(text) == ~text[2]

Keeps(new, old, texts) ==
    /\ Present(old) => new.form = old.form
    /\ old.feats \subseteq new.feats
    /\ old.extra => new.extra
    /\ Text(new) # Text(old) => Text(new) \in texts /\ (Present(old) => old.ver # 0)
    /\ (\A text \in texts : IsPlain(text)) /\ ~old.req => ~new.req /\ old.ver <= new.ver

KeepsAll(new, old) ==
    /\ \A s \in Sections, c \in Crates : Keeps(new.deps[s][c], old.deps[s][c], Recommended(c))
    /\ \A c \in Crates : Keeps(new.root[c], old.root[c], Recommended(c))
    /\ old.packs \subseteq new.packs

SyncNeverWeakens == [][cmd.op = "sync" => KeepsAll(disk', disk)]_vars

(* When sync ends, every crate each registered pack expects is declared in its
   section with the features all of them want, however many packs share it, and
   the packs' records say so. Its version is what the pack asks for, unless a
   later pack asks otherwise: packs oppose each other over a crate if they want
   different texts and one of these is a requirement. *)
UpToDate(e, spec) ==
    e.ver = 0 \/ IF spec.req THEN Text(e) = Text(spec) ELSE ~e.req /\ spec.ver <= e.ver

Agree(one, two) == (~one.req /\ ~two.req) \/ Text(one) = Text(two)

Unopposed(p, c, wanted) ==
    \A q \in DOMAIN wanted : p < q /\ c \in DOMAIN wanted[q] => Agree(wanted[p][c], wanted[q][c])

SyncedTo(d, p, wanted) ==
    /\ \A c \in DOMAIN wanted[p] :
          LET spec == wanted[p][c]
              declared == d.deps[SectionOf[spec.kind]][c]
              row == IF Workspace THEN d.root[c] ELSE declared
          IN  /\ Present(declared) /\ Present(row)
              /\ spec.feats \subseteq row.feats
              /\ Unopposed(p, c, wanted) => UpToDate(row, spec)
    /\ d.saved[p].managed = DOMAIN wanted[p]

WantedNow == [p \in disk.packs |-> ResolveForFeatures(Loaded(p), disk.saved[p].active)]

SyncBringsUpToDate ==
    [][cmd.op = "sync" /\ cmd.pc = "manifest" /\ disk'.deps = cmd.deps /\ cmd' = Idle =>
          \A p \in disk.packs : SyncedTo(disk', p, WantedNow)]_vars

(* Nothing dangles half-way: as long as add and sync take no row from the
   workspace table, a workspace that loads still loads after each of their
   writes, so that the next cargo command, and the next preflight, work. *)
RootKept == \A c \in Crates : Present(disk.root[c]) => Present(disk.root[c])'

NoNewDangling ==
    [][cmd.op \in {"add", "sync"} /\ RootKept /\ Loads(disk) => Loads(disk)']_vars

(* add answers for its pack only: rows of crates it neither selects nor
   deselects stay as they are on disk when Cargo.toml is written, including
   rows the user wrote while the picker was open. *)
Stepping == cmd'.pc # cmd.pc  \* a step of the command, not of the user beside it

AddLeavesOthersAlone ==
    [][cmd.op = "add" /\ Stepping =>
          \A c \in Crates \ DOMAIN Spec(cmd.pack).crates :
             /\ disk'.root[c] = disk.root[c]
             /\ \A s \in Sections : disk'.deps[s][c] = disk.deps[s][c]]_vars

(* rm never takes a crate another registered pack manages. *)
RmKeepsShared ==
    [][cmd.op = "rm" /\ ~cmd.stale /\ Stepping =>
          \A q \in cmd.packs \ {cmd.pack} : \A c \in disk.saved[q].managed :
             /\ disk'.root[c] = disk.root[c]
             /\ \A s \in Sections : disk'.deps[s][c] = disk.deps[s][c]]_vars

-----------------------------------------------------------------------------
(* Running a command twice is running it once. *)

AddOnce(d, p, r) ==
    LET choice == Chosen(Spec(p), r, d.saved[p])
        ready == Preflight(d)
    IN  IF DOMAIN choice.crates = {} THEN ready
        ELSE Finish(ready, AddDraft(ready, p, Spec(p), choice))

(* cli.add.idempotent: a second add with the same flags changes nothing. A
   feature whose name is "all" is excepted: once stored it stands for every
   feature (lib.rs:1631 calls it a documented limitation). *)
AddIdempotent ==
    cmd = Idle =>
        \A p \in Packs, r \in Requests :
            Allowed(Spec(p), r) /\ ~IsAll(r.features)
               /\ ~Interactive(Spec(p), r, disk.saved[p]) =>
                LET once == AddOnce(disk, p, r) IN
                Outcome(AddOnce(once, p, r), {p}) = Outcome(once, {p})

(* A second sync finds everything up to date. *)
SyncIdempotent ==
    cmd = Idle =>
        LET once == SyncAll(0, Preflight(disk), disk.packs) IN
        Outcome(SyncAll(0, Preflight(once), disk.packs), disk.packs) = Outcome(once, disk.packs)

-----------------------------------------------------------------------------
(* What status says sync would do. *)

(* Does sync write the row that status reads?  A row in another section, and
   in a workspace a row of its own version, it leaves alone. *)
Synced(d, s, c, spec) ==
    s = SectionOf[spec.kind] /\ (Workspace => d.deps[s][c].ver = 0)

(* cli.status.version-warn, "Run `cargo bp sync` to update": sync changes no
   version that status has not warned of, nothing it does write is warned of
   afterwards, but for the packs a later one opposes, and what check calls
   outdated among the expected crates status warns of too. *)
StatusTracksSync ==
    cmd = Idle =>
        LET synced == SyncAll(0, Preflight(disk), disk.packs)
            warned == UNION {StatusWarns(disk, p) : p \in disk.packs}
            wanted == [p \in disk.packs |-> ResolveForFeatures(Spec(p), disk.saved[p].active)]
        IN /\ \A c \in Crates : \A s \in ReadIn(disk, c) :
                 Text(UserRow(synced, s, c)) # Text(UserRow(disk, s, c)) => c \in warned
           /\ \A p \in disk.packs :
                 /\ \A c \in StatusWarns(synced, p) : \A s \in ReadIn(synced, c) :
                       Unopposed(p, c, wanted) => ~Synced(synced, s, c, wanted[p][c])
                 /\ CheckWarns(disk, p) \cap DOMAIN wanted[p] \subseteq StatusWarns(disk, p)

-----------------------------------------------------------------------------
(* What a document says of sync and the code does not do. *)

(* manifest.sync.version-bump: a version is only changed when it is older. The
   requirement "^2" is newer than a recommended 1, and 2 than "=1". *)
SyncLowersNothing ==
    [][cmd.op = "sync" =>
          /\ \A c \in Crates : disk.root[c].ver <= disk'.root[c].ver
          /\ \A s \in Sections, c \in Crates : disk.deps[s][c].ver <= disk'.deps[s][c].ver]_vars
=============================================================================
