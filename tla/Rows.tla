--------------------------------- MODULE Rows ---------------------------------
(***************************************************************************)
(* One row of a Cargo.toml dependency table, and what adding a crate to it *)
(* or syncing it with a crate does: add_dep_to_table, sync_dep_in_table.   *)
(***************************************************************************)
EXTENDS Naturals, FiniteSets

CONSTANT
    CrateFeatures   \* the Cargo features a crate can be given

(* Rows of a dependency table. ver = 0 is a row with no version key (path,
   git), req a requirement such as "^2" or "=1.2" that semver::Version cannot
   parse, and extra whatever else the user wrote in the row. *)

Sections == {"dependencies", "dev-dependencies", "build-dependencies"}

SectionOf ==
    [normal |-> "dependencies", dev |-> "dev-dependencies", build |-> "build-dependencies"]

Row(form, ver, feats) ==
    [form |-> form, ver |-> ver, req |-> FALSE, feats |-> feats, extra |-> FALSE]

Absent == Row("absent", 0, {})
Ref == Row("workspace", 0, {})

Present(e) == e.form # "absent"

Entry ==
    {e \in [form : {"absent", "workspace", "version"}, ver : Nat, req : BOOLEAN,
            feats : SUBSET CrateFeatures, extra : BOOLEAN] : Present(e) \/ e = Absent}

(* The text of a version, of a row or of a pack's crate. *)
Text(e) == <<e.ver, e.req>>

(* add_dep_to_table: the row is replaced. *)
AddEntry(spec) == [Row("version", spec.ver, spec.feats) EXCEPT !.req = spec.req]

(* Mutant: any other version is replaced. *)
UpgradesAny(e, spec) == e.ver # 0 /\ Text(e) # Text(spec)

(* should_upgrade_version: a text that is no version, on either side, is only
   compared for equality. *)
Upgrades(e, spec) ==
    /\ e.ver # 0
    /\ IF e.req \/ spec.req THEN Text(e) # Text(spec) ELSE e.ver < spec.ver

(* Mutant: the row's features are replaced. *)
SyncEntryReplacing(e, spec) ==
    IF ~Present(e) THEN AddEntry(spec)
    ELSE [e EXCEPT !.ver = IF Upgrades(e, spec) THEN spec.ver ELSE @,
                   !.req = IF Upgrades(e, spec) THEN spec.req ELSE @,
                   !.feats = spec.feats]

(* Mutant: a missing row is added without its features. *)
SyncEntryBare(e, spec) ==
    IF ~Present(e) THEN [AddEntry(spec) EXCEPT !.feats = {}]
    ELSE [e EXCEPT !.ver = IF Upgrades(e, spec) THEN spec.ver ELSE @,
                   !.req = IF Upgrades(e, spec) THEN spec.req ELSE @,
                   !.feats = @ \cup spec.feats]

(* sync_dep_in_table. *)
SyncEntry(e, spec) ==
    IF ~Present(e) THEN AddEntry(spec)
    ELSE [e EXCEPT !.ver = IF Upgrades(e, spec) THEN spec.ver ELSE @,
                   !.req = IF Upgrades(e, spec) THEN spec.req ELSE @,
                   !.feats = @ \cup spec.feats]

===============================================================================
