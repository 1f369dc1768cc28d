-------------------------------- MODULE Reports --------------------------------
(***************************************************************************)
(* What `cargo bp status` and `cargo bp check` tell of a crate under       *)
(* module Project: which versions the user has, and which of them they     *)
(* call outdated (commands.rs).  They write nothing but what every command *)
(* does (OtherCommand).  A version here stands for one of three numbers:   *)
(* check takes any other for up to date.                                   *)
(***************************************************************************)
EXTENDS Project

(* The sections in the order they are read. *)
Before ==
    [s \in Sections |->
        CASE s = "dependencies" -> {}
          [] s = "dev-dependencies" -> {"dependencies"}
          [] s = "build-dependencies" -> {"dependencies", "dev-dependencies"}]

(* extract_version_from_dep, or the row of the workspace a reference is to. *)
Versioned(d, s, c) ==
    d.deps[s][c].ver # 0 \/ (d.deps[s][c].form = "workspace" /\ d.root[c].ver # 0)

(* collect_user_dep_versions: the first section that has a version wins. *)
ReadIn(d, c) ==
    {s \in Sections : Versioned(d, s, c) /\ \A t \in Before[s] : ~Versioned(d, t, c)}

UserRow(d, s, c) == IF d.deps[s][c].ver # 0 THEN d.deps[s][c] ELSE d.root[c]

(* Mutant: versions are compared as check does. *)
StatusWarnsOlder(d, p) ==
    LET expected == ResolveForFeatures(Spec(p), d.saved[p].active)
    IN {c \in DOMAIN expected : \E s \in ReadIn(d, c) :
            /\ ~UserRow(d, s, c).req /\ ~expected[c].req
            /\ UserRow(d, s, c).ver < expected[c].ver}

(* The crates of pack p that status warns of: build_status_report. *)
StatusWarns(d, p) ==
    LET expected == ResolveForFeatures(Spec(p), d.saved[p].active)
    IN {c \in DOMAIN expected : \E s \in ReadIn(d, c) : Upgrades(UserRow(d, s, c), expected[c])}

(* The crates of pack p that check calls outdated, expected or not:
   check_battery_packs, is_older_version. *)
CheckWarns(d, p) ==
    {c \in DOMAIN Spec(p).crates : \E s \in ReadIn(d, c) :
        LET row == UserRow(d, s, c)
            spec == Spec(p).crates[c]
        IN  ~row.req /\ ~spec.req /\ row.ver < spec.ver}
=============================================================================
