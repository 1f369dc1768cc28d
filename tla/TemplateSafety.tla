---------------------------- MODULE TemplateSafety ----------------------------
(***************************************************************************)
(* What the commands that render templates owe their users.                *)
(***************************************************************************)
EXTENDS Template

Reasons ==
    {None, "fetch", "template", "config", "placeholder", "render", "build", "exists", "git", "killed"}

AllPlaceholders == UNION {UNION {Range(c[t].placeholders) : t \in DOMAIN c} : c \in Crates}

OwnValues == UNION {{d.default, Fallback(d)} \cup d.options : d \in AllPlaceholders}

Values == {"true", "false", None} \cup Typed \cup OwnValues \cup UNION {Range(c.defines) : c \in Commands}

CourseOK ==
    /\ phase \in Phases /\ why \in Reasons /\ (phase = "failed" <=> why # None)
    /\ turn.stage \in {None, "show", "new", "probe", "build"}
    /\ phase \in {"check", "write", "git", "record"} => turn.stage = "new"

CountsOK ==
    /\ left \in 0..MaxCommands /\ next \in Nat \ {0}
    /\ phase = "fill" => next <= Len(Mine.placeholders) + 1
    /\ phase \in {"manage", "write"} => next <= Len(files) + 1

ValuesOK ==
    /\ crate \in {source, Packaged}
    /\ turn.stage # None => turn.name \in DOMAIN crate /\ DOMAIN values \subseteq Defined
    /\ \A n \in DOMAIN values : values[n] \in Values

FilesOnTime ==
    /\ phase \in {"config", "fill", "render"} => files = <<>>
    /\ made \/ disk = <<>>

(* Types: the shapes of the state; a reason for every failure and for nothing
   else, values only for declared placeholders, files only once rendered. *)
TypeOK == CourseOK /\ CountsOK /\ ValuesOK /\ FilesOnTime

-----------------------------------------------------------------------------

Applied(d) ==
    IF StatePath \in DOMAIN d /\ d[StatePath].is.form = "state" THEN d[StatePath].is.applied ELSE {}

(* What the template's own state file calls applied, and the user's. *)
Claimed ==
    Applied(Foreign)
        \cup UNION {f.content.is.applied : f \in {g \in Range(files) : g.content.is.form = "state"}}

(* A template is recorded as applied only in a project that has every file
   the template rendered to, whatever fails or dies on the way
   (generate_from_path records after generate). *)
RecordedWhole ==
    [][Applied(disk') \subseteq Applied(disk) \cup Claimed
          \/ /\ turn.stage = "new" /\ phase = "record"
             /\ \A i \in DOMAIN files : files[i].path \in DOMAIN disk]_vars

(* new replaces no file but one it wrote itself, also when the user makes the
   directory while the command waits for his answers (generate looks for the
   directory after the last prompt). *)
SparesExisting ==
    [][phase = "write" =>
          \A p \in DOMAIN disk :
             disk'[p] # disk[p] => \E i \in 1..(next - 1) : files[i].path = p]_vars

(* What the packs in use, and the workspace's, say of a crate's version. *)
UsedPacks(m, state) == {FullName(Active(m, state)[i].name) : i \in DOMAIN Active(m, state)}

Provider(p) == IF p \in DOMAIN Workspace THEN Workspace[p] ELSE Registry[p]

VersionsOf(c, m, state) ==
    LET packs == UsedPacks(m, state) \cup DOMAIN Workspace
    IN {Provider(p).ver : p \in packs \cap {c}}
          \cup {Provider(p).spec.crates[c].ver :
                   p \in {q \in packs : c \in DOMAIN Provider(q).spec.crates}}

(* A manifest is resolved whole or not at all: no marker stays behind, every
   version comes from a pack in use or of the workspace, and rows without a
   marker, listed features, names and other keys are as the template has them
   (resolve_bp_managed_content). *)
ManagedWhole ==
    [][phase = "manage" /\ phase' = "manage" =>
        \A i \in DOMAIN files :
            LET old == files[i].content.is
                new == files'[i].content.is
            IN old # new =>
                  /\ Marked(new) = {} /\ Places(new) = Places(old) /\ new.packs = old.packs
                  /\ \A at \in Places(old) :
                        IF at \in Marked(old)
                        THEN /\ Dep(new, at).ver \in
                                   VersionsOf(Dep(old, at).crate, old, StateFor(files, files[i].path))
                             /\ Dep(old, at).explicit => Dep(new, at).feats = Dep(old, at).feats
                             /\ Dep(new, at).crate = Dep(old, at).crate
                             /\ Dep(new, at).extra = Dep(old, at).extra
                        ELSE Dep(new, at) = Dep(old, at)]_vars

(* What validate has built from the tarball, or from the source it fell back
   to, renders for the user of the same files: a `new` that may not ask and
   defines nothing never fails on its placeholders or files (validate probes
   with fallbacks, then generates with none). *)
ValidatedGenerates ==
    phase = "failed" /\ turn.stage = "new" /\ why \in {"config", "placeholder", "render"}
        /\ ~cmd.interactive /\ cmd.defines = <<>>
    => [name |-> turn.name, tarball |-> crate # source] \notin valid

-----------------------------------------------------------------------------

Results(template, defines) ==
    [i \in DOMAIN template.placeholders |-> Silent(template.placeholders[i], defines)]

Silently(template, defines) ==
    LET defs == template.placeholders
    IN [n \in {defs[i].name : i \in DOMAIN defs} |->
           Silent(defs[CHOOSE i \in DOMAIN defs : defs[i].name = n], defines).value]

Unanswered(template, defines) ==
    {def \in Range(template.placeholders) :
        def.type = "bool" /\ def.default = None /\ def.name \notin DOMAIN defines}

Texts(rendered) == [i \in DOMAIN rendered |-> <<rendered[i].path, rendered[i].content.text>>]

(* What show -t prints is what a `new` with the same defines that asks nothing
   writes, if that succeeds and no switch is without a default (preview fills
   in what resolve_placeholders would). A switch without a default is off in a
   project and, as `<name>`, on in the preview. *)
PreviewShows ==
    shown # <<>> =>
        LET template == source[shown.template]
        IN (/\ \A i \in DOMAIN template.placeholders :
                  Results(template, shown.defines)[i].kind = "value"
            /\ Unanswered(template, shown.defines) = {})
           => Texts(shown.files) = Texts(RenderAll(template, Silently(template, shown.defines)))

(* A command that may not ask comes to an end, with a registry that is down
   for good, too. *)
Ends == (phase # "idle" /\ ~cmd.interactive) ~> Resting

-----------------------------------------------------------------------------
(* "The highest version always wins" (md/spec/manifest.md, manifest.merge.
   version), in a generated manifest. *)
NewestVersion ==
    [][phase = "manage" /\ phase' = "manage" =>
        \A i \in DOMAIN files :
            LET old == files[i].content.is
                new == files'[i].content.is
            IN old # new =>
                  \A at \in Marked(old) :
                      Dep(new, at).ver = Max(VersionsOf(Dep(old, at).crate, old,
                                                        StateFor(files, files[i].path)))]_vars

===============================================================================
