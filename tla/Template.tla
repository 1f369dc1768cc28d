------------------------------- MODULE Template -------------------------------
(***************************************************************************)
(* The commands that render a template: `new` writes a project,            *)
(* `show -t` prints the files, `validate` renders every template of a pack *)
(* and builds those that are projects (template_engine.rs, validate.rs,    *)
(* commands.rs).                                                           *)
(*                                                                         *)
(* A pack crate maps the names of its templates to                         *)
(*   dir          : is the directory there?                                *)
(*   config       : does bp-template.toml parse?                           *)
(*   ignore       : names of ignored files and directories                 *)
(*   placeholders : their definitions, in the order of their names:        *)
(*                  [name, kebab, type, default, from, options], default   *)
(*                  "" for none, from "none", "list", "category" or        *)
(*                  "unknown" (a category the pack does not have)          *)
(*   includes     : [there, dest, body]                                    *)
(*   files        : [path, body], as the walk of the directory finds them  *)
(* A path is a sequence of components, each [text, var]; a body renders,   *)
(* unless the variable `when` is false, to what it `is` with the values of *)
(* the variables it `uses`.                                                *)
(***************************************************************************)
EXTENDS Managed

CONSTANTS
    Crates,       \* pack crates: template -> its definition
    TemplateNames,\* the names of templates, sorted
    OwnPack,      \* the pack's name
    Registry,     \* packs the registry has: full name -> [ver, spec]
    Commands,     \* [kind, template, defines, interactive, path]
    Typed,        \* what a user may type for a placeholder
    Foreign,      \* a file of the user's: path -> content
    MaxCommands   \* bound on the commands

VARIABLES
    cmd,     \* the command
    phase,   \* see Phases
    why,     \* why a failed command failed
    source,  \* the pack crate's source
    crate,   \* the crate directory the command reads: the source, or a tarball's
    turn,    \* its template: a name, and the stage "show", "new", "probe" or "build"
    values,  \* the variables
    next,    \* the placeholder or the file whose turn it is
    files,   \* the rendered files: [path, content]
    disk,    \* the project directory: path -> content
    made,    \* is it there?
    shown,   \* what the last show printed: [template, defines, files]
    valid,   \* projects the last validate built: [name, tarball]
    left     \* what is left of MaxCommands

work == <<cmd, source, crate, turn, values, next, files>>
world == <<disk, made, shown, valid>>
vars == <<phase, why, work, world, left>>

Phases == {"idle", "fetch", "pick", "config", "fill", "render", "manage", "check", "write",
           "git", "record", "build", "failed"}

(* No text: no default, no condition, no reason. *)
None == ""

NoState == [form |-> "none"]
State(packs, applied) == [form |-> "state", packs |-> packs, applied |-> applied]

(* A map with one more entry, or another. *)
Put(there, key, item) ==
    [k \in DOMAIN there \cup {key} |-> IF k = key THEN item ELSE there[k]]

(* What a filter over a list keeps. *)
Kept(list, wanted) ==
    FoldLeft(LAMBDA kept, e : IF e \in wanted THEN Append(kept, e) ELSE kept, <<>>, list)

-----------------------------------------------------------------------------
(* The constants' shapes. *)

Placeholder ==
    [name : STRING, kebab : BOOLEAN, type : {"string", "bool", "select"}, default : STRING,
     from : {"none", "list", "category", "unknown"}, options : SUBSET (STRING \ {None})]

IsContent(is) ==
    \/ is \in [form : {"text", "bad"}]
    \/ is \in [form : {"state"}, packs : Seq(UsedPack), applied : SUBSET STRING]
    \/ IsManifest(is)

IsBody(body) ==
    /\ body \in [when : STRING, uses : SUBSET STRING, is : {body.is}]
    /\ IsContent(body.is)

IsTemplate(template) ==
    /\ template \in [dir : BOOLEAN, config : BOOLEAN, ignore : SUBSET STRING,
                     placeholders : Seq(Placeholder), includes : Seq(Range(template.includes)),
                     files : Seq(Range(template.files))]
    /\ \A inc \in Range(template.includes) :
          /\ inc \in [there : BOOLEAN, dest : Seq(STRING), body : {inc.body}]
          /\ IsBody(inc.body)
    /\ \A f \in Range(template.files) :
          /\ f \in [path : Seq([text : STRING, var : STRING]), body : {f.body}]
          /\ IsBody(f.body)

IsCommand(c) ==
    c \in [kind : {"new", "show", "validate"}, template : STRING, defines : {c.defines},
           interactive : BOOLEAN, path : BOOLEAN]

(* The list of names has every template; validate takes no defines
   (validate passes an empty map); no option is the empty string,
   which stands for "no default". *)
ASSUME TemplateAssumption ==
    /\ TemplateNames \in Seq(STRING) /\ MaxCommands \in Nat
    /\ \A c \in Crates : \A t \in DOMAIN c : IsTemplate(c[t])
    /\ \A c \in Commands : IsCommand(c) /\ (c.kind = "validate" => c.defines = <<>>)
    /\ \A p \in DOMAIN Registry : PackOK(Registry[p])

-----------------------------------------------------------------------------
(* Placeholders. *)

Def(i) == crate[turn.name].placeholders[i]

Defined == {Def(i).name : i \in DOMAIN crate[turn.name].placeholders}

Fallback(def) == IF def.default = None THEN "<" \o def.name \o ">" ELSE def.default

(* Mutant: the defaults go before the defines. *)
PreviewDefinesLast(template, defines) ==
    LET defs == template.placeholders
        names == {defs[i].name : i \in DOMAIN defs}
    IN [n \in DOMAIN defines \cup names |->
           IF n \in names THEN Fallback(defs[CHOOSE i \in DOMAIN defs : defs[i].name = n])
           ELSE defines[n]]

(* preview defines every placeholder that -d does not. *)
PreviewDefines(template, defines) ==
    LET defs == template.placeholders
        names == {defs[i].name : i \in DOMAIN defs}
    IN [n \in DOMAIN defines \cup names |->
           IF n \in DOMAIN defines THEN defines[n]
           ELSE Fallback(defs[CHOOSE i \in DOMAIN defs : defs[i].name = n])]

(* Mutant: validate builds what it previewed. *)
PreviewsBuilt == turn.stage \in {"show", "probe", "build"}

Previews == turn.stage \in {"show", "probe"}

Given == IF Previews THEN PreviewDefines(crate[turn.name], cmd.defines) ELSE cmd.defines

Asks == turn.stage = "new" /\ cmd.interactive

Error(what) == [kind |-> "error", value |-> what]
Value(v) == [kind |-> "value", value |-> v]

(* A value nobody is asked for: a define, or the default. *)
Silent(def, given) ==
    CASE def.kebab -> Error("name")
      [] ~def.kebab /\ def.name \in DOMAIN given -> Value(given[def.name])
      [] ~def.kebab /\ def.name \notin DOMAIN given /\ def.type = "bool" ->
            Value(IF def.default = None THEN "false" ELSE def.default)
      [] ~def.kebab /\ def.name \notin DOMAIN given /\ def.type = "string" ->
            IF def.default = None THEN Error("default") ELSE Value(def.default)
      [] OTHER ->
            IF def.default \in def.options THEN Value(def.default) ELSE Error("options")

(* What the prompt for a placeholder may return. *)
Answers(def) ==
    CASE def.type = "bool" -> {"true", "false"}
      [] def.type = "select" -> def.options
      [] OTHER -> Typed

Truthy(value) == value \notin {"false", ""}

(* MiniJinja prints an undefined variable as nothing. *)
ValueOf(vals, name) == IF name \in DOMAIN vals THEN vals[name] ELSE ""

-----------------------------------------------------------------------------
(* Rendering. *)

Ignored(template, path) == \E i \in DOMAIN path : path[i].text \in template.ignore

IsConfig(path) == Len(path) = 1 /\ path[1].text = "bp-template.toml"

RenderedPath(path, vals) ==
    LET plain == [i \in DOMAIN path |->
                     IF path[i].var = None THEN path[i].text ELSE ValueOf(vals, path[i].var)]
    IN [i \in DOMAIN plain |->
           IF plain[i] = "_Cargo.toml" /\ ~(Len(plain) > 1 /\ plain[1] = "templates")
           THEN "Cargo.toml" ELSE plain[i]]

Content(body, vals) == [is |-> body.is, text |-> [n \in body.uses |-> ValueOf(vals, n)]]

Blank(body, vals) == body.when # None /\ ~Truthy(ValueOf(vals, body.when))

File(path, body, vals) ==
    [path |-> path, blank |-> Blank(body, vals), content |-> Content(body, vals)]

Walked(template, vals) ==
    LET kept == Kept(template.files,
                     {f \in Range(template.files) : ~Ignored(template, f.path) /\ ~IsConfig(f.path)})
    IN [i \in DOMAIN kept |-> File(RenderedPath(kept[i].path, vals), kept[i].body, vals)]

(* An include does not replace a file of the template. *)
WithIncludes(walked, includes, vals) ==
    FoldLeft(LAMBDA done, inc :
                IF \E i \in DOMAIN done : done[i].path = inc.dest THEN done
                ELSE Append(done, File(inc.dest, inc.body, vals)),
             walked, includes)

Included(template, vals) == WithIncludes(Walked(template, vals), template.includes, vals)

(* A file or an include that is missing, or a template that does not parse. *)
Unrenderable(template) ==
    \/ \E i \in DOMAIN template.includes :
          ~template.includes[i].there \/ template.includes[i].body.is.form = "bad"
    \/ \E i \in DOMAIN template.files :
          /\ template.files[i].body.is.form = "bad"
          /\ ~Ignored(template, template.files[i].path) /\ ~IsConfig(template.files[i].path)

(* Files that render to nothing are dropped, blank ones of an include too. *)
Shown(all) ==
    LET kept == Kept(all, {f \in Range(all) : ~f.blank})
    IN [i \in DOMAIN kept |-> [path |-> kept[i].path, content |-> kept[i].content]]

RenderAll(template, vals) == Shown(Included(template, vals))

Named(path, name) == path # <<>> /\ Last(path) = name

(* The battery-pack.toml next to a manifest. *)
StateFor(rendered, path) ==
    LET beside == {i \in DOMAIN rendered : rendered[i].path = Append(Front(path), "battery-pack.toml")}
    IN IF beside = {} THEN NoState ELSE rendered[Max(beside)].content.is

(* One manifest; a failure leaves it, markers and all. *)
ManageFile(rendered, i, registry) ==
    LET result == ResolveManaged(rendered[i].content.is, StateFor(rendered, rendered[i].path), registry)
    IN IF Named(rendered[i].path, "Cargo.toml") /\ rendered[i].content.is.form = "manifest" /\ result.ok
       THEN [rendered EXCEPT ![i].content.is = result.content]
       ELSE rendered

-----------------------------------------------------------------------------
(* The course of a command. *)

Fails(reason) == phase' = "failed" /\ why' = reason

Goes(to) == phase' = to /\ why' = why

Nowhere == [name |-> None, stage |-> None]

Init ==
    /\ phase = "idle" /\ why = None
    /\ cmd = [kind |-> None, template |-> None, defines |-> <<>>, interactive |-> FALSE, path |-> FALSE]
    /\ source \in Crates /\ crate = source /\ turn = Nowhere /\ values = <<>> /\ next = 1 /\ files = <<>>
    /\ disk = <<>> /\ made = FALSE
    /\ shown = <<>> /\ valid = {}
    /\ left = MaxCommands

Resting == phase \in {"idle", "failed"}

Begins(c) ==
    /\ Resting /\ left > 0 /\ left' = left - 1
    /\ phase' = "fetch" /\ why' = None
    /\ cmd' = c /\ turn' = Nowhere /\ values' = <<>> /\ next' = 1 /\ files' = <<>>
    /\ valid' = IF c.kind = "validate" THEN {} ELSE valid
    /\ UNCHANGED <<source, crate, disk, made, shown>>

(* `cargo package` leaves out a directory with a Cargo.toml of its own. *)
Packaged ==
    [t \in DOMAIN source |->
        [source[t] EXCEPT !.dir = \A i \in DOMAIN source[t].files :
            source[t].files[i].path # <<[text |-> "Cargo.toml", var |-> None]>>]]

(* resolve_crate_dir: --path, or a download. validate packages the crate at
   hand; it falls back to the source while a dependency is not published. *)
Fetch ==
    /\ phase = "fetch"
    /\ \/ Goes("pick") /\ crate' = IF cmd.path /\ cmd.kind # "validate" THEN source ELSE Packaged
       \/ Goes("pick") /\ cmd.kind = "validate" /\ crate' = source
       \/ (cmd.kind = "validate" \/ ~cmd.path) /\ Fails("fetch") /\ crate' = crate
    /\ UNCHANGED <<cmd, source, turn, values, next, files, world, left>>

Order == Kept(TemplateNames, DOMAIN source)

(* resolve_template. A single template, then one named default, is taken
   without asking. *)
Selectable ==
    CASE cmd.template # None -> {cmd.template} \cap DOMAIN crate
      [] cmd.template = None /\ Len(Order) = 1 -> {Order[1]}
      [] cmd.template = None /\ Len(Order) # 1 /\ "default" \in DOMAIN crate -> {"default"}
      [] OTHER -> IF cmd.interactive THEN DOMAIN crate ELSE {}

(* Mutant: the values of the last template stay. *)
TakesStale(name, stage) ==
    /\ turn' = [name |-> name, stage |-> stage]
    /\ values' = values /\ next' = 1 /\ files' = <<>>

Takes(name, stage) ==
    /\ turn' = [name |-> name, stage |-> stage]
    /\ values' = <<>> /\ next' = 1 /\ files' = <<>>

Pick ==
    /\ phase = "pick"
    /\ \/ \E t \in Selectable : cmd.kind # "validate" /\ Takes(t, cmd.kind) /\ Goes("config")
       \/ cmd.kind # "validate" /\ Selectable = {} /\ Fails("template")
             /\ UNCHANGED <<turn, values, next, files>>
       \/ cmd.kind = "validate" /\ Order # <<>> /\ Takes(Order[1], "probe") /\ Goes("config")
       \/ cmd.kind = "validate" /\ Order = <<>> /\ Goes("idle")
             /\ UNCHANGED <<turn, values, next, files>>
    /\ UNCHANGED <<cmd, source, crate, world, left>>

Mine == crate[turn.name]

(* load_config and resolve_option_sources. *)
Config ==
    /\ phase = "config"
    /\ IF /\ Mine.dir /\ Mine.config
          /\ \A i \in DOMAIN Mine.placeholders : Def(i).from # "unknown"
       THEN Goes("fill") ELSE Fails("config")
    /\ UNCHANGED <<work, world, left>>

Optionless(def) == def.type = "select" /\ def.options = {}

Prompted(def) == Asks /\ ~def.kebab /\ def.name \notin DOMAIN Given /\ ~Optionless(def)

Fill ==
    /\ phase = "fill" /\ next <= Len(Mine.placeholders) /\ ~Prompted(Def(next))
    /\ LET result == Silent(Def(next), Given)
       IN IF result.kind = "error"
          THEN Fails("placeholder") /\ UNCHANGED <<values, next>>
          ELSE Goes("fill") /\ next' = next + 1 /\ values' = Put(values, Def(next).name, result.value)
    /\ UNCHANGED <<cmd, source, crate, turn, files, world, left>>

Answer ==
    /\ phase = "fill" /\ next <= Len(Mine.placeholders) /\ Prompted(Def(next))
    /\ \E v \in Answers(Def(next)) : values' = Put(values, Def(next).name, v)
    /\ Goes("fill") /\ next' = next + 1
    /\ UNCHANGED <<cmd, source, crate, turn, files, world, left>>

Filled ==
    /\ phase = "fill" /\ next > Len(Mine.placeholders)
    /\ Goes("render") /\ next' = 1
    /\ UNCHANGED <<cmd, source, crate, turn, values, files, world, left>>

(* RenderAll; with the files bound first, TLC renders them once. *)
Render ==
    /\ phase = "render"
    /\ IF Unrenderable(Mine) THEN Fails("render") /\ files' = files
       ELSE Goes("manage") /\ \E all \in {Included(Mine, values)} : files' = Shown(all)
    /\ UNCHANGED <<cmd, source, crate, turn, values, next, world, left>>

(* Mutant: a registry that is down is tried again. *)
ManageRetrying ==
    /\ phase = "manage" /\ next <= Len(files)
    /\ \/ files' = ManageFile(files, next, Registry) /\ next' = next + 1 /\ Goes("manage")
       \/ files' = <<>> /\ next' = 1 /\ Goes("render")
    /\ UNCHANGED <<cmd, source, crate, turn, values, world, left>>

(* Each manifest is resolved on its own, from what the registry gives then. *)
Manage ==
    /\ phase = "manage" /\ next <= Len(files)
    /\ \E registry \in {Registry, <<>>} : files' = ManageFile(files, next, registry)
    /\ Goes("manage") /\ next' = next + 1
    /\ UNCHANGED <<cmd, source, crate, turn, values, world, left>>

IsProject == \E i \in DOMAIN files : files[i].path = <<"Cargo.toml">>

(* validate goes on to the next template, or is done. *)
Following == 1 + Max({i \in DOMAIN Order : Order[i] = turn.name})

GoesOn ==
    IF Following > Len(Order)
    THEN Goes("idle") /\ UNCHANGED <<turn, values, next, files>>
    ELSE Goes("config") /\ Takes(Order[Following], "probe")

(* What the rendered files are for. A scaffold that is no project is not
   built. *)
Rendered ==
    /\ phase = "manage" /\ next > Len(files)
    /\ \/ turn.stage = "show" /\ Goes("idle")
             /\ shown' = [template |-> turn.name, defines |-> cmd.defines, files |-> files]
             /\ UNCHANGED <<turn, values, next, files>>
       \/ turn.stage = "new" /\ Goes("check") /\ next' = 1
             /\ UNCHANGED <<turn, values, files, shown>>
       \/ turn.stage = "probe" /\ IsProject /\ Goes("config") /\ Takes(turn.name, "build")
             /\ UNCHANGED shown
       \/ turn.stage = "probe" /\ ~IsProject /\ GoesOn /\ UNCHANGED shown
       \/ turn.stage = "build" /\ Goes("build") /\ UNCHANGED <<turn, values, next, files, shown>>
    /\ UNCHANGED <<cmd, source, crate, disk, made, valid, left>>

(* Cargo refuses a dependency without a version. *)
Buildable ==
    \A i \in DOMAIN files :
        Named(files[i].path, "Cargo.toml") /\ files[i].content.is.form = "manifest"
            => Marked(files[i].content.is) = {}

(* cargo check, test and fmt in a temporary directory. *)
Build ==
    /\ phase = "build"
    /\ \/ Buildable /\ GoesOn
             /\ valid' = valid \cup {[name |-> turn.name, tarball |-> crate # source]}
       \/ Fails("build") /\ UNCHANGED <<turn, values, next, files, valid>>
    /\ UNCHANGED <<cmd, source, crate, disk, made, shown, left>>

-----------------------------------------------------------------------------
(* Writing the project. *)

(* Mutant: the directory may be there. *)
CheckNone ==
    /\ phase = "check" /\ Goes("write")
    /\ UNCHANGED <<work, world, left>>

Check ==
    /\ phase = "check"
    /\ IF made THEN Fails("exists") ELSE Goes("write")
    /\ UNCHANGED <<work, world, left>>

Write ==
    /\ phase = "write" /\ next <= Len(files)
    /\ disk' = Put(disk, files[next].path, files[next].content)
    /\ made' = TRUE /\ next' = next + 1
    /\ Goes("write")
    /\ UNCHANGED <<cmd, source, crate, turn, values, files, shown, valid, left>>

(* Mutant: a project is done before its last files are. *)
WrittenEarly ==
    /\ phase = "write" /\ made
    /\ Goes("git")
    /\ UNCHANGED <<work, world, left>>

Written ==
    /\ phase = "write" /\ next > Len(files)
    /\ Goes("git")
    /\ UNCHANGED <<work, world, left>>

(* git init, git add: without a single file there is no directory to run in. *)
GitInit ==
    /\ phase = "git"
    /\ \/ made /\ Goes("record")
       \/ Fails("git")
    /\ UNCHANGED <<work, world, left>>

StatePath == <<"battery-pack.toml">>

(* record_applied_template. *)
Recorded(state) ==
    IF \E i \in DOMAIN state.packs : FullName(state.packs[i].name) = OwnPack
    THEN State(state.packs, state.applied \cup {turn.name})
    ELSE State(Append(state.packs, [name |-> ShortName[OwnPack], feats |-> {"default"}, keyed |-> TRUE]),
               state.applied \cup {turn.name})

(* A state file that cannot be read, and a project without a Cargo.toml, are
   left alone. *)
Record ==
    /\ phase = "record" /\ Goes("idle")
    /\ disk' = CASE <<"Cargo.toml">> \notin DOMAIN disk -> disk
                 [] <<"Cargo.toml">> \in DOMAIN disk /\ StatePath \notin DOMAIN disk ->
                       Put(disk, StatePath, [is |-> Recorded(State(<<>>, {})), text |-> <<>>])
                 [] OTHER ->
                       IF disk[StatePath].is.form = "state"
                       THEN [disk EXCEPT ![StatePath].is = Recorded(disk[StatePath].is)] ELSE disk
    /\ UNCHANGED <<work, made, shown, valid, left>>

(* The command is killed or cancelled, a write fails. *)
Dies ==
    /\ ~Resting /\ Fails("killed")
    /\ UNCHANGED <<work, world, left>>

(* The user, while no command runs or one waits for him. *)
UserMakes ==
    /\ Resting \/ (phase = "fill" /\ Asks)
    /\ ~made /\ made' = TRUE /\ disk' = Foreign
    /\ UNCHANGED <<phase, why, work, shown, valid, left>>

UserRemoves ==
    /\ Resting /\ made /\ made' = FALSE /\ disk' = <<>>
    /\ UNCHANGED <<phase, why, work, shown, valid, left>>

Works ==
    \/ Fetch \/ Pick \/ Config \/ Fill \/ Filled \/ Render \/ Manage \/ Rendered \/ Build
    \/ Check \/ Write \/ Written \/ GitInit \/ Record

Next ==
    \/ Works \/ Answer \/ Dies \/ UserMakes \/ UserRemoves
    \/ \E c \in Commands : Begins(c)

(* A running command goes on; nothing makes the user answer. *)
Spec == Init /\ [][Next]_vars /\ WF_vars(Works)

===============================================================================
