------------------------------- MODULE MCMerge --------------------------------
(***************************************************************************)
(* A template with a manifest, a workflow and two other files, and projects *)
(* that have some of them.                                                 *)
(***************************************************************************)
EXTENDS MergeSafety, TLC

MCCrates == {"clap"}
MCCrateFeatures == {"derive", "env"}
MCDeepKeys == {"jobs", "on"}

MCStrategy ==
    "Cargo.toml" :> "toml" @@ "ci.yml" :> "yaml" @@ "deny.txt" :> "plain" @@ "main.rs" :> "plain"

NoDeps == [s \in Sections |-> [c \in MCCrates |-> Absent]]
Deps(section, row) == [NoDeps EXCEPT ![section]["clap"] = row]

Name == <<"package", "name">>
Lint == <<"lints", "rust", "unsafe">>
Lints == <<"lints", "rust">>

Req(ver) == [Row("version", ver, {}) EXCEPT !.req = TRUE]
Both(deps, dev) == [Deps("dependencies", deps) EXCEPT !["dev-dependencies"]["clap"] = dev]

TemplateToml ==
    Toml(Both(Row("version", 4, {"derive"}), Req(2)),
         Name :> "rendered" @@ Lint :> "forbid" @@ <<"profile", "lto">> :> "true")

UserToml ==
    Toml(Both([Row("version", 3, {"env"}) EXCEPT !.extra = TRUE], Row("version", 3, {})),
         Name :> "mine" @@ <<"lints", "rust", "dead">> :> "warn")

FlatToml == Toml(Deps("dependencies", Row("workspace", 0, {})), Name :> "mine" @@ Lints :> "inline")

TemplateYaml ==
    Yaml(<<<<"on", "push">> :> "main" @@ <<"jobs", "test", "runs">> :> "cargo test"
           @@ <<"jobs", "lint", "runs">> :> "clippy" @@ <<"env", "COLOR">> :> "always">>, FALSE)

UserYaml ==
    Yaml(<<<<"on", "push">> :> "trunk" @@ <<"jobs", "test", "needs">> :> "setup"
           @@ <<"env", "TOKEN">> :> "x">>, FALSE)

(* Keys without a value and with an empty map, some where no key is added. *)
EmptyYaml ==
    Yaml(<<<<"on">> :> EmptyMap @@ <<"jobs">> :> Null @@ <<"env">> :> Null>>, FALSE)

MCRendered ==
    <<[path |-> "Cargo.toml", content |-> TemplateToml],
      [path |-> "ci.yml", content |-> TemplateYaml],
      [path |-> "deny.txt", content |-> Plain("rendered")],
      [path |-> "main.rs", content |-> Plain("rendered")]>>

Files(toml, yaml, deny, main) ==
    "Cargo.toml" :> toml @@ "ci.yml" :> yaml @@ "deny.txt" :> deny @@ "main.rs" :> main

MCProjects ==
    {Files(UserToml, UserYaml, Plain("mine"), Plain("mine")),
     Files(FlatToml, NoFile, Binary, NoFile),
     Files(UserToml, Broken, NoFile, Plain("mine")),
     Files(NoFile, Yaml(<<>>, FALSE), Plain("mine"), NoFile),
     Files(Binary, EmptyYaml, Plain("mine"), Plain("rendered"))}

MCEdits ==
    {[path |-> "Cargo.toml", content |-> FlatToml],
     [path |-> "main.rs", content |-> Plain("edited")]}

MCEditorSaves == {Broken, FlatToml}
NoEdits == {}

===============================================================================
