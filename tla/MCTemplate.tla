------------------------------ MODULE MCTemplate ------------------------------
(***************************************************************************)
(* A pack with a template for a project, one for a workflow and some that  *)
(* are broken, and a second pack on the registry.                          *)
(***************************************************************************)
EXTENDS TemplateSafety

MCCrateFeatures == {"derive", "env"}
MCBeforeDefault == {}
MCShortName == "ci-battery-pack" :> "ci" @@ "cli-battery-pack" :> "cli"

CrateOf(ver, feats) ==
    [ver |-> ver, req |-> FALSE, feats |-> feats, kind |-> "normal", optional |-> FALSE]

PackOf(ver, crates) ==
    [ver |-> ver, spec |-> [crates |-> crates, features |-> <<>>, hidden |-> {}, exclusive |-> {}]]

MCWorkspace == "ci-battery-pack" :> PackOf(7, "clap" :> CrateOf(3, {}) @@ "serde" :> CrateOf(1, {"derive"}))
MCRegistry == "cli-battery-pack" :> PackOf(5, "clap" :> CrateOf(4, {"env"}))

-----------------------------------------------------------------------------

Lit(text) == [text |-> text, var |-> ""]
Var(name) == [text |-> "var", var |-> name]

Body(when, uses, is) == [when |-> when, uses |-> uses, is |-> is]
Opaque == [form |-> "text"]
Bad == [form |-> "bad"]

Managed1(name, feats, explicit) ==
    [mark |-> "true", crate |-> name, form |-> "none", ver |-> 0, feats |-> feats,
     explicit |-> explicit, extra |-> explicit]
Fixed == [mark |-> "absent", crate |-> "clap", form |-> "version", ver |-> 1, feats |-> {},
          explicit |-> FALSE, extra |-> TRUE]

Use(name, keyed) == [name |-> name, feats |-> {}, keyed |-> keyed]

Manifest(deps, packs) == [form |-> "manifest", deps |-> deps, packs |-> packs]

TheManifest ==
    Manifest("dependencies" :> ("clap" :> Managed1("clap", {}, FALSE) @@ "old" :> Fixed)
             @@ "build-dependencies" :> ("ci" :> Managed1("ci-battery-pack", {}, FALSE))
             @@ "unix" :> ("json" :> Managed1("serde", {"env"}, TRUE)),
             <<Use("ci-battery-pack", FALSE)>>)

Malformed == Manifest("dependencies" :> ("clap" :> [Managed1("clap", {}, FALSE) EXCEPT !.mark = "other"]), <<>>)
Unknown == Manifest("dependencies" :> ("rand" :> Managed1("rand", {}, FALSE)), <<>>)

F(path, body) == [path |-> path, body |-> body]
P(name, type, default, from, options) ==
    [name |-> name, kebab |-> FALSE, type |-> type, default |-> default, from |-> from, options |-> options]

Level == P("level", "string", "warn", "none", {})
Flag == P("flag", "bool", "", "none", {})
Host == P("host", "select", "gh", "list", {"gh", "lab"})
Org == P("org", "string", "", "none", {})

Project(state) ==
    [dir |-> TRUE, config |-> TRUE, ignore |-> {"hooks"}, placeholders |-> <<Host, Level>>,
     includes |-> <<[there |-> TRUE, dest |-> <<"LICENSE">>, body |-> Body("", {}, Opaque)],
                    [there |-> TRUE, dest |-> <<"Cargo.toml">>, body |-> Body("", {}, Opaque)]>>,
     files |-> <<F(<<Lit("bp-template.toml")>>, Body("", {}, Opaque)),
                 F(<<Lit("_Cargo.toml")>>, Body("", {"level"}, TheManifest)),
                 F(<<Lit("hooks"), Lit("x")>>, Body("", {}, Bad)),
                 F(<<Lit("templates"), Lit("_Cargo.toml")>>, Body("", {}, Unknown))>> \o state]

StateFile(packs) == <<F(<<Lit("battery-pack.toml")>>, Body("", {}, State(packs, {})))>>

Workflow ==
    [dir |-> TRUE, config |-> TRUE, ignore |-> {}, placeholders |-> <<Flag, Host>>, includes |-> <<>>,
     files |-> <<F(<<Lit("ci"), Var("host")>>, Body("flag", {"host"}, Opaque))>>]

With(template, placeholders) == [template EXCEPT !.placeholders = placeholders]

MCTemplateNames == <<"default", "flow", "none", "org">>

(* A project without bp-managed rows. *)
Small ==
    [With(Workflow, <<Level>>) EXCEPT !.files =
        <<F(<<Lit("_Cargo.toml")>>, Body("", {}, Manifest("dependencies" :> ("old" :> Fixed), <<>>)))>>]

MCCrates ==
    {"default" :> Project(StateFile(<<Use("cli", TRUE), Use("ci", FALSE)>>)) @@ "flow" :> Workflow,
     "flow" :> With(Workflow, <<Flag, Host, Org>>) @@ "org" :> With(Project(<<>>), <<Level, Org>>),
     "default" :> Project(StateFile(<<Use("cli", FALSE)>>))
        @@ "none" :> [Workflow EXCEPT !.includes =
               <<[there |-> FALSE, dest |-> <<"x">>, body |-> Body("", {}, Opaque)]>>],
     "none" :> With(Workflow, <<P("x", "select", "", "unknown", {})>>),
     "default" :> Small
        @@ "org" :> [Project(<<>>) EXCEPT !.files = <<F(<<Lit("Cargo.toml")>>, Body("", {}, Malformed))>>,
                                          !.placeholders = <<Level, [Flag EXCEPT !.kebab = TRUE]>>],
     <<>>}

OneCrate == {"default" :> Project(StateFile(<<Use("cli", TRUE), Use("ci", FALSE)>>))}

Command(kind, template, defines, interactive, path) ==
    [kind |-> kind, template |-> template, defines |-> defines, interactive |-> interactive, path |-> path]

MCCommands ==
    {Command("validate", "", <<>>, FALSE, TRUE)}
        \cup {Command("new", "", <<>>, i, p) : i, p \in BOOLEAN}
        \cup {Command("new", t, d, FALSE, FALSE) : t \in {"flow", "org"}, d \in {<<>>, "flag" :> "true"}}
        \cup {Command("show", t, d, FALSE, TRUE) : t \in {"flow", "default", "gone"},
                 d \in {"level" :> "deny", "flag" :> "true"}}

MCTyped == {"me"}
MCForeign == <<"LICENSE">> :> [is |-> Opaque, text |-> "mine" :> "mine"]

===============================================================================
