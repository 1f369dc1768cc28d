------------------------------- MODULE MCLint -------------------------------
(***************************************************************************)
(* A pack with two TLS features, sometimes both in `default`, a feature    *)
(* that brings both, a template, a base crate and a hidden one, and a      *)
(* feature of its crate's name.                                            *)
(***************************************************************************)
EXTENDS LintSafety

Crate(optional) == [ver |-> 1, req |-> FALSE, feats |-> {}, kind |-> "normal", optional |-> optional]
Ref1(form, name) == [form |-> form, name |-> name, feature |-> ""]

MCDeclared == {<<"tls", TRUE>>, <<"misc", FALSE>>}
MCDescribed ==
    {<<"feature", "rustls">>, <<"feature", "native">>, <<"crate", "log">>, <<"template", "log">>}
MCLabels == {{"tls"}, {"tls", "misc"}}
MCProjects == {{}, {"ring", "log"}}
MCBeforeDefault == {"both"}
MCCrateFeatures == {}

Defaults ==
    <<{Ref1("feature", "rustls")}, {Ref1("feature", "rustls"), Ref1("feature", "native")},
      {Ref1("feature", "both")}, {Ref1("dep", "ring")}>>

Features(default) ==
    [default |-> default,
     rustls |-> {Ref1("dep", "ring")},
     native |-> {Ref1("dep", "openssl")}]

Nested(default) ==
    [default |-> default,
     rustls |-> {Ref1("dep", "ring")},
     native |-> {Ref1("dep", "ring")},
     both |-> {Ref1("feature", "rustls"), Ref1("feature", "native")}]

(* A feature of its crate's name, as cargo makes them. *)
Named ==
    [default |-> {Ref1("feature", "ring")},
     ring |-> {Ref1("dep", "ring")},
     native |-> {Ref1("dep", "openssl")}]

Base ==
    [crates |-> [ring |-> Crate(TRUE), openssl |-> Crate(TRUE), log |-> Crate(FALSE)],
     features |-> Features({Ref1("feature", "rustls")}),
     hidden |-> {}, categories |-> <<>>, featureMeta |-> <<>>, depMeta |-> <<>>,
     templates |-> [log |-> {}], repository |-> TRUE, misnamed |-> FALSE,
     extraFiles |-> FALSE, libCode |-> FALSE, astray |-> {}]

MCManifests ==
    {[Base EXCEPT !.features = Features(Defaults[1])],
     [Base EXCEPT !.features = Features(Defaults[2])],
     [Base EXCEPT !.features = Nested(Defaults[3])],
     [Base EXCEPT !.features = Features(Defaults[4]), !.hidden = {"ring"}, !.libCode = TRUE],
     [Base EXCEPT !.features = Named],
     [Base EXCEPT !.misnamed = TRUE, !.extraFiles = TRUE, !.astray = {"log"}]}
=============================================================================
