--------------------------------- MODULE MCTui ---------------------------------
(***************************************************************************)
(* Two packs: one with an item of every kind and two names for one         *)
(* template directory, and one with nothing but the actions; lists that    *)
(* are empty or hold one or both; characters of one and of two bytes.      *)
(***************************************************************************)
EXTENDS TuiSafety

MCFull ==
    [name |-> "ci", crates |-> <<"c">>, extends |-> <<"base">>,
     templates |-> <<[name |-> "t", path |-> "d"], [name |-> "alias", path |-> "d"],
                     [name |-> "u", path |-> "e"]>>,
     examples |-> <<"x">>, from |-> ""]

MCBare ==
    [name |-> "bare", crates |-> <<>>, extends |-> <<>>, templates |-> <<>>,
     examples |-> <<>>, from |-> ""]

MCDetails == [n \in {"ci", "bare"} |-> IF n = "ci" THEN {MCFull} ELSE {MCBare}]

MCLists == {<<>>, <<"ci">>, <<"bare", "ci">>}

MCLaunch(kind, path, source, inProject) ==
    [kind |-> kind, pack |-> "ci", path |-> path, source |-> source,
     filter |-> IF kind = "list" THEN "c" ELSE "", inProject |-> inProject,
     installed |-> IF inProject THEN {"ci"} ELSE {}]

MCLaunches ==
    {MCLaunch("list", "", "registry", TRUE), MCLaunch("list", "", "local", FALSE),
     MCLaunch("show", "", "local", TRUE), MCLaunch("show", "here", "registry", TRUE),
     MCLaunch("preview", "here", "registry", FALSE)}

(* Longer than Wide, so the count wraps, and longer than Leap. *)
MCLengths == {0, 1, 6, 11}
MCCwd == <<"d">>
MCChars == {<<"a">>, <<"e", "'">>}
=============================================================================
