------------------------------- MODULE MCThreads -------------------------------
(***************************************************************************)
(* Three actions: one whose major tag moves on and a later version that is *)
(* older than one listed, one with tags that are no versions or only a     *)
(* branch, and one that does not exist; calls that the search finds, one   *)
(* it does not (with a subpath), and one used twice.  Files longer than    *)
(* both pipes.                                                             *)
(***************************************************************************)
EXTENDS ThreadsSafety

MCPairs == {<<"checkout", "v4">>, <<"rust", "stable">>, <<"gone", "v1">>}

MCTag(name, sha, version) == [name |-> name, sha |-> sha, version |-> version]

MCRemotes ==
    [p \in MCPairs |->
        CASE p[1] = "checkout" ->
                <<[tags |-> <<MCTag("v4.2.0", "c2", 42), MCTag("v4", "c2", 0), MCTag("v4.1.9", "c1", 41)>>,
                   ref |-> "c2"],
                  [tags |-> <<MCTag("v4.2.0", "c2", 42), MCTag("v4", "c3", 0), MCTag("v4.3.0", "c3", 43)>>,
                   ref |-> "c3"]>>
          [] p[1] = "rust" ->
                <<[tags |-> <<>>, ref |-> "r1"],
                  [tags |-> <<MCTag("stable-old", "r0", 0), MCTag("stable", "r2", 0)>>, ref |-> "r1"]>>
          [] OTHER -> <<[tags |-> <<>>, ref |-> ""]>>]

MCRenders ==
    {[scanned |-> MCPairs \ {<<"rust", "stable">>},
      uses |-> <<<<"checkout", "v4">>, <<"rust", "stable">>, <<"checkout", "v4">>>>],
     [scanned |-> {<<"checkout", "v4">>, <<"rust", "stable">>},
      uses |-> <<<<"rust", "stable">>, <<"gone", "v1">>>>]}
=============================================================================
