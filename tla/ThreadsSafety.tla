----------------------------- MODULE ThreadsSafety -----------------------------
(***************************************************************************)
(* What the threads of a render owe it.                                    *)
(***************************************************************************)
EXTENDS Threads

(* An action is pinned to one commit for the life of the process, whatever
   is pushed meanwhile, however many templates call it and whether or not the
   search before rendering found the call; every call of a render says what
   the cache says.  A formatted file is whole (rustfmt_rust keeps the source
   when rustfmt fails). *)
OnePin ==
    [][/\ \A p \in DOMAIN cache : p \in DOMAIN cache' /\ cache'[p] = cache[p]
       /\ \A i \in DOMAIN out' :
             out'[i].pair \in DOMAIN cache' /\ out'[i].answer = cache'[out'[i].pair]
       /\ main = "wait" /\ main' = "idle" => Text = Chunks]_vars

(* A render that begins ends: no thread waits for another that waits for it,
   in particular rustfmt and the thread that feeds it, when both pipes are
   full ("a full stdout pipe can't deadlock the write"). *)
Finishes == (main # "idle") ~> (main = "idle")
=============================================================================
