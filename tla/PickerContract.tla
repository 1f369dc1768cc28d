--------------------------- MODULE PickerContract ---------------------------
(***************************************************************************)
(* What sectioned-picker promises the program that opens it with a list of *)
(* sections: the user marks rows section by section, a radio section never *)
(* gains a second mark, and what is handed back is the marks, row for row  *)
(* in the order of the list, and only without a conflict.                  *)
(*                                                                         *)
(* A section is [radio, collapsed, rows], a row [checked, template].       *)
(***************************************************************************)
EXTENDS Naturals, Sequences, FiniteSets

CONSTANT Inputs  \* the lists of sections a picker is opened with

VARIABLES
    given,   \* the list
    marks,   \* the marked rows: pairs of a section and a row of it
    outcome  \* how the picker returned: [is, results]

contract == <<given, marks, outcome>>

Open == [is |-> "open", results |-> <<>>]
Cancelled == [is |-> "cancelled", results |-> <<>>]
Confirmed(results) == [is |-> "confirmed", results |-> results]

RowsOf(s) == {s} \X DOMAIN given[s].rows

NoConflict(m) ==
    \A s \in DOMAIN given : given[s].radio => Cardinality(m \cap RowsOf(s)) <= 1

Answer(m) ==
    [s \in DOMAIN given |-> [i \in DOMAIN given[s].rows |-> <<s, i>> \in m]]

Init ==
    /\ given \in Inputs
    /\ marks = UNION {{<<s, i>> : i \in {j \in DOMAIN given[s].rows : given[s].rows[j].checked}}
                         : s \in DOMAIN given}
    /\ outcome = Open

(* Marking touches one section, and leaves a radio section at most one mark. *)
Mark(s) ==
    /\ outcome = Open
    /\ \E chosen \in SUBSET RowsOf(s) :
          /\ given[s].radio => Cardinality(chosen) <= 1
          /\ marks' = (marks \ RowsOf(s)) \cup chosen
    /\ UNCHANGED <<given, outcome>>

(* Confirming with nothing marked may first mark one row of a checkbox section. *)
Confirm ==
    /\ outcome = Open
    /\ \/ marks' = marks
       \/ /\ marks = {}
          /\ \E s \in DOMAIN given : ~given[s].radio /\ \E row \in RowsOf(s) : marks' = {row}
    /\ NoConflict(marks')
    /\ outcome' = Confirmed(Answer(marks'))
    /\ UNCHANGED given

Cancel ==
    /\ outcome = Open
    /\ outcome' = Cancelled
    /\ UNCHANGED <<given, marks>>

Next == (\E s \in DOMAIN given : Mark(s)) \/ Confirm \/ Cancel

ContractSpec == Init /\ [][Next]_contract
=============================================================================
