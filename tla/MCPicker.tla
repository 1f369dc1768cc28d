------------------------------ MODULE MCPicker ------------------------------
(***************************************************************************)
(* Four lists: a checkbox and a radio section; a radio section that starts *)
(* with a conflict; collapsed and empty sections in between; templates.    *)
(***************************************************************************)
EXTENDS PickerSafety

Section(radio, collapsed, rows) == [radio |-> radio, collapsed |-> collapsed, rows |-> rows]

Off == [checked |-> FALSE, template |-> FALSE]
On == [checked |-> TRUE, template |-> FALSE]
Template == [checked |-> FALSE, template |-> TRUE]

MCInputs ==
    {<<Section(FALSE, FALSE, <<Off, On, Off>>), Section(TRUE, FALSE, <<Off, Off>>)>>,
     <<Section(TRUE, TRUE, <<On, On>>), Section(FALSE, FALSE, <<>>),
       Section(FALSE, FALSE, <<Template>>)>>,
     <<Section(FALSE, TRUE, <<>>), Section(TRUE, FALSE, <<Off, Template>>),
       Section(FALSE, TRUE, <<On>>)>>,
     <<Section(FALSE, TRUE, <<Off, Off>>), Section(TRUE, TRUE, <<On>>)>>}

MCHeights == {3, 4, 5, 6}
=============================================================================
