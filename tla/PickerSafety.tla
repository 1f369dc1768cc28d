---------------------------- MODULE PickerSafety ----------------------------
(***************************************************************************)
(* What must hold of the list while it is shown, and that it keeps the     *)
(* contract of module PickerContract.                                      *)
(***************************************************************************)
EXTENDS Picker

(* Shapes; the entries keep the layout they were built with. *)
TypeOK ==
    /\ given \in Inputs
    /\ entries \in Seq(Entry)
    /\ DOMAIN entries = DOMAIN Flattened(given)
    /\ \A i \in Indices : /\ entries[i].header = Flattened(given)[i].header
                          /\ entries[i].radio = Flattened(given)[i].radio
    /\ visible \subseteq Indices
    /\ scroll \in Nat /\ height \in Nat
    /\ error \in BOOLEAN
    /\ phase \in {"draw", "key", "preview", "confirmed", "cancelled"}

(* The stops and the visible rows are never stale: whatever was collapsed and
   expanded, the cursor is on an entry the user sees, and a key acts on it. *)
FocusKept ==
    /\ visible = {i \in Indices : entries[i].header \/ ~entries[HeaderOf(i)].collapsed}
    /\ stops = StopsOf(entries, visible)
    /\ cursor \in stops

(* The line of the frame render_picker puts an entry on: it pushes a blank line
   before each header but the first. *)
RenderedLine(i) ==
    Cardinality({k \in 1 .. i - 1 : entries[k].header \/ k \in visible})
        + Cardinality({k \in 2 .. i : entries[k].header})

(* Once drawn on a terminal with room for the list, the entry under the cursor
   is on the screen, through scrolling, folding, banners and resizes. The block
   has a border at the top only, so it shows one line more than visible_height;
   that line is what makes up for entry_to_line, which places the header of a
   collapsed section one line too high. *)
CursorShown ==
    phase = "key" /\ height > 0 =>
        scroll <= RenderedLine(cursor) /\ RenderedLine(cursor) < scroll + height + 1

-----------------------------------------------------------------------------
(* The marks of the list, by section and row as the caller counts them. *)
Marked == {Coords[i] : i \in {j \in Indices : ~entries[j].header /\ entries[j].checked}}

Outcome ==
    CASE phase = "confirmed" -> [is |-> "confirmed", results |-> results]
      [] phase = "cancelled" -> [is |-> "cancelled", results |-> <<>>]
      [] OTHER -> [is |-> "open", results |-> <<>>]

Contract == INSTANCE PickerContract WITH marks <- Marked, outcome <- Outcome

(* tui.picker.*: whatever keys are pressed, marks change in one section at a
   time, a radio section never gains a second mark, and what is handed back are
   the marks, row for row, with empty and collapsed sections in their place. *)
KeepsContract == Contract!ContractSpec
=============================================================================
