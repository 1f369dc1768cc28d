------------------------------- MODULE Picker -------------------------------
(***************************************************************************)
(* sectioned-picker: the list `cargo bp add` shows. Sections are flattened *)
(* into one list of entries, headers and rows; the cursor moves between    *)
(* nav stops, a scroll offset follows it, keys change marks and collapse   *)
(* sections, and Enter hands the marks back per section.                   *)
(*                                                                         *)
(* The loop draws, then reads at most one key. nav_stops is kept as a set, *)
(* and the cursor as the entry it points at. Lines count from 0.           *)
(***************************************************************************)
EXTENDS Integers, SequencesExt

CONSTANTS
    Inputs,  \* the lists of sections a picker is opened with
    Heights  \* the heights the terminal may have, in rows

VARIABLES
    given,    \* the list of sections, which the caller keeps to decode the answer
    entries,  \* the flattened list
    visible,  \* entries that are not hidden by a collapsed section
    stops,    \* entries the cursor can be on
    cursor,   \* the entry it is on
    scroll,   \* the first line shown
    height,   \* visible_height of the last frame
    error,    \* is the error of a rejected confirm shown?
    phase,    \* "draw", "key", "preview", or how the loop ended
    results   \* what is handed back

vars == <<given, entries, visible, stops, cursor, scroll, height, error, phase, results>>

-----------------------------------------------------------------------------
(* PickerState::new *)

Entry == [header : BOOLEAN, radio : BOOLEAN, collapsed : BOOLEAN, checked : BOOLEAN]

HeaderEntry(section) ==
    [header |-> TRUE, radio |-> section.radio, collapsed |-> section.collapsed, checked |-> FALSE]

RowEntry(row) ==
    [header |-> FALSE, radio |-> FALSE, collapsed |-> FALSE, checked |-> row.checked]

Flattened(sections) ==
    FlattenSeq([s \in DOMAIN sections |->
        <<HeaderEntry(sections[s])>>
            \o [i \in DOMAIN sections[s].rows |-> RowEntry(sections[s].rows[i])]])

SectionItem == [checked : BOOLEAN, template : BOOLEAN]

Sections == [radio : BOOLEAN, collapsed : BOOLEAN, rows : Seq(SectionItem)]

ASSUME InputsAssumption ==
    \A sections \in Inputs :
        sections \in Seq(Sections) /\ \E s \in DOMAIN sections : sections[s].rows # <<>>

ASSUME HeightsAssumption == Heights \subseteq Nat

(* A header stands for the first row of its section. *)
Coords ==
    FlattenSeq([s \in DOMAIN given |->
        <<<<s, 1>>>> \o [i \in DOMAIN given[s].rows |-> <<s, i>>]])

Indices == DOMAIN entries

-----------------------------------------------------------------------------
(* section_bounds: the header at or before an entry, and the rows up to the
   next header. *)

HeaderOf(i) ==
    CHOOSE h \in 1 .. i : entries[h].header /\ \A k \in h + 1 .. i : ~entries[k].header

RowsUnder(h) == {i \in Indices : i > h /\ \A k \in h + 1 .. i : ~entries[k].header}

Current == HeaderOf(cursor)

OnRadio == entries[Current].radio

CheckedUnder(list, h) == {i \in RowsUnder(h) : list[i].checked}

(* radio_conflict_title *)
Conflict(list) == \E h \in Indices : list[h].radio /\ Cardinality(CheckedUnder(list, h)) > 1

(* Each entry of a section marked or not. *)
Marking(rows, checked) ==
    [i \in Indices |-> IF i \in rows THEN [entries[i] EXCEPT !.checked = i \in checked]
                       ELSE entries[i]]

-----------------------------------------------------------------------------
(* Navigation *)

StopsOf(list, shown) ==
    {i \in DOMAIN list : IF list[i].header THEN list[i].collapsed ELSE i \in shown}


(* Mutant: the entry, stop or not. *)
FocusExact(at, i) == i

(* focus_entry: the entry, else the nearest stop before it, else the first. *)
Focus(at, i) ==
    CASE i \in at -> i
      [] i \notin at /\ (\E j \in at : j <= i) -> Max({j \in at : j <= i})
      [] OTHER -> Min(at)

(* entry_to_line. A header's blank line is not yet counted for the header. *)
LineOf(list, shown, i) ==
    Cardinality({k \in 1 .. i - 1 : list[k].header \/ k \in shown})
        + Cardinality({k \in 2 .. i - 1 : list[k].header})

(* Mutant: scrolls down a line late. *)
EnsuredLate(list, shown, at, header, from, high) ==
    LET line == LineOf(list, shown, at)
        top == LineOf(list, shown, header)
        up == IF line >= from THEN from ELSE IF line - top < high THEN top ELSE line
    IN  IF high = 0 THEN from ELSE IF line > up + high THEN line - high + 1 ELSE up

(* Mutant: the cursor is always on the last line, which may not exist. *)
EnsuredBelow(list, shown, at, header, from, high) ==
    IF high = 0 THEN from ELSE LineOf(list, shown, at) - high + 1

(* ensure_cursor_visible, on the list and visibility as they are after a key:
   the header of the section comes into view with the cursor if both fit. *)
Ensured(list, shown, at, header, from, high) ==
    LET line == LineOf(list, shown, at)
        top == LineOf(list, shown, header)
        up == IF line >= from THEN from ELSE IF line - top < high THEN top ELSE line
    IN  IF high = 0 THEN from ELSE IF line >= up + high THEN line - high + 1 ELSE up

-----------------------------------------------------------------------------
(* The loop: draw, then poll for a key. *)

Banner == IF error \/ Conflict(entries) THEN 1 ELSE 0

(* One row goes to the footer, one to a banner, two are set aside. *)
Draw ==
    /\ phase \in {"draw", "key"}
    /\ \E rows \in Heights :
          LET left == rows - 1 - Banner - 2 IN
          /\ height' = IF left > 0 THEN left ELSE 0
          /\ scroll' = Ensured(entries, visible, cursor, Current, scroll, height')
    /\ phase' = "key"
    /\ UNCHANGED <<given, entries, visible, stops, cursor, error, results>>

(* Every key first clears the error, and all but a few lead back to drawing. *)
KeyPressed ==
    /\ phase = "key"
    /\ error' = FALSE
    /\ UNCHANGED <<given, height>>

Key ==
    /\ KeyPressed
    /\ phase' = "draw"
    /\ UNCHANGED results

Move(i) ==
    /\ Key
    /\ cursor' = i
    /\ scroll' = Ensured(entries, visible, i, HeaderOf(i), scroll, height)
    /\ UNCHANGED <<entries, visible, stops>>

Up ==
    \/ \E i \in stops : i < cursor /\ i = Max({j \in stops : j < cursor}) /\ Move(i)
    \/ (\A j \in stops : cursor <= j) /\ Key
         /\ UNCHANGED <<entries, visible, stops, cursor, scroll>>

Down ==
    \/ \E i \in stops : i > cursor /\ i = Min({j \in stops : j > cursor}) /\ Move(i)
    \/ (\A j \in stops : j <= cursor) /\ Key
         /\ UNCHANGED <<entries, visible, stops, cursor, scroll>>

(* toggle. In a radio section a sole mark can be taken back; with several, the
   row under the cursor is the one that stays. *)
RadioKeeps ==
    ~entries[cursor].checked \/ Cardinality(CheckedUnder(entries, Current)) > 1

(* Mutant: the other marks of a radio section stay. *)
ToggledAlone ==
    CASE entries[cursor].header -> entries
      [] ~entries[cursor].header /\ OnRadio ->
            Marking({cursor}, IF RadioKeeps THEN {cursor} ELSE {})
      [] OTHER -> Marking({cursor}, IF entries[cursor].checked THEN {} ELSE {cursor})

Toggled ==
    CASE entries[cursor].header -> entries
      [] ~entries[cursor].header /\ OnRadio ->
            Marking(RowsUnder(Current), IF RadioKeeps THEN {cursor} ELSE {})
      [] OTHER -> Marking({cursor}, IF entries[cursor].checked THEN {} ELSE {cursor})

Marks(list) ==
    /\ Key
    /\ entries' = list
    /\ UNCHANGED <<visible, stops, cursor, scroll>>

Toggle == Marks(Toggled)

(* `a`: all rows of a checkbox section, or none if all are marked. *)
ToggleSection ==
    LET rows == RowsUnder(Current) IN
    Marks(IF OnRadio THEN entries
          ELSE Marking(rows, IF CheckedUnder(entries, Current) = rows THEN {} ELSE rows))

Backspace == Marks(IF OnRadio THEN Marking(RowsUnder(Current), {}) ELSE entries)

(* Left and Right: collapse or expand the section of the cursor, rebuild the
   stops, and focus its header or its first row. *)
Fold(collapsed, shown, target) ==
    LET list == [entries EXCEPT ![Current].collapsed = collapsed] IN
    /\ Key
    /\ entries' = list
    /\ visible' = shown
    /\ stops' = StopsOf(list, shown)
    /\ cursor' = Focus(stops', target)
    /\ scroll' = Ensured(list, shown, cursor', HeaderOf(cursor'), scroll, height)

Collapse == Fold(TRUE, visible \ RowsUnder(Current), Current)

Expand ==
    LET rows == RowsUnder(Current) IN
    Fold(FALSE, visible \cup rows, IF rows = {} THEN Current ELSE Min(rows))

Ignored == Key /\ UNCHANGED <<entries, visible, stops, cursor, scroll>>

(* A key bound by the caller: pick_crates_interactive previews the template at
   the coordinates of the cursor, until the user dismisses it. *)
Preview ==
    LET at == Coords[cursor]
        rows == given[at[1]].rows
    IN  /\ KeyPressed
        /\ at[2] \in DOMAIN rows /\ rows[at[2]].template
        /\ phase' = "preview"
        /\ UNCHANGED <<entries, visible, stops, cursor, scroll, results>>

Dismiss ==
    /\ phase = "preview"
    /\ phase' = "draw"
    /\ UNCHANGED <<given, entries, visible, stops, cursor, scroll, height, error, results>>

-----------------------------------------------------------------------------
(* Leaving *)

(* into_results: one list per header, in order, with the rows up to the next.
   The accumulator is <<lists closed so far, the open one, any header yet?>>. *)
IntoResults(list) ==
    LET Read(acc, e) ==
            IF ~e.header THEN <<acc[1], Append(acc[2], e.checked), acc[3]>>
            ELSE <<IF acc[3] THEN Append(acc[1], acc[2]) ELSE acc[1], <<>>, TRUE>>
        last == FoldLeft(Read, <<<<>>, <<>>, FALSE>>, list)
    IN  IF last[3] THEN Append(last[1], last[2]) ELSE last[1]

(* Enter marks the row under the cursor first if nothing is marked, but not in
   a radio section, where nothing is an answer. A conflict keeps the list open. *)
Enter ==
    LET list == IF (\A i \in Indices : ~entries[i].checked) /\ ~OnRadio THEN Toggled ELSE entries
    IN  /\ phase = "key"
        /\ entries' = list
        /\ error' = Conflict(list)
        /\ phase' = IF Conflict(list) THEN "draw" ELSE "confirmed"
        /\ results' = IF Conflict(list) THEN results ELSE IntoResults(list)
        /\ UNCHANGED <<given, visible, stops, cursor, scroll, height>>

Cancel ==
    /\ phase = "key"
    /\ phase' = "cancelled"
    /\ UNCHANGED <<given, entries, visible, stops, cursor, scroll, height, error, results>>

-----------------------------------------------------------------------------
Init ==
    /\ given \in Inputs
    /\ entries = Flattened(given)
    /\ visible = {i \in DOMAIN entries : entries[i].header \/ ~entries[HeaderOf(i)].collapsed}
    /\ stops = StopsOf(entries, visible)
    /\ cursor = Min(stops)
    /\ scroll = 0 /\ height = 0
    /\ error = FALSE /\ phase = "draw" /\ results = <<>>

Next ==
    \/ Draw \/ Up \/ Down
    \/ Toggle \/ ToggleSection \/ Backspace
    \/ Collapse \/ Expand
    \/ Ignored \/ Preview \/ Dismiss
    \/ Enter \/ Cancel

PickerSpec == Init /\ [][Next]_vars
=============================================================================
