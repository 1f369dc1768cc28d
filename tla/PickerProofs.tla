---------------------------- MODULE PickerProofs ----------------------------
(***************************************************************************)
(* Theorems about modules Picker and PickerSafety, for every list a caller *)
(* may open and every terminal height.                                     *)
(***************************************************************************)
EXTENDS PickerSafety, ListProofs

-----------------------------------------------------------------------------
(* Lists of entries *)

(* What the caller's list gives: a header first, and at least one row. *)
Layout(list) ==
    /\ list \in Seq(Entry) /\ list # <<>> /\ list[1].header
    /\ \E i \in DOMAIN list : ~list[i].header

IsHeaderOf(list, h, i) ==
    h \in 1 .. i /\ list[h].header /\ \A k \in h + 1 .. i : ~list[k].header

HeaderIn(list, i) ==
    CHOOSE h \in 1 .. i : list[h].header /\ \A k \in h + 1 .. i : ~list[k].header

(* Section bounds are defined: every entry has a header, and one only. *)
LEMMA HeaderExists ==
    ASSUME NEW list, Layout(list), NEW i \in DOMAIN list
    PROVE  IsHeaderOf(list, HeaderIn(list, i), i)
<1> DEFINE S == {h \in 1 .. i : list[h].header}
<1>1. i \in Nat /\ 1 <= i /\ DOMAIN list = 1 .. Len(list)
  BY DEF Layout
<1>2. 1 \in S
  BY <1>1 DEF Layout
<1>3. S \in SUBSET (0 .. i)
  BY <1>1
<1> HIDE DEF S
<1>4. Max(S) \in S /\ \A y \in S : y <= Max(S)
  BY <1>1, <1>2, <1>3, LargestOf
<1>5. \A k \in Max(S) + 1 .. i : ~list[k].header
  <2> SUFFICES ASSUME NEW k \in Max(S) + 1 .. i, list[k].header PROVE FALSE
    OBVIOUS
  <2>1. Max(S) \in 1 .. i
    BY <1>4 DEF S
  <2>2. k \in S /\ k > Max(S)
    BY <1>1, <2>1 DEF S
  <2>3. QED
    BY <1>4, <2>1, <2>2
<1>6. \E h \in 1 .. i : list[h].header /\ \A k \in h + 1 .. i : ~list[k].header
  BY <1>4, <1>5 DEF S
<1>7. QED
  BY <1>6 DEF HeaderIn, IsHeaderOf

(* No entry has two headers. *)
LEMMA HeaderUnique ==
    ASSUME NEW list, NEW i \in Nat, NEW g, NEW h,
           IsHeaderOf(list, g, i), IsHeaderOf(list, h, i)
    PROVE  g = h
<1>1. g \in 1 .. i /\ h \in 1 .. i
  BY DEF IsHeaderOf
<1>2. ~ (g < h)
  BY <1>1 DEF IsHeaderOf
<1>3. ~ (h < g)
  BY <1>1 DEF IsHeaderOf
<1>4. QED
  BY <1>1, <1>2, <1>3

(* Lists that differ in marks at most. *)
SameFolds(a, b) ==
    /\ a \in Seq(Entry) /\ b \in Seq(Entry) /\ DOMAIN a = DOMAIN b
    /\ \A i \in DOMAIN a : /\ a[i].header = b[i].header
                           /\ a[i].radio = b[i].radio
                           /\ a[i].collapsed = b[i].collapsed

(* Marking an entry changes its mark only. *)
LEMMA EntryChecked ==
    ASSUME NEW e \in Entry, NEW v \in BOOLEAN
    PROVE  /\ [e EXCEPT !.checked = v] \in Entry
           /\ [e EXCEPT !.checked = v].header = e.header
           /\ [e EXCEPT !.checked = v].radio = e.radio
           /\ [e EXCEPT !.checked = v].collapsed = e.collapsed
  BY DEF Entry

(* Marking rows of a list leaves its layout and folds. *)
LEMMA MarkingFolds ==
    ASSUME entries \in Seq(Entry), NEW rows, NEW checked
    PROVE  SameFolds(entries, Marking(rows, checked))
<1> DEFINE b == Marking(rows, checked)
<1>1. DOMAIN entries = 1 .. Len(entries) /\ Len(entries) \in Nat
  OBVIOUS
<1>2. \A i \in Indices : entries[i] \in Entry
  BY DEF Indices
<1>3. ASSUME NEW i \in Indices
      PROVE  /\ b[i] \in Entry /\ b[i].header = entries[i].header
             /\ b[i].radio = entries[i].radio /\ b[i].collapsed = entries[i].collapsed
  <2>1. entries[i] \in Entry
    BY <1>2
  <2>2. PICK v \in BOOLEAN : v = (i \in checked)
    <3>1. (i \in checked) = TRUE \/ (i \in checked) = FALSE
      BY SMT
    <3>2. TRUE \in BOOLEAN /\ FALSE \in BOOLEAN
      OBVIOUS
    <3>3. QED
      BY <3>1, <3>2, Zenon
  <2>3. b[i] = IF i \in rows THEN [entries[i] EXCEPT !.checked = v] ELSE entries[i]
    BY <2>2, Zenon DEF Marking
  <2>4. QED
    BY <2>1, <2>3, EntryChecked
<1>4. DOMAIN b = Indices
  BY DEF Marking
<1> HIDE DEF b
<1>5. b \in Seq(Entry)
  <2>1. b = [i \in 1 .. Len(entries) |-> b[i]]
    BY <1>1, <1>4 DEF b, Marking, Indices
  <2>2. b \in [1 .. Len(entries) -> Entry]
    BY <1>1, <1>3, <2>1 DEF Indices
  <2>3. QED
    BY <1>1, <2>2
<1>6. QED
  BY <1>3, <1>4, <1>5 DEF SameFolds, b, Indices

(* So does toggle, in each of its cases. *)
LEMMA ToggledFolds ==
    ASSUME entries \in Seq(Entry)
    PROVE  SameFolds(entries, Toggled)
<1>1. SameFolds(entries, entries)
  BY DEF SameFolds
<1>2. SameFolds(entries, Marking(RowsUnder(Current), IF RadioKeeps THEN {cursor} ELSE {}))
  BY MarkingFolds
<1>3. SameFolds(entries, Marking({cursor}, IF entries[cursor].checked THEN {} ELSE {cursor}))
  BY MarkingFolds
<1>4. QED
  BY <1>1, <1>2, <1>3, Zenon DEF Toggled
-----------------------------------------------------------------------------
(* Visibility and stops *)

(* FocusKept, on any list: a row is shown unless its header is collapsed. *)
ShownIn(list, vis) ==
    /\ vis \subseteq DOMAIN list
    /\ \A i \in DOMAIN list, h \in DOMAIN list :
          IsHeaderOf(list, h, i) => (i \in vis <=> list[i].header \/ ~list[h].collapsed)

(* On a list there is one set of shown entries: that of FocusKept. *)
LEMMA ShownSet ==
    ASSUME NEW list, Layout(list)
    PROVE  LET all == {i \in DOMAIN list : list[i].header \/ ~list[HeaderIn(list, i)].collapsed}
           IN  /\ ShownIn(list, all)
               /\ \A vis : ShownIn(list, vis) => vis = all
<1> DEFINE all == {i \in DOMAIN list : list[i].header \/ ~list[HeaderIn(list, i)].collapsed}
<1>1. DOMAIN list = 1 .. Len(list) /\ Len(list) \in Nat
  BY DEF Layout
<1>2. \A i \in DOMAIN list : IsHeaderOf(list, HeaderIn(list, i), i)
  BY HeaderExists
<1>3. \A i \in DOMAIN list : HeaderIn(list, i) \in DOMAIN list
  BY <1>1, <1>2 DEF IsHeaderOf
<1>4. ShownIn(list, all)
  <2> SUFFICES ASSUME NEW i \in DOMAIN list, NEW h \in DOMAIN list, IsHeaderOf(list, h, i)
               PROVE  i \in all <=> list[i].header \/ ~list[h].collapsed
    BY DEF ShownIn
  <2>1. h = HeaderIn(list, i)
    BY <1>1, <1>2, HeaderUnique
  <2>2. QED
    BY <2>1
<1>5. ASSUME NEW vis, ShownIn(list, vis)
      PROVE  vis = all
  <2>1. \A i \in DOMAIN list : i \in vis <=> i \in all
    BY <1>2, <1>3, <1>5 DEF ShownIn
  <2>2. QED
    BY <1>5, <2>1 DEF ShownIn
<1>6. QED
  BY <1>4, <1>5

(* A list with a row always has a stop, whatever is collapsed. *)
LEMMA StopExists ==
    ASSUME NEW list, Layout(list), NEW vis, ShownIn(list, vis)
    PROVE  StopsOf(list, vis) # {} /\ StopsOf(list, vis) \subseteq DOMAIN list
<1>1. PICK i \in DOMAIN list : ~list[i].header
  BY DEF Layout
<1>2. IsHeaderOf(list, HeaderIn(list, i), i)
  BY HeaderExists
<1>3. HeaderIn(list, i) \in DOMAIN list
  BY <1>2 DEF IsHeaderOf, Layout
<1>4. CASE list[HeaderIn(list, i)].collapsed
  <2>1. HeaderIn(list, i) \in StopsOf(list, vis)
    BY <1>2, <1>3, <1>4 DEF StopsOf, IsHeaderOf
  <2>2. QED
    BY <2>1 DEF StopsOf
<1>5. CASE ~list[HeaderIn(list, i)].collapsed
  <2>1. i \in vis
    BY <1>2, <1>3, <1>5 DEF ShownIn
  <2>2. i \in StopsOf(list, vis)
    BY <1>1, <2>1 DEF StopsOf
  <2>3. QED
    BY <2>2 DEF StopsOf
<1>6. QED
  BY <1>4, <1>5

(* focus_entry ends on a stop, if there is one. *)
LEMMA FocusStops ==
    ASSUME NEW n \in Nat, NEW at \in SUBSET (1 .. n), at # {}, NEW i \in 1 .. n
    PROVE  Focus(at, i) \in at
<1>1. CASE i \in at
  BY <1>1 DEF Focus
<1>2. CASE i \notin at /\ \E j \in at : j <= i
  <2>1. {j \in at : j <= i} \in SUBSET (0 .. n) /\ {j \in at : j <= i} # {}
    <3>1. at \subseteq 0 .. n
      OBVIOUS
    <3>2. PICK j \in at : j <= i
      BY <1>2
    <3>3. QED
      BY <3>1, <3>2, Zenon
  <2>2. Max({j \in at : j <= i}) \in {j \in at : j <= i}
    BY <2>1, LargestOf
  <2>3. Focus(at, i) = Max({j \in at : j <= i})
    BY <1>2, Zenon DEF Focus
  <2>4. QED
    BY <2>2, <2>3
<1>3. CASE i \notin at /\ ~ \E j \in at : j <= i
  <2>1. at \in SUBSET Nat
    OBVIOUS
  <2>2. Focus(at, i) = Min(at)
    BY <1>3, Zenon DEF Focus
  <2>3. QED
    BY <2>1, <2>2, SmallestOf
<1>4. QED
  BY <1>1, <1>2, <1>3

(* What the cursor and the stops are to be, on any list. *)
Kept(list, vis, at, i) ==
    ShownIn(list, vis) /\ at = StopsOf(list, vis) /\ i \in at

(* Marks move no stop. *)
LEMMA MarksKeep ==
    ASSUME NEW a, NEW b, SameFolds(a, b), NEW vis, NEW at, NEW i, Kept(a, vis, at, i)
    PROVE  Kept(b, vis, at, i)
<1>1. ShownIn(b, vis)
  <2>1. DOMAIN a \subseteq Nat
    BY DEF SameFolds
  <2> SUFFICES ASSUME NEW j \in DOMAIN b, NEW h \in DOMAIN b, IsHeaderOf(b, h, j)
               PROVE  j \in vis <=> b[j].header \/ ~b[h].collapsed
    BY DEF ShownIn, Kept, SameFolds
  <2>2. IsHeaderOf(a, h, j)
    <3>1. \A k \in h + 1 .. j : k \in DOMAIN a
      BY DEF SameFolds
    <3>2. QED
      BY <3>1 DEF IsHeaderOf, SameFolds
  <2>3. QED
    BY <2>2 DEF Kept, ShownIn, SameFolds
<1>2. at = StopsOf(b, vis)
  BY DEF Kept, StopsOf, SameFolds
<1>3. QED
  BY <1>1, <1>2 DEF Kept

(* The list with one section collapsed or expanded, and what is then shown. *)
Folded(list, h, collapsed) == [list EXCEPT ![h].collapsed = collapsed]

RowsIn(list, h) == {i \in DOMAIN list : i > h /\ \A k \in h + 1 .. i : ~list[k].header}

Unfolded(list, h, collapsed, vis) ==
    IF collapsed THEN vis \ RowsIn(list, h) ELSE vis \cup RowsIn(list, h)

(* Folding an entry changes its flag only. *)
LEMMA EntryFolded ==
    ASSUME NEW e \in Entry, NEW c \in BOOLEAN
    PROVE  /\ [e EXCEPT !.collapsed = c] \in Entry
           /\ [e EXCEPT !.collapsed = c].header = e.header
           /\ [e EXCEPT !.collapsed = c].radio = e.radio
           /\ [e EXCEPT !.collapsed = c].checked = e.checked
           /\ [e EXCEPT !.collapsed = c].collapsed = c
  BY DEF Entry

(* Folding a section changes the flag of its header only. *)
LEMMA FoldedList ==
    ASSUME NEW list \in Seq(Entry), NEW h \in DOMAIN list, NEW c \in BOOLEAN
    PROVE  /\ Folded(list, h, c) \in Seq(Entry)
           /\ DOMAIN Folded(list, h, c) = DOMAIN list
           /\ \A i \in DOMAIN list :
                 /\ Folded(list, h, c)[i].header = list[i].header
                 /\ Folded(list, h, c)[i].radio = list[i].radio
                 /\ Folded(list, h, c)[i].collapsed = IF i = h THEN c ELSE list[i].collapsed
<1> DEFINE e == [list[h] EXCEPT !.collapsed = c]
<1>1. /\ e \in Entry /\ e.header = list[h].header
      /\ e.radio = list[h].radio /\ e.collapsed = c
  BY EntryFolded
<1> HIDE DEF e
<1>2. Folded(list, h, c) = [list EXCEPT ![h] = e]
  BY DEF Folded, e
<1>3. QED
  BY <1>1, <1>2

(* Hiding or showing the rows of one section is all a fold has to do. *)
LEMMA FoldShows ==
    ASSUME NEW list, Layout(list), NEW vis, ShownIn(list, vis),
           NEW h \in DOMAIN list, list[h].header, NEW c \in BOOLEAN
    PROVE  /\ Layout(Folded(list, h, c))
           /\ ShownIn(Folded(list, h, c), Unfolded(list, h, c, vis))
<1> DEFINE new == Folded(list, h, c)
           shown == Unfolded(list, h, c, vis)
<1>1. /\ new \in Seq(Entry) /\ DOMAIN new = DOMAIN list
      /\ \A i \in DOMAIN list : /\ new[i].header = list[i].header
                                /\ new[i].collapsed = IF i = h THEN c ELSE list[i].collapsed
  BY FoldedList DEF Layout
<1>2. DOMAIN list = 1 .. Len(list) /\ Len(list) \in Nat /\ 1 \in DOMAIN list
  BY DEF Layout
<1> HIDE DEF new
<1>3. Layout(new)
  BY <1>1, <1>2 DEF Layout
<1>4. shown \subseteq DOMAIN list
  BY DEF Unfolded, RowsIn, ShownIn
<1>5. ASSUME NEW i \in DOMAIN list, NEW g \in DOMAIN list, IsHeaderOf(new, g, i)
      PROVE  i \in shown <=> new[i].header \/ ~new[g].collapsed
  <2>1. IsHeaderOf(list, g, i)
    <3>1. \A k \in g + 1 .. i : k \in DOMAIN list
      BY <1>2
    <3>2. QED
      BY <1>1, <1>5, <3>1 DEF IsHeaderOf
  <2>2. i \in vis <=> list[i].header \/ ~list[g].collapsed
    BY <2>1 DEF ShownIn
  <2>3. i \in RowsIn(list, h) <=> g = h /\ i # h
    <3>1. ASSUME i \in RowsIn(list, h) PROVE g = h /\ i # h
      <4>1. IsHeaderOf(list, h, i)
        BY <1>2, <3>1 DEF RowsIn, IsHeaderOf
      <4>2. QED
        BY <1>2, <2>1, <3>1, <4>1, HeaderUnique DEF RowsIn
    <3>2. ASSUME g = h, i # h PROVE i \in RowsIn(list, h)
      BY <1>2, <2>1, <3>2 DEF RowsIn, IsHeaderOf
    <3>3. QED
      BY <3>1, <3>2
  <2>4. list[i].header => i = g
    BY <1>2, <2>1 DEF IsHeaderOf
  <2>5. QED
    BY <1>1, <2>2, <2>3, <2>4 DEF Unfolded
<1>6. QED
  BY <1>1, <1>3, <1>4, <1>5 DEF ShownIn, new

-----------------------------------------------------------------------------
(* Lines and scrolling *)

(* Lines grow with the entries. *)
LEMMA LinesGrow ==
    ASSUME NEW list, NEW shown, NEW h \in Int, NEW i \in Int, h <= i
    PROVE  /\ LineOf(list, shown, h) \in Nat /\ LineOf(list, shown, i) \in Nat
           /\ LineOf(list, shown, h) <= LineOf(list, shown, i)
<1> DEFINE A(j) == {k \in 1 .. j - 1 : list[k].header \/ k \in shown}
           B(j) == {k \in 2 .. j - 1 : list[k].header}
<1>1. \A j \in Int : /\ IsFiniteSet(A(j)) /\ Cardinality(A(j)) \in Nat
                     /\ IsFiniteSet(B(j)) /\ Cardinality(B(j)) \in Nat
  <2> SUFFICES ASSUME NEW j \in Int
               PROVE  /\ IsFiniteSet(A(j)) /\ Cardinality(A(j)) \in Nat
                      /\ IsFiniteSet(B(j)) /\ Cardinality(B(j)) \in Nat
    OBVIOUS
  <2>1. j - 1 \in Int /\ A(j) \subseteq 1 .. j - 1 /\ B(j) \subseteq 1 .. j - 1
    OBVIOUS
  <2> HIDE DEF A, B
  <2>2. IsFiniteSet(A(j)) /\ Cardinality(A(j)) \in Nat
    BY <2>1, Counted, Zenon
  <2>3. IsFiniteSet(B(j)) /\ Cardinality(B(j)) \in Nat
    BY <2>1, Counted, Zenon
  <2>4. QED
    BY <2>2, <2>3
<1>2. A(h) \in SUBSET A(i) /\ B(h) \in SUBSET B(i)
  OBVIOUS
<1>3. \A j \in Int : LineOf(list, shown, j) = Cardinality(A(j)) + Cardinality(B(j))
  BY DEF LineOf
<1> HIDE DEF A, B
<1>4. Cardinality(A(h)) <= Cardinality(A(i)) /\ Cardinality(B(h)) <= Cardinality(B(i))
  BY <1>1, <1>2, FS_Subset
<1>5. QED
  BY <1>1, <1>3, <1>4

(* ensure_cursor_visible never takes scroll below zero, and leaves the line it
   computes for the cursor inside the viewport. *)
LEMMA EnsuredLine ==
    ASSUME NEW list, NEW shown, NEW at \in Int, NEW h \in Int, h <= at,
           NEW from \in Nat, NEW high \in Nat
    PROVE  /\ Ensured(list, shown, at, h, from, high) \in Nat
           /\ high > 0 =>
                 /\ Ensured(list, shown, at, h, from, high) <= LineOf(list, shown, at)
                 /\ LineOf(list, shown, at) < Ensured(list, shown, at, h, from, high) + high
<1> DEFINE line == LineOf(list, shown, at)
           top == LineOf(list, shown, h)
<1>1. line \in Nat /\ top \in Nat /\ top <= line
  BY LinesGrow
<1>2. Ensured(list, shown, at, h, from, high) =
        LET up == IF line >= from THEN from ELSE IF line - top < high THEN top ELSE line
        IN  IF high = 0 THEN from ELSE IF line >= up + high THEN line - high + 1 ELSE up
  BY DEF Ensured
<1> HIDE DEF line, top
<1>3. QED
  BY <1>1, <1>2 DEF line

(* entry_to_line is at most one line above where the entry is drawn. *)
LEMMA LineDrawn ==
    ASSUME NEW i \in Nat
    PROVE  /\ RenderedLine(i) \in Nat
           /\ LineOf(entries, visible, i) <= RenderedLine(i)
           /\ RenderedLine(i) <= LineOf(entries, visible, i) + 1
<1> DEFINE A == {k \in 1 .. i - 1 : entries[k].header \/ k \in visible}
           B == {k \in 2 .. i - 1 : entries[k].header}
           C == {k \in 2 .. i : entries[k].header}
<1>1. /\ i - 1 \in Int /\ i \in Int
      /\ A \subseteq 1 .. i - 1 /\ B \subseteq 1 .. i - 1 /\ C \subseteq 1 .. i
      /\ B \in SUBSET C /\ C \in SUBSET (B \cup {i})
  OBVIOUS
<1>2. /\ RenderedLine(i) = Cardinality(A) + Cardinality(C)
      /\ LineOf(entries, visible, i) = Cardinality(A) + Cardinality(B)
  BY DEF RenderedLine, LineOf
<1> HIDE DEF A, B, C
<1>3. /\ IsFiniteSet(B) /\ IsFiniteSet(C) /\ Cardinality(A) \in Nat
      /\ Cardinality(B) \in Nat /\ Cardinality(C) \in Nat
  <2>1. Cardinality(A) \in Nat
    BY <1>1, Counted, Zenon
  <2>2. IsFiniteSet(B) /\ Cardinality(B) \in Nat
    BY <1>1, Counted, Zenon
  <2>3. IsFiniteSet(C) /\ Cardinality(C) \in Nat
    BY <1>1, Counted, Zenon
  <2>4. QED
    BY <2>1, <2>2, <2>3
<1>4. IsFiniteSet(B \cup {i}) /\ Cardinality(B \cup {i}) <= Cardinality(B) + 1
  <2>1. /\ IsFiniteSet(B \cup {i})
        /\ Cardinality(B \cup {i}) = IF i \in B THEN Cardinality(B) ELSE Cardinality(B) + 1
    BY <1>3, FS_AddElement, Zenon
  <2>2. QED
    BY <1>3, <2>1
<1>5. Cardinality(B) <= Cardinality(C) /\ Cardinality(C) <= Cardinality(B \cup {i})
      /\ Cardinality(B \cup {i}) \in Nat
  BY <1>1, <1>3, <1>4, FS_Subset, FS_CardinalityType
<1>6. QED
  BY <1>2, <1>3, <1>4, <1>5

-----------------------------------------------------------------------------
(* Where the caller's sections and rows are in the flattened list *)

Lens(sections) == [s \in 1 .. Len(sections) |-> 1 + Len(sections[s].rows)]

StartOf(sections) == CHOOSE start : Starts(Len(sections), Lens(sections), start)

(* Every section has a place. *)
LEMMA Plan ==
    ASSUME NEW sections \in Seq(Sections)
    PROVE  /\ Len(sections) \in Nat /\ DOMAIN sections = 1 .. Len(sections)
           /\ \A s \in 1 .. Len(sections) : /\ sections[s] \in Sections
                                            /\ Len(sections[s].rows) \in Nat
                                            /\ DOMAIN sections[s].rows = 1 .. Len(sections[s].rows)
                                            /\ Lens(sections)[s] = 1 + Len(sections[s].rows)
           /\ Lens(sections) \in [1 .. Len(sections) -> Nat]
           /\ Starts(Len(sections), Lens(sections), StartOf(sections))
<1>1. Len(sections) \in Nat /\ DOMAIN sections = 1 .. Len(sections)
  OBVIOUS
<1>2. \A s \in 1 .. Len(sections) : sections[s] \in Sections
  OBVIOUS
<1>3. \A s \in 1 .. Len(sections) : /\ Len(sections[s].rows) \in Nat
                                    /\ DOMAIN sections[s].rows = 1 .. Len(sections[s].rows)
  BY <1>2 DEF Sections
<1>4. /\ Lens(sections) \in [1 .. Len(sections) -> Nat]
      /\ \A s \in 1 .. Len(sections) : Lens(sections)[s] = 1 + Len(sections[s].rows)
  BY <1>3 DEF Lens
<1>5. Starts(Len(sections), Lens(sections), StartOf(sections))
  <2>1. \E start : Starts(Len(sections), Lens(sections), start)
    BY <1>1, <1>4, StartsExist
  <2>2. QED
    BY <2>1, Zenon DEF StartOf
<1>6. QED
  BY <1>1, <1>2, <1>3, <1>4, <1>5

(* One entry, then one for each row. *)
LEMMA Headed ==
    ASSUME NEW X, NEW h \in X, NEW n \in Nat, NEW f \in [1 .. n -> X]
    PROVE  /\ <<h>> \o f \in Seq(X) /\ Len(<<h>> \o f) = 1 + n
           /\ (<<h>> \o f)[1] = h
           /\ \A j \in 1 .. n : (<<h>> \o f)[1 + j] = f[j]
<1>1. <<h>> \in Seq(X) /\ Len(<<h>>) = 1 /\ <<h>>[1] = h
  OBVIOUS
<1>2. f \in Seq(X) /\ Len(f) = n
  OBVIOUS
<1> DEFINE g == <<h>>
<1>3. g \in Seq(X) /\ Len(g) = 1 /\ g[1] = h
  BY <1>1
<1> HIDE DEF g
<1>4. /\ g \o f \in Seq(X) /\ Len(g \o f) = Len(g) + Len(f)
      /\ \A q \in 1 .. Len(g) : (g \o f)[q] = g[q]
      /\ \A q \in 1 .. Len(f) : (g \o f)[Len(g) + q] = f[q]
  <2>1. g \in Seq(X) /\ f \in Seq(X)
    BY <1>2, <1>3
  <2>2. QED
    BY <2>1, Catenated
<1>5. /\ g \o f \in Seq(X) /\ Len(g \o f) = 1 + n
      /\ (g \o f)[1] = h
      /\ \A j \in 1 .. n : (g \o f)[1 + j] = f[j]
  BY <1>2, <1>3, <1>4
<1>6. QED
  BY <1>5 DEF g

(* Two flattenings with a header per section: of entries, and of coordinates. *)
LEMMA FlattenedParts ==
    ASSUME NEW sections \in Seq(Sections), NEW X,
           NEW seqs \in [1 .. Len(sections) -> Seq(X)],
           \A s \in 1 .. Len(sections) : Len(seqs[s]) = 1 + Len(sections[s].rows)
    PROVE  /\ FlattenSeq(seqs) \in Seq(X)
           /\ Len(FlattenSeq(seqs)) = StartOf(sections)[Len(sections) + 1] - 1
           /\ \A s \in 1 .. Len(sections) :
                 /\ FlattenSeq(seqs)[StartOf(sections)[s]] = seqs[s][1]
                 /\ \A j \in 1 .. Len(sections[s].rows) :
                       FlattenSeq(seqs)[StartOf(sections)[s] + j] = seqs[s][1 + j]
<1> DEFINE n == Len(sections)
           start == StartOf(sections)
           lens == Lens(sections)
<1>1. /\ n \in Nat /\ lens \in [1 .. n -> Nat] /\ Starts(n, lens, start)
      /\ \A s \in 1 .. n : lens[s] = 1 + Len(sections[s].rows) /\ Len(sections[s].rows) \in Nat
  BY Plan
<1>2. seqs \in [1 .. n -> Seq(X)]
  OBVIOUS
<1>3. \A s \in 1 .. n : Len(seqs[s]) = lens[s]
  BY <1>1
<1> HIDE DEF n, start, lens
<1>4. \A s \in 1 .. n : lens[s] = Len(seqs[s])
  BY <1>3
<1>5. Laid(X, n, seqs, lens, start, FlattenSeq(seqs))
  BY <1>1, <1>2, <1>4, Flattening
<1>6. ASSUME NEW s \in 1 .. n
      PROVE  /\ FlattenSeq(seqs)[start[s]] = seqs[s][1]
             /\ \A j \in 1 .. Len(sections[s].rows) :
                   FlattenSeq(seqs)[start[s] + j] = seqs[s][1 + j]
  <2>1. start[s] \in Nat
    BY <1>1 DEF Starts
  <2>2. \A j \in 0 .. Len(sections[s].rows) : FlattenSeq(seqs)[start[s] + j] = seqs[s][1 + j]
    <3> TAKE j \in 0 .. Len(sections[s].rows)
    <3>1. 1 + j \in 1 .. lens[s] /\ start[s] + (1 + j) - 1 = start[s] + j
      BY <1>1, <2>1
    <3>2. QED
      BY <1>5, <3>1 DEF Laid
  <2>3. 0 \in 0 .. Len(sections[s].rows) /\ start[s] + 0 = start[s]
    BY <1>1, <2>1
  <2>4. QED
    BY <2>2, <2>3
<1>7. QED
  BY <1>5, <1>6 DEF Laid, n, start

(* The entry of a header and those of the rows (PickerState::new). *)
LEMMA FlattenedAt ==
    ASSUME NEW sections \in Seq(Sections)
    PROVE  /\ Flattened(sections) \in Seq(Entry)
           /\ Len(Flattened(sections)) = StartOf(sections)[Len(sections) + 1] - 1
           /\ \A s \in 1 .. Len(sections) :
                 /\ Flattened(sections)[StartOf(sections)[s]] = HeaderEntry(sections[s])
                 /\ \A j \in 1 .. Len(sections[s].rows) :
                       Flattened(sections)[StartOf(sections)[s] + j]
                           = RowEntry(sections[s].rows[j])
<1> DEFINE Part(s) == [i \in DOMAIN sections[s].rows |-> RowEntry(sections[s].rows[i])]
           seqs == [s \in DOMAIN sections |-> <<HeaderEntry(sections[s])>> \o Part(s)]
<1>1. DOMAIN seqs = 1 .. Len(sections) /\ seqs = [s \in DOMAIN seqs |-> seqs[s]]
  OBVIOUS
<1>2. ASSUME NEW s \in 1 .. Len(sections)
      PROVE  /\ seqs[s] \in Seq(Entry) /\ Len(seqs[s]) = 1 + Len(sections[s].rows)
             /\ seqs[s][1] = HeaderEntry(sections[s])
             /\ \A j \in 1 .. Len(sections[s].rows) :
                   seqs[s][1 + j] = RowEntry(sections[s].rows[j])
  <2> DEFINE n == Len(sections[s].rows)
  <2>1. /\ n \in Nat /\ DOMAIN sections[s].rows = 1 .. n /\ sections[s] \in Sections
        /\ s \in DOMAIN sections
    BY Plan
  <2>2. HeaderEntry(sections[s]) \in Entry
    BY <2>1 DEF HeaderEntry, Sections, Entry
  <2>3. Part(s) \in [1 .. n -> Entry] /\ \A j \in 1 .. n : Part(s)[j] = RowEntry(sections[s].rows[j])
    <3>1. \A j \in 1 .. n : sections[s].rows[j] \in SectionItem
      BY <2>1 DEF Sections
    <3>2. \A j \in 1 .. n : RowEntry(sections[s].rows[j]) \in Entry
      BY <3>1 DEF RowEntry, SectionItem, Entry
    <3>3. QED
      BY <2>1, <3>2
  <2>4. seqs[s] = <<HeaderEntry(sections[s])>> \o Part(s)
    BY <2>1
  <2> HIDE DEF seqs, Part, n
  <2>5. /\ seqs[s] \in Seq(Entry) /\ Len(seqs[s]) = 1 + n
        /\ seqs[s][1] = HeaderEntry(sections[s])
        /\ \A j \in 1 .. n : seqs[s][1 + j] = Part(s)[j]
    BY <2>1, <2>2, <2>3, <2>4, Headed
  <2>6. QED
    BY <2>3, <2>5 DEF n
<1>3. Flattened(sections) = FlattenSeq(seqs)
  BY DEF Flattened
<1> HIDE DEF seqs
<1>4. /\ seqs \in [1 .. Len(sections) -> Seq(Entry)]
      /\ \A s \in 1 .. Len(sections) : Len(seqs[s]) = 1 + Len(sections[s].rows)
  BY <1>1, <1>2
<1>5. /\ FlattenSeq(seqs) \in Seq(Entry)
      /\ Len(FlattenSeq(seqs)) = StartOf(sections)[Len(sections) + 1] - 1
      /\ \A s \in 1 .. Len(sections) :
            /\ FlattenSeq(seqs)[StartOf(sections)[s]] = seqs[s][1]
            /\ \A j \in 1 .. Len(sections[s].rows) :
                  FlattenSeq(seqs)[StartOf(sections)[s] + j] = seqs[s][1 + j]
  BY <1>4, FlattenedParts
<1>6. QED
  BY <1>2, <1>3, <1>5

Pairs == Nat \X Nat

(* The coordinates of a header and those of the rows. *)
LEMMA CoordsAt ==
    ASSUME given \in Seq(Sections)
    PROVE  \A s \in 1 .. Len(given) : \A j \in 1 .. Len(given[s].rows) :
               Coords[StartOf(given)[s] + j] = <<s, j>>
<1> DEFINE Part(s) == [i \in DOMAIN given[s].rows |-> <<s, i>>]
           seqs == [s \in DOMAIN given |-> <<<<s, 1>>>> \o Part(s)]
<1>1. DOMAIN seqs = 1 .. Len(given) /\ seqs = [s \in DOMAIN seqs |-> seqs[s]]
  OBVIOUS
<1>2. ASSUME NEW s \in 1 .. Len(given)
      PROVE  /\ seqs[s] \in Seq(Pairs) /\ Len(seqs[s]) = 1 + Len(given[s].rows)
             /\ \A j \in 1 .. Len(given[s].rows) : seqs[s][1 + j] = <<s, j>>
  <2> DEFINE n == Len(given[s].rows)
             h == <<s, 1>>
  <2>1. n \in Nat /\ DOMAIN given[s].rows = 1 .. n /\ s \in DOMAIN given
    BY Plan
  <2>2. h \in Pairs
    BY DEF Pairs
  <2>3. Part(s) \in [1 .. n -> Pairs] /\ \A j \in 1 .. n : Part(s)[j] = <<s, j>>
    BY <2>1 DEF Pairs
  <2>4. seqs[s] = <<h>> \o Part(s)
    BY <2>1
  <2> HIDE DEF seqs, Part, n, h
  <2>5. /\ seqs[s] \in Seq(Pairs) /\ Len(seqs[s]) = 1 + n
        /\ \A j \in 1 .. n : seqs[s][1 + j] = Part(s)[j]
    BY <2>1, <2>2, <2>3, <2>4, Headed
  <2>6. QED
    BY <2>3, <2>5 DEF n
<1>3. Coords = FlattenSeq(seqs)
  BY DEF Coords
<1> HIDE DEF seqs
<1>4. /\ seqs \in [1 .. Len(given) -> Seq(Pairs)]
      /\ \A s \in 1 .. Len(given) : Len(seqs[s]) = 1 + Len(given[s].rows)
  BY <1>1, <1>2
<1>5. \A s \in 1 .. Len(given) : \A j \in 1 .. Len(given[s].rows) :
          FlattenSeq(seqs)[StartOf(given)[s] + j] = seqs[s][1 + j]
  BY <1>4, FlattenedParts
<1>6. QED
  BY <1>2, <1>3, <1>5

(* The list the caller gives makes a list with a header first, and a row. *)
LEMMA FlattenedLayout ==
    ASSUME NEW sections \in Inputs
    PROVE  /\ sections \in Seq(Sections)
           /\ Flattened(sections) \in Seq(Entry) /\ Flattened(sections) # <<>>
           /\ Flattened(sections)[1].header
           /\ \E i \in DOMAIN Flattened(sections) : ~Flattened(sections)[i].header
<1> DEFINE flat == Flattened(sections)
           start == StartOf(sections)
           n == Len(sections)
<1>1. sections \in Seq(Sections)
  BY InputsAssumption
<1>2. PICK s \in DOMAIN sections : sections[s].rows # <<>>
  BY InputsAssumption
<1>3. /\ n \in Nat /\ s \in 1 .. n /\ Lens(sections) \in [1 .. n -> Nat]
      /\ Starts(n, Lens(sections), start) /\ Lens(sections)[s] = 1 + Len(sections[s].rows)
      /\ Len(sections[s].rows) \in Nat /\ Len(sections[s].rows) # 0 /\ sections[s] \in Sections
  <2>1. Len(sections[s].rows) # 0
    <3>1. sections[s] \in Sections
      BY <1>1, <1>2
    <3>2. sections[s].rows \in Seq(SectionItem)
      BY <3>1 DEF Sections
    <3>3. QED
      BY <1>2, <3>2
  <2>2. QED
    BY <1>1, <1>2, <2>1, Plan
<1>4. /\ flat \in Seq(Entry) /\ Len(flat) = start[n + 1] - 1
      /\ \A t \in 1 .. n : /\ flat[start[t]] = HeaderEntry(sections[t])
                           /\ \A j \in 1 .. Len(sections[t].rows) :
                                 flat[start[t] + j] = RowEntry(sections[t].rows[j])
  BY <1>1, FlattenedAt
<1> HIDE DEF flat, start, n
<1>5. start[1] = 1 /\ 1 \in 1 .. n /\ start[s] \in Nat /\ start[s + 1] \in Nat /\ start[n + 1] \in Nat
      /\ start[s + 1] = start[s] + Lens(sections)[s]
  <2>1. 1 \in 1 .. n /\ s \in 1 .. n + 1 /\ s + 1 \in 1 .. n + 1 /\ n + 1 \in 1 .. n + 1
    BY <1>3
  <2>2. start[1] = 1 /\ start \in [1 .. n + 1 -> Nat] /\ start[s + 1] = start[s] + Lens(sections)[s]
    BY <1>3 DEF Starts
  <2>3. QED
    BY <2>1, <2>2
<1>6. start[1] <= start[s] /\ start[s + 1] <= start[n + 1]
  <2>1. \A x, y \in 1 .. n + 1 : x <= y => start[x] <= start[y]
    BY <1>3, StartsGrow
  <2>2. 1 \in 1 .. n + 1 /\ s \in 1 .. n + 1 /\ s + 1 \in 1 .. n + 1 /\ n + 1 \in 1 .. n + 1
        /\ 1 <= s /\ s + 1 <= n + 1
    BY <1>3
  <2>3. QED
    BY <2>1, <2>2
<1> DEFINE i == start[s] + 1
<1>7. i \in 1 .. Len(flat) /\ Len(flat) \in Nat
  <2> DEFINE x == start[s]
             y == start[s + 1]
             z == start[n + 1]
             l == Len(sections[s].rows)
  <2>1. x \in Nat /\ y \in Nat /\ z \in Nat /\ l \in Nat /\ l # 0 /\ 1 <= x /\ y <= z /\ y = x + (1 + l)
    BY <1>3, <1>5, <1>6
  <2>2. i = x + 1 /\ Len(flat) = z - 1
    BY <1>4
  <2> HIDE DEF x, y, z, l
  <2>3. QED
    BY <2>1, <2>2
<1>8. flat # <<>> /\ DOMAIN flat = 1 .. Len(flat)
  BY <1>4, <1>7
<1>9. flat[1].header = TRUE
  <2>1. flat[start[1]] = HeaderEntry(sections[1])
    BY <1>4, <1>5
  <2>2. QED
    BY <1>5, <2>1 DEF HeaderEntry
<1>10. flat[i].header = FALSE
  <2>1. 1 \in 1 .. Len(sections[s].rows)
    BY <1>3
  <2>2. flat[start[s] + 1] = RowEntry(sections[s].rows[1])
    BY <1>3, <1>4, <2>1
  <2>3. QED
    BY <2>2 DEF RowEntry
<1>11. QED
  BY <1>1, <1>4, <1>7, <1>8, <1>9, <1>10 DEF flat

-----------------------------------------------------------------------------
(* Where the caller's sections and rows are in the list being shown *)

(* Marks and folds come and go, headers and radio sections stay. *)
SameLayout(a, b) ==
    /\ b \in Seq(Entry) /\ DOMAIN a = DOMAIN b
    /\ \A i \in DOMAIN a : a[i].header = b[i].header /\ a[i].radio = b[i].radio

Place(s, j) == StartOf(given)[s] + j

(* Sections follow one another, header first. *)
LEMMA PlaceOrder ==
    ASSUME given \in Seq(Sections)
    PROVE  /\ \A s \in DOMAIN given, j \in Nat : Place(s, j) \in Nat /\ Place(s, j) = Place(s, 0) + j
           /\ \A s, t \in DOMAIN given : \A j \in {0} \cup DOMAIN given[s].rows :
                 s < t => Place(s, j) < Place(t, 0)
<1> DEFINE n == Len(given)
           start == StartOf(given)
           lens == Lens(given)
<1>1. /\ n \in Nat /\ lens \in [1 .. n -> Nat] /\ Starts(n, lens, start) /\ DOMAIN given = 1 .. n
      /\ \A s \in 1 .. n : lens[s] = 1 + Len(given[s].rows) /\ Len(given[s].rows) \in Nat
                           /\ DOMAIN given[s].rows = 1 .. Len(given[s].rows)
  BY Plan
<1>2. \A s, j : Place(s, j) = start[s] + j
  BY DEF Place
<1> HIDE DEF n, start, lens
<1>3. \A s \in 1 .. n + 1 : start[s] \in Nat
  BY <1>1 DEF Starts
<1>4. \A s, t \in 1 .. n + 1 : s <= t => start[s] <= start[t]
  BY <1>1, StartsGrow
<1>5. ASSUME NEW s \in DOMAIN given, NEW j \in Nat
      PROVE  Place(s, j) \in Nat /\ Place(s, j) = Place(s, 0) + j
  <2>1. start[s] \in Nat
    BY <1>1, <1>3
  <2>2. QED
    BY <1>2, <2>1
<1>6. ASSUME NEW s \in DOMAIN given, NEW t \in DOMAIN given,
             NEW j \in {0} \cup DOMAIN given[s].rows, s < t
      PROVE  Place(s, j) < Place(t, 0)
  <2>1. /\ s \in 1 .. n /\ s + 1 \in 1 .. n + 1 /\ t \in 1 .. n + 1 /\ s + 1 <= t
        /\ s \in 1 .. n + 1
    BY <1>1, <1>6
  <2>2. start[s + 1] <= start[t] /\ start[s] \in Nat /\ start[t] \in Nat
    BY <1>3, <1>4, <2>1
  <2>3. start[s + 1] = start[s] + lens[s] /\ lens[s] \in Nat /\ j \in Nat /\ j < lens[s]
    <3>1. start[s + 1] = start[s] + lens[s]
      BY <1>1, <2>1 DEF Starts
    <3>2. lens[s] = 1 + Len(given[s].rows) /\ Len(given[s].rows) \in Nat
          /\ j \in {0} \cup (1 .. Len(given[s].rows))
      BY <1>1, <2>1
    <3>3. QED
      BY <3>1, <3>2
  <2>4. QED
    BY <1>2, <2>2, <2>3
<1>7. QED
  BY <1>5, <1>6

(* So no two entries share a place. *)
LEMMA PlaceUnique ==
    ASSUME given \in Seq(Sections), NEW s \in DOMAIN given, NEW t \in DOMAIN given,
           NEW j \in {0} \cup DOMAIN given[s].rows, NEW k \in {0} \cup DOMAIN given[t].rows,
           Place(s, j) = Place(t, k)
    PROVE  s = t /\ j = k
<1>1. s \in Nat /\ t \in Nat /\ j \in Nat /\ k \in Nat
  BY Plan
<1>2. /\ Place(s, 0) \in Nat /\ Place(t, 0) \in Nat /\ Place(s, j) \in Nat
      /\ Place(s, j) = Place(s, 0) + j /\ Place(s, j) = Place(t, 0) + k
  <2>1. Place(s, j) = Place(s, 0) + j /\ Place(s, j) \in Nat
    BY <1>1, PlaceOrder
  <2>2. Place(t, k) = Place(t, 0) + k
    BY <1>1, PlaceOrder
  <2>3. Place(s, 0) \in Nat /\ Place(t, 0) \in Nat
    BY PlaceOrder
  <2>4. QED
    BY <2>1, <2>2, <2>3
<1>3. ~(s < t)
  <2> SUFFICES ASSUME s < t PROVE FALSE
    OBVIOUS
  <2>1. Place(s, j) < Place(t, 0)
    BY PlaceOrder
  <2>2. QED
    BY <1>1, <1>2, <2>1
<1>4. ~(t < s)
  <2> SUFFICES ASSUME t < s PROVE FALSE
    OBVIOUS
  <2>1. Place(t, k) < Place(s, 0)
    BY PlaceOrder
  <2>2. Place(s, j) < Place(s, 0)
    BY <2>1
  <2>3. QED
    BY <1>1, <1>2, <2>2
<1>5. s = t
  BY <1>1, <1>3, <1>4
<1>6. Place(s, 0) + j = Place(s, 0) + k
  BY <1>2, <1>5
<1>7. j = k
  BY <1>1, <1>2, <1>6
<1>8. QED
  BY <1>5, <1>7

HeaderAt(list, s) ==
    /\ Place(s, 0) \in DOMAIN list /\ list[Place(s, 0)].header
    /\ list[Place(s, 0)].radio = given[s].radio

RowAt(list, s, j) == Place(s, j) \in DOMAIN list /\ ~list[Place(s, j)].header

(* Whatever is marked and folded, the entries stand for the caller's sections
   and rows, in their places. *)
LEMMA Places ==
    ASSUME given \in Seq(Sections), NEW list, SameLayout(Flattened(given), list)
    PROVE  /\ \A s \in DOMAIN given : HeaderAt(list, s)
           /\ \A s \in DOMAIN given : \A j \in DOMAIN given[s].rows : RowAt(list, s, j)
           /\ \A p \in DOMAIN list : \E s \in DOMAIN given :
                 \E j \in {0} \cup DOMAIN given[s].rows : p = Place(s, j)
<1> DEFINE n == Len(given)
           start == StartOf(given)
           lens == Lens(given)
           flat == Flattened(given)
<1>1. /\ n \in Nat /\ lens \in [1 .. n -> Nat] /\ Starts(n, lens, start) /\ DOMAIN given = 1 .. n
      /\ \A s \in 1 .. n : lens[s] = 1 + Len(given[s].rows) /\ Len(given[s].rows) \in Nat
                           /\ DOMAIN given[s].rows = 1 .. Len(given[s].rows)
  BY Plan
<1>2. /\ flat \in Seq(Entry) /\ Len(flat) = start[n + 1] - 1
      /\ \A s \in 1 .. n : /\ flat[start[s]] = HeaderEntry(given[s])
                           /\ \A j \in 1 .. Len(given[s].rows) :
                                 flat[start[s] + j] = RowEntry(given[s].rows[j])
  BY FlattenedAt
<1>3. SameLayout(flat, list)
  OBVIOUS
<1>4. \A s, j : Place(s, j) = start[s] + j
  BY DEF Place
<1> HIDE DEF n, start, lens, flat
<1>5. \A s \in 1 .. n + 1 : start[s] \in Nat
  BY <1>1 DEF Starts
<1>6. \A s, t \in 1 .. n + 1 : s <= t => start[s] <= start[t]
  BY <1>1, StartsGrow
<1>7. DOMAIN flat = 1 .. start[n + 1] - 1 /\ DOMAIN list = DOMAIN flat
  BY <1>2, <1>3 DEF SameLayout
<1>8. \A s \in DOMAIN given : \A j \in {0} \cup DOMAIN given[s].rows : Place(s, j) \in DOMAIN list
  <2> TAKE s \in DOMAIN given
  <2> TAKE j \in {0} \cup DOMAIN given[s].rows
  <2>1. s \in 1 .. n /\ s \in 1 .. n + 1 /\ s + 1 \in 1 .. n + 1 /\ n + 1 \in 1 .. n + 1 /\ 1 \in 1 .. n + 1
        /\ 1 <= s /\ s + 1 <= n + 1
    BY <1>1
  <2>2. start[1] = 1 /\ start[s + 1] = start[s] + lens[s] /\ lens[s] \in Nat /\ j \in Nat /\ j < lens[s]
    <3>1. start[1] = 1 /\ start[s + 1] = start[s] + lens[s]
      BY <1>1, <2>1 DEF Starts
    <3>2. lens[s] = 1 + Len(given[s].rows) /\ Len(given[s].rows) \in Nat
          /\ j \in {0} \cup (1 .. Len(given[s].rows))
      BY <1>1, <2>1
    <3>3. QED
      BY <3>1, <3>2
  <2>3. 1 <= start[s] /\ start[s + 1] <= start[n + 1] /\ start[s] \in Nat /\ start[n + 1] \in Nat
    <3>1. start[1] <= start[s]
      BY <1>6, <2>1
    <3>2. QED
      BY <1>5, <1>6, <2>1, <2>2, <3>1
  <2>4. start[s] + j \in 1 .. start[n + 1] - 1
    BY <2>2, <2>3
  <2>5. QED
    BY <1>4, <1>7, <2>4
<1>9. ASSUME NEW s \in DOMAIN given
      PROVE  HeaderAt(list, s)
  <2>1. Place(s, 0) \in DOMAIN list /\ s \in 1 .. n /\ start[s] \in Nat
    BY <1>1, <1>5, <1>8
  <2>2. Place(s, 0) = start[s]
    BY <1>4, <2>1
  <2>3. flat[Place(s, 0)] = HeaderEntry(given[s])
    BY <1>2, <2>1, <2>2
  <2>4. list[Place(s, 0)].header = TRUE /\ list[Place(s, 0)].radio = given[s].radio
    BY <1>3, <1>7, <2>1, <2>3 DEF SameLayout, HeaderEntry
  <2>5. QED
    BY <2>1, <2>4 DEF HeaderAt
<1>10. ASSUME NEW s \in DOMAIN given, NEW j \in DOMAIN given[s].rows
       PROVE  RowAt(list, s, j)
  <2>1. Place(s, j) \in DOMAIN list /\ s \in 1 .. n /\ j \in 1 .. Len(given[s].rows)
    BY <1>1, <1>8
  <2>2. flat[Place(s, j)] = RowEntry(given[s].rows[j])
    BY <1>2, <1>4, <2>1
  <2>3. list[Place(s, j)].header = FALSE
    BY <1>3, <1>7, <2>1, <2>2 DEF SameLayout, RowEntry
  <2>4. QED
    BY <2>1, <2>3 DEF RowAt
<1>11. ASSUME NEW p \in DOMAIN list
       PROVE  \E s \in DOMAIN given : \E j \in {0} \cup DOMAIN given[s].rows : p = Place(s, j)
  <2>1. p \in 1 .. start[n + 1] - 1
    BY <1>7
  <2>2. PICK s \in 1 .. n : PartOf(start, s, p)
    BY <1>1, <2>1, StartsCover
  <2>3. /\ start[s] \in Nat /\ start[s + 1] = start[s] + lens[s] /\ lens[s] = 1 + Len(given[s].rows)
        /\ Len(given[s].rows) \in Nat /\ s \in DOMAIN given
        /\ DOMAIN given[s].rows = 1 .. Len(given[s].rows)
    BY <1>1, <1>5 DEF Starts
  <2>4. p \in Nat /\ start[s] <= p /\ p < start[s + 1]
    BY <1>5, <2>1, <2>2 DEF PartOf
  <2> DEFINE j == p - start[s]
  <2>5. j \in 0 .. Len(given[s].rows) /\ start[s] + j = p
    BY <2>3, <2>4
  <2>6. j \in {0} \cup DOMAIN given[s].rows /\ p = Place(s, j)
    BY <1>4, <2>3, <2>5
  <2>7. QED
    BY <2>3, <2>6
<1>12. QED
  BY <1>9, <1>10, <1>11

(* A row's header and a header's rows, in the caller's terms. *)
LEMMA UnderHeader ==
    ASSUME given \in Seq(Sections), SameLayout(Flattened(given), entries), NEW s \in DOMAIN given
    PROVE  RowsUnder(Place(s, 0)) = {Place(s, j) : j \in DOMAIN given[s].rows}
<1>1. DOMAIN entries = 1 .. Len(entries) /\ Len(entries) \in Nat
  BY DEF SameLayout
<1>2. s \in Nat /\ DOMAIN given \subseteq Nat /\ \A t \in DOMAIN given : DOMAIN given[t].rows \subseteq Nat \ {0}
  <2>1. /\ DOMAIN given = 1 .. Len(given) /\ Len(given) \in Nat
        /\ \A t \in 1 .. Len(given) : DOMAIN given[t].rows = 1 .. Len(given[t].rows)
    BY Plan
  <2>2. \A k \in Nat : 1 .. k \subseteq Nat \ {0}
    OBVIOUS
  <2>3. \A t \in 1 .. Len(given) : Len(given[t].rows) \in Nat
    BY Plan
  <2>4. QED
    BY <2>1, <2>2, <2>3
<1>3. \A t \in DOMAIN given : \A j \in {0} \cup DOMAIN given[t].rows :
         Place(t, j) = Place(t, 0) + j /\ Place(t, 0) \in Nat
  BY <1>2, PlaceOrder
<1>4. ASSUME NEW i \in RowsUnder(Place(s, 0))
      PROVE  i \in {Place(s, j) : j \in DOMAIN given[s].rows}
  <2>1. i \in DOMAIN entries /\ i > Place(s, 0) /\ \A k \in Place(s, 0) + 1 .. i : ~entries[k].header
    BY DEF RowsUnder, Indices
  <2>2. PICK t \in DOMAIN given : \E j \in {0} \cup DOMAIN given[t].rows : i = Place(t, j)
    BY <2>1, Places
  <2>3. PICK j \in {0} \cup DOMAIN given[t].rows : i = Place(t, j)
    BY <2>2
  <2>4. HeaderAt(entries, t)
    BY Places
  <2>5. ~(s < t)
    <3> SUFFICES ASSUME s < t PROVE FALSE
      OBVIOUS
    <3>1. Place(s, 0) < Place(t, 0)
      BY PlaceOrder
    <3>2. Place(t, 0) \in Place(s, 0) + 1 .. i
      BY <1>2, <1>3, <2>3, <3>1
    <3>3. QED
      BY <2>1, <2>4, <3>2 DEF HeaderAt
  <2>6. ~(t < s)
    <3> SUFFICES ASSUME t < s PROVE FALSE
      OBVIOUS
    <3>1. Place(t, j) < Place(s, 0)
      BY PlaceOrder
    <3>2. Place(t, j) \in Nat /\ Place(s, 0) \in Nat
      BY <1>2, PlaceOrder
    <3>3. QED
      BY <2>1, <2>3, <3>1, <3>2
  <2>7. s = t
    BY <1>2, <2>5, <2>6
  <2>8. j # 0
    BY <1>3, <2>1, <2>3, <2>7
  <2>9. QED
    BY <2>3, <2>7, <2>8
<1>5. ASSUME NEW j \in DOMAIN given[s].rows
      PROVE  Place(s, j) \in RowsUnder(Place(s, 0))
  <2>1. Place(s, j) = Place(s, 0) + j /\ Place(s, 0) \in Nat /\ j \in Nat /\ j > 0
    BY <1>2, <1>3
  <2>2. Place(s, j) \in DOMAIN entries
    BY Places DEF RowAt
  <2>3. ASSUME NEW k \in Place(s, 0) + 1 .. Place(s, j)
        PROVE  ~entries[k].header
    <3>1. k - Place(s, 0) \in 1 .. j /\ k = Place(s, 0) + (k - Place(s, 0))
      BY <2>1
    <3>2. 1 .. j \subseteq DOMAIN given[s].rows
      BY Plan
    <3> DEFINE m == k - Place(s, 0)
    <3>3. m \in DOMAIN given[s].rows /\ k = Place(s, 0) + m
      BY <3>1, <3>2
    <3> HIDE DEF m
    <3>4. k = Place(s, m)
      BY <1>3, <3>3
    <3>5. RowAt(entries, s, m)
      BY <3>3, Places
    <3>6. QED
      BY <3>4, <3>5 DEF RowAt
  <2>4. Place(s, j) > Place(s, 0)
    BY <2>1
  <2>5. QED
    BY <2>2, <2>3, <2>4 DEF RowsUnder, Indices
<1>6. QED
  BY <1>4, <1>5

(* The marks of a list of entries, by section and row. *)
MarkedIn(list) == {Coords[i] : i \in {j \in DOMAIN list : ~list[j].header /\ list[j].checked}}

(* A pair is among the marks iff its entry is checked. *)
LEMMA MarkedAt ==
    ASSUME given \in Seq(Sections), NEW list, SameLayout(Flattened(given), list)
    PROVE  /\ \A s \in DOMAIN given : \A j \in DOMAIN given[s].rows :
                 <<s, j>> \in MarkedIn(list) <=> list[Place(s, j)].checked
           /\ \A m \in MarkedIn(list) :
                 \E s \in DOMAIN given : \E j \in DOMAIN given[s].rows : m = <<s, j>>
<1>1. \A s \in DOMAIN given : \A j \in DOMAIN given[s].rows : Coords[Place(s, j)] = <<s, j>>
  BY CoordsAt, Plan DEF Place
<1>2. ASSUME NEW p \in DOMAIN list, ~list[p].header
      PROVE  \E s \in DOMAIN given : \E j \in DOMAIN given[s].rows : p = Place(s, j)
  <2>1. PICK s \in DOMAIN given : \E j \in {0} \cup DOMAIN given[s].rows : p = Place(s, j)
    BY Places
  <2>2. PICK j \in {0} \cup DOMAIN given[s].rows : p = Place(s, j)
    BY <2>1
  <2>3. j # 0
    BY <1>2, <2>2, Places DEF HeaderAt
  <2>4. QED
    BY <2>2, <2>3
<1>3. ASSUME NEW s \in DOMAIN given, NEW j \in DOMAIN given[s].rows
      PROVE  <<s, j>> \in MarkedIn(list) <=> list[Place(s, j)].checked
  <2>1. RowAt(list, s, j) /\ Coords[Place(s, j)] = <<s, j>>
    BY <1>1, Places
  <2>2. ASSUME list[Place(s, j)].checked PROVE <<s, j>> \in MarkedIn(list)
    BY <2>1, <2>2 DEF MarkedIn, RowAt
  <2>3. ASSUME <<s, j>> \in MarkedIn(list) PROVE list[Place(s, j)].checked
    <3>1. PICK p \in DOMAIN list : ~list[p].header /\ list[p].checked /\ Coords[p] = <<s, j>>
      BY <2>3 DEF MarkedIn
    <3>2. PICK t \in DOMAIN given : \E k \in DOMAIN given[t].rows : p = Place(t, k)
      BY <1>2, <3>1
    <3>3. PICK k \in DOMAIN given[t].rows : p = Place(t, k)
      BY <3>2
    <3>4. <<t, k>> = <<s, j>>
      BY <1>1, <3>1, <3>3
    <3>5. QED
      BY <3>1, <3>3, <3>4
  <2>4. QED
    BY <2>2, <2>3
<1>4. ASSUME NEW m \in MarkedIn(list)
      PROVE  \E s \in DOMAIN given : \E j \in DOMAIN given[s].rows : m = <<s, j>>
  <2>1. PICK p \in DOMAIN list : ~list[p].header /\ m = Coords[p]
    BY DEF MarkedIn
  <2>2. QED
    BY <1>1, <1>2, <2>1
<1>5. QED
  BY <1>3, <1>4

-----------------------------------------------------------------------------
(* What is handed back *)

(* into_results reads one entry. *)
ReadEntry(acc, e) ==
    IF ~e.header THEN <<acc[1], Append(acc[2], e.checked), acc[3]>>
    ELSE <<IF acc[3] THEN Append(acc[1], acc[2]) ELSE acc[1], <<>>, TRUE>>

Accs == Seq(Seq(BOOLEAN)) \X Seq(BOOLEAN) \X BOOLEAN

NoneRead == <<<<>>, <<>>, FALSE>>

Reading(list, iter) ==
    \A s \in SUBSET DOMAIN list :
        iter[s] = IF s = {} THEN NoneRead ELSE ReadEntry(iter[s \ {Max(s)}], list[Max(s)])

ReadAll(last) == IF last[3] THEN Append(last[1], last[2]) ELSE last[1]

(* Reading an entry yields an accumulator. *)
LEMMA ReadType ==
    ASSUME NEW acc \in Accs, NEW e \in Entry
    PROVE  ReadEntry(acc, e) \in Accs
<1>1. acc[1] \in Seq(Seq(BOOLEAN)) /\ acc[2] \in Seq(BOOLEAN) /\ acc[3] \in BOOLEAN /\ e.checked \in BOOLEAN
  BY DEF Accs, Entry
<1>2. Append(acc[2], e.checked) \in Seq(BOOLEAN) /\ Append(acc[1], acc[2]) \in Seq(Seq(BOOLEAN))
  BY <1>1
<1>3. <<>> \in Seq(BOOLEAN)
  OBVIOUS
<1>4. QED
  BY <1>1, <1>2, <1>3 DEF ReadEntry, Accs

(* into_results reads the entries one by one. *)
LEMMA IntoRun ==
    ASSUME NEW list \in Seq(Entry)
    PROVE  \E iter : Reading(list, iter) /\ IntoResults(list) = ReadAll(iter[DOMAIN list])
<1> DEFINE n == Len(list)
           Steps(iter) == [s \in SUBSET DOMAIN list |->
                              IF s = {} THEN NoneRead ELSE ReadEntry(iter[s \ {Max(s)}], list[Max(s)])]
<1>1. n \in Nat /\ DOMAIN list = 1 .. n /\ \A i \in 1 .. n : list[i] \in Entry
  OBVIOUS
<1>2. \E iter : iter = Steps(iter)
  <2> DEFINE step == [p \in Accs \X (1 .. n) |-> ReadEntry(p[1], list[p[2]])]
  <2>1. step \in [Accs \X (1 .. n) -> Accs]
    BY <1>1, ReadType
  <2>2. NoneRead \in Accs
    <3>1. <<>> \in Seq(Seq(BOOLEAN)) /\ <<>> \in Seq(BOOLEAN) /\ FALSE \in BOOLEAN
      OBVIOUS
    <3>2. QED
      BY <3>1 DEF NoneRead, Accs
  <2> HIDE DEF step
  <2>3. PICK run \in [SUBSET (1 .. n) -> Accs] : Runs(n, NoneRead, step, run)
    BY <1>1, <2>1, <2>2, FoldRun
  <2>4. ASSUME NEW s \in SUBSET (1 .. n), s # {}
        PROVE  run[s] = ReadEntry(run[s \ {Max(s)}], list[Max(s)])
    <3>1. s \in SUBSET (0 .. n)
      OBVIOUS
    <3>2. Max(s) \in s
      BY <1>1, <2>4, <3>1, LargestOf
    <3>3. Max(s) \in 1 .. n /\ s \ {Max(s)} \in SUBSET (1 .. n)
      BY <3>2
    <3>4. run[s \ {Max(s)}] \in Accs
      BY <2>3, <3>3
    <3>5. run[s] = step[<<run[s \ {Max(s)}], Max(s)>>]
      BY <2>3, <2>4 DEF Runs
    <3>6. QED
      BY <3>3, <3>4, <3>5 DEF step
  <2>5. run[{}] = NoneRead
    BY <2>3 DEF Runs
  <2>6. run = Steps(run)
    BY <1>1, <2>3, <2>4, <2>5
  <2>7. QED
    BY <2>6
<1> DEFINE iter == CHOOSE iter : iter = Steps(iter)
<1>3. iter = Steps(iter)
  BY <1>2
<1>4. IntoResults(list) = ReadAll(iter[DOMAIN list])
  BY DEF IntoResults, ReadAll, FoldLeft, MapThenFoldSet, ReadEntry, NoneRead
<1> HIDE DEF iter
<1>5. Reading(list, iter)
  BY <1>3 DEF Reading
<1>6. QED
  BY <1>4, <1>5

RowsRead(list, s) == [j \in 1 .. Len(given[s].rows) |-> list[Place(s, j)].checked]

SectionsRead(list) == [s \in 1 .. Len(given) |-> RowsRead(list, s)]

(* What has been read up to a row: the sections before, and its own so far. *)
ReadTo(list, s, j) ==
    <<Upto(SectionsRead(list), s - 1), Upto(RowsRead(list, s), j), TRUE>>

(* One place after the other. *)
LEMMA NextPlace ==
    ASSUME given \in Seq(Sections), NEW s \in DOMAIN given
    PROVE  /\ s = 1 => Place(s, 0) = 1
           /\ s # 1 => /\ s - 1 \in DOMAIN given
                       /\ Place(s, 0) = Place(s - 1, Len(given[s - 1].rows)) + 1
           /\ s = Len(given) => Len(Flattened(given)) = Place(s, Len(given[s].rows))
<1> DEFINE n == Len(given)
           start == StartOf(given)
           lens == Lens(given)
<1>1. /\ n \in Nat /\ lens \in [1 .. n -> Nat] /\ Starts(n, lens, start) /\ DOMAIN given = 1 .. n
      /\ \A t \in 1 .. n : lens[t] = 1 + Len(given[t].rows) /\ Len(given[t].rows) \in Nat
  BY Plan
<1>2. Len(Flattened(given)) = start[n + 1] - 1
  BY FlattenedAt
<1>3. \A t, j : Place(t, j) = start[t] + j
  BY DEF Place
<1>4. s = n <=> s = Len(given)
  OBVIOUS
<1> HIDE DEF n, start, lens
<1>5. \A t \in 1 .. n : /\ start[t] \in Nat /\ start[t + 1] = start[t] + 1 + Len(given[t].rows)
                        /\ Len(given[t].rows) \in Nat
  <2> TAKE t \in 1 .. n
  <2>1. t \in 1 .. n + 1
    BY <1>1
  <2>2. start[t] \in Nat
    BY <1>1, <2>1 DEF Starts
  <2>3. start[t + 1] = start[t] + lens[t]
    BY <1>1 DEF Starts
  <2>4. lens[t] = 1 + Len(given[t].rows) /\ Len(given[t].rows) \in Nat
    BY <1>1
  <2> DEFINE a == start[t]
             l == Len(given[t].rows)
  <2>5. a \in Nat /\ l \in Nat
    BY <2>2, <2>4
  <2> HIDE DEF a, l
  <2>6. a + (1 + l) = a + 1 + l
    BY <2>5
  <2>7. QED
    BY <2>2, <2>3, <2>4, <2>6 DEF a, l
<1>6. s = 1 => Place(s, 0) = 1
  <2>1. start[1] = 1
    BY <1>1 DEF Starts
  <2>2. QED
    BY <1>3, <2>1
<1>7. ASSUME s # 1
      PROVE  /\ s - 1 \in DOMAIN given
             /\ Place(s, 0) = Place(s - 1, Len(given[s - 1].rows)) + 1
  <2>1. s - 1 \in 1 .. n /\ s - 1 + 1 = s
    BY <1>1, <1>7
  <2>2. /\ start[s - 1] \in Nat /\ start[s - 1 + 1] = start[s - 1] + 1 + Len(given[s - 1].rows)
        /\ Len(given[s - 1].rows) \in Nat
    BY <1>5, <2>1
  <2> DEFINE t == s - 1
             a == start[t]
             l == Len(given[t].rows)
  <2>3. start[s] = a + 1 + l /\ a \in Nat /\ l \in Nat
    BY <2>1, <2>2
  <2>4. Place(s, 0) = start[s] + 0 /\ Place(t, l) = a + l
    BY <1>3
  <2>5. t \in DOMAIN given
    BY <1>1, <2>1
  <2> HIDE DEF t, a, l
  <2>6. Place(s, 0) = Place(t, l) + 1
    BY <2>3, <2>4
  <2>7. QED
    BY <2>5, <2>6 DEF t, l
<1>8. s = n => Len(Flattened(given)) = Place(s, Len(given[s].rows))
  <2> DEFINE a == start[s]
             l == Len(given[s].rows)
  <2>1. a \in Nat /\ start[s + 1] = a + 1 + l /\ l \in Nat
    BY <1>1, <1>5
  <2>2. Place(s, l) = a + l
    BY <1>3
  <2> HIDE DEF a, l
  <2>3. s = n => Len(Flattened(given)) = Place(s, l)
    BY <1>2, <2>1, <2>2
  <2>4. QED
    BY <2>3 DEF l
<1>9. QED
  BY <1>4, <1>6, <1>7, <1>8

(* into_results hands back one list per section, a flag per row. *)
LEMMA IntoResultsAre ==
    ASSUME given \in Seq(Sections), NEW list \in Seq(Entry), list # <<>>,
           SameLayout(Flattened(given), list)
    PROVE  IntoResults(list) = SectionsRead(list)
<1> DEFINE n == Len(list)
<1>1. /\ n \in Nat /\ n # 0 /\ DOMAIN list = 1 .. n /\ Len(Flattened(given)) = n
      /\ \A p \in 1 .. n : list[p] \in Entry
  <2> DEFINE flat == Flattened(given)
  <2>1. flat \in Seq(Entry) /\ DOMAIN flat = DOMAIN list
    BY FlattenedAt DEF SameLayout
  <2> HIDE DEF flat
  <2>2. Len(flat) \in Nat /\ DOMAIN flat = 1 .. Len(flat) /\ DOMAIN list = 1 .. n /\ n \in Nat
    BY <2>1
  <2>3. Len(flat) = n
    <3> DEFINE m == Len(flat)
    <3> HIDE DEF m, n
    <3>1. m \in Nat /\ n \in Nat /\ 1 .. m = 1 .. n
      BY <2>1, <2>2 DEF m
    <3>2. m <= n /\ n <= m
      <4>1. m # 0 => m \in 1 .. n
        BY <3>1
      <4>2. n # 0 => n \in 1 .. m
        BY <3>1
      <4>3. QED
        BY <3>1, <4>1, <4>2
    <3>3. QED
      BY <3>1, <3>2 DEF m
  <2>4. n # 0 /\ \A p \in 1 .. n : list[p] \in Entry
    BY <2>2
  <2>5. QED
    BY <2>2, <2>3, <2>4 DEF flat
<1>2. PICK iter : Reading(list, iter) /\ IntoResults(list) = ReadAll(iter[DOMAIN list])
  BY IntoRun
<1> HIDE DEF n
<1>3. iter[{}] = NoneRead
  BY <1>2 DEF Reading
<1>4. ASSUME NEW p \in 1 .. n
      PROVE  iter[1 .. p] = ReadEntry(iter[1 .. p - 1], list[p])
  <2>1. 1 .. p \in SUBSET DOMAIN list /\ 1 .. p \in SUBSET (1 .. p) /\ p \in 1 .. p /\ p \in Nat \ {0}
        /\ (1 .. p) \ {p} = 1 .. p - 1 /\ 1 .. p # {}
    <3>1. p \in Nat \ {0} /\ p \in 1 .. p /\ p <= n
      BY <1>1
    <3>2. (1 .. p) \ {p} = 1 .. p - 1
      BY <3>1
    <3>3. \A i \in 1 .. p : i \in 1 .. n
      BY <1>1, <3>1
    <3>4. QED
      BY <1>1, <3>1, <3>2, <3>3
  <2>2. Max(1 .. p) = p
    BY <2>1, LastOfInterval
  <2>3. QED
    BY <1>2, <2>1, <2>2 DEF Reading
<1>5. /\ DOMAIN given = 1 .. Len(given) /\ Len(given) \in Nat
      /\ \A s \in DOMAIN given : /\ DOMAIN given[s].rows = 1 .. Len(given[s].rows)
                                  /\ Len(given[s].rows) \in Nat
  BY Plan
<1>6. \A s \in DOMAIN given : \A j \in {0} \cup DOMAIN given[s].rows :
         /\ Place(s, j) \in 1 .. n
         /\ list[Place(s, j)].header <=> j = 0
  BY <1>1, Places DEF HeaderAt, RowAt
<1> DEFINE Right(p) == \A s \in DOMAIN given : \A j \in {0} \cup DOMAIN given[s].rows :
                          p = Place(s, j) => iter[1 .. p] = ReadTo(list, s, j)
           T == {p \in 0 .. n : p = 0 \/ Right(p)}
<1>7. 0 \in T
  BY <1>1
<1>8. ASSUME NEW q \in 0 .. n - 1, q \in T
      PROVE  q + 1 \in T
  <2> SUFFICES ASSUME NEW s \in DOMAIN given, NEW j \in {0} \cup DOMAIN given[s].rows,
                      q + 1 = Place(s, j)
               PROVE  iter[1 .. q + 1] = ReadTo(list, s, j)
    BY <1>1
  <2>1. q + 1 \in 1 .. n /\ q + 1 - 1 = q /\ s \in Nat /\ j \in Nat
    BY <1>1, <1>5
  <2>2. iter[1 .. q + 1] = ReadEntry(iter[1 .. q], list[q + 1])
    BY <1>4, <2>1
  <2>3. CASE j # 0
    <3>1. j - 1 \in {0} \cup DOMAIN given[s].rows /\ j \in 1 .. Len(given[s].rows)
          /\ j - 1 \in Nat /\ j - 1 + 1 = j
      BY <1>5, <2>1, <2>3
    <3>2. Place(s, j - 1) = q
      <4>1. Place(s, j) = Place(s, 0) + j /\ Place(s, j - 1) = Place(s, 0) + (j - 1) /\ Place(s, 0) \in Nat
        BY <2>1, <3>1, PlaceOrder
      <4>2. QED
        BY <2>1, <4>1
    <3>3. q # 0
      BY <1>6, <3>1, <3>2
    <3>4. iter[1 .. q] = ReadTo(list, s, j - 1)
      BY <1>8, <3>1, <3>2, <3>3
    <3>5. ~list[q + 1].header
      BY <1>6, <2>3
    <3>6. iter[1 .. q + 1] = <<Upto(SectionsRead(list), s - 1),
                               Append(Upto(RowsRead(list, s), j - 1), list[q + 1].checked), TRUE>>
      <4> DEFINE a == Upto(SectionsRead(list), s - 1)
               b == Upto(RowsRead(list, s), j - 1)
               e == list[q + 1]
    <4>1. iter[1 .. q] = <<a, b, TRUE>> /\ ~e.header
      BY <3>4, <3>5 DEF ReadTo
    <4>2. iter[1 .. q + 1] = ReadEntry(<<a, b, TRUE>>, e)
      BY <2>2, <4>1
    <4> HIDE DEF a, b, e
    <4>3. ReadEntry(<<a, b, TRUE>>, e) = <<a, Append(b, e.checked), TRUE>>
      BY <4>1 DEF ReadEntry
    <4>4. QED
      BY <4>2, <4>3 DEF a, b, e
    <3>7. RowsRead(list, s)[j] = list[q + 1].checked
      BY <3>1 DEF RowsRead
    <3> DEFINE f == RowsRead(list, s)
    <3>10. j \in Nat \ {0}
      BY <2>1, <2>3
    <3> HIDE DEF f
    <3>11. Append(Upto(f, j - 1), f[j]) = Upto(f, j)
      BY <3>10, UptoNext
    <3>8. Append(Upto(RowsRead(list, s), j - 1), RowsRead(list, s)[j]) = Upto(RowsRead(list, s), j)
      BY <3>11 DEF f
    <3>9. QED
      BY <3>6, <3>7, <3>8 DEF ReadTo
  <2>4. CASE j = 0
    <3>1. list[q + 1].header
      BY <1>6, <2>4
    <3>2. Upto(RowsRead(list, s), 0) = <<>>
      BY UptoNone
    <3>3. CASE s = 1
      <4>1. q = 0 /\ 1 .. q = {}
        <5>1. Place(s, 0) = 1
          BY <3>3, NextPlace
        <5>2. QED
          BY <2>1, <2>4, <5>1
      <4>2. iter[1 .. q] = NoneRead
        BY <1>3, <4>1
      <4>3. iter[1 .. q + 1] = <<<<>>, <<>>, TRUE>>
        <5> DEFINE e == list[q + 1]
        <5>1. iter[1 .. q + 1] = ReadEntry(<<<<>>, <<>>, FALSE>>, e) /\ e.header
          BY <2>2, <3>1, <4>2 DEF NoneRead
        <5> HIDE DEF e
        <5>2. ReadEntry(<<<<>>, <<>>, FALSE>>, e) = <<<<>>, <<>>, TRUE>>
          BY <5>1 DEF ReadEntry
        <5>3. QED
          BY <5>1, <5>2
      <4>4. Upto(SectionsRead(list), s - 1) = <<>>
        BY <3>3, UptoNone
      <4>5. QED
        BY <2>4, <3>2, <4>3, <4>4 DEF ReadTo
    <3>4. CASE s # 1
      <4> DEFINE t == s - 1
                 k == Len(given[t].rows)
      <4>1. t \in DOMAIN given /\ Place(s, 0) = Place(t, k) + 1 /\ t \in 1 .. Len(given)
        BY <1>5, <3>4, NextPlace
      <4>2. k \in {0} \cup DOMAIN given[t].rows /\ k \in Nat /\ t \in Nat
        BY <1>5, <4>1
      <4>3. s - 1 = t /\ t - 1 \in Nat /\ t - 1 + 1 = t
        BY <1>5, <4>1
      <4> HIDE DEF t, k
      <4>4. q = Place(t, k) /\ q # 0
        <5>1. Place(t, k) \in 1 .. n
          BY <1>6, <4>1, <4>2
        <5>2. QED
          BY <1>1, <2>1, <2>4, <4>1, <5>1
      <4>5. iter[1 .. q] = ReadTo(list, t, k)
        BY <1>8, <4>1, <4>2, <4>4
      <4>6. iter[1 .. q + 1] =
               <<Append(Upto(SectionsRead(list), t - 1), Upto(RowsRead(list, t), k)), <<>>, TRUE>>
        <5> DEFINE a == Upto(SectionsRead(list), t - 1)
                   b == Upto(RowsRead(list, t), k)
                   e == list[q + 1]
        <5>1. iter[1 .. q] = <<a, b, TRUE>> /\ e.header
          BY <3>1, <4>5 DEF ReadTo
        <5>2. iter[1 .. q + 1] = ReadEntry(<<a, b, TRUE>>, e)
          BY <2>2, <5>1
        <5> HIDE DEF a, b, e
        <5>3. ReadEntry(<<a, b, TRUE>>, e) = <<Append(a, b), <<>>, TRUE>>
          BY <5>1 DEF ReadEntry
        <5>4. QED
          BY <5>2, <5>3 DEF a, b
      <4>7. Upto(RowsRead(list, t), k) = RowsRead(list, t)
        BY DEF Upto, RowsRead, k
      <4>8. SectionsRead(list)[t] = RowsRead(list, t)
        BY <4>1 DEF SectionsRead
      <4>9. Append(Upto(SectionsRead(list), t - 1), SectionsRead(list)[t]) = Upto(SectionsRead(list), t)
        <5> DEFINE f == SectionsRead(list)
        <5>1. t \in Nat \ {0}
          BY <4>2, <4>3
        <5> HIDE DEF f
        <5>2. Append(Upto(f, t - 1), f[t]) = Upto(f, t)
          BY <5>1, UptoNext
        <5>3. QED
          BY <5>2 DEF f
      <4>10. QED
        BY <2>4, <3>2, <4>3, <4>6, <4>7, <4>8, <4>9 DEF ReadTo
    <3>5. QED
      BY <3>3, <3>4
  <2>5. QED
    BY <2>3, <2>4
<1> HIDE DEF T
<1>9. n \in T
  BY <1>1, <1>7, <1>8, InductionTo
<1>10. Right(n)
  BY <1>1, <1>9 DEF T
<1> HIDE DEF Right
<1> DEFINE s == Len(given)
           k == Len(given[s].rows)
<1>11. s \in DOMAIN given /\ s \in Nat /\ s - 1 \in Nat /\ s - 1 + 1 = s
  <2>1. \E t \in DOMAIN given : TRUE
    BY <1>1, Places
  <2>2. QED
    BY <1>5, <2>1
<1>12. k \in {0} \cup DOMAIN given[s].rows /\ n = Place(s, k)
  BY <1>1, <1>5, <1>11, NextPlace
<1> HIDE DEF s, k
<1>13. iter[1 .. n] = ReadTo(list, s, k)
  BY <1>10, <1>11, <1>12 DEF Right
<1>14. IntoResults(list) = Append(Upto(SectionsRead(list), s - 1), Upto(RowsRead(list, s), k))
  BY <1>1, <1>2, <1>13 DEF ReadAll, ReadTo
<1>15. Upto(RowsRead(list, s), k) = RowsRead(list, s)
  BY DEF Upto, RowsRead, k
<1>16. SectionsRead(list)[s] = RowsRead(list, s)
  BY <1>5, <1>11 DEF SectionsRead
<1>17. Append(Upto(SectionsRead(list), s - 1), SectionsRead(list)[s]) = Upto(SectionsRead(list), s)
  <2> DEFINE f == SectionsRead(list)
  <2>1. s \in Nat \ {0}
    BY <1>11
  <2> HIDE DEF f
  <2>2. Append(Upto(f, s - 1), f[s]) = Upto(f, s)
    BY <2>1, UptoNext
  <2>3. QED
    BY <2>2 DEF f
<1>18. Upto(SectionsRead(list), s) = SectionsRead(list)
  BY DEF Upto, SectionsRead, s
<1>19. QED
  BY <1>14, <1>15, <1>16, <1>17, <1>18

-----------------------------------------------------------------------------
(* The invariant, and what it gives *)

Inv == TypeOK /\ FocusKept

(* A list with the headers of the one the caller gave has its layout. *)
LEMMA LayoutOK ==
    ASSUME NEW sections \in Inputs, NEW list, SameLayout(Flattened(sections), list)
    PROVE  Layout(list)
<1> DEFINE first == Flattened(sections)
<1>1. /\ first \in Seq(Entry) /\ first # <<>> /\ first[1].header
      /\ \E i \in DOMAIN first : ~first[i].header
  BY FlattenedLayout
<1> HIDE DEF first
<1>2. SameLayout(first, list)
  BY DEF first
<1>3. 1 \in DOMAIN first
  BY <1>1
<1>4. QED
  BY <1>1, <1>2, <1>3 DEF SameLayout, Layout

(* The invariant in the form the steps use. *)
LEMMA InvGives ==
    ASSUME Inv
    PROVE  /\ Layout(entries) /\ Kept(entries, visible, stops, cursor)
           /\ cursor \in DOMAIN entries /\ DOMAIN entries = 1 .. Len(entries)
           /\ Len(entries) \in Nat
           /\ \A i \in DOMAIN entries : IsHeaderOf(entries, HeaderOf(i), i) /\ HeaderOf(i) \in 1 .. i
           /\ Current \in DOMAIN entries /\ entries[Current].header
<1>1. Layout(entries)
  <2>1. SameLayout(Flattened(given), entries) /\ given \in Inputs
    BY DEF Inv, TypeOK, SameLayout, Indices
  <2>2. QED
    BY <2>1, LayoutOK
<1>2. DOMAIN entries = 1 .. Len(entries) /\ Len(entries) \in Nat
  BY <1>1 DEF Layout
<1>3. \A i \in DOMAIN entries : IsHeaderOf(entries, HeaderOf(i), i)
  BY <1>1, HeaderExists DEF HeaderOf, HeaderIn
<1>4. Kept(entries, visible, stops, cursor)
  <2>1. visible = {i \in DOMAIN entries : entries[i].header \/ ~entries[HeaderIn(entries, i)].collapsed}
    BY DEF Inv, FocusKept, Indices, HeaderOf, HeaderIn
  <2>2. ShownIn(entries, visible)
    BY <1>1, <2>1, ShownSet
  <2>3. QED
    BY <2>2 DEF Kept, Inv, FocusKept
<1>5. cursor \in DOMAIN entries
  BY <1>4 DEF Kept, StopsOf
<1>6. Current \in DOMAIN entries /\ entries[Current].header
  BY <1>2, <1>3, <1>5 DEF Current, IsHeaderOf
<1>7. QED
  BY <1>1, <1>2, <1>3, <1>4, <1>5, <1>6 DEF IsHeaderOf

(* What each action leaves true; the invariant follows. *)
Leaves ==
    /\ given' = given
    /\ SameLayout(entries, entries')
    /\ Kept(entries', visible', stops', cursor')
    /\ scroll' \in Nat /\ height' \in Nat
    /\ error' \in BOOLEAN
    /\ phase' \in {"draw", "key", "preview", "confirmed", "cancelled"}

(* An action that leaves these facts keeps the invariant. *)
LEMMA LeavesInv ==
    ASSUME Inv, Leaves
    PROVE  Inv'
<1>1. /\ given' \in Inputs
      /\ SameLayout(Flattened(given'), entries')
  BY DEF Inv, TypeOK, Leaves, SameLayout, Indices
<1>2. Layout(entries')
  BY <1>1, LayoutOK
<1>3. visible' = {i \in DOMAIN entries' :
                    entries'[i].header \/ ~entries'[HeaderIn(entries', i)].collapsed}
  BY <1>2, ShownSet DEF Leaves, Kept
<1>4. FocusKept'
  BY <1>3 DEF FocusKept, HeaderOf, HeaderIn, Indices, Leaves, Kept
<1>5. TypeOK'
  BY <1>1 DEF TypeOK, Leaves, SameLayout, Kept, ShownIn, Indices
<1>6. QED
  BY <1>4, <1>5 DEF Inv

-----------------------------------------------------------------------------
(* Steps *)

(* A list has its own layout and folds. *)
LEMMA SameListLayout ==
    ASSUME entries \in Seq(Entry)
    PROVE  SameLayout(entries, entries) /\ SameFolds(entries, entries)
  BY DEF SameLayout, SameFolds

(* A step that leaves the list and its folds alone. *)
LEMMA StandsStill ==
    ASSUME Inv, entries' = entries, visible' = visible, stops' = stops, cursor' = cursor
    PROVE  SameLayout(entries, entries') /\ Kept(entries', visible', stops', cursor')
  BY InvGives, SameListLayout DEF Inv, TypeOK

(* Moving to another stop. *)
LEMMA MoveLeaves ==
    ASSUME Inv, NEW i \in stops, Move(i)
    PROVE  Leaves
<1>1. i \in DOMAIN entries
  BY InvGives DEF Kept, StopsOf
<1>2. HeaderOf(i) \in Int /\ i \in Int /\ HeaderOf(i) <= i
  BY <1>1, InvGives
<1>3. scroll \in Nat /\ height \in Nat
  BY DEF Inv, TypeOK
<1>4. scroll' \in Nat
  BY <1>2, <1>3, EnsuredLine DEF Move
<1>5. Kept(entries', visible', stops', cursor') /\ SameLayout(entries, entries')
  BY InvGives, SameListLayout DEF Move, Kept, Inv, TypeOK
<1>6. QED
  BY <1>3, <1>4, <1>5 DEF Move, Key, KeyPressed, Leaves

(* Keys that mark: toggle, toggle all, Backspace. *)
LEMMA MarksLeaves ==
    ASSUME Inv, NEW list, SameFolds(entries, list), Marks(list)
    PROVE  Leaves
<1>1. Kept(entries', visible', stops', cursor')
  BY InvGives, MarksKeep DEF Marks
<1>2. SameLayout(entries, entries')
  BY DEF Marks, SameFolds, SameLayout
<1>3. QED
  BY <1>1, <1>2 DEF Marks, Key, KeyPressed, Leaves, Inv, TypeOK

(* Collapsing and expanding. *)
LEMMA FoldLeaves ==
    ASSUME Inv, NEW c \in BOOLEAN, NEW target \in DOMAIN entries,
           Fold(c, Unfolded(entries, Current, c, visible), target)
    PROVE  Leaves
<1> DEFINE list == Folded(entries, Current, c)
           shown == Unfolded(entries, Current, c, visible)
<1>1. /\ entries' = list /\ visible' = shown
      /\ stops' = StopsOf(list, shown) /\ cursor' = Focus(stops', target)
      /\ scroll' = Ensured(list, shown, cursor', HeaderOf(cursor'), scroll, height)
  BY DEF Fold, Folded
<1>2. Layout(list) /\ ShownIn(list, shown)
  BY InvGives, FoldShows DEF Kept
<1>3. SameLayout(entries, list)
  <2>1. entries \in Seq(Entry) /\ Current \in DOMAIN entries
    BY InvGives DEF Layout
  <2>2. /\ list \in Seq(Entry) /\ DOMAIN list = DOMAIN entries
        /\ \A i \in DOMAIN entries :
              list[i].header = entries[i].header /\ list[i].radio = entries[i].radio
    BY <2>1, FoldedList
  <2> HIDE DEF list
  <2>3. QED
    BY <2>2 DEF SameLayout
<1> HIDE DEF list, shown
<1>4. StopsOf(list, shown) # {} /\ StopsOf(list, shown) \subseteq DOMAIN entries
  BY <1>2, <1>3, StopExists DEF SameLayout
<1>5. cursor' \in stops' /\ cursor' \in DOMAIN entries
  BY <1>1, <1>4, InvGives, FocusStops
<1>6. HeaderOf(cursor') \in Int /\ cursor' \in Int /\ HeaderOf(cursor') <= cursor'
  BY <1>5, InvGives
<1>7. scroll \in Nat /\ height \in Nat
  BY DEF Inv, TypeOK
<1>8. scroll' \in Nat
  BY <1>1, <1>6, <1>7, EnsuredLine
<1>9. QED
  BY <1>1, <1>2, <1>3, <1>5, <1>7, <1>8 DEF Fold, Key, KeyPressed, Leaves, Kept

(* The height of a frame is a natural number, and what a draw does to scroll. *)
LEMMA DrawScrolls ==
    ASSUME Inv, Draw
    PROVE  /\ height' \in Nat /\ scroll' \in Nat
           /\ height' > 0 => /\ scroll' <= LineOf(entries, visible, cursor)
                             /\ LineOf(entries, visible, cursor) < scroll' + height'
<1>1. /\ height' \in Nat
      /\ scroll' = Ensured(entries, visible, cursor, Current, scroll, height')
  <2>1. Banner \in Nat
    BY DEF Banner
  <2>2. QED
    BY <2>1, HeightsAssumption DEF Draw
<1>2. cursor \in Int /\ Current \in Int /\ Current <= cursor
  BY InvGives DEF Current
<1>3. scroll \in Nat
  BY DEF Inv, TypeOK
<1>4. QED
  BY <1>1, <1>2, <1>3, EnsuredLine

(* A new picker has its cursor on the first stop. *)
LEMMA InitInv ==
    ASSUME Init
    PROVE  Inv
<1>1. /\ given \in Inputs /\ entries = Flattened(given)
      /\ stops = StopsOf(entries, visible) /\ cursor = Min(stops)
      /\ visible = {i \in DOMAIN entries :
                       entries[i].header \/ ~entries[HeaderIn(entries, i)].collapsed}
  BY DEF Init, HeaderOf, HeaderIn
<1>2. entries \in Seq(Entry)
  BY <1>1, FlattenedLayout
<1>3. Layout(entries)
  BY <1>1, <1>2, LayoutOK DEF SameLayout
<1>4. ShownIn(entries, visible)
  BY <1>1, <1>3, ShownSet
<1>5. cursor \in stops
  <2>1. stops # {} /\ stops \subseteq DOMAIN entries
    BY <1>1, <1>3, <1>4, StopExists
  <2>2. stops \in SUBSET Nat
    BY <1>2, <2>1
  <2>3. QED
    BY <1>1, <2>1, <2>2, SmallestOf
<1>6. FocusKept
  BY <1>1, <1>5 DEF FocusKept, HeaderOf, HeaderIn, Indices
<1>7. TypeOK
  BY <1>1, <1>2 DEF TypeOK, Indices, Init
<1>8. QED
  BY <1>6, <1>7 DEF Inv

(* Every key, draw and preview keeps the invariant. *)
LEMMA NextInv ==
    ASSUME Inv, [Next]_vars
    PROVE  Inv'
<1>1. ASSUME Leaves PROVE Inv'
  BY <1>1, LeavesInv
<1>2. entries \in Seq(Entry) /\ height \in Nat /\ scroll \in Nat /\ error \in BOOLEAN
  BY DEF Inv, TypeOK
<1>3. /\ Current \in DOMAIN entries
      /\ \A c \in BOOLEAN, target \in DOMAIN entries :
            Fold(c, Unfolded(entries, Current, c, visible), target) => Leaves
  BY InvGives, FoldLeaves
<1>4. RowsUnder(Current) = RowsIn(entries, Current)
  BY DEF RowsUnder, RowsIn, Indices
<1>5. CASE Draw
  BY <1>1, <1>5, DrawScrolls, StandsStill DEF Draw, Leaves, Inv, TypeOK
<1>6. CASE Up
  <2>1. CASE \E i \in stops : Move(i)
    BY <1>1, <2>1, MoveLeaves
  <2>2. CASE Key /\ UNCHANGED <<entries, visible, stops, cursor, scroll>>
    BY <1>1, <1>2, <2>2, StandsStill DEF Key, KeyPressed, Leaves
  <2>3. QED
    BY <1>6, <2>1, <2>2 DEF Up
<1>7. CASE Down
  <2>1. CASE \E i \in stops : Move(i)
    BY <1>1, <2>1, MoveLeaves
  <2>2. CASE Key /\ UNCHANGED <<entries, visible, stops, cursor, scroll>>
    BY <1>1, <1>2, <2>2, StandsStill DEF Key, KeyPressed, Leaves
  <2>3. QED
    BY <1>7, <2>1, <2>2 DEF Down
<1>8. CASE Toggle
  BY <1>1, <1>2, <1>8, ToggledFolds, MarksLeaves DEF Toggle
<1>9. CASE ToggleSection
  <2>1. \A rows, checked : SameFolds(entries, Marking(rows, checked))
    BY <1>2, MarkingFolds
  <2>2. PICK list : SameFolds(entries, list) /\ Marks(list)
    BY <1>2, <1>9, <2>1, SameListLayout DEF ToggleSection
  <2>3. QED
    BY <1>1, <2>2, MarksLeaves
<1>10. CASE Backspace
  <2>1. \A rows, checked : SameFolds(entries, Marking(rows, checked))
    BY <1>2, MarkingFolds
  <2>2. PICK list : SameFolds(entries, list) /\ Marks(list)
    BY <1>2, <1>10, <2>1, SameListLayout DEF Backspace
  <2>3. QED
    BY <1>1, <2>2, MarksLeaves
<1>11. CASE Collapse
  <2>1. Fold(TRUE, Unfolded(entries, Current, TRUE, visible), Current)
    BY <1>4, <1>11 DEF Collapse, Unfolded
  <2>2. QED
    BY <1>1, <1>3, <2>1
<1>12. CASE Expand
  <2>1. PICK target \in DOMAIN entries :
           Fold(FALSE, visible \cup RowsUnder(Current), target)
    <3>1. CASE RowsUnder(Current) = {}
      BY <1>3, <1>12, <3>1 DEF Expand
    <3>2. CASE RowsUnder(Current) # {}
      <4>1. RowsUnder(Current) \in SUBSET Nat /\ RowsUnder(Current) \subseteq DOMAIN entries
        BY InvGives DEF RowsUnder, Indices
      <4>2. Min(RowsUnder(Current)) \in DOMAIN entries
        BY <3>2, <4>1, SmallestOf
      <4>3. QED
        BY <1>12, <3>2, <4>2 DEF Expand
    <3>3. QED
      BY <3>1, <3>2
  <2>2. Fold(FALSE, Unfolded(entries, Current, FALSE, visible), target)
    BY <1>4, <2>1 DEF Unfolded
  <2>3. QED
    BY <1>1, <1>3, <2>2
<1>13. CASE Ignored
  BY <1>1, <1>2, <1>13, StandsStill DEF Ignored, Key, KeyPressed, Leaves
<1>14. CASE Preview
  BY <1>1, <1>2, <1>14, StandsStill DEF Preview, KeyPressed, Leaves
<1>15. CASE Dismiss
  BY <1>1, <1>2, <1>15, StandsStill DEF Dismiss, Leaves
<1>16. CASE Enter
  <2>1. SameFolds(entries, entries) /\ SameFolds(entries, Toggled)
    BY <1>2, ToggledFolds, SameListLayout
  <2>2. SameFolds(entries, entries')
    BY <1>16, <2>1 DEF Enter
  <2>3. SameLayout(entries, entries')
    BY <2>2 DEF SameFolds, SameLayout
  <2>4. Kept(entries', visible', stops', cursor')
    BY <1>16, <2>2, InvGives, MarksKeep DEF Enter
  <2>5. error' \in BOOLEAN
    BY <1>16 DEF Enter, Conflict
  <2>6. QED
    BY <1>1, <1>2, <1>16, <2>3, <2>4, <2>5 DEF Enter, Leaves
<1>17. CASE Cancel
  BY <1>1, <1>2, <1>17, StandsStill DEF Cancel, Leaves
<1>18. CASE UNCHANGED vars
  BY <1>1, <1>2, <1>18, StandsStill DEF vars, Leaves, Inv, TypeOK
<1>19. QED
  BY <1>5, <1>6, <1>7, <1>8, <1>9, <1>10, <1>11, <1>12, <1>13, <1>14,
     <1>15, <1>16, <1>17, <1>18 DEF Next

(* TypeOK and FocusKept together hold in every state. *)
LEMMA Invariance == PickerSpec => []Inv
  BY InitInv, NextInv, PTL DEF PickerSpec

(* The list keeps its layout and scroll never goes below zero, for every list
   with a row and every sequence of terminal heights. *)
THEOREM TypeInvariance == PickerSpec => []TypeOK
<1>1. Inv => TypeOK
  BY DEF Inv
<1>2. QED
  BY <1>1, Invariance, PTL

(* However sections are collapsed and expanded, nav_stops and visible are what
   rebuilding them would give, and the cursor is on one of the stops. *)
THEOREM CursorOnStop == PickerSpec => []FocusKept
<1>1. Inv => FocusKept
  BY DEF Inv
<1>2. QED
  BY <1>1, Invariance, PTL

(* On a terminal with room for the list, every frame shows the entry under the
   cursor, although entry_to_line and the viewport height are both off by one. *)
THEOREM CursorOnScreen == PickerSpec => []CursorShown
<1>1. Init => CursorShown
  BY DEF Init, CursorShown
<1>2. ASSUME Inv, CursorShown, [Next]_vars
      PROVE  CursorShown'
  <2>1. CASE Draw
    <3>1. cursor \in Nat
      BY InvGives, <1>2
    <3>2. RenderedLine(cursor)' = RenderedLine(cursor)
      BY <2>1 DEF Draw, RenderedLine
    <3>3. LineOf(entries, visible, cursor) \in Int
      BY <3>1, LinesGrow
    <3>4. QED
      BY <1>2, <2>1, <3>1, <3>2, <3>3, DrawScrolls, LineDrawn DEF CursorShown
  <2>2. CASE Next /\ ~Draw
    <3>1. phase' # "key"
      BY <2>2 DEF Next, Up, Down, Move, Toggle, ToggleSection, Backspace, Marks, Collapse,
                  Expand, Fold, Ignored, Key, Preview, Dismiss, Enter, Cancel
    <3>2. QED
      BY <3>1 DEF CursorShown
  <2>3. CASE UNCHANGED vars
    BY <1>2, <2>3 DEF vars, CursorShown, RenderedLine
  <2>4. QED
    BY <1>2, <2>1, <2>2, <2>3
<1>3. QED
  BY <1>1, <1>2, Invariance, PTL DEF PickerSpec

-----------------------------------------------------------------------------
(* The picker keeps its contract *)

(* The contract counts as the model does. *)
LEMMA SameCount ==
    ASSUME NEW S
    PROVE  Contract!Cardinality(S) = Cardinality(S)
  BY DEF Cardinality, Contract!Cardinality

Stands == given \in Seq(Sections) /\ SameLayout(Flattened(given), entries)

(* What the invariant says of the caller's list. *)
LEMMA InvStands ==
    ASSUME Inv
    PROVE  Stands
<1>1. given \in Inputs /\ SameLayout(Flattened(given), entries)
  BY DEF Inv, TypeOK, SameLayout, Indices
<1>2. QED
  BY <1>1, FlattenedLayout DEF Stands

(* The marks in a section are as many as the entries checked in it. *)
LEMMA MarksCount ==
    ASSUME Stands, NEW list, SameLayout(Flattened(given), list), NEW s \in DOMAIN given
    PROVE  /\ IsFiniteSet(CheckedUnder(list, Place(s, 0)))
           /\ IsFiniteSet(MarkedIn(list) \cap Contract!RowsOf(s))
           /\ Cardinality(MarkedIn(list) \cap Contract!RowsOf(s))
                 <= Cardinality(CheckedUnder(list, Place(s, 0)))
<1> DEFINE C == CheckedUnder(list, Place(s, 0))
           M == MarkedIn(list) \cap Contract!RowsOf(s)
           f == [p \in C |-> Coords[p]]
<1>1. given \in Seq(Sections) /\ SameLayout(Flattened(given), entries)
  BY DEF Stands
<1>2. \A j \in DOMAIN given[s].rows : Coords[Place(s, j)] = <<s, j>>
  BY <1>1, CoordsAt, Plan DEF Place
<1>3. \A j \in DOMAIN given[s].rows : <<s, j>> \in MarkedIn(list) <=> list[Place(s, j)].checked
  BY <1>1, MarkedAt
<1>4. RowsUnder(Place(s, 0)) = {Place(s, j) : j \in DOMAIN given[s].rows}
  BY <1>1, UnderHeader
<1>5. IsFiniteSet(C)
  <2>1. C \subseteq 1 .. Len(entries) /\ Len(entries) \in Int
    BY <1>1 DEF CheckedUnder, RowsUnder, Indices, SameLayout
  <2> HIDE DEF C
  <2>2. QED
    BY <2>1, Counted, Zenon
<1>6. ASSUME NEW p \in C
      PROVE  Coords[p] \in M
  <2>1. p \in RowsUnder(Place(s, 0)) /\ list[p].checked
    BY DEF CheckedUnder
  <2>2. PICK j \in DOMAIN given[s].rows : p = Place(s, j)
    BY <1>4, <2>1
  <2>3. Coords[p] = <<s, j>> /\ <<s, j>> \in MarkedIn(list)
    BY <1>2, <1>3, <2>1, <2>2
  <2>4. <<s, j>> \in Contract!RowsOf(s)
    BY DEF Contract!RowsOf
  <2>5. QED
    BY <2>3, <2>4
<1>7. ASSUME NEW m \in M
      PROVE  \E p \in C : Coords[p] = m
  <2>1. PICK j \in DOMAIN given[s].rows : m = <<s, j>>
    BY DEF Contract!RowsOf
  <2>2. list[Place(s, j)].checked
    BY <1>3, <2>1
  <2>3. Place(s, j) \in C
    BY <1>4, <2>2 DEF CheckedUnder
  <2>4. QED
    BY <1>2, <2>1, <2>3
<1>8. f \in Surjection(C, M)
  <2> HIDE DEF C, M
  <2>1. f \in [C -> M]
    BY <1>6
  <2>2. \A m \in M : \E p \in C : f[p] = m
    BY <1>7
  <2>3. QED
    BY <2>1, <2>2 DEF Surjection
<1> HIDE DEF f, C, M
<1>9. IsFiniteSet(M) /\ Cardinality(M) <= Cardinality(C)
  BY <1>5, <1>8, FS_Surjection
<1>10. QED
  BY <1>5, <1>9 DEF C, M

(* Changing marks under one header only is marking one section. *)
LEMMA OneSection ==
    ASSUME Stands, NEW list, SameLayout(Flattened(given), list), NEW s \in DOMAIN given,
           \A p \in DOMAIN entries \ RowsUnder(Place(s, 0)) : list[p].checked = entries[p].checked
    PROVE  MarkedIn(list) = (MarkedIn(entries) \ Contract!RowsOf(s))
                                \cup (MarkedIn(list) \cap Contract!RowsOf(s))
<1>1. given \in Seq(Sections) /\ SameLayout(Flattened(given), entries)
  BY DEF Stands
<1>2. /\ \A t \in DOMAIN given : \A j \in DOMAIN given[t].rows :
            /\ <<t, j>> \in MarkedIn(list) <=> list[Place(t, j)].checked
            /\ <<t, j>> \in MarkedIn(entries) <=> entries[Place(t, j)].checked
      /\ \A m \in MarkedIn(list) \cup MarkedIn(entries) :
            \E t \in DOMAIN given : \E j \in DOMAIN given[t].rows : m = <<t, j>>
  BY <1>1, MarkedAt
<1>3. RowsUnder(Place(s, 0)) = {Place(s, j) : j \in DOMAIN given[s].rows}
  BY <1>1, UnderHeader
<1>4. ASSUME NEW t \in DOMAIN given, NEW j \in DOMAIN given[t].rows, t # s
      PROVE  /\ list[Place(t, j)].checked = entries[Place(t, j)].checked
             /\ <<t, j>> \notin Contract!RowsOf(s)
  <2>1. Place(t, j) \in DOMAIN entries
    BY <1>1, Places DEF RowAt
  <2>2. \A k \in DOMAIN given[s].rows : Place(t, j) # Place(s, k)
    BY <1>1, <1>4, PlaceUnique
  <2>3. <<t, j>> \notin Contract!RowsOf(s)
    BY <1>4 DEF Contract!RowsOf
  <2>4. QED
    BY <1>3, <2>1, <2>2, <2>3
<1>5. ASSUME NEW t \in DOMAIN given, NEW j \in DOMAIN given[t].rows
      PROVE  <<t, j>> \in MarkedIn(list)
                 <=> <<t, j>> \in (MarkedIn(entries) \ Contract!RowsOf(s))
                                      \cup (MarkedIn(list) \cap Contract!RowsOf(s))
  <2>1. CASE t = s
    BY <2>1 DEF Contract!RowsOf
  <2>2. CASE t # s
    BY <1>2, <1>4, <2>2
  <2>3. QED
    BY <2>1, <2>2
<1>6. QED
  BY <1>2, <1>5

(* The section the cursor is in. *)
LEMMA CursorSection ==
    ASSUME Inv
    PROVE  \E s \in DOMAIN given :
              /\ Current = Place(s, 0) /\ OnRadio = given[s].radio
              /\ ~entries[cursor].header => cursor \in RowsUnder(Current)
<1>1. given \in Seq(Sections) /\ SameLayout(Flattened(given), entries)
  BY InvStands DEF Stands
<1>2. /\ cursor \in DOMAIN entries /\ DOMAIN entries \subseteq Nat
      /\ Current \in DOMAIN entries /\ entries[Current].header
      /\ IsHeaderOf(entries, Current, cursor)
  BY InvGives DEF Current
<1>3. PICK s \in DOMAIN given : \E j \in {0} \cup DOMAIN given[s].rows : Current = Place(s, j)
  BY <1>1, <1>2, Places
<1>4. PICK j \in {0} \cup DOMAIN given[s].rows : Current = Place(s, j)
  BY <1>3
<1>5. j = 0
  BY <1>1, <1>2, <1>4, Places DEF RowAt
<1>6. OnRadio = given[s].radio
  BY <1>1, <1>4, <1>5, Places DEF HeaderAt, OnRadio
<1>7. ASSUME ~entries[cursor].header
      PROVE  cursor \in RowsUnder(Current)
  <2>1. Current \in 1 .. cursor /\ \A k \in Current + 1 .. cursor : ~entries[k].header
    BY <1>2 DEF IsHeaderOf
  <2>2. Current # cursor
    BY <1>2, <1>7
  <2>3. cursor > Current
    BY <1>2, <2>1, <2>2
  <2>4. QED
    BY <1>2, <2>1, <2>3 DEF RowsUnder, Indices
<1>8. QED
  BY <1>4, <1>5, <1>6, <1>7

(* The marks of the list a step makes. *)
LEMMA MarkedNext ==
    ASSUME given' = given
    PROVE  Marked = MarkedIn(entries) /\ Marked' = MarkedIn(entries')
  BY DEF Marked, MarkedIn, Indices, Coords

(* The list stays open: marks under one header change, at most one being left
   in a radio section. *)
LEMMA MarkStep ==
    ASSUME Inv, given' = given, Outcome = Contract!Open, Outcome' = Outcome,
           SameLayout(Flattened(given), entries'), NEW s \in DOMAIN given,
           \A p \in DOMAIN entries \ RowsUnder(Place(s, 0)) : entries'[p].checked = entries[p].checked,
           given[s].radio => \E p : CheckedUnder(entries', Place(s, 0)) \subseteq {p}
    PROVE  Contract!Mark(s)
<1> DEFINE chosen == MarkedIn(entries') \cap Contract!RowsOf(s)
<1>1. Stands
  BY InvStands
<1>2. Marked = MarkedIn(entries) /\ Marked' = MarkedIn(entries')
  BY MarkedNext
<1>3. Marked' = (Marked \ Contract!RowsOf(s)) \cup chosen
  BY <1>1, <1>2, OneSection
<1>4. ASSUME given[s].radio PROVE Cardinality(chosen) <= 1
  <2> DEFINE C == CheckedUnder(entries', Place(s, 0))
  <2>1. PICK p : C \subseteq {p}
    BY <1>4
  <2>2. IsFiniteSet(C) /\ IsFiniteSet(chosen) /\ Cardinality(chosen) <= Cardinality(C)
    BY <1>1, MarksCount
  <2> HIDE DEF C, chosen
  <2>3. IsFiniteSet({p}) /\ Cardinality({p}) = 1
    BY FS_Singleton
  <2>4. Cardinality(C) <= Cardinality({p})
    BY <2>1, <2>3, FS_Subset
  <2>5. Cardinality(C) \in Nat /\ Cardinality(chosen) \in Nat
    BY <2>2, FS_CardinalityType
  <2>6. QED
    BY <2>2, <2>3, <2>4, <2>5
<1>5. chosen \in SUBSET Contract!RowsOf(s)
  OBVIOUS
<1> HIDE DEF chosen
<1>6. QED
  BY <1>3, <1>4, <1>5, SameCount DEF Contract!Mark

(* What marking does to an entry's mark. *)
LEMMA MarkingMarks ==
    ASSUME entries \in Seq(Entry), NEW rows, NEW checked, NEW p \in DOMAIN entries
    PROVE  /\ p \notin rows => Marking(rows, checked)[p].checked = entries[p].checked
           /\ p \in rows => (Marking(rows, checked)[p].checked <=> p \in checked)
<1>1. entries[p] \in Entry /\ p \in Indices
  BY DEF Indices
<1>2. CASE p \notin rows
  BY <1>1, <1>2 DEF Marking
<1>3. CASE p \in rows
  <2> DEFINE e == entries[p]
             v == p \in checked
  <2>1. e \in Entry
    BY <1>1
  <2>2. Marking(rows, checked)[p] = [e EXCEPT !.checked = v]
    BY <1>1, <1>3 DEF Marking
  <2> HIDE DEF e, v
  <2>3. [e EXCEPT !.checked = v].checked = v
    BY <2>1 DEF Entry
  <2>4. Marking(rows, checked)[p].checked = v
    BY <2>2, <2>3
  <2>5. QED
    BY <1>3, <2>4 DEF v
<1>4. QED
  BY <1>2, <1>3

(* Marks stay where headers and checks do. *)
LEMMA SameMarks ==
    ASSUME given' = given, DOMAIN entries' = DOMAIN entries,
           \A p \in DOMAIN entries : /\ entries'[p].header = entries[p].header
                                     /\ entries'[p].checked = entries[p].checked
    PROVE  Marked' = Marked
<1>1. {j \in DOMAIN entries' : ~entries'[j].header /\ entries'[j].checked}
         = {j \in DOMAIN entries : ~entries[j].header /\ entries[j].checked}
  OBVIOUS
<1>2. QED
  BY <1>1, MarkedNext DEF MarkedIn

(* How the picker returned, as long as it has not. *)
LEMMA OutcomeOpen ==
    /\ phase \in {"draw", "key", "preview"} => Outcome = Contract!Open
    /\ phase' \in {"draw", "key", "preview"} => Outcome' = Contract!Open
  BY DEF Outcome, Contract!Open

(* Marking in the section of the cursor, not two in a radio section. *)
LEMMA MarkingStep ==
    ASSUME Inv, given' = given, Outcome = Contract!Open, Outcome' = Outcome,
           NEW rows \in SUBSET RowsUnder(Current), NEW checked,
           entries' = Marking(rows, checked),
           OnRadio => rows = RowsUnder(Current) /\ \E p : checked \subseteq {p}
    PROVE  \E s \in DOMAIN given : Contract!Mark(s)
<1>1. PICK s \in DOMAIN given : Current = Place(s, 0) /\ OnRadio = given[s].radio
  BY CursorSection
<1>2. entries \in Seq(Entry) /\ SameLayout(Flattened(given), entries)
  BY InvStands DEF Inv, TypeOK, Stands
<1>3. SameLayout(Flattened(given), entries')
  <2>1. SameFolds(entries, entries')
    BY <1>2, MarkingFolds
  <2>2. QED
    BY <1>2, <2>1 DEF SameFolds, SameLayout
<1>4. \A p \in DOMAIN entries : /\ p \notin rows => entries'[p].checked = entries[p].checked
                                /\ p \in rows => (entries'[p].checked <=> p \in checked)
  BY <1>2, MarkingMarks
<1>5. \A p \in DOMAIN entries \ RowsUnder(Place(s, 0)) : entries'[p].checked = entries[p].checked
  BY <1>1, <1>4
<1>6. ASSUME given[s].radio
      PROVE  \E p : CheckedUnder(entries', Place(s, 0)) \subseteq {p}
  <2>1. PICK p : checked \subseteq {p}
    BY <1>1, <1>6
  <2>2. ASSUME NEW q \in CheckedUnder(entries', Place(s, 0)) PROVE q = p
    <3>1. q \in RowsUnder(Current) /\ entries'[q].checked /\ q \in DOMAIN entries
      BY <1>1 DEF CheckedUnder, RowsUnder, Indices
    <3>2. q \in rows
      BY <1>1, <1>6, <3>1
    <3>3. QED
      BY <1>4, <2>1, <3>1, <3>2
  <2>3. QED
    BY <2>2
<1>7. Contract!Mark(s)
  BY <1>3, <1>5, <1>6, MarkStep
<1>8. QED
  BY <1>7

(* toggle, whether Space or Enter calls it. *)
LEMMA ToggledStep ==
    ASSUME Inv, given' = given, Outcome = Contract!Open, Outcome' = Outcome, entries' = Toggled
    PROVE  (\E s \in DOMAIN given : Contract!Mark(s)) \/ entries' = entries
<1>1. CASE entries[cursor].header
  BY <1>1 DEF Toggled
<1>2. CASE ~entries[cursor].header /\ OnRadio
  <2> DEFINE checked == IF RadioKeeps THEN {cursor} ELSE {}
  <2>1. entries' = Marking(RowsUnder(Current), checked)
    BY <1>2 DEF Toggled
  <2>2. checked \subseteq {cursor}
    OBVIOUS
  <2> HIDE DEF checked
  <2>3. \E p : checked \subseteq {p}
    BY <2>2
  <2>4. QED
    BY <2>1, <2>3, MarkingStep
<1>3. CASE ~entries[cursor].header /\ ~OnRadio
  <2> DEFINE checked == IF entries[cursor].checked THEN {} ELSE {cursor}
             rows == {cursor}
  <2>1. entries' = Marking(rows, checked)
    BY <1>3 DEF Toggled
  <2>2. rows \in SUBSET RowsUnder(Current)
    BY <1>3, CursorSection
  <2> HIDE DEF checked, rows
  <2>3. QED
    BY <1>3, <2>1, <2>2, MarkingStep
<1>4. QED
  BY <1>1, <1>2, <1>3

(* A key that leaves the list open marks in one section, or nothing. *)
LEMMA OpenStep ==
    ASSUME Inv, Next, phase' \in {"draw", "key", "preview"}
    PROVE  (\E s \in DOMAIN given : Contract!Mark(s)) \/ UNCHANGED Contract!contract
<1>1. given' = given /\ phase \in {"draw", "key", "preview"}
  BY DEF Next, Draw, Up, Down, Move, Toggle, ToggleSection, Backspace, Marks, Collapse, Expand,
         Fold, Ignored, Key, KeyPressed, Preview, Dismiss, Enter, Cancel
<1>2. Outcome = Contract!Open /\ Outcome' = Outcome
  BY <1>1, OutcomeOpen
<1>3. ASSUME Marked' = Marked PROVE UNCHANGED Contract!contract
  BY <1>1, <1>2, <1>3 DEF Contract!contract
<1>4. ASSUME entries' = entries PROVE UNCHANGED Contract!contract
  <2>1. Marked' = Marked
    BY <1>1, <1>4, MarkedNext
  <2>2. QED
    BY <1>3, <2>1
<1>5. ASSUME entries' = Toggled
      PROVE  (\E s \in DOMAIN given : Contract!Mark(s)) \/ UNCHANGED Contract!contract
  BY <1>1, <1>2, <1>4, <1>5, ToggledStep
<1>6. ASSUME NEW c \in BOOLEAN, entries' = [entries EXCEPT ![Current].collapsed = c]
      PROVE  UNCHANGED Contract!contract
  <2>1. entries \in Seq(Entry) /\ Current \in DOMAIN entries
    BY InvGives DEF Inv, TypeOK
  <2>2. /\ DOMAIN entries' = DOMAIN entries
        /\ \A p \in DOMAIN entries : /\ entries'[p].header = entries[p].header
                                     /\ entries'[p].checked = entries[p].checked
    <3> DEFINE h == Current
    <3>1. h \in DOMAIN entries /\ entries' = [entries EXCEPT ![h].collapsed = c]
      BY <1>6, <2>1
    <3> HIDE DEF h
    <3>2. \A p \in DOMAIN entries : entries[p] \in Entry
      BY <2>1
    <3>3. QED
      BY <3>1, <3>2 DEF Entry
  <2>3. Marked' = Marked
    BY <1>1, <2>2, SameMarks
  <2>4. QED
    BY <1>3, <2>3
<1>7. CASE Draw \/ Up \/ Down \/ Ignored \/ Preview \/ Dismiss \/ Cancel
  <2>1. entries' = entries
    BY <1>7 DEF Draw, Up, Down, Move, Ignored, Preview, Dismiss, Cancel
  <2>2. QED
    BY <1>4, <2>1
<1>8. CASE Toggle
  BY <1>5, <1>8 DEF Toggle, Marks
<1>9. CASE ToggleSection
  <2> DEFINE rows == RowsUnder(Current)
             checked == IF CheckedUnder(entries, Current) = rows THEN {} ELSE rows
  <2>1. CASE OnRadio
    BY <1>4, <1>9, <2>1 DEF ToggleSection, Marks
  <2>2. CASE ~OnRadio
    <3>1. entries' = Marking(rows, checked) /\ rows \in SUBSET RowsUnder(Current)
      BY <1>9, <2>2 DEF ToggleSection, Marks
    <3> HIDE DEF rows, checked
    <3>2. QED
      BY <1>1, <1>2, <2>2, <3>1, MarkingStep
  <2>3. QED
    BY <2>1, <2>2
<1>10. CASE Backspace
  <2>1. CASE ~OnRadio
    BY <1>4, <1>10, <2>1 DEF Backspace, Marks
  <2>2. CASE OnRadio
    <3>1. entries' = Marking(RowsUnder(Current), {})
      BY <1>10, <2>2 DEF Backspace, Marks
    <3>2. \E p : {} \subseteq {p}
      OBVIOUS
    <3>3. QED
      BY <1>1, <1>2, <3>1, <3>2, MarkingStep
  <2>3. QED
    BY <2>1, <2>2
<1>11. CASE Collapse
  BY <1>6, <1>11 DEF Collapse, Fold
<1>12. CASE Expand
  BY <1>6, <1>12 DEF Expand, Fold
<1>13. CASE Enter
  BY <1>4, <1>5, <1>13 DEF Enter
<1>14. QED
  BY <1>7, <1>8, <1>9, <1>10, <1>11, <1>12, <1>13 DEF Next

(* Enter takes the marks there are, or marks the row under the cursor if there
   are none; what is handed back are the marks. *)
LEMMA EnterStep ==
    ASSUME Inv, Enter, phase' = "confirmed"
    PROVE  Contract!Confirm
<1>1. given' = given /\ phase = "key" /\ ~Conflict(entries') /\ results' = IntoResults(entries')
  BY DEF Enter
<1>2. /\ given \in Seq(Sections) /\ SameLayout(Flattened(given), entries)
      /\ SameFolds(entries, entries) /\ SameFolds(entries, Toggled) /\ Stands
  BY InvStands, ToggledFolds, SameListLayout DEF Stands, Inv, TypeOK
<1>3. SameLayout(Flattened(given), entries') /\ entries' \in Seq(Entry) /\ entries' # <<>>
  <2>1. SameFolds(entries, entries')
    BY <1>2 DEF Enter
  <2>2. entries # <<>> /\ entries \in Seq(Entry)
    BY InvGives DEF Layout
  <2>3. QED
    BY <1>2, <2>1, <2>2 DEF SameFolds, SameLayout
<1>4. Marked = MarkedIn(entries) /\ Marked' = MarkedIn(entries')
  BY <1>1, MarkedNext
<1>5. ASSUME NEW list, list = entries \/ list = entries', NEW t \in DOMAIN given, NEW j \in DOMAIN given[t].rows
      PROVE  <<t, j>> \in MarkedIn(list) <=> list[Place(t, j)].checked
  BY <1>2, <1>3, <1>5, MarkedAt
<1>6. Outcome = Contract!Open
  BY <1>1, OutcomeOpen
<1>7. \/ Marked' = Marked
      \/ /\ Marked = {}
         /\ \E s \in DOMAIN given : ~given[s].radio /\ \E row \in Contract!RowsOf(s) : Marked' = {row}
  <2>1. CASE entries' = entries
    BY <1>4, <2>1
  <2>2. CASE entries' = Toggled /\ (\A i \in Indices : ~entries[i].checked) /\ ~OnRadio
    <3>1. CASE entries[cursor].header
      BY <2>1, <2>2, <3>1 DEF Toggled
    <3>2. CASE ~entries[cursor].header
      <4>1. cursor \in DOMAIN entries /\ entries \in Seq(Entry)
        BY InvGives DEF Layout
      <4>2. entries' = Marking({cursor}, {cursor})
        <5>1. ~entries[cursor].checked
          BY <2>2, <4>1 DEF Indices
        <5>2. QED
          BY <2>2, <3>2, <5>1 DEF Toggled
      <4>3. PICK s \in DOMAIN given : Current = Place(s, 0) /\ OnRadio = given[s].radio
                                      /\ cursor \in RowsUnder(Current)
        BY <3>2, CursorSection
      <4>4. PICK j \in DOMAIN given[s].rows : cursor = Place(s, j)
        BY <1>2, <4>3, UnderHeader
      <4>5. \A p \in DOMAIN entries : entries'[p].checked <=> p = cursor
        <5>1. \A p \in DOMAIN entries : /\ p \notin {cursor} => entries'[p].checked = entries[p].checked
                                        /\ p \in {cursor} => (entries'[p].checked <=> p \in {cursor})
          BY <4>1, <4>2, MarkingMarks
        <5>2. \A p \in DOMAIN entries : ~entries[p].checked
          BY <2>2 DEF Indices
        <5>3. QED
          BY <5>1, <5>2
      <4>6. Marked = {}
        <5>1. \A p \in DOMAIN entries : ~entries[p].checked
          BY <2>2 DEF Indices
        <5>2. QED
          BY <1>4, <5>1 DEF MarkedIn
      <4>7. <<s, j>> \in Marked'
        <5>1. entries'[Place(s, j)].checked
          BY <4>1, <4>4, <4>5
        <5>2. QED
          BY <1>4, <1>5, <5>1
      <4>8. ASSUME NEW m \in Marked'
            PROVE  m = <<s, j>>
        <5>1. PICK t \in DOMAIN given : \E k \in DOMAIN given[t].rows : m = <<t, k>>
          BY <1>2, <1>3, <1>4, MarkedAt
        <5>2. PICK k \in DOMAIN given[t].rows : m = <<t, k>>
          BY <5>1
        <5>3. entries'[Place(t, k)].checked
          BY <1>4, <1>5, <5>2
        <5>4. Place(t, k) \in DOMAIN entries
          BY <1>2, Places DEF RowAt
        <5>5. Place(t, k) = Place(s, j)
          BY <4>4, <4>5, <5>3, <5>4
        <5>6. t = s /\ k = j
          <6>1. given \in Seq(Sections)
            BY <1>2
          <6>2. j \in {0} \cup DOMAIN given[s].rows /\ k \in {0} \cup DOMAIN given[t].rows
            OBVIOUS
          <6>3. s \in DOMAIN given /\ t \in DOMAIN given
            OBVIOUS
          <6>4. t = s
            BY <5>5, <6>1, <6>2, <6>3, PlaceUnique
          <6>5. k = j
            <7>1. j \in Nat /\ k \in Nat /\ Place(s, 0) \in Nat
              <8>1. /\ DOMAIN given = 1 .. Len(given) /\ DOMAIN given[s].rows = 1 .. Len(given[s].rows)
                    /\ Len(given[s].rows) \in Nat
                BY <6>1, Plan
              <8>2. Place(s, 0) \in Nat
                BY <6>1, PlaceOrder
              <8>3. QED
                BY <6>4, <8>1, <8>2
            <7>2. Place(s, j) = Place(s, 0) + j /\ Place(s, k) = Place(s, 0) + k
              BY <6>1, <7>1, PlaceOrder
            <7>3. QED
              BY <5>5, <6>4, <7>1, <7>2
          <6>6. QED
            BY <6>4, <6>5
        <5>7. QED
          BY <5>2, <5>6
      <4>9. Marked' = {<<s, j>>} /\ <<s, j>> \in Contract!RowsOf(s)
        BY <4>7, <4>8 DEF Contract!RowsOf
      <4>10. QED
        BY <2>2, <4>3, <4>6, <4>9
    <3>3. QED
      BY <3>1, <3>2
  <2>3. QED
    BY <2>1, <2>2 DEF Enter
<1>8. Contract!NoConflict(Marked')
  <2> SUFFICES ASSUME NEW s \in DOMAIN given, given[s].radio
               PROVE  Cardinality(Marked' \cap Contract!RowsOf(s)) <= 1
    BY SameCount DEF Contract!NoConflict
  <2> DEFINE h == Place(s, 0)
             C == CheckedUnder(entries', h)
             M == Marked' \cap Contract!RowsOf(s)
  <2>1. IsFiniteSet(C) /\ IsFiniteSet(M) /\ Cardinality(M) <= Cardinality(C)
    BY <1>2, <1>3, <1>4, MarksCount
  <2>2. h \in DOMAIN entries /\ entries'[h].radio
    <3>1. HeaderAt(entries', s) /\ HeaderAt(entries, s)
      BY <1>2, <1>3, Places
    <3>2. QED
      BY <3>1 DEF HeaderAt
  <2>3. ~(Cardinality(C) > 1)
    BY <1>1, <2>2 DEF Conflict, Indices
  <2> HIDE DEF C, M
  <2>4. Cardinality(C) \in Nat /\ Cardinality(M) \in Nat
    BY <2>1, FS_CardinalityType
  <2>5. Cardinality(M) <= 1
    BY <2>1, <2>3, <2>4
  <2>6. QED
    BY <2>5 DEF M
<1>9. IntoResults(entries') = Contract!Answer(Marked')
  <2>1. IntoResults(entries') = SectionsRead(entries')
    BY <1>2, <1>3, IntoResultsAre
  <2>2. DOMAIN given = 1 .. Len(given)
    BY <1>2, Plan
  <2>3. ASSUME NEW s \in DOMAIN given
        PROVE  SectionsRead(entries')[s] = Contract!Answer(Marked')[s]
    <3>1. /\ SectionsRead(entries')[s] = RowsRead(entries', s)
          /\ Contract!Answer(Marked')[s] = [i \in DOMAIN given[s].rows |-> <<s, i>> \in Marked']
      BY <2>2 DEF SectionsRead, Contract!Answer
    <3>2. DOMAIN given[s].rows = 1 .. Len(given[s].rows)
      BY <1>2, <2>2, Plan
    <3>3. \A j \in DOMAIN given[s].rows : entries'[Place(s, j)].checked = (<<s, j>> \in Marked')
      <4> TAKE j \in DOMAIN given[s].rows
      <4>1. <<s, j>> \in Marked' <=> entries'[Place(s, j)].checked
        BY <1>4, <1>5
      <4>2. entries'[Place(s, j)] \in Entry
        <5>1. Place(s, j) \in DOMAIN entries'
          BY <1>2, <1>3, Places DEF RowAt
        <5>2. QED
          BY <1>3, <5>1
      <4>3. entries'[Place(s, j)].checked \in BOOLEAN
        BY <4>2 DEF Entry
      <4>4. QED
        BY <4>1, <4>3
    <3>4. RowsRead(entries', s) = [i \in DOMAIN given[s].rows |-> <<s, i>> \in Marked']
      BY <3>2, <3>3, Zenon DEF RowsRead
    <3>5. QED
      BY <3>1, <3>4
  <2>4. SectionsRead(entries') = Contract!Answer(Marked')
    BY <2>2, <2>3 DEF SectionsRead, Contract!Answer
  <2>5. QED
    BY <2>1, <2>4
<1>10. Outcome' = Contract!Confirmed(Contract!Answer(Marked'))
  <2>1. Outcome' = [is |-> "confirmed", results |-> results']
    BY DEF Outcome
  <2>2. QED
    BY <1>1, <1>9, <2>1 DEF Contract!Confirmed
<1>11. QED
  BY <1>1, <1>6, <1>7, <1>8, <1>10 DEF Contract!Confirm

(* Leaving without an answer. *)
LEMMA CancelStep ==
    ASSUME Inv, Cancel
    PROVE  Contract!Cancel
<1>1. given' = given /\ entries' = entries /\ phase = "key" /\ phase' = "cancelled"
  BY DEF Cancel
<1>2. Marked' = Marked
  BY <1>1, MarkedNext
<1>3. Outcome = Contract!Open
  BY <1>1, OutcomeOpen
<1>4. Outcome' = Contract!Cancelled
  BY <1>1 DEF Outcome, Contract!Cancelled
<1>5. QED
  BY <1>1, <1>2, <1>3, <1>4 DEF Contract!Cancel

(* A new picker has the marks the caller gave. *)
LEMMA InitStep ==
    ASSUME Init
    PROVE  Contract!Init
<1>1. given \in Inputs /\ entries = Flattened(given) /\ phase = "draw"
  BY DEF Init
<1>2. given \in Seq(Sections) /\ SameLayout(Flattened(given), entries)
  BY <1>1, FlattenedLayout DEF SameLayout
<1>3. Marked = MarkedIn(entries)
  BY DEF Marked, MarkedIn, Indices
<1>4. ASSUME NEW s \in DOMAIN given, NEW j \in DOMAIN given[s].rows
      PROVE  <<s, j>> \in Marked <=> given[s].rows[j].checked
  <2>1. s \in 1 .. Len(given) /\ j \in 1 .. Len(given[s].rows)
    BY <1>2, Plan
  <2>2. entries[Place(s, j)] = RowEntry(given[s].rows[j])
    BY <1>1, <1>2, <2>1, FlattenedAt DEF Place
  <2>3. entries[Place(s, j)].checked = given[s].rows[j].checked
    BY <2>2 DEF RowEntry
  <2>4. QED
    BY <1>2, <1>3, <2>3, MarkedAt
<1> DEFINE Checked(s) == {<<s, i>> : i \in {j \in DOMAIN given[s].rows : given[s].rows[j].checked}}
<1>5. ASSUME NEW m \in Marked
      PROVE  m \in UNION {Checked(s) : s \in DOMAIN given}
  <2>1. PICK s \in DOMAIN given : \E j \in DOMAIN given[s].rows : m = <<s, j>>
    BY <1>2, <1>3, MarkedAt
  <2>2. PICK j \in DOMAIN given[s].rows : m = <<s, j>>
    BY <2>1
  <2>3. m \in Checked(s)
    BY <1>4, <2>2
  <2>4. QED
    BY <2>3
<1>6. ASSUME NEW m \in UNION {Checked(s) : s \in DOMAIN given}
      PROVE  m \in Marked
  <2>1. PICK s \in DOMAIN given : m \in Checked(s)
    OBVIOUS
  <2>2. QED
    BY <1>4, <2>1
<1>7. Marked = UNION {Checked(s) : s \in DOMAIN given}
  BY <1>5, <1>6
<1>8. Outcome = Contract!Open
  BY <1>1, OutcomeOpen
<1>9. QED
  BY <1>1, <1>7, <1>8 DEF Contract!Init

(* The contract of sectioned-picker (tui.picker), for every list a caller may
   open it with: marks change in one section at a time, a radio section gains no
   second mark, and what is handed back are the marks, row for row. *)
THEOREM Contracted == PickerSpec => KeepsContract
<1>1. ASSUME Inv, [Next]_vars
      PROVE  [Contract!Next]_(Contract!contract)
  <2>1. CASE UNCHANGED vars
    <3>1. given' = given /\ entries' = entries /\ phase' = phase /\ results' = results
      BY <2>1 DEF vars
    <3>2. Marked' = Marked /\ Outcome' = Outcome
      BY <3>1, MarkedNext DEF Outcome
    <3>3. QED
      BY <3>1, <3>2 DEF Contract!contract
  <2>2. CASE Next
    <3>1. CASE phase' \in {"draw", "key", "preview"}
      BY <1>1, <2>2, <3>1, OpenStep DEF Contract!Next
    <3>2. CASE phase' = "confirmed"
      <4>1. Enter
        BY <2>2, <3>2 DEF Next, Draw, Up, Down, Move, Toggle, ToggleSection, Backspace, Marks,
              Collapse, Expand, Fold, Ignored, Key, Preview, Dismiss, Cancel
      <4>2. QED
        BY <1>1, <3>2, <4>1, EnterStep DEF Contract!Next
    <3>3. CASE phase' = "cancelled"
      <4>1. Cancel
        BY <2>2, <3>3 DEF Next, Draw, Up, Down, Move, Toggle, ToggleSection, Backspace, Marks,
              Collapse, Expand, Fold, Ignored, Key, Preview, Dismiss, Enter
      <4>2. QED
        BY <1>1, <4>1, CancelStep DEF Contract!Next
    <3>4. Inv'
      BY <1>1, NextInv
    <3>5. QED
      BY <3>1, <3>2, <3>3, <3>4 DEF Inv, TypeOK
  <2>3. QED
    BY <1>1, <2>1, <2>2
<1>2. QED
  BY <1>1, InitStep, Invariance, PTL DEF PickerSpec, KeepsContract, Contract!ContractSpec
=============================================================================
