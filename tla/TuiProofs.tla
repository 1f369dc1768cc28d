------------------------------- MODULE TuiProofs -------------------------------
(***************************************************************************)
(* The positions, commands and the terminal of module Tui, for every list  *)
(* of packs, every text and every sequence of keys.                        *)
(***************************************************************************)
EXTENDS TuiSafety, SequenceTheorems, WellFoundedInduction, TLAPS

Names == STRING \cup {"crates.io", "add", "new"}
Item == [kind : {"crate", "extends", "template", "example", "action"}, what : Names]

-----------------------------------------------------------------------------
(* Arithmetic. *)

LEMMA Remainder ==
    ASSUME NEW n \in Nat, NEW w \in Nat \ {0}
    PROVE  n % w \in 0 .. w - 1 /\ n % w <= n
  BY SMTT(30)

(* The lines of a preview, counted in 16 bits. *)
LEMMA LinesOf ==
    ASSUME NEW n \in Lengths
    PROVE  n \in Nat /\ n % Wide \in Nat /\ n % Wide <= n
<1>1. n \in Nat /\ Wide \in Nat \ {0}
  BY TuiAssumption
<1>2. n % Wide \in 0 .. Wide - 1 /\ n % Wide <= n
  BY <1>1, Remainder
<1>3. QED
  BY <1>1, <1>2

LEMMA WrappedInside ==
    ASSUME NEW n \in Nat \ {0}, NEW i \in 1 .. n, NEW forward \in BOOLEAN
    PROVE  Wrapped(i, n, forward) \in 1 .. n
<1>1. i % n \in 0 .. n - 1
  BY Remainder
<1>2. (i + n - 2) % n \in 0 .. n - 1
  BY Remainder
<1>3. QED
  BY <1>1, <1>2 DEF Wrapped

LEMMA ClampedInside ==
    ASSUME NEW n \in Nat, NEW i \in 1 .. n, NEW forward \in BOOLEAN
    PROVE  Clamped(i, n, forward) \in 1 .. n
  BY DEF Clamped

(* The first position of a non-empty set of them. *)
LEMMA FirstPosition ==
    ASSUME NEW n \in Nat, NEW P \in SUBSET (1 .. n), P # {}
    PROVE  \E i \in P : \A j \in 1 .. (i - 1) : j \notin P
<1>1. IsWellFoundedOn(OpToRel(<, Nat), Nat)
  BY NatLessThanWellFounded
<1>2. P \in SUBSET Nat
  OBVIOUS
<1>3. PICK i \in P : \A j \in P : ~ (<<j, i>> \in OpToRel(<, Nat))
  BY <1>1, <1>2, WFMin
<1>4. \A j \in P : ~ (j < i)
  BY <1>2, <1>3 DEF OpToRel
<1>5. \A j \in 1 .. (i - 1) : j \notin P
  BY <1>4
<1>6. QED
  BY <1>5

-----------------------------------------------------------------------------
(* The items of a pack. *)

Holds(seq, x) == \E j \in DOMAIN seq : seq[j] = x

LEMMA ElementOf ==
    ASSUME NEW S, NEW s \in Seq(S)
    PROVE  Len(s) \in Nat /\ DOMAIN s = 1 .. Len(s) /\ \A i \in DOMAIN s : s[i] \in S
  OBVIOUS

LEMMA Joined ==
    ASSUME NEW S, NEW s \in Seq(S), NEW t \in Seq(S)
    PROVE  /\ s \o t \in Seq(S) /\ Len(s \o t) = Len(s) + Len(t)
           /\ \A i \in DOMAIN (s \o t) : Holds(s, (s \o t)[i]) \/ Holds(t, (s \o t)[i])
  BY DEF Holds

LEMMA TaggedItems ==
    ASSUME NEW tag \in {"crate", "extends", "template", "example", "action"}, NEW s \in Seq(Names)
    PROVE  /\ Tagged(tag, s) \in Seq(Item) /\ Len(Tagged(tag, s)) = Len(s)
           /\ \A x : Holds(Tagged(tag, s), x) => x.kind = tag /\ Holds(s, x.what)
<1>1. Len(s) \in Nat /\ DOMAIN s = 1 .. Len(s) /\ \A i \in DOMAIN s : s[i] \in Names
  OBVIOUS
<1>2. Tagged(tag, s) \in [1 .. Len(s) -> Item]
  BY <1>1 DEF Tagged, Item
<1>3. Tagged(tag, s) \in Seq(Item) /\ Len(Tagged(tag, s)) = Len(s)
  BY <1>1, <1>2
<1>4. QED
  BY <1>3 DEF Holds, Tagged

(* The templates among the items have a path of seq. *)
Lead(items, seq) == \A i \in DOMAIN items : items[i].kind = "template" => Holds(seq, items[i].what)

LEMMA JoinedLead ==
    ASSUME NEW seq, NEW s \in Seq(Item), NEW t \in Seq(Item), Lead(s, seq), Lead(t, seq)
    PROVE  s \o t \in Seq(Item) /\ Len(s \o t) = Len(s) + Len(t) /\ Lead(s \o t, seq)
<1>1. SUFFICES ASSUME NEW i \in DOMAIN (s \o t), (s \o t)[i].kind = "template"
               PROVE  Holds(seq, (s \o t)[i].what)
  BY Joined DEF Lead
<1>2. CASE Holds(s, (s \o t)[i])
  BY <1>1, <1>2 DEF Holds, Lead
<1>3. CASE Holds(t, (s \o t)[i])
  BY <1>1, <1>3 DEF Holds, Lead
<1>4. QED
  BY <1>2, <1>3, Joined

Paths(d) == [i \in DOMAIN d.templates |-> d.templates[i].path]

LEMMA ItemsOf ==
    ASSUME NEW d \in Specs
    PROVE  /\ Items(d) \in Seq(Item) /\ Len(Items(d)) >= 3
           /\ \A i \in DOMAIN Items(d) :
                 Items(d)[i].kind = "template" =>
                    \E j \in DOMAIN d.templates : d.templates[j].path = Items(d)[i].what
<1>1. /\ d.crates \in Seq(Names) /\ d.extends \in Seq(Names) /\ d.examples \in Seq(Names)
      /\ d.templates \in Seq([name : STRING, path : STRING])
  BY DEF Specs, Names
<1>2. Paths(d) \in Seq(Names) /\ DOMAIN Paths(d) = DOMAIN d.templates
  <2>1. Len(d.templates) \in Nat /\ DOMAIN d.templates = 1 .. Len(d.templates)
        /\ \A i \in DOMAIN d.templates : d.templates[i] \in [name : STRING, path : STRING]
    BY <1>1, ElementOf
  <2>2. Paths(d) \in [1 .. Len(d.templates) -> Names]
    BY <2>1 DEF Paths, Names
  <2>3. QED
    BY <2>1, <2>2
<1>3. <<"crates.io", "add", "new">> \in Seq(Names) /\ Len(<<"crates.io", "add", "new">>) = 3
  BY DEF Names
<1> DEFINE c == Tagged("crate", d.crates)
           e == Tagged("extends", d.extends)
           t == Tagged("template", Paths(d))
           x == Tagged("example", d.examples)
           a == Tagged("action", <<"crates.io", "add", "new">>)
<1>4. /\ c \in Seq(Item) /\ \A y : Holds(c, y) => y.kind = "crate"
      /\ e \in Seq(Item) /\ \A y : Holds(e, y) => y.kind = "extends"
      /\ x \in Seq(Item) /\ \A y : Holds(x, y) => y.kind = "example"
  BY <1>1, TaggedItems
<1>5. t \in Seq(Item) /\ \A y : Holds(t, y) => Holds(Paths(d), y.what)
  BY <1>2, TaggedItems
<1>6. a \in Seq(Item) /\ Len(a) = 3 /\ \A y : Holds(a, y) => y.kind = "action"
  BY <1>3, TaggedItems
<1>7. Items(d) = c \o e \o t \o x \o a
  BY DEF Items, Paths
<1> HIDE DEF c, e, t, x, a
<1>8. Lead(c, Paths(d)) /\ Lead(e, Paths(d)) /\ Lead(t, Paths(d)) /\ Lead(x, Paths(d))
      /\ Lead(a, Paths(d))
  BY <1>4, <1>5, <1>6 DEF Lead, Holds
<1>9. c \o e \in Seq(Item) /\ Lead(c \o e, Paths(d))
  BY <1>4, <1>8, JoinedLead
<1>10. c \o e \o t \in Seq(Item) /\ Lead(c \o e \o t, Paths(d))
  BY <1>5, <1>8, <1>9, JoinedLead
<1>11. c \o e \o t \o x \in Seq(Item) /\ Lead(c \o e \o t \o x, Paths(d))
  BY <1>4, <1>8, <1>10, JoinedLead
<1>12. Items(d) \in Seq(Item) /\ Lead(Items(d), Paths(d))
       /\ Len(Items(d)) = Len(c \o e \o t \o x) + 3
  BY <1>6, <1>7, <1>8, <1>11, JoinedLead
<1>13. Len(Items(d)) >= 3
  BY <1>11, <1>12
<1>14. QED
  BY <1>2, <1>12, <1>13 DEF Lead, Holds, Paths

(* The name of the template a path stands for. *)
LEMMA NamedTemplate ==
    ASSUME NEW d \in Specs, NEW path, \E j \in DOMAIN d.templates : d.templates[j].path = path
    PROVE  \E i \in DOMAIN d.templates :
              d.templates[i].path = path /\ d.templates[i].name = TemplateName(d, path)
<1> DEFINE P == {i \in DOMAIN d.templates : d.templates[i].path = path}
           First(i) == d.templates[i].path = path
                          /\ \A j \in 1 .. (i - 1) : ~ (d.templates[j].path = path)
<1>1. d.templates \in Seq([name : STRING, path : STRING])
  BY DEF Specs
<1>2. Len(d.templates) \in Nat /\ DOMAIN d.templates = 1 .. Len(d.templates)
  BY <1>1
<1>3. PICK i \in P : \A j \in 1 .. (i - 1) : j \notin P
  BY <1>2, FirstPosition
<1>4. First(i)
  BY <1>2, <1>3
<1>5. i \in DOMAIN d.templates
  OBVIOUS
<1>6. QED
  BY <1>4, <1>5 DEF TemplateName

-----------------------------------------------------------------------------
(* Texts. *)

Texts == Seq(Bytes)

LEMMA Part ==
    ASSUME NEW text \in Texts, NEW m \in Nat, NEW n \in 0 .. Len(text)
    PROVE  /\ SubSeq(text, m + 1, n) \in Texts
           /\ Len(SubSeq(text, m + 1, n)) \in Nat
           /\ m = 0 => Len(SubSeq(text, m + 1, n)) = n
<1>1. Len(text) \in Nat
  BY DEF Texts
<1>2. \A i \in m + 1 .. n : i \in 1 .. Len(text)
  BY <1>1
<1>3. SubSeq(text, m + 1, n) \in Texts
  BY <1>2, SubSeqProperties DEF Texts
<1>4. Len(SubSeq(text, m + 1, n)) = IF m + 1 <= n THEN n - (m + 1) + 1 ELSE 0
  BY <1>1, <1>2, SubSeqProperties DEF Texts
<1>5. QED
  BY <1>1, <1>3, <1>4

LEMMA Inserted ==
    ASSUME NEW text \in Texts, NEW at \in 0 .. Len(text), NEW char \in Texts, char # <<>>
    PROVE  Insert(text, at, char) \in Texts /\ at + 1 \in 0 .. Len(Insert(text, at, char))
<1> DEFINE a == SubSeq(text, 1, at)
           b == SubSeq(text, at + 1, Len(text))
<1>1. Len(text) \in Nat /\ Len(char) \in Nat /\ Len(char) # 0 /\ at \in Nat
  BY DEF Texts
<1>2. a \in Texts /\ Len(a) = at
  BY <1>1, Part, 0 \in Nat, 0 + 1 = 1
<1>3. b \in Texts /\ Len(b) \in Nat
  BY <1>1, Part
<1> HIDE DEF a, b
<1>4. a \o char \in Texts /\ Len(a \o char) = at + Len(char)
  BY <1>2, Joined DEF Texts
<1>5. a \o char \o b \in Texts /\ Len(a \o char \o b) = at + Len(char) + Len(b)
  BY <1>3, <1>4, Joined DEF Texts
<1>6. Insert(text, at, char) = a \o char \o b
  BY DEF Insert, a, b
<1>7. QED
  BY <1>1, <1>3, <1>5, <1>6

LEMMA Removed ==
    ASSUME NEW text \in Texts, NEW at \in 0 .. Len(text) - 1
    PROVE  Remove(text, at) \in Texts /\ at \in 0 .. Len(Remove(text, at))
<1> DEFINE width == IF at + 2 <= Len(text) /\ text[at + 2] = Trail THEN 2 ELSE 1
           a == SubSeq(text, 1, at)
           b == SubSeq(text, at + width + 1, Len(text))
<1>0. width \in {1, 2}
  OBVIOUS
<1> HIDE DEF width
<1>1. Len(text) \in Nat /\ at \in Nat /\ at \in 0 .. Len(text) /\ at + width \in Nat
  BY <1>0 DEF Texts
<1>2. a \in Texts /\ Len(a) = at
  <2>1. \A m \in Nat : m = 0 => SubSeq(text, m + 1, at) \in Texts /\ Len(SubSeq(text, m + 1, at)) = at
    BY <1>1, Part
  <2>2. 0 \in Nat /\ 0 + 1 = 1
    OBVIOUS
  <2>3. QED
    BY <2>1, <2>2
<1>3. b \in Texts /\ Len(b) \in Nat
  BY <1>1, Part
<1> HIDE DEF a, b
<1>4. a \o b \in Texts /\ Len(a \o b) = at + Len(b)
  BY <1>2, <1>3, Joined DEF Texts
<1>5. Remove(text, at) = a \o b
  BY DEF Remove, a, b, width
<1>6. QED
  BY <1>1, <1>3, <1>4, <1>5

-----------------------------------------------------------------------------
(* Screens. *)

Filters == STRING \cup {""}

ListScreens == [kind : {"list"}, items : Seq(DOMAIN Details), selected : Nat, filter : Filters]

DetailScreens ==
    [kind : {"detail"}, detail : Specs, index : Nat, fromList : BOOLEAN, installed : BOOLEAN]

FormScreens ==
    [kind : {"form"}, detail : Specs, index : Nat, fromList : BOOLEAN, template : STRING \cup {""},
     directory : Texts, name : Texts, field : {"name", "directory"}, cursor : Nat]

PreviewScreens ==
    [kind : {"preview"}, template : STRING \cup {"t"}, length : Nat, from : STRING, lines : Nat,
     scroll : Nat, detail : Specs \cup {NoDetail}, index : Nat, fromList : BOOLEAN]

Targets ==
    [kind : {"list"}, filter : Filters]
        \cup [kind : {"detail"}, name : DOMAIN Details, path : STRING \cup {""}, fromList : BOOLEAN]

LoadingScreens == [kind : {"loading", "error"}, target : Targets]

(* Where the packs of this run are read from. *)
Home(l) == From(l.path, l.source)

(* A list, or a way back to one, is only there when --path is not given. *)
TargetOK(l, t) ==
    /\ t \in Targets
    /\ t.kind = "list" => l.path = ""
    /\ t.kind = "detail" => From(t.path, l.source) = Home(l) /\ (t.fromList => l.path = "")

HasNames(d) == \A i \in DOMAIN d.templates : d.templates[i].name # ""

Carries(l, s) ==
    /\ s.detail \in Specs /\ HasNames(s.detail) /\ s.detail.from = Home(l)
    /\ s.index \in DOMAIN Items(s.detail)
    /\ s.fromList => l.path = ""

ListOK(l, s) ==
    /\ s \in ListScreens /\ l.path = ""
    /\ IF s.items = <<>> THEN s.selected = 0 ELSE s.selected \in DOMAIN s.items

DetailOK(l, s) == s \in DetailScreens /\ Carries(l, s)

FormOK(l, s) ==
    /\ s \in FormScreens /\ Carries(l, s)
    /\ s.cursor \in 0 .. Len(Focused(s))
    /\ IF s.template = "" THEN Selected(s).what = "new"
       ELSE \E i \in DOMAIN s.detail.templates :
               s.detail.templates[i] = [name |-> s.template, path |-> Selected(s).what]

PreviewOK(l, s) ==
    /\ s \in PreviewScreens
    /\ s.lines <= s.length /\ (s.scroll < s.lines \/ s.scroll = 0)
    /\ s.detail = NoDetail
          \/ (Carries(l, s) /\ Selected(s).kind = "template" /\ s.from = s.detail.from)

LoadingOK(l, s) == s \in LoadingScreens /\ TargetOK(l, s.target)

ScreenOK(l, s) == LoadingOK(l, s) \/ ListOK(l, s) \/ DetailOK(l, s) \/ FormOK(l, s) \/ PreviewOK(l, s)

LEMMA KindOf ==
    ASSUME NEW l, NEW s, ScreenOK(l, s)
    PROVE  /\ s.kind \in Kinds
           /\ s.kind \in {"loading", "error"} => LoadingOK(l, s)
           /\ s.kind = "list" => ListOK(l, s)
           /\ s.kind = "detail" => DetailOK(l, s)
           /\ s.kind = "form" => FormOK(l, s)
           /\ s.kind = "preview" => PreviewOK(l, s)
<1>1. LoadingOK(l, s) => s.kind \in {"loading", "error"}
  BY DEF LoadingOK, LoadingScreens
<1>2. ListOK(l, s) => s.kind = "list"
  BY DEF ListOK, ListScreens
<1>3. DetailOK(l, s) => s.kind = "detail"
  BY DEF DetailOK, DetailScreens
<1>4. FormOK(l, s) => s.kind = "form"
  BY DEF FormOK, FormScreens
<1>5. PreviewOK(l, s) => s.kind = "preview"
  BY DEF PreviewOK, PreviewScreens
<1>6. QED
  BY <1>1, <1>2, <1>3, <1>4, <1>5 DEF ScreenOK, Kinds

LEMMA HomeType ==
    ASSUME launch \in Launches
    PROVE  Home(launch) \in STRING /\ launch.source \in STRING /\ launch.path \in STRING
  BY TuiAssumption DEF Home, From

LEMMA DetailType ==
    ASSUME NEW d \in Specs, NEW i \in Nat, NEW back \in BOOLEAN
    PROVE  Detail(d, i, back) \in DetailScreens
<1>1. (d.name \in launch.installed) \in BOOLEAN
  OBVIOUS
<1> DEFINE here == d.name \in launch.installed
<1>2. Detail(d, i, back) =
        [kind |-> "detail", detail |-> d, index |-> i, fromList |-> back, installed |-> here]
  BY DEF Detail
<1>3. here \in BOOLEAN
  OBVIOUS
<1> HIDE DEF here
<1>4. QED
  BY <1>2, <1>3 DEF DetailScreens

LEMMA DetailFields ==
    ASSUME NEW d, NEW i, NEW back
    PROVE  /\ Detail(d, i, back).kind = "detail" /\ Detail(d, i, back).detail = d
           /\ Detail(d, i, back).index = i /\ Detail(d, i, back).fromList = back
  BY DEF Detail

(* Back from a form or a preview. *)
LEMMA ReopenedOK ==
    ASSUME NEW s, Carries(launch, s), s.index \in Nat, s.fromList \in BOOLEAN
    PROVE  DetailOK(launch, Reopened(s)) /\ Reopened(s).detail = s.detail /\ Reopened(s).kind = "detail"
<1>1. s.detail \in Specs
  BY DEF Carries
<1>2. Reopened(s) \in DetailScreens
  BY <1>1, DetailType DEF Reopened
<1>3. Carries(launch, Reopened(s))
  <2> DEFINE r == Reopened(s)
  <2>1. r.detail = s.detail /\ r.index = s.index /\ r.fromList = s.fromList
    BY DetailFields DEF Reopened
  <2> HIDE DEF r
  <2>2. Carries(launch, r)
    BY <2>1 DEF Carries
  <2>3. QED
    BY <2>2 DEF r
<1>4. QED
  BY <1>2, <1>3, DetailFields DEF DetailOK, Reopened

(* What a fetch answers. *)
LEMMA FetchedOK ==
    ASSUME launch \in Launches, NEW target, TargetOK(launch, target), NEW s \in Fetched(target)
    PROVE  ScreenOK(launch, s) /\ s.kind # "loading"
<1>1. CASE target.kind = "list"
  <2>1. PICK items \in Lists :
          s = [kind |-> "list", items |-> items, selected |-> IF items = <<>> THEN 0 ELSE 1,
               filter |-> target.filter]
    BY <1>1 DEF Fetched
  <2>2. items \in Seq(DOMAIN Details) /\ target.filter \in Filters /\ launch.path = ""
    BY <1>1, TuiAssumption DEF TargetOK, Targets
  <2>3. items # <<>> => 1 \in DOMAIN items
    <3>1. Len(items) \in Nat /\ DOMAIN items = 1 .. Len(items)
      BY <2>2, ElementOf
    <3>2. items # <<>> => Len(items) # 0
      BY <2>2, EmptySeq
    <3>3. QED
      BY <3>1, <3>2
  <2>4. ListOK(launch, s)
    BY <2>1, <2>2, <2>3 DEF ListOK, ListScreens
  <2>5. QED
    BY <2>1, <2>4 DEF ScreenOK
<1>2. CASE target.kind = "detail"
  <2> DEFINE from == From(target.path, launch.source)
  <2>1. PICK x \in Details[target.name] :
          s = Detail([x EXCEPT !.from = from], Len(Items([x EXCEPT !.from = from])) - 2,
                     target.fromList)
    BY <1>2 DEF Fetched
  <2> DEFINE d == [x EXCEPT !.from = from]
  <2>2. target.name \in DOMAIN Details /\ target.fromList \in BOOLEAN /\ from = Home(launch)
        /\ (target.fromList => launch.path = "")
    BY <1>2 DEF TargetOK, Targets
  <2>3. x \in Specs /\ HasNames(x)
    BY <2>2, TuiAssumption DEF HasNames
  <2>4. d \in Specs /\ d.from = Home(launch) /\ d.templates = x.templates
    BY <2>2, <2>3, HomeType DEF Specs
  <2> HIDE DEF d, from
  <2>5. Items(d) \in Seq(Item) /\ Len(Items(d)) >= 3
    BY <2>4, ItemsOf
  <2>6. Len(Items(d)) - 2 \in DOMAIN Items(d) /\ Len(Items(d)) - 2 \in Nat
    BY <2>5
  <2>7. s = Detail(d, Len(Items(d)) - 2, target.fromList)
    BY <2>1 DEF d, from
  <2>8. DetailOK(launch, s) /\ s.kind = "detail"
    <3>1. s \in DetailScreens
      BY <2>2, <2>4, <2>6, <2>7, DetailType
    <3>2. HasNames(d)
      BY <2>3, <2>4 DEF HasNames
    <3>3. s.detail = d /\ s.index = Len(Items(d)) - 2 /\ s.fromList = target.fromList
      BY <2>7, DetailFields
    <3>4. Carries(launch, s)
      BY <2>2, <2>4, <2>6, <3>2, <3>3 DEF Carries
    <3>5. QED
      BY <2>7, <3>1, <3>4, DetailFields DEF DetailOK
  <2>9. QED
    BY <2>8 DEF ScreenOK
<1>3. QED
  BY <1>1, <1>2 DEF TargetOK, Targets

-----------------------------------------------------------------------------
(* The loop. *)

Verbs == {"none", "open", "add", "new", "use"}

(* A command that was asked for fits the pack on the screen. *)
Ordered(l, c, s) ==
    /\ s.kind = "detail" /\ c.verb \in Verbs \ {"none"}
    /\ c.verb \in {"add", "use"} => l.inProject
    /\ c.verb # "open" => c.pack = s.detail.name
    /\ c.verb = "use" =>
          /\ c.from = s.detail.from
          /\ \E i \in DOMAIN s.detail.templates : s.detail.templates[i].name = c.template

Raw == {"load", "draw", "act", "poll", "check"}

LoopOK ==
    /\ launch \in Launches /\ phase \in Phases
    /\ quit \in BOOLEAN /\ (quit => phase \in {"check", "done"} /\ pending = NoCommand)
    /\ seen \in Kinds \cup {"none"} /\ (phase = "poll" => seen = screen.kind)
    /\ terminal = "raw" <=> phase \in Raw
    /\ phase \in {"draw", "act", "child", "wait", "poll"} => screen.kind # "loading"
    /\ phase = "act" => pending # NoCommand
    /\ pending = NoCommand
          \/ (phase \in {"check", "load", "draw", "act", "done"} /\ Ordered(launch, pending, screen))
    /\ ran.verb \in Verbs /\ (ran # NoCommand <=> phase = "child")
    /\ phase = "panic" => \E i \in DOMAIN Focused(screen) : Focused(screen)[i] = Trail

IInv == LoopOK /\ ScreenOK(launch, screen)

LEMMA Invariants ==
    ASSUME IInv
    PROVE  TypeOK /\ InPlace
<1>1. screen.kind \in Kinds
  BY KindOf DEF IInv
<1>2. pending.verb \in Verbs
  BY DEF IInv, LoopOK, Ordered, NoCommand, Verbs
<1>3. TypeOK
  BY <1>1, <1>2 DEF IInv, LoopOK, TypeOK, Verbs, Raw
<1>4. phase = "poll" => seen = screen.kind
  BY DEF IInv, LoopOK
<1>5. screen.kind = "list" =>
        IF screen.items = <<>> THEN screen.selected = 0 ELSE screen.selected \in DOMAIN screen.items
  BY KindOf DEF IInv, ListOK
<1>6. screen.kind = "detail" => screen.index \in DOMAIN Items(screen.detail)
  BY KindOf DEF IInv, DetailOK, Carries
<1>7. screen.kind = "form" =>
        /\ screen.index \in DOMAIN Items(screen.detail)
        /\ screen.cursor \in 0..Len(Focused(screen))
        /\ IF screen.template = "" THEN Selected(screen).what = "new"
           ELSE \E i \in DOMAIN screen.detail.templates :
                   screen.detail.templates[i] =
                      [name |-> screen.template, path |-> Selected(screen).what]
  BY KindOf DEF IInv, FormOK, Carries
<1>8. screen.kind = "preview" =>
        /\ screen.scroll < screen.length \/ screen.scroll = 0
        /\ screen.detail # NoDetail => Selected(screen).kind = "template"
  <2>1. SUFFICES ASSUME screen.kind = "preview"
                 PROVE  /\ screen.scroll < screen.length \/ screen.scroll = 0
                        /\ screen.detail # NoDetail => Selected(screen).kind = "template"
    OBVIOUS
  <2>2. PreviewOK(launch, screen)
    BY <2>1, KindOf DEF IInv
  <2>3. screen.scroll \in Nat /\ screen.lines \in Nat /\ screen.length \in Nat
    BY <2>2 DEF PreviewOK, PreviewScreens
  <2>4. QED
    BY <2>2, <2>3 DEF PreviewOK
<1>9. phase = "panic" => \E i \in DOMAIN Focused(screen) : Focused(screen)[i] = Trail
  BY DEF IInv, LoopOK
<1>10. QED
  BY <1>3, <1>4, <1>5, <1>6, <1>7, <1>8, <1>9 DEF InPlace

LEMMA Initial == Init => IInv
<1>1. SUFFICES ASSUME Init PROVE IInv
  OBVIOUS
<1>2. launch \in Launches /\ launch.path \in STRING /\ launch.source \in STRING
      /\ launch.filter \in STRING
  BY <1>1, TuiAssumption DEF Init
<1>3. LoopOK
  BY <1>1, <1>2 DEF Init, LoopOK, NoCommand, Verbs, Raw, Phases
<1>4. CASE launch.kind = "list" /\ screen = Loading(ListTarget(launch.filter))
  <2>1. launch.path = ""
    BY <1>2, <1>4, TuiAssumption
  <2>2. ListTarget(launch.filter) \in Targets
    BY <1>2 DEF ListTarget, Targets, Filters
  <2>3. TargetOK(launch, ListTarget(launch.filter))
    BY <2>1, <2>2 DEF TargetOK, ListTarget
  <2>4. LoadingOK(launch, screen)
    BY <1>4, <2>2, <2>3 DEF LoadingOK, Loading, LoadingScreens
  <2>5. QED
    BY <1>3, <2>4 DEF IInv, ScreenOK
<1>5. CASE launch.kind = "show" /\ screen = Loading(DetailTarget(launch.pack, launch.path, FALSE))
  <2> DEFINE target == DetailTarget(launch.pack, launch.path, FALSE)
  <2>1. launch.pack \in DOMAIN Details
    BY <1>2, <1>5, TuiAssumption
  <2>2. target \in Targets
    BY <1>2, <2>1 DEF DetailTarget, Targets
  <2>3. TargetOK(launch, target)
    BY <2>2 DEF TargetOK, DetailTarget, Home
  <2>4. LoadingOK(launch, screen)
    BY <1>5, <2>2, <2>3 DEF LoadingOK, Loading, LoadingScreens
  <2>5. QED
    BY <1>3, <2>4 DEF IInv, ScreenOK
<1>6. ASSUME NEW n \in Lengths,
             screen = Preview("t", n, From(launch.path, launch.source), NoDetail, 1, FALSE)
      PROVE  IInv
  <2>1. n \in Nat /\ n % Wide \in Nat /\ n % Wide <= n
    BY LinesOf
  <2>2. Home(launch) \in STRING
    BY <1>2, HomeType
  <2>3. PreviewOK(launch, screen)
    BY <1>6, <2>1, <2>2 DEF PreviewOK, PreviewScreens, Preview, Home
  <2>4. QED
    BY <1>3, <2>3 DEF IInv, ScreenOK
<1>7. QED
  BY <1>1, <1>4, <1>5, <1>6 DEF Init

(* What a key does to the loop, by what it does to the screen. *)
LEMMA ShowKeeps ==
    ASSUME IInv, phase = "poll", NEW s, Show(s), ScreenOK(launch, s)
    PROVE  IInv'
<1>1. pending = NoCommand /\ ~quit
  BY DEF IInv, LoopOK
<1>2. LoopOK'
  BY <1>1 DEF IInv, LoopOK, Show, Phases, Raw
<1>3. QED
  BY <1>2 DEF IInv, Show

LEMMA StartKeeps ==
    ASSUME IInv, phase = "poll", NEW c, NEW s, Start(c, s), ScreenOK(launch, s),
           Ordered(launch, c, s)
    PROVE  IInv'
<1>1. pending = NoCommand /\ ~quit
  BY DEF IInv, LoopOK
<1>2. LoopOK'
  BY <1>1 DEF IInv, LoopOK, Start, Phases, Raw
<1>3. QED
  BY <1>2 DEF IInv, Start

LEMMA LeaveKeeps ==
    ASSUME IInv, phase = "poll", Leave
    PROVE  IInv'
<1>1. pending = NoCommand /\ ~quit
  BY DEF IInv, LoopOK
<1>2. LoopOK'
  BY <1>1 DEF IInv, LoopOK, Leave, Phases, Raw
<1>3. QED
  BY <1>2 DEF IInv, Leave

LEMMA PanicKeeps ==
    ASSUME IInv, phase = "poll", Panic,
           \E i \in DOMAIN Focused(screen) : Focused(screen)[i] = Trail
    PROVE  IInv'
<1>1. pending = NoCommand /\ ~quit
  BY DEF IInv, LoopOK
<1>2. LoopOK'
  BY <1>1 DEF IInv, LoopOK, Panic, Phases, Raw
<1>3. QED
  BY <1>2 DEF IInv, Panic

-----------------------------------------------------------------------------
(* The keys of each screen. *)

LEMMA LoadingFields ==
    ASSUME NEW t \in Targets, TargetOK(launch, t)
    PROVE  ScreenOK(launch, Loading(t))
  BY DEF ScreenOK, LoadingOK, Loading, LoadingScreens

LEMMA ListKeys ==
    ASSUME IInv, \/ \E forward \in BOOLEAN : ListMove(forward)
                 \/ ListSelect
    PROVE  IInv'
<1>1. phase = "poll" /\ screen.kind = "list"
  BY DEF ListMove, ListSelect, On
<1>2. ListOK(launch, screen)
  BY <1>1, KindOf DEF IInv
<1>3. screen \in ListScreens /\ screen.items \in Seq(DOMAIN Details)
      /\ Len(screen.items) \in Nat /\ DOMAIN screen.items = 1 .. Len(screen.items)
  <2>1. screen \in ListScreens /\ screen.items \in Seq(DOMAIN Details)
    BY <1>2 DEF ListOK, ListScreens
  <2>2. QED
    BY <2>1, ElementOf
<1>4. screen.selected # 0 => screen.selected \in DOMAIN screen.items /\ screen.items # <<>>
  BY <1>2 DEF ListOK
<1>5. ASSUME NEW forward \in BOOLEAN, ListMove(forward)
      PROVE  IInv'
  <2> DEFINE n == Clamped(screen.selected, Len(screen.items), forward)
             s == [screen EXCEPT !.selected = n]
  <2>1. n \in 1 .. Len(screen.items) /\ n \in Nat
    BY <1>3, <1>4, <1>5, ClampedInside DEF ListMove
  <2> HIDE DEF n
  <2>2. s \in ListScreens /\ s.items = screen.items /\ s.selected = n
    BY <1>3, <2>1 DEF ListScreens
  <2>3. ListOK(launch, s)
    BY <1>2, <1>3, <1>4, <1>5, <2>1, <2>2 DEF ListOK, ListMove
  <2>4. Show(s)
    BY <1>5 DEF ListMove, n
  <2> HIDE DEF s
  <2>5. QED
    BY <1>1, <2>3, <2>4, ShowKeeps DEF ScreenOK
<1>6. CASE ListSelect
  <2> DEFINE t == DetailTarget(screen.items[screen.selected], "", TRUE)
  <2>1. screen.items[screen.selected] \in DOMAIN Details
    BY <1>3, <1>4, <1>6, ElementOf DEF ListSelect
  <2>2. t \in Targets /\ TargetOK(launch, t)
    BY <1>2, <2>1 DEF DetailTarget, Targets, TargetOK, ListOK, Home, From
  <2>3. Show(Loading(t))
    BY <1>6 DEF ListSelect
  <2> HIDE DEF t
  <2>4. QED
    BY <1>1, <2>2, <2>3, LoadingFields, ShowKeeps
<1>7. QED
  BY <1>5, <1>6

(* A template on a detail screen. *)
LEMMA TemplateOf ==
    ASSUME NEW d \in Specs, HasNames(d), NEW i \in DOMAIN Items(d), Items(d)[i].kind = "template"
    PROVE  /\ TemplateName(d, Items(d)[i].what) \in STRING \ {""}
           /\ \E j \in DOMAIN d.templates :
                 /\ d.templates[j] = [name |-> TemplateName(d, Items(d)[i].what),
                                      path |-> Items(d)[i].what]
                 /\ d.templates[j].name = TemplateName(d, Items(d)[i].what)
<1> DEFINE path == Items(d)[i].what
<1>1. \E j \in DOMAIN d.templates : d.templates[j].path = path
  BY ItemsOf
<1> HIDE DEF path
<1>2. PICK j \in DOMAIN d.templates :
        d.templates[j].path = path /\ d.templates[j].name = TemplateName(d, path)
  BY <1>1, NamedTemplate
<1>3. d.templates \in Seq([name : STRING, path : STRING])
  BY DEF Specs
<1>4. d.templates[j] \in [name : STRING, path : STRING]
  BY <1>2, <1>3, ElementOf
<1>5. d.templates[j].name # ""
  BY DEF HasNames
<1>6. d.templates[j] = [name |-> d.templates[j].name, path |-> d.templates[j].path]
      /\ d.templates[j].name \in STRING
  BY <1>4
<1>7. QED
  BY <1>2, <1>5, <1>6 DEF path

LEMMA DetailKeys ==
    ASSUME IInv, \/ \E forward \in BOOLEAN : DetailMove(forward)
                 \/ DetailOpen \/ DetailAdd \/ DetailNewProject \/ DetailPreview
                 \/ DetailUseTemplate \/ DetailBack
    PROVE  IInv'
<1>1. phase = "poll" /\ screen.kind = "detail"
  BY DEF DetailMove, DetailOpen, DetailAdd, DetailNewProject, DetailPreview, DetailUseTemplate,
         DetailBack, On
<1>2. DetailOK(launch, screen) /\ ScreenOK(launch, screen) /\ launch \in Launches
  BY <1>1, KindOf DEF IInv, LoopOK
<1>3. /\ screen \in DetailScreens /\ Carries(launch, screen)
      /\ screen.detail \in Specs /\ HasNames(screen.detail) /\ screen.detail.from = Home(launch)
      /\ screen.index \in Nat /\ screen.index \in DOMAIN Items(screen.detail)
      /\ screen.fromList \in BOOLEAN /\ (screen.fromList => launch.path = "")
  BY <1>2 DEF DetailOK, DetailScreens, Carries
<1>4. Items(screen.detail) \in Seq(Item) /\ Len(Items(screen.detail)) >= 3
  BY <1>3, ItemsOf
<1>5. Len(Items(screen.detail)) \in Nat \ {0}
      /\ DOMAIN Items(screen.detail) = 1 .. Len(Items(screen.detail))
  BY <1>4, ElementOf
<1> DEFINE name == TemplateName(screen.detail, Selected(screen).what)
<1>6. ASSUME Selected(screen).kind = "template"
      PROVE  /\ name \in STRING \ {""}
             /\ \E j \in DOMAIN screen.detail.templates :
                   /\ screen.detail.templates[j] = [name |-> name, path |-> Selected(screen).what]
                   /\ screen.detail.templates[j].name = name
  BY <1>3, <1>6, TemplateOf DEF Selected
<1> HIDE DEF name
<1>7. ASSUME NEW forward \in BOOLEAN, DetailMove(forward)
      PROVE  IInv'
  <2> DEFINE n == Wrapped(screen.index, Len(Items(screen.detail)), forward)
             s == [screen EXCEPT !.index = n]
  <2>1. n \in DOMAIN Items(screen.detail) /\ n \in Nat
    <3> DEFINE m == Len(Items(screen.detail))
    <3>1. m \in Nat \ {0} /\ DOMAIN Items(screen.detail) = 1 .. m /\ screen.index \in 1 .. m
      BY <1>3, <1>5
    <3> HIDE DEF m
    <3>2. Wrapped(screen.index, m, forward) \in 1 .. m
      BY <1>7, <3>1, WrappedInside
    <3>3. n \in 1 .. m
      BY <3>2 DEF m
    <3> HIDE DEF n
    <3>4. QED
      BY <3>1, <3>3
  <2>2. Show(s)
    BY <1>7 DEF DetailMove
  <2> HIDE DEF n
  <2>3. /\ s \in DetailScreens /\ s.detail = screen.detail /\ s.index = n
        /\ s.fromList = screen.fromList
    BY <1>3, <2>1 DEF DetailScreens
  <2> HIDE DEF s
  <2>4. Carries(launch, s)
    BY <1>3, <2>1, <2>3 DEF Carries
  <2>5. QED
    BY <1>1, <2>2, <2>3, <2>4, ShowKeeps DEF ScreenOK, DetailOK
<1>8. CASE DetailOpen
  <2> DEFINE c == [verb |-> "open"]
  <2>1. Ordered(launch, c, screen)
    BY <1>1 DEF Ordered, Verbs
  <2>2. Start(c, screen)
    BY <1>8 DEF DetailOpen
  <2> HIDE DEF c
  <2>3. QED
    BY <1>1, <1>2, <2>1, <2>2, StartKeeps
<1>9. CASE DetailAdd
  <2> DEFINE c == [verb |-> "add", pack |-> screen.detail.name]
  <2>1. Ordered(launch, c, screen)
    BY <1>1, <1>9 DEF Ordered, Verbs, DetailAdd
  <2>2. Start(c, screen)
    BY <1>9 DEF DetailAdd
  <2> HIDE DEF c
  <2>3. QED
    BY <1>1, <1>2, <2>1, <2>2, StartKeeps
<1>10. CASE DetailNewProject
  <2> DEFINE chosen == IF Selected(screen).kind = "template" THEN name ELSE ""
             s == [kind |-> "form", detail |-> screen.detail, index |-> screen.index,
                   fromList |-> screen.fromList, template |-> chosen,
                   directory |-> Cwd, name |-> <<>>, field |-> "name", cursor |-> 0]
  <2>1. Show(s)
    BY <1>10 DEF DetailNewProject, name
  <2>2. chosen \in STRING \cup {""}
    BY <1>6
  <2>3. IF chosen = "" THEN Selected(screen).what = "new"
        ELSE \E i \in DOMAIN screen.detail.templates :
                screen.detail.templates[i] = [name |-> chosen, path |-> Selected(screen).what]
    <3>1. CASE Selected(screen).kind = "template"
      <4>1. chosen = name
        BY <3>1
      <4> HIDE DEF chosen
      <4>2. QED
        BY <1>6, <3>1, <4>1
    <3>2. CASE Selected(screen).kind # "template"
      <4>1. Selected(screen) = [kind |-> "action", what |-> "new"]
        BY <1>10, <3>2 DEF DetailNewProject
      <4>2. Selected(screen).what = "new"
        BY <4>1
      <4>3. QED
        BY <3>2, <4>2
    <3>3. QED
      BY <3>1, <3>2
  <2> HIDE DEF chosen
  <2>4. Cwd \in Texts /\ <<>> \in Texts /\ Len(<<>>) = 0
    <3>1. Cwd \in Texts
      BY TuiAssumption DEF Texts
    <3>2. <<>> \in Texts /\ Len(<<>>) = 0
      BY EmptySeq DEF Texts
    <3>3. QED
      BY <3>1, <3>2
  <2>5. s \in FormScreens
    BY <1>3, <2>2, <2>4 DEF FormScreens
  <2>6. s.cursor \in 0 .. Len(Focused(s))
    BY <2>4 DEF Focused
  <2>7. /\ s.detail = screen.detail /\ s.index = screen.index /\ s.fromList = screen.fromList
        /\ s.template = chosen
    OBVIOUS
  <2> HIDE DEF s
  <2>8. Selected(s) = Selected(screen)
    BY <2>7 DEF Selected
  <2>9. Carries(launch, s)
    BY <1>3, <2>7 DEF Carries
  <2>10. FormOK(launch, s)
    <3>1. IF s.template = "" THEN Selected(s).what = "new"
          ELSE \E i \in DOMAIN s.detail.templates :
                  s.detail.templates[i] = [name |-> s.template, path |-> Selected(s).what]
      <4>1. CASE chosen = ""
        BY <2>3, <2>7, <2>8, <4>1
      <4>2. CASE chosen # ""
        BY <2>3, <2>7, <2>8, <4>2
      <4>3. QED
        BY <4>1, <4>2
    <3>2. QED
      BY <2>5, <2>6, <2>9, <3>1 DEF FormOK
  <2>11. QED
    BY <1>1, <2>1, <2>10, ShowKeeps DEF ScreenOK
<1>11. CASE DetailPreview
  <2>1. PICK n \in Lengths :
          Show(Preview(name, n, From(launch.path, launch.source),
                       screen.detail, screen.index, screen.fromList))
    BY <1>11 DEF DetailPreview, name
  <2> DEFINE s == Preview(name, n, From(launch.path, launch.source),
                          screen.detail, screen.index, screen.fromList)
  <2>2. n \in Nat /\ n % Wide \in Nat /\ n % Wide <= n
    BY LinesOf
  <2>3. Home(launch) \in STRING /\ From(launch.path, launch.source) = Home(launch)
    BY <1>2, HomeType DEF Home
  <2>4. Selected(screen).kind = "template" /\ name \in STRING
    BY <1>6, <1>11 DEF DetailPreview
  <2>5. s \in PreviewScreens
    BY <1>3, <2>2, <2>3, <2>4 DEF PreviewScreens, Preview
  <2>6. /\ s.detail = screen.detail /\ s.index = screen.index /\ s.fromList = screen.fromList
        /\ s.from = Home(launch) /\ s.lines <= s.length /\ s.scroll = 0
    BY <2>2, <2>3 DEF Preview
  <2>7. Show(s)
    BY <2>1
  <2> HIDE DEF s
  <2>8. Selected(s).kind = "template"
    BY <2>4, <2>6 DEF Selected
  <2>9. Carries(launch, s)
    BY <1>3, <2>6 DEF Carries
  <2>10. PreviewOK(launch, s)
    BY <1>3, <2>5, <2>6, <2>8, <2>9 DEF PreviewOK
  <2>11. QED
    BY <1>1, <2>7, <2>10, ShowKeeps DEF ScreenOK
<1>12. CASE DetailUseTemplate
  <2>1. Start(UseCommand, Reopened(screen)) /\ launch.inProject
        /\ Selected(screen).kind = "template"
    BY <1>12 DEF DetailUseTemplate
  <2>2. DetailOK(launch, Reopened(screen)) /\ Reopened(screen).detail = screen.detail
        /\ Reopened(screen).kind = "detail"
    BY <1>3, ReopenedOK
  <2>3. UseCommand = [verb |-> "use", pack |-> screen.detail.name, template |-> name,
                      from |-> Home(launch)]
    BY DEF UseCommand, name, Home
  <2>4. Ordered(launch, UseCommand, Reopened(screen))
    BY <1>3, <1>6, <2>1, <2>2, <2>3 DEF Ordered, Verbs
  <2>5. QED
    BY <1>1, <2>1, <2>2, <2>4, StartKeeps DEF ScreenOK
<1>13. CASE DetailBack
  <2>1. CASE screen.fromList
    <3>1. ListTarget("") \in Targets /\ TargetOK(launch, ListTarget(""))
      BY <1>3, <2>1 DEF ListTarget, Targets, TargetOK, Filters
    <3>2. Show(Loading(ListTarget("")))
      BY <1>13, <2>1 DEF DetailBack
    <3>3. QED
      BY <1>1, <3>1, <3>2, LoadingFields, ShowKeeps
  <2>2. CASE ~screen.fromList
    BY <1>1, <1>13, <2>2, LeaveKeeps DEF DetailBack
  <2>3. QED
    BY <2>1, <2>2
<1>14. QED
  BY <1>7, <1>8, <1>9, <1>10, <1>11, <1>12, <1>13

(* A form with other texts, another field or cursor. *)
LEMMA FormChanged ==
    ASSUME NEW s, FormOK(launch, s), NEW r \in FormScreens,
           r.detail = s.detail, r.index = s.index, r.fromList = s.fromList,
           r.template = s.template, r.cursor \in 0 .. Len(Focused(r))
    PROVE  ScreenOK(launch, r)
<1>1. Carries(launch, r)
  BY DEF FormOK, Carries
<1>2. Selected(r) = Selected(s)
  BY DEF Selected
<1>3. IF r.template = "" THEN Selected(r).what = "new"
      ELSE \E i \in DOMAIN r.detail.templates :
              r.detail.templates[i] = [name |-> r.template, path |-> Selected(r).what]
  <2>1. CASE s.template = ""
    BY <1>2, <2>1 DEF FormOK
  <2>2. CASE s.template # ""
    BY <1>2, <2>2 DEF FormOK
  <2>3. QED
    BY <2>1, <2>2
<1>4. QED
  BY <1>1, <1>3 DEF ScreenOK, FormOK

LEMMA RetypedOK ==
    ASSUME NEW s, FormOK(launch, s), NEW text \in Texts, NEW cursor \in 0 .. Len(text)
    PROVE  ScreenOK(launch, Retyped(s, text, cursor))
<1> DEFINE r == Retyped(s, text, cursor)
<1>1. s \in FormScreens /\ cursor \in Nat
  <2>1. s \in FormScreens
    BY DEF FormOK
  <2>2. Len(text) \in Nat
    BY ElementOf DEF Texts
  <2>3. QED
    BY <2>1, <2>2
<1>2. /\ r \in FormScreens /\ r.detail = s.detail /\ r.index = s.index
      /\ r.fromList = s.fromList /\ r.template = s.template /\ r.cursor = cursor
      /\ Focused(r) = text
  <2>1. CASE s.field = "directory"
    <3>1. r = [s EXCEPT !.directory = text, !.cursor = cursor]
      BY <2>1 DEF Retyped
    <3> HIDE DEF r
    <3>2. QED
      BY <1>1, <2>1, <3>1 DEF FormScreens, Focused
  <2>2. CASE s.field # "directory"
    <3>1. r = [s EXCEPT !.name = text, !.cursor = cursor]
      BY <2>2 DEF Retyped
    <3> HIDE DEF r
    <3>2. QED
      BY <1>1, <2>2, <3>1 DEF FormScreens, Focused
  <2>3. QED
    BY <2>1, <2>2
<1> HIDE DEF r
<1>3. ScreenOK(launch, r)
  BY <1>2, FormChanged
<1>4. QED
  BY <1>3 DEF r

(* A position inside a character is before its second byte. *)
LEMMA InsideCharacter ==
    ASSUME NEW text \in Texts, NEW at \in 0 .. Len(text), ~ Boundary(text, at)
    PROVE  \E i \in DOMAIN text : text[i] = Trail
<1> DEFINE n == Len(text)
<1>1. n \in Nat /\ DOMAIN text = 1 .. n /\ at \in 0 .. n
  BY ElementOf DEF Texts
<1>2. at # n /\ ~ (at < n /\ text[at + 1] # Trail)
  BY DEF Boundary
<1> HIDE DEF n
<1>3. at < n /\ at + 1 \in 1 .. n
  BY <1>1, <1>2
<1>4. QED
  BY <1>1, <1>2, <1>3

LEMMA FormKeys ==
    ASSUME IInv, \/ FormToggleField \/ FormSubmit \/ FormCancel
                 \/ \E char \in Chars : FormChar(char)
                 \/ FormBackspace \/ FormDelete \/ FormLeft \/ FormRight
                 \/ \E end \in BOOLEAN : FormJump(end)
    PROVE  IInv'
<1>1. phase = "poll" /\ screen.kind = "form"
  BY DEF FormToggleField, FormSubmit, FormCancel, FormChar, FormBackspace, FormDelete, FormLeft,
         FormRight, FormJump, On
<1>2. FormOK(launch, screen)
  BY <1>1, KindOf DEF IInv
<1>3. /\ screen \in FormScreens /\ Carries(launch, screen) /\ screen.index \in Nat
      /\ screen.fromList \in BOOLEAN /\ screen.cursor \in Nat
      /\ screen.field \in {"name", "directory"}
  BY <1>2 DEF FormOK, FormScreens
<1> DEFINE text == Focused(screen)
           at == screen.cursor
<1>4. text \in Texts
  BY <1>3 DEF Focused, FormScreens
<1>5. at \in 0 .. Len(text) /\ at \in Nat /\ Len(text) \in Nat
  BY <1>2, <1>3, <1>4, ElementOf DEF FormOK, Texts
<1>6. DetailOK(launch, Reopened(screen)) /\ ScreenOK(launch, Reopened(screen))
      /\ Reopened(screen).detail = screen.detail /\ Reopened(screen).kind = "detail"
  BY <1>3, ReopenedOK DEF ScreenOK
<1> HIDE DEF text, at
<1>7. ASSUME NEW c \in 0 .. Len(text), Show([screen EXCEPT !.cursor = c])
      PROVE  IInv'
  <2> DEFINE r == [screen EXCEPT !.cursor = c]
  <2>1. c \in Nat
    BY <1>5
  <2>2. /\ r \in FormScreens /\ r.detail = screen.detail /\ r.index = screen.index
        /\ r.fromList = screen.fromList /\ r.template = screen.template /\ r.cursor = c
        /\ Focused(r) = text
    BY <1>3, <2>1 DEF FormScreens, Focused, text
  <2>3. Show(r)
    BY <1>7
  <2> HIDE DEF r
  <2>4. ScreenOK(launch, r)
    BY <1>2, <2>2, FormChanged
  <2>5. QED
    BY <1>1, <2>3, <2>4, ShowKeeps
<1>8. ASSUME NEW b \in 0 .. Len(text), ~ Boundary(text, b), Panic
      PROVE  IInv'
  <2>1. \E i \in DOMAIN text : text[i] = Trail
    BY <1>4, <1>8, InsideCharacter
  <2>2. QED
    BY <1>1, <1>8, <2>1, PanicKeeps DEF text
<1>9. CASE FormToggleField
  <2> DEFINE o == [screen EXCEPT !.field = IF screen.field = "name" THEN "directory" ELSE "name"]
             r == [o EXCEPT !.cursor = Len(Focused(o))]
  <2>1. /\ o \in FormScreens /\ o.detail = screen.detail /\ o.index = screen.index
        /\ o.fromList = screen.fromList /\ o.template = screen.template
    BY <1>3 DEF FormScreens
  <2>2. Show(r)
    BY <1>9 DEF FormToggleField
  <2> HIDE DEF o
  <2>3. Focused(o) \in Texts
    BY <2>1 DEF FormScreens, Focused
  <2>4. Len(Focused(o)) \in Nat
    BY <2>3, ElementOf DEF Texts
  <2>5. /\ r \in FormScreens /\ r.detail = o.detail /\ r.index = o.index
        /\ r.fromList = o.fromList /\ r.template = o.template /\ r.cursor = Len(Focused(o))
        /\ Focused(r) = Focused(o)
    BY <2>1, <2>4 DEF FormScreens, Focused
  <2> HIDE DEF r
  <2>6. ScreenOK(launch, r)
    BY <1>2, <2>1, <2>4, <2>5, FormChanged
  <2>7. QED
    BY <1>1, <2>2, <2>6, ShowKeeps
<1>10. CASE FormSubmit
  <2> DEFINE c == [verb |-> "new", pack |-> screen.detail.name, template |-> screen.template,
                   directory |-> screen.directory, name |-> screen.name]
  <2>1. Ordered(launch, c, Reopened(screen))
    BY <1>6 DEF Ordered, Verbs
  <2>2. Start(c, Reopened(screen))
    BY <1>10 DEF FormSubmit
  <2> HIDE DEF c
  <2>3. QED
    BY <1>1, <1>6, <2>1, <2>2, StartKeeps
<1>11. CASE FormCancel
  BY <1>1, <1>6, <1>11, ShowKeeps DEF FormCancel
<1>12. ASSUME NEW char \in Chars, FormChar(char)
       PROVE  IInv'
  <2>1. CASE Boundary(text, at)
    <3>1. char \in Texts /\ char # <<>>
      BY TuiAssumption DEF Texts
    <3>2. Insert(text, at, char) \in Texts /\ at + 1 \in 0 .. Len(Insert(text, at, char))
      BY <1>4, <1>5, <3>1, Inserted
    <3>3. Show(Retyped(screen, Insert(text, at, char), at + 1))
      BY <1>12, <2>1 DEF FormChar, text, at
    <3>4. ScreenOK(launch, Retyped(screen, Insert(text, at, char), at + 1))
      BY <1>2, <3>2, RetypedOK
    <3>5. QED
      BY <1>1, <3>3, <3>4, ShowKeeps
  <2>2. CASE ~ Boundary(text, at)
    BY <1>5, <1>8, <1>12, <2>2 DEF FormChar, text, at
  <2>3. QED
    BY <2>1, <2>2
<1>13. CASE FormBackspace
  <2>1. at - 1 \in 0 .. Len(text) - 1 /\ at - 1 \in 0 .. Len(text)
    BY <1>5, <1>13 DEF FormBackspace, at
  <2>2. CASE Boundary(text, at - 1)
    <3>1. Remove(text, at - 1) \in Texts /\ at - 1 \in 0 .. Len(Remove(text, at - 1))
      BY <1>4, <2>1, Removed
    <3>2. Show(Retyped(screen, Remove(text, at - 1), at - 1))
      BY <1>13, <2>2 DEF FormBackspace, text, at
    <3>3. ScreenOK(launch, Retyped(screen, Remove(text, at - 1), at - 1))
      BY <1>2, <3>1, RetypedOK
    <3>4. QED
      BY <1>1, <3>2, <3>3, ShowKeeps
  <2>3. CASE ~ Boundary(text, at - 1)
    BY <1>8, <1>13, <2>1, <2>3 DEF FormBackspace, text, at
  <2>4. QED
    BY <2>2, <2>3
<1>14. CASE FormDelete
  <2>1. at \in 0 .. Len(text) - 1
    BY <1>5, <1>14 DEF FormDelete, text, at
  <2>2. CASE Boundary(text, at)
    <3>1. Remove(text, at) \in Texts /\ at \in 0 .. Len(Remove(text, at))
      BY <1>4, <2>1, Removed
    <3>2. Show(Retyped(screen, Remove(text, at), at))
      BY <1>14, <2>2 DEF FormDelete, text, at
    <3>3. ScreenOK(launch, Retyped(screen, Remove(text, at), at))
      BY <1>2, <3>1, RetypedOK
    <3>4. QED
      BY <1>1, <3>2, <3>3, ShowKeeps
  <2>3. CASE ~ Boundary(text, at)
    BY <1>5, <1>8, <1>14, <2>3 DEF FormDelete, text, at
  <2>4. QED
    BY <2>2, <2>3
<1>15. CASE FormLeft
  <2>1. at - 1 \in 0 .. Len(text) /\ Show([screen EXCEPT !.cursor = at - 1])
    BY <1>5, <1>15 DEF FormLeft, at
  <2>2. QED
    BY <1>7, <2>1
<1>16. CASE FormRight
  <2>1. at + 1 \in 0 .. Len(text) /\ Show([screen EXCEPT !.cursor = at + 1])
    BY <1>5, <1>16 DEF FormRight, at, text
  <2>2. QED
    BY <1>7, <2>1
<1>17. ASSUME NEW end \in BOOLEAN, FormJump(end)
       PROVE  IInv'
  <2> DEFINE c == IF end THEN Len(text) ELSE 0
  <2>1. c \in 0 .. Len(text)
    BY <1>5
  <2>2. Show([screen EXCEPT !.cursor = c])
    BY <1>17 DEF FormJump, text
  <2> HIDE DEF c
  <2>3. QED
    BY <1>7, <2>1, <2>2
<1>18. QED
  BY <1>9, <1>10, <1>11, <1>12, <1>13, <1>14, <1>15, <1>16, <1>17

LEMMA PreviewKeys ==
    ASSUME IInv, \/ \E delta \in {1, -1, Page, -Page, Leap, -Leap} : PreviewScroll(delta)
                 \/ PreviewBack
    PROVE  IInv'
<1>1. phase = "poll" /\ screen.kind = "preview"
  BY DEF PreviewScroll, PreviewBack, On
<1>2. PreviewOK(launch, screen)
  BY <1>1, KindOf DEF IInv
<1>3. /\ screen \in PreviewScreens /\ screen.index \in Nat /\ screen.fromList \in BOOLEAN
      /\ screen.scroll \in Nat /\ screen.lines \in Nat /\ screen.length \in Nat
  BY <1>2 DEF PreviewOK, PreviewScreens
<1>4. ASSUME NEW delta \in {1, -1, Page, -Page, Leap, -Leap}, PreviewScroll(delta)
      PROVE  IInv'
  <2> DEFINE n == Scrolled(screen.scroll, delta, screen.lines)
             s == [screen EXCEPT !.scroll = n]
  <2>1. delta \in Int
    <3>1. Page \in Nat /\ Leap \in Nat
      BY TuiAssumption
    <3>2. 1 \in Int /\ -1 \in Int /\ Page \in Int /\ -Page \in Int /\ Leap \in Int /\ -Leap \in Int
      BY <3>1
    <3>3. QED
      BY <3>2
  <2>2. n \in Nat /\ (n < screen.lines \/ n = 0)
    BY <1>3, <2>1 DEF Scrolled
  <2>3. Show(s)
    BY <1>4 DEF PreviewScroll
  <2> HIDE DEF n
  <2>4. /\ s \in PreviewScreens /\ s.detail = screen.detail /\ s.index = screen.index
        /\ s.fromList = screen.fromList /\ s.from = screen.from /\ s.lines = screen.lines
        /\ s.length = screen.length /\ s.scroll = n
    BY <1>3, <2>2 DEF PreviewScreens
  <2> HIDE DEF s
  <2>5. Selected(s) = Selected(screen)
    BY <2>4 DEF Selected
  <2>6. Carries(launch, screen) => Carries(launch, s)
    BY <2>4 DEF Carries
  <2>7. PreviewOK(launch, s)
    BY <1>2, <2>2, <2>4, <2>5, <2>6 DEF PreviewOK
  <2>8. QED
    BY <1>1, <2>3, <2>7, ShowKeeps DEF ScreenOK
<1>5. CASE PreviewBack
  <2>1. CASE screen.detail = NoDetail
    BY <1>1, <1>5, <2>1, LeaveKeeps DEF PreviewBack
  <2>2. CASE screen.detail # NoDetail
    <3>1. Carries(launch, screen)
      BY <1>2, <2>2 DEF PreviewOK
    <3>2. DetailOK(launch, Reopened(screen))
      BY <1>3, <3>1, ReopenedOK
    <3>3. QED
      BY <1>1, <1>5, <2>2, <3>2, ShowKeeps DEF PreviewBack, ScreenOK
  <2>3. QED
    BY <2>1, <2>2
<1>6. QED
  BY <1>4, <1>5

LEMMA OtherKeys ==
    ASSUME IInv, ErrorRetry \/ QuitKey
    PROVE  IInv'
<1>1. CASE ErrorRetry
  <2>1. phase = "poll" /\ LoadingOK(launch, screen)
    BY <1>1, KindOf DEF ErrorRetry, On, IInv
  <2>2. screen.target \in Targets /\ TargetOK(launch, screen.target)
    BY <2>1 DEF LoadingOK, TargetOK
  <2>3. QED
    BY <1>1, <2>1, <2>2, LoadingFields, ShowKeeps DEF ErrorRetry
<1>2. CASE QuitKey
  BY <1>2, LeaveKeeps DEF QuitKey
<1>3. QED
  BY <1>1, <1>2

-----------------------------------------------------------------------------
(* The invariant, and what follows from it. *)

LEMMA LoopKeeps ==
    ASSUME IInv, Loop \/ CtrlC \/ Fails \/ ChildEnds \/ EnterPressed \/ Killed
    PROVE  IInv'
<1>1. CASE ProcessLoading
  <2>1. screen.kind \in Kinds /\ launch' = launch
    BY <1>1, KindOf DEF IInv, ProcessLoading
  <2>2. ScreenOK(launch, screen')
        /\ (screen.kind = "loading" => screen'.kind # "loading")
        /\ (screen.kind # "loading" => screen' = screen)
    <3>1. CASE screen.kind # "loading"
      BY <1>1, <3>1 DEF IInv, ProcessLoading
    <3>2. CASE screen.kind = "loading"
      <4>1. LoadingOK(launch, screen) /\ launch \in Launches
        BY <3>2, KindOf DEF IInv, LoopOK
      <4>2. screen.target \in Targets /\ TargetOK(launch, screen.target)
        BY <4>1 DEF LoadingOK, TargetOK
      <4>3. CASE screen' \in Fetched(screen.target)
        BY <3>2, <4>1, <4>2, <4>3, FetchedOK
      <4>4. CASE screen' = [kind |-> "error", target |-> screen.target]
        BY <3>2, <4>2, <4>4 DEF ScreenOK, LoadingOK, LoadingScreens
      <4>5. QED
        BY <1>1, <3>2, <4>3, <4>4 DEF ProcessLoading
    <3>3. QED
      BY <3>1, <3>2
  <2>3. screen'.kind # "loading"
    BY <2>2
  <2>4. pending # NoCommand => screen' = screen
    BY <2>2 DEF IInv, LoopOK, Ordered
  <2>5. LoopOK'
    BY <1>1, <2>3, <2>4 DEF IInv, LoopOK, ProcessLoading, Phases, Raw
  <2>6. QED
    BY <2>1, <2>2, <2>5 DEF IInv
<1>2. CASE Draw
  <2>1. screen.kind \in Kinds
    BY KindOf DEF IInv
  <2>2. LoopOK'
    BY <1>2, <2>1 DEF IInv, LoopOK, Draw, Phases, Raw
  <2>3. QED
    BY <1>2, <2>2 DEF IInv, Draw
<1>3. CASE Execute
  <2>1. pending # NoCommand /\ pending.verb \in Verbs
    BY <1>3 DEF IInv, LoopOK, Execute, Ordered
  <2>2. LoopOK'
    BY <1>3, <2>1 DEF IInv, LoopOK, Execute, Phases, Raw
  <2>3. QED
    BY <1>3, <2>2 DEF IInv, Execute
<1>4. CASE Check
  <2>1. CASE quit
    <3>1. LoopOK'
      BY <1>4, <2>1 DEF IInv, LoopOK, Check, Phases, Raw
    <3>2. QED
      BY <1>4, <3>1 DEF IInv, Check
  <2>2. CASE ~quit
    <3>1. LoopOK'
      BY <1>4, <2>2 DEF IInv, LoopOK, Check, Phases, Raw
    <3>2. QED
      BY <1>4, <3>1 DEF IInv, Check
  <2>3. QED
    BY <2>1, <2>2
<1>5. CASE Idle
  <2>1. LoopOK'
    BY <1>5 DEF IInv, LoopOK, Idle, Phases, Raw
  <2>2. QED
    BY <1>5, <2>1 DEF IInv, Idle
<1>6. CASE CtrlC
  <2>1. LoopOK'
    BY <1>6 DEF IInv, LoopOK, CtrlC, Phases, Raw
  <2>2. QED
    BY <1>6, <2>1 DEF IInv, CtrlC
<1>7. CASE ChildEnds
  <2>1. LoopOK'
    BY <1>7 DEF IInv, LoopOK, ChildEnds, Phases, Raw, NoCommand, Verbs
  <2>2. QED
    BY <1>7, <2>1 DEF IInv, ChildEnds
<1>8. CASE EnterPressed
  <2>1. LoopOK'
    BY <1>8 DEF IInv, LoopOK, EnterPressed, Phases, Raw
  <2>2. QED
    BY <1>8, <2>1 DEF IInv, EnterPressed
<1>9. CASE Killed
  <2>1. LoopOK'
    BY <1>9 DEF IInv, LoopOK, Killed, Phases, Raw, NoCommand, Verbs
  <2>2. QED
    BY <1>9, <2>1 DEF IInv, Killed
<1>10. CASE Fails
  <2>1. LoopOK'
    BY <1>10 DEF IInv, LoopOK, Fails, Phases, Raw
  <2>2. QED
    BY <1>10, <2>1 DEF IInv, Fails
<1>11. QED
  BY <1>1, <1>2, <1>3, <1>4, <1>5, <1>6, <1>7, <1>8, <1>9, <1>10 DEF Loop

LEMMA Inductive == IInv /\ [Next]_vars => IInv'
<1>1. SUFFICES ASSUME IInv, [Next]_vars
               PROVE  IInv'
  OBVIOUS
<1>2. CASE UNCHANGED vars
  <2>1. LoopOK'
    BY <1>1, <1>2 DEF IInv, LoopOK, vars
  <2>2. QED
    BY <1>1, <1>2, <2>1 DEF IInv, vars
<1>3. CASE HandleKey
  BY <1>1, <1>3, ListKeys, DetailKeys, FormKeys, PreviewKeys, OtherKeys DEF HandleKey
<1>4. CASE Loop \/ CtrlC \/ Fails \/ ChildEnds \/ EnterPressed \/ Killed
  BY <1>1, <1>4, LoopKeeps
<1>5. QED
  BY <1>1, <1>2, <1>3, <1>4 DEF Next

LEMMA Always == Spec => []IInv
  BY Initial, Inductive, PTL DEF Spec

(* The loop and the terminal agree: raw mode exactly while the loop owns the
   screen, no command and no quit left over (run_app). *)
THEOREM TypeInvariance == Spec => []TypeOK
<1>1. IInv => TypeOK
  BY Invariants
<1>2. QED
  BY <1>1, Always, PTL

(* Every position on every screen exists, whatever is fetched, typed, scrolled
   or opened, and only a character of two bytes stops the form (handle_key). *)
THEOREM PositionsExist == Spec => []InPlace
<1>1. IInv => InPlace
  BY Invariants
<1>2. QED
  BY <1>1, Always, PTL

(* A command is for the pack and the template on the screen and starts with
   the terminal given back; `add -t` also names the place the pack was read
   from, which `add` and `new` do not (execute_action). *)
THEOREM CommandsFit == Spec => RunsWhatIsShown
<1> DEFINE Runs ==
            /\ phase = "act" =>
                  /\ terminal' = "restored" /\ ran'.verb # "none" /\ screen.kind = "detail"
                  /\ ran'.verb \in {"add", "use"} => launch.inProject
                  /\ ran'.verb # "open" => ran'.pack = screen.detail.name
                  /\ ran'.verb = "use" => ran'.from = screen.detail.from
                  /\ ran'.verb = "use" =>
                        \E i \in DOMAIN screen.detail.templates :
                           screen.detail.templates[i].name = ran'.template
            /\ screen.kind = "preview" /\ screen.detail # NoDetail =>
                  screen.from = screen.detail.from
            /\ phase = "child" /\ phase' # "child" => pending = NoCommand
<1>1. IInv /\ [Next]_vars => [Runs]_vars
  <2>1. SUFFICES ASSUME IInv, Next PROVE Runs
    OBVIOUS
  <2>2. ASSUME phase = "act"
        PROVE  Execute
    BY <2>1, <2>2 DEF Next, Loop, HandleKey, On, ProcessLoading, Draw, Fails, Check, Idle, CtrlC, ChildEnds,
       EnterPressed, Killed, ListMove, ListSelect, DetailMove, DetailOpen, DetailAdd,
       DetailNewProject, DetailPreview, DetailUseTemplate, DetailBack, FormToggleField, FormSubmit,
       FormCancel, FormChar, FormBackspace, FormDelete, FormLeft, FormRight, FormJump,
       PreviewScroll, PreviewBack, ErrorRetry, QuitKey
  <2>3. ASSUME phase = "act"
        PROVE  Ordered(launch, pending, screen) /\ ran' = pending /\ terminal' = "restored"
    BY <2>1, <2>2, <2>3 DEF IInv, LoopOK, Execute
  <2>4. phase = "child" => pending = NoCommand
    BY <2>1 DEF IInv, LoopOK
  <2>5. screen.kind = "preview" /\ screen.detail # NoDetail => screen.from = screen.detail.from
    BY <2>1, KindOf DEF IInv, PreviewOK
  <2>6. QED
    BY <2>3, <2>4, <2>5 DEF Ordered
<1>2. QED
  BY <1>1, Always, PTL DEF Spec, RunsWhatIsShown
================================================================================
