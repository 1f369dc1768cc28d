---------------------------------- MODULE Tui ----------------------------------
(***************************************************************************)
(* The full-screen interface of `cargo bp list` and `cargo bp show`        *)
(* (tui/mod.rs, tui/utils.rs): one loop that resolves a loading screen,    *)
(* draws, runs a pending command with the terminal given back, and handles *)
(* one key.                                                                *)
(*                                                                         *)
(* A pack's detail is [name, crates, extends, templates, examples, from]:  *)
(* sequences of names, templates of [name, path]; from is where it was     *)
(* read.  A text is a sequence of bytes, Trail the second byte of a        *)
(* character of two.                                                       *)
(***************************************************************************)
EXTENDS Integers, Sequences

CONSTANTS
    Launches,  \* how it starts: [kind, pack, path, source, filter, inProject, installed]
    Lists,     \* lists of packs a source may answer with
    Details,   \* pack name -> details a source may answer with
    Lengths,   \* lengths in lines of a rendered preview
    Cwd,       \* the working directory, a text
    Chars,     \* what may be typed: a character's bytes
    Trail,     \* the second byte of a character
    MaxText,   \* bound on a text's bytes
    Page, Leap,\* what PageDown and End add to the scroll offset
    Wide       \* 2^16: offsets and line counts are u16

VARIABLES
    launch,    \* the element of Launches
    phase,     \* where the loop is
    screen,    \* the screen: a record by its kind
    seen,      \* the kind of the screen last drawn
    pending,   \* pending_action
    ran,       \* the command that runs
    quit,      \* should_quit
    terminal   \* "raw" or "restored"

vars == <<launch, phase, screen, seen, pending, ran, quit, terminal>>

Bytes == {Cwd[i] : i \in DOMAIN Cwd} \cup UNION {{c[i] : i \in DOMAIN c} : c \in Chars}

Specs ==
    [name : STRING, crates : Seq(STRING), extends : Seq(STRING),
     templates : Seq([name : STRING, path : STRING]), examples : Seq(STRING), from : STRING]

(* --path goes with show and new -t; names are never empty. *)
ASSUME TuiAssumption ==
    /\ Launches \subseteq
          [kind : {"list", "show", "preview"}, pack : STRING, path : STRING, source : STRING,
           filter : STRING, inProject : BOOLEAN, installed : SUBSET STRING]
    /\ \A l \in Launches :
          /\ l.kind = "list" => l.path = ""
          /\ l.kind = "show" => l.pack \in DOMAIN Details
    /\ \A n \in DOMAIN Details :
          /\ Details[n] \subseteq Specs
          /\ \A d \in Details[n] : \A i \in DOMAIN d.templates : d.templates[i].name # ""
    /\ Lists \subseteq Seq(DOMAIN Details)
    /\ Lengths \subseteq Nat /\ Wide \in Nat \ {0} /\ Page \in Nat /\ Leap \in Nat
    /\ Cwd \in Seq(Bytes) /\ Chars \subseteq Seq(Bytes) \ {<<>>}

Phases == {"load", "draw", "act", "child", "wait", "poll", "check", "done", "panic"}

NoCommand == [verb |-> "none"]

ListTarget(filter) == [kind |-> "list", filter |-> filter]
DetailTarget(name, path, fromList) ==
    [kind |-> "detail", name |-> name, path |-> path, fromList |-> fromList]

Loading(target) == [kind |-> "loading", target |-> target]

Detail(detail, index, fromList) ==
    [kind |-> "detail", detail |-> detail, index |-> index, fromList |-> fromList,
     installed |-> detail.name \in launch.installed]

(* The detail screen that a form or a preview was opened from. *)
Reopened(s) == Detail(s.detail, s.index, s.fromList)

NoDetail == [name |-> ""]

Preview(template, length, from, detail, index, fromList) ==
    [kind |-> "preview", template |-> template, length |-> length, from |-> from,
     lines |-> length % Wide, scroll |-> 0, detail |-> detail, index |-> index,
     fromList |-> fromList]

(* --path goes before --crate-source. *)
From(path, source) == IF path # "" THEN path ELSE source

-----------------------------------------------------------------------------
(* What can be selected on a detail screen, in the order it is shown. *)

Tagged(tag, seq) == [i \in DOMAIN seq |-> [kind |-> tag, what |-> seq[i]]]

Items(d) ==
    Tagged("crate", d.crates) \o Tagged("extends", d.extends)
        \o Tagged("template", [i \in DOMAIN d.templates |-> d.templates[i].path])
        \o Tagged("example", d.examples)
        \o Tagged("action", <<"crates.io", "add", "new">>)

Selected(s) == Items(s.detail)[s.index]

(* A template by its path: the first one that has it. *)
TemplateName(d, path) ==
    LET named(i) == d.templates[i].path = path
    IN d.templates[CHOOSE i \in DOMAIN d.templates :
                      named(i) /\ \A j \in 1..(i - 1) : ~named(j)].name

(* Positions are 1..n; next after the last is the first. *)
Wrapped(i, n, forward) == IF forward THEN (i % n) + 1 ELSE ((i + n - 2) % n) + 1

Clamped(i, n, forward) ==
    IF forward THEN (IF i < n THEN i + 1 ELSE i) ELSE IF i > 1 THEN i - 1 ELSE i

-----------------------------------------------------------------------------
(* Texts: String::insert and String::remove panic inside a character. *)

Boundary(text, at) == at = Len(text) \/ (at < Len(text) /\ text[at + 1] # Trail)

Insert(text, at, char) == SubSeq(text, 1, at) \o char \o SubSeq(text, at + 1, Len(text))

Remove(text, at) ==
    LET width == IF at + 2 <= Len(text) /\ text[at + 2] = Trail THEN 2 ELSE 1
    IN SubSeq(text, 1, at) \o SubSeq(text, at + width + 1, Len(text))

Focused(s) == IF s.field = "directory" THEN s.directory ELSE s.name

Retyped(s, text, cursor) ==
    IF s.field = "directory" THEN [s EXCEPT !.directory = text, !.cursor = cursor]
    ELSE [s EXCEPT !.name = text, !.cursor = cursor]

-----------------------------------------------------------------------------
Init ==
    /\ launch \in Launches
    /\ phase = "load" /\ seen = "none" /\ quit = FALSE
    /\ pending = NoCommand /\ ran = NoCommand
    /\ terminal = "raw"
    /\ \/ launch.kind = "list" /\ screen = Loading(ListTarget(launch.filter))
       \/ /\ launch.kind = "show"
          /\ screen = Loading(DetailTarget(launch.pack, launch.path, FALSE))
       \/ /\ launch.kind = "preview"
          /\ \E n \in Lengths :
                screen = Preview("t", n, From(launch.path, launch.source), NoDetail, 1, FALSE)

(* process_loading: the fetch, with nothing drawn and no key read meanwhile. *)
Fetched(target) ==
    IF target.kind = "list"
    THEN {[kind |-> "list", items |-> items, selected |-> IF items = <<>> THEN 0 ELSE 1,
           filter |-> target.filter] : items \in Lists}
    ELSE LET from == From(target.path, launch.source)
         IN {Detail(d, Len(Items(d)) - 2, target.fromList) :
                d \in {[x EXCEPT !.from = from] : x \in Details[target.name]}}

(* Mutant: a fetch that fails is tried again, with no error screen. *)
ProcessLoadingRetrying ==
    /\ phase = "load" /\ phase' = "draw"
    /\ \/ UNCHANGED screen
       \/ screen.kind = "loading" /\ screen' \in Fetched(screen.target)
    /\ UNCHANGED <<launch, seen, pending, ran, quit, terminal>>

ProcessLoading ==
    /\ phase = "load" /\ phase' = "draw"
    /\ \/ screen.kind # "loading" /\ UNCHANGED screen
       \/ /\ screen.kind = "loading"
          /\ screen' \in Fetched(screen.target) \cup {[kind |-> "error", target |-> screen.target]}
    /\ UNCHANGED <<launch, seen, pending, ran, quit, terminal>>

Draw ==
    /\ phase = "draw"
    /\ seen' = screen.kind
    /\ phase' = IF pending = NoCommand THEN "poll" ELSE "act"
    /\ UNCHANGED <<launch, screen, pending, ran, quit, terminal>>

(* Mutant: the pending command is not taken. *)
ExecuteAgain ==
    /\ phase = "act"
    /\ ran' = pending
    /\ terminal' = "restored" /\ phase' = "child"
    /\ UNCHANGED <<launch, screen, seen, quit, pending>>

(* The terminal is given back before the command starts. *)
Execute ==
    /\ phase = "act"
    /\ pending' = NoCommand /\ ran' = pending
    /\ terminal' = "restored" /\ phase' = "child"
    /\ UNCHANGED <<launch, screen, seen, quit>>

(* The command ends well, which ends the interface, or is refused: the user
   is asked for Enter; or it cannot be started, an error of the interface.
   A browser that opens needs no Enter. *)
ChildEnds ==
    /\ phase = "child"
    /\ \/ ran.verb # "open" /\ phase' = "done" /\ UNCHANGED terminal
       \/ ran.verb = "open" /\ phase' = "load" /\ terminal' = "raw"
       \/ phase' = "wait" /\ UNCHANGED terminal
    /\ ran' = NoCommand
    /\ UNCHANGED <<launch, screen, seen, pending, quit>>

EnterPressed ==
    /\ phase = "wait"
    /\ phase' = "load" /\ terminal' = "raw"
    /\ UNCHANGED <<launch, screen, seen, pending, ran, quit>>

(* Outside raw mode ^C is a signal. *)
Killed ==
    /\ phase \in {"child", "wait"} /\ phase' = "done" /\ ran' = NoCommand
    /\ UNCHANGED <<launch, screen, seen, pending, quit, terminal>>

Check ==
    /\ phase = "check"
    /\ IF quit THEN phase' = "done" /\ terminal' = "restored"
       ELSE phase' = "load" /\ UNCHANGED terminal
    /\ UNCHANGED <<launch, screen, seen, pending, ran, quit>>

(* No key within 100 ms, or one that means nothing on this screen. *)
Idle ==
    /\ phase = "poll" /\ phase' = "check"
    /\ UNCHANGED <<launch, screen, seen, pending, ran, quit, terminal>>

CtrlC ==
    /\ phase = "poll" /\ phase' = "done" /\ terminal' = "restored"
    /\ UNCHANGED <<launch, screen, seen, pending, ran, quit>>

(* terminal.draw, event::poll or event::read fails: run_inner returns the
   error, and run gives the terminal back. *)
Fails ==
    /\ phase \in {"draw", "poll"} /\ phase' = "done" /\ terminal' = "restored"
    /\ UNCHANGED <<launch, screen, seen, pending, ran, quit>>

-----------------------------------------------------------------------------
(* handle_key: one action per group of keys. *)

On(kind) == phase = "poll" /\ screen.kind = kind

Show(s) ==
    /\ phase' = "check" /\ screen' = s
    /\ UNCHANGED <<launch, seen, pending, ran, quit, terminal>>

Leave ==
    /\ phase' = "check" /\ quit' = TRUE
    /\ UNCHANGED <<launch, screen, seen, pending, ran, terminal>>

Start(command, s) ==
    /\ phase' = "check" /\ pending' = command /\ screen' = s
    /\ UNCHANGED <<launch, seen, ran, quit, terminal>>

Panic ==
    /\ phase' = "panic" /\ terminal' = "restored"
    /\ UNCHANGED <<launch, screen, seen, pending, ran, quit>>

ListMove(forward) ==
    /\ On("list") /\ screen.selected # 0
    /\ Show([screen EXCEPT !.selected = Clamped(@, Len(screen.items), forward)])

ListSelect ==
    /\ On("list") /\ screen.selected # 0
    /\ Show(Loading(DetailTarget(screen.items[screen.selected], "", TRUE)))

DetailMove(forward) ==
    /\ On("detail")
    /\ Show([screen EXCEPT !.index = Wrapped(@, Len(Items(screen.detail)), forward)])

(* Enter on a crate, a pack it extends, an example or `Open on crates.io`. *)
DetailOpen ==
    /\ On("detail")
    /\ \/ Selected(screen).kind \in {"crate", "extends", "example"}
       \/ Selected(screen) = [kind |-> "action", what |-> "crates.io"]
    /\ Start([verb |-> "open"], screen)

(* cargo bp add <pack>: without --path or --crate-source. *)
DetailAdd ==
    /\ On("detail") /\ launch.inProject
    /\ Selected(screen) = [kind |-> "action", what |-> "add"]
    /\ Start([verb |-> "add", pack |-> screen.detail.name], screen)

(* Enter on `Create new project`, or n on a template. *)
DetailNewProject ==
    /\ On("detail")
    /\ \/ Selected(screen) = [kind |-> "action", what |-> "new"]
       \/ Selected(screen).kind = "template"
    /\ Show([kind |-> "form", detail |-> screen.detail, index |-> screen.index,
             fromList |-> screen.fromList,
             template |-> IF Selected(screen).kind = "template"
                          THEN TemplateName(screen.detail, Selected(screen).what) ELSE "",
             directory |-> Cwd, name |-> <<>>, field |-> "name", cursor |-> 0])

(* Enter or p on a template: rendered from where --path or the source says. *)
DetailPreview ==
    /\ On("detail") /\ Selected(screen).kind = "template"
    /\ \E n \in Lengths :
          Show(Preview(TemplateName(screen.detail, Selected(screen).what), n,
                       From(launch.path, launch.source),
                       screen.detail, screen.index, screen.fromList))

(* Mutant: --path is not passed on. *)
UseCommandHere ==
    [verb |-> "use", pack |-> screen.detail.name,
     template |-> TemplateName(screen.detail, Selected(screen).what), from |-> launch.source]

UseCommand ==
    [verb |-> "use", pack |-> screen.detail.name,
     template |-> TemplateName(screen.detail, Selected(screen).what),
     from |-> From(launch.path, launch.source)]

DetailUseTemplate ==
    /\ On("detail") /\ launch.inProject /\ Selected(screen).kind = "template"
    /\ Start(UseCommand, Reopened(screen))

DetailBack ==
    /\ On("detail")
    /\ IF screen.fromList THEN Show(Loading(ListTarget(""))) ELSE Leave

(* Mutant: the cursor stays where it was in the other field. *)
FormToggleStays ==
    /\ On("form")
    /\ Show([screen EXCEPT !.field = IF @ = "name" THEN "directory" ELSE "name"])

FormToggleField ==
    /\ On("form")
    /\ LET other == [screen EXCEPT !.field = IF @ = "name" THEN "directory" ELSE "name"]
       IN Show([other EXCEPT !.cursor = Len(Focused(other))])

(* cargo bp new <pack> -n <name> [-t <template>], in the directory given. *)
FormSubmit ==
    /\ On("form") /\ screen.name # <<>>
    /\ Start([verb |-> "new", pack |-> screen.detail.name, template |-> screen.template,
              directory |-> screen.directory, name |-> screen.name], Reopened(screen))

FormCancel == On("form") /\ Show(Reopened(screen))

(* The cursor counts bytes, and moves by one whatever was typed. *)
FormChar(char) ==
    /\ On("form") /\ Len(Focused(screen)) + Len(char) <= MaxText
    /\ IF Boundary(Focused(screen), screen.cursor)
       THEN Show(Retyped(screen, Insert(Focused(screen), screen.cursor, char), screen.cursor + 1))
       ELSE Panic

FormBackspace ==
    /\ On("form") /\ screen.cursor > 0
    /\ IF Boundary(Focused(screen), screen.cursor - 1)
       THEN Show(Retyped(screen, Remove(Focused(screen), screen.cursor - 1), screen.cursor - 1))
       ELSE Panic

FormDelete ==
    /\ On("form") /\ screen.cursor < Len(Focused(screen))
    /\ IF Boundary(Focused(screen), screen.cursor)
       THEN Show(Retyped(screen, Remove(Focused(screen), screen.cursor), screen.cursor))
       ELSE Panic

FormLeft == On("form") /\ screen.cursor > 0 /\ Show([screen EXCEPT !.cursor = @ - 1])

FormRight ==
    /\ On("form") /\ screen.cursor < Len(Focused(screen))
    /\ Show([screen EXCEPT !.cursor = @ + 1])

FormJump(end) ==
    /\ On("form")
    /\ Show([screen EXCEPT !.cursor = IF end THEN Len(Focused(screen)) ELSE 0])

(* Integers clamped to the lines counted in 16 bits. *)
Scrolled(scroll, delta, lines) ==
    LET last == IF lines = 0 THEN 0 ELSE lines - 1
    IN CASE scroll + delta < 0 -> 0
         [] scroll + delta > last -> last
         [] OTHER -> scroll + delta

PreviewScroll(delta) ==
    /\ On("preview")
    /\ Show([screen EXCEPT !.scroll = Scrolled(@, delta, screen.lines)])

PreviewBack ==
    /\ On("preview")
    /\ IF screen.detail = NoDetail THEN Leave ELSE Show(Reopened(screen))

ErrorRetry == On("error") /\ Show(Loading(screen.target))

(* q, or Esc on a screen that has none before it. *)
QuitKey == phase = "poll" /\ screen.kind \in {"list", "detail", "error"} /\ Leave

HandleKey ==
    \/ \E forward \in BOOLEAN : ListMove(forward) \/ DetailMove(forward)
    \/ ListSelect \/ DetailOpen \/ DetailAdd \/ DetailNewProject \/ DetailPreview
    \/ DetailUseTemplate \/ DetailBack
    \/ FormToggleField \/ FormSubmit \/ FormCancel
    \/ \E char \in Chars : FormChar(char)
    \/ FormBackspace \/ FormDelete \/ FormLeft \/ FormRight
    \/ \E end \in BOOLEAN : FormJump(end)
    \/ \E delta \in {1, -1, Page, -Page, Leap, -Leap} : PreviewScroll(delta)
    \/ PreviewBack \/ ErrorRetry \/ QuitKey

Loop == ProcessLoading \/ Draw \/ Execute \/ Check \/ Idle

Next == Loop \/ HandleKey \/ CtrlC \/ Fails \/ ChildEnds \/ EnterPressed \/ Killed

(* The loop waits for no key; a fetch answers or fails.  Nothing is assumed
   of the user or of the commands. *)
Fairness == WF_vars(Loop)

Spec == Init /\ [][Next]_vars /\ Fairness
=============================================================================
