------------------------------- MODULE TuiSafety -------------------------------
(***************************************************************************)
(* What the full-screen interface owes its users.                          *)
(***************************************************************************)
EXTENDS Tui

Kinds == {"loading", "error", "list", "detail", "form", "preview"}

(* Types: the loop's phases and the screens; a terminal in raw mode exactly
   while the loop owns it, and no quit or command left over in between. *)
TypeOK ==
    /\ launch \in Launches /\ phase \in Phases /\ screen.kind \in Kinds
    /\ seen \in Kinds \cup {"none"} /\ quit \in BOOLEAN
    /\ {pending.verb, ran.verb} \subseteq {"none", "open", "add", "new", "use"}
    /\ ran # NoCommand <=> phase = "child"
    /\ terminal = "raw" <=> phase \in {"load", "draw", "act", "poll", "check"}
    /\ quit => phase \in {"check", "done"}
    /\ pending # NoCommand => phase \in {"check", "load", "draw", "act", "done"}

(* A key finds the screen the user sees, and every position on it exists: the
   selected row, the item to return to from a form or a preview (a template,
   or New project, never a crate), the first line shown, and the cursor, which
   the screen's next insertion or removal needs on a character's edge; only a
   character of two bytes can stop the interface there. *)
InPlace ==
    /\ phase = "poll" => seen = screen.kind
    /\ screen.kind = "list" =>
          IF screen.items = <<>> THEN screen.selected = 0
          ELSE screen.selected \in DOMAIN screen.items
    /\ screen.kind = "detail" => screen.index \in DOMAIN Items(screen.detail)
    /\ screen.kind = "form" =>
          /\ screen.index \in DOMAIN Items(screen.detail)
          /\ screen.cursor \in 0..Len(Focused(screen))
          /\ IF screen.template = "" THEN Selected(screen).what = "new"
             ELSE \E i \in DOMAIN screen.detail.templates :
                     screen.detail.templates[i] =
                        [name |-> screen.template, path |-> Selected(screen).what]
    /\ screen.kind = "preview" =>
          /\ screen.scroll < screen.length \/ screen.scroll = 0
          /\ screen.detail # NoDetail => Selected(screen).kind = "template"
    /\ phase = "panic" =>
          \E i \in DOMAIN Focused(screen) : Focused(screen)[i] = Trail

(* A command runs with the terminal given back, once per key that asked for
   it, for the pack on the screen, and only inside a project is anything added.
   A template is previewed and used from the place its pack was read from; the
   commands for add and new name no place, whatever --path or --crate-source
   the interface was started with. *)
RunsWhatIsShown ==
    [][/\ phase = "act" =>
             /\ terminal' = "restored" /\ ran'.verb # "none" /\ screen.kind = "detail"
             /\ ran'.verb \in {"add", "use"} => launch.inProject
             /\ ran'.verb # "open" => ran'.pack = screen.detail.name
             /\ ran'.verb = "use" => ran'.from = screen.detail.from
             /\ ran'.verb = "use" =>
                   \E i \in DOMAIN screen.detail.templates :
                      screen.detail.templates[i].name = ran'.template
       /\ screen.kind = "preview" /\ screen.detail # NoDetail =>
             screen.from = screen.detail.from
       /\ phase = "child" /\ phase' # "child" => pending = NoCommand]_vars

(* A fetch that answers or fails turns into a pack, a list or an error to
   retry, a command that was asked for is started unless the terminal fails
   first, and a key that leaves the interface ends it with the terminal
   restored.  How long the fetch holds the loop up is not judged here. *)
Responds ==
    /\ (screen.kind = "loading") ~> (screen.kind # "loading")
    /\ (pending # NoCommand) ~> (phase = "child" \/ (phase = "done" /\ terminal = "restored"))
    /\ quit ~> (phase = "done" /\ terminal = "restored")

-----------------------------------------------------------------------------
(* What a document says of the interface and the code does not do. *)

(* tui.network.non-blocking: a loading indicator is on the screen while a
   request is in progress, so a fetch is over only after one was drawn. *)
LoadingIsShown ==
    [][screen.kind = "loading" /\ screen'.kind # "loading" => seen = "loading"]_vars
=============================================================================
