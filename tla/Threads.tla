-------------------------------- MODULE Threads --------------------------------
(***************************************************************************)
(* The threads of a render (template_engine.rs).  Before it renders, one   *)
(* thread per action asks GitHub for the commit to pin; the answers stay   *)
(* in a cache for the life of the process, which may render many times     *)
(* (previews, validate).  After it, rustfmt is fed by one thread while     *)
(* another reads what it prints, through pipes that hold a bounded number  *)
(* of chunks.                                                              *)
(*                                                                         *)
(* The cache's mutex is held for single steps, and by the renderer alone   *)
(* while it asks for a pair nobody prefetched: no thread runs then.        *)
(***************************************************************************)
EXTENDS Integers, Sequences

CONSTANTS
    Pairs,     \* (owner/repo, tag), as written in a template
    Renders,   \* [scanned: pairs the search of the templates finds, uses: calls in order]
    Remotes,   \* what GitHub may list: pair -> sequence, over time, of [tags, ref]
    Chunks,    \* length of the Rust file to format
    Pipe,      \* what a pipe holds
    MaxRenders \* bound on the renders

TagList == Seq([name : STRING, sha : STRING, version : Nat])

(* GitHub lists something for every pair from the start. *)
ASSUME ThreadsAssumption ==
    /\ Chunks \in Nat /\ Pipe \in Nat
    /\ Pairs \subseteq STRING \X STRING
    /\ \A r \in Renders : r.scanned \subseteq Pairs /\ r.uses \in Seq(Pairs)
    /\ \A p \in Pairs : Remotes[p] \in Seq([tags : TagList, ref : STRING]) /\ Remotes[p] # <<>>

VARIABLES
    remote,    \* pair -> index in Remotes[pair]
    cache,     \* PIN_GITHUB_ACTION_CACHE: pair -> answer
    main,      \* "idle", "scan", "join", "render", "spawn", "read", "wait"
    job,       \* the render
    threads,   \* prefetch threads: pair -> Resolving, or the answer to store
    out,       \* the calls rendered: [pair, answer]
    fmt,       \* rustfmt and its pipes
    left       \* what is left of MaxRenders

vars == <<remote, cache, main, job, threads, out, fmt, left>>

NoJob == [scanned |-> {}, uses |-> <<>>]

(* feed: chunks to write; in, held, out: where chunks are; got: chunks read;
   writer: does the thread run?; child: "absent", "run", "write", "ok", "bad". *)
NoFmt == [feed |-> 0, in |-> 0, held |-> 0, out |-> 0, got |-> 0, writer |-> FALSE,
          child |-> "absent"]

Started == [NoFmt EXCEPT !.feed = Chunks, !.writer = TRUE, !.child = "run"]

-----------------------------------------------------------------------------
(* What a pair is pinned to.  A tag is [name, sha, version], version 0 if it
   is no semver; ref is the commit of a branch of that name, "" for none. *)

Unresolved == [sha |-> "", name |-> "could-not-resolve"]
Resolving == [sha |-> "", name |-> "resolving"]

Pinned(tag) == [sha |-> tag.sha, name |-> tag.name]

(* resolve_latest_tag: the last of the highest versions, else the tag itself. *)
LatestTag(tags, name) ==
    LET semver == {i \in DOMAIN tags : tags[i].version > 0}
        exact == {i \in DOMAIN tags : tags[i].name = name}
        highest(i) == \A j \in semver :
                          tags[j].version < tags[i].version
                             \/ (tags[j].version = tags[i].version /\ j <= i)
    IN {Pinned(tags[i]) : i \in IF semver # {} THEN {i \in semver : highest(i)}
                                ELSE {i \in exact : \A j \in exact : i <= j}}

(* resolve_ref: the first ref of that name. *)
ByRef(listed, name) == IF listed.ref = "" THEN {} ELSE {[sha |-> listed.ref, name |-> name]}

(* Either request may fail; an answer of the first is final. *)
Answers(pair) ==
    LET listed == Remotes[pair][remote[pair]]
        latest == LatestTag(listed.tags, pair[2])
    IN {Unresolved} \cup latest \cup ByRef(listed, pair[2])

-----------------------------------------------------------------------------
Init ==
    /\ remote = [p \in Pairs |-> 1]
    /\ cache = <<>> /\ main = "idle" /\ job = NoJob /\ threads = <<>> /\ out = <<>>
    /\ fmt = NoFmt /\ left = MaxRenders

(* GitHub, meanwhile: a tag is pushed or moved. *)
Pushed(p) ==
    /\ remote[p] < Len(Remotes[p])
    /\ remote' = [remote EXCEPT ![p] = @ + 1]
    /\ UNCHANGED <<cache, main, job, threads, out, fmt, left>>

Begin ==
    /\ main = "idle" /\ left > 0
    /\ job' \in Renders
    /\ main' = "scan" /\ left' = left - 1 /\ out' = <<>>
    /\ UNCHANGED <<remote, cache, threads, fmt>>

(* Mutant: what is cached is asked for again. *)
ToResolveAll == job.scanned

ToResolve == job.scanned \ DOMAIN cache

(* One scoped thread per pair, joined before anything is rendered. *)
Prefetch ==
    /\ main = "scan" /\ main' = "join"
    /\ threads' = [p \in ToResolve |-> Resolving]
    /\ UNCHANGED <<remote, cache, job, out, fmt, left>>

ThreadResolves(p) ==
    /\ threads[p] = Resolving
    /\ \E answer \in Answers(p) : threads' = [threads EXCEPT ![p] = answer]
    /\ UNCHANGED <<remote, cache, main, job, out, fmt, left>>

With(answers, p, answer) ==
    [q \in DOMAIN answers \cup {p} |-> IF q = p THEN answer ELSE answers[q]]

ThreadStores(p) ==
    /\ threads[p] # Resolving
    /\ cache' = With(cache, p, threads[p])
    /\ threads' = [q \in DOMAIN threads \ {p} |-> threads[q]]
    /\ UNCHANGED <<remote, main, job, out, fmt, left>>

Thread(p) == p \in DOMAIN threads /\ (ThreadResolves(p) \/ ThreadStores(p))

Joined ==
    /\ main = "join" /\ DOMAIN threads = {}
    /\ main' = "render"
    /\ UNCHANGED <<remote, cache, job, threads, out, fmt, left>>

(* pin_github_action: a pair that is not cached is resolved on the spot. *)
Call ==
    /\ main = "render" /\ Len(out) < Len(job.uses)
    /\ LET p == job.uses[Len(out) + 1] IN
       \E answer \in IF p \in DOMAIN cache THEN {cache[p]} ELSE Answers(p) :
          /\ cache' = With(cache, p, answer)
          /\ out' = Append(out, [pair |-> p, answer |-> answer])
    /\ UNCHANGED <<remote, main, job, threads, fmt, left>>

(* rustfmt starts, or is not installed and the text stays. *)
Spawn ==
    /\ main = "render" /\ Len(out) = Len(job.uses)
    /\ \/ main' = "read" /\ fmt' = Started
       \/ main' = "idle" /\ fmt' = NoFmt
    /\ job' = NoJob
    /\ UNCHANGED <<remote, cache, threads, out, left>>

-----------------------------------------------------------------------------
(* rustfmt_rust. *)

Dead == fmt.child \in {"ok", "bad"}

FmtStep(f) ==
    /\ main \in {"read", "wait"} /\ fmt' = f
    /\ UNCHANGED <<remote, cache, main, job, threads, out, left>>

(* The writer thread; writing to a process that ended is an error it ignores. *)
WriterFeeds ==
    /\ fmt.writer /\ fmt.feed > 0 /\ ~Dead /\ fmt.in < Pipe
    /\ FmtStep([fmt EXCEPT !.feed = @ - 1, !.in = @ + 1])

WriterEnds ==
    /\ fmt.writer /\ (fmt.feed = 0 \/ Dead)
    /\ FmtStep([fmt EXCEPT !.writer = FALSE])

Writer == WriterFeeds \/ WriterEnds

(* rustfmt, or whatever is called so: it may print before it has read all,
   and a print waits for room in the pipe. *)
ChildReads ==
    /\ fmt.child = "run" /\ fmt.in > 0
    /\ FmtStep([fmt EXCEPT !.in = @ - 1, !.held = @ + 1])

ChildPrints ==
    /\ fmt.child = "run" /\ fmt.held > 0
    /\ FmtStep([fmt EXCEPT !.child = "write"])

ChildPrinted ==
    /\ fmt.child = "write" /\ fmt.out < Pipe
    /\ FmtStep([fmt EXCEPT !.child = "run", !.held = @ - 1, !.out = @ + 1])

ChildEnds ==
    /\ fmt.child = "run" /\ fmt.in = 0 /\ fmt.held = 0 /\ ~fmt.writer
    /\ FmtStep([fmt EXCEPT !.child = "ok"])

ChildFails == fmt.child = "run" /\ FmtStep([fmt EXCEPT !.child = "bad"])

Child == ChildReads \/ ChildPrints \/ ChildPrinted \/ ChildEnds

(* Mutant: the text is fed first and read afterwards, by one thread. *)
ReadsAfterFeeding ==
    /\ main = "read" /\ fmt.out > 0 /\ ~fmt.writer
    /\ FmtStep([fmt EXCEPT !.out = @ - 1, !.got = @ + 1])

Reads ==
    /\ main = "read" /\ fmt.out > 0
    /\ FmtStep([fmt EXCEPT !.out = @ - 1, !.got = @ + 1])

(* The end of what it prints: it has ended. *)
ReadsEnd ==
    /\ main = "read" /\ fmt.out = 0 /\ Dead
    /\ main' = "wait"
    /\ UNCHANGED <<remote, cache, job, threads, out, fmt, left>>

(* The chunks of the file that is written: what rustfmt printed, if all went
   well, else the source. *)
Text == IF fmt.child = "ok" THEN fmt.got ELSE Chunks

(* Writer joined, child waited for. *)
Formatted ==
    /\ main = "wait" /\ ~fmt.writer
    /\ main' = "idle" /\ fmt' = NoFmt
    /\ UNCHANGED <<remote, cache, job, threads, out, left>>

Main == Prefetch \/ Joined \/ Call \/ Spawn \/ Reads \/ ReadsEnd \/ Formatted

Next ==
    \/ Begin \/ Main \/ Writer \/ Child \/ ChildFails
    \/ \E p \in Pairs : Thread(p) \/ Pushed(p)

(* Threads are scheduled, git answers or fails, rustfmt runs. *)
Fairness ==
    /\ WF_vars(Main) /\ WF_vars(Writer) /\ WF_vars(Child)
    /\ \A p \in Pairs : WF_vars(Thread(p))

Spec == Init /\ [][Next]_vars /\ Fairness
=============================================================================
