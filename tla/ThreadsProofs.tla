----------------------------- MODULE ThreadsProofs -----------------------------
(***************************************************************************)
(* An action is pinned once in the life of a process, and a formatted file *)
(* is whole: for every list of renders, everything GitHub may list, and    *)
(* every size of files and pipes.                                          *)
(***************************************************************************)
EXTENDS ThreadsSafety, TLAPS

Pin == [sha : STRING, name : STRING] \cup {Unresolved, Resolving}
Rendered == [pair : Pairs, answer : Pin]

Counters == [feed : Nat, in : Nat, held : Nat, out : Nat, got : Nat, writer : BOOLEAN,
             child : {"absent", "run", "write", "ok", "bad"}]

(* What every state has, one operator per part of it. *)
RemoteOK == remote \in [Pairs -> Nat] /\ \A p \in Pairs : remote[p] \in DOMAIN Remotes[p]

JobOK == job \in Renders \cup {NoJob}

(* No pair is both cached and being resolved. *)
CacheOK ==
    /\ DOMAIN cache \subseteq Pairs /\ cache \in [DOMAIN cache -> Pin]
    /\ DOMAIN threads \subseteq Pairs /\ threads \in [DOMAIN threads -> Pin]
    /\ DOMAIN threads \cap DOMAIN cache = {}
    /\ DOMAIN threads # {} => main = "join"

OutOK ==
    /\ out \in Seq(Rendered)
    /\ \A i \in DOMAIN out : out[i].pair \in DOMAIN cache /\ out[i].answer = cache[out[i].pair]

(* Each chunk of the file is in one place; what is printed is complete once
   rustfmt has ended well; nothing is left to read when the reader is done. *)
Sum(f) == f.feed + f.in + f.held + f.out + f.got

Whole(f) ==
    /\ f \in Counters /\ Sum(f) = Chunks
    /\ ~f.writer => f.feed = 0 \/ f.child \in {"ok", "bad"}
    /\ f.child = "write" => f.held > 0
    /\ f.child = "ok" => f.feed = 0 /\ f.in = 0 /\ f.held = 0

FmtOK ==
    /\ main \in {"read", "wait"} => Whole(fmt)
    /\ main = "wait" => Dead /\ fmt.out = 0

IInv == RemoteOK /\ JobOK /\ CacheOK /\ OutOK /\ FmtOK

-----------------------------------------------------------------------------
LEMMA ElementOf ==
    ASSUME NEW S, NEW s \in Seq(S), NEW i \in DOMAIN s
    PROVE  s[i] \in S
  OBVIOUS

(* What GitHub answers for a pair is a commit and a name. *)
LEMMA AnswersArePins ==
    ASSUME RemoteOK, NEW p \in Pairs
    PROVE  Answers(p) \subseteq Pin
<1> DEFINE listed == Remotes[p][remote[p]]
<1>1. listed \in [tags : TagList, ref : STRING]
  <2>1. Remotes[p] \in Seq([tags : TagList, ref : STRING])
    BY ThreadsAssumption
  <2>2. QED
    BY <2>1, ElementOf DEF RemoteOK
<1>2. p[2] \in STRING
  BY ThreadsAssumption
<1> HIDE DEF listed
<1>3. \A i \in DOMAIN listed.tags : Pinned(listed.tags[i]) \in Pin
  <2>1. listed.tags \in Seq([name : STRING, sha : STRING, version : Nat])
    BY <1>1 DEF TagList
  <2>2. \A i \in DOMAIN listed.tags : listed.tags[i] \in [name : STRING, sha : STRING, version : Nat]
    BY <2>1, ElementOf
  <2>3. QED
    BY <2>2 DEF Pinned, Pin
<1>4. LatestTag(listed.tags, p[2]) \subseteq Pin
  BY <1>3 DEF LatestTag
<1>5. ByRef(listed, p[2]) \subseteq Pin
  <2>1. [sha |-> listed.ref, name |-> p[2]] \in Pin
    BY <1>1, <1>2 DEF Pin
  <2>2. QED
    BY <2>1 DEF ByRef
<1>6. Unresolved \in Pin
  BY DEF Pin
<1>7. QED
  BY <1>4, <1>5, <1>6 DEF Answers, listed

(* An answer is added to a table and changes no other. *)
LEMMA WithTypes ==
    ASSUME NEW t, DOMAIN t \subseteq Pairs, t \in [DOMAIN t -> Pin], NEW p \in Pairs, NEW a \in Pin
    PROVE  /\ DOMAIN With(t, p, a) = DOMAIN t \cup {p}
           /\ With(t, p, a) \in [DOMAIN With(t, p, a) -> Pin]
           /\ With(t, p, a)[p] = a
           /\ \A q \in DOMAIN t : q # p => With(t, p, a)[q] = t[q]
  BY DEF With

(* Calls rendered so far agree with a cache that keeps its answers. *)
LEMMA OutKept ==
    ASSUME OutOK, out' = out, DOMAIN cache \subseteq DOMAIN cache',
           \A q \in DOMAIN cache : cache'[q] = cache[q]
    PROVE  OutOK'
  BY DEF OutOK

-----------------------------------------------------------------------------
(* rustfmt: every step keeps every chunk. *)

LEMMA StartedWhole ==
    Whole(Started)
<1>1. Started \in Counters
  BY ThreadsAssumption DEF Started, NoFmt, Counters
<1>2. /\ Started.feed = Chunks /\ Started.in = 0 /\ Started.held = 0 /\ Started.out = 0
      /\ Started.got = 0 /\ Started.writer = TRUE /\ Started.child = "run"
  BY DEF Started, NoFmt
<1>3. QED
  BY <1>1, <1>2, ThreadsAssumption DEF Whole, Sum

LEMMA FeedTypes ==
    ASSUME NEW f \in Counters, NEW a \in Nat, NEW b \in Nat
    PROVE  [f EXCEPT !.feed = a, !.in = b] \in Counters
  BY DEF Counters

LEMMA TakeTypes ==
    ASSUME NEW f \in Counters, NEW a \in Nat, NEW b \in Nat
    PROVE  [f EXCEPT !.in = a, !.held = b] \in Counters
  BY DEF Counters

LEMMA PrintTypes ==
    ASSUME NEW f \in Counters, NEW a \in Nat, NEW b \in Nat
    PROVE  [f EXCEPT !.child = "run", !.held = a, !.out = b] \in Counters
  BY DEF Counters

LEMMA ReadTypes ==
    ASSUME NEW f \in Counters, NEW a \in Nat, NEW b \in Nat
    PROVE  [f EXCEPT !.out = a, !.got = b] \in Counters
  BY DEF Counters

LEMMA FeedWhole ==
    ASSUME NEW f, Whole(f), f.writer, f.feed > 0, f.child \notin {"ok", "bad"}
    PROVE  Whole([f EXCEPT !.feed = @ - 1, !.in = @ + 1])
<1> DEFINE g == [f EXCEPT !.feed = @ - 1, !.in = @ + 1]
<1>1. f \in Counters
  BY DEF Whole
<1>2. g.feed = f.feed - 1 /\ g.in = f.in + 1 /\ g.held = f.held /\ g.out = f.out
      /\ g.got = f.got /\ g.writer = f.writer /\ g.child = f.child
  BY <1>1 DEF Counters
<1>3. g \in Counters
  <2>1. f.feed - 1 \in Nat /\ f.in + 1 \in Nat
    BY <1>1 DEF Counters
  <2>2. QED
    BY <1>1, <2>1, FeedTypes
<1> HIDE DEF g
<1>4. f.feed \in Nat /\ f.in \in Nat /\ f.held \in Nat /\ f.out \in Nat /\ f.got \in Nat
  BY <1>1 DEF Counters
<1>5. Sum(g) = Sum(f)
  BY <1>2, <1>4 DEF Sum
<1>6. Sum(g) = Chunks
  BY <1>5 DEF Whole
<1>7. ~g.writer => g.feed = 0 \/ g.child \in {"ok", "bad"}
  BY <1>2 DEF Whole
<1>8. g.child = "write" => g.held > 0
  BY <1>2, <1>4 DEF Whole
<1>9. g.child = "ok" => g.feed = 0 /\ g.in = 0 /\ g.held = 0
  BY <1>2, <1>4 DEF Whole
<1>10. Whole(g)
  BY <1>3, <1>6, <1>7, <1>8, <1>9 DEF Whole
<1>11. QED
  BY <1>10 DEF g

LEMMA WriterEndsWhole ==
    ASSUME NEW f, Whole(f), f.feed = 0 \/ f.child \in {"ok", "bad"}
    PROVE  Whole([f EXCEPT !.writer = FALSE])
  BY DEF Whole, Sum, Counters

LEMMA ChildReadsWhole ==
    ASSUME NEW f, Whole(f), f.child = "run", f.in > 0
    PROVE  Whole([f EXCEPT !.in = @ - 1, !.held = @ + 1])
<1> DEFINE g == [f EXCEPT !.in = @ - 1, !.held = @ + 1]
<1>1. f \in Counters
  BY DEF Whole
<1>2. g.feed = f.feed /\ g.in = f.in - 1 /\ g.held = f.held + 1 /\ g.out = f.out
      /\ g.got = f.got /\ g.writer = f.writer /\ g.child = f.child
  BY <1>1 DEF Counters
<1>3. g \in Counters
  <2>1. f.in - 1 \in Nat /\ f.held + 1 \in Nat
    BY <1>1 DEF Counters
  <2>2. QED
    BY <1>1, <2>1, TakeTypes
<1> HIDE DEF g
<1>4. f.feed \in Nat /\ f.in \in Nat /\ f.held \in Nat /\ f.out \in Nat /\ f.got \in Nat
  BY <1>1 DEF Counters
<1>5. Sum(g) = Sum(f)
  BY <1>2, <1>4 DEF Sum
<1>6. Sum(g) = Chunks
  BY <1>5 DEF Whole
<1>7. ~g.writer => g.feed = 0 \/ g.child \in {"ok", "bad"}
  BY <1>2 DEF Whole
<1>8. g.child = "write" => g.held > 0
  BY <1>2, <1>4 DEF Whole
<1>9. g.child = "ok" => g.feed = 0 /\ g.in = 0 /\ g.held = 0
  BY <1>2, <1>4 DEF Whole
<1>10. Whole(g)
  BY <1>3, <1>6, <1>7, <1>8, <1>9 DEF Whole
<1>11. QED
  BY <1>10 DEF g

LEMMA ChildPrintedWhole ==
    ASSUME NEW f, Whole(f), f.child = "write"
    PROVE  Whole([f EXCEPT !.child = "run", !.held = @ - 1, !.out = @ + 1])
<1> DEFINE g == [f EXCEPT !.child = "run", !.held = @ - 1, !.out = @ + 1]
<1>1. f \in Counters /\ f.held > 0
  BY DEF Whole
<1>2. g.feed = f.feed /\ g.in = f.in /\ g.held = f.held - 1 /\ g.out = f.out + 1
      /\ g.got = f.got /\ g.writer = f.writer /\ g.child = "run"
  BY <1>1 DEF Counters
<1>3. g \in Counters
  <2>1. f.held - 1 \in Nat /\ f.out + 1 \in Nat
    BY <1>1 DEF Counters
  <2>2. QED
    BY <1>1, <2>1, PrintTypes
<1> HIDE DEF g
<1>4. f.feed \in Nat /\ f.in \in Nat /\ f.held \in Nat /\ f.out \in Nat /\ f.got \in Nat
  BY <1>1 DEF Counters
<1>5. Sum(g) = Sum(f)
  BY <1>2, <1>4 DEF Sum
<1>6. Sum(g) = Chunks
  BY <1>5 DEF Whole
<1>7. ~g.writer => g.feed = 0 \/ g.child \in {"ok", "bad"}
  BY <1>2 DEF Whole
<1>8. g.child = "write" => g.held > 0
  BY <1>2, <1>4 DEF Whole
<1>9. g.child = "ok" => g.feed = 0 /\ g.in = 0 /\ g.held = 0
  BY <1>2, <1>4 DEF Whole
<1>10. Whole(g)
  BY <1>3, <1>6, <1>7, <1>8, <1>9 DEF Whole
<1>11. QED
  BY <1>10 DEF g

(* A change of rustfmt's own state only. *)
LEMMA ChildWhole ==
    ASSUME NEW f, Whole(f), f.child = "run",
           NEW c \in {"write", "ok", "bad"},
           c = "write" => f.held > 0,
           c = "ok" => f.in = 0 /\ f.held = 0 /\ ~f.writer
    PROVE  Whole([f EXCEPT !.child = c])
<1> DEFINE g == [f EXCEPT !.child = c]
<1>1. f \in Counters
  BY DEF Whole
<1>2. g.feed = f.feed /\ g.in = f.in /\ g.held = f.held /\ g.out = f.out
      /\ g.got = f.got /\ g.writer = f.writer /\ g.child = c
  BY <1>1 DEF Counters
<1>3. g \in Counters
  BY <1>1 DEF Counters
<1> HIDE DEF g
<1>4. QED
  BY <1>1, <1>2, <1>3 DEF Whole, Sum, Counters

LEMMA ReadsWhole ==
    ASSUME NEW f, Whole(f), f.out > 0
    PROVE  Whole([f EXCEPT !.out = @ - 1, !.got = @ + 1])
<1> DEFINE g == [f EXCEPT !.out = @ - 1, !.got = @ + 1]
<1>1. f \in Counters
  BY DEF Whole
<1>2. g.feed = f.feed /\ g.in = f.in /\ g.held = f.held /\ g.out = f.out - 1
      /\ g.got = f.got + 1 /\ g.writer = f.writer /\ g.child = f.child
  BY <1>1 DEF Counters
<1>3. g \in Counters
  <2>1. f.out - 1 \in Nat /\ f.got + 1 \in Nat
    BY <1>1 DEF Counters
  <2>2. QED
    BY <1>1, <2>1, ReadTypes
<1> HIDE DEF g
<1>4. f.feed \in Nat /\ f.in \in Nat /\ f.held \in Nat /\ f.out \in Nat /\ f.got \in Nat
  BY <1>1 DEF Counters
<1>5. Sum(g) = Sum(f)
  BY <1>2, <1>4 DEF Sum
<1>6. Sum(g) = Chunks
  BY <1>5 DEF Whole
<1>7. ~g.writer => g.feed = 0 \/ g.child \in {"ok", "bad"}
  BY <1>2 DEF Whole
<1>8. g.child = "write" => g.held > 0
  BY <1>2, <1>4 DEF Whole
<1>9. g.child = "ok" => g.feed = 0 /\ g.in = 0 /\ g.held = 0
  BY <1>2, <1>4 DEF Whole
<1>10. Whole(g)
  BY <1>3, <1>6, <1>7, <1>8, <1>9 DEF Whole
<1>11. QED
  BY <1>10 DEF g

(* At the end of "wait" the file is complete. *)
LEMMA TextWhole ==
    ASSUME FmtOK, main = "wait"
    PROVE  Text = Chunks
  BY ThreadsAssumption DEF FmtOK, Whole, Sum, Text, Dead, Counters

-----------------------------------------------------------------------------
LEMMA InitInv == Init => IInv
<1> SUFFICES ASSUME Init PROVE IInv
  OBVIOUS
<1>1. RemoteOK
  BY ThreadsAssumption DEF Init, RemoteOK
<1>2. JobOK /\ FmtOK
  BY DEF Init, JobOK, FmtOK
<1>3. CacheOK
  BY DEF Init, CacheOK
<1>4. OutOK
  BY DEF Init, OutOK
<1>5. QED
  BY <1>1, <1>2, <1>3, <1>4 DEF IInv

(* A step of rustfmt, its writer or its reader. *)
FmtMoves(f) == FmtStep(f) /\ Whole(f) /\ (main = "wait" => f.child = fmt.child /\ f.out = fmt.out)

LEMMA FmtInv ==
    ASSUME IInv, NEW f, FmtMoves(f)
    PROVE  IInv'
<1>1. RemoteOK' /\ JobOK' /\ CacheOK' /\ OutOK'
  BY DEF IInv, FmtMoves, FmtStep, RemoteOK, JobOK, CacheOK, OutOK
<1>2. FmtOK'
  BY DEF IInv, FmtMoves, FmtStep, FmtOK, Dead
<1>3. QED
  BY <1>1, <1>2 DEF IInv

LEMMA WriterMoves ==
    ASSUME IInv, Writer
    PROVE  \E f : FmtMoves(f)
<1>1. main \in {"read", "wait"} /\ Whole(fmt) /\ fmt \in Counters
  BY DEF IInv, FmtOK, Whole, Writer, WriterFeeds, WriterEnds, FmtStep
<1>2. CASE WriterFeeds
  <2> DEFINE f == [fmt EXCEPT !.feed = @ - 1, !.in = @ + 1]
  <2>1. Whole(f)
    BY <1>1, <1>2, FeedWhole DEF WriterFeeds, Dead
  <2>2. f.child = fmt.child /\ f.out = fmt.out
    BY <1>1 DEF Counters
  <2>3. FmtStep(f)
    BY <1>2 DEF WriterFeeds
  <2> HIDE DEF f
  <2>4. QED
    BY <2>1, <2>2, <2>3 DEF FmtMoves
<1>3. CASE WriterEnds
  <2> DEFINE f == [fmt EXCEPT !.writer = FALSE]
  <2>1. Whole(f)
    BY <1>1, <1>3, WriterEndsWhole DEF WriterEnds, Dead
  <2>2. f.child = fmt.child /\ f.out = fmt.out
    BY <1>1 DEF Counters
  <2>3. FmtStep(f)
    BY <1>3 DEF WriterEnds
  <2> HIDE DEF f
  <2>4. QED
    BY <2>1, <2>2, <2>3 DEF FmtMoves
<1>4. QED
  BY <1>2, <1>3 DEF Writer

LEMMA ChildMoves ==
    ASSUME IInv, Child \/ ChildFails
    PROVE  \E f : FmtMoves(f)
<1>1. main \in {"read", "wait"} /\ Whole(fmt) /\ fmt \in Counters /\ ~Dead
  BY DEF IInv, FmtOK, Whole, Child, ChildReads, ChildPrints, ChildPrinted, ChildEnds, ChildFails,
         FmtStep, Dead
<1>2. main = "read"
  BY <1>1 DEF IInv, FmtOK
<1>3. CASE ChildReads
  BY <1>1, <1>2, <1>3, ChildReadsWhole DEF ChildReads, FmtMoves
<1>4. CASE ChildPrints
  BY <1>1, <1>2, <1>4, ChildWhole DEF ChildPrints, FmtMoves
<1>5. CASE ChildPrinted
  BY <1>1, <1>2, <1>5, ChildPrintedWhole DEF ChildPrinted, FmtMoves
<1>6. CASE ChildEnds
  BY <1>1, <1>2, <1>6, ChildWhole DEF ChildEnds, FmtMoves
<1>7. CASE ChildFails
  BY <1>1, <1>2, <1>7, ChildWhole DEF ChildFails, FmtMoves
<1>8. QED
  BY <1>3, <1>4, <1>5, <1>6, <1>7 DEF Child

LEMMA ReadsMoves ==
    ASSUME IInv, Reads
    PROVE  \E f : FmtMoves(f)
<1>1. main = "read" /\ Whole(fmt)
  BY DEF IInv, FmtOK, Reads
<1>2. QED
  BY <1>1, ReadsWhole DEF Reads, FmtMoves

-----------------------------------------------------------------------------
(* The cache: a thread stores what nobody else may have stored. *)
LEMMA ThreadInv ==
    ASSUME IInv, NEW p \in Pairs, Thread(p)
    PROVE  /\ IInv' /\ UNCHANGED <<main, out>>
           /\ \A q \in DOMAIN cache : q \in DOMAIN cache' /\ cache'[q] = cache[q]
<1>1. p \in DOMAIN threads /\ p \notin DOMAIN cache /\ main = "join" /\ threads[p] \in Pin
  BY DEF IInv, CacheOK, Thread
<1>2. RemoteOK' /\ JobOK' /\ FmtOK' /\ UNCHANGED <<main, out>>
  BY <1>1 DEF IInv, Thread, ThreadResolves, ThreadStores, RemoteOK, JobOK, FmtOK
<1>3. CASE ThreadResolves(p)
  <2>1. PICK a \in Answers(p) : threads' = [threads EXCEPT ![p] = a]
    BY <1>3 DEF ThreadResolves
  <2>2. a \in Pin
    BY AnswersArePins DEF IInv
  <2>3. CacheOK' /\ cache' = cache
    BY <1>1, <1>3, <2>1, <2>2 DEF IInv, CacheOK, ThreadResolves
  <2>4. OutOK'
    BY <1>2, <2>3, OutKept DEF IInv
  <2>5. QED
    BY <1>2, <2>3, <2>4 DEF IInv
<1>4. CASE ThreadStores(p)
  <2>1. cache' = With(cache, p, threads[p]) /\ threads' = [q \in DOMAIN threads \ {p} |-> threads[q]]
    BY <1>4 DEF ThreadStores
  <2>2. DOMAIN cache' = DOMAIN cache \cup {p} /\ cache' \in [DOMAIN cache' -> Pin]
    BY <1>1, <2>1, WithTypes DEF IInv, CacheOK
  <2>3. \A q \in DOMAIN cache : q \in DOMAIN cache' /\ cache'[q] = cache[q]
    BY <1>1, <2>1 DEF With
  <2>4. CacheOK'
    BY <1>1, <1>2, <2>1, <2>2 DEF IInv, CacheOK
  <2>5. OutOK'
    BY <1>2, <2>3, OutKept DEF IInv
  <2>6. QED
    BY <1>2, <2>3, <2>4, <2>5 DEF IInv
<1>5. QED
  BY <1>3, <1>4 DEF Thread

(* A call answers from the cache, or asks and caches. *)
LEMMA CallInv ==
    ASSUME IInv, Call
    PROVE  /\ IInv' /\ UNCHANGED main
           /\ \A q \in DOMAIN cache : q \in DOMAIN cache' /\ cache'[q] = cache[q]
<1> DEFINE p == job.uses[Len(out) + 1]
<1>1. p \in Pairs
  <2>1. job.uses \in Seq(Pairs)
    <3>1. CASE job \in Renders
      BY <3>1, ThreadsAssumption
    <3>2. CASE job = NoJob
      BY <3>2 DEF NoJob
    <3>3. QED
      BY <3>1, <3>2 DEF IInv, JobOK
  <2>2. Len(out) + 1 \in 1 .. Len(job.uses)
    BY <2>1 DEF Call, IInv, OutOK
  <2>3. QED
    BY <2>1, <2>2
<1>2. PICK a \in IF p \in DOMAIN cache THEN {cache[p]} ELSE Answers(p) :
         cache' = With(cache, p, a) /\ out' = Append(out, [pair |-> p, answer |-> a])
  BY DEF Call
<1> HIDE DEF p
<1>3. a \in Pin /\ (p \in DOMAIN cache => a = cache[p])
  <2>1. CASE p \in DOMAIN cache
    BY <1>2, <2>1 DEF IInv, CacheOK
  <2>2. CASE p \notin DOMAIN cache
    BY <1>1, <1>2, <2>2, AnswersArePins DEF IInv
  <2>3. QED
    BY <2>1, <2>2
<1>4. DOMAIN cache' = DOMAIN cache \cup {p} /\ cache' \in [DOMAIN cache' -> Pin] /\ cache'[p] = a
  BY <1>1, <1>2, <1>3, WithTypes DEF IInv, CacheOK
<1>5. \A q \in DOMAIN cache : q \in DOMAIN cache' /\ cache'[q] = cache[q]
  <2>1. SUFFICES ASSUME NEW q \in DOMAIN cache PROVE q \in DOMAIN cache' /\ cache'[q] = cache[q]
    OBVIOUS
  <2>2. CASE q = p
    BY <1>3, <1>4, <2>2
  <2>3. CASE q # p
    BY <1>2, <1>4, <2>3 DEF With
  <2>4. QED
    BY <2>2, <2>3
<1>6. DOMAIN threads = {} /\ UNCHANGED <<threads, main>>
  BY DEF Call, IInv, CacheOK
<1>7. CacheOK'
  BY <1>1, <1>4, <1>6 DEF IInv, CacheOK
<1>8. OutOK'
  <2>1. out \in Seq(Rendered) /\ [pair |-> p, answer |-> a] \in Rendered
    BY <1>1, <1>3 DEF IInv, OutOK, Rendered
  <2>2. out' \in Seq(Rendered) /\ DOMAIN out' = DOMAIN out \cup {Len(out) + 1}
        /\ out'[Len(out) + 1] = [pair |-> p, answer |-> a] /\ \A i \in DOMAIN out : out'[i] = out[i]
    BY <1>2, <2>1
  <2>3. QED
    BY <1>4, <1>5, <2>2 DEF IInv, OutOK
<1>9. RemoteOK' /\ JobOK' /\ FmtOK'
  BY DEF Call, IInv, RemoteOK, JobOK, FmtOK
<1>10. QED
  BY <1>5, <1>6, <1>7, <1>8, <1>9 DEF IInv

(* A render begins, or its prefetch. *)
LEMMA BeginInv ==
    ASSUME IInv, Begin
    PROVE  IInv'
<1>1. RemoteOK' /\ JobOK' /\ FmtOK'
  BY DEF Begin, IInv, RemoteOK, JobOK, FmtOK
<1>2. CacheOK'
  BY DEF Begin, IInv, CacheOK
<1>3. OutOK'
  BY DEF Begin, OutOK
<1>4. QED
  BY <1>1, <1>2, <1>3 DEF IInv

LEMMA PrefetchInv ==
    ASSUME IInv, Prefetch
    PROVE  IInv'
<1>1. RemoteOK' /\ JobOK' /\ FmtOK'
  BY DEF Prefetch, IInv, RemoteOK, JobOK, FmtOK
<1>2. ToResolve \subseteq Pairs /\ ToResolve \cap DOMAIN cache = {}
  BY ThreadsAssumption DEF ToResolve, IInv, JobOK, NoJob
<1>3. CacheOK'
  BY <1>2 DEF Prefetch, IInv, CacheOK, Pin
<1>4. OutOK'
  BY OutKept DEF Prefetch, IInv
<1>5. QED
  BY <1>1, <1>3, <1>4 DEF IInv

LEMMA PushedInv ==
    ASSUME IInv, NEW p \in Pairs, Pushed(p)
    PROVE  IInv'
<1>1. RemoteOK'
  <2>1. Remotes[p] \in Seq([tags : TagList, ref : STRING])
    BY ThreadsAssumption
  <2>2. remote[p] + 1 \in DOMAIN Remotes[p] /\ remote[p] + 1 \in Nat
    BY <2>1 DEF Pushed, IInv, RemoteOK
  <2>3. remote' = [remote EXCEPT ![p] = remote[p] + 1]
    BY DEF Pushed
  <2>4. QED
    BY <2>2, <2>3 DEF IInv, RemoteOK
<1>2. JobOK' /\ FmtOK' /\ CacheOK'
  BY DEF Pushed, IInv, JobOK, FmtOK, CacheOK, Dead
<1>3. OutOK'
  BY OutKept DEF Pushed, IInv
<1>4. QED
  BY <1>1, <1>2, <1>3 DEF IInv

(* The renderer's steps between its phases. *)
LEMMA PhaseInv ==
    ASSUME IInv, Joined \/ Spawn \/ ReadsEnd \/ Formatted
    PROVE  IInv'
<1>1. UNCHANGED <<remote, cache, threads, out>>
  BY DEF Joined, Spawn, ReadsEnd, Formatted
<1>2. RemoteOK' /\ JobOK'
  BY <1>1 DEF Joined, Spawn, ReadsEnd, Formatted, IInv, RemoteOK, JobOK
<1>3. DOMAIN threads = {}
  BY DEF Joined, Spawn, ReadsEnd, Formatted, IInv, CacheOK
<1>4. CacheOK'
  BY <1>1, <1>3 DEF IInv, CacheOK
<1>5. OutOK'
  BY <1>1, OutKept DEF IInv
<1>6. FmtOK'
  BY StartedWhole DEF Joined, Spawn, ReadsEnd, Formatted, IInv, FmtOK, Dead
<1>7. QED
  BY <1>2, <1>4, <1>5, <1>6 DEF IInv

-----------------------------------------------------------------------------
Keeps ==
    /\ \A q \in DOMAIN cache : q \in DOMAIN cache' /\ cache'[q] = cache[q]
    /\ main = "wait" /\ main' = "idle" => Text = Chunks

LEMMA StepKeeps ==
    ASSUME IInv, [Next]_vars
    PROVE  IInv' /\ Keeps
<1>1. CASE UNCHANGED vars
  BY <1>1 DEF vars, IInv, RemoteOK, JobOK, CacheOK, OutOK, FmtOK, Dead, Keeps
<1>2. CASE Begin
  BY <1>2, BeginInv DEF Begin, Keeps
<1>3. CASE Prefetch
  BY <1>3, PrefetchInv DEF Prefetch, Keeps
<1>4. CASE Joined \/ Spawn \/ ReadsEnd \/ Formatted
  BY <1>4, PhaseInv, TextWhole DEF Joined, Spawn, ReadsEnd, Formatted, Keeps, IInv
<1>5. CASE Call
  BY <1>5, CallInv DEF Call, Keeps
<1>6. CASE Reads \/ Writer \/ Child \/ ChildFails
  <2>1. PICK f : FmtMoves(f)
    BY <1>6, ReadsMoves, WriterMoves, ChildMoves
  <2>2. QED
    BY <2>1, FmtInv DEF FmtMoves, FmtStep, Keeps
<1>7. CASE \E p \in Pairs : Thread(p)
  <2>1. PICK p \in Pairs : Thread(p)
    BY <1>7
  <2>2. QED
    BY <2>1, ThreadInv DEF Keeps
<1>8. CASE \E p \in Pairs : Pushed(p)
  <2>1. PICK p \in Pairs : Pushed(p)
    BY <1>8
  <2>2. QED
    BY <2>1, PushedInv DEF Pushed, Keeps
<1>9. QED
  BY <1>1, <1>2, <1>3, <1>4, <1>5, <1>6, <1>7, <1>8 DEF Next, Main

(* An action is pinned to one commit while the process lives, whatever is
   pushed and whichever thread or call asked first, every call says what the
   cache says, and no formatted file is cut short (prefetch_github_actions,
   pin_github_action, rustfmt_rust). *)
THEOREM PinnedOnce == Spec => OnePin
<1>1. Spec => []IInv
  <2>1. IInv /\ [Next]_vars => IInv'
    BY StepKeeps
  <2>2. QED
    BY InitInv, <2>1, PTL DEF Spec
<1>2. IInv /\ IInv' /\ [Next]_vars =>
        [/\ \A p \in DOMAIN cache : p \in DOMAIN cache' /\ cache'[p] = cache[p]
         /\ \A i \in DOMAIN out' :
               out'[i].pair \in DOMAIN cache' /\ out'[i].answer = cache'[out'[i].pair]
         /\ main = "wait" /\ main' = "idle" => Text = Chunks]_vars
  BY StepKeeps DEF Keeps, IInv, OutOK
<1>3. QED
  BY <1>1, <1>2, PTL DEF Spec, OnePin
=============================================================================
