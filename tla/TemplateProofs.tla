---------------------------- MODULE TemplateProofs ----------------------------
(***************************************************************************)
(* What the commands that render templates owe their users, for every      *)
(* pack, registry, project directory and list of commands: types, files    *)
(* that are spared, manifests resolved whole, templates recorded whole,    *)
(* and previews and validations that hold for a `new`.                     *)
(***************************************************************************)
EXTENDS TemplateSafety, ListProofs

-----------------------------------------------------------------------------
(* A filtered list. *)
LEMMA KeptList ==
    ASSUME NEW S, NEW list \in Seq(S), NEW wanted
    PROVE  Kept(list, wanted) \in Seq(S \cap wanted)
<1> DEFINE n == Len(list)
           T == Seq(S \cap wanted)
           Add(kept, e) == IF e \in wanted THEN Append(kept, e) ELSE kept
           Steps(iter) == [s \in SUBSET DOMAIN list |->
                              IF s = {} THEN <<>> ELSE Add(iter[s \ {Max(s)}], list[Max(s)])]
           step == [p \in T \X (1 .. n) |-> Add(p[1], list[p[2]])]
           iter == CHOOSE iter : iter = Steps(iter)
<1>1. n \in Nat /\ DOMAIN list = 1 .. n /\ \A i \in 1 .. n : list[i] \in S
  OBVIOUS
<1>2. Kept(list, wanted) = iter[DOMAIN list]
  BY DEF Kept, FoldLeft, MapThenFoldSet
<1>3. \A kept \in T : \A i \in 1 .. n : Add(kept, list[i]) \in T
  BY <1>1
<1>4. <<>> \in T
  OBVIOUS
<1> HIDE DEF T, Add
<1>5. step \in [T \X (1 .. n) -> T]
  BY <1>3
<1>6. \A s \in SUBSET (1 .. n) : s # {} => Max(s) \in 1 .. n /\ s \ {Max(s)} \in SUBSET (1 .. n)
  <2> SUFFICES ASSUME NEW s \in SUBSET (1 .. n), s # {}
               PROVE  Max(s) \in 1 .. n
    OBVIOUS
  <2>1. s \in SUBSET (0 .. n)
    OBVIOUS
  <2>2. Max(s) \in s
    BY <1>1, <2>1, LargestOf
  <2>3. QED
    BY <2>2
<1>7. \E G : G = Steps(G)
  <2> HIDE DEF step
  <2>1. PICK run \in [SUBSET (1 .. n) -> T] : Runs(n, <<>>, step, run)
    BY <1>1, <1>4, <1>5, FoldRun
  <2>2. ASSUME NEW s \in SUBSET (1 .. n), s # {}
        PROVE  run[s] = Add(run[s \ {Max(s)}], list[Max(s)])
    <3>1. run[s \ {Max(s)}] \in T
      BY <1>6, <2>1, <2>2
    <3>2. run[s] = step[<<run[s \ {Max(s)}], Max(s)>>]
      BY <2>1, <2>2 DEF Runs
    <3>3. QED
      BY <1>6, <2>2, <3>1, <3>2 DEF step
  <2>3. run[{}] = <<>>
    BY <2>1 DEF Runs
  <2>4. run = Steps(run)
    BY <1>1, <2>1, <2>2, <2>3
  <2>5. QED
    BY <2>4
<1>8. iter = Steps(iter)
  BY <1>7
<1> HIDE DEF iter
<1>9. iter[{}] \in T
  BY <1>4, <1>8
<1>10. \A s \in SUBSET (1 .. n) : s # {} /\ iter[s \ {Max(s)}] \in T => iter[s] \in T
  BY <1>1, <1>3, <1>6, <1>8
<1>11. iter[1 .. n] \in T
  BY <1>1, <1>9, <1>10, FoldStays
<1>12. QED
  BY <1>1, <1>2, <1>11 DEF T

-----------------------------------------------------------------------------
(* Rendering makes files of the template's bodies. *)

Bodies(template) ==
    {f.body : f \in Range(template.files)} \cup {inc.body : inc \in Range(template.includes)}

IsFile(f) ==
    /\ f = [path |-> f.path, blank |-> f.blank, content |-> f.content]
    /\ f.content = [is |-> f.content.is, text |-> f.content.text]
    /\ IsContent(f.content.is)

Paths(template, vals) ==
    {RenderedPath(f.path, vals) : f \in Range(template.files)}
        \cup {inc.dest : inc \in Range(template.includes)}

Filed(template, vals) ==
    {File(path, body, vals) : path \in Paths(template, vals), body \in Bodies(template)}

(* A body of the template renders to a file with that body's content. *)
LEMMA FiledAreFiles ==
    ASSUME NEW template, IsTemplate(template), NEW vals, NEW f \in Filed(template, vals)
    PROVE  IsFile(f)
<1>1. PICK path \in Paths(template, vals), body \in Bodies(template) : f = File(path, body, vals)
  BY DEF Filed
<1>2. IsContent(body.is)
  BY <1>1 DEF Bodies, IsTemplate, IsBody
<1>3. f.content = [is |-> body.is, text |-> [n \in body.uses |-> ValueOf(vals, n)]]
  BY <1>1 DEF File, Content
<1>4. f = [path |-> f.path, blank |-> f.blank, content |-> f.content]
  BY <1>1 DEF File
<1>5. QED
  BY <1>2, <1>3, <1>4 DEF IsFile

(* The walk gives a list of files of the template (render). *)
LEMMA WalkedList ==
    ASSUME NEW template, IsTemplate(template), NEW vals
    PROVE  Walked(template, vals) \in Seq(Filed(template, vals))
<1> DEFINE wanted == {f \in Range(template.files) : ~Ignored(template, f.path) /\ ~IsConfig(f.path)}
           kept == Kept(template.files, wanted)
           S == Range(template.files)
<1>1. template.files \in Seq(S)
  BY DEF IsTemplate
<1> HIDE DEF wanted
<1>2. kept \in Seq(S \cap wanted)
  <2> HIDE DEF S
  <2>1. QED
    BY <1>1, KeptList
<1>3. Walked(template, vals) =
         [i \in DOMAIN kept |-> File(RenderedPath(kept[i].path, vals), kept[i].body, vals)]
  BY DEF Walked, wanted
<1> HIDE DEF kept
<1>4. \A i \in 1 .. Len(kept) : kept[i] \in S
  BY <1>2
<1>5. \A f \in S : File(RenderedPath(f.path, vals), f.body, vals) \in Filed(template, vals)
  BY DEF Filed, Paths, Bodies
<1> HIDE DEF S
<1>6. DOMAIN kept = 1 .. Len(kept) /\ Len(kept) \in Nat
  BY <1>2
<1>7. QED
  BY <1>3, <1>4, <1>5, <1>6

(* Includes come after the files. *)
LEMMA IncludedList ==
    ASSUME NEW template, IsTemplate(template), NEW vals
    PROVE  Included(template, vals) \in Seq(Filed(template, vals))
<1> DEFINE list == template.includes
           n == Len(list)
           T == Seq(Filed(template, vals))
           base == Walked(template, vals)
           Add(done, inc) == IF \E i \in DOMAIN done : done[i].path = inc.dest THEN done
                             ELSE Append(done, File(inc.dest, inc.body, vals))
           Steps(iter) == [s \in SUBSET DOMAIN list |->
                              IF s = {} THEN base ELSE Add(iter[s \ {Max(s)}], list[Max(s)])]
           step == [p \in T \X (1 .. n) |-> Add(p[1], list[p[2]])]
           iter == CHOOSE iter : iter = Steps(iter)
<1>1. n \in Nat /\ DOMAIN list = 1 .. n /\ \A i \in 1 .. n : list[i] \in Range(list)
  BY DEF IsTemplate
<1>2. Included(template, vals) = iter[DOMAIN list]
  BY DEF Included, WithIncludes, FoldLeft, MapThenFoldSet
<1>3. \A done \in T : \A i \in 1 .. n : Add(done, list[i]) \in T
  <2>1. \A i \in 1 .. n : File(list[i].dest, list[i].body, vals) \in Filed(template, vals)
    BY <1>1 DEF Filed, Paths, Bodies
  <2>2. QED
    BY <2>1
<1>4. base \in T
  BY WalkedList
<1> HIDE DEF T, Add, base
<1>5. step \in [T \X (1 .. n) -> T]
  BY <1>3
<1>6. \A s \in SUBSET (1 .. n) : s # {} => Max(s) \in 1 .. n /\ s \ {Max(s)} \in SUBSET (1 .. n)
  BY <1>1, LastIn
<1>7. \E G : G = Steps(G)
  <2> HIDE DEF step
  <2>1. PICK run \in [SUBSET (1 .. n) -> T] : Runs(n, base, step, run)
    BY <1>1, <1>4, <1>5, FoldRun
  <2>2. ASSUME NEW s \in SUBSET (1 .. n), s # {}
        PROVE  run[s] = Add(run[s \ {Max(s)}], list[Max(s)])
    <3>1. run[s \ {Max(s)}] \in T
      BY <1>6, <2>1, <2>2
    <3>2. run[s] = step[<<run[s \ {Max(s)}], Max(s)>>]
      BY <2>1, <2>2 DEF Runs
    <3>3. QED
      BY <1>6, <2>2, <3>1, <3>2 DEF step
  <2>3. run[{}] = base
    BY <2>1 DEF Runs
  <2>4. run = Steps(run)
    BY <1>1, <2>1, <2>2, <2>3
  <2>5. QED
    BY <2>4
<1>8. iter = Steps(iter)
  BY <1>7
<1> HIDE DEF iter
<1>9. iter[{}] \in T
  BY <1>4, <1>8
<1>10. \A s \in SUBSET (1 .. n) : s # {} /\ iter[s \ {Max(s)}] \in T => iter[s] \in T
  BY <1>1, <1>3, <1>6, <1>8
<1>11. iter[1 .. n] \in T
  BY <1>1, <1>9, <1>10, FoldStays
<1>12. QED
  BY <1>1, <1>2, <1>11 DEF T

Output(f) ==
    /\ f = [path |-> f.path, content |-> f.content]
    /\ f.content = [is |-> f.content.is, text |-> f.content.text]
    /\ IsContent(f.content.is)

FilesOK(list) == list \in Seq(Range(list)) /\ \A i \in DOMAIN list : Output(list[i])

(* Rendering gives a list of files, each with a path and a content (render
   drops the blank ones and keeps the rest whole). *)
LEMMA RenderedList ==
    ASSUME NEW template, IsTemplate(template), NEW vals
    PROVE  FilesOK(RenderAll(template, vals))
<1> DEFINE all == Included(template, vals)
           wanted == {f \in Range(all) : ~f.blank}
           kept == Kept(all, wanted)
           S == Filed(template, vals)
<1>1. all \in Seq(S)
  BY IncludedList
<1> HIDE DEF wanted
<1>2. kept \in Seq(S \cap wanted)
  <2> HIDE DEF S, all
  <2>1. QED
    BY <1>1, KeptList
<1>3. RenderAll(template, vals) = [i \in DOMAIN kept |-> [path |-> kept[i].path, content |-> kept[i].content]]
  BY DEF RenderAll, Shown, wanted
<1> HIDE DEF kept
<1>4. DOMAIN kept = 1 .. Len(kept) /\ Len(kept) \in Nat /\ \A i \in 1 .. Len(kept) : kept[i] \in S
  BY <1>2
<1>5. \A i \in 1 .. Len(kept) : IsFile(kept[i])
  BY <1>4, FiledAreFiles
<1> HIDE DEF S
<1> DEFINE r == RenderAll(template, vals)
<1>6. \A i \in 1 .. Len(kept) : Output(r[i])
  <2> SUFFICES ASSUME NEW i \in 1 .. Len(kept)
               PROVE  Output(r[i])
    OBVIOUS
  <2>1. r[i] = [path |-> kept[i].path, content |-> kept[i].content]
    BY <1>3, <1>4
  <2>2. r[i].path = kept[i].path /\ r[i].content = kept[i].content
    BY <2>1
  <2>3. QED
    BY <1>5, <2>1, <2>2 DEF IsFile, Output
<1>7. r \in Seq(Range(r)) /\ DOMAIN r = 1 .. Len(kept)
  <2>1. DOMAIN r = 1 .. Len(kept)
    BY <1>3, <1>4
  <2>2. r = [i \in 1 .. Len(kept) |-> r[i]]
    BY <1>3, <1>4
  <2>3. \A i \in 1 .. Len(kept) : r[i] \in Range(r)
    BY <2>1 DEF Range
  <2> HIDE DEF r
  <2>4. QED
    BY <1>4, <2>1, <2>2, <2>3
<1>8. QED
  BY <1>6, <1>7 DEF FilesOK

-----------------------------------------------------------------------------
(* Resolution returns rows of the pack, with more features. *)
LEMMA OfferedRows ==
    ASSUME NEW p, WellFormed(p), NEW A, NEW c \in DOMAIN ResolveForFeatures(p, A)
    PROVE  /\ c \in DOMAIN p.crates
           /\ ResolveForFeatures(p, A)[c] \in CrateSpec
           /\ ResolveForFeatures(p, A)[c].ver = p.crates[c].ver
<1> DEFINE B == Names(p, A)
           strong == Augments(RefsOf(p, Surviving(p, B, c)), "strong", c)
           weak == Augments(RefsOf(p, Requested(p, B)), "weak", c)
<1>1. c \in Offered(p, A)
  BY DEF ResolveForFeatures
<1>2. c \in DOMAIN p.crates
  BY <1>1 DEF Offered, Unmentioned, Selected, Activated, NonOptional, Unconditional, Visible
<1>3. p.crates[c] \in CrateSpec
  BY <1>2 DEF WellFormed
<1>4. strong \subseteq CrateFeatures /\ weak \subseteq CrateFeatures
  BY DEF WellFormed, RefsOf, Expanded, Augments
<1>5. \/ ResolveForFeatures(p, A)[c] = p.crates[c]
      \/ ResolveForFeatures(p, A)[c] = [p.crates[c] EXCEPT !.feats = @ \cup strong \cup weak]
  BY <1>1 DEF ResolveForFeatures, Resolve
<1> HIDE DEF strong, weak
<1>6. QED
  BY <1>2, <1>3, <1>4, <1>5 DEF CrateSpec

(* The pack behind a name. *)
PackAt(p, registry) ==
    CASE p \in DOMAIN Workspace -> Workspace[p]
      [] p \notin DOMAIN Workspace /\ p \in DOMAIN registry -> registry[p]
      [] OTHER -> NoPack

(* Whatever a name leads to, it is a pack or none. *)
LEMMA PackAtOK ==
    ASSUME NEW registry \in {Registry, <<>>}, NEW p
    PROVE  PackOK(PackAt(p, registry))
<1>1. PackOK(NoPack)
  <2>1. DOMAIN <<>> = {} /\ <<>> = [x \in {} |-> {}]
    OBVIOUS
  <2>2. NoPack \in [ver : Nat, spec : {NoPack.spec}]
    BY DEF NoPack
  <2>3. NoPack.spec.crates = <<>> /\ NoPack.spec.features = <<>>
    BY DEF NoPack
  <2>4. QED
    BY <2>1, <2>2, <2>3 DEF PackOK, WellFormed
<1>2. \A q \in DOMAIN registry : PackOK(registry[q])
  <2>1. CASE registry = Registry
    BY <2>1, TemplateAssumption
  <2>2. CASE registry = <<>>
    BY <2>2
  <2>3. QED
    BY <2>1, <2>2
<1>3. QED
  BY <1>1, <1>2, WorkspaceAssumption DEF PackAt

(* What has been loaded from the packs P. *)
Knows(k, P, registry) ==
    /\ k = [ok |-> k.ok, crates |-> k.crates, vers |-> k.vers]
    /\ \A c \in DOMAIN k.crates :
          /\ k.crates[c] \in CrateSpec
          /\ \E p \in P : /\ c \in DOMAIN PackAt(p, registry).spec.crates
                          /\ k.crates[c].ver = PackAt(p, registry).spec.crates[c].ver
    /\ \A p \in DOMAIN k.vers : /\ p \in P /\ k.vers[p] = PackAt(p, registry).ver
                                /\ k.ok = TRUE => PackAt(p, registry) # NoPack

(* Loading one more pack keeps all that is known a pack's own. *)
LEMMA LoadKnows ==
    ASSUME NEW registry \in {Registry, <<>>}, NEW P, NEW k, Knows(k, P, registry), NEW entry,
           FullName(entry.name) \in P
    PROVE  Knows(Load(k, entry, registry), P, registry)
<1> DEFINE p == FullName(entry.name)
           pack == Source(entry.name, registry)
           rows == ResolveForFeatures(pack.spec, Feats(entry))
           crates == Extended(k.crates, rows)
           vers == Extended(k.vers, [q \in {p} |-> pack.ver])
           ok == k.ok /\ pack # NoPack
           new == Load(k, entry, registry)
<1>1. pack = PackAt(p, registry)
  BY DEF Source, PackAt
<1>2. new = [ok |-> ok, crates |-> crates, vers |-> vers]
  BY DEF Load
<1>3. WellFormed(pack.spec)
  BY <1>1, PackAtOK DEF PackOK
<1>4. p \in P
  OBVIOUS
<1> HIDE DEF p, pack
<1>5. \A c \in DOMAIN rows : /\ c \in DOMAIN pack.spec.crates /\ rows[c] \in CrateSpec
                             /\ rows[c].ver = pack.spec.crates[c].ver
  BY <1>3, OfferedRows
<1> HIDE DEF rows
<1>6. ASSUME NEW c \in DOMAIN crates
      PROVE  /\ crates[c] \in CrateSpec
             /\ \E q \in P : /\ c \in DOMAIN PackAt(q, registry).spec.crates
                             /\ crates[c].ver = PackAt(q, registry).spec.crates[c].ver
  <2>1. CASE c \in DOMAIN rows
    <3>1. crates[c] = rows[c]
      BY <2>1 DEF Extended
    <3>2. QED
      BY <1>1, <1>4, <1>5, <2>1, <3>1
  <2>2. CASE c \notin DOMAIN rows
    <3>1. c \in DOMAIN k.crates /\ crates[c] = k.crates[c]
      BY <2>2 DEF Extended
    <3>2. QED
      BY <3>1 DEF Knows
  <2>3. QED
    BY <2>1, <2>2
<1>7. ASSUME NEW q \in DOMAIN vers
      PROVE  /\ q \in P /\ vers[q] = PackAt(q, registry).ver
             /\ ok = TRUE => PackAt(q, registry) # NoPack
  <2>1. CASE q = p
    BY <1>1, <1>4, <2>1 DEF Extended
  <2>2. CASE q # p
    <3>1. q \in DOMAIN k.vers /\ vers[q] = k.vers[q]
      BY <2>2 DEF Extended
    <3>2. ok = TRUE => k.ok = TRUE
      OBVIOUS
    <3>3. QED
      BY <3>1, <3>2 DEF Knows
  <2>3. QED
    BY <2>1, <2>2
<1> HIDE DEF crates, vers, ok, new
<1>8. new.ok = ok /\ new.crates = crates /\ new.vers = vers
  BY <1>2
<1>9. Knows(new, P, registry)
  BY <1>2, <1>6, <1>7, <1>8 DEF Knows
<1>10. QED
  BY <1>9 DEF new

Listed(P, registry) == UNION {DOMAIN PackAt(p, registry).spec.crates : p \in P}

Loaded(P, registry) ==
    {k \in [ok : BOOLEAN,
            crates : UNION {[D -> CrateSpec] : D \in SUBSET Listed(P, registry)},
            vers : UNION {[D -> Nat] : D \in SUBSET P}] : Knows(k, P, registry)}

(* What is known has the type of what can be loaded. *)
LEMMA KnowsLoaded ==
    ASSUME NEW registry \in {Registry, <<>>}, NEW P, NEW k, Knows(k, P, registry),
           k.ok \in BOOLEAN, k.crates = [c \in DOMAIN k.crates |-> k.crates[c]],
           k.vers = [p \in DOMAIN k.vers |-> k.vers[p]]
    PROVE  k \in Loaded(P, registry)
<1>1. k.crates \in [DOMAIN k.crates -> CrateSpec] /\ DOMAIN k.crates \in SUBSET Listed(P, registry)
  BY DEF Knows, Listed
<1>2. k.vers \in [DOMAIN k.vers -> Nat] /\ DOMAIN k.vers \in SUBSET P
  BY PackAtOK DEF Knows, PackOK
<1>3. k.crates \in UNION {[D -> CrateSpec] : D \in SUBSET Listed(P, registry)}
  BY <1>1
<1>4. k.vers \in UNION {[D -> Nat] : D \in SUBSET P}
  BY <1>2
<1>5. k = [ok |-> k.ok, crates |-> k.crates, vers |-> k.vers]
  BY DEF Knows
<1>6. QED
  BY <1>3, <1>4, <1>5 DEF Loaded

(* The same for the set of all that can be loaded. *)
LEMMA LoadedStays ==
    ASSUME NEW registry \in {Registry, <<>>}, NEW P, NEW k \in Loaded(P, registry), NEW entry,
           FullName(entry.name) \in P
    PROVE  Load(k, entry, registry) \in Loaded(P, registry)
<1> DEFINE new == Load(k, entry, registry)
<1>1. Knows(k, P, registry) /\ k.ok \in BOOLEAN
  BY DEF Loaded
<1>2. Knows(new, P, registry)
  BY <1>1, LoadKnows
<1>3. new.ok \in BOOLEAN
  BY <1>1 DEF Load
<1>4. new.crates = [c \in DOMAIN new.crates |-> new.crates[c]]
  BY DEF Load, Extended
<1>5. new.vers = [p \in DOMAIN new.vers |-> new.vers[p]]
  BY DEF Load, Extended
<1> HIDE DEF new
<1>6. new \in Loaded(P, registry)
  BY <1>2, <1>3, <1>4, <1>5, KnowsLoaded
<1>7. QED
  BY <1>6 DEF new

(* Before the first pack nothing is known. *)
LEMMA NothingLoaded ==
    ASSUME NEW registry \in {Registry, <<>>}, NEW P
    PROVE  [ok |-> TRUE, crates |-> <<>>, vers |-> <<>>] \in Loaded(P, registry)
<1> DEFINE k == [ok |-> TRUE, crates |-> <<>>, vers |-> <<>>]
<1>1. <<>> = [x \in DOMAIN <<>> |-> <<>>[x]] /\ DOMAIN <<>> = {}
  OBVIOUS
<1>2. k.ok = TRUE /\ k.crates = <<>> /\ k.vers = <<>>
  OBVIOUS
<1>3. k = [ok |-> k.ok, crates |-> k.crates, vers |-> k.vers]
  OBVIOUS
<1> HIDE DEF k
<1>4. Knows(k, P, registry)
  BY <1>1, <1>2, <1>3 DEF Knows
<1>5. k \in Loaded(P, registry)
  BY <1>1, <1>2, <1>4, KnowsLoaded
<1>6. QED
  BY <1>5 DEF k

(* All packs of a list, loaded. *)
LEMMA UsedLoaded ==
    ASSUME NEW registry \in {Registry, <<>>}, NEW list, list \in Seq(Range(list))
    PROVE  FoldLeft(LAMBDA known, entry : Load(known, entry, registry),
                    [ok |-> TRUE, crates |-> <<>>, vers |-> <<>>], list)
               \in Loaded({FullName(list[i].name) : i \in DOMAIN list}, registry)
<1> DEFINE n == Len(list)
           P == {FullName(list[i].name) : i \in DOMAIN list}
           T == Loaded(P, registry)
           base == [ok |-> TRUE, crates |-> <<>>, vers |-> <<>>]
           Add(known, entry) == Load(known, entry, registry)
           Steps(iter) == [s \in SUBSET DOMAIN list |->
                              IF s = {} THEN base ELSE Add(iter[s \ {Max(s)}], list[Max(s)])]
           step == [p \in T \X (1 .. n) |-> Add(p[1], list[p[2]])]
           iter == CHOOSE iter : iter = Steps(iter)
           fold == FoldLeft(LAMBDA known, entry : Load(known, entry, registry), base, list)
<1>1. n \in Nat /\ DOMAIN list = 1 .. n
  OBVIOUS
<1>2. fold = iter[DOMAIN list]
  BY DEF FoldLeft, MapThenFoldSet
<1> HIDE DEF fold
<1>3. \A known \in T : \A i \in 1 .. n : Add(known, list[i]) \in T
  BY <1>1, LoadedStays
<1>4. base \in T
  BY NothingLoaded
<1> HIDE DEF T, Add, base
<1>5. step \in [T \X (1 .. n) -> T]
  BY <1>3
<1>6. \A s \in SUBSET (1 .. n) : s # {} => Max(s) \in 1 .. n /\ s \ {Max(s)} \in SUBSET (1 .. n)
  BY <1>1, LastIn
<1>7. \E G : G = Steps(G)
  <2> HIDE DEF step
  <2>1. PICK run \in [SUBSET (1 .. n) -> T] : Runs(n, base, step, run)
    BY <1>1, <1>4, <1>5, FoldRun
  <2>2. ASSUME NEW s \in SUBSET (1 .. n), s # {}
        PROVE  run[s] = Add(run[s \ {Max(s)}], list[Max(s)])
    <3>1. run[s \ {Max(s)}] \in T
      BY <1>6, <2>1, <2>2
    <3>2. run[s] = step[<<run[s \ {Max(s)}], Max(s)>>]
      BY <2>1, <2>2 DEF Runs
    <3>3. QED
      BY <1>6, <2>2, <3>1, <3>2 DEF step
  <2>3. run[{}] = base
    BY <2>1 DEF Runs
  <2>4. run = Steps(run)
    BY <1>1, <2>1, <2>2, <2>3
  <2>5. QED
    BY <2>4
<1>8. iter = Steps(iter)
  BY <1>7
<1> HIDE DEF iter
<1>9. iter[{}] \in T
  BY <1>4, <1>8
<1>10. \A s \in SUBSET (1 .. n) : s # {} /\ iter[s \ {Max(s)}] \in T => iter[s] \in T
  BY <1>1, <1>3, <1>6, <1>8
<1>11. iter[1 .. n] \in T
  BY <1>1, <1>9, <1>10, FoldStays
<1>12. fold \in T
  BY <1>1, <1>2, <1>11
<1>13. QED
  BY <1>12 DEF T, P, fold, base

-----------------------------------------------------------------------------
(* What the packs in use give a row. *)

Gives(known, m, state) ==
    /\ \A c \in DOMAIN known.crates :
          known.crates[c] \in CrateSpec /\ known.crates[c].ver \in VersionsOf(c, m, state)
    /\ \A p \in DOMAIN known.vers : known.vers[p] \in Nat /\ known.vers[p] \in VersionsOf(p, m, state)

(* The pack behind a name in use gives versions for itself and its crates. *)
LEMMA VersionsFrom ==
    ASSUME NEW registry \in {Registry, <<>>}, NEW m, NEW state,
           NEW p \in UsedPacks(m, state) \cup DOMAIN Workspace, PackAt(p, registry) # NoPack
    PROVE  /\ PackAt(p, registry).ver \in VersionsOf(p, m, state)
           /\ \A c \in DOMAIN PackAt(p, registry).spec.crates :
                 PackAt(p, registry).spec.crates[c].ver \in VersionsOf(c, m, state)
<1>1. PackAt(p, registry) = Provider(p)
  BY DEF PackAt, Provider
<1>2. Provider(p).ver \in VersionsOf(p, m, state)
  BY DEF VersionsOf
<1>3. ASSUME NEW c \in DOMAIN Provider(p).spec.crates
      PROVE  Provider(p).spec.crates[c].ver \in VersionsOf(c, m, state)
  BY <1>3 DEF VersionsOf
<1>4. QED
  BY <1>1, <1>2, <1>3

(* What all the packs in use make known is theirs (resolve_bp_managed_content). *)
LEMMA KnownGives ==
    ASSUME NEW registry \in {Registry, <<>>}, NEW m, NEW state,
           Active(m, state) \in Seq(Range(Active(m, state))),
           Known(m, state, registry).ok = TRUE
    PROVE  Gives(Known(m, state, registry), m, state)
<1> DEFINE list == Active(m, state)
           P == {FullName(list[i].name) : i \in DOMAIN list}
           used == FoldLeft(LAMBDA known, entry : Load(known, entry, registry),
                            [ok |-> TRUE, crates |-> <<>>, vers |-> <<>>], list)
           own == [p \in DOMAIN Workspace |-> Workspace[p].ver]
           known == Known(m, state, registry)
<1>1. used \in Loaded(P, registry)
  <2> HIDE DEF list
  <2>1. QED
    BY UsedLoaded DEF list
<1>2. P = UsedPacks(m, state)
  BY DEF UsedPacks
<1>3. known = [used EXCEPT !.vers = Extended(own, @)]
  BY DEF Known
<1> HIDE DEF used, P
<1>4. Knows(used, P, registry) /\ used \in [ok : BOOLEAN,
            crates : UNION {[D -> CrateSpec] : D \in SUBSET Listed(P, registry)},
            vers : UNION {[D -> Nat] : D \in SUBSET P}]
  BY <1>1 DEF Loaded
<1>5. known.ok = used.ok /\ known.crates = used.crates /\ known.vers = Extended(own, used.vers)
  BY <1>3, <1>4
<1> HIDE DEF known
<1>6. ASSUME NEW c \in DOMAIN known.crates
      PROVE  known.crates[c] \in CrateSpec /\ known.crates[c].ver \in VersionsOf(c, m, state)
  <2>1. PICK p \in P : /\ c \in DOMAIN PackAt(p, registry).spec.crates
                       /\ known.crates[c].ver = PackAt(p, registry).spec.crates[c].ver
    BY <1>4, <1>5 DEF Knows
  <2>2. PackAt(p, registry) # NoPack
    <3>1. DOMAIN NoPack.spec.crates = {}
      <4>1. NoPack.spec.crates = <<>> /\ DOMAIN <<>> = {}
        BY DEF NoPack
      <4>2. QED
        BY <4>1
    <3>2. QED
      BY <2>1, <3>1
  <2>3. QED
    BY <1>2, <1>4, <1>5, <2>1, <2>2, VersionsFrom DEF Knows
<1>7. ASSUME NEW p \in DOMAIN known.vers
      PROVE  known.vers[p] \in Nat /\ known.vers[p] \in VersionsOf(p, m, state)
  <2>1. CASE p \in DOMAIN used.vers
    <3>1. known.vers[p] = used.vers[p]
      BY <1>5, <2>1 DEF Extended
    <3>2. p \in P /\ used.vers[p] = PackAt(p, registry).ver /\ PackAt(p, registry) # NoPack
      BY <1>4, <1>5, <2>1 DEF Knows, known
    <3>3. PackAt(p, registry).ver \in Nat
      BY PackAtOK DEF PackOK
    <3>4. QED
      BY <1>2, <3>1, <3>2, <3>3, VersionsFrom
  <2>2. CASE p \notin DOMAIN used.vers
    <3>1. p \in DOMAIN Workspace /\ known.vers[p] = Workspace[p].ver
      BY <1>5, <2>2 DEF Extended
    <3>2. Workspace[p].ver \in Nat
      BY <3>1, WorkspaceAssumption DEF PackOK
    <3>3. Workspace[p].ver \in VersionsOf(p, m, state)
      BY <3>1 DEF VersionsOf, Provider
    <3>4. QED
      BY <3>1, <3>2, <3>3
  <2>3. QED
    BY <2>1, <2>2
<1>8. QED
  BY <1>6, <1>7 DEF Gives, known

(* A rewritten row keeps what the template says and takes a pack's version
   (the rewriting in resolve_bp_managed_content). *)
LEMMA RowRewritten ==
    ASSUME NEW m, NEW state, NEW known, Gives(known, m, state), NEW dep \in DepRow,
           Provided(dep, known)
    PROVE  LET new == Rewrite(dep, known)
           IN /\ new \in DepRow /\ new.mark = "absent" /\ new.ver \in VersionsOf(dep.crate, m, state)
              /\ dep.explicit => new.feats = dep.feats
              /\ new.crate = dep.crate /\ new.extra = dep.extra
<1>1. CASE dep.crate \in DOMAIN known.crates
  <2>1. known.crates[dep.crate].ver \in Nat /\ known.crates[dep.crate].feats \in SUBSET CrateFeatures
        /\ known.crates[dep.crate].ver \in VersionsOf(dep.crate, m, state)
    BY <1>1 DEF Gives, CrateSpec
  <2>2. CASE dep.explicit
    <3>1. Rewrite(dep, known) =
            [dep EXCEPT !.mark = "absent", !.form = "version", !.ver = known.crates[dep.crate].ver]
      BY <1>1, <2>2 DEF Rewrite
    <3>2. QED
      BY <2>1, <3>1 DEF DepRow
  <2>3. CASE ~dep.explicit
    <3>1. Rewrite(dep, known) =
            [dep EXCEPT !.mark = "absent", !.form = "version",
                        !.ver = known.crates[dep.crate].ver,
                        !.feats = known.crates[dep.crate].feats,
                        !.explicit = known.crates[dep.crate].feats # {}]
      BY <1>1, <2>3 DEF Rewrite
    <3>2. QED
      BY <2>1, <2>3, <3>1 DEF DepRow
  <2>4. QED
    BY <2>2, <2>3
<1>2. CASE dep.crate \notin DOMAIN known.crates
  <2>1. dep.crate \in DOMAIN known.vers
    BY <1>2 DEF Provided
  <2>2. known.vers[dep.crate] \in Nat /\ known.vers[dep.crate] \in VersionsOf(dep.crate, m, state)
    BY <2>1 DEF Gives
  <2>3. Rewrite(dep, known) =
          [dep EXCEPT !.mark = "absent", !.form = "version", !.ver = known.vers[dep.crate]]
    BY <1>2 DEF Rewrite
  <2>4. QED
    BY <2>2, <2>3 DEF DepRow
<1>3. QED
  BY <1>1, <1>2

-----------------------------------------------------------------------------
(* A manifest, rewritten. *)

Rewritten(new, old, state) ==
    /\ IsManifest(new) /\ Marked(new) = {} /\ Places(new) = Places(old) /\ new.packs = old.packs
    /\ \A at \in Places(old) :
          IF at \in Marked(old)
          THEN /\ Dep(new, at).ver \in VersionsOf(Dep(old, at).crate, old, state)
               /\ Dep(old, at).explicit => Dep(new, at).feats = Dep(old, at).feats
               /\ Dep(new, at).crate = Dep(old, at).crate
               /\ Dep(new, at).extra = Dep(old, at).extra
          ELSE Dep(new, at) = Dep(old, at)

(* A row's place, and the row at it. *)
LEMMA PlacesAre ==
    ASSUME NEW m, NEW t \in DOMAIN m.deps, NEW n \in DOMAIN m.deps[t]
    PROVE  <<t, n>> \in Places(m) /\ Dep(m, <<t, n>>) = m.deps[t][n]
  BY DEF Places, Dep

(* Every place is a table's row. *)
LEMMA PlaceIs ==
    ASSUME NEW m, NEW at \in Places(m)
    PROVE  \E t \in DOMAIN m.deps : \E n \in DOMAIN m.deps[t] : at = <<t, n>>
  BY DEF Places

(* All marked rows are rewritten, and no other (resolve_bp_managed_content). *)
LEMMA RowsRewritten ==
    ASSUME NEW m, IsManifest(m), NEW state, NEW known, Gives(known, m, state),
           \A at \in Marked(m) : Provided(Dep(m, at), known)
    PROVE  Rewritten(RewriteRows(m, known), m, state)
<1> DEFINE new == RewriteRows(m, known)
           deps == [t \in DOMAIN m.deps |-> [n \in DOMAIN m.deps[t] |->
                       IF <<t, n>> \in Marked(m) THEN Rewrite(m.deps[t][n], known) ELSE m.deps[t][n]]]
<1>1. new = [m EXCEPT !.deps = deps]
  BY DEF RewriteRows
<1>2. new.form = "manifest" /\ new.deps = deps /\ new.packs = m.packs
      /\ new = [form |-> "manifest", deps |-> new.deps, packs |-> new.packs]
  BY <1>1 DEF IsManifest
<1>3. DOMAIN new.deps = DOMAIN m.deps /\ \A t \in DOMAIN m.deps : DOMAIN new.deps[t] = DOMAIN m.deps[t]
  BY <1>2
<1>4. ASSUME NEW t \in DOMAIN m.deps, NEW n \in DOMAIN m.deps[t]
      PROVE  new.deps[t][n] = IF <<t, n>> \in Marked(m) THEN Rewrite(m.deps[t][n], known)
                              ELSE m.deps[t][n]
  BY <1>2
<1>5. \A t \in DOMAIN m.deps : new.deps[t] = [n \in DOMAIN m.deps[t] |-> new.deps[t][n]]
  BY <1>2
<1> HIDE DEF new, deps
<1>6. Places(new) = Places(m)
  BY <1>3 DEF Places
<1>7. ASSUME NEW t \in DOMAIN m.deps, NEW n \in DOMAIN m.deps[t]
      PROVE  /\ m.deps[t][n] \in DepRow
             /\ new.deps[t][n] \in DepRow /\ new.deps[t][n].mark = "absent"
             /\ IF <<t, n>> \in Marked(m)
                THEN /\ new.deps[t][n].ver \in VersionsOf(m.deps[t][n].crate, m, state)
                     /\ m.deps[t][n].explicit => new.deps[t][n].feats = m.deps[t][n].feats
                     /\ new.deps[t][n].crate = m.deps[t][n].crate
                     /\ new.deps[t][n].extra = m.deps[t][n].extra
                ELSE new.deps[t][n] = m.deps[t][n]
  <2> DEFINE dep == m.deps[t][n]
  <2>1. dep \in DepRow /\ <<t, n>> \in Places(m) /\ Dep(m, <<t, n>>) = dep
    BY PlacesAre DEF IsManifest
  <2>2. CASE <<t, n>> \in Marked(m)
    <3>1. Provided(dep, known) /\ new.deps[t][n] = Rewrite(dep, known)
      BY <1>4, <2>1, <2>2
    <3> HIDE DEF dep
    <3>2. QED
      BY <2>1, <2>2, <3>1, RowRewritten DEF dep
  <2>3. CASE <<t, n>> \notin Marked(m)
    <3>1. new.deps[t][n] = dep /\ dep.mark = "absent"
      BY <1>4, <2>1, <2>3 DEF Marked
    <3>2. QED
      BY <2>1, <2>3, <3>1
  <2>4. QED
    BY <2>2, <2>3
<1>8. IsManifest(new)
  <2>1. new \in [form : {"manifest"}, deps : {new.deps}, packs : Seq(UsedPack)]
    <3>1. new.packs \in Seq(UsedPack)
      BY <1>2 DEF IsManifest
    <3>2. QED
      BY <1>2, <3>1
  <2>2. \A t \in DOMAIN new.deps : new.deps[t] \in [DOMAIN new.deps[t] -> DepRow]
    BY <1>3, <1>5, <1>7
  <2>3. QED
    BY <2>1, <2>2 DEF IsManifest
<1>9. ASSUME NEW at \in Places(m)
      PROVE  /\ Dep(new, at).mark = "absent"
             /\ IF at \in Marked(m)
                THEN /\ Dep(new, at).ver \in VersionsOf(Dep(m, at).crate, m, state)
                     /\ Dep(m, at).explicit => Dep(new, at).feats = Dep(m, at).feats
                     /\ Dep(new, at).crate = Dep(m, at).crate
                     /\ Dep(new, at).extra = Dep(m, at).extra
                ELSE Dep(new, at) = Dep(m, at)
  <2>1. PICK t \in DOMAIN m.deps : \E n \in DOMAIN m.deps[t] : at = <<t, n>>
    BY PlaceIs
  <2>2. PICK n \in DOMAIN m.deps[t] : at = <<t, n>>
    BY <2>1
  <2>3. Dep(m, at) = m.deps[t][n] /\ Dep(new, at) = new.deps[t][n]
    BY <1>3, <2>2, PlacesAre
  <2>4. QED
    BY <1>7, <2>2, <2>3
<1>10. Marked(new) = {}
  BY <1>6, <1>9 DEF Marked
<1>11. Rewritten(new, m, state)
  BY <1>2, <1>6, <1>8, <1>9, <1>10 DEF Rewritten
<1>12. QED
  BY <1>11 DEF new

(* The state beside a manifest is a file's content, or none. *)
LEMMA StateIs ==
    ASSUME NEW rendered, FilesOK(rendered), NEW path
    PROVE  StateFor(rendered, path) = NoState \/ IsContent(StateFor(rendered, path))
<1> DEFINE beside == {i \in DOMAIN rendered : rendered[i].path = Append(Front(path), "battery-pack.toml")}
<1>1. CASE beside = {}
  BY <1>1 DEF StateFor
<1>2. CASE beside # {}
  <2>1. Len(rendered) \in Nat /\ DOMAIN rendered = 1 .. Len(rendered)
    BY DEF FilesOK
  <2>2. beside \in SUBSET (0 .. Len(rendered))
    BY <2>1
  <2>3. StateFor(rendered, path) = rendered[Max(beside)].content.is
    BY <1>2 DEF StateFor
  <2> HIDE DEF beside
  <2>4. Max(beside) \in beside
    BY <1>2, <2>1, <2>2, LargestOf
  <2>5. Max(beside) \in DOMAIN rendered
    BY <2>4 DEF beside
  <2>6. QED
    BY <2>3, <2>5 DEF FilesOK, Output
<1>3. QED
  BY <1>1, <1>2

(* The packs in use are a list. *)
LEMMA ActiveList ==
    ASSUME NEW m, IsManifest(m), NEW state, state = NoState \/ IsContent(state)
    PROVE  Active(m, state) \in Seq(Range(Active(m, state)))
<1>1. Active(m, state) \in Seq(UsedPack)
  <2>1. CASE state.form = "none"
    BY <2>1 DEF Active, IsManifest
  <2>2. CASE state.form = "state"
    <3>1. state \in [form : {"state"}, packs : Seq(UsedPack), applied : SUBSET STRING]
      BY <2>2 DEF IsContent, NoState, IsManifest
    <3>2. QED
      BY <2>2, <3>1 DEF Active
  <2>3. CASE state.form \notin {"none", "state"}
    <3>1. Active(m, state) = <<>>
      BY <2>3 DEF Active
    <3>2. QED
      BY <3>1
  <2>4. QED
    BY <2>1, <2>2, <2>3
<1>2. QED
  BY <1>1, ListOf

(* One manifest is left alone or rewritten. *)
LEMMA FileManaged ==
    ASSUME NEW rendered, FilesOK(rendered), NEW i \in DOMAIN rendered,
           NEW registry \in {Registry, <<>>}
    PROVE  \/ ManageFile(rendered, i, registry) = rendered
           \/ \E is : /\ Rewritten(is, rendered[i].content.is, StateFor(rendered, rendered[i].path))
                      /\ ManageFile(rendered, i, registry) = [rendered EXCEPT ![i].content.is = is]
<1> DEFINE m == rendered[i].content.is
           state == StateFor(rendered, rendered[i].path)
           result == ResolveManaged(m, state, registry)
           known == Known(m, state, registry)
<1>1. ManageFile(rendered, i, registry) =
         IF Named(rendered[i].path, "Cargo.toml") /\ m.form = "manifest" /\ result.ok
         THEN [rendered EXCEPT ![i].content.is = result.content]
         ELSE rendered
  BY DEF ManageFile
<1>2. CASE ~(Named(rendered[i].path, "Cargo.toml") /\ m.form = "manifest" /\ result.ok)
  BY <1>1, <1>2
<1>3. CASE Named(rendered[i].path, "Cargo.toml") /\ m.form = "manifest" /\ result.ok
  <2>0. ManageFile(rendered, i, registry) = [rendered EXCEPT ![i].content.is = result.content]
    BY <1>1, <1>3
  <2>1. IsManifest(m)
    BY <1>3 DEF FilesOK, Output, IsContent
  <2>2. state = NoState \/ IsContent(state)
    BY StateIs
  <2> HIDE DEF m, state
  <2>3. Active(m, state) \in Seq(Range(Active(m, state)))
    BY <2>1, <2>2, ActiveList
  <2>4. CASE Conflicting(m)
    BY <1>3, <2>4 DEF ResolveManaged, Unresolved
  <2>5. CASE ~Conflicting(m) /\ Marked(m) = {}
    <3>1. result.content = m
      BY <2>5 DEF ResolveManaged
    <3>2. [rendered EXCEPT ![i].content.is = m] = rendered
      <4>1. Output(rendered[i])
        BY DEF FilesOK
      <4>2. [rendered[i].content EXCEPT !.is = m] = rendered[i].content
        BY <4>1 DEF Output, m
      <4>3. [rendered[i] EXCEPT !.content = rendered[i].content] = rendered[i]
        BY <4>1 DEF Output
      <4>4. [rendered EXCEPT ![i] = rendered[i]] = rendered
        BY DEF FilesOK
      <4>5. QED
        BY <4>2, <4>3, <4>4
    <3>3. QED
      BY <2>0, <3>1, <3>2
  <2>6. CASE ~Conflicting(m) /\ Marked(m) # {}
    <3>1. result = IF known.ok /\ \A at \in Marked(m) : Provided(Dep(m, at), known)
                   THEN [ok |-> TRUE, content |-> RewriteRows(m, known)]
                   ELSE Unresolved
      BY <2>6 DEF ResolveManaged
    <3> HIDE DEF known
    <3>2. known.ok /\ \A at \in Marked(m) : Provided(Dep(m, at), known)
      BY <1>3, <3>1 DEF Unresolved
    <3>3. result.content = RewriteRows(m, known)
      BY <3>1, <3>2
    <3>4. Gives(known, m, state)
      BY <2>3, <3>2, KnownGives DEF known
    <3>5. Rewritten(RewriteRows(m, known), m, state)
      BY <2>1, <3>2, <3>4, RowsRewritten
    <3>6. QED
      BY <2>0, <3>3, <3>5 DEF m, state
  <2>7. QED
    BY <2>4, <2>5, <2>6
<1>4. QED
  BY <1>2, <1>3

-----------------------------------------------------------------------------
(* Managing a list of files keeps it one. *)
LEMMA FilesManaged ==
    ASSUME NEW rendered, FilesOK(rendered), NEW i \in DOMAIN rendered, NEW is, IsContent(is)
    PROVE  LET new == [rendered EXCEPT ![i].content.is = is]
           IN /\ FilesOK(new) /\ Len(new) = Len(rendered) /\ DOMAIN new = DOMAIN rendered
              /\ \A j \in DOMAIN rendered : /\ j # i => new[j] = rendered[j]
                                            /\ new[j].path = rendered[j].path
                                            /\ new[j].content.text = rendered[j].content.text
              /\ new[i].content.is = is
<1> DEFINE new == [rendered EXCEPT ![i].content.is = is]
           n == Len(rendered)
           old == rendered[i]
<1>1. rendered \in Seq(Range(rendered)) /\ n \in Nat /\ DOMAIN rendered = 1 .. n /\ i \in 1 .. n
      /\ rendered = [j \in 1 .. n |-> rendered[j]]
  BY DEF FilesOK
<1>2. Output(old) /\ \A j \in 1 .. n : Output(rendered[j])
  BY <1>1 DEF FilesOK
<1>3. new[i] = [old EXCEPT !.content = [old.content EXCEPT !.is = is]]
      /\ \A j \in 1 .. n : j # i => new[j] = rendered[j]
  BY <1>1
<1>4. DOMAIN new = 1 .. n /\ new = [j \in 1 .. n |-> new[j]]
  BY <1>1
<1> HIDE DEF new, old
<1>5. new[i] = [path |-> old.path, content |-> [is |-> is, text |-> old.content.text]]
  BY <1>2, <1>3 DEF Output
<1>6. Output(new[i]) /\ new[i].path = old.path /\ new[i].content.text = old.content.text
      /\ new[i].content.is = is
  BY <1>5 DEF Output
<1>7. \A j \in 1 .. n : Output(new[j])
  BY <1>2, <1>3, <1>6
<1>8. new \in Seq(Range(new)) /\ Len(new) = n
  <2>1. \A j \in 1 .. n : new[j] \in Range(new)
    BY <1>4 DEF Range
  <2> HIDE DEF n
  <2>2. new \in [1 .. n -> Range(new)]
    BY <1>4, <2>1
  <2>3. QED
    BY <1>1, <2>2
<1>9. FilesOK(new)
  BY <1>4, <1>7, <1>8 DEF FilesOK
<1>10. \A j \in DOMAIN rendered : /\ j # i => new[j] = rendered[j]
                                 /\ new[j].path = rendered[j].path
                                 /\ new[j].content.text = rendered[j].content.text
  BY <1>1, <1>3, <1>6 DEF old
<1>11. QED
  BY <1>1, <1>4, <1>6, <1>8, <1>9, <1>10 DEF new

(* No files are a list of files. *)
LEMMA NoFiles == FilesOK(<<>>)
<1>1. <<>> \in Seq(Range(<<>>)) /\ DOMAIN <<>> = {}
  OBVIOUS
<1>2. QED
  BY <1>1 DEF FilesOK

-----------------------------------------------------------------------------
(* Types. *)

(* What a command has in hand at each point of its course. *)
Shape ==
    /\ source \in Crates
    /\ phase # "idle" => cmd \in Commands
    /\ phase \in {"fetch", "pick"} => turn.stage = None
    /\ phase \in {"config", "fill", "render", "manage", "build"} => turn.stage # None
    /\ phase \in {"config", "render", "check"} => next = 1
    /\ turn.stage \in {"probe", "build"} => turn.name \in Range(Order) /\ cmd.kind = "validate"
    /\ phase = "build" => turn.stage = "build"
    /\ FilesOK(files)

TInv == TypeOK /\ Shape

(* Packaging changes nothing of a template but whether its directory is there
   (cargo package). *)
LEMMA SameTemplate ==
    ASSUME source \in Crates
    PROVE  /\ DOMAIN Packaged = DOMAIN source
           /\ \A t \in DOMAIN source :
                 /\ IsTemplate(source[t]) /\ IsTemplate(Packaged[t])
                 /\ Packaged[t].config = source[t].config
                 /\ Packaged[t].ignore = source[t].ignore
                 /\ Packaged[t].placeholders = source[t].placeholders
                 /\ Packaged[t].includes = source[t].includes
                 /\ Packaged[t].files = source[t].files
<1>1. DOMAIN Packaged = DOMAIN source
  BY DEF Packaged
<1>2. ASSUME NEW t \in DOMAIN source
      PROVE  /\ IsTemplate(source[t]) /\ IsTemplate(Packaged[t])
             /\ Packaged[t].config = source[t].config
             /\ Packaged[t].ignore = source[t].ignore
             /\ Packaged[t].placeholders = source[t].placeholders
             /\ Packaged[t].includes = source[t].includes
             /\ Packaged[t].files = source[t].files
  <2> DEFINE old == source[t]
             dir == \A i \in DOMAIN source[t].files :
                       source[t].files[i].path # <<[text |-> "Cargo.toml", var |-> None]>>
             new == Packaged[t]
  <2>1. IsTemplate(old)
    BY TemplateAssumption
  <2>2. new = [old EXCEPT !.dir = dir] /\ dir \in BOOLEAN
    BY DEF Packaged
  <2> HIDE DEF old, dir, new
  <2>3. old \in [dir : BOOLEAN, config : BOOLEAN, ignore : SUBSET STRING,
                 placeholders : Seq(Placeholder), includes : Seq(Range(old.includes)),
                 files : Seq(Range(old.files))]
    BY <2>1 DEF IsTemplate
  <2>4. /\ new.config = old.config /\ new.ignore = old.ignore
        /\ new.placeholders = old.placeholders
        /\ new.includes = old.includes /\ new.files = old.files
    BY <2>2, <2>3
  <2>5. new \in [dir : BOOLEAN, config : BOOLEAN, ignore : SUBSET STRING,
                 placeholders : Seq(Placeholder), includes : Seq(Range(old.includes)),
                 files : Seq(Range(old.files))]
    BY <2>2, <2>3
  <2>6. IsTemplate(new)
    BY <2>1, <2>4, <2>5 DEF IsTemplate
  <2>7. QED
    BY <2>1, <2>4, <2>6 DEF old, new
<1>3. QED
  BY <1>1, <1>2

(* The template of the turn, as the source has it. *)
LEMMA MineOK ==
    ASSUME TInv, turn.stage # None
    PROVE  /\ turn.name \in DOMAIN source /\ IsTemplate(Mine)
           /\ Mine.placeholders = source[turn.name].placeholders
           /\ Mine.placeholders \in Seq(Placeholder) /\ Len(Mine.placeholders) \in Nat
           /\ DOMAIN Mine.placeholders = 1 .. Len(Mine.placeholders)
<1>1. source \in Crates /\ crate \in {source, Packaged} /\ turn.name \in DOMAIN crate
  BY DEF TInv, TypeOK, ValuesOK, Shape
<1>2. turn.name \in DOMAIN source /\ IsTemplate(Mine)
      /\ Mine.placeholders = source[turn.name].placeholders
  BY <1>1, SameTemplate DEF Mine
<1>3. Mine.placeholders \in Seq(Placeholder)
  BY <1>2 DEF IsTemplate
<1>4. Len(Mine.placeholders) \in Nat /\ DOMAIN Mine.placeholders = 1 .. Len(Mine.placeholders)
  BY <1>3, ListLen
<1>5. QED
  BY <1>2, <1>3, <1>4

(* The templates in the order of their names are templates of the crate. *)
LEMMA OrderList ==
    ASSUME source \in Crates
    PROVE  /\ Order \in Seq(DOMAIN source) /\ Len(Order) \in Nat
           /\ DOMAIN Order = 1 .. Len(Order)
           /\ \A i \in DOMAIN Order : Order[i] \in DOMAIN source /\ Order[i] \in Range(Order)
<1>1. Order \in Seq(STRING \cap DOMAIN source)
  <2>1. TemplateNames \in Seq(STRING)
    BY TemplateAssumption
  <2>2. QED
    BY <2>1, KeptList DEF Order
<1>2. QED
  BY <1>1 DEF Range

-----------------------------------------------------------------------------
(* "No text" is no text. *)
LEMMA NoneIs ==
    None \notin {"fetch", "template", "config", "placeholder", "render", "build", "exists", "git",
                "killed", "show", "new", "probe", "validate"}
  BY Zenon DEF None

(* The number of commands is bounded. *)
LEMMA Bounded == MaxCommands \in Nat
  BY TemplateAssumption

(* At first no command runs. *)
LEMMA InitTypes == Init => TInv
<1> SUFFICES ASSUME Init PROVE TInv
  OBVIOUS
<1>1. /\ phase = "idle" /\ why = None /\ source \in Crates /\ crate = source /\ turn = Nowhere
      /\ values = <<>> /\ next = 1 /\ files = <<>> /\ disk = <<>> /\ left = MaxCommands
  BY DEF Init
<1>2. turn.stage = None
  BY <1>1 DEF Nowhere
<1>3. FilesOK(files)
  BY <1>1, NoFiles
<1>4. DOMAIN values = {}
  BY <1>1, NoneHas
<1>5. CourseOK /\ FilesOnTime /\ ValuesOK
  BY <1>1, <1>2, <1>4 DEF CourseOK, Phases, Reasons, FilesOnTime, ValuesOK
<1>6. CountsOK
  BY <1>1, Bounded DEF CountsOK
<1>7. QED
  BY <1>1, <1>2, <1>3, <1>5, <1>6, NoneIs DEF TInv, TypeOK, Shape

(* A command that begins has no template yet. *)
LEMMA BeginsTypes ==
    ASSUME TInv, NEW c \in Commands, Begins(c)
    PROVE  TInv'
<1>1. /\ phase' = "fetch" /\ why' = None /\ cmd' = c /\ turn' = Nowhere /\ values' = <<>>
      /\ next' = 1 /\ files' = <<>> /\ left > 0 /\ left' = left - 1
      /\ UNCHANGED <<source, crate, disk, made, shown>>
  BY DEF Begins
<1>2. turn'.stage = None /\ DOMAIN values' = {}
  BY <1>1, NoneHas DEF Nowhere
<1>3. FilesOK(files')
  BY <1>1, NoFiles
<1>4. Packaged' = Packaged
  BY <1>1 DEF Packaged
<1>5. left \in 0 .. MaxCommands /\ (made \/ disk = <<>>) /\ crate \in {source, Packaged}
  BY DEF TInv, TypeOK, CountsOK, FilesOnTime, ValuesOK
<1>6. CourseOK' /\ FilesOnTime' /\ ValuesOK'
  BY <1>1, <1>2, <1>4, <1>5 DEF CourseOK, Phases, Reasons, FilesOnTime, ValuesOK
<1>7. CountsOK'
  BY <1>1, <1>5, Bounded DEF CountsOK
<1>8. QED
  BY <1>1, <1>2, <1>3, <1>6, <1>7, NoneIs DEF TInv, TypeOK, Shape

(* The crate a command reads is the source or the package (resolve_crate_dir). *)
LEMMA FetchTypes ==
    ASSUME TInv, Fetch
    PROVE  TInv'
<1>1. /\ phase = "fetch" /\ phase' \in {"pick", "failed"} /\ crate' \in {crate, source, Packaged}
      /\ UNCHANGED <<cmd, source, turn, values, next, files, disk, made, shown, valid, left>>
      /\ phase' = "pick" => why' = why
      /\ phase' = "failed" => why' = "fetch"
  BY DEF Fetch, Goes, Fails, world
<1>2. Packaged' = Packaged /\ Order' = Order
  BY <1>1 DEF Packaged, Order
<1>3. turn.stage = None /\ turn'.stage = None
  BY <1>1 DEF TInv, Shape
<1>4. CourseOK' /\ CountsOK' /\ FilesOnTime'
  BY <1>1, <1>3, NoneIs DEF TInv, TypeOK, CourseOK, Phases, Reasons, FilesOnTime, CountsOK
<1>5. ValuesOK'
  <2>1. Values' = Values
    BY DEF Values
  <2>2. QED
    BY <1>1, <1>2, <1>3, <2>1 DEF TInv, TypeOK, ValuesOK
<1>6. QED
  BY <1>1, <1>2, <1>3, <1>4, <1>5 DEF TInv, TypeOK, Shape

(* A step that leaves the crate and the command's work alone. *)
LEMMA PassTypes ==
    ASSUME TInv, UNCHANGED <<work, left>>, phase' \in Phases, why' \in Reasons,
           phase' = "failed" <=> why' # None, made' \/ disk' = <<>>, phase # "idle" \/ phase' = "idle",
           phase' = "fill" => phase = "fill" \/ (turn.stage # None /\ next = 1),
           phase' \in {"manage", "write"} =>
               phase \in {"manage", "write"} \/ next <= Len(files) + 1,
           phase' \in {"config", "fill", "render"} => phase \in {"config", "fill", "render"},
           phase' \in {"check", "write", "git", "record"} => turn.stage = "new",
           phase' \in {"fetch", "pick", "config", "render", "check", "build"} => phase' = phase,
           phase' = "manage" => turn.stage # None
    PROVE  TInv'
<1>1. UNCHANGED <<cmd, source, crate, turn, values, next, files, left>>
  BY DEF work
<1>2. Packaged' = Packaged /\ Order' = Order /\ Mine' = Mine /\ Defined' = Defined /\ Values' = Values
  BY <1>1 DEF Packaged, Order, Mine, Defined, Def, Values
<1>3. phase' = "fill" => next <= Len(Mine.placeholders) + 1
  <2>1. CASE phase' = "fill" /\ phase # "fill"
    <3>1. next = 1 /\ Len(Mine.placeholders) \in Nat
      BY <2>1, MineOK
    <3>2. QED
      BY <3>1
  <2>2. CASE phase = "fill"
    BY <2>2 DEF TInv, TypeOK, CountsOK
  <2>3. QED
    BY <2>1, <2>2
<1>4. CourseOK' /\ FilesOnTime'
  BY <1>1 DEF TInv, TypeOK, CourseOK, FilesOnTime
<1>5. ValuesOK'
  BY <1>1, <1>2 DEF TInv, TypeOK, ValuesOK
<1>6. CountsOK'
  BY <1>1, <1>2, <1>3 DEF TInv, TypeOK, CountsOK
<1>7. Shape'
  BY <1>1, <1>2 DEF TInv, Shape
<1>8. QED
  BY <1>4, <1>5, <1>6, <1>7 DEF TInv, TypeOK

(* Filling begins with the first placeholder (load_config). *)
LEMMA ConfigTypes ==
    ASSUME TInv, Config
    PROVE  TInv'
<1>1. /\ phase = "config" /\ phase' \in {"fill", "failed"} /\ UNCHANGED <<work, left, made, disk>>
      /\ phase' = "fill" => why' = why
      /\ phase' = "failed" => why' = "config"
  BY DEF Config, Goes, Fails, world
<1>2. turn.stage # None /\ next = 1 /\ why = None /\ (made' \/ disk' = <<>>)
  BY <1>1 DEF TInv, Shape, TypeOK, CourseOK, FilesOnTime
<1>3. phase' \in Phases /\ why' \in Reasons /\ (phase' = "failed" <=> why' # None)
  BY <1>1, <1>2, NoneIs DEF Phases, Reasons
<1>4. QED
  BY <1>1, <1>2, <1>3, PassTypes

-----------------------------------------------------------------------------
(* Taking up a template. *)
LEMMA TakesTypes ==
    ASSUME TInv, NEW name \in DOMAIN source, NEW stage \in {"show", "new", "probe", "build"},
           Takes(name, stage), phase' = "config", why' = None, made' \/ disk' = <<>>,
           cmd \in Commands, UNCHANGED <<cmd, source, crate, left>>,
           stage \in {"probe", "build"} => name \in Range(Order) /\ cmd.kind = "validate"
    PROVE  TInv'
<1>1. turn'.name = name /\ turn'.stage = stage /\ values' = <<>> /\ next' = 1 /\ files' = <<>>
  BY DEF Takes
<1>2. Packaged' = Packaged /\ Order' = Order
  BY DEF Packaged, Order
<1>3. DOMAIN values' = {}
  BY <1>1, NoneHas
<1>4. FilesOK(files')
  BY <1>1, NoFiles
<1>5. CourseOK' /\ FilesOnTime'
  BY <1>1, NoneIs DEF CourseOK, Phases, Reasons, FilesOnTime
<1>6. ValuesOK'
  <2>1. crate \in {source, Packaged} /\ name \in DOMAIN crate
    BY SameTemplate DEF TInv, TypeOK, ValuesOK, Shape
  <2>2. QED
    BY <1>1, <1>2, <1>3, <2>1 DEF ValuesOK
<1>7. CountsOK'
  BY <1>1 DEF TInv, TypeOK, CountsOK
<1>8. Shape'
  BY <1>1, <1>2, <1>4, NoneIs DEF TInv, Shape
<1>9. QED
  BY <1>5, <1>6, <1>7, <1>8 DEF TInv, TypeOK

(* A failure, and a command that is done. *)
LEMMA StopTypes ==
    ASSUME TInv, phase # "idle", UNCHANGED <<work, left>>, made' \/ disk' = <<>>,
           \/ phase' = "failed" /\ why' \in Reasons \ {None}
           \/ phase # "failed" /\ phase' = "idle" /\ why' = why
    PROVE  TInv'
<1>1. phase' \in Phases /\ why' \in Reasons /\ (phase' = "failed" <=> why' # None)
  BY DEF TInv, TypeOK, CourseOK, Phases
<1>2. phase' \in {"failed", "idle"}
  OBVIOUS
<1>3. QED
  BY <1>1, <1>2, PassTypes

(* Each way to fail is a reason, and not none. *)
LEMMA Failures ==
    /\ \A r \in {"fetch", "template", "config", "placeholder", "render", "build", "exists", "git",
                 "killed"} : r \in Reasons \ {None}
  BY NoneIs DEF Reasons

(* A running command is one of those there are. *)
LEMMA CommandOK ==
    ASSUME TInv, phase # "idle"
    PROVE  /\ cmd \in Commands /\ cmd.kind \in {"new", "show", "validate"}
           /\ cmd.kind = "validate" => cmd.defines = <<>>
<1>1. cmd \in Commands
  BY DEF TInv, Shape
<1>2. QED
  BY <1>1, TemplateAssumption DEF IsCommand

(* A command takes up a template of the crate (resolve_template). *)
LEMMA PickTypes ==
    ASSUME TInv, Pick
    PROVE  TInv'
<1>1. /\ phase = "pick" /\ UNCHANGED <<cmd, source, crate, disk, made, left>>
  BY DEF Pick, world
<1>2. /\ cmd \in Commands /\ cmd.kind \in {"new", "show", "validate"} /\ why = None
      /\ source \in Crates /\ (made' \/ disk' = <<>>)
      /\ DOMAIN crate = DOMAIN source
  BY <1>1, CommandOK, SameTemplate DEF TInv, TypeOK, CourseOK, FilesOnTime, Shape, ValuesOK
<1>3. CASE \E t \in Selectable : cmd.kind # "validate" /\ Takes(t, cmd.kind) /\ Goes("config")
  <2>1. PICK t \in Selectable : cmd.kind # "validate" /\ Takes(t, cmd.kind) /\ Goes("config")
    BY <1>3
  <2>2. t \in DOMAIN source
    <3>1. Len(Order) = 1 => Order[1] \in DOMAIN source
      BY <1>2, OrderList
    <3>2. QED
      BY <1>2, <2>1, <3>1 DEF Selectable
  <2>3. cmd.kind \in {"show", "new"}
    BY <1>2, <2>1
  <2>4. QED
    BY <1>1, <1>2, <2>1, <2>2, <2>3, TakesTypes DEF Goes
<1>4. CASE cmd.kind = "validate" /\ Order # <<>> /\ Takes(Order[1], "probe") /\ Goes("config")
  <2>1. 1 \in DOMAIN Order
    BY <1>2, <1>4, OrderList
  <2>2. Order[1] \in DOMAIN source /\ Order[1] \in Range(Order)
    BY <1>2, <2>1, OrderList
  <2>3. QED
    BY <1>1, <1>2, <1>4, <2>2, TakesTypes DEF Goes
<1>5. CASE \/ Fails("template") /\ UNCHANGED <<turn, values, next, files>>
           \/ Goes("idle") /\ UNCHANGED <<turn, values, next, files>>
  <2>1. UNCHANGED work
    BY <1>1, <1>5 DEF work
  <2>2. QED
    BY <1>1, <1>2, <1>5, <2>1, StopTypes, Failures DEF Goes, Fails
<1>6. QED
  BY <1>3, <1>4, <1>5 DEF Pick

(* validate goes on in the order of the templates. *)
LEMMA GoesOnTypes ==
    ASSUME TInv, GoesOn, turn.stage \in {"probe", "build"}, phase \in {"manage", "build"},
           UNCHANGED <<cmd, source, crate, left>>, made' \/ disk' = <<>>
    PROVE  TInv'
<1>1. /\ cmd \in Commands /\ source \in Crates /\ why = None
      /\ turn.name \in Range(Order) /\ cmd.kind = "validate"
  BY DEF TInv, Shape, TypeOK, CourseOK
<1>2. CASE Following > Len(Order)
  <2>1. UNCHANGED work /\ phase' = "idle" /\ why' = why
    BY <1>2 DEF GoesOn, Goes, work
  <2>2. QED
    BY <2>1, StopTypes
<1>3. CASE ~(Following > Len(Order))
  <2> DEFINE at == {i \in DOMAIN Order : Order[i] = turn.name}
             f == Following
  <2>1. Order \in Seq(DOMAIN source) /\ Len(Order) \in Nat /\ DOMAIN Order = 1 .. Len(Order)
    BY <1>1, OrderList
  <2>2. at # {} /\ at \in SUBSET (0 .. Len(Order))
    BY <1>1, <2>1 DEF Range
  <2>3. f = 1 + Max(at)
    BY DEF Following
  <2> HIDE DEF at, f
  <2>4. Max(at) \in at
    BY <2>1, <2>2, LargestOf
  <2>5. Max(at) \in DOMAIN Order
    BY <2>4 DEF at
  <2>6. f \in DOMAIN Order
    BY <1>3, <2>1, <2>3, <2>5 DEF f
  <2>7. Order[f] \in DOMAIN source /\ Order[f] \in Range(Order)
    BY <1>1, <2>6, OrderList
  <2>8. Takes(Order[f], "probe") /\ phase' = "config" /\ why' = why
    BY <1>3 DEF GoesOn, Goes, f
  <2>9. QED
    BY <1>1, <2>7, <2>8, TakesTypes
<1>4. QED
  BY <1>2, <1>3

(* A build ends the template's turn (validate_battery_pack_cmd). *)
LEMMA BuildTypes ==
    ASSUME TInv, Build
    PROVE  TInv'
<1>1. /\ phase = "build" /\ UNCHANGED <<cmd, source, crate, left, made, disk>>
  BY DEF Build
<1>2. turn.stage = "build" /\ (made' \/ disk' = <<>>)
  BY <1>1 DEF TInv, TypeOK, FilesOnTime, Shape
<1>3. CASE GoesOn
  BY <1>1, <1>2, <1>3, GoesOnTypes
<1>4. CASE Fails("build") /\ UNCHANGED <<turn, values, next, files>>
  <2>1. UNCHANGED work
    BY <1>1, <1>4 DEF work
  <2>2. QED
    BY <1>1, <1>2, <1>4, <2>1, StopTypes, Failures DEF Fails
<1>5. QED
  BY <1>3, <1>4 DEF Build

(* Rendered files are printed, written, built or left. *)
LEMMA RenderedTypes ==
    ASSUME TInv, Rendered
    PROVE  TInv'
<1>1. phase = "manage" /\ next > Len(files) /\ UNCHANGED <<cmd, source, crate, left, made, disk>>
  BY DEF Rendered
<1>2. /\ made' \/ disk' = <<>>
      /\ why = None /\ cmd \in Commands /\ source \in Crates
      /\ turn.stage # None => turn.name \in DOMAIN source
  BY <1>1, MineOK DEF TInv, TypeOK, CourseOK, FilesOnTime, Shape
<1>3. CASE turn.stage = "show" /\ Goes("idle") /\ UNCHANGED <<turn, values, next, files>>
  <2>1. UNCHANGED work
    BY <1>1, <1>3 DEF work
  <2>2. QED
    BY <1>1, <1>2, <1>3, <2>1, StopTypes DEF Goes
<1>4. CASE turn.stage = "new" /\ Goes("check") /\ next' = 1 /\ UNCHANGED <<turn, values, files>>
  <2>1. phase' = "check" /\ why' = why
    BY <1>4 DEF Goes
  <2>2. Packaged' = Packaged /\ Order' = Order /\ Mine' = Mine /\ Defined' = Defined /\ Values' = Values
    BY <1>1, <1>4 DEF Packaged, Order, Mine, Defined, Def, Values
  <2>3. CourseOK' /\ FilesOnTime'
    BY <1>1, <1>2, <1>4, <2>1 DEF CourseOK, FilesOnTime, Phases, Reasons
  <2>4. ValuesOK'
    BY <1>1, <1>4, <2>2 DEF TInv, TypeOK, ValuesOK
  <2>5. CountsOK'
    BY <1>1, <1>4, <2>1 DEF TInv, TypeOK, CountsOK
  <2>6. Shape'
    BY <1>1, <1>4, <2>1, <2>2 DEF TInv, Shape
  <2>7. QED
    BY <2>3, <2>4, <2>5, <2>6 DEF TInv, TypeOK
<1>5. CASE turn.stage = "probe" /\ IsProject /\ Goes("config") /\ Takes(turn.name, "build")
  <2>1. turn.name \in Range(Order) /\ cmd.kind = "validate" /\ turn.name \in DOMAIN source
    BY <1>2, <1>5, NoneIs DEF TInv, Shape
  <2>2. QED
    BY <1>1, <1>2, <1>5, <2>1, TakesTypes DEF Goes
<1>6. CASE turn.stage = "probe" /\ GoesOn
  BY <1>1, <1>2, <1>6, GoesOnTypes
<1>7. CASE turn.stage = "build" /\ Goes("build") /\ UNCHANGED <<turn, values, next, files>>
  <2>1. phase' = "build" /\ why' = why
    BY <1>7 DEF Goes
  <2>2. Packaged' = Packaged /\ Order' = Order /\ Mine' = Mine /\ Defined' = Defined /\ Values' = Values
    BY <1>1, <1>7 DEF Packaged, Order, Mine, Defined, Def, Values
  <2>3. CourseOK' /\ FilesOnTime'
    BY <1>1, <1>2, <1>7, <2>1 DEF CourseOK, FilesOnTime, Phases, Reasons
  <2>4. ValuesOK'
    BY <1>1, <1>7, <2>2 DEF TInv, TypeOK, ValuesOK
  <2>5. CountsOK'
    BY <1>1, <1>7, <2>1 DEF TInv, TypeOK, CountsOK
  <2>6. Shape'
    BY <1>1, <1>7, <2>1, <2>2, NoneIs DEF TInv, Shape
  <2>7. QED
    BY <2>3, <2>4, <2>5, <2>6 DEF TInv, TypeOK
<1>8. QED
  BY <1>3, <1>4, <1>5, <1>6, <1>7 DEF Rendered

-----------------------------------------------------------------------------
(* Values come from the user, the command or the placeholders. *)

(* A placeholder's default, fallback and options are values. *)
LEMMA PlaceholderValues ==
    ASSUME TInv, turn.stage # None, NEW i \in DOMAIN Mine.placeholders
    PROVE  /\ Mine.placeholders[i] = Def(i) /\ Def(i) \in Placeholder /\ Def(i).name \in Defined
           /\ Def(i).default \in Values /\ Fallback(Def(i)) \in Values /\ Def(i).options \subseteq Values
<1> DEFINE d == Def(i)
           defs == source[turn.name].placeholders
<1>1. Mine.placeholders[i] = d /\ d.name \in Defined
  BY DEF Def, Defined, Mine
<1>2. source \in Crates /\ turn.name \in DOMAIN source /\ Mine.placeholders = defs
      /\ defs \in Seq(Placeholder)
  BY MineOK DEF TInv, Shape
<1>3. d \in Placeholder
  <2>1. i \in 1 .. Len(defs) /\ d = defs[i]
    BY <1>1, <1>2
  <2> HIDE DEF d, defs
  <2>2. QED
    BY <1>2, <2>1
<1>4. d \in Range(defs)
  BY <1>1, <1>2 DEF Range
<1> HIDE DEF d
<1>5. d \in UNION {Range(source[t].placeholders) : t \in DOMAIN source}
  BY <1>2, <1>4
<1>6. d \in AllPlaceholders
  BY <1>2, <1>5 DEF AllPlaceholders
<1>7. d.default \in Values /\ Fallback(d) \in Values /\ d.options \subseteq Values
  <2>1. \A v \in {d.default, Fallback(d)} \cup d.options : v \in OwnValues
    BY <1>6 DEF OwnValues
  <2>2. QED
    BY <2>1 DEF Values
<1>8. QED
  BY <1>1, <1>3, <1>7 DEF d

(* What a command defines are values. *)
LEMMA DefinedValues ==
    ASSUME NEW c \in Commands, NEW n \in DOMAIN c.defines
    PROVE  c.defines[n] \in Values
<1>1. c.defines[n] \in Range(c.defines)
  BY DEF Range
<1>2. c.defines[n] \in UNION {Range(k.defines) : k \in Commands}
  BY <1>1
<1>3. QED
  BY <1>2 DEF Values

(* What a placeholder may take without asking are values (preview defines
   fallbacks, -d the user's). *)
LEMMA GivenValues ==
    ASSUME TInv, turn.stage # None, cmd \in Commands, NEW n \in DOMAIN Given
    PROVE  Given[n] \in Values
<1> DEFINE defs == Mine.placeholders
           names == {defs[i].name : i \in DOMAIN defs}
<1>1. CASE ~Previews
  BY <1>1, DefinedValues DEF Given
<1>2. CASE Previews
  <2>1. Given = [k \in DOMAIN cmd.defines \cup names |->
                    IF k \in DOMAIN cmd.defines THEN cmd.defines[k]
                    ELSE Fallback(defs[CHOOSE i \in DOMAIN defs : defs[i].name = k])]
    BY <1>2 DEF Given, PreviewDefines, Mine
  <2>2. CASE n \in DOMAIN cmd.defines
    BY <2>1, <2>2, DefinedValues
  <2>3. CASE n \notin DOMAIN cmd.defines
    <3> DEFINE i == CHOOSE i \in DOMAIN defs : defs[i].name = n
    <3>1. n \in names /\ Given[n] = Fallback(defs[i])
      BY <2>1, <2>3
    <3>2. \E k \in DOMAIN defs : defs[k].name = n
      BY <3>1
    <3>3. i \in DOMAIN defs
      BY <3>2
    <3> HIDE DEF i
    <3>4. Fallback(Def(i)) \in Values /\ defs[i] = Def(i)
      BY <3>3, PlaceholderValues
    <3>5. QED
      BY <3>1, <3>4
  <2>4. QED
    BY <2>2, <2>3
<1>3. QED
  BY <1>1, <1>2

(* A placeholder nobody is asked for takes a value (resolve_placeholders). *)
LEMMA SilentValues ==
    ASSUME TInv, turn.stage # None, cmd \in Commands, NEW i \in DOMAIN Mine.placeholders,
           Silent(Def(i), Given).kind # "error"
    PROVE  Silent(Def(i), Given).value \in Values
<1> DEFINE d == Def(i)
           g == Given
<1>1. d.default \in Values /\ d.options \subseteq Values /\ \A n \in DOMAIN g : g[n] \in Values
  BY PlaceholderValues, GivenValues
<1>2. "false" \in Values
  BY DEF Values
<1>3. \A v : Value(v).value = v /\ Value(v).kind = "value" /\ Error(v).kind = "error"
  BY DEF Value, Error
<1> HIDE DEF d, g
<1>4. Silent(d, g).kind # "error" => Silent(d, g).value \in Values
  <2>1. CASE d.kebab
    BY <1>3, <2>1 DEF Silent
  <2>2. CASE ~d.kebab /\ d.name \in DOMAIN g
    <3>1. Silent(d, g) = Value(g[d.name])
      BY <2>2 DEF Silent
    <3>2. QED
      BY <1>1, <1>3, <2>2, <3>1
  <2>3. CASE ~d.kebab /\ d.name \notin DOMAIN g /\ d.type = "bool"
    <3>1. Silent(d, g) = Value(IF d.default = None THEN "false" ELSE d.default)
      BY <2>3 DEF Silent
    <3>2. QED
      BY <1>1, <1>2, <1>3, <3>1
  <2>4. CASE ~d.kebab /\ d.name \notin DOMAIN g /\ d.type = "string"
    <3>1. Silent(d, g) = IF d.default = None THEN Error("default") ELSE Value(d.default)
      BY <2>4 DEF Silent
    <3>2. QED
      BY <1>1, <1>3, <3>1
  <2>5. CASE ~d.kebab /\ d.name \notin DOMAIN g /\ d.type \notin {"bool", "string"}
    <3>1. Silent(d, g) = IF d.default \in d.options THEN Value(d.default) ELSE Error("options")
      BY <2>5 DEF Silent
    <3>2. QED
      BY <1>1, <1>3, <3>1
  <2>6. QED
    BY <2>1, <2>2, <2>3, <2>4, <2>5
<1>5. QED
  BY <1>4 DEF d, g

(* A prompt returns a value. *)
LEMMA AnswerValues ==
    ASSUME TInv, turn.stage # None, NEW i \in DOMAIN Mine.placeholders
    PROVE  Answers(Def(i)) \subseteq Values
<1>1. Def(i).options \subseteq Values
  BY PlaceholderValues
<1>2. "true" \in Values /\ "false" \in Values /\ Typed \subseteq Values
  BY DEF Values
<1>3. QED
  BY <1>1, <1>2 DEF Answers

(* One more value. *)
LEMMA FilledIn ==
    ASSUME TInv, phase = "fill", next <= Len(Mine.placeholders), phase' = "fill", why' = why,
           next' = next + 1, NEW v \in Values, values' = Put(values, Def(next).name, v),
           UNCHANGED <<cmd, source, crate, turn, files, disk, made, left>>
    PROVE  TInv'
<1>1. turn.stage # None /\ next \in Nat \ {0} /\ files = <<>>
  BY DEF TInv, TypeOK, CountsOK, FilesOnTime, Shape
<1> DEFINE n == Len(Mine.placeholders)
           name == Def(next).name
<1>2. n \in Nat /\ DOMAIN Mine.placeholders = 1 .. n
  BY <1>1, MineOK
<1>3. next \in 1 .. n /\ next' \in Nat \ {0} /\ next' <= n + 1
  <2> HIDE DEF n
  <2>1. next <= n
    BY DEF n
  <2>2. QED
    BY <1>1, <1>2, <2>1
<1>4. name \in Defined
  BY <1>1, <1>2, <1>3, PlaceholderValues
<1>5. Packaged' = Packaged /\ Order' = Order /\ Mine' = Mine /\ Defined' = Defined /\ Values' = Values
  BY DEF Packaged, Order, Mine, Defined, Def, Values
<1> HIDE DEF name
<1>6. /\ DOMAIN values' = DOMAIN values \cup {name}
      /\ \A k \in DOMAIN values' : values'[k] = IF k = name THEN v ELSE values[k]
  BY DEF Put, name
<1>7. CourseOK' /\ FilesOnTime'
  BY DEF TInv, TypeOK, CourseOK, FilesOnTime
<1>8. ValuesOK'
  BY <1>1, <1>4, <1>5, <1>6 DEF TInv, TypeOK, ValuesOK
<1>9. CountsOK'
  BY <1>1, <1>3, <1>5 DEF TInv, TypeOK, CountsOK, n
<1>10. Shape'
  BY <1>5 DEF TInv, Shape
<1>11. QED
  BY <1>7, <1>8, <1>9, <1>10 DEF TInv, TypeOK

(* An answered prompt is one more value (resolve_placeholders). *)
LEMMA AnswerTypes ==
    ASSUME TInv, Answer
    PROVE  TInv'
<1>1. /\ phase = "fill" /\ next <= Len(Mine.placeholders) /\ phase' = "fill" /\ why' = why
      /\ next' = next + 1 /\ UNCHANGED <<cmd, source, crate, turn, files, disk, made, left>>
      /\ turn.stage # None
  BY DEF Answer, Goes, world, TInv, Shape
<1>2. PICK v \in Answers(Def(next)) : values' = Put(values, Def(next).name, v)
  BY DEF Answer
<1>3. next \in DOMAIN Mine.placeholders
  <2>1. Len(Mine.placeholders) \in Nat /\ DOMAIN Mine.placeholders = 1 .. Len(Mine.placeholders)
    BY <1>1, MineOK
  <2>2. next \in Nat \ {0}
    BY DEF TInv, TypeOK, CountsOK
  <2>3. QED
    BY <1>1, <2>1, <2>2
<1>4. v \in Values
  BY <1>1, <1>3, AnswerValues
<1>5. QED
  BY <1>1, <1>2, <1>4, FilledIn

(* A placeholder nobody is asked for is one more value, or the end. *)
LEMMA FillTypes ==
    ASSUME TInv, Fill
    PROVE  TInv'
<1> DEFINE result == Silent(Def(next), Given)
<1>1. /\ phase = "fill" /\ next <= Len(Mine.placeholders)
      /\ UNCHANGED <<cmd, source, crate, turn, files, disk, made, left>>
      /\ turn.stage # None /\ cmd \in Commands /\ (made' \/ disk' = <<>>)
  BY DEF Fill, world, TInv, TypeOK, FilesOnTime, Shape
<1>2. next \in DOMAIN Mine.placeholders
  <2>1. Len(Mine.placeholders) \in Nat /\ DOMAIN Mine.placeholders = 1 .. Len(Mine.placeholders)
    BY <1>1, MineOK
  <2>2. next \in Nat \ {0}
    BY DEF TInv, TypeOK, CountsOK
  <2>3. QED
    BY <1>1, <2>1, <2>2
<1>3. CASE result.kind = "error"
  <2>1. Fails("placeholder") /\ UNCHANGED <<values, next>>
    BY <1>3 DEF Fill
  <2>2. UNCHANGED <<work, left>>
    BY <1>1, <2>1 DEF work
  <2>3. QED
    BY <1>1, <2>1, <2>2, StopTypes, Failures DEF Fails
<1>4. CASE result.kind # "error"
  <2>1. /\ phase' = "fill" /\ why' = why /\ next' = next + 1
        /\ values' = Put(values, Def(next).name, result.value)
    BY <1>4 DEF Fill, Goes
  <2>2. result.value \in Values
    BY <1>1, <1>2, <1>4, SilentValues
  <2> HIDE DEF result
  <2>3. QED
    BY <1>1, <2>1, <2>2, FilledIn
<1>5. QED
  BY <1>3, <1>4

-----------------------------------------------------------------------------
(* Rendering starts when the last placeholder has its value. *)
LEMMA FilledTypes ==
    ASSUME TInv, Filled
    PROVE  TInv'
<1>1. /\ phase = "fill" /\ phase' = "render" /\ why' = why /\ next' = 1 /\ files = <<>> /\ files' = <<>>
      /\ UNCHANGED <<cmd, source, crate, turn, values, disk, made, left>> /\ turn.stage # None
  BY DEF Filled, Goes, world, TInv, TypeOK, FilesOnTime, Shape
<1>2. Packaged' = Packaged /\ Order' = Order /\ Mine' = Mine /\ Defined' = Defined /\ Values' = Values
  BY <1>1 DEF Packaged, Order, Mine, Defined, Def, Values
<1>3. CourseOK' /\ FilesOnTime'
  BY <1>1 DEF TInv, TypeOK, CourseOK, FilesOnTime, Phases
<1>4. ValuesOK'
  BY <1>1, <1>2 DEF TInv, TypeOK, ValuesOK
<1>5. CountsOK'
  BY <1>1, Bounded DEF TInv, TypeOK, CountsOK
<1>6. Shape'
  BY <1>1, <1>2 DEF TInv, Shape
<1>7. QED
  BY <1>3, <1>4, <1>5, <1>6 DEF TInv, TypeOK

(* Files are rendered all or none (render). *)
LEMMA RenderTypes ==
    ASSUME TInv, Render
    PROVE  TInv'
<1>1. /\ phase = "render" /\ next = 1
      /\ UNCHANGED <<cmd, source, crate, turn, values, next, disk, made, left>> /\ turn.stage # None
  BY DEF Render, world, TInv, TypeOK, Shape
<1>2. CASE Unrenderable(Mine)
  <2>1. UNCHANGED <<work, left>> /\ Fails("render") /\ (made' \/ disk' = <<>>)
    BY <1>1, <1>2 DEF Render, work, TInv, TypeOK, FilesOnTime
  <2>2. QED
    BY <1>1, <2>1, StopTypes, Failures DEF Fails
<1>3. CASE ~Unrenderable(Mine)
  <2>1. phase' = "manage" /\ why' = why /\ files' = RenderAll(Mine, values)
    BY <1>3 DEF Render, RenderAll, Goes
  <2>2. FilesOK(files')
    BY <1>1, <2>1, MineOK, RenderedList
  <2>3. Len(files') \in Nat
    BY <2>2, ListLen DEF FilesOK
  <2>4. Packaged' = Packaged /\ Order' = Order /\ Mine' = Mine /\ Defined' = Defined /\ Values' = Values
    BY <1>1 DEF Packaged, Order, Mine, Defined, Def, Values
  <2>5. CourseOK' /\ FilesOnTime'
    BY <1>1, <2>1 DEF TInv, TypeOK, CourseOK, FilesOnTime, Phases
  <2>6. ValuesOK'
    BY <1>1, <2>4 DEF TInv, TypeOK, ValuesOK
  <2>7. CountsOK'
    <3>1. next' <= Len(files') + 1
      BY <1>1, <2>3
    <3>2. left' \in 0 .. MaxCommands /\ next' \in Nat \ {0}
      BY <1>1 DEF TInv, TypeOK, CountsOK
    <3>3. QED
      BY <2>1, <3>1, <3>2 DEF CountsOK
  <2>8. Shape'
    BY <1>1, <2>1, <2>2, <2>4 DEF TInv, Shape
  <2>9. QED
    BY <2>5, <2>6, <2>7, <2>8 DEF TInv, TypeOK
<1>4. QED
  BY <1>2, <1>3

(* The files after one of them is managed. *)
LEMMA ManagedFiles ==
    ASSUME TInv, Manage
    PROVE  /\ next \in DOMAIN files /\ DOMAIN files' = DOMAIN files
           /\ Len(files') = Len(files) /\ FilesOK(files')
           /\ \A j \in DOMAIN files : /\ j # next => files'[j] = files[j]
                                      /\ files'[j].path = files[j].path
                                      /\ files'[j].content.text = files[j].content.text
           /\ \/ files' = files
              \/ Rewritten(files'[next].content.is, files[next].content.is, StateFor(files, files[next].path))
<1>1. FilesOK(files) /\ next \in Nat \ {0} /\ next <= Len(files)
  BY DEF TInv, TypeOK, CountsOK, Shape, Manage
<1>2. Len(files) \in Nat /\ DOMAIN files = 1 .. Len(files)
  BY <1>1, ListLen DEF FilesOK
<1>3. next \in DOMAIN files
  BY <1>1, <1>2
<1>4. PICK registry \in {Registry, <<>>} : files' = ManageFile(files, next, registry)
  BY DEF Manage
<1>5. CASE ManageFile(files, next, registry) = files
  BY <1>1, <1>3, <1>4, <1>5
<1>6. CASE \E is : /\ Rewritten(is, files[next].content.is, StateFor(files, files[next].path))
                   /\ ManageFile(files, next, registry) = [files EXCEPT ![next].content.is = is]
  <2>1. PICK is : /\ Rewritten(is, files[next].content.is, StateFor(files, files[next].path))
                  /\ files' = [files EXCEPT ![next].content.is = is]
    BY <1>4, <1>6
  <2>2. IsContent(is)
    BY <2>1 DEF Rewritten, IsContent
  <2> DEFINE new == [files EXCEPT ![next].content.is = is]
  <2>3. /\ FilesOK(new) /\ Len(new) = Len(files) /\ DOMAIN new = DOMAIN files
        /\ \A j \in DOMAIN files : /\ j # next => new[j] = files[j]
                                   /\ new[j].path = files[j].path
                                   /\ new[j].content.text = files[j].content.text
        /\ new[next].content.is = is
    BY <1>1, <1>3, <2>2, FilesManaged
  <2> HIDE DEF new
  <2>4. files' = new
    BY <2>1 DEF new
  <2>5. QED
    BY <1>3, <2>1, <2>3, <2>4
<1>7. QED
  BY <1>1, <1>3, <1>4, <1>5, <1>6, FileManaged

(* One file after the other is managed (render). *)
LEMMA ManageTypes ==
    ASSUME TInv, Manage
    PROVE  TInv'
<1>1. /\ phase = "manage" /\ phase' = "manage" /\ why' = why /\ next <= Len(files) /\ next' = next + 1
      /\ UNCHANGED <<cmd, source, crate, turn, values, disk, made, left>> /\ turn.stage # None
  BY DEF Manage, Goes, world, TInv, Shape
<1>2. FilesOK(files') /\ Len(files') = Len(files)
  BY ManagedFiles
<1>3. Packaged' = Packaged /\ Order' = Order /\ Mine' = Mine /\ Defined' = Defined /\ Values' = Values
  BY <1>1 DEF Packaged, Order, Mine, Defined, Def, Values
<1>4. CourseOK' /\ FilesOnTime'
  BY <1>1 DEF TInv, TypeOK, CourseOK, FilesOnTime
<1>5. ValuesOK'
  BY <1>1, <1>3 DEF TInv, TypeOK, ValuesOK
<1>6. CountsOK'
  <2>1. Len(files) \in Nat
    BY ListLen DEF TInv, Shape, FilesOK
  <2>2. next \in Nat \ {0} /\ left' \in 0 .. MaxCommands
    BY <1>1 DEF TInv, TypeOK, CountsOK
  <2>3. next' \in Nat \ {0} /\ next' <= Len(files') + 1
    BY <1>1, <1>2, <2>1, <2>2
  <2>4. QED
    BY <1>1, <2>2, <2>3 DEF CountsOK
<1>7. Shape'
  BY <1>1, <1>2, <1>3 DEF TInv, Shape
<1>8. QED
  BY <1>4, <1>5, <1>6, <1>7 DEF TInv, TypeOK

(* Writing begins with the first file (generate). *)
LEMMA CheckTypes ==
    ASSUME TInv, Check
    PROVE  TInv'
<1>1. phase = "check" /\ UNCHANGED <<work, left>> /\ (made' \/ disk' = <<>>)
  BY DEF Check, world, TInv, TypeOK, FilesOnTime
<1>2. CASE made
  BY <1>1, <1>2, StopTypes, Failures DEF Check, Fails
<1>3. CASE ~made
  <2>1. phase' = "write" /\ why' = why
    BY <1>3 DEF Check, Goes
  <2>2. turn.stage = "new" /\ why \in Reasons /\ (phase = "failed" <=> why # None) /\ next = 1
    BY <1>1 DEF TInv, TypeOK, CourseOK, Shape
  <2>3. next <= Len(files) + 1
    <3>1. Len(files) \in Nat
      BY ListLen DEF TInv, Shape, FilesOK
    <3>2. QED
      BY <2>2, <3>1
  <2>4. QED
    BY <1>1, <2>1, <2>2, <2>3, PassTypes DEF Phases
<1>4. QED
  BY <1>2, <1>3

(* One file after the other is written (generate). *)
LEMMA WriteTypes ==
    ASSUME TInv, Write
    PROVE  TInv'
<1>1. /\ phase = "write" /\ phase' = "write" /\ why' = why /\ next <= Len(files) /\ next' = next + 1
      /\ UNCHANGED <<cmd, source, crate, turn, values, files, left>> /\ made' = TRUE
  BY DEF Write, Goes
<1>2. Packaged' = Packaged /\ Order' = Order /\ Mine' = Mine /\ Defined' = Defined /\ Values' = Values
  BY <1>1 DEF Packaged, Order, Mine, Defined, Def, Values
<1>3. CourseOK' /\ FilesOnTime'
  BY <1>1 DEF TInv, TypeOK, CourseOK, FilesOnTime
<1>4. ValuesOK'
  BY <1>1, <1>2 DEF TInv, TypeOK, ValuesOK
<1>5. CountsOK'
  <2>1. Len(files) \in Nat
    BY ListLen DEF TInv, Shape, FilesOK
  <2>2. next \in Nat \ {0} /\ left' \in 0 .. MaxCommands
    BY <1>1 DEF TInv, TypeOK, CountsOK
  <2>3. next' \in Nat \ {0} /\ next' <= Len(files') + 1
    BY <1>1, <2>1, <2>2
  <2>4. QED
    BY <1>1, <2>2, <2>3 DEF CountsOK
<1>6. Shape'
  BY <1>1, <1>2 DEF TInv, Shape
<1>7. QED
  BY <1>3, <1>4, <1>5, <1>6 DEF TInv, TypeOK

(* The rest of `new`. *)
LEMMA EndTypes ==
    ASSUME TInv, Written \/ GitInit \/ Record \/ Dies
    PROVE  TInv'
<1>1. UNCHANGED <<work, left>>
  BY DEF Written, GitInit, Record, Dies, world
<1>2. /\ why \in Reasons /\ (phase = "failed" <=> why # None) /\ (made \/ disk = <<>>)
      /\ phase \in {"write", "git", "record"} => turn.stage = "new"
  BY DEF TInv, TypeOK, CourseOK, FilesOnTime
<1>3. CASE Written
  <2>1. phase = "write" /\ phase' = "git" /\ why' = why /\ made' = made /\ disk' = disk
    BY <1>3 DEF Written, Goes, world
  <2>2. QED
    BY <1>1, <1>2, <2>1, PassTypes DEF Phases
<1>4. CASE GitInit
  <2>1. phase = "git" /\ made' = made /\ disk' = disk
    BY <1>4 DEF GitInit, world
  <2>2. CASE Goes("record")
    BY <1>1, <1>2, <2>1, <2>2, PassTypes DEF Phases, Goes
  <2>3. CASE Fails("git")
    BY <1>1, <1>2, <2>1, <2>3, StopTypes, Failures DEF Fails
  <2>4. QED
    BY <1>4, <2>2, <2>3 DEF GitInit
<1>5. CASE Record
  <2>1. phase = "record" /\ phase' = "idle" /\ why' = why /\ made' = made
    BY <1>5 DEF Record, Goes
  <2>2. CASE made
    BY <1>1, <2>1, <2>2, StopTypes
  <2>3. CASE ~made
    <3>1. DOMAIN disk = {}
      BY <1>2, <2>3, NoneHas
    <3>2. disk' = disk
      BY <1>5, <3>1 DEF Record
    <3>3. QED
      BY <1>1, <1>2, <2>1, <2>3, <3>2, StopTypes
  <2>4. QED
    BY <2>2, <2>3
<1>6. CASE Dies
  <2>1. ~Resting /\ phase' = "failed" /\ why' = "killed" /\ made' = made /\ disk' = disk
    BY <1>6 DEF Dies, Fails, world
  <2>2. QED
    BY <1>1, <1>2, <2>1, StopTypes, Failures DEF Resting
<1>7. QED
  BY <1>3, <1>4, <1>5, <1>6

(* The user leaves the commands alone. *)
LEMMA UserTypes ==
    ASSUME TInv, UserMakes \/ UserRemoves \/ UNCHANGED vars
    PROVE  TInv'
<1>1. UNCHANGED <<phase, why, work, left>> /\ (made' \/ disk' = <<>>)
  BY DEF UserMakes, UserRemoves, vars, world, TInv, TypeOK, FilesOnTime
<1>2. Packaged' = Packaged /\ Order' = Order /\ Mine' = Mine /\ Defined' = Defined /\ Values' = Values
  BY <1>1 DEF Packaged, Order, Mine, Defined, Def, Values, work
<1>3. CourseOK' /\ FilesOnTime'
  BY <1>1 DEF TInv, TypeOK, CourseOK, FilesOnTime, work
<1>4. ValuesOK'
  BY <1>1, <1>2 DEF TInv, TypeOK, ValuesOK, work
<1>5. CountsOK'
  BY <1>1, <1>2 DEF TInv, TypeOK, CountsOK, work
<1>6. Shape'
  BY <1>1, <1>2 DEF TInv, Shape, work
<1>7. QED
  BY <1>3, <1>4, <1>5, <1>6 DEF TInv, TypeOK

(* Every step keeps the types. *)
LEMMA NextTypes ==
    ASSUME TInv, [Next]_vars
    PROVE  TInv'
<1>1. CASE Works
  BY <1>1, FetchTypes, PickTypes, ConfigTypes, FillTypes, FilledTypes, RenderTypes, ManageTypes,
     RenderedTypes, BuildTypes, CheckTypes, WriteTypes, EndTypes DEF Works
<1>2. CASE ~Works
  <2>1. CASE \E c \in Commands : Begins(c)
    BY <2>1, BeginsTypes
  <2>2. CASE Answer \/ Dies \/ UserMakes \/ UserRemoves \/ UNCHANGED vars
    BY <2>2, AnswerTypes, EndTypes, UserTypes
  <2>3. QED
    BY <1>2, <2>1, <2>2 DEF Next
<1>3. QED
  BY <1>1, <1>2

(* The state keeps its shape: a reason for every failure and for nothing else,
   values for declared placeholders only, files only once rendered, for every
   pack, registry and list of commands (template_engine.rs, validate.rs). *)
THEOREM TypeInvariance == Spec => []TypeOK
<1>1. TInv /\ [Next]_vars => TInv'
  BY NextTypes
<1>2. TInv => TypeOK
  BY DEF TInv
<1>3. QED
  BY InitTypes, <1>1, <1>2, PTL DEF Spec

-----------------------------------------------------------------------------
(* The steps of a command that do not touch the project. *)
LEMMA DiskAlone ==
    ASSUME [Next]_vars, ~Write, ~Record, ~UserMakes, ~UserRemoves
    PROVE  UNCHANGED <<disk, made>>
<1>1. CASE UNCHANGED vars \/ \E c \in Commands : Begins(c)
  BY <1>1 DEF vars, world, Begins
<1>2. CASE Fetch \/ Pick \/ Config \/ Fill \/ Filled \/ Render \/ Manage \/ Rendered \/ Build \/ Answer
  BY <1>2 DEF Fetch, Pick, Config, Fill, Filled, Render, Manage, Rendered, Build, Answer, world
<1>3. CASE Check \/ Written \/ GitInit \/ Dies
  BY <1>3 DEF Check, Written, GitInit, Dies, world
<1>4. QED
  BY <1>1, <1>2, <1>3 DEF Next, Works

(* Where a project is written from. *)
LEMMA WritingSteps ==
    ASSUME [Next]_vars
    PROVE  /\ phase' = "write" =>
                Write \/ (Check /\ ~made) \/ (phase = "write" /\ UNCHANGED vars)
           /\ phase' = "git" => Written \/ (phase = "git" /\ UNCHANGED vars)
           /\ phase' = "record" => GitInit \/ (phase = "record" /\ UNCHANGED vars)
<1>1. CASE UNCHANGED vars
  BY <1>1 DEF vars
<1>2. CASE Fetch \/ Pick \/ Config \/ Fill \/ Filled \/ Render \/ Manage \/ Rendered \/ Build \/ Answer
  BY <1>2 DEF Fetch, Pick, Config, Fill, Filled, Render, Manage, Rendered, Build, Answer, Goes, Fails, GoesOn
<1>3. CASE Write \/ Check \/ Written \/ GitInit \/ Record \/ Dies
  BY <1>3 DEF Write, Check, Written, GitInit, Record, Dies, Goes, Fails
<1>4. CASE UserMakes \/ UserRemoves
  BY <1>4 DEF UserMakes, UserRemoves, Resting
<1>5. CASE \E c \in Commands : Begins(c)
  BY <1>5 DEF Begins
<1>6. QED
  BY <1>1, <1>2, <1>3, <1>4, <1>5 DEF Next, Works

-----------------------------------------------------------------------------
(* What a project is written over. *)

(* While a project is written, all there is comes from the files written so
   far: the directory was not there when the first one was. *)
OwnFiles ==
    phase = "write" => \A p \in DOMAIN disk : \E i \in 1..(next - 1) : files[i].path = p

Spared ==
    phase = "write" =>
        \A p \in DOMAIN disk :
           disk'[p] # disk[p] => \E i \in 1..(next - 1) : files[i].path = p

(* The next file may replace one the command has written, and no other. *)
LEMMA WriteSpares ==
    ASSUME TInv, OwnFiles, Write
    PROVE  OwnFiles' /\ Spared
<1>1. /\ phase = "write" /\ disk' = Put(disk, files[next].path, files[next].content)
      /\ next' = next + 1 /\ files' = files /\ next \in Nat \ {0}
  BY DEF Write, TInv, TypeOK, CountsOK
<1>2. \A p \in DOMAIN disk : \E i \in 1..(next - 1) : files[i].path = p
  BY <1>1 DEF OwnFiles
<1>3. DOMAIN disk' = DOMAIN disk \cup {files[next].path}
  BY <1>1 DEF Put
<1>4. \A p \in DOMAIN disk' : \E i \in 1..(next' - 1) : files'[i].path = p
  BY <1>1, <1>2, <1>3
<1>5. QED
  BY <1>2, <1>4 DEF OwnFiles, Spared

(* Nobody else touches a project that is written. *)
LEMMA OwnStays ==
    ASSUME TInv, OwnFiles, [Next]_vars
    PROVE  OwnFiles' /\ Spared
<1>1. CASE Write
  BY <1>1, WriteSpares
<1>2. CASE ~Write
  <2>1. OwnFiles'
    <3>1. CASE Check /\ ~made
      <4>1. disk' = <<>>
        BY <3>1 DEF Check, world, TInv, TypeOK, FilesOnTime
      <4>2. QED
        BY <4>1, NoneHas DEF OwnFiles
    <3>2. CASE phase = "write" /\ UNCHANGED vars
      BY <3>2 DEF vars, work, world, OwnFiles
    <3>3. CASE phase' # "write"
      BY <3>3 DEF OwnFiles
    <3>4. QED
      BY <1>2, <3>1, <3>2, <3>3, WritingSteps
  <2>2. CASE Record \/ UserMakes \/ UserRemoves
    BY <2>1, <2>2 DEF Record, UserMakes, UserRemoves, Resting, Spared
  <2>3. CASE disk' = disk
    BY <2>1, <2>3 DEF Spared
  <2>4. QED
    BY <1>2, <2>2, <2>3, DiskAlone
<1>3. QED
  BY <1>1, <1>2

(* new writes over nothing but its own files, whoever makes the directory
   while it waits for answers (generate, generate_from_path). *)
THEOREM ExistingSpared == Spec => SparesExisting
<1>1. Init => OwnFiles
  BY DEF Init, OwnFiles
<1>2. TInv /\ OwnFiles /\ [Next]_vars => TInv' /\ OwnFiles' /\ [Spared]_vars
  BY NextTypes, OwnStays
<1>3. QED
  BY InitTypes, <1>1, <1>2, PTL DEF Spec, SparesExisting, Spared

-----------------------------------------------------------------------------
(* Managed manifests. *)

Resolved ==
    phase = "manage" /\ phase' = "manage" =>
        \A i \in DOMAIN files :
            LET old == files[i].content.is
                new == files'[i].content.is
            IN old # new =>
                  /\ Marked(new) = {} /\ Places(new) = Places(old) /\ new.packs = old.packs
                  /\ \A at \in Places(old) :
                        IF at \in Marked(old)
                        THEN /\ Dep(new, at).ver \in
                                   VersionsOf(Dep(old, at).crate, old, StateFor(files, files[i].path))
                             /\ Dep(old, at).explicit => Dep(new, at).feats = Dep(old, at).feats
                             /\ Dep(new, at).crate = Dep(old, at).crate
                             /\ Dep(new, at).extra = Dep(old, at).extra
                        ELSE Dep(new, at) = Dep(old, at)

(* A manifest that changes is rewritten as a whole. *)
LEMMA ResolvedByManage ==
    ASSUME TInv, Manage
    PROVE  Resolved
<1> SUFFICES ASSUME NEW i \in DOMAIN files, files[i].content.is # files'[i].content.is
             PROVE  Rewritten(files'[i].content.is, files[i].content.is, StateFor(files, files[i].path))
  BY DEF Resolved, Rewritten
<1>1. i = next /\ files' # files
  BY ManagedFiles
<1>2. QED
  BY <1>1, ManagedFiles

(* Nothing else touches the files while manifests are resolved. *)
LEMMA ManageOnly ==
    ASSUME [Next]_vars, phase = "manage", phase' = "manage", ~Manage
    PROVE  UNCHANGED vars
<1>1. CASE Fetch \/ Pick \/ Config \/ Fill \/ Filled \/ Render \/ Build \/ Answer
  BY <1>1 DEF Fetch, Pick, Config, Fill, Filled, Render, Build, Answer
<1>2. CASE Rendered
  BY <1>2 DEF Rendered, GoesOn, Goes
<1>3. CASE Write \/ Check \/ Written \/ GitInit \/ Record \/ Dies
  BY <1>3 DEF Write, Check, Written, GitInit, Record, Dies, Fails
<1>4. CASE UserMakes \/ UserRemoves \/ \E c \in Commands : Begins(c)
  BY <1>4 DEF UserMakes, UserRemoves, Resting, Begins
<1>5. QED
  BY <1>1, <1>2, <1>3, <1>4 DEF Next, Works

(* A manifest is resolved whole or not at all, from packs in use or of the
   workspace, with the registry up or down (resolve_bp_managed_content). *)
THEOREM ManifestsWhole == Spec => ManagedWhole
<1>1. TInv /\ [Next]_vars => TInv' /\ [Resolved]_vars
  <2>1. CASE ~(TInv /\ [Next]_vars)
    BY <2>1
  <2>2. CASE TInv /\ [Next]_vars
    <3>1. CASE phase = "manage" /\ phase' = "manage"
      BY <2>2, <3>1, NextTypes, ResolvedByManage, ManageOnly
    <3>2. CASE ~(phase = "manage" /\ phase' = "manage")
      BY <2>2, <3>2, NextTypes DEF Resolved
    <3>3. QED
      BY <3>1, <3>2
  <2>3. QED
    BY <2>1, <2>2
<1>2. QED
  BY InitTypes, <1>1, PTL DEF Spec, ManagedWhole, Resolved

-----------------------------------------------------------------------------
(* Templates that are recorded. *)

(* What is written so far is there. *)
WrittenSoFar ==
    /\ phase = "write" => \A i \in 1 .. next - 1 : files[i].path \in DOMAIN disk
    /\ phase \in {"git", "record"} => \A i \in DOMAIN files : files[i].path \in DOMAIN disk

(* One more file is there once it is written. *)
LEMMA WriteMore ==
    ASSUME TInv, WrittenSoFar, Write
    PROVE  WrittenSoFar'
<1>1. /\ phase = "write" /\ phase' = "write" /\ disk' = Put(disk, files[next].path, files[next].content)
      /\ files' = files /\ next' = next + 1
  BY DEF Write, Goes
<1>2. DOMAIN disk' = DOMAIN disk \cup {files[next].path}
  BY <1>1 DEF Put
<1>3. \A i \in 1 .. next' - 1 : i = next \/ i \in 1 .. next - 1
  <2>1. next \in Nat \ {0}
    BY DEF TInv, TypeOK, CountsOK
  <2>2. QED
    BY <1>1, <2>1
<1>4. QED
  BY <1>1, <1>2, <1>3 DEF WrittenSoFar

(* What is written stays there until the template is recorded: nobody removes
   the project while it is written. *)
LEMMA WrittenStays ==
    ASSUME TInv, WrittenSoFar, [Next]_vars
    PROVE  WrittenSoFar'
<1>1. CASE Write
  BY <1>1, WriteMore
<1>2. CASE Check /\ ~made
  <2>1. phase' = "write" /\ next' = 1
    BY <1>2 DEF Check, Goes, work, TInv, Shape
  <2>2. QED
    BY <2>1 DEF WrittenSoFar
<1>3. CASE Written
  <2>1. phase = "write" /\ phase' = "git" /\ next > Len(files) /\ UNCHANGED <<files, disk>>
    BY <1>3 DEF Written, Goes, work, world
  <2>2. \A i \in DOMAIN files : i \in 1 .. next - 1
    <3>1. Len(files) \in Nat /\ DOMAIN files = 1 .. Len(files) /\ next \in Nat
      BY ListLen DEF TInv, TypeOK, CountsOK, Shape, FilesOK
    <3>2. QED
      BY <2>1, <3>1
  <2>3. QED
    BY <2>1, <2>2 DEF WrittenSoFar
<1>4. CASE GitInit
  BY <1>4 DEF GitInit, Goes, Fails, work, world, WrittenSoFar
<1>5. CASE UNCHANGED vars
  BY <1>5 DEF vars, work, world, WrittenSoFar
<1>6. CASE phase' \notin {"write", "git", "record"}
  BY <1>6 DEF WrittenSoFar
<1>7. QED
  BY <1>1, <1>2, <1>3, <1>4, <1>5, <1>6, WritingSteps

WholeRecord ==
    \/ Applied(disk') \subseteq Applied(disk) \cup Claimed
    \/ /\ turn.stage = "new" /\ phase = "record"
       /\ \A i \in DOMAIN files : files[i].path \in DOMAIN disk

(* A step that records a template finds all its files; any other brings what
   the user's or the template's own state file says. *)
LEMMA RecordedStep ==
    ASSUME TInv, WrittenSoFar, [Next]_vars
    PROVE  WholeRecord
<1>1. CASE Write
  <2>1. disk' = Put(disk, files[next].path, files[next].content) /\ phase = "write" /\ next <= Len(files)
    BY <1>1 DEF Write
  <2>2. next \in DOMAIN files
    <3>1. Len(files) \in Nat /\ DOMAIN files = 1 .. Len(files) /\ next \in Nat \ {0}
      BY ListLen DEF TInv, TypeOK, CountsOK, Shape, FilesOK
    <3>2. QED
      BY <2>1, <3>1
  <2>3. CASE files[next].path = StatePath
    <3>1. StatePath \in DOMAIN disk' /\ disk'[StatePath] = files[next].content
      BY <2>1, <2>3 DEF Put
    <3>2. CASE files[next].content.is.form = "state"
      <4> DEFINE claims == {g \in Range(files) : g.content.is.form = "state"}
      <4>1. Applied(disk') = files[next].content.is.applied
        BY <3>1, <3>2 DEF Applied
      <4>2. files[next] \in claims
        BY <2>2, <3>2 DEF Range
      <4>3. Applied(disk') \subseteq Claimed
        BY <4>1, <4>2 DEF Claimed
      <4>4. QED
        BY <4>3 DEF WholeRecord
    <3>3. CASE files[next].content.is.form # "state"
      BY <3>1, <3>3 DEF Applied, WholeRecord
    <3>4. QED
      BY <3>2, <3>3
  <2>4. CASE files[next].path # StatePath
    <3>1. StatePath \in DOMAIN disk' <=> StatePath \in DOMAIN disk
      BY <2>1, <2>4 DEF Put
    <3>2. StatePath \in DOMAIN disk => disk'[StatePath] = disk[StatePath]
      BY <2>1, <2>4 DEF Put
    <3>3. Applied(disk') = Applied(disk)
      BY <3>1, <3>2 DEF Applied
    <3>4. QED
      BY <3>3 DEF WholeRecord
  <2>5. QED
    BY <2>3, <2>4
<1>2. CASE Record
  <2>1. phase = "record" /\ turn.stage = "new"
    BY <1>2 DEF Record, TInv, TypeOK, CourseOK
  <2>2. QED
    BY <2>1 DEF WholeRecord, WrittenSoFar
<1>3. CASE UserMakes
  BY <1>3 DEF UserMakes, WholeRecord, Claimed
<1>4. CASE UserRemoves
  <2>1. Applied(disk') = {}
    BY <1>4, NoneHas DEF UserRemoves, Applied
  <2>2. QED
    BY <2>1 DEF WholeRecord
<1>5. CASE UNCHANGED <<disk, made>>
  BY <1>5 DEF WholeRecord
<1>6. QED
  BY <1>1, <1>2, <1>3, <1>4, <1>5, DiskAlone

(* A template is recorded only in a project that has every file of it, however
   the command fails (generate_from_path records after generate). *)
THEOREM RecordsWhole == Spec => RecordedWhole
<1>1. Init => WrittenSoFar
  BY DEF Init, WrittenSoFar
<1>2. TInv /\ WrittenSoFar /\ [Next]_vars => TInv' /\ WrittenSoFar' /\ [WholeRecord]_vars
  BY NextTypes, WrittenStays, RecordedStep
<1>3. QED
  BY InitTypes, <1>1, <1>2, PTL DEF Spec, RecordedWhole, WholeRecord

-----------------------------------------------------------------------------
(* Nobody is asked: there is a value, or there is none. *)
LEMMA SilentKinds ==
    ASSUME NEW def, NEW given
    PROVE  Silent(def, given).kind \in {"value", "error"}
<1>1. \A v : Value(v).kind = "value" /\ Error(v).kind = "error"
  BY DEF Value, Error
<1>2. CASE def.kebab
  BY <1>1, <1>2 DEF Silent
<1>3. CASE ~def.kebab /\ def.name \in DOMAIN given
  BY <1>1, <1>3 DEF Silent
<1>4. CASE ~def.kebab /\ def.name \notin DOMAIN given /\ def.type = "bool"
  BY <1>1, <1>4 DEF Silent
<1>5. CASE ~def.kebab /\ def.name \notin DOMAIN given /\ def.type = "string"
  BY <1>1, <1>5 DEF Silent
<1>6. CASE ~def.kebab /\ def.name \notin DOMAIN given /\ def.type \notin {"bool", "string"}
  BY <1>1, <1>6 DEF Silent
<1>7. QED
  BY <1>2, <1>3, <1>4, <1>5, <1>6

-----------------------------------------------------------------------------
(* What validate has built. *)

Configured(template) ==
    /\ template.dir /\ template.config
    /\ \A i \in DOMAIN template.placeholders : template.placeholders[i].from # "unknown"

Fills(template, i) == Silent(template.placeholders[i], <<>>).kind = "value"

Generates(template) ==
    /\ Configured(template) /\ ~Unrenderable(template)
    /\ \A i \in DOMAIN template.placeholders : Fills(template, i)

Built(v) == (IF v.tarball THEN Packaged ELSE source)[v.name]

(* How far the build of a template has come. *)
BuiltSoFar ==
    turn.stage = "build" =>
        /\ phase \in {"fill", "render", "manage", "build"} => Configured(Mine)
        /\ phase = "fill" => \A i \in 1 .. next - 1 : Fills(Mine, i)
        /\ phase \in {"render", "manage", "build"} => \A i \in DOMAIN Mine.placeholders : Fills(Mine, i)
        /\ phase \in {"manage", "build"} => ~Unrenderable(Mine)

(* Why a `new` has failed. *)
FailedFor ==
    phase = "failed" /\ turn.stage = "new" =>
        /\ why = "config" => ~Configured(Mine)
        /\ why = "placeholder" /\ ~cmd.interactive /\ cmd.defines = <<>> =>
              \E i \in DOMAIN Mine.placeholders : ~Fills(Mine, i)
        /\ why = "render" => Unrenderable(Mine)

ValidInv == (\A v \in valid : Generates(Built(v))) /\ BuiltSoFar /\ FailedFor

(* How a template is filled, rendered and resolved, how that fails, and what
   else leaves the course of the command alone. *)
LEMMA CourseSteps ==
    ASSUME [Next]_vars
    PROVE  /\ source' = source
           /\ phase' \in {"fill", "render", "manage", "build"} =>
                 \/ Config \/ Fill \/ Answer \/ Filled \/ Render \/ Manage \/ Rendered
                 \/ phase' = phase /\ UNCHANGED work
           /\ phase' = "failed" /\ why' \in {"config", "placeholder", "render"} =>
                 Config \/ Fill \/ Render \/ (phase' = phase /\ why' = why /\ UNCHANGED work)
           /\ Build \/ (valid' \subseteq valid)
<1>1. CASE UNCHANGED vars
  BY <1>1 DEF vars, work, world
<1>2. CASE Config \/ Fill \/ Answer \/ Filled \/ Render
  BY <1>2 DEF Config, Fill, Answer, Filled, Render, Goes, work, world
<1>3. CASE Manage \/ Rendered
  BY <1>3, NoneIs DEF Manage, Rendered, Goes, GoesOn, world
<1>4. CASE Fetch \/ Pick \/ Build
  BY <1>4 DEF Fetch, Pick, Build, Goes, Fails, GoesOn, world
<1>5. CASE Check \/ Write \/ Written \/ GitInit \/ Record \/ Dies
  BY <1>5 DEF Check, Write, Written, GitInit, Record, Dies, Goes, Fails, work, world
<1>6. CASE UserMakes \/ UserRemoves
  BY <1>6 DEF UserMakes, UserRemoves, work
<1>7. CASE \E c \in Commands : Begins(c)
  BY <1>7 DEF Begins
<1>8. QED
  BY <1>1, <1>2, <1>3, <1>4, <1>5, <1>6, <1>7 DEF Next, Works

(* A build defines nothing. *)
LEMMA BuildGiven ==
    ASSUME TInv, phase # "idle", turn.stage = "build" \/ (turn.stage = "new" /\ cmd.defines = <<>>)
    PROVE  Given = <<>>
<1>1. turn.stage = "build" => cmd.kind = "validate"
  BY DEF TInv, Shape
<1>2. cmd.defines = <<>>
  BY <1>1, CommandOK
<1>3. QED
  BY <1>2 DEF Given, Previews

(* A build comes as far as its template renders. *)
LEMMA BuiltStays ==
    ASSUME TInv, BuiltSoFar, [Next]_vars
    PROVE  BuiltSoFar'
<1> SUFFICES ASSUME turn'.stage = "build", phase' \in {"fill", "render", "manage", "build"}
             PROVE  BuiltSoFar'
  BY DEF BuiltSoFar
<1>1. CASE phase' = phase /\ UNCHANGED work
  BY <1>1 DEF BuiltSoFar, work, Mine
<1>2. CASE Config
  <2>1. phase = "config" /\ phase' = "fill" /\ UNCHANGED work /\ next = 1 /\ Configured(Mine)
    BY <1>2 DEF Config, Goes, Fails, TInv, Shape, Configured, Mine, Def
  <2>2. Mine' = Mine /\ next' = 1
    BY <2>1 DEF work, Mine
  <2>3. QED
    BY <2>1, <2>2 DEF BuiltSoFar
<1>3. CASE Fill
  <2>1. phase = "fill" /\ phase' = "fill" /\ next' = next + 1 /\ UNCHANGED <<crate, turn>>
    BY <1>3 DEF Fill, Goes, Fails
  <2>2. Silent(Def(next), Given).kind # "error"
    BY <1>3 DEF Fill, Fails
  <2>3. Mine' = Mine /\ turn.stage = "build" /\ Def(next) = Mine.placeholders[next] /\ next \in Nat \ {0}
    BY <2>1 DEF Mine, Def, TInv, TypeOK, CountsOK
  <2>4. Given = <<>>
    BY <2>1, <2>3, BuildGiven
  <2>5. Fills(Mine, next)
    BY <2>2, <2>3, <2>4, SilentKinds DEF Fills
  <2>6. \A i \in 1 .. next' - 1 : i = next \/ i \in 1 .. next - 1
    BY <2>1, <2>3
  <2>7. QED
    BY <2>1, <2>3, <2>5, <2>6 DEF BuiltSoFar
<1>4. CASE Answer
  BY <1>4 DEF Answer, Prompted, Asks
<1>5. CASE Filled
  <2>1. phase = "fill" /\ phase' = "render" /\ next > Len(Mine.placeholders) /\ UNCHANGED <<crate, turn>>
    BY <1>5 DEF Filled, Goes
  <2>2. Mine' = Mine /\ turn.stage = "build" /\ next \in Nat \ {0} /\ turn.stage # None
    BY <2>1 DEF Mine, TInv, TypeOK, CountsOK, Shape
  <2>3. \A i \in DOMAIN Mine.placeholders : i \in 1 .. next - 1
    <3>1. Len(Mine.placeholders) \in Nat /\ DOMAIN Mine.placeholders = 1 .. Len(Mine.placeholders)
      BY <2>2, MineOK
    <3>2. QED
      BY <2>1, <2>2, <3>1
  <2>4. QED
    BY <2>1, <2>2, <2>3 DEF BuiltSoFar
<1>6. CASE Render
  <2>1. phase = "render" /\ phase' = "manage" /\ ~Unrenderable(Mine) /\ UNCHANGED <<crate, turn>>
    BY <1>6 DEF Render, Goes, Fails
  <2>2. Mine' = Mine
    BY <2>1 DEF Mine
  <2>3. QED
    BY <2>1, <2>2 DEF BuiltSoFar
<1>7. CASE Manage
  <2>1. phase = "manage" /\ phase' = "manage" /\ UNCHANGED <<crate, turn>>
    BY <1>7 DEF Manage, Goes
  <2>2. Mine' = Mine
    BY <2>1 DEF Mine
  <2>3. QED
    BY <2>1, <2>2 DEF BuiltSoFar
<1>8. CASE Rendered
  <2>1. phase = "manage" /\ phase' = "build" /\ UNCHANGED <<crate, turn>>
    BY <1>8 DEF Rendered, Goes, GoesOn
  <2>2. Mine' = Mine
    BY <2>1 DEF Mine
  <2>3. QED
    BY <2>1, <2>2 DEF BuiltSoFar
<1>9. QED
  BY <1>1, <1>2, <1>3, <1>4, <1>5, <1>6, <1>7, <1>8, CourseSteps

(* A failed `new` failed for a reason that lies in the template. *)
LEMMA FailedStays ==
    ASSUME TInv, FailedFor, [Next]_vars
    PROVE  FailedFor'
<1> SUFFICES ASSUME turn'.stage = "new", phase' = "failed", why' \in {"config", "placeholder", "render"}
             PROVE  FailedFor'
  BY DEF FailedFor
<1>1. CASE phase' = phase /\ why' = why /\ UNCHANGED work
  BY <1>1 DEF FailedFor, work, Mine
<1>2. CASE Config
  <2>1. why' = "config" /\ UNCHANGED work /\ ~Configured(Mine)
    BY <1>2 DEF Config, Goes, Fails, Configured, Mine, Def
  <2>2. Mine' = Mine
    BY <2>1 DEF work, Mine
  <2>3. QED
    BY <2>1, <2>2 DEF FailedFor
<1>3. CASE Fill
  <2>1. phase = "fill" /\ next <= Len(Mine.placeholders) /\ UNCHANGED <<cmd, crate, turn>>
    BY <1>3 DEF Fill
  <2>2. why' = "placeholder" /\ Silent(Def(next), Given).kind = "error"
    BY <1>3 DEF Fill, Fails, Goes
  <2>3. /\ Mine' = Mine /\ turn.stage = "new" /\ Def(next) = Mine.placeholders[next]
        /\ next \in Nat \ {0} /\ turn.stage # None
    BY <2>1 DEF Mine, Def, TInv, TypeOK, CountsOK, Shape
  <2>4. next \in DOMAIN Mine.placeholders
    <3>1. Len(Mine.placeholders) \in Nat /\ DOMAIN Mine.placeholders = 1 .. Len(Mine.placeholders)
      BY <2>3, MineOK
    <3>2. QED
      BY <2>1, <2>3, <3>1
  <2>5. cmd.defines = <<>> => ~Fills(Mine, next)
    BY <2>1, <2>2, <2>3, BuildGiven DEF Fills
  <2>6. QED
    BY <2>1, <2>2, <2>3, <2>4, <2>5 DEF FailedFor
<1>4. CASE Render
  <2>1. why' = "render" /\ UNCHANGED <<crate, turn>> /\ Unrenderable(Mine)
    BY <1>4 DEF Render, Goes, Fails
  <2>2. Mine' = Mine
    BY <2>1 DEF Mine
  <2>3. QED
    BY <2>1, <2>2 DEF FailedFor
<1>5. QED
  BY <1>1, <1>2, <1>3, <1>4, CourseSteps

(* What is built is a template that renders without a define. *)
LEMMA ValidStays ==
    ASSUME TInv, BuiltSoFar, \A v \in valid : Generates(Built(v)), [Next]_vars
    PROVE  \A v \in valid' : Generates(Built(v)')
<1>1. source' = source
  BY CourseSteps
<1>2. \A v : Built(v)' = Built(v)
  BY <1>1 DEF Built, Packaged
<1> SUFFICES ASSUME NEW v \in valid' PROVE Generates(Built(v))
  BY <1>2
<1>3. CASE v \in valid
  BY <1>3
<1>4. CASE v \notin valid
  <2>1. Build /\ valid' = valid \cup {[name |-> turn.name, tarball |-> crate # source]}
    BY <1>4, CourseSteps DEF Build
  <2>2. v = [name |-> turn.name, tarball |-> crate # source]
    BY <1>4, <2>1
  <2>3. Built(v) = Mine
    <3>1. crate \in {source, Packaged}
      BY DEF TInv, TypeOK, ValuesOK
    <3>2. QED
      BY <2>2, <3>1 DEF Built, Mine
  <2>4. phase = "build" /\ turn.stage = "build"
    BY <2>1 DEF Build, TInv, Shape
  <2>5. QED
    BY <2>3, <2>4 DEF BuiltSoFar, Generates
<1>5. QED
  BY <1>3, <1>4

(* What validate has built renders for the user as well: a `new` of it that
   asks and defines nothing does not fail on its config, its placeholders or
   its files (validate builds what it renders without fallbacks). *)
THEOREM ValidMeansGenerates == Spec => []ValidatedGenerates
<1>1. Init => ValidInv
  BY DEF Init, ValidInv, BuiltSoFar, FailedFor, Nowhere
<1>2. TInv /\ ValidInv /\ [Next]_vars => TInv' /\ ValidInv'
  <2> SUFFICES ASSUME TInv, ValidInv, [Next]_vars PROVE TInv' /\ ValidInv'
    OBVIOUS
  <2>1. BuiltSoFar' /\ FailedFor'
    BY BuiltStays, FailedStays DEF ValidInv
  <2>2. \A v \in valid' : Generates(Built(v)')
    BY ValidStays DEF ValidInv
  <2>3. \A v : Generates(Built(v)') = Generates(Built(v))'
    BY DEF Generates, Configured, Fills, Unrenderable, Built, Packaged
  <2>4. QED
    BY <2>1, <2>2, <2>3, NextTypes DEF ValidInv
<1>3. TInv /\ ValidInv => ValidatedGenerates
  <2> SUFFICES ASSUME TInv, ValidInv, phase = "failed", turn.stage = "new",
                      why \in {"config", "placeholder", "render"}, ~cmd.interactive, cmd.defines = <<>>,
                      [name |-> turn.name, tarball |-> crate # source] \in valid
               PROVE  FALSE
    BY DEF ValidatedGenerates
  <2> DEFINE v == [name |-> turn.name, tarball |-> crate # source]
  <2>1. Built(v) = Mine
    <3>1. crate \in {source, Packaged}
      BY DEF TInv, TypeOK, ValuesOK
    <3>2. QED
      BY <3>1 DEF Built, Mine
  <2>2. Generates(Mine)
    BY <2>1 DEF ValidInv
  <2>3. QED
    BY <2>2 DEF ValidInv, FailedFor, Generates
<1>4. QED
  BY InitTypes, <1>1, <1>2, <1>3, PTL DEF Spec

-----------------------------------------------------------------------------
(* How a template is begun, and a preview printed. *)
LEMMA ConfigSteps ==
    ASSUME [Next]_vars
    PROVE  /\ phase' = "config" => values' = <<>> \/ (phase = "config" /\ UNCHANGED work)
           /\ \/ shown' = shown
              \/ /\ Rendered /\ turn.stage = "show"
                 /\ shown' = [template |-> turn.name, defines |-> cmd.defines, files |-> files]
<1>1. CASE UNCHANGED vars
  BY <1>1 DEF vars, work, world
<1>2. CASE Config \/ Fill \/ Answer \/ Filled \/ Render \/ Manage
  BY <1>2 DEF Config, Fill, Answer, Filled, Render, Manage, Goes, Fails, work, world
<1>3. CASE Rendered
  BY <1>3 DEF Rendered, Goes, GoesOn, Takes
<1>4. CASE Fetch \/ Pick \/ Build
  BY <1>4 DEF Fetch, Pick, Build, Goes, Fails, GoesOn, Takes, world
<1>5. CASE Check \/ Write \/ Written \/ GitInit \/ Record \/ Dies
  BY <1>5 DEF Check, Write, Written, GitInit, Record, Dies, Goes, Fails, work, world
<1>6. CASE UserMakes \/ UserRemoves
  BY <1>6 DEF UserMakes, UserRemoves, work
<1>7. CASE \E c \in Commands : Begins(c)
  BY <1>7 DEF Begins
<1>8. QED
  BY <1>1, <1>2, <1>3, <1>4, <1>5, <1>6, <1>7 DEF Next, Works

-----------------------------------------------------------------------------
(* What the preview fills in. *)

NamesTo(template, k) == {template.placeholders[i].name : i \in 1 .. k}

Previewed(template, defines, k) ==
    [n \in NamesTo(template, k) |-> PreviewDefines(template, defines)[n]]

(* How far the preview of a template has come. *)
PreviewSoFar ==
    turn.stage = "show" =>
        /\ phase = "config" => values = <<>>
        /\ phase = "fill" => values = Previewed(Mine, cmd.defines, next - 1)
        /\ phase = "render" => values = Previewed(Mine, cmd.defines, Len(Mine.placeholders))
        /\ phase = "manage" =>
              Texts(files)
                  = Texts(RenderAll(Mine, Previewed(Mine, cmd.defines, Len(Mine.placeholders))))

(* What was printed. *)
PreviewPrinted ==
    shown # <<>> =>
        /\ shown.template \in DOMAIN source
        /\ LET template == source[shown.template]
           IN Texts(shown.files)
                  = Texts(RenderAll(template, Previewed(template, shown.defines, Len(template.placeholders))))

(* A template's placeholders, in order. *)
LEMMA PlaceholdersAre ==
    ASSUME NEW template, IsTemplate(template)
    PROVE  LET defs == template.placeholders
           IN /\ Len(defs) \in Nat /\ DOMAIN defs = 1 .. Len(defs)
              /\ \A i \in DOMAIN defs : defs[i] \in Placeholder
<1>1. template.placeholders \in Seq(Placeholder)
  BY DEF IsTemplate
<1>2. QED
  BY <1>1, ListLen

(* Before the first placeholder the preview has filled in nothing. *)
LEMMA PreviewBegins ==
    ASSUME NEW template, NEW defines
    PROVE  Previewed(template, defines, 0) = <<>>
<1>1. NamesTo(template, 0) = {}
  BY DEF NamesTo
<1>2. QED
  BY <1>1 DEF Previewed

(* One more placeholder, one more value. *)
LEMMA PreviewGoesOn ==
    ASSUME NEW template, NEW defines, NEW k \in Nat \ {0}
    PROVE  Put(Previewed(template, defines, k - 1), template.placeholders[k].name,
               PreviewDefines(template, defines)[template.placeholders[k].name])
             = Previewed(template, defines, k)
<1> DEFINE name == template.placeholders[k].name
           value == PreviewDefines(template, defines)
<1>1. NamesTo(template, k) = NamesTo(template, k - 1) \cup {name}
  <2>1. 1 .. k = (1 .. (k - 1)) \cup {k}
    OBVIOUS
  <2>2. QED
    BY <2>1 DEF NamesTo
<1> HIDE DEF name, value
<1>2. Put(Previewed(template, defines, k - 1), name, value[name])
        = [n \in NamesTo(template, k - 1) \cup {name} |-> value[n]]
  BY DEF Put, Previewed, value
<1>3. QED
  BY <1>1, <1>2 DEF Previewed, name, value

(* Filling in for the preview takes what the preview defines. *)
LEMMA PreviewFills ==
    ASSUME NEW template, NEW defines, NEW i \in DOMAIN template.placeholders
    PROVE  LET def == template.placeholders[i]
               given == PreviewDefines(template, defines)
           IN /\ def.name \in DOMAIN given
              /\ Silent(def, given) = IF def.kebab THEN Error("name") ELSE Value(given[def.name])
<1> DEFINE def == template.placeholders[i]
           given == PreviewDefines(template, defines)
<1>1. def.name \in DOMAIN given
  BY DEF PreviewDefines
<1> HIDE DEF def, given
<1>2. def.kebab => Silent(def, given) = Error("name")
  BY DEF Silent
<1>3. ~def.kebab => Silent(def, given) = Value(given[def.name])
  BY <1>1 DEF Silent
<1>4. QED
  BY <1>1, <1>2, <1>3 DEF def, given

(* Where nothing is amiss, the preview fills in what `new` would. *)
LEMMA PreviewIsSilent ==
    ASSUME NEW template, IsTemplate(template), NEW defines,
           \A i \in DOMAIN template.placeholders : Results(template, defines)[i].kind = "value",
           Unanswered(template, defines) = {}
    PROVE  Previewed(template, defines, Len(template.placeholders)) = Silently(template, defines)
<1> DEFINE defs == template.placeholders
           names == {defs[i].name : i \in DOMAIN defs}
           at(n) == CHOOSE i \in DOMAIN defs : defs[i].name = n
<1>1. DOMAIN defs = 1 .. Len(defs) /\ \A i \in DOMAIN defs : defs[i] \in Placeholder
  BY PlaceholdersAre
<1>2. NamesTo(template, Len(defs)) = names
  BY <1>1 DEF NamesTo
<1>3. \A v : Value(v).value = v /\ Value(v).kind = "value" /\ Error(v).kind = "error"
  BY DEF Value, Error
<1>4. ASSUME NEW n \in names
      PROVE  PreviewDefines(template, defines)[n] = Silent(defs[at(n)], defines).value
  <2> DEFINE i == at(n)
             d == defs[i]
  <2>1. i \in DOMAIN defs /\ d.name = n
    BY <1>4
  <2>2. Silent(d, defines).kind = "value"
    BY <2>1 DEF Results
  <2>3. PreviewDefines(template, defines)[n] = IF n \in DOMAIN defines THEN defines[n] ELSE Fallback(d)
    BY <1>4 DEF PreviewDefines
  <2>4. d \in Placeholder /\ d \in Range(defs)
    BY <1>1, <2>1 DEF Range
  <2>5. d.type = "bool" /\ d.name \notin DOMAIN defines => d.default # None
    BY <2>4 DEF Unanswered
  <2>6. /\ d.type \in {"string", "bool", "select"} /\ d.options \subseteq STRING \ {None}
        /\ d.kebab \in BOOLEAN
    BY <2>4 DEF Placeholder
  <2> HIDE DEF i, d
  <2>7. d.default # None => Fallback(d) = d.default
    BY DEF Fallback
  <2>8. ~d.kebab
    BY <1>3, <2>2 DEF Silent
  <2>9. CASE n \in DOMAIN defines
    <3>1. Silent(d, defines) = Value(defines[n])
      BY <2>1, <2>8, <2>9 DEF Silent
    <3>2. QED
      BY <1>3, <2>3, <2>9, <3>1 DEF d, i
  <2>10. CASE n \notin DOMAIN defines
    <3>1. CASE d.type = "bool"
      <4>1. Silent(d, defines) = Value(IF d.default = None THEN "false" ELSE d.default)
        BY <2>1, <2>8, <2>10, <3>1 DEF Silent
      <4>2. QED
        BY <1>3, <2>1, <2>3, <2>5, <2>7, <2>10, <3>1, <4>1 DEF d, i
    <3>2. CASE d.type = "string"
      <4>1. Silent(d, defines) = IF d.default = None THEN Error("default") ELSE Value(d.default)
        BY <2>1, <2>8, <2>10, <3>2 DEF Silent
      <4>2. QED
        BY <1>3, <2>2, <2>3, <2>7, <2>10, <4>1 DEF d, i
    <3>3. CASE d.type = "select"
      <4>1. Silent(d, defines) = IF d.default \in d.options THEN Value(d.default) ELSE Error("options")
        BY <2>1, <2>8, <2>10, <3>3 DEF Silent
      <4>2. d.default # None
        BY <1>3, <2>2, <2>6, <4>1
      <4>3. QED
        BY <1>3, <2>2, <2>3, <2>7, <2>10, <4>1, <4>2 DEF d, i
    <3>4. QED
      BY <2>6, <3>1, <3>2, <3>3
  <2>11. QED
    BY <2>9, <2>10
<1>5. Previewed(template, defines, Len(defs)) = [n \in names |-> PreviewDefines(template, defines)[n]]
  BY <1>2 DEF Previewed
<1>6. Silently(template, defines) = [n \in names |-> Silent(defs[at(n)], defines).value]
  BY DEF Silently
<1> HIDE DEF names, at
<1>7. QED
  BY <1>4, <1>5, <1>6

(* A packaged template renders as its source does. *)
LEMMA RendersAlike ==
    ASSUME NEW a, NEW b, a.files = b.files, a.ignore = b.ignore, a.includes = b.includes, NEW vals
    PROVE  RenderAll(a, vals) = RenderAll(b, vals)
<1>1. {f \in Range(a.files) : ~Ignored(a, f.path) /\ ~IsConfig(f.path)}
        = {f \in Range(b.files) : ~Ignored(b, f.path) /\ ~IsConfig(f.path)}
  BY DEF Ignored
<1>2. Walked(a, vals) = Walked(b, vals)
  BY <1>1 DEF Walked
<1>3. Included(a, vals) = Included(b, vals)
  BY <1>2 DEF Included
<1>4. QED
  BY <1>3 DEF RenderAll

(* A packaged template is filled in as its source is. *)
LEMMA PreviewedAlike ==
    ASSUME NEW a, NEW b, a.placeholders = b.placeholders, NEW defines, NEW k
    PROVE  Previewed(a, defines, k) = Previewed(b, defines, k)
<1>1. NamesTo(a, k) = NamesTo(b, k)
  BY DEF NamesTo
<1>2. PreviewDefines(a, defines) = PreviewDefines(b, defines)
  BY DEF PreviewDefines
<1>3. QED
  BY <1>1, <1>2 DEF Previewed

-----------------------------------------------------------------------------
(* The preview fills in what it defines, and renders with it. *)
LEMMA PreviewStays ==
    ASSUME TInv, PreviewSoFar, [Next]_vars
    PROVE  PreviewSoFar'
<1> SUFFICES ASSUME turn'.stage = "show", phase' \in {"config", "fill", "render", "manage"}
             PROVE  PreviewSoFar'
  BY DEF PreviewSoFar
<1>1. CASE phase' = phase /\ UNCHANGED work
  BY <1>1 DEF PreviewSoFar, work, Mine
<1>2. CASE phase' = "config" /\ values' = <<>>
  BY <1>2 DEF PreviewSoFar
<1>3. CASE Config
  <2>1. phase = "config" /\ phase' = "fill" /\ UNCHANGED work /\ next = 1
    BY <1>3 DEF Config, Goes, Fails, TInv, Shape
  <2>2. values' = <<>> /\ next' - 1 = 0
    BY <2>1 DEF work, PreviewSoFar
  <2>3. QED
    BY <2>1, <2>2, PreviewBegins DEF PreviewSoFar
<1>4. CASE Fill
  <2> DEFINE d == Mine.placeholders[next]
             given == PreviewDefines(Mine, cmd.defines)
  <2>1. /\ phase = "fill" /\ phase' = "fill" /\ next' = next + 1 /\ UNCHANGED <<cmd, crate, turn>>
        /\ values' = Put(values, d.name, Silent(d, Given).value) /\ Silent(d, Given).kind # "error"
        /\ next <= Len(Mine.placeholders)
    BY <1>4 DEF Fill, Goes, Fails, Def, Mine
  <2>2. Mine' = Mine /\ turn.stage = "show" /\ Given = given /\ next \in Nat \ {0} /\ turn.stage # None
    BY <2>1 DEF Mine, Given, Previews, TInv, TypeOK, CountsOK, Shape
  <2>3. next \in DOMAIN Mine.placeholders
    <3>1. Len(Mine.placeholders) \in Nat /\ DOMAIN Mine.placeholders = 1 .. Len(Mine.placeholders)
      BY <2>2, MineOK
    <3>2. QED
      BY <2>1, <2>2, <3>1
  <2>4. Silent(d, given) = IF d.kebab THEN Error("name") ELSE Value(given[d.name])
    BY <2>3, PreviewFills
  <2>5. \A v : Value(v).value = v /\ Error(v).kind = "error"
    BY DEF Value, Error
  <2> HIDE DEF given
  <2>6. values' = Put(values, d.name, given[d.name])
    BY <2>1, <2>2, <2>4, <2>5
  <2>7. values = Previewed(Mine, cmd.defines, next - 1)
    BY <2>1, <2>2 DEF PreviewSoFar
  <2>8. values' = Previewed(Mine, cmd.defines, next)
    BY <2>2, <2>6, <2>7, PreviewGoesOn DEF given
  <2>9. next' - 1 = next
    BY <2>1, <2>2
  <2>10. QED
    BY <2>1, <2>2, <2>8, <2>9 DEF PreviewSoFar
<1>5. CASE Answer
  BY <1>5 DEF Answer, Prompted, Asks
<1>6. CASE Filled
  <2>1. /\ phase = "fill" /\ phase' = "render" /\ next > Len(Mine.placeholders)
        /\ UNCHANGED <<cmd, crate, turn, values>>
    BY <1>6 DEF Filled, Goes
  <2>2. Mine' = Mine /\ turn.stage = "show" /\ turn.stage # None /\ next \in Nat \ {0}
        /\ next <= Len(Mine.placeholders) + 1
    BY <2>1 DEF Mine, TInv, TypeOK, CountsOK, Shape
  <2>3. next - 1 = Len(Mine.placeholders)
    <3>1. Len(Mine.placeholders) \in Nat
      BY <2>2, MineOK
    <3>2. QED
      BY <2>1, <2>2, <3>1
  <2>4. QED
    BY <2>1, <2>2, <2>3 DEF PreviewSoFar
<1>7. CASE Render
  <2>1. /\ phase = "render" /\ phase' = "manage" /\ files' = RenderAll(Mine, values)
        /\ UNCHANGED <<cmd, crate, turn>>
    BY <1>7 DEF Render, RenderAll, Goes, Fails
  <2>2. Mine' = Mine
    BY <2>1 DEF Mine
  <2>3. QED
    BY <2>1, <2>2 DEF PreviewSoFar
<1>8. CASE Manage
  <2>1. phase = "manage" /\ phase' = "manage" /\ UNCHANGED <<cmd, crate, turn>>
    BY <1>8 DEF Manage, Goes
  <2>2. Mine' = Mine
    BY <2>1 DEF Mine
  <2>3. Texts(files') = Texts(files)
    <3>1. /\ DOMAIN files' = DOMAIN files
          /\ \A j \in DOMAIN files : /\ files'[j].path = files[j].path
                                     /\ files'[j].content.text = files[j].content.text
      BY <1>8, ManagedFiles
    <3>2. QED
      BY <3>1 DEF Texts
  <2>4. QED
    BY <2>1, <2>2, <2>3 DEF PreviewSoFar
<1>9. CASE Rendered /\ phase' # "config"
  BY <1>9 DEF Rendered, Goes, GoesOn
<1>10. QED
  BY <1>1, <1>2, <1>3, <1>4, <1>5, <1>6, <1>7, <1>8, <1>9, ConfigSteps, CourseSteps

(* What is printed is what was rendered. *)
LEMMA PrintedStays ==
    ASSUME TInv, PreviewSoFar, PreviewPrinted, [Next]_vars
    PROVE  PreviewPrinted'
<1>1. source' = source
  BY CourseSteps
<1>2. CASE shown' = shown
  BY <1>1, <1>2 DEF PreviewPrinted
<1>3. CASE /\ Rendered /\ turn.stage = "show"
           /\ shown' = [template |-> turn.name, defines |-> cmd.defines, files |-> files]
  <2> DEFINE template == source[turn.name]
             k == Len(template.placeholders)
  <2>1. turn.stage = "show" /\ phase = "manage" /\ turn.stage # None
    BY <1>3, NoneIs DEF Rendered
  <2>2. turn.name \in DOMAIN source /\ Mine.placeholders = template.placeholders
    BY <2>1, MineOK
  <2>3. Mine.files = template.files /\ Mine.ignore = template.ignore /\ Mine.includes = template.includes
    BY <2>2, SameTemplate DEF Mine, TInv, TypeOK, ValuesOK, Shape
  <2>4. Texts(files) = Texts(RenderAll(Mine, Previewed(Mine, cmd.defines, k)))
    BY <2>1, <2>2 DEF PreviewSoFar
  <2>5. Previewed(Mine, cmd.defines, k) = Previewed(template, cmd.defines, k)
    BY <2>2, PreviewedAlike
  <2>6. \A vals : RenderAll(Mine, vals) = RenderAll(template, vals)
    BY <2>3, RendersAlike
  <2>7. Texts(files) = Texts(RenderAll(template, Previewed(template, cmd.defines, k)))
    BY <2>4, <2>5, <2>6
  <2>8. shown'.template = turn.name /\ shown'.defines = cmd.defines /\ shown'.files = files
    BY <1>3
  <2>9. QED
    BY <1>1, <2>2, <2>7, <2>8 DEF PreviewPrinted
<1>4. QED
  BY <1>2, <1>3, ConfigSteps

(* What show -t prints is what a silent `new` with the same defines writes,
   where that succeeds and every switch has a default (preview,
   resolve_placeholders). *)
THEOREM PreviewIsTrue == Spec => []PreviewShows
<1>1. Init => PreviewSoFar /\ PreviewPrinted
  BY DEF Init, Nowhere, PreviewSoFar, PreviewPrinted
<1>2. TInv /\ PreviewSoFar /\ PreviewPrinted /\ [Next]_vars
        => TInv' /\ PreviewSoFar' /\ PreviewPrinted'
  BY NextTypes, PreviewStays, PrintedStays
<1>3. TInv /\ PreviewPrinted => PreviewShows
  <2> SUFFICES ASSUME TInv, PreviewPrinted, shown # <<>>,
                      \A i \in DOMAIN source[shown.template].placeholders :
                          Results(source[shown.template], shown.defines)[i].kind = "value",
                      Unanswered(source[shown.template], shown.defines) = {}
               PROVE  Texts(shown.files) = Texts(RenderAll(source[shown.template],
                                                   Silently(source[shown.template], shown.defines)))
    BY DEF PreviewShows
  <2>1. source \in Crates /\ shown.template \in DOMAIN source
    BY DEF TInv, Shape, PreviewPrinted
  <2>2. IsTemplate(source[shown.template])
    BY <2>1, TemplateAssumption
  <2>3. QED
    BY <2>2, PreviewIsSilent DEF PreviewPrinted
<1>4. QED
  BY InitTypes, <1>1, <1>2, <1>3, PTL DEF Spec

===============================================================================
