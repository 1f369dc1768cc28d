----------------------------- MODULE PackProofs -----------------------------
(***************************************************************************)
(* Proofs about feature resolution, for every set of well-formed packs:    *)
(* what a selection promises, and that the walks compute it;               *)
(* and about the categories of a pack, from its author to the picker.      *)
(***************************************************************************)
EXTENDS PackExpansion, LintSafety, ListProofs

(* The expansion of local references grows with what it starts from. *)
LEMMA ExpandedGrows ==
    ASSUME NEW p, NEW F, NEW G, F \subseteq G
    PROVE  /\ Expanded(p, F) \subseteq Expanded(p, G)
           /\ RefsOf(p, F) \subseteq RefsOf(p, G)
BY DEF Expanded, RefsOf

(* More references activate more crates and add more dep features. *)
LEMMA RefsGrow ==
    ASSUME NEW p, NEW R, NEW S, R \subseteq S
    PROVE  /\ Activated(p, R) \subseteq Activated(p, S)
           /\ \A form, c : Augments(R, form, c) \subseteq Augments(S, form, c)
BY DEF Activated, Augments

(* A selection that grows from a non-empty one requests no less. *)
LEMMA RequestGrows ==
    ASSUME NEW p, NEW A, NEW B, A # {}, A \subseteq B
    PROVE  /\ Requested(p, A) \subseteq Requested(p, B)
           /\ TakesNonOptional(p, A) => TakesNonOptional(p, B)
BY DEF Requested, TakesNonOptional

(* A larger selection selects no fewer crates. *)
LEMMA SelectedGrows ==
    ASSUME NEW p, NEW A, NEW B, A # {}, A \subseteq B
    PROVE  Selected(p, A) \subseteq Selected(p, B)
<1>1. RefsOf(p, Requested(p, A)) \subseteq RefsOf(p, Requested(p, B))
  BY RequestGrows, ExpandedGrows
<1>2. Activated(p, RefsOf(p, Requested(p, A))) \subseteq Activated(p, RefsOf(p, Requested(p, B)))
  BY <1>1, RefsGrow
<1>3. QED
  BY <1>2, RequestGrows DEF Selected

(* The dep features a resolved crate ends with. *)
LEMMA ResolvedFeats ==
    ASSUME NEW p, WellFormed(p), NEW A, NEW c \in Selected(p, A)
    PROVE  /\ c \in DOMAIN p.crates
           /\ Resolve(p, A)[c].feats =
                 p.crates[c].feats
                    \cup Augments(RefsOf(p, Surviving(p, A, c)), "strong", c)
                    \cup Augments(RefsOf(p, Requested(p, A)), "weak", c)
<1>1. c \in DOMAIN p.crates
  BY DEF Selected, Activated, NonOptional, Unconditional, Visible
<1>2. p.crates[c] \in CrateSpec
  BY <1>1 DEF WellFormed
<1>3. QED
  BY <1>1, <1>2 DEF Resolve, CrateSpec

(* Growth, the state-level content of format.features.additive. *)
LEMMA SelectionGrows ==
    ASSUME NEW p, WellFormed(p), NEW A, NEW B, A # {}, A \subseteq B
    PROVE  Grows(p, A, B)
<1>1. Selected(p, A) \subseteq Selected(p, B)
  BY SelectedGrows
<1>2. ASSUME "default" \in DOMAIN p.features, NEW c \in Selected(p, A)
      PROVE  Resolve(p, A)[c].feats \subseteq Resolve(p, B)[c].feats
  <2>1. Surviving(p, A, c) = Requested(p, A) /\ Surviving(p, B, c) = Requested(p, B)
    BY <1>2 DEF Surviving, TakesNonOptional
  <2>2. RefsOf(p, Requested(p, A)) \subseteq RefsOf(p, Requested(p, B))
    BY RequestGrows, ExpandedGrows
  <2>3. \A form : Augments(RefsOf(p, Requested(p, A)), form, c)
                     \subseteq Augments(RefsOf(p, Requested(p, B)), form, c)
    BY <2>2, RefsGrow
  <2>4. c \in Selected(p, B)
    BY <1>1
  <2>5. QED
    BY <2>1, <2>3, <2>4, ResolvedFeats
<1>3. QED
  BY <1>1, <1>2 DEF Grows

(* Selections consist of the pack's features. *)
LEMMA TypeInvariance == SelectionSpec => []TypeOK
<1>1. SelectionInit => TypeOK
  BY DEF SelectionInit, TypeOK
<1>2. TypeOK /\ [SelectionNext]_selection => TypeOK'
  BY DEF TypeOK, SelectionNext, Enable, Disable, selection
<1>3. QED
  BY <1>1, <1>2, PTL DEF SelectionSpec

(* Widening a selection never loses a crate, nor a dep feature of a pack that
   declares `default`: format.features.additive for every pack. *)
THEOREM Additive == SelectionSpec => EnablingAdds
<1>1. TypeOK /\ [SelectionNext]_selection => [active # {} /\ active \subseteq active' => Grows(spec, active, active')]_selection
  BY SelectionGrows, PacksWellFormed DEF TypeOK
<1>2. QED
  BY <1>1, TypeInvariance, PTL DEF SelectionSpec, EnablingAdds

-----------------------------------------------------------------------------

(* The whole feature table requests what any selection does. *)
LEMMA AllRequests ==
    ASSUME NEW p, NEW A
    PROVE  LET D == DOMAIN p.features
           IN  /\ Requested(p, A) \subseteq D
               /\ RefsOf(p, Requested(p, A)) \subseteq RefsOf(p, Requested(p, D))
<1> DEFINE D == DOMAIN p.features
<1>1. CASE D = {}
  BY <1>1 DEF Requested, RefsOf, Expanded
<1>2. CASE D # {}
  <2>1. Requested(p, A) \subseteq D /\ Requested(p, D) = D
    BY <1>2 DEF Requested
  <2>2. QED
    BY <2>1, ExpandedGrows
<1>3. QED
  BY <1>1, <1>2

(* Every visible crate of a selection is one of the whole feature table. *)
LEMMA AllSelects ==
    ASSUME NEW p, WellFormed(p), NEW A, NEW c \in Selected(p, A), c \notin p.hidden
    PROVE  c \in Selected(p, DOMAIN p.features)
<1> DEFINE D == DOMAIN p.features
<1>1. CASE c \in Activated(p, RefsOf(p, Requested(p, A)))
  <2>1. RefsOf(p, Requested(p, A)) \subseteq RefsOf(p, Requested(p, D))
    BY AllRequests
  <2>2. c \in Activated(p, RefsOf(p, Requested(p, D)))
    BY <1>1, <2>1 DEF Activated
  <2>3. QED
    BY <2>2 DEF Selected
<1>2. CASE c \in NonOptional(p) /\ c \notin Featured(p)
  BY <1>2 DEF Selected, Unconditional, Visible, NonOptional
<1>3. CASE c \in NonOptional(p) /\ c \in Featured(p)
  <2>1. PICK f \in D : \E r \in p.features[f] : r.name = c
    BY <1>3 DEF Featured
  <2>2. PICK r \in p.features[f] : r.name = c
    BY <2>1
  <2>3. r.form = "strong"
    BY <1>3, <2>2 DEF WellFormed
  <2>4. f \in Expanded(p, Requested(p, D))
    BY <2>1 DEF Expanded, Requested
  <2>5. r \in RefsOf(p, Requested(p, D))
    BY <2>2, <2>4 DEF RefsOf
  <2>6. c \in Activated(p, RefsOf(p, Requested(p, D)))
    BY <1>3, <2>2, <2>3, <2>5 DEF Activated, NonOptional, IsLocal
  <2>7. QED
    BY <2>6 DEF Selected
<1>4. CASE c \in Unconditional(p)
  BY <1>4 DEF Selected
<1>5. QED
  BY <1>1, <1>2, <1>3, <1>4 DEF Selected

(* Nothing is overwritten when the whole feature table is requested. *)
LEMMA AllSurvives ==
    ASSUME NEW p, NEW A, NEW c
    PROVE  RefsOf(p, Surviving(p, A, c))
              \subseteq RefsOf(p, Surviving(p, DOMAIN p.features, c))
<1> DEFINE D == DOMAIN p.features
<1>1. CASE D = {}
  BY <1>1 DEF RefsOf, Expanded
<1>2. CASE D # {}
  <2>1. Surviving(p, D, c) = D
    BY <1>2 DEF Surviving, TakesNonOptional, Requested
  <2>2. Surviving(p, A, c) \subseteq D
    BY DEF Surviving, Requested
  <2>3. QED
    BY <2>1, <2>2, ExpandedGrows
<1>3. QED
  BY <1>1, <1>2

(* Nothing is offered that --all-features does not offer, with as many Cargo features. *)
LEMMA AllIsWidest ==
    ASSUME NEW p, WellFormed(p), NEW A, NEW c \in Offered(p, A)
    PROVE  /\ c \in Offered(p, {"all"})
           /\ ResolveForFeatures(p, A)[c].feats
                 \subseteq ResolveForFeatures(p, {"all"})[c].feats
<1> DEFINE D == DOMAIN p.features
<1>1. Names(p, {"all"}) = D /\ IsAll({"all"})
  BY DEF Names, IsAll
<1>2. CASE IsAll(A)
  BY <1>1, <1>2 DEF Offered, ResolveForFeatures, Names
<1>3. CASE ~IsAll(A)
  <2>1. c \in Selected(p, A) /\ c \notin p.hidden /\ Names(p, A) = A
    BY <1>3 DEF Offered, Names
  <2>2. c \in Selected(p, D)
    BY <2>1, AllSelects
  <2>3. c \in Offered(p, {"all"})
    BY <1>1, <2>1, <2>2 DEF Offered
  <2>4. /\ ResolveForFeatures(p, A)[c] = Resolve(p, A)[c]
        /\ ResolveForFeatures(p, {"all"})[c] = Resolve(p, D)[c]
    BY <1>1, <2>1, <2>2, <2>3 DEF ResolveForFeatures, Resolve
  <2>5. RefsOf(p, Surviving(p, A, c)) \subseteq RefsOf(p, Surviving(p, D, c))
    BY AllSurvives
  <2>6. RefsOf(p, Requested(p, A)) \subseteq RefsOf(p, Requested(p, D))
    BY AllRequests
  <2>7. Resolve(p, A)[c].feats \subseteq Resolve(p, D)[c].feats
    <3>1. Augments(RefsOf(p, Surviving(p, A, c)), "strong", c)
             \subseteq Augments(RefsOf(p, Surviving(p, D, c)), "strong", c)
      BY <2>5, RefsGrow
    <3>2. Augments(RefsOf(p, Requested(p, A)), "weak", c)
             \subseteq Augments(RefsOf(p, Requested(p, D)), "weak", c)
      BY <2>6, RefsGrow
    <3>3. Resolve(p, A)[c].feats =
             p.crates[c].feats
                \cup Augments(RefsOf(p, Surviving(p, A, c)), "strong", c)
                \cup Augments(RefsOf(p, Requested(p, A)), "weak", c)
      BY <2>1, ResolvedFeats
    <3>4. Resolve(p, D)[c].feats =
             p.crates[c].feats
                \cup Augments(RefsOf(p, Surviving(p, D, c)), "strong", c)
                \cup Augments(RefsOf(p, Requested(p, D)), "weak", c)
      BY <2>2, ResolvedFeats
    <3>5. QED
      BY <3>1, <3>2, <3>3, <3>4
  <2>8. QED
    BY <2>3, <2>4, <2>7
<1>4. QED
  BY <1>2, <1>3

(* --all-features offers whatever any selection offers, for every pack. *)
THEOREM AllFeaturesDominate == SelectionSpec => []AllDominates
<1>1. TypeOK => AllDominates
  BY AllIsWidest, PacksWellFormed DEF TypeOK, AllDominates
<1>2. QED
  BY <1>1, TypeInvariance, PTL

-----------------------------------------------------------------------------
(* What expansion computes: the least closed set. *)
LEMMA ExpandedLeast ==
    ASSUME NEW p, NEW F \in SUBSET DOMAIN p.features
    PROVE  /\ F \subseteq Expanded(p, F)
           /\ Expanded(p, F) \subseteq DOMAIN p.features
           /\ Closed(p, Expanded(p, F))
           /\ \A G \in SUBSET DOMAIN p.features : F \subseteq G /\ Closed(p, G) => Expanded(p, F) \subseteq G
<1>1. F \subseteq Expanded(p, F) /\ Expanded(p, F) \subseteq DOMAIN p.features
  BY DEF Expanded
<1>2. Closed(p, Expanded(p, F))
  <2> SUFFICES ASSUME NEW f \in Expanded(p, F), NEW r \in p.features[f], IsLocal(p, r),
                      NEW G \in SUBSET DOMAIN p.features, F \subseteq G, Closed(p, G)
               PROVE  r.name \in G
    BY DEF Closed, Expanded, IsLocal
  <2>1. f \in G
    BY DEF Expanded
  <2>2. QED
    BY <2>1 DEF Closed
<1>3. QED
  BY <1>1, <1>2 DEF Expanded

-----------------------------------------------------------------------------
(* The stack. *)

RefsAll(p) == UNION {p.features[f] : f \in DOMAIN p.features}

Calls(p) == {c \in [feature : DOMAIN p.features, refs : SUBSET RefsAll(p)] :
                c.refs \subseteq p.features[c.feature]}

Stacked == frames \in Seq(Calls(spec))

(* A loop that goes on: one reference less in the innermost call. *)
LEMMA PastIs ==
    ASSUME Stacked, Running, NEW r
    PROVE  LET n == Len(frames) IN
           /\ n \in Nat /\ n > 0 /\ DOMAIN frames = 1 .. n
           /\ Past(r) \in Seq(Calls(spec)) /\ DOMAIN Past(r) = 1 .. n
           /\ \A i \in 1 .. n :
                 /\ frames[i] \in Calls(spec)
                 /\ Past(r)[i].feature = frames[i].feature
                 /\ Past(r)[i].refs = IF i = n THEN frames[i].refs \ {r} ELSE frames[i].refs
<1> DEFINE n == Len(frames)
<1>1. n \in Nat /\ n > 0 /\ DOMAIN frames = 1 .. n /\ \A i \in 1 .. n : frames[i] \in Calls(spec)
  BY DEF Stacked, Running
<1>2. DOMAIN Past(r) = 1 .. n
      /\ \A i \in 1 .. n : Past(r)[i] = IF i = n THEN [frames[n] EXCEPT !.refs = @ \ {r}] ELSE frames[i]
  BY <1>1 DEF Past
<1>3. ASSUME NEW i \in 1 .. n
      PROVE  /\ Past(r)[i] \in Calls(spec)
             /\ Past(r)[i].feature = frames[i].feature
             /\ Past(r)[i].refs = IF i = n THEN frames[i].refs \ {r} ELSE frames[i].refs
  <2>1. frames[i] \in Calls(spec)
    BY <1>1
  <2>2. CASE i = n
    BY <1>2, <2>1, <2>2 DEF Calls
  <2>3. CASE i # n
    BY <1>2, <2>1, <2>3
  <2>4. QED
    BY <2>2, <2>3
<1>4. Past(r) \in Seq(Calls(spec))
  <2>1. Past(r) = [i \in 1 .. n |-> Past(r)[i]]
    BY <1>1, <1>2 DEF Past
  <2>2. [i \in 1 .. n |-> Past(r)[i]] \in [1 .. n -> Calls(spec)]
    BY <1>3
  <2> HIDE DEF n
  <2>3. QED
    BY <1>1, <2>1, <2>2
<1>5. QED
  BY <1>1, <1>2, <1>3, <1>4

(* One more call. *)
LEMMA OneMore ==
    ASSUME NEW S, NEW fs \in Seq(S), NEW c \in S
    PROVE  LET n == Len(fs) IN
           /\ n \in Nat /\ DOMAIN fs = 1 .. n
           /\ Append(fs, c) \in Seq(S) /\ Len(Append(fs, c)) = n + 1
           /\ DOMAIN Append(fs, c) = 1 .. n + 1
           /\ \A i \in 1 .. n : Append(fs, c)[i] = fs[i]
           /\ Append(fs, c)[n + 1] = c
OBVIOUS

(* One call less. *)
LEMMA OneLess ==
    ASSUME NEW S, NEW fs \in Seq(S), fs # <<>>
    PROVE  LET n == Len(fs)
               rest == SubSeq(fs, 1, n - 1) IN
           /\ n \in Nat /\ n > 0 /\ DOMAIN fs = 1 .. n
           /\ rest \in Seq(S) /\ Len(rest) = n - 1 /\ DOMAIN rest = 1 .. n - 1
           /\ \A i \in 1 .. n - 1 : rest[i] = fs[i]
<1> DEFINE n == Len(fs)
           rest == SubSeq(fs, 1, n - 1)
<1>1. n \in Nat /\ n > 0 /\ DOMAIN fs = 1 .. n /\ \A i \in 1 .. n : fs[i] \in S
  OBVIOUS
<1>2. rest = [i \in 1 .. n - 1 |-> fs[i]]
  BY <1>1
<1>3. rest \in Seq(S) /\ Len(rest) = n - 1
  <2> HIDE DEF n
  <2>1. n - 1 \in Nat /\ \A i \in 1 .. n - 1 : fs[i] \in S
    BY <1>1
  <2>2. QED
    BY <1>2, <2>1
<1>4. QED
  BY <1>1, <1>2, <1>3

-----------------------------------------------------------------------------
(* The expansion of a set of features F, as far as a walk has come: it has
   entered the features S and taken the references H, all but those in the
   frames. *)
LeftIn(fs, g, r) == \E i \in DOMAIN fs : fs[i].feature = g /\ r \in fs[i].refs

Walked(p, fs, F, S, H) ==
    /\ F \subseteq S /\ S \subseteq Expanded(p, F)
    /\ \A i \in DOMAIN fs : fs[i].feature \in S
    /\ \A g \in S : \A r \in p.features[g] : r \in H \/ LeftIn(fs, g, r)
    /\ \A r \in H : (\E g \in S : r \in p.features[g]) /\ (IsLocal(p, r) => r.name \in S)

(* Nothing is expanded yet. *)
LEMMA NoWalk == Walked(spec, <<>>, {}, {}, {})
  BY NoneHas DEF Walked

(* The walk of one more feature begins. *)
LEMMA WalkBegins ==
    ASSUME NEW F \in SUBSET DOMAIN spec.features, NEW S, NEW H, Walked(spec, <<>>, F, S, H),
           NEW f \in DOMAIN spec.features
    PROVE  Walked(spec, <<Called(spec.features[f], f)>>, F \cup {f}, S \cup {f}, H)
<1> DEFINE fs == <<Called(spec.features[f], f)>>
<1>1. DOMAIN fs = {1} /\ fs[1].feature = f /\ fs[1].refs = spec.features[f]
  BY DEF Called
<1>2. f \in Expanded(spec, F \cup {f}) /\ Expanded(spec, F) \subseteq Expanded(spec, F \cup {f})
  BY ExpandedLeast, ExpandedGrows
<1>3. \A r \in spec.features[f] : LeftIn(fs, f, r)
  BY <1>1 DEF LeftIn
<1>4. \A g, r : ~LeftIn(<<>>, g, r)
  BY NoneHas DEF LeftIn
<1> HIDE DEF fs
<1>5. QED
  <2>1. F \cup {f} \subseteq S \cup {f} /\ S \cup {f} \subseteq Expanded(spec, F \cup {f})
    BY <1>2 DEF Walked
  <2>2. \A i \in DOMAIN fs : fs[i].feature \in S \cup {f}
    BY <1>1
  <2>3. \A g \in S \cup {f} : \A r \in spec.features[g] : r \in H \/ LeftIn(fs, g, r)
    BY <1>3, <1>4 DEF Walked
  <2>4. \A r \in H : (\E g \in S \cup {f} : r \in spec.features[g])
                         /\ (IsLocal(spec, r) => r.name \in S \cup {f})
    BY DEF Walked
  <2>5. QED
    BY <2>1, <2>2, <2>3, <2>4 DEF Walked, fs

(* The innermost loop has taken a reference that is no feature, or one that is
   being expanded. *)
LEMMA WalkTakes ==
    ASSUME Stacked, Running, NEW r \in Top.refs, NEW F, NEW S, NEW H, Walked(spec, frames, F, S, H),
           IsLocal(spec, r) => r.name \in S
    PROVE  Walked(spec, Past(r), F, S, H \cup {r})
<1> DEFINE n == Len(frames)
<1>1. /\ n \in Nat /\ n > 0 /\ DOMAIN frames = 1 .. n /\ DOMAIN Past(r) = 1 .. n
      /\ \A i \in 1 .. n :
            /\ frames[i] \in Calls(spec)
            /\ Past(r)[i].feature = frames[i].feature
            /\ Past(r)[i].refs = IF i = n THEN frames[i].refs \ {r} ELSE frames[i].refs
  BY PastIs
<1> HIDE DEF n
<1>2. frames[n].feature \in S /\ r \in spec.features[frames[n].feature]
  <2>1. n \in 1 .. n
    BY <1>1
  <2>2. QED
    BY <1>1, <2>1 DEF Walked, Top, n, Calls
<1>3. ASSUME NEW g, NEW q, LeftIn(frames, g, q), q # r
      PROVE  LeftIn(Past(r), g, q)
  BY <1>1, <1>3 DEF LeftIn
<1>4. QED
  BY <1>1, <1>2, <1>3 DEF Walked

(* It expands a feature. *)
LEMMA WalkExpands ==
    ASSUME Stacked, Running, NEW r \in Top.refs, NEW F, NEW S, NEW H, Walked(spec, frames, F, S, H),
           F \subseteq DOMAIN spec.features, IsLocal(spec, r)
    PROVE  Walked(spec, Append(Past(r), Called(spec.features[r.name], r.name)), F, S \cup {r.name}, H \cup {r})
<1> DEFINE n == Len(frames)
           c == Called(spec.features[r.name], r.name)
           fs == Append(Past(r), c)
<1>1. /\ n \in Nat /\ n > 0 /\ DOMAIN frames = 1 .. n /\ DOMAIN Past(r) = 1 .. n
      /\ Past(r) \in Seq(Calls(spec))
      /\ \A i \in 1 .. n :
            /\ frames[i] \in Calls(spec)
            /\ Past(r)[i].feature = frames[i].feature
            /\ Past(r)[i].refs = IF i = n THEN frames[i].refs \ {r} ELSE frames[i].refs
  BY PastIs
<1>2. c \in Calls(spec) /\ c.feature = r.name /\ c.refs = spec.features[r.name]
  BY DEF Called, Calls, IsLocal, RefsAll
<1>3. Len(Past(r)) = n
  <2> HIDE DEF n
  <2>1. Len(Past(r)) \in Nat /\ 1 .. Len(Past(r)) = 1 .. n
    BY <1>1, ListLen
  <2>2. QED
    BY <1>1, <2>1
<1> HIDE DEF n, c
<1>4. /\ DOMAIN fs = 1 .. n + 1 /\ fs[n + 1] = c
      /\ \A i \in 1 .. n : fs[i] = Past(r)[i]
  BY <1>1, <1>2, <1>3, OneMore
<1> HIDE DEF fs
<1>5. frames[n].feature \in S /\ r \in spec.features[frames[n].feature]
  <2>1. n \in 1 .. n
    BY <1>1
  <2>2. QED
    BY <1>1, <2>1 DEF Walked, Top, n, Calls
<1>6. r.name \in Expanded(spec, F)
  BY <1>5, ExpandedLeast DEF Walked, Closed
<1>7. ASSUME NEW g, NEW q, LeftIn(frames, g, q), q # r
      PROVE  LeftIn(fs, g, q)
  <2>1. PICK i \in 1 .. n : frames[i].feature = g /\ q \in frames[i].refs
    BY <1>1, <1>7 DEF LeftIn
  <2>2. i \in 1 .. n + 1 /\ fs[i].feature = g /\ q \in fs[i].refs
    <3>1. i \in 1 .. n + 1 /\ fs[i] = Past(r)[i]
      BY <1>1, <1>4
    <3>2. Past(r)[i].feature = g /\ q \in Past(r)[i].refs
      BY <1>1, <1>7, <2>1
    <3>3. QED
      BY <3>1, <3>2
  <2>3. QED
    BY <1>4, <2>2 DEF LeftIn
<1>8. \A q \in spec.features[r.name] : LeftIn(fs, r.name, q)
  <2>1. n + 1 \in DOMAIN fs
    BY <1>1, <1>4
  <2>2. QED
    BY <1>2, <1>4, <2>1 DEF LeftIn
<1>9. \A i \in DOMAIN fs : fs[i].feature \in S \cup {r.name}
  <2> SUFFICES ASSUME NEW i \in 1 .. n + 1 PROVE fs[i].feature \in S \cup {r.name}
    BY <1>4
  <2>1. CASE i \in 1 .. n
    BY <1>1, <1>4, <2>1 DEF Walked
  <2>2. CASE i = n + 1
    BY <1>2, <1>4, <2>2
  <2>3. QED
    BY <1>1, <2>1, <2>2
<1>10. QED
  <2>1. F \subseteq S \cup {r.name} /\ S \cup {r.name} \subseteq Expanded(spec, F)
    BY <1>6 DEF Walked
  <2>2. \A g \in S \cup {r.name} : \A q \in spec.features[g] : q \in H \cup {r} \/ LeftIn(fs, g, q)
    BY <1>7, <1>8 DEF Walked
  <2>3. \A q \in H \cup {r} : /\ \E g \in S \cup {r.name} : q \in spec.features[g]
                              /\ IsLocal(spec, q) => q.name \in S \cup {r.name}
    BY <1>5 DEF Walked
  <2>4. QED
    BY <1>9, <2>1, <2>2, <2>3 DEF Walked, fs, c

(* A call that has taken all its references returns. *)
LEMMA WalkReturns ==
    ASSUME Stacked, Running, Top.refs = {}, NEW F, NEW S, NEW H, Walked(spec, frames, F, S, H)
    PROVE  Walked(spec, SubSeq(frames, 1, Len(frames) - 1), F, S, H)
<1> DEFINE n == Len(frames)
           rest == SubSeq(frames, 1, n - 1)
<1>1. /\ n \in Nat /\ n > 0 /\ DOMAIN frames = 1 .. n
      /\ DOMAIN rest = 1 .. n - 1 /\ \A i \in 1 .. n - 1 : rest[i] = frames[i]
  BY OneLess DEF Stacked, Running
<1>2. frames[n].refs = {}
  BY DEF Top
<1> HIDE DEF n, rest
<1>3. ASSUME NEW g, NEW q, LeftIn(frames, g, q)
      PROVE  LeftIn(rest, g, q)
  <2>1. PICK i \in 1 .. n : frames[i].feature = g /\ q \in frames[i].refs
    BY <1>1, <1>3 DEF LeftIn
  <2>2. i \in 1 .. n - 1
    BY <1>1, <1>2, <2>1
  <2>3. QED
    BY <1>1, <2>1, <2>2 DEF LeftIn
<1>4. QED
  BY <1>1, <1>3 DEF Walked, rest, n

(* When none runs, the expansion is complete. *)
LEMMA WalkEnds ==
    ASSUME NEW F \in SUBSET DOMAIN spec.features, NEW S, NEW H, Walked(spec, <<>>, F, S, H)
    PROVE  H = RefsOf(spec, F)
<1>1. \A g, r : ~LeftIn(<<>>, g, r)
  BY NoneHas DEF LeftIn
<1>2. S \subseteq DOMAIN spec.features /\ F \subseteq S
  BY ExpandedLeast DEF Walked
<1>3. Closed(spec, S)
  BY <1>1 DEF Walked, Closed
<1>4. S = Expanded(spec, F)
  BY <1>2, <1>3, ExpandedLeast DEF Walked
<1>5. QED
  BY <1>1, <1>4 DEF Walked, RefsOf
-----------------------------------------------------------------------------
(* resolve_crates, half-way. *)

Asked(a) == IF a = {} THEN {"default"} ELSE a

Taken(a, td) == Asked(a) \ td

(* The default set of a pack without a `default` feature has been inserted. *)
Inserted(p, a, td) == "default" \in Taken(a, td) /\ "default" \notin DOMAIN p.features

(* The crates, when the references H have been taken, K of them since. *)
Built(p, inserted, H, K) ==
    [c \in Activated(p, H) \cup (IF inserted THEN NonOptional(p) ELSE {}) |->
        p.crates[c].feats
           \cup Augments(IF inserted /\ c \in NonOptional(p) THEN K ELSE H, "strong", c)]

Weak(H) == {<<r.name, r.feature>> : r \in {q \in H : q.form = "weak"}}

(* What comes before "default" has come before it. *)
InOrder(a, td) ==
    /\ td \subseteq Asked(a)
    /\ "default" \in td => Taken(a, td) \subseteq BeforeDefault
    /\ "default" \in Taken(a, td) => td \cap BeforeDefault = {}

(* One walk of all it has taken, one of what it has taken since the insert. *)
ResolvedSoFar(p, a, td, fs, res, pen) ==
    /\ InOrder(a, td)
    /\ \E S, H, T, K :
          /\ Walked(p, fs, Taken(a, td) \cap DOMAIN p.features, S, H)
          /\ Inserted(p, a, td) =>
                Walked(p, fs, (Taken(a, td) \ BeforeDefault) \cap DOMAIN p.features, T, K)
          /\ res = Built(p, Inserted(p, a, td), H, K)
          /\ pen = Weak(H)

SoFar == ResolvedSoFar(spec, active, todo, frames, result, pending)

(* A call begins with nothing. *)
LEMMA ResolveBegins == ResolvedSoFar(spec, active, Asked(active), <<>>, Nothing, {})
<1>1. Taken(active, Asked(active)) = {} /\ Taken(active, Asked(active)) \cap DOMAIN spec.features = {}
  BY DEF Taken
<1>2. ~Inserted(spec, active, Asked(active))
  BY <1>1 DEF Inserted
<1>3. InOrder(active, Asked(active))
  BY <1>1 DEF InOrder
<1>4. Nothing = Built(spec, FALSE, {}, {})
  <2>1. Activated(spec, {}) = {}
    BY DEF Activated
  <2>2. QED
    BY <2>1 DEF Nothing, Built
<1>5. Weak({}) = {}
  BY DEF Weak
<1>6. Inserted(spec, active, Asked(active)) = FALSE
  BY <1>2 DEF Inserted
<1>7. Walked(spec, <<>>, Taken(active, Asked(active)) \cap DOMAIN spec.features, {}, {})
  BY <1>1, NoWalk
<1>8. QED
  BY <1>2, <1>3, <1>4, <1>5, <1>6, <1>7 DEF ResolvedSoFar

(* The next feature of the selection. *)
LEMMA FeatureTaken ==
    ASSUME SoFar, NEW f \in todo, TakesFeature(f)
    PROVE  ResolvedSoFar(spec, active, todo', frames', result', pending')
<1> DEFINE F == Taken(active, todo)
           G == Taken(active, todo')
           D == DOMAIN spec.features
<1>1. frames = <<>> /\ todo' = todo \ {f} /\ Comes(f) /\ pending' = pending
  BY DEF TakesFeature, Running
<1>2. G = F \cup {f} /\ f \notin F
  BY <1>1 DEF SoFar, ResolvedSoFar, InOrder, Taken
<1>3. InOrder(active, todo')
  <2>1. InOrder(active, todo)
    BY DEF SoFar, ResolvedSoFar
  <2>2. todo' \subseteq Asked(active)
    BY <1>1, <2>1 DEF InOrder
  <2>3. ASSUME "default" \in todo'
        PROVE  G \subseteq BeforeDefault
    <3>1. "default" \in todo /\ f # "default"
      BY <1>1, <2>3
    <3>2. f \in BeforeDefault
      BY <1>1, <3>1 DEF Comes
    <3>3. QED
      BY <1>2, <2>1, <3>1, <3>2 DEF InOrder
  <2>4. ASSUME "default" \in G
        PROVE  todo' \cap BeforeDefault = {}
    <3>1. CASE f = "default"
      BY <1>1, <3>1, OrderAssumption DEF Comes
    <3>2. CASE f # "default"
      BY <1>1, <1>2, <2>1, <2>4, <3>2 DEF InOrder
    <3>3. QED
      BY <3>1, <3>2
  <2>5. QED
    BY <2>2, <2>3, <2>4 DEF InOrder
<1>4. PICK S, H, T, K :
          /\ Walked(spec, <<>>, F \cap D, S, H)
          /\ Inserted(spec, active, todo) => Walked(spec, <<>>, (F \ BeforeDefault) \cap D, T, K)
          /\ result = Built(spec, Inserted(spec, active, todo), H, K)
          /\ pending = Weak(H)
  BY <1>1 DEF SoFar, ResolvedSoFar
<1>5. CASE f \in D
  <2> DEFINE fs == <<Called(spec.features[f], f)>>
  <2>1. frames' = fs /\ result' = result
    BY <1>5 DEF TakesFeature
  <2>2. Inserted(spec, active, todo') = Inserted(spec, active, todo)
    BY <1>2, <1>5 DEF Inserted
  <2>3. G \cap D = (F \cap D) \cup {f}
    BY <1>2, <1>5
  <2>4. Walked(spec, fs, G \cap D, S \cup {f}, H)
    <3>1. F \cap D \in SUBSET D
      OBVIOUS
    <3> HIDE DEF F, G, D
    <3>2. Walked(spec, <<Called(spec.features[f], f)>>, (F \cap D) \cup {f}, S \cup {f}, H)
      BY <1>4, <1>5, <3>1, WalkBegins DEF D
    <3>3. QED
      BY <2>3, <3>2
  <2>5. ASSUME Inserted(spec, active, todo)
        PROVE  Walked(spec, fs, (G \ BeforeDefault) \cap D, T \cup {f}, K)
    <3>1. f \notin BeforeDefault
      BY <2>5 DEF SoFar, ResolvedSoFar, InOrder, Inserted
    <3>2. (G \ BeforeDefault) \cap D = ((F \ BeforeDefault) \cap D) \cup {f}
      BY <1>2, <1>5, <3>1
    <3>3. QED
      <4>1. (F \ BeforeDefault) \cap D \in SUBSET D
        OBVIOUS
      <4> HIDE DEF F, G, D
      <4>2. Walked(spec, <<Called(spec.features[f], f)>>, ((F \ BeforeDefault) \cap D) \cup {f},
                   T \cup {f}, K)
        BY <1>4, <1>5, <2>5, <4>1, WalkBegins DEF D
      <4>3. QED
        BY <3>2, <4>2
  <2> HIDE DEF fs
  <2>6. QED
    BY <1>1, <1>3, <1>4, <2>1, <2>2, <2>4, <2>5 DEF ResolvedSoFar
<1>6. CASE f \notin D /\ f # "default"
  <2>1. frames' = <<>> /\ result' = result
    BY <1>6 DEF TakesFeature
  <2>2. Inserted(spec, active, todo') = Inserted(spec, active, todo)
    BY <1>2, <1>6 DEF Inserted
  <2>3. G \cap D = F \cap D /\ (G \ BeforeDefault) \cap D = (F \ BeforeDefault) \cap D
    BY <1>2, <1>6
  <2>4. QED
    BY <1>1, <1>3, <1>4, <2>1, <2>2, <2>3 DEF ResolvedSoFar
<1>7. CASE f \notin D /\ f = "default"
  <2>1. frames' = <<>> /\ result' = DefaultCrates
    BY <1>7 DEF TakesFeature
  <2>2. Inserted(spec, active, todo') /\ ~Inserted(spec, active, todo)
    BY <1>2, <1>7 DEF Inserted
  <2>3. G \cap D = F \cap D /\ (G \ BeforeDefault) \cap D = {}
    BY <1>2, <1>7 DEF SoFar, ResolvedSoFar, InOrder
  <2>4. DefaultCrates = Built(spec, TRUE, H, {})
    <3>1. result = Built(spec, FALSE, H, K)
      <4>1. Inserted(spec, active, todo) = FALSE
        BY <2>2 DEF Inserted
      <4>2. QED
        BY <1>4, <4>1
    <3>2. DOMAIN result = Activated(spec, H)
      BY <3>1 DEF Built
    <3>3. ASSUME NEW c \in Activated(spec, H) \ NonOptional(spec)
          PROVE  result[c] = spec.crates[c].feats \cup Augments(H, "strong", c)
      BY <3>1 DEF Built
    <3>4. \A c : Augments({}, "strong", c) = {}
      BY DEF Augments
    <3>5. QED
      BY <3>2, <3>3, <3>4 DEF DefaultCrates, Built
  <2>5. QED
    BY <1>1, <1>3, <1>4, <2>1, <2>2, <2>3, <2>4, NoWalk DEF ResolvedSoFar
<1>8. QED
  BY <1>5, <1>6, <1>7

(* A reference that is neither local nor weak changes the crates. *)
LEMMA BuiltMore ==
    ASSUME NEW H, NEW K, NEW inserted \in BOOLEAN, result = Built(spec, inserted, H, K),
           NEW r, r.form # "weak", ~IsLocal(spec, r)
    PROVE  AddDep(r.name, Extra(r)) = Built(spec, inserted, H \cup {r}, K \cup {r})
<1> DEFINE D == Activated(spec, H) \cup (IF inserted THEN NonOptional(spec) ELSE {})
           R(c) == IF inserted /\ c \in NonOptional(spec) THEN K ELSE H
<1>1. Activated(spec, H \cup {r})
         = Activated(spec, H) \cup (IF r.name \in DOMAIN spec.crates THEN {r.name} ELSE {})
  BY DEF Activated
<1>2. \A Q, c : Augments(Q \cup {r}, "strong", c)
                   = Augments(Q, "strong", c) \cup (IF c = r.name THEN Extra(r) ELSE {})
  BY DEF Augments, Extra
<1>3. DOMAIN result = D /\ \A c \in D : result[c] = spec.crates[c].feats \cup Augments(R(c), "strong", c)
  BY DEF Built
<1>4. CASE r.name \notin DOMAIN spec.crates
  <2>1. \A c \in D : c # r.name
    BY <1>4 DEF Activated, NonOptional
  <2>2. QED
    BY <1>1, <1>2, <1>4, <2>1 DEF AddDep, Built
<1>5. CASE r.name \in DOMAIN spec.crates
  <2> DEFINE new == AddDep(r.name, Extra(r))
             E == D \cup {r.name}
  <2>1. new = [x \in E |->
                 (IF x \in D THEN result[x] ELSE {})
                    \cup (IF x = r.name THEN spec.crates[r.name].feats \cup Extra(r) ELSE {})]
    BY <1>3, <1>5 DEF AddDep
  <2>2. r.name \notin D => Augments(R(r.name), "strong", r.name) = {}
    BY <1>5 DEF Activated, Augments, IsLocal
  <2>3. ASSUME NEW x \in E
        PROVE  (IF x \in D THEN result[x] ELSE {})
                   \cup (IF x = r.name THEN spec.crates[r.name].feats \cup Extra(r) ELSE {})
               = spec.crates[x].feats \cup Augments(R(x) \cup {r}, "strong", x)
    <3>1. CASE x \in D
      BY <1>2, <1>3, <3>1
    <3>2. CASE x \notin D
      BY <1>2, <2>2, <3>2
    <3>3. QED
      BY <3>1, <3>2
  <2>4. Built(spec, inserted, H \cup {r}, K \cup {r})
          = [x \in E |-> spec.crates[x].feats \cup Augments(R(x) \cup {r}, "strong", x)]
    BY <1>1, <1>5 DEF Built
  <2> HIDE DEF E, D, R, new
  <2>5. [x \in E |->
            (IF x \in D THEN result[x] ELSE {})
               \cup (IF x = r.name THEN spec.crates[r.name].feats \cup Extra(r) ELSE {})]
          = [x \in E |-> spec.crates[x].feats \cup Augments(R(x) \cup {r}, "strong", x)]
    BY <2>3
  <2>6. QED
    BY <2>1, <2>4, <2>5 DEF new
<1>6. QED
  BY <1>4, <1>5

(* A local reference or a weak one does not. *)
LEMMA BuiltSame ==
    ASSUME NEW H, NEW K, NEW inserted \in BOOLEAN, NEW r, r.form = "weak" \/ IsLocal(spec, r)
    PROVE  Built(spec, inserted, H, K) = Built(spec, inserted, H \cup {r}, K \cup {r})
<1>1. Activated(spec, H \cup {r}) = Activated(spec, H)
  BY DEF Activated
<1>2. \A Q, c : Augments(Q \cup {r}, "strong", c) = Augments(Q, "strong", c)
  BY DEF Augments, IsLocal
<1>3. \A c : Augments(IF inserted /\ c \in NonOptional(spec) THEN K \cup {r} ELSE H \cup {r}, "strong", c)
                = Augments(IF inserted /\ c \in NonOptional(spec) THEN K ELSE H, "strong", c)
  BY <1>2
<1>4. QED
  BY <1>1, <1>3 DEF Built

(* One reference is taken. *)
LEMMA RefTaken ==
    ASSUME SoFar, Stacked, NEW r, Running, r \in Top.refs, Expands(r) \/ Defers(r) \/ Adds(r)
    PROVE  ResolvedSoFar(spec, active, todo', frames', result', pending')
<1> DEFINE F == Taken(active, todo) \cap DOMAIN spec.features
           G == (Taken(active, todo) \ BeforeDefault) \cap DOMAIN spec.features
           ins == Inserted(spec, active, todo)
<1>1. PICK S, H, T, K :
          /\ Walked(spec, frames, F, S, H)
          /\ ins => Walked(spec, frames, G, T, K)
          /\ result = Built(spec, ins, H, K) /\ pending = Weak(H)
  BY DEF SoFar, ResolvedSoFar
<1>2. todo' = todo
  BY DEF Expands, Defers, Adds
<1>3. InOrder(active, todo)
  BY DEF SoFar, ResolvedSoFar
<1>4. Weak(H \cup {r}) = Weak(H) \cup (IF r.form = "weak" THEN {<<r.name, r.feature>>} ELSE {})
  BY DEF Weak
<1>5. ins \in BOOLEAN
  BY DEF Inserted
<1>6. SUFFICES \E U, V : /\ Walked(spec, frames', F, U, H \cup {r})
                         /\ ins => Walked(spec, frames', G, V, K \cup {r})
                         /\ result' = Built(spec, ins, H \cup {r}, K \cup {r})
                         /\ pending' = Weak(H \cup {r})
  BY <1>2, <1>3 DEF ResolvedSoFar
<1> HIDE DEF F, G, ins
<1>7. CASE Expands(r) /\ r.name \in Visiting
  <2>1. IsLocal(spec, r) /\ r.form # "weak" /\ frames' = Past(r) /\ UNCHANGED <<result, pending>>
    BY <1>7 DEF Expands, IsLocal
  <2>2. \E i \in DOMAIN frames : frames[i].feature = r.name
    BY <1>7 DEF Visiting, Stacked
  <2>3. r.name \in S /\ (ins => r.name \in T)
    BY <1>1, <2>2 DEF Walked
  <2>4. Walked(spec, Past(r), F, S, H \cup {r}) /\ (ins => Walked(spec, Past(r), G, T, K \cup {r}))
    BY <1>1, <2>3, WalkTakes
  <2>5. QED
    BY <1>1, <1>4, <1>5, <2>1, <2>4, BuiltSame
<1>8. CASE Expands(r) /\ r.name \notin Visiting
  <2> DEFINE fs == Append(Past(r), Called(spec.features[r.name], r.name))
  <2>1. IsLocal(spec, r) /\ r.form # "weak" /\ frames' = fs /\ UNCHANGED <<result, pending>>
    BY <1>8 DEF Expands, IsLocal
  <2>2. F \subseteq DOMAIN spec.features /\ G \subseteq DOMAIN spec.features
    BY DEF F, G
  <2>3. Walked(spec, fs, F, S \cup {r.name}, H \cup {r})
        /\ (ins => Walked(spec, fs, G, T \cup {r.name}, K \cup {r}))
    BY <1>1, <2>1, <2>2, WalkExpands
  <2> HIDE DEF fs
  <2>4. result' = Built(spec, ins, H \cup {r}, K \cup {r}) /\ pending' = Weak(H \cup {r})
    <3>1. Built(spec, ins, H, K) = Built(spec, ins, H \cup {r}, K \cup {r})
      BY <1>5, <2>1, BuiltSame
    <3>2. Weak(H \cup {r}) = Weak(H)
      BY <1>4, <2>1
    <3>3. QED
      BY <1>1, <2>1, <3>1, <3>2
  <2>5. QED
    BY <2>1, <2>3, <2>4
<1>9. CASE Defers(r)
  <2>1. r.form = "weak" /\ ~IsLocal(spec, r) /\ frames' = Past(r) /\ result' = result
        /\ pending' = pending \cup {<<r.name, r.feature>>}
    BY <1>9 DEF Defers, IsLocal
  <2>2. Walked(spec, Past(r), F, S, H \cup {r}) /\ (ins => Walked(spec, Past(r), G, T, K \cup {r}))
    BY <1>1, <2>1, WalkTakes
  <2>3. QED
    BY <1>1, <1>4, <1>5, <2>1, <2>2, BuiltSame
<1>10. CASE Adds(r)
  <2>1. r.form # "weak" /\ ~IsLocal(spec, r) /\ frames' = Past(r) /\ pending' = pending
        /\ result' = AddDep(r.name, Extra(r))
    BY <1>10 DEF Adds
  <2>2. Walked(spec, Past(r), F, S, H \cup {r}) /\ (ins => Walked(spec, Past(r), G, T, K \cup {r}))
    BY <1>1, <2>1, WalkTakes
  <2>3. result' = Built(spec, ins, H \cup {r}, K \cup {r}) /\ pending' = Weak(H \cup {r})
    BY <1>1, <1>4, <1>5, <2>1, BuiltMore
  <2>4. QED
    BY <2>1, <2>2, <2>3
<1>11. QED
  BY <1>7, <1>8, <1>9, <1>10

(* A call returns. *)
LEMMA CallReturned ==
    ASSUME SoFar, Stacked, Returns
    PROVE  ResolvedSoFar(spec, active, todo', frames', result', pending')
<1>1. /\ Running /\ Top.refs = {} /\ frames' = SubSeq(frames, 1, Len(frames) - 1)
      /\ todo' = todo /\ result' = result /\ pending' = pending
  BY DEF Returns
<1>2. \A F, S, H : Walked(spec, frames, F, S, H) => Walked(spec, frames', F, S, H)
  BY <1>1, WalkReturns
<1>3. QED
  BY <1>1, <1>2 DEF SoFar, ResolvedSoFar
(* The call returns what the closed form says. *)
LEMMA CallResolved ==
    ASSUME WellFormed(spec), SoFar, Resolved
    PROVE  result' = [c \in Selected(spec, active) |-> Resolve(spec, active)[c].feats]
<1> DEFINE F == Requested(spec, active)
           G == F \ BeforeDefault
           ins == TakesNonOptional(spec, active)
           All == RefsOf(spec, F)
           Late == RefsOf(spec, G)
           Sel == Selected(spec, active)
<1>1. frames = <<>> /\ todo = {}
  BY DEF Resolved, Running
<1>2. Taken(active, todo) = Asked(active)
  BY <1>1 DEF Taken
<1>3. Taken(active, todo) \cap DOMAIN spec.features = F
      /\ (Taken(active, todo) \ BeforeDefault) \cap DOMAIN spec.features = G
  BY <1>2 DEF Asked, Requested
<1>4. Inserted(spec, active, todo) = ins
  BY <1>2 DEF Inserted, TakesNonOptional, Asked
<1>5. PICK S, H, T, K :
          /\ Walked(spec, <<>>, F, S, H)
          /\ ins => Walked(spec, <<>>, G, T, K)
          /\ result = Built(spec, ins, H, K) /\ pending = Weak(H)
  BY <1>1, <1>3, <1>4 DEF SoFar, ResolvedSoFar
<1>6. F \in SUBSET DOMAIN spec.features /\ G \in SUBSET DOMAIN spec.features
  BY DEF Requested
<1> HIDE DEF F, G, ins
<1>7. H = All /\ (ins => K = Late)
  BY <1>5, <1>6, WalkEnds
<1>8. DOMAIN result = Activated(spec, All) \cup (IF ins THEN NonOptional(spec) ELSE {})
  BY <1>5, <1>7 DEF Built
<1>9. DOMAIN Based = Sel /\ DOMAIN result \subseteq Sel
  BY <1>8 DEF Based, Selected, F, ins
<1>10. ASSUME NEW c \in Sel
       PROVE  Based[c] = spec.crates[c].feats
                            \cup Augments(RefsOf(spec, Surviving(spec, active, c)), "strong", c)
  <2>1. Surviving(spec, active, c) = IF ins /\ c \in NonOptional(spec) THEN G ELSE F
    BY DEF Surviving, ins, F, G
  <2>2. CASE c \in DOMAIN result
    <3>1. Based[c] = result[c]
      BY <2>2 DEF Based
    <3>2. result[c] = spec.crates[c].feats
                         \cup Augments(IF ins /\ c \in NonOptional(spec) THEN K ELSE H, "strong", c)
      BY <1>5, <2>2 DEF Built
    <3>3. QED
      BY <1>7, <2>1, <3>1, <3>2
  <2>3. CASE c \notin DOMAIN result
    <3>1. Based[c] = spec.crates[c].feats
      BY <1>9, <2>3 DEF Based
    <3>2. c \in DOMAIN spec.crates
      BY DEF Selected, Activated, NonOptional, Unconditional, Visible
    <3>3. Augments(All, "strong", c) = {}
      BY <1>8, <2>3, <3>2 DEF Augments, Activated, IsLocal
    <3>4. ~(ins /\ c \in NonOptional(spec))
      BY <1>8, <2>3
    <3>5. QED
      BY <2>1, <3>1, <3>3, <3>4
  <2>4. QED
    BY <2>2, <2>3
<1>11. ASSUME NEW c
       PROVE  {w[2] : w \in {v \in pending : v[1] = c}} = Augments(All, "weak", c)
  <2>1. pending = Weak(All)
    BY <1>5, <1>7
  <2>2. ASSUME NEW w \in pending, w[1] = c
        PROVE  w[2] \in Augments(All, "weak", c)
    BY <2>1, <2>2 DEF Weak, Augments
  <2>3. ASSUME NEW x \in Augments(All, "weak", c)
        PROVE  <<c, x>> \in pending
    BY <2>1, <2>3 DEF Weak, Augments
  <2>4. \A x : <<c, x>>[1] = c /\ <<c, x>>[2] = x
    OBVIOUS
  <2>5. QED
    BY <2>2, <2>3, <2>4
<1>12. ASSUME NEW c \in Sel
       PROVE  Based[c] \cup {w[2] : w \in {v \in pending : v[1] = c}} = Resolve(spec, active)[c].feats
  BY <1>10, <1>11, ResolvedFeats DEF F
<1>13. result' = [c \in Sel |-> Based[c] \cup {w[2] : w \in {v \in pending : v[1] = c}}]
  BY <1>9 DEF Resolved
<1> HIDE DEF Sel
<1>14. QED
  BY <1>12, <1>13 DEF Sel

-----------------------------------------------------------------------------
(* The cycle search. *)

(* What a feature reaches. *)
Below(p, f) == Expanded(p, LocalRefs(p, f))

PathOf(fs) == {fs[i].feature : i \in DOMAIN fs}

(* A feature that is visited and not on the path is done: so is what it refers
   to, and it is on no cycle. A call on the path has references left, or is
   in the call they lead to. *)
DoneWith(p, fs, vis, g) ==
    /\ LocalRefs(p, g) \subseteq vis \ PathOf(fs)
    /\ g \notin Below(p, g)

(* The cycle search, as far as it has come. *)
Searched(p, td, fs, vis) ==
    /\ td \subseteq DOMAIN p.features /\ DOMAIN p.features \subseteq td \cup vis
    /\ vis \subseteq DOMAIN p.features /\ PathOf(fs) \subseteq vis
    /\ \A i, j \in DOMAIN fs : i < j => /\ fs[i].feature # fs[j].feature
                                        /\ fs[j].feature \in Below(p, fs[i].feature)
    /\ \A g \in vis \ PathOf(fs) : DoneWith(p, fs, vis, g)
    /\ \A i \in DOMAIN fs :
          /\ \A r \in fs[i].refs : IsLocal(p, r)
          /\ \A r \in p.features[fs[i].feature] :
                IsLocal(p, r) => \/ r \in fs[i].refs \/ r.name \in vis \ PathOf(fs)
                                 \/ i + 1 \in DOMAIN fs /\ r.name = fs[i + 1].feature

SearchedSoFar == Searched(spec, todo, frames, visited)

(* What a feature refers to is below it, and so is what that refers to. *)
LEMMA BelowIt ==
    ASSUME NEW p, NEW f \in DOMAIN p.features
    PROVE  /\ LocalRefs(p, f) \subseteq Below(p, f)
           /\ Below(p, f) \subseteq DOMAIN p.features
           /\ \A g \in Below(p, f) : LocalRefs(p, g) \subseteq Below(p, f)
           /\ \A G \in SUBSET DOMAIN p.features :
                 LocalRefs(p, f) \subseteq G /\ (\A g \in G : LocalRefs(p, g) \subseteq G)
                     => Below(p, f) \subseteq G
<1>1. LocalRefs(p, f) \in SUBSET DOMAIN p.features
  BY DEF LocalRefs, IsLocal
<1>2. \A G \in SUBSET DOMAIN p.features :
         Closed(p, G) <=> \A g \in G : LocalRefs(p, g) \subseteq G
  BY DEF Closed, LocalRefs
<1>3. QED
  BY <1>1, <1>2, ExpandedLeast DEF Below

(* A search begins. *)
LEMMA SearchBegins == Searched(spec, DOMAIN spec.features, <<>>, {})
  BY NoneHas DEF Searched, PathOf

(* The outer loop has come to a feature that was met before. *)
LEMMA StartSkipped ==
    ASSUME SearchedSoFar, frames = <<>>, NEW f \in todo, f \in visited
    PROVE  Searched(spec, todo \ {f}, <<>>, visited)
  BY DEF SearchedSoFar, Searched

(* It enters a new one. *)
LEMMA StartEnters ==
    ASSUME SearchedSoFar, frames = <<>>, NEW f \in todo, f \notin visited
    PROVE  Searched(spec, todo \ {f}, <<Called({r \in spec.features[f] : IsLocal(spec, r)}, f)>>,
                    visited \cup {f})
<1> DEFINE fs == <<Called({r \in spec.features[f] : IsLocal(spec, r)}, f)>>
<1>1. /\ DOMAIN fs = {1} /\ fs[1].feature = f
      /\ fs[1].refs = {r \in spec.features[f] : IsLocal(spec, r)}
  BY DEF Called
<1>2. PathOf(frames) = {}
  BY NoneHas DEF PathOf
<1>3. PathOf(fs) = {f}
  BY <1>1 DEF PathOf
<1>4. (visited \cup {f}) \ {f} = visited
  OBVIOUS
<1> HIDE DEF fs
<1>5. \A g \in visited : DoneWith(spec, fs, visited \cup {f}, g)
  BY <1>2, <1>3, <1>4 DEF SearchedSoFar, Searched, DoneWith
<1>6. Searched(spec, todo \ {f}, fs, visited \cup {f})
  <2>1. /\ todo \ {f} \subseteq DOMAIN spec.features
        /\ DOMAIN spec.features \subseteq (todo \ {f}) \cup (visited \cup {f})
        /\ visited \cup {f} \subseteq DOMAIN spec.features /\ PathOf(fs) \subseteq visited \cup {f}
    BY <1>3 DEF SearchedSoFar, Searched
  <2>2. \A i, j \in DOMAIN fs : ~(i < j)
    BY <1>1
  <2>3. \A g \in (visited \cup {f}) \ PathOf(fs) : DoneWith(spec, fs, visited \cup {f}, g)
    BY <1>3, <1>5
  <2>4. QED
    BY <1>1, <2>1, <2>2, <2>3 DEF Searched
<1>7. QED
  BY <1>6 DEF fs

(* The innermost loop goes on: over a reference to a feature that is done. *)
LEMMA FollowSkipped ==
    ASSUME SearchedSoFar, Stacked, Running, NEW r \in Top.refs, r.name \in visited, r.name \notin Stack
    PROVE  Searched(spec, todo, Past(r), visited)
<1> DEFINE n == Len(frames)
<1>1. /\ n \in Nat /\ n > 0 /\ DOMAIN frames = 1 .. n /\ DOMAIN Past(r) = 1 .. n
      /\ \A i \in 1 .. n :
            /\ Past(r)[i].feature = frames[i].feature
            /\ Past(r)[i].refs = IF i = n THEN frames[i].refs \ {r} ELSE frames[i].refs
  BY PastIs
<1>2. PathOf(Past(r)) = PathOf(frames) /\ PathOf(frames) = Stack
  BY <1>1 DEF PathOf, Stack
<1>3. r.name \in visited \ PathOf(Past(r))
  BY <1>2
<1> HIDE DEF n
<1>4. \A g \in visited \ PathOf(Past(r)) : DoneWith(spec, Past(r), visited, g)
  BY <1>2 DEF SearchedSoFar, Searched, DoneWith
<1>5. ASSUME NEW i \in 1 .. n
      PROVE  /\ \A q \in Past(r)[i].refs : IsLocal(spec, q)
             /\ \A q \in spec.features[Past(r)[i].feature] :
                   IsLocal(spec, q) =>
                      \/ q \in Past(r)[i].refs \/ q.name \in visited \ PathOf(Past(r))
                      \/ i + 1 \in 1 .. n /\ q.name = Past(r)[i + 1].feature
  BY <1>1, <1>2, <1>3 DEF SearchedSoFar, Searched
<1>6. \A i, j \in 1 .. n : i < j => /\ Past(r)[i].feature # Past(r)[j].feature
                                    /\ Past(r)[j].feature \in Below(spec, Past(r)[i].feature)
  <2> SUFFICES ASSUME NEW i \in 1 .. n, NEW j \in 1 .. n, i < j
               PROVE  /\ Past(r)[i].feature # Past(r)[j].feature
                      /\ Past(r)[j].feature \in Below(spec, Past(r)[i].feature)
    OBVIOUS
  <2>1. Past(r)[i].feature = frames[i].feature /\ Past(r)[j].feature = frames[j].feature
    BY <1>1
  <2>2. frames[i].feature # frames[j].feature /\ frames[j].feature \in Below(spec, frames[i].feature)
    BY <1>1 DEF SearchedSoFar, Searched
  <2>3. QED
    BY <2>1, <2>2
<1>7. QED
  BY <1>1, <1>2, <1>4, <1>5, <1>6 DEF SearchedSoFar, Searched

(* It enters a new feature. *)
LEMMA FollowEnters ==
    ASSUME SearchedSoFar, Stacked, Running, NEW r \in Top.refs, r.name \notin visited
    PROVE  Searched(spec, todo,
                    Append(Past(r), Called({q \in spec.features[r.name] : IsLocal(spec, q)}, r.name)),
                    visited \cup {r.name})
<1> DEFINE n == Len(frames)
           c == Called({q \in spec.features[r.name] : IsLocal(spec, q)}, r.name)
           fs == Append(Past(r), c)
           vis == visited \cup {r.name}
<1>1. /\ n \in Nat /\ n > 0 /\ DOMAIN frames = 1 .. n /\ DOMAIN Past(r) = 1 .. n
      /\ Past(r) \in Seq(Calls(spec))
      /\ \A i \in 1 .. n :
            /\ frames[i] \in Calls(spec)
            /\ Past(r)[i].feature = frames[i].feature
            /\ Past(r)[i].refs = IF i = n THEN frames[i].refs \ {r} ELSE frames[i].refs
  BY PastIs
<1>2. n \in 1 .. n /\ Top = frames[n]
  <2>1. Top = frames[n]
    BY DEF Top
  <2> HIDE DEF n
  <2>2. QED
    BY <1>1, <2>1
<1>3. IsLocal(spec, r) /\ r \in spec.features[frames[n].feature] /\ frames[n].feature \in DOMAIN spec.features
  BY <1>1, <1>2 DEF SearchedSoFar, Searched, Calls
<1>4. r.name \in DOMAIN spec.features /\ r.name \in LocalRefs(spec, frames[n].feature)
  BY <1>3 DEF IsLocal, LocalRefs
<1>5. c.feature = r.name /\ c.refs = {q \in spec.features[r.name] : IsLocal(spec, q)} /\ c \in Calls(spec)
  BY <1>4 DEF Called, Calls, RefsAll
<1>6. Len(Past(r)) = n
  <2> HIDE DEF n
  <2>1. Len(Past(r)) \in Nat /\ 1 .. Len(Past(r)) = 1 .. n
    BY <1>1, ListLen
  <2>2. QED
    BY <1>1, <2>1
<1> HIDE DEF n, c
<1>7. /\ DOMAIN fs = 1 .. n + 1 /\ fs[n + 1] = c
      /\ \A i \in 1 .. n : fs[i] = Past(r)[i]
  BY <1>1, <1>5, <1>6, OneMore
<1> HIDE DEF fs
<1>8. PathOf(fs) = PathOf(frames) \cup {r.name}
  <2>1. \A i \in 1 .. n : fs[i].feature = frames[i].feature
    BY <1>1, <1>7
  <2>2. 1 .. n + 1 = (1 .. n) \cup {n + 1}
    BY <1>1
  <2>3. QED
    BY <1>1, <1>5, <1>7, <2>1, <2>2 DEF PathOf
<1>9. vis \ PathOf(fs) = visited \ PathOf(frames)
  BY <1>8 DEF SearchedSoFar, Searched
<1>10. ASSUME NEW i \in 1 .. n + 1, NEW j \in 1 .. n + 1, i < j
       PROVE  fs[i].feature # fs[j].feature /\ fs[j].feature \in Below(spec, fs[i].feature)
  <2>1. i \in 1 .. n /\ fs[i].feature = frames[i].feature /\ frames[i].feature \in DOMAIN spec.features
    <3>1. i \in 1 .. n
      BY <1>1, <1>10
    <3>2. frames[i].feature \in DOMAIN spec.features
      BY <1>1, <3>1 DEF Calls
    <3>3. QED
      BY <1>1, <1>7, <3>1, <3>2
  <2>2. CASE j \in 1 .. n
    <3>1. fs[j].feature = frames[j].feature
      BY <1>1, <1>7, <2>2
    <3>2. QED
      BY <1>1, <1>10, <2>1, <2>2, <3>1 DEF SearchedSoFar, Searched
  <2>3. CASE j = n + 1
    <3>1. fs[j].feature = r.name
      BY <1>5, <1>7, <2>3
    <3>2. frames[i].feature \in visited
      BY <1>1, <2>1 DEF SearchedSoFar, Searched, PathOf
    <3>3. frames[n].feature = frames[i].feature \/ frames[n].feature \in Below(spec, frames[i].feature)
      BY <1>1, <1>2, <2>1 DEF SearchedSoFar, Searched
    <3>4. r.name \in Below(spec, frames[i].feature)
      BY <1>4, <2>1, <3>3, BelowIt
    <3>5. QED
      BY <2>1, <3>1, <3>2, <3>4
  <2>4. QED
    BY <1>1, <2>2, <2>3
<1>11. ASSUME NEW i \in 1 .. n + 1
       PROVE  /\ \A q \in fs[i].refs : IsLocal(spec, q)
              /\ \A q \in spec.features[fs[i].feature] :
                    IsLocal(spec, q) =>
                       \/ q \in fs[i].refs \/ q.name \in vis \ PathOf(fs)
                       \/ i + 1 \in 1 .. n + 1 /\ q.name = fs[i + 1].feature
  <2>1. CASE i = n + 1
    BY <1>5, <1>7, <2>1
  <2>2. CASE i \in 1 .. n
    <3>1. fs[i].feature = frames[i].feature
          /\ fs[i].refs = IF i = n THEN frames[i].refs \ {r} ELSE frames[i].refs
      BY <1>1, <1>7, <2>2
    <3>2. i + 1 \in 1 .. n + 1
          /\ fs[i + 1].feature = IF i = n THEN r.name ELSE frames[i + 1].feature
      <4>1. CASE i = n
        BY <1>1, <1>5, <1>7, <4>1
      <4>2. CASE i # n
        <5>1. i + 1 \in 1 .. n
          BY <1>1, <2>2, <4>2
        <5>2. fs[i + 1] = Past(r)[i + 1] /\ Past(r)[i + 1].feature = frames[i + 1].feature
          BY <1>1, <1>7, <5>1
        <5>3. QED
          BY <1>1, <4>2, <5>1, <5>2
      <4>3. QED
        BY <4>1, <4>2
    <3>3. \A q \in frames[i].refs : IsLocal(spec, q)
      BY <1>1, <2>2 DEF SearchedSoFar, Searched
    <3>4. \A q \in spec.features[frames[i].feature] :
             IsLocal(spec, q) => \/ q \in frames[i].refs \/ q.name \in visited \ PathOf(frames)
                                 \/ i + 1 \in 1 .. n /\ q.name = frames[i + 1].feature
      BY <1>1, <2>2 DEF SearchedSoFar, Searched
    <3> HIDE DEF vis
    <3>5. QED
      BY <1>1, <1>9, <2>2, <3>1, <3>2, <3>3, <3>4
  <2>3. QED
    BY <1>1, <2>1, <2>2
<1>12. \A g \in vis \ PathOf(fs) : DoneWith(spec, fs, vis, g)
  BY <1>9 DEF SearchedSoFar, Searched, DoneWith
<1>13. /\ todo \subseteq DOMAIN spec.features /\ DOMAIN spec.features \subseteq todo \cup vis
       /\ vis \subseteq DOMAIN spec.features /\ PathOf(fs) \subseteq vis
  BY <1>4, <1>8 DEF SearchedSoFar, Searched
<1>14. Searched(spec, todo, fs, vis)
  BY <1>7, <1>10, <1>11, <1>12, <1>13 DEF Searched
<1>15. QED
  BY <1>14 DEF fs, c, vis

(* A call returns: its feature is done. *)
LEMMA SearchReturns ==
    ASSUME SearchedSoFar, Stacked, Running, Top.refs = {}
    PROVE  Searched(spec, todo, SubSeq(frames, 1, Len(frames) - 1), visited)
<1> DEFINE n == Len(frames)
           rest == SubSeq(frames, 1, n - 1)
           g == frames[n].feature
           done == visited \ PathOf(frames)
<1>1. /\ n \in Nat /\ n > 0 /\ DOMAIN frames = 1 .. n /\ n \in 1 .. n
      /\ DOMAIN rest = 1 .. n - 1 /\ \A i \in 1 .. n - 1 : rest[i] = frames[i]
  BY OneLess DEF Stacked, Running
<1>2. frames[n].refs = {} /\ g \in DOMAIN spec.features
  BY <1>1 DEF Top, Stacked, Calls
<1> HIDE DEF n, rest
<1>3. PathOf(frames) = PathOf(rest) \cup {g} /\ g \notin PathOf(rest)
  <2>1. 1 .. n = (1 .. n - 1) \cup {n}
    BY <1>1
  <2>2. \A i \in 1 .. n - 1 : frames[i].feature # g
    BY <1>1 DEF SearchedSoFar, Searched
  <2>3. QED
    BY <1>1, <2>1, <2>2 DEF PathOf
<1>4. visited \ PathOf(rest) = done \cup {g}
  BY <1>1, <1>3 DEF SearchedSoFar, Searched
<1>5. LocalRefs(spec, g) \subseteq done
  <2>1. \A r \in spec.features[g] : IsLocal(spec, r) => r.name \in done
    BY <1>1, <1>2 DEF SearchedSoFar, Searched
  <2>2. QED
    BY <2>1 DEF LocalRefs
<1>6. \A h \in done : LocalRefs(spec, h) \subseteq done /\ h \notin Below(spec, h)
  BY DEF SearchedSoFar, Searched, DoneWith
<1>7. g \notin Below(spec, g)
  <2>1. done \in SUBSET DOMAIN spec.features
    BY DEF SearchedSoFar, Searched
  <2>2. Below(spec, g) \subseteq done
    BY <1>2, <1>5, <1>6, <2>1, BelowIt
  <2>3. g \notin done
    BY <1>3
  <2>4. QED
    BY <2>2, <2>3
<1>8. \A h \in visited \ PathOf(rest) : DoneWith(spec, rest, visited, h)
  BY <1>4, <1>5, <1>6, <1>7 DEF DoneWith
<1>9. ASSUME NEW i \in 1 .. n - 1
      PROVE  /\ \A q \in rest[i].refs : IsLocal(spec, q)
             /\ \A q \in spec.features[rest[i].feature] :
                   IsLocal(spec, q) =>
                      \/ q \in rest[i].refs \/ q.name \in visited \ PathOf(rest)
                      \/ i + 1 \in 1 .. n - 1 /\ q.name = rest[i + 1].feature
  <2>1. i \in 1 .. n /\ rest[i] = frames[i]
    BY <1>1
  <2>2. \A q \in spec.features[frames[i].feature] :
           IsLocal(spec, q) => \/ q \in frames[i].refs \/ q.name \in done
                               \/ i + 1 \in 1 .. n /\ q.name = frames[i + 1].feature
    BY <1>1, <2>1 DEF SearchedSoFar, Searched
  <2>3. \A q \in frames[i].refs : IsLocal(spec, q)
    BY <1>1, <2>1 DEF SearchedSoFar, Searched
  <2>4. i + 1 = n \/ i + 1 \in 1 .. n - 1
    BY <1>1
  <2> HIDE DEF done
  <2>5. QED
    BY <1>1, <1>4, <2>1, <2>2, <2>3, <2>4
<1>10. \A i, j \in 1 .. n - 1 : i < j => /\ rest[i].feature # rest[j].feature
                                         /\ rest[j].feature \in Below(spec, rest[i].feature)
  <2> SUFFICES ASSUME NEW i \in 1 .. n - 1, NEW j \in 1 .. n - 1, i < j
               PROVE  rest[i].feature # rest[j].feature /\ rest[j].feature \in Below(spec, rest[i].feature)
    OBVIOUS
  <2>1. i \in 1 .. n /\ j \in 1 .. n /\ rest[i] = frames[i] /\ rest[j] = frames[j]
    BY <1>1
  <2>2. QED
    BY <1>1, <2>1 DEF SearchedSoFar, Searched
<1>11. PathOf(rest) \subseteq visited
  BY <1>3 DEF SearchedSoFar, Searched
<1>12. QED
  BY <1>1, <1>8, <1>9, <1>10, <1>11 DEF SearchedSoFar, Searched, rest, n

(* A feature met on the path is on a cycle. *)
LEMMA FoundCycle ==
    ASSUME SearchedSoFar, Stacked, Running, NEW r \in Top.refs, r.name \in Stack
    PROVE  \E f \in DOMAIN spec.features : f \in Below(spec, f)
<1> DEFINE n == Len(frames)
<1>1. n \in Nat /\ DOMAIN frames = 1 .. n /\ n \in 1 .. n /\ \A i \in 1 .. n : frames[i] \in Calls(spec)
  BY DEF Stacked, Running
<1>2. PICK k \in 1 .. n : frames[k].feature = r.name
  BY <1>1 DEF Stack
<1>3. IsLocal(spec, r) /\ r \in spec.features[frames[n].feature]
  BY <1>1 DEF SearchedSoFar, Searched, Calls, Top
<1>4. r.name \in LocalRefs(spec, frames[n].feature) /\ r.name \in DOMAIN spec.features
  BY <1>3 DEF LocalRefs, IsLocal
<1>5. frames[n].feature = r.name \/ frames[n].feature \in Below(spec, r.name)
  BY <1>1, <1>2 DEF SearchedSoFar, Searched
<1>6. QED
  BY <1>4, <1>5, BelowIt

(* When every feature is done there is none. *)
LEMMA FoundNone ==
    ASSUME SearchedSoFar, frames = <<>>, todo = {}
    PROVE  \A f \in DOMAIN spec.features : f \notin Below(spec, f)
<1>1. PathOf(frames) = {}
  BY NoneHas DEF PathOf
<1>2. QED
  BY <1>1 DEF SearchedSoFar, Searched, DoneWith

-----------------------------------------------------------------------------
(* The machine. *)

IdleLocals == frames = <<>> /\ result = Nothing /\ pending = {} /\ visited = {}

(* The inductive invariant of the calls. *)
WalkInv ==
    /\ spec \in Packs
    /\ Stacked
    /\ phase = "idle" => IdleLocals
    /\ phase = "resolve" => SoFar
    /\ phase = "search" => SearchedSoFar
    /\ WalkAgrees /\ CycleSearchAgrees

(* Before the first call. *)
LEMMA WalkInit == ExpansionInit => WalkInv
<1> SUFFICES ASSUME ExpansionInit PROVE WalkInv
  OBVIOUS
<1>1. phase = "idle" /\ IdleLocals /\ spec \in Packs
  BY DEF ExpansionInit, SelectionInit, IdleLocals
<1>2. Stacked
  BY <1>1 DEF Stacked, IdleLocals
<1>3. QED
  BY <1>1, <1>2 DEF WalkInv, WalkAgrees, CycleSearchAgrees

(* The stack keeps its shape. *)
LEMMA StackKept ==
    ASSUME WalkInv, ExpansionNext
    PROVE  spec' \in Packs /\ Stacked'
<1>1. Stacked /\ spec \in Packs
  BY DEF WalkInv
<1>2. spec' = spec
  BY DEF ExpansionNext, Selects, SelectionNext, Enable, Disable, ResolvesSelection, Validates, Steps,
         Returns, TakesFeature, StartsAt, Expands, Defers, Adds, Follows, Resolved, Passes, Answers
<1>3. SUFFICES frames' \in Seq(Calls(spec))
  BY <1>1, <1>2 DEF Stacked
<1>4. ASSUME NEW f \in DOMAIN spec.features, NEW refs \in SUBSET spec.features[f]
      PROVE  Called(refs, f) \in Calls(spec)
  BY DEF Called, Calls, RefsAll
<1>5. ASSUME NEW r, Running, NEW c \in Calls(spec)
      PROVE  Past(r) \in Seq(Calls(spec)) /\ Append(Past(r), c) \in Seq(Calls(spec))
  BY <1>1, <1>5, PastIs, OneMore
<1>6. ASSUME NEW r, Running
      PROVE  Past(r) \in Seq(Calls(spec))
  BY <1>1, <1>6, PastIs
<1>7. CASE frames' = frames \/ frames' = <<>>
  <2>1. frames \in Seq(Calls(spec)) /\ <<>> \in Seq(Calls(spec))
    BY <1>1 DEF Stacked
  <2>2. QED
    BY <1>7, <2>1
<1>8. CASE Returns
  BY <1>1, <1>8, OneLess DEF Returns, Running, Stacked
<1>9. ASSUME NEW f \in todo, TakesFeature(f)
      PROVE  frames' \in Seq(Calls(spec))
  <2>1. CASE f \in DOMAIN spec.features
    <3>1. frames' = <<Called(spec.features[f], f)>> /\ Called(spec.features[f], f) \in Calls(spec)
      BY <1>4, <1>9, <2>1 DEF TakesFeature
    <3>2. QED
      BY <3>1
  <2>2. CASE f \notin DOMAIN spec.features
    BY <1>9, <2>2 DEF TakesFeature
  <2>3. QED
    BY <2>1, <2>2
<1>10. ASSUME NEW node \in DOMAIN spec.features, NEW rest \in Seq(Calls(spec)), DfsFeature(node, rest)
       PROVE  frames' \in Seq(Calls(spec))
  <2> DEFINE c == Called({r \in spec.features[node] : IsLocal(spec, r)}, node)
  <2>1. c \in Calls(spec)
    BY <1>4
  <2>2. Append(rest, c) \in Seq(Calls(spec))
    BY <2>1, OneMore
  <2>3. frames' \in {frames, rest, Append(rest, c)}
    BY <1>10 DEF DfsFeature, Enters
  <2>4. QED
    BY <1>1, <2>2, <2>3 DEF Stacked
<1>11. ASSUME NEW f \in todo, StartsAt(f)
       PROVE  frames' \in Seq(Calls(spec))
  <2>1. f \in DOMAIN spec.features /\ DfsFeature(f, frames)
    BY <1>11 DEF StartsAt, WalkInv, SearchedSoFar, Searched
  <2>2. QED
    BY <1>1, <1>10, <2>1 DEF Stacked
<1>12. ASSUME Running, NEW r \in Top.refs, Expands(r)
       PROVE  frames' \in Seq(Calls(spec))
  <2>1. Called(spec.features[r.name], r.name) \in Calls(spec)
    BY <1>4, <1>12 DEF Expands, IsLocal
  <2>2. QED
    BY <1>5, <1>12, <2>1 DEF Expands
<1>13. ASSUME Running, NEW r \in Top.refs, Defers(r) \/ Adds(r)
       PROVE  frames' \in Seq(Calls(spec))
  BY <1>6, <1>13 DEF Defers, Adds
<1>14. ASSUME Running, NEW r \in Top.refs, Follows(r)
       PROVE  frames' \in Seq(Calls(spec))
  <2>1. \A q \in Top.refs : IsLocal(spec, q)
    <3>1. Len(frames) \in DOMAIN frames
      BY <1>1, <1>14 DEF Running, Stacked
    <3>2. QED
      BY <1>14, <3>1 DEF Follows, WalkInv, SearchedSoFar, Searched, Top
  <2>2. r.name \in DOMAIN spec.features /\ DfsFeature(r.name, Past(r))
    BY <1>14, <2>1 DEF Follows, IsLocal
  <2>3. QED
    BY <1>6, <1>10, <1>14, <2>2
<1>15. QED
  <2>1. Selects \/ ResolvesSelection \/ Validates \/ Resolved \/ Passes \/ Answers
           => frames' = frames \/ frames' = <<>>
    BY DEF Selects, ResolvesSelection, Validates, Resolved, Passes, Answers, locals
  <2>2. QED
    BY <1>7, <1>8, <1>9, <1>11, <1>12, <1>13, <1>14, <2>1 DEF ExpansionNext, Steps

(* resolve_crates keeps what it has computed so far. *)
LEMMA ResolveSteps ==
    ASSUME WalkInv, ExpansionNext, phase = "resolve" \/ phase' = "resolve"
    PROVE  \/ phase' = "resolve" /\ ResolvedSoFar(spec, active, todo', frames', result', pending')
              /\ UNCHANGED <<spec, active>>
           \/ Resolved
<1>1. ASSUME phase = "resolve", SoFar
      PROVE  \/ /\ phase' = "resolve" /\ UNCHANGED <<spec, active>>
                /\ ResolvedSoFar(spec, active, todo', frames', result', pending')
             \/ Resolved
  <2>1. CASE Returns
    BY <1>1, <2>1, CallReturned DEF WalkInv, Returns
  <2>2. ASSUME NEW f \in todo, TakesFeature(f)
        PROVE  /\ phase' = "resolve" /\ UNCHANGED <<spec, active>>
               /\ ResolvedSoFar(spec, active, todo', frames', result', pending')
    BY <1>1, <2>2, FeatureTaken DEF TakesFeature
  <2>3. ASSUME Running, NEW r \in Top.refs, Expands(r) \/ Defers(r) \/ Adds(r)
        PROVE  /\ phase' = "resolve" /\ UNCHANGED <<spec, active>>
               /\ ResolvedSoFar(spec, active, todo', frames', result', pending')
    BY <1>1, <2>3, RefTaken DEF Expands, Defers, Adds, WalkInv
  <2>4. ~Selects /\ ~ResolvesSelection /\ ~Validates /\ ~Passes /\ ~Answers
        /\ (\A f : ~StartsAt(f)) /\ (\A r : ~Follows(r))
    BY <1>1 DEF Selects, ResolvesSelection, Validates, Passes, Answers, StartsAt, Follows
  <2>5. QED
    BY <2>1, <2>2, <2>3, <2>4 DEF ExpansionNext, Steps
<1>2. ASSUME phase # "resolve", phase' = "resolve"
      PROVE  /\ phase' = "resolve" /\ UNCHANGED <<spec, active>>
             /\ ResolvedSoFar(spec, active, todo', frames', result', pending')
  <2>1. ResolvesSelection
    BY <1>2 DEF ExpansionNext, Selects, Validates, Steps, Returns, TakesFeature, StartsAt, Expands,
                Defers, Adds, Follows, TakesRef, DfsFeature, Enters, Resolved, Passes, Answers
  <2>2. /\ todo' = Asked(active) /\ frames' = <<>> /\ result' = Nothing /\ pending' = {}
        /\ UNCHANGED <<spec, active>>
    BY <2>1 DEF ResolvesSelection, Asked, WalkInv, IdleLocals
  <2>3. QED
    BY <1>2, <2>2, ResolveBegins
<1>3. QED
  BY <1>1, <1>2 DEF WalkInv

(* The search keeps what it has found so far, or has found a cycle, or none. *)
LEMMA SearchSteps ==
    ASSUME WalkInv, ExpansionNext, phase = "search" \/ phase' = "search"
    PROVE  /\ UNCHANGED spec
           /\ \/ phase' = "search" /\ Searched(spec, todo', frames', visited')
              \/ phase' = "cyclic" /\ \E f \in DOMAIN spec.features : f \in Below(spec, f)
              \/ phase' = "acyclic" /\ \A f \in DOMAIN spec.features : f \notin Below(spec, f)
<1>1. ASSUME phase = "search", SearchedSoFar
      PROVE  /\ UNCHANGED spec
             /\ \/ phase' = "search" /\ Searched(spec, todo', frames', visited')
                \/ phase' = "cyclic" /\ \E f \in DOMAIN spec.features : f \in Below(spec, f)
                \/ phase' = "acyclic" /\ \A f \in DOMAIN spec.features : f \notin Below(spec, f)
  <2>1. Stacked
    BY DEF WalkInv
  <2>2. CASE Returns
    BY <1>1, <2>1, <2>2, SearchReturns DEF Returns
  <2>3. ASSUME NEW f \in todo, StartsAt(f)
        PROVE  /\ UNCHANGED spec
               /\ phase' = "search" /\ Searched(spec, todo', frames', visited')
    <3>1. frames = <<>> /\ f \notin Stack /\ todo' = todo \ {f} /\ UNCHANGED spec
          /\ DfsFeature(f, <<>>)
      BY <2>3, NoneHas DEF StartsAt, Running, Stack
    <3>2. CASE f \in visited
      BY <1>1, <3>1, <3>2, StartSkipped DEF DfsFeature
    <3>3. CASE f \notin visited
      <4> DEFINE c == Called({r \in spec.features[f] : IsLocal(spec, r)}, f)
      <4>1. visited' = visited \cup {f} /\ frames' = Append(<<>>, c) /\ phase' = phase
        BY <3>1, <3>3 DEF DfsFeature, Enters
      <4>2. Append(<<>>, c) = <<c>>
        OBVIOUS
      <4>3. Searched(spec, todo', <<c>>, visited')
        BY <1>1, <3>1, <3>3, <4>1, StartEnters
      <4> HIDE DEF c
      <4>4. QED
        BY <1>1, <3>1, <4>1, <4>2, <4>3
    <3>4. QED
      BY <3>2, <3>3
  <2>4. ASSUME Running, NEW r \in Top.refs, Follows(r)
        PROVE  /\ UNCHANGED spec
               /\ \/ phase' = "search" /\ Searched(spec, todo', frames', visited')
                  \/ phase' = "cyclic" /\ \E f \in DOMAIN spec.features : f \in Below(spec, f)
    <3>1. DfsFeature(r.name, Past(r)) /\ todo' = todo /\ UNCHANGED spec
      BY <2>4 DEF Follows
    <3>2. CASE r.name \in Stack
      BY <1>1, <2>1, <2>4, <3>1, <3>2, FoundCycle DEF DfsFeature
    <3>3. CASE r.name \notin Stack /\ r.name \in visited
      BY <1>1, <2>1, <2>4, <3>1, <3>3, FollowSkipped DEF DfsFeature
    <3>4. CASE r.name \notin Stack /\ r.name \notin visited
      BY <1>1, <2>1, <2>4, <3>1, <3>4, FollowEnters DEF DfsFeature, Enters
    <3>5. QED
      BY <3>2, <3>3, <3>4
  <2>5. CASE Passes
    BY <1>1, <2>5, FoundNone DEF Passes, Running
  <2>6. ~Selects /\ ~ResolvesSelection /\ ~Validates /\ ~Resolved /\ ~Answers
        /\ (\A f : ~TakesFeature(f)) /\ (\A r : ~Expands(r) /\ ~Defers(r) /\ ~Adds(r))
    BY <1>1 DEF Selects, ResolvesSelection, Validates, Resolved, Answers, TakesFeature, Expands, Defers,
                Adds, TakesRef
  <2>7. QED
    BY <2>2, <2>3, <2>4, <2>5, <2>6 DEF ExpansionNext, Steps
<1>2. ASSUME phase # "search", phase' = "search"
      PROVE  UNCHANGED spec /\ Searched(spec, todo', frames', visited')
  <2>1. Validates
    BY <1>2 DEF ExpansionNext, Selects, ResolvesSelection, Steps, Returns, TakesFeature, StartsAt, Expands,
                Defers, Adds, Follows, TakesRef, DfsFeature, Enters, Resolved, Passes, Answers
  <2>2. todo' = DOMAIN spec.features /\ frames' = <<>> /\ visited' = {} /\ UNCHANGED spec
    BY <2>1 DEF Validates, WalkInv, IdleLocals
  <2>3. QED
    BY <2>2, SearchBegins
<1>3. QED
  BY <1>1, <1>2 DEF WalkInv

(* A call gives its answer and is over. *)
LEMMA CallsEnd ==
    ASSUME WalkInv, ExpansionNext, phase' = "idle"
    PROVE  IdleLocals'
<1>1. CASE phase = "idle"
  <2>1. Selects \/ Returns
    BY <1>1 DEF ExpansionNext, ResolvesSelection, Validates, Steps, TakesFeature, StartsAt, Expands, Defers,
                Adds, Follows, TakesRef, Resolved, Passes, Answers
  <2>2. ~Returns
    BY <1>1 DEF Returns, Running, WalkInv, IdleLocals
  <2>3. QED
    BY <1>1, <2>1, <2>2 DEF Selects, locals, WalkInv, IdleLocals
<1>2. CASE phase # "idle"
  <2>1. Answers
    BY <1>2 DEF ExpansionNext, Selects, ResolvesSelection, Validates, Steps, Returns, TakesFeature, StartsAt,
                Expands, Defers, Adds, Follows, TakesRef, DfsFeature, Enters, Resolved, Passes
  <2>2. QED
    BY <2>1 DEF Answers, IdleLocals
<1>3. QED
  BY <1>1, <1>2

(* Every step keeps the walks exact. *)
LEMMA WalkStep == WalkInv /\ [ExpansionNext]_expansion => WalkInv'
<1> SUFFICES ASSUME WalkInv, [ExpansionNext]_expansion
             PROVE  WalkInv'
  OBVIOUS
<1>1. CASE UNCHANGED expansion
  BY <1>1 DEF WalkInv, expansion, Stacked, IdleLocals, SoFar, SearchedSoFar, WalkAgrees, CycleSearchAgrees
<1>2. CASE ExpansionNext
  <2>1. spec' \in Packs /\ Stacked'
    BY <1>2, StackKept
  <2>2. phase' = "idle" => IdleLocals'
    BY <1>2, CallsEnd
  <2>3. phase' = "resolve" => SoFar'
    BY <1>2, ResolveSteps DEF Resolved, SoFar
  <2>4. phase' = "search" => SearchedSoFar'
    BY <1>2, SearchSteps DEF SearchedSoFar
  <2>5. WalkAgrees'
    <3>1. SUFFICES ASSUME phase' = "resolved"
                   PROVE  WalkAgrees'
      BY DEF WalkAgrees
    <3>2. Resolved
      BY <1>2, <3>1 DEF ExpansionNext, Selects, ResolvesSelection, Validates, Steps, Returns, TakesFeature,
          StartsAt, Expands, Defers, Adds, Follows, TakesRef, DfsFeature, Enters, Passes, Answers
    <3>3. WellFormed(spec) /\ SoFar
      BY <3>2, PacksWellFormed DEF WalkInv, Resolved
    <3>4. result' = [c \in Selected(spec, active) |-> Resolve(spec, active)[c].feats]
      BY <3>2, <3>3, CallResolved
    <3>5. UNCHANGED <<spec, active>>
      BY <3>2 DEF Resolved
    <3>6. QED
      BY <3>4, <3>5 DEF WalkAgrees
  <2>6. CycleSearchAgrees'
    <3>1. SUFFICES ASSUME phase' \in {"cyclic", "acyclic"}
                   PROVE  CycleSearchAgrees'
      BY DEF CycleSearchAgrees
    <3>2. phase = "search"
      BY <1>2, <3>1 DEF ExpansionNext, Selects, ResolvesSelection, Validates, Steps, Returns, TakesFeature,
          StartsAt, Expands, Defers, Adds, Follows, TakesRef, DfsFeature, Enters, Resolved, Passes, Answers
    <3>3. /\ UNCHANGED spec
          /\ \/ phase' = "cyclic" /\ \E f \in DOMAIN spec.features : f \in Below(spec, f)
             \/ phase' = "acyclic" /\ \A f \in DOMAIN spec.features : f \notin Below(spec, f)
      BY <1>2, <3>1, <3>2, SearchSteps
    <3>4. phase' = "cyclic" <=> \E f \in DOMAIN spec.features : f \in Expanded(spec, LocalRefs(spec, f))
      BY <3>3 DEF Below
    <3>5. QED
      BY <3>3, <3>4 DEF CycleSearchAgrees
  <2>7. QED
    BY <2>1, <2>2, <2>3, <2>4, <2>5, <2>6 DEF WalkInv
<1>3. QED
  BY <1>1, <1>2

(* Between the steps, too. *)
LEMMA WalkInvariance == ExpansionSpec => []WalkInv
BY WalkInit, WalkStep, PTL DEF ExpansionSpec

(* resolve_crates: whatever the order in which the loops take references, and
   however the features refer to each other, the walk ends with the crates and
   the dep features of the closed form. *)
THEOREM WalkIsClosedForm == ExpansionSpec => []WalkAgrees
<1>1. WalkInv => WalkAgrees
  BY DEF WalkInv
<1>2. QED
  BY <1>1, WalkInvariance, PTL

(* validate_features reports a cycle if and only if there is one. *)
THEOREM CycleSearchIsExact == ExpansionSpec => []CycleSearchAgrees
<1>1. WalkInv => CycleSearchAgrees
  BY DEF WalkInv
<1>2. QED
  BY <1>1, WalkInvariance, PTL

(* The calls leave the selection to its own steps. *)
THEOREM CallsSelectNothing == ExpansionSpec => SelectionSpec
<1>1. ExpansionInit => SelectionInit
  BY DEF ExpansionInit
<1>2. [ExpansionNext]_expansion => [SelectionNext]_selection
  BY DEF ExpansionNext, Selects, ResolvesSelection, Validates, Steps, Returns, TakesFeature, StartsAt,
         Expands, Defers, Adds, Follows, Resolved, Passes, Answers, expansion, selection
<1>3. QED
  BY <1>1, <1>2, PTL DEF ExpansionSpec, SelectionSpec

-----------------------------------------------------------------------------
(* A finite set as a list has each of its members at one place. *)
LEMMA Listed ==
    ASSUME NEW S, IsFiniteSet(S)
    PROVE  /\ SetToSeq(S) \in Seq(S)
           /\ \A x \in S : \E i \in DOMAIN SetToSeq(S) : SetToSeq(S)[i] = x
           /\ \A i, j \in DOMAIN SetToSeq(S) : SetToSeq(S)[i] = SetToSeq(S)[j] => i = j
<1> DEFINE n == Cardinality(S)
           list == SetToSeq(S)
<1>1. n \in Nat /\ ExistsBijection(1 .. n, S)
  BY FS_CardinalityType
<1>2. PICK f : f \in [1 .. n -> S] /\ IsInjective(f)
  BY <1>1 DEF ExistsBijection, Bijection, Injection
<1>3. list \in [1 .. n -> S] /\ IsInjective(list)
  BY <1>2 DEF SetToSeq
<1> HIDE DEF list
<1>4. list \in Injection(1 .. n, S)
  BY <1>3 DEF Injection
<1>5. Cardinality(1 .. n) = n
  BY <1>1, FS_Interval
<1>6. list \in Surjection(1 .. n, S)
  BY <1>4, <1>5, FS_Injection
<1>7. list \in Seq(S)
  BY <1>1, <1>3
<1>8. DOMAIN list = 1 .. n
  BY <1>3
<1>9. \A x \in S : \E i \in DOMAIN list : list[i] = x
  BY <1>6, <1>8 DEF Surjection
<1>10. \A i, j \in DOMAIN list : list[i] = list[j] => i = j
  BY <1>3 DEF IsInjective
<1>11. QED
  BY <1>7, <1>9, <1>10 DEF list

(* A set whose members all equal one another has at most one. *)
LEMMA AtMostOne ==
    ASSUME NEW S, \A x, y \in S : x = y
    PROVE  Cardinality(S) <= 1
<1>1. CASE S = {}
  <2>1. Cardinality(S) = 0
    BY <1>1, FS_EmptySet
  <2>2. QED
    BY <2>1
<1>2. CASE S # {}
  <2>1. PICK x \in S : S = {x}
    BY <1>2
  <2>2. Cardinality(S) = 1
    BY <2>1, FS_Singleton
  <2>3. QED
    BY <2>2
<1>3. QED
  BY <1>1, <1>2

(* Of two different members there are more than one. *)
LEMMA MoreThanOne ==
    ASSUME NEW S, IsFiniteSet(S), NEW x \in S, NEW y \in S, x # y
    PROVE  Cardinality(S) > 1
<1>1. IsFiniteSet({x}) /\ Cardinality({x}) = 1
  BY FS_Singleton
<1>2. Cardinality({x} \cup {y}) = 2
  BY <1>1, FS_AddElement
<1>3. {x} \cup {y} \subseteq S
  OBVIOUS
<1>4. Cardinality({x} \cup {y}) <= Cardinality(S) /\ Cardinality(S) \in Nat
  BY <1>3, FS_Subset, FS_CardinalityType
<1>5. QED
  BY <1>2, <1>4

(* The two members of a set with at most one are the same. *)
LEMMA TheSame ==
    ASSUME NEW S, IsFiniteSet(S), Cardinality(S) <= 1, NEW x \in S, NEW y \in S
    PROVE  x = y
<1>1. SUFFICES ASSUME x # y PROVE FALSE
  OBVIOUS
<1>2. Cardinality(S) > 1 /\ Cardinality(S) \in Nat
  BY <1>1, MoreThanOne, FS_CardinalityType
<1>3. QED
  BY <1>2

(* Rows named by the members of a finite set, one each, are finitely many. *)
LEMMA NamedFinite ==
    ASSUME NEW S, NEW D, IsFiniteSet(D), \A r \in S : r.name \in D,
           \A r, q \in S : r.name = q.name => r = q
    PROVE  IsFiniteSet(S)
<1> DEFINE f == [r \in S |-> r.name]
<1>1. f \in Injection(S, D)
  BY DEF Injection, IsInjective
<1>2. QED
  BY <1>1, FS_Injection

(* The fields of a row. *)
LEMMA RowParts ==
    ASSUME NEW kind, NEW name, NEW checked \in BOOLEAN
    PROVE  LET r == PickRow(kind, name, checked)
           IN  r.kind = kind /\ r.name = name /\ r.checked = checked
BY DEF PickRow

-----------------------------------------------------------------------------
(* A row of a category's section, *)
InCategory(p, pre, k, r) ==
    \/ /\ r.kind = "feature"
       /\ r.name \in FeaturesIn(p, k) \cap (DOMAIN p.features \ {"default"})
       /\ r = PickRow("feature", r.name, FeatureChecked(p, pre, r.name))
    \/ /\ r.kind = "crate"
       /\ r.name \in DepsIn(p, k) \cap Visible(p)
       /\ r = PickRow("crate", r.name, r.name \in Initially(p, pre))
    \/ /\ r.kind = "template"
       /\ r.name \in TemplatesIn(p, k)
       /\ r = PickRow("template", r.name, FALSE)

(* and of a generic one. *)
InNone(p, pre, r) ==
    \/ /\ r.kind = "feature"
       /\ r.name \in DOMAIN p.features \ {"default"}
       /\ \A k \in DOMAIN p.categories : r.name \notin FeaturesIn(p, k)
       /\ r = PickRow("feature", r.name, FeatureChecked(p, pre, r.name))
    \/ /\ r.kind = "crate"
       /\ r.name \in Visible(p)
       /\ \A k \in DOMAIN p.categories : r.name \notin DepsIn(p, k)
       /\ r = PickRow("crate", r.name, r.name \in Initially(p, pre))
    \/ /\ r.kind = "template"
       /\ \A k \in DOMAIN p.categories : r.name \notin TemplatesIn(p, k)
       /\ r = PickRow("template", r.name, FALSE)

(* The rows of a category are such, and finitely many, *)
LEMMA CategoryRowsAre ==
    ASSUME NEW p, IsManifest(p), NEW pre, NEW k
    PROVE  /\ IsFiniteSet(CategoryRows(p, pre, k))
           /\ \A r \in CategoryRows(p, pre, k) : InCategory(p, pre, k, r)
<1> DEFINE F == FeatureRows(p, pre, FeaturesIn(p, k))
           C == CrateRows(p, pre, DepsIn(p, k))
           T == TemplateRows(p, TemplatesIn(p, k))
<1>1. \A r \in F : /\ r.kind = "feature"
                   /\ r.name \in FeaturesIn(p, k) \cap (DOMAIN p.features \ {"default"})
                   /\ r = PickRow("feature", r.name, FeatureChecked(p, pre, r.name))
  BY DEF FeatureRows, PickRow
<1>2. \A r \in C : /\ r.kind = "crate"
                   /\ r.name \in DepsIn(p, k) \cap Visible(p)
                   /\ r = PickRow("crate", r.name, r.name \in Initially(p, pre))
  BY DEF CrateRows, PickRow
<1>3. \A r \in T : /\ r.kind = "template"
                   /\ r.name \in TemplatesIn(p, k) \cap DOMAIN p.templates
                   /\ r = PickRow("template", r.name, FALSE)
  BY DEF TemplateRows, PickRow
<1>4. CategoryRows(p, pre, k) = F \cup C \cup T
  BY DEF CategoryRows
<1>5. /\ IsFiniteSet(DOMAIN p.features) /\ IsFiniteSet(DOMAIN p.crates)
      /\ IsFiniteSet(DOMAIN p.templates)
  BY DEF IsManifest
<1> HIDE DEF F, C, T
<1>6. IsFiniteSet(F)
  <2>1. \A r \in F : r.name \in DOMAIN p.features
    BY <1>1
  <2>2. \A r, q \in F : r.name = q.name => r = q
    BY <1>1
  <2>3. QED
    BY <1>5, <2>1, <2>2, NamedFinite
<1>7. IsFiniteSet(C)
  <2>1. \A r \in C : r.name \in DOMAIN p.crates
    BY <1>2 DEF Visible
  <2>2. \A r, q \in C : r.name = q.name => r = q
    BY <1>2
  <2>3. QED
    BY <1>5, <2>1, <2>2, NamedFinite
<1>8. IsFiniteSet(T)
  <2>1. \A r \in T : r.name \in DOMAIN p.templates
    BY <1>3
  <2>2. \A r, q \in T : r.name = q.name => r = q
    BY <1>3
  <2>3. QED
    BY <1>5, <2>1, <2>2, NamedFinite
<1>9. IsFiniteSet(F \cup C \cup T)
  BY <1>6, <1>7, <1>8, FS_Union
<1>10. QED
  BY <1>1, <1>2, <1>3, <1>4, <1>9 DEF InCategory

(* and so are those of the generic sections. *)
LEMMA GenericRowsAre ==
    ASSUME NEW p, IsManifest(p), NEW pre, NEW i \in 1 .. 3
    PROVE  /\ IsFiniteSet(GenericRows(p, pre)[i])
           /\ \A r \in GenericRows(p, pre)[i] : InNone(p, pre, r)
<1> DEFINE F == FeatureRows(p, pre, Rest(p, DOMAIN p.features, FeaturesIn))
           C == CrateRows(p, pre, Rest(p, DOMAIN p.crates, DepsIn))
           T == TemplateRows(p, Rest(p, DOMAIN p.templates, TemplatesIn))
<1>1. \A r \in F : /\ r.kind = "feature"
                   /\ r.name \in DOMAIN p.features \ {"default"}
                   /\ \A k \in DOMAIN p.categories : r.name \notin FeaturesIn(p, k)
                   /\ r = PickRow("feature", r.name, FeatureChecked(p, pre, r.name))
  BY DEF FeatureRows, PickRow, Rest
<1>2. \A r \in C : /\ r.kind = "crate"
                   /\ r.name \in Visible(p)
                   /\ \A k \in DOMAIN p.categories : r.name \notin DepsIn(p, k)
                   /\ r = PickRow("crate", r.name, r.name \in Initially(p, pre))
  BY DEF CrateRows, PickRow, Rest
<1>3. \A r \in T : /\ r.kind = "template"
                   /\ r.name \in DOMAIN p.templates
                   /\ \A k \in DOMAIN p.categories : r.name \notin TemplatesIn(p, k)
                   /\ r = PickRow("template", r.name, FALSE)
  BY DEF TemplateRows, PickRow, Rest
<1>4. GenericRows(p, pre) = <<F, C, T>>
  BY DEF GenericRows
<1>5. /\ IsFiniteSet(DOMAIN p.features) /\ IsFiniteSet(DOMAIN p.crates)
      /\ IsFiniteSet(DOMAIN p.templates)
  BY DEF IsManifest
<1> HIDE DEF F, C, T
<1>6. IsFiniteSet(F)
  <2>1. \A r \in F : r.name \in DOMAIN p.features
    BY <1>1
  <2>2. \A r, q \in F : r.name = q.name => r = q
    BY <1>1
  <2>3. QED
    BY <1>5, <2>1, <2>2, NamedFinite
<1>7. IsFiniteSet(C)
  <2>1. \A r \in C : r.name \in DOMAIN p.crates
    BY <1>2 DEF Visible
  <2>2. \A r, q \in C : r.name = q.name => r = q
    BY <1>2
  <2>3. QED
    BY <1>5, <2>1, <2>2, NamedFinite
<1>8. IsFiniteSet(T)
  <2>1. \A r \in T : r.name \in DOMAIN p.templates
    BY <1>3
  <2>2. \A r, q \in T : r.name = q.name => r = q
    BY <1>3
  <2>3. QED
    BY <1>5, <2>1, <2>2, NamedFinite
<1>9. GenericRows(p, pre)[i] \in {F, C, T}
  BY <1>4
<1>10. PICK R : R = GenericRows(p, pre)[i]
  OBVIOUS
<1>11. R = F \/ R = C \/ R = T
  BY <1>9, <1>10
<1>12. CASE R = F
  BY <1>1, <1>6, <1>10, <1>12 DEF InNone
<1>13. CASE R = C
  BY <1>2, <1>7, <1>10, <1>13 DEF InNone
<1>14. CASE R = T
  BY <1>3, <1>8, <1>10, <1>14 DEF InNone
<1>15. QED
  BY <1>11, <1>12, <1>13, <1>14

(* A section lists each of its rows once. *)
LEMMA SectionRows ==
    ASSUME NEW rows, IsFiniteSet(rows), NEW radio
    PROVE  LET s == PickerSection(radio, rows) IN
           /\ s.radio = radio
           /\ \A j \in DOMAIN s.rows : s.rows[j] \in rows
           /\ \A r \in rows : \E j \in DOMAIN s.rows : s.rows[j] = r
           /\ \A i, j \in DOMAIN s.rows : s.rows[i] = s.rows[j] => i = j
           /\ IsFiniteSet(DOMAIN s.rows)
<1> DEFINE list == SetToSeq(rows)
<1>1. /\ list \in Seq(rows)
      /\ \A r \in rows : \E j \in DOMAIN list : list[j] = r
      /\ \A i, j \in DOMAIN list : list[i] = list[j] => i = j
  BY Listed
<1>2. PickerSection(radio, rows).rows = list /\ PickerSection(radio, rows).radio = radio
  BY DEF PickerSection
<1> HIDE DEF list
<1>3. DOMAIN list = 1 .. Len(list) /\ Len(list) \in Nat /\ \A j \in DOMAIN list : list[j] \in rows
  BY <1>1
<1>4. IsFiniteSet(DOMAIN list)
  BY <1>3, FS_Interval
<1>5. QED
  BY <1>1, <1>2, <1>3, <1>4

(* A section that is none of a category. *)
Checkboxes(rows) == PickerSection(FALSE, rows)

(* The sections: the first n are those of categories, each category with a row
   once; the others are generic, and none of those with a row is left out. *)
Arranged(p, pre, g, n, names) ==
    /\ n \in Nat /\ Len(g) \in Nat /\ n <= Len(g) /\ DOMAIN g = 1 .. Len(g)
    /\ \A s \in 1 .. n :
          /\ names[s] \in DOMAIN p.categories
          /\ g[s] = PickerSection(p.categories[names[s]].radio, CategoryRows(p, pre, names[s]))
    /\ \A s, t \in 1 .. n : names[s] = names[t] => s = t
    /\ \A k \in DOMAIN p.categories :
          CategoryRows(p, pre, k) # {} => \E s \in 1 .. n : names[s] = k
    /\ \A s \in DOMAIN g \ (1 .. n) :
          \E i \in 1 .. 3 : g[s] = Checkboxes(GenericRows(p, pre)[i])
    /\ \A i \in 1 .. 3 : GenericRows(p, pre)[i] # {} =>
          \E s \in DOMAIN g \ (1 .. n) : g[s] = Checkboxes(GenericRows(p, pre)[i])

(* A list with one more section, or none. *)
Grown(A, g, rows, h) ==
    /\ h \in Seq(A) /\ Len(g) <= Len(h)
    /\ \A s \in DOMAIN g : s \in DOMAIN h /\ h[s] = g[s]
    /\ \A s \in DOMAIN h \ DOMAIN g : h[s] = Checkboxes(rows)
    /\ rows # {} => \E s \in DOMAIN h \ DOMAIN g : h[s] = Checkboxes(rows)

(* What a list with one more section, or none, consists of. *)
LEMMA FilledAt ==
    ASSUME NEW A, NEW g \in Seq(A), NEW rows, Checkboxes(rows) \in A,
           NEW h, h = g \o Filled(rows)
    PROVE  Grown(A, g, rows, h)
<1>1. PICK section \in A : section = Checkboxes(rows)
  OBVIOUS
<1>2. CASE rows = {}
  <2>1. Filled(rows) = <<>>
    BY <1>2 DEF Filled
  <2>2. h = g
    BY <2>1
  <2>3. h \in Seq(A) /\ Len(g) \in Nat /\ Len(g) = Len(h) /\ DOMAIN h = DOMAIN g
    BY <2>2
  <2>4. QED
    BY <1>2, <2>2, <2>3 DEF Grown
<1>3. CASE rows # {}
  <2>1. Filled(rows) = <<section>>
    BY <1>1, <1>3 DEF Filled, Checkboxes
  <2>2. h = g \o <<section>>
    BY <2>1
  <2>3. Len(g) \in Nat /\ DOMAIN g = 1 .. Len(g)
    OBVIOUS
  <2>4. /\ Len(h) = Len(g) + 1 /\ DOMAIN h = 1 .. Len(g) + 1 /\ h \in Seq(A)
        /\ \A s \in 1 .. Len(g) : h[s] = g[s]
        /\ h[Len(g) + 1] = section
    BY <2>2
  <2>5. \A s \in DOMAIN h \ DOMAIN g : s = Len(g) + 1
    BY <2>3, <2>4
  <2>6. Len(g) + 1 \in DOMAIN h \ DOMAIN g
    BY <2>3, <2>4
  <2>7. QED
    BY <1>1, <2>3, <2>4, <2>5, <2>6 DEF Grown
<1>4. QED
  BY <1>2, <1>3

(* The picker opens with sections that are laid out so. *)
LEMMA SectionsArranged ==
    ASSUME NEW p, IsManifest(p), NEW pre
    PROVE  \E n, names : Arranged(p, pre, PickerSections(p, pre), n, names)
<1> DEFINE K == {k \in DOMAIN p.categories : CategoryRows(p, pre, k) # {}}
<1>1. PICK names : names = SetToSeq(K)
  OBVIOUS
<1>2. IsFiniteSet(K)
  <2>1. IsFiniteSet(DOMAIN p.categories)
    BY DEF IsManifest
  <2>2. QED
    BY <2>1, FS_Subset
<1>3. /\ names \in Seq(K)
      /\ \A k \in K : \E i \in DOMAIN names : names[i] = k
      /\ \A i, j \in DOMAIN names : names[i] = names[j] => i = j
  BY <1>1, <1>2, Listed
<1>4. PICK n \in Nat : DOMAIN names = 1 .. n /\ \A i \in 1 .. n : names[i] \in K
  <2>1. Len(names) \in Nat /\ DOMAIN names = 1 .. Len(names) /\ \A i \in 1 .. Len(names) : names[i] \in K
    BY <1>3
  <2>2. QED
    BY <2>1
<1>5. PICK a : a = [i \in DOMAIN names |->
                      PickerSection(p.categories[names[i]].radio, CategoryRows(p, pre, names[i]))]
  OBVIOUS
<1>7. PICK rest : rest = GenericRows(p, pre)
  OBVIOUS
<1> DEFINE Own1 == {a[i] : i \in 1 .. n}
           Own2 == {Checkboxes(rest[i]) : i \in 1 .. 3}
<1>23. PICK A : A = Own1 \cup Own2
  OBVIOUS
<1>24. \A i \in 1 .. 3 : Checkboxes(rest[i]) \in A
  BY <1>23
<1>25. Checkboxes(rest[1]) \in A /\ Checkboxes(rest[2]) \in A /\ Checkboxes(rest[3]) \in A
  BY <1>24
<1>6. DOMAIN a = 1 .. n /\ Len(a) = n /\ a \in Seq(A)
  <2>1. DOMAIN a = 1 .. n /\ \A i \in 1 .. n : a[i] \in A
    BY <1>4, <1>5, <1>23
  <2>2. a = [i \in 1 .. n |-> a[i]]
    BY <1>4, <1>5
  <2>3. QED
    BY <2>1, <2>2
<1> HIDE DEF Own1, Own2
<1>8. PICK b : b = a \o Filled(rest[1])
  OBVIOUS
<1>9. PICK c : c = b \o Filled(rest[2])
  OBVIOUS
<1>10. PICK g : g = c \o Filled(rest[3])
  OBVIOUS
<1>11. PickerSections(p, pre) = g
  BY <1>1, <1>5, <1>7, <1>8, <1>9, <1>10 DEF PickerSections
<1>12. /\ b \in Seq(A) /\ Len(a) <= Len(b)
       /\ \A s \in DOMAIN a : s \in DOMAIN b /\ b[s] = a[s]
       /\ \A s \in DOMAIN b \ DOMAIN a : b[s] = Checkboxes(rest[1])
       /\ rest[1] # {} => \E s \in DOMAIN b \ DOMAIN a : b[s] = Checkboxes(rest[1])
  <2>1. Grown(A, a, rest[1], b)
    BY <1>6, <1>8, <1>25, FilledAt
  <2>2. QED
    BY <2>1 DEF Grown
<1>13. /\ c \in Seq(A) /\ Len(b) <= Len(c)
       /\ \A s \in DOMAIN b : s \in DOMAIN c /\ c[s] = b[s]
       /\ \A s \in DOMAIN c \ DOMAIN b : c[s] = Checkboxes(rest[2])
       /\ rest[2] # {} => \E s \in DOMAIN c \ DOMAIN b : c[s] = Checkboxes(rest[2])
  <2>1. Grown(A, b, rest[2], c)
    BY <1>9, <1>12, <1>25, FilledAt
  <2>2. QED
    BY <2>1 DEF Grown
<1>14. /\ g \in Seq(A) /\ Len(c) <= Len(g)
       /\ \A s \in DOMAIN c : s \in DOMAIN g /\ g[s] = c[s]
       /\ \A s \in DOMAIN g \ DOMAIN c : g[s] = Checkboxes(rest[3])
       /\ rest[3] # {} => \E s \in DOMAIN g \ DOMAIN c : g[s] = Checkboxes(rest[3])
  <2>1. Grown(A, c, rest[3], g)
    BY <1>10, <1>13, <1>25, FilledAt
  <2>2. QED
    BY <2>1 DEF Grown
<1>15. n <= Len(g) /\ Len(g) \in Nat /\ DOMAIN g = 1 .. Len(g)
  <2>1. Len(b) \in Nat /\ Len(c) \in Nat /\ Len(g) \in Nat /\ DOMAIN g = 1 .. Len(g)
    BY <1>12, <1>13, <1>14
  <2>2. QED
    BY <1>6, <1>12, <1>13, <1>14, <2>1
<1>16. \A s \in 1 .. n : g[s] = a[s]
  BY <1>6, <1>12, <1>13, <1>14
<1>17. \A s \in 1 .. n :
          /\ names[s] \in DOMAIN p.categories
          /\ g[s] = PickerSection(p.categories[names[s]].radio, CategoryRows(p, pre, names[s]))
  BY <1>4, <1>5, <1>16
<1>18. \A s \in DOMAIN g \ (1 .. n) :
          \E i \in 1 .. 3 : g[s] = Checkboxes(rest[i])
  <2>1. ASSUME NEW s \in DOMAIN g \ (1 .. n)
        PROVE  \E i \in 1 .. 3 : g[s] = Checkboxes(rest[i])
    <3>1. CASE s \in DOMAIN b
      <4>1. g[s] = Checkboxes(rest[1])
        BY <1>6, <1>12, <1>13, <1>14, <3>1
      <4>2. QED
        BY <4>1
    <3>2. CASE s \in DOMAIN c \ DOMAIN b
      <4>1. g[s] = Checkboxes(rest[2])
        BY <1>13, <1>14, <3>2
      <4>2. QED
        BY <4>1
    <3>3. CASE s \notin DOMAIN c
      <4>1. g[s] = Checkboxes(rest[3])
        BY <1>14, <3>3
      <4>2. QED
        BY <4>1
    <3>4. QED
      BY <1>13, <3>1, <3>2, <3>3
  <2>2. QED
    BY <2>1
<1>19. ASSUME NEW i \in 1 .. 3, rest[i] # {}
       PROVE  \E s \in DOMAIN g \ (1 .. n) : g[s] = Checkboxes(rest[i])
  <2>1. CASE i = 1
    <3>1. PICK s \in DOMAIN b \ DOMAIN a : b[s] = Checkboxes(rest[1])
      BY <1>12, <1>19, <2>1
    <3>2. s \in DOMAIN g \ (1 .. n) /\ g[s] = b[s]
      BY <1>6, <1>13, <1>14, <3>1
    <3>3. QED
      BY <2>1, <3>1, <3>2
  <2>2. CASE i = 2
    <3>1. PICK s \in DOMAIN c \ DOMAIN b : c[s] = Checkboxes(rest[2])
      BY <1>13, <1>19, <2>2
    <3>2. s \in DOMAIN g \ (1 .. n) /\ g[s] = c[s]
      BY <1>6, <1>12, <1>14, <3>1
    <3>3. QED
      BY <2>2, <3>1, <3>2
  <2>3. CASE i = 3
    <3>1. PICK s \in DOMAIN g \ DOMAIN c : g[s] = Checkboxes(rest[3])
      BY <1>14, <1>19, <2>3
    <3>2. s \in DOMAIN g \ (1 .. n)
      BY <1>6, <1>12, <1>13, <3>1
    <3>3. QED
      BY <2>3, <3>1, <3>2
  <2>4. QED
    BY <2>1, <2>2, <2>3
<1>20. \A k \in DOMAIN p.categories :
          CategoryRows(p, pre, k) # {} => \E s \in 1 .. n : names[s] = k
  BY <1>3, <1>4
<1>21. Arranged(p, pre, g, n, names)
  <2>1. \A s, t \in 1 .. n : names[s] = names[t] => s = t
    BY <1>3, <1>4
  <2>2. QED
    BY <1>7, <1>15, <1>17, <1>18, <1>19, <1>20, <2>1 DEF Arranged
<1>22. QED
  BY <1>11, <1>21

-----------------------------------------------------------------------------
(* What the sections of a picker hold. *)
Holds(p, pre, g, n, names) ==
    /\ DOMAIN g = 1 .. Len(g) /\ Len(g) \in Nat
    /\ \A s \in DOMAIN g :
          /\ IsFiniteSet(DOMAIN g[s].rows)
          /\ \A i, j \in DOMAIN g[s].rows : g[s].rows[i] = g[s].rows[j] => i = j
    /\ \A s \in DOMAIN g \cap (1 .. n) :
          /\ names[s] \in DOMAIN p.categories
          /\ g[s].radio = p.categories[names[s]].radio
          /\ \A j \in DOMAIN g[s].rows : InCategory(p, pre, names[s], g[s].rows[j])
    /\ \A s \in DOMAIN g \ (1 .. n) :
          ~g[s].radio /\ \A j \in DOMAIN g[s].rows : InNone(p, pre, g[s].rows[j])

(* The sections hold what their rows are for. *)
LEMMA SectionsHold ==
    ASSUME NEW p, IsManifest(p), NEW pre, NEW g, NEW n, NEW names, Arranged(p, pre, g, n, names)
    PROVE  Holds(p, pre, g, n, names)
<1>1. ASSUME NEW s \in DOMAIN g \cap (1 .. n)
      PROVE  /\ IsFiniteSet(DOMAIN g[s].rows)
             /\ \A i, j \in DOMAIN g[s].rows : g[s].rows[i] = g[s].rows[j] => i = j
             /\ names[s] \in DOMAIN p.categories
             /\ g[s].radio = p.categories[names[s]].radio
             /\ \A j \in DOMAIN g[s].rows : InCategory(p, pre, names[s], g[s].rows[j])
  <2>1. PICK k, rows, radio : /\ k = names[s] /\ rows = CategoryRows(p, pre, k)
                              /\ radio = p.categories[k].radio
    OBVIOUS
  <2>2. k \in DOMAIN p.categories /\ g[s] = PickerSection(radio, rows)
    BY <2>1 DEF Arranged
  <2>3. IsFiniteSet(rows) /\ \A r \in rows : InCategory(p, pre, k, r)
    BY <2>1, CategoryRowsAre
  <2>4. /\ g[s].radio = radio
        /\ \A j \in DOMAIN g[s].rows : g[s].rows[j] \in rows
        /\ \A i, j \in DOMAIN g[s].rows : g[s].rows[i] = g[s].rows[j] => i = j
        /\ IsFiniteSet(DOMAIN g[s].rows)
    BY <2>2, <2>3, SectionRows
  <2>5. QED
    BY <2>1, <2>2, <2>3, <2>4
<1>2. ASSUME NEW s \in DOMAIN g \ (1 .. n)
      PROVE  /\ IsFiniteSet(DOMAIN g[s].rows)
             /\ \A i, j \in DOMAIN g[s].rows : g[s].rows[i] = g[s].rows[j] => i = j
             /\ ~g[s].radio
             /\ \A j \in DOMAIN g[s].rows : InNone(p, pre, g[s].rows[j])
  <2>1. PICK i \in 1 .. 3 : g[s] = Checkboxes(GenericRows(p, pre)[i])
    BY DEF Arranged
  <2>2. PICK rows : rows = GenericRows(p, pre)[i]
    OBVIOUS
  <2>3. PICK radio : radio = FALSE
    OBVIOUS
  <2>4. g[s] = PickerSection(radio, rows)
    BY <2>1, <2>2, <2>3 DEF Checkboxes
  <2>5. IsFiniteSet(rows) /\ \A r \in rows : InNone(p, pre, r)
    BY <2>2, GenericRowsAre
  <2>6. /\ g[s].radio = radio
        /\ \A j \in DOMAIN g[s].rows : g[s].rows[j] \in rows
        /\ \A h, j \in DOMAIN g[s].rows : g[s].rows[h] = g[s].rows[j] => h = j
        /\ IsFiniteSet(DOMAIN g[s].rows)
    BY <2>4, <2>5, SectionRows
  <2>7. QED
    BY <2>3, <2>5, <2>6
<1>3. DOMAIN g = 1 .. Len(g) /\ Len(g) \in Nat
  BY DEF Arranged
<1>4. QED
  BY <1>1, <1>2, <1>3 DEF Holds

(* Every visible crate has a row. *)
LEMMA CrateHasRow ==
    ASSUME NEW p, IsManifest(p), NEW pre, NEW g, NEW n, NEW names, Arranged(p, pre, g, n, names),
           NEW c \in Visible(p)
    PROVE  \E s \in DOMAIN g : \E j \in DOMAIN g[s].rows :
              g[s].rows[j] = PickRow("crate", c, c \in Initially(p, pre))
<1> DEFINE r == PickRow("crate", c, c \in Initially(p, pre))
<1>1. CASE \E k \in DOMAIN p.categories : c \in DepsIn(p, k)
  <2>1. PICK k \in DOMAIN p.categories : c \in DepsIn(p, k)
    BY <1>1
  <2>2. PICK rows, radio : rows = CategoryRows(p, pre, k) /\ radio = p.categories[k].radio
    OBVIOUS
  <2>3. r \in rows
    BY <2>1, <2>2 DEF CategoryRows, CrateRows
  <2>4. PICK s \in 1 .. n : names[s] = k
    BY <2>2, <2>3 DEF Arranged
  <2>5. s \in DOMAIN g /\ g[s] = PickerSection(radio, rows)
    BY <2>2, <2>4 DEF Arranged
  <2>6. IsFiniteSet(rows)
    BY <2>2, CategoryRowsAre
  <2> HIDE DEF r
  <2>7. \E j \in DOMAIN g[s].rows : g[s].rows[j] = r
    BY <2>3, <2>5, <2>6, SectionRows
  <2>8. QED
    BY <2>5, <2>7 DEF r
<1>2. CASE \A k \in DOMAIN p.categories : c \notin DepsIn(p, k)
  <2>1. PICK rows, radio : rows = GenericRows(p, pre)[2] /\ radio = FALSE
    OBVIOUS
  <2>2. c \in Rest(p, DOMAIN p.crates, DepsIn)
    BY <1>2 DEF Rest, Visible
  <2>3. rows = CrateRows(p, pre, Rest(p, DOMAIN p.crates, DepsIn))
    BY <2>1 DEF GenericRows
  <2>4. r \in rows
    BY <2>2, <2>3 DEF CrateRows
  <2> HIDE DEF r
  <2>5. PICK s \in DOMAIN g : g[s] = Checkboxes(rows)
    <3>1. 2 \in 1 .. 3 /\ GenericRows(p, pre)[2] # {}
      BY <2>1, <2>4
    <3>2. \E s \in DOMAIN g \ (1 .. n) : g[s] = Checkboxes(GenericRows(p, pre)[2])
      BY <3>1 DEF Arranged
    <3>3. QED
      BY <2>1, <3>2
  <2>6. g[s] = PickerSection(radio, rows)
    BY <2>1, <2>5 DEF Checkboxes
  <2>7. IsFiniteSet(rows)
    <3>1. 2 \in 1 .. 3
      OBVIOUS
    <3>2. QED
      BY <2>1, <3>1, GenericRowsAre
  <2>8. \E j \in DOMAIN g[s].rows : g[s].rows[j] = r
    BY <2>4, <2>6, <2>7, SectionRows
  <2>9. QED
    BY <2>8 DEF r
<1>3. QED
  BY <1>1, <1>2

-----------------------------------------------------------------------------
(* A feature that brings a crate of its own into the default set is one that
   `default` lists. *)
LEMMA OwnIsListed ==
    ASSUME NEW p, "default" \in DOMAIN p.features, \A r \in p.features["default"] : IsLocal(p, r),
           NEW f \in DOMAIN p.features \ {"default"}, Own(p, f),
           Members(p, f) \subseteq Selected(p, {"default"})
    PROVE  f \in Defaulted(p)
<1> DEFINE E == Expanded(p, {"default"})
<1>1. Requested(p, {"default"}) = {"default"} /\ ~TakesNonOptional(p, {"default"})
  BY DEF Requested, TakesNonOptional
<1>2. PICK c \in Members(p, f) \cap DOMAIN p.crates :
          /\ c \notin Unconditional(p)
          /\ \A g \in DOMAIN p.features \ {f} : \A r \in p.features[g] : r.name # c
          /\ \A g \in DOMAIN p.features \ {"default"} : \A r \in p.features[g] : r.name # f
  BY DEF Own
<1>3. c \in Activated(p, RefsOf(p, {"default"}))
  BY <1>1, <1>2 DEF Selected
<1>4. PICK g \in E : \E r \in p.features[g] : r.name = c
  BY <1>3 DEF Activated, RefsOf
<1>5. E \subseteq DOMAIN p.features
  BY DEF Expanded
<1>6. f \in E
  BY <1>2, <1>4, <1>5
<1>7. \E r \in p.features["default"] : r.name = f
  <2>1. SUFFICES ASSUME \A r \in p.features["default"] : r.name # f PROVE FALSE
    OBVIOUS
  <2>2. \A h \in DOMAIN p.features : \A r \in p.features[h] : r.name # f
    BY <1>2, <2>1
  <2> DEFINE G == DOMAIN p.features \ {f}
  <2>3. Closed(p, G)
    BY <2>2 DEF Closed, IsLocal
  <2>4. {"default"} \subseteq G
    OBVIOUS
  <2>5. f \in G
    BY <1>6, <2>3, <2>4 DEF Expanded
  <2>6. QED
    BY <2>5
<1>8. QED
  BY <1>7 DEF Defaulted, IsLocal

(* So validation finds two of them in one category. *)
LEMMA TwoClash ==
    ASSUME NEW p, IsManifest(p), Telling(p), NEW k \in Radio(p),
           NEW f \in FeaturesIn(p, k) \cap (DOMAIN p.features \ {"default"}), FeatureChecked(p, {}, f),
           NEW g \in FeaturesIn(p, k) \cap (DOMAIN p.features \ {"default"}), FeatureChecked(p, {}, g),
           f # g
    PROVE  Errors(p) # {}
<1>1. Members(p, f) \subseteq Selected(p, {"default"}) /\ Members(p, g) \subseteq Selected(p, {"default"})
  BY DEF FeatureChecked, Initially
<1>2. Own(p, f) /\ Own(p, g)
  BY DEF Telling
<1>3. f \in Defaulted(p) /\ g \in Defaulted(p)
  BY <1>1, <1>2, OwnIsListed DEF Telling
<1> DEFINE S == FeaturesIn(p, k) \cap Defaulted(p)
<1>4. IsFiniteSet(S)
  <2>1. Defaulted(p) \subseteq DOMAIN p.features
    BY DEF Telling, Defaulted, IsLocal
  <2>2. IsFiniteSet(DOMAIN p.features)
    BY DEF IsManifest
  <2>3. QED
    BY <2>1, <2>2, FS_Subset
<1>5. Cardinality(S) > 1
  BY <1>3, <1>4, MoreThanOne
<1>6. Clashes(p, k)
  BY <1>5 DEF Clashes, Radio
<1>7. "conflict" \in CategoryErrors(p)
  BY <1>6 DEF CategoryErrors, Radio
<1>8. QED
  BY <1>7 DEF Errors

-----------------------------------------------------------------------------
(* The features that open marked bring no visible crate but the default ones. *)
LEMMA MarkedFeatures ==
    ASSUME NEW p, Namesakes(p), NEW F, F # {},
           \A f \in F : f \in DOMAIN p.features \ {"default"} /\ FeatureChecked(p, {}, f)
    PROVE  Selected(p, F) \cap Visible(p) \subseteq Selected(p, {"default"})
<1> DEFINE D == Selected(p, {"default"})
<1>1. Requested(p, F) = F /\ ~TakesNonOptional(p, F)
  BY DEF Requested, TakesNonOptional
<1>2. Unconditional(p) \subseteq D
  BY DEF Selected
<1>3. \A f \in F : \A r \in p.features[f] : r.name \in p.hidden \/ r.name \in D
  BY DEF FeatureChecked, Members, Initially
<1>4. D \subseteq DOMAIN p.crates
  BY DEF Selected, Activated, NonOptional, Unconditional, Visible
<1> DEFINE N == {g \in DOMAIN p.features : g \in p.hidden \/ g \in D}
           G == F \cup N
<1>5. \A g \in N : \A r \in p.features[g] : r.name = g
  BY <1>4 DEF Namesakes
<1> HIDE DEF D
<1>6. Closed(p, G)
  BY <1>3, <1>5 DEF Closed, IsLocal
<1>7. G \in SUBSET DOMAIN p.features
  OBVIOUS
<1>8. Expanded(p, F) \subseteq G
  BY <1>6, <1>7 DEF Expanded
<1> HIDE DEF G
<1>9. ASSUME NEW c \in Activated(p, RefsOf(p, F)), c \in Visible(p)
      PROVE  c \in D
  <2>1. PICK h \in Expanded(p, F) : \E r \in p.features[h] : r.name = c
    BY <1>9 DEF Activated, RefsOf
  <2>2. c \notin p.hidden
    BY <1>9 DEF Visible
  <2>3. CASE h \in F
    BY <1>3, <2>1, <2>2, <2>3
  <2>4. CASE h \in N
    BY <1>5, <2>1, <2>2, <2>4
  <2>5. QED
    BY <1>8, <2>1, <2>3, <2>4 DEF G
<1>10. QED
  BY <1>1, <1>2, <1>9 DEF Selected, D

(* The marks a list can have, and the names marked of a kind. *)
MarksIn(g) == UNION {{s} \X DOMAIN g[s].rows : s \in DOMAIN g}

NamesOf(g, m, kind) == {g[x[1]].rows[x[2]].name : x \in {y \in m : g[y[1]].rows[y[2]].kind = kind}}

(* A mark is a section and a row of it. *)
LEMMA MarkParts ==
    ASSUME NEW g, NEW x \in MarksIn(g)
    PROVE  x = <<x[1], x[2]>> /\ x[1] \in DOMAIN g /\ x[2] \in DOMAIN g[x[1]].rows
BY DEF MarksIn

(* The rows marked when the picker opens in a new project. *)
LEMMA TickedRows ==
    ASSUME NEW p, NEW g, NEW n, NEW names, Holds(p, {}, g, n, names), NEW x \in Ticked(g)
    PROVE  LET r == g[x[1]].rows[x[2]] IN
           \/ r.kind = "feature" /\ r.name \in DOMAIN p.features \ {"default"}
                 /\ FeatureChecked(p, {}, r.name)
           \/ r.kind = "crate" /\ r.name \in Visible(p) /\ r.name \in Selected(p, {"default"})
<1>1. PICK s, j : s \in DOMAIN g /\ j \in DOMAIN g[s].rows /\ x = <<s, j>> /\ g[s].rows[j].checked
  BY DEF Ticked
<1>2. PICK r : r = g[s].rows[j]
  OBVIOUS
<1>3. InNone(p, {}, r) \/ \E k : InCategory(p, {}, k, r)
  BY <1>1, <1>2 DEF Holds
<1>4. \A f : FeatureChecked(p, {}, f) \in BOOLEAN
  BY DEF FeatureChecked
<1>5. r.checked
  BY <1>1, <1>2
<1>6. \/ /\ r.kind = "feature" /\ r.name \in DOMAIN p.features \ {"default"}
         /\ r = PickRow("feature", r.name, FeatureChecked(p, {}, r.name))
      \/ /\ r.kind = "crate" /\ r.name \in Visible(p)
         /\ r = PickRow("crate", r.name, r.name \in Initially(p, {}))
      \/ r = PickRow("template", r.name, FALSE)
  BY <1>3 DEF InNone, InCategory
<1>7. r # PickRow("template", r.name, FALSE)
  BY <1>5, RowParts
<1>8. CASE /\ r.kind = "feature" /\ r.name \in DOMAIN p.features \ {"default"}
           /\ r = PickRow("feature", r.name, FeatureChecked(p, {}, r.name))
  <2>1. r.checked = FeatureChecked(p, {}, r.name)
    BY <1>4, <1>8, RowParts
  <2>2. QED
    BY <1>1, <1>2, <1>5, <1>8, <2>1
<1>9. CASE /\ r.kind = "crate" /\ r.name \in Visible(p)
           /\ r = PickRow("crate", r.name, r.name \in Initially(p, {}))
  <2>1. r.checked = (r.name \in Initially(p, {}))
    BY <1>9 DEF PickRow
  <2>2. r.name \in Selected(p, {"default"})
    BY <1>5, <2>1 DEF Initially
  <2>3. QED
    BY <1>1, <1>2, <1>9, <2>2
<1>10. QED
  BY <1>6, <1>7, <1>8, <1>9

(* Enter in an untouched picker of a new project is a plain add. *)
LEMMA EnterTakes ==
    ASSUME NEW p, IsManifest(p), Namesakes(p), NEW g, NEW n, NEW names, Arranged(p, {}, g, n, names),
           NEW feats, feats = NamesOf(g, Ticked(g), "feature"),
           NEW rows, rows = NamesOf(g, Ticked(g), "crate")
    PROVE  /\ DOMAIN PickedCrates(p, feats, rows) \cap Visible(p)
                = Selected(p, {"default"}) \cap Visible(p)
           /\ NamesOf(g, Ticked(g), "template") = {}
<1>1. Holds(p, {}, g, n, names)
  BY SectionsHold
<1>2. \A x \in Ticked(g) :
         \/ g[x[1]].rows[x[2]].kind = "feature"
               /\ g[x[1]].rows[x[2]].name \in DOMAIN p.features \ {"default"}
               /\ FeatureChecked(p, {}, g[x[1]].rows[x[2]].name)
         \/ g[x[1]].rows[x[2]].kind = "crate"
               /\ g[x[1]].rows[x[2]].name \in Visible(p)
               /\ g[x[1]].rows[x[2]].name \in Selected(p, {"default"})
  BY <1>1, TickedRows
<1>3. NamesOf(g, Ticked(g), "template") = {}
  BY <1>2 DEF NamesOf
<1>4. \A f \in feats : f \in DOMAIN p.features \ {"default"} /\ FeatureChecked(p, {}, f)
  BY <1>2 DEF NamesOf
<1>5. rows \subseteq Visible(p) \cap Selected(p, {"default"})
  BY <1>2 DEF NamesOf
<1>6. ASSUME NEW c \in Visible(p), c \in Selected(p, {"default"})
      PROVE  c \in rows
  <2>1. PICK s \in DOMAIN g : \E j \in DOMAIN g[s].rows :
               g[s].rows[j] = PickRow("crate", c, c \in Initially(p, {}))
    BY CrateHasRow
  <2>2. PICK j \in DOMAIN g[s].rows : g[s].rows[j] = PickRow("crate", c, c \in Initially(p, {}))
    BY <2>1
  <2>3. (c \in Initially(p, {})) = TRUE
    BY <1>6 DEF Initially
  <2>4. /\ g[s].rows[j].kind = "crate" /\ g[s].rows[j].name = c
        /\ g[s].rows[j].checked = (c \in Initially(p, {}))
    BY <2>2 DEF PickRow
  <2>5. g[s].rows[j].checked
    BY <2>3, <2>4
  <2>6. <<s, j>> \in Ticked(g)
    BY <2>5 DEF Ticked
  <2>7. QED
    BY <2>4, <2>6 DEF NamesOf
<1>7. rows \cap Visible(p) = Selected(p, {"default"}) \cap Visible(p)
  BY <1>5, <1>6
<1>8. CASE feats = {}
  <2>1. DOMAIN PickedCrates(p, feats, rows) = rows \cap Visible(p)
    BY <1>8, NoneHas DEF PickedCrates
  <2>2. QED
    BY <1>3, <1>7, <2>1
<1>9. CASE feats # {}
  <2>1. DOMAIN PickedCrates(p, feats, rows) = Selected(p, feats) \cup (rows \cap Visible(p))
    BY <1>9 DEF PickedCrates, Resolve
  <2>2. Selected(p, feats) \cap Visible(p) \subseteq Selected(p, {"default"})
    BY <1>4, <1>9, MarkedFeatures
  <2>3. QED
    BY <1>3, <1>7, <2>1, <2>2
<1>10. QED
  BY <1>8, <1>9

-----------------------------------------------------------------------------
(* The items of a kind marked that only category k has. *)
Chosen(p, g, m, k, kind, items) == {kind} \X {i \in items \cap NamesOf(g, m, kind) : Only(p, k, i)}

(* An item only k has is marked in the section of k. *)
LEMMA ChosenThere ==
    ASSUME NEW p, NEW pre, NEW g, NEW n, NEW names, Holds(p, pre, g, n, names),
           NEW m, m \subseteq MarksIn(g), NEW k \in DOMAIN p.categories,
           NEW kind, NEW items,
           \/ kind = "feature" /\ items = FeaturesIn(p, k)
           \/ kind = "crate" /\ items = DepsIn(p, k)
           \/ kind = "template" /\ items = TemplatesIn(p, k),
           NEW c \in Chosen(p, g, m, k, kind, items)
    PROVE  \E x \in m : /\ x = <<x[1], x[2]>> /\ x[1] \in DOMAIN g /\ x[2] \in DOMAIN g[x[1]].rows
                       /\ x[1] \in 1 .. n /\ names[x[1]] = k
                       /\ c = <<g[x[1]].rows[x[2]].kind, g[x[1]].rows[x[2]].name>>
<1>1. PICK i : c = <<kind, i>> /\ i \in items /\ i \in NamesOf(g, m, kind) /\ Only(p, k, i)
  BY DEF Chosen
<1>2. PICK x \in m : g[x[1]].rows[x[2]].kind = kind /\ g[x[1]].rows[x[2]].name = i
  BY <1>1 DEF NamesOf
<1>3. x = <<x[1], x[2]>> /\ x[1] \in DOMAIN g /\ x[2] \in DOMAIN g[x[1]].rows
  BY MarkParts
<1>4. PICK r : r = g[x[1]].rows[x[2]]
  OBVIOUS
<1>5. x[1] \in 1 .. n
  <2>1. SUFFICES ASSUME x[1] \notin 1 .. n PROVE FALSE
    OBVIOUS
  <2>2. InNone(p, pre, r)
    BY <1>3, <1>4, <2>1 DEF Holds
  <2>3. r.kind = kind /\ r.name = i
    BY <1>2, <1>4
  <2>4. QED
    BY <1>1, <2>2, <2>3 DEF InNone
<1>6. names[x[1]] \in DOMAIN p.categories /\ InCategory(p, pre, names[x[1]], r)
  BY <1>3, <1>4, <1>5 DEF Holds
<1>7. i \in ItemsIn(p, names[x[1]])
  BY <1>2, <1>4, <1>6 DEF InCategory, ItemsIn
<1>8. names[x[1]] = k
  BY <1>1, <1>6, <1>7 DEF Only
<1>9. QED
  BY <1>1, <1>2, <1>3, <1>5, <1>8

(* A radio section with one mark picks one of the items it alone has. *)
LEMMA OneOfCategory ==
    ASSUME NEW p, NEW pre, NEW g, NEW n, NEW names,
           Arranged(p, pre, g, n, names), Holds(p, pre, g, n, names),
           NEW m, m \subseteq MarksIn(g), NEW k \in Radio(p),
           \A s \in DOMAIN g : g[s].radio => Cardinality(m \cap ({s} \X DOMAIN g[s].rows)) <= 1
    PROVE  Cardinality(Chosen(p, g, m, k, "feature", FeaturesIn(p, k))
                          \cup Chosen(p, g, m, k, "crate", DepsIn(p, k))
                          \cup Chosen(p, g, m, k, "template", TemplatesIn(p, k))) <= 1
<1> DEFINE F == Chosen(p, g, m, k, "feature", FeaturesIn(p, k))
           C == Chosen(p, g, m, k, "crate", DepsIn(p, k))
           T == Chosen(p, g, m, k, "template", TemplatesIn(p, k))
           There(c) == \E x \in m :
              /\ x = <<x[1], x[2]>> /\ x[1] \in DOMAIN g /\ x[2] \in DOMAIN g[x[1]].rows
              /\ x[1] \in 1 .. n /\ names[x[1]] = k
              /\ c = <<g[x[1]].rows[x[2]].kind, g[x[1]].rows[x[2]].name>>
<1>1. k \in DOMAIN p.categories /\ p.categories[k].radio
  BY DEF Radio
<1>2. \A c \in F : There(c)
  BY <1>1, ChosenThere
<1>3. \A c \in C : There(c)
  BY <1>1, ChosenThere
<1>4. \A c \in T : There(c)
  BY <1>1, ChosenThere
<1> HIDE DEF F, C, T
<1>5. ASSUME NEW c, NEW d, There(c), There(d)
      PROVE  c = d
  <2>1. PICK x \in m :
              /\ x = <<x[1], x[2]>> /\ x[1] \in DOMAIN g /\ x[2] \in DOMAIN g[x[1]].rows
              /\ x[1] \in 1 .. n /\ names[x[1]] = k
              /\ c = <<g[x[1]].rows[x[2]].kind, g[x[1]].rows[x[2]].name>>
    BY <1>5
  <2>2. PICK y \in m :
              /\ y = <<y[1], y[2]>> /\ y[1] \in DOMAIN g /\ y[2] \in DOMAIN g[y[1]].rows
              /\ y[1] \in 1 .. n /\ names[y[1]] = k
              /\ d = <<g[y[1]].rows[y[2]].kind, g[y[1]].rows[y[2]].name>>
    BY <1>5
  <2>3. PICK s : s = x[1]
    OBVIOUS
  <2>4. y[1] = s
    BY <2>1, <2>2, <2>3 DEF Arranged
  <2> DEFINE M == m \cap ({s} \X DOMAIN g[s].rows)
  <2>5. x \in M /\ y \in M
    BY <2>1, <2>2, <2>3, <2>4
  <2>6. g[s].radio
    BY <1>1, <2>1, <2>3 DEF Holds
  <2>7. IsFiniteSet(M)
    <3>1. IsFiniteSet(DOMAIN g[s].rows) /\ IsFiniteSet({s})
      BY <2>1, <2>3, FS_Singleton DEF Holds
    <3>2. IsFiniteSet({s} \X DOMAIN g[s].rows)
      BY <3>1, FS_Product
    <3>3. QED
      BY <3>2, FS_Subset
  <2>8. Cardinality(M) <= 1
    BY <2>1, <2>3, <2>6
  <2> HIDE DEF M
  <2>9. x = y
    BY <2>5, <2>7, <2>8, TheSame
  <2>10. QED
    BY <2>1, <2>2, <2>9
<1> HIDE DEF There
<1>6. \A c, d \in F \cup C \cup T : c = d
  BY <1>2, <1>3, <1>4, <1>5
<1>7. Cardinality(F \cup C \cup T) <= 1
  BY <1>6, AtMostOne
<1>8. QED
  BY <1>7 DEF F, C, T

-----------------------------------------------------------------------------
(* What the picker shows is the pack as it is published, with marks on its
   rows; a pack that has passed has no errors. *)
Shown ==
    stage = "picking" =>
        \E pre : /\ fresh = (pre = {})
               /\ given = PickerSections(pack, pre)
               /\ marks \subseteq MarksIn(given)

LintInv == IsManifest(pack) /\ (Passed => Errors(pack) = {}) /\ Shown

(* A pack with a field edited is a pack. *)
LEMMA EditedManifest ==
    ASSUME NEW p, IsManifest(p), NEW meta
    PROVE  /\ IsManifest([p EXCEPT !.featureMeta = meta])
           /\ IsManifest([p EXCEPT !.depMeta = meta])
           /\ IsFiniteSet(DOMAIN meta) =>
                 /\ IsManifest([p EXCEPT !.categories = meta])
                 /\ IsManifest([p EXCEPT !.templates = meta])
<1>1. IsManifest([p EXCEPT !.featureMeta = meta])
  BY DEF IsManifest
<1>2. IsManifest([p EXCEPT !.depMeta = meta])
  BY DEF IsManifest
<1>3. ASSUME IsFiniteSet(DOMAIN meta)
      PROVE  IsManifest([p EXCEPT !.categories = meta])
  BY <1>3 DEF IsManifest
<1>4. ASSUME IsFiniteSet(DOMAIN meta)
      PROVE  IsManifest([p EXCEPT !.templates = meta])
  BY <1>4 DEF IsManifest
<1>5. QED
  BY <1>1, <1>2, <1>3, <1>4

(* It is so when the author starts, *)
LEMMA LintInit == Init => LintInv
BY ManifestsAssumption DEF Init, LintInv, Passed, Shown

(* edits and validates, *)
LEMMA LintEdits ==
    ASSUME LintInv, NEW p, Edits(p), IsManifest(p)
    PROVE  LintInv'
BY DEF Edits, LintInv, Passed, Shown, IsManifest

(* and while the user picks. *)
LEMMA LintStep == LintInv /\ [Next]_vars => LintInv'
<1> SUFFICES ASSUME LintInv, [Next]_vars PROVE LintInv'
  OBVIOUS
<1>1. IsManifest(pack)
  BY DEF LintInv
<1>2. CASE Validate
  BY <1>2 DEF Validate, LintInv, Passed, Shown, picker
<1>3. ASSUME NEW d, Declares(d[1], d[2]) \/ Withdraws(d[1])
      PROVE  LintInv'
  <2>1. PICK meta : IsFiniteSet(DOMAIN meta) /\ Edits([pack EXCEPT !.categories = meta])
    <3>1. IsFiniteSet(DOMAIN pack.categories)
      BY <1>1 DEF IsManifest
    <3>2. CASE Declares(d[1], d[2])
      <4>1. PICK meta : meta = With(pack.categories, d[1], [radio |-> d[2], titled |-> d[2]])
        OBVIOUS
      <4>2. DOMAIN meta = DOMAIN pack.categories \cup {d[1]}
        BY <4>1 DEF With
      <4>3. IsFiniteSet(DOMAIN meta)
        BY <3>1, <4>2, FS_AddElement
      <4>4. Edits([pack EXCEPT !.categories = meta])
        BY <3>2, <4>1 DEF Declares
      <4>5. QED
        BY <4>3, <4>4
    <3>3. CASE Withdraws(d[1])
      <4>1. PICK meta : meta = Drop(pack.categories, d[1])
        OBVIOUS
      <4>2. DOMAIN meta \subseteq DOMAIN pack.categories
        BY <4>1 DEF Drop
      <4>3. IsFiniteSet(DOMAIN meta)
        BY <3>1, <4>2, FS_Subset
      <4>4. Edits([pack EXCEPT !.categories = meta])
        BY <3>3, <4>1 DEF Withdraws
      <4>5. QED
        BY <4>3, <4>4
    <3>4. QED
      BY <1>3, <3>2, <3>3
  <2>2. PICK p : p = [pack EXCEPT !.categories = meta]
    OBVIOUS
  <2>3. IsManifest(p)
    BY <1>1, <2>1, <2>2, EditedManifest
  <2>4. Edits(p)
    BY <2>1, <2>2
  <2>5. QED
    BY <2>3, <2>4, LintEdits
<1>4. ASSUME NEW item, NEW ks, Describes(item, ks)
      PROVE  LintInv'
  <2>1. CASE DescribesFeature(item, ks)
    <3>1. PICK meta : meta = With(pack.featureMeta, item, ks)
      OBVIOUS
    <3>2. PICK p : p = [pack EXCEPT !.featureMeta = meta]
      OBVIOUS
    <3>3. IsManifest(p)
      BY <1>1, <3>2, EditedManifest
    <3>4. Edits(p)
      BY <2>1, <3>1, <3>2 DEF DescribesFeature
    <3>5. QED
      BY <3>3, <3>4, LintEdits
  <2>2. CASE DescribesDep(item, ks)
    <3>1. PICK meta : meta = With(pack.depMeta, item, ks)
      OBVIOUS
    <3>2. PICK p : p = [pack EXCEPT !.depMeta = meta]
      OBVIOUS
    <3>3. IsManifest(p)
      BY <1>1, <3>2, EditedManifest
    <3>4. Edits(p)
      BY <2>2, <3>1, <3>2 DEF DescribesDep
    <3>5. QED
      BY <3>3, <3>4, LintEdits
  <2>3. CASE DescribesTemplate(item, ks)
    <3>1. PICK meta : meta = [pack.templates EXCEPT ![item] = ks]
      OBVIOUS
    <3>2. PICK p : p = [pack EXCEPT !.templates = meta]
      OBVIOUS
    <3>3. IsFiniteSet(DOMAIN meta)
      BY <1>1, <3>1 DEF IsManifest
    <3>4. IsManifest(p)
      BY <1>1, <3>2, <3>3, EditedManifest
    <3>5. Edits(p)
      BY <2>3, <3>1, <3>2 DEF DescribesTemplate
    <3>6. QED
      BY <3>4, <3>5, LintEdits
  <2>4. QED
    BY <1>4, <2>1, <2>2, <2>3 DEF Describes
<1>5. ASSUME NEW pre, Opens(pre)
      PROVE  LintInv'
  <2>1. /\ stage' = "picking" /\ fresh' = (pre = {}) /\ given' = PickerSections(pack, pre)
        /\ marks' = Ticked(given') /\ pack' = pack /\ report' = report
    BY <1>5 DEF Opens
  <2>2. Ticked(given') \subseteq MarksIn(given')
    BY DEF Ticked, MarksIn
  <2>3. Shown'
    BY <2>1, <2>2 DEF Shown
  <2>4. QED
    BY <2>1, <2>3 DEF LintInv, Passed
<1>6. CASE MarksRows
  <2>1. PICK s \in DOMAIN given : Picker!Mark(s)
    BY <1>6 DEF MarksRows
  <2>2. PICK chosen \in SUBSET Picker!RowsOf(s) : marks' = (marks \ Picker!RowsOf(s)) \cup chosen
    BY <2>1 DEF Picker!Mark
  <2>3. given' = given /\ stage = "picking" /\ pack' = pack /\ report' = report /\ fresh' = fresh
    BY <1>6, <2>1 DEF MarksRows, Picker!Mark
  <2>4. Picker!RowsOf(s) \subseteq MarksIn(given)
    BY DEF Picker!RowsOf, MarksIn
  <2>5. marks \subseteq MarksIn(given) => marks' \subseteq MarksIn(given')
    BY <2>2, <2>3, <2>4
  <2>6. Shown'
    BY <2>3, <2>5 DEF Shown, LintInv
  <2>7. QED
    BY <2>3, <2>6 DEF LintInv, Passed
<1>7. CASE Confirms
  BY <1>7 DEF Confirms, LintInv, Shown, Passed
<1>8. CASE Leaves
  BY <1>8 DEF Leaves, LintInv, Shown, Passed
<1>9. CASE UNCHANGED vars
  BY <1>9 DEF vars, LintInv, Shown, Passed
<1>10. QED
  BY <1>2, <1>3, <1>4, <1>5, <1>6, <1>7, <1>8, <1>9 DEF Next

(* so always. *)
LEMMA LintInvariance == LintSpec => []LintInv
<1>1. QED
  BY LintInit, LintStep, PTL DEF LintSpec

(* The contract counts as this module does. *)
LEMMA SameCount == \A S : Picker!Cardinality(S) = Cardinality(S)
BY DEF Picker!Cardinality, Cardinality

(* format.features.exclusive-conflict: two marks of one at-most-one category
   would be two features that `default` lists, which validation refuses. *)
THEOREM OpensClean == LintSpec => []OpensWithoutConflict
<1>1. LintInv => OpensWithoutConflict
  <2> SUFFICES ASSUME LintInv, stage = "picking", Passed, fresh, Telling(pack), Untouched
               PROVE  Picker!NoConflict(marks)
    BY DEF OpensWithoutConflict
  <2>1. IsManifest(pack) /\ Errors(pack) = {}
    BY DEF LintInv
  <2>2. given = PickerSections(pack, {})
    BY DEF LintInv, Shown
  <2>3. PICK n, names : Arranged(pack, {}, given, n, names)
    BY <2>1, <2>2, SectionsArranged
  <2>4. Holds(pack, {}, given, n, names)
    BY <2>1, <2>3, SectionsHold
  <2>5. ASSUME NEW s \in DOMAIN given, given[s].radio
        PROVE  Cardinality(marks \cap Picker!RowsOf(s)) <= 1
    <3>1. s \in 1 .. n
      BY <2>4, <2>5 DEF Holds
    <3>2. PICK k : k = names[s]
      OBVIOUS
    <3>3. k \in Radio(pack) /\ \A j \in DOMAIN given[s].rows : InCategory(pack, {}, k, given[s].rows[j])
      BY <2>4, <2>5, <3>1, <3>2 DEF Holds, Radio
    <3>4. DepsIn(pack, k) = {}
      BY <3>3 DEF Telling
    <3>5. ASSUME NEW x \in marks \cap Picker!RowsOf(s)
          PROVE  /\ x = <<s, x[2]>> /\ x[2] \in DOMAIN given[s].rows
                 /\ given[s].rows[x[2]].name \in FeaturesIn(pack, k) \cap (DOMAIN pack.features \ {"default"})
                 /\ FeatureChecked(pack, {}, given[s].rows[x[2]].name)
                 /\ given[s].rows[x[2]] =
                       PickRow("feature", given[s].rows[x[2]].name,
                               FeatureChecked(pack, {}, given[s].rows[x[2]].name))
      <4>1. x = <<s, x[2]>> /\ x[1] = s /\ x[2] \in DOMAIN given[s].rows
        BY <3>5 DEF Picker!RowsOf
      <4>2. PICK r : r = given[s].rows[x[2]]
        OBVIOUS
      <4>3. \/ r.kind = "feature" /\ FeatureChecked(pack, {}, r.name)
            \/ r.kind = "crate"
        <5>1. x \in Ticked(given)
          BY <3>5 DEF Untouched
        <5>2. QED
          BY <2>4, <4>1, <4>2, <5>1, TickedRows
      <4>4. InCategory(pack, {}, k, r)
        BY <3>3, <4>1, <4>2
      <4>5. /\ r.name \in FeaturesIn(pack, k) \cap (DOMAIN pack.features \ {"default"})
            /\ r = PickRow("feature", r.name, FeatureChecked(pack, {}, r.name))
            /\ FeatureChecked(pack, {}, r.name)
        BY <3>4, <4>3, <4>4 DEF InCategory
      <4>6. QED
        BY <4>1, <4>2, <4>5
    <3>6. ASSUME NEW x \in marks \cap Picker!RowsOf(s), NEW y \in marks \cap Picker!RowsOf(s)
          PROVE  x = y
      <4>1. PICK f, g : f = given[s].rows[x[2]].name /\ g = given[s].rows[y[2]].name
        OBVIOUS
      <4>2. f = g
        <5>1. SUFFICES ASSUME f # g PROVE FALSE
          OBVIOUS
        <5>2. /\ f \in FeaturesIn(pack, k) \cap (DOMAIN pack.features \ {"default"})
              /\ g \in FeaturesIn(pack, k) \cap (DOMAIN pack.features \ {"default"})
              /\ FeatureChecked(pack, {}, f) /\ FeatureChecked(pack, {}, g)
          BY <3>5, <4>1
        <5>3. QED
          BY <2>1, <3>3, <5>1, <5>2, TwoClash
      <4>3. given[s].rows[x[2]] = given[s].rows[y[2]]
        BY <3>5, <4>1, <4>2
      <4>4. x[2] = y[2]
        BY <2>4, <3>5, <4>3 DEF Holds
      <4>5. QED
        BY <3>5, <4>4
    <3>7. QED
      BY <3>6, AtMostOne
  <2>6. QED
    BY <2>5, SameCount DEF Picker!NoConflict
<1>2. QED
  BY <1>1, LintInvariance, PTL

(* An Enter at once is a plain add, and a category that takes one item yields
   at most one of those it alone has (pick_crates_interactive). *)
THEOREM EnterIsAnAnswer == LintSpec => EnterAnswers
<1>1. LintInv /\ Confirms => (DefaultMarks => TakesDefaults) /\ OneEach
  <2> SUFFICES ASSUME LintInv, Confirms
               PROVE  (DefaultMarks => TakesDefaults) /\ OneEach
    OBVIOUS
  <2>1. PICK pre : /\ fresh = (pre = {}) /\ given = PickerSections(pack, pre)
                   /\ marks \subseteq MarksIn(given)
    BY DEF LintInv, Shown, Confirms
  <2>2. IsManifest(pack)
    BY DEF LintInv
  <2>3. PICK n, names : Arranged(pack, pre, given, n, names)
    BY <2>1, <2>2, SectionsArranged
  <2>4. Holds(pack, pre, given, n, names)
    BY <2>2, <2>3, SectionsHold
  <2>5. \A kind : Picked(kind) = NamesOf(given, marks', kind)
    BY DEF Picked, NamesOf
  <2>6. marks' \subseteq MarksIn(given)
    BY <2>1 DEF Confirms, Picker!Confirm, Picker!RowsOf, MarksIn
  <2>7. \A s \in DOMAIN given : given[s].radio =>
            Cardinality(marks' \cap ({s} \X DOMAIN given[s].rows)) <= 1
    BY SameCount DEF Confirms, Picker!Confirm, Picker!NoConflict, Picker!RowsOf
  <2>8. OneEach
    <3>1. SUFFICES ASSUME NEW k \in Radio(pack)
          PROVE  Cardinality(Chosen(pack, given, marks', k, "feature", FeaturesIn(pack, k))
                                \cup Chosen(pack, given, marks', k, "crate", DepsIn(pack, k))
                                \cup Chosen(pack, given, marks', k, "template", TemplatesIn(pack, k))) <= 1
      BY <2>5 DEF OneEach, Chosen
    <3>2. PICK m : m = marks'
      OBVIOUS
    <3>3. QED
      BY <2>3, <2>4, <2>6, <2>7, <3>2, OneOfCategory
  <2>9. ASSUME DefaultMarks PROVE TakesDefaults
    <3>1. pre = {} /\ marks' = Ticked(given) /\ Namesakes(pack)
      BY <2>1, <2>9 DEF DefaultMarks, Untouched
    <3>2. PICK feats, rows : /\ feats = NamesOf(given, Ticked(given), "feature")
                             /\ rows = NamesOf(given, Ticked(given), "crate")
      OBVIOUS
    <3>3. /\ DOMAIN PickedCrates(pack, feats, rows) \cap Visible(pack)
                = Selected(pack, {"default"}) \cap Visible(pack)
          /\ NamesOf(given, Ticked(given), "template") = {}
      BY <2>2, <2>3, <3>1, <3>2, EnterTakes
    <3>4. /\ installed' = DOMAIN PickedCrates(pack, feats, rows)
          /\ applied' = NamesOf(given, Ticked(given), "template")
      BY <2>5, <3>1, <3>2 DEF Confirms
    <3>5. QED
      BY <3>3, <3>4 DEF TakesDefaults
  <2>10. QED
    BY <2>8, <2>9
<1>2. QED
  BY <1>1, LintInvariance, PTL DEF LintSpec, EnterAnswers
=============================================================================
