------------------------------ MODULE MergeProofs ------------------------------
(***************************************************************************)
(* Applying a template loses nothing the user did not give away, an answer *)
(* for all remaining conflicts is final, and applying it again over a      *)
(* command that died ends where that command would have: for every         *)
(* template, every project and any number of runs and edits.               *)
(***************************************************************************)
EXTENDS MergeSafety, ListProofs, SequenceTheorems

FilesOK ==
    /\ files = [p \in Paths |-> files[p]]
    /\ \A p \in Paths : Fits(p, files[p])

(* What a prompt offers is a file of the kind it is to replace. *)
DraftOK ==
    phase = "ask" =>
        /\ draft = [whole |-> draft.whole, content |-> draft.content]
        /\ Fits(Current.path, draft.content)
        /\ draft.whole \/ (Strategy[Current.path] # "plain" /\ Current.content # Broken)

IInv == TypeOK /\ FilesOK /\ DraftOK

-----------------------------------------------------------------------------
(* Rows. *)

(* A merged row keeps what the user's had. *)
LEMMA RowMerged ==
    ASSUME NEW old \in Entry, NEW row \in Entry
    PROVE  MergeRow(old, row) \in Entry /\ KeepsRow(old, MergeRow(old, row))
<1>1. /\ old.form \in {"absent", "workspace", "version"} /\ old.ver \in Nat /\ old.req \in BOOLEAN
      /\ old.feats \in SUBSET CrateFeatures /\ old.extra \in BOOLEAN
      /\ row.ver \in Nat /\ row.req \in BOOLEAN /\ row.feats \in SUBSET CrateFeatures
  BY DEF Entry
<1>2. CASE ~Present(row)
  BY <1>1, <1>2 DEF MergeRow, KeepsRow
<1>3. CASE Present(row) /\ ~Present(old)
  <2> DEFINE new == MergeRow(old, row)
  <2>1. new = [form |-> "version", ver |-> row.ver, req |-> row.req, feats |-> row.feats,
               extra |-> FALSE]
    BY <1>3 DEF MergeRow, Row
  <2> HIDE DEF new
  <2>2. new \in Entry
    BY <1>1, <2>1 DEF Entry, Present
  <2>3. QED
    BY <1>3, <2>2 DEF KeepsRow, new
<1>4. CASE Present(row) /\ Present(old)
  <2>1. PICK v, q, f : /\ v = IF Renews(old, row) THEN row.ver ELSE old.ver
                       /\ q = IF Renews(old, row) THEN row.req ELSE old.req
                       /\ f = old.feats \cup row.feats
    OBVIOUS
  <2> DEFINE new == [old EXCEPT !.ver = v, !.req = q, !.feats = f]
  <2>2. MergeRow(old, row) = new
    BY <1>4, <2>1 DEF MergeRow
  <2>3. v \in Nat /\ q \in BOOLEAN /\ f \in SUBSET CrateFeatures /\ old.feats \subseteq f
    BY <1>1, <2>1
  <2>4. v >= old.ver \/ old.req \/ q
    BY <1>1, <2>1 DEF Renews, Upgrades, Text
  <2>5. /\ new.form = old.form /\ new.ver = v /\ new.req = q /\ new.extra = old.extra
        /\ new.feats = f
    BY DEF Entry
  <2>6. new \in Entry
    BY <1>1, <1>4, <2>3 DEF Entry, Present
  <2> HIDE DEF new
  <2>7. KeepsRow(old, new)
    BY <2>3, <2>4, <2>5 DEF KeepsRow
  <2>8. QED
    BY <2>2, <2>6, <2>7
<1>5. QED
  BY <1>2, <1>3, <1>4

(* A row merged once is merged. *)
LEMMA RowAgain ==
    ASSUME NEW old \in Entry, NEW row \in Entry
    PROVE  MergeRow(MergeRow(old, row), row) = MergeRow(old, row)
<1>1. /\ old.form \in {"absent", "workspace", "version"} /\ old.ver \in Nat /\ old.req \in BOOLEAN
      /\ row.ver \in Nat /\ row.req \in BOOLEAN
  BY DEF Entry
<1> DEFINE new == MergeRow(old, row)
<1>2. CASE ~Present(row)
  BY <1>2 DEF MergeRow
<1>3. CASE Present(row)
  <2>1. new \in Entry
    BY RowMerged
  <2>2. Present(new) /\ ~Renews(new, row) /\ row.feats \subseteq new.feats
    <3>1. CASE ~Present(old)
      <4>1. new = [form |-> "version", ver |-> row.ver, req |-> row.req, feats |-> row.feats,
                   extra |-> FALSE]
        BY <1>3, <3>1 DEF MergeRow, Row
      <4>2. new.form = "version" /\ new.ver = row.ver /\ new.req = row.req /\ new.feats = row.feats
        BY <4>1
      <4> HIDE DEF new
      <4>3. QED
        BY <1>1, <4>2 DEF Present, Renews, Upgrades, Text
    <3>2. CASE Present(old)
      <4>1. PICK v, q : /\ v = IF Renews(old, row) THEN row.ver ELSE old.ver
                        /\ q = IF Renews(old, row) THEN row.req ELSE old.req
        OBVIOUS
      <4>2. new = [old EXCEPT !.ver = v, !.req = q, !.feats = @ \cup row.feats]
        BY <1>3, <3>2, <4>1 DEF MergeRow
      <4>3. /\ new.form = old.form /\ new.ver = v /\ new.req = q
            /\ new.feats = old.feats \cup row.feats
        BY <4>2 DEF Entry
      <4> HIDE DEF new
      <4>4. ~Renews(new, row)
        <5>1. CASE Renews(old, row)
          <6>1. new.ver = row.ver /\ new.req = row.req
            BY <4>1, <4>3, <5>1
          <6>2. QED
            BY <1>1, <6>1 DEF Renews, Upgrades, Text
        <5>2. CASE ~Renews(old, row)
          <6>1. new.ver = old.ver /\ new.req = old.req
            BY <4>1, <4>3, <5>2
          <6>2. QED
            BY <5>2, <6>1 DEF Renews, Upgrades, Text
        <5>3. QED
          BY <5>1, <5>2
      <4>5. QED
        BY <3>2, <4>3, <4>4 DEF Present
    <3>3. QED
      BY <3>1, <3>2
  <2> HIDE DEF new
  <2>3. MergeRow(new, row) = [new EXCEPT !.ver = new.ver, !.req = new.req,
                                         !.feats = new.feats \cup row.feats]
    BY <1>3, <2>2 DEF MergeRow
  <2>4. new.feats \cup row.feats = new.feats
    BY <2>2
  <2>5. [new EXCEPT !.ver = new.ver, !.req = new.req, !.feats = new.feats] = new
    BY <2>1 DEF Entry
  <2>6. QED
    BY <2>3, <2>4, <2>5 DEF new
<1>4. QED
  BY <1>2, <1>3

(* A template's row is what it merges to. *)
LEMMA RowOwn ==
    ASSUME NEW row \in Entry
    PROVE  MergeRow(row, row) = row
<1>1. row.ver \in Nat /\ row.req \in BOOLEAN
  BY DEF Entry
<1>2. ~Renews(row, row)
  BY <1>1 DEF Renews, Upgrades, Text
<1>3. CASE Present(row)
  <2>1. MergeRow(row, row) = [row EXCEPT !.ver = row.ver, !.req = row.req,
                                         !.feats = row.feats \cup row.feats]
    BY <1>2, <1>3 DEF MergeRow
  <2>2. row.feats \cup row.feats = row.feats
    OBVIOUS
  <2>3. [row EXCEPT !.ver = row.ver, !.req = row.req, !.feats = row.feats] = row
    BY DEF Entry
  <2>4. QED
    BY <2>1, <2>2, <2>3
<1>4. CASE ~Present(row)
  BY <1>4 DEF MergeRow
<1>5. QED
  BY <1>3, <1>4

(* What is read of a row is what of it is merged. *)
LEMMA SpecMerged ==
    ASSUME NEW old \in Entry, NEW row \in Entry
    PROVE  MergeRow(old, SpecOf(row)) = MergeRow(old, row)
<1>1. CASE ~Present(row)
  BY <1>1 DEF SpecOf
<1>2. CASE Present(row)
  <2>1. PICK spec : spec = SpecOf(row)
    OBVIOUS
  <2>2. spec = [form |-> "version", ver |-> row.ver, req |-> row.req, feats |-> row.feats,
                extra |-> FALSE]
    BY <1>2, <2>1 DEF SpecOf, Row
  <2>3. Present(spec) /\ spec.ver = row.ver /\ spec.req = row.req /\ spec.feats = row.feats
    BY <2>2 DEF Present
  <2>4. Renews(old, spec) = Renews(old, row)
    BY <2>3 DEF Renews, Upgrades, Text
  <2>5. PICK v, q, f : v = row.ver /\ q = row.req /\ f = row.feats
    OBVIOUS
  <2>6. CASE ~Present(old)
    <3>1. MergeRow(old, row) = [Row("version", v, f) EXCEPT !.req = q]
      BY <1>2, <2>5, <2>6 DEF MergeRow
    <3>2. MergeRow(old, spec) = [Row("version", v, f) EXCEPT !.req = q]
      BY <2>3, <2>5, <2>6 DEF MergeRow
    <3>3. QED
      BY <2>1, <3>1, <3>2
  <2>7. CASE Present(old)
    <3>1. PICK nv, nq : /\ nv = IF Renews(old, row) THEN v ELSE old.ver
                        /\ nq = IF Renews(old, row) THEN q ELSE old.req
      OBVIOUS
    <3>2. MergeRow(old, row) = [old EXCEPT !.ver = nv, !.req = nq, !.feats = @ \cup f]
      BY <1>2, <2>5, <2>7, <3>1 DEF MergeRow
    <3>3. MergeRow(old, spec) = [old EXCEPT !.ver = nv, !.req = nq, !.feats = @ \cup f]
      BY <2>3, <2>4, <2>5, <2>7, <3>1 DEF MergeRow
    <3>4. QED
      BY <2>1, <3>2, <3>3
  <2>8. QED
    BY <2>6, <2>7
<1>3. QED
  BY <1>1, <1>2

(* The dependency tables, row by row. *)
LEMMA DepsMerged ==
    ASSUME NEW old \in [Sections -> [Crates -> Entry]], NEW new \in [Sections -> [Crates -> Entry]]
    PROVE  MergeDeps(old, new)
             = [s \in Sections |-> [c \in Crates |-> MergeRow(old[s][c], new[s][c])]]
<1>1. \A s \in Sections, c \in Crates :
         MergeRow(old[s][c], SpecOf(new[s][c])) = MergeRow(old[s][c], new[s][c])
  BY SpecMerged
<1>2. QED
  BY <1>1 DEF MergeDeps

-----------------------------------------------------------------------------
(* Trees. *)

(* A merged tree is a tree. *)
LEMMA AdditiveTree ==
    ASSUME NEW tree, IsTree(tree), NEW deep, NEW other, IsTree(other)
    PROVE  IsTree(Additive(tree, deep, other))
<1> DEFINE sum == Additive(tree, deep, other)
<1>1. DOMAIN sum \subseteq DOMAIN tree \cup DOMAIN other /\ sum = [p \in DOMAIN sum |-> sum[p]]
  BY DEF Additive
<1>2. \A p \in DOMAIN sum : p \in Seq({p[i] : i \in DOMAIN p})
  BY <1>1 DEF IsTree
<1>3. QED
  BY <1>1, <1>2 DEF IsTree

(* A tree that holds no more of the paths at hand than another adds nothing to
   it. *)
LEMMA AdditiveNone ==
    ASSUME NEW tree, IsTree(tree), NEW deep, NEW other,
           \A p \in DOMAIN other : IsNew(tree, deep, p) => p \in DOMAIN tree
    PROVE  Additive(tree, deep, other) = tree
<1> DEFINE fresh == {p \in DOMAIN other : IsNew(tree, deep, p)}
<1>1. DOMAIN tree \cup fresh = DOMAIN tree
  OBVIOUS
<1> HIDE DEF fresh
<1>2. Additive(tree, deep, other) =
        [p \in DOMAIN tree \cup fresh |-> IF p \in DOMAIN tree THEN tree[p] ELSE other[p]]
  BY DEF Additive, fresh
<1>3. Additive(tree, deep, other) = [p \in DOMAIN tree |-> tree[p]]
  BY <1>1, <1>2
<1>4. QED
  BY <1>3 DEF IsTree

(* A template's tree is what it merges to. *)
LEMMA AdditiveOwn ==
    ASSUME NEW tree, IsTree(tree), NEW deep
    PROVE  Additive(tree, deep, tree) = tree
  BY AdditiveNone

(* A path of keys. *)
IsPath(p) == p \in Seq({p[i] : i \in DOMAIN p})

(* The length of a path is a number. *)
LEMMA PathLength ==
    ASSUME NEW p, IsPath(p)
    PROVE  Len(p) \in Nat
  BY DEF IsPath

(* The first keys of a path. *)
LEMMA Cut ==
    ASSUME NEW p, IsPath(p), NEW n \in 0 .. Len(p)
    PROVE  /\ IsPath(SubSeq(p, 1, n)) /\ Len(SubSeq(p, 1, n)) = n
           /\ \A i \in 1 .. n : SubSeq(p, 1, n)[i] = p[i]
<1> DEFINE S == {p[i] : i \in DOMAIN p}
           cut == SubSeq(p, 1, n)
<1>1. n \in Nat /\ \A i \in 1 .. n : p[i] \in S
  BY DEF IsPath
<1>2. /\ cut \in Seq(S) /\ Len(cut) = IF 1 <= n THEN n - 1 + 1 ELSE 0
      /\ \A i \in 1 .. (n - 1 + 1) : cut[i] = p[1 + i - 1]
  <2> HIDE DEF S
  <2>1. QED
    BY <1>1, SubSeqProperties
<1> HIDE DEF S, cut
<1>3. Len(cut) = n /\ \A i \in 1 .. n : cut[i] = p[i]
  BY <1>1, <1>2
<1>4. cut \in Seq({cut[i] : i \in DOMAIN cut})
  BY <1>2
<1>5. QED
  BY <1>3, <1>4 DEF IsPath, cut

(* Prefixes, key by key. *)
LEMMA PrefixKeys ==
    ASSUME NEW p, IsPath(p), NEW q, IsPath(q)
    PROVE  IsPrefixOf(p, q) <=> Len(p) <= Len(q) /\ \A i \in 1 .. Len(p) : p[i] = q[i]
<1>1. Len(p) \in Nat /\ Len(q) \in Nat
  BY PathLength
<1>2. CASE Len(p) <= Len(q)
  <2> DEFINE cut == SubSeq(q, 1, Len(p))
             S == {p[i] : i \in DOMAIN p} \cup {cut[i] : i \in DOMAIN cut}
  <2>1. Len(p) \in 0 .. Len(q)
    BY <1>1, <1>2
  <2>2. /\ IsPath(cut) /\ Len(cut) = Len(p) /\ \A i \in 1 .. Len(p) : cut[i] = q[i]
    BY <2>1, Cut
  <2>3. p \in Seq(S) /\ cut \in Seq(S)
    BY <2>2 DEF IsPath
  <2> HIDE DEF S, cut
  <2>4. (\A i \in 1 .. Len(p) : p[i] = q[i]) => cut = p
    BY <2>2, <2>3, SeqEqual
  <2>5. QED
    BY <1>2, <2>2, <2>4 DEF IsPrefixOf, cut
<1>3. CASE ~(Len(p) <= Len(q))
  BY <1>3 DEF IsPrefixOf
<1>4. QED
  BY <1>2, <1>3

LEMMA PrefixOfPrefix ==
    ASSUME NEW p, IsPath(p), NEW q, IsPath(q), NEW o, IsPath(o),
           IsPrefixOf(p, q), IsPrefixOf(q, o)
    PROVE  IsPrefixOf(p, o)
<1>1. Len(p) \in Nat /\ Len(q) \in Nat /\ Len(o) \in Nat
  BY PathLength
<1>2. /\ Len(p) <= Len(q) /\ \A i \in 1 .. Len(p) : p[i] = q[i]
      /\ Len(q) <= Len(o) /\ \A i \in 1 .. Len(q) : q[i] = o[i]
  BY PrefixKeys
<1>3. Len(p) <= Len(o) /\ \A i \in 1 .. Len(p) : p[i] = o[i]
  BY <1>1, <1>2
<1>4. QED
  BY <1>3, PrefixKeys

(* What is new to a tree that holds all that another does was new to the other,
   or lies below a leaf of it that is gone: go to the first key at which the
   other tree ends. *)
LEMMA NewBefore ==
    ASSUME NEW tree, NEW more, NEW deep, NEW p, IsPath(p), IsNew(more, deep, p),
           \A q : IsPath(q) /\ Holds(tree, q) => Holds(more, q)
    PROVE  \/ IsNew(tree, deep, p)
           \/ \E q \in DOMAIN tree \ DOMAIN more : IsPrefixOf(q, p)
<1>1. PICK n \in 1 .. Len(p) :
         /\ <<>> \notin DOMAIN more
         /\ \A i \in 1 .. (n - 1) : p[i] \in deep /\ IsTable(more, SubSeq(p, 1, i))
         /\ ~Holds(more, SubSeq(p, 1, n))
  BY DEF IsNew
<1>2. Len(p) \in Nat /\ \A i \in 0 .. Len(p) : IsPath(SubSeq(p, 1, i)) /\ IsPrefixOf(SubSeq(p, 1, i), p)
  <2>1. Len(p) \in Nat
    BY DEF IsPath
  <2>2. ASSUME NEW i \in 0 .. Len(p)
        PROVE  IsPath(SubSeq(p, 1, i)) /\ IsPrefixOf(SubSeq(p, 1, i), p)
    BY <2>1, Cut DEF IsPrefixOf
  <2>3. QED
    BY <2>1, <2>2
<1> DEFINE ends == {i \in 1 .. Len(p) : ~Holds(tree, SubSeq(p, 1, i))}
<1>3. n \in ends /\ ends \in SUBSET Nat
  BY <1>1, <1>2
<1>4. PICK m : m \in ends /\ \A y \in ends : m <= y
  BY <1>3, SmallestOf
<1>5. m \in 1 .. Len(p) /\ m <= n /\ ~Holds(tree, SubSeq(p, 1, m))
  BY <1>3, <1>4
<1>6. ASSUME NEW i \in 1 .. (m - 1)
      PROVE  /\ i \in 0 .. Len(p) /\ p[i] \in deep /\ Holds(tree, SubSeq(p, 1, i))
             /\ SubSeq(p, 1, i) \notin DOMAIN more
  <2>1. i \in 1 .. (n - 1) /\ i \in 1 .. Len(p) /\ i \notin ends
    BY <1>1, <1>2, <1>4, <1>5
  <2>2. QED
    BY <1>1, <2>1 DEF IsTable
<1>7. CASE \E i \in 1 .. (m - 1) : SubSeq(p, 1, i) \in DOMAIN tree
  BY <1>2, <1>6, <1>7
<1>8. CASE <<>> \in DOMAIN tree
  <2>1. SubSeq(p, 1, 0) = <<>>
    BY SubSeqEmpty
  <2>2. 0 \in 0 .. Len(p) /\ IsPrefixOf(SubSeq(p, 1, 0), p)
    BY <1>2
  <2>3. QED
    BY <1>1, <1>8, <2>1, <2>2
<1>9. CASE <<>> \notin DOMAIN tree /\ \A i \in 1 .. (m - 1) : SubSeq(p, 1, i) \notin DOMAIN tree
  <2>1. \A i \in 1 .. (m - 1) : p[i] \in deep /\ IsTable(tree, SubSeq(p, 1, i))
    BY <1>6, <1>9 DEF IsTable
  <2>2. QED
    BY <1>5, <1>9, <2>1 DEF IsNew
<1>10. QED
  BY <1>7, <1>8, <1>9

(* A tree merged once is merged. *)
LEMMA AdditiveAgain ==
    ASSUME NEW tree, IsTree(tree), NEW deep, NEW other, IsTree(other)
    PROVE  LET sum == Additive(tree, deep, other) IN Additive(sum, deep, other) = sum
<1> DEFINE sum == Additive(tree, deep, other)
<1>1. DOMAIN sum = DOMAIN tree \cup {p \in DOMAIN other : IsNew(tree, deep, p)}
  BY DEF Additive
<1>2. IsTree(sum)
  BY AdditiveTree
<1> HIDE DEF sum
<1>3. ASSUME NEW p \in DOMAIN other, IsNew(sum, deep, p)
      PROVE  p \in DOMAIN sum
  <2>1. IsPath(p)
    BY DEF IsTree, IsPath
  <2>2. \A q : Holds(tree, q) => Holds(sum, q)
    BY <1>1 DEF Holds
  <2>3. IsNew(tree, deep, p)
    BY <1>1, <1>3, <2>1, <2>2, NewBefore
  <2>4. QED
    BY <1>1, <2>3
<1>4. Additive(sum, deep, other) = sum
  BY <1>2, <1>3, AdditiveNone
<1>5. QED
  BY <1>4 DEF sum

(* A tree keeps its leaves. *)
LEMMA TreeMerged ==
    ASSUME NEW tree, NEW deep, NEW other
    PROVE  KeepsTree(tree, Additive(tree, deep, other))
  BY DEF KeepsTree, Additive

(* The leaves of other that a merge of documents brings in. *)
Fresh(tree, deep, other) ==
    {p \in DOMAIN other :
        IsNew(tree, deep, p) \/ \E q \in Filled(tree, deep, other) : IsPrefixOf(q, p)}

(* sum is other merged into tree, leaf by leaf. *)
Extends(sum, tree, deep, other) ==
    /\ DOMAIN sum = (DOMAIN tree \ Filled(tree, deep, other)) \cup Fresh(tree, deep, other)
    /\ \A p \in DOMAIN tree \ Filled(tree, deep, other) : sum[p] = tree[p]
    /\ \A p \in Fresh(tree, deep, other) :
          p \notin DOMAIN tree \ Filled(tree, deep, other) => sum[p] = other[p]
    /\ Filled(tree, deep, other) \subseteq DOMAIN tree
    /\ Fresh(tree, deep, other) \subseteq DOMAIN other
    /\ \A q \in Filled(tree, deep, other) : \E p \in Fresh(tree, deep, other) : IsPrefixOf(q, p)

(* The leaves of a merged document. *)
LEMMA ValuesLeaves ==
    ASSUME NEW tree, IsTree(tree), NEW deep, NEW other, IsTree(other)
    PROVE  /\ Extends(MergeValues(tree, deep, other), tree, deep, other)
           /\ IsTree(MergeValues(tree, deep, other))
<1> DEFINE sum == MergeValues(tree, deep, other)
<1> DEFINE filled == Filled(tree, deep, other)
           kept == DOMAIN tree \ filled
           fresh == Fresh(tree, deep, other)
<1>1. filled \subseteq DOMAIN tree /\ \A q \in filled : Holds(other, q)
  BY DEF Filled, IsTable
<1> HIDE DEF filled
<1>2. fresh = {p \in DOMAIN other :
                  IsNew(tree, deep, p) \/ \E q \in filled : IsPrefixOf(q, p)}
  BY DEF Fresh, filled
<1> HIDE DEF fresh
<1>3. fresh \subseteq DOMAIN other /\ \A q \in filled : \E p \in fresh : IsPrefixOf(q, p)
  BY <1>1, <1>2 DEF Holds
<1>4. sum = [p \in kept \cup fresh |-> IF p \in kept THEN tree[p] ELSE other[p]]
  BY <1>2 DEF MergeValues, filled
<1> HIDE DEF sum
<1>5. /\ DOMAIN sum = kept \cup fresh /\ sum = [p \in DOMAIN sum |-> sum[p]]
      /\ \A p \in kept : sum[p] = tree[p]
      /\ \A p \in fresh : p \notin kept => sum[p] = other[p]
  BY <1>4
<1>6. IsTree(sum)
  BY <1>3, <1>5 DEF IsTree
<1>7. QED
  BY <1>1, <1>3, <1>5, <1>6 DEF Extends, fresh, filled, sum

(* A merged document keeps its keys, and every value that is not empty. *)
LEMMA ValuesMerged ==
    ASSUME NEW tree, IsTree(tree), NEW other, IsTree(other)
    PROVE  /\ IsTree(MergeValues(tree, DeepKeys, other))
           /\ KeepsValues(tree, MergeValues(tree, DeepKeys, other))
<1> DEFINE filled == Filled(tree, DeepKeys, other)
<1>1. PICK sum : sum = MergeValues(tree, DeepKeys, other)
  OBVIOUS
<1>2. /\ IsTree(sum)
      /\ \A p \in DOMAIN tree \ filled : p \in DOMAIN sum /\ sum[p] = tree[p]
      /\ \A q \in filled : \E p \in DOMAIN sum : IsPrefixOf(q, p)
  <2>1. IsTree(sum) /\ Extends(sum, tree, DeepKeys, other)
    BY <1>1, ValuesLeaves
  <2>2. QED
    BY <2>1 DEF Extends
<1>3. \A p \in filled : /\ tree[p] \in {Null, EmptyMap}
                        /\ \A i \in 1 .. Len(p) : p[i] \in DeepKeys
  BY DEF Filled
<1> HIDE DEF filled
<1>4. KeepsValues(tree, sum)
  BY <1>2, <1>3 DEF KeepsValues, Holds
<1>5. QED
  BY <1>1, <1>2, <1>4

(* A document to which nothing is new and where nothing gives way is merged. *)
LEMMA ValuesNone ==
    ASSUME NEW tree, IsTree(tree), NEW deep, NEW other, Filled(tree, deep, other) = {},
           \A p \in DOMAIN other : IsNew(tree, deep, p) => p \in DOMAIN tree
    PROVE  MergeValues(tree, deep, other) = tree
<1> DEFINE fresh == {p \in DOMAIN other : IsNew(tree, deep, p) \/ \E q \in {} : IsPrefixOf(q, p)}
           kept == DOMAIN tree \ {}
<1>1. kept \cup fresh = DOMAIN tree /\ kept = DOMAIN tree
  OBVIOUS
<1>2. MergeValues(tree, deep, other)
        = [p \in kept \cup fresh |-> IF p \in kept THEN tree[p] ELSE other[p]]
  BY DEF MergeValues
<1> HIDE DEF kept, fresh
<1>3. MergeValues(tree, deep, other) = [p \in DOMAIN tree |-> tree[p]]
  BY <1>1, <1>2
<1>4. QED
  BY <1>3 DEF IsTree

(* A template's document is what it merges to. *)
LEMMA ValuesOwn ==
    ASSUME NEW tree, IsTree(tree), NEW deep
    PROVE  MergeValues(tree, deep, tree) = tree
<1>1. Filled(tree, deep, tree) = {}
  BY DEF Filled, IsTable
<1>2. QED
  BY <1>1, ValuesNone

(* A document merged once is merged. *)
LEMMA ValuesAgain ==
    ASSUME NEW tree, IsTree(tree), NEW deep, NEW other, IsTree(other),
           NEW sum, sum = MergeValues(tree, deep, other)
    PROVE  MergeValues(sum, deep, other) = sum
<1> DEFINE filled == Filled(tree, deep, other)
           fresh == Fresh(tree, deep, other)
<1>1. /\ DOMAIN sum = (DOMAIN tree \ filled) \cup fresh
      /\ \A p \in DOMAIN tree \ filled : sum[p] = tree[p]
      /\ \A p \in fresh : p \notin DOMAIN tree \ filled => sum[p] = other[p]
      /\ filled \subseteq DOMAIN tree /\ fresh \subseteq DOMAIN other
      /\ \A q \in filled : \E p \in fresh : IsPrefixOf(q, p)
      /\ IsTree(sum)
  <2>1. IsTree(sum) /\ Extends(sum, tree, deep, other)
    BY ValuesLeaves
  <2>2. QED
    BY <2>1 DEF Extends
<1>2. Filled(sum, deep, other) = {}
  <2> SUFFICES ASSUME NEW p \in Filled(sum, deep, other)
               PROVE  FALSE
    OBVIOUS
  <2>1. /\ p \in DOMAIN sum /\ \A i \in 1 .. Len(p) : p[i] \in deep
        /\ \/ sum[p] = Null /\ Holds(other, p) /\ ~(p \in DOMAIN other /\ other[p] = Null)
           \/ sum[p] = EmptyMap /\ IsTable(other, p)
    BY DEF Filled
  <2>2. CASE p \in DOMAIN tree \ filled
    <3>1. sum[p] = tree[p]
      BY <1>1, <2>2
    <3>2. p \in filled
      BY <2>1, <2>2, <3>1 DEF Filled
    <3>3. QED
      BY <2>2, <3>2
  <2>3. CASE p \notin DOMAIN tree \ filled
    <3>1. p \in DOMAIN other /\ sum[p] = other[p]
      BY <1>1, <2>1, <2>3
    <3>2. QED
      BY <2>1, <3>1 DEF IsTable
  <2>4. QED
    BY <2>2, <2>3
<1>3. fresh = {p \in DOMAIN other :
                  IsNew(tree, deep, p) \/ \E q \in filled : IsPrefixOf(q, p)}
  BY DEF Fresh, filled
<1> HIDE DEF filled, fresh
<1>4. ASSUME NEW q, IsPath(q), Holds(tree, q)
      PROVE  Holds(sum, q)
  <2>1. PICK p \in DOMAIN tree : IsPrefixOf(q, p)
    BY <1>4 DEF Holds
  <2>2. CASE p \notin filled
    BY <1>1, <2>1, <2>2 DEF Holds
  <2>3. CASE p \in filled
    <3>1. PICK o \in fresh : IsPrefixOf(p, o)
      BY <1>1, <2>3
    <3>2. IsPath(p) /\ IsPath(o)
      BY <1>1 DEF IsTree, IsPath
    <3>3. IsPrefixOf(q, o)
      BY <1>4, <2>1, <3>1, <3>2, PrefixOfPrefix
    <3>4. QED
      BY <1>1, <3>3 DEF Holds
  <2>4. QED
    BY <2>2, <2>3
<1>5. ASSUME NEW p \in DOMAIN other, IsNew(sum, deep, p)
      PROVE  p \in DOMAIN sum
  <2>1. IsPath(p)
    BY DEF IsTree, IsPath
  <2>2. \/ IsNew(tree, deep, p)
        \/ \E q \in DOMAIN tree \ DOMAIN sum : IsPrefixOf(q, p)
    BY <1>4, <1>5, <2>1, NewBefore
  <2>3. DOMAIN tree \ DOMAIN sum \subseteq filled
    BY <1>1
  <2>4. p \in fresh
    BY <1>3, <2>2, <2>3
  <2>5. QED
    BY <1>1, <2>4
<1>6. QED
  BY <1>1, <1>2, <1>5, ValuesNone

-----------------------------------------------------------------------------
(* TOML files. *)

(* What Fits says of one. *)
LEMMA TomlShape ==
    ASSUME NEW path \in Paths, NEW old, Fits(path, old), old.form = "toml"
    PROVE  /\ Strategy[path] = "toml" /\ old = Toml(old.deps, old.tree) /\ IsTree(old.tree)
           /\ old.deps \in [Sections -> [Crates -> Entry]]
  BY DEF Fits, NoFile, Broken, Binary

(* A merged manifest is one, and keeps what the user's had. *)
LEMMA TomlMerged ==
    ASSUME NEW path \in Paths, NEW old, NEW new,
           Fits(path, old), old.form = "toml", Fits(path, new), new.form = "toml"
    PROVE  Fits(path, MergeToml(old, new)) /\ Keeps(old, MergeToml(old, new))
<1> DEFINE merged == MergeToml(old, new)
<1>1. /\ Strategy[path] = "toml"
      /\ old.deps \in [Sections -> [Crates -> Entry]] /\ new.deps \in [Sections -> [Crates -> Entry]]
  BY DEF Fits, NoFile, Broken, Binary
<1>2. merged.form = "toml" /\ merged.deps = MergeDeps(old.deps, new.deps)
      /\ merged.tree = Additive(old.tree, KeysOf(new.tree), new.tree)
      /\ merged = Toml(merged.deps, merged.tree)
  BY DEF MergeToml, Toml
<1> HIDE DEF merged
<1>3. \A s \in Sections, c \in Crates :
         /\ MergeRow(old.deps[s][c], new.deps[s][c]) \in Entry
         /\ KeepsRow(old.deps[s][c], MergeRow(old.deps[s][c], new.deps[s][c]))
  BY <1>1, RowMerged
<1>4. MergeDeps(old.deps, new.deps) \in [Sections -> [Crates -> Entry]]
  BY <1>1, <1>3, DepsMerged
<1>5. \A s \in Sections, c \in Crates :
         KeepsRow(old.deps[s][c], MergeDeps(old.deps, new.deps)[s][c])
  <2>1. MergeDeps(old.deps, new.deps)
          = [s \in Sections |-> [c \in Crates |-> MergeRow(old.deps[s][c], new.deps[s][c])]]
    BY <1>1, DepsMerged
  <2>2. QED
    BY <1>3, <2>1
<1>6. Fits(path, merged)
  <2>1. IsTree(merged.tree)
    BY <1>2, TomlShape, AdditiveTree
  <2>2. QED
    BY <1>1, <1>2, <1>4, <2>1 DEF Fits
<1>7. Keeps(old, merged)
  BY <1>2, <1>5, TreeMerged DEF Keeps
<1>8. QED
  BY <1>6, <1>7 DEF merged

(* A manifest the template wrote is what it merges to. *)
LEMMA TomlOwn ==
    ASSUME NEW path \in Paths, NEW own, Fits(path, own), own.form = "toml"
    PROVE  MergeToml(own, own) = own
<1>1. /\ own = Toml(own.deps, own.tree) /\ own.deps \in [Sections -> [Crates -> Entry]]
      /\ IsTree(own.tree)
  BY TomlShape
<1>2. PICK deps : deps = own.deps
  OBVIOUS
<1>3. \A s \in Sections, c \in Crates : MergeRow(deps[s][c], deps[s][c]) = deps[s][c]
  BY <1>1, <1>2, RowOwn
<1>4. MergeDeps(deps, deps) = deps
  <2>1. deps \in [Sections -> [Crates -> Entry]]
    BY <1>1, <1>2
  <2>2. \A s \in Sections : [c \in Crates |-> MergeRow(deps[s][c], deps[s][c])] = deps[s]
    BY <1>3, <2>1
  <2>3. QED
    BY <2>1, <2>2, DepsMerged
<1>5. Additive(own.tree, KeysOf(own.tree), own.tree) = own.tree
  BY <1>1, AdditiveOwn
<1>6. QED
  BY <1>1, <1>2, <1>4, <1>5 DEF MergeToml

(* A manifest merged once is merged. *)
LEMMA TomlAgain ==
    ASSUME NEW path \in Paths, NEW old, NEW new,
           Fits(path, old), old.form = "toml", Fits(path, new), new.form = "toml"
    PROVE  MergeToml(MergeToml(old, new), new) = MergeToml(old, new)
<1>1. /\ old.deps \in [Sections -> [Crates -> Entry]] /\ IsTree(old.tree)
      /\ new.deps \in [Sections -> [Crates -> Entry]] /\ IsTree(new.tree)
  BY TomlShape
<1>2. PICK deps : deps = MergeDeps(old.deps, new.deps)
  OBVIOUS
<1>3. PICK tree : tree = Additive(old.tree, KeysOf(new.tree), new.tree)
  OBVIOUS
<1>4. MergeDeps(deps, new.deps) = deps
  <2>1. \A s \in Sections, c \in Crates :
           MergeRow(MergeRow(old.deps[s][c], new.deps[s][c]), new.deps[s][c])
             = MergeRow(old.deps[s][c], new.deps[s][c])
    BY <1>1, RowAgain
  <2>2. /\ deps = [s \in Sections |-> [c \in Crates |-> deps[s][c]]]
        /\ \A s \in Sections, c \in Crates : deps[s][c] = MergeRow(old.deps[s][c], new.deps[s][c])
    <3>1. deps = [s \in Sections |-> [c \in Crates |-> MergeRow(old.deps[s][c], new.deps[s][c])]]
      BY <1>1, <1>2, DepsMerged
    <3>2. QED
      BY <3>1
  <2>3. \A s \in Sections, c \in Crates : MergeRow(deps[s][c], new.deps[s][c]) = deps[s][c]
    BY <2>1, <2>2
  <2>4. MergeDeps(deps, new.deps) = [s \in Sections |-> [c \in Crates |-> deps[s][c]]]
    <3>1. deps \in [Sections -> [Crates -> Entry]]
      BY <1>1, <2>2, RowMerged
    <3>2. MergeDeps(deps, new.deps)
            = [s \in Sections |-> [c \in Crates |-> MergeRow(deps[s][c], new.deps[s][c])]]
      BY <1>1, <3>1, DepsMerged
    <3>3. QED
      BY <2>3, <3>2
  <2>5. QED
    BY <2>2, <2>4
<1>5. Additive(tree, KeysOf(new.tree), new.tree) = tree
  BY <1>1, <1>3, AdditiveAgain
<1>6. MergeToml(old, new) = Toml(deps, tree)
  BY <1>2, <1>3 DEF MergeToml
<1>7. Toml(deps, tree).deps = deps /\ Toml(deps, tree).tree = tree
  BY DEF Toml
<1>8. QED
  BY <1>4, <1>5, <1>6, <1>7 DEF MergeToml

-----------------------------------------------------------------------------
(* YAML files. *)

(* The first document, or nothing. *)
LEMMA FirstDocument ==
    ASSUME NEW docs
    PROVE  /\ First(docs) \in Seq({First(docs)[i] : i \in DOMAIN First(docs)})
           /\ docs = <<>> => First(docs) = <<>>
           /\ docs # <<>> => First(docs) = <<docs[1]>>
<1>1. \A x : <<x>> \in Seq({<<x>>[i] : i \in DOMAIN <<x>>})
  OBVIOUS
<1>2. <<>> \in Seq({<<>>[i] : i \in DOMAIN <<>>})
  OBVIOUS
<1>3. First(docs) \in Seq({First(docs)[i] : i \in DOMAIN First(docs)})
  BY <1>1, <1>2 DEF First
<1>4. QED
  BY <1>3 DEF First

(* The first document keeps itself. *)
LEMMA DocsReflexive ==
    ASSUME NEW docs
    PROVE  KeepsDocs(First(docs), First(docs))
<1>1. Len(First(docs)) \in Nat
  BY DEF First
<1>2. QED
  BY <1>1 DEF KeepsDocs, KeepsValues

(* What Fits says of a workflow. *)
LEMMA YamlShape ==
    ASSUME NEW path \in Paths, NEW old, Fits(path, old), old.form = "yaml"
    PROVE  /\ Strategy[path] = "yaml" /\ old = Yaml(old.docs, old.printed)
           /\ Len(old.docs) \in Nat
           /\ old.docs # <<>> => Len(old.docs) >= 1 /\ IsTree(old.docs[1])
           /\ Len(old.docs) = 1 => old.docs = <<old.docs[1]>>
<1>1. /\ Strategy[path] = "yaml" /\ old = Yaml(old.docs, old.printed)
      /\ old.docs \in Seq({old.docs[i] : i \in DOMAIN old.docs})
      /\ \A i \in DOMAIN old.docs : IsTree(old.docs[i])
  BY DEF Fits, NoFile, Broken, Binary
<1>2. PICK docs : docs = old.docs
  OBVIOUS
<1>3. PICK S : S = {docs[i] : i \in DOMAIN docs}
  OBVIOUS
<1>4. docs \in Seq(S)
  BY <1>1, <1>2, <1>3
<1>5. /\ Len(docs) \in Nat
      /\ docs # <<>> => Len(docs) >= 1 /\ 1 \in DOMAIN docs
      /\ Len(docs) = 1 => docs = <<docs[1]>>
  BY <1>4
<1>6. QED
  BY <1>1, <1>2, <1>5

(* A merged workflow is one, and keeps the first document. *)
LEMMA YamlMerged ==
    ASSUME NEW path \in Paths, NEW old, NEW new,
           Fits(path, old), old.form = "yaml", Fits(path, new), new.form = "yaml"
    PROVE  Fits(path, MergeYaml(old, new)) /\ Keeps(old, MergeYaml(old, new))
<1>1. Strategy[path] = "yaml"
  BY DEF Fits, NoFile, Broken, Binary
<1> DEFINE tree == MergeValues(old.docs[1], DeepKeys, new.docs[1])
           docs == CASE new.docs = <<>> -> First(old.docs)
                     [] new.docs # <<>> /\ old.docs = <<>> -> First(new.docs)
                     [] OTHER -> <<tree>>
           merged == Yaml(docs, TRUE)
<1>2. MergeYaml(old, new) = merged
  BY DEF MergeYaml
<1>3. docs \in Seq({docs[i] : i \in DOMAIN docs}) /\ KeepsDocs(First(old.docs), docs)
  <2>1. CASE new.docs = <<>>
    BY <2>1, FirstDocument, DocsReflexive
  <2>2. CASE new.docs # <<>> /\ old.docs = <<>>
    <3>1. docs = First(new.docs) /\ First(old.docs) = <<>>
      BY <2>2, FirstDocument
    <3>2. Len(First(new.docs)) \in Nat
      BY FirstDocument
    <3>3. KeepsDocs(<<>>, First(new.docs))
      BY <3>2 DEF KeepsDocs
    <3>4. QED
      BY <3>1, <3>3, FirstDocument
  <2>3. CASE new.docs # <<>> /\ old.docs # <<>>
    <3>1. docs = <<tree>> /\ First(old.docs) = <<old.docs[1]>>
      BY <2>3, FirstDocument
    <3>2. KeepsValues(old.docs[1], tree)
      BY <2>3, YamlShape, ValuesMerged
    <3> HIDE DEF tree
    <3>3. KeepsDocs(<<old.docs[1]>>, <<tree>>)
      BY <3>2 DEF KeepsDocs
    <3>4. <<tree>> \in Seq({<<tree>>[i] : i \in DOMAIN <<tree>>})
      OBVIOUS
    <3>5. QED
      BY <3>1, <3>3, <3>4
  <2>4. QED
    BY <2>1, <2>2, <2>3
<1>4. \A i \in DOMAIN docs : IsTree(docs[i])
  <2>1. (old.docs # <<>> => IsTree(old.docs[1])) /\ (new.docs # <<>> => IsTree(new.docs[1]))
    BY YamlShape
  <2>2. \A x : IsTree(x) => \A i \in DOMAIN <<x>> : IsTree(<<x>>[i])
    OBVIOUS
  <2>3. \A i \in DOMAIN <<>> : IsTree(<<>>[i])
    OBVIOUS
  <2>4. CASE new.docs = <<>>
    BY <2>1, <2>2, <2>3, <2>4, FirstDocument
  <2>5. CASE new.docs # <<>> /\ old.docs = <<>>
    BY <2>1, <2>2, <2>5, FirstDocument
  <2>6. CASE new.docs # <<>> /\ old.docs # <<>>
    <3>1. IsTree(tree)
      BY <2>1, <2>6, ValuesMerged
    <3>2. QED
      BY <2>2, <2>6, <3>1
  <2>7. QED
    BY <2>4, <2>5, <2>6
<1> HIDE DEF docs
<1>5. merged.form = "yaml" /\ merged.docs = docs /\ merged = Yaml(merged.docs, merged.printed)
  BY DEF Yaml
<1> HIDE DEF merged
<1>6. Fits(path, merged) /\ Keeps(old, merged)
  BY <1>1, <1>3, <1>4, <1>5 DEF Fits, Keeps
<1>7. QED
  BY <1>2, <1>6

(* Printing changes no document. *)
LEMMA Unprinting ==
    ASSUME NEW docs, NEW printed
    PROVE  Unprint(Yaml(docs, printed)) = Yaml(docs, TRUE)
  BY DEF Unprint, Yaml

(* A workflow of one document that the template wrote is printed anew, no more. *)
LEMMA YamlOwn ==
    ASSUME NEW path \in Paths, NEW own, Fits(path, own), own.form = "yaml", Len(own.docs) <= 1
    PROVE  Unprint(MergeYaml(own, own)) = Unprint(own)
<1>1. /\ own = Yaml(own.docs, own.printed) /\ Len(own.docs) \in Nat
      /\ own.docs # <<>> => Len(own.docs) >= 1 /\ IsTree(own.docs[1])
      /\ Len(own.docs) = 1 => own.docs = <<own.docs[1]>>
  BY YamlShape
<1>2. Unprint(own) = Yaml(own.docs, TRUE)
  BY <1>1, Unprinting
<1>3. MergeYaml(own, own) = Yaml(own.docs, TRUE)
  <2>1. CASE own.docs = <<>>
    BY <2>1 DEF MergeYaml, First
  <2>2. CASE own.docs # <<>>
    <3>1. MergeValues(own.docs[1], DeepKeys, own.docs[1]) = own.docs[1]
      BY <1>1, <2>2, ValuesOwn
    <3>2. own.docs = <<own.docs[1]>>
      <4>1. Len(own.docs) \in Nat /\ Len(own.docs) >= 1
        BY <1>1, <2>2, Zenon
      <4>2. \A n \in Nat : n >= 1 /\ n <= 1 => n = 1
        OBVIOUS
      <4>3. Len(own.docs) = 1
        BY <4>1, <4>2, Zenon
      <4>4. QED
        BY <1>1, <4>3
    <3>3. MergeYaml(own, own) = Yaml(<<own.docs[1]>>, TRUE)
      BY <2>2, <3>1 DEF MergeYaml
    <3>4. QED
      BY <3>2, <3>3
  <2>3. QED
    BY <2>1, <2>2
<1>4. QED
  BY <1>2, <1>3, Unprinting

(* A workflow merged once is merged. *)
LEMMA YamlAgain ==
    ASSUME NEW path \in Paths, NEW old, NEW new,
           Fits(path, old), old.form = "yaml", Fits(path, new), new.form = "yaml"
    PROVE  MergeYaml(MergeYaml(old, new), new) = MergeYaml(old, new)
<1>1. (old.docs # <<>> => IsTree(old.docs[1])) /\ (new.docs # <<>> => IsTree(new.docs[1]))
  BY YamlShape
<1>2. \A x : <<x>> # <<>> /\ <<x>>[1] = x
  OBVIOUS
<1>3. \A docs : Yaml(docs, TRUE).docs = docs
  BY DEF Yaml
<1>4. CASE new.docs = <<>>
  <2>1. \A docs : First(First(docs)) = First(docs)
    BY <1>2 DEF First
  <2>2. MergeYaml(old, new) = Yaml(First(old.docs), TRUE)
    BY <1>4 DEF MergeYaml
  <2>3. \A x : MergeYaml(x, new) = Yaml(First(x.docs), TRUE)
    BY <1>4 DEF MergeYaml
  <2>4. QED
    BY <1>3, <2>1, <2>2, <2>3
<1>5. CASE new.docs # <<>> /\ old.docs = <<>>
  <2>1. MergeYaml(old, new) = Yaml(<<new.docs[1]>>, TRUE)
    BY <1>5 DEF MergeYaml, First
  <2>2. PICK tree : tree = new.docs[1]
    OBVIOUS
  <2>3. MergeYaml(Yaml(<<tree>>, TRUE), new) = Yaml(<<MergeValues(tree, DeepKeys, new.docs[1])>>, TRUE)
    <3>1. new.docs # <<>>
      BY <1>5
    <3>2. QED
      BY <1>2, <1>3, <3>1 DEF MergeYaml
  <2>4. MergeValues(new.docs[1], DeepKeys, new.docs[1]) = new.docs[1]
    BY <1>1, <1>5, ValuesOwn
  <2>5. QED
    BY <2>1, <2>2, <2>3, <2>4
<1>6. CASE new.docs # <<>> /\ old.docs # <<>>
  <2>1. PICK tree : tree = MergeValues(old.docs[1], DeepKeys, new.docs[1])
    OBVIOUS
  <2>2. MergeValues(tree, DeepKeys, new.docs[1]) = tree
    BY <1>1, <1>6, <2>1, ValuesAgain
  <2>3. MergeYaml(old, new) = Yaml(<<tree>>, TRUE)
    BY <1>6, <2>1 DEF MergeYaml
  <2>4. MergeYaml(Yaml(<<tree>>, TRUE), new) = Yaml(<<MergeValues(tree, DeepKeys, new.docs[1])>>, TRUE)
    BY <1>2, <1>3, <1>6 DEF MergeYaml
  <2>5. QED
    BY <2>2, <2>3, <2>4
<1>7. QED
  BY <1>4, <1>5, <1>6

-----------------------------------------------------------------------------
(* Files. *)

(* A file that can be merged, with what a template may render for it. *)
LEMMA MergedKeeps ==
    ASSUME NEW path \in Paths, NEW old, NEW new,
           Fits(path, old), old.form \in {"toml", "yaml"},
           Fits(path, new), new \notin {NoFile, Broken, Binary}, Strategy[path] # "plain"
    PROVE  Fits(path, Merged(path, old, new)) /\ Keeps(old, Merged(path, old, new))
<1>1. old.form = Strategy[path] /\ new.form = Strategy[path]
  BY DEF Fits, NoFile, Broken, Binary
<1>2. CASE Strategy[path] = "toml"
  BY <1>1, <1>2, TomlMerged DEF Merged
<1>3. CASE Strategy[path] = "yaml"
  BY <1>1, <1>3, YamlMerged DEF Merged
<1>4. QED
  BY <1>1, <1>2, <1>3

(* A file that is left alone keeps everything. *)
LEMMA KeepsItself ==
    ASSUME NEW path \in Paths, NEW old, Fits(path, old)
    PROVE  Keeps(old, old)
<1>1. CASE old.form = "toml"
  <2>1. old.deps \in [Sections -> [Crates -> Entry]]
    BY <1>1 DEF Fits, NoFile, Broken, Binary
  <2>2. \A e \in Entry : KeepsRow(e, e)
    BY DEF Entry, KeepsRow
  <2>3. \A s \in Sections, c \in Crates : KeepsRow(old.deps[s][c], old.deps[s][c])
    BY <2>1, <2>2
  <2>4. KeepsTree(old.tree, old.tree)
    BY DEF KeepsTree
  <2>5. QED
    BY <1>1, <2>3, <2>4 DEF Keeps
<1>2. CASE old.form = "yaml"
  <2>1. old.docs \in Seq({old.docs[i] : i \in DOMAIN old.docs})
    BY <1>2 DEF Fits, NoFile, Broken, Binary
  <2>2. KeepsDocs(First(old.docs), old.docs)
    <3>1. CASE old.docs = <<>>
      BY <3>1 DEF First, KeepsDocs
    <3>2. CASE old.docs # <<>>
      <4>1. Len(old.docs) \in Nat /\ Len(old.docs) >= 1
        BY <2>1, <3>2
      <4>2. First(old.docs) = <<old.docs[1]>>
        BY <3>2 DEF First
      <4>3. QED
        BY <4>1, <4>2 DEF KeepsDocs, KeepsValues
    <3>3. QED
      BY <3>1, <3>2
  <2>3. QED
    BY <1>2, <2>2 DEF Keeps
<1>3. CASE old.form \notin {"toml", "yaml"}
  BY <1>3 DEF Keeps
<1>4. QED
  BY <1>1, <1>2, <1>3

(* Absorbed: a command that meets the file again, with nobody there to ask, is
   not stuck and leaves it as it is. *)
Absorbed(now, path, content, overwrite) ==
    /\ ~Stuck(now, path, content)
    /\ Unprint(Unattended(now, path, content, overwrite)) = Unprint(now)

(* A file the template has written. *)
LEMMA OwnAbsorbed ==
    ASSUME NEW path \in Paths, NEW own, Fits(path, own), own \notin {NoFile, Broken, Binary},
           own.form = "yaml" => Len(own.docs) <= 1, NEW overwrite \in BOOLEAN
    PROVE  Absorbed(own, path, own, overwrite)
<1>1. ~Stuck(own, path, own)
  BY DEF Stuck
<1>2. CASE Strategy[path] = "plain"
  BY <1>1, <1>2 DEF Unattended, Absorbed
<1>3. CASE Strategy[path] # "plain"
  <2>1. Unattended(own, path, own, overwrite) = Merged(path, own, own)
    BY <1>3 DEF Unattended
  <2>2. own.form \in {"toml", "yaml"} /\ own.form = Strategy[path]
    BY <1>3 DEF Fits
  <2>3. CASE own.form = "toml"
    BY <1>1, <2>1, <2>2, <2>3, TomlOwn DEF Merged, Absorbed
  <2>4. CASE own.form = "yaml"
    BY <1>1, <2>1, <2>2, <2>4, YamlOwn DEF Merged, Absorbed
  <2>5. QED
    BY <2>2, <2>3, <2>4
<1>4. QED
  BY <1>2, <1>3

(* A file the template was merged into. *)
LEMMA MergedAbsorbed ==
    ASSUME NEW path \in Paths, NEW old, NEW new,
           Fits(path, old), old.form \in {"toml", "yaml"},
           Fits(path, new), new \notin {NoFile, Broken, Binary}, Strategy[path] # "plain",
           NEW overwrite \in BOOLEAN
    PROVE  Absorbed(Merged(path, old, new), path, new, overwrite)
<1>1. old.form = Strategy[path] /\ new.form = Strategy[path]
  BY DEF Fits, NoFile, Broken, Binary
<1>2. Merged(path, old, new).form \in {"toml", "yaml"}
  BY <1>1, TomlMerged, YamlMerged DEF Merged, MergeToml, MergeYaml, Toml, Yaml
<1>3. Merged(path, old, new) \notin {NoFile, Broken, Binary}
  BY <1>2 DEF NoFile, Broken, Binary
<1>4. ~Stuck(Merged(path, old, new), path, new)
  BY <1>3 DEF Stuck
<1>5. Merged(path, Merged(path, old, new), new) = Merged(path, old, new)
  BY <1>1, TomlAgain, YamlAgain DEF Merged
<1>6. Unattended(Merged(path, old, new), path, new, overwrite) = Merged(path, old, new)
  BY <1>3, <1>5 DEF Unattended
<1>7. QED
  BY <1>4, <1>6 DEF Absorbed

(* A file left alone because it can only be overwritten. *)
LEMMA SkippedAbsorbed ==
    ASSUME NEW path, NEW old, NEW new, old # NoFile, Strategy[path] = "plain" \/ old = Binary
    PROVE  Absorbed(old, path, new, FALSE)
  BY DEF Absorbed, Stuck, Unattended

-----------------------------------------------------------------------------
(* One file of the command's. *)

Busy == phase \in {"apply", "ask"} /\ next <= Len(Rendered)

(* What the turn is about. *)
LEMMA InTurn ==
    ASSUME IInv, Busy
    PROVE  /\ Current.path \in Paths /\ Fits(Current.path, Current.content)
           /\ Current.content \notin {NoFile, Binary} /\ Fits(Current.path, Mine)
           /\ next + 1 \in 1 .. (Len(Rendered) + 1)
<1>1. next \in 1 .. Len(Rendered) /\ next + 1 \in 1 .. (Len(Rendered) + 1)
  BY MergeAssumption DEF IInv, TypeOK, Busy
<1>2. Current.path \in Paths /\ Fits(Current.path, Current.content)
      /\ Current.content \notin {NoFile, Binary}
  BY <1>1, MergeAssumption DEF Current
<1>3. Fits(Current.path, Mine)
  BY <1>2 DEF IInv, FilesOK, Mine
<1>4. QED
  BY <1>1, <1>2, <1>3

(* A proposal fits the file, and a merge keeps what it had. *)
LEMMA ProposedKeeps ==
    ASSUME IInv, Clash, ~Unmergeable
    PROVE  /\ Fits(Current.path, Proposed)
           /\ Whole \/ (Mine.form \in {"toml", "yaml"} /\ Keeps(Mine, Proposed)
                          /\ Proposed = Merged(Current.path, Mine, Current.content))
<1>1. Busy
  BY DEF Clash, Turn, Busy
<1>2. CASE Whole
  BY <1>1, <1>2, InTurn DEF Proposed
<1>3. CASE ~Whole
  <2>1. Proposed = Merged(Current.path, Mine, Current.content)
    BY <1>3 DEF Proposed
  <2>2. Strategy[Current.path] # "plain" /\ Mine \notin {NoFile, Broken, Binary}
        /\ Current.content # Broken
    BY <1>3 DEF Whole, Unmergeable, Clash
  <2>3. Mine.form \in {"toml", "yaml"}
    BY <1>1, <2>2, InTurn DEF Fits
  <2>4. QED
    BY <1>1, <2>1, <2>2, <2>3, InTurn, MergedKeeps
<1>4. QED
  BY <1>2, <1>3

(* A write changes one file, and counts it. *)
LEMMA Written ==
    ASSUME IInv, Busy, NEW content, Fits(Current.path, content),
           NEW result \in Results, Writes(content, result)
    PROVE  /\ FilesOK' /\ git' \in {"none", "clean", "dirty"} /\ report' \in [Paths -> Results]
           /\ next' \in 1 .. (Len(Rendered) + 1) /\ DOMAIN files' = Paths
           /\ files'[Current.path] = content
           /\ \A p \in Paths : p # Current.path => files'[p] = files[p]
<1>1. Current.path \in Paths /\ next + 1 \in 1 .. (Len(Rendered) + 1)
  BY InTurn
<1>2. files' = [files EXCEPT ![Current.path] = content] /\ files = [p \in Paths |-> files[p]]
  BY DEF Writes, IInv, FilesOK
<1>3. /\ files' = [p \in Paths |-> files'[p]] /\ DOMAIN files' = Paths
      /\ files'[Current.path] = content
      /\ \A p \in Paths : p # Current.path => files'[p] = files[p]
  BY <1>1, <1>2
<1>4. FilesOK'
  BY <1>3 DEF IInv, FilesOK
<1>5. git' \in {"none", "clean", "dirty"} /\ next' = next + 1
  BY DEF Writes, Touched, IInv, TypeOK
<1>6. report' \in [Paths -> Results]
  BY <1>1 DEF Writes, IInv, TypeOK
<1>7. QED
  BY <1>1, <1>3, <1>4, <1>5, <1>6

(* A file left alone is counted, too. *)
LEMMA LeftAlone ==
    ASSUME IInv, Busy, NEW result \in Results, Leaves(result)
    PROVE  /\ FilesOK' /\ git' \in {"none", "clean", "dirty"} /\ report' \in [Paths -> Results]
           /\ next' \in 1 .. (Len(Rendered) + 1) /\ DOMAIN files' = Paths /\ files' = files
<1>1. Current.path \in Paths /\ next + 1 \in 1 .. (Len(Rendered) + 1)
  BY InTurn
<1>2. files' = files /\ git' = git /\ next' = next + 1
      /\ report' = [report EXCEPT ![Current.path] = result]
  BY DEF Leaves
<1>3. FilesOK' /\ git' \in {"none", "clean", "dirty"} /\ DOMAIN files' = Paths
  BY <1>2 DEF IInv, FilesOK, TypeOK
<1>4. report' \in [Paths -> Results]
  BY <1>1, <1>2 DEF IInv, TypeOK
<1>5. QED
  BY <1>1, <1>2, <1>3, <1>4

-----------------------------------------------------------------------------
(* What each step owes: the body of NothingLostUnasked and of BatchIsFinal. *)

Unlost ==
    \A p \in Paths :
        \/ Keeps(files[p], files'[p])
        \/ left'.edits < left.edits
        \/ phase = "ask" /\ p = Current.path /\ Reworked
        \/ phase = "apply" /\ p = Current.path /\ Whole
              /\ (flags.overwrite \/ batch = "accept")

Final ==
    phase = "apply" /\ batch # "none" =>
        /\ phase' # "ask" /\ batch' = batch
        /\ (batch = "skip" /\ ~flags.overwrite) =>
              \A p \in Paths : files[p] # NoFile => files'[p] = files[p]

(* Nothing is lost where nothing is written. *)
LEMMA SameFiles ==
    ASSUME IInv, files' = files
    PROVE  Unlost
<1>1. \A p \in Paths : Keeps(files[p], files[p])
  BY KeepsItself DEF IInv, FilesOK
<1>2. QED
  BY <1>1 DEF Unlost

(* A step that writes the current file only. *)
LEMMA OneFile ==
    ASSUME IInv, \A p \in Paths : p # Current.path => files'[p] = files[p],
           \/ Keeps(Mine, files'[Current.path])
           \/ phase = "ask" /\ Reworked
           \/ phase = "apply" /\ Whole /\ (flags.overwrite \/ batch = "accept")
    PROVE  Unlost
<1>1. \A p \in Paths : Keeps(files[p], files[p])
  BY KeepsItself DEF IInv, FilesOK
<1>2. QED
  BY <1>1 DEF Unlost, Mine

-----------------------------------------------------------------------------
(* No command yet. *)
LEMMA InitInv == Init => IInv
<1> SUFFICES ASSUME Init PROVE IInv
  OBVIOUS
<1>1. FilesOK
  BY MergeAssumption DEF Init, FilesOK
<1>2. TypeOK
  <2>1. DOMAIN files = Paths
    BY <1>1 DEF FilesOK
  <2>2. next \in 1 .. (Len(Rendered) + 1) /\ left \in [runs : 0 .. MaxRuns, edits : 0 .. MaxEdits]
    <3>1. next = 1 /\ left = [runs |-> MaxRuns, edits |-> MaxEdits]
      BY DEF Init
    <3>2. MaxRuns \in 0 .. MaxRuns /\ MaxEdits \in 0 .. MaxEdits /\ 1 \in 1 .. (Len(Rendered) + 1)
      BY MergeAssumption
    <3>3. QED
      BY <3>1, <3>2
  <2>3. report \in [Paths -> Results]
    BY DEF Init, Results
  <2>4. flags \in [overwrite : BOOLEAN, interactive : BOOLEAN] /\ applied \in BOOLEAN
    BY DEF Init
  <2>5. QED
    BY <2>1, <2>2, <2>3, <2>4 DEF Init, TypeOK, Phases
<1>3. DraftOK
  BY DEF Init, DraftOK
<1>4. QED
  BY <1>1, <1>2, <1>3 DEF IInv

(* Steps that leave the files alone and ask nothing. *)
LEMMA PhaseSteps ==
    ASSUME IInv,
           \/ \E o, i \in BOOLEAN : Begins(o, i)
           \/ GitCheck \/ Proceed \/ Renders \/ MergeFails \/ Records \/ Stops \/ UserCommits
    PROVE  IInv' /\ Unlost /\ Final
<1>1. files' = files
  BY DEF Begins, GitCheck, Proceed, Renders, MergeFails, Records, Stops, UserCommits
<1>2. FilesOK'
  BY <1>1 DEF IInv, FilesOK
<1>3. DraftOK' /\ Final
  BY <1>1 DEF Begins, GitCheck, Proceed, Renders, MergeFails, Records, Stops, UserCommits, DraftOK, Final
<1>4. TypeOK'
  <2>1. TypeOK /\ DOMAIN files' = Paths
    BY <1>1 DEF IInv, TypeOK
  <2>2. CASE \E o, i \in BOOLEAN : Begins(o, i)
    <3>1. left \in [runs : 0 .. MaxRuns, edits : 0 .. MaxEdits] /\ left.runs > 0
          /\ left' = [left EXCEPT !.runs = left.runs - 1]
      BY <2>1, <2>2 DEF Begins, TypeOK
    <3>2. left' \in [runs : 0 .. MaxRuns, edits : 0 .. MaxEdits]
      BY <3>1, MergeAssumption
    <3> PICK o, i \in BOOLEAN : Begins(o, i)
      BY <2>2
    <3>3. next' \in 1 .. (Len(Rendered) + 1)
      <4>1. next' = 1
        BY DEF Begins
      <4>2. QED
        BY <4>1, MergeAssumption
    <3>4. report' \in [Paths -> Results]
      BY DEF Begins, Results
    <3>5. flags' \in [overwrite : BOOLEAN, interactive : BOOLEAN]
      BY DEF Begins
    <3>6. QED
      BY <2>1, <2>2, <3>2, <3>3, <3>4, <3>5 DEF Begins, TypeOK, Phases
  <2>3. CASE GitCheck
    BY <2>1, <2>3 DEF GitCheck, TypeOK, Phases
  <2>4. CASE Proceed \/ Renders \/ UserCommits
    BY <2>1, <2>4 DEF Proceed, Renders, UserCommits, TypeOK, Phases
  <2>5. CASE MergeFails \/ Stops
    BY <2>1, <2>5 DEF MergeFails, Clash, Turn, Stops, TypeOK, Phases
  <2>6. CASE Records
    BY <2>1, <2>6 DEF Records, TypeOK, Phases, Touched
  <2>7. QED
    BY <2>2, <2>3, <2>4, <2>5, <2>6
<1>5. QED
  BY <1>1, <1>2, <1>3, <1>4, SameFiles DEF IInv

(* A new file. *)
LEMMA CreatesStep ==
    ASSUME IInv, Creates
    PROVE  IInv' /\ Unlost /\ Final
<1>1. Busy /\ Mine = NoFile /\ Writes(Current.content, "created")
      /\ UNCHANGED <<flags, phase, batch, draft, applied, left>> /\ phase = "apply"
  BY DEF Creates, Turn, Busy
<1>2. Fits(Current.path, Current.content) /\ Current.path \in Paths
  BY <1>1, InTurn
<1>3. /\ FilesOK' /\ git' \in {"none", "clean", "dirty"} /\ report' \in [Paths -> Results]
      /\ next' \in 1 .. (Len(Rendered) + 1) /\ DOMAIN files' = Paths
      /\ \A p \in Paths : p # Current.path => files'[p] = files[p]
  BY <1>1, <1>2, Written DEF Results
<1>4. IInv'
  BY <1>1, <1>3 DEF IInv, TypeOK, DraftOK
<1>5. Keeps(Mine, files'[Current.path])
  BY <1>1 DEF Keeps, NoFile
<1>6. Unlost
  BY <1>3, <1>5, OneFile
<1>7. Final
  BY <1>1, <1>3 DEF Final, Mine
<1>8. QED
  BY <1>4, <1>6, <1>7

(* A decision for all that remains answers every prompt. *)
LEMMA Verdicts ==
    ASSUME IInv
    PROVE  /\ Verdict \in {"overwritten", "skipped", "merged", "unchanged", "asked"}
           /\ Verdict = "asked" => flags.interactive /\ batch = "none"
           /\ Verdict = "overwritten" => Whole /\ (flags.overwrite \/ batch = "accept")
           /\ Verdict = "merged" => ~Whole /\ batch # "skip"
<1>1. batch \in {"none", "accept", "skip"} /\ (batch # "none" => flags.interactive)
      /\ flags.overwrite \in BOOLEAN /\ flags.interactive \in BOOLEAN
  BY DEF IInv, TypeOK
<1>2. CASE Whole
  BY <1>1, <1>2 DEF Verdict
<1>3. CASE ~Whole
  BY <1>1, <1>3 DEF Verdict
<1>4. QED
  BY <1>2, <1>3

(* A conflict nobody has to be asked about. *)
LEMMA DecidesStep ==
    ASSUME IInv, Decides
    PROVE  IInv' /\ Unlost /\ Final
<1>1. Busy /\ Clash /\ ~Unmergeable /\ phase = "apply"
      /\ UNCHANGED <<flags, phase, batch, draft, applied, left>>
  BY DEF Decides, Clash, Turn, Busy
<1>2. CASE Verdict \in {"overwritten", "merged"} /\ Writes(Proposed, Verdict)
  <2>1. Fits(Current.path, Proposed) /\ (Whole \/ Keeps(Mine, Proposed))
    BY <1>1, ProposedKeeps
  <2>2. /\ FilesOK' /\ git' \in {"none", "clean", "dirty"} /\ report' \in [Paths -> Results]
        /\ next' \in 1 .. (Len(Rendered) + 1) /\ DOMAIN files' = Paths
        /\ files'[Current.path] = Proposed
        /\ \A p \in Paths : p # Current.path => files'[p] = files[p]
    BY <1>1, <1>2, <2>1, Written DEF Results
  <2>3. IInv'
    BY <1>1, <2>2 DEF IInv, TypeOK, DraftOK
  <2>4. Keeps(Mine, Proposed) \/ (Whole /\ (flags.overwrite \/ batch = "accept"))
    BY <1>2, <2>1, Verdicts
  <2>5. Unlost
    BY <1>1, <2>2, <2>4, OneFile
  <2>6. Final
    BY <1>1, <1>2, Verdicts DEF Final
  <2>7. QED
    BY <2>3, <2>5, <2>6
<1>3. CASE Verdict \in {"skipped", "unchanged"} /\ Leaves(Verdict)
  <2>1. /\ FilesOK' /\ git' \in {"none", "clean", "dirty"} /\ report' \in [Paths -> Results]
        /\ next' \in 1 .. (Len(Rendered) + 1) /\ DOMAIN files' = Paths /\ files' = files
    BY <1>1, <1>3, LeftAlone DEF Results
  <2>2. IInv'
    BY <1>1, <2>1 DEF IInv, TypeOK, DraftOK
  <2>3. QED
    BY <1>1, <2>1, <2>2, SameFiles DEF Final
<1>4. QED
  BY <1>2, <1>3 DEF Decides

(* A question. *)
LEMMA PromptsStep ==
    ASSUME IInv, Prompts
    PROVE  IInv' /\ Unlost /\ Final
<1>1. /\ Busy /\ Clash /\ ~Unmergeable /\ phase = "apply" /\ Verdict = "asked" /\ phase' = "ask"
      /\ draft' = [whole |-> Whole, content |-> Proposed]
      /\ UNCHANGED <<files, git, flags, next, batch, report, applied, left>>
  BY DEF Prompts, Clash, Turn, Busy
<1>2. Fits(Current.path, Proposed) /\ flags.interactive /\ batch = "none"
  BY <1>1, ProposedKeeps, Verdicts
<1>3. FilesOK'
  BY <1>1 DEF IInv, FilesOK
<1>4. DraftOK'
  <2>1. draft'.whole = Whole /\ draft'.content = Proposed
    BY <1>1
  <2>2. Whole \/ (Strategy[Current.path] # "plain" /\ Current.content # Broken)
    BY <1>1 DEF Whole, Unmergeable
  <2>3. QED
    BY <1>1, <1>2, <2>1, <2>2 DEF DraftOK, Current
<1>5. TypeOK'
  BY <1>1, <1>2 DEF IInv, TypeOK, Busy, Phases
<1>6. QED
  BY <1>1, <1>2, <1>3, <1>4, <1>5, SameFiles DEF IInv, Final

(* A draft is written. *)
LEMMA AcceptsStep ==
    ASSUME IInv, NEW all \in BOOLEAN, Accepts(all)
    PROVE  IInv' /\ Unlost /\ Final
<1> DEFINE result == IF draft.whole THEN "overwritten" ELSE "merged"
<1>1. /\ Busy /\ phase = "ask" /\ phase' = "apply" /\ draft' = NoDraft
      /\ Fits(Current.path, draft.content) /\ Writes(draft.content, result)
      /\ batch' \in {batch, "accept"} /\ UNCHANGED <<flags, applied, left>>
  BY DEF Accepts, IInv, DraftOK, TypeOK, Busy
<1>2. result \in Results
  BY DEF Results
<1> HIDE DEF result
<1>3. /\ FilesOK' /\ git' \in {"none", "clean", "dirty"} /\ report' \in [Paths -> Results]
      /\ next' \in 1 .. (Len(Rendered) + 1) /\ DOMAIN files' = Paths
      /\ files'[Current.path] = draft.content
      /\ \A p \in Paths : p # Current.path => files'[p] = files[p]
  BY <1>1, <1>2, Written
<1>4. flags.interactive
  BY <1>1 DEF IInv, TypeOK
<1>5. IInv'
  BY <1>1, <1>3, <1>4 DEF IInv, TypeOK, DraftOK, Phases
<1>6. Reworked \/ Keeps(Mine, draft.content)
  <2>1. SUFFICES ASSUME ~Reworked PROVE Keeps(Mine, draft.content)
    OBVIOUS
  <2>2. Mine.form \in {"toml", "yaml"} /\ draft.content = Merged(Current.path, Mine, Current.content)
    BY <2>1 DEF Reworked
  <2>3. Strategy[Current.path] # "plain" /\ Current.content # Broken
    BY <1>1, <2>1 DEF Reworked, IInv, DraftOK
  <2>4. QED
    BY <1>1, <2>2, <2>3, InTurn, MergedKeeps
<1>7. Unlost
  BY <1>1, <1>3, <1>6, OneFile
<1>8. QED
  BY <1>1, <1>5, <1>7 DEF Final

(* A file is skipped. *)
LEMMA SkipsStep ==
    ASSUME IInv, NEW all \in BOOLEAN, Skips(all)
    PROVE  IInv' /\ Unlost /\ Final
<1>1. /\ Busy /\ phase = "ask" /\ phase' = "apply" /\ draft' = NoDraft /\ Leaves("skipped")
      /\ batch' \in {batch, "skip"} /\ UNCHANGED <<flags, applied, left>>
  BY DEF Skips, IInv, TypeOK, Busy
<1>2. /\ FilesOK' /\ git' \in {"none", "clean", "dirty"} /\ report' \in [Paths -> Results]
      /\ next' \in 1 .. (Len(Rendered) + 1) /\ DOMAIN files' = Paths /\ files' = files
  BY <1>1, LeftAlone DEF Results
<1>3. flags.interactive
  BY <1>1 DEF IInv, TypeOK
<1>4. IInv'
  BY <1>1, <1>2, <1>3 DEF IInv, TypeOK, DraftOK, Phases
<1>5. QED
  BY <1>1, <1>2, <1>4, SameFiles DEF Final

(* A draft is edited. *)
LEMMA EditsDraftStep ==
    ASSUME IInv, NEW content, EditsDraft(content)
    PROVE  IInv' /\ Unlost /\ Final
<1>1. /\ phase = "ask" /\ phase' = "ask" /\ Fits(Current.path, content)
      /\ draft' = [draft EXCEPT !.content = content]
      /\ UNCHANGED <<files, git, flags, next, batch, report, applied, left>>
  BY DEF EditsDraft
<1>2. draft'.whole = draft.whole /\ draft'.content = content
      /\ draft' = [whole |-> draft'.whole, content |-> draft'.content]
  BY <1>1 DEF IInv, DraftOK
<1>3. DraftOK'
  BY <1>1, <1>2 DEF IInv, DraftOK, Current
<1>4. FilesOK'
  BY <1>1 DEF IInv, FilesOK
<1>5. TypeOK'
  BY <1>1 DEF IInv, TypeOK
<1>6. QED
  BY <1>1, <1>3, <1>4, <1>5, SameFiles DEF IInv, Final

(* The user saves a file of his own. *)
LEMMA UserWritesStep ==
    ASSUME IInv, NEW e \in Edits, UserWrites(e)
    PROVE  IInv' /\ Unlost /\ Final
<1>1. /\ phase \in {"idle", "failed", "confirm", "ask"} /\ left.edits > 0
      /\ files' = [files EXCEPT ![e.path] = e.content] /\ git' = Touched(git)
      /\ left' = [left EXCEPT !.edits = left.edits - 1]
      /\ UNCHANGED <<flags, phase, next, batch, draft, report, applied>>
  BY DEF UserWrites
<1>2. left \in [runs : 0 .. MaxRuns, edits : 0 .. MaxEdits]
  BY DEF IInv, TypeOK
<1>3. left' \in [runs : 0 .. MaxRuns, edits : 0 .. MaxEdits] /\ left'.edits < left.edits
  BY <1>1, <1>2, MergeAssumption
<1>4. e.path \in Paths /\ Fits(e.path, e.content)
  BY MergeAssumption
<1>5. FilesOK' /\ DOMAIN files' = Paths
  <2>1. files = [p \in Paths |-> files[p]] /\ \A p \in Paths : Fits(p, files[p])
    BY DEF IInv, FilesOK
  <2>2. /\ files' = [p \in Paths |-> files'[p]] /\ DOMAIN files' = Paths
        /\ files'[e.path] = e.content /\ \A p \in Paths : p # e.path => files'[p] = files[p]
    BY <1>1, <1>4, <2>1
  <2>3. QED
    BY <1>4, <2>1, <2>2 DEF FilesOK
<1>6. git' \in {"none", "clean", "dirty"}
  BY <1>1 DEF IInv, TypeOK, Touched
<1>7. TypeOK'
  BY <1>1, <1>3, <1>5, <1>6 DEF IInv, TypeOK
<1>8. DraftOK'
  BY <1>1 DEF IInv, DraftOK, Current
<1>9. QED
  BY <1>1, <1>3, <1>5, <1>7, <1>8 DEF IInv, Unlost, Final

(* Any step. *)
LEMMA Step ==
    ASSUME IInv, [Next]_vars
    PROVE  IInv' /\ Unlost /\ Final
<1>1. CASE UNCHANGED vars
  <2>1. IInv'
    BY <1>1 DEF vars, IInv, TypeOK, FilesOK, DraftOK, Current
  <2>2. QED
    BY <1>1, <2>1, SameFiles DEF vars, Final
<1>2. CASE Works
  BY <1>2, PhaseSteps, CreatesStep, DecidesStep, PromptsStep DEF Works
<1>3. CASE Answers
  BY <1>3, PhaseSteps, AcceptsStep, SkipsStep, EditsDraftStep DEF Answers
<1>4. CASE Stops \/ UserCommits \/ \E o, i \in BOOLEAN : Begins(o, i)
  BY <1>4, PhaseSteps
<1>5. CASE \E e \in Edits : UserWrites(e)
  BY <1>5, UserWritesStep
<1>6. QED
  BY <1>1, <1>2, <1>3, <1>4, <1>5 DEF Next

(* The invariant of every command. *)
LEMMA Inductive == Spec => []IInv
<1>1. IInv /\ [Next]_vars => IInv'
  BY Step
<1>2. QED
  BY InitInv, <1>1, PTL DEF Spec

-----------------------------------------------------------------------------
(* Running the template again. While nobody is there to ask, every file whose
   turn has passed is absorbed. *)

Past(now, n, overwrite) ==
    \A i \in 1 .. (n - 1) :
        Absorbed(now[Rendered[i].path], Rendered[i].path, Rendered[i].content, overwrite)

Applied == phase = "apply" /\ ~flags.interactive => Past(files, next, flags.overwrite)

(* A command comes to its first file with none behind it. *)
FromTheStart == phase \in {"git", "confirm", "render"} => next = 1

RInv == IInv /\ FromTheStart /\ (Orderly => Applied)

(* One more file is behind the command. *)
LEMMA OneMorePast ==
    ASSUME NEW now, NEW then, NEW n \in 1 .. Len(Rendered), NEW overwrite, Orderly,
           Past(now, n, overwrite),
           \A p \in Paths : p # Rendered[n].path => then[p] = now[p],
           Absorbed(then[Rendered[n].path], Rendered[n].path, Rendered[n].content, overwrite)
    PROVE  Past(then, n + 1, overwrite)
<1> SUFFICES ASSUME NEW i \in 1 .. n
             PROVE  Absorbed(then[Rendered[i].path], Rendered[i].path, Rendered[i].content, overwrite)
  BY MergeAssumption DEF Past
<1>1. CASE i = n
  BY <1>1
<1>2. CASE i # n
  <2>1. i \in 1 .. (n - 1) /\ i \in 1 .. Len(Rendered)
    BY <1>2, MergeAssumption
  <2>2. Rendered[i].path # Rendered[n].path /\ Rendered[i].path \in Paths
    BY <1>2, <2>1, MergeAssumption DEF Orderly
  <2>3. then[Rendered[i].path] = now[Rendered[i].path]
    BY <2>2
  <2>4. QED
    BY <2>1, <2>3 DEF Past
<1>3. QED
  BY <1>1, <1>2

(* What the command makes of the file whose turn it is. *)
LEMMA TurnAbsorbed ==
    ASSUME IInv, Orderly, ~flags.interactive, Creates \/ Decides
    PROVE  /\ next \in 1 .. Len(Rendered) /\ next' = next + 1
           /\ \A p \in Paths : p # Current.path => files'[p] = files[p]
           /\ Absorbed(files'[Current.path], Current.path, Current.content, flags.overwrite)
<1> DEFINE path == Current.path
           new == Current.content
<1>1. Busy /\ phase = "apply" /\ next \in 1 .. Len(Rendered)
  BY DEF Creates, Decides, Clash, Turn, Busy, IInv, TypeOK
<1>2. /\ path \in Paths /\ Fits(path, new) /\ new \notin {NoFile, Binary} /\ Fits(path, Mine)
      /\ new # Broken /\ (new.form = "yaml" => Len(new.docs) <= 1)
  BY <1>1, InTurn DEF Orderly, Current
<1>3. flags.overwrite \in BOOLEAN /\ batch = "none"
  BY DEF IInv, TypeOK
<1>4. Absorbed(new, path, new, flags.overwrite)
  BY <1>2, <1>3, OwnAbsorbed
<1>5. CASE Creates
  <2>1. Writes(new, "created")
    BY <1>5 DEF Creates
  <2>2. /\ files'[path] = new /\ \A p \in Paths : p # path => files'[p] = files[p]
    BY <1>1, <1>2, <2>1, Written DEF Results
  <2>3. next' = next + 1
    BY <2>1 DEF Writes
  <2>4. QED
    BY <1>1, <1>4, <2>2, <2>3
<1>6. CASE Decides
  <2>1. Clash /\ ~Unmergeable /\ Mine # NoFile
    BY <1>6 DEF Decides, Clash
  <2>2. CASE Verdict \in {"overwritten", "merged"} /\ Writes(Proposed, Verdict)
    <3>1. Fits(path, Proposed)
      BY <2>1, ProposedKeeps
    <3>2. /\ files'[path] = Proposed /\ \A p \in Paths : p # path => files'[p] = files[p]
      BY <1>1, <2>2, <3>1, Written DEF Results
    <3>3. next' = next + 1
      BY <2>2 DEF Writes
    <3>4. Absorbed(Proposed, path, new, flags.overwrite)
      <4>1. CASE Whole
        BY <1>4, <4>1 DEF Proposed
      <4>2. CASE ~Whole
        <5>1. Mine.form \in {"toml", "yaml"} /\ Proposed = Merged(path, Mine, new)
          BY <2>1, <4>2, ProposedKeeps
        <5>2. Strategy[path] # "plain"
          BY <4>2 DEF Whole
        <5>3. Absorbed(Merged(path, Mine, new), path, new, flags.overwrite)
          BY <1>2, <1>3, <5>1, <5>2, MergedAbsorbed
        <5>4. QED
          BY <5>1, <5>3
      <4>3. QED
        BY <4>1, <4>2
    <3>5. QED
      BY <1>1, <3>2, <3>3, <3>4
  <2>3. CASE Verdict \in {"skipped", "unchanged"} /\ Leaves(Verdict)
    <3>1. files' = files /\ next' = next + 1
      BY <2>3 DEF Leaves
    <3>2. files'[path] = Mine
      BY <3>1 DEF Mine
    <3>3. Absorbed(Mine, path, new, flags.overwrite)
      <4>1. CASE Whole
        <5>1. ~flags.overwrite
          BY <1>3, <2>3, <4>1 DEF Verdict
        <5>2. Absorbed(Mine, path, new, FALSE)
          BY <2>1, <4>1, SkippedAbsorbed DEF Whole
        <5>3. flags.overwrite = FALSE
          BY <1>3, <5>1
        <5>4. QED
          BY <5>2, <5>3
      <4>2. CASE ~Whole
        <5>1. Mine = Proposed
          BY <1>3, <2>3, <4>2 DEF Verdict
        <5>2. Mine.form \in {"toml", "yaml"} /\ Proposed = Merged(path, Mine, new)
          BY <2>1, <4>2, ProposedKeeps
        <5>3. Strategy[path] # "plain"
          BY <4>2 DEF Whole
        <5>4. Absorbed(Merged(path, Mine, new), path, new, flags.overwrite)
          BY <1>2, <1>3, <5>2, <5>3, MergedAbsorbed
        <5>5. QED
          BY <5>1, <5>2, <5>4
      <4>3. QED
        BY <4>1, <4>2
    <3>4. QED
      BY <1>1, <3>1, <3>2, <3>3
  <2>4. QED
    BY <1>6, <2>2, <2>3 DEF Decides
<1>7. QED
  BY <1>5, <1>6

(* Only Creates and Decides move on while nobody is asked. *)
LEMMA RStep ==
    ASSUME RInv, [Next]_vars
    PROVE  RInv'
<1>1. IInv /\ IInv'
  BY Step DEF RInv
<1>2. phase \in {"ask", "confirm"} => flags.interactive
  BY <1>1 DEF IInv, TypeOK
<1>3. SUFFICES FromTheStart' /\ (Orderly => Applied')
  BY <1>1 DEF RInv, Orderly
<1>4. CASE UNCHANGED vars
  BY <1>4 DEF vars, RInv, FromTheStart, Applied
<1>5. CASE Creates \/ Decides
  <2>1. phase' = "apply" /\ flags' = flags /\ phase = "apply"
    BY <1>5 DEF Creates, Decides, Clash, Turn
  <2>2. ASSUME Orderly, ~flags.interactive
        PROVE  Past(files', next', flags.overwrite)
    <3>1. Past(files, next, flags.overwrite)
      BY <2>1, <2>2 DEF RInv, Applied
    <3>2. /\ next \in 1 .. Len(Rendered) /\ next' = next + 1
          /\ \A p \in Paths : p # Current.path => files'[p] = files[p]
          /\ Absorbed(files'[Current.path], Current.path, Current.content, flags.overwrite)
      BY <1>1, <1>5, <2>2, TurnAbsorbed
    <3>3. Past(files', next + 1, flags.overwrite)
      BY <2>2, <3>1, <3>2, OneMorePast DEF Current
    <3>4. QED
      BY <3>2, <3>3
  <2>3. QED
    BY <2>1, <2>2 DEF FromTheStart, Applied
<1>6. CASE Renders
  <2>1. next' = 1 /\ phase' = "apply"
    BY <1>6 DEF Renders, RInv, FromTheStart
  <2>2. Past(files', next', flags'.overwrite)
    BY <2>1 DEF Past
  <2>3. QED
    BY <2>1, <2>2 DEF FromTheStart, Applied
<1>7. CASE \/ \E o, i \in BOOLEAN : Begins(o, i)
           \/ GitCheck \/ Proceed \/ Prompts \/ MergeFails \/ Records \/ Stops \/ UserCommits
  <2>1. CASE \E o, i \in BOOLEAN : Begins(o, i)
    BY <2>1 DEF Begins, FromTheStart, Applied
  <2>2. CASE GitCheck
    BY <2>2 DEF GitCheck, RInv, FromTheStart, Applied
  <2>3. CASE Proceed \/ UserCommits
    BY <2>3 DEF Proceed, UserCommits, RInv, FromTheStart, Applied
  <2>4. CASE Prompts \/ MergeFails \/ Records \/ Stops
    BY <2>4 DEF Prompts, MergeFails, Records, Stops, FromTheStart, Applied
  <2>5. QED
    BY <1>7, <2>1, <2>2, <2>3, <2>4
<1>8. CASE \E all \in BOOLEAN : Accepts(all) \/ Skips(all)
  <2>1. phase = "ask" /\ phase' = "apply" /\ flags' = flags
    BY <1>8 DEF Accepts, Skips
  <2>2. QED
    BY <1>2, <2>1 DEF FromTheStart, Applied
<1>9. CASE \/ \E content \in EditorSaves : EditsDraft(content)
           \/ \E e \in Edits : UserWrites(e)
  BY <1>9 DEF EditsDraft, UserWrites, RInv, FromTheStart, Applied
<1>10. QED
  BY <1>4, <1>5, <1>6, <1>7, <1>8, <1>9 DEF Next, Works, Answers

(* The invariant of a command that may be run again. *)
LEMMA RInductive == Spec => []RInv
<1>1. Init => RInv
  BY InitInv DEF Init, RInv, FromTheStart, Applied
<1>2. RInv /\ [Next]_vars => RInv'
  BY RStep
<1>3. QED
  BY <1>1, <1>2, PTL DEF Spec

(* The first n - 1 files absorbed, the rest is what both runs do. *)
LEMMA Resumed ==
    ASSUME NEW now, NEW n \in 1 .. (Len(Rendered) + 1), NEW overwrite, Past(now, n, overwrite)
    PROVE  /\ Reached(now, n) = Reached(now, 1) \ 1 .. (n - 1)
           /\ 1 .. (n - 1) \subseteq Reached(now, 1)
<1> DEFINE Free(j) == ~Stuck(now[Rendered[j].path], Rendered[j].path, Rendered[j].content)
<1>1. \A j \in 1 .. (n - 1) : Free(j)
  BY DEF Past, Absorbed
<1>2. \A k : Reached(now, k) = {i \in k .. Len(Rendered) : \A j \in k .. i : Free(j)}
  BY DEF Reached
<1> HIDE DEF Free
<1>3. Len(Rendered) \in Nat
  BY MergeAssumption
<1>4. ASSUME NEW i \in Reached(now, n)
      PROVE  i \in Reached(now, 1) \ 1 .. (n - 1)
  <2>1. i \in n .. Len(Rendered) /\ \A j \in n .. i : Free(j)
    BY <1>2
  <2>2. \A j \in 1 .. i : Free(j)
    BY <1>1, <1>3, <2>1
  <2>3. i \in 1 .. Len(Rendered) /\ i \notin 1 .. (n - 1)
    BY <1>3, <2>1
  <2>4. QED
    BY <1>2, <2>2, <2>3
<1>5. ASSUME NEW i \in Reached(now, 1), i \notin 1 .. (n - 1)
      PROVE  i \in Reached(now, n)
  <2>1. i \in 1 .. Len(Rendered) /\ \A j \in 1 .. i : Free(j)
    BY <1>2
  <2>2. i \in n .. Len(Rendered) /\ \A j \in n .. i : Free(j)
    BY <1>3, <1>5, <2>1
  <2>3. QED
    BY <1>2, <2>2
<1>6. ASSUME NEW i \in 1 .. (n - 1)
      PROVE  i \in Reached(now, 1)
  <2>1. i \in 1 .. Len(Rendered) /\ \A j \in 1 .. i : Free(j)
    BY <1>1, <1>3
  <2>2. QED
    BY <1>2, <2>1
<1>7. QED
  BY <1>4, <1>5, <1>6

(* The files both runs leave: an absorbed one as it is, the others alike. *)
LEMMA SameOutcome ==
    ASSUME NEW now, NEW n \in 1 .. (Len(Rendered) + 1), NEW overwrite, Orderly,
           Past(now, n, overwrite), NEW p \in Paths
    PROVE  Unprint(Outcome(now, 1, overwrite)[p]) = Unprint(Outcome(now, n, overwrite)[p])
<1>1. /\ Reached(now, n) = Reached(now, 1) \ 1 .. (n - 1)
      /\ 1 .. (n - 1) \subseteq Reached(now, 1)
  BY Resumed
<1>2. \A k : Outcome(now, k, overwrite)[p] =
                IF AtPath(p, now, k) = {} THEN now[p]
                ELSE Unattended(now[p], p,
                       Rendered[CHOOSE i \in AtPath(p, now, k) : TRUE].content, overwrite)
  BY DEF Outcome
<1>3. Reached(now, 1) \subseteq 1 .. Len(Rendered)
  BY DEF Reached
<1>4. CASE \E m \in 1 .. (n - 1) : Rendered[m].path = p
  <2>1. PICK m \in 1 .. (n - 1) : Rendered[m].path = p
    BY <1>4
  <2>2. m \in Reached(now, 1) /\ m \in 1 .. Len(Rendered)
    BY <1>1, <1>3
  <2>3. AtPath(p, now, 1) = {m}
    BY <1>3, <2>1, <2>2 DEF AtPath, Orderly
  <2>4. AtPath(p, now, n) = {}
    <3>1. AtPath(p, now, n) \subseteq AtPath(p, now, 1) /\ m \notin AtPath(p, now, n)
      BY <1>1 DEF AtPath
    <3>2. QED
      BY <2>3, <3>1
  <2>5. (CHOOSE i \in {m} : TRUE) = m
    OBVIOUS
  <2>6. Outcome(now, 1, overwrite)[p] = Unattended(now[p], p, Rendered[m].content, overwrite)
    BY <1>2, <2>3, <2>5
  <2>7. Outcome(now, n, overwrite)[p] = now[p]
    BY <1>2, <2>4
  <2>8. Unprint(Unattended(now[p], p, Rendered[m].content, overwrite)) = Unprint(now[p])
    BY <2>1 DEF Past, Absorbed
  <2>9. QED
    BY <2>6, <2>7, <2>8
<1>5. CASE ~\E m \in 1 .. (n - 1) : Rendered[m].path = p
  <2>1. AtPath(p, now, 1) = AtPath(p, now, n)
    BY <1>1, <1>5 DEF AtPath
  <2>2. QED
    BY <1>2, <2>1
<1>6. QED
  BY <1>4, <1>5

-----------------------------------------------------------------------------
(* Shapes, and: a prompt is open only in an interactive command, at a file
   that is left. *)
THEOREM TypeInvariance == Spec => []TypeOK
<1>1. IInv => TypeOK
  BY DEF IInv
<1>2. QED
  BY Inductive, <1>1, PTL

(* No file of the user's loses what he did not give away
   (resolve_plain_conflict, resolve_structured_merge, merge_toml, merge_yaml). *)
THEOREM NothingLost == Spec => NothingLostUnasked
<1>1. IInv /\ [Next]_vars => [Unlost]_vars
  BY Step
<1>2. QED
  BY Inductive, <1>1, PTL DEF Spec, NothingLostUnasked, Unlost

(* One answer for all that remains is the last one (BatchDecision). *)
THEOREM LastAnswer == Spec => BatchIsFinal
<1>1. IInv /\ [Next]_vars => [Final]_vars
  BY Step
<1>2. QED
  BY Inductive, <1>1, PTL DEF Spec, BatchIsFinal, Final

(* A template applied again over a command that died ends where that command
   would have (apply_rendered_files). *)
THEOREM RerunsConverge == Spec => []RerunConverges
<1>1. RInv => RerunConverges
  <2> SUFFICES ASSUME RInv, Orderly, phase = "apply", ~flags.interactive
               PROVE  /\ Reached(files, next) = Reached(files, 1) \ 1 .. (next - 1)
                      /\ 1 .. (next - 1) \subseteq Reached(files, 1)
                      /\ \A p \in Paths : Unprint(Outcome(files, 1, flags.overwrite)[p])
                                           = Unprint(Outcome(files, next, flags.overwrite)[p])
    BY DEF RerunConverges
  <2>1. next \in 1 .. (Len(Rendered) + 1) /\ Past(files, next, flags.overwrite)
    BY DEF RInv, IInv, TypeOK, Applied
  <2>2. QED
    BY <2>1, Resumed, SameOutcome
<1>2. QED
  BY RInductive, <1>1, PTL
================================================================================
