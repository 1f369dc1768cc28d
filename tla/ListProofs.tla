------------------------------ MODULE ListProofs ------------------------------
(***************************************************************************)
(* Lemmas about numbers, sequences and folds that the proofs of several    *)
(* components need.                                                        *)
(***************************************************************************)
EXTENDS Integers, SequencesExt, FiniteSetTheorems, WellFoundedInduction, TLAPS

-----------------------------------------------------------------------------
(* Least and greatest elements. *)

(* The least-number principle, from the well-foundedness of < on Nat. *)
LEMMA SmallestOf ==
    ASSUME NEW S \in SUBSET Nat, S # {}
    PROVE  Min(S) \in S /\ \A y \in S : Min(S) <= y
<1>1. IsWellFoundedOn(OpToRel(<, Nat), Nat)
  BY NatLessThanWellFounded
<1>2. PICK x \in S : \A y \in S : ~ (<<y, x>> \in OpToRel(<, Nat))
  BY <1>1, WFMin
<1>3. \A y \in S : ~ (y < x)
  BY <1>2 DEF OpToRel
<1>4. \E z \in S : \A y \in S : z <= y
  BY <1>3
<1>5. QED
  BY <1>4 DEF Min

(* A bounded set has a greatest element: n minus the least distance to n. *)
LEMMA LargestOf ==
    ASSUME NEW n \in Nat, NEW S \in SUBSET (0 .. n), S # {}
    PROVE  Max(S) \in S /\ \A y \in S : y <= Max(S)
<1> DEFINE T == {m \in 0 .. n : n - m \in S}
<1>1. \A x \in S : n - x \in T
  <2>1. \A x \in S : x \in 0 .. n
    OBVIOUS
  <2>2. \A x \in 0 .. n : n - x \in 0 .. n /\ n - (n - x) = x
    OBVIOUS
  <2>3. QED
    BY <2>1, <2>2
<1>2. T \in SUBSET Nat /\ T # {}
  <2>1. PICK x \in S : TRUE
    OBVIOUS
  <2>2. T # {}
    BY <1>1, <2>1
  <2>3. T \subseteq 0 .. n
    OBVIOUS
  <2>4. 0 .. n \subseteq Nat
    OBVIOUS
  <2>5. QED
    BY <2>2, <2>3, <2>4
<1>3. PICK t \in T : \A u \in T : t <= u
  BY <1>2, SmallestOf
<1>4. n - t \in S /\ t \in 0 .. n
  OBVIOUS
<1>5. ASSUME NEW y \in S
      PROVE  y <= n - t
  <2>1. t <= n - y /\ y \in 0 .. n
    BY <1>1, <1>3
  <2>2. QED
    BY <1>4, <2>1
<1>6. \E x \in S : \A y \in S : x >= y
  BY <1>4, <1>5
<1>7. QED
  BY <1>6 DEF Max

(* Induction, for the set of the numbers with a property. *)
LEMMA Induction ==
    ASSUME NEW S, 0 \in S, \A k \in Nat : k \in S => k + 1 \in S
    PROVE  Nat \subseteq S
<1> SUFFICES ASSUME NEW n \in Nat, n \notin S PROVE FALSE
  OBVIOUS
<1> DEFINE T == Nat \ S
<1>1. Min(T) \in T /\ \A y \in T : Min(T) <= y
  BY SmallestOf
<1>2. Min(T) \in Nat /\ Min(T) # 0 /\ Min(T) \notin S
  BY <1>1
<1> HIDE DEF T
<1>3. Min(T) - 1 \in Nat /\ Min(T) - 1 + 1 = Min(T)
  BY <1>2
<1>4. Min(T) - 1 \notin T
  BY <1>1, <1>2, <1>3
<1>5. QED
  BY <1>2, <1>3, <1>4 DEF T

(* The same up to a bound. *)
LEMMA InductionTo ==
    ASSUME NEW n \in Nat, NEW S, 0 \in S, \A k \in 0 .. n - 1 : k \in S => k + 1 \in S
    PROVE  n \in S /\ 0 .. n \subseteq S
<1> DEFINE T == {k \in Nat : k <= n => k \in S}
<1>1. 0 \in T
  OBVIOUS
<1>2. \A k \in Nat : k \in T => k + 1 \in T
  OBVIOUS
<1> HIDE DEF T
<1>3. Nat \subseteq T
  BY <1>1, <1>2, Induction
<1>4. QED
  BY <1>3 DEF T

(* A set of positions is finite, and its size a natural number. *)
LEMMA Counted ==
    ASSUME NEW n \in Int, NEW S, S \subseteq 1 .. n
    PROVE  IsFiniteSet(S) /\ Cardinality(S) \in Nat
<1>1. IsFiniteSet(1 .. n)
  BY FS_Interval
<1>2. IsFiniteSet(S)
  BY <1>1, FS_Subset
<1>3. QED
  BY <1>2, FS_CardinalityType

(* An interval ends with its upper bound. *)
LEMMA LastOfInterval ==
    ASSUME NEW n \in Nat \ {0}, NEW s \in SUBSET (1 .. n), n \in s
    PROVE  Max(s) = n
<1>1. \A y \in s : y <= n /\ y \in Nat
  OBVIOUS
<1>2. \E x \in s : \A y \in s : x >= y
  BY <1>1
<1>3. Max(s) \in s /\ \A y \in s : Max(s) >= y
  BY <1>2 DEF Max
<1>4. Max(s) <= n /\ Max(s) >= n /\ Max(s) \in Nat
  BY <1>1, <1>3
<1>5. QED
  BY <1>4

-----------------------------------------------------------------------------
(* Folds: FoldLeft runs through the subsets of a sequence's positions. *)

Runs(n, base, step, iter) ==
    \A s \in SUBSET (1 .. n) :
        iter[s] = IF s = {} THEN base ELSE step[<<iter[s \ {Max(s)}], Max(s)>>]

(* The run of a fold exists, for a step that stays in the set A. *)
LEMMA FoldRun ==
    ASSUME NEW n \in Nat, NEW A, NEW base \in A, NEW step \in [A \X (1 .. n) -> A]
    PROVE  \E iter \in [SUBSET (1 .. n) -> A] : Runs(n, base, step, iter)
<1> DEFINE S == {k \in 0 .. n : \E iter \in [SUBSET (1 .. k) -> A] : Runs(k, base, step, iter)}
<1>1. 0 \in S
  <2>1. 1 .. 0 = {} /\ SUBSET (1 .. 0) = {{}}
    OBVIOUS
  <2> DEFINE iter == [s \in SUBSET (1 .. 0) |-> base]
  <2>2. iter \in [SUBSET (1 .. 0) -> A]
    OBVIOUS
  <2>3. Runs(0, base, step, iter)
    BY <2>1 DEF Runs
  <2>4. QED
    BY <2>2, <2>3
<1>2. ASSUME NEW k \in 0 .. n - 1, k \in S
      PROVE  k + 1 \in S
  <2>1. PICK old \in [SUBSET (1 .. k) -> A] : Runs(k, base, step, old)
    BY <1>2
  <2> DEFINE m == k + 1
             new == [s \in SUBSET (1 .. m) |->
                        IF m \in s THEN step[<<old[s \ {m}], m>>] ELSE old[s]]
  <2>2. m \in 1 .. n /\ m \in Nat \ {0}
    OBVIOUS
  <2>3. \A s \in SUBSET (1 .. m) : /\ s \ {m} \in SUBSET (1 .. k)
                                   /\ m \notin s => s \in SUBSET (1 .. k)
    OBVIOUS
  <2>4. new \in [SUBSET (1 .. m) -> A]
    BY <2>2, <2>3
  <2>5. Runs(m, base, step, new)
    <3> SUFFICES ASSUME NEW s \in SUBSET (1 .. m)
                 PROVE  new[s] = IF s = {} THEN base ELSE step[<<new[s \ {Max(s)}], Max(s)>>]
      BY DEF Runs
    <3>1. CASE m \in s
      <4>1. Max(s) = m
        BY <2>2, <3>1, LastOfInterval
      <4>2. new[s \ {m}] = old[s \ {m}]
        BY <2>3
      <4>3. QED
        BY <3>1, <4>1, <4>2
    <3>2. CASE m \notin s
      <4>1. s \in SUBSET (1 .. k) /\ s \ {Max(s)} \in SUBSET (1 .. k)
        BY <2>3, <3>2
      <4>2. new[s] = old[s] /\ new[s \ {Max(s)}] = old[s \ {Max(s)}]
        BY <3>2, <4>1
      <4>3. QED
        BY <2>1, <4>1, <4>2 DEF Runs
    <3>3. QED
      BY <3>1, <3>2
  <2> HIDE DEF new, m
  <2>6. \E iter \in [SUBSET (1 .. m) -> A] : Runs(m, base, step, iter)
    BY <2>4, <2>5
  <2>7. QED
    BY <2>2, <2>6 DEF m
<1> HIDE DEF S
<1>3. 0 .. n \subseteq S
  BY <1>1, <1>2, InductionTo
<1>4. n \in S
  BY <1>3
<1>5. QED
  BY <1>4 DEF S

-----------------------------------------------------------------------------
(* Prefixes, as functions. *)

Upto(f, n) == [i \in 1 .. n |-> f[i]]

(* A prefix grows by the element after it. *)
LEMMA UptoNext ==
    ASSUME NEW f, NEW n \in Nat \ {0}
    PROVE  Append(Upto(f, n - 1), f[n]) = Upto(f, n)
<1> DEFINE X == {f[i] : i \in 1 .. n}
           a == Upto(f, n - 1)
           b == Upto(f, n)
<1>1. a \in Seq(X) /\ Len(a) = n - 1 /\ f[n] \in X /\ \A i \in 1 .. n - 1 : a[i] = f[i]
  <2>1. \A i \in 1 .. n - 1 : f[i] \in X
    OBVIOUS
  <2>2. a \in [1 .. n - 1 -> X] /\ n - 1 \in Nat
    BY <2>1 DEF Upto
  <2>3. QED
    BY <2>2 DEF Upto
<1>2. b \in Seq(X) /\ Len(b) = n /\ \A i \in 1 .. n : b[i] = f[i]
  BY DEF Upto
<1> HIDE DEF X, a, b
<1>3. Append(a, f[n]) \in Seq(X) /\ Len(Append(a, f[n])) = n
      /\ \A i \in 1 .. n : Append(a, f[n])[i] = b[i]
  BY <1>1, <1>2
<1>4. Append(a, f[n]) = b
  BY <1>2, <1>3
<1>5. QED
  BY <1>4 DEF a, b

(* Nothing comes before the first. *)
LEMMA UptoNone ==
    ASSUME NEW f
    PROVE  Upto(f, 0) = <<>>
  BY DEF Upto

-----------------------------------------------------------------------------
(* Sequences put one after the other: where each one starts. *)

Starts(n, lens, start) ==
    /\ start \in [1 .. n + 1 -> Nat] /\ start[1] = 1
    /\ \A s \in 1 .. n : start[s + 1] = start[s] + lens[s]

(* There is a list of starts for every list of lengths. *)
LEMMA StartsExist ==
    ASSUME NEW n \in Nat, NEW lens \in [1 .. n -> Nat]
    PROVE  \E start : Starts(n, lens, start)
<1> DEFINE S == {k \in 0 .. n : \E start : Starts(k, lens, start)}
<1>1. 0 \in S
  <2> DEFINE start == [s \in 1 .. 1 |-> 1]
  <2>1. Starts(0, lens, start)
    BY DEF Starts
  <2>2. QED
    BY <2>1
<1>2. ASSUME NEW k \in 0 .. n - 1, k \in S
      PROVE  k + 1 \in S
  <2>1. PICK old : Starts(k, lens, old)
    BY <1>2
  <2> DEFINE new == [s \in 1 .. k + 2 |-> IF s <= k + 1 THEN old[s] ELSE old[k + 1] + lens[k + 1]]
  <2>2. k + 1 \in 1 .. n /\ lens[k + 1] \in Nat /\ old[k + 1] \in Nat
    BY <2>1 DEF Starts
  <2>3. new \in [1 .. k + 2 -> Nat]
    BY <2>1, <2>2 DEF Starts
  <2>4. \A s \in 1 .. k + 1 : new[s + 1] = new[s] + lens[s]
    BY <2>1, <2>2 DEF Starts
  <2>5. Starts(k + 1, lens, new)
    BY <2>1, <2>3, <2>4 DEF Starts
  <2> HIDE DEF new
  <2>6. QED
    BY <2>2, <2>5
<1> HIDE DEF S
<1>3. n \in S
  BY <1>1, <1>2, InductionTo
<1>4. QED
  BY <1>3 DEF S

(* A later sequence starts later, or at the same place. *)
LEMMA StartsGrow ==
    ASSUME NEW n \in Nat, NEW lens \in [1 .. n -> Nat], NEW start, Starts(n, lens, start)
    PROVE  \A s, t \in 1 .. n + 1 : s <= t => start[s] <= start[t]
<1> SUFFICES ASSUME NEW s \in 1 .. n + 1
             PROVE  \A t \in 1 .. n + 1 : s <= t => start[s] <= start[t]
  OBVIOUS
<1> DEFINE S == {d \in 0 .. n : s + d <= n + 1 => start[s] <= start[s + d]}
<1>1. 0 \in S
  BY DEF Starts
<1>2. ASSUME NEW d \in 0 .. n - 1, d \in S
      PROVE  d + 1 \in S
  <2>1. CASE s + d + 1 <= n + 1
    <3>1. s + d \in 1 .. n /\ lens[s + d] \in Nat
      BY <2>1
    <3>2. start[s + d + 1] = start[s + d] + lens[s + d]
      BY <3>1 DEF Starts
    <3>3. start[s] \in Nat /\ start[s + d] \in Nat /\ start[s] <= start[s + d]
      BY <1>2, <3>1 DEF Starts
    <3>4. start[s] <= start[s + d + 1]
      BY <3>1, <3>2, <3>3
    <3>5. QED
      BY <3>4
  <2>2. QED
    BY <2>1
<1> HIDE DEF S
<1>3. 0 .. n \subseteq S
  BY <1>1, <1>2, InductionTo
<1>4. ASSUME NEW t \in 1 .. n + 1, s <= t
      PROVE  start[s] <= start[t]
  <2>1. t - s \in 0 .. n /\ s + (t - s) = t
    BY <1>4
  <2>2. t - s \in S
    BY <1>3, <2>1
  <2>3. QED
    BY <2>1, <2>2 DEF S
<1>5. QED
  BY <1>4

PartOf(start, s, p) == start[s] <= p /\ p < start[s + 1]

(* Every position is in one of the sequences, and in one only. *)
LEMMA StartsCover ==
    ASSUME NEW n \in Nat, NEW lens \in [1 .. n -> Nat], NEW start, Starts(n, lens, start),
           NEW p \in 1 .. start[n + 1] - 1
    PROVE  /\ \E s \in 1 .. n : PartOf(start, s, p)
           /\ \A s, t \in 1 .. n : PartOf(start, s, p) /\ PartOf(start, t, p) => s = t
<1>1. \A s \in 1 .. n + 1 : start[s] \in Nat
  BY DEF Starts
<1>2. n + 1 \in 1 .. n + 1 /\ start[n + 1] \in Nat /\ p \in Nat /\ p < start[n + 1]
      /\ p >= 1
  BY <1>1
<1>3. \E s \in 1 .. n : PartOf(start, s, p)
  <2> DEFINE T == {s \in 1 .. n + 1 : p < start[s]}
  <2>1. T \in SUBSET Nat /\ T # {}
    BY <1>2
  <2>2. Min(T) \in T /\ \A y \in T : Min(T) <= y
    BY <2>1, SmallestOf
  <2> DEFINE m == Min(T)
  <2> HIDE DEF m
  <2>3. m \in 1 .. n + 1 /\ p < start[m] /\ \A y \in 1 .. n + 1 : p < start[y] => m <= y
    BY <2>2 DEF m
  <2>4. m # 1
    BY <1>2, <2>3 DEF Starts
  <2>5. m - 1 \in 1 .. n /\ m - 1 + 1 = m
    BY <2>3, <2>4
  <2>6. ~(p < start[m - 1])
    BY <2>3, <2>5
  <2>7. start[m - 1] <= p
    BY <1>1, <1>2, <2>5, <2>6
  <2>8. QED
    BY <2>3, <2>5, <2>7 DEF PartOf
<1>4. ASSUME NEW s \in 1 .. n, NEW t \in 1 .. n, PartOf(start, s, p), PartOf(start, t, p), s < t
      PROVE  FALSE
  <2>1. s + 1 \in 1 .. n + 1 /\ t \in 1 .. n + 1 /\ s + 1 <= t
    BY <1>4
  <2>2. start[s + 1] <= start[t]
    BY <2>1, StartsGrow
  <2>3. QED
    BY <1>1, <1>2, <1>4, <2>1, <2>2 DEF PartOf
<1>5. QED
  BY <1>3, <1>4

(* Where the elements of a concatenation come from. *)
LEMMA Catenated ==
    ASSUME NEW X, NEW a \in Seq(X), NEW b \in Seq(X)
    PROVE  /\ a \o b \in Seq(X) /\ Len(a \o b) = Len(a) + Len(b)
           /\ \A q \in 1 .. Len(a) : (a \o b)[q] = a[q]
           /\ \A q \in 1 .. Len(b) : (a \o b)[Len(a) + q] = b[q]
  OBVIOUS

(* The runs of FlattenSeq. *)
Joins(X, seqs, k, f) ==
    /\ f \in [1 .. k -> Seq(X)]
    /\ f = [i \in 1 .. k |-> IF i = 1 THEN seqs[i] ELSE f[i - 1] \o seqs[i]]

(* The elements of each of the sequences, from its start on. *)
Laid(X, n, seqs, lens, start, flat) ==
    /\ flat \in Seq(X)
    /\ Len(flat) = start[n + 1] - 1
    /\ \A s \in 1 .. n : \A j \in 1 .. lens[s] : flat[start[s] + j - 1] = seqs[s][j]

(* What FlattenSeq makes of a list of sequences: each at its place. *)
LEMMA Flattening ==
    ASSUME NEW X, NEW n \in Nat, NEW seqs \in [1 .. n -> Seq(X)],
           NEW lens \in [1 .. n -> Nat], \A s \in 1 .. n : lens[s] = Len(seqs[s]),
           NEW start, Starts(n, lens, start)
    PROVE  Laid(X, n, seqs, lens, start, FlattenSeq(seqs))
<1> USE DEF Laid
<1> DEFINE Run(k, f) == Joins(X, seqs, k, f)
<1> USE DEF Joins
<1>1. /\ \A s \in 1 .. n : seqs[s] \in Seq(X) /\ lens[s] = Len(seqs[s]) /\ lens[s] \in Nat
      /\ Len(seqs) = n /\ lens \in [1 .. n -> Nat]
  OBVIOUS
<1>2. CASE n = 0
  <2>1. seqs = <<>>
    BY <1>1, <1>2
  <2>2. FlattenSeq(seqs) = <<>>
    BY <1>2, <2>1 DEF FlattenSeq
  <2>3. QED
    BY <1>1, <1>2, <2>2 DEF Starts
<1>3. CASE n # 0
  <2> DEFINE S == {k \in 0 .. n : \E f : Run(k, f)}
  <2>1. 0 \in S
    <3> DEFINE f == [i \in 1 .. 0 |-> <<>>]
    <3>1. Run(0, f)
      OBVIOUS
    <3> HIDE DEF f, Run
    <3>2. QED
      BY <3>1
  <2>2. ASSUME NEW k \in 0 .. n - 1, k \in S
        PROVE  k + 1 \in S
    <3>1. PICK old : Run(k, old)
      BY <2>2
    <3> DEFINE new == [i \in 1 .. k + 1 |->
                          IF i <= k THEN old[i]
                          ELSE IF i = 1 THEN seqs[i] ELSE old[i - 1] \o seqs[i]]
    <3>2. new \in [1 .. k + 1 -> Seq(X)]
      <4>1. ASSUME NEW i \in 1 .. k + 1 PROVE new[i] \in Seq(X)
        <5>1. CASE i <= k
          <6>1. i \in 1 .. k /\ old \in [1 .. k -> Seq(X)]
            BY <3>1, <5>1
          <6>2. old[i] \in Seq(X)
            BY <6>1
          <6>3. QED
            BY <5>1, <6>2
        <5>2. CASE i = 1 /\ ~(i <= k)
          BY <1>1, <5>2
        <5>3. CASE i # 1 /\ ~(i <= k)
          <6>1. i - 1 \in 1 .. k /\ i \in 1 .. n
            BY <1>1, <5>3
          <6>2. old[i - 1] \in Seq(X) /\ seqs[i] \in Seq(X)
            BY <1>1, <3>1, <6>1
          <6>3. QED
            BY <5>3, <6>2
        <5>4. QED
          BY <5>1, <5>2, <5>3
      <4>2. QED
        BY <4>1
    <3>3. \A i \in 1 .. k + 1 : new[i] = IF i = 1 THEN seqs[i] ELSE new[i - 1] \o seqs[i]
      <4> TAKE i \in 1 .. k + 1
      <4>1. CASE i <= k
        <5>1. i \in 1 .. k /\ (i # 1 => i - 1 \in 1 .. k)
          BY <4>1
        <5>2. old[i] = IF i = 1 THEN seqs[i] ELSE old[i - 1] \o seqs[i]
          BY <3>1, <5>1
        <5>3. QED
          BY <4>1, <5>1, <5>2
      <4>2. CASE ~(i <= k)
        <5>1. i # 1 => i - 1 \in 1 .. k
          BY <4>2
        <5>2. QED
          BY <4>2, <5>1
      <4>3. QED
        BY <4>1, <4>2
    <3>4. Run(k + 1, new)
      BY <3>2, <3>3
    <3> HIDE DEF new, Run
    <3>5. k + 1 \in 0 .. n
      OBVIOUS
    <3>6. QED
      BY <3>4, <3>5
  <2> HIDE DEF S
  <2>3. n \in S
    BY <1>1, <2>1, <2>2, InductionTo
  <2> DEFINE flat == CHOOSE f : f = [i \in 1 .. Len(seqs) |->
                                     IF i = 1 THEN seqs[i] ELSE f[i - 1] \o seqs[i]]
  <2>4. flat = [i \in 1 .. n |-> IF i = 1 THEN seqs[i] ELSE flat[i - 1] \o seqs[i]]
    <3>1. \E f : f = [i \in 1 .. Len(seqs) |-> IF i = 1 THEN seqs[i] ELSE f[i - 1] \o seqs[i]]
      BY <1>1, <2>3 DEF S
    <3>2. flat = [i \in 1 .. Len(seqs) |-> IF i = 1 THEN seqs[i] ELSE flat[i - 1] \o seqs[i]]
      BY <3>1
    <3> HIDE DEF flat
    <3>3. QED
      BY <1>1, <3>2
  <2>5. FlattenSeq(seqs) = flat[n]
    BY <1>1, <1>3 DEF FlattenSeq
  <2> HIDE DEF flat
  <2> DEFINE Good(i) == /\ flat[i] \in Seq(X) /\ Len(flat[i]) = start[i + 1] - 1
                        /\ \A s \in 1 .. i : \A j \in 1 .. lens[s] :
                              flat[i][start[s] + j - 1] = seqs[s][j]
             T == {i \in 0 .. n : i = 0 \/ Good(i)}
  <2>6. 0 \in T
    BY <1>1
  <2>7. ASSUME NEW i \in 0 .. n - 1, i \in T
        PROVE  i + 1 \in T
    <3>1. i + 1 \in 1 .. n /\ seqs[i + 1] \in Seq(X)
      BY <1>1
    <3>2. start[i + 1] \in Nat /\ start[i + 2] = start[i + 1] + lens[i + 1]
      <4>1. i + 1 \in 1 .. n + 1 /\ i + 1 + 1 = i + 2
        BY <3>1
      <4>2. start[i + 1 + 1] = start[i + 1] + lens[i + 1]
        BY <3>1 DEF Starts
      <4>3. QED
        BY <4>1, <4>2 DEF Starts
    <3>3. CASE i = 0
      <4>1. flat[1] = seqs[1] /\ start[1] = 1
        BY <2>4, <3>1, <3>3 DEF Starts
      <4>2. Good(1)
        BY <3>1, <3>2, <3>3, <4>1
      <4>3. QED
        BY <3>1, <3>3, <4>2
    <3>4. CASE i # 0
      <4>1. Good(i)
        BY <2>7, <3>4
      <4>2. flat[i + 1] = flat[i] \o seqs[i + 1]
        <5>1. i + 1 # 1 /\ i + 1 - 1 = i
          BY <3>4
        <5>2. \A k \in 1 .. n : flat[k] = IF k = 1 THEN seqs[k] ELSE flat[k - 1] \o seqs[k]
          BY <2>4
        <5>3. flat[i + 1] = IF i + 1 = 1 THEN seqs[i + 1] ELSE flat[i + 1 - 1] \o seqs[i + 1]
          BY <3>1, <5>2
        <5>4. QED
          BY <5>1, <5>3
      <4> DEFINE a == flat[i]
                 b == seqs[i + 1]
      <4>3. a \in Seq(X) /\ b \in Seq(X) /\ Len(a) = start[i + 1] - 1
            /\ Len(b) = lens[i + 1] /\ Len(b) \in Nat /\ Len(a) \in Nat
        BY <1>1, <3>1, <4>1
      <4> HIDE DEF a, b
      <4>4. /\ a \o b \in Seq(X) /\ Len(a \o b) = Len(a) + Len(b)
            /\ \A q \in 1 .. Len(a) : (a \o b)[q] = a[q]
            /\ \A q \in 1 .. Len(b) : (a \o b)[Len(a) + q] = b[q]
        <5>1. a \in Seq(X) /\ b \in Seq(X)
          BY <4>3
        <5>2. QED
          BY <5>1, Catenated
      <4>5. Len(a \o b) = start[i + 2] - 1
        BY <3>2, <4>3, <4>4 DEF b
      <4>6. ASSUME NEW s \in 1 .. i + 1, NEW j \in 1 .. lens[s]
            PROVE  (a \o b)[start[s] + j - 1] = seqs[s][j]
        <5>1. CASE s = i + 1
          <6>1. j \in 1 .. Len(b) /\ start[s] + j - 1 = Len(a) + j
            BY <3>2, <4>3, <5>1
          <6>2. (a \o b)[Len(a) + j] = b[j]
            BY <4>4, <6>1
          <6>3. QED
            BY <5>1, <6>1, <6>2 DEF b
        <5>2. CASE s # i + 1
          <6>1. s \in 1 .. i /\ s \in 1 .. n /\ lens[s] \in Nat
            BY <1>1, <5>2
          <6>2. start[s] \in Nat /\ start[s + 1] = start[s] + lens[s] /\ start[1] = 1
            <7>1. s \in 1 .. n + 1
              BY <6>1
            <7>2. QED
              BY <6>1, <7>1 DEF Starts
          <6>3. start[s + 1] <= start[i + 1] /\ 1 <= start[s]
            <7>1. \A x, y \in 1 .. n + 1 : x <= y => start[x] <= start[y]
              BY <1>1, StartsGrow
            <7>2. s + 1 \in 1 .. n + 1 /\ i + 1 \in 1 .. n + 1 /\ 1 \in 1 .. n + 1 /\ s \in 1 .. n + 1
                  /\ s + 1 <= i + 1 /\ 1 <= s
              BY <1>1, <6>1
            <7>3. QED
              BY <6>2, <7>1, <7>2
          <6>4. start[s] + j - 1 \in 1 .. Len(a)
            <7>1. j \in Nat /\ 1 <= j /\ j <= lens[s]
              BY <6>1
            <7>2. start[i + 1] \in Nat /\ start[s + 1] \in Nat
              BY <3>2, <6>1, <6>2
            <7> DEFINE x == start[s]
                       z == start[i + 1]
                       l == lens[s]
            <7>3. x \in Nat /\ z \in Nat /\ l \in Nat /\ 1 <= x /\ x + l <= z /\ j <= l
              BY <6>1, <6>2, <6>3, <7>1, <7>2
            <7> HIDE DEF x, z, l
            <7>4. x + j - 1 \in Nat /\ 1 <= x + j - 1 /\ x + j - 1 <= z - 1
              BY <7>1, <7>3
            <7>5. start[s] + j - 1 \in Nat /\ 1 <= start[s] + j - 1 /\ start[s] + j - 1 <= start[i + 1] - 1
              BY <7>4 DEF x, z
            <7>6. QED
              BY <4>3, <7>5
          <6>5. a[start[s] + j - 1] = seqs[s][j]
            BY <4>1, <6>1 DEF a
          <6>6. QED
            BY <4>4, <6>4, <6>5
        <5>3. QED
          BY <5>1, <5>2
      <4>7. Good(i + 1)
        <5>1. flat[i + 1] = a \o b /\ i + 1 + 1 = i + 2
          BY <4>2 DEF a, b
        <5>2. Len(flat[i + 1]) = start[i + 1 + 1] - 1
          BY <4>5, <5>1
        <5>3. \A s \in 1 .. i + 1 : \A j \in 1 .. lens[s] :
                 flat[i + 1][start[s] + j - 1] = seqs[s][j]
          BY <4>6, <5>1
        <5>4. flat[i + 1] \in Seq(X)
          BY <4>4, <5>1
        <5>5. QED
          BY <5>2, <5>3, <5>4, Zenon
      <4> HIDE DEF Good
      <4>8. QED
        BY <3>1, <4>7
    <3>5. QED
      BY <3>3, <3>4
  <2> HIDE DEF T
  <2>8. n \in T
    BY <1>1, <2>6, <2>7, InductionTo
  <2>9. Good(n)
    BY <1>3, <2>8 DEF T
  <2>10. QED
    BY <2>5, <2>9
<1>4. QED
  BY <1>2, <1>3

-----------------------------------------------------------------------------
(* Lists and folds that keep their elements. *)

(* The empty sequence has no positions. *)
LEMMA NoneHas == DOMAIN <<>> = {}
  OBVIOUS

(* A list has a length. *)
LEMMA ListLen ==
    ASSUME NEW S, NEW list \in Seq(S)
    PROVE  Len(list) \in Nat /\ DOMAIN list = 1 .. Len(list)
  OBVIOUS

(* The list of packs in use is a list. *)
LEMMA ListOf ==
    ASSUME NEW S, NEW list \in Seq(S)
    PROVE  list \in Seq(Range(list))
<1>1. \A i \in 1 .. Len(list) : list[i] \in Range(list)
  BY DEF Range
<1>2. list = [i \in 1 .. Len(list) |-> list[i]] /\ Len(list) \in Nat
  OBVIOUS
<1>3. QED
  BY <1>1, <1>2

(* The greatest of some numbers from 1 to n is one of them. *)
LEMMA LastIn ==
    ASSUME NEW n \in Nat, NEW s \in SUBSET (1 .. n), s # {}
    PROVE  Max(s) \in 1 .. n /\ s \ {Max(s)} \in SUBSET (1 .. n)
<1>1. s \in SUBSET (0 .. n)
  OBVIOUS
<1>2. Max(s) \in s
  BY <1>1, LargestOf
<1>3. QED
  BY <1>2

(* A fold whose steps stay in a set ends there. *)
LEMMA FoldStays ==
    ASSUME NEW n \in Nat, NEW A, NEW iter, iter[{}] \in A,
           \A s \in SUBSET (1 .. n) : s # {} /\ iter[s \ {Max(s)}] \in A => iter[s] \in A
    PROVE  iter[1 .. n] \in A
<1> DEFINE S == {k \in 0 .. n : iter[1 .. k] \in A}
<1>1. 0 \in S
  BY 1 .. 0 = {}
<1>2. ASSUME NEW k \in 0 .. n - 1, k \in S
      PROVE  k + 1 \in S
  <2> DEFINE s == 1 .. k + 1
  <2>1. s \in SUBSET (1 .. n) /\ s # {} /\ s \ {k + 1} = 1 .. k /\ k + 1 \in s /\ k + 1 \in Nat \ {0}
    OBVIOUS
  <2>2. Max(s) = k + 1
    BY <2>1, LastOfInterval
  <2>3. iter[s \ {Max(s)}] \in A
    BY <1>2, <2>1, <2>2
  <2>4. iter[s] \in A
    BY <2>1, <2>3
  <2>5. QED
    BY <2>4
<1> HIDE DEF S
<1>3. n \in S
  BY <1>1, <1>2, InductionTo
<1>4. QED
  BY <1>3 DEF S

-----------------------------------------------------------------------------
(* Folds over a set of numbers, greatest last. *)

(* What holds of no numbers, and of some when it holds of those before the
   greatest, holds of all sets of numbers up to n. *)
LEMMA SubsetInduction ==
    ASSUME NEW n \in Nat, NEW S \in SUBSET (1 .. n), NEW P, {} \in P,
           \A s \in SUBSET S : s # {} /\ s \ {Max(s)} \in P => s \in P
    PROVE  SUBSET S \subseteq P
<1> DEFINE T == {k \in 0 .. n : \A s \in SUBSET S : s \subseteq 1 .. k => s \in P}
<1>1. 0 \in T
  <2>1. \A s \in SUBSET S : s \subseteq 1 .. 0 => s = {}
    OBVIOUS
  <2>2. \A s \in SUBSET S : s \subseteq 1 .. 0 => s \in P
    BY <2>1, Zenon
  <2>3. 0 \in 0 .. n
    OBVIOUS
  <2>4. QED
    BY <2>2, <2>3, Zenon
<1>2. ASSUME NEW k \in 0 .. n - 1, k \in T
      PROVE  k + 1 \in T
  <2>1. k + 1 \in Nat \ {0} /\ k + 1 \in 0 .. n
    OBVIOUS
  <2>2. ASSUME NEW s \in SUBSET S, s \subseteq 1 .. k + 1
        PROVE  s \in P
    <3>1. CASE k + 1 \in s
      <4>1. Max(s) = k + 1
        BY <2>1, <2>2, <3>1, LastOfInterval
      <4>2. s \ {k + 1} \subseteq 1 .. k /\ s \ {k + 1} \in SUBSET S
        BY <2>2
      <4>3. QED
        BY <1>2, <3>1, <4>1, <4>2
    <3>2. CASE k + 1 \notin s
      <4>1. s \subseteq 1 .. k
        BY <2>2, <3>2
      <4>2. QED
        BY <1>2, <4>1
    <3>3. QED
      BY <3>1, <3>2
  <2>3. QED
    BY <2>1, <2>2
<1> HIDE DEF T
<1>3. n \in T
  BY <1>1, <1>2, InductionTo
<1>4. QED
  BY <1>3 DEF T

RunsOver(S, base, step, iter) ==
    \A s \in SUBSET S :
        iter[s] = IF s = {} THEN base ELSE step[<<iter[s \ {Max(s)}], Max(s)>>]

(* The run of a fold over a set exists, *)
LEMMA SetRun ==
    ASSUME NEW n \in Nat, NEW S \in SUBSET (1 .. n), NEW A, NEW base \in A,
           NEW step \in [A \X S -> A]
    PROVE  \E iter \in [SUBSET S -> A] : RunsOver(S, base, step, iter)
<1> DEFINE pad == [x \in A \X (1 .. n) |-> IF x[2] \in S THEN step[x] ELSE x[1]]
<1>1. pad \in [A \X (1 .. n) -> A]
  <2>1. ASSUME NEW x \in A \X (1 .. n) PROVE (IF x[2] \in S THEN step[x] ELSE x[1]) \in A
    OBVIOUS
  <2>2. QED
    BY <2>1
<1>2. \A a \in A, p \in S : pad[<<a, p>>] = step[<<a, p>>]
  OBVIOUS
<1> HIDE DEF pad
<1>3. PICK long \in [SUBSET (1 .. n) -> A] : Runs(n, base, pad, long)
  BY <1>1, FoldRun
<1> DEFINE iter == [s \in SUBSET S |-> long[s]]
<1>4. \A s \in SUBSET S : s \in SUBSET (1 .. n)
  OBVIOUS
<1>5. iter \in [SUBSET S -> A]
  BY <1>4
<1>6. ASSUME NEW s \in SUBSET S
      PROVE  iter[s] = IF s = {} THEN base ELSE step[<<iter[s \ {Max(s)}], Max(s)>>]
  <2>1. CASE s = {}
    BY <1>3, <1>4, <2>1 DEF Runs
  <2>2. CASE s # {}
    <3>1. s \in SUBSET (0 .. n)
      OBVIOUS
    <3>2. Max(s) \in s
      BY <2>2, <3>1, LargestOf
    <3>3. iter[s \ {Max(s)}] = long[s \ {Max(s)}] /\ long[s \ {Max(s)}] \in A /\ Max(s) \in S
      BY <1>4, <3>2
    <3>4. long[s] = pad[<<long[s \ {Max(s)}], Max(s)>>]
      BY <1>3, <1>4, <2>2 DEF Runs
    <3>5. QED
      BY <1>2, <2>2, <3>3, <3>4
  <2>3. QED
    BY <2>1, <2>2
<1> HIDE DEF iter
<1>7. RunsOver(S, base, step, iter)
  BY <1>6 DEF RunsOver
<1>8. QED
  BY <1>5, <1>7
=============================================================================
