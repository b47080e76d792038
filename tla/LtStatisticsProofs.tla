------------------------- MODULE LtStatisticsProofs -------------------------
(***************************************************************************)
(* What ltanalyze says of a series of samples, measures or days, and how a *)
(* report lists what is counted, for series and lists of any length.       *)
(*                                                                         *)
(* A fold from the left is defined by recursion over the set of places of  *)
(* the sequence.  There is such a fold (FoldExists, by induction over the  *)
(* natural numbers), so it is a series of steps, one for each element in   *)
(* its order (FoldSteps), and what each step keeps holds of the fold: for  *)
(* a statistic, that it says of the first k samples what it is to say of   *)
(* all (ExactAt, MetricAt, PerfAt).                                        *)
(*                                                                         *)
(* A round of the partition divides one entry more (DivAt), so the entries *)
(* are then in three parts with the pivots between them (Parted).  The     *)
(* parts that QuickSort has still to sort are apart and in order, and two  *)
(* entries are in order unless one of these parts has both (InOrder).      *)
(* Every call makes the calls and the entries in them fewer (Measure), so  *)
(* there are no calls left at the end, and everything is in order.         *)
(***************************************************************************)
EXTENDS LtAnalyzeProofs, MCLtAnalyze

-----------------------------------------------------------------------------
(* Folds of sequences.                                                     *)

LEMMA NatSetInduction ==
  ASSUME NEW C, 0 \in C, \A k \in Nat : k \in C => k + 1 \in C
  PROVE  \A n \in Nat : n \in C
<1> SUFFICES ASSUME NEW n \in Nat PROVE n \in C
  OBVIOUS
<1> DEFINE S == 1..n
           D == {T \in SUBSET S : Cardinality(T) \in C}
<1>1. IsFiniteSet(S) /\ Cardinality(S) = n
  BY FS_Interval
<1> HIDE DEF S
<1>2. ASSUME NEW T \in SUBSET S, \A x \in T : T \ {x} \in D PROVE T \in D
  <2>1. IsFiniteSet(T)
    BY <1>1, FS_Subset
  <2>2. CASE T = {}
    BY <2>2, FS_EmptySet
  <2>3. CASE T # {}
    <3>1. PICK x : x \in T
      BY <2>3
    <3> DEFINE R == T \ {x}
    <3>2. IsFiniteSet(R) /\ Cardinality(R) = Cardinality(T) - 1 /\ Cardinality(T) \in Nat /\ Cardinality(R) \in Nat
      BY <2>1, <3>1, FS_RemoveElement, FS_CardinalityType
    <3>3. Cardinality(R) \in C
      BY <1>2, <3>1
    <3> HIDE DEF R
    <3>4. Cardinality(R) + 1 \in C /\ Cardinality(T) = Cardinality(R) + 1
      BY <3>2, <3>3
    <3> QED  BY <3>4
  <2> QED  BY <2>2, <2>3
<1>3. \A T \in SUBSET S : T \in D
  <2>1. \A T \in SUBSET S : (\A x \in T : T \ {x} \in D) => T \in D
    BY <1>2
  <2> HIDE DEF D
  <2> QED  BY <1>1, <2>1, SubsetInduction
<1> QED  BY <1>1, <1>3

(* The operators that are folded, told apart by their names. *)
With(kind, a, x, p) ==
  CASE kind = "exact" -> ExactWith(a, x)
    [] kind = "range" -> RangeWith(a, x)
    [] kind = "metric" -> MetricWith(a, x[1], x[2])
    [] kind = "perf" -> PerfWith(a, x[1], x[2], NoOp)
    [] kind = "days" -> DaysWith(a, x)
    [] kind = "divide" -> Divide(a, x, p[1], p[2])
    [] OTHER -> QuickSort(a)

(* The definition by which the library folds from the left. *)
Folds(g, kind, p, base, seq, S) ==
  g = [s \in SUBSET S |-> IF s = {} THEN base ELSE With(kind, g[s \ {Max(s)}], seq[Max(s)], p)]
Fold(kind, p, base, seq, S) == (CHOOSE g : Folds(g, kind, p, base, seq, S))[S]

LEMMA MaxIs ==
  ASSUME NEW n \in Nat, NEW s, s \subseteq 1..n + 1, n + 1 \in s
  PROVE  Max(s) = n + 1
<1>1. \A y \in s : n + 1 >= y
  OBVIOUS
<1>2. \A x \in s : (\A y \in s : x >= y) => x = n + 1
  OBVIOUS
<1> QED  BY <1>1, <1>2 DEF Max

LEMMA FoldExists ==
  ASSUME NEW kind, NEW p, NEW base, NEW seq
  PROVE  \A n \in Nat : \E g : Folds(g, kind, p, base, seq, 1..n)
<1> DEFINE C == {n \in Nat : \E g : Folds(g, kind, p, base, seq, 1..n)}
<1>1. 0 \in C
  <2> DEFINE g == [s \in SUBSET {} |-> base]
  <2>1. 1..0 = {} /\ \A s \in SUBSET {} : s = {}
    OBVIOUS
  <2>2. g = [s \in SUBSET {} |-> IF s = {} THEN base ELSE With(kind, g[s \ {Max(s)}], seq[Max(s)], p)]
    OBVIOUS
  <2> HIDE DEF g
  <2> QED  BY <2>1, <2>2 DEF Folds
<1>2. ASSUME NEW n \in Nat, n \in C PROVE n + 1 \in C
  <2> DEFINE S == 1..n
             T == 1..n + 1
  <2>1. PICK g : Folds(g, kind, p, base, seq, S)
    BY <1>2
  <2> DEFINE h == [s \in SUBSET T |-> IF n + 1 \in s THEN With(kind, g[s \ {n + 1}], seq[n + 1], p) ELSE g[s]]
  <2>2. ASSUME NEW s \in SUBSET T
        PROVE  h[s] = IF s = {} THEN base ELSE With(kind, h[s \ {Max(s)}], seq[Max(s)], p)
    <3>1. CASE n + 1 \in s
      <4>1. Max(s) = n + 1 /\ s # {}
        BY <3>1, MaxIs
      <4>2. s \ {n + 1} \in SUBSET T /\ n + 1 \notin s \ {n + 1}
        OBVIOUS
      <4>3. h[s \ {n + 1}] = g[s \ {n + 1}]
        BY <4>2
      <4> QED  BY <3>1, <4>1, <4>3
    <3>2. CASE n + 1 \notin s
      <4>1. s \in SUBSET S
        BY <3>2
      <4>2. g[s] = IF s = {} THEN base ELSE With(kind, g[s \ {Max(s)}], seq[Max(s)], p)
        BY <2>1, <4>1 DEF Folds
      <4> DEFINE m == Max(s)
      <4>3. h[s] = g[s] /\ h[s \ {m}] = g[s \ {m}]
        <5> HIDE DEF m
        <5>1. s \ {m} \in SUBSET T /\ n + 1 \notin s \ {m}
          BY <3>2
        <5> QED  BY <3>2, <5>1
      <4> QED  BY <4>2, <4>3
    <3> QED  BY <3>1, <3>2
  <2>3. Folds(h, kind, p, base, seq, T)
    BY <2>2 DEF Folds
  <2> HIDE DEF h
  <2> QED  BY <2>3
<1>3. \A n \in Nat : n \in C
  <2>1. \A n \in Nat : n \in C => n + 1 \in C
    BY <1>2
  <2> HIDE DEF C
  <2> QED  BY <1>1, <2>1, NatSetInduction
<1> QED  BY <1>3

(* A fold from the left is a step for each element, in their order. *)
Steps(r, kind, p, base, seq, n) ==
  r[0] = base /\ \A k \in 1..n : r[k] = With(kind, r[k - 1], seq[k], p)

LEMMA FoldSteps ==
  ASSUME NEW kind, NEW p, NEW base, NEW seq, NEW n \in Nat
  PROVE  \E r : Steps(r, kind, p, base, seq, n) /\ r[n] = Fold(kind, p, base, seq, 1..n)
<1> DEFINE g == CHOOSE g : Folds(g, kind, p, base, seq, 1..n)
<1>1. Folds(g, kind, p, base, seq, 1..n) /\ Fold(kind, p, base, seq, 1..n) = g[1..n]
  BY FoldExists DEF Fold
<1> HIDE DEF g
<1> DEFINE r == [k \in 0..n |-> g[1..k]]
<1>2. r[0] = base
  <2>1. 1..0 = {}
    OBVIOUS
  <2> QED  BY <1>1, <2>1 DEF Folds
<1>3. ASSUME NEW k \in 1..n PROVE r[k] = With(kind, r[k - 1], seq[k], p)
  <2>1. Max(1..k) = k
    <3> DEFINE m == k - 1
    <3>1. m \in Nat /\ k = m + 1 /\ 1..k \subseteq 1..m + 1 /\ m + 1 \in 1..k
      OBVIOUS
    <3> HIDE DEF m
    <3>2. Max(1..k) = m + 1
      BY <3>1, MaxIs
    <3> QED  BY <3>1, <3>2
  <2>2. (1..k) \ {k} = 1..k - 1 /\ 1..k # {} /\ 1..k \in SUBSET (1..n)
    OBVIOUS
  <2>3. g[1..k] = With(kind, g[1..k - 1], seq[k], p)
    BY <1>1, <2>1, <2>2 DEF Folds
  <2> QED  BY <2>3
<1>4. Steps(r, kind, p, base, seq, n) /\ r[n] = g[1..n]
  BY <1>2, <1>3 DEF Steps
<1> HIDE DEF r
<1> QED  BY <1>1, <1>4

LEMMA FoldsAre ==
  ASSUME NEW seq, NEW n \in Nat, DOMAIN seq = 1..n
  PROVE  /\ FoldLeft(ExactWith, NoExact, seq) = Fold("exact", <<>>, NoExact, seq, 1..n)
         /\ FoldLeft(RangeWith, NoRange, seq) = Fold("range", <<>>, NoRange, seq, 1..n)
         /\ FoldLeft(LAMBDA m, x : MetricWith(m, x[1], x[2]), NoMetric, seq) = Fold("metric", <<>>, NoMetric, seq, 1..n)
         /\ FoldLeft(LAMBDA q, x : PerfWith(q, x[1], x[2], NoOp), NoPerf, seq) = Fold("perf", <<>>, NoPerf, seq, 1..n)
         /\ FoldLeft(DaysWith, NoDays, seq) = Fold("days", <<>>, NoDays, seq, 1..n)
<1>1. FoldLeft(ExactWith, NoExact, seq) = Fold("exact", <<>>, NoExact, seq, 1..n)
  BY DEF FoldLeft, MapThenFoldSet, Fold, Folds, With
<1>2. FoldLeft(RangeWith, NoRange, seq) = Fold("range", <<>>, NoRange, seq, 1..n)
  BY DEF FoldLeft, MapThenFoldSet, Fold, Folds, With
<1>3. FoldLeft(LAMBDA m, x : MetricWith(m, x[1], x[2]), NoMetric, seq) = Fold("metric", <<>>, NoMetric, seq, 1..n)
  BY DEF FoldLeft, MapThenFoldSet, Fold, Folds, With
<1>4. FoldLeft(LAMBDA q, x : PerfWith(q, x[1], x[2], NoOp), NoPerf, seq) = Fold("perf", <<>>, NoPerf, seq, 1..n)
  BY DEF FoldLeft, MapThenFoldSet, Fold, Folds, With
<1>5. FoldLeft(DaysWith, NoDays, seq) = Fold("days", <<>>, NoDays, seq, 1..n)
  BY DEF FoldLeft, MapThenFoldSet, Fold, Folds, With
<1> QED  BY <1>1, <1>2, <1>3, <1>4, <1>5
-----------------------------------------------------------------------------
(* Sums and bounds of a series.                                            *)

(* What a series says up to its sample number k. *)
Seen(seq, k) == {seq[i] : i \in 1..k}
Often(seq, k, x) == Cardinality({i \in 1..k : seq[i] = x})

LEMMA SeenMore ==
  ASSUME NEW seq, NEW k, k \in Nat
  PROVE  Seen(seq, 0) = {} /\ Seen(seq, k + 1) = Seen(seq, k) \cup {seq[k + 1]}
<1>1. 1..k + 1 = (1..k) \cup {k + 1} /\ 1..0 = {}
  OBVIOUS
<1> QED  BY <1>1 DEF Seen

LEMMA OftenMore ==
  ASSUME NEW seq, NEW k, k \in Nat, NEW x
  PROVE  /\ Often(seq, k, x) \in Nat
         /\ Often(seq, 0, x) = 0
         /\ Often(seq, k + 1, x) = Often(seq, k, x) + IF seq[k + 1] = x THEN 1 ELSE 0
         /\ Often(seq, k, x) = 0 <=> x \notin Seen(seq, k)
<1> DEFINE S == {i \in 1..k : seq[i] = x}
           T == {i \in 1..k + 1 : seq[i] = x}
<1>1. IsFiniteSet(S) /\ Cardinality(S) \in Nat /\ (Cardinality(S) = 0 <=> S = {})
  <2>1. IsFiniteSet(1..k) /\ S \subseteq 1..k
    BY FS_Interval
  <2>2. IsFiniteSet(S)
    BY <2>1, FS_Subset
  <2> HIDE DEF S
  <2> QED  BY <2>2, FS_CardinalityType, FS_EmptySet
<1>2. Often(seq, 0, x) = 0
  <2>1. {i \in 1..0 : seq[i] = x} = {}
    OBVIOUS
  <2> QED  BY <2>1, FS_EmptySet DEF Often
<1>3. S = {} <=> x \notin Seen(seq, k)
  BY DEF Seen
<1>4. Cardinality(T) = Cardinality(S) + IF seq[k + 1] = x THEN 1 ELSE 0
  <2>1. CASE seq[k + 1] = x
    <3>1. T = S \cup {k + 1} /\ k + 1 \notin S
      BY <2>1
    <3> HIDE DEF S, T
    <3>2. Cardinality(T) = Cardinality(S) + 1
      BY <1>1, <3>1, FS_AddElement
    <3> QED  BY <2>1, <3>2
  <2>2. CASE seq[k + 1] # x
    <3>1. T = S
      BY <2>2
    <3> HIDE DEF S, T
    <3> QED  BY <1>1, <2>2, <3>1
  <2> QED  BY <2>1, <2>2
<1>5. Often(seq, k, x) = Cardinality(S) /\ Often(seq, k + 1, x) = Cardinality(T)
  BY DEF Often
<1> QED  BY <1>1, <1>2, <1>3, <1>4, <1>5

LEMMA SumMore ==
  ASSUME NEW seq, NEW n \in Nat, \A i \in 1..n : seq[i] \in Int, NEW k \in 0..n - 1
  PROVE  Total(seq, 1..k) \in Int /\ Total(seq, 1..k + 1) = Total(seq, 1..k) + seq[k + 1]
<1> DEFINE S == 1..k
           U == 1..k + 1
           x == k + 1
<1>1. /\ IsFiniteSet(S) /\ U = S \cup {x} /\ x \notin S
      /\ (\A y \in U : seq[y] \in Int) /\ (\A y \in S : seq[y] \in Int) /\ seq[x] \in Int
  <2>1. IsFiniteSet(S)
    BY FS_Interval
  <2>2. U = S \cup {x} /\ x \notin S /\ U \subseteq 1..n /\ S \subseteq 1..n /\ x \in 1..n
    OBVIOUS
  <2> QED  BY <2>1, <2>2
<1> HIDE DEF S, U, x
<1>2. Total(seq, U) = seq[x] + Total(seq, S) /\ Total(seq, S) \in Int
  BY <1>1, TotalWith, TotalTyped
<1>3. Total(seq, U) = Total(seq, S) + seq[x]
  BY <1>1, <1>2
<1> QED  BY <1>2, <1>3 DEF S, U, x

(* What a summary says of the first k samples. *)
Summed(s, seq, k) == s.count = k /\ s.sum = Total(seq, 1..k) /\ Bounds(s, Seen(seq, k))

LEMMA SumsNone ==
  ASSUME NEW seq
  PROVE  Summed(Summary, seq, 0)
<1>1. Total(seq, 1..0) = 0 /\ Seen(seq, 0) = {}
  <2>1. 1..0 = {}
    OBVIOUS
  <2> QED  BY <2>1, TotalEmpty DEF Seen
<1> QED  BY <1>1 DEF Summed, Summary, Bounds, SomeSummary

LEMMA SumsMore ==
  ASSUME NEW seq, NEW n \in Nat, \A i \in 1..n : seq[i] \in Int, NEW k \in 0..n - 1, NEW s, Summed(s, seq, k)
  PROVE  Summed(SummaryWith(s, seq[k + 1]), seq, k + 1)
<1> DEFINE v == seq[k + 1]
           t == SummaryWith(s, v)
           seen == Seen(seq, k)
           more == Seen(seq, k + 1)
<1>1. v \in Int /\ more = seen \cup {v} /\ Bounds(s, seen) /\ k \in Nat
  BY SMTT(30), SeenMore DEF Summed
<1> HIDE DEF v, seen, more
<1>2. Bounds(t, more) /\ t.count = s.count + 1 /\ t.sum = s.sum + v
  BY <1>1, SummaryBounds
<1>3. Total(seq, 1..k + 1) = Total(seq, 1..k) + v
  BY SumMore DEF v
<1> QED  BY <1>1, <1>2, <1>3 DEF Summed, more, v

LEMMA SumsAgree ==
  ASSUME NEW seq \in Seq(Int), NEW s, Summed(s, seq, Len(seq))
  PROVE  SummaryAgrees(s, seq)
<1>1. DOMAIN seq = 1..Len(seq) /\ ToSet(seq) = Seen(seq, Len(seq))
  BY DEF ToSet, Seen
<1>2. FoldSeq(+, 0, seq) = Total(seq, DOMAIN seq)
  BY DEF FoldSeq, FoldFunction, FoldFunctionOnSet, MapThenFoldSet, Total, Adds, Element
<1> QED  BY <1>1, <1>2 DEF SummaryAgrees, Summed, Bounds
-----------------------------------------------------------------------------
(* Exact values and ranges.                                                *)

(* What exact values say of the first k samples. *)
ExactAt(e, seq, k) ==
  /\ Summed(e.all, seq, k)
  /\ e.single = {v \in Seen(seq, k) : Often(seq, k, v) = 1}
  /\ e.multiple = [v \in {x \in Seen(seq, k) : Often(seq, k, x) >= 2} |-> Often(seq, k, v)]

LEMMA ExactMore ==
  ASSUME NEW seq, NEW n \in Nat, \A i \in 1..n : seq[i] \in Int, NEW k \in 0..n - 1, NEW e, ExactAt(e, seq, k)
  PROVE  ExactAt(ExactWith(e, seq[k + 1]), seq, k + 1)
<1> DEFINE v == seq[k + 1]
           f == ExactWith(e, v)
           seen == Seen(seq, k)
           more == Seen(seq, k + 1)
           was(x) == Often(seq, k, x)
           is(x) == Often(seq, k + 1, x)
           D == DOMAIN e.multiple
           added == [x \in {y \in {v} : v \in D \/ v \in e.single} |-> IF v \in D THEN 1 ELSE 2]
<1>1. k \in Nat /\ more = seen \cup {v} /\ Summed(f.all, seq, k + 1)
  <2>1. Summed(e.all, seq, k) /\ f.all = SummaryWith(e.all, v)
    BY DEF ExactAt, ExactWith
  <2>2. Summed(SummaryWith(e.all, v), seq, k + 1)
    BY <2>1, SumsMore
  <2> QED  BY <2>1, <2>2, SeenMore
<1>2. \A x : was(x) \in Nat /\ is(x) = was(x) + (IF v = x THEN 1 ELSE 0) /\ (was(x) = 0 <=> x \notin seen)
  BY <1>1, OftenMore
<1>3. /\ e.single = {x \in seen : was(x) = 1} /\ D = {x \in seen : was(x) >= 2}
      /\ \A x \in D : e.multiple[x] = was(x)
  BY DEF ExactAt
<1>4. /\ f.single = (IF v \in D THEN e.single ELSE IF v \in e.single THEN e.single \ {v} ELSE e.single \cup {v})
      /\ f.multiple = e.multiple (+) added
  BY DEF ExactWith, BagToSet
<1>5. /\ DOMAIN f.multiple = D \cup DOMAIN added
      /\ f.multiple = [x \in D \cup DOMAIN added |->
           (IF x \in D THEN e.multiple[x] ELSE 0) + (IF x \in DOMAIN added THEN added[x] ELSE 0)]
  BY <1>4 DEF (+)
<1>6. DOMAIN added = (IF v \in D \/ v \in e.single THEN {v} ELSE {}) /\ \A x \in DOMAIN added : x = v /\ added[x] = IF v \in D THEN 1 ELSE 2
  OBVIOUS
<1> HIDE DEF v, seen, more, was, is, D, added, f
<1>7. f.single = {x \in more : is(x) = 1}
  BY <1>1, <1>2, <1>3, <1>4
<1>8. D \cup DOMAIN added = {x \in more : is(x) >= 2}
  BY <1>1, <1>2, <1>3, <1>6
<1>9. ASSUME NEW x \in D \cup DOMAIN added PROVE f.multiple[x] = is(x)
  BY <1>2, <1>3, <1>5, <1>6, <1>9
<1>10. f.multiple = [x \in {y \in more : is(y) >= 2} |-> is(x)]
  BY <1>5, <1>8, <1>9
<1> QED  BY <1>1, <1>7, <1>10 DEF ExactAt, f, v, more, is

LEMMA SeriesIs ==
  ASSUME NEW seq \in Seq(Int)
  PROVE  /\ Len(seq) \in Nat /\ DOMAIN seq = 1..Len(seq) /\ \A i \in 1..Len(seq) : seq[i] \in Int
         /\ ToSet(seq) = Seen(seq, Len(seq))
         /\ \A x : Times(seq, x) = Often(seq, Len(seq), x)
BY ElementOfSeq, LenProperties DEF ToSet, Seen, Times, Often

(* update_exact_value (lta_op.h:371), for every series of samples: the     *)
(* single values are those that occurred once, the others have their       *)
(* numbers, and the count, the sum and the bounds are those of the series. *)
THEOREM ExactIsRight == \A samples \in Seq(Int) : ExactAgrees(samples)
<1> SUFFICES ASSUME NEW samples \in Seq(Int) PROVE ExactAgrees(samples)
  OBVIOUS
<1> DEFINE n == Len(samples)
           e == FoldLeft(ExactWith, NoExact, samples)
<1>1. /\ n \in Nat /\ DOMAIN samples = 1..n /\ (\A i \in 1..n : samples[i] \in Int)
      /\ ToSet(samples) = Seen(samples, n) /\ \A x : Times(samples, x) = Often(samples, n, x)
  BY SeriesIs
<1> HIDE DEF n
<1>2. e = Fold("exact", <<>>, NoExact, samples, 1..n)
  BY <1>1, FoldsAre
<1>3. PICK r : Steps(r, "exact", <<>>, NoExact, samples, n) /\ r[n] = e
  BY <1>1, <1>2, FoldSteps
<1> HIDE DEF e
<1> DEFINE C == {k \in Nat : k <= n => ExactAt(r[k], samples, k)}
<1>4. 0 \in C
  <2>1. r[0] = NoExact
    BY <1>3 DEF Steps
  <2>2. Seen(samples, 0) = {}
    BY SeenMore
  <2>3. NoExact.multiple = [v \in {} |-> Often(samples, 0, v)]
    BY DEF NoExact, EmptyBag, SetToBag
  <2>4. /\ {x \in {} : Often(samples, 0, x) >= 2} = {} /\ {v \in {} : Often(samples, 0, v) = 1} = {}
        /\ NoExact.single = {} /\ NoExact.all = Summary
    BY DEF NoExact
  <2> QED  BY <2>1, <2>2, <2>3, <2>4, SumsNone DEF ExactAt
<1>5. ASSUME NEW k \in Nat, k \in C PROVE k + 1 \in C
  <2> SUFFICES ASSUME k + 1 <= n PROVE ExactAt(r[k + 1], samples, k + 1)
    OBVIOUS
  <2>1. ExactAt(r[k], samples, k) /\ k \in 0..n - 1
    BY <1>1, <1>5
  <2>2. r[k + 1] = With("exact", r[k], samples[k + 1], <<>>)
    <3>1. k + 1 \in 1..n /\ (k + 1) - 1 = k
      BY <1>1
    <3> QED  BY <1>3, <3>1 DEF Steps
  <2>3. r[k + 1] = ExactWith(r[k], samples[k + 1])
    BY <2>2 DEF With
  <2> QED  BY <1>1, <2>1, <2>3, ExactMore
<1>6. \A k \in Nat : k \in C
  <2>1. \A k \in Nat : k \in C => k + 1 \in C
    BY <1>5
  <2> HIDE DEF C
  <2> QED  BY <1>4, <2>1, NatSetInduction
<1>7. ExactAt(e, samples, n)
  BY <1>1, <1>3, <1>6
<1>8. SummaryAgrees(e.all, samples)
  BY <1>7, SumsAgree DEF ExactAt, n
<1>9. e.single = {v \in ToSet(samples) : Times(samples, v) = 1}
  BY <1>1, <1>7 DEF ExactAt
<1>10. {x \in Seen(samples, n) : Often(samples, n, x) >= 2} = ToSet(samples) \ e.single
  <2>1. ASSUME NEW x PROVE Often(samples, n, x) \in Nat /\ (Often(samples, n, x) = 0 <=> x \notin Seen(samples, n))
    BY <1>1, OftenMore
  <2>2. e.single = {v \in Seen(samples, n) : Often(samples, n, v) = 1} /\ ToSet(samples) = Seen(samples, n)
    BY <1>1, <1>7 DEF ExactAt
  <2>3. ASSUME NEW x \in Seen(samples, n) PROVE Often(samples, n, x) >= 2 <=> Often(samples, n, x) # 1
    BY <2>1
  <2> QED  BY <2>2, <2>3
<1>11. e.multiple = [v \in ToSet(samples) \ e.single |-> Times(samples, v)]
  BY <1>1, <1>7, <1>10 DEF ExactAt
<1> QED  BY <1>8, <1>9, <1>11 DEF ExactAgrees, e

(* update_value_range (lta_op.h:459), for every series of samples: no      *)
(* sample is lost in the buckets, no bucket is out of the bounds, there    *)
(* are fewer than MaxBuckets of them, and the count, the sum and the       *)
(* bounds are those of the series.                                         *)
THEOREM RangeIsRight == \A samples \in Seq(Int) : RangeAgrees(samples)
<1> SUFFICES ASSUME NEW samples \in Seq(Int) PROVE RangeAgrees(samples)
  OBVIOUS
<1> DEFINE n == Len(samples)
           e == FoldLeft(RangeWith, NoRange, samples)
<1>1. n \in Nat /\ DOMAIN samples = 1..n /\ \A i \in 1..n : samples[i] \in Int
  BY SeriesIs
<1> HIDE DEF n
<1>2. e = Fold("range", <<>>, NoRange, samples, 1..n)
  BY <1>1, FoldsAre
<1>3. PICK r : Steps(r, "range", <<>>, NoRange, samples, n) /\ r[n] = e
  BY <1>1, <1>2, FoldSteps
<1> HIDE DEF e
<1> DEFINE C == {k \in Nat : k <= n => Summed(r[k].all, samples, k) /\ RangeOK(r[k])}
<1>4. 0 \in C
  <2>1. r[0] = NoRange /\ NoRange.all = Summary
    BY <1>3 DEF Steps, NoRange
  <2>2. RangeOK(NoRange)
    BY NoRangeOK
  <2> QED  BY <2>1, <2>2, SumsNone
<1>5. ASSUME NEW k \in Nat, k \in C PROVE k + 1 \in C
  <2> SUFFICES ASSUME k + 1 <= n PROVE Summed(r[k + 1].all, samples, k + 1) /\ RangeOK(r[k + 1])
    OBVIOUS
  <2>1. Summed(r[k].all, samples, k) /\ RangeOK(r[k]) /\ k \in 0..n - 1 /\ k + 1 \in 1..n /\ (k + 1) - 1 = k
    BY <1>1, <1>5
  <2>2. r[k + 1] = With("range", r[k], samples[k + 1], <<>>)
    BY <1>3, <2>1 DEF Steps
  <2>3. r[k + 1] = RangeWith(r[k], samples[k + 1])
    BY <2>2 DEF With
  <2>4. RangeWith(r[k], samples[k + 1]).all = SummaryWith(r[k].all, samples[k + 1])
    BY DEF RangeWith
  <2>5. samples[k + 1] \in Int
    BY <1>1, <2>1
  <2>6. RangeOK(RangeWith(r[k], samples[k + 1]))
    BY <2>1, <2>5, RangeGrows
  <2>7. Summed(SummaryWith(r[k].all, samples[k + 1]), samples, k + 1)
    BY <1>1, <2>1, SumsMore
  <2> QED  BY <2>3, <2>4, <2>6, <2>7
<1>6. \A k \in Nat : k \in C
  <2>1. \A k \in Nat : k \in C => k + 1 \in C
    BY <1>5
  <2> HIDE DEF C
  <2> QED  BY <1>4, <2>1, NatSetInduction
<1>7. Summed(e.all, samples, n) /\ RangeOK(e)
  BY <1>1, <1>3, <1>6
<1>8. SummaryAgrees(e.all, samples)
  BY <1>7, SumsAgree DEF n
<1> QED  BY <1>7, <1>8 DEF RangeAgrees, e, RangeOK
-----------------------------------------------------------------------------
(* Metrics and times of the profiler.                                      *)

(* The sample number i is the first, or the last, of the first k with the  *)
(* value v, and info is where it was measured.                              *)
FirstAt(seq, k, v, i) == i \in 1..k /\ seq[i] = v /\ \A j \in 1..k : seq[j] = v => i <= j
LastAt(seq, k, v, i) == i \in 1..k /\ seq[i] = v /\ \A j \in 1..k : seq[j] = v => j <= i
FirstOf(seq, measures, k, v, info) == \E i \in 1..k : FirstAt(seq, k, v, i) /\ info = measures[i][2]
LastOf(seq, measures, k, v, info) == \E i \in 1..k : LastAt(seq, k, v, i) /\ info = measures[i][2]

Earliest(seq, measures, v) ==
  LET At == {i \in DOMAIN seq : seq[i] = v} IN measures[CHOOSE i \in At : \A j \in At : i <= j][2]
Latest(seq, measures, v) ==
  LET At == {i \in DOMAIN seq : seq[i] = v} IN measures[CHOOSE i \in At : \A j \in At : j <= i][2]
InBucket(k, ms) ==
  /\ k > 1 => PerfSizes[k - 1] <= ms
  /\ k <= Len(PerfSizes) => ms < PerfSizes[k]

LEMMA FirstMore ==
  ASSUME NEW seq, NEW measures, NEW k \in Nat, NEW v
  PROVE  /\ \A info : FirstOf(seq, measures, k, v, info) => FirstOf(seq, measures, k + 1, v, info)
         /\ v \notin Seen(seq, k) /\ seq[k + 1] = v => FirstOf(seq, measures, k + 1, v, measures[k + 1][2])
<1>1. 1..k + 1 = (1..k) \cup {k + 1}
  OBVIOUS
<1>2. ASSUME NEW i \in 1..k, FirstAt(seq, k, v, i) PROVE i \in 1..k + 1 /\ FirstAt(seq, k + 1, v, i)
  BY <1>1, <1>2 DEF FirstAt
<1>3. ASSUME v \notin Seen(seq, k), seq[k + 1] = v PROVE k + 1 \in 1..k + 1 /\ FirstAt(seq, k + 1, v, k + 1)
  BY <1>1, <1>3 DEF FirstAt, Seen
<1>4. ASSUME NEW info, FirstOf(seq, measures, k, v, info) PROVE FirstOf(seq, measures, k + 1, v, info)
  BY <1>2, <1>4 DEF FirstOf
<1>5. v \notin Seen(seq, k) /\ seq[k + 1] = v => FirstOf(seq, measures, k + 1, v, measures[k + 1][2])
  BY <1>3 DEF FirstOf
<1> QED  BY <1>4, <1>5

LEMMA LastMore ==
  ASSUME NEW seq, NEW measures, NEW k \in Nat, NEW v
  PROVE  /\ \A info : seq[k + 1] # v /\ LastOf(seq, measures, k, v, info) => LastOf(seq, measures, k + 1, v, info)
         /\ seq[k + 1] = v => LastOf(seq, measures, k + 1, v, measures[k + 1][2])
<1>1. 1..k + 1 = (1..k) \cup {k + 1}
  OBVIOUS
<1>2. ASSUME NEW i \in 1..k, LastAt(seq, k, v, i), seq[k + 1] # v PROVE i \in 1..k + 1 /\ LastAt(seq, k + 1, v, i)
  BY <1>1, <1>2 DEF LastAt
<1>3. ASSUME seq[k + 1] = v PROVE k + 1 \in 1..k + 1 /\ LastAt(seq, k + 1, v, k + 1)
  BY <1>1, <1>3 DEF LastAt
<1>4. ASSUME NEW info, seq[k + 1] # v, LastOf(seq, measures, k, v, info) PROVE LastOf(seq, measures, k + 1, v, info)
  BY <1>2, <1>4 DEF LastOf
<1>5. seq[k + 1] = v => LastOf(seq, measures, k + 1, v, measures[k + 1][2])
  BY <1>3 DEF LastOf
<1> QED  BY <1>4, <1>5

LEMMA FirstIs ==
  ASSUME NEW seq, NEW measures, NEW k \in Nat, NEW v, NEW info, FirstOf(seq, measures, k, v, info),
         DOMAIN seq = 1..k
  PROVE  info = Earliest(seq, measures, v)
<1> DEFINE S == {i \in DOMAIN seq : seq[i] = v}
<1>1. PICK n \in 1..k : FirstAt(seq, k, v, n) /\ info = measures[n][2]
  BY DEF FirstOf
<1>2. n \in S /\ \A j \in S : n <= j
  BY <1>1 DEF FirstAt
<1>3. \A i \in S : (\A j \in S : i <= j) => i = n
  BY <1>2
<1>4. (CHOOSE i \in S : \A j \in S : i <= j) = n
  BY <1>2, <1>3
<1> QED  BY <1>1, <1>4 DEF Earliest

LEMMA LastIs ==
  ASSUME NEW seq, NEW measures, NEW k \in Nat, NEW v, NEW info, LastOf(seq, measures, k, v, info),
         DOMAIN seq = 1..k
  PROVE  info = Latest(seq, measures, v)
<1> DEFINE S == {i \in DOMAIN seq : seq[i] = v}
<1>1. PICK n \in 1..k : LastAt(seq, k, v, n) /\ info = measures[n][2]
  BY DEF LastOf
<1>2. n \in S /\ \A j \in S : j <= n
  BY <1>1 DEF LastAt
<1>3. \A i \in S : (\A j \in S : j <= i) => i = n
  BY <1>2
<1>4. (CHOOSE i \in S : \A j \in S : j <= i) = n
  BY <1>2, <1>3
<1> QED  BY <1>1, <1>4 DEF Latest

(* The bounds of a summary with one sample more. *)
LEMMA BoundsMore ==
  ASSUME NEW seq, NEW n \in Nat, \A i \in 1..n : seq[i] \in Int, NEW k \in 0..n - 1,
         NEW s, Summed(s, seq, k), NEW t, t = SummaryWith(s, seq[k + 1])
  PROVE  /\ Summed(t, seq, k + 1)
         /\ s.count = k /\ s.min \in Int /\ s.max \in Int /\ seq[k + 1] \in Int
         /\ t.min = (IF k = 0 THEN seq[k + 1] ELSE Least(s.min, seq[k + 1]))
         /\ t.max = (IF k = 0 THEN seq[k + 1] ELSE Greatest(s.max, seq[k + 1]))
         /\ k > 0 => s.min <= s.max
         /\ \A v \in Seen(seq, k) : k > 0 /\ s.min <= v /\ v <= s.max
<1>1. Summed(t, seq, k + 1) /\ s.count = k /\ Bounds(s, Seen(seq, k))
  BY SumsMore DEF Summed
<1>2. t.min = (IF k = 0 THEN seq[k + 1] ELSE Least(s.min, seq[k + 1]))
      /\ t.max = (IF k = 0 THEN seq[k + 1] ELSE Greatest(s.max, seq[k + 1]))
  BY <1>1 DEF SummaryWith
<1>3. s.min \in Int /\ s.max \in Int
  BY <1>1 DEF Bounds, SomeSummary
<1>4. seq[k + 1] \in Int
  OBVIOUS
<1>5. k = 0 => Seen(seq, k) = {}
  BY SeenMore
<1>6. k # 0 => Seen(seq, k) # {}
  BY <1>1 DEF Bounds
<1>7. \A v \in Seen(seq, k) : s.min <= v /\ v <= s.max
  BY <1>1 DEF Bounds
<1>8. k # 0 => s.min <= s.max
  BY <1>1, <1>3, <1>6, <1>7 DEF Bounds
<1> QED  BY <1>1, <1>2, <1>3, <1>4, <1>5, <1>7, <1>8

(* What a metric says of the first k measures. *)
MetricAt(m, seq, measures, k) ==
  /\ Summed(m.range.all, seq, k)
  /\ k > 0 => /\ FirstOf(seq, measures, k, m.range.all.min, m.minInfo)
              /\ FirstOf(seq, measures, k, m.range.all.max, m.maxInfo)

LEMMA MetricMore ==
  ASSUME NEW seq, NEW n \in Nat, \A i \in 1..n : seq[i] \in Int, NEW measures, NEW k \in 0..n - 1,
         NEW m, MetricAt(m, seq, measures, k)
  PROVE  MetricAt(MetricWith(m, seq[k + 1], measures[k + 1][2]), seq, measures, k + 1)
<1> DEFINE v == seq[k + 1]
           info == measures[k + 1][2]
           f == MetricWith(m, v, info)
           old == m.range.all
           new == f.range.all
           changed == old.count = 0 \/ v < old.min \/ v > old.max
<1>1. new = SummaryWith(old, v)
  BY DEF MetricWith, RangeWith
<1>2. /\ f.minInfo = (IF changed /\ new.min = v THEN info ELSE m.minInfo)
      /\ f.maxInfo = (IF changed /\ new.max = v THEN info ELSE m.maxInfo)
  BY DEF MetricWith
<1>3. Summed(old, seq, k) /\ k \in Nat
  BY DEF MetricAt
<1>4. k > 0 => FirstOf(seq, measures, k, old.min, m.minInfo) /\ FirstOf(seq, measures, k, old.max, m.maxInfo)
  BY DEF MetricAt
<1> HIDE DEF new, f, old
<1>5. /\ Summed(new, seq, k + 1)
      /\ old.count = k /\ old.min \in Int /\ old.max \in Int /\ v \in Int
      /\ new.min = (IF k = 0 THEN v ELSE Least(old.min, v))
      /\ new.max = (IF k = 0 THEN v ELSE Greatest(old.max, v))
      /\ k > 0 => old.min <= old.max
      /\ \A x \in Seen(seq, k) : k > 0 /\ old.min <= x /\ x <= old.max
  BY <1>1, <1>3, BoundsMore
<1>6. \/ v \notin Seen(seq, k) /\ new.min = v /\ f.minInfo = info
      \/ k > 0 /\ new.min = old.min /\ f.minInfo = m.minInfo
  BY <1>2, <1>3, <1>5 DEF Least
<1>7. \/ v \notin Seen(seq, k) /\ new.max = v /\ f.maxInfo = info
      \/ k > 0 /\ new.max = old.max /\ f.maxInfo = m.maxInfo
  BY <1>2, <1>3, <1>5 DEF Greatest
<1>8. FirstOf(seq, measures, k + 1, new.min, f.minInfo)
  BY <1>3, <1>4, <1>6, FirstMore
<1>9. FirstOf(seq, measures, k + 1, new.max, f.maxInfo)
  BY <1>3, <1>4, <1>7, FirstMore
<1> QED  BY <1>5, <1>8, <1>9 DEF MetricAt, f, v, info, new

(* What the times of the profiler say of the first k measures; in is the   *)
(* bucket of each.                                                         *)
PerfAt(p, seq, measures, in, k) ==
  /\ Summed(p.all, seq, k)
  /\ k > 0 => /\ LastOf(seq, measures, k, p.all.min, p.minInfo)
              /\ LastOf(seq, measures, k, p.all.max, p.maxInfo)
  /\ DOMAIN p.hist = Seen(in, k) /\ IsFiniteSet(Seen(in, k))
  /\ \A x \in Seen(in, k) : p.hist[x] = Often(in, k, x)
  /\ SumFunction(p.hist) = k

LEMMA HistMore ==
  ASSUME NEW in, NEW k \in Nat, NEW hist, DOMAIN hist = Seen(in, k), IsFiniteSet(Seen(in, k)),
         \A x \in Seen(in, k) : hist[x] = Often(in, k, x), SumFunction(hist) = k,
         NEW more, more = hist (+) SetToBag({in[k + 1]})
  PROVE  /\ DOMAIN more = Seen(in, k + 1) /\ IsFiniteSet(Seen(in, k + 1))
         /\ \A x \in Seen(in, k + 1) : more[x] = Often(in, k + 1, x)
         /\ SumFunction(more) = k + 1
<1> DEFINE y == in[k + 1]
           D == Seen(in, k)
           U == Seen(in, k + 1)
           was(x) == Often(in, k, x)
           is(x) == Often(in, k + 1, x)
<1>1. U = D \cup {y} /\ \A x : was(x) \in Nat /\ is(x) = was(x) + (IF y = x THEN 1 ELSE 0) /\ (was(x) = 0 <=> x \notin D)
  BY SeenMore, OftenMore
<1>2. DOMAIN more = DOMAIN hist \cup {y}
  BY DEF SetToBag, (+)
<1>3. \A x \in DOMAIN more : more[x] = (IF x \in DOMAIN hist THEN hist[x] ELSE 0) + (IF x = y THEN 1 ELSE 0)
  BY DEF SetToBag, (+)
<1> HIDE DEF y, D, U, was, is
<1>4. DOMAIN more = U /\ DOMAIN hist = D /\ \A x \in D : hist[x] = was(x)
  BY <1>1, <1>2 DEF D, was
<1>5. \A x \in U : more[x] = is(x)
  BY <1>1, <1>3, <1>4
<1>6. IsFiniteSet(U)
  <2>1. IsFiniteSet(D)
    BY DEF D
  <2> QED  BY <1>1, <2>1, FS_AddElement
<1>7. Raised(D, hist, y, 1, U, more)
  <2>1. y \in D => more[y] = hist[y] + 1
    BY <1>1, <1>3, <1>4
  <2>2. y \notin D => more[y] = 1
    BY <1>1, <1>3, <1>4
  <2>3. \A x \in D : x # y => more[x] = hist[x]
    BY <1>1, <1>3, <1>4
  <2> QED  BY <1>1, <2>1, <2>2, <2>3 DEF Raised
<1>8. Finite(D, hist)
  <2>1. IsFiniteSet(D)
    BY DEF D
  <2>2. \A x \in D : hist[x] \in Int
    BY <1>1, <1>4
  <2> QED  BY <2>1, <2>2 DEF Finite
<1>9. Total(more, U) = Total(hist, D) + 1
  BY <1>7, <1>8, TotalRaised
<1>10. SumFunction(more) = Total(more, U) /\ k = Total(hist, D)
  BY <1>4, SumFunctionIs
<1> QED  BY <1>4, <1>5, <1>6, <1>9, <1>10 DEF U, is

LEMMA PerfMore ==
  ASSUME NEW seq, NEW n \in Nat, \A i \in 1..n : seq[i] \in Int, NEW measures, NEW in,
         \A i \in 1..n : in[i] = HistIndex(seq[i]), NEW k \in 0..n - 1,
         NEW p, PerfAt(p, seq, measures, in, k)
  PROVE  PerfAt(PerfWith(p, seq[k + 1], measures[k + 1][2], NoOp), seq, measures, in, k + 1)
<1> DEFINE v == seq[k + 1]
           info == measures[k + 1][2]
           f == PerfWith(p, v, info, NoOp)
           old == p.all
           new == f.all
<1>1. new = SummaryWith(old, v)
  BY DEF PerfWith
<1>2. /\ f.minInfo = (IF new.min = v THEN info ELSE p.minInfo)
      /\ f.maxInfo = (IF new.max = v THEN info ELSE p.maxInfo)
  BY DEF PerfWith
<1>3. Summed(old, seq, k) /\ k \in Nat
  BY DEF PerfAt
<1>4. k > 0 => LastOf(seq, measures, k, old.min, p.minInfo) /\ LastOf(seq, measures, k, old.max, p.maxInfo)
  BY DEF PerfAt
<1>5. f.hist = p.hist (+) SetToBag({in[k + 1]})
  <2>1. in[k + 1] = HistIndex(v)
    OBVIOUS
  <2> QED  BY <2>1 DEF PerfWith
<1> HIDE DEF new, f, old
<1>6. /\ DOMAIN f.hist = Seen(in, k + 1) /\ IsFiniteSet(Seen(in, k + 1))
      /\ \A x \in Seen(in, k + 1) : f.hist[x] = Often(in, k + 1, x)
      /\ SumFunction(f.hist) = k + 1
  <2>1. /\ DOMAIN p.hist = Seen(in, k) /\ IsFiniteSet(Seen(in, k))
        /\ \A x \in Seen(in, k) : p.hist[x] = Often(in, k, x)
        /\ SumFunction(p.hist) = k
    BY DEF PerfAt
  <2> DEFINE hist == p.hist
             more == f.hist
  <2>2. more = hist (+) SetToBag({in[k + 1]})
    BY <1>5
  <2> HIDE DEF hist, more
  <2>3. /\ DOMAIN hist = Seen(in, k) /\ IsFiniteSet(Seen(in, k))
        /\ \A x \in Seen(in, k) : hist[x] = Often(in, k, x)
        /\ SumFunction(hist) = k
    BY <2>1 DEF hist
  <2>4. /\ DOMAIN more = Seen(in, k + 1) /\ IsFiniteSet(Seen(in, k + 1))
        /\ \A x \in Seen(in, k + 1) : more[x] = Often(in, k + 1, x)
        /\ SumFunction(more) = k + 1
    BY <1>3, <2>2, <2>3, HistMore
  <2> QED  BY <2>4 DEF more
<1>7. /\ Summed(new, seq, k + 1)
      /\ old.count = k /\ old.min \in Int /\ old.max \in Int /\ v \in Int
      /\ new.min = (IF k = 0 THEN v ELSE Least(old.min, v))
      /\ new.max = (IF k = 0 THEN v ELSE Greatest(old.max, v))
  BY <1>1, <1>3, BoundsMore
<1>8. \/ v = new.min /\ f.minInfo = info
      \/ k > 0 /\ new.min = old.min /\ v # new.min /\ f.minInfo = p.minInfo
  BY <1>2, <1>3, <1>7 DEF Least
<1>9. \/ v = new.max /\ f.maxInfo = info
      \/ k > 0 /\ new.max = old.max /\ v # new.max /\ f.maxInfo = p.maxInfo
  BY <1>2, <1>3, <1>7 DEF Greatest
<1>10. LastOf(seq, measures, k + 1, new.min, f.minInfo)
  BY <1>3, <1>4, <1>8, LastMore
<1>11. LastOf(seq, measures, k + 1, new.max, f.maxInfo)
  BY <1>3, <1>4, <1>9, LastMore
<1> QED  BY <1>6, <1>7, <1>10, <1>11 DEF PerfAt, f, v, info, new

LEMMA LeastNumber ==
  ASSUME NEW S, S \subseteq Nat, S # {}
  PROVE  \E x \in S : \A y \in S : x <= y
<1> DEFINE Has == \E x \in S : \A y \in S : x <= y
           C == {n \in Nat : (\E x \in S : x <= n) => Has}
<1>1. 0 \in C
  <2>1. ASSUME NEW x \in S, x <= 0 PROVE \A y \in S : x <= y
    BY <2>1
  <2> QED  BY <2>1
<1>2. ASSUME NEW n \in Nat, n \in C PROVE n + 1 \in C
  <2> SUFFICES ASSUME NEW x \in S, x <= n + 1 PROVE Has
    OBVIOUS
  <2>1. CASE \E z \in S : z <= n
    BY <1>2, <2>1
  <2>2. CASE ~\E z \in S : z <= n
    <3>1. \A y \in S : n + 1 <= y
      BY <2>2
    <3>2. \A y \in S : x <= y
      BY <3>1
    <3> QED  BY <3>2
  <2> QED  BY <2>1, <2>2
<1>3. \A n \in Nat : n \in C
  <2>1. \A n \in Nat : n \in C => n + 1 \in C
    BY <1>2
  <2> HIDE DEF C
  <2> QED  BY <1>1, <2>1, NatSetInduction
<1>4. PICK x : x \in S
  OBVIOUS
<1>5. x \in Nat /\ x <= x
  BY <1>4
<1>6. x \in C
  BY <1>3, <1>5
<1>7. Has
  BY <1>4, <1>5, <1>6
<1> QED  BY <1>7

(* The bucket of a time is the one between two limits. *)
LEMMA HistIs ==
  ASSUME NEW ms \in Int, NEW k
  PROVE  /\ HistIndex(ms) \in 1..Len(PerfSizes) + 1
         /\ k \in 1..Len(PerfSizes) + 1 =>
              (HistIndex(ms) = k <=> InBucket(k, ms))
<1> DEFINE m == Len(PerfSizes)
           S == {i \in DOMAIN PerfSizes : ms < PerfSizes[i]} \cup {m + 1}
           h == HistIndex(ms)
<1>1. /\ m \in Nat /\ DOMAIN PerfSizes = 1..m /\ \A i \in 1..m : PerfSizes[i] \in Int
      /\ \A i, j \in 1..m : i < j => PerfSizes[i] < PerfSizes[j]
  BY StatisticsAssumption
<1>2. S \in SUBSET Nat /\ S # {}
  BY <1>1
<1>3. h = Min(S)
  BY DEF HistIndex
<1>4. h \in S /\ \A j \in S : h <= j
  <2> HIDE DEF S
  <2>1. PICK x \in S : \A j \in S : x <= j
    <3>1. S \subseteq Nat /\ S # {}
      BY <1>2
    <3> QED  BY <3>1, LeastNumber
  <2> QED  BY <1>3, <2>1 DEF Min
<1> HIDE DEF h, m
<1>5. h \in 1..m + 1
  BY <1>1, <1>4
<1>6. \A i \in 1..m : i < h => PerfSizes[i] <= ms
  BY <1>1, <1>4, <1>5
<1>7. h <= m => ms < PerfSizes[h]
  BY <1>1, <1>4
<1>8. ASSUME k \in 1..m + 1, h = k PROVE (k > 1 => PerfSizes[k - 1] <= ms) /\ (k <= m => ms < PerfSizes[k])
  <2> HIDE DEF S
  <2>1. ASSUME k > 1 PROVE PerfSizes[k - 1] <= ms
    <3>1. k - 1 \in 1..m /\ k - 1 < h
      BY <1>1, <1>8, <2>1
    <3> QED  BY <1>6, <3>1
  <2> QED  BY <1>7, <1>8, <2>1
<1>9. ASSUME k \in 1..m + 1, k > 1 => PerfSizes[k - 1] <= ms, k <= m => ms < PerfSizes[k] PROVE h = k
  <2>1. h <= k
    <3>1. k \in S
      BY <1>1, <1>9
    <3> QED  BY <1>4, <3>1
  <2>2. ASSUME h < k PROVE FALSE
    <3>1. k > 1 /\ k - 1 \in 1..m /\ h \in 1..m /\ PerfSizes[k - 1] <= ms /\ h <= k - 1
      BY <1>1, <1>5, <1>9, <2>2
    <3>2. PerfSizes[h] <= PerfSizes[k - 1]
      BY <1>1, <3>1
    <3> QED  BY <1>1, <1>7, <3>1, <3>2
  <2> QED  BY <1>5, <1>9, <2>1, <2>2
<1> QED  BY <1>5, <1>8, <1>9 DEF h, m, InBucket

(* update_perf_metric (lta_op.h:674) and add_perf_data (lta_op.h:793), for *)
(* every series of measures.                                               *)
THEOREM MeasuresAreRight == \A measures \in Seq(Int \X Machines) : MeasuresAgree(measures)
<1> SUFFICES ASSUME NEW measures \in Seq(Int \X Machines) PROVE MeasuresAgree(measures)
  OBVIOUS
<1> DEFINE n == Len(measures)
           seq == [i \in DOMAIN measures |-> measures[i][1]]
           in == [i \in DOMAIN measures |-> HistIndex(measures[i][1])]
           metric == FoldLeft(LAMBDA m, x : MetricWith(m, x[1], x[2]), NoMetric, measures)
           perf == FoldLeft(LAMBDA p, x : PerfWith(p, x[1], x[2], NoOp), NoPerf, measures)
<1>1. /\ n \in Nat /\ DOMAIN measures = 1..n /\ DOMAIN seq = 1..n
      /\ \A i \in 1..n : /\ measures[i][1] = seq[i]
                         /\ seq[i] \in Int /\ in[i] = HistIndex(seq[i])
  <2>1. n \in Nat /\ DOMAIN measures = 1..n
    BY LenProperties
  <2>2. \A i \in 1..n : measures[i] \in Int \X Machines
    BY <2>1, ElementOfSeq
  <2> QED  BY <2>1, <2>2
<1>2. seq \in Seq(Int) /\ Len(seq) = n
  <2>1. seq \in [1..n -> Int]
    BY <1>1
  <2> QED  BY <1>1, <2>1
<1>3. metric = Fold("metric", <<>>, NoMetric, measures, 1..n) /\ perf = Fold("perf", <<>>, NoPerf, measures, 1..n)
  <2> HIDE DEF n, metric, perf
  <2>1. metric = Fold("metric", <<>>, NoMetric, measures, 1..n)
    BY <1>1, FoldsAre DEF metric
  <2>2. perf = Fold("perf", <<>>, NoPerf, measures, 1..n)
    BY <1>1, FoldsAre DEF perf
  <2> QED  BY <2>1, <2>2
<1> HIDE DEF n, seq, in, metric, perf
<1>4. PICK r : Steps(r, "metric", <<>>, NoMetric, measures, n) /\ r[n] = metric
  BY <1>1, <1>3, FoldSteps
<1>5. PICK t : Steps(t, "perf", <<>>, NoPerf, measures, n) /\ t[n] = perf
  BY <1>1, <1>3, FoldSteps
<1> DEFINE C == {k \in Nat : k <= n => MetricAt(r[k], seq, measures, k) /\ PerfAt(t[k], seq, measures, in, k)}
<1>6. 0 \in C
  <2>1. r[0] = NoMetric /\ NoMetric.range.all = Summary
    BY <1>4 DEF Steps, NoMetric, NoRange
  <2>2. t[0] = NoPerf /\ NoPerf.all = Summary /\ NoPerf.hist = EmptyBag
    BY <1>5 DEF Steps, NoPerf
  <2>3. Summed(Summary, seq, 0)
    BY SumsNone
  <2>4. Seen(in, 0) = {}
    BY SeenMore
  <2>5. DOMAIN EmptyBag = {} /\ IsFiniteSet({})
    BY FS_EmptySet DEF EmptyBag, SetToBag
  <2>6. SumFunction(EmptyBag) = 0
    BY <2>5, SumFunctionIs, TotalEmpty
  <2>7. MetricAt(r[0], seq, measures, 0)
    BY <2>1, <2>3 DEF MetricAt
  <2>8. PerfAt(t[0], seq, measures, in, 0)
    <3> DEFINE p == t[0]
    <3>1. /\ Summed(p.all, seq, 0) /\ DOMAIN p.hist = {} /\ SumFunction(p.hist) = 0
      BY <2>2, <2>3, <2>5, <2>6
    <3> HIDE DEF p
    <3>2. PerfAt(p, seq, measures, in, 0)
      <4>1. ~(0 > 0)
        OBVIOUS
      <4> QED  BY <2>4, <2>5, <3>1, <4>1 DEF PerfAt
    <3> QED  BY <3>2 DEF p
  <2> QED  BY <2>7, <2>8
<1>7. ASSUME NEW k \in Nat, k \in C PROVE k + 1 \in C
  <2> SUFFICES ASSUME k + 1 <= n PROVE MetricAt(r[k + 1], seq, measures, k + 1) /\ PerfAt(t[k + 1], seq, measures, in, k + 1)
    OBVIOUS
  <2>1. MetricAt(r[k], seq, measures, k) /\ PerfAt(t[k], seq, measures, in, k) /\ k \in 0..n - 1 /\ k + 1 \in 1..n /\ (k + 1) - 1 = k
    BY <1>1, <1>7
  <2>2. measures[k + 1][1] = seq[k + 1]
    BY <1>1, <2>1
  <2>3. r[k + 1] = With("metric", r[k], measures[k + 1], <<>>)
    BY <1>4, <2>1 DEF Steps
  <2>4. r[k + 1] = MetricWith(r[k], seq[k + 1], measures[k + 1][2])
    BY <2>2, <2>3 DEF With
  <2>5. t[k + 1] = With("perf", t[k], measures[k + 1], <<>>)
    BY <1>5, <2>1 DEF Steps
  <2>6. t[k + 1] = PerfWith(t[k], seq[k + 1], measures[k + 1][2], NoOp)
    BY <2>2, <2>5 DEF With
  <2>7. \A i \in 1..n : seq[i] \in Int
    BY <1>1
  <2>8. \A i \in 1..n : in[i] = HistIndex(seq[i])
    BY <1>1
  <2>9. MetricAt(r[k + 1], seq, measures, k + 1)
    <3> DEFINE m == r[k]
    <3>1. MetricAt(m, seq, measures, k)
      BY <2>1
    <3> HIDE DEF m
    <3>2. MetricAt(MetricWith(m, seq[k + 1], measures[k + 1][2]), seq, measures, k + 1)
      BY <1>1, <2>1, <2>7, <3>1, MetricMore
    <3> QED  BY <2>4, <3>2 DEF m
  <2>10. PerfAt(t[k + 1], seq, measures, in, k + 1)
    <3> DEFINE p == t[k]
    <3>1. PerfAt(p, seq, measures, in, k)
      BY <2>1
    <3> HIDE DEF p
    <3>2. PerfAt(PerfWith(p, seq[k + 1], measures[k + 1][2], NoOp), seq, measures, in, k + 1)
      BY <1>1, <2>1, <2>7, <2>8, <3>1, PerfMore
    <3> QED  BY <2>6, <3>2 DEF p
  <2> QED  BY <2>9, <2>10
<1>8. \A k \in Nat : k \in C
  <2>1. \A k \in Nat : k \in C => k + 1 \in C
    BY <1>7
  <2> HIDE DEF C
  <2> QED  BY <1>6, <2>1, NatSetInduction
<1>9. MetricAt(metric, seq, measures, n) /\ PerfAt(perf, seq, measures, in, n)
  BY <1>1, <1>4, <1>5, <1>8
<1>10. SummaryAgrees(metric.range.all, seq) /\ SummaryAgrees(perf.all, seq)
  BY <1>2, <1>9, SumsAgree DEF MetricAt, PerfAt
<1>11. SumFunction(perf.hist) = Len(seq)
  BY <1>2, <1>9 DEF PerfAt
<1>12. ASSUME NEW k \in DOMAIN perf.hist
       PROVE  perf.hist[k] = Cardinality({i \in DOMAIN seq : InBucket(k, seq[i])})
  <2>1. k \in Seen(in, n) /\ perf.hist[k] = Often(in, n, k)
    BY <1>9 DEF PerfAt
  <2>2. \A i \in 1..n : seq[i] \in Int /\ in[i] = HistIndex(seq[i])
    BY <1>1
  <2>3. k \in 1..Len(PerfSizes) + 1
    <3>1. PICK i \in 1..n : k = in[i]
      BY <2>1 DEF Seen
    <3>2. seq[i] \in Int /\ k = HistIndex(seq[i])
      BY <2>2, <3>1
    <3> QED  BY <3>2, HistIs
  <2>4. ASSUME NEW i \in 1..n PROVE in[i] = k <=> InBucket(k, seq[i])
    <3> DEFINE ms == seq[i]
    <3>1. ms \in Int /\ in[i] = HistIndex(ms)
      BY <2>2
    <3> HIDE DEF ms
    <3>2. HistIndex(ms) = k <=> InBucket(k, ms)
      BY <2>3, <3>1, HistIs
    <3> QED  BY <3>1, <3>2 DEF ms
  <2>5. {i \in 1..n : in[i] = k} = {i \in DOMAIN seq : InBucket(k, seq[i])}
    BY <1>1, <2>4
  <2> QED  BY <2>1, <2>5 DEF Often
<1>13. ASSUME measures # <<>>
       PROVE  /\ metric.minInfo = Earliest(seq, measures, metric.range.all.min)
              /\ metric.maxInfo = Earliest(seq, measures, metric.range.all.max)
              /\ perf.minInfo = Latest(seq, measures, perf.all.min)
              /\ perf.maxInfo = Latest(seq, measures, perf.all.max)
  <2>1. n > 0
    BY <1>1, <1>13 DEF n
  <2>2. DOMAIN seq = 1..n
    BY <1>1
  <2>3. /\ FirstOf(seq, measures, n, metric.range.all.min, metric.minInfo)
        /\ FirstOf(seq, measures, n, metric.range.all.max, metric.maxInfo)
        /\ LastOf(seq, measures, n, perf.all.min, perf.minInfo)
        /\ LastOf(seq, measures, n, perf.all.max, perf.maxInfo)
    BY <1>9, <2>1 DEF MetricAt, PerfAt
  <2>4. \A v, info : FirstOf(seq, measures, n, v, info) => info = Earliest(seq, measures, v)
    BY <1>1, <2>2, FirstIs
  <2>5. \A v, info : LastOf(seq, measures, n, v, info) => info = Latest(seq, measures, v)
    BY <1>1, <2>2, LastIs
  <2> QED  BY <2>3, <2>4, <2>5
<1> QED  BY <1>10, <1>11, <1>12, <1>13 DEF MeasuresAgree, seq, metric, perf, InBucket, Earliest, Latest
-----------------------------------------------------------------------------
(* Days.                                                                   *)

(* How often each of the first k days was told of. *)
ToldOf(seq, k) == [d \in Seen(seq, k) |-> Often(seq, k, d)]

LEMMA ToldMore ==
  ASSUME NEW seq, NEW k \in Nat
  PROVE  Plus(ToldOf(seq, k), {seq[k + 1]}) = ToldOf(seq, k + 1)
<1> DEFINE y == seq[k + 1]
           D == Seen(seq, k)
           U == Seen(seq, k + 1)
           was(x) == Often(seq, k, x)
           is(x) == Often(seq, k + 1, x)
           bag == [x \in D |-> was(x)]
           more == [x \in U |-> is(x)]
           one == SetToBag({y})
<1>1. U = D \cup {y} /\ \A x : was(x) \in Nat /\ is(x) = was(x) + (IF y = x THEN 1 ELSE 0) /\ (was(x) = 0 <=> x \notin D)
  <2>1. U = D \cup {y}
    BY SeenMore
  <2>2. ASSUME NEW x PROVE was(x) \in Nat /\ is(x) = was(x) + (IF y = x THEN 1 ELSE 0) /\ (was(x) = 0 <=> x \notin D)
    BY OftenMore
  <2> HIDE DEF y, D, U, was, is
  <2> QED  BY <2>1, <2>2
<1> HIDE DEF y, D, U, was, is
<1>2. DOMAIN one = {y} /\ \A x \in {y} : one[x] = 1
  BY DEF SetToBag
<1>3. Plus(bag, {y}) = [x \in D \cup {y} |-> (IF x \in D THEN bag[x] ELSE 0) + (IF x \in {y} THEN one[x] ELSE 0)]
  BY <1>2 DEF Plus, (+)
<1>4. ASSUME NEW x \in D \cup {y}
      PROVE  (IF x \in D THEN bag[x] ELSE 0) + (IF x \in {y} THEN one[x] ELSE 0) = is(x)
  <2>1. (IF x \in D THEN bag[x] ELSE 0) = was(x)
    BY <1>1
  <2>2. (IF x \in {y} THEN one[x] ELSE 0) = IF y = x THEN 1 ELSE 0
    BY <1>2
  <2> QED  BY <1>1, <2>1, <2>2
<1>5. Plus(bag, {y}) = more
  BY <1>1, <1>3, <1>4
<1> QED  BY <1>5 DEF ToldOf, y, D, U, was, is

(* What a series of days says, in the words of DaysAgree. *)
LEMMA TellAgrees ==
  ASSUME NEW days, NEW bag, DaysTell(days, bag)
  PROVE  /\ \A i \in DOMAIN days.count : days.count[i] <= Copies(bag, days.first + i - 1)
         /\ Near(bag) => \A d \in DOMAIN bag : DayFound(days, d) /\ days.count[d - days.first + 1] = bag[d]
<1>1. SomeDays(days) /\ days.first \in Nat /\ days.count \in Seq(Nat) /\ IsTable(bag, Nat)
  BY DEF DaysTell, SomeDays
<1>2. ASSUME NEW i \in DOMAIN days.count PROVE days.count[i] <= Copies(bag, days.first + i - 1)
  <2> DEFINE d == days.first + i - 1
  <2>1. i \in 1..Len(days.count) /\ i \in Int
    BY <1>1
  <2>2. d \in Int /\ d - days.first + 1 = i
    BY <1>1, <2>1
  <2>3. Told(days, d) = days.count[i]
    BY <2>1, <2>2 DEF Told, Tally
  <2>4. Told(days, d) <= Copies(bag, d)
    BY <2>2 DEF DaysTell
  <2> QED  BY <2>3, <2>4
<1>3. ASSUME Near(bag), NEW d \in DOMAIN bag PROVE DayFound(days, d) /\ days.count[d - days.first + 1] = bag[d]
  <2>1. d \in Int /\ DayFound(days, d) /\ Told(days, d) = bag[d]
    BY <1>1, <1>3 DEF DaysTell, IsTable
  <2>2. d - days.first + 1 \in 1..Len(days.count)
    BY <1>1, <2>1 DEF DayFound
  <2> QED  BY <2>1, <2>2 DEF Told, Tally
<1> QED  BY <1>2, <1>3

(* The days of ltanalyze.cpp:346, for every series of days on which logs   *)
(* were started.                                                           *)
THEOREM DaysAreCounted == \A started \in Seq(Nat) : DaysAgree(started)
<1> SUFFICES ASSUME NEW started \in Seq(Nat) PROVE DaysAgree(started)
  OBVIOUS
<1> DEFINE n == Len(started)
           days == FoldLeft(DaysWith, NoDays, started)
<1>1. /\ n \in Nat /\ DOMAIN started = 1..n /\ \A i \in 1..n : started[i] \in Nat
      /\ ToSet(started) = Seen(started, n)
      /\ \A x : Times(started, x) = Often(started, n, x)
  BY ElementOfSeq, LenProperties DEF ToSet, Seen, Times, Often
<1> HIDE DEF n
<1>2. days = Fold("days", <<>>, NoDays, started, 1..n)
  BY <1>1, FoldsAre
<1>3. PICK r : Steps(r, "days", <<>>, NoDays, started, n) /\ r[n] = days
  BY <1>1, <1>2, FoldSteps
<1> HIDE DEF days
<1> DEFINE C == {k \in Nat : k <= n => DaysTell(r[k], ToldOf(started, k))}
<1>4. 0 \in C
  <2>1. r[0] = NoAnalysis.days
    BY <1>3 DEF Steps, NoAnalysis
  <2>2. ToldOf(started, 0) = NothingTold.days
    <3>1. Seen(started, 0) = {} /\ NothingTold.days = EmptyBag
      BY SeenMore DEF NothingTold
    <3>2. EmptyBag = [d \in {} |-> Often(started, 0, d)]
      BY DEF EmptyBag, SetToBag
    <3> QED  BY <3>1, <3>2 DEF ToldOf
  <2> QED  BY <2>1, <2>2, NothingTells
<1>5. ASSUME NEW k \in Nat, k \in C PROVE k + 1 \in C
  <2> SUFFICES ASSUME k + 1 <= n PROVE DaysTell(r[k + 1], ToldOf(started, k + 1))
    OBVIOUS
  <2> DEFINE day == started[k + 1]
             bag == ToldOf(started, k)
             more == ToldOf(started, k + 1)
             before == r[k]
             after == r[k + 1]
  <2>1. DaysTell(before, bag) /\ k + 1 \in 1..n /\ (k + 1) - 1 = k
    BY <1>1, <1>5
  <2>2. after = With("days", before, day, <<>>)
    BY <1>3, <2>1 DEF Steps
  <2>3. after = DaysWith(before, day)
    BY <2>2 DEF With
  <2>4. day \in Nat
    BY <1>1, <2>1
  <2>5. more = Plus(bag, {day})
    BY ToldMore
  <2> HIDE DEF day, bag, more, before, after
  <2>6. DaysTell(after, more)
    BY <2>1, <2>3, <2>4, <2>5, TellStep
  <2> QED  BY <2>6 DEF after, more
<1>6. \A k \in Nat : k \in C
  <2>1. \A k \in Nat : k \in C => k + 1 \in C
    BY <1>5
  <2> HIDE DEF C
  <2> QED  BY <1>4, <2>1, NatSetInduction
<1> DEFINE bag == ToldOf(started, n)
<1>7. DaysTell(days, bag)
  BY <1>1, <1>3, <1>6
<1>8. DOMAIN bag = ToSet(started) /\ \A d \in DOMAIN bag : bag[d] = Times(started, d)
  BY <1>1 DEF ToldOf
<1>9. \A d : Copies(bag, d) = Times(started, d)
  <2>1. ASSUME NEW d PROVE Often(started, n, d) = 0 <=> d \notin Seen(started, n)
    BY <1>1, OftenMore
  <2>2. \A d : d \notin DOMAIN bag => Times(started, d) = 0
    BY <1>1, <1>8, <2>1
  <2> HIDE DEF bag
  <2> QED  BY <1>8, <2>2 DEF Copies
<1> HIDE DEF bag
<1>10. \A i \in DOMAIN days.count : days.count[i] <= Times(started, days.first + i - 1)
  BY <1>7, <1>9, TellAgrees
<1>11. ASSUME \A d, e \in ToSet(started) : d - e <= Least(DaysBack, DaysForward), NEW d \in ToSet(started)
       PROVE  DayFound(days, d) /\ days.count[d - days.first + 1] = Times(started, d)
  <2>1. Near(bag)
    BY <1>8, <1>11 DEF Near
  <2> QED  BY <1>7, <1>8, <1>11, <2>1, TellAgrees
<1> QED  BY <1>10, <1>11 DEF DaysAgree, days
-----------------------------------------------------------------------------
(* The partition.                                                          *)

LEMMA GreatestNumber ==
  ASSUME NEW k \in Int, NEW g \in Int, NEW S, S \subseteq k..g, S # {}
  PROVE  Max(S) \in S /\ \A x \in S : x <= Max(S)
<1> DEFINE T == {g - x : x \in S}
<1>1. T \subseteq Nat /\ T # {}
  <2>1. \A x \in S : x \in Int /\ g - x \in Nat
    OBVIOUS
  <2> QED  BY <2>1
<1>2. PICK y \in T : \A z \in T : y <= z
  <2> HIDE DEF T
  <2> QED  BY <1>1, LeastNumber
<1>3. PICK x \in S : y = g - x
  BY <1>2
<1>4. \A z \in S : x >= z
  <2> SUFFICES ASSUME NEW z \in S PROVE x >= z
    OBVIOUS
  <2>1. g - x <= g - z
    BY <1>2, <1>3
  <2> QED  BY <2>1
<1>5. Max(S) \in S /\ \A z \in S : Max(S) >= z
  BY <1>3, <1>4 DEF Max
<1> QED  BY <1>5

(* A list whose entries from low to high are rearranged. *)
Same(old, new, n, low, high) ==
  /\ \A i \in 1..n : i \notin low..high => new[i] = old[i]
  /\ \A i \in low..high : \E h \in low..high : new[i] = old[h]
  /\ \A i \in low..high : \E h \in low..high : old[i] = new[h]

ListOf(list, n, E) == list \in [1..n -> E]
Exchanged(list, new, n, i, j) ==
  \A h \in 1..n : new[h] = IF h = j THEN list[i] ELSE IF h = i THEN list[j] ELSE list[h]

LEMMA SwapIs ==
  ASSUME NEW n, NEW E, NEW list, ListOf(list, n, E), NEW i, i \in 1..n, NEW j, j \in 1..n
  PROVE  ListOf(Swap(list, i, j), n, E) /\ Exchanged(list, Swap(list, i, j), n, i, j)
BY DEF Swap, ListOf, Exchanged

LEMMA SwapSame ==
  ASSUME NEW n \in Nat, NEW E, NEW list, ListOf(list, n, E), NEW low \in 1..n, NEW high \in 1..n,
         NEW i \in low..high, NEW j \in low..high
  PROVE  Same(list, Swap(list, i, j), n, low, high)
<1> DEFINE new == Swap(list, i, j)
<1>1. i \in 1..n /\ j \in 1..n /\ low..high \subseteq 1..n
  OBVIOUS
<1>2. \A h \in 1..n : new[h] = IF h = j THEN list[i] ELSE IF h = i THEN list[j] ELSE list[h]
  BY <1>1, SwapIs DEF Exchanged
<1> HIDE DEF new
<1>3. \A h \in 1..n : h \notin low..high => new[h] = list[h]
  BY <1>2
<1>4. ASSUME NEW h \in low..high PROVE \E m \in low..high : new[h] = list[m]
  BY <1>1, <1>2
<1>5. ASSUME NEW h \in low..high PROVE \E m \in low..high : list[h] = new[m]
  BY <1>1, <1>2
<1> QED  BY <1>3, <1>4, <1>5 DEF Same, new

LEMMA SameAgain ==
  ASSUME NEW n, NEW low, NEW high, NEW a, NEW b, NEW c, Same(a, b, n, low, high), Same(b, c, n, low, high)
  PROVE  Same(a, c, n, low, high)
<1>1. \A i \in 1..n : i \notin low..high => c[i] = a[i]
  BY DEF Same
<1>2. ASSUME NEW i \in low..high PROVE \E h \in low..high : c[i] = a[h]
  <2>1. PICK h \in low..high : c[i] = b[h]
    BY DEF Same
  <2>2. PICK m \in low..high : b[h] = a[m]
    BY DEF Same
  <2> QED  BY <2>1, <2>2
<1>3. ASSUME NEW i \in low..high PROVE \E h \in low..high : a[i] = c[h]
  <2>1. PICK h \in low..high : a[i] = b[h]
    BY DEF Same
  <2>2. PICK m \in low..high : b[h] = c[m]
    BY DEF Same
  <2> QED  BY <2>1, <2>2
<1> QED  BY <1>1, <1>2, <1>3 DEF Same

(* What is compared and never changes: the list a partition begins with.   *)
Begins(n, E, old, low, high) ==
  /\ n \in Nat /\ ListOf(old, n, E) /\ \A e \in E : e.value \in Int
  /\ low \in 1..n /\ high \in 1..n /\ low < high
  /\ old[high].value <= old[low].value

(* The entries before k are divided. *)
DivAt(s, n, E, old, low, high, k) ==
  /\ DOMAIN s = {"list", "j", "g"} /\ ListOf(s.list, n, E) /\ Same(old, s.list, n, low, high)
  /\ s.list[low] = old[low] /\ s.list[high] = old[high]
  /\ s.j \in low + 1..k /\ s.g \in Int /\ s.j <= s.g + 1 /\ s.g < high
  /\ \A i \in low + 1..s.j - 1 : s.list[i].value > old[low].value
  /\ \A i \in s.j..k - 1 : i <= s.g => old[high].value <= s.list[i].value /\ s.list[i].value <= old[low].value
  /\ \A i \in s.g + 1..high - 1 : s.list[i].value <= old[high].value

LEMMA LeftMore ==
  ASSUME NEW n, NEW E, NEW old, NEW low, NEW high, Begins(n, E, old, low, high),
         NEW k \in low + 1..high - 1, NEW s, DivAt(s, n, E, old, low, high, k),
         k <= s.g, Above(s, k, low)
  PROVE  DivAt(ToTheLeft(s, k), n, E, old, low, high, k + 1)
<1> DEFINE a == s.list
           j == s.j
           g == s.g
           t == ToTheLeft(s, k)
           b == t.list
<1>1. n \in Nat /\ low \in 1..n /\ high \in 1..n /\ k \in 1..n /\ k # low /\ k # high
  BY DEF Begins
<1>2. /\ ListOf(a, n, E) /\ j \in low + 1..k /\ g \in Int /\ j <= g + 1 /\ g < high /\ j \in 1..n /\ k <= g
      /\ j # low /\ j # high /\ j \in low..high /\ k \in low..high
  BY <1>1 DEF DivAt
<1>3. DOMAIN t = {"list", "j", "g"} /\ b = Swap(a, k, j) /\ t.j = j + 1 /\ t.g = g
  BY DEF ToTheLeft, DivAt
<1>4. a[k].value > old[low].value /\ a[low] = old[low] /\ a[high] = old[high] /\ Same(old, a, n, low, high)
  BY DEF Above, DivAt
<1>5. /\ \A i \in low + 1..j - 1 : a[i].value > old[low].value
      /\ \A i \in j..k - 1 : i <= g => old[high].value <= a[i].value /\ a[i].value <= old[low].value
      /\ \A i \in g + 1..high - 1 : a[i].value <= old[high].value
  BY DEF DivAt
<1> HIDE DEF a, j, g, b, t
<1>6. ListOf(b, n, E) /\ \A h \in 1..n : b[h] = IF h = j THEN a[k] ELSE IF h = k THEN a[j] ELSE a[h]
  <2>1. ListOf(Swap(a, k, j), n, E) /\ Exchanged(a, Swap(a, k, j), n, k, j)
    BY <1>1, <1>2, SwapIs
  <2>2. ListOf(b, n, E) /\ Exchanged(a, b, n, k, j)
    BY <1>3, <2>1
  <2> QED  BY <2>2 DEF Exchanged
<1>7. Same(old, b, n, low, high)
  <2>1. Same(a, b, n, low, high)
    BY <1>1, <1>2, <1>3, SwapSame
  <2> QED  BY <1>4, <2>1, SameAgain
<1>8. b[low] = old[low] /\ b[high] = old[high]
  BY <1>1, <1>2, <1>4, <1>6
<1>9. ASSUME NEW i \in low + 1..j PROVE b[i].value > old[low].value
  <2>1. i \in 1..n /\ (i = j \/ i \in low + 1..j - 1) /\ i # high /\ (i = k => i = j)
    BY <1>1, <1>2
  <2> QED  BY <1>4, <1>5, <1>6, <2>1
<1>10. ASSUME NEW i \in j + 1..k PROVE old[high].value <= b[i].value /\ b[i].value <= old[low].value
  <2>1. i \in 1..n /\ i # j /\ (i # k => i \in j..k - 1 /\ i <= g) /\ (i = k => j \in j..k - 1 /\ j <= g)
    BY <1>1, <1>2
  <2>2. b[i] = a[i] \/ (i = k /\ b[i] = a[j])
    BY <1>6, <2>1
  <2> QED  BY <1>5, <1>6, <2>1, <2>2
<1>11. ASSUME NEW i \in g + 1..high - 1 PROVE b[i].value <= old[high].value
  <2>1. i \in 1..n /\ i # j /\ i # k
    BY <1>1, <1>2
  <2> QED  BY <1>5, <1>6, <2>1
<1>12. t.j - 1 = j /\ (k + 1) - 1 = k /\ t.j \in low + 1..k + 1 /\ t.j <= t.g + 1
  BY <1>1, <1>2, <1>3
<1> QED  BY <1>2, <1>3, <1>6, <1>7, <1>8, <1>9, <1>10, <1>11, <1>12 DEF DivAt, b, t

(* The entry number k stays where it is. *)
LEMMA MiddleMore ==
  ASSUME NEW n, NEW E, NEW old, NEW low, NEW high, Begins(n, E, old, low, high),
         NEW k \in low + 1..high - 1, NEW s, DivAt(s, n, E, old, low, high, k),
         k <= s.g => old[high].value <= s.list[k].value /\ s.list[k].value <= old[low].value
  PROVE  DivAt(s, n, E, old, low, high, k + 1)
<1>1. low \in Int /\ high \in Int /\ k \in Int
  BY DEF Begins
<1>2. s.j \in low + 1..k
  BY DEF DivAt
<1>3. s.j \in low + 1..k + 1
  BY <1>1, <1>2
<1>4. ASSUME NEW i \in s.j..(k + 1) - 1, i <= s.g
      PROVE  old[high].value <= s.list[i].value /\ s.list[i].value <= old[low].value
  <2>1. i = k \/ i \in s.j..k - 1
    BY <1>1, <1>2
  <2> QED  BY <1>4, <2>1 DEF DivAt
<1> QED  BY <1>3, <1>4 DEF DivAt

LEMMA RightMore ==
  ASSUME NEW n, NEW E, NEW old, NEW low, NEW high, Begins(n, E, old, low, high),
         NEW k \in low + 1..high - 1, NEW s, DivAt(s, n, E, old, low, high, k),
         k <= s.g, ~Above(s, k, high), NEW t, t = ToTheRight(s, k, high)
  PROVE  /\ DivAt(t, n, E, old, low, high, k)
         /\ k <= t.g => old[high].value <= t.list[k].value
         /\ k > t.g => t.list[k].value <= old[low].value
<1> DEFINE a == s.list
           j == s.j
           g == s.g
           S == {k} \cup {i \in k..g : ~Above(s, high, i)}
           m == Max(S)
           b == t.list
<1>1. n \in Nat /\ low \in 1..n /\ high \in 1..n /\ k \in 1..n /\ k # low /\ k # high /\ low < k /\ k < high
  BY DEF Begins
<1>2. /\ ListOf(a, n, E) /\ j \in low + 1..k /\ g \in Int /\ j <= g + 1 /\ g < high /\ j \in 1..n /\ k <= g
      /\ k \in low..high
  BY <1>1 DEF DivAt
<1>3. DOMAIN t = {"list", "j", "g"} /\ b = Swap(a, k, m) /\ t.j = j /\ t.g = m - 1
  BY DEF ToTheRight, SwapRight, DivAt
<1>4. /\ ~(a[k].value > old[high].value) /\ a[low] = old[low] /\ a[high] = old[high] /\ Same(old, a, n, low, high)
      /\ \A i : Above(s, high, i) <=> a[high].value > a[i].value
  BY DEF Above, DivAt
<1>5. /\ \A i \in low + 1..j - 1 : a[i].value > old[low].value
      /\ \A i \in j..k - 1 : i <= g => old[high].value <= a[i].value /\ a[i].value <= old[low].value
      /\ \A i \in g + 1..high - 1 : a[i].value <= old[high].value
  BY DEF DivAt
<1>6. m \in S /\ \A x \in S : x <= m
  <2>1. S \subseteq k..g /\ S # {} /\ k \in Int /\ g \in Int
    BY <1>1, <1>2
  <2> HIDE DEF S
  <2> QED  BY <2>1, GreatestNumber
<1> HIDE DEF a, j, g, b, m
<1>7. /\ \A i \in 1..n : a[i].value \in Int
      /\ old[low].value \in Int /\ old[high].value \in Int /\ old[high].value <= old[low].value
  BY <1>1, <1>2 DEF Begins, ListOf
<1>8. m \in k..g /\ m \in 1..n /\ m # low /\ m # high /\ m \in low..high /\ (m # k => old[high].value <= a[m].value)
  <2>1. m \in k..g
    BY <1>1, <1>2, <1>6
  <2>2. m \in 1..n /\ m # low /\ m # high /\ m \in low..high
    BY <1>1, <1>2, <2>1
  <2>3. m # k => old[high].value <= a[m].value
    BY <1>4, <1>6, <1>7, <2>2
  <2> QED  BY <2>1, <2>2, <2>3
<1>9. \A i \in m + 1..g : a[i].value <= old[high].value
  <2> SUFFICES ASSUME NEW i \in m + 1..g PROVE a[i].value <= old[high].value
    OBVIOUS
  <2>1. i \in k..g /\ i \in 1..n /\ ~(i <= m)
    BY <1>1, <1>2, <1>8
  <2>2. i \notin S
    BY <1>6, <2>1
  <2>3. a[high].value > a[i].value
    BY <1>4, <2>1, <2>2
  <2> QED  BY <1>1, <1>4, <1>7, <2>1, <2>3
<1> HIDE DEF S
<1>10. ListOf(b, n, E) /\ \A h \in 1..n : b[h] = IF h = m THEN a[k] ELSE IF h = k THEN a[m] ELSE a[h]
  <2>1. ListOf(Swap(a, k, m), n, E) /\ Exchanged(a, Swap(a, k, m), n, k, m)
    BY <1>1, <1>2, <1>8, SwapIs
  <2>2. ListOf(b, n, E) /\ Exchanged(a, b, n, k, m)
    BY <1>3, <2>1
  <2> QED  BY <2>2 DEF Exchanged
<1>11. Same(old, b, n, low, high)
  <2>1. Same(a, b, n, low, high)
    BY <1>1, <1>2, <1>3, <1>8, SwapSame
  <2> QED  BY <1>4, <2>1, SameAgain
<1>12. b[low] = old[low] /\ b[high] = old[high]
  BY <1>1, <1>4, <1>8, <1>10
<1>13. ASSUME NEW i \in low + 1..j - 1 PROVE b[i].value > old[low].value
  <2>1. i \in 1..n /\ i # m /\ i # k
    BY <1>1, <1>2, <1>8
  <2> QED  BY <1>5, <1>10, <2>1
<1>14. ASSUME NEW i \in j..k - 1 PROVE old[high].value <= b[i].value /\ b[i].value <= old[low].value
  <2>1. i \in 1..n /\ i # m /\ i # k /\ i <= g
    BY <1>1, <1>2, <1>8
  <2> QED  BY <1>5, <1>10, <2>1
<1>15. ASSUME NEW i \in m..high - 1 PROVE b[i].value <= old[high].value
  <2>1. i \in 1..n /\ (i = m \/ (i # m /\ i # k /\ (i \in m + 1..g \/ i \in g + 1..high - 1)))
    BY <1>1, <1>2, <1>8
  <2>2. a[k].value <= old[high].value
    BY <1>1, <1>4, <1>7
  <2> QED  BY <1>5, <1>9, <1>10, <2>1, <2>2
<1>16. t.g + 1 = m /\ t.j <= t.g + 1 /\ t.g < high /\ t.g \in Int
  BY <1>1, <1>2, <1>3, <1>8
<1>17. k <= t.g => old[high].value <= b[k].value
  BY <1>1, <1>3, <1>8, <1>10
<1>18. k > t.g => b[k].value <= old[low].value
  <2> SUFFICES ASSUME k > t.g PROVE b[k].value <= old[low].value
    OBVIOUS
  <2>1. m = k
    BY <1>1, <1>3, <1>8
  <2>2. b[k] = a[k]
    BY <1>1, <1>10, <2>1
  <2> QED  BY <1>1, <1>4, <1>7, <2>2
<1>19. DivAt(t, n, E, old, low, high, k)
  BY <1>2, <1>3, <1>10, <1>11, <1>12, <1>13, <1>14, <1>15, <1>16 DEF DivAt, b
<1> QED  BY <1>17, <1>18, <1>19 DEF b

LEMMA DivideMore ==
  ASSUME NEW n, NEW E, NEW old, NEW low, NEW high, Begins(n, E, old, low, high),
         NEW k \in low + 1..high - 1, NEW s, DivAt(s, n, E, old, low, high, k)
  PROVE  DivAt(Divide(s, k, low, high), n, E, old, low, high, k + 1)
<1> DEFINE t == ToTheRight(s, k, high)
           c == Divide(s, k, low, high)
<1>1. c = (IF k > s.g THEN s
           ELSE IF Above(s, k, low) THEN ToTheLeft(s, k)
           ELSE IF Above(s, k, high) THEN s
           ELSE IF Above(t, k, low) THEN ToTheLeft(t, k)
           ELSE t)
  BY DEF Divide, ToTheLeftIf
<1> HIDE DEF c, t
<1>2. k \in 1..n /\ s.g \in Int /\ s.list[low] = old[low] /\ s.list[high] = old[high]
      /\ old[low].value \in Int /\ old[high].value \in Int /\ s.list[k].value \in Int
  BY DEF Begins, DivAt, ListOf
<1>3. CASE k > s.g
  <2>1. ~(k <= s.g)
    BY <1>2, <1>3
  <2>2. DivAt(s, n, E, old, low, high, k + 1)
    BY <2>1, MiddleMore
  <2> QED  BY <1>1, <1>3, <2>2 DEF c
<1>4. CASE ~(k > s.g) /\ Above(s, k, low)
  <2>1. k <= s.g
    BY <1>2, <1>4
  <2>2. DivAt(ToTheLeft(s, k), n, E, old, low, high, k + 1)
    BY <1>4, <2>1, LeftMore
  <2> QED  BY <1>1, <1>4, <2>2 DEF c
<1>5. CASE ~(k > s.g) /\ ~Above(s, k, low) /\ Above(s, k, high)
  <2>1. old[high].value <= s.list[k].value /\ s.list[k].value <= old[low].value
    BY <1>2, <1>5 DEF Above
  <2>2. DivAt(s, n, E, old, low, high, k + 1)
    BY <2>1, MiddleMore
  <2> QED  BY <1>1, <1>5, <2>2 DEF c
<1>6. CASE ~(k > s.g) /\ ~Above(s, k, low) /\ ~Above(s, k, high)
  <2>1. k <= s.g
    BY <1>2, <1>6
  <2>2. /\ DivAt(t, n, E, old, low, high, k)
        /\ k <= t.g => old[high].value <= t.list[k].value
        /\ k > t.g => t.list[k].value <= old[low].value
    BY <1>6, <2>1, RightMore DEF t
  <2>3. t.g \in Int /\ t.list[low] = old[low] /\ t.list[k].value \in Int
    BY <1>2, <2>2 DEF Begins, DivAt, ListOf
  <2>4. CASE Above(t, k, low)
    <3>1. k <= t.g
      BY <1>2, <2>2, <2>3, <2>4 DEF Above
    <3>2. DivAt(ToTheLeft(t, k), n, E, old, low, high, k + 1)
      BY <2>2, <2>4, <3>1, LeftMore
    <3> QED  BY <1>1, <1>6, <2>4, <3>2 DEF c
  <2>5. CASE ~Above(t, k, low)
    <3>1. k <= t.g => old[high].value <= t.list[k].value /\ t.list[k].value <= old[low].value
      BY <1>2, <2>2, <2>3, <2>5 DEF Above
    <3>2. DivAt(t, n, E, old, low, high, k + 1)
      BY <2>2, <3>1, MiddleMore
    <3> QED  BY <1>1, <1>6, <2>5, <3>2 DEF c
  <2> QED  BY <2>4, <2>5
<1> QED  BY <1>3, <1>4, <1>5, <1>6

LEMMA OrderedBegins ==
  ASSUME NEW n \in Nat, NEW E, \A e \in E : e.value \in Int, NEW list, ListOf(list, n, E),
         NEW low \in 1..n, NEW high \in 1..n, low < high
  PROVE  /\ Begins(n, E, Ordered(list, low, high), low, high)
         /\ Same(list, Ordered(list, low, high), n, low, high)
<1> DEFINE old == Ordered(list, low, high)
<1>1. list[low].value \in Int /\ list[high].value \in Int
  BY DEF ListOf
<1>2. low \in low..high /\ high \in low..high
  OBVIOUS
<1>3. CASE list[low].value < list[high].value
  <2>1. old = Swap(list, low, high)
    BY <1>3 DEF Ordered
  <2>2. ListOf(old, n, E) /\ Exchanged(list, old, n, low, high)
    BY <2>1, SwapIs
  <2>3. Same(list, old, n, low, high)
    BY <1>2, <2>1, SwapSame
  <2> HIDE DEF old
  <2>4. old[low] = list[high] /\ old[high] = list[low]
    BY <2>2 DEF Exchanged
  <2>5. old[high].value <= old[low].value
    BY <1>1, <1>3, <2>4
  <2>6. Begins(n, E, old, low, high)
    BY <2>2, <2>5 DEF Begins
  <2> QED  BY <2>3, <2>6 DEF old
<1>4. CASE ~(list[low].value < list[high].value)
  <2>1. old = list
    BY <1>4 DEF Ordered
  <2>2. Same(list, list, n, low, high)
    BY DEF Same
  <2>3. Begins(n, E, list, low, high)
    BY <1>1, <1>4 DEF Begins
  <2> QED  BY <2>1, <2>2, <2>3
<1> QED  BY <1>3, <1>4

LEMMA DividedIs ==
  ASSUME NEW n \in Nat, NEW E, \A e \in E : e.value \in Int, NEW list, ListOf(list, n, E),
         NEW low \in 1..n, NEW high \in 1..n, low < high
  PROVE  DivAt(Divided(list, low, high), n, E, Ordered(list, low, high), low, high, high)
<1> DEFINE m == high - low - 1
           old == Ordered(list, low, high)
           base == [list |-> old, j |-> low + 1, g |-> high - 1]
           seq == [i \in 1..m |-> low + i]
           s == Divided(list, low, high)
<1>1. m \in Nat /\ low + 1 + m = high /\ DOMAIN seq = 1..m /\ \A i \in 1..m : seq[i] = low + i
  OBVIOUS
<1>2. Begins(n, E, old, low, high)
  BY OrderedBegins
<1>3. s = Fold("divide", <<low, high>>, base, seq, 1..m)
  <2> HIDE DEF base, seq, m
  <2>1. FoldLeft(LAMBDA z, k : Divide(z, k, low, high), base, seq) = Fold("divide", <<low, high>>, base, seq, 1..m)
    BY <1>1 DEF FoldLeft, MapThenFoldSet, Fold, Folds, With
  <2> QED  BY <2>1 DEF Divided, base, seq, m
<1>4. base.list = old /\ base.j = low + 1 /\ base.g = high - 1 /\ DOMAIN base = {"list", "j", "g"}
  OBVIOUS
<1> HIDE DEF s, base, seq, m, old
<1>5. PICK r : Steps(r, "divide", <<low, high>>, base, seq, m) /\ r[m] = s
  BY <1>1, <1>3, FoldSteps
<1> DEFINE C == {q \in Nat : q <= m => DivAt(r[q], n, E, old, low, high, low + 1 + q)}
<1>6. 0 \in C
  <2>1. r[0] = base
    BY <1>5 DEF Steps
  <2>2. ListOf(old, n, E) /\ Same(old, old, n, low, high)
    BY <1>2 DEF Begins, Same
  <2>3. base.j \in low + 1..low + 1 + 0 /\ base.g \in Int /\ base.j <= base.g + 1 /\ base.g < high
    BY <1>4
  <2>4. (low + 1..base.j - 1) = {} /\ (base.j..low + 1 + 0 - 1) = {} /\ (base.g + 1..high - 1) = {}
    BY <1>4
  <2>5. DivAt(base, n, E, old, low, high, low + 1 + 0)
    BY <1>4, <2>2, <2>3, <2>4 DEF DivAt
  <2> QED  BY <2>1, <2>5
<1>7. ASSUME NEW q \in Nat, q \in C PROVE q + 1 \in C
  <2> SUFFICES ASSUME q + 1 <= m PROVE DivAt(r[q + 1], n, E, old, low, high, low + 1 + (q + 1))
    OBVIOUS
  <2> DEFINE k == low + 1 + q
             now == r[q]
             next == r[q + 1]
  <2>1. DivAt(now, n, E, old, low, high, k) /\ q + 1 \in 1..m /\ (q + 1) - 1 = q
    BY <1>1, <1>7
  <2>2. seq[q + 1] = k /\ k \in low + 1..high - 1 /\ k + 1 = low + 1 + (q + 1)
    BY <1>1, <2>1
  <2>3. next = With("divide", now, k, <<low, high>>)
    BY <1>5, <2>1, <2>2 DEF Steps
  <2>4. next = Divide(now, k, low, high)
    BY <2>3 DEF With
  <2> HIDE DEF k, now, next
  <2>5. DivAt(next, n, E, old, low, high, k + 1)
    BY <1>2, <2>1, <2>2, <2>4, DivideMore
  <2> QED  BY <2>2, <2>5 DEF next
<1>8. \A q \in Nat : q \in C
  <2>1. \A q \in Nat : q \in C => q + 1 \in C
    BY <1>7
  <2> HIDE DEF C
  <2> QED  BY <1>6, <2>1, NatSetInduction
<1>9. DivAt(s, n, E, old, low, high, high)
  BY <1>1, <1>5, <1>8
<1> QED  BY <1>9 DEF s, old

(* The parts of a list that a partition has left to sort. *)
Parted(p, n, E, list, low, high) ==
  /\ ListOf(p.list, n, E) /\ Same(list, p.list, n, low, high)
  /\ p.j \in low..high /\ p.g \in low..high /\ p.j < p.g
  /\ \A i, h \in low..high : i < h => \/ p.list[h].value <= p.list[i].value
                                      \/ h < p.j
                                      \/ p.j < i /\ h < p.g
                                      \/ p.g < i

LEMMA PartitionIs ==
  ASSUME NEW n \in Nat, NEW E, \A e \in E : e.value \in Int, NEW list, ListOf(list, n, E),
         NEW low \in 1..n, NEW high \in 1..n, low < high
  PROVE  Parted(DualPivotQuickSort_Partition(list, low, high), n, E, list, low, high)
<1> DEFINE s == Divided(list, low, high)
           old == Ordered(list, low, high)
           a == s.list
           j == s.j
           g == s.g
           c == Swap(a, low, j - 1)
           d == Swap(c, high, g + 1)
           p == DualPivotQuickSort_Partition(list, low, high)
           P1 == old[low].value
           P2 == old[high].value
<1>1. p.list = d /\ p.j = j - 1 /\ p.g = g + 1
  BY DEF DualPivotQuickSort_Partition, WithPivots
<1>2. Begins(n, E, old, low, high) /\ Same(list, old, n, low, high) /\ DivAt(s, n, E, old, low, high, high)
  BY OrderedBegins, DividedIs
<1> HIDE DEF s, old
<1>3. /\ ListOf(a, n, E) /\ Same(old, a, n, low, high) /\ a[low] = old[low] /\ a[high] = old[high]
      /\ j \in low + 1..high /\ g \in Int /\ j <= g + 1 /\ g < high
      /\ \A i \in low + 1..j - 1 : a[i].value > P1
      /\ \A i \in j..high - 1 : i <= g => P2 <= a[i].value /\ a[i].value <= P1
      /\ \A i \in g + 1..high - 1 : a[i].value <= P2
  BY <1>2 DEF DivAt
<1>4. P1 \in Int /\ P2 \in Int /\ P2 <= P1 /\ \A i \in 1..n : a[i].value \in Int
  BY <1>2, <1>3 DEF Begins, ListOf
<1> HIDE DEF p, d, c, a, j, g, P1, P2
<1>5. /\ j \in Int /\ j - 1 \in 1..n /\ j - 1 \in low..high /\ g + 1 \in 1..n /\ g + 1 \in low..high
      /\ j - 1 < g + 1 /\ j - 1 < high /\ low < g + 1
  BY <1>3
<1>6. ListOf(c, n, E) /\ Exchanged(a, c, n, low, j - 1) /\ Same(a, c, n, low, high)
  <2> DEFINE x == j - 1
  <2>1. x \in 1..n /\ x \in low..high /\ low \in low..high /\ c = Swap(a, low, x)
    BY <1>5 DEF c
  <2> HIDE DEF x
  <2>2. ListOf(c, n, E) /\ Exchanged(a, c, n, low, x)
    BY <1>3, <2>1, SwapIs
  <2>3. Same(a, c, n, low, high)
    BY <1>3, <2>1, SwapSame
  <2> QED  BY <2>2, <2>3 DEF x
<1>7. ListOf(d, n, E) /\ Exchanged(c, d, n, high, g + 1) /\ Same(c, d, n, low, high)
  <2> DEFINE x == g + 1
  <2>1. x \in 1..n /\ x \in low..high /\ high \in low..high /\ d = Swap(c, high, x)
    BY <1>5 DEF d
  <2> HIDE DEF x
  <2>2. ListOf(d, n, E) /\ Exchanged(c, d, n, high, x)
    BY <1>6, <2>1, SwapIs
  <2>3. Same(c, d, n, low, high)
    BY <1>6, <2>1, SwapSame
  <2> QED  BY <2>2, <2>3 DEF x
<1>8. Same(list, d, n, low, high)
  BY <1>2, <1>3, <1>6, <1>7, SameAgain
<1>9. \A h \in 1..n : /\ c[h] = (IF h = j - 1 THEN a[low] ELSE IF h = low THEN a[j - 1] ELSE a[h])
                      /\ d[h] = (IF h = g + 1 THEN c[high] ELSE IF h = high THEN c[g + 1] ELSE c[h])
  BY <1>6, <1>7 DEF Exchanged
<1>10. ASSUME NEW i \in low..j - 2 PROVE d[i].value > P1
  <2>1. i \in 1..n /\ i # g + 1 /\ i # high /\ i # j - 1 /\ (i = low => j - 1 \in low + 1..j - 1) /\ (i # low => i \in low + 1..j - 1)
    BY <1>3, <1>5
  <2>2. d[i] = c[i] /\ c[i] = IF i = low THEN a[j - 1] ELSE a[i]
    BY <1>9, <2>1
  <2> QED  BY <1>3, <2>1, <2>2
<1>11. d[j - 1].value = P1
  <2>1. d[j - 1] = c[j - 1] /\ c[j - 1] = a[low]
    BY <1>5, <1>9
  <2> QED  BY <1>3, <2>1 DEF P1
<1>12. ASSUME NEW i \in j..g PROVE P2 <= d[i].value /\ d[i].value <= P1
  <2>1. i \in 1..n /\ i # g + 1 /\ i # high /\ i # j - 1 /\ i # low /\ i \in j..high - 1 /\ i <= g
    BY <1>3, <1>5
  <2>2. d[i] = a[i]
    BY <1>9, <2>1
  <2> QED  BY <1>3, <2>1, <2>2
<1>13. d[g + 1].value = P2
  <2>1. high # j - 1 /\ high # low
    BY <1>5
  <2>2. d[g + 1] = c[high] /\ c[high] = a[high]
    BY <1>5, <1>9, <2>1
  <2> QED  BY <1>3, <2>2 DEF P2
<1>14. ASSUME NEW i \in g + 2..high PROVE d[i].value <= P2
  <2>1. i \in 1..n /\ i # g + 1 /\ i # j - 1 /\ i # low /\ (i = high => g + 1 \in g + 1..high - 1) /\ (i # high => i \in g + 1..high - 1)
    BY <1>3, <1>5
  <2>2. g + 1 # j - 1 /\ g + 1 # low
    BY <1>3, <1>5
  <2>3. c[i] = a[i] /\ c[g + 1] = a[g + 1]
    BY <1>5, <1>9, <2>1, <2>2
  <2>4. d[i] = IF i = high THEN a[g + 1] ELSE a[i]
    BY <1>9, <2>1, <2>3
  <2> QED  BY <1>3, <2>1, <2>4
<1>15. \A i \in 1..n : d[i].value \in Int
  BY <1>7 DEF ListOf
<1>16. ASSUME NEW i \in low..high, NEW h \in low..high, i < h
       PROVE  d[h].value <= d[i].value \/ h < j - 1 \/ (j - 1 < i /\ h < g + 1) \/ g + 1 < i
  <2>1. i \in 1..n /\ h \in 1..n
    OBVIOUS
  <2>2. CASE i < j - 1
    <3>1. i \in low..j - 2 /\ d[i].value > P1
      BY <1>3, <1>10, <2>2
    <3>2. h < j - 1 \/ h = j - 1 \/ h \in j..g \/ h = g + 1 \/ h \in g + 2..high
      BY <1>3
    <3>3. h < j - 1 \/ d[h].value <= P1
      BY <1>4, <1>11, <1>12, <1>13, <1>14, <1>15, <2>1, <3>2
    <3> QED  BY <1>4, <1>15, <2>1, <3>1, <3>3
  <2>3. CASE i = j - 1
    <3>1. h \in j..g \/ h = g + 1 \/ h \in g + 2..high
      BY <1>3, <1>16, <2>3
    <3>2. d[h].value <= P1
      BY <1>4, <1>12, <1>13, <1>14, <1>15, <2>1, <3>1
    <3> QED  BY <1>11, <2>3, <3>2
  <2>4. CASE i \in j..g
    <3>1. h < g + 1 \/ h = g + 1 \/ h \in g + 2..high
      BY <1>3, <1>16, <2>4
    <3>2. j - 1 < i
      BY <1>3, <2>4
    <3>3. h < g + 1 \/ d[h].value <= P2
      BY <1>4, <1>13, <1>14, <3>1
    <3>4. P2 <= d[i].value
      BY <1>12, <2>4
    <3> QED  BY <1>4, <1>15, <2>1, <3>2, <3>3, <3>4
  <2>5. CASE i = g + 1
    <3>1. h \in g + 2..high
      BY <1>3, <1>16, <2>5
    <3> QED  BY <1>13, <1>14, <2>5, <3>1
  <2> QED  BY <1>3, <2>2, <2>3, <2>4, <2>5
<1> QED  BY <1>1, <1>5, <1>7, <1>8, <1>16 DEF Parted, p
-----------------------------------------------------------------------------
(* The calls of QuickSort.                                                 *)

(* The entries i to h are in one of the calls that are to be made. *)
Pending(calls, i, h) == \E c \in 1..Len(calls) : calls[c][1] <= i /\ h <= calls[c][2]
Covered(calls, n) == {i \in 1..n : Pending(calls, i, i)}

(* The calls are in the order of the parts they sort, and no parts overlap. *)
Queue(calls, n) ==
  /\ calls \in Seq(Int \X Int)
  /\ \A c \in 1..Len(calls) : 1 <= calls[c][1] /\ calls[c][2] <= n /\ calls[c][1] <= calls[c][2] + 1
  /\ \A c, d \in 1..Len(calls) : c < d => calls[c][2] < calls[d][1]

InOrder(list, calls, n) ==
  \A i, h \in 1..n : i < h => list[h].value <= list[i].value \/ Pending(calls, i, h)

(* A call sorts two entries and makes three calls, or is the last of its   *)
(* part, which has one entry or none.                                      *)
Measure(calls, n) == 2 * Len(calls) + 3 * Cardinality(Covered(calls, n))

SortAt(s, n, E, list, t) ==
  /\ DOMAIN s = {"list", "calls"} /\ ListOf(s.list, n, E) /\ Same(list, s.list, n, 1, n)
  /\ Queue(s.calls, n) /\ InOrder(s.list, s.calls, n)
  /\ s.calls = <<>> \/ Measure(s.calls, n) + 2 * t <= 3 * n + 2

LEMMA QueueIs ==
  ASSUME NEW n, NEW calls, Queue(calls, n)
  PROVE  /\ Len(calls) \in Nat
         /\ \A c \in 1..Len(calls) : calls[c][1] \in Int /\ calls[c][2] \in Int /\ calls[c] \in Int \X Int
BY DEF Queue

LEMMA TailIs ==
  ASSUME NEW S, NEW calls \in Seq(S), calls # <<>>
  PROVE  /\ Tail(calls) \in Seq(S) /\ Len(Tail(calls)) = Len(calls) - 1 /\ Len(calls) \in Nat \ {0}
         /\ Head(calls) = calls[1]
         /\ \A c \in 1..Len(calls) - 1 : Tail(calls)[c] = calls[c + 1]
OBVIOUS

Made(made, x, y, z, rest) == made = <<x, y, z>> \o rest

LEMMA MadeIs ==
  ASSUME NEW S, NEW rest, rest \in Seq(S), NEW x, x \in S, NEW y, y \in S, NEW z, z \in S,
         NEW made, Made(made, x, y, z, rest)
  PROVE  /\ made \in Seq(S) /\ Len(made) = Len(rest) + 3
         /\ made[1] = x /\ made[2] = y /\ made[3] = z
         /\ \A c \in 1..Len(rest) : made[c + 3] = rest[c]
<1> DEFINE three == <<x, y, z>>
<1>1. three \in Seq(S) /\ Len(three) = 3 /\ three[1] = x /\ three[2] = y /\ three[3] = z
  OBVIOUS
<1> HIDE DEF three
<1>2. made \in Seq(S) /\ Len(made) = Len(three) + Len(rest) /\ Len(rest) \in Nat
      /\ \A c \in 1..Len(three) + Len(rest) : made[c] = IF c <= Len(three) THEN three[c] ELSE rest[c - Len(three)]
  BY <1>1, ConcatProperties, LenProperties DEF three, Made
<1> QED  BY <1>1, <1>2

(* How many entries are in the calls. *)
LEMMA CoveredFinite ==
  ASSUME NEW n \in Nat, NEW calls
  PROVE  IsFiniteSet(Covered(calls, n)) /\ Cardinality(Covered(calls, n)) \in Nat
<1>1. IsFiniteSet(1..n) /\ Covered(calls, n) \subseteq 1..n
  BY FS_Interval DEF Covered
<1>2. IsFiniteSet(Covered(calls, n))
  BY <1>1, FS_Subset
<1> QED  BY <1>2, FS_CardinalityType

(* The last call of a part. *)
LEMMA DropMore ==
  ASSUME NEW n \in Nat, NEW calls, Queue(calls, n), calls # <<>>, ~(calls[1][1] < calls[1][2]),
         NEW list, InOrder(list, calls, n)
  PROVE  /\ Queue(Tail(calls), n) /\ InOrder(list, Tail(calls), n)
         /\ Measure(Tail(calls), n) + 2 <= Measure(calls, n)
<1> DEFINE rest == Tail(calls)
           m == Len(rest)
<1>1. /\ rest \in Seq(Int \X Int) /\ m \in Nat /\ Len(calls) = m + 1
      /\ \A c \in 1..m : rest[c] = calls[c + 1]
  BY TailIs DEF Queue
<1>2. \A c \in 1..m + 1 : calls[c][1] \in Int /\ calls[c][2] \in Int
  BY <1>1, QueueIs
<1> HIDE DEF rest, m
<1>3. ASSUME NEW c \in 1..m PROVE c + 1 \in 1..Len(calls) /\ rest[c] = calls[c + 1]
  BY <1>1
<1>4. \A c \in 1..m : 1 <= rest[c][1] /\ rest[c][2] <= n /\ rest[c][1] <= rest[c][2] + 1
  BY <1>3 DEF Queue
<1>5. ASSUME NEW c \in 1..m, NEW d \in 1..m, c < d PROVE rest[c][2] < rest[d][1]
  <2>1. c + 1 < d + 1
    BY <1>1, <1>5
  <2> QED  BY <1>3, <2>1 DEF Queue
<1>6. Queue(rest, n)
  BY <1>1, <1>4, <1>5 DEF Queue, m
<1>7. ASSUME NEW i \in 1..n, NEW h \in 1..n, i < h, Pending(calls, i, h) PROVE Pending(rest, i, h)
  <2>1. PICK c \in 1..m + 1 : calls[c][1] <= i /\ h <= calls[c][2]
    BY <1>1, <1>7 DEF Pending
  <2>2. c # 1
    BY <1>1, <1>2, <1>7, <2>1
  <2>3. c - 1 \in 1..m /\ (c - 1) + 1 = c
    BY <1>1, <2>2
  <2>4. rest[c - 1] = calls[c]
    BY <1>1, <2>3
  <2> QED  BY <2>1, <2>3, <2>4 DEF Pending, m
<1>8. InOrder(list, rest, n)
  BY <1>7 DEF InOrder
<1>9. Covered(rest, n) \subseteq Covered(calls, n)
  <2> SUFFICES ASSUME NEW i \in 1..n, Pending(rest, i, i) PROVE Pending(calls, i, i)
    BY DEF Covered
  <2>1. PICK c \in 1..m : rest[c][1] <= i /\ i <= rest[c][2]
    BY DEF Pending, m
  <2> QED  BY <1>3, <2>1 DEF Pending
<1>10. Cardinality(Covered(rest, n)) <= Cardinality(Covered(calls, n))
  <2> DEFINE D == Covered(rest, n)
             U == Covered(calls, n)
  <2>1. IsFiniteSet(U) /\ D \subseteq U
    BY <1>9, CoveredFinite
  <2> HIDE DEF D, U
  <2>2. Cardinality(D) <= Cardinality(U)
    BY <2>1, FS_Subset
  <2> QED  BY <2>2 DEF D, U
<1>11. Measure(rest, n) + 2 <= Measure(calls, n)
  <2>1. Cardinality(Covered(rest, n)) \in Nat /\ Cardinality(Covered(calls, n)) \in Nat
    BY CoveredFinite
  <2> QED  BY <1>1, <1>10, <2>1 DEF Measure, m
<1> QED  BY <1>6, <1>8, <1>11 DEF rest

(* A call that makes others. *)
FirstCall(calls, start, end) == start = calls[1][1] /\ end = calls[1][2]

LEMMA SplitMore ==
  ASSUME NEW n \in Nat, NEW E, NEW calls, Queue(calls, n), calls # <<>>,
         NEW list, ListOf(list, n, E), InOrder(list, calls, n),
         NEW start, NEW end, FirstCall(calls, start, end), start < end,
         NEW p, Parted(p, n, E, list, start, end),
         NEW more, Made(more, <<start, p.j - 1>>, <<p.j + 1, p.g - 1>>, <<p.g + 1, end>>, Tail(calls))
  PROVE  /\ Queue(more, n) /\ InOrder(p.list, more, n) /\ Same(list, p.list, n, 1, n)
         /\ Measure(more, n) + 2 <= Measure(calls, n)
<1> DEFINE rest == Tail(calls)
           m == Len(rest)
           j == p.j
           g == p.g
           new == p.list
<1>1. /\ rest \in Seq(Int \X Int) /\ m \in Nat /\ Len(calls) = m + 1
      /\ \A c \in 1..m : rest[c] = calls[c + 1]
  BY TailIs DEF Queue
<1>2. \A c \in 1..m + 1 : calls[c][1] \in Int /\ calls[c][2] \in Int
  BY <1>1, QueueIs
<1>3. start \in Int /\ end \in Int /\ 1 <= start /\ end <= n
  BY <1>1, <1>2 DEF Queue, FirstCall
<1>4. /\ ListOf(new, n, E) /\ Same(list, new, n, start, end)
      /\ j \in start..end /\ g \in start..end /\ j < g
      /\ \A i, h \in start..end : i < h => \/ new[h].value <= new[i].value
                                           \/ h < j
                                           \/ j < i /\ h < g
                                           \/ g < i
  BY DEF Parted
<1> HIDE DEF rest, m, j, g, new
<1>5. /\ more \in Seq(Int \X Int) /\ Len(more) = m + 3
      /\ more[1] = <<start, j - 1>> /\ more[2] = <<j + 1, g - 1>> /\ more[3] = <<g + 1, end>>
      /\ \A c \in 1..m : more[c + 3] = rest[c]
  <2> DEFINE x == <<start, j - 1>>
             y == <<j + 1, g - 1>>
             z == <<g + 1, end>>
  <2>1. x \in Int \X Int /\ y \in Int \X Int /\ z \in Int \X Int
    BY <1>3, <1>4
  <2>2. Made(more, x, y, z, rest)
    BY DEF rest, j, g
  <2> HIDE DEF x, y, z
  <2> DEFINE S == Int \X Int
  <2>3. x \in S /\ y \in S /\ z \in S /\ rest \in Seq(S)
    BY <1>1, <2>1
  <2> HIDE DEF S
  <2>4. /\ more \in Seq(S) /\ Len(more) = Len(rest) + 3
        /\ more[1] = x /\ more[2] = y /\ more[3] = z
        /\ \A c \in 1..Len(rest) : more[c + 3] = rest[c]
    BY <2>2, <2>3, MadeIs
  <2> QED  BY <2>4 DEF x, y, z, m, S
<1> DEFINE Part(c) == /\ more[c][1] \in Int /\ more[c][2] \in Int
                      /\ start <= more[c][1] /\ more[c][2] <= end /\ more[c][1] <= more[c][2] + 1
                      /\ \A i \in Int : more[c][1] <= i /\ i <= more[c][2] => i # j /\ i # g
<1>6. /\ more[1][1] = start /\ more[1][2] = j - 1 /\ more[2][1] = j + 1 /\ more[2][2] = g - 1
      /\ more[3][1] = g + 1 /\ more[3][2] = end
      /\ start <= j /\ j < g /\ g <= end /\ j \in Int /\ g \in Int
      /\ Part(1) /\ Part(2) /\ Part(3)
  <2>1. /\ more[1][1] = start /\ more[1][2] = j - 1 /\ more[2][1] = j + 1 /\ more[2][2] = g - 1
        /\ more[3][1] = g + 1 /\ more[3][2] = end
    BY <1>5
  <2>2. start <= j /\ j < g /\ g <= end /\ j \in Int /\ g \in Int
    BY <1>3, <1>4
  <2>3. Part(1)
    BY <1>3, <2>1, <2>2
  <2>4. Part(2)
    BY <1>3, <2>1, <2>2
  <2>5. Part(3)
    BY <1>3, <2>1, <2>2
  <2> QED  BY <2>1, <2>2, <2>3, <2>4, <2>5
<1> HIDE DEF Part
<1>7. ASSUME NEW c \in 4..m + 3
      PROVE  /\ c - 2 \in 1..Len(calls) /\ c - 2 > 1 /\ more[c] = calls[c - 2] /\ end < more[c][1]
             /\ more[c][1] \in Int /\ more[c][2] \in Int
  <2>1. c - 3 \in 1..m /\ (c - 3) + 3 = c /\ (c - 3) + 1 = c - 2 /\ c - 2 \in 1..m + 1 /\ 1 < c - 2
    BY <1>1
  <2>2. more[c] = rest[c - 3] /\ rest[c - 3] = calls[c - 2]
    BY <1>1, <1>5, <2>1
  <2>3. calls[1][2] < calls[c - 2][1]
    <3>1. 1 \in 1..Len(calls) /\ c - 2 \in 1..Len(calls)
      BY <1>1, <2>1
    <3> QED  BY <2>1, <3>1 DEF Queue
  <2> QED  BY <1>1, <1>2, <2>1, <2>2, <2>3 DEF FirstCall
<1>8. \A c \in 1..m + 3 : c = 1 \/ c = 2 \/ c = 3 \/ c \in 4..m + 3
  BY <1>1
<1>9. ASSUME NEW c \in 1..m + 3 PROVE 1 <= more[c][1] /\ more[c][2] <= n /\ more[c][1] <= more[c][2] + 1
  <2>1. CASE c \in 4..m + 3
    BY <1>7, <2>1 DEF Queue
  <2>2. CASE c \in 1..3
    <3>1. Part(c)
      <4>1. c = 1 \/ c = 2 \/ c = 3
        BY <2>2
      <4> QED  BY <1>6, <4>1
    <3> QED  BY <1>3, <3>1 DEF Part
  <2>3. c \in 4..m + 3 \/ c \in 1..3
    BY <1>1
  <2> QED  BY <2>1, <2>2, <2>3
<1>10. ASSUME NEW c \in 1..m + 3, NEW d \in 1..m + 3, c < d PROVE more[c][2] < more[d][1]
  <2>1. CASE d \in 1..3
    <3>1. (c = 1 /\ (d = 2 \/ d = 3)) \/ (c = 2 /\ d = 3)
      BY <1>10, <2>1
    <3>2. more[1][2] < more[2][1] /\ more[1][2] < more[3][1] /\ more[2][2] < more[3][1]
      BY <1>6
    <3> QED  BY <3>1, <3>2
  <2>2. CASE c \in 1..3 /\ d \in 4..m + 3
    <3>1. c = 1 \/ c = 2 \/ c = 3
      BY <2>2
    <3>2. more[c][2] \in Int /\ more[c][2] <= end
      BY <1>6, <3>1 DEF Part
    <3>3. end < more[d][1] /\ more[d][1] \in Int
      BY <1>7, <2>2
    <3> QED  BY <1>3, <3>2, <3>3
  <2>3. CASE c \in 4..m + 3 /\ d \in 4..m + 3
    <3>1. c - 2 < d - 2
      BY <1>10, <2>3
    <3> QED  BY <1>7, <2>3, <3>1 DEF Queue
  <2>4. d \in 1..3 \/ (c \in 1..3 /\ d \in 4..m + 3) \/ (c \in 4..m + 3 /\ d \in 4..m + 3)
    BY <1>1, <1>10
  <2> QED  BY <2>1, <2>2, <2>3, <2>4
<1>11. Queue(more, n)
  BY <1>5, <1>9, <1>10 DEF Queue
<1>12. ASSUME NEW i \in 1..n, NEW h \in 1..n, i < h, Pending(calls, i, h), ~(start <= i /\ h <= end)
       PROVE  Pending(more, i, h) /\ ~(i \in start..end) /\ ~(h \in start..end)
  <2>1. PICK c \in 1..m + 1 : calls[c][1] <= i /\ h <= calls[c][2]
    BY <1>1, <1>12 DEF Pending
  <2>2. c # 1
    BY <1>12, <2>1 DEF FirstCall
  <2>3. c + 2 \in 4..m + 3 /\ (c + 2) - 2 = c
    BY <1>1, <2>2
  <2>4. more[c + 2] = calls[c] /\ end < more[c + 2][1] /\ more[c + 2][1] \in Int
    BY <1>7, <2>3
  <2>5. Pending(more, i, h)
    <3>1. c + 2 \in 1..Len(more)
      BY <1>5, <2>3
    <3> QED  BY <2>1, <2>4, <3>1 DEF Pending
  <2>6. end < calls[c][1] /\ calls[c][1] \in Int
    BY <2>4
  <2>7. end < i
    BY <1>3, <2>1, <2>6
  <2> QED  BY <1>3, <1>12, <2>5, <2>7
<1>13. ASSUME NEW i \in start..end, NEW h \in start..end, i < h
       PROVE  new[h].value <= new[i].value \/ Pending(more, i, h)
  <2>0. 1 \in 1..Len(more) /\ 2 \in 1..Len(more) /\ 3 \in 1..Len(more)
    BY <1>1, <1>5
  <2>1. \/ new[h].value <= new[i].value
        \/ h < j
        \/ j < i /\ h < g
        \/ g < i
    BY <1>4, <1>13
  <2>2. CASE h < j
    <3>1. start <= i /\ h <= j - 1
      BY <1>3, <1>4, <2>2
    <3> QED  BY <1>6, <2>0, <3>1 DEF Pending
  <2>3. CASE j < i /\ h < g
    <3>1. j + 1 <= i /\ h <= g - 1
      BY <1>3, <1>4, <2>3
    <3> QED  BY <1>6, <2>0, <3>1 DEF Pending
  <2>4. CASE g < i
    <3>1. g + 1 <= i /\ h <= end
      BY <1>3, <1>4, <2>4
    <3> QED  BY <1>6, <2>0, <3>1 DEF Pending
  <2> QED  BY <2>1, <2>2, <2>3, <2>4
<1>14. ASSUME NEW i \in 1..n, NEW h \in 1..n, i < h PROVE new[h].value <= new[i].value \/ Pending(more, i, h)
  <2>1. start \in 1..n /\ end \in 1..n /\ start..end \subseteq 1..n
    BY <1>3
  <2>2. CASE i \in start..end /\ h \in start..end
    BY <1>13, <1>14, <2>2
  <2>3. CASE i \in start..end /\ h \notin start..end
    <3>1. PICK k \in start..end : new[i] = list[k]
      BY <1>4, <2>3 DEF Same
    <3>2. new[h] = list[h]
      BY <1>4, <2>3 DEF Same
    <3>3. k \in 1..n /\ k < h
      BY <1>3, <1>14, <2>1, <2>3
    <3>4. ~Pending(calls, k, h)
      <4>1. ~(start <= k /\ h <= end)
        BY <1>3, <2>3, <3>3
      <4>2. k \in start..end
        OBVIOUS
      <4> QED  BY <1>12, <3>3, <4>1, <4>2
    <3> QED  BY <3>1, <3>2, <3>3, <3>4 DEF InOrder
  <2>4. CASE i \notin start..end /\ h \in start..end
    <3>1. PICK k \in start..end : new[h] = list[k]
      BY <1>4, <2>4 DEF Same
    <3>2. new[i] = list[i]
      BY <1>4, <2>4 DEF Same
    <3>3. k \in 1..n /\ i < k
      BY <1>3, <1>14, <2>1, <2>4
    <3>4. ~Pending(calls, i, k)
      <4>1. ~(start <= i /\ k <= end)
        BY <1>3, <2>4, <3>3
      <4>2. k \in start..end
        OBVIOUS
      <4> QED  BY <1>12, <3>3, <4>1, <4>2
    <3> QED  BY <3>1, <3>2, <3>3, <3>4 DEF InOrder
  <2>5. CASE i \notin start..end /\ h \notin start..end
    <3>1. new[i] = list[i] /\ new[h] = list[h]
      BY <1>4, <2>5 DEF Same
    <3>2. list[h].value <= list[i].value \/ Pending(calls, i, h)
      BY <1>14 DEF InOrder
    <3>3. ~(start <= i /\ h <= end)
      BY <1>3, <1>14, <2>5
    <3> QED  BY <1>12, <1>14, <3>1, <3>2, <3>3
  <2> QED  BY <2>2, <2>3, <2>4, <2>5
<1>15. InOrder(new, more, n)
  BY <1>14 DEF InOrder
<1>16. Same(list, new, n, 1, n)
  <2>1. start..end \subseteq 1..n
    BY <1>3
  <2>2. ASSUME NEW i \in 1..n PROVE (\E h \in 1..n : new[i] = list[h]) /\ \E h \in 1..n : list[i] = new[h]
    <3>1. CASE i \in start..end
      <4>1. (\E h \in start..end : new[i] = list[h]) /\ \E h \in start..end : list[i] = new[h]
        BY <1>4, <3>1 DEF Same
      <4> QED  BY <2>1, <4>1
    <3>2. CASE i \notin start..end
      <4>1. new[i] = list[i]
        BY <1>4, <3>2 DEF Same
      <4> QED  BY <4>1
    <3> QED  BY <3>1, <3>2
  <2> QED  BY <2>2 DEF Same
<1>17. Covered(more, n) \subseteq (Covered(calls, n) \ {j}) \ {g} /\ j \in Covered(calls, n) /\ g \in Covered(calls, n) \ {j}
  <2>0. 1 \in 1..Len(calls) /\ j \in 1..n /\ g \in 1..n /\ j # g
    BY <1>1, <1>3, <1>4
  <2>1. \A i \in start..end : Pending(calls, i, i)
    BY <1>3, <2>0 DEF Pending, FirstCall
  <2>2. ASSUME NEW i \in 1..n, Pending(more, i, i) PROVE i # j /\ i # g /\ Pending(calls, i, i)
    <3>1. PICK c \in 1..m + 3 : more[c][1] <= i /\ i <= more[c][2]
      BY <1>5, <2>2 DEF Pending
    <3>2. CASE c \in 1..3
      <4>1. c = 1 \/ c = 2 \/ c = 3
        BY <3>2
      <4>2. i # j /\ i # g /\ i \in start..end
        BY <1>3, <1>6, <3>1, <4>1 DEF Part
      <4> QED  BY <2>1, <4>2
    <3>3. CASE c \in 4..m + 3
      <4>1. c - 2 \in 1..Len(calls) /\ more[c] = calls[c - 2] /\ end < more[c][1] /\ more[c][1] \in Int
        BY <1>7, <3>3
      <4>2. i # j /\ i # g
        BY <1>3, <1>4, <3>1, <4>1
      <4> QED  BY <3>1, <4>1, <4>2 DEF Pending
    <3> QED  BY <1>8, <3>2, <3>3
  <2> QED  BY <1>4, <2>0, <2>1, <2>2 DEF Covered
<1>18. Cardinality(Covered(more, n)) + 2 <= Cardinality(Covered(calls, n))
  <2> DEFINE D == Covered(more, n)
             U == Covered(calls, n)
             V == U \ {j}
             W == V \ {g}
  <2>1. IsFiniteSet(U) /\ D \subseteq W /\ j \in U /\ g \in V
    BY <1>17, CoveredFinite
  <2> HIDE DEF D, U
  <2>2. IsFiniteSet(V) /\ Cardinality(V) = Cardinality(U) - 1
    BY <2>1, FS_RemoveElement
  <2> HIDE DEF V
  <2>3. IsFiniteSet(W) /\ Cardinality(W) = Cardinality(V) - 1
    BY <2>1, <2>2, FS_RemoveElement
  <2> HIDE DEF W
  <2>4. IsFiniteSet(D) /\ Cardinality(D) <= Cardinality(W)
    BY <2>1, <2>3, FS_Subset
  <2>5. Cardinality(D) \in Nat /\ Cardinality(U) \in Nat /\ Cardinality(V) \in Nat /\ Cardinality(W) \in Nat
    BY <2>1, <2>2, <2>3, <2>4, FS_CardinalityType
  <2>6. Cardinality(D) + 2 <= Cardinality(U)
    BY <2>2, <2>3, <2>4, <2>5
  <2> QED  BY <2>6 DEF D, U
<1>19. Measure(more, n) + 2 <= Measure(calls, n)
  <2>1. Cardinality(Covered(more, n)) \in Nat /\ Cardinality(Covered(calls, n)) \in Nat
    BY CoveredFinite
  <2>2. Len(calls) = m + 1 /\ Len(more) = m + 3 /\ m \in Nat
    BY <1>1, <1>5
  <2> DEFINE x == Cardinality(Covered(more, n))
             y == Cardinality(Covered(calls, n))
  <2>3. x \in Nat /\ y \in Nat /\ x + 2 <= y
    BY <1>18, <2>1
  <2>4. Measure(more, n) = 2 * (m + 3) + 3 * x /\ Measure(calls, n) = 2 * (m + 1) + 3 * y
    BY <2>2 DEF Measure
  <2> HIDE DEF x, y
  <2> QED  BY <2>2, <2>3, <2>4
<1> QED  BY <1>11, <1>15, <1>16, <1>19 DEF new

LEMMA SortMore ==
  ASSUME NEW n \in Nat, NEW E, \A e \in E : e.value \in Int, NEW list, NEW t \in Nat,
         NEW s, SortAt(s, n, E, list, t)
  PROVE  SortAt(QuickSort(s), n, E, list, t + 1)
<1> DEFINE calls == s.calls
           now == s.list
           f == QuickSort(s)
           start == Head(calls)[1]
           end == Head(calls)[2]
           p == DualPivotQuickSort_Partition(now, start, end)
           more == <<<<start, p.j - 1>>, <<p.j + 1, p.g - 1>>, <<p.g + 1, end>>>> \o Tail(calls)
<1>1. f = (IF calls = <<>> THEN s
           ELSE IF start < end THEN [list |-> p.list, calls |-> more]
           ELSE [s EXCEPT !.calls = Tail(@)])
  BY DEF QuickSort, ThreeCalls
<1>2. /\ DOMAIN s = {"list", "calls"} /\ ListOf(now, n, E) /\ Same(list, now, n, 1, n)
      /\ Queue(calls, n) /\ InOrder(now, calls, n)
      /\ calls = <<>> \/ Measure(calls, n) + 2 * t <= 3 * n + 2
  BY DEF SortAt
<1>3. calls # <<>> => FirstCall(calls, start, end) /\ start \in Int /\ end \in Int /\ 1 <= start /\ end <= n
  <2> SUFFICES ASSUME calls # <<>> PROVE FirstCall(calls, start, end) /\ start \in Int /\ end \in Int /\ 1 <= start /\ end <= n
    OBVIOUS
  <2>1. Head(calls) = calls[1] /\ 1 \in 1..Len(calls)
    BY <1>2, TailIs DEF Queue
  <2>2. calls[1][1] \in Int /\ calls[1][2] \in Int /\ 1 <= calls[1][1] /\ calls[1][2] <= n
    BY <1>2, <2>1, QueueIs DEF Queue
  <2> QED  BY <2>1, <2>2 DEF FirstCall
<1>4. \A q : Measure(q, n) \in Int \/ ~Queue(q, n)
  <2> SUFFICES ASSUME NEW q, Queue(q, n) PROVE Measure(q, n) \in Int
    OBVIOUS
  <2>1. Len(q) \in Nat /\ Cardinality(Covered(q, n)) \in Nat
    BY QueueIs, CoveredFinite
  <2> QED  BY <2>1 DEF Measure
<1>5. CASE calls = <<>>
  <2>1. f = s
    BY <1>1, <1>5
  <2> HIDE DEF f
  <2>2. SortAt(s, n, E, list, t + 1)
    BY <1>2, <1>5 DEF SortAt
  <2> QED  BY <2>1, <2>2 DEF f
<1>6. CASE calls # <<>> /\ start < end
  <2>1. Parted(p, n, E, now, start, end)
    <3> HIDE DEF start, end, now
    <3>1. start \in 1..n /\ end \in 1..n
      BY <1>3, <1>6
    <3> QED  BY <1>2, <1>6, <3>1, PartitionIs
  <2>2. Made(more, <<start, p.j - 1>>, <<p.j + 1, p.g - 1>>, <<p.g + 1, end>>, Tail(calls))
    BY DEF Made
  <2>3. f = [list |-> p.list, calls |-> more]
    BY <1>1, <1>6
  <2> HIDE DEF f, more, p, start, end, calls, now
  <2>4. /\ Queue(more, n) /\ InOrder(p.list, more, n) /\ Same(now, p.list, n, 1, n)
        /\ Measure(more, n) + 2 <= Measure(calls, n)
    BY <1>2, <1>3, <1>6, <2>1, <2>2, SplitMore
  <2>5. Same(list, p.list, n, 1, n)
    BY <1>2, <2>4, SameAgain
  <2>6. ListOf(p.list, n, E)
    BY <2>1 DEF Parted
  <2>7. Measure(more, n) + 2 * (t + 1) <= 3 * n + 2
    BY <1>2, <1>4, <1>6, <2>4
  <2>8. DOMAIN f = {"list", "calls"} /\ f.list = p.list /\ f.calls = more
    BY <2>3
  <2>9. SortAt(f, n, E, list, t + 1)
    BY <2>4, <2>5, <2>6, <2>7, <2>8 DEF SortAt
  <2> QED  BY <2>9 DEF f
<1>7. CASE calls # <<>> /\ ~(start < end)
  <2>1. f = [s EXCEPT !.calls = Tail(@)]
    BY <1>1, <1>7
  <2>2. DOMAIN f = {"list", "calls"} /\ f.list = now /\ f.calls = Tail(calls)
    BY <1>2, <2>1
  <2>3. ~(calls[1][1] < calls[1][2])
    BY <1>3, <1>7 DEF FirstCall
  <2> HIDE DEF f, p, start, end, calls, now
  <2>4. /\ Queue(Tail(calls), n) /\ InOrder(now, Tail(calls), n)
        /\ Measure(Tail(calls), n) + 2 <= Measure(calls, n)
    BY <1>2, <1>7, <2>3, DropMore
  <2> DEFINE rest == Tail(calls)
  <2>5. Queue(rest, n) /\ InOrder(now, rest, n) /\ f.calls = rest
        /\ Measure(rest, n) \in Int /\ Measure(calls, n) \in Int /\ Measure(rest, n) + 2 <= Measure(calls, n)
    BY <1>2, <1>4, <2>2, <2>4
  <2> HIDE DEF rest
  <2>6. Measure(rest, n) + 2 * (t + 1) <= 3 * n + 2
    BY <1>2, <1>7, <2>5
  <2>7. SortAt(f, n, E, list, t + 1)
    BY <1>2, <2>2, <2>5, <2>6 DEF SortAt
  <2> QED  BY <2>7 DEF f
<1> QED  BY <1>5, <1>6, <1>7

(* sort_by_value (lta_types.h:193), for every list: the entries are those  *)
(* of the list, in the order of their values, the largest first.           *)
THEOREM SortIsRight ==
  ASSUME NEW E, \A e \in E : e.value \in Int
  PROVE  \A list \in Seq(E) : SortAgrees(list)
<1> SUFFICES ASSUME NEW list \in Seq(E) PROVE SortAgrees(list)
  OBVIOUS
<1> DEFINE n == Len(list)
           m == Calls(list)
           base == [list |-> list, calls |-> <<<<1, n>>>>]
           seq == [k \in 1..m |-> k]
           sorted == sort_by_value(list)
<1>1. n \in Nat /\ m \in Nat /\ m = 2 * n + 1 /\ ListOf(list, n, E) /\ DOMAIN seq = 1..m
  BY DEF Calls, ListOf
<1>2. sorted = Fold("sort", <<>>, base, seq, 1..m).list
  <2> HIDE DEF base, seq, m
  <2>1. FoldLeft(LAMBDA s, k : QuickSort(s), base, seq) = Fold("sort", <<>>, base, seq, 1..m)
    BY <1>1 DEF FoldLeft, MapThenFoldSet, Fold, Folds, With
  <2> QED  BY <2>1 DEF sort_by_value, base, seq, m
<1>3. DOMAIN base = {"list", "calls"} /\ base.list = list /\ base.calls = <<<<1, n>>>>
  OBVIOUS
<1> HIDE DEF n, m, base, seq, sorted
<1>4. PICK r : Steps(r, "sort", <<>>, base, seq, m) /\ sorted = r[m].list
  BY <1>1, <1>2, FoldSteps
<1> DEFINE C == {t \in Nat : t <= m => SortAt(r[t], n, E, list, t)}
<1>5. 0 \in C
  <2>1. r[0] = base
    BY <1>4 DEF Steps
  <2> DEFINE calls == <<<<1, n>>>>
  <2>2. Len(calls) = 1 /\ calls[1] = <<1, n>> /\ calls[1][1] = 1 /\ calls[1][2] = n /\ calls \in Seq(Int \X Int)
    BY <1>1
  <2>3. base.calls = calls
    BY <1>3
  <2> HIDE DEF calls
  <2>4. \A c \in 1..Len(calls) : c = 1
    BY <2>2
  <2>5. Queue(calls, n)
    <3>1. \A c \in 1..Len(calls) : 1 <= calls[c][1] /\ calls[c][2] <= n /\ calls[c][1] <= calls[c][2] + 1
      BY <1>1, <2>2, <2>4
    <3>2. \A c, d \in 1..Len(calls) : ~(c < d)
      BY <2>2
    <3> QED  BY <2>2, <3>1, <3>2 DEF Queue
  <2>6. ASSUME NEW i \in 1..n, NEW h \in 1..n PROVE Pending(calls, i, h)
    <3>1. 1 \in 1..Len(calls) /\ calls[1][1] <= i /\ h <= calls[1][2]
      BY <1>1, <2>2
    <3> QED  BY <3>1 DEF Pending
  <2>7. InOrder(list, calls, n)
    BY <2>6 DEF InOrder
  <2>8. Same(list, list, n, 1, n)
    BY DEF Same
  <2>9. Measure(calls, n) + 2 * 0 <= 3 * n + 2
    <3> DEFINE U == Covered(calls, n)
    <3>1. IsFiniteSet(1..n) /\ U \subseteq 1..n
      BY <1>1, FS_Interval DEF Covered
    <3>2. Cardinality(1..n) = n
      <4>1. 1 \in Int /\ n \in Int
        BY <1>1
      <4>2. Cardinality(1..n) = IF 1 > n THEN 0 ELSE n - 1 + 1
        BY <4>1, FS_Interval
      <4> QED  BY <1>1, <4>2
    <3>3. Cardinality(U) \in Nat
      BY <1>1, CoveredFinite
    <3> HIDE DEF U
    <3>4. Cardinality(U) <= Cardinality(1..n)
      BY <3>1, FS_Subset
    <3>5. Cardinality(U) <= n
      BY <3>2, <3>4
    <3>6. Measure(calls, n) = 2 * 1 + 3 * Cardinality(U)
      BY <2>2 DEF Measure, U
    <3> QED  BY <1>1, <3>3, <3>5, <3>6
  <2>10. SortAt(base, n, E, list, 0)
    BY <1>1, <1>3, <2>3, <2>5, <2>7, <2>8, <2>9 DEF SortAt
  <2> QED  BY <2>1, <2>10
<1>6. ASSUME NEW t \in Nat, t \in C PROVE t + 1 \in C
  <2> SUFFICES ASSUME t + 1 <= m PROVE SortAt(r[t + 1], n, E, list, t + 1)
    OBVIOUS
  <2> DEFINE now == r[t]
             next == r[t + 1]
  <2>1. SortAt(now, n, E, list, t) /\ t + 1 \in 1..m /\ (t + 1) - 1 = t
    BY <1>1, <1>6
  <2>2. next = With("sort", now, seq[t + 1], <<>>)
    BY <1>4, <2>1 DEF Steps
  <2>3. next = QuickSort(now)
    BY <2>2 DEF With
  <2> HIDE DEF now, next
  <2>4. SortAt(next, n, E, list, t + 1)
    BY <1>1, <2>1, <2>3, SortMore
  <2> QED  BY <2>4 DEF next
<1>7. \A t \in Nat : t \in C
  <2>1. \A t \in Nat : t \in C => t + 1 \in C
    BY <1>6
  <2> HIDE DEF C
  <2> QED  BY <1>5, <2>1, NatSetInduction
<1>8. SortAt(r[m], n, E, list, m)
  BY <1>1, <1>7
<1> DEFINE calls == r[m].calls
<1>9. /\ ListOf(sorted, n, E) /\ Same(list, sorted, n, 1, n)
      /\ Queue(calls, n) /\ InOrder(sorted, calls, n)
      /\ calls = <<>> \/ Measure(calls, n) + 2 * m <= 3 * n + 2
  BY <1>4, <1>8 DEF SortAt
<1> HIDE DEF calls
<1>10. calls = <<>>
  <2> SUFFICES ASSUME calls # <<>> PROVE FALSE
    OBVIOUS
  <2>1. Len(calls) \in Nat /\ Len(calls) # 0
    BY <1>9 DEF Queue
  <2>2. Cardinality(Covered(calls, n)) \in Nat
    BY <1>1, CoveredFinite
  <2>3. Measure(calls, n) \in Int /\ Measure(calls, n) >= 2
    BY <2>1, <2>2 DEF Measure
  <2>4. Measure(calls, n) + 2 * m <= 3 * n + 2
    BY <1>9
  <2> QED  BY <1>1, <2>3, <2>4
<1>11. \A i, h \in 1..n : ~Pending(calls, i, h)
  BY <1>10 DEF Pending
<1>12. \A i, h \in 1..n : i < h => sorted[h].value <= sorted[i].value
  BY <1>9, <1>11 DEF InOrder
<1>13. Len(sorted) = n /\ DOMAIN sorted = 1..n /\ DOMAIN list = 1..n
  BY <1>1, <1>9 DEF ListOf
<1>14. ToSet(sorted) = ToSet(list)
  <2>1. ToSet(sorted) = {sorted[i] : i \in 1..n} /\ ToSet(list) = {list[i] : i \in 1..n}
    BY <1>13 DEF ToSet
  <2>2. ASSUME NEW i \in 1..n PROVE (\E h \in 1..n : sorted[i] = list[h]) /\ \E h \in 1..n : list[i] = sorted[h]
    BY <1>9 DEF Same
  <2>3. ASSUME NEW x \in ToSet(sorted) PROVE x \in ToSet(list)
    <3>1. PICK i \in 1..n : x = sorted[i]
      BY <2>1
    <3> QED  BY <2>1, <2>2, <3>1
  <2>4. ASSUME NEW x \in ToSet(list) PROVE x \in ToSet(sorted)
    <3>1. PICK i \in 1..n : x = list[i]
      BY <2>1
    <3> QED  BY <2>1, <2>2, <3>1
  <2> QED  BY <2>3, <2>4
<1>15. ASSUME NEW i \in 2..n PROVE sorted[i].value <= sorted[i - 1].value
  <2>1. i \in 1..n /\ i - 1 \in 1..n /\ i - 1 < i
    BY <1>1
  <2> QED  BY <1>12, <2>1
<1> QED  BY <1>13, <1>14, <1>15 DEF SortAgrees, sorted, n
-----------------------------------------------------------------------------
(* The invariant.                                                          *)

LEMMA SeriesIsSeq ==
  ASSUME NEW S, NEW m \in Nat, NEW s \in Series(S, m)
  PROVE  s \in Seq(S) /\ DOMAIN s = 1..Len(s)
<1>1. PICK k \in 0..m : s \in [1..k -> S]
  BY DEF Series
<1>2. k \in Nat
  OBVIOUS
<1>3. s \in Seq(S)
  BY <1>1, <1>2
<1> QED  BY <1>3

(* StatisticsAgree, without a bound on the series, of which the run has    *)
(* those that are short.                                                   *)
THEOREM StatisticsAlwaysAgree == Spec => []StatisticsAgree
<1>1. StatisticsAgree
  <2>1. ASSUME NEW samples \in Series({0, 1, 3, 7}, 5) PROVE ExactAgrees(samples) /\ RangeAgrees(samples)
    <3>1. samples \in Seq(Int)
      <4>1. samples \in Seq({0, 1, 3, 7})
        BY SeriesIsSeq
      <4> QED  BY <4>1
    <3> QED  BY <3>1, ExactIsRight, RangeIsRight
  <2>2. ASSUME NEW measures \in Series({0, 2, 3} \X Machines, 4) PROVE MeasuresAgree(measures)
    <3>1. measures \in Seq(Int \X Machines)
      <4> DEFINE S == {0, 2, 3} \X Machines
                 T == Int \X Machines
      <4>1. S \subseteq T
        OBVIOUS
      <4> HIDE DEF S, T
      <4>2. measures \in Seq(S)
        <5>1. measures \in Series(S, 4)
          BY DEF S
        <5> QED  BY <5>1, SeriesIsSeq
      <4>3. measures \in Seq(T)
        BY <4>1, <4>2
      <4> QED  BY <4>3 DEF T
    <3> QED  BY <3>1, MeasuresAreRight
  <2>3. ASSUME NEW counts \in Series(1..3, 6)
        PROVE  SortAgrees([i \in DOMAIN counts |-> [index |-> i, value |-> counts[i]]])
    <3> DEFINE E == [index : Nat, value : Int]
               list == [i \in DOMAIN counts |-> [index |-> i, value |-> counts[i]]]
    <3>1. counts \in Seq(1..3) /\ DOMAIN counts = 1..Len(counts)
      BY SeriesIsSeq
    <3>2. list \in Seq(E)
      <4>1. list \in [1..Len(counts) -> E]
        BY <3>1
      <4>2. Len(counts) \in Nat
        BY <3>1
      <4> HIDE DEF list, E
      <4> QED  BY <4>1, <4>2
    <3>3. \A e \in E : e.value \in Int
      OBVIOUS
    <3> HIDE DEF list, E
    <3>4. SortAgrees(list)
      BY <3>2, <3>3, SortIsRight
    <3> QED  BY <3>4 DEF list
  <2>4. ASSUME NEW started \in Series({1, 2, 4, 5, 7, 9}, 4) PROVE DaysAgree(started)
    <3>1. started \in Seq(Nat)
      <4>1. started \in Seq({1, 2, 4, 5, 7, 9})
        BY SeriesIsSeq
      <4> QED  BY <4>1
    <3> QED  BY <3>1, DaysAreCounted
  <2> QED  BY <2>1, <2>2, <2>3, <2>4 DEF StatisticsAgree
<1> QED  BY <1>1, PTL
=============================================================================
