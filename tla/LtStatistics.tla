----------------------------- MODULE LtStatistics -----------------------------
(***************************************************************************)
(* The statistics that ltanalyze keeps of what the logs report             *)
(* (ltanalyze/src/lta_op.h), and what is left of them when an analysis is  *)
(* saved and loaded (ltanalyze/src/lta_io.h): exact values, value ranges   *)
(* that merge their buckets, times with the machine they were measured on, *)
(* lists of errors, and the days on which logs were started.               *)
(*                                                                         *)
(* Samples are integers.  An average is kept as a sum and a count, which   *)
(* is what the code's adjust(old, new, count) computes without rounding.   *)
(***************************************************************************)
EXTENDS Integers, SequencesExt

CONSTANTS
  RangeDivisor,  \* a sample joins a bucket nearer than this part of the range (128)
  MaxBuckets,    \* a value range has fewer buckets than this (256)
  PerfSizes,     \* lt_perf_data_sizes, the limits of the histogram of times
  DaysBack,      \* a log that is older than the first day by more is not counted (365)
  DaysForward    \* as is one that is later than the last day by as much (356)

ASSUME StatisticsAssumption ==
  /\ RangeDivisor \in Nat \ {0}
  /\ MaxBuckets \in Nat \ {0, 1}
  /\ PerfSizes \in Seq(Int)
  /\ \A i, j \in DOMAIN PerfSizes : i < j => PerfSizes[i] < PerfSizes[j]
  /\ DaysBack \in Nat
  /\ DaysForward \in Nat \ {0}

Unknown == "<UNKNOWN>"   \* the names in a lt_short_hw_info before the system information is read
NoOp == "no operation"   \* hasLastOperation is false

Least(a, b) == IF a <= b THEN a ELSE b
Greatest(a, b) == IF a >= b THEN a ELSE b

(* What all counted samples share; the bounds mean something once count > 0. *)
Summary == [count |-> 0, sum |-> 0, min |-> 0, max |-> 0]

SummaryWith(s, v) ==
  [count |-> s.count + 1,
   sum |-> s.sum + v,
   min |-> IF s.count = 0 THEN v ELSE Least(s.min, v),
   max |-> IF s.count = 0 THEN v ELSE Greatest(s.max, v)]

-----------------------------------------------------------------------------
(* lt_values_exact: every value, those seen once apart from the others. *)

NoExact == [all |-> Summary, single |-> {}, multiple |-> EmptyBag]

ExactWith(e, v) ==
  LET again == v \in BagToSet(e.multiple)
      second == ~again /\ v \in e.single
  IN [all |-> SummaryWith(e.all, v),
      single |-> IF again THEN e.single
                 ELSE IF second THEN e.single \ {v} ELSE e.single \cup {v},
      multiple |-> e.multiple (+) [x \in {y \in {v} : again \/ second} |-> IF again THEN 1 ELSE 2]]

(* The samples that are told of one by one add up to those that were counted. *)
ExactSound(e) ==
  /\ e.single \cap BagToSet(e.multiple) = {}
  /\ \A v \in BagToSet(e.multiple) : e.multiple[v] >= 2
  /\ e.all.count = Cardinality(e.single) + SumFunction(e.multiple)
  /\ e.all.sum = SumSet(e.single) + MapThenSumSet(LAMBDA v : v * e.multiple[v], BagToSet(e.multiple))
  /\ LET values == e.single \cup BagToSet(e.multiple)
     IN values # {} => /\ e.all.min \in values /\ e.all.max \in values
                       /\ \A v \in values : e.all.min <= v /\ v <= e.all.max

-----------------------------------------------------------------------------
(* lt_value_range: buckets of samples that are close to each other.  The   *)
(* place of a bucket is its average, sum / weight.                         *)

NoRange == [all |-> Summary, buckets |-> <<>>]

(* How far sample v is from bucket b, times the weight of b. *)
Off(b, v) == LET d == b.sum - v * b.weight IN IF d >= 0 THEN d ELSE -d

(* The first of the buckets nearest to v, if it is near enough. *)
BestFit(buckets, v, spread) ==
  LET fit == {i \in DOMAIN buckets :
                Off(buckets[i], v) * RangeDivisor <= spread * buckets[i].weight}
      Closer(i, j) == Off(buckets[i], v) * buckets[j].weight < Off(buckets[j], v) * buckets[i].weight
  IN {i \in fit : \A j \in fit : ~Closer(j, i) /\ (j < i => Closer(i, j))}

(* How far two buckets are apart, as a fraction. *)
Gap(a, b) ==
  LET d == a.sum * b.weight - b.sum * a.weight
  IN [num |-> IF d >= 0 THEN d ELSE -d, den |-> a.weight * b.weight]
Smaller(p, q) == p.num * q.den < q.num * p.den

(* The first of the closest pairs, in the order of the two loops. *)
ClosestPair(buckets) ==
  LET pairs == {p \in (DOMAIN buckets) \X (DOMAIN buckets) : p[1] < p[2]}
      gap == [p \in pairs |-> Gap(buckets[p[1]], buckets[p[2]])]
      Earlier(p, q) == p[1] < q[1] \/ (p[1] = q[1] /\ p[2] < q[2])
  IN CHOOSE p \in pairs : \A q \in pairs : ~Smaller(gap[q], gap[p]) /\ (Earlier(q, p) => Smaller(gap[p], gap[q]))

\* Mutant of Joined: the weight of b is taken for one.
Joined_AsOne(a, b) == [sum |-> a.sum + b.sum, weight |-> a.weight + 1]

Joined(a, b) == [sum |-> a.sum + b.sum, weight |-> a.weight + b.weight]

(* One round of the loop that combines buckets when there are too many. *)
Combined(buckets) ==
  LET p == ClosestPair(buckets)
  IN RemoveAt(ReplaceAt(buckets, p[1], Joined(buckets[p[1]], buckets[p[2]])), p[2])

RangeWith(r, v) ==
  LET all == SummaryWith(r.all, v)
      best == BestFit(r.buckets, v, all.max - all.min)
      one == [sum |-> v, weight |-> 1]
      appended == Append(r.buckets, one)
  IN [all |-> all,
      buckets |-> IF best # {}
                  THEN [i \in DOMAIN r.buckets |-> IF i \in best THEN Joined(r.buckets[i], one) ELSE r.buckets[i]]
                  ELSE IF Len(appended) < MaxBuckets THEN appended ELSE Combined(appended)]

(* No sample is lost in the buckets, and none is moved out of the bounds.  *)
RangeSound(r) ==
  /\ Len(r.buckets) < MaxBuckets
  /\ r.all.count = FoldSeq(LAMBDA b, n : n + b.weight, 0, r.buckets)
  /\ r.all.sum = FoldSeq(LAMBDA b, n : n + b.sum, 0, r.buckets)
  /\ \A i \in DOMAIN r.buckets :
       LET b == r.buckets[i] IN r.all.min * b.weight <= b.sum /\ b.sum <= r.all.max * b.weight

-----------------------------------------------------------------------------
(* lt_perf_value_range: a range that knows where its bounds were measured. *)

NoMetric == [range |-> NoRange, minInfo |-> Unknown, maxInfo |-> Unknown]

\* Mutant of MetricWith: any new bound is taken for both.
MetricWith_BothBounds(m, v, info) ==
  LET old == m.range.all
      boundsChanged == old.count = 0 \/ v < old.min \/ v > old.max
  IN [range |-> RangeWith(m.range, v),
      minInfo |-> IF boundsChanged THEN info ELSE m.minInfo,
      maxInfo |-> IF boundsChanged THEN info ELSE m.maxInfo]

MetricWith(m, v, info) ==
  LET old == m.range.all
      range == RangeWith(m.range, v)
      boundsChanged == old.count = 0 \/ v < old.min \/ v > old.max
  IN [range |-> range,
      minInfo |-> IF boundsChanged /\ range.all.min = v THEN info ELSE m.minInfo,
      maxInfo |-> IF boundsChanged /\ range.all.max = v THEN info ELSE m.maxInfo]

(* lt_perf_data: times of the profiler, with the machine and the operation *)
(* of the shortest and of the longest.                                     *)

NoPerf == [all |-> Summary, hist |-> EmptyBag, minInfo |-> Unknown, maxInfo |-> Unknown,
           minLastOperation |-> NoOp, maxLastOperation |-> NoOp]

(* The first limit that is greater; the last bucket takes the others. *)
HistIndex(ms) == Min({i \in DOMAIN PerfSizes : ms < PerfSizes[i]} \cup {Len(PerfSizes) + 1})

PerfWith(p, ms, info, op) ==
  LET all == SummaryWith(p.all, ms)
  IN [all |-> all,
      hist |-> p.hist (+) SetToBag({HistIndex(ms)}),
      minInfo |-> IF all.min = ms THEN info ELSE p.minInfo,
      maxInfo |-> IF all.max = ms THEN info ELSE p.maxInfo,
      minLastOperation |-> IF all.min = ms THEN op ELSE p.minLastOperation,
      maxLastOperation |-> IF all.max = ms THEN op ELSE p.maxLastOperation]

(* What a lt_perf_data is after serialize and deserialize. *)
PerfLoaded(p) == [p EXCEPT !.maxInfo = p.minInfo]

-----------------------------------------------------------------------------
(* A list of errors, in which get_error_data and get_crash_data look for   *)
(* an error with the same code, description and stack trace.               *)

\* Mutants: a new error is put first, or is taken for the last one.
WithError_First(list, error) == IF Contains(list, error) THEN list ELSE <<error>> \o list
ErrorIndex_Last(list, error) == Len(list)

WithError(list, error) == IF Contains(list, error) THEN list ELSE Append(list, error)
ErrorIndex(list, error) == CHOOSE i \in DOMAIN list : list[i] = error

-----------------------------------------------------------------------------
(* The days of an analysis: how many logs were started on each of a series *)
(* of days.                                                                *)

NoDays == [first |-> 0, count |-> <<>>]

Zeros(n) == [i \in 1..n |-> 0]

(* Whether a log that was started on a day is counted. *)
DayCounts(days, day) ==
  \/ days.count = <<>>
  \/ day + DaysBack >= days.first /\ day - days.first < Len(days.count) + DaysForward

\* Mutant of DaysUpTo: the series ends a day too early.
DaysUpTo_Short(days, day) ==
  LET before == days.first - day
      after == day - days.first - Len(days.count)
  IN IF days.count = <<>> THEN [first |-> day, count |-> <<0>>]
     ELSE IF before > 0 THEN [first |-> day, count |-> Zeros(before) \o days.count]
     ELSE IF after > 0 THEN [days EXCEPT !.count = @ \o Zeros(after)]
     ELSE days

(* The series that reaches up to day, where the log counts. *)
DaysUpTo(days, day) ==
  LET before == days.first - day
      after == day - days.first + 1 - Len(days.count)
  IN IF days.count = <<>> THEN [first |-> day, count |-> <<0>>]
     ELSE IF before > 0 THEN [first |-> day, count |-> Zeros(before) \o days.count]
     ELSE IF after > 0 THEN [days EXCEPT !.count = @ \o Zeros(after)]
     ELSE days

(* FATAL_IF: "Invalid List Identifer." *)
DayFound(days, day) == day - days.first + 1 \in DOMAIN days.count

DaysWith(days, day) ==
  LET series == DaysUpTo(days, day)
  IN IF ~DayCounts(days, day) \/ ~DayFound(series, day)
     THEN days
     ELSE [series EXCEPT !.count[day - series.first + 1] = @ + 1]

-----------------------------------------------------------------------------
(* What the statistics of a series of samples say, without regard to how   *)
(* they came about.                                                        *)

Times(series, x) == Cardinality({i \in DOMAIN series : series[i] = x})

SummaryAgrees(s, samples) ==
  LET values == ToSet(samples)
  IN /\ s.count = Len(samples)
     /\ s.sum = FoldSeq(+, 0, samples)
     /\ values # {} => /\ {s.min, s.max} \subseteq values
                       /\ \A v \in values : s.min <= v /\ v <= s.max

ExactAgrees(samples) ==
  LET e == FoldLeft(ExactWith, NoExact, samples)
  IN /\ SummaryAgrees(e.all, samples)
     /\ e.single = {v \in ToSet(samples) : Times(samples, v) = 1}
     /\ e.multiple = [v \in ToSet(samples) \ e.single |-> Times(samples, v)]

RangeAgrees(samples) ==
  LET r == FoldLeft(RangeWith, NoRange, samples)
  IN SummaryAgrees(r.all, samples) /\ RangeSound(r)

(* A measure is a value and the machine it was measured on.  A metric      *)
(* tells of the first machine with the least or the greatest value, a      *)
(* lt_perf_data of the last.                                               *)
MeasuresAgree(measures) ==
  LET samples == [i \in DOMAIN measures |-> measures[i][1]]
      metric == FoldLeft(LAMBDA m, x : MetricWith(m, x[1], x[2]), NoMetric, measures)
      perf == FoldLeft(LAMBDA p, x : PerfWith(p, x[1], x[2], NoOp), NoPerf, measures)
      At(v) == {i \in DOMAIN samples : samples[i] = v}
      Earliest(v) == measures[CHOOSE i \in At(v) : \A j \in At(v) : i <= j][2]
      Latest(v) == measures[CHOOSE i \in At(v) : \A j \in At(v) : j <= i][2]
  IN /\ SummaryAgrees(metric.range.all, samples) /\ SummaryAgrees(perf.all, samples)
     /\ \A k \in DOMAIN perf.hist : perf.hist[k] =
          Cardinality({i \in DOMAIN samples :
                         /\ k > 1 => PerfSizes[k - 1] <= samples[i]
                         /\ k <= Len(PerfSizes) => samples[i] < PerfSizes[k]})
     /\ SumFunction(perf.hist) = Len(samples)
     /\ measures # <<>> =>
          /\ metric.minInfo = Earliest(metric.range.all.min)
          /\ metric.maxInfo = Earliest(metric.range.all.max)
          /\ perf.minInfo = Latest(perf.all.min)
          /\ perf.maxInfo = Latest(perf.all.max)

(* Days that are all near each other are all counted, each in its place;   *)
(* of the others some are left out, and none is counted for another day.   *)
DaysAgree(started) ==
  LET days == FoldLeft(DaysWith, NoDays, started)
      near == \A d, e \in ToSet(started) : d - e <= Least(DaysBack, DaysForward)
      At(d) == IF DayFound(days, d) THEN days.count[d - days.first + 1] ELSE 0
  IN /\ \A i \in DOMAIN days.count : days.count[i] <= Times(started, days.first + i - 1)
     /\ \A d \in ToSet(started) : near => At(d) = Times(started, d)
=============================================================================
