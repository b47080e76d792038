--------------------------- MODULE LtAnalyzeProofs ---------------------------
(***************************************************************************)
(* LtAnalyze, for any sub systems, states, operations, errors, machines,   *)
(* samples and days, any number of logs and of records in them: tables     *)
(* count what their identifiers say and agree with each other, name only   *)
(* what is in the analysis, errors keep their places, and days their       *)
(* counts.                                                                 *)
(*                                                                         *)
(* Each action changes some fields of the analysis and leaves the others   *)
(* alone (StateKeeps and the lemmas after it), and a file holds what an    *)
(* analysis was before (FileKept).  So an invariant of an analysis is      *)
(* shown once for every operator that changes what it speaks of.  TypeInv  *)
(* adds the fields to the types, DangleInv that nothing is known of a log  *)
(* between two, PlaceInv that the lists in memory go on where those of the *)
(* file end, and DayInv that the series of days begins and ends with a day *)
(* of a log.                                                               *)
(*                                                                         *)
(* Sums over tables: the transitions into and out of a state, references   *)
(* to an error, and the values and buckets of the statistics.  The folds   *)
(* of the library are defined by recursion over sets.  The set of those    *)
(* subsets of a finite set for which something holds of the fold is all of *)
(* them if it passes from a set without an element to the set              *)
(* (SubsetInduction): so there is a fold (TotalExists), it is what its     *)
(* recursion says (Recursion), whichever element is left out first         *)
(* (TotalSplit), and one more copy in a bag adds one to every sum that     *)
(* includes it (SumPlus).  The same holds of the sums over the values that *)
(* are counted one by one, over the buckets of a range (BucketTotals) and  *)
(* over the states of a sub system (SpreadGrows).  Two buckets can always  *)
(* be combined, as there is a closest pair (ClosestIs): finitely many      *)
(* pairs whose gaps are compared as fractions have a least one (LeastOf).  *)
(***************************************************************************)
EXTENDS LtAnalyze, FiniteSetTheorems, SequenceTheorems, WellFoundedInduction, TLAPS

(* The fields of an analysis, which no step adds to or takes from. *)
Fields ==
  {"subSystems", "states", "operations", "left", "nextState", "previousState", "stateOps",
   "previousOperation", "stateReach", "operationReach", "done", "parentState", "opNextState",
   "lastOperation", "nextOperation", "opErrors", "errors", "errorCount", "crashes", "crashCount",
   "logs", "opLogs", "strings", "exact", "stateExact", "range", "stateRange", "metric", "perf",
   "hardware", "days", "hours"}

Shape(a) == DOMAIN a = Fields /\ DOMAIN a.days = {"first", "count"}

-----------------------------------------------------------------------------
(* The fields that a record does not touch. *)

LEMMA StateKeeps ==
  ASSUME NEW a, DOMAIN a = Fields, NEW l, NEW ss, NEW s
  PROVE  /\ DOMAIN StateCounted(a, l, ss, s) = Fields
         /\ \A f \in Fields \ {"subSystems", "states", "operations", "left", "nextState",
              "previousState", "stateReach", "opNextState", "previousOperation"} :
              StateCounted(a, l, ss, s)[f] = a[f]
BY DEF StateCounted, Fields

LEMMA OperationKeeps ==
  ASSUME NEW a, DOMAIN a = Fields, NEW l, NEW ss, NEW o
  PROVE  /\ DOMAIN OperationCounted(a, l, ss, o) = Fields
         /\ \A f \in Fields \ {"subSystems", "states", "operations", "stateOps", "parentState",
              "operationReach", "done", "nextOperation", "lastOperation"} :
              OperationCounted(a, l, ss, o)[f] = a[f]
BY DEF OperationCounted, Fields

LEMMA ErrorKeeps ==
  ASSUME NEW a, DOMAIN a = Fields, NEW l, NEW ss, NEW level, NEW error
  PROVE  /\ DOMAIN ErrorCounted(a, l, ss, level, error) = Fields
         /\ \A f \in Fields \ {"subSystems", "states", "operations", "errors", "errorCount",
              "opErrors"} : ErrorCounted(a, l, ss, level, error)[f] = a[f]
BY DEF ErrorCounted, Fields

LEMMA LogKeeps ==
  ASSUME NEW a, DOMAIN a = Fields, NEW l, NEW ss
  PROVE  /\ DOMAIN LogCounted(a, l, ss) = Fields
         /\ \A f \in Fields \ {"subSystems", "states", "operations", "logs", "opLogs"} :
              LogCounted(a, l, ss)[f] = a[f]
BY DEF LogCounted, Fields

LEMMA ExactKeeps ==
  ASSUME NEW a, DOMAIN a = Fields, NEW ls, NEW v
  PROVE  /\ DOMAIN ExactCounted(a, ls, v) = Fields
         /\ \A f \in Fields \ {"exact", "stateExact"} : ExactCounted(a, ls, v)[f] = a[f]
BY DEF ExactCounted, Fields

LEMMA RangeKeeps ==
  ASSUME NEW a, DOMAIN a = Fields, NEW ls, NEW v
  PROVE  /\ DOMAIN RangeCounted(a, ls, v) = Fields
         /\ \A f \in Fields \ {"range", "stateRange"} : RangeCounted(a, ls, v)[f] = a[f]
BY DEF RangeCounted, Fields

LEMMA PerfKeeps ==
  ASSUME NEW a, DOMAIN a = Fields, NEW l, NEW ss, NEW ms, NEW info
  PROVE  /\ DOMAIN PerfCounted(a, l, ss, ms, info) = Fields
         /\ \A f \in Fields \ {"subSystems", "states", "perf"} :
              PerfCounted(a, l, ss, ms, info)[f] = a[f]
BY DEF PerfCounted, Fields

LEMMA LoadedKeeps ==
  ASSUME NEW a, DOMAIN a = Fields
  PROVE  /\ DOMAIN Loaded(a) = Fields
         /\ \A f \in Fields \ {"perf"} : Loaded(a)[f] = a[f]
BY DEF Loaded, Fields

-----------------------------------------------------------------------------
(* What the operators of LtAnalyze and LtStatistics return. *)

LEMMA PlusDomain ==
  ASSUME NEW bag, NEW keys
  PROVE  DOMAIN Plus(bag, keys) = DOMAIN bag \cup keys
BY DEF Plus, SetToBag, (+)

LEMMA PlusCopies ==
  ASSUME NEW bag, NEW keys, NEW x, \A k \in DOMAIN bag : bag[k] \in Int
  PROVE  Copies(Plus(bag, keys), x) = Copies(bag, x) + IF x \in keys THEN 1 ELSE 0
BY DEF Plus, SetToBag, (+), Copies

LEMMA PlusTable ==
  ASSUME NEW K, NEW bag, IsTable(bag, K), NEW keys, keys \subseteq K
  PROVE  IsTable(Plus(bag, keys), K)
BY DEF Plus, SetToBag, (+), IsTable

LEMMA EmptyTable ==
  ASSUME NEW K
  PROVE  IsTable(EmptyBag, K)
BY DEF EmptyBag, SetToBag, IsTable

LEMMA ListGrows ==
  ASSUME NEW S, NEW list \in Seq(S), NEW error \in S
  PROVE  /\ WithError(list, error) \in Seq(S)
         /\ Len(list) <= Len(WithError(list, error))
         /\ \A i \in DOMAIN list : WithError(list, error)[i] = list[i]
         /\ ErrorIndex(WithError(list, error), error) \in DOMAIN WithError(list, error)
         /\ WithError(list, error)[ErrorIndex(WithError(list, error), error)] = error
<1>1. CASE Contains(list, error)
  <2>1. \E i \in DOMAIN list : list[i] = error
    BY <1>1 DEF Contains
  <2> QED  BY <1>1, <2>1 DEF WithError, ErrorIndex
<1>2. CASE ~Contains(list, error)
  <2>1. WithError(list, error) = Append(list, error)
    BY <1>2 DEF WithError
  <2>2. Append(list, error)[Len(list) + 1] = error /\ Len(list) + 1 \in DOMAIN Append(list, error)
    OBVIOUS
  <2> QED  BY <2>1, <2>2 DEF ErrorIndex
<1> QED  BY <1>1, <1>2

LEMMA SummaryTyped ==
  ASSUME NEW s, SomeSummary(s), NEW v \in Int
  PROVE  SomeSummary(SummaryWith(s, v))
BY DEF SomeSummary, SummaryWith, Least, Greatest

-----------------------------------------------------------------------------
(* The days of an analysis: what they say of each day. *)

(* How many logs a series that begins with day first says of a day. *)
Tally(first, s, d) == IF d - first + 1 \in 1..Len(s) THEN s[d - first + 1] ELSE 0

Blank(z) == z \in Seq(Nat) /\ \A i \in 1..Len(z) : z[i] = 0

LEMMA ZerosBlank ==
  ASSUME NEW n \in Nat
  PROVE  Blank(Zeros(n)) /\ Len(Zeros(n)) = n
BY DEF Blank, Zeros

(* Days that are put before or after a series have no logs. *)
LEMMA PutBefore ==
  ASSUME NEW s \in Seq(Nat), NEW z, Blank(z), NEW first \in Int, NEW d \in Int,
         NEW low, low = first - Len(z)
  PROVE  /\ z \o s \in Seq(Nat) /\ Len(z \o s) = Len(z) + Len(s)
         /\ Tally(low, z \o s, d) = Tally(first, s, d)
<1> DEFINE n == Len(z)
           t == z \o s
           i == d - first + 1
           j == d - low + 1
<1>1. /\ z \in Seq(Nat) /\ n \in Nat /\ t \in Seq(Nat) /\ Len(t) = n + Len(s) /\ j = i + n /\ i \in Int
      /\ Len(s) \in Nat
  BY DEF Blank
<1>2. ASSUME i \in 1..Len(s) PROVE t[j] = s[i] /\ j \in 1..Len(t)
  BY <1>1, <1>2
<1>3. ASSUME i \notin 1..Len(s), j \in 1..Len(t) PROVE t[j] = 0
  <2>1. j \in 1..n
    BY <1>1, <1>3
  <2>2. t[j] = z[j]
    BY <1>1, <2>1
  <2> QED  BY <2>1, <2>2 DEF Blank
<1> HIDE DEF t, i, j, n
<1>4. (IF j \in 1..Len(t) THEN t[j] ELSE 0) = (IF i \in 1..Len(s) THEN s[i] ELSE 0)
  BY <1>2, <1>3
<1> QED  BY <1>1, <1>4 DEF Tally, t, i, j, n

LEMMA PutAfter ==
  ASSUME NEW s \in Seq(Nat), NEW z, Blank(z), NEW first \in Int, NEW d \in Int
  PROVE  /\ s \o z \in Seq(Nat) /\ Len(s \o z) = Len(s) + Len(z)
         /\ Tally(first, s \o z, d) = Tally(first, s, d)
<1> DEFINE n == Len(z)
           t == s \o z
           i == d - first + 1
<1>1. /\ z \in Seq(Nat) /\ n \in Nat /\ t \in Seq(Nat) /\ Len(t) = Len(s) + n /\ i \in Int
      /\ Len(s) \in Nat
  BY DEF Blank
<1>2. ASSUME i \in 1..Len(s) PROVE t[i] = s[i] /\ i \in 1..Len(t)
  BY <1>1, <1>2
<1>3. ASSUME i \notin 1..Len(s), i \in 1..Len(t) PROVE t[i] = 0
  <2>1. i - Len(s) \in 1..n
    BY <1>1, <1>3
  <2>2. t[i] = z[i - Len(s)]
    BY <1>1, <1>3, <2>1
  <2> QED  BY <2>1, <2>2 DEF Blank
<1> HIDE DEF t, i, n
<1>4. (IF i \in 1..Len(t) THEN t[i] ELSE 0) = (IF i \in 1..Len(s) THEN s[i] ELSE 0)
  BY <1>2, <1>3
<1> QED  BY <1>1, <1>4 DEF Tally, t, i, n

(* What the series of an analysis is, and what it becomes with a log.      *)
SomeDays(days) ==
  /\ DOMAIN days = {"first", "count"}
  /\ days.first \in Nat /\ days.count \in Seq(Nat)
Told(days, d) == Tally(days.first, days.count, d)

LEMMA FoundIs ==
  ASSUME NEW days, SomeDays(days), NEW d \in Int
  PROVE  DayFound(days, d) <=> days.first <= d /\ d < days.first + Len(days.count)
<1>1. days.first \in Nat /\ days.count \in Seq(Nat) /\ DOMAIN days.count = 1..Len(days.count) /\ Len(days.count) \in Nat
  BY DEF SomeDays
<1> QED  BY <1>1 DEF DayFound

(* The series that reaches up to a day says of every day what it said      *)
(* before.                                                                 *)
LEMMA UpTo ==
  ASSUME NEW days, SomeDays(days), days.count # <<>>, NEW day \in Nat, NEW series,
         series = DaysUpTo(days, day)
  PROVE  /\ SomeDays(series)
         /\ \A d \in Int : Told(series, d) = Told(days, d)
         /\ series.first = Least(days.first, day)
         /\ series.first + Len(series.count) = Greatest(days.first + Len(days.count), day + 1)
<1> DEFINE before == days.first - day
           after == day - days.first + 1 - Len(days.count)
           x == Zeros(before)
           y == Zeros(after)
<1>1. days.first \in Nat /\ days.count \in Seq(Nat) /\ Len(days.count) \in Nat /\ DOMAIN days = {"first", "count"}
  BY DEF SomeDays
<1>2. CASE before > 0
  <2>1. series = [first |-> day, count |-> x \o days.count]
    BY <1>2 DEF DaysUpTo
  <2>2. Blank(x) /\ Len(x) = before /\ day = days.first - Len(x)
    BY <1>1, <1>2, ZerosBlank
  <2> HIDE DEF x
  <2>3. /\ DOMAIN series = {"first", "count"} /\ series.first = days.first - Len(x) /\ series.first = day
        /\ series.count = x \o days.count
    BY <2>1, <2>2
  <2>4. /\ series.count \in Seq(Nat) /\ Len(series.count) = before + Len(days.count)
        /\ \A d \in Int : Told(series, d) = Told(days, d)
    <3>1. /\ days.count \in Seq(Nat) /\ days.first \in Int /\ series.first = days.first - Len(x)
          /\ Blank(x) /\ 0 \in Int
      BY <1>1, <2>2, <2>3
    <3>2. \A d \in Int : /\ x \o days.count \in Seq(Nat) /\ Len(x \o days.count) = Len(x) + Len(days.count)
                         /\ Tally(series.first, x \o days.count, d) = Tally(days.first, days.count, d)
      BY <3>1, PutBefore
    <3> QED  BY <2>2, <2>3, <3>1, <3>2 DEF Told
  <2>5. SomeDays(series)
    BY <2>3, <2>4 DEF SomeDays
  <2>6. /\ series.first = Least(days.first, day)
        /\ series.first + Len(series.count) = Greatest(days.first + Len(days.count), day + 1)
    BY <1>1, <1>2, <2>3, <2>4 DEF Least, Greatest
  <2> QED  BY <2>4, <2>5, <2>6
<1>3. CASE ~(before > 0) /\ after > 0
  <2>1. series = [days EXCEPT !.count = @ \o y]
    BY <1>3 DEF DaysUpTo
  <2>2. Blank(y) /\ Len(y) = after
    BY <1>1, <1>3, ZerosBlank
  <2> HIDE DEF y
  <2>3. /\ DOMAIN series = {"first", "count"} /\ series.first = days.first
        /\ series.count = days.count \o y
    BY <1>1, <2>1
  <2>4. /\ series.count \in Seq(Nat) /\ Len(series.count) = after + Len(days.count)
        /\ \A d \in Int : Told(series, d) = Told(days, d)
    BY <1>1, <2>2, <2>3, PutAfter DEF Told
  <2>5. SomeDays(series)
    BY <1>1, <2>3, <2>4 DEF SomeDays
  <2>6. /\ series.first = Least(days.first, day)
        /\ series.first + Len(series.count) = Greatest(days.first + Len(days.count), day + 1)
    BY SMTT(30), <1>1, <1>3, <2>3, <2>4 DEF Least, Greatest
  <2> QED  BY <2>4, <2>5, <2>6
<1>4. CASE ~(before > 0) /\ ~(after > 0)
  <2>1. series = days
    BY <1>4 DEF DaysUpTo
  <2>2. /\ series.first = Least(days.first, day)
        /\ series.first + Len(series.count) = Greatest(days.first + Len(days.count), day + 1)
    BY <1>1, <1>4, <2>1 DEF Least, Greatest
  <2> QED  BY <2>1, <2>2
<1> QED  BY <1>2, <1>3, <1>4

LEMMA ToldTyped ==
  ASSUME NEW days, SomeDays(days), NEW d \in Int
  PROVE  Told(days, d) \in Nat
<1>1. days.first \in Nat /\ days.count \in Seq(Nat)
  BY DEF SomeDays
<1> QED  BY <1>1 DEF Told, Tally

LEMMA NoneTold ==
  ASSUME NEW days, SomeDays(days), days.count = <<>>, NEW d \in Int
  PROVE  Told(days, d) = 0
BY DEF SomeDays, Told, Tally

LEMMA OneTold ==
  ASSUME NEW day \in Nat
  PROVE  LET days == [first |-> day, count |-> <<0>>]
         IN /\ SomeDays(days) /\ days.count # <<>>
            /\ days.first = day /\ Len(days.count) = 1
            /\ \A d \in Int : Told(days, d) = 0
BY DEF SomeDays, Told, Tally

(* A log is counted for the day on which it was started, or for none.      *)
LEMMA DayTold ==
  ASSUME NEW days, SomeDays(days), NEW day \in Nat, NEW after, after = DaysWith(days, day),
         DayCounts(days, day)
  PROVE  /\ DayFound(DaysUpTo(days, day), day)
         /\ SomeDays(after) /\ after.count # <<>>
         /\ IF days.count = <<>> THEN after.first = day /\ Len(after.count) = 1
            ELSE /\ after.first = Least(days.first, day)
                 /\ after.first + Len(after.count) = Greatest(days.first + Len(days.count), day + 1)
         /\ \A d \in Int : Told(after, d) = Told(days, d) + IF d = day THEN 1 ELSE 0
<1> DEFINE series == DaysUpTo(days, day)
           i == day - series.first + 1
<1>1. days.first \in Nat /\ days.count \in Seq(Nat) /\ Len(days.count) \in Nat
  BY DEF SomeDays
<1>2. /\ SomeDays(series)
      /\ \A d \in Int : Told(series, d) = Told(days, d)
      /\ IF days.count = <<>> THEN series.first = day /\ Len(series.count) = 1
         ELSE /\ series.first = Least(days.first, day)
              /\ series.first + Len(series.count) = Greatest(days.first + Len(days.count), day + 1)
  <2>1. CASE days.count = <<>>
    <3>1. series = [first |-> day, count |-> <<0>>]
      BY <2>1 DEF DaysUpTo
    <3> QED  BY <2>1, <3>1, NoneTold, OneTold
  <2>2. CASE days.count # <<>>
    BY <2>2, UpTo
  <2> QED  BY <2>1, <2>2
<1> HIDE DEF series
<1>3. series.first \in Nat /\ series.count \in Seq(Nat) /\ Len(series.count) \in Nat /\ DOMAIN series = {"first", "count"}
  BY <1>2 DEF SomeDays
<1>4. DayFound(series, day) /\ i \in 1..Len(series.count)
  <2>1. series.first <= day /\ day < series.first + Len(series.count)
    <3>1. CASE days.count = <<>>
      BY <1>2, <1>3, <3>1
    <3>2. CASE days.count # <<>>
      <4>1. /\ series.first = Least(days.first, day)
            /\ series.first + Len(series.count) = Greatest(days.first + Len(days.count), day + 1)
        BY <1>2, <3>2
      <4>2. Least(days.first, day) <= day /\ Greatest(days.first + Len(days.count), day + 1) >= day + 1
        BY <1>1 DEF Least, Greatest
      <4> HIDE DEF i
      <4> QED  BY <1>3, <4>1, <4>2
    <3> QED  BY <3>1, <3>2
  <2> QED  BY <1>2, <1>3, <2>1, FoundIs
<1>5. after = [series EXCEPT !.count[i] = @ + 1]
  BY <1>4 DEF DaysWith, series
<1>6. /\ DOMAIN after = {"first", "count"} /\ after.first = series.first
      /\ after.count = [series.count EXCEPT ![i] = @ + 1]
  BY <1>3, <1>5
<1>7. /\ after.count \in Seq(Nat) /\ Len(after.count) = Len(series.count)
      /\ \A j \in 1..Len(series.count) : after.count[j] = series.count[j] + IF j = i THEN 1 ELSE 0
  BY <1>3, <1>4, <1>6
<1>8. SomeDays(after) /\ after.count # <<>>
  BY <1>3, <1>4, <1>6, <1>7 DEF SomeDays
<1>9. ASSUME NEW d \in Int PROVE Told(after, d) = Told(days, d) + IF d = day THEN 1 ELSE 0
  <2>1. Told(after, d) = Told(series, d) + IF d = day THEN 1 ELSE 0
    BY SMTT(30), <1>3, <1>4, <1>6, <1>7 DEF Told, Tally
  <2> QED  BY <1>2, <2>1
<1> QED  BY <1>2, <1>4, <1>6, <1>7, <1>8, <1>9 DEF series

LEMMA DaysTyped ==
  ASSUME NEW days, SomeDays(days), NEW day \in Nat
  PROVE  SomeDays(DaysWith(days, day))
<1>1. CASE DayCounts(days, day)
  BY <1>1, DayTold
<1>2. CASE ~DayCounts(days, day)
  BY <1>2 DEF DaysWith
<1> QED  BY <1>1, <1>2

-----------------------------------------------------------------------------
(* TypeOK, with the fields that every analysis keeps. *)

Doing == [state : Places, op : Ops \cup {NoOp}, seen : SUBSET States]

Formed(a) == AnalysisOK(a) /\ Shape(a)

TypeInv ==
  /\ TypeOK
  /\ \A a \in Analyses : Shape(a)
  /\ pc = "records" => machine \in Machines

LEMMA LastTyped ==
  ASSUME NEW l \in Doing
  PROVE  LastState(l) \subseteq States /\ LastOp(l) \subseteq Ops /\ l.seen \subseteq States
BY DEF Doing, LastState, LastOp, Places

LEMMA NothingFormed == Formed(NoAnalysis)
<1> DEFINE a == NoAnalysis
<1>1. Shape(a)
  BY DEF Shape, Fields, NoAnalysis, NoDays
<1>2. \A K : IsTable(EmptyBag, K)
  BY EmptyTable
<1>3. SomeSummary(Summary)
  BY DEF SomeSummary, Summary
<1>4. a.exact.all = Summary /\ a.range.all = Summary /\ a.metric.range.all = Summary
  BY DEF NoAnalysis, NoExact, NoRange, NoMetric
<1>5. a.days.first = 0 /\ a.days.count = <<>>
  BY DEF NoAnalysis, NoDays
<1>6. a.errors \in [SubSystems \X Places \X Levels -> Seq(Errors)] /\ a.crashes \in Seq(Errors)
  <2>1. a.errors = [p \in SubSystems \X Places \X Levels |-> <<>>] /\ a.crashes = <<>>
    BY DEF NoAnalysis
  <2> HIDE DEF a
  <2> QED  BY <2>1
<1>7. /\ a.states \in [SubSystems -> SUBSET States] /\ a.operations \in [SubSystems -> SUBSET Ops]
      /\ a.subSystems \subseteq SubSystems /\ a.strings \in Nat
      /\ DOMAIN a.stateExact = SubSystems \X States
      /\ DOMAIN a.stateRange = SubSystems \X States
      /\ DOMAIN a.perf = SubSystems \X Places
  BY DEF NoAnalysis
<1>8. /\ a.left = EmptyBag /\ a.done = EmptyBag
      /\ a.nextState = EmptyBag /\ a.previousState = EmptyBag /\ a.stateReach = EmptyBag
      /\ a.stateOps = EmptyBag /\ a.previousOperation = EmptyBag /\ a.operationReach = EmptyBag
      /\ a.parentState = EmptyBag /\ a.opNextState = EmptyBag
      /\ a.lastOperation = EmptyBag /\ a.nextOperation = EmptyBag
      /\ a.opErrors = EmptyBag /\ a.errorCount = EmptyBag /\ a.crashCount = EmptyBag
      /\ a.logs = EmptyBag /\ a.opLogs = EmptyBag
      /\ a.hardware = EmptyBag /\ a.hours = EmptyBag
  BY DEF NoAnalysis
<1>9. a.days.first \in Nat /\ a.days.count \in Seq(Nat)
  BY <1>5
<1> HIDE DEF a
<1>10. SomeSummary(a.exact.all) /\ SomeSummary(a.range.all) /\ SomeSummary(a.metric.range.all)
  BY <1>3, <1>4
<1>11. AnalysisOK(a)
  BY <1>2, <1>6, <1>7, <1>8, <1>9, <1>10 DEF AnalysisOK
<1> QED  BY <1>1, <1>11 DEF Formed, a

LEMMA StateFormed ==
  ASSUME NEW a, Formed(a), NEW l \in Doing, NEW ss \in SubSystems, NEW s \in States
  PROVE  Formed(StateCounted(a, l, ss, s))
<1> DEFINE b == StateCounted(a, l, ss, s)
<1>1. DOMAIN a = Fields /\ a.states \in [SubSystems -> SUBSET States]
      /\ a.operations \in [SubSystems -> SUBSET Ops] /\ a.subSystems \subseteq SubSystems
  BY DEF Formed, Shape, AnalysisOK
<1>2. LastState(l) \subseteq States /\ LastOp(l) \subseteq Ops /\ l.seen \subseteq States
  BY LastTyped
<1>3. /\ b.subSystems = a.subSystems \cup {ss}
      /\ b.states = [a.states EXCEPT ![ss] = @ \cup {s} \cup LastState(l) \cup l.seen]
      /\ b.operations = [a.operations EXCEPT ![ss] = @ \cup LastOp(l)]
      /\ b.left = Plus(a.left, {ss} \X LastState(l))
      /\ b.nextState = Plus(a.nextState, {ss} \X LastState(l) \X {s})
      /\ b.previousState = Plus(a.previousState, {ss} \X {s} \X LastState(l))
      /\ b.stateReach = Plus(a.stateReach, {ss} \X l.seen \X {s})
      /\ b.opNextState = Plus(a.opNextState, {ss} \X LastOp(l) \X {s})
      /\ b.previousOperation = Plus(a.previousOperation, {ss} \X {s} \X LastOp(l))
  BY <1>1 DEF StateCounted, Fields
<1>4. DOMAIN b = Fields /\ \A f \in Fields \ {"subSystems", "states", "operations", "left", "nextState",
        "previousState", "stateReach", "opNextState", "previousOperation"} : b[f] = a[f]
  BY <1>1, StateKeeps
<1> HIDE DEF b
<1>5. /\ b.subSystems \subseteq SubSystems
      /\ b.states \in [SubSystems -> SUBSET States] /\ b.operations \in [SubSystems -> SUBSET Ops]
  BY <1>1, <1>2, <1>3
<1>6. /\ IsTable(b.left, SubSystems \X States)
      /\ IsTable(b.nextState, SubSystems \X States \X States)
      /\ IsTable(b.previousState, SubSystems \X States \X States)
      /\ IsTable(b.stateReach, SubSystems \X States \X States)
      /\ IsTable(b.opNextState, SubSystems \X Ops \X States)
      /\ IsTable(b.previousOperation, SubSystems \X States \X Ops)
  BY <1>2, <1>3, PlusTable DEF Formed, AnalysisOK
<1>7. Shape(b)
  BY <1>4 DEF Formed, Shape, Fields
<1>8. AnalysisOK(b)
  BY ZenonT(60), <1>4, <1>5, <1>6 DEF Formed, AnalysisOK, Fields
<1> QED  BY <1>7, <1>8 DEF Formed, b

LEMMA OperationFormed ==
  ASSUME NEW a, Formed(a), NEW l \in Doing, NEW ss \in SubSystems, NEW o \in Ops
  PROVE  Formed(OperationCounted(a, l, ss, o))
<1> DEFINE b == OperationCounted(a, l, ss, o)
<1>1. DOMAIN a = Fields /\ a.states \in [SubSystems -> SUBSET States]
      /\ a.operations \in [SubSystems -> SUBSET Ops] /\ a.subSystems \subseteq SubSystems
  BY DEF Formed, Shape, AnalysisOK
<1>2. LastState(l) \subseteq States /\ LastOp(l) \subseteq Ops /\ l.seen \subseteq States
  BY LastTyped
<1>3. /\ b.subSystems = a.subSystems \cup {ss}
      /\ b.states = [a.states EXCEPT ![ss] = @ \cup LastState(l) \cup l.seen]
      /\ b.operations = [a.operations EXCEPT ![ss] = @ \cup {o} \cup LastOp(l)]
      /\ b.stateOps = Plus(a.stateOps, {ss} \X LastState(l) \X {o})
      /\ b.parentState = Plus(a.parentState, {ss} \X {o} \X LastState(l))
      /\ b.operationReach = Plus(a.operationReach, {ss} \X l.seen \X {o})
      /\ b.done = Plus(a.done, {ss} \X LastOp(l))
      /\ b.nextOperation = Plus(a.nextOperation, {ss} \X LastOp(l) \X {o})
      /\ b.lastOperation = Plus(a.lastOperation, {<<ss, o, o>> : last \in LastOp(l)})
  BY <1>1 DEF OperationCounted, Fields
<1>4. DOMAIN b = Fields /\ \A f \in Fields \ {"subSystems", "states", "operations", "stateOps",
        "parentState", "operationReach", "done", "nextOperation", "lastOperation"} : b[f] = a[f]
  BY <1>1, OperationKeeps
<1> HIDE DEF b
<1>5. /\ b.subSystems \subseteq SubSystems
      /\ b.states \in [SubSystems -> SUBSET States] /\ b.operations \in [SubSystems -> SUBSET Ops]
  BY <1>1, <1>2, <1>3
<1>6. /\ IsTable(b.stateOps, SubSystems \X States \X Ops)
      /\ IsTable(b.parentState, SubSystems \X Ops \X States)
      /\ IsTable(b.operationReach, SubSystems \X States \X Ops)
      /\ IsTable(b.done, SubSystems \X Ops)
      /\ IsTable(b.nextOperation, SubSystems \X Ops \X Ops)
      /\ IsTable(b.lastOperation, SubSystems \X Ops \X Ops)
  BY <1>2, <1>3, PlusTable DEF Formed, AnalysisOK
<1>7. Shape(b)
  BY <1>4 DEF Formed, Shape, Fields
<1>8. AnalysisOK(b)
  BY ZenonT(60), <1>4, <1>5, <1>6 DEF Formed, AnalysisOK, Fields
<1> QED  BY <1>7, <1>8 DEF Formed, b

LEMMA ErrorFormed ==
  ASSUME NEW a, Formed(a), NEW l \in Doing, NEW ss \in SubSystems, NEW level \in Levels,
         NEW error \in Errors
  PROVE  Formed(ErrorCounted(a, l, ss, level, error))
<1> DEFINE b == ErrorCounted(a, l, ss, level, error)
           list == WithError(a.errors[<<ss, l.state, level>>], error)
           place == ErrorIndex(list, error)
<1>1. DOMAIN a = Fields /\ a.states \in [SubSystems -> SUBSET States]
      /\ a.operations \in [SubSystems -> SUBSET Ops] /\ a.subSystems \subseteq SubSystems
      /\ a.errors \in [SubSystems \X Places \X Levels -> Seq(Errors)]
  BY DEF Formed, Shape, AnalysisOK
<1>2. LastState(l) \subseteq States /\ LastOp(l) \subseteq Ops /\ l.state \in Places
  BY LastTyped DEF Doing
<1>3. /\ b.subSystems = a.subSystems \cup {ss}
      /\ b.states = [a.states EXCEPT ![ss] = @ \cup LastState(l)]
      /\ b.operations = [a.operations EXCEPT ![ss] = @ \cup LastOp(l)]
      /\ b.errors = [a.errors EXCEPT ![<<ss, l.state, level>>] = list]
      /\ b.errorCount = Plus(a.errorCount, {<<ss, l.state, level, error>>})
      /\ b.opErrors = Plus(a.opErrors, {<<ss, o, level, place, l.state>> : o \in LastOp(l)})
  BY <1>1 DEF ErrorCounted, Fields
<1>4. DOMAIN b = Fields /\ \A f \in Fields \ {"subSystems", "states", "operations", "errors",
        "errorCount", "opErrors"} : b[f] = a[f]
  BY <1>1, ErrorKeeps
<1>5. list \in Seq(Errors) /\ place \in Nat
  <2>1. a.errors[<<ss, l.state, level>>] \in Seq(Errors)
    BY <1>1, <1>2
  <2>2. list \in Seq(Errors) /\ place \in DOMAIN list
    BY <2>1, ListGrows
  <2> HIDE DEF list, place
  <2> QED  BY <2>2
<1> HIDE DEF b, list, place
<1>6. /\ b.subSystems \subseteq SubSystems
      /\ b.states \in [SubSystems -> SUBSET States] /\ b.operations \in [SubSystems -> SUBSET Ops]
      /\ b.errors \in [SubSystems \X Places \X Levels -> Seq(Errors)]
  BY <1>1, <1>2, <1>3, <1>5
<1>7. /\ IsTable(b.errorCount, SubSystems \X Places \X Levels \X Errors)
      /\ IsTable(b.opErrors, SubSystems \X Ops \X Levels \X Nat \X Places)
  <2>1. {<<ss, o, level, place, l.state>> : o \in LastOp(l)} \subseteq SubSystems \X Ops \X Levels \X Nat \X Places
    BY <1>2, <1>5
  <2>2. {<<ss, l.state, level, error>>} \subseteq SubSystems \X Places \X Levels \X Errors
    BY <1>2
  <2> QED  BY <1>3, <2>1, <2>2, PlusTable DEF Formed, AnalysisOK
<1>8. Shape(b)
  BY <1>4 DEF Formed, Shape, Fields
<1>9. AnalysisOK(b)
  BY ZenonT(60), <1>4, <1>6, <1>7 DEF Formed, AnalysisOK, Fields
<1> QED  BY <1>8, <1>9 DEF Formed, b

LEMMA LogFormed ==
  ASSUME NEW a, Formed(a), NEW l \in Doing, NEW ss \in SubSystems
  PROVE  Formed(LogCounted(a, l, ss))
<1> DEFINE b == LogCounted(a, l, ss)
<1>1. DOMAIN a = Fields /\ a.states \in [SubSystems -> SUBSET States]
      /\ a.operations \in [SubSystems -> SUBSET Ops] /\ a.subSystems \subseteq SubSystems
  BY DEF Formed, Shape, AnalysisOK
<1>2. LastState(l) \subseteq States /\ LastOp(l) \subseteq Ops /\ l.state \in Places
  BY LastTyped DEF Doing
<1>3. /\ b.subSystems = a.subSystems \cup {ss}
      /\ b.states = [a.states EXCEPT ![ss] = @ \cup LastState(l)]
      /\ b.operations = [a.operations EXCEPT ![ss] = @ \cup LastOp(l)]
      /\ b.logs = Plus(a.logs, {<<ss, l.state>>})
      /\ b.opLogs = Plus(a.opLogs, {ss} \X LastOp(l))
  BY <1>1 DEF LogCounted, Fields
<1>4. DOMAIN b = Fields /\ \A f \in Fields \ {"subSystems", "states", "operations", "logs",
        "opLogs"} : b[f] = a[f]
  BY <1>1, LogKeeps
<1> HIDE DEF b
<1>5. /\ b.subSystems \subseteq SubSystems
      /\ b.states \in [SubSystems -> SUBSET States] /\ b.operations \in [SubSystems -> SUBSET Ops]
  BY <1>1, <1>2, <1>3
<1>6. IsTable(b.logs, SubSystems \X Places) /\ IsTable(b.opLogs, SubSystems \X Ops)
  BY <1>2, <1>3, PlusTable DEF Formed, AnalysisOK
<1>7. Shape(b)
  BY <1>4 DEF Formed, Shape, Fields
<1>8. AnalysisOK(b)
  BY ZenonT(60), <1>4, <1>5, <1>6 DEF Formed, AnalysisOK, Fields
<1> QED  BY <1>7, <1>8 DEF Formed, b

LEMMA ValueFormed ==
  ASSUME NEW a, Formed(a), NEW ls, NEW v \in Int
  PROVE  Formed(ExactCounted(a, ls, v)) /\ Formed(RangeCounted(a, ls, v))
<1> DEFINE b == ExactCounted(a, ls, v)
           c == RangeCounted(a, ls, v)
<1>1. DOMAIN a = Fields /\ SomeSummary(a.exact.all) /\ SomeSummary(a.range.all)
  BY DEF Formed, Shape, AnalysisOK
<1>2. SomeSummary(b.exact.all) /\ DOMAIN b.stateExact = DOMAIN a.stateExact
  <2>1. b.exact = ExactWith(a.exact, v) /\ DOMAIN b.stateExact = DOMAIN a.stateExact
    BY <1>1 DEF ExactCounted, Fields
  <2>2. ExactWith(a.exact, v).all = SummaryWith(a.exact.all, v)
    BY DEF ExactWith
  <2> QED  BY <1>1, <2>1, <2>2, SummaryTyped
<1>3. SomeSummary(c.range.all) /\ DOMAIN c.stateRange = DOMAIN a.stateRange
  <2>1. c.range = RangeWith(a.range, v) /\ DOMAIN c.stateRange = DOMAIN a.stateRange
    BY <1>1 DEF RangeCounted, Fields
  <2>2. RangeWith(a.range, v).all = SummaryWith(a.range.all, v)
    BY DEF RangeWith
  <2> QED  BY <1>1, <2>1, <2>2, SummaryTyped
<1>4. /\ DOMAIN b = Fields /\ \A f \in Fields \ {"exact", "stateExact"} : b[f] = a[f]
      /\ DOMAIN c = Fields /\ \A f \in Fields \ {"range", "stateRange"} : c[f] = a[f]
  BY <1>1, ExactKeeps, RangeKeeps
<1> HIDE DEF b, c
<1>5. Shape(b) /\ Shape(c)
  BY <1>4 DEF Formed, Shape, Fields
<1>6. AnalysisOK(b)
  BY ZenonT(60), <1>2, <1>4 DEF Formed, AnalysisOK, Fields
<1>7. AnalysisOK(c)
  BY ZenonT(60), <1>3, <1>4 DEF Formed, AnalysisOK, Fields
<1> QED  BY <1>5, <1>6, <1>7 DEF Formed, b, c

LEMMA PerfFormed ==
  ASSUME NEW a, Formed(a), NEW l \in Doing, NEW ss \in SubSystems, NEW ms, NEW info
  PROVE  Formed(PerfCounted(a, l, ss, ms, info))
<1> DEFINE b == PerfCounted(a, l, ss, ms, info)
<1>1. DOMAIN a = Fields /\ a.states \in [SubSystems -> SUBSET States] /\ a.subSystems \subseteq SubSystems
  BY DEF Formed, Shape, AnalysisOK
<1>2. LastState(l) \subseteq States
  BY LastTyped
<1>3. /\ b.subSystems = a.subSystems \cup {ss}
      /\ b.states = [a.states EXCEPT ![ss] = @ \cup LastState(l)]
      /\ DOMAIN b.perf = DOMAIN a.perf
  BY <1>1 DEF PerfCounted, Fields
<1>4. DOMAIN b = Fields /\ \A f \in Fields \ {"subSystems", "states", "perf"} : b[f] = a[f]
  BY <1>1, PerfKeeps
<1> HIDE DEF b
<1>5. /\ b.subSystems \subseteq SubSystems /\ b.states \in [SubSystems -> SUBSET States]
      /\ DOMAIN b.perf = DOMAIN a.perf
  BY <1>1, <1>2, <1>3
<1>6. Shape(b)
  BY <1>4 DEF Formed, Shape, Fields
<1>7. AnalysisOK(b)
  BY ZenonT(60), <1>4, <1>5 DEF Formed, AnalysisOK, Fields
<1> QED  BY <1>6, <1>7 DEF Formed, b

LEMMA LoadedFormed ==
  ASSUME NEW a, Formed(a)
  PROVE  Formed(Loaded(a))
<1> DEFINE b == Loaded(a)
<1>1. DOMAIN a = Fields
  BY DEF Formed, Shape
<1>2. DOMAIN b.perf = DOMAIN a.perf
  BY <1>1 DEF Loaded, Fields
<1>3. DOMAIN b = Fields /\ \A f \in Fields \ {"perf"} : b[f] = a[f]
  BY <1>1, LoadedKeeps
<1> HIDE DEF b
<1>4. Shape(b)
  BY <1>3 DEF Formed, Shape, Fields
<1>5. AnalysisOK(b)
  BY ZenonT(60), <1>2, <1>3 DEF Formed, AnalysisOK, Fields
<1> QED  BY <1>4, <1>5 DEF Formed, b

LEMMA CrashFormed ==
  ASSUME NEW a, Formed(a), NEW error \in Errors
  PROVE  Formed([a EXCEPT !.crashes = WithError(@, error), !.crashCount = Plus(@, {error})])
<1> DEFINE b == [a EXCEPT !.crashes = WithError(@, error), !.crashCount = Plus(@, {error})]
<1>1. DOMAIN a = Fields /\ a.crashes \in Seq(Errors) /\ IsTable(a.crashCount, Errors)
  BY DEF Formed, Shape, AnalysisOK
<1>2. /\ b.crashes = WithError(a.crashes, error)
      /\ b.crashCount = Plus(a.crashCount, {error})
      /\ DOMAIN b = Fields /\ \A f \in Fields \ {"crashes", "crashCount"} : b[f] = a[f]
  BY <1>1 DEF Fields
<1> HIDE DEF b
<1>3. b.crashes \in Seq(Errors) /\ IsTable(b.crashCount, Errors)
  BY <1>1, <1>2, ListGrows, PlusTable
<1>4. Shape(b)
  BY <1>2 DEF Formed, Shape, Fields
<1>5. AnalysisOK(b)
  BY ZenonT(60), <1>2, <1>3 DEF Formed, AnalysisOK, Fields
<1> QED  BY <1>4, <1>5 DEF Formed, b

LEMMA HeaderFormed ==
  ASSUME NEW a, Formed(a), NEW day \in Nat, NEW hour \in Hours
  PROVE  Formed([a EXCEPT !.days = DaysWith(@, day), !.hours = Plus(@, {hour})])
<1> DEFINE b == [a EXCEPT !.days = DaysWith(@, day), !.hours = Plus(@, {hour})]
<1>1. /\ DOMAIN a = Fields /\ DOMAIN a.days = {"first", "count"}
      /\ a.days.first \in Nat /\ a.days.count \in Seq(Nat) /\ IsTable(a.hours, Hours)
  BY DEF Formed, Shape, AnalysisOK
<1>2. b.days = DaysWith(a.days, day) /\ b.hours = Plus(a.hours, {hour})
  BY <1>1 DEF Fields
<1>3. DOMAIN b = Fields /\ \A f \in Fields \ {"days", "hours"} : b[f] = a[f]
  BY <1>1 DEF Fields
<1> HIDE DEF b
<1>4. /\ DOMAIN b.days = {"first", "count"}
      /\ b.days.first \in Nat /\ b.days.count \in Seq(Nat)
  BY <1>1, <1>2, DaysTyped DEF SomeDays
<1>5. IsTable(b.hours, Hours)
  BY <1>1, <1>2, PlusTable
<1>6. Shape(b)
  BY <1>3, <1>4 DEF Shape
<1>7. AnalysisOK(b)
  <2>1. b.days.first \in Nat /\ b.days.count \in Seq(Nat)
    BY <1>4
  <2> QED  BY ZenonT(60), <1>3, <1>5, <2>1 DEF Formed, AnalysisOK, Fields
<1> QED  BY <1>6, <1>7 DEF Formed, b

LEMMA StringFormed ==
  ASSUME NEW a, Formed(a)
  PROVE  Formed([a EXCEPT !.strings = @ + 1])
<1> DEFINE b == [a EXCEPT !.strings = @ + 1]
<1>1. DOMAIN a = Fields /\ a.strings \in Nat
  BY DEF Formed, Shape, AnalysisOK
<1>2. DOMAIN b = Fields /\ b.strings \in Nat /\ \A f \in Fields \ {"strings"} : b[f] = a[f]
  BY <1>1 DEF Fields
<1> HIDE DEF b
<1>3. Shape(b)
  BY <1>2 DEF Formed, Shape, Fields
<1>4. AnalysisOK(b)
  BY ZenonT(60), <1>2 DEF Formed, AnalysisOK, Fields
<1> QED  BY <1>3, <1>4 DEF Formed, b

LEMMA MetricFormed ==
  ASSUME NEW a, Formed(a), NEW v \in Int, NEW info
  PROVE  Formed([a EXCEPT !.metric = MetricWith(@, v, info)])
<1> DEFINE b == [a EXCEPT !.metric = MetricWith(@, v, info)]
<1>1. DOMAIN a = Fields /\ SomeSummary(a.metric.range.all)
  BY DEF Formed, Shape, AnalysisOK
<1>2. /\ DOMAIN b = Fields /\ b.metric = MetricWith(a.metric, v, info)
      /\ \A f \in Fields \ {"metric"} : b[f] = a[f]
  BY <1>1 DEF Fields
<1> HIDE DEF b
<1>3. SomeSummary(b.metric.range.all)
  <2>1. b.metric.range.all = SummaryWith(a.metric.range.all, v)
    <3>1. MetricWith(a.metric, v, info).range.all = SummaryWith(a.metric.range.all, v)
      BY DEF MetricWith, RangeWith
    <3>2. b.metric = MetricWith(a.metric, v, info)
      BY <1>2
    <3> QED  BY <3>1, <3>2
  <2> QED  BY <1>1, <2>1, SummaryTyped
<1>4. Shape(b)
  BY <1>2 DEF Formed, Shape, Fields
<1>5. AnalysisOK(b)
  BY ZenonT(60), <1>2, <1>3 DEF Formed, AnalysisOK, Fields
<1> QED  BY <1>4, <1>5 DEF Formed, b

LEMMA HardwareFormed ==
  ASSUME NEW a, Formed(a), NEW m \in Machines
  PROVE  Formed([a EXCEPT !.hardware = Plus(@, {m})])
<1> DEFINE b == [a EXCEPT !.hardware = Plus(@, {m})]
<1>1. DOMAIN a = Fields /\ IsTable(a.hardware, Machines)
  BY DEF Formed, Shape, AnalysisOK
<1>2. /\ DOMAIN b = Fields /\ b.hardware = Plus(a.hardware, {m})
      /\ \A f \in Fields \ {"hardware"} : b[f] = a[f]
  BY <1>1 DEF Fields
<1> HIDE DEF b
<1>3. IsTable(b.hardware, Machines)
  BY <1>1, <1>2, PlusTable
<1>4. Shape(b)
  BY <1>2 DEF Formed, Shape, Fields
<1>5. AnalysisOK(b)
  BY ZenonT(60), <1>2, <1>3 DEF Formed, AnalysisOK, Fields
<1> QED  BY <1>4, <1>5 DEF Formed, b

LEMMA FileKept ==
  ASSUME [Next]_vars
  PROVE  \A a \in Analyses' : a = analysis' \/ a \in Analyses
<1>1. file' = file => \A a \in Analyses' : a = analysis' \/ a \in Analyses
  BY DEF Analyses
<1>2. Write => \A a \in Analyses' : a = analysis' \/ a \in Analyses
  BY DEF Analyses, Write, Saved, Torn
<1>3. Write \/ file' = file
  BY DEF Next, Start, BeginLog, Record, SetState, Operation, Error, Crash, Log, ObserveExact,
    ObserveRange, ObserveString, PerfMetric, PerfData, SystemInfo, ReadingEvent, ReadingValue,
    Reading, EndLog, Fail, vars
<1> QED  BY <1>1, <1>2, <1>3

LEMMA RecordFormed ==
  ASSUME TypeInv, Record
  PROVE  Formed(analysis')
<1> USE DEF Reading, ReadingEvent, ReadingValue
<1>1. Formed(analysis) /\ \A ss \in SubSystems : live[ss] \in Doing
  BY DEF TypeInv, TypeOK, Formed, Analyses, Doing
<1>2. Samples \subseteq Int
  BY AnalyzeAssumption
<1>3. ASSUME NEW ss \in SubSystems, NEW s \in States, SetState(ss, s) PROVE Formed(analysis')
  BY <1>1, <1>3, StateFormed DEF SetState
<1>4. ASSUME NEW ss \in SubSystems, NEW o \in Ops, Operation(ss, o) PROVE Formed(analysis')
  BY <1>1, <1>4, OperationFormed DEF Operation
<1>5. ASSUME NEW ss \in SubSystems, NEW level \in Levels, NEW error \in Errors, Error(ss, level, error)
      PROVE  Formed(analysis')
  BY <1>1, <1>5, ErrorFormed DEF Error
<1>6. ASSUME NEW error \in Errors, Crash(error) PROVE Formed(analysis')
  BY <1>1, <1>6, CrashFormed DEF Crash
<1>7. ASSUME NEW ss \in SubSystems, Log(ss) PROVE Formed(analysis')
  BY <1>1, <1>7, LogFormed DEF Log
<1>8. ASSUME NEW v \in Samples, ObserveExact(v) \/ ObserveRange(v) PROVE Formed(analysis')
  BY <1>1, <1>2, <1>8, ValueFormed DEF ObserveExact, ObserveRange
<1>9. CASE ObserveString
  BY <1>1, <1>9, StringFormed DEF ObserveString
<1>10. ASSUME NEW v \in Samples, PerfMetric(v) PROVE Formed(analysis')
  BY <1>1, <1>2, <1>10, MetricFormed DEF PerfMetric
<1>11. ASSUME NEW ss \in SubSystems, NEW ms \in Samples, PerfData(ss, ms) PROVE Formed(analysis')
  BY <1>1, <1>11, PerfFormed DEF PerfData
<1>12. CASE SystemInfo
  <2>1. machine \in Machines
    BY <1>12 DEF TypeInv, SystemInfo
  <2> QED  BY <1>1, <1>12, <2>1, HardwareFormed DEF SystemInfo
<1> QED  BY <1>3, <1>4, <1>5, <1>6, <1>7, <1>8, <1>9, <1>10, <1>11, <1>12 DEF Record

LEMMA AnalysisFormed ==
  ASSUME TypeInv, [Next]_vars
  PROVE  Formed(analysis')
<1>1. \A a \in Analyses : Formed(a)
  BY DEF TypeInv, TypeOK, Formed
<1>2. CASE Start
  <2>1. CASE file.is = "saved"
    <3>1. Formed(file.analysis)
      BY <1>1, <2>1 DEF Analyses
    <3> QED  BY <1>2, <2>1, <3>1, LoadedFormed DEF Start
  <2>2. CASE file.is # "saved"
    BY <1>1, <1>2, <2>2 DEF Start, memory, Analyses
  <2> QED  BY <2>1, <2>2
<1>3. ASSUME NEW day \in Days, NEW hour \in Hours, NEW m \in Machines, BeginLog(day, hour, m)
      PROVE  Formed(analysis')
  <2>1. day \in Nat /\ Formed(analysis)
    BY <1>1, AnalyzeAssumption DEF Analyses
  <2> QED  BY <1>3, <2>1, HeaderFormed DEF BeginLog
<1>4. CASE Record
  BY <1>4, RecordFormed
<1>5. CASE EndLog \/ UNCHANGED vars
  BY <1>1, <1>5 DEF EndLog, vars, memory, Analyses
<1>6. CASE Fail \/ Write
  BY <1>6, NothingFormed DEF Fail, Write, Gone
<1> QED  BY <1>2, <1>3, <1>4, <1>5, <1>6 DEF Next

LEMMA LiveTyped ==
  ASSUME TypeInv, [Next]_vars
  PROVE  live' \in [SubSystems -> Doing]
<1>1. live \in [SubSystems -> Doing] /\ NoLog \in [SubSystems -> Doing]
  BY DEF TypeInv, TypeOK, Doing, NoLog, Places
<1>2. ASSUME NEW ss \in SubSystems, NEW s \in States, SetState(ss, s)
      PROVE  live' \in [SubSystems -> Doing]
  BY ZenonT(60), <1>1, <1>2 DEF SetState, Doing, Places
<1>3. ASSUME NEW ss \in SubSystems, NEW o \in Ops, Operation(ss, o)
      PROVE  live' \in [SubSystems -> Doing]
  BY <1>1, <1>3 DEF Operation, Doing
<1>4. CASE live' \in {live, NoLog}
  BY <1>1, <1>4
<1>5. Record => \/ live' = live
                \/ \E ss \in SubSystems, s \in States : SetState(ss, s)
                \/ \E ss \in SubSystems, o \in Ops : Operation(ss, o)
  BY DEF Record, Error, Crash, Log, ObserveExact, ObserveRange, ObserveString, PerfMetric,
    PerfData, SystemInfo
<1>6. Next => Record \/ live' \in {live, NoLog}
  BY DEF Next, Start, BeginLog, EndLog, Fail, Write, Gone, log
<1> QED  BY <1>2, <1>3, <1>4, <1>5, <1>6 DEF vars, log

(* The variables other than the analysis, the file and the sub systems. *)
RestOK ==
  /\ pc \in {"idle", "main", "records", "fatal"}
  /\ file.is \in {"absent", "torn", "saved"}
  /\ {machine, hwInfo} \subseteq Machines \cup {Unknown}
  /\ records \in 0..MaxRecords /\ values \in 0..MaxValues
  /\ pc = "records" => machine \in Machines

LEMMA RestStep ==
  ASSUME RestOK, [Next]_vars
  PROVE  RestOK'
<1>0. MaxRecords \in Nat /\ MaxValues \in Nat
  BY AnalyzeAssumption
<1> USE <1>0 DEF RestOK, log, memory, steps
<1>1. CASE Start
  BY <1>1 DEF Start
<1>2. ASSUME NEW day \in Days, NEW hour \in Hours, NEW m \in Machines, BeginLog(day, hour, m)
      PROVE  RestOK'
  <2>1. /\ pc' \in {"fatal", "records"} /\ machine' = m /\ hwInfo' = Unknown
        /\ records < MaxRecords /\ records' = records + 1 /\ UNCHANGED <<file, values>>
    BY <1>2 DEF BeginLog
  <2> QED  BY <2>1
<1>3. CASE Record
  <2>1. Reading /\ hwInfo' \in {hwInfo, machine}
    BY <1>3 DEF Record, SetState, Operation, Error, Crash, Log, ObserveExact, ObserveRange,
      ObserveString, PerfMetric, PerfData, SystemInfo, ReadingEvent, ReadingValue
  <2>2. values' = values \/ (values < MaxValues /\ values' = values + 1)
    BY <1>3 DEF Record, SetState, Operation, Error, Crash, Log, ObserveExact, ObserveRange,
      ObserveString, PerfMetric, PerfData, SystemInfo, ReadingEvent, ReadingValue
  <2>3. /\ pc' = pc /\ machine' = machine /\ file' = file
        /\ records < MaxRecords /\ records' = records + 1
    BY <2>1 DEF Reading
  <2> QED  BY <2>1, <2>2, <2>3
<1>4. CASE EndLog \/ UNCHANGED vars
  BY <1>4 DEF EndLog, vars
<1>5. CASE Fail
  BY <1>5 DEF Fail, Gone
<1>6. CASE Write
  <2>1. file' = file \/ file'.is \in {"torn", "saved"}
    BY <1>6 DEF Write, Saved, Torn
  <2>2. pc' = "idle" /\ machine' = Unknown /\ hwInfo' = Unknown /\ UNCHANGED <<records, values>>
    BY <1>6 DEF Write, Gone
  <2> QED  BY <2>1, <2>2
<1> QED  BY <1>1, <1>2, <1>3, <1>4, <1>5, <1>6 DEF Next

LEMMA FlagsStep ==
  ASSUME parsed \in BOOLEAN, stored \in BOOLEAN, [Next]_vars
  PROVE  parsed' \in BOOLEAN /\ stored' \in BOOLEAN
<1>1. (parsed' = parsed \/ parsed' = TRUE \/ parsed' = FALSE)
        /\ (stored' = stored \/ stored' = TRUE \/ stored' = FALSE)
  BY DEF Next, Start, BeginLog, Record, SetState, Operation, Error, Crash, Log, ObserveExact,
    ObserveRange, ObserveString, PerfMetric, PerfData, SystemInfo, ReadingEvent, ReadingValue,
    Reading, EndLog, Fail, Write, Gone, vars, log
<1> QED  BY <1>1

LEMMA TypeStep ==
  ASSUME TypeInv, [Next]_vars
  PROVE  TypeInv'
<1>1. \A a \in Analyses' : AnalysisOK(a) /\ Shape(a)
  BY AnalysisFormed, FileKept DEF TypeInv, TypeOK, Formed
<1>2. live' \in [SubSystems -> [state : Places, op : Ops \cup {NoOp}, seen : SUBSET States]]
  BY LiveTyped DEF Doing
<1>3. RestOK'
  BY RestStep DEF TypeInv, TypeOK, RestOK
<1>4. parsed' \in BOOLEAN /\ stored' \in BOOLEAN
  BY FlagsStep DEF TypeInv, TypeOK
<1> QED  BY <1>1, <1>2, <1>3, <1>4 DEF TypeInv, TypeOK, RestOK

LEMMA TypeInit == Init => TypeInv
<1> SUFFICES ASSUME Init PROVE TypeInv
  OBVIOUS
<1>1. \A a \in Analyses : AnalysisOK(a) /\ Shape(a)
  BY NothingFormed DEF Init, Analyses, Absent, Formed
<1>2. live \in [SubSystems -> [state : Places, op : Ops \cup {NoOp}, seen : SUBSET States]]
  BY DEF Init, NoLog, Places
<1>3. RestOK
  <2>1. MaxRecords \in Nat /\ MaxValues \in Nat
    BY AnalyzeAssumption
  <2> QED  BY <2>1 DEF Init, RestOK, Absent
<1>4. parsed \in BOOLEAN /\ stored \in BOOLEAN
  BY DEF Init
<1> QED  BY <1>1, <1>2, <1>3, <1>4 DEF TypeInv, TypeOK, RestOK

(* Types, the fields of an analysis, and that a log is of some machine.    *)
THEOREM TypeInvariant == Spec => []TypeInv
<1>1. TypeInv /\ [Next]_vars => TypeInv'
  BY TypeStep
<1> QED  BY <1>1, TypeInit, PTL DEF Spec

(* Every table of an analysis counts what its identifiers say: only states *)
(* have states after them, only operations have errors, whatever the logs  *)
(* say and however often the analysis is saved and loaded.                 *)
THEOREM TypeCorrect == Spec => []TypeOK
<1>1. TypeInv => TypeOK
  BY DEF TypeInv
<1> QED  BY <1>1, TypeInvariant, PTL

-----------------------------------------------------------------------------
(* NothingDangles: an analysis only ever learns more names, a record adds  *)
(* the names it counts, and a log begins with no sub system in a state.    *)

Grows(a, b) ==
  /\ a.subSystems \subseteq b.subSystems
  /\ \A ss \in SubSystems : a.states[ss] \subseteq b.states[ss] /\ a.operations[ss] \subseteq b.operations[ss]

(* The fields that NamesKnown speaks of. *)
SameNames(a, b) ==
  /\ Grows(a, b)
  /\ b.nextState = a.nextState /\ b.stateOps = a.stateOps
  /\ b.opNextState = a.opNextState /\ b.opErrors = a.opErrors

LEMMA NamesStay ==
  ASSUME NEW a, NEW b, Formed(a), NamesKnown(a), SameNames(a, b)
  PROVE  NamesKnown(b)
<1>1. /\ \A k \in DOMAIN a.nextState : k[1] \in SubSystems
      /\ \A k \in DOMAIN a.stateOps : k[1] \in SubSystems
      /\ \A k \in DOMAIN a.opNextState : k[1] \in SubSystems
      /\ \A k \in DOMAIN a.opErrors : k[1] \in SubSystems
  BY DEF Formed, AnalysisOK, IsTable
<1> QED  BY <1>1 DEF NamesKnown, SameNames, Grows

LEMMA StateNames ==
  ASSUME NEW a, Formed(a), NamesKnown(a), NEW l \in Doing, NEW ss \in SubSystems, NEW s \in States
  PROVE  LET b == StateCounted(a, l, ss, s)
         IN /\ NamesKnown(b) /\ Grows(a, b)
            /\ {s} \cup l.seen \cup LastState(l) \subseteq b.states[ss]
            /\ LastOp(l) \subseteq b.operations[ss] /\ ss \in b.subSystems
<1> DEFINE b == StateCounted(a, l, ss, s)
           next == {ss} \X LastState(l) \X {s}
           opNext == {ss} \X LastOp(l) \X {s}
<1>1. DOMAIN a = Fields /\ a.states \in [SubSystems -> SUBSET States]
      /\ a.operations \in [SubSystems -> SUBSET Ops]
  BY DEF Formed, Shape, AnalysisOK
<1>2. /\ b.subSystems = a.subSystems \cup {ss}
      /\ b.states = [a.states EXCEPT ![ss] = @ \cup {s} \cup LastState(l) \cup l.seen]
      /\ b.operations = [a.operations EXCEPT ![ss] = @ \cup LastOp(l)]
      /\ b.nextState = Plus(a.nextState, next) /\ b.opNextState = Plus(a.opNextState, opNext)
      /\ b.stateOps = a.stateOps /\ b.opErrors = a.opErrors
  BY <1>1 DEF StateCounted, Fields
<1> HIDE DEF b, next, opNext
<1>3. /\ DOMAIN b.nextState = DOMAIN a.nextState \cup next
      /\ DOMAIN b.opNextState = DOMAIN a.opNextState \cup opNext
  BY <1>2, PlusDomain
<1>4. /\ Grows(a, b)
      /\ {s} \cup l.seen \cup LastState(l) \subseteq b.states[ss]
      /\ LastOp(l) \subseteq b.operations[ss] /\ ss \in b.subSystems
  BY <1>1, <1>2 DEF Grows
<1>5. /\ \A k \in DOMAIN a.nextState : k[1] \in SubSystems
      /\ \A k \in DOMAIN a.stateOps : k[1] \in SubSystems
      /\ \A k \in DOMAIN a.opNextState : k[1] \in SubSystems
      /\ \A k \in DOMAIN a.opErrors : k[1] \in SubSystems
  BY DEF Formed, AnalysisOK, IsTable
<1>6. \A k \in DOMAIN b.nextState : {k[2], k[3]} \subseteq b.states[k[1]]
  BY <1>3, <1>4, <1>5 DEF NamesKnown, Grows, next
<1>7. \A k \in DOMAIN b.opNextState : k[2] \in b.operations[k[1]] /\ k[3] \in b.states[k[1]]
  BY <1>3, <1>4, <1>5 DEF NamesKnown, Grows, opNext
<1>8. /\ \A k \in DOMAIN b.stateOps : k[2] \in b.states[k[1]] /\ k[3] \in b.operations[k[1]]
      /\ \A k \in DOMAIN b.opErrors : k[2] \in b.operations[k[1]] /\ k[5] \in b.states[k[1]] \cup {NoState}
  BY <1>2, <1>4, <1>5 DEF NamesKnown, Grows
<1>9. NamesKnown(b)
  BY <1>6, <1>7, <1>8 DEF NamesKnown
<1> QED  BY <1>4, <1>9 DEF b

LEMMA OperationNames ==
  ASSUME NEW a, Formed(a), NamesKnown(a), NEW l \in Doing, NEW ss \in SubSystems, NEW o \in Ops
  PROVE  LET b == OperationCounted(a, l, ss, o)
         IN /\ NamesKnown(b) /\ Grows(a, b)
            /\ l.seen \cup LastState(l) \subseteq b.states[ss]
            /\ o \in b.operations[ss] /\ ss \in b.subSystems
<1> DEFINE b == OperationCounted(a, l, ss, o)
           done == {ss} \X LastState(l) \X {o}
<1>1. DOMAIN a = Fields /\ a.states \in [SubSystems -> SUBSET States]
      /\ a.operations \in [SubSystems -> SUBSET Ops]
  BY DEF Formed, Shape, AnalysisOK
<1>2. /\ b.subSystems = a.subSystems \cup {ss}
      /\ b.states = [a.states EXCEPT ![ss] = @ \cup LastState(l) \cup l.seen]
      /\ b.operations = [a.operations EXCEPT ![ss] = @ \cup {o} \cup LastOp(l)]
      /\ b.stateOps = Plus(a.stateOps, done)
      /\ b.nextState = a.nextState /\ b.opNextState = a.opNextState /\ b.opErrors = a.opErrors
  BY <1>1 DEF OperationCounted, Fields
<1> HIDE DEF b, done
<1>3. DOMAIN b.stateOps = DOMAIN a.stateOps \cup done
  BY <1>2, PlusDomain
<1>4. /\ Grows(a, b)
      /\ l.seen \cup LastState(l) \subseteq b.states[ss]
      /\ o \in b.operations[ss] /\ ss \in b.subSystems
  BY <1>1, <1>2 DEF Grows
<1>5. /\ \A k \in DOMAIN a.nextState : k[1] \in SubSystems
      /\ \A k \in DOMAIN a.stateOps : k[1] \in SubSystems
      /\ \A k \in DOMAIN a.opNextState : k[1] \in SubSystems
      /\ \A k \in DOMAIN a.opErrors : k[1] \in SubSystems
  BY DEF Formed, AnalysisOK, IsTable
<1>6. \A k \in DOMAIN b.stateOps : k[2] \in b.states[k[1]] /\ k[3] \in b.operations[k[1]]
  BY <1>3, <1>4, <1>5 DEF NamesKnown, Grows, done
<1>7. /\ \A k \in DOMAIN b.nextState : {k[2], k[3]} \subseteq b.states[k[1]]
      /\ \A k \in DOMAIN b.opNextState : k[2] \in b.operations[k[1]] /\ k[3] \in b.states[k[1]]
      /\ \A k \in DOMAIN b.opErrors : k[2] \in b.operations[k[1]] /\ k[5] \in b.states[k[1]] \cup {NoState}
  BY <1>2, <1>4, <1>5 DEF NamesKnown, Grows
<1>8. NamesKnown(b)
  BY <1>6, <1>7 DEF NamesKnown
<1> QED  BY <1>4, <1>8 DEF b

LEMMA ErrorNames ==
  ASSUME NEW a, Formed(a), NamesKnown(a), NEW l \in Doing, NEW ss \in SubSystems, NEW level, NEW error
  PROVE  LET b == ErrorCounted(a, l, ss, level, error) IN NamesKnown(b) /\ Grows(a, b)
<1> DEFINE b == ErrorCounted(a, l, ss, level, error)
           place == ErrorIndex(WithError(a.errors[<<ss, l.state, level>>], error), error)
           keys == {<<ss, o, level, place, l.state>> : o \in LastOp(l)}
<1>1. DOMAIN a = Fields /\ a.states \in [SubSystems -> SUBSET States]
      /\ a.operations \in [SubSystems -> SUBSET Ops]
  BY DEF Formed, Shape, AnalysisOK
<1>2. /\ b.subSystems = a.subSystems \cup {ss}
      /\ b.states = [a.states EXCEPT ![ss] = @ \cup LastState(l)]
      /\ b.operations = [a.operations EXCEPT ![ss] = @ \cup LastOp(l)]
      /\ b.opErrors = Plus(a.opErrors, keys)
      /\ b.nextState = a.nextState /\ b.opNextState = a.opNextState /\ b.stateOps = a.stateOps
  BY <1>1 DEF ErrorCounted, Fields
<1>3. \A k \in keys : k[1] = ss /\ k[2] \in LastOp(l) /\ k[5] = l.state
  OBVIOUS
<1> HIDE DEF b, place, keys
<1>4. DOMAIN b.opErrors = DOMAIN a.opErrors \cup keys
  BY <1>2, PlusDomain
<1>5. /\ Grows(a, b)
      /\ LastState(l) \subseteq b.states[ss] /\ LastOp(l) \subseteq b.operations[ss]
  BY <1>1, <1>2 DEF Grows
<1>6. /\ \A k \in DOMAIN a.nextState : k[1] \in SubSystems
      /\ \A k \in DOMAIN a.stateOps : k[1] \in SubSystems
      /\ \A k \in DOMAIN a.opNextState : k[1] \in SubSystems
      /\ \A k \in DOMAIN a.opErrors : k[1] \in SubSystems
  BY DEF Formed, AnalysisOK, IsTable
<1>7. \A k \in DOMAIN b.opErrors : k[2] \in b.operations[k[1]] /\ k[5] \in b.states[k[1]] \cup {NoState}
  <2>1. l.state \in b.states[ss] \cup {NoState}
    BY <1>5 DEF LastState
  <2> QED  BY <1>3, <1>4, <1>5, <1>6, <2>1 DEF NamesKnown, Grows
<1>8. /\ \A k \in DOMAIN b.nextState : {k[2], k[3]} \subseteq b.states[k[1]]
      /\ \A k \in DOMAIN b.opNextState : k[2] \in b.operations[k[1]] /\ k[3] \in b.states[k[1]]
      /\ \A k \in DOMAIN b.stateOps : k[2] \in b.states[k[1]] /\ k[3] \in b.operations[k[1]]
  BY <1>2, <1>5, <1>6 DEF NamesKnown, Grows
<1>9. NamesKnown(b)
  BY <1>7, <1>8 DEF NamesKnown
<1> QED  BY <1>5, <1>9 DEF b

LEMMA OtherNames ==
  ASSUME NEW a, Formed(a)
  PROVE  /\ \A l \in Doing, ss \in SubSystems : SameNames(a, LogCounted(a, l, ss))
         /\ \A ls, v : SameNames(a, ExactCounted(a, ls, v)) /\ SameNames(a, RangeCounted(a, ls, v))
         /\ \A l \in Doing, ss \in SubSystems : \A ms, info : SameNames(a, PerfCounted(a, l, ss, ms, info))
         /\ SameNames(a, Loaded(a))
<1>1. DOMAIN a = Fields /\ a.states \in [SubSystems -> SUBSET States]
      /\ a.operations \in [SubSystems -> SUBSET Ops]
  BY DEF Formed, Shape, AnalysisOK
<1>2. ASSUME NEW l \in Doing, NEW ss \in SubSystems PROVE SameNames(a, LogCounted(a, l, ss))
  <2>1. /\ LogCounted(a, l, ss).subSystems = a.subSystems \cup {ss}
        /\ LogCounted(a, l, ss).states = [a.states EXCEPT ![ss] = @ \cup LastState(l)]
        /\ LogCounted(a, l, ss).operations = [a.operations EXCEPT ![ss] = @ \cup LastOp(l)]
    BY <1>1 DEF LogCounted, Fields
  <2>2. Grows(a, LogCounted(a, l, ss))
    BY <1>1, <2>1 DEF Grows
  <2> QED  BY <1>1, <2>2, LogKeeps DEF SameNames, Fields
<1>3. ASSUME NEW ls, NEW v
      PROVE  SameNames(a, ExactCounted(a, ls, v)) /\ SameNames(a, RangeCounted(a, ls, v))
  BY <1>1, ExactKeeps, RangeKeeps DEF SameNames, Grows, Fields
<1>4. ASSUME NEW l \in Doing, NEW ss \in SubSystems, NEW ms, NEW info
      PROVE  SameNames(a, PerfCounted(a, l, ss, ms, info))
  <2>1. /\ PerfCounted(a, l, ss, ms, info).subSystems = a.subSystems \cup {ss}
        /\ PerfCounted(a, l, ss, ms, info).states = [a.states EXCEPT ![ss] = @ \cup LastState(l)]
    BY <1>1 DEF PerfCounted, Fields
  <2>2. PerfCounted(a, l, ss, ms, info).operations = a.operations
    BY <1>1, PerfKeeps DEF Fields
  <2>3. Grows(a, PerfCounted(a, l, ss, ms, info))
    BY <1>1, <2>1, <2>2 DEF Grows
  <2> QED  BY <1>1, <2>3, PerfKeeps DEF SameNames, Fields
<1>5. SameNames(a, Loaded(a))
  BY <1>1, LoadedKeeps DEF SameNames, Grows, Fields
<1> QED  BY <1>2, <1>3, <1>4, <1>5

LEMMA RecordNames ==
  ASSUME TypeInv, NamesKnown(analysis), Record
  PROVE  NamesKnown(analysis') /\ Grows(analysis, analysis')
<1> DEFINE Kept == NamesKnown(analysis') /\ Grows(analysis, analysis')
<1>1. Formed(analysis) /\ \A ss \in SubSystems : live[ss] \in Doing
  BY DEF TypeInv, TypeOK, Formed, Analyses, Doing
<1>2. SameNames(analysis, analysis') => Kept
  BY <1>1, NamesStay DEF SameNames
<1>3. ASSUME NEW ss \in SubSystems, NEW s \in States, SetState(ss, s) PROVE Kept
  BY <1>1, <1>3, StateNames DEF SetState
<1>4. ASSUME NEW ss \in SubSystems, NEW o \in Ops, Operation(ss, o) PROVE Kept
  BY <1>1, <1>4, OperationNames DEF Operation
<1>5. ASSUME NEW ss \in SubSystems, NEW level \in Levels, NEW error \in Errors, Error(ss, level, error)
      PROVE  Kept
  BY <1>1, <1>5, ErrorNames DEF Error
<1>6. ASSUME NEW ss \in SubSystems, Log(ss) PROVE Kept
  BY <1>1, <1>2, <1>6, OtherNames DEF Log
<1>7. ASSUME NEW v \in Samples, ObserveExact(v) \/ ObserveRange(v) PROVE Kept
  BY <1>1, <1>2, <1>7, OtherNames DEF ObserveExact, ObserveRange
<1>8. ASSUME NEW ss \in SubSystems, NEW ms \in Samples, PerfData(ss, ms) PROVE Kept
  BY <1>1, <1>2, <1>8, OtherNames DEF PerfData
<1>9. ASSUME (\E error \in Errors : Crash(error)) \/ ObserveString \/ (\E v \in Samples : PerfMetric(v))
               \/ SystemInfo
      PROVE  Kept
  <2>1. DOMAIN analysis = Fields
    BY <1>1 DEF Formed, Shape
  <2>2. \A f \in Fields \ {"crashes", "crashCount", "strings", "metric", "hardware"} :
          analysis'[f] = analysis[f]
    BY <1>9, <2>1 DEF Crash, ObserveString, PerfMetric, SystemInfo, Fields
  <2>3. SameNames(analysis, analysis')
    BY <2>2 DEF SameNames, Grows, Fields
  <2> QED  BY <1>2, <2>3
<1> QED  BY <1>3, <1>4, <1>5, <1>6, <1>7, <1>8, <1>9 DEF Record

DangleInv == NothingDangles /\ (pc = "idle" => live = NoLog)

LEMMA NamesStep ==
  ASSUME TypeInv, DangleInv, [Next]_vars
  PROVE  \A a \in Analyses' : NamesKnown(a)
<1>1. \A a \in Analyses : Formed(a) /\ NamesKnown(a)
  BY DEF TypeInv, TypeOK, Formed, DangleInv, NothingDangles
<1>2. NamesKnown(analysis')
  <2>1. CASE Start
    <3>1. CASE file.is = "saved"
      <4>1. file.analysis \in Analyses
        BY <3>1 DEF Analyses
      <4> QED  BY <1>1, <2>1, <3>1, <4>1, OtherNames, NamesStay DEF Start
    <3>2. CASE file.is # "saved"
      BY <1>1, <2>1, <3>2 DEF Start, memory, Analyses
    <3> QED  BY <3>1, <3>2
  <2>2. ASSUME NEW day \in Days, NEW hour \in Hours, NEW m \in Machines, BeginLog(day, hour, m)
        PROVE  NamesKnown(analysis')
    <3>1. Formed(analysis) /\ NamesKnown(analysis) /\ DOMAIN analysis = Fields
      BY <1>1 DEF Analyses, Formed, Shape
    <3>2. SameNames(analysis, analysis')
      BY <2>2, <3>1 DEF BeginLog, SameNames, Grows, Fields
    <3> QED  BY <3>1, <3>2, NamesStay
  <2>3. CASE Record
    BY <1>1, <2>3, RecordNames DEF Analyses
  <2>4. CASE EndLog \/ UNCHANGED vars
    BY <1>1, <2>4 DEF EndLog, vars, memory, Analyses
  <2>5. CASE Fail \/ Write
    <3>1. analysis' = NoAnalysis
      BY <2>5 DEF Fail, Write, Gone
    <3>2. /\ DOMAIN NoAnalysis.nextState = {} /\ DOMAIN NoAnalysis.stateOps = {}
          /\ DOMAIN NoAnalysis.opNextState = {} /\ DOMAIN NoAnalysis.opErrors = {}
      BY DEF NoAnalysis, EmptyBag, SetToBag
    <3> QED  BY <3>1, <3>2 DEF NamesKnown
  <2> QED  BY <2>1, <2>2, <2>3, <2>4, <2>5 DEF Next
<1> QED  BY <1>1, <1>2, FileKept

LEMMA FollowsStep ==
  ASSUME TypeInv, DangleInv, [Next]_vars
  PROVE  \A ss \in SubSystems : Follows(live[ss], ss)'
<1> SUFFICES ASSUME NEW x \in SubSystems
             PROVE  Follows(live[x], x)'
  OBVIOUS
<1>1. /\ Formed(analysis) /\ NamesKnown(analysis) /\ live \in [SubSystems -> Doing]
      /\ Follows(live[x], x)
  BY DEF TypeInv, TypeOK, Formed, Analyses, Doing, DangleInv, NothingDangles
<1>2. live'[x] = live[x] /\ Grows(analysis, analysis') => Follows(live[x], x)'
  BY <1>1 DEF Follows, Grows
<1>3. live' = NoLog => Follows(live[x], x)'
  BY DEF Follows, NoLog, LastState, LastOp
<1>4. CASE Record
  <2>1. Grows(analysis, analysis')
    BY <1>1, <1>4, RecordNames
  <2>2. ASSUME NEW ss \in SubSystems, NEW s \in States, SetState(ss, s) PROVE Follows(live[x], x)'
    <3>1. CASE x = ss
      <4>1. live'[x] = [live[x] EXCEPT !.state = s, !.seen = @ \cup {s}]
        BY <1>1, <2>2, <3>1 DEF SetState
      <4>2. /\ {s} \cup live[x].seen \subseteq analysis'.states[x]
            /\ LastOp(live[x]) \subseteq analysis'.operations[x] /\ x \in analysis'.subSystems
        BY <1>1, <2>2, <3>1, StateNames DEF SetState
      <4>3. live'[x].state = s /\ live'[x].op = live[x].op /\ live'[x].seen = live[x].seen \cup {s}
        BY <1>1, <4>1 DEF Doing
      <4> QED  BY <4>2, <4>3 DEF Follows, LastState, LastOp
    <3>2. CASE x # ss
      BY <1>1, <1>2, <2>1, <2>2, <3>2 DEF SetState
    <3> QED  BY <3>1, <3>2
  <2>3. ASSUME NEW ss \in SubSystems, NEW o \in Ops, Operation(ss, o) PROVE Follows(live[x], x)'
    <3>1. CASE x = ss
      <4>1. live'[x] = [live[x] EXCEPT !.op = o]
        BY <1>1, <2>3, <3>1 DEF Operation
      <4>2. o \in analysis'.operations[x] /\ x \in analysis'.subSystems
        BY <1>1, <2>3, <3>1, OperationNames DEF Operation
      <4>3. live'[x].state = live[x].state /\ live'[x].op = o /\ live'[x].seen = live[x].seen
        BY <1>1, <4>1 DEF Doing
      <4> QED  BY <1>1, <2>1, <4>2, <4>3 DEF Follows, LastState, LastOp, Grows
    <3>2. CASE x # ss
      BY <1>1, <1>2, <2>1, <2>3, <3>2 DEF Operation
    <3> QED  BY <3>1, <3>2
  <2>4. \/ live' = live
        \/ \E ss \in SubSystems, s \in States : SetState(ss, s)
        \/ \E ss \in SubSystems, o \in Ops : Operation(ss, o)
    BY <1>4 DEF Record, Error, Crash, Log, ObserveExact, ObserveRange, ObserveString, PerfMetric,
      PerfData, SystemInfo
  <2> QED  BY <1>2, <2>1, <2>2, <2>3, <2>4
<1>5. CASE Start
  BY <1>3, <1>5 DEF Start, log, DangleInv
<1>6. CASE EndLog \/ UNCHANGED vars
  BY <1>1, <1>6 DEF EndLog, vars, memory, log, Follows
<1>7. CASE (\E day \in Days, hour \in Hours, m \in Machines : BeginLog(day, hour, m)) \/ Fail \/ Write
  BY <1>3, <1>7 DEF BeginLog, Fail, Write, Gone
<1> QED  BY <1>4, <1>5, <1>6, <1>7 DEF Next

LEMMA DangleStep ==
  ASSUME TypeInv, DangleInv, [Next]_vars
  PROVE  DangleInv'
<1>1. (pc = "idle" => live = NoLog)'
  BY DEF DangleInv, Next, Start, BeginLog, Record, SetState, Operation, Error, Crash, Log, ObserveExact,
    ObserveRange, ObserveString, PerfMetric, PerfData, SystemInfo, ReadingEvent, ReadingValue,
    Reading, EndLog, Fail, Write, Gone, vars, log
<1> QED  BY <1>1, NamesStep, FollowsStep DEF DangleInv, NothingDangles

LEMMA DangleInit == Init => DangleInv
<1> SUFFICES ASSUME Init PROVE DangleInv
  OBVIOUS
<1>1. \A ss \in SubSystems : Follows(live[ss], ss)
  BY DEF Init, Follows, NoLog, LastState, LastOp
<1>2. /\ DOMAIN NoAnalysis.nextState = {} /\ DOMAIN NoAnalysis.stateOps = {}
      /\ DOMAIN NoAnalysis.opNextState = {} /\ DOMAIN NoAnalysis.opErrors = {}
  BY DEF NoAnalysis, EmptyBag, SetToBag
<1>3. \A a \in Analyses : NamesKnown(a)
  BY <1>2 DEF Init, Analyses, Absent, NamesKnown
<1> QED  BY <1>1, <1>3 DEF Init, DangleInv, NothingDangles

(* NothingDangles, and that nothing is known of a log between two runs.    *)
THEOREM DangleInvariant == Spec => []DangleInv
<1>1. TypeInv /\ DangleInv /\ [Next]_vars => DangleInv'
  BY DangleStep
<1> QED  BY <1>1, DangleInit, TypeInvariant, PTL DEF Spec

(* Whatever a log is doing is in the analysis, and so is everything that   *)
(* the tables of the analysis name: no link of a page leads nowhere, and   *)
(* pSelf (line 502) is not a place in a vector that get_state appends to.  *)
THEOREM NamesAreKnown == Spec => []NothingDangles
<1>1. DangleInv => NothingDangles
  BY DEF DangleInv
<1> QED  BY <1>1, DangleInvariant, PTL

-----------------------------------------------------------------------------
(* TablesAgree: the tables that mirror each other count the same triples   *)
(* of a record, and what was seen before includes what came last.          *)

(* The tables that only records of states, operations and errors add to. *)
Tables == {"left", "nextState", "previousState", "stateOps", "previousOperation", "stateReach",
           "operationReach", "parentState", "opNextState", "opErrors", "errors", "errorCount"}

SameTables(a, b) == \A f \in Tables : b[f] = a[f]

LEMMA TablesStay ==
  ASSUME TypeInv, [Next]_vars
  PROVE  \/ \E ss \in SubSystems, s \in States : SetState(ss, s)
         \/ \E ss \in SubSystems, o \in Ops : Operation(ss, o)
         \/ \E ss \in SubSystems, level \in Levels, error \in Errors : Error(ss, level, error)
         \/ analysis' = NoAnalysis
         \/ \E a \in Analyses : SameTables(a, analysis')
<1> DEFINE Stay == \E a \in Analyses : SameTables(a, analysis')
<1>1. analysis \in Analyses /\ \A a \in Analyses : DOMAIN a = Fields
  BY DEF TypeInv, Shape, Analyses
<1>2. (\A f \in Tables : analysis'[f] = analysis[f]) => Stay
  BY <1>1 DEF SameTables
<1>3. CASE Start
  <2>1. CASE file.is = "saved"
    <3>1. file.analysis \in Analyses
      BY <2>1 DEF Analyses
    <3>2. \A f \in Tables : Loaded(file.analysis)[f] = file.analysis[f]
      BY <1>1, <3>1, LoadedKeeps DEF Tables, Fields
    <3>3. analysis' = Loaded(file.analysis)
      BY <1>3, <2>1 DEF Start
    <3> QED  BY <3>1, <3>2, <3>3 DEF SameTables
  <2>2. CASE file.is # "saved"
    BY <1>2, <1>3, <2>2 DEF Start, memory
  <2> QED  BY <2>1, <2>2
<1>4. ASSUME NEW day \in Days, NEW hour \in Hours, NEW m \in Machines, BeginLog(day, hour, m)
      PROVE  Stay
  <2>1. \A f \in Tables : analysis'[f] = analysis[f]
    BY <1>1, <1>4 DEF BeginLog, Tables, Fields
  <2> QED  BY <1>2, <2>1
<1>5. ASSUME NEW error, Crash(error) PROVE \A f \in Tables : analysis'[f] = analysis[f]
  BY <1>1, <1>5 DEF Crash, Tables, Fields
<1>6. ASSUME NEW ss, Log(ss) PROVE \A f \in Tables : analysis'[f] = analysis[f]
  BY <1>1, <1>6, LogKeeps DEF Log, Tables, Fields
<1>7. ASSUME NEW v, ObserveExact(v) \/ ObserveRange(v) PROVE \A f \in Tables : analysis'[f] = analysis[f]
  BY <1>1, <1>7, ExactKeeps, RangeKeeps DEF ObserveExact, ObserveRange, Tables, Fields
<1>8. ASSUME NEW v, ObserveString \/ PerfMetric(v) \/ SystemInfo
      PROVE  \A f \in Tables : analysis'[f] = analysis[f]
  BY <1>1, <1>8 DEF ObserveString, PerfMetric, SystemInfo, Tables, Fields
<1>9. ASSUME NEW ss, NEW ms, PerfData(ss, ms) PROVE \A f \in Tables : analysis'[f] = analysis[f]
  BY <1>1, <1>9, PerfKeeps DEF PerfData, Tables, Fields
<1>10. CASE EndLog \/ UNCHANGED vars
  BY <1>2, <1>10 DEF EndLog, vars, memory
<1>11. CASE Fail \/ Write
  BY <1>11 DEF Fail, Write, Gone
<1> HIDE DEF Stay
<1>12. Record => \/ \E ss \in SubSystems, s \in States : SetState(ss, s)
                 \/ \E ss \in SubSystems, o \in Ops : Operation(ss, o)
                 \/ \E ss \in SubSystems, level \in Levels, error \in Errors : Error(ss, level, error)
                 \/ Stay
  BY <1>2, <1>5, <1>6, <1>7, <1>8, <1>9 DEF Record
<1> QED  BY <1>3, <1>4, <1>10, <1>11, <1>12 DEF Next, Stay

(* keys and back are the same triples, but for the order of the last two. *)
SwapOf(keys, back) ==
  /\ \A k \in keys : Swapped(k) \in back
  /\ \A m \in back : Swapped(m) \in keys /\ m = Swapped(Swapped(m))

LEMMA MirrorPlus ==
  ASSUME NEW K, NEW f, NEW g, NEW keys, NEW back,
         IsTable(f, K), Mirror(f, g), keys \subseteq K, SwapOf(keys, back),
         \A k, m \in K : Swapped(k) = Swapped(m) => k = m
  PROVE  Mirror(Plus(f, keys), Plus(g, back))
<1>1. \A k, m \in K : Swapped(k) = Swapped(m) => k = m
  OBVIOUS
<1>2. DOMAIN f \subseteq K /\ \A k \in DOMAIN f : f[k] \in Nat
  BY DEF IsTable
<1>3. /\ DOMAIN g = {Swapped(k) : k \in DOMAIN f}
      /\ \A k \in DOMAIN f : g[Swapped(k)] = f[k]
  BY DEF Mirror
<1>4. DOMAIN Plus(f, keys) = DOMAIN f \cup keys /\ DOMAIN Plus(g, back) = DOMAIN g \cup back
  BY PlusDomain
<1>5. DOMAIN Plus(g, back) = {Swapped(k) : k \in DOMAIN Plus(f, keys)}
  <2>1. back = {Swapped(k) : k \in keys}
    BY DEF SwapOf
  <2> QED  BY <1>3, <1>4, <2>1
<1>6. ASSUME NEW k \in DOMAIN Plus(f, keys)
      PROVE  Plus(g, back)[Swapped(k)] = Plus(f, keys)[k]
  <2>1. k \in K /\ k \in DOMAIN f \cup keys
    BY <1>2, <1>4
  <2>2. (k \in keys <=> Swapped(k) \in back) /\ (k \in DOMAIN f <=> Swapped(k) \in DOMAIN g)
    <3>1. k \in keys <=> Swapped(k) \in back
      BY <1>1, <2>1 DEF SwapOf
    <3>2. k \in DOMAIN f <=> Swapped(k) \in DOMAIN g
      BY <1>1, <1>2, <1>3, <2>1
    <3> QED  BY <3>1, <3>2
  <2>3. k \in DOMAIN f => g[Swapped(k)] = f[k]
    BY <1>3
  <2> HIDE DEF Swapped
  <2> QED  BY <2>1, <2>2, <2>3 DEF Plus, (+), SetToBag
<1> QED  BY <1>5, <1>6 DEF Mirror

LEMMA CoversPlus ==
  ASSUME NEW K, NEW f, NEW g, NEW keys, NEW more, IsTable(f, K), IsTable(g, K), keys \subseteq more,
         \A k \in DOMAIN f : f[k] <= Copies(g, k)
  PROVE  \A k \in DOMAIN Plus(f, keys) : Plus(f, keys)[k] <= Copies(Plus(g, more), k)
<1> SUFFICES ASSUME NEW k \in DOMAIN Plus(f, keys)
             PROVE  Plus(f, keys)[k] <= Copies(Plus(g, more), k)
  OBVIOUS
<1>1. (\A x \in DOMAIN f : f[x] \in Nat) /\ (\A x \in DOMAIN g : g[x] \in Nat)
  BY DEF IsTable
<1>2. Copies(Plus(f, keys), k) = Copies(f, k) + (IF k \in keys THEN 1 ELSE 0)
  BY <1>1, PlusCopies
<1>3. Copies(Plus(g, more), k) = Copies(g, k) + (IF k \in more THEN 1 ELSE 0)
  BY <1>1, PlusCopies
<1>4. Copies(f, k) <= Copies(g, k) /\ Copies(f, k) \in Nat /\ Copies(g, k) \in Nat
  BY <1>1 DEF Copies
<1>5. Plus(f, keys)[k] = Copies(Plus(f, keys), k)
  BY DEF Copies
<1> QED  BY <1>2, <1>3, <1>4, <1>5

Agreed(a) == TablesMirrored(a) /\ ReachCovers(a)

LEMMA NothingAgreed == Agreed(NoAnalysis)
<1>1. Mirror(EmptyBag, EmptyBag) /\ DOMAIN EmptyBag = {}
  BY DEF Mirror, EmptyBag, SetToBag
<1>2. \A f \in Tables \ {"errors"} : NoAnalysis[f] = EmptyBag
  BY DEF NoAnalysis, Tables
<1> QED  BY <1>1, <1>2 DEF Agreed, TablesMirrored, ReachCovers, Tables

LEMMA StateAgreed ==
  ASSUME NEW a, Formed(a), Agreed(a), NEW l \in Doing, LastState(l) \subseteq l.seen,
         NEW ss \in SubSystems, NEW s \in States
  PROVE  Agreed(StateCounted(a, l, ss, s))
<1> DEFINE b == StateCounted(a, l, ss, s)
           next == {ss} \X LastState(l) \X {s}
           previous == {ss} \X {s} \X LastState(l)
           reach == {ss} \X l.seen \X {s}
           opNext == {ss} \X LastOp(l) \X {s}
           previousOp == {ss} \X {s} \X LastOp(l)
<1>1. DOMAIN a = Fields
  BY DEF Formed, Shape
<1>2. /\ b.nextState = Plus(a.nextState, next) /\ b.previousState = Plus(a.previousState, previous)
      /\ b.stateReach = Plus(a.stateReach, reach)
      /\ b.opNextState = Plus(a.opNextState, opNext)
      /\ b.previousOperation = Plus(a.previousOperation, previousOp)
      /\ b.stateOps = a.stateOps /\ b.parentState = a.parentState /\ b.operationReach = a.operationReach
  BY <1>1 DEF StateCounted, Fields
<1>3. SwapOf(next, previous) /\ SwapOf(opNext, previousOp)
  BY DEF SwapOf, Swapped
<1>4. /\ next \subseteq SubSystems \X States \X States /\ opNext \subseteq SubSystems \X Ops \X States
      /\ next \subseteq reach
  BY LastTyped
<1>5. /\ IsTable(a.nextState, SubSystems \X States \X States)
      /\ IsTable(a.stateReach, SubSystems \X States \X States)
      /\ IsTable(a.opNextState, SubSystems \X Ops \X States)
  BY DEF Formed, AnalysisOK
<1> HIDE DEF b, next, previous, reach, opNext, previousOp
<1>6. Mirror(b.nextState, b.previousState)
  <2>1. Mirror(a.nextState, a.previousState)
    BY DEF Agreed, TablesMirrored
  <2>2. \A k, m \in SubSystems \X States \X States : Swapped(k) = Swapped(m) => k = m
    BY DEF Swapped
  <2> QED  BY <1>2, <1>3, <1>4, <1>5, <2>1, <2>2, MirrorPlus
<1>7. Mirror(b.opNextState, b.previousOperation)
  <2>1. Mirror(a.opNextState, a.previousOperation)
    BY DEF Agreed, TablesMirrored
  <2>2. \A k, m \in SubSystems \X Ops \X States : Swapped(k) = Swapped(m) => k = m
    BY DEF Swapped
  <2> QED  BY <1>2, <1>3, <1>4, <1>5, <2>1, <2>2, MirrorPlus
<1>8. \A k \in DOMAIN b.nextState : b.nextState[k] <= Copies(b.stateReach, k)
  BY <1>2, <1>4, <1>5, CoversPlus DEF Agreed, ReachCovers
<1>9. Agreed(b)
  BY <1>2, <1>6, <1>7, <1>8 DEF Agreed, TablesMirrored, ReachCovers
<1> QED  BY <1>9 DEF b

LEMMA OperationAgreed ==
  ASSUME NEW a, Formed(a), Agreed(a), NEW l \in Doing, LastState(l) \subseteq l.seen,
         NEW ss \in SubSystems, NEW o \in Ops
  PROVE  Agreed(OperationCounted(a, l, ss, o))
<1> DEFINE b == OperationCounted(a, l, ss, o)
           done == {ss} \X LastState(l) \X {o}
           parent == {ss} \X {o} \X LastState(l)
           reach == {ss} \X l.seen \X {o}
<1>1. DOMAIN a = Fields
  BY DEF Formed, Shape
<1>2. /\ b.stateOps = Plus(a.stateOps, done) /\ b.parentState = Plus(a.parentState, parent)
      /\ b.operationReach = Plus(a.operationReach, reach)
      /\ b.nextState = a.nextState /\ b.previousState = a.previousState /\ b.stateReach = a.stateReach
      /\ b.opNextState = a.opNextState /\ b.previousOperation = a.previousOperation
  BY <1>1 DEF OperationCounted, Fields
<1>3. SwapOf(done, parent)
  BY DEF SwapOf, Swapped
<1>4. done \subseteq SubSystems \X States \X Ops /\ done \subseteq reach
  BY LastTyped
<1>5. /\ IsTable(a.stateOps, SubSystems \X States \X Ops)
      /\ IsTable(a.operationReach, SubSystems \X States \X Ops)
  BY DEF Formed, AnalysisOK
<1> HIDE DEF b, done, parent, reach
<1>6. Mirror(b.stateOps, b.parentState)
  <2>1. Mirror(a.stateOps, a.parentState)
    BY DEF Agreed, TablesMirrored
  <2>2. \A k, m \in SubSystems \X States \X Ops : Swapped(k) = Swapped(m) => k = m
    BY DEF Swapped
  <2> QED  BY <1>2, <1>3, <1>4, <1>5, <2>1, <2>2, MirrorPlus
<1>7. \A k \in DOMAIN b.stateOps : b.stateOps[k] <= Copies(b.operationReach, k)
  BY <1>2, <1>4, <1>5, CoversPlus DEF Agreed, ReachCovers
<1>8. Agreed(b)
  BY <1>2, <1>6, <1>7 DEF Agreed, TablesMirrored, ReachCovers
<1> QED  BY <1>8 DEF b

LEMMA TablesStep ==
  ASSUME TypeInv, DangleInv, TablesAgree, [Next]_vars
  PROVE  TablesAgree'
<1>1. /\ \A a \in Analyses : Agreed(a) /\ Formed(a)
      /\ \A ss \in SubSystems : live[ss] \in Doing /\ LastState(live[ss]) \subseteq live[ss].seen
  BY DEF TypeInv, TypeOK, Formed, TablesAgree, Agreed, DangleInv, NothingDangles, Follows, Doing
<1>2. Formed(analysis) /\ Agreed(analysis)
  BY <1>1 DEF Analyses
<1>3. ASSUME NEW ss \in SubSystems, NEW s \in States, SetState(ss, s) PROVE Agreed(analysis')
  BY <1>1, <1>2, <1>3, StateAgreed DEF SetState
<1>4. ASSUME NEW ss \in SubSystems, NEW o \in Ops, Operation(ss, o) PROVE Agreed(analysis')
  BY <1>1, <1>2, <1>4, OperationAgreed DEF Operation
<1>5. ASSUME NEW ss \in SubSystems, NEW level \in Levels, NEW error \in Errors, Error(ss, level, error)
      PROVE  Agreed(analysis')
  <2>1. \A f \in Tables \ {"opErrors", "errors", "errorCount"} : analysis'[f] = analysis[f]
    BY <1>2, <1>5, ErrorKeeps DEF Error, Formed, Shape, Tables, Fields
  <2> QED  BY <1>2, <2>1 DEF Agreed, TablesMirrored, ReachCovers, Tables
<1>6. analysis' = NoAnalysis => Agreed(analysis')
  BY NothingAgreed
<1>7. ASSUME NEW a \in Analyses, SameTables(a, analysis') PROVE Agreed(analysis')
  BY <1>1, <1>7 DEF Agreed, TablesMirrored, ReachCovers, SameTables, Tables
<1>8. Agreed(analysis')
  BY <1>3, <1>4, <1>5, <1>6, <1>7, TablesStay
<1> QED  BY <1>1, <1>8, FileKept DEF TablesAgree, Agreed

(* What analyze_file counts with a state or an operation and with the one  *)
(* before it agrees, and whatever follows a state is reached from it.      *)
THEOREM TablesAlwaysAgree == Spec => []TablesAgree
<1>1. Init => TablesAgree
  BY NothingAgreed DEF Init, Absent, Analyses, TablesAgree, Agreed
<1>2. TypeInv /\ DangleInv /\ TablesAgree /\ [Next]_vars => TablesAgree'
  BY TablesStep
<1> QED  BY <1>1, <1>2, TypeInvariant, DangleInvariant, PTL DEF Spec

-----------------------------------------------------------------------------
(* ErrorsKeepPlace: until the process ends, the lists of the analysis in   *)
(* memory go on where those of the file end.                               *)

Longer(s, t) == Len(s) <= Len(t) /\ \A i \in DOMAIN s : t[i] = s[i]

ListsLonger(a, b) ==
  /\ \A p \in SubSystems \X Places \X Levels : Longer(a.errors[p], b.errors[p])
  /\ Longer(a.crashes, b.crashes)

PlaceInv == pc # "idle" /\ file.is = "saved" => ListsLonger(file.analysis, analysis)

LEMMA LongerIsPrefix ==
  ASSUME NEW S, NEW s \in Seq(S), NEW t \in Seq(S), Longer(s, t)
  PROVE  IsPrefix(s, t)
<1>1. SubSeq(s, 1, Len(s)) = SubSeq(t, 1, Len(s))
  BY DEF Longer
<1> QED  BY <1>1 DEF Longer, IsPrefix

LEMMA LongerTransitive ==
  ASSUME NEW S, NEW s \in Seq(S), NEW t \in Seq(S), NEW u \in Seq(S), Longer(s, t), Longer(t, u)
  PROVE  Longer(s, u)
BY DEF Longer

LEMMA WithErrorLonger ==
  ASSUME NEW s \in Seq(Errors), NEW error \in Errors
  PROVE  Longer(s, WithError(s, error))
BY ListGrows DEF Longer

LEMMA RecordLonger ==
  ASSUME TypeInv, Next, pc # "idle", pc' # "idle"
  PROVE  ListsLonger(analysis, analysis')
<1>1. /\ DOMAIN analysis = Fields /\ analysis.crashes \in Seq(Errors)
      /\ analysis.errors \in [SubSystems \X Places \X Levels -> Seq(Errors)]
      /\ \A ss \in SubSystems : live[ss] \in Doing
  BY DEF TypeInv, TypeOK, Shape, Analyses, AnalysisOK, Doing
<1>2. \A s \in Seq(Errors) : Longer(s, s)
  BY DEF Longer
<1>3. analysis'.errors = analysis.errors /\ analysis'.crashes = analysis.crashes
        => ListsLonger(analysis, analysis')
  BY <1>1, <1>2 DEF ListsLonger
<1>4. ASSUME NEW ss \in SubSystems, NEW level \in Levels, NEW error \in Errors, Error(ss, level, error)
      PROVE  ListsLonger(analysis, analysis')
  <2> DEFINE place == <<ss, live[ss].state, level>>
             list == WithError(analysis.errors[place], error)
  <2>1. analysis'.errors = [analysis.errors EXCEPT ![place] = list] /\ analysis'.crashes = analysis.crashes
    BY <1>1, <1>4 DEF Error, ErrorCounted, Fields
  <2>2. place \in SubSystems \X Places \X Levels
    BY <1>1 DEF Doing
  <2>3. Longer(analysis.errors[place], list)
    <3> HIDE DEF place
    <3> QED  BY <1>1, <2>2, WithErrorLonger
  <2> HIDE DEF place, list
  <2> QED  BY <1>1, <1>2, <2>1, <2>2, <2>3 DEF ListsLonger
<1>5. ASSUME NEW error \in Errors, Crash(error) PROVE ListsLonger(analysis, analysis')
  <2>1. analysis'.errors = analysis.errors /\ analysis'.crashes = WithError(analysis.crashes, error)
    BY <1>1, <1>5 DEF Crash, Fields
  <2>2. Longer(analysis.crashes, analysis'.crashes)
    BY <1>1, <2>1, WithErrorLonger
  <2> QED  BY <1>1, <1>2, <2>1, <2>2 DEF ListsLonger
<1>6. CASE Record
  <2>1. ASSUME NEW ss, NEW s, SetState(ss, s)
        PROVE  analysis'.errors = analysis.errors /\ analysis'.crashes = analysis.crashes
    <3>1. analysis' = StateCounted(analysis, live[ss], ss, s)
      BY <2>1 DEF SetState
    <3>2. {"errors", "crashes"} \subseteq Fields \ {"subSystems", "states", "operations", "left", "nextState",
            "previousState", "stateReach", "opNextState", "previousOperation"}
      BY DEF Fields
    <3> QED  BY <1>1, <3>1, <3>2, StateKeeps
  <2>2. ASSUME NEW ss, NEW o, Operation(ss, o)
        PROVE  analysis'.errors = analysis.errors /\ analysis'.crashes = analysis.crashes
    BY <1>1, <2>2, OperationKeeps DEF Operation, Fields
  <2>3. ASSUME NEW ss, Log(ss)
        PROVE  analysis'.errors = analysis.errors /\ analysis'.crashes = analysis.crashes
    BY <1>1, <2>3, LogKeeps DEF Log, Fields
  <2>4. ASSUME NEW v, ObserveExact(v) \/ ObserveRange(v)
        PROVE  analysis'.errors = analysis.errors /\ analysis'.crashes = analysis.crashes
    <3>1. CASE ObserveExact(v)
      BY <1>1, <3>1, ExactKeeps DEF ObserveExact, Fields
    <3>2. CASE ObserveRange(v)
      BY <1>1, <3>2, RangeKeeps DEF ObserveRange, Fields
    <3> QED  BY <2>4, <3>1, <3>2
  <2>5. ASSUME NEW v, ObserveString \/ PerfMetric(v) \/ SystemInfo
        PROVE  analysis'.errors = analysis.errors /\ analysis'.crashes = analysis.crashes
    BY <1>1, <2>5 DEF ObserveString, PerfMetric, SystemInfo, Fields
  <2>6. ASSUME NEW ss, NEW ms, PerfData(ss, ms)
        PROVE  analysis'.errors = analysis.errors /\ analysis'.crashes = analysis.crashes
    BY <1>1, <2>6, PerfKeeps DEF PerfData, Fields
  <2> QED  BY <1>3, <1>4, <1>5, <1>6, <2>1, <2>2, <2>3, <2>4, <2>5, <2>6 DEF Record
<1>7. ASSUME NEW day, NEW hour, NEW m, BeginLog(day, hour, m) PROVE ListsLonger(analysis, analysis')
  BY <1>1, <1>3, <1>7 DEF BeginLog, Fields
<1>8. CASE EndLog
  BY <1>3, <1>8 DEF EndLog, memory
<1>9. ~Start /\ ~Fail /\ ~Write
  BY DEF Start, Fail, Write, Gone
<1> QED  BY <1>6, <1>7, <1>8, <1>9 DEF Next

LEMMA PlaceStep ==
  ASSUME TypeInv, PlaceInv, [Next]_vars
  PROVE  PlaceInv'
<1> SUFFICES ASSUME pc' # "idle", file'.is = "saved"
             PROVE  ListsLonger(file'.analysis, analysis')
  BY DEF PlaceInv
<1>1. file' = file
  BY DEF Next, Start, BeginLog, Record, SetState, Operation, Error, Crash, Log, ObserveExact,
    ObserveRange, ObserveString, PerfMetric, PerfData, SystemInfo, ReadingEvent, ReadingValue,
    Reading, EndLog, Fail, Write, Gone, vars
<1>2. Formed(file.analysis) /\ Formed(analysis) /\ Formed(analysis')
  BY <1>1, AnalysisFormed DEF TypeInv, TypeOK, Formed, Analyses
<1>3. CASE pc # "idle" /\ Next
  <2>1. ListsLonger(file.analysis, analysis) /\ ListsLonger(analysis, analysis')
    BY <1>1, <1>3, RecordLonger DEF PlaceInv
  <2>2. ASSUME NEW p \in SubSystems \X Places \X Levels
        PROVE  Longer(file.analysis.errors[p], analysis'.errors[p])
    <3>1. /\ file.analysis.errors[p] \in Seq(Errors) /\ analysis.errors[p] \in Seq(Errors)
          /\ analysis'.errors[p] \in Seq(Errors)
      BY <1>2 DEF Formed, AnalysisOK
    <3> QED  BY <2>1, <3>1, LongerTransitive DEF ListsLonger
  <2>3. Longer(file.analysis.crashes, analysis'.crashes)
    <3>1. /\ file.analysis.crashes \in Seq(Errors) /\ analysis.crashes \in Seq(Errors)
          /\ analysis'.crashes \in Seq(Errors)
      BY <1>2 DEF Formed, AnalysisOK
    <3> QED  BY <2>1, <3>1, LongerTransitive DEF ListsLonger
  <2> QED  BY <1>1, <2>2, <2>3 DEF ListsLonger
<1>4. CASE Start
  <2>1. analysis'.errors = file.analysis.errors /\ analysis'.crashes = file.analysis.crashes
    BY <1>1, <1>2, <1>4, LoadedKeeps DEF Start, Formed, Shape, Fields
  <2>2. \A s \in Seq(Errors) : Longer(s, s)
    BY DEF Longer
  <2> QED  BY <1>1, <1>2, <2>1, <2>2 DEF ListsLonger, Formed, AnalysisOK
<1>5. CASE UNCHANGED vars
  BY <1>1, <1>5 DEF vars, memory, PlaceInv
<1>6. pc = "idle" /\ Next => Start
  BY DEF Next, BeginLog, Record, SetState, Operation, Error, Crash, Log, ObserveExact,
    ObserveRange, ObserveString, PerfMetric, PerfData, SystemInfo, ReadingEvent, ReadingValue,
    Reading, EndLog, Fail, Write
<1> QED  BY <1>3, <1>4, <1>5, <1>6

(* Until the process ends, the errors in memory begin with those of the    *)
(* file: what analyze_file does to a list is to append to it.              *)
THEOREM PlaceInvariant == Spec => []PlaceInv
<1>1. Init => PlaceInv
  BY DEF Init, PlaceInv
<1>2. TypeInv /\ PlaceInv /\ [Next]_vars => PlaceInv'
  BY PlaceStep
<1> QED  BY <1>1, <1>2, TypeInvariant, PTL DEF Spec

(* As an analysis is loaded, extended and saved, every error and crash     *)
(* stays where it was: the indexes that other tables hold remain right.    *)
THEOREM ErrorsStay == Spec => ErrorsKeepPlace
<1> DEFINE Kept ==
      (file.is = "saved" /\ file'.is = "saved") =>
        /\ \A l \in DOMAIN file.analysis.errors :
             IsPrefix(file.analysis.errors[l], file'.analysis.errors[l])
        /\ IsPrefix(file.analysis.crashes, file'.analysis.crashes)
<1>1. TypeInv /\ PlaceInv /\ [Next]_vars => [Kept]_file
  <2> SUFFICES ASSUME TypeInv, PlaceInv, [Next]_vars, file' # file,
                      file.is = "saved", file'.is = "saved"
               PROVE  /\ \A l \in DOMAIN file.analysis.errors :
                           IsPrefix(file.analysis.errors[l], file'.analysis.errors[l])
                      /\ IsPrefix(file.analysis.crashes, file'.analysis.crashes)
    OBVIOUS
  <2>1. pc = "main" /\ file' = Saved(analysis, told)
    <3>1. Write
      BY DEF Next, Start, BeginLog, Record, SetState, Operation, Error, Crash, Log, ObserveExact,
        ObserveRange, ObserveString, PerfMetric, PerfData, SystemInfo, ReadingEvent, ReadingValue,
        Reading, EndLog, Fail, vars
    <3>2. Torn.is # "saved"
      BY DEF Torn
    <3> QED  BY <3>1, <3>2 DEF Write
  <2>2. file'.analysis = analysis
    BY <2>1 DEF Saved
  <2>3. ListsLonger(file.analysis, analysis)
    BY <2>1 DEF PlaceInv
  <2>4. Formed(file.analysis) /\ Formed(analysis)
    BY DEF TypeInv, TypeOK, Formed, Analyses
  <2>5. ASSUME NEW l \in DOMAIN file.analysis.errors
        PROVE  IsPrefix(file.analysis.errors[l], analysis.errors[l])
    <3>1. l \in SubSystems \X Places \X Levels
      BY <2>4 DEF Formed, AnalysisOK
    <3>2. file.analysis.errors[l] \in Seq(Errors) /\ analysis.errors[l] \in Seq(Errors)
      BY <2>4, <3>1 DEF Formed, AnalysisOK
    <3> QED  BY <2>3, <3>1, <3>2, LongerIsPrefix DEF ListsLonger
  <2>6. IsPrefix(file.analysis.crashes, analysis.crashes)
    <3>1. file.analysis.crashes \in Seq(Errors) /\ analysis.crashes \in Seq(Errors)
      BY <2>4 DEF Formed, AnalysisOK
    <3> QED  BY <2>3, <3>1, LongerIsPrefix DEF ListsLonger
  <2> QED  BY <2>2, <2>5, <2>6
<1>2. Spec => [][Kept]_file
  BY <1>1, TypeInvariant, PlaceInvariant, PTL DEF Spec
<1> QED  BY <1>2 DEF ErrorsKeepPlace

-----------------------------------------------------------------------------
(* DaysAreRight: the series begins and ends with a day on which a log was  *)
(* started, so a log that is not counted is far from one that is.          *)

Near(bag) == \A d, e \in DOMAIN bag : d - e <= Least(DaysBack, DaysForward)

DaysTell(days, bag) ==
  /\ SomeDays(days)
  /\ IsTable(bag, Nat)
  /\ IF days.count = <<>> THEN DOMAIN bag = {}
     ELSE {days.first, (days.first + Len(days.count)) - 1} \subseteq DOMAIN bag
  /\ \A d \in Int : Told(days, d) <= Copies(bag, d)
  /\ Near(bag) => \A d \in DOMAIN bag : DayFound(days, d) /\ Told(days, d) = bag[d]

LEMMA TellStep ==
  ASSUME NEW days, NEW bag, DaysTell(days, bag), NEW day \in Nat,
         NEW after, after = DaysWith(days, day), NEW more, more = Plus(bag, {day})
  PROVE  DaysTell(after, more)
<1>1. /\ SomeDays(days) /\ days.first \in Nat /\ days.count \in Seq(Nat) /\ Len(days.count) \in Nat
      /\ DaysBack \in Nat /\ DaysForward \in Nat /\ IsTable(bag, Nat)
  BY StatisticsAssumption DEF DaysTell, SomeDays
<1>2. IsTable(more, Nat)
  BY <1>1, PlusTable
<1>3. DOMAIN more = DOMAIN bag \cup {day}
  BY PlusDomain
<1>4. \A d \in Int : Copies(bag, d) \in Nat /\ Copies(more, d) = Copies(bag, d) + IF d = day THEN 1 ELSE 0
  BY <1>1, PlusCopies DEF IsTable, Copies
<1>5. Near(more) => Near(bag)
  BY <1>3 DEF Near
<1>6. CASE DayCounts(days, day)
  <2>1. /\ SomeDays(after) /\ after.count # <<>>
        /\ IF days.count = <<>> THEN after.first = day /\ Len(after.count) = 1
           ELSE /\ after.first = Least(days.first, day)
                /\ after.first + Len(after.count) = Greatest(days.first + Len(days.count), day + 1)
        /\ \A d \in Int : Told(after, d) = Told(days, d) + IF d = day THEN 1 ELSE 0
    BY <1>1, <1>6, DayTold
  <2>2. after.first \in Nat /\ Len(after.count) \in Nat
    BY <2>1 DEF SomeDays
  <2>3. {after.first, (after.first + Len(after.count)) - 1} \subseteq DOMAIN more
    <3>1. CASE days.count = <<>>
      <4>1. after.first = day /\ (after.first + Len(after.count)) - 1 = day
        <5>1. after.first = day /\ Len(after.count) = 1
          BY <2>1, <3>1
        <5> QED  BY <5>1
      <4> QED  BY <1>3, <4>1
    <3>2. CASE days.count # <<>>
      <4>1. {days.first, (days.first + Len(days.count)) - 1} \subseteq DOMAIN bag
        BY <3>2 DEF DaysTell
      <4>2. after.first = Least(days.first, day)
            /\ after.first + Len(after.count) = Greatest(days.first + Len(days.count), day + 1)
        BY <2>1, <3>2
      <4>3. after.first \in {days.first, day}
        BY <4>2 DEF Least
      <4>4. \/ (after.first + Len(after.count)) - 1 = (days.first + Len(days.count)) - 1
            \/ (after.first + Len(after.count)) - 1 = day
        <5>1. \/ after.first + Len(after.count) = days.first + Len(days.count)
              \/ after.first + Len(after.count) = day + 1
          BY <4>2 DEF Greatest
        <5>2. CASE after.first + Len(after.count) = days.first + Len(days.count)
          BY <1>1, <2>2, <5>2
        <5>3. CASE after.first + Len(after.count) = day + 1
          BY <1>1, <2>2, <5>3
        <5> QED  BY <5>1, <5>2, <5>3
      <4> QED  BY <1>3, <4>1, <4>3, <4>4
    <3> QED  BY <3>1, <3>2
  <2>4. ASSUME NEW d \in Int PROVE Told(after, d) <= Copies(more, d)
    <3>1. Told(days, d) <= Copies(bag, d) /\ Told(days, d) \in Nat
      BY <1>1, ToldTyped DEF DaysTell
    <3>2. Copies(bag, d) \in Nat /\ Copies(more, d) = Copies(bag, d) + IF d = day THEN 1 ELSE 0
      BY <1>4
    <3>3. Told(after, d) = Told(days, d) + IF d = day THEN 1 ELSE 0
      BY <2>1
    <3> QED  BY <3>1, <3>2, <3>3
  <2>5. ASSUME Near(more), NEW d \in DOMAIN more PROVE DayFound(after, d) /\ Told(after, d) = more[d]
    <3>1. d \in Nat /\ d \in Int
      BY <1>2 DEF IsTable
    <3>2. Told(days, d) = Copies(bag, d)
      <4>1. CASE d \in DOMAIN bag
        BY <1>5, <2>5, <4>1 DEF DaysTell, Copies
      <4>2. CASE d \notin DOMAIN bag
        <5>1. Told(days, d) \in Nat /\ Told(days, d) <= Copies(bag, d) /\ Copies(bag, d) = 0
          BY <1>1, <3>1, <4>2, ToldTyped DEF DaysTell, Copies
        <5> QED  BY <5>1
      <4> QED  BY <4>1, <4>2
    <3>3. Told(after, d) = more[d]
      BY <1>4, <2>1, <2>5, <3>1, <3>2 DEF Copies
    <3>4. after.first <= d /\ d < after.first + Len(after.count)
      <4>1. CASE d = day
        BY <1>1, <2>1, <2>2, <4>1 DEF Least, Greatest
      <4>2. CASE d \in DOMAIN bag
        <5>1. days.count # <<>> /\ DayFound(days, d)
          BY <1>5, <2>5, <4>2 DEF DaysTell
        <5>2. days.first <= d /\ d < days.first + Len(days.count)
          BY <1>1, <3>1, <5>1, FoundIs
        <5> QED  BY SMTT(30), <1>1, <2>1, <2>2, <3>1, <5>1, <5>2 DEF Least, Greatest
      <4> QED  BY <1>3, <2>5, <4>1, <4>2
    <3> QED  BY <2>1, <3>1, <3>3, <3>4, FoundIs
  <2> QED  BY <1>2, <2>1, <2>3, <2>4, <2>5 DEF DaysTell
<1>7. CASE ~DayCounts(days, day)
  <2>1. after = days /\ days.count # <<>>
    BY <1>7 DEF DaysWith, DayCounts
  <2>2. {days.first, (days.first + Len(days.count)) - 1} \subseteq DOMAIN bag
    BY <2>1 DEF DaysTell
  <2>3. ~Near(more)
    <3>1. \/ days.first - day > DaysBack
          \/ day - ((days.first + Len(days.count)) - 1) > DaysForward
      BY SMTT(30), <1>1, <1>7 DEF DayCounts
    <3>2. {day, days.first, (days.first + Len(days.count)) - 1} \subseteq DOMAIN more
      BY <1>3, <2>2
    <3> DEFINE last == (days.first + Len(days.count)) - 1
    <3>3. Least(DaysBack, DaysForward) <= DaysBack /\ Least(DaysBack, DaysForward) <= DaysForward
          /\ Least(DaysBack, DaysForward) \in Int /\ last \in Int
      BY <1>1 DEF Least
    <3>4. CASE days.first - day > DaysBack
      <4>1. ~(days.first - day <= Least(DaysBack, DaysForward))
        BY <1>1, <3>3, <3>4
      <4> QED  BY <3>2, <4>1 DEF Near
    <3>5. CASE day - last > DaysForward
      <4>1. ~(day - last <= Least(DaysBack, DaysForward))
        BY <1>1, <3>3, <3>5
      <4> QED  BY <3>2, <4>1 DEF Near
    <3> QED  BY <3>1, <3>4, <3>5
  <2>4. ASSUME NEW d \in Int PROVE Told(days, d) <= Copies(more, d)
    <3>1. Told(days, d) <= Copies(bag, d) /\ Told(days, d) \in Nat
      BY <1>1, ToldTyped DEF DaysTell
    <3>2. Copies(bag, d) \in Nat /\ Copies(more, d) = Copies(bag, d) + IF d = day THEN 1 ELSE 0
      BY <1>4
    <3> QED  BY <3>1, <3>2
  <2> QED  BY <1>1, <1>2, <1>3, <2>1, <2>2, <2>3, <2>4 DEF DaysTell
<1> QED  BY <1>6, <1>7

LEMMA TellIsRight ==
  ASSUME NEW a, NEW t, DaysTell(a.days, t.days)
  PROVE  DaysRight(a, t)
<1> DEFINE days == a.days
           bag == t.days
           series == {days.first + i - 1 : i \in DOMAIN days.count}
           At(d) == days.count[d - days.first + 1]
<1>1. SomeDays(days) /\ days.first \in Nat /\ days.count \in Seq(Nat) /\ IsTable(bag, Nat)
  BY DEF DaysTell, SomeDays
<1>2. ASSUME NEW d \in series PROVE At(d) <= Copies(bag, d)
  <2>1. PICK i \in DOMAIN days.count : d = days.first + i - 1
    OBVIOUS
  <2>2. i \in 1..Len(days.count) /\ i \in Int
    BY <1>1
  <2>3. d \in Int /\ d - days.first + 1 = i
    BY SMTT(30), <1>1, <2>1, <2>2
  <2>4. Told(days, d) = At(d)
    BY <2>2, <2>3 DEF Told, Tally
  <2> QED  BY <2>3, <2>4 DEF DaysTell
<1>3. ASSUME Near(bag), NEW d \in DOMAIN bag PROVE d \in series /\ At(d) = bag[d]
  <2>1. d \in Int /\ DayFound(days, d) /\ Told(days, d) = bag[d]
    BY <1>1, <1>3 DEF DaysTell, IsTable
  <2>2. d - days.first + 1 \in DOMAIN days.count /\ d - days.first + 1 \in 1..Len(days.count)
    BY SMTT(30), <1>1, <2>1 DEF DayFound
  <2>3. d = days.first + (d - days.first + 1) - 1
    BY <1>1, <2>1
  <2>4. At(d) = bag[d]
    BY <2>1, <2>2 DEF Told, Tally
  <2> QED  BY <2>2, <2>3, <2>4
<1> QED  BY <1>2, <1>3 DEF DaysRight, Near

Recorded(t) == DOMAIN t = {"days", "metric", "perf"}

(* Of the analysis in memory and of the file. *)
DayInv ==
  /\ pc # "fatal"
  /\ Recorded(told) /\ DaysTell(analysis.days, told.days)
  /\ file.is = "saved" => Recorded(file.told) /\ DaysTell(file.analysis.days, file.told.days)

LEMMA NothingTells == DaysTell(NoAnalysis.days, NothingTold.days)
<1> DEFINE days == NoAnalysis.days
           bag == NothingTold.days
<1>1. days = [first |-> 0, count |-> <<>>] /\ bag = EmptyBag
  BY DEF NoAnalysis, NothingTold, NoDays
<1> HIDE DEF days, bag
<1>2. SomeDays(days) /\ days.count = <<>>
  BY <1>1 DEF SomeDays
<1>3. DOMAIN bag = {} /\ IsTable(bag, Nat)
  BY <1>1, EmptyTable DEF EmptyBag, SetToBag
<1>4. ASSUME NEW d \in Int PROVE Told(days, d) <= Copies(bag, d)
  <2>1. Told(days, d) = 0
    BY <1>2, NoneTold
  <2>2. Copies(bag, d) = 0
    BY <1>3 DEF Copies
  <2> QED  BY <2>1, <2>2
<1> QED  BY <1>2, <1>3, <1>4 DEF DaysTell, days, bag

LEMMA DayStep ==
  ASSUME TypeInv, DayInv, [Next]_vars
  PROVE  DayInv'
<1>1. Formed(analysis) /\ Formed(analysis')
  BY AnalysisFormed DEF TypeInv, TypeOK, Formed, Analyses
<1>2. ASSUME NEW day \in Days, NEW hour \in Hours, NEW m \in Machines, BeginLog(day, hour, m)
      PROVE  DayInv'
  <2>1. day \in Nat
    BY AnalyzeAssumption
  <2>2. analysis'.days = DaysWith(analysis.days, day)
    BY <1>1, <1>2 DEF BeginLog, Formed, Shape, Fields
  <2>3. Recorded(told') /\ told'.days = Plus(told.days, {day})
    BY <1>2 DEF BeginLog, DayInv, Recorded
  <2>4. DaysTell(analysis'.days, told'.days)
    BY <2>1, <2>2, <2>3, TellStep DEF DayInv
  <2>5. pc' # "fatal"
    <3>1. SomeDays(analysis.days)
      BY DEF DayInv, DaysTell
    <3>2. DayCounts(analysis.days, day) => DayFound(DaysUpTo(analysis.days, day), day)
      BY <2>1, <3>1, DayTold
    <3> QED  BY <1>2, <3>2 DEF BeginLog
  <2> QED  BY <1>2, <2>3, <2>4, <2>5 DEF DayInv, BeginLog
<1>3. CASE Record
  <2>1. analysis'.days = analysis.days
    <3> DEFINE Same == analysis'.days = analysis.days
    <3>1. DOMAIN analysis = Fields /\ "days" \in Fields
      BY <1>1 DEF Formed, Shape, Fields
    <3>2. ASSUME NEW ss, NEW s, SetState(ss, s) PROVE Same
      BY <3>1, <3>2, StateKeeps DEF SetState
    <3>3. ASSUME NEW ss, NEW o, Operation(ss, o) PROVE Same
      BY <3>1, <3>3, OperationKeeps DEF Operation
    <3>4. ASSUME NEW ss, NEW level, NEW error, Error(ss, level, error) PROVE Same
      BY <3>1, <3>4, ErrorKeeps DEF Error
    <3>5. ASSUME NEW ss, Log(ss) PROVE Same
      BY <3>1, <3>5, LogKeeps DEF Log
    <3>6. ASSUME NEW error, Crash(error) PROVE Same
      BY <3>1, <3>6 DEF Crash
    <3>7. ASSUME NEW v, ObserveExact(v) PROVE Same
      BY <3>1, <3>7, ExactKeeps DEF ObserveExact
    <3>8. ASSUME NEW v, ObserveRange(v) PROVE Same
      BY <3>1, <3>8, RangeKeeps DEF ObserveRange
    <3>9. ASSUME NEW v, PerfMetric(v) PROVE Same
      BY <3>1, <3>9 DEF PerfMetric
    <3>10. ASSUME NEW ss, NEW ms, PerfData(ss, ms) PROVE Same
      BY <3>1, <3>10, PerfKeeps DEF PerfData
    <3>11. ObserveString \/ SystemInfo => Same
      BY <3>1 DEF ObserveString, SystemInfo
    <3> HIDE DEF Same
    <3> QED  BY <1>3, <3>2, <3>3, <3>4, <3>5, <3>6, <3>7, <3>8, <3>9, <3>10, <3>11 DEF Record, Same
  <2>2. Recorded(told') /\ told'.days = told.days
    BY <1>3 DEF Record, SetState, Operation, Error, Crash, Log, ObserveExact, ObserveRange, ObserveString,
       PerfMetric, PerfData, SystemInfo, DayInv, Recorded
  <2>3. pc' = pc /\ file' = file
    BY <1>3 DEF Record, SetState, Operation, Error, Crash, Log, ObserveExact, ObserveRange, ObserveString,
       PerfMetric, PerfData, SystemInfo, ReadingEvent, ReadingValue, Reading
  <2> QED  BY <2>1, <2>2, <2>3 DEF DayInv
<1>4. ASSUME Gone PROVE pc' # "fatal" /\ Recorded(told') /\ DaysTell(analysis'.days, told'.days)
  BY <1>4, NothingTells DEF Gone, Recorded, NothingTold
<1>5. CASE Start
  <2>1. CASE file.is = "saved"
    <3>1. Formed(file.analysis)
      BY <2>1 DEF TypeInv, TypeOK, Formed, Analyses
    <3>2. analysis'.days = file.analysis.days /\ told' = file.told
      BY <1>5, <2>1, <3>1, LoadedKeeps DEF Start, Formed, Shape, Fields
    <3> QED  BY <1>5, <2>1, <3>2 DEF DayInv, Start
  <2>2. CASE file.is # "saved"
    BY <1>5, <2>2 DEF DayInv, Start, memory
  <2> QED  BY <2>1, <2>2
<1>6. CASE EndLog
  BY <1>6 DEF DayInv, EndLog, memory
<1>7. CASE Fail
  BY <1>4, <1>7 DEF DayInv, Fail
<1>8. CASE Write
  <2>1. CASE file' = Saved(analysis, told)
    BY <1>4, <1>8, <2>1 DEF DayInv, Write, Saved
  <2>2. CASE file' = Torn
    BY <1>4, <1>8, <2>2 DEF DayInv, Write, Torn
  <2>3. CASE file' = file
    BY <1>4, <1>8, <2>3 DEF DayInv, Write
  <2> QED  BY <1>8, <2>1, <2>2, <2>3 DEF Write
<1>9. CASE UNCHANGED vars
  BY <1>9 DEF DayInv, vars, memory
<1> QED  BY <1>2, <1>3, <1>5, <1>6, <1>7, <1>8, <1>9 DEF Next

(* The series, of the analysis and of the file, begins and ends with a day *)
(* on which a log was started, and the day of a log is always found in it. *)
THEOREM DayInvariant == Spec => []DayInv
<1>1. Init => DayInv
  BY NothingTells DEF Init, DayInv, Absent, Recorded, NothingTold
<1>2. TypeInv /\ DayInv /\ [Next]_vars => DayInv'
  BY DayStep
<1> QED  BY <1>1, <1>2, TypeInvariant, PTL DEF Spec

(* The days of an analysis say on which day how many logs were started,    *)
(* and the place of a day is there when it is used (FATAL_IF).             *)
THEOREM DaysAlwaysRight == Spec => []DaysAreRight
<1>1. DayInv => DaysAreRight
  BY TellIsRight DEF DayInv, DaysAreRight
<1> QED  BY <1>1, DayInvariant, PTL

-----------------------------------------------------------------------------
(* Induction over the subsets of a set, and sums.                          *)

(* A set of subsets of a finite set that has a set if it has what is left  *)
(* of it without any one of its elements has all of them.                  *)
LEMMA SubsetInduction ==
  ASSUME NEW S, IsFiniteSet(S), NEW C,
         \A T \in SUBSET S : (\A x \in T : T \ {x} \in C) => T \in C
  PROVE  \A T \in SUBSET S : T \in C
<1> DEFINE rest == (SUBSET S) \ C
<1> SUFFICES ASSUME rest # {} PROVE FALSE
  OBVIOUS
<1>1. IsWellFoundedOn(StrictSubsetOrdering(S), SUBSET S)
  <2>1. FiniteSubsetsOf(S) = SUBSET S
    BY FS_FiniteSubsetsOfFinite
  <2>2. IsWellFoundedOn(StrictSubsetOrdering(S), FiniteSubsetsOf(S))
    BY FS_StrictSubsetOrderingWellFounded
  <2> QED  BY <2>1, <2>2
<1>2. rest \subseteq SUBSET S
  OBVIOUS
<1>3. PICK T \in rest : \A U \in rest : <<U, T>> \notin StrictSubsetOrdering(S)
  <2> HIDE DEF rest
  <2> QED  BY <1>1, <1>2, WFMin
<1>4. PICK x \in T : T \ {x} \in rest
  OBVIOUS
<1>5. <<T \ {x}, T>> \in StrictSubsetOrdering(S)
  BY <1>4 DEF StrictSubsetOrdering
<1> QED  BY <1>3, <1>4, <1>5

(* The definition by which the folds of the library add up.                *)
Element(s) == CHOOSE x \in s : TRUE
Adds(g, w, S) == g = [s \in SUBSET S |-> IF s = {} THEN 0 ELSE w[Element(s)] + g[s \ {Element(s)}]]
Total(w, S) == (CHOOSE g : Adds(g, w, S))[S]

LEMMA TotalExists ==
  ASSUME NEW S, IsFiniteSet(S), NEW w
  PROVE  \E g : Adds(g, w, S)
<1> DEFINE Again(g) == [s \in SUBSET S |-> IF s = {} THEN 0 ELSE w[Element(s)] + g[s \ {Element(s)}]]
           Until(n, g) == \A s \in SUBSET S : Cardinality(s) <= n => g[s] = Again(g)[s]
           C == {T \in SUBSET S : \E g : Until(Cardinality(T), g)}
<1>1. ASSUME NEW s \in SUBSET S PROVE IsFiniteSet(s) /\ Cardinality(s) \in Nat
  BY FS_Subset, FS_CardinalityType
<1>2. ASSUME NEW s \in SUBSET S, s # {}
      PROVE  /\ s \ {Element(s)} \in SUBSET S
             /\ Cardinality(s \ {Element(s)}) = Cardinality(s) - 1
  <2>1. Element(s) \in s
    BY <1>2 DEF Element
  <2> HIDE DEF Element
  <2> QED  BY <1>1, <2>1, FS_RemoveElement
<1>3. ASSUME NEW T \in SUBSET S, T = {} PROVE T \in C
  <2>1. \A s \in SUBSET S : Cardinality(s) <= 0 => s = {}
    BY <1>1, FS_EmptySet
  <2>2. Until(0, [s \in SUBSET S |-> 0])
    BY <2>1
  <2> QED  BY <1>3, <2>2, FS_EmptySet
<1>4. ASSUME NEW T \in SUBSET S, NEW x \in T, T \ {x} \in C PROVE T \in C
  <2> DEFINE n == Cardinality(T \ {x})
  <2>1. n \in Nat /\ Cardinality(T) = n + 1
    BY <1>1, FS_RemoveElement
  <2>2. PICK g : Until(n, g)
    BY <1>4
  <2> DEFINE h == Again(g)
  <2>3. ASSUME NEW s \in SUBSET S, Cardinality(s) <= n + 1 PROVE h[s] = Again(h)[s]
    <3>1. CASE s = {}
      BY <3>1
    <3>2. CASE s # {}
      <4> DEFINE t == s \ {Element(s)}
      <4>1. t \in SUBSET S /\ Cardinality(t) <= n
        BY <1>1, <1>2, <2>1, <2>3, <3>2
      <4>2. h[t] = g[t]
        BY <2>2, <4>1
      <4> QED  BY <3>2, <4>2
    <3> QED  BY <3>1, <3>2
  <2>4. Until(n + 1, h)
    BY <2>3
  <2> HIDE DEF Until, h
  <2> QED  BY <2>1, <2>4
<1>5. S \in C
  <2> HIDE DEF C
  <2>1. \A T \in SUBSET S : (\A x \in T : T \ {x} \in C) => T \in C
    BY <1>3, <1>4
  <2>2. \A T \in SUBSET S : T \in C
    BY <2>1, SubsetInduction
  <2> QED  BY <2>2
<1>6. PICK g : Until(Cardinality(S), g)
  BY <1>5
<1>7. Again(g) = Again(Again(g))
  <2>1. \A s \in SUBSET S : Cardinality(s) <= Cardinality(S)
    BY FS_Subset
  <2>2. ASSUME NEW s \in SUBSET S PROVE Again(g)[s] = Again(Again(g))[s]
    <3>1. CASE s = {}
      BY <3>1
    <3>2. CASE s # {}
      <4>1. Again(g)[s \ {Element(s)}] = g[s \ {Element(s)}]
        BY <1>2, <1>6, <2>1, <3>2
      <4> QED  BY <3>2, <4>1
    <3> QED  BY <3>1, <3>2
  <2> QED  BY <2>2
<1> QED  BY <1>7 DEF Adds

(* A total is one element more than the total of the others, and is the    *)
(* same however the recursion goes about it.                               *)
LEMMA Recursion ==
  ASSUME NEW S, IsFiniteSet(S), NEW w, \A x \in S : w[x] \in Int, NEW g, Adds(g, w, S)
  PROVE  /\ g[S] \in Int
         /\ \A x \in S : \A R : R = S \ {x} => g[S] = w[x] + g[R]
<1>1. /\ g[{}] = 0
      /\ \A s \in SUBSET S : s # {} => Element(s) \in s /\ g[s] = w[Element(s)] + g[s \ {Element(s)}]
  BY DEF Adds, Element
<1>2. \A T \in SUBSET S : g[T] \in Int
  <2> DEFINE C == {T \in SUBSET S : g[T] \in Int}
  <2>1. ASSUME NEW T \in SUBSET S, \A x \in T : T \ {x} \in C PROVE T \in C
    <3>1. CASE T = {}
      BY <1>1, <3>1
    <3>2. CASE T # {}
      <4> DEFINE e == Element(T)
      <4>1. e \in T /\ g[T] = w[e] + g[T \ {e}]
        BY <1>1, <3>2
      <4> HIDE DEF e
      <4>2. g[T \ {e}] \in Int /\ w[e] \in Int
        BY <2>1, <4>1
      <4> QED  BY <4>1, <4>2
    <3> QED  BY <3>1, <3>2
  <2>2. \A T \in SUBSET S : (\A x \in T : T \ {x} \in C) => T \in C
    BY <2>1
  <2>3. \A T \in SUBSET S : T \in C
    <3> HIDE DEF C
    <3> QED  BY <2>2, SubsetInduction
  <2> QED  BY <2>3
<1>3. \A T \in SUBSET S : \A x \in T : g[T] = w[x] + g[T \ {x}]
  <2> DEFINE Right(T) == \A x \in T : g[T] = w[x] + g[T \ {x}]
             C == {T \in SUBSET S : Right(T)}
  <2>1. ASSUME NEW T \in SUBSET S, \A y \in T : Right(T \ {y}), NEW x \in T
        PROVE  g[T] = w[x] + g[T \ {x}]
    <3> DEFINE e == Element(T)
               U == T \ {e, x}
    <3>1. e \in T /\ g[T] = w[e] + g[T \ {e}]
      BY <1>1, <2>1
    <3> HIDE DEF e
    <3>2. CASE x = e
      BY <3>1, <3>2
    <3>3. CASE x # e
      <4>1. (T \ {e}) \ {x} = U /\ (T \ {x}) \ {e} = U /\ U \in SUBSET S
        OBVIOUS
      <4>2. x \in T \ {e} /\ e \in T \ {x}
        BY <3>1, <3>3
      <4>3. g[T \ {e}] = w[x] + g[U]
        BY <2>1, <3>1, <4>1, <4>2
      <4>4. g[T \ {x}] = w[e] + g[U]
        BY <2>1, <4>1, <4>2
      <4>5. w[x] \in Int /\ w[e] \in Int /\ g[U] \in Int
        BY <1>2, <3>1, <4>1
      <4> HIDE DEF U
      <4> QED  BY <3>1, <4>3, <4>4, <4>5
    <3> QED  BY <3>2, <3>3
  <2>2. \A T \in SUBSET S : (\A y \in T : T \ {y} \in C) => T \in C
    BY <2>1
  <2>3. \A T \in SUBSET S : T \in C
    <3> HIDE DEF C
    <3> QED  BY <2>2, SubsetInduction
  <2> QED  BY <2>3
<1> QED  BY <1>2, <1>3

LEMMA TotalDef ==
  ASSUME NEW S, IsFiniteSet(S), NEW w
  PROVE  \E g : Adds(g, w, S) /\ Total(w, S) = g[S]
BY TotalExists DEF Total

(* Totals, without regard to how they are computed. *)
LEMMA TotalEmpty ==
  ASSUME NEW w
  PROVE  Total(w, {}) = 0
BY TotalDef, FS_EmptySet DEF Adds

LEMMA TotalTyped ==
  ASSUME NEW S, IsFiniteSet(S), NEW w, \A x \in S : w[x] \in Int
  PROVE  Total(w, S) \in Int
BY TotalDef, Recursion

(* Functions that agree have the same total. *)
LEMMA TotalSame ==
  ASSUME NEW S, NEW v, NEW w, \A x \in S : v[x] = w[x]
  PROVE  Total(v, S) = Total(w, S)
<1>1. ASSUME NEW g PROVE Adds(g, v, S) <=> Adds(g, w, S)
  <2> DEFINE Again(u) == [s \in SUBSET S |-> IF s = {} THEN 0 ELSE u[Element(s)] + g[s \ {Element(s)}]]
  <2>1. ASSUME NEW s \in SUBSET S PROVE Again(v)[s] = Again(w)[s]
    <3>1. s # {} => Element(s) \in S
      BY DEF Element
    <3> QED  BY <3>1
  <2>2. Again(v) = Again(w)
    BY <2>1
  <2> QED  BY <2>2 DEF Adds
<1> QED  BY <1>1 DEF Total

(* The total of a part is the same in the recursion over the whole. *)
LEMMA TotalOfPart ==
  ASSUME NEW S, IsFiniteSet(S), NEW w, \A x \in S : w[x] \in Int, NEW g, Adds(g, w, S),
         NEW T \in SUBSET S
  PROVE  g[T] = Total(w, T)
<1>1. IsFiniteSet(T)
  BY FS_Subset
<1>2. PICK h : Adds(h, w, T) /\ Total(w, T) = h[T]
  BY <1>1, TotalDef
<1> DEFINE C == {U \in SUBSET T : g[U] = h[U]}
<1>3. ASSUME NEW U \in SUBSET T, \A x \in U : U \ {x} \in C PROVE U \in C
  <2>1. CASE U = {}
    <3>1. g[{}] = 0 /\ h[{}] = 0
      BY <1>2 DEF Adds
    <3> QED  BY <2>1, <3>1
  <2>2. CASE U # {}
    <3> DEFINE e == Element(U)
    <3>1. e \in U /\ g[U] = w[e] + g[U \ {e}] /\ h[U] = w[e] + h[U \ {e}]
      BY <1>2, <2>2 DEF Adds, Element
    <3> QED  BY <1>3, <3>1
  <2> QED  BY <2>1, <2>2
<1>4. \A U \in SUBSET T : (\A x \in U : U \ {x} \in C) => U \in C
  BY <1>3
<1>5. \A U \in SUBSET T : U \in C
  <2> HIDE DEF C
  <2> QED  BY <1>1, <1>4, SubsetInduction
<1> QED  BY <1>2, <1>5

LEMMA TotalSplit ==
  ASSUME NEW S, IsFiniteSet(S), NEW w, \A y \in S : w[y] \in Int, NEW x \in S, NEW R, R = S \ {x}
  PROVE  Total(w, S) = w[x] + Total(w, R)
<1>1. PICK g : Adds(g, w, S) /\ Total(w, S) = g[S]
  BY TotalDef
<1>2. g[S] = w[x] + g[R]
  BY <1>1, Recursion
<1>3. g[R] = Total(w, R)
  BY <1>1, TotalOfPart
<1> QED  BY <1>1, <1>2, <1>3

(* A total changes by what one element does. *)
LEMMA TotalChanged ==
  ASSUME NEW S, IsFiniteSet(S), NEW w, \A y \in S : w[y] \in Int,
         NEW x \in S, NEW v, v[x] \in Int, \A y \in S : y # x => v[y] = w[y]
  PROVE  Total(v, S) = Total(w, S) + (v[x] - w[x])
<1> DEFINE R == S \ {x}
<1>1. IsFiniteSet(R) /\ R \subseteq S /\ R = S \ {x}
  BY FS_RemoveElement
<1>2. (\A y \in S : v[y] \in Int) /\ \A y \in R : v[y] = w[y] /\ w[y] \in Int
  OBVIOUS
<1> HIDE DEF R
<1>3. Total(v, R) = Total(w, R) /\ Total(w, R) \in Int
  BY <1>1, <1>2, TotalSame, TotalTyped
<1>4. Total(w, S) = w[x] + Total(w, R) /\ Total(v, S) = v[x] + Total(v, R)
  BY <1>1, <1>2, TotalSplit
<1>5. w[x] \in Int
  OBVIOUS
<1> QED  BY <1>3, <1>4, <1>5

LEMMA TotalAdded ==
  ASSUME NEW S, IsFiniteSet(S), NEW w, \A y \in S : w[y] \in Int,
         NEW x, x \notin S, NEW v, v[x] \in Int, \A y \in S : v[y] = w[y],
         NEW U, U = S \cup {x}
  PROVE  Total(v, U) = Total(w, S) + v[x]
<1>1. IsFiniteSet(U) /\ x \in U /\ S = U \ {x} /\ \A y \in U : v[y] \in Int
  BY FS_AddElement
<1>2. Total(v, U) = v[x] + Total(v, S)
  BY <1>1, TotalSplit
<1>3. Total(v, S) = Total(w, S) /\ Total(w, S) \in Int
  BY TotalSame, TotalTyped
<1> QED  BY <1>2, <1>3

LEMMA SumIs ==
  ASSUME NEW bag, NEW keys
  PROVE  Sum(bag, keys) = Total(bag, keys \cap DOMAIN bag)
BY DEF Sum, MapThenSumSet, MapThenFoldSet, Total, Adds, Element

LEMMA SumFunctionIs ==
  ASSUME NEW bag
  PROVE  SumFunction(bag) = Total(bag, DOMAIN bag)
BY DEF SumFunction, SumFunctionOnSet, FoldFunctionOnSet, MapThenFoldSet, Total, Adds, Element

(* The bag more counts what bag does, and x once more: there is one more   *)
(* in every total with x.                                                  *)
Finite(S, bag) == IsFiniteSet(S) /\ \A y \in S : bag[y] \in Int
OneMore(S, bag, x, U, more) ==
  /\ U = S \cup {x}
  /\ x \in S => more[x] = bag[x] + 1
  /\ x \notin S => more[x] = 1
  /\ \A y \in S : y # x => more[y] = bag[y]

LEMMA TotalPlus ==
  ASSUME NEW S, NEW bag, Finite(S, bag), NEW x, NEW U, NEW more, OneMore(S, bag, x, U, more)
  PROVE  Total(bag, S) \in Int /\ Total(more, U) = Total(bag, S) + 1
<1>1. IsFiniteSet(S) /\ (\A y \in S : bag[y] \in Int) /\ Total(bag, S) \in Int
  BY TotalTyped DEF Finite
<1>2. CASE x \in S
  <2>1. /\ U = S /\ bag[x] \in Int /\ more[x] = bag[x] + 1 /\ more[x] \in Int
        /\ \A y \in S : y # x => more[y] = bag[y]
    BY <1>1, <1>2 DEF OneMore
  <2>2. Total(more, S) = Total(bag, S) + (more[x] - bag[x])
    BY <1>1, <1>2, <2>1, TotalChanged
  <2> QED  BY <1>1, <2>1, <2>2
<1>3. CASE x \notin S
  <2>1. U = S \cup {x} /\ more[x] = 1 /\ more[x] \in Int /\ \A y \in S : more[y] = bag[y]
    BY <1>3 DEF OneMore
  <2>2. Total(more, U) = Total(bag, S) + more[x]
    BY <1>1, <1>3, <2>1, TotalAdded
  <2> QED  BY <1>1, <2>1, <2>2
<1> QED  BY <1>2, <1>3

(* What one record adds to a table: x and nothing else. *)
Only(one, x) == one = {x}

LEMMA PlusIs ==
  ASSUME NEW bag, Finite(DOMAIN bag, bag), NEW x, NEW one, Only(one, x),
         NEW more, more = Plus(bag, one)
  PROVE  OneMore(DOMAIN bag, bag, x, DOMAIN more, more)
BY DEF Finite, Only, OneMore, Plus, SetToBag, (+)

LEMMA SumPlus ==
  ASSUME NEW bag, Finite(DOMAIN bag, bag), NEW x, NEW one, Only(one, x),
         NEW more, more = Plus(bag, one), NEW keys
  PROVE  /\ Sum(bag, keys) \in Int
         /\ x \in keys => Sum(more, keys) = Sum(bag, keys) + 1
         /\ x \notin keys => Sum(more, keys) = Sum(bag, keys)
<1> DEFINE S == keys \cap DOMAIN bag
           U == keys \cap DOMAIN more
<1>1. OneMore(DOMAIN bag, bag, x, DOMAIN more, more)
  BY PlusIs
<1>2. Finite(S, bag)
  BY FS_Subset DEF Finite
<1>3. Sum(bag, keys) = Total(bag, S) /\ Sum(more, keys) = Total(more, U)
  BY SumIs
<1>4. CASE x \in keys
  <2>1. OneMore(S, bag, x, U, more)
    BY <1>1, <1>4 DEF OneMore
  <2> HIDE DEF S, U
  <2> QED  BY <1>2, <1>3, <1>4, <2>1, TotalPlus
<1>5. CASE x \notin keys
  <2>1. U = S /\ \A y \in S : more[y] = bag[y]
    BY <1>1, <1>5 DEF OneMore
  <2> HIDE DEF S, U
  <2>2. Total(bag, S) \in Int /\ Total(more, S) = Total(bag, S)
    BY <1>2, <2>1, TotalSame, TotalTyped DEF Finite
  <2> QED  BY <1>3, <1>5, <2>1, <2>2
<1> QED  BY <1>4, <1>5

LEMMA CountPlus ==
  ASSUME NEW bag, Finite(DOMAIN bag, bag), NEW x, NEW one, Only(one, x),
         NEW more, more = Plus(bag, one)
  PROVE  SumFunction(bag) \in Int /\ SumFunction(more) = SumFunction(bag) + 1
<1>1. OneMore(DOMAIN bag, bag, x, DOMAIN more, more)
  BY PlusIs
<1>2. SumFunction(bag) = Total(bag, DOMAIN bag) /\ SumFunction(more) = Total(more, DOMAIN more)
  BY SumFunctionIs
<1> QED  BY <1>1, <1>2, TotalPlus

LEMMA PlusFinite ==
  ASSUME NEW bag, Finite(DOMAIN bag, bag), NEW x, NEW one, Only(one, x),
         NEW more, more = Plus(bag, one)
  PROVE  Finite(DOMAIN more, more)
<1>1. OneMore(DOMAIN bag, bag, x, DOMAIN more, more)
  BY PlusIs
<1>2. IsFiniteSet(DOMAIN bag \cup {x})
  BY FS_AddElement DEF Finite
<1>3. ASSUME NEW y \in DOMAIN more PROVE more[y] \in Int
  BY <1>1 DEF OneMore, Finite
<1> QED  BY <1>1, <1>2, <1>3 DEF OneMore, Finite

LEMMA SumNone ==
  ASSUME NEW bag, Finite(DOMAIN bag, bag), NEW none, none = {}, NEW more, more = Plus(bag, none)
  PROVE  /\ Finite(DOMAIN more, more) /\ SumFunction(more) = SumFunction(bag)
         /\ \A keys : Sum(more, keys) = Sum(bag, keys)
         /\ \A x : Copies(more, x) = Copies(bag, x)
<1>1. DOMAIN more = DOMAIN bag /\ \A y \in DOMAIN bag : more[y] = bag[y]
  BY DEF Finite, Plus, SetToBag, (+)
<1>2. Finite(DOMAIN more, more)
  BY <1>1 DEF Finite
<1>3. SumFunction(more) = SumFunction(bag)
  <2>1. Total(more, DOMAIN bag) = Total(bag, DOMAIN bag)
    BY <1>1, TotalSame
  <2> QED  BY <1>1, <2>1, SumFunctionIs
<1>4. ASSUME NEW keys PROVE Sum(more, keys) = Sum(bag, keys)
  <2> DEFINE S == keys \cap DOMAIN bag
  <2>1. S = keys \cap DOMAIN more /\ \A y \in S : more[y] = bag[y]
    BY <1>1
  <2>2. Sum(bag, keys) = Total(bag, S) /\ Sum(more, keys) = Total(more, S)
    BY <2>1, SumIs
  <2> HIDE DEF S
  <2>3. Total(more, S) = Total(bag, S)
    BY <2>1, TotalSame
  <2> QED  BY <2>2, <2>3
<1>5. \A x : Copies(more, x) = Copies(bag, x)
  BY <1>1 DEF Copies
<1> QED  BY <1>2, <1>3, <1>4, <1>5

LEMMA SumTyped ==
  ASSUME NEW bag, Finite(DOMAIN bag, bag), NEW keys
  PROVE  Sum(bag, keys) \in Int /\ SumFunction(bag) \in Int
<1> DEFINE S == keys \cap DOMAIN bag
<1>1. IsFiniteSet(S) /\ IsFiniteSet(DOMAIN bag) /\ (\A y \in S : bag[y] \in Int) /\ \A y \in DOMAIN bag : bag[y] \in Int
  BY FS_Subset DEF Finite
<1>2. Sum(bag, keys) = Total(bag, S) /\ SumFunction(bag) = Total(bag, DOMAIN bag)
  BY SumIs, SumFunctionIs
<1> HIDE DEF S
<1> QED  BY <1>1, <1>2, TotalTyped

LEMMA SumNothing ==
  ASSUME NEW bag, DOMAIN bag = {}
  PROVE  Finite(DOMAIN bag, bag) /\ SumFunction(bag) = 0 /\ \A keys : Sum(bag, keys) = 0
<1>1. IsFiniteSet({}) /\ Total(bag, {}) = 0
  BY FS_EmptySet, TotalEmpty
<1>2. SumFunction(bag) = 0
  BY <1>1, SumFunctionIs
<1>3. ASSUME NEW keys PROVE Sum(bag, keys) = 0
  <2>1. keys \cap DOMAIN bag = {}
    OBVIOUS
  <2> QED  BY <1>1, <2>1, SumIs
<1> QED  BY <1>1, <1>2, <1>3 DEF Finite

-----------------------------------------------------------------------------
(* FlowIsBalanced: a log adds to the difference of what goes into a state  *)
(* and out of it at most one, if it ends in the state, and takes at most   *)
(* one, if it begins in it.                                                *)

(* Transitions into and out of a state, and the bag of one of them. *)
Into(bag, ss, s) == Sum(bag, {ss} \X States \X {s})
Out(bag, ss, s) == Sum(bag, {ss} \X {s} \X States)

Moves(one, ss, p, s) == one = {<<ss, p, s>>}

LEMMA FlowPlus ==
  ASSUME NEW bag, Finite(DOMAIN bag, bag), NEW ss \in SubSystems, NEW p \in States, NEW s \in States,
         NEW one, Moves(one, ss, p, s), NEW more, more = Plus(bag, one),
         NEW q \in SubSystems, NEW t \in States
  PROVE  /\ Into(bag, q, t) \in Int /\ Out(bag, q, t) \in Int
         /\ Into(more, q, t) = Into(bag, q, t) + IF q = ss /\ t = s THEN 1 ELSE 0
         /\ Out(more, q, t) = Out(bag, q, t) + IF q = ss /\ t = p THEN 1 ELSE 0
<1> DEFINE x == <<ss, p, s>>
           I == {q} \X States \X {t}
           O == {q} \X {t} \X States
<1>1. /\ x \in I <=> q = ss /\ t = s
      /\ x \in O <=> q = ss /\ t = p
  OBVIOUS
<1>2. Only(one, x)
  BY DEF Moves, Only
<1>3. Into(bag, q, t) = Sum(bag, I) /\ Into(more, q, t) = Sum(more, I)
  BY DEF Into
<1>4. Out(bag, q, t) = Sum(bag, O) /\ Out(more, q, t) = Sum(more, O)
  BY DEF Out
<1> HIDE DEF x, I, O
<1>5. /\ Sum(bag, I) \in Int
      /\ x \in I => Sum(more, I) = Sum(bag, I) + 1
      /\ x \notin I => Sum(more, I) = Sum(bag, I)
  BY <1>2, SumPlus
<1>6. /\ Sum(bag, O) \in Int
      /\ x \in O => Sum(more, O) = Sum(bag, O) + 1
      /\ x \notin O => Sum(more, O) = Sum(bag, O)
  BY <1>2, SumPlus
<1> QED  BY <1>1, <1>3, <1>4, <1>5, <1>6

(* What holds of every analysis, and what holds in a log: n counts it.     *)
FlowOK(a) ==
  /\ Finite(DOMAIN a.nextState, a.nextState) /\ Finite(DOMAIN a.hours, a.hours)
  /\ FlowBalanced(a)
InFlow(a, ls) ==
  \A ss \in SubSystems, s \in States :
    LET n == SumFunction(a.hours)
        d == Into(a.nextState, ss, s) - Out(a.nextState, ss, s)
        now == ls[ss].state
    IN /\ now = s => 1 - n <= d /\ d <= n
       /\ now \notin {s, NoState} => -n <= d /\ d <= n - 1
       /\ now = NoState => 1 - n <= d /\ d <= n - 1

FlowInv ==
  /\ \A a \in Analyses : FlowOK(a)
  /\ pc = "records" => InFlow(analysis, live)

LEMMA InFlowOK ==
  ASSUME NEW a, Finite(DOMAIN a.nextState, a.nextState), Finite(DOMAIN a.hours, a.hours),
         \A ss \in SubSystems, s \in States : Copies(a.left, <<ss, s>>) = Out(a.nextState, ss, s),
         NEW ls, InFlow(a, ls)
  PROVE  FlowOK(a)
<1>1. ASSUME NEW ss \in SubSystems, NEW s \in States
      PROVE  LET in == Into(a.nextState, ss, s)
                 out == Out(a.nextState, ss, s)
                 n == SumFunction(a.hours)
             IN in - out <= n /\ out - in <= n
  <2>1. SumFunction(a.hours) \in Int /\ Into(a.nextState, ss, s) \in Int /\ Out(a.nextState, ss, s) \in Int
    BY SumTyped DEF Into, Out
  <2>2. \/ ls[ss].state = s
        \/ ls[ss].state \notin {s, NoState}
        \/ ls[ss].state = NoState
    OBVIOUS
  <2> QED  BY <2>1, <2>2 DEF InFlow
<1> QED  BY <1>1 DEF FlowOK, FlowBalanced, Into, Out

LEMMA StateFlow ==
  ASSUME NEW a, Formed(a), FlowOK(a), NEW ss \in SubSystems, NEW s \in States,
         NEW ls \in [SubSystems -> Doing], InFlow(a, ls),
         NEW b, b = StateCounted(a, ls[ss], ss, s),
         NEW lt, lt[ss].state = s, \A q \in SubSystems : q # ss => lt[q] = ls[q]
  PROVE  FlowOK(b) /\ InFlow(b, lt)
<1> DEFINE l == ls[ss]
           one == {ss} \X LastState(l) \X {s}
           pair == {ss} \X LastState(l)
           n == SumFunction(a.hours)
<1>1. /\ DOMAIN a = Fields /\ l \in Doing
      /\ Finite(DOMAIN a.nextState, a.nextState) /\ Finite(DOMAIN a.hours, a.hours)
      /\ IsTable(a.left, SubSystems \X States)
  BY DEF Formed, Shape, AnalysisOK, FlowOK
<1>2. b.nextState = Plus(a.nextState, one) /\ b.left = Plus(a.left, pair) /\ b.hours = a.hours
  BY <1>1 DEF StateCounted, Fields
<1>3. n \in Int /\ \A keys : Sum(a.nextState, keys) \in Int
  BY <1>1, SumTyped
<1>4. \A q \in SubSystems, t \in States : Into(a.nextState, q, t) \in Int /\ Out(a.nextState, q, t) \in Int
  BY <1>3 DEF Into, Out
<1>5. \A k : Copies(b.left, k) = Copies(a.left, k) + IF k \in pair THEN 1 ELSE 0
  <2>1. \A k \in DOMAIN a.left : a.left[k] \in Int
    BY <1>1 DEF IsTable
  <2> HIDE DEF pair
  <2> QED  BY <1>2, <2>1, PlusCopies
<1>6. \A q \in SubSystems, t \in States : Copies(a.left, <<q, t>>) = Out(a.nextState, q, t)
  BY DEF FlowOK, FlowBalanced, Out
<1>7. CASE l.state = NoState
  <2>1. one = {} /\ pair = {}
    BY <1>7 DEF LastState
  <2> HIDE DEF one, pair
  <2>2. /\ Finite(DOMAIN b.nextState, b.nextState)
        /\ \A keys : Sum(b.nextState, keys) = Sum(a.nextState, keys)
    BY <1>1, <1>2, <2>1, SumNone
  <2>3. \A q \in SubSystems, t \in States :
          Into(b.nextState, q, t) = Into(a.nextState, q, t) /\ Out(b.nextState, q, t) = Out(a.nextState, q, t)
    BY <2>2 DEF Into, Out
  <2>4. \A q \in SubSystems, t \in States : Copies(b.left, <<q, t>>) = Out(b.nextState, q, t)
    <3>1. \A k : Copies(b.left, k) = Copies(a.left, k) + 0
      BY <1>5, <2>1
    <3>2. ASSUME NEW q \in SubSystems, NEW t \in States
          PROVE  Copies(b.left, <<q, t>>) = Out(b.nextState, q, t)
      <4>1. Copies(a.left, <<q, t>>) \in Int
        BY <1>4, <1>6
      <4> QED  BY <1>6, <2>3, <3>1, <4>1
    <3> QED  BY <3>2
  <2>5. InFlow(b, lt)
    <3> SUFFICES ASSUME NEW q \in SubSystems, NEW t \in States
                 PROVE  LET m == SumFunction(b.hours)
                            d == Into(b.nextState, q, t) - Out(b.nextState, q, t)
                            now == lt[q].state
                        IN /\ now = t => 1 - m <= d /\ d <= m
                           /\ now \notin {t, NoState} => -m <= d /\ d <= m - 1
                           /\ now = NoState => 1 - m <= d /\ d <= m - 1
      BY DEF InFlow
    <3> DEFINE d == Into(a.nextState, q, t) - Out(a.nextState, q, t)
    <3>1. d \in Int /\ d = Into(b.nextState, q, t) - Out(b.nextState, q, t) /\ SumFunction(b.hours) = n
      BY <1>2, <1>4, <2>3
    <3>2. /\ ls[q].state = t => 1 - n <= d /\ d <= n
          /\ ls[q].state \notin {t, NoState} => -n <= d /\ d <= n - 1
          /\ ls[q].state = NoState => 1 - n <= d /\ d <= n - 1
      BY DEF InFlow
    <3> HIDE DEF d, n
    <3>3. CASE q = ss
      BY <1>3, <1>7, <3>1, <3>2, <3>3
    <3>4. CASE q # ss
      BY <1>3, <3>1, <3>2, <3>4
    <3> QED  BY <3>3, <3>4
  <2> QED  BY <1>1, <1>2, <2>2, <2>4, <2>5, InFlowOK
<1>8. CASE l.state # NoState
  <2> DEFINE p == l.state
  <2>1. p \in States /\ one = {<<ss, p, s>>} /\ pair = {<<ss, p>>}
    BY <1>1, <1>8 DEF LastState, Doing, Places
  <2>2. Moves(one, ss, p, s) /\ Only(one, <<ss, p, s>>)
    BY <2>1 DEF Moves, Only
  <2> HIDE DEF one, p
  <2>3. Finite(DOMAIN b.nextState, b.nextState)
    BY <1>1, <1>2, <2>2, PlusFinite
  <2>4. ASSUME NEW q \in SubSystems, NEW t \in States
        PROVE  /\ Into(b.nextState, q, t) = Into(a.nextState, q, t) + IF q = ss /\ t = s THEN 1 ELSE 0
               /\ Out(b.nextState, q, t) = Out(a.nextState, q, t) + IF q = ss /\ t = p THEN 1 ELSE 0
    BY <1>1, <1>2, <2>1, <2>2, FlowPlus
  <2>5. ASSUME NEW q \in SubSystems, NEW t \in States PROVE Copies(b.left, <<q, t>>) = Out(b.nextState, q, t)
    <3>1. <<q, t>> \in pair <=> q = ss /\ t = p
      BY <2>1
    <3> HIDE DEF pair
    <3> QED  BY <1>4, <1>5, <1>6, <2>4, <3>1
  <2>6. InFlow(b, lt)
    <3> SUFFICES ASSUME NEW q \in SubSystems, NEW t \in States
                 PROVE  LET m == SumFunction(b.hours)
                            d == Into(b.nextState, q, t) - Out(b.nextState, q, t)
                            now == lt[q].state
                        IN /\ now = t => 1 - m <= d /\ d <= m
                           /\ now \notin {t, NoState} => -m <= d /\ d <= m - 1
                           /\ now = NoState => 1 - m <= d /\ d <= m - 1
      BY DEF InFlow
    <3> DEFINE d == Into(a.nextState, q, t) - Out(a.nextState, q, t)
               e == Into(b.nextState, q, t) - Out(b.nextState, q, t)
    <3>1. d \in Int /\ SumFunction(b.hours) = n
          /\ e = d + (IF q = ss /\ t = s THEN 1 ELSE 0) - (IF q = ss /\ t = p THEN 1 ELSE 0)
      BY <1>2, <1>4, <2>4
    <3>2. /\ ls[q].state = t => 1 - n <= d /\ d <= n
          /\ ls[q].state \notin {t, NoState} => -n <= d /\ d <= n - 1
          /\ ls[q].state = NoState => 1 - n <= d /\ d <= n - 1
      BY DEF InFlow
    <3>3. s # NoState /\ t # NoState /\ p # NoState
      BY <2>1, AnalyzeAssumption
    <3> HIDE DEF d, e, n
    <3>4. CASE q = ss
      <4>1. ls[q].state = p /\ lt[q].state = s
        BY <3>4 DEF p
      <4> QED  BY <1>3, <3>1, <3>2, <3>3, <3>4, <4>1 DEF e
    <3>5. CASE q # ss
      BY <1>3, <3>1, <3>2, <3>5 DEF e
    <3> QED  BY <3>4, <3>5
  <2> QED  BY <1>1, <1>2, <2>3, <2>5, <2>6, InFlowOK
<1> QED  BY <1>7, <1>8

LEMMA NothingFlows == FlowOK(NoAnalysis)
<1>1. DOMAIN NoAnalysis.nextState = {} /\ DOMAIN NoAnalysis.left = {} /\ DOMAIN NoAnalysis.hours = {}
  BY DEF NoAnalysis, EmptyBag, SetToBag
<1>2. /\ Finite(DOMAIN NoAnalysis.nextState, NoAnalysis.nextState)
      /\ Finite(DOMAIN NoAnalysis.hours, NoAnalysis.hours)
      /\ SumFunction(NoAnalysis.hours) = 0 /\ \A keys : Sum(NoAnalysis.nextState, keys) = 0
  BY <1>1, SumNothing
<1>3. \A k : Copies(NoAnalysis.left, k) = 0
  BY <1>1 DEF Copies
<1> HIDE DEF NoAnalysis
<1> QED  BY <1>2, <1>3 DEF FlowOK, FlowBalanced

LEMMA SameFlow ==
  ASSUME NEW a, FlowOK(a), NEW b, b.nextState = a.nextState, b.left = a.left, b.hours = a.hours
  PROVE  FlowOK(b) /\ \A ls : InFlow(a, ls) => InFlow(b, ls)
BY DEF FlowOK, FlowBalanced, InFlow

(* The headers of a log count it. *)
LEMMA BeginFlow ==
  ASSUME NEW a, FlowOK(a), NEW hour, NEW one, Only(one, hour), NEW b,
         b.nextState = a.nextState, b.left = a.left, b.hours = Plus(a.hours, one)
  PROVE  InFlow(b, NoLog) /\ FlowOK(b)
<1>1. SumFunction(b.hours) = SumFunction(a.hours) + 1 /\ Finite(DOMAIN b.hours, b.hours)
  BY CountPlus, PlusFinite DEF FlowOK
<1>2. InFlow(b, NoLog)
  <2> SUFFICES ASSUME NEW ss \in SubSystems, NEW s \in States
               PROVE  LET n == SumFunction(b.hours)
                          d == Into(b.nextState, ss, s) - Out(b.nextState, ss, s)
                          now == NoLog[ss].state
                      IN /\ now = s => 1 - n <= d /\ d <= n
                         /\ now \notin {s, NoState} => -n <= d /\ d <= n - 1
                         /\ now = NoState => 1 - n <= d /\ d <= n - 1
    BY DEF InFlow
  <2>1. NoLog[ss].state = NoState /\ s # NoState
    BY AnalyzeAssumption DEF NoLog
  <2>2. SumFunction(a.hours) \in Int /\ Into(a.nextState, ss, s) \in Int /\ Out(a.nextState, ss, s) \in Int
    BY SumTyped DEF Into, Out, FlowOK
  <2>3. LET d == Into(a.nextState, ss, s) - Out(a.nextState, ss, s)
            n == SumFunction(a.hours)
        IN -n <= d /\ d <= n
    <3>1. /\ Into(a.nextState, ss, s) - Out(a.nextState, ss, s) <= SumFunction(a.hours)
          /\ Out(a.nextState, ss, s) - Into(a.nextState, ss, s) <= SumFunction(a.hours)
      BY DEF FlowOK, FlowBalanced, Into, Out
    <3> QED  BY <2>2, <3>1
  <2> QED  BY <1>1, <2>1, <2>2, <2>3
<1>3. \A ss \in SubSystems, s \in States : Copies(b.left, <<ss, s>>) = Out(b.nextState, ss, s)
  BY DEF FlowOK, FlowBalanced, Out
<1> QED  BY <1>1, <1>2, <1>3, InFlowOK DEF FlowOK

(* Records of anything but states are no transitions. *)
FlowStays == /\ analysis'.nextState = analysis.nextState /\ analysis'.left = analysis.left
             /\ analysis'.hours = analysis.hours
             /\ \A ss \in SubSystems : live'[ss].state = live[ss].state

LEMMA RecordFlow ==
  ASSUME TypeInv, Record
  PROVE  FlowStays \/ \E ss \in SubSystems, s \in States : SetState(ss, s)
<1>1. /\ DOMAIN analysis = Fields /\ {"nextState", "left", "hours"} \subseteq Fields
      /\ live \in [SubSystems -> Doing]
  BY DEF TypeInv, TypeOK, Shape, Analyses, Fields, Doing
<1>2. ASSUME NEW ss \in SubSystems, NEW o, Operation(ss, o) PROVE FlowStays
  BY <1>1, <1>2, OperationKeeps DEF Operation, FlowStays, Doing
<1>3. ASSUME NEW ss, NEW level, NEW error, Error(ss, level, error) PROVE FlowStays
  BY <1>1, <1>3, ErrorKeeps DEF Error, FlowStays
<1>4. ASSUME NEW error, Crash(error) PROVE FlowStays
  BY <1>1, <1>4 DEF Crash, FlowStays
<1>5. ASSUME NEW ss, Log(ss) PROVE FlowStays
  BY <1>1, <1>5, LogKeeps DEF Log, FlowStays
<1>6. ASSUME NEW v, ObserveExact(v) PROVE FlowStays
  BY <1>1, <1>6, ExactKeeps DEF ObserveExact, FlowStays
<1>7. ASSUME NEW v, ObserveRange(v) PROVE FlowStays
  BY <1>1, <1>7, RangeKeeps DEF ObserveRange, FlowStays
<1>8. ASSUME NEW v, PerfMetric(v) PROVE FlowStays
  BY <1>1, <1>8 DEF PerfMetric, FlowStays
<1>9. ASSUME NEW ss, NEW ms, PerfData(ss, ms) PROVE FlowStays
  BY <1>1, <1>9, PerfKeeps DEF PerfData, FlowStays
<1>10. ObserveString \/ SystemInfo => FlowStays
  BY <1>1 DEF ObserveString, SystemInfo, FlowStays
<1> QED  BY <1>2, <1>3, <1>4, <1>5, <1>6, <1>7, <1>8, <1>9, <1>10 DEF Record

LEMMA FlowStep ==
  ASSUME TypeInv, FlowInv, [Next]_vars
  PROVE  FlowInv'
<1>1. /\ \A a \in Analyses : Formed(a) /\ FlowOK(a)
      /\ Formed(analysis) /\ FlowOK(analysis) /\ analysis \in Analyses
      /\ live \in [SubSystems -> Doing]
  BY DEF TypeInv, TypeOK, Formed, FlowInv, Doing, Analyses
<1>2. FlowOK(analysis') /\ (pc' = "records" => InFlow(analysis', live')) => FlowInv'
  BY <1>1, FileKept DEF FlowInv
<1>3. ASSUME NEW ss \in SubSystems, NEW s \in States, SetState(ss, s)
      PROVE  FlowOK(analysis') /\ InFlow(analysis', live')
  <2>1. InFlow(analysis, live) /\ analysis' = StateCounted(analysis, live[ss], ss, s)
    BY <1>3 DEF SetState, ReadingEvent, Reading, FlowInv
  <2>2. live'[ss].state = s /\ \A q \in SubSystems : q # ss => live'[q] = live[q]
    BY <1>1, <1>3 DEF SetState, Doing
  <2> QED  BY <1>1, <2>1, <2>2, StateFlow
<1>4. ASSUME NEW day \in Days, NEW hour \in Hours, NEW m \in Machines, BeginLog(day, hour, m)
      PROVE  FlowOK(analysis') /\ InFlow(analysis', live')
  <2> DEFINE one == {hour}
  <2>1. /\ analysis'.nextState = analysis.nextState /\ analysis'.left = analysis.left
        /\ analysis'.hours = Plus(analysis.hours, one) /\ live' = NoLog
    BY <1>1, <1>4 DEF BeginLog, Formed, Shape, Fields
  <2>2. Only(one, hour)
    BY DEF Only
  <2> HIDE DEF one
  <2> QED  BY <1>1, <2>1, <2>2, BeginFlow
<1>5. CASE Record
  <2>1. ASSUME FlowStays PROVE FlowInv'
    <3>1. FlowOK(analysis') /\ (InFlow(analysis, live) => InFlow(analysis', live'))
      BY <1>1, <2>1 DEF FlowStays, FlowOK, FlowBalanced, InFlow
    <3>2. pc = "records"
      BY <1>5 DEF Record, SetState, Operation, Error, Crash, Log, ObserveExact, ObserveRange, ObserveString,
         PerfMetric, PerfData, SystemInfo, ReadingEvent, ReadingValue, Reading
    <3> QED  BY <1>2, <3>1, <3>2 DEF FlowInv
  <2> QED  BY <1>2, <1>3, <1>5, <2>1, RecordFlow
<1>6. CASE Start
  <2>1. CASE file.is = "saved"
    <3>1. Formed(file.analysis) /\ FlowOK(file.analysis)
      BY <1>1, <2>1 DEF Analyses
    <3>2. /\ analysis'.nextState = file.analysis.nextState /\ analysis'.left = file.analysis.left
          /\ analysis'.hours = file.analysis.hours
      BY <1>6, <2>1, <3>1, LoadedKeeps DEF Start, Formed, Shape, Fields
    <3>3. FlowOK(analysis')
      BY <3>1, <3>2, SameFlow
    <3> QED  BY <1>2, <1>6, <3>3 DEF Start
  <2>2. CASE file.is # "saved"
    BY <1>1, <1>2, <1>6, <2>2 DEF Start, memory
  <2> QED  BY <2>1, <2>2
<1>7. CASE EndLog
  BY <1>1, <1>2, <1>7 DEF EndLog, memory
<1>8. CASE Fail \/ Write
  BY <1>2, <1>8, NothingFlows DEF Fail, Write, Gone
<1>9. CASE UNCHANGED vars
  BY <1>1, <1>2, <1>9 DEF FlowInv, vars, memory, log
<1> QED  BY <1>2, <1>3, <1>4, <1>5, <1>6, <1>7, <1>8, <1>9 DEF Next

(* FlowIsBalanced is not inductive: it forgets how much of the difference  *)
(* the log at hand may still make.                                         *)
THEOREM FlowInvariant == Spec => []FlowInv
<1>1. Init => FlowInv
  BY NothingFlows DEF Init, FlowInv, Absent, Analyses
<1>2. TypeInv /\ FlowInv /\ [Next]_vars => FlowInv'
  BY FlowStep
<1> QED  BY <1>1, <1>2, TypeInvariant, PTL DEF Spec

(* Whatever enters a state leaves it again, unless a log ends or begins in *)
(* it, and lt_state.data counts the transitions out of it.                 *)
THEOREM FlowAlwaysBalanced == Spec => []FlowIsBalanced
<1>1. FlowInv => FlowIsBalanced
  BY DEF FlowInv, FlowOK, FlowIsBalanced
<1> QED  BY <1>1, FlowInvariant, PTL

-----------------------------------------------------------------------------
(* ReferencesAreRight: an error that an operation refers to is counted     *)
(* with it, at the place that the operation is told.                       *)

(* How often operations refer to the error at place i. *)
Refers(bag, ss, level, i, p) == Sum(bag, {ss} \X Ops \X {level} \X {i} \X {p})

(* The reference of an operation to the error at place i in the list of a  *)
(* state.                                                                  *)
Reference(one, ss, o, level, i, p) == one = {<<ss, o, level, i, p>>}

LEMMA ReferPlus ==
  ASSUME NEW bag, Finite(DOMAIN bag, bag),
         NEW ss, NEW o \in Ops, NEW level, NEW i, NEW p, NEW one, Reference(one, ss, o, level, i, p),
         NEW more, more = Plus(bag, one), NEW q, NEW m, NEW j, NEW r
  PROVE  /\ Refers(bag, q, m, j, r) \in Int
         /\ Refers(more, q, m, j, r) =
              Refers(bag, q, m, j, r) + IF q = ss /\ m = level /\ j = i /\ r = p THEN 1 ELSE 0
<1> DEFINE x == <<ss, o, level, i, p>>
           K == {q} \X Ops \X {m} \X {j} \X {r}
<1>1. x \in K <=> q = ss /\ m = level /\ j = i /\ r = p
  OBVIOUS
<1>2. Only(one, x)
  BY DEF Reference, Only
<1>3. Refers(bag, q, m, j, r) = Sum(bag, K) /\ Refers(more, q, m, j, r) = Sum(more, K)
  BY DEF Refers
<1> HIDE DEF x, K
<1>4. /\ Sum(bag, K) \in Int
      /\ x \in K => Sum(more, K) = Sum(bag, K) + 1
      /\ x \notin K => Sum(more, K) = Sum(bag, K)
  BY <1>2, SumPlus
<1> QED  BY <1>1, <1>3, <1>4

(* ReferencesRight, of every place of every list. *)
ReferOK(a) ==
  /\ Finite(DOMAIN a.opErrors, a.opErrors)
  /\ \A k \in DOMAIN a.opErrors : k[4] \in DOMAIN a.errors[<<k[1], k[5], k[3]>>]
  /\ \A ss \in SubSystems, p \in Places, level \in Levels : \A i \in DOMAIN a.errors[<<ss, p, level>>] :
       Refers(a.opErrors, ss, level, i, p) <= Copies(a.errorCount, <<ss, p, level, a.errors[<<ss, p, level>>][i]>>)

LEMMA ReferIsRight ==
  ASSUME NEW a, Formed(a), ReferOK(a)
  PROVE  ReferencesRight(a)
<1> SUFFICES ASSUME NEW k \in DOMAIN a.opErrors
             PROVE  LET list == a.errors[<<k[1], k[5], k[3]>>]
                    IN /\ k[4] \in DOMAIN list
                       /\ Sum(a.opErrors, {k[1]} \X Ops \X {k[3]} \X {k[4]} \X {k[5]})
                            <= Copies(a.errorCount, <<k[1], k[5], k[3], list[k[4]]>>)
  BY DEF ReferencesRight
<1>1. k \in SubSystems \X Ops \X Levels \X Nat \X Places
  BY DEF Formed, AnalysisOK, IsTable
<1>2. k[1] \in SubSystems /\ k[3] \in Levels /\ k[5] \in Places
  BY <1>1
<1>3. k[4] \in DOMAIN a.errors[<<k[1], k[5], k[3]>>]
  BY DEF ReferOK
<1> QED  BY <1>2, <1>3 DEF ReferOK, Refers

LEMMA SumOutside ==
  ASSUME NEW bag, NEW keys, \A k \in DOMAIN bag : k \notin keys
  PROVE  Sum(bag, keys) = 0
<1>1. keys \cap DOMAIN bag = {}
  OBVIOUS
<1> QED  BY <1>1, SumIs, TotalEmpty

(* Nothing refers to a place behind the end of a list. *)
LEMMA NoReferenceYet ==
  ASSUME NEW a, ReferOK(a), NEW ss, NEW p, NEW level, NEW i, i \notin DOMAIN a.errors[<<ss, p, level>>]
  PROVE  Refers(a.opErrors, ss, level, i, p) = 0
<1>1. ASSUME NEW k \in DOMAIN a.opErrors PROVE k \notin {ss} \X Ops \X {level} \X {i} \X {p}
  <2>1. k[4] \in DOMAIN a.errors[<<k[1], k[5], k[3]>>]
    BY DEF ReferOK
  <2> QED  BY <2>1
<1>2. Sum(a.opErrors, {ss} \X Ops \X {level} \X {i} \X {p}) = 0
  BY <1>1, SumOutside
<1> QED  BY <1>2 DEF Refers

LEMMA ErrorRefers ==
  ASSUME NEW a, Formed(a), ReferOK(a), NEW l \in Doing, NEW ss \in SubSystems, NEW level \in Levels,
         NEW error \in Errors, NEW b, b = ErrorCounted(a, l, ss, level, error)
  PROVE  ReferOK(b)
<1> DEFINE old == a.errors[<<ss, l.state, level>>]
           list == WithError(old, error)
           i == ErrorIndex(list, error)
           one == {<<ss, o, level, i, l.state>> : o \in LastOp(l)}
           Here(q, p, m) == q = ss /\ p = l.state /\ m = level
<1>1. /\ DOMAIN a = Fields /\ l.state \in Places /\ l.op \in Ops \cup {NoOp}
      /\ a.errors \in [SubSystems \X Places \X Levels -> Seq(Errors)]
      /\ IsTable(a.opErrors, SubSystems \X Ops \X Levels \X Nat \X Places)
      /\ IsTable(a.errorCount, SubSystems \X Places \X Levels \X Errors)
      /\ Finite(DOMAIN a.opErrors, a.opErrors)
  BY DEF Formed, Shape, AnalysisOK, Doing, ReferOK
<1>2. /\ b.errors = [a.errors EXCEPT ![<<ss, l.state, level>>] = list]
      /\ b.errorCount = Plus(a.errorCount, {<<ss, l.state, level, error>>})
      /\ b.opErrors = Plus(a.opErrors, one)
  BY <1>1 DEF ErrorCounted, Fields
<1>3. /\ old \in Seq(Errors) /\ list \in Seq(Errors) /\ i \in DOMAIN list /\ list[i] = error
      /\ DOMAIN old \subseteq DOMAIN list /\ \A j \in DOMAIN old : list[j] = old[j]
  <2>1. old \in Seq(Errors)
    BY <1>1
  <2> HIDE DEF old
  <2>2. /\ list \in Seq(Errors) /\ i \in DOMAIN list /\ list[i] = error
        /\ Len(old) <= Len(list) /\ \A j \in DOMAIN old : list[j] = old[j]
    BY <2>1, ListGrows
  <2> HIDE DEF list
  <2> QED  BY <2>1, <2>2
<1> HIDE DEF i
<1>4. ASSUME NEW q \in SubSystems, NEW p \in Places, NEW m \in Levels
      PROVE  b.errors[<<q, p, m>>] = IF Here(q, p, m) THEN list ELSE a.errors[<<q, p, m>>]
  BY <1>1, <1>2
<1>5. ASSUME NEW q \in SubSystems, NEW p \in Places, NEW m \in Levels, NEW e \in Errors
      PROVE  /\ Copies(a.errorCount, <<q, p, m, e>>) \in Nat
             /\ Copies(b.errorCount, <<q, p, m, e>>) =
                  Copies(a.errorCount, <<q, p, m, e>>) + IF Here(q, p, m) /\ e = error THEN 1 ELSE 0
  <2>1. \A k \in DOMAIN a.errorCount : a.errorCount[k] \in Nat
    BY <1>1 DEF IsTable
  <2>2. Copies(b.errorCount, <<q, p, m, e>>) = Copies(a.errorCount, <<q, p, m, e>>)
           + IF <<q, p, m, e>> \in {<<ss, l.state, level, error>>} THEN 1 ELSE 0
    BY <1>2, <2>1, PlusCopies
  <2>3. <<q, p, m, e>> \in {<<ss, l.state, level, error>>} <=> Here(q, p, m) /\ e = error
    OBVIOUS
  <2> QED  BY <2>1, <2>2, <2>3 DEF Copies
<1>6. /\ Finite(DOMAIN b.opErrors, b.opErrors)
      /\ DOMAIN b.opErrors = DOMAIN a.opErrors \cup one
      /\ \A q, m, j, p : /\ Refers(a.opErrors, q, m, j, p) \in Int
                         /\ Refers(b.opErrors, q, m, j, p) =< Refers(a.opErrors, q, m, j, p)
                              + IF Here(q, p, m) /\ j = i THEN 1 ELSE 0
  <2>1. CASE l.op = NoOp
    <3>1. one = {}
      BY <2>1 DEF LastOp
    <3> HIDE DEF one
    <3>2. /\ Finite(DOMAIN b.opErrors, b.opErrors)
          /\ \A keys : Sum(b.opErrors, keys) = Sum(a.opErrors, keys) /\ Sum(a.opErrors, keys) \in Int
      <4>1. /\ Finite(DOMAIN b.opErrors, b.opErrors)
            /\ \A keys : Sum(b.opErrors, keys) = Sum(a.opErrors, keys)
        BY <1>1, <1>2, <3>1, SumNone
      <4>2. \A keys : Sum(a.opErrors, keys) \in Int
        BY <1>1, SumTyped
      <4> QED  BY <4>1, <4>2
    <3>3. DOMAIN b.opErrors = DOMAIN a.opErrors \cup one
      BY <1>2, <3>1 DEF Plus, SetToBag, (+)
    <3> QED  BY <3>2, <3>3 DEF Refers
  <2>2. CASE l.op # NoOp
    <3>1. Reference(one, ss, l.op, level, i, l.state) /\ Only(one, <<ss, l.op, level, i, l.state>>)
      BY <2>2 DEF LastOp, Reference, Only
    <3>2. l.op \in Ops
      BY <1>1, <2>2
    <3>3. DOMAIN b.opErrors = DOMAIN a.opErrors \cup one
      BY <1>2 DEF Plus, SetToBag, (+)
    <3> HIDE DEF one
    <3>4. Finite(DOMAIN b.opErrors, b.opErrors)
      BY <1>1, <1>2, <3>1, PlusFinite
    <3>5. ASSUME NEW q, NEW m, NEW j, NEW p
          PROVE  /\ Refers(a.opErrors, q, m, j, p) \in Int
                 /\ Refers(b.opErrors, q, m, j, p) = Refers(a.opErrors, q, m, j, p)
                       + IF q = ss /\ m = level /\ j = i /\ p = l.state THEN 1 ELSE 0
      <4>1. b.opErrors = Plus(a.opErrors, one) /\ Finite(DOMAIN a.opErrors, a.opErrors)
        BY <1>1, <1>2
      <4> HIDE DEF list, old
      <4> QED  BY <3>1, <3>2, <4>1, ReferPlus
    <3> QED  BY <3>3, <3>4, <3>5
  <2> QED  BY <2>1, <2>2
<1>7. ASSUME NEW k \in DOMAIN b.opErrors PROVE k[4] \in DOMAIN b.errors[<<k[1], k[5], k[3]>>]
  <2>1. CASE k \in DOMAIN a.opErrors
    <3>1. k[1] \in SubSystems /\ k[5] \in Places /\ k[3] \in Levels
      BY <1>1, <2>1 DEF IsTable
    <3>2. k[4] \in DOMAIN a.errors[<<k[1], k[5], k[3]>>]
      BY <2>1 DEF ReferOK
    <3>3. ASSUME NEW q \in SubSystems, NEW p \in Places, NEW m \in Levels
          PROVE  DOMAIN a.errors[<<q, p, m>>] \subseteq DOMAIN b.errors[<<q, p, m>>]
      <4> HIDE DEF list
      <4> QED  BY ZenonT(60), <1>3, <1>4
    <3> HIDE DEF list, old
    <3> QED  BY <3>1, <3>2, <3>3
  <2>2. CASE k \in one
    <3>1. k[1] = ss /\ k[3] = level /\ k[4] = i /\ k[5] = l.state
      BY <2>2
    <3> HIDE DEF list
    <3> QED  BY <1>1, <1>3, <1>4, <3>1
  <2> QED  BY <1>6, <2>1, <2>2
<1>8. ASSUME NEW q \in SubSystems, NEW p \in Places, NEW m \in Levels, NEW j \in DOMAIN b.errors[<<q, p, m>>]
      PROVE  Refers(b.opErrors, q, m, j, p) <= Copies(b.errorCount, <<q, p, m, b.errors[<<q, p, m>>][j]>>)
  <2> DEFINE e == b.errors[<<q, p, m>>][j]
             before == Refers(a.opErrors, q, m, j, p)
             after == Refers(b.opErrors, q, m, j, p)
             counted == Copies(a.errorCount, <<q, p, m, e>>)
             now == Copies(b.errorCount, <<q, p, m, e>>)
  <2>1. before \in Int /\ after <= before + IF Here(q, p, m) /\ j = i THEN 1 ELSE 0
    BY <1>6
  <2>2. e \in Errors
    <3> HIDE DEF list
    <3> QED  BY <1>1, <1>3, <1>4
  <2>3. counted \in Nat /\ now = counted + IF Here(q, p, m) /\ e = error THEN 1 ELSE 0
    <3> HIDE DEF e
    <3> QED  BY <1>5, <2>2
  <2>4. before <= counted
    <3>1. CASE j \in DOMAIN a.errors[<<q, p, m>>]
      <4>1. e = a.errors[<<q, p, m>>][j]
        <5>1. Here(q, p, m) => <<q, p, m>> = <<ss, l.state, level>>
          OBVIOUS
        <5> HIDE DEF list
        <5> QED  BY <1>3, <1>4, <3>1, <5>1
      <4> QED  BY <3>1, <4>1 DEF ReferOK
    <3>2. CASE j \notin DOMAIN a.errors[<<q, p, m>>]
      <4>1. before = 0
        BY <3>2, NoReferenceYet
      <4> HIDE DEF before, counted
      <4> QED  BY <2>3, <4>1
    <3> QED  BY <3>1, <3>2
  <2>5. Here(q, p, m) /\ j = i => e = error
    <3> HIDE DEF list
    <3> QED  BY <1>3, <1>4
  <2>6. after \in Int
    BY <1>6, SumTyped DEF Refers
  <2> HIDE DEF Here, e, before, after, counted, now
  <2>7. after <= now
    BY <2>1, <2>3, <2>4, <2>5, <2>6
  <2> QED  BY <2>7 DEF e, after, now
<1> QED  BY <1>6, <1>7, <1>8 DEF ReferOK

LEMMA NothingRefers == ReferOK(NoAnalysis)
<1>1. DOMAIN NoAnalysis.opErrors = {}
  BY DEF NoAnalysis, EmptyBag, SetToBag
<1>2. \A l \in SubSystems \X Places \X Levels : NoAnalysis.errors[l] = <<>>
  BY DEF NoAnalysis
<1>3. /\ Finite(DOMAIN NoAnalysis.opErrors, NoAnalysis.opErrors)
      /\ \A keys : Sum(NoAnalysis.opErrors, keys) = 0
  BY <1>1, SumNothing
<1> HIDE DEF NoAnalysis
<1>4. \A ss \in SubSystems, p \in Places, level \in Levels : DOMAIN NoAnalysis.errors[<<ss, p, level>>] = {}
  BY <1>2
<1> QED  BY <1>1, <1>3, <1>4 DEF ReferOK

LEMMA SameReferences ==
  ASSUME NEW a, ReferOK(a), NEW b, b.opErrors = a.opErrors, b.errors = a.errors, b.errorCount = a.errorCount
  PROVE  ReferOK(b)
BY DEF ReferOK

ReferInv == \A a \in Analyses : ReferOK(a)

LEMMA ReferStep ==
  ASSUME TypeInv, ReferInv, [Next]_vars
  PROVE  ReferInv'
<1>1. /\ \A a \in Analyses : Formed(a) /\ ReferOK(a)
      /\ Formed(analysis) /\ ReferOK(analysis) /\ live \in [SubSystems -> Doing]
  BY DEF TypeInv, TypeOK, Formed, ReferInv, Doing, Analyses
<1>2. DOMAIN analysis = Fields /\ {"opErrors", "errors", "errorCount"} \subseteq Fields \cap Tables
  BY <1>1 DEF Formed, Shape, Fields, Tables
<1>3. ASSUME NEW ss \in SubSystems, NEW s \in States, SetState(ss, s) PROVE ReferOK(analysis')
  <2>1. /\ analysis'.opErrors = analysis.opErrors /\ analysis'.errors = analysis.errors
        /\ analysis'.errorCount = analysis.errorCount
    BY <1>2, <1>3, StateKeeps DEF SetState, Fields
  <2> QED  BY <1>1, <2>1, SameReferences
<1>4. ASSUME NEW ss \in SubSystems, NEW o \in Ops, Operation(ss, o) PROVE ReferOK(analysis')
  <2>1. /\ analysis'.opErrors = analysis.opErrors /\ analysis'.errors = analysis.errors
        /\ analysis'.errorCount = analysis.errorCount
    BY <1>2, <1>4, OperationKeeps DEF Operation, Fields
  <2> QED  BY <1>1, <2>1, SameReferences
<1>5. ASSUME NEW ss \in SubSystems, NEW level \in Levels, NEW error \in Errors, Error(ss, level, error)
      PROVE  ReferOK(analysis')
  BY <1>1, <1>5, ErrorRefers DEF Error
<1>6. ASSUME NEW a \in Analyses, SameTables(a, analysis') PROVE ReferOK(analysis')
  <2>1. /\ analysis'.opErrors = a.opErrors /\ analysis'.errors = a.errors
        /\ analysis'.errorCount = a.errorCount
    BY <1>6 DEF SameTables, Tables
  <2> QED  BY <1>1, <2>1, SameReferences
<1>7. ReferOK(analysis')
  BY <1>3, <1>4, <1>5, <1>6, NothingRefers, TablesStay
<1> QED  BY <1>1, <1>7, FileKept DEF ReferInv

(* ReferencesAreRight speaks only of the places that are referred to; the  *)
(* invariant also of those that an operation may refer to next.            *)
THEOREM ReferInvariant == Spec => []ReferInv
<1>1. Init => ReferInv
  BY NothingRefers DEF Init, ReferInv, Absent, Analyses
<1>2. TypeInv /\ ReferInv /\ [Next]_vars => ReferInv'
  BY ReferStep
<1> QED  BY <1>1, <1>2, TypeInvariant, PTL DEF Spec

(* An operation that refers to an error by its place refers to one that is *)
(* there, and no error is referred to more often than it was counted.      *)
THEOREM ReferencesAlwaysRight == Spec => []ReferencesAreRight
<1>1. TypeInv /\ ReferInv => ReferencesAreRight
  BY ReferIsRight DEF TypeInv, TypeOK, Formed, ReferInv, ReferencesAreRight
<1> QED  BY <1>1, ReferInvariant, TypeInvariant, PTL

-----------------------------------------------------------------------------
(* ValuesAreRight: the sums over values, buckets and states are totals,    *)
(* and are what their recursion says.                                      *)
LEMMA WeightedIs ==
  ASSUME NEW S, NEW bag, NEW w, \A v \in S : w[v] = v * bag[v]
  PROVE  MapThenSumSet(LAMBDA v : v * bag[v], S) = Total(w, S)
<1> DEFINE Again(g) == [s \in SUBSET S |-> IF s = {} THEN 0 ELSE Element(s) * bag[Element(s)] + g[s \ {Element(s)}]]
           Same(g) == [s \in SUBSET S |-> IF s = {} THEN 0 ELSE w[Element(s)] + g[s \ {Element(s)}]]
<1>1. MapThenSumSet(LAMBDA v : v * bag[v], S) = (CHOOSE g : g = Again(g))[S]
  BY DEF MapThenSumSet, MapThenFoldSet, Element
<1>2. ASSUME NEW g PROVE g = Again(g) <=> Adds(g, w, S)
  <2>1. ASSUME NEW s \in SUBSET S, s # {} PROVE w[Element(s)] = Element(s) * bag[Element(s)]
    BY <2>1 DEF Element
  <2>2. ASSUME NEW s \in SUBSET S PROVE Again(g)[s] = Same(g)[s]
    BY <2>1
  <2>3. Again(g) = Same(g)
    BY <2>2
  <2> QED  BY <2>3 DEF Adds
<1> HIDE DEF Again
<1> QED  BY <1>1, <1>2 DEF Total

LEMMA SumSetIs ==
  ASSUME NEW S, NEW w, \A x \in S : w[x] = x
  PROVE  SumSet(S) = Total(w, S)
<1> DEFINE Again(g) == [s \in SUBSET S |-> IF s = {} THEN 0 ELSE Element(s) + g[s \ {Element(s)}]]
           Same(g) == [s \in SUBSET S |-> IF s = {} THEN 0 ELSE w[Element(s)] + g[s \ {Element(s)}]]
<1>1. SumSet(S) = (CHOOSE g : g = Again(g))[S]
  BY DEF SumSet, FoldSet, MapThenFoldSet, Element
<1>2. ASSUME NEW g PROVE g = Again(g) <=> Adds(g, w, S)
  <2>1. ASSUME NEW s \in SUBSET S, s # {} PROVE w[Element(s)] = Element(s)
    BY <2>1 DEF Element
  <2>2. ASSUME NEW s \in SUBSET S PROVE Again(g)[s] = Same(g)[s]
    BY <2>1
  <2>3. Again(g) = Same(g)
    BY <2>2
  <2> QED  BY <2>3 DEF Adds
<1> HIDE DEF Again
<1> QED  BY <1>1, <1>2 DEF Total

LEMMA CountsIs ==
  ASSUME NEW f, NEW ss, NEW w, \A s \in States : w[s] = f[<<ss, s>>].all.count
  PROVE  MapThenSumSet(LAMBDA s : f[<<ss, s>>].all.count, States) = Total(w, States)
<1> DEFINE Again(g) == [s \in SUBSET States |->
             IF s = {} THEN 0 ELSE f[<<ss, Element(s)>>].all.count + g[s \ {Element(s)}]]
           Same(g) == [s \in SUBSET States |-> IF s = {} THEN 0 ELSE w[Element(s)] + g[s \ {Element(s)}]]
<1>1. MapThenSumSet(LAMBDA s : f[<<ss, s>>].all.count, States) = (CHOOSE g : g = Again(g))[States]
  BY DEF MapThenSumSet, MapThenFoldSet, Element
<1>2. ASSUME NEW g PROVE g = Again(g) <=> Adds(g, w, States)
  <2>1. ASSUME NEW s \in SUBSET States, s # {} PROVE w[Element(s)] = f[<<ss, Element(s)>>].all.count
    BY <2>1 DEF Element
  <2>2. ASSUME NEW s \in SUBSET States PROVE Again(g)[s] = Same(g)[s]
    BY <2>1
  <2>3. Again(g) = Same(g)
    BY <2>2
  <2> QED  BY <2>3 DEF Adds
<1> HIDE DEF Again
<1> QED  BY <1>1, <1>2 DEF Total

(* The folds over a sequence add from the other side. *)
Sums(g, w, S) == g = [s \in SUBSET S |-> IF s = {} THEN 0 ELSE g[s \ {Element(s)}] + w[Element(s)]]

LEMMA AddsSums ==
  ASSUME NEW S, IsFiniteSet(S), NEW w, \A x \in S : w[x] \in Int, NEW g
  PROVE  Sums(g, w, S) <=> Adds(g, w, S)
<1> DEFINE C == {T \in SUBSET S : g[T] \in Int}
           A == [s \in SUBSET S |-> IF s = {} THEN 0 ELSE w[Element(s)] + g[s \ {Element(s)}]]
           B == [s \in SUBSET S |-> IF s = {} THEN 0 ELSE g[s \ {Element(s)}] + w[Element(s)]]
<1>1. ASSUME Sums(g, w, S) \/ Adds(g, w, S), NEW T \in SUBSET S, \A x \in T : T \ {x} \in C
      PROVE  T \in C
  <2>1. CASE T = {}
    <3>1. Sums(g, w, S) => g[{}] = 0
      BY DEF Sums
    <3>2. Adds(g, w, S) => g[{}] = 0
      BY DEF Adds
    <3> QED  BY <1>1, <2>1, <3>1, <3>2
  <2>2. CASE T # {}
    <3> DEFINE e == Element(T)
    <3>1. e \in T
      BY <2>2 DEF Element
    <3>2. g[T] = g[T \ {e}] + w[e] \/ g[T] = w[e] + g[T \ {e}]
      BY <1>1, <2>2 DEF Sums, Adds
    <3> HIDE DEF e
    <3>3. g[T \ {e}] \in Int /\ w[e] \in Int
      BY <1>1, <3>1
    <3> QED  BY <3>2, <3>3
  <2> QED  BY <2>1, <2>2
<1>2. ASSUME Sums(g, w, S) \/ Adds(g, w, S) PROVE \A T \in SUBSET S : g[T] \in Int
  <2>1. \A T \in SUBSET S : (\A x \in T : T \ {x} \in C) => T \in C
    BY <1>1, <1>2
  <2>2. \A T \in SUBSET S : T \in C
    <3> HIDE DEF C
    <3> QED  BY <2>1, SubsetInduction
  <2> QED  BY <2>2
<1>3. ASSUME \A T \in SUBSET S : g[T] \in Int PROVE A = B
  <2>1. ASSUME NEW s \in SUBSET S PROVE A[s] = B[s]
    <3>1. CASE s # {}
      <4> DEFINE e == Element(s)
      <4>1. e \in s
        BY <3>1 DEF Element
      <4> HIDE DEF e
      <4>2. g[s \ {e}] \in Int /\ w[e] \in Int
        BY <1>3, <4>1
      <4>3. g[s \ {e}] + w[e] = w[e] + g[s \ {e}]
        BY <4>2
      <4> QED  BY <3>1, <4>3 DEF e
    <3> QED  BY <3>1
  <2> QED  BY <2>1
<1> QED  BY <1>2, <1>3 DEF Sums, Adds

LEMMA FoldIs ==
  ASSUME NEW S, IsFiniteSet(S), NEW w, \A x \in S : w[x] \in Int
  PROVE  (CHOOSE g : Sums(g, w, S))[S] = Total(w, S)
<1>1. \A g : Sums(g, w, S) <=> Adds(g, w, S)
  BY AddsSums
<1> QED  BY <1>1 DEF Total

LEMMA WeightsAre ==
  ASSUME NEW bs, IsFiniteSet(DOMAIN bs), NEW w, \A i \in DOMAIN bs : w[i] = bs[i].weight /\ w[i] \in Int
  PROVE  FoldSeq(LAMBDA b, n : n + b.weight, 0, bs) = Total(w, DOMAIN bs)
<1> DEFINE S == DOMAIN bs
           Again(g) == [s \in SUBSET S |-> IF s = {} THEN 0 ELSE g[s \ {Element(s)}] + bs[Element(s)].weight]
           Same(g) == [s \in SUBSET S |-> IF s = {} THEN 0 ELSE g[s \ {Element(s)}] + w[Element(s)]]
<1>1. FoldSeq(LAMBDA b, n : n + b.weight, 0, bs) = (CHOOSE g : g = Again(g))[S]
  BY DEF FoldSeq, FoldFunction, FoldFunctionOnSet, MapThenFoldSet, Element
<1>2. ASSUME NEW g PROVE g = Again(g) <=> Sums(g, w, S)
  <2>1. ASSUME NEW s \in SUBSET S, s # {} PROVE w[Element(s)] = bs[Element(s)].weight
    BY <2>1 DEF Element
  <2>2. ASSUME NEW s \in SUBSET S PROVE Again(g)[s] = Same(g)[s]
    BY <2>1
  <2>3. Again(g) = Same(g)
    BY <2>2
  <2> QED  BY <2>3 DEF Sums
<1>3. (CHOOSE g : Sums(g, w, S))[S] = Total(w, S)
  BY FoldIs
<1> HIDE DEF Again
<1> QED  BY <1>1, <1>2, <1>3

LEMMA PlacesAre ==
  ASSUME NEW bs, IsFiniteSet(DOMAIN bs), NEW w, \A i \in DOMAIN bs : w[i] = bs[i].sum /\ w[i] \in Int
  PROVE  FoldSeq(LAMBDA b, n : n + b.sum, 0, bs) = Total(w, DOMAIN bs)
<1> DEFINE S == DOMAIN bs
           Again(g) == [s \in SUBSET S |-> IF s = {} THEN 0 ELSE g[s \ {Element(s)}] + bs[Element(s)].sum]
           Same(g) == [s \in SUBSET S |-> IF s = {} THEN 0 ELSE g[s \ {Element(s)}] + w[Element(s)]]
<1>1. FoldSeq(LAMBDA b, n : n + b.sum, 0, bs) = (CHOOSE g : g = Again(g))[S]
  BY DEF FoldSeq, FoldFunction, FoldFunctionOnSet, MapThenFoldSet, Element
<1>2. ASSUME NEW g PROVE g = Again(g) <=> Sums(g, w, S)
  <2>1. ASSUME NEW s \in SUBSET S, s # {} PROVE w[Element(s)] = bs[Element(s)].sum
    BY <2>1 DEF Element
  <2>2. ASSUME NEW s \in SUBSET S PROVE Again(g)[s] = Same(g)[s]
    BY <2>1
  <2>3. Again(g) = Same(g)
    BY <2>2
  <2> QED  BY <2>3 DEF Sums
<1>3. (CHOOSE g : Sums(g, w, S))[S] = Total(w, S)
  BY FoldIs
<1> HIDE DEF Again
<1> QED  BY <1>1, <1>2, <1>3

-----------------------------------------------------------------------------
(* What a sample does to exact values. *)

(* The bag more counts what bag does, and v another n times. *)
Raised(D, bag, v, n, U, more) ==
  /\ U = D \cup {v}
  /\ v \in D => more[v] = bag[v] + n
  /\ v \notin D => more[v] = n
  /\ \A y \in D : y # v => more[y] = bag[y]

LEMMA TotalRaised ==
  ASSUME NEW D, NEW bag, Finite(D, bag), NEW v, NEW n \in Int, NEW U, NEW more, Raised(D, bag, v, n, U, more)
  PROVE  Total(bag, D) \in Int /\ Total(more, U) = Total(bag, D) + n /\ Finite(U, more)
<1>1. IsFiniteSet(D) /\ (\A y \in D : bag[y] \in Int) /\ Total(bag, D) \in Int
  BY TotalTyped DEF Finite
<1>2. Finite(U, more)
  <2>1. IsFiniteSet(U)
    BY <1>1, FS_AddElement DEF Raised
  <2> QED  BY <1>1, <2>1 DEF Raised, Finite
<1>3. CASE v \in D
  <2>1. /\ U = D /\ bag[v] \in Int /\ more[v] = bag[v] + n /\ more[v] \in Int
        /\ \A y \in D : y # v => more[y] = bag[y]
    BY <1>1, <1>3 DEF Raised
  <2>2. Total(more, D) = Total(bag, D) + (more[v] - bag[v])
    BY <1>1, <1>3, <2>1, TotalChanged
  <2> QED  BY <1>1, <1>2, <2>1, <2>2
<1>4. CASE v \notin D
  <2>1. U = D \cup {v} /\ more[v] = n /\ more[v] \in Int /\ \A y \in D : more[y] = bag[y]
    BY <1>4 DEF Raised
  <2>2. Total(more, U) = Total(bag, D) + more[v]
    BY <1>1, <1>4, <2>1, TotalAdded
  <2> QED  BY <1>1, <1>2, <2>1, <2>2
<1> QED  BY <1>3, <1>4

Weighted(bag) == MapThenSumSet(LAMBDA v : v * bag[v], BagToSet(bag))

LEMMA MultipleRaised ==
  ASSUME NEW bag, Finite(DOMAIN bag, bag), DOMAIN bag \subseteq Int, NEW v \in Int, NEW n \in Int,
         NEW more, Raised(DOMAIN bag, bag, v, n, DOMAIN more, more)
  PROVE  /\ Finite(DOMAIN more, more)
         /\ SumFunction(bag) \in Int /\ SumFunction(more) = SumFunction(bag) + n
         /\ Weighted(bag) \in Int /\ Weighted(more) = Weighted(bag) + v * n
<1> DEFINE w == [x \in DOMAIN bag |-> x * bag[x]]
           u == [x \in DOMAIN more |-> x * more[x]]
<1>1. /\ Finite(DOMAIN more, more)
      /\ SumFunction(bag) \in Int /\ SumFunction(more) = SumFunction(bag) + n
  BY TotalRaised, SumFunctionIs
<1>2. Weighted(bag) = Total(w, DOMAIN bag) /\ Weighted(more) = Total(u, DOMAIN more)
  <2>1. (\A x \in DOMAIN bag : w[x] = x * bag[x]) /\ \A x \in DOMAIN more : u[x] = x * more[x]
    OBVIOUS
  <2> HIDE DEF w, u
  <2> QED  BY <2>1, WeightedIs DEF Weighted, BagToSet
<1>3. Finite(DOMAIN bag, w) /\ v * n \in Int
  BY DEF Finite
<1>4. Raised(DOMAIN bag, w, v, v * n, DOMAIN more, u)
  <2>1. DOMAIN more = DOMAIN bag \cup {v}
    BY DEF Raised
  <2>2. v \in DOMAIN bag => u[v] = w[v] + v * n
    <3>1. v * (bag[v] + n) = v * bag[v] + v * n \/ v \notin DOMAIN bag
      BY DEF Finite
    <3> QED  BY <2>1, <3>1 DEF Raised
  <2>3. v \notin DOMAIN bag => u[v] = v * n
    BY <2>1 DEF Raised
  <2>4. \A y \in DOMAIN bag : y # v => u[y] = w[y]
    BY <2>1 DEF Raised
  <2> HIDE DEF u, w
  <2> QED  BY <2>1, <2>2, <2>3, <2>4 DEF Raised
<1> HIDE DEF w, u
<1>5. Total(w, DOMAIN bag) \in Int /\ Total(u, DOMAIN more) = Total(w, DOMAIN bag) + v * n
  <2> DEFINE vn == v * n
  <2> HIDE DEF vn
  <2>1. vn \in Int /\ Raised(DOMAIN bag, w, v, vn, DOMAIN more, u)
    BY <1>3, <1>4 DEF vn
  <2>2. Total(w, DOMAIN bag) \in Int /\ Total(u, DOMAIN more) = Total(w, DOMAIN bag) + vn
    BY <1>3, <2>1, TotalRaised
  <2> QED  BY <2>2 DEF vn
<1> QED  BY <1>1, <1>2, <1>5

LEMMA MultipleSame ==
  ASSUME NEW bag, NEW more, DOMAIN more = DOMAIN bag, \A x \in DOMAIN bag : more[x] = bag[x]
  PROVE  SumFunction(more) = SumFunction(bag) /\ Weighted(more) = Weighted(bag)
<1> DEFINE w == [x \in DOMAIN bag |-> x * bag[x]]
<1>1. SumFunction(more) = SumFunction(bag)
  BY SumFunctionIs, TotalSame
<1>2. \A x \in DOMAIN bag : w[x] = x * bag[x] /\ w[x] = x * more[x]
  OBVIOUS
<1> HIDE DEF w
<1>3. Weighted(bag) = Total(w, DOMAIN bag)
  BY <1>2, WeightedIs DEF Weighted, BagToSet
<1>4. Weighted(more) = Total(w, DOMAIN more)
  BY <1>2, WeightedIs DEF Weighted, BagToSet
<1> QED  BY <1>1, <1>3, <1>4

LEMMA MultipleTyped ==
  ASSUME NEW bag, Finite(DOMAIN bag, bag), DOMAIN bag \subseteq Int
  PROVE  SumFunction(bag) \in Int /\ Weighted(bag) \in Int
<1> DEFINE w == [x \in DOMAIN bag |-> x * bag[x]]
<1>1. \A x \in DOMAIN bag : w[x] = x * bag[x] /\ w[x] \in Int
  BY DEF Finite
<1> HIDE DEF w
<1>2. Weighted(bag) = Total(w, DOMAIN bag) /\ Total(w, DOMAIN bag) \in Int
  BY <1>1, WeightedIs, TotalTyped DEF Weighted, BagToSet, Finite
<1> QED  BY <1>2, SumTyped

LEMMA SetTyped ==
  ASSUME NEW S, IsFiniteSet(S), S \subseteq Int
  PROVE  Cardinality(S) \in Int /\ SumSet(S) \in Int
<1> DEFINE w == [y \in S |-> y]
<1>1. \A y \in S : w[y] = y /\ w[y] \in Int
  OBVIOUS
<1> HIDE DEF w
<1>2. SumSet(S) = Total(w, S) /\ Total(w, S) \in Int
  BY <1>1, SumSetIs, TotalTyped
<1> QED  BY <1>2, FS_CardinalityType

LEMMA TotalWith ==
  ASSUME NEW S, IsFiniteSet(S), NEW x, x \notin S, NEW U, U = S \cup {x}, NEW w, \A y \in U : w[y] \in Int
  PROVE  Total(w, U) = w[x] + Total(w, S)
<1>1. IsFiniteSet(U) /\ x \in U /\ S = U \ {x}
  BY FS_AddElement
<1> QED  BY <1>1, TotalSplit

Enters(x, S, U) == x \notin S /\ U = S \cup {x}

LEMMA SetWith ==
  ASSUME NEW S, IsFiniteSet(S), NEW x, NEW U, Enters(x, S, U), U \subseteq Int
  PROVE  /\ IsFiniteSet(U) /\ U \subseteq Int
         /\ Cardinality(S) \in Int /\ Cardinality(U) = Cardinality(S) + 1
         /\ SumSet(S) \in Int /\ SumSet(U) = SumSet(S) + x
<1> DEFINE w == [y \in U |-> y]
<1>1. /\ (\A y \in U : w[y] = y) /\ (\A y \in U : w[y] \in Int)
      /\ w[x] = x /\ S \subseteq U /\ x \notin S /\ U = S \cup {x}
  BY DEF Enters
<1> HIDE DEF w
<1>2. SumSet(S) = Total(w, S) /\ SumSet(U) = Total(w, U)
  BY <1>1, SumSetIs
<1>3. (\A y \in S : w[y] \in Int) /\ Total(w, S) \in Int
  BY <1>1, TotalTyped
<1>4. Total(w, U) = w[x] + Total(w, S)
  BY <1>1, TotalWith
<1>5. IsFiniteSet(U) /\ Cardinality(S) \in Int /\ Cardinality(U) = Cardinality(S) + 1
  BY <1>1, FS_AddElement, FS_CardinalityType
<1> QED  BY <1>1, <1>2, <1>3, <1>4, <1>5

(* What holds of exact values, and that there are some once they count. *)
ExactOK(e) ==
  /\ DOMAIN e = {"all", "single", "multiple"} /\ SomeSummary(e.all)
  /\ IsFiniteSet(e.single) /\ e.single \subseteq Int
  /\ Finite(DOMAIN e.multiple, e.multiple) /\ DOMAIN e.multiple \subseteq Int
  /\ e.all.count = 0 <=> e.single \cup DOMAIN e.multiple = {}
  /\ ExactSound(e)

(* The bounds of a summary are those of the samples it has seen. *)
Bounds(all, seen) ==
  /\ SomeSummary(all) /\ seen \subseteq Int /\ (all.count = 0 <=> seen = {})
  /\ seen # {} => /\ all.min \in seen /\ all.max \in seen
                    /\ \A v \in seen : all.min <= v /\ v <= all.max

LEMMA SummaryBounds ==
  ASSUME NEW all, NEW seen, Bounds(all, seen), NEW v \in Int, NEW more, more = seen \cup {v}
  PROVE  /\ Bounds(SummaryWith(all, v), more)
         /\ SummaryWith(all, v).count = all.count + 1 /\ SummaryWith(all, v).sum = all.sum + v
<1> DEFINE s == SummaryWith(all, v)
<1>1. /\ SomeSummary(s) /\ s.count = all.count + 1 /\ s.sum = all.sum + v
      /\ s.min = (IF all.count = 0 THEN v ELSE Least(all.min, v))
      /\ s.max = (IF all.count = 0 THEN v ELSE Greatest(all.max, v))
  BY SummaryTyped DEF Bounds, SummaryWith
<1> HIDE DEF s
<1>2. all.count \in Nat /\ all.min \in Int /\ all.max \in Int
  BY DEF Bounds, SomeSummary
<1>3. s.min \in more /\ s.max \in more /\ \A x \in more : s.min <= x /\ x <= s.max
  BY <1>1, <1>2 DEF Bounds, Least, Greatest
<1> QED  BY <1>1, <1>2, <1>3 DEF Bounds, s

LEMMA ExactIs ==
  ASSUME NEW f, DOMAIN f = {"all", "single", "multiple"}, IsFiniteSet(f.single),
         Finite(DOMAIN f.multiple, f.multiple), f.single \cap DOMAIN f.multiple = {},
         \A x \in DOMAIN f.multiple : f.multiple[x] >= 2,
         Bounds(f.all, f.single \cup DOMAIN f.multiple),
         f.all.count = Cardinality(f.single) + SumFunction(f.multiple),
         f.all.sum = SumSet(f.single) + Weighted(f.multiple)
  PROVE  ExactOK(f)
BY DEF ExactOK, ExactSound, BagToSet, Bounds, Weighted

LEMMA ExactGrows ==
  ASSUME NEW e, ExactOK(e), NEW v \in Int
  PROVE  ExactOK(ExactWith(e, v)) /\ ExactWith(e, v).all.count = e.all.count + 1
<1> DEFINE f == ExactWith(e, v)
           S == e.single
           M == e.multiple
           D == DOMAIN M
           n == IF v \in D THEN 1 ELSE 2
           added == [x \in {y \in {v} : v \in D \/ v \in S} |-> n]
<1>1. /\ SomeSummary(e.all) /\ IsFiniteSet(S) /\ S \subseteq Int /\ Finite(D, M) /\ D \subseteq Int
      /\ S \cap D = {} /\ (\A x \in D : M[x] >= 2)
      /\ e.all.count = Cardinality(S) + SumFunction(M)
      /\ e.all.sum = SumSet(S) + Weighted(M)
      /\ Bounds(e.all, S \cup D)
  BY DEF ExactOK, ExactSound, BagToSet, Bounds, Weighted
<1>2. /\ DOMAIN f = {"all", "single", "multiple"} /\ f.all = SummaryWith(e.all, v)
      /\ f.single = (IF v \in D THEN S ELSE IF v \in S THEN S \ {v} ELSE S \cup {v})
      /\ f.multiple = M (+) added
  BY DEF ExactWith, BagToSet
<1>3. /\ Bounds(f.all, (S \cup D) \cup {v})
      /\ f.all.count = e.all.count + 1 /\ f.all.sum = e.all.sum + v
  BY <1>1, <1>2, SummaryBounds
<1>4. CASE v \in D
  <2>1. f.single = S /\ Raised(D, M, v, 1, DOMAIN f.multiple, f.multiple)
    BY <1>1, <1>2, <1>4 DEF (+), Raised, Finite
  <2>2. /\ Finite(DOMAIN f.multiple, f.multiple)
        /\ SumFunction(M) \in Int /\ SumFunction(f.multiple) = SumFunction(M) + 1
        /\ Weighted(M) \in Int /\ Weighted(f.multiple) = Weighted(M) + v * 1
    <3> HIDE DEF f, M
    <3> QED  BY <1>1, <2>1, MultipleRaised
  <2>3. Cardinality(S) \in Int /\ SumSet(S) \in Int
    BY <1>1, SetTyped
  <2>4. /\ DOMAIN f.multiple = D /\ f.single \cup DOMAIN f.multiple = (S \cup D) \cup {v}
        /\ f.single \cap DOMAIN f.multiple = {} /\ \A x \in DOMAIN f.multiple : f.multiple[x] >= 2
    BY <1>1, <1>4, <2>1 DEF Raised, Finite
  <2>5. /\ f.all.count = Cardinality(f.single) + SumFunction(f.multiple)
        /\ f.all.sum = SumSet(f.single) + Weighted(f.multiple)
    <3> HIDE DEF f
    <3> QED  BY <1>1, <1>3, <2>1, <2>2, <2>3
  <2> HIDE DEF f
  <2>8. Bounds(f.all, f.single \cup DOMAIN f.multiple) /\ DOMAIN f = {"all", "single", "multiple"}
    BY <1>2, <1>3, <2>4
  <2>9. ExactOK(f)
    BY <1>1, <2>1, <2>2, <2>4, <2>5, <2>8, ExactIs
  <2> QED  BY <1>3, <2>9 DEF f
<1>5. CASE v \notin D /\ v \in S
  <2>1. f.single = S \ {v} /\ Raised(D, M, v, 2, DOMAIN f.multiple, f.multiple)
    BY <1>1, <1>2, <1>5 DEF (+), Raised, Finite
  <2>2. /\ Finite(DOMAIN f.multiple, f.multiple)
        /\ SumFunction(M) \in Int /\ SumFunction(f.multiple) = SumFunction(M) + 2
        /\ Weighted(M) \in Int /\ Weighted(f.multiple) = Weighted(M) + v * 2
    <3> HIDE DEF f, M
    <3> QED  BY <1>1, <2>1, MultipleRaised
  <2>3. /\ IsFiniteSet(f.single) /\ Cardinality(f.single) \in Int /\ Cardinality(S) = Cardinality(f.single) + 1
        /\ SumSet(f.single) \in Int /\ SumSet(S) = SumSet(f.single) + v
    <3> DEFINE R == S \ {v}
    <3>1. IsFiniteSet(R) /\ Enters(v, R, S) /\ f.single = R
      BY <1>1, <1>5, <2>1, FS_RemoveElement DEF Enters
    <3> HIDE DEF R, S, f
    <3> QED  BY <1>1, <3>1, SetWith
  <2>4. /\ DOMAIN f.multiple = D \cup {v} /\ f.single \cup DOMAIN f.multiple = (S \cup D) \cup {v}
        /\ f.single \cap DOMAIN f.multiple = {} /\ \A x \in DOMAIN f.multiple : f.multiple[x] >= 2
    BY <1>1, <1>5, <2>1 DEF Raised, Finite
  <2>5. /\ f.all.count = Cardinality(f.single) + SumFunction(f.multiple)
        /\ f.all.sum = SumSet(f.single) + Weighted(f.multiple)
    <3> HIDE DEF f
    <3> QED  BY <1>1, <1>3, <2>2, <2>3
  <2> HIDE DEF f
  <2>8. Bounds(f.all, f.single \cup DOMAIN f.multiple) /\ DOMAIN f = {"all", "single", "multiple"}
    BY <1>2, <1>3, <2>4
  <2>9. ExactOK(f)
    BY <1>1, <2>2, <2>3, <2>4, <2>5, <2>8, ExactIs
  <2> QED  BY <1>3, <2>9 DEF f
<1>6. CASE v \notin D /\ v \notin S
  <2>1. f.single = S \cup {v} /\ f.multiple = M (+) added /\ DOMAIN added = {}
    BY <1>2, <1>6
  <2>2. DOMAIN f.multiple = D /\ \A x \in D : f.multiple[x] = M[x]
    <3>1. DOMAIN f.multiple = D \cup DOMAIN added
      BY <2>1 DEF (+)
    <3>2. ASSUME NEW x \in D PROVE f.multiple[x] = M[x] + 0
      BY <2>1, <3>2 DEF (+)
    <3>3. \A x \in D : M[x] \in Int
      BY <1>1 DEF Finite
    <3> HIDE DEF added
    <3> QED  BY <2>1, <3>1, <3>2, <3>3
  <2>3. SumFunction(f.multiple) = SumFunction(M) /\ Weighted(f.multiple) = Weighted(M)
    <3> HIDE DEF f, M
    <3> QED  BY <2>2, MultipleSame
  <2>4. /\ IsFiniteSet(f.single) /\ Cardinality(S) \in Int /\ Cardinality(f.single) = Cardinality(S) + 1
        /\ SumSet(S) \in Int /\ SumSet(f.single) = SumSet(S) + v
    <3>1. Enters(v, S, f.single) /\ f.single \subseteq Int
      BY <1>1, <1>6, <2>1 DEF Enters
    <3> HIDE DEF S, f
    <3> QED  BY <1>1, <3>1, SetWith
  <2>5. Finite(DOMAIN f.multiple, f.multiple) /\ SumFunction(M) \in Int /\ Weighted(M) \in Int
    BY <1>1, <2>2, MultipleTyped DEF Finite
  <2>6. /\ f.single \cup DOMAIN f.multiple = (S \cup D) \cup {v}
        /\ f.single \cap DOMAIN f.multiple = {} /\ \A x \in DOMAIN f.multiple : f.multiple[x] >= 2
    BY <1>1, <1>6, <2>1, <2>2
  <2>7. /\ f.all.count = Cardinality(f.single) + SumFunction(f.multiple)
        /\ f.all.sum = SumSet(f.single) + Weighted(f.multiple)
    <3> HIDE DEF f
    <3>1. e.all.count = Cardinality(S) + SumFunction(M) /\ e.all.sum = SumSet(S) + Weighted(M)
      BY <1>1
    <3> HIDE DEF S, M
    <3> QED  BY <1>3, <2>3, <2>4, <2>5, <3>1
  <2> HIDE DEF f
  <2>8. Bounds(f.all, f.single \cup DOMAIN f.multiple) /\ DOMAIN f = {"all", "single", "multiple"}
    BY <1>2, <1>3, <2>6
  <2>9. ExactOK(f)
    BY <1>1, <2>4, <2>5, <2>6, <2>7, <2>8, ExactIs
  <2> QED  BY <1>3, <2>9 DEF f
<1> QED  BY <1>3, <1>4, <1>5, <1>6

-----------------------------------------------------------------------------
(* What a sample does to the buckets of a range. *)

Bucket == [sum : Int, weight : Nat \ {0}]
Weight(bs) == FoldSeq(LAMBDA b, n : n + b.weight, 0, bs)
Mass(bs) == FoldSeq(LAMBDA b, n : n + b.sum, 0, bs)
WeightsOf(bs) == [i \in DOMAIN bs |-> bs[i].weight]
SumsOf(bs) == [i \in DOMAIN bs |-> bs[i].sum]

LEMMA BucketFields ==
  ASSUME NEW bs \in Seq(Bucket), NEW i \in DOMAIN bs
  PROVE  /\ bs[i] \in Bucket /\ bs[i].weight \in Nat \ {0} /\ bs[i].sum \in Int
         /\ bs[i] = [sum |-> bs[i].sum, weight |-> bs[i].weight]
<1>1. bs[i] \in Bucket
  BY ElementOfSeq, LenProperties
<1> QED  BY <1>1 DEF Bucket

LEMMA BucketTotals ==
  ASSUME NEW bs \in Seq(Bucket)
  PROVE  /\ Weight(bs) = Total(WeightsOf(bs), DOMAIN bs) /\ Finite(DOMAIN bs, WeightsOf(bs))
         /\ Mass(bs) = Total(SumsOf(bs), DOMAIN bs) /\ Finite(DOMAIN bs, SumsOf(bs))
         /\ Weight(bs) \in Int /\ Mass(bs) \in Int
<1>1. IsFiniteSet(DOMAIN bs)
  <2>1. DOMAIN bs = 1..Len(bs) /\ Len(bs) \in Nat
    OBVIOUS
  <2> QED  BY <2>1, FS_Interval
<1>2. \A i \in DOMAIN bs : bs[i].weight \in Int /\ bs[i].sum \in Int
  BY BucketFields
<1>5. \A i \in DOMAIN bs : WeightsOf(bs)[i] = bs[i].weight /\ WeightsOf(bs)[i] \in Int
  BY <1>2 DEF WeightsOf
<1>6. \A i \in DOMAIN bs : SumsOf(bs)[i] = bs[i].sum /\ SumsOf(bs)[i] \in Int
  BY <1>2 DEF SumsOf
<1>3. Weight(bs) = Total(WeightsOf(bs), DOMAIN bs)
  BY <1>1, <1>5, WeightsAre DEF Weight
<1>4. Mass(bs) = Total(SumsOf(bs), DOMAIN bs)
  BY <1>1, <1>6, PlacesAre DEF Mass
<1> QED  BY <1>1, <1>3, <1>4, <1>5, <1>6, TotalTyped DEF Finite

LEMMA BucketsRaised ==
  ASSUME NEW bs \in Seq(Bucket), NEW cs \in Seq(Bucket), NEW i, NEW m \in Int, NEW n \in Int,
         Raised(DOMAIN bs, WeightsOf(bs), i, m, DOMAIN cs, WeightsOf(cs)),
         Raised(DOMAIN bs, SumsOf(bs), i, n, DOMAIN cs, SumsOf(cs))
  PROVE  Weight(cs) = Weight(bs) + m /\ Mass(cs) = Mass(bs) + n
<1> DEFINE D == DOMAIN bs
           U == DOMAIN cs
           w == WeightsOf(bs)
           u == WeightsOf(cs)
           x == SumsOf(bs)
           y == SumsOf(cs)
<1>1. /\ Weight(bs) = Total(w, D) /\ Finite(D, w) /\ Mass(bs) = Total(x, D) /\ Finite(D, x)
      /\ Weight(cs) = Total(u, U) /\ Mass(cs) = Total(y, U)
      /\ Raised(D, w, i, m, U, u) /\ Raised(D, x, i, n, U, y)
  BY BucketTotals
<1> HIDE DEF D, U, w, u, x, y
<1>2. Total(u, U) = Total(w, D) + m
  BY <1>1, TotalRaised
<1>3. Total(y, U) = Total(x, D) + n
  BY <1>1, TotalRaised
<1> QED  BY <1>1, <1>2, <1>3

(* Two buckets that become one, and one that is appended. *)
Joins(bs, i, b, cs) == cs = [bs EXCEPT ![i] = Joined(bs[i], b)]

LEMMA BucketJoined ==
  ASSUME NEW bs \in Seq(Bucket), NEW i \in DOMAIN bs, NEW b \in Bucket, NEW cs, Joins(bs, i, b, cs)
  PROVE  /\ cs \in Seq(Bucket) /\ Len(cs) = Len(bs)
         /\ Weight(cs) = Weight(bs) + b.weight /\ Mass(cs) = Mass(bs) + b.sum
<1>1. b.weight \in Nat \ {0} /\ b.sum \in Int /\ bs[i].weight \in Nat \ {0} /\ bs[i].sum \in Int
  BY BucketFields DEF Bucket
<1>2. Joined(bs[i], b) \in Bucket
  <2>1. bs[i].weight + b.weight \in Nat \ {0} /\ bs[i].sum + b.sum \in Int
    BY <1>1
  <2> QED  BY <2>1 DEF Joined, Bucket
<1>7. cs = [bs EXCEPT ![i] = Joined(bs[i], b)]
  BY DEF Joins
<1>3. cs \in Seq(Bucket) /\ Len(cs) = Len(bs) /\ DOMAIN cs = DOMAIN bs
  BY <1>2, <1>7
<1>4. Raised(DOMAIN bs, WeightsOf(bs), i, b.weight, DOMAIN cs, WeightsOf(cs))
  BY <1>3, <1>7 DEF Raised, WeightsOf, Joined
<1>5. Raised(DOMAIN bs, SumsOf(bs), i, b.sum, DOMAIN cs, SumsOf(cs))
  BY <1>3, <1>7 DEF Raised, SumsOf, Joined
<1>6. Weight(cs) = Weight(bs) + b.weight /\ Mass(cs) = Mass(bs) + b.sum
  <2> DEFINE m == b.weight
             n == b.sum
  <2>1. m \in Int /\ n \in Int
    BY <1>1
  <2>2. /\ Raised(DOMAIN bs, WeightsOf(bs), i, m, DOMAIN cs, WeightsOf(cs))
        /\ Raised(DOMAIN bs, SumsOf(bs), i, n, DOMAIN cs, SumsOf(cs))
    BY <1>4, <1>5
  <2> HIDE DEF m, n
  <2>3. Weight(cs) = Weight(bs) + m /\ Mass(cs) = Mass(bs) + n
    BY <1>3, <2>1, <2>2, BucketsRaised
  <2> QED  BY <2>3 DEF m, n
<1> QED  BY <1>3, <1>6

LEMMA BucketAppended ==
  ASSUME NEW bs \in Seq(Bucket), NEW b \in Bucket, NEW cs, cs = Append(bs, b)
  PROVE  /\ cs \in Seq(Bucket) /\ Len(cs) = Len(bs) + 1
         /\ Weight(cs) = Weight(bs) + b.weight /\ Mass(cs) = Mass(bs) + b.sum
<1> DEFINE i == Len(bs) + 1
<1>1. /\ cs \in Seq(Bucket) /\ Len(cs) = Len(bs) + 1 /\ DOMAIN cs = DOMAIN bs \cup {i}
      /\ i \notin DOMAIN bs /\ cs[i] = b /\ \A j \in DOMAIN bs : cs[j] = bs[j]
  OBVIOUS
<1> HIDE DEF i
<1>2. Raised(DOMAIN bs, WeightsOf(bs), i, b.weight, DOMAIN cs, WeightsOf(cs))
  BY <1>1 DEF Raised, WeightsOf
<1>3. Raised(DOMAIN bs, SumsOf(bs), i, b.sum, DOMAIN cs, SumsOf(cs))
  BY <1>1 DEF Raised, SumsOf
<1>4. b.weight \in Int /\ b.sum \in Int
  BY DEF Bucket
<1>5. Weight(cs) = Weight(bs) + b.weight /\ Mass(cs) = Mass(bs) + b.sum
  <2> DEFINE m == b.weight
             n == b.sum
  <2>1. m \in Int /\ n \in Int
    BY <1>4
  <2>2. /\ Raised(DOMAIN bs, WeightsOf(bs), i, m, DOMAIN cs, WeightsOf(cs))
        /\ Raised(DOMAIN bs, SumsOf(bs), i, n, DOMAIN cs, SumsOf(cs))
    BY <1>2, <1>3
  <2>4. cs \in Seq(Bucket)
    BY <1>1
  <2> HIDE DEF m, n
  <2>3. Weight(cs) = Weight(bs) + m /\ Mass(cs) = Mass(bs) + n
    BY ZenonT(60), <2>1, <2>2, <2>4, BucketsRaised
  <2> QED  BY <2>3 DEF m, n
<1> QED  BY <1>1, <1>5

(* One value less, and those behind it one place further to the front. *)
LEMMA TotalRemoved ==
  ASSUME NEW n \in Nat, NEW w, \A i \in 1..n : w[i] \in Int, NEW j \in 1..n,
         NEW u, \A i \in 1..(n - 1) : u[i] = IF i < j THEN w[i] ELSE w[i + 1]
  PROVE  Total(w, 1..n) = w[j] + Total(u, 1..(n - 1))
<1> DEFINE Less(k) == Total(w, 1..k) = w[j] + Total(u, 1..(k - 1))
           C == {T \in SUBSET (1..n) : \A k \in j..n : T = 1..k => Less(k)}
<1>1. \A k \in Int : IsFiniteSet(1..k)
  BY FS_Interval
<1>2. ASSUME NEW k \in 1..n PROVE Total(w, 1..k) = w[k] + Total(w, 1..(k - 1))
  <2>1. IsFiniteSet(1..k) /\ (\A i \in 1..k : w[i] \in Int) /\ k \in 1..k /\ 1..(k - 1) = (1..k) \ {k}
    BY <1>1
  <2> QED  BY <2>1, TotalSplit
<1>3. ASSUME NEW k \in 1..(n - 1) PROVE Total(u, 1..k) = u[k] + Total(u, 1..(k - 1))
  <2>1. IsFiniteSet(1..k) /\ (\A i \in 1..k : u[i] \in Int) /\ k \in 1..k /\ 1..(k - 1) = (1..k) \ {k}
    BY <1>1
  <2> QED  BY SMTT(30), <2>1, TotalSplit
<1>4. ASSUME NEW k \in 0..(n - 1) PROVE Total(u, 1..k) \in Int
  <2>1. IsFiniteSet(1..k) /\ \A i \in 1..k : u[i] \in Int
    BY <1>1
  <2> QED  BY <2>1, TotalTyped
<1>5. Less(j)
  <2>1. \A i \in 1..(j - 1) : w[i] = u[i]
    OBVIOUS
  <2>2. Total(w, 1..(j - 1)) = Total(u, 1..(j - 1))
    BY <2>1, TotalSame
  <2> QED  BY <1>2, <2>2
<1>6. ASSUME NEW k \in j..n, k > j, Less(k - 1) PROVE Less(k)
  <2>1. u[k - 1] = w[k] /\ k - 1 \in 1..(n - 1) /\ k \in 1..n /\ k - 2 \in 0..(n - 1) /\ (k - 1) - 1 = k - 2
    BY <1>6
  <2>2. Total(w, 1..k) = w[k] + Total(w, 1..(k - 1)) /\ Total(u, 1..(k - 1)) = w[k] + Total(u, 1..(k - 2))
    BY <1>2, <1>3, <2>1
  <2>3. Total(w, 1..(k - 1)) = w[j] + Total(u, 1..(k - 2))
    BY <1>6, <2>1
  <2>4. Total(u, 1..(k - 2)) \in Int /\ w[k] \in Int /\ w[j] \in Int
    BY <1>4, <2>1
  <2> QED  BY <2>2, <2>3, <2>4
<1> HIDE DEF Less
<1>7. ASSUME NEW T \in SUBSET (1..n), \A x \in T : T \ {x} \in C PROVE T \in C
  <2> SUFFICES ASSUME NEW k \in j..n, T = 1..k PROVE Less(k)
    OBVIOUS
  <2>1. CASE k = j
    BY <1>5, <2>1
  <2>2. CASE k > j
    <3>1. k \in T /\ T \ {k} = 1..(k - 1) /\ k - 1 \in j..n
      BY <2>2
    <3> QED  BY <1>6, <1>7, <2>2, <3>1
  <2> QED  BY <2>1, <2>2
<1>8. \A T \in SUBSET (1..n) : (\A x \in T : T \ {x} \in C) => T \in C
  BY <1>7
<1>9. \A T \in SUBSET (1..n) : T \in C
  <2>1. IsFiniteSet(1..n)
    BY <1>1
  <2> HIDE DEF C
  <2> QED  BY <1>8, <2>1, SubsetInduction
<1>10. Less(n)
  <2>1. n \in j..n /\ 1..n \in SUBSET (1..n)
    OBVIOUS
  <2> QED  BY <1>9, <2>1
<1> QED  BY <1>10 DEF Less

LEMMA BucketRemoved ==
  ASSUME NEW bs \in Seq(Bucket), NEW j \in DOMAIN bs, NEW cs, cs = RemoveAt(bs, j)
  PROVE  /\ cs \in Seq(Bucket) /\ Len(cs) = Len(bs) - 1
         /\ \A i \in DOMAIN cs : cs[i] = IF i < j THEN bs[i] ELSE bs[i + 1]
         /\ Weight(bs) = bs[j].weight + Weight(cs) /\ Mass(bs) = bs[j].sum + Mass(cs)
<1>1. Len(bs) \in Nat /\ DOMAIN bs = 1..Len(bs) /\ j \in 1..Len(bs) /\ bs \in [1..Len(bs) -> Bucket]
  BY LenProperties
<1>2. /\ cs \in Seq(Bucket) /\ Len(cs) = Len(bs) - 1
      /\ \A i \in 1..Len(cs) : cs[i] = IF i < j THEN bs[i] ELSE bs[i + 1]
  <2> DEFINE p == SubSeq(bs, 1, j - 1)
             q == SubSeq(bs, j + 1, Len(bs))
  <2>1. p \in Seq(Bucket) /\ Len(p) = j - 1 /\ \A i \in 1..(j - 1) : p[i] = bs[i]
    BY <1>1, SubSeqProperties
  <2>2. q \in Seq(Bucket) /\ Len(q) = Len(bs) - j /\ \A i \in 1..(Len(bs) - j) : q[i] = bs[j + i]
    <3>1. /\ q \in Seq(Bucket) /\ Len(q) = IF j + 1 <= Len(bs) THEN Len(bs) - (j + 1) + 1 ELSE 0
          /\ \A i \in 1..((Len(bs) - (j + 1)) + 1) : q[i] = bs[((j + 1) + i) - 1]
      BY <1>1, SubSeqProperties
    <3>2. Len(q) = Len(bs) - j /\ (Len(bs) - (j + 1)) + 1 = Len(bs) - j
      BY <1>1, <3>1
    <3>3. \A i \in 1..(Len(bs) - j) : ((j + 1) + i) - 1 = j + i
      BY <1>1
    <3> QED  BY <3>1, <3>2, <3>3
  <2> HIDE DEF p, q
  <2>7. /\ p \o q \in Seq(Bucket) /\ Len(p \o q) = Len(p) + Len(q)
        /\ \A i \in 1..(Len(p) + Len(q)) : (p \o q)[i] = IF i <= Len(p) THEN p[i] ELSE q[i - Len(p)]
    BY <2>1, <2>2, ConcatProperties
  <2>3. cs = p \o q
    BY DEF RemoveAt, p, q
  <2>4. /\ cs \in Seq(Bucket) /\ Len(cs) = Len(p) + Len(q)
        /\ \A i \in 1..(Len(p) + Len(q)) : cs[i] = IF i <= Len(p) THEN p[i] ELSE q[i - Len(p)]
    BY <2>3, <2>7
  <2>5. Len(cs) = Len(bs) - 1
    BY <1>1, <2>1, <2>2, <2>4
  <2>6. ASSUME NEW i \in 1..(Len(bs) - 1) PROVE cs[i] = IF i < j THEN bs[i] ELSE bs[i + 1]
    <3>1. CASE i < j
      BY <1>1, <2>1, <2>2, <2>4, <3>1
    <3>2. CASE ~(i < j)
      <4>1. cs[i] = q[i - (j - 1)] /\ i - (j - 1) \in 1..(Len(bs) - j) /\ j + (i - (j - 1)) = i + 1
        BY SMTT(30), <1>1, <2>1, <2>2, <2>4, <3>2
      <4> QED  BY <2>2, <3>2, <4>1
    <3> QED  BY <3>1, <3>2
  <2> QED  BY <2>4, <2>5, <2>6
<1>3. DOMAIN cs = 1..(Len(bs) - 1) /\ \A i \in 1..(Len(bs) - 1) : i \in DOMAIN bs /\ i + 1 \in DOMAIN bs
  BY <1>1, <1>2, LenProperties
<1>4. /\ \A i \in 1..(Len(bs) - 1) : cs[i] = IF i < j THEN bs[i] ELSE bs[i + 1]
      /\ \A i \in DOMAIN bs : bs[i].weight \in Int /\ bs[i].sum \in Int
  BY <1>2, BucketFields
<1>5. Total(WeightsOf(bs), 1..Len(bs)) = bs[j].weight + Total(WeightsOf(cs), 1..(Len(bs) - 1))
  <2> DEFINE w == WeightsOf(bs)
             u == WeightsOf(cs)
  <2>1. (\A i \in 1..Len(bs) : w[i] \in Int) /\ w[j] = bs[j].weight
    BY <1>1, <1>4 DEF WeightsOf
  <2>2. \A i \in 1..(Len(bs) - 1) : u[i] = IF i < j THEN w[i] ELSE w[i + 1]
    BY <1>1, <1>3, <1>4 DEF WeightsOf
  <2> HIDE DEF w, u
  <2>3. Total(w, 1..Len(bs)) = w[j] + Total(u, 1..(Len(bs) - 1))
    <3> DEFINE n == Len(bs)
    <3>1. /\ n \in Nat /\ j \in 1..n /\ \A i \in 1..n : w[i] \in Int
          /\ \A i \in 1..(n - 1) : u[i] = IF i < j THEN w[i] ELSE w[i + 1]
      BY <1>1, <2>1, <2>2
    <3> HIDE DEF n
    <3>2. Total(w, 1..n) = w[j] + Total(u, 1..(n - 1))
      BY SMTT(30), <3>1, TotalRemoved
    <3> QED  BY <3>2 DEF n
  <2> QED  BY <2>1, <2>3 DEF w, u
<1>6. Total(SumsOf(bs), 1..Len(bs)) = bs[j].sum + Total(SumsOf(cs), 1..(Len(bs) - 1))
  <2> DEFINE w == SumsOf(bs)
             u == SumsOf(cs)
  <2>1. (\A i \in 1..Len(bs) : w[i] \in Int) /\ w[j] = bs[j].sum
    BY <1>1, <1>4 DEF SumsOf
  <2>2. \A i \in 1..(Len(bs) - 1) : u[i] = IF i < j THEN w[i] ELSE w[i + 1]
    BY <1>1, <1>3, <1>4 DEF SumsOf
  <2> HIDE DEF w, u
  <2>3. Total(w, 1..Len(bs)) = w[j] + Total(u, 1..(Len(bs) - 1))
    <3> DEFINE n == Len(bs)
    <3>1. /\ n \in Nat /\ j \in 1..n /\ \A i \in 1..n : w[i] \in Int
          /\ \A i \in 1..(n - 1) : u[i] = IF i < j THEN w[i] ELSE w[i + 1]
      BY <1>1, <2>1, <2>2
    <3> HIDE DEF n
    <3>2. Total(w, 1..n) = w[j] + Total(u, 1..(n - 1))
      BY SMTT(30), <3>1, TotalRemoved
    <3> QED  BY <3>2 DEF n
  <2> QED  BY <2>1, <2>3 DEF w, u
<1> QED  BY <1>1, <1>2, <1>3, <1>5, <1>6, BucketTotals

(* Among finitely many things that can all be compared one is the least. *)
LEMMA LeastOf ==
  ASSUME NEW S, IsFiniteSet(S), S # {}, NEW R,
         \A p, q \in S : <<p, q>> \in R \/ <<q, p>> \in R,
         \A p, q, r \in S : <<p, q>> \in R /\ <<q, r>> \in R => <<p, r>> \in R
  PROVE  \E p \in S : \A q \in S : <<p, q>> \in R
<1> DEFINE Has(T) == T = {} \/ \E p \in T : \A q \in T : <<p, q>> \in R
           C == {T \in SUBSET S : Has(T)}
<1>1. ASSUME NEW T \in SUBSET S, NEW x \in T, Has(T \ {x}) PROVE Has(T)
  <2>1. <<x, x>> \in R
    OBVIOUS
  <2>2. CASE T \ {x} = {}
    BY <2>1, <2>2
  <2>3. CASE T \ {x} # {}
    <3>1. PICK p \in T \ {x} : \A q \in T \ {x} : <<p, q>> \in R
      BY <1>1, <2>3
    <3>2. CASE <<p, x>> \in R
      BY <3>1, <3>2
    <3>3. CASE <<x, p>> \in R
      <4>1. \A q \in T : <<x, q>> \in R
        BY <2>1, <3>1, <3>3
      <4> QED  BY <4>1
    <3> QED  BY <3>2, <3>3
  <2> QED  BY <2>2, <2>3
<1>2. ASSUME NEW T \in SUBSET S, \A x \in T : T \ {x} \in C PROVE T \in C
  <2>1. T # {} => \E x \in T : Has(T \ {x})
    BY <1>2
  <2>2. Has({})
    OBVIOUS
  <2> HIDE DEF Has
  <2> QED  BY <1>1, <2>1, <2>2
<1>3. \A T \in SUBSET S : T \in C
  <2> HIDE DEF C
  <2> QED  BY <1>2, SubsetInduction
<1> QED  BY <1>3

LEMMA TimesOrder ==
  ASSUME NEW a \in Int, NEW b \in Int, NEW k \in Nat \ {0}
  PROVE  a <= b <=> a * k <= b * k
OBVIOUS

(* Fractions with a positive denominator, and their order. *)
Fraction == [num : Int, den : Nat \ {0}]

LEMMA FractionOrder ==
  ASSUME NEW p \in Fraction, NEW q \in Fraction, NEW r \in Fraction,
         ~Smaller(q, p), ~Smaller(r, q)
  PROVE  ~Smaller(r, p)
<1> DEFINE a == p.num
           b == p.den
           c == q.num
           d == q.den
           e == r.num
           f == r.den
<1>1. a \in Int /\ c \in Int /\ e \in Int /\ b \in Nat \ {0} /\ d \in Nat \ {0} /\ f \in Nat \ {0}
  BY DEF Fraction
<1>2. ~(c * b < a * d) /\ ~(e * d < c * f)
  BY DEF Smaller
<1> SUFFICES ~(e * b < a * f)
  BY DEF Smaller
<1> HIDE DEF a, b, c, d, e, f
<1>3. a * d \in Int /\ c * b \in Int /\ c * f \in Int /\ e * d \in Int /\ a * f \in Int /\ e * b \in Int
  BY <1>1
<1>4. (a * d) * f <= (c * b) * f
  BY <1>1, <1>2, <1>3, TimesOrder
<1>5. (c * f) * b <= (e * d) * b
  BY <1>1, <1>2, <1>3, TimesOrder
<1>6. (c * b) * f = (c * f) * b /\ (a * d) * f = (a * f) * d /\ (e * d) * b = (e * b) * d
  BY <1>1
<1>7. (a * f) * d <= (e * b) * d
  <2>1. (a * d) * f \in Int /\ (c * b) * f \in Int /\ (e * d) * b \in Int
    BY <1>1, <1>3
  <2> QED  BY <1>4, <1>5, <1>6, <2>1
<1>8. a * f <= e * b
  BY <1>1, <1>3, <1>7, TimesOrder
<1> QED  BY <1>3, <1>8

LEMMA GapTyped ==
  ASSUME NEW b \in Bucket, NEW c \in Bucket
  PROVE  Gap(b, c) \in Fraction
<1>1. b.sum \in Int /\ c.sum \in Int /\ b.weight \in Nat \ {0} /\ c.weight \in Nat \ {0}
  BY DEF Bucket
<1>2. b.sum * c.weight - c.sum * b.weight \in Int /\ b.weight * c.weight \in Nat \ {0}
  BY <1>1
<1> QED  BY <1>2 DEF Gap, Fraction

(* There is a closest pair, so the two loops find one. *)
LEMMA ClosestIs ==
  ASSUME NEW bs \in Seq(Bucket), Len(bs) >= 2
  PROVE  /\ ClosestPair(bs)[1] \in DOMAIN bs /\ ClosestPair(bs)[2] \in DOMAIN bs
         /\ ClosestPair(bs)[1] < ClosestPair(bs)[2]
<1> DEFINE D == DOMAIN bs
           pairs == {p \in D \X D : p[1] < p[2]}
           gap == [p \in pairs |-> Gap(bs[p[1]], bs[p[2]])]
           Earlier(p, q) == p[1] < q[1] \/ (p[1] = q[1] /\ p[2] < q[2])
           Ok(p, q) == ~Smaller(gap[q], gap[p]) /\ (Earlier(q, p) => Smaller(gap[p], gap[q]))
           R == {x \in pairs \X pairs : Ok(x[1], x[2])}
<1>1. D = 1..Len(bs) /\ Len(bs) \in Nat
  BY LenProperties
<1>2. IsFiniteSet(pairs)
  <2>1. IsFiniteSet(D)
    BY <1>1, FS_Interval
  <2>2. IsFiniteSet(D \X D)
    BY <2>1, FS_Product
  <2> QED  BY <2>2, FS_Subset
<1>3. pairs # {}
  <2>1. <<1, 2>> \in pairs
    BY <1>1
  <2> QED  BY <2>1
<1>4. \A p \in pairs : gap[p] \in Fraction
  <2>1. \A i \in D : bs[i] \in Bucket
    BY BucketFields
  <2> QED  BY <2>1, GapTyped
<1>5. \A p \in pairs : p[1] \in Int /\ p[2] \in Int
  BY <1>1
<1>6. ASSUME NEW p \in pairs, NEW q \in pairs
      PROVE  /\ ~(Earlier(p, q) /\ Earlier(q, p))
             /\ ~(Smaller(gap[p], gap[q]) /\ Smaller(gap[q], gap[p]))
  <2>1. ~(Earlier(p, q) /\ Earlier(q, p))
    BY <1>5
  <2>2. gap[p].num * gap[q].den \in Int /\ gap[q].num * gap[p].den \in Int
    BY <1>4 DEF Fraction
  <2> HIDE DEF gap
  <2> QED  BY <2>1, <2>2 DEF Smaller
<1>7. ASSUME NEW p \in pairs, NEW q \in pairs, NEW r \in pairs, ~Earlier(q, p), ~Earlier(r, q)
      PROVE  ~Earlier(r, p)
  BY <1>5, <1>7
<1>8. ASSUME NEW p \in pairs, NEW q \in pairs, NEW r \in pairs,
             ~Smaller(gap[q], gap[p]), ~Smaller(gap[r], gap[q])
      PROVE  ~Smaller(gap[r], gap[p])
  BY <1>4, <1>8, FractionOrder
<1> HIDE DEF gap, Earlier, pairs, D
<1>9. \A p, q \in pairs : Ok(p, q) \/ Ok(q, p)
  BY <1>6
<1>10. \A p, q, r \in pairs : Ok(p, q) /\ Ok(q, r) => Ok(p, r)
  <2> SUFFICES ASSUME NEW p \in pairs, NEW q \in pairs, NEW r \in pairs, Ok(p, q), Ok(q, r)
               PROVE  Ok(p, r)
    OBVIOUS
  <2>1. ~Smaller(gap[r], gap[p])
    BY <1>8
  <2>2. ASSUME ~Smaller(gap[p], gap[r]) PROVE ~Earlier(r, p)
    <3>1. ~Smaller(gap[p], gap[q])
      BY <1>8, <2>2
    <3>2. ~Smaller(gap[q], gap[r])
      BY <1>8, <2>2
    <3> QED  BY <1>7, <3>1, <3>2
  <2> QED  BY <2>1, <2>2
<1>11. \A p, q \in pairs : <<p, q>> \in R <=> Ok(p, q)
  <2> HIDE DEF Ok
  <2> QED  OBVIOUS
<1> HIDE DEF Ok
<1>12. \E p \in pairs : \A q \in pairs : <<p, q>> \in R
  <2> HIDE DEF R
  <2> QED  BY <1>2, <1>3, <1>9, <1>10, <1>11, LeastOf
<1>13. \E p \in pairs : \A q \in pairs : Ok(p, q)
  BY <1>11, <1>12
<1>14. ClosestPair(bs) = CHOOSE p \in pairs : \A q \in pairs : Ok(p, q)
  BY DEF ClosestPair, pairs, D, gap, Ok, Earlier
<1>15. ClosestPair(bs) \in pairs
  BY <1>13, <1>14
<1> QED  BY <1>15 DEF pairs, D

(* The place of a bucket is between two bounds. *)
Inside(b, lo, hi) == lo * b.weight <= b.sum /\ b.sum <= hi * b.weight
AllInside(bs, lo, hi) == \A i \in DOMAIN bs : Inside(bs[i], lo, hi)

LEMMA InsideJoined ==
  ASSUME NEW b \in Bucket, NEW c \in Bucket, NEW lo \in Int, NEW hi \in Int,
         Inside(b, lo, hi), Inside(c, lo, hi)
  PROVE  Joined(b, c) \in Bucket /\ Inside(Joined(b, c), lo, hi)
<1> DEFINE x == b.sum
           m == b.weight
           y == c.sum
           n == c.weight
<1>1. x \in Int /\ y \in Int /\ m \in Nat \ {0} /\ n \in Nat \ {0}
  BY DEF Bucket
<1>2. lo * m <= x /\ x <= hi * m /\ lo * n <= y /\ y <= hi * n
  BY DEF Inside
<1>3. Joined(b, c).sum = x + y /\ Joined(b, c).weight = m + n
  BY DEF Joined
<1>4. Joined(b, c) \in Bucket
  BY <1>1 DEF Joined, Bucket
<1> HIDE DEF x, y, m, n
<1>5. lo * (m + n) = lo * m + lo * n /\ hi * (m + n) = hi * m + hi * n
  BY <1>1
<1>6. lo * m \in Int /\ lo * n \in Int /\ hi * m \in Int /\ hi * n \in Int
  BY <1>1
<1>7. lo * (m + n) <= x + y /\ x + y <= hi * (m + n)
  BY <1>1, <1>2, <1>5, <1>6
<1> QED  BY <1>3, <1>4, <1>7 DEF Inside

LEMMA InsideWider ==
  ASSUME NEW b \in Bucket, NEW lo \in Int, NEW hi \in Int, Inside(b, lo, hi),
         NEW l \in Int, NEW h \in Int, l <= lo, hi <= h
  PROVE  Inside(b, l, h)
<1> DEFINE x == b.sum
           m == b.weight
<1>1. x \in Int /\ m \in Nat \ {0} /\ lo * m <= x /\ x <= hi * m
  BY DEF Bucket, Inside
<1> HIDE DEF x, m
<1>2. l * m <= lo * m /\ hi * m <= h * m
  BY <1>1, TimesOrder
<1>3. l * m \in Int /\ lo * m \in Int /\ h * m \in Int /\ hi * m \in Int
  BY <1>1
<1>4. l * m <= x /\ x <= h * m
  BY <1>1, <1>2, <1>3
<1> QED  BY <1>4 DEF Inside, x, m

(* A sample joins one bucket at most. *)
LEMMA BestIs ==
  ASSUME NEW bs \in Seq(Bucket), NEW v \in Int, NEW spread \in Int
  PROVE  BestFit(bs, v, spread) = {} \/ \E i \in DOMAIN bs : BestFit(bs, v, spread) = {i}
<1> DEFINE best == BestFit(bs, v, spread)
           fit == {i \in DOMAIN bs : Off(bs[i], v) * RangeDivisor <= spread * bs[i].weight}
           Closer(i, j) == Off(bs[i], v) * bs[j].weight < Off(bs[j], v) * bs[i].weight
<1>1. best = {i \in fit : \A j \in fit : ~Closer(j, i) /\ (j < i => Closer(i, j))}
  BY DEF BestFit
<1>2. DOMAIN bs = 1..Len(bs) /\ Len(bs) \in Nat /\ fit \subseteq DOMAIN bs
  BY LenProperties
<1> HIDE DEF best, Closer, fit
<1>3. ASSUME NEW i \in best, NEW j \in best PROVE i = j
  <2>1. i \in fit /\ j \in fit /\ i \in Int /\ j \in Int
    BY <1>1, <1>2
  <2>2. ~(i < j) /\ ~(j < i)
    BY <1>1, <2>1
  <2> QED  BY <2>1, <2>2
<1>4. best \subseteq DOMAIN bs
  BY <1>1, <1>2
<1>5. best = {} \/ \E i \in DOMAIN bs : best = {i}
  BY <1>3, <1>4
<1> QED  BY <1>5 DEF best

(* Two buckets that are combined are one of the weight and the sum of both. *)
LEMMA CombinedIs ==
  ASSUME NEW bs \in Seq(Bucket), Len(bs) >= 2, NEW lo \in Int, NEW hi \in Int, AllInside(bs, lo, hi),
         NEW cs, cs = Combined(bs)
  PROVE  /\ cs \in Seq(Bucket) /\ Len(cs) = Len(bs) - 1 /\ AllInside(cs, lo, hi)
         /\ Weight(cs) = Weight(bs) /\ Mass(cs) = Mass(bs)
<1> DEFINE i == ClosestPair(bs)[1]
           j == ClosestPair(bs)[2]
           b == Joined(bs[i], bs[j])
           mid == [bs EXCEPT ![i] = b]
<1>1. i \in DOMAIN bs /\ j \in DOMAIN bs /\ i < j
  BY ClosestIs
<1>2. cs = RemoveAt(mid, j)
  BY DEF Combined, ReplaceAt
<1> HIDE DEF i, j
<1>3. Len(bs) \in Nat /\ DOMAIN bs = 1..Len(bs) /\ i # j
  BY <1>1, LenProperties
<1>4. bs[i] \in Bucket /\ bs[j] \in Bucket
  BY <1>1, BucketFields
<1>5. b \in Bucket /\ Inside(b, lo, hi)
  BY <1>1, <1>4, InsideJoined DEF AllInside
<1>6. /\ mid \in Seq(Bucket) /\ Len(mid) = Len(bs)
      /\ Weight(mid) = Weight(bs) + bs[j].weight /\ Mass(mid) = Mass(bs) + bs[j].sum
  <2> DEFINE c == bs[j]
  <2> HIDE DEF c
  <2>1. c \in Bucket /\ Joins(bs, i, c, mid)
    BY <1>4 DEF c, Joins
  <2> HIDE DEF mid
  <2>2. /\ mid \in Seq(Bucket) /\ Len(mid) = Len(bs)
        /\ Weight(mid) = Weight(bs) + c.weight /\ Mass(mid) = Mass(bs) + c.sum
    BY <1>1, <2>1, BucketJoined
  <2> QED  BY <2>2 DEF c
<1>7. DOMAIN mid = DOMAIN bs /\ mid[j] = bs[j] /\ AllInside(mid, lo, hi)
  BY <1>1, <1>3, <1>5 DEF AllInside
<1> HIDE DEF mid, b
<1>8. /\ cs \in Seq(Bucket) /\ Len(cs) = Len(mid) - 1
      /\ \A k \in DOMAIN cs : cs[k] = IF k < j THEN mid[k] ELSE mid[k + 1]
      /\ Weight(mid) = mid[j].weight + Weight(cs) /\ Mass(mid) = mid[j].sum + Mass(cs)
  BY <1>1, <1>2, <1>6, <1>7, BucketRemoved
<1>9. AllInside(cs, lo, hi)
  <2>1. DOMAIN cs = 1..(Len(bs) - 1)
    BY <1>6, <1>8, LenProperties
  <2>2. \A k \in DOMAIN cs : k \in DOMAIN mid /\ k + 1 \in DOMAIN mid
    BY <1>3, <1>7, <2>1
  <2> QED  BY <1>7, <1>8, <2>2 DEF AllInside
<1>10. Weight(cs) = Weight(bs) /\ Mass(cs) = Mass(bs)
  <2>1. bs[j].weight \in Int /\ bs[j].sum \in Int
    BY SMTT(30), <1>4 DEF Bucket
  <2>2. Weight(bs) \in Int /\ Mass(bs) \in Int
    BY BucketTotals
  <2>3. Weight(cs) \in Int /\ Mass(cs) \in Int
    BY <1>8, BucketTotals
  <2>4. /\ Weight(bs) + bs[j].weight = bs[j].weight + Weight(cs)
        /\ Mass(bs) + bs[j].sum = bs[j].sum + Mass(cs)
    BY <1>6, <1>7, <1>8
  <2> DEFINE m == bs[j].weight
             n == bs[j].sum
  <2> HIDE DEF m, n
  <2>5. /\ m \in Int /\ n \in Int /\ Weight(bs) + m = m + Weight(cs) /\ Mass(bs) + n = n + Mass(cs)
    BY <2>1, <2>4 DEF m, n
  <2> QED  BY <2>2, <2>3, <2>5
<1> QED  BY <1>6, <1>8, <1>9, <1>10

(* What holds of a range, and that a sample keeps it. *)
RangeOK(r) ==
  /\ DOMAIN r = {"all", "buckets"} /\ SomeSummary(r.all) /\ r.buckets \in Seq(Bucket)
  /\ r.all.count = 0 => r.buckets = <<>>
  /\ RangeSound(r)

LEMMA RangeIs ==
  ASSUME NEW r, RangeOK(r)
  PROVE  /\ Len(r.buckets) < MaxBuckets /\ r.all.count = Weight(r.buckets) /\ r.all.sum = Mass(r.buckets)
         /\ AllInside(r.buckets, r.all.min, r.all.max)
BY DEF RangeOK, RangeSound, Weight, Mass, AllInside, Inside

LEMMA RangeFrom ==
  ASSUME NEW r, DOMAIN r = {"all", "buckets"}, SomeSummary(r.all), r.buckets \in Seq(Bucket),
         r.all.count = 0 => r.buckets = <<>>,
         Len(r.buckets) < MaxBuckets, r.all.count = Weight(r.buckets), r.all.sum = Mass(r.buckets),
         AllInside(r.buckets, r.all.min, r.all.max)
  PROVE  RangeOK(r)
BY DEF RangeOK, RangeSound, Weight, Mass, AllInside, Inside

LEMMA RangeGrows ==
  ASSUME NEW r, RangeOK(r), NEW v \in Int
  PROVE  RangeOK(RangeWith(r, v)) /\ RangeWith(r, v).all.count = r.all.count + 1
<1> DEFINE bs == r.buckets
           all == SummaryWith(r.all, v)
           one == [sum |-> v, weight |-> 1]
           spread == all.max - all.min
           best == BestFit(bs, v, spread)
           appended == Append(bs, one)
           q == RangeWith(r, v)
           cs == q.buckets
<1>1. /\ SomeSummary(all) /\ all.count = r.all.count + 1 /\ all.sum = r.all.sum + v
      /\ all.min = (IF r.all.count = 0 THEN v ELSE Least(r.all.min, v))
      /\ all.max = (IF r.all.count = 0 THEN v ELSE Greatest(r.all.max, v))
  BY SummaryTyped DEF SummaryWith, RangeOK
<1>2. /\ DOMAIN q = {"all", "buckets"} /\ q.all = all
      /\ cs = IF best # {} THEN [i \in DOMAIN bs |-> IF i \in best THEN Joined(bs[i], one) ELSE bs[i]]
              ELSE IF Len(appended) < MaxBuckets THEN appended ELSE Combined(appended)
  BY DEF RangeWith
<1>3. one \in Bucket /\ one.sum = v /\ one.weight = 1
  BY DEF Bucket
<1>4. /\ bs \in Seq(Bucket) /\ Len(bs) \in Nat /\ DOMAIN bs = 1..Len(bs) /\ Len(bs) < MaxBuckets
      /\ r.all.count = Weight(bs) /\ r.all.sum = Mass(bs) /\ AllInside(bs, r.all.min, r.all.max)
      /\ SomeSummary(r.all) /\ (r.all.count = 0 => bs = <<>>)
  BY RangeIs, LenProperties DEF RangeOK
<1>5. MaxBuckets \in Nat \ {0, 1}
  BY StatisticsAssumption
<1> HIDE DEF all, one, q, bs
<1>6. /\ all.min \in Int /\ all.max \in Int /\ spread \in Int /\ all.count \in Nat /\ all.sum \in Int
      /\ r.all.count \in Nat /\ r.all.sum \in Int /\ r.all.min \in Int /\ r.all.max \in Int
  BY <1>1, <1>4 DEF SomeSummary
<1>7. all.min <= v /\ v <= all.max /\ (r.all.count # 0 => all.min <= r.all.min /\ r.all.max <= all.max)
  BY <1>1, <1>6 DEF Least, Greatest
<1>8. Inside(one, all.min, all.max)
  BY <1>3, <1>6, <1>7 DEF Inside
<1>9. AllInside(bs, all.min, all.max)
  <2>1. CASE r.all.count = 0
    BY <1>4, <2>1 DEF AllInside
  <2>2. CASE r.all.count # 0
    <3> SUFFICES ASSUME NEW i \in DOMAIN bs PROVE Inside(bs[i], all.min, all.max)
      BY DEF AllInside
    <3> DEFINE b == bs[i]
               lo == r.all.min
               hi == r.all.max
    <3>1. b \in Bucket /\ Inside(b, lo, hi) /\ lo \in Int /\ hi \in Int /\ all.min <= lo /\ hi <= all.max
      BY <1>4, <1>6, <1>7, <2>2, BucketFields DEF AllInside
    <3> HIDE DEF b, lo, hi
    <3>2. Inside(b, all.min, all.max)
      BY <1>6, <3>1, InsideWider
    <3> QED  BY <3>2 DEF b
  <2> QED  BY <2>1, <2>2
<1>10. best = {} \/ \E i \in DOMAIN bs : best = {i}
  <2> HIDE DEF spread
  <2> QED  BY ZenonT(60), <1>4, <1>6, BestIs
<1> HIDE DEF best
<1>11. /\ cs \in Seq(Bucket) /\ Len(cs) < MaxBuckets /\ AllInside(cs, all.min, all.max)
       /\ Weight(cs) = Weight(bs) + 1 /\ Mass(cs) = Mass(bs) + v
  <2>1. CASE best # {}
    <3>1. PICK i \in DOMAIN bs : best = {i}
      BY <1>10, <2>1
    <3>2. cs = [bs EXCEPT ![i] = Joined(bs[i], one)] /\ Joins(bs, i, one, cs)
      BY <1>2, <2>1, <3>1 DEF Joins
    <3>3. /\ cs \in Seq(Bucket) /\ Len(cs) = Len(bs)
          /\ Weight(cs) = Weight(bs) + one.weight /\ Mass(cs) = Mass(bs) + one.sum
      <4> HIDE DEF cs
      <4> QED  BY <1>3, <1>4, <3>2, BucketJoined
    <3>4. AllInside(cs, all.min, all.max)
      <4>1. Inside(Joined(bs[i], one), all.min, all.max)
        <5>1. bs[i] \in Bucket /\ Inside(bs[i], all.min, all.max)
          BY <1>4, <1>9, BucketFields DEF AllInside
        <5> QED  BY <1>3, <1>6, <1>8, <5>1, InsideJoined
      <4> QED  BY <1>9, <3>2, <4>1 DEF AllInside
    <3> QED  BY <1>3, <1>4, <3>3, <3>4
  <2>2. CASE best = {}
    <3>1. /\ appended \in Seq(Bucket) /\ Len(appended) = Len(bs) + 1
          /\ Weight(appended) = Weight(bs) + 1 /\ Mass(appended) = Mass(bs) + v
      <4> DEFINE as == appended
      <4> HIDE DEF as
      <4>1. as = Append(bs, one)
        BY DEF as
      <4>2. /\ as \in Seq(Bucket) /\ Len(as) = Len(bs) + 1
            /\ Weight(as) = Weight(bs) + one.weight /\ Mass(as) = Mass(bs) + one.sum
        BY <1>3, <1>4, <4>1, BucketAppended
      <4> QED  BY <1>3, <4>2 DEF as
    <3>2. AllInside(appended, all.min, all.max)
      BY <1>3, <1>4, <1>8, <1>9 DEF AllInside
    <3> HIDE DEF appended
    <3>3. CASE Len(appended) < MaxBuckets
      <4>1. cs = appended
        BY <1>2, <2>2, <3>3
      <4> QED  BY <3>1, <3>2, <3>3, <4>1
    <3>4. CASE ~(Len(appended) < MaxBuckets)
      <4>1. cs = Combined(appended) /\ Len(appended) >= 2
        BY <1>2, <1>4, <1>5, <2>2, <3>1, <3>4
      <4> HIDE DEF cs
      <4>2. /\ cs \in Seq(Bucket) /\ Len(cs) = Len(appended) - 1 /\ AllInside(cs, all.min, all.max)
            /\ Weight(cs) = Weight(appended) /\ Mass(cs) = Mass(appended)
        BY <1>6, <3>1, <3>2, <4>1, CombinedIs
      <4> QED  BY <1>4, <3>1, <4>2
    <3> QED  BY <3>3, <3>4
  <2> QED  BY <2>1, <2>2
<1>12. all.count = Weight(cs) /\ all.sum = Mass(cs) /\ all.count # 0
  BY <1>1, <1>4, <1>6, <1>11
<1>13. RangeOK(q)
  BY <1>1, <1>2, <1>11, <1>12, RangeFrom
<1> QED  BY <1>1, <1>2, <1>13 DEF q

-----------------------------------------------------------------------------
(* How many values were counted for the states of a sub system. *)
Spread(f, ss) == MapThenSumSet(LAMBDA s : f[<<ss, s>>].all.count, States)

LEMMA SpreadIs ==
  ASSUME NEW f, NEW ss, NEW w, \A s \in States : w[s] = f[<<ss, s>>].all.count
  PROVE  Spread(f, ss) = Total(w, States)
BY ZenonT(60), CountsIs DEF Spread

(* One value more for at most one of the states. *)
LEMMA SpreadGrows ==
  ASSUME NEW f, NEW g, NEW ss, NEW T, \A p, q \in T : p = q,
         \A s \in States : f[<<ss, s>>].all.count \in Int,
         \A s \in States : g[<<ss, s>>].all.count = IF s \in T THEN f[<<ss, s>>].all.count + 1
                                                    ELSE f[<<ss, s>>].all.count
  PROVE  Spread(f, ss) \in Int /\ Spread(g, ss) \in Int /\ Spread(g, ss) <= Spread(f, ss) + 1
<1> DEFINE w == [s \in States |-> f[<<ss, s>>].all.count]
           u == [s \in States |-> g[<<ss, s>>].all.count]
<1>1. /\ \A s \in States : w[s] = f[<<ss, s>>].all.count /\ w[s] \in Int
      /\ \A s \in States : u[s] = g[<<ss, s>>].all.count
      /\ \A s \in States : u[s] = IF s \in T THEN w[s] + 1 ELSE w[s]
  OBVIOUS
<1> HIDE DEF w, u
<1>2. Spread(f, ss) = Total(w, States) /\ Spread(g, ss) = Total(u, States)
  BY <1>1, SpreadIs
<1>3. IsFiniteSet(States) /\ Finite(States, w) /\ Total(w, States) \in Int
  BY <1>1, StatesAssumption, TotalTyped DEF Finite
<1>4. CASE \A s \in States : s \notin T
  <2>1. Total(u, States) = Total(w, States)
    BY <1>1, <1>4, TotalSame
  <2> QED  BY <1>2, <1>3, <2>1
<1>5. CASE \E s \in States : s \in T
  <2>1. PICK s \in States : s \in T
    BY <1>5
  <2>2. Raised(States, w, s, 1, States, u)
    BY <1>1, <2>1 DEF Raised
  <2>3. Total(u, States) = Total(w, States) + 1
    BY <1>3, <2>2, TotalRaised
  <2> QED  BY <1>2, <1>3, <2>3
<1> QED  BY <1>4, <1>5

LEMMA SpreadNone ==
  ASSUME NEW f, NEW ss, \A s \in States : f[<<ss, s>>].all.count = 0
  PROVE  Spread(f, ss) = 0
<1> DEFINE w == [s \in States |-> f[<<ss, s>>].all.count]
           C == {T \in SUBSET States : Total(w, T) = 0}
<1>1. \A s \in States : w[s] = f[<<ss, s>>].all.count /\ w[s] = 0
  OBVIOUS
<1> HIDE DEF w
<1>2. Spread(f, ss) = Total(w, States)
  BY <1>1, SpreadIs
<1>3. ASSUME NEW T \in SUBSET States, \A x \in T : T \ {x} \in C PROVE T \in C
  <2>1. CASE T = {}
    BY <2>1, TotalEmpty
  <2>2. CASE T # {}
    <3>1. PICK x \in T : TRUE
      BY <2>2
    <3>4. IsFiniteSet(T)
      BY StatesAssumption, FS_Subset
    <3>5. \A y \in T : w[y] = 0
      <4>1. \A y \in T : y \in States
        OBVIOUS
      <4> QED  BY <1>1, <4>1
    <3>2. IsFiniteSet(T) /\ (\A y \in T : w[y] \in Int) /\ w[x] = 0
      BY <3>1, <3>4, <3>5
    <3>3. Total(w, T) = w[x] + Total(w, T \ {x})
      BY <3>2, TotalSplit
    <3> QED  BY <1>3, <3>2, <3>3
  <2> QED  BY <2>1, <2>2
<1>4. \A T \in SUBSET States : T \in C
  <2> HIDE DEF C
  <2> QED  BY <1>3, StatesAssumption, SubsetInduction
<1> QED  BY <1>2, <1>4

-----------------------------------------------------------------------------
(* ValuesAreRight: the values of an analysis. *)
Kept == SubSystems \X States

ValuesOK(a) ==
  /\ ExactOK(a.exact) /\ RangeOK(a.range) /\ RangeOK(a.metric.range)
  /\ \A k \in Kept : ExactOK(a.stateExact[k]) /\ RangeOK(a.stateRange[k])
  /\ \A ss \in SubSystems : /\ Spread(a.stateExact, ss) <= a.exact.all.count
                            /\ Spread(a.stateRange, ss) <= a.range.all.count

LEMMA ValuesOKSound ==
  ASSUME NEW a, ValuesOK(a), DOMAIN a.stateExact = Kept, DOMAIN a.stateRange = Kept
  PROVE  ValuesSound(a)
BY DEF ValuesOK, ValuesSound, ExactOK, RangeOK, Spread

ValueFields == {"exact", "stateExact", "range", "stateRange", "metric"}
SameValues(a, b) == \A f \in ValueFields : b[f] = a[f]

LEMMA ValuesSame ==
  ASSUME NEW a, ValuesOK(a), NEW b, SameValues(a, b)
  PROVE  ValuesOK(b)
<1>1. /\ b.exact = a.exact /\ b.stateExact = a.stateExact /\ b.range = a.range
      /\ b.stateRange = a.stateRange /\ b.metric = a.metric
  BY DEF SameValues, ValueFields
<1> QED  BY <1>1 DEF ValuesOK

LEMMA NoRangeOK == RangeOK(NoRange)
<1> DEFINE r == NoRange
           bs == r.buckets
<1>1. DOMAIN r = {"all", "buckets"} /\ r.all = Summary /\ bs = <<>>
  BY DEF NoRange
<1> HIDE DEF r, bs
<1>2. bs \in Seq(Bucket) /\ DOMAIN bs = {} /\ Len(bs) = 0
  BY <1>1
<1>3. Weight(bs) = 0 /\ Mass(bs) = 0
  BY <1>2, BucketTotals, TotalEmpty
<1>4. SomeSummary(r.all) /\ r.all.count = 0 /\ r.all.sum = 0
  BY <1>1 DEF SomeSummary, Summary
<1>5. Len(bs) < MaxBuckets
  BY <1>2, StatisticsAssumption
<1>6. AllInside(bs, r.all.min, r.all.max)
  BY <1>2 DEF AllInside
<1>7. RangeOK(r)
  BY <1>1, <1>2, <1>3, <1>4, <1>5, <1>6, RangeFrom DEF bs
<1> QED  BY <1>7 DEF r

LEMMA NothingValued == ValuesOK(NoAnalysis)
<1> DEFINE a == NoAnalysis
<1>1. /\ a.exact = NoExact /\ a.range = NoRange /\ a.metric.range = NoRange
      /\ \A k \in Kept : a.stateExact[k] = NoExact /\ a.stateRange[k] = NoRange
  BY DEF NoAnalysis, NoMetric, Kept
<1> HIDE DEF a
<1>2. ExactOK(NoExact)
  <2> DEFINE e == NoExact
             S == e.single
             M == e.multiple
             none == DOMAIN M
  <2>1. /\ DOMAIN e = {"all", "single", "multiple"} /\ e.all = Summary /\ S = {} /\ M = EmptyBag
        /\ none = {}
    BY DEF NoExact, EmptyBag, SetToBag
  <2> HIDE DEF e, S, M
  <2>2. IsFiniteSet(S) /\ Finite(none, M)
    BY <2>1, FS_EmptySet DEF Finite
  <2>3. Cardinality(S) = 0
    BY <2>1, FS_EmptySet
  <2>4. SumFunction(M) = 0
    BY <2>1, SumNothing
  <2>5. SumSet(S) = 0
    <3> DEFINE w == [x \in {} |-> x]
    <3>1. SumSet(S) = Total(w, S)
      BY <2>1, SumSetIs
    <3> QED  BY <2>1, <3>1, TotalEmpty
  <2>6. Weighted(M) = 0
    <3> DEFINE w == [x \in {} |-> x]
    <3>1. \A x \in none : w[x] = x * M[x]
      BY <2>1
    <3> HIDE DEF w
    <3>2. Weighted(M) = Total(w, none)
      BY <3>1, WeightedIs DEF Weighted, BagToSet
    <3> QED  BY <2>1, <3>2, TotalEmpty
  <2>7. Bounds(e.all, S \cup none) /\ e.all.count = 0 /\ e.all.sum = 0
    BY <2>1 DEF Bounds, SomeSummary, Summary
  <2>9. /\ S \cap none = {} /\ \A x \in none : M[x] >= 2
        /\ e.all.count = Cardinality(S) + SumFunction(M) /\ e.all.sum = SumSet(S) + Weighted(M)
    BY <2>1, <2>3, <2>4, <2>5, <2>6, <2>7
  <2>8. ExactOK(e)
    BY <2>1, <2>2, <2>7, <2>9, ExactIs DEF S, M
  <2> QED  BY <2>8 DEF e
<1>3. RangeOK(NoRange)
  BY NoRangeOK
<1>4. ASSUME NEW ss \in SubSystems PROVE Spread(a.stateExact, ss) = 0 /\ Spread(a.stateRange, ss) = 0
  <2>1. NoExact.all.count = 0 /\ NoRange.all.count = 0
    BY DEF NoExact, NoRange, Summary
  <2>2. \A s \in States : <<ss, s>> \in Kept
    BY DEF Kept
  <2>3. \A s \in States : a.stateExact[<<ss, s>>].all.count = 0 /\ a.stateRange[<<ss, s>>].all.count = 0
    BY <1>1, <2>1, <2>2
  <2> QED  BY <2>3, SpreadNone
<1>5. a.exact.all.count = 0 /\ a.range.all.count = 0
  BY <1>1 DEF NoExact, NoRange, Summary
<1> QED  BY <1>1, <1>2, <1>3, <1>4, <1>5 DEF ValuesOK, a

(* A sub system is in one state at most. *)
LEMMA OneState ==
  ASSUME NEW a, NEW ls, NEW ss, NEW p, NEW q, {<<ss, p>>, <<ss, q>>} \subseteq StatesNow(a, ls)
  PROVE  p = q
BY DEF StatesNow, LastState

LEMMA ExactValued ==
  ASSUME NEW a, Formed(a), ValuesOK(a), NEW ls, NEW v \in Int
  PROVE  ValuesOK(ExactCounted(a, ls, v))
<1> DEFINE b == ExactCounted(a, ls, v)
           now == StatesNow(a, ls)
           f == a.stateExact
           g == b.stateExact
<1>1. DOMAIN a = Fields /\ DOMAIN f = Kept
  BY DEF Formed, Shape, AnalysisOK, Kept
<1>2. /\ b.exact = ExactWith(a.exact, v)
      /\ g = [k \in Kept |-> IF k \in now THEN ExactWith(f[k], v) ELSE f[k]]
  BY <1>1 DEF ExactCounted, Fields
<1>3. b.range = a.range /\ b.stateRange = a.stateRange /\ b.metric = a.metric
  BY <1>1, ExactKeeps DEF Fields
<1> HIDE DEF b, now, f
<1>4. /\ ExactOK(b.exact) /\ b.exact.all.count = a.exact.all.count + 1
      /\ a.exact.all.count \in Nat
  <2>1. ExactOK(a.exact)
    BY DEF ValuesOK
  <2>2. a.exact.all.count \in Nat
    BY <2>1 DEF ExactOK, SomeSummary
  <2> QED  BY ZenonT(60), <1>2, <2>1, <2>2, ExactGrows
<1>5. ASSUME NEW k \in Kept
      PROVE  /\ ExactOK(g[k]) /\ f[k].all.count \in Int
             /\ g[k].all.count = IF k \in now THEN f[k].all.count + 1 ELSE f[k].all.count
  <2>1. ExactOK(f[k]) /\ f[k].all.count \in Int
    BY DEF ValuesOK, f, ExactOK, SomeSummary
  <2>2. g[k] = IF k \in now THEN ExactWith(f[k], v) ELSE f[k]
    BY <1>2
  <2> QED  BY <2>1, <2>2, ExactGrows
<1>6. ASSUME NEW ss \in SubSystems PROVE Spread(g, ss) <= b.exact.all.count
  <2> DEFINE T == {s \in States : <<ss, s>> \in now}
  <2>1. \A p, q \in T : p = q
    BY OneState DEF now
  <2>2. /\ \A s \in States : f[<<ss, s>>].all.count \in Int
        /\ \A s \in States : g[<<ss, s>>].all.count = IF s \in T THEN f[<<ss, s>>].all.count + 1
                                                      ELSE f[<<ss, s>>].all.count
    BY <1>5 DEF Kept
  <2> HIDE DEF T, g
  <2>3. Spread(f, ss) \in Int /\ Spread(g, ss) \in Int /\ Spread(g, ss) <= Spread(f, ss) + 1
    BY <2>1, <2>2, SpreadGrows
  <2>4. Spread(f, ss) <= a.exact.all.count
    BY DEF ValuesOK, f
  <2> QED  BY <1>4, <2>3, <2>4
<1> QED  BY <1>3, <1>4, <1>5, <1>6 DEF ValuesOK, b

LEMMA RangeValued ==
  ASSUME NEW a, Formed(a), ValuesOK(a), NEW ls, NEW v \in Int
  PROVE  ValuesOK(RangeCounted(a, ls, v))
<1> DEFINE b == RangeCounted(a, ls, v)
           now == StatesNow(a, ls)
           f == a.stateRange
           g == b.stateRange
<1>1. DOMAIN a = Fields /\ DOMAIN f = Kept
  BY DEF Formed, Shape, AnalysisOK, Kept
<1>2. /\ b.range = RangeWith(a.range, v)
      /\ g = [k \in Kept |-> IF k \in now THEN RangeWith(f[k], v) ELSE f[k]]
  BY <1>1 DEF RangeCounted, Fields
<1>3. b.exact = a.exact /\ b.stateExact = a.stateExact /\ b.metric = a.metric
  BY <1>1, RangeKeeps DEF Fields
<1> HIDE DEF b, now, f
<1>4. /\ RangeOK(b.range) /\ b.range.all.count = a.range.all.count + 1
      /\ a.range.all.count \in Nat
  <2>1. RangeOK(a.range)
    BY DEF ValuesOK
  <2>2. a.range.all.count \in Nat
    BY <2>1 DEF RangeOK, SomeSummary
  <2> QED  BY ZenonT(60), <1>2, <2>1, <2>2, RangeGrows
<1>5. ASSUME NEW k \in Kept
      PROVE  /\ RangeOK(g[k]) /\ f[k].all.count \in Int
             /\ g[k].all.count = IF k \in now THEN f[k].all.count + 1 ELSE f[k].all.count
  <2>1. RangeOK(f[k]) /\ f[k].all.count \in Int
    BY DEF ValuesOK, f, RangeOK, SomeSummary
  <2>2. g[k] = IF k \in now THEN RangeWith(f[k], v) ELSE f[k]
    BY <1>2
  <2> QED  BY <2>1, <2>2, RangeGrows
<1>6. ASSUME NEW ss \in SubSystems PROVE Spread(g, ss) <= b.range.all.count
  <2> DEFINE T == {s \in States : <<ss, s>> \in now}
  <2>1. \A p, q \in T : p = q
    BY OneState DEF now
  <2>2. /\ \A s \in States : f[<<ss, s>>].all.count \in Int
        /\ \A s \in States : g[<<ss, s>>].all.count = IF s \in T THEN f[<<ss, s>>].all.count + 1
                                                      ELSE f[<<ss, s>>].all.count
    BY <1>5 DEF Kept
  <2> HIDE DEF T, g
  <2>3. Spread(f, ss) \in Int /\ Spread(g, ss) \in Int /\ Spread(g, ss) <= Spread(f, ss) + 1
    BY <2>1, <2>2, SpreadGrows
  <2>4. Spread(f, ss) <= a.range.all.count
    BY DEF ValuesOK, f
  <2> QED  BY <1>4, <2>3, <2>4
<1> QED  BY <1>3, <1>4, <1>5, <1>6 DEF ValuesOK, b

LEMMA MetricValued ==
  ASSUME NEW a, Formed(a), ValuesOK(a), NEW v \in Int, NEW info
  PROVE  ValuesOK([a EXCEPT !.metric = MetricWith(@, v, info)])
<1> DEFINE b == [a EXCEPT !.metric = MetricWith(@, v, info)]
<1>1. DOMAIN a = Fields
  BY DEF Formed, Shape
<1>2. /\ b.exact = a.exact /\ b.stateExact = a.stateExact /\ b.range = a.range
      /\ b.stateRange = a.stateRange /\ b.metric.range = RangeWith(a.metric.range, v)
  BY <1>1 DEF Fields, MetricWith
<1> HIDE DEF b
<1>3. RangeOK(b.metric.range)
  BY <1>2, RangeGrows DEF ValuesOK
<1> QED  BY <1>2, <1>3 DEF ValuesOK, b

-----------------------------------------------------------------------------
(* ValuesAreRight: where the bounds of the measures were measured. *)
PerfFields == {"all", "hist", "minInfo", "maxInfo", "minLastOperation", "maxLastOperation"}
PerfShape(p) == DOMAIN p = PerfFields /\ SomeSummary(p.all)

MeasuredOK(a, t) ==
  /\ Recorded(t) /\ MeasuredThere(a, t)
  /\ \A k \in DOMAIN a.perf : PerfShape(a.perf[k])

(* The shortest time of p was measured in place k. *)
ShortestThere(p, k, measured) ==
  p.all.count > 0 => \E s \in Places : <<k[1], s, p.all.min, p.minInfo>> \in measured /\ k[2] \in {s, NoState}

LEMMA MeasuredIs ==
  ASSUME NEW a, NEW t
  PROVE  MeasuredOK(a, t) <=>
           /\ Recorded(t)
           /\ a.metric.range.all.count > 0 =>
                /\ <<a.metric.range.all.min, a.metric.minInfo>> \in t.metric
                /\ <<a.metric.range.all.max, a.metric.maxInfo>> \in t.metric
           /\ \A k \in DOMAIN a.perf : PerfShape(a.perf[k]) /\ ShortestThere(a.perf[k], k, t.perf)
BY DEF MeasuredOK, MeasuredThere, ShortestThere

LEMMA MeasuredSame ==
  ASSUME NEW a, NEW t, MeasuredOK(a, t), NEW b, NEW u, b.metric = a.metric, b.perf = a.perf,
         Recorded(u), u.metric = t.metric, u.perf = t.perf
  PROVE  MeasuredOK(b, u)
BY DEF MeasuredOK, MeasuredThere

LEMMA NothingMeasured == MeasuredOK(NoAnalysis, NothingTold)
<1> DEFINE a == NoAnalysis
           t == NothingTold
<1>1. /\ Recorded(t) /\ a.metric.range.all = Summary
      /\ DOMAIN a.perf = SubSystems \X Places /\ \A k \in DOMAIN a.perf : a.perf[k] = NoPerf
  BY DEF NoAnalysis, NoMetric, NoRange, NothingTold, Recorded
<1> HIDE DEF a, t
<1>2. Summary.count = 0 /\ SomeSummary(Summary)
  BY DEF Summary, SomeSummary
<1>3. PerfShape(NoPerf) /\ NoPerf.all = Summary
  BY <1>2 DEF PerfShape, PerfFields, NoPerf
<1>4. ~(Summary.count > 0)
  BY <1>2
<1> QED  BY <1>1, <1>3, <1>4 DEF MeasuredOK, MeasuredThere, a, t

(* A metric keeps the first machine of a bound. *)
LEMMA MetricMeasured ==
  ASSUME NEW a, DOMAIN a = Fields, SomeSummary(a.metric.range.all), NEW t, MeasuredOK(a, t),
         NEW v \in Int, NEW info
  PROVE  MeasuredOK([a EXCEPT !.metric = MetricWith(@, v, info)], [t EXCEPT !.metric = @ \cup {<<v, info>>}])
<1> DEFINE m == a.metric
           n == MetricWith(m, v, info)
           b == [a EXCEPT !.metric = MetricWith(@, v, info)]
           u == [t EXCEPT !.metric = @ \cup {<<v, info>>}]
           old == m.range.all
           new == n.range.all
           changed == old.count = 0 \/ v < old.min \/ v > old.max
<1>1. /\ b.metric = n /\ b.perf = a.perf
      /\ Recorded(u) /\ u.metric = t.metric \cup {<<v, info>>} /\ u.perf = t.perf
  BY DEF MeasuredOK, Recorded, Fields
<1>2. /\ new = SummaryWith(old, v)
      /\ n.minInfo = (IF changed /\ new.min = v THEN info ELSE m.minInfo)
      /\ n.maxInfo = (IF changed /\ new.max = v THEN info ELSE m.maxInfo)
  BY DEF MetricWith, RangeWith
<1>3. old.count > 0 => <<old.min, m.minInfo>> \in t.metric /\ <<old.max, m.maxInfo>> \in t.metric
  BY DEF MeasuredOK, MeasuredThere
<1>4. SomeSummary(old)
  OBVIOUS
<1> HIDE DEF b, u, n, m, old, new
<1>5. /\ old.count \in Nat /\ old.min \in Int /\ old.max \in Int
      /\ new.min = (IF old.count = 0 THEN v ELSE Least(old.min, v))
      /\ new.max = (IF old.count = 0 THEN v ELSE Greatest(old.max, v))
  BY <1>2, <1>4 DEF SomeSummary, SummaryWith
<1>6. \/ new.min = v /\ n.minInfo = info
      \/ old.count > 0 /\ new.min = old.min /\ n.minInfo = m.minInfo
  BY <1>2, <1>5 DEF Least
<1>7. \/ new.max = v /\ n.maxInfo = info
      \/ old.count > 0 /\ new.max = old.max /\ n.maxInfo = m.maxInfo
  BY <1>2, <1>5 DEF Greatest
<1>8. <<new.min, n.minInfo>> \in u.metric /\ <<new.max, n.maxInfo>> \in u.metric
  BY <1>1, <1>3, <1>6, <1>7
<1>9. b.metric.range.all = new
  BY <1>1 DEF new
<1>10. \A k \in DOMAIN b.perf : PerfShape(b.perf[k]) /\ ShortestThere(b.perf[k], k, u.perf)
  BY <1>1, MeasuredIs
<1>11. MeasuredOK(b, u)
  BY <1>1, <1>8, <1>9, <1>10, MeasuredIs
<1> QED  BY <1>11 DEF b, u

LEMMA PerfWithIs ==
  ASSUME NEW p, PerfShape(p), NEW ms \in Int, NEW info, NEW op, NEW q, q = PerfWith(p, ms, info, op)
  PROVE  /\ PerfShape(q)
         /\ \/ q.all.min = ms /\ q.minInfo = info
            \/ p.all.count > 0 /\ q.all.min = p.all.min /\ q.minInfo = p.minInfo
<1>1. /\ DOMAIN q = PerfFields /\ q.all = SummaryWith(p.all, ms)
      /\ q.minInfo = IF q.all.min = ms THEN info ELSE p.minInfo
  BY DEF PerfWith, PerfFields
<1>2. SomeSummary(p.all)
  BY DEF PerfShape
<1>3. SomeSummary(q.all)
  BY <1>1, <1>2, SummaryTyped
<1>4. /\ p.all.count \in Nat /\ p.all.min \in Int
      /\ q.all.min = IF p.all.count = 0 THEN ms ELSE Least(p.all.min, ms)
  BY <1>1, <1>2 DEF SomeSummary, SummaryWith
<1>5. q.all.min = ms \/ (p.all.count > 0 /\ q.all.min = p.all.min)
  BY <1>4 DEF Least
<1> QED  BY <1>1, <1>3, <1>5 DEF PerfShape

LEMMA PerfMeasured ==
  ASSUME NEW a, Formed(a), NEW t, MeasuredOK(a, t), NEW l \in Doing, NEW ss \in SubSystems,
         NEW ms \in Int, NEW info, NEW u, Recorded(u), u.metric = t.metric,
         u.perf = t.perf \cup {<<ss, l.state, ms, info>>}
  PROVE  MeasuredOK(PerfCounted(a, l, ss, ms, info), u)
<1> DEFINE b == PerfCounted(a, l, ss, ms, info)
           here == {ss} \X {NoState, l.state}
<1>1. DOMAIN a = Fields /\ DOMAIN a.perf = SubSystems \X Places /\ l.state \in Places
  BY DEF Formed, Shape, AnalysisOK, Doing
<1>2. /\ b.metric = a.metric
      /\ b.perf = [k \in DOMAIN a.perf |-> IF k \in here THEN PerfWith(a.perf[k], ms, info, l.op) ELSE a.perf[k]]
  <2>1. b.metric = a.metric
    BY <1>1, PerfKeeps DEF Fields
  <2>2. b.perf = [k \in DOMAIN a.perf |-> IF k \in here THEN PerfWith(a.perf[k], ms, info, l.op) ELSE a.perf[k]]
    BY <1>1 DEF PerfCounted, Fields
  <2> QED  BY <2>1, <2>2
<1> HIDE DEF b, here
<1>3. ASSUME NEW k \in DOMAIN a.perf PROVE PerfShape(b.perf[k]) /\ ShortestThere(b.perf[k], k, u.perf)
  <2> DEFINE p == a.perf[k]
             q == b.perf[k]
  <2>1. PerfShape(p) /\ ShortestThere(p, k, t.perf)
    BY MeasuredIs
  <2>2. q = IF k \in here THEN PerfWith(p, ms, info, l.op) ELSE p
    BY <1>2
  <2> HIDE DEF p, q
  <2>3. ASSUME k \notin here PROVE PerfShape(q) /\ ShortestThere(q, k, u.perf)
    BY <2>1, <2>2, <2>3 DEF ShortestThere
  <2>4. ASSUME k \in here PROVE PerfShape(q) /\ ShortestThere(q, k, u.perf)
    <3>1. k[1] = ss /\ k[2] \in {l.state, NoState}
      BY <2>4 DEF here
    <3>2. /\ PerfShape(q)
          /\ \/ q.all.min = ms /\ q.minInfo = info
             \/ p.all.count > 0 /\ q.all.min = p.all.min /\ q.minInfo = p.minInfo
      BY <2>1, <2>2, <2>4, PerfWithIs
    <3>3. ASSUME q.all.min = ms, q.minInfo = info PROVE ShortestThere(q, k, u.perf)
      <4>1. <<k[1], l.state, q.all.min, q.minInfo>> \in u.perf
        BY <3>1, <3>3
      <4> QED  BY <1>1, <3>1, <4>1 DEF ShortestThere
    <3>4. ASSUME p.all.count > 0, q.all.min = p.all.min, q.minInfo = p.minInfo PROVE ShortestThere(q, k, u.perf)
      BY <2>1, <3>4 DEF ShortestThere
    <3> QED  BY <3>2, <3>3, <3>4
  <2> QED  BY <2>3, <2>4 DEF q
<1>4. MeasuredOK(b, u)
  BY <1>2, <1>3, MeasuredIs
<1> QED  BY <1>4 DEF b

LEMMA LoadedMeasured ==
  ASSUME NEW a, DOMAIN a = Fields, NEW t, MeasuredOK(a, t)
  PROVE  MeasuredOK(Loaded(a), t)
<1> DEFINE b == Loaded(a)
<1>1. b.metric = a.metric /\ b.perf = [k \in DOMAIN a.perf |-> PerfLoaded(a.perf[k])]
  BY DEF Loaded, Fields
<1> HIDE DEF b
<1>2. ASSUME NEW k \in DOMAIN a.perf PROVE PerfShape(b.perf[k]) /\ ShortestThere(b.perf[k], k, t.perf)
  <2>1. PerfShape(a.perf[k]) /\ ShortestThere(a.perf[k], k, t.perf)
    BY MeasuredIs
  <2>2. b.perf[k] = PerfLoaded(a.perf[k])
    BY <1>1
  <2>3. PerfShape(b.perf[k]) /\ b.perf[k].all = a.perf[k].all /\ b.perf[k].minInfo = a.perf[k].minInfo
    BY <2>1, <2>2 DEF PerfShape, PerfFields, PerfLoaded
  <2> QED  BY <2>1, <2>3 DEF ShortestThere
<1>3. MeasuredOK(b, t)
  BY <1>1, <1>2, MeasuredIs
<1> QED  BY <1>3 DEF b

-----------------------------------------------------------------------------
(* The steps. *)
ValuesInv ==
  /\ \A a \in Analyses : ValuesOK(a)
  /\ MeasuredOK(analysis, told)
  /\ file.is = "saved" => MeasuredOK(file.analysis, file.told)

(* What most records leave alone. *)
StaysValued == SameValues(analysis, analysis')
StaysMeasured == analysis'.perf = analysis.perf /\ analysis'.metric = analysis.metric /\ told' = told

LEMMA RecordStays ==
  ASSUME TypeInv, Record
  PROVE  \/ StaysValued /\ StaysMeasured
         \/ \E v \in Samples : ObserveExact(v) /\ StaysMeasured
         \/ \E v \in Samples : ObserveRange(v) /\ StaysMeasured
         \/ \E v \in Samples : PerfMetric(v)
         \/ \E ss \in SubSystems, ms \in Samples : PerfData(ss, ms) /\ StaysValued
<1> DEFINE Stays == StaysValued /\ StaysMeasured
           All == ValueFields \cup {"perf"}
<1>1. DOMAIN analysis = Fields /\ All \subseteq Fields
  BY DEF TypeInv, Shape, Analyses, Fields, ValueFields
<1>2. (\A f \in All : analysis'[f] = analysis[f]) /\ told' = told => Stays
  BY DEF StaysValued, StaysMeasured, SameValues, ValueFields
<1> HIDE DEF Stays
<1>3. ASSUME NEW ss, NEW s, SetState(ss, s) PROVE Stays
  BY <1>1, <1>2, <1>3, StateKeeps DEF SetState, ValueFields
<1>4. ASSUME NEW ss, NEW o, Operation(ss, o) PROVE Stays
  BY <1>1, <1>2, <1>4, OperationKeeps DEF Operation, ValueFields
<1>5. ASSUME NEW ss, NEW level, NEW error, Error(ss, level, error) PROVE Stays
  BY <1>1, <1>2, <1>5, ErrorKeeps DEF Error, ValueFields
<1>6. ASSUME NEW ss, Log(ss) PROVE Stays
  BY <1>1, <1>2, <1>6, LogKeeps DEF Log, ValueFields
<1>7. ASSUME NEW error, Crash(error) PROVE Stays
  BY <1>1, <1>2, <1>7 DEF Crash, ValueFields
<1>8. ObserveString \/ SystemInfo => Stays
  BY <1>1, <1>2 DEF ObserveString, SystemInfo, ValueFields
<1>9. ASSUME NEW v, ObserveExact(v) PROVE StaysMeasured
  BY <1>1, <1>9, ExactKeeps DEF ObserveExact, StaysMeasured, ValueFields
<1>10. ASSUME NEW v, ObserveRange(v) PROVE StaysMeasured
  BY <1>1, <1>10, RangeKeeps DEF ObserveRange, StaysMeasured, ValueFields
<1>11. ASSUME NEW ss, NEW ms, PerfData(ss, ms) PROVE StaysValued
  BY <1>1, <1>11, PerfKeeps DEF PerfData, StaysValued, SameValues, ValueFields
<1> QED  BY <1>3, <1>4, <1>5, <1>6, <1>7, <1>8, <1>9, <1>10, <1>11 DEF Record, Stays

LEMMA ValuesStep ==
  ASSUME TypeInv, ValuesInv, [Next]_vars
  PROVE  \A a \in Analyses' : ValuesOK(a)
<1>1. /\ \A a \in Analyses : Formed(a) /\ ValuesOK(a)
      /\ Formed(analysis) /\ ValuesOK(analysis)
  BY DEF TypeInv, TypeOK, Formed, ValuesInv, Analyses
<1>2. Samples \subseteq Int
  BY AnalyzeAssumption
<1>3. CASE Record
  <2>1. ASSUME StaysValued PROVE ValuesOK(analysis')
    BY <1>1, <2>1, ValuesSame DEF StaysValued
  <2>2. ASSUME NEW v \in Samples, ObserveExact(v) PROVE ValuesOK(analysis')
    BY <1>1, <1>2, <2>2, ExactValued DEF ObserveExact
  <2>3. ASSUME NEW v \in Samples, ObserveRange(v) PROVE ValuesOK(analysis')
    BY <1>1, <1>2, <2>3, RangeValued DEF ObserveRange
  <2>4. ASSUME NEW v \in Samples, PerfMetric(v) PROVE ValuesOK(analysis')
    BY <1>1, <1>2, <2>4, MetricValued DEF PerfMetric
  <2>5. ValuesOK(analysis')
    BY <1>3, <2>1, <2>2, <2>3, <2>4, RecordStays
  <2> QED  BY <1>1, <2>5, FileKept
<1>4. CASE Start
  <2>1. CASE file.is = "saved"
    <3>1. ValuesOK(file.analysis) /\ DOMAIN file.analysis = Fields
      BY <1>1, <2>1 DEF Analyses, Formed, Shape
    <3>2. SameValues(file.analysis, analysis')
      BY <1>4, <2>1, <3>1, LoadedKeeps DEF Start, SameValues, ValueFields, Fields
    <3>3. ValuesOK(analysis')
      BY <3>1, <3>2, ValuesSame
    <3> QED  BY <1>1, <3>3, FileKept
  <2>2. CASE file.is # "saved"
    <3>1. analysis' = analysis
      BY <1>4, <2>2 DEF Start, memory
    <3> QED  BY <1>1, <3>1, FileKept
  <2> QED  BY <2>1, <2>2
<1>5. ASSUME NEW day \in Days, NEW hour \in Hours, NEW m \in Machines, BeginLog(day, hour, m)
      PROVE  ValuesOK(analysis')
  <2>1. SameValues(analysis, analysis')
    BY <1>1, <1>5 DEF BeginLog, SameValues, ValueFields, Formed, Shape, Fields
  <2> QED  BY <1>1, <2>1, ValuesSame
<1>6. CASE Fail \/ Write
  BY <1>1, <1>6, NothingValued, FileKept DEF Fail, Write, Gone
<1>7. CASE EndLog \/ UNCHANGED vars
  BY <1>1, <1>7, FileKept DEF EndLog, vars, memory
<1> QED  BY <1>1, <1>3, <1>4, <1>5, <1>6, <1>7, FileKept DEF Next

LEMMA MeasuredStep ==
  ASSUME TypeInv, ValuesInv, [Next]_vars
  PROVE  /\ MeasuredOK(analysis', told')
         /\ file'.is = "saved" => MeasuredOK(file'.analysis, file'.told)
<1>1. /\ Formed(analysis) /\ MeasuredOK(analysis, told) /\ live \in [SubSystems -> Doing]
      /\ file.is = "saved" => MeasuredOK(file.analysis, file.told) /\ DOMAIN file.analysis = Fields
  BY DEF TypeInv, TypeOK, Formed, Shape, ValuesInv, Analyses, Doing
<1>2. Samples \subseteq Int /\ DOMAIN analysis = Fields /\ SomeSummary(analysis.metric.range.all)
      /\ Recorded(told)
  BY <1>1, AnalyzeAssumption DEF Formed, Shape, AnalysisOK, MeasuredOK
<1>3. file' = file \/ Write
  BY DEF Next, Start, BeginLog, Record, SetState, Operation, Error, Crash, Log, ObserveExact,
    ObserveRange, ObserveString, PerfMetric, PerfData, SystemInfo, ReadingEvent, ReadingValue,
    Reading, EndLog, Fail, vars
<1>4. ASSUME Record PROVE MeasuredOK(analysis', told')
  <2>1. ASSUME StaysMeasured PROVE MeasuredOK(analysis', told')
    BY <1>1, <1>2, <2>1, MeasuredSame DEF StaysMeasured
  <2>2. ASSUME NEW v \in Samples, PerfMetric(v) PROVE MeasuredOK(analysis', told')
    BY <1>1, <1>2, <2>2, MetricMeasured DEF PerfMetric
  <2>3. ASSUME NEW ss \in SubSystems, NEW ms \in Samples, PerfData(ss, ms) PROVE MeasuredOK(analysis', told')
    <3> DEFINE l == live[ss]
    <3>1. /\ analysis' = PerfCounted(analysis, l, ss, ms, hwInfo) /\ l \in Doing /\ ms \in Int
          /\ told' = [told EXCEPT !.perf = @ \cup {<<ss, l.state, ms, hwInfo>>}]
      BY <1>1, <1>2, <2>3 DEF PerfData
    <3> HIDE DEF l
    <3>2. Recorded(told') /\ told'.metric = told.metric /\ told'.perf = told.perf \cup {<<ss, l.state, ms, hwInfo>>}
      BY <1>2, <3>1 DEF Recorded
    <3> QED  BY <1>1, <3>1, <3>2, PerfMeasured
  <2> QED  BY <1>4, <2>1, <2>2, <2>3, RecordStays
<1>5. ASSUME NEW day \in Days, NEW hour \in Hours, NEW m \in Machines, BeginLog(day, hour, m)
      PROVE  MeasuredOK(analysis', told')
  <2>1. /\ analysis'.metric = analysis.metric /\ analysis'.perf = analysis.perf
        /\ Recorded(told') /\ told'.metric = told.metric /\ told'.perf = told.perf
    BY <1>2, <1>5 DEF BeginLog, Recorded, Fields
  <2> QED  BY <1>1, <2>1, MeasuredSame
<1>6. ASSUME Start PROVE MeasuredOK(analysis', told')
  <2>1. CASE file.is = "saved"
    BY <1>1, <1>6, <2>1, LoadedMeasured DEF Start
  <2>2. CASE file.is # "saved"
    BY <1>1, <1>6, <2>2 DEF Start, memory
  <2> QED  BY <2>1, <2>2
<1>7. ASSUME EndLog \/ UNCHANGED vars PROVE MeasuredOK(analysis', told')
  BY <1>1, <1>7 DEF EndLog, vars, memory
<1>8. ASSUME Fail \/ Write PROVE MeasuredOK(analysis', told')
  BY <1>8, NothingMeasured DEF Fail, Write, Gone
<1>9. MeasuredOK(analysis', told')
  BY <1>4, <1>5, <1>6, <1>7, <1>8 DEF Next
<1>10. Write => file' = file \/ file' = Saved(analysis, told) \/ file' = Torn
  BY DEF Write
<1>11. file'.is = "saved" => MeasuredOK(file'.analysis, file'.told)
  BY <1>1, <1>3, <1>10 DEF Saved, Torn
<1> QED  BY <1>9, <1>11

(* ValuesAreRight says nothing of a range that has counted but has no      *)
(* bounds yet, nor that a bucket has a weight, and a bound is only known   *)
(* to be measured there if it was before: so all this is in the invariant. *)
THEOREM ValuesInvariant == Spec => []ValuesInv
<1>1. Init => ValuesInv
  BY NothingValued, NothingMeasured DEF Init, ValuesInv, Absent, Analyses
<1>2. TypeInv /\ ValuesInv /\ [Next]_vars => ValuesInv'
  BY ValuesStep, MeasuredStep DEF ValuesInv
<1> QED  BY <1>1, <1>2, TypeInvariant, PTL DEF Spec

(* The values and buckets of an analysis add up to what was counted, no    *)
(* sub system counts a value for two of its states, and the machines that  *)
(* are shown with the bounds are machines they were measured on.           *)
THEOREM ValuesAlwaysRight == Spec => []ValuesAreRight
<1>1. TypeInv /\ ValuesInv => ValuesAreRight
  <2> SUFFICES ASSUME TypeInv, ValuesInv PROVE ValuesAreRight
    OBVIOUS
  <2>1. ASSUME NEW a \in Analyses PROVE ValuesSound(a)
    BY ValuesOKSound DEF TypeInv, TypeOK, AnalysisOK, ValuesInv, Kept
  <2> QED  BY <2>1 DEF ValuesInv, ValuesAreRight, MeasuredOK
<1> QED  BY <1>1, ValuesInvariant, TypeInvariant, PTL
=============================================================================
