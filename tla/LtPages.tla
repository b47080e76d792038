------------------------------ MODULE LtPages ------------------------------
(***************************************************************************)
(* The pages of ltsrv: SubSystemInfo.cs, StateInfo.cs, OperationInfo.cs,   *)
(* ValueInfo.cs, ValueRangeInfo.cs, PerformanceMetricInfo.cs, and the      *)
(* charts of GraphGen.cs on them.                                          *)
(*                                                                         *)
(* A page is what can be wrong with it: whether it is there at all, whose  *)
(* data it shows, the links with their texts, and the bars and segments    *)
(* with what the longest of them stands for.  A URL is a record of its     *)
(* page and the variables of its query, decoded.                           *)
(***************************************************************************)
EXTENDS Integers, Sequences, SequencesExt, FiniteSetsExt, TLC

CONSTANTS
  analyses,  \* ltsrv._Analysis: reports in memory, by [p, V, v]
  Decoded    \* by product, the name that is read from a URL with its name as it is

R == INSTANCE LtReportReader

-----------------------------------------------------------------------------
(* Parts of a page. *)

Nothing == [ok |-> TRUE, links |-> {}, bars |-> {}]
Failure == [Nothing EXCEPT !.ok = FALSE]
Links(links) == [Nothing EXCEPT !.links = links]
Bars(bars) == [Nothing EXCEPT !.bars = bars]
Bar(part, whole) == [part |-> part, whole |-> whole, rest |-> FALSE]
Link(text, to) == [text |-> text, to |-> to]

Together(parts) ==
  [ok |-> \A p \in parts : p.ok, links |-> UNION {p.links : p \in parts},
   bars |-> UNION {p.bars : p \in parts}]

\* A page with the place of what it is about.
Page(subject, parts) == [subject |-> subject] @@ Together(parts)
NoPage == Page(<<>>, {Failure})

-----------------------------------------------------------------------------
(* Finding things in an analysis: a list with what is found, or without it. *)

Key(index) == IF "subState" \in DOMAIN index THEN <<index.state.n, index.subState.n>> ELSE <<index.n>>
FindItem(list, key) ==
  LET found == SelectSeq(list, LAMBDA x : Key(x.index) = key)
  IN SubSeq(found, 1, Min({Len(found), 1}))

FindSubSystem(a, ss) == FindItem(a.subSystems, <<ss>>)
FindState(a, ss, key) ==
  LET s == FindSubSystem(a, ss) IN IF s = <<>> THEN <<>> ELSE FindItem(s[1].value.states, key)
FindOperation(a, ss, key) ==
  LET s == FindSubSystem(a, ss) IN IF s = <<>> THEN <<>> ELSE FindItem(s[1].value.operations, key)

Version(a) == <<a.productName.n, a.majorVersion.n, a.minorVersion.n>>
\* The place of an element of a list, with the version that it is of.
Place(a, x) ==
  LET at == IF "subState" \in DOMAIN x.index THEN x.index.state.at ELSE x.index.at
  IN Version(a) \o SubSeq(at, 1, Max({i \in DOMAIN at : at[i] = "index"}) - 1)

\* What is shown of the element that was found, if there is one.
Shows(a, found, Parts(_)) ==
  IF found = <<>> THEN NoPage ELSE Page(Place(a, found[1]), Parts(found[1].value))

-----------------------------------------------------------------------------
(* GraphGen: links to states and operations. *)

Query(a) == [p |-> a.productName.n, V |-> a.majorVersion.n, v |-> a.minorVersion.n]
OperationLink(k, ss, key) == [page |-> "op", ss |-> ss, id |-> key[1]] @@ k
StateLink(k, ss, key) == [page |-> "state", ss |-> ss, id |-> key[1], sid |-> key[2]] @@ k
GetLink(a, ss, key) ==
  IF Len(key) = 2 THEN StateLink(Query(a), ss, key) ELSE OperationLink(Query(a), ss, key)

NameOf(ss, key) == [of |-> IF Len(key) = 2 THEN "state" ELSE "op", ss |-> ss, key |-> key]
GetElementName(a, ss, index) == Link(NameOf(ss, Key(index)), GetLink(a, ss, Key(index)))
GetElementBlob(a, ss, index) == Link(NameOf(ss, Key(index)), OperationLink(Query(a), ss, Key(index)))
ElementNames(a, ss, list) == Links({GetElementName(a, ss, list[i].index) : i \in DOMAIN list})

-----------------------------------------------------------------------------
(* GraphGen: charts. *)

Sum(numbers) == FoldLeft(+, 0, numbers)
Largest(numbers) == Max({0} \cup ToSet(numbers))
\* Every bar is as long as its share of the whole.
BarsOf(numbers, whole) == Bars({Bar(numbers[i], whole) : i \in DOMAIN numbers})
Histogram(numbers) == BarsOf(numbers, Largest(numbers))

Number(literals) == [i \in DOMAIN literals |-> literals[i].n]
Counts(list) == [i \in DOMAIN list |-> list[i].value.count.n]
DataCounts(list) == [i \in DOMAIN list |-> list[i].data.count.n]

PieOf(numbers) == BarsOf(numbers, Sum(numbers))
IndexPie(list) == PieOf([i \in DOMAIN list |-> list[i].value.n])
ToLineGraph(list) == IndexPie(list)
TransitionPie(a, ss, list) == Together({PieOf(Counts(list)), ElementNames(a, ss, list)})
OperationPie(a, ss, list) ==
  Together({TransitionPie(a, ss, list)} \cup {ToLineGraph(list[i].value.operations) : i \in DOMAIN list})

\* What is left of the count is given 1 minus the percents before it.
Other(offsetCount, count) ==
  IF offsetCount >= count THEN Nothing
  ELSE Bars({[Bar(count - 100 * offsetCount, 100 * count) EXCEPT !.rest = TRUE]})

\* The values that are listed, each and together, and the others.
ValuePie(values, count) ==
  LET numbers == [i \in DOMAIN values |-> values[i].count.n]
      offsetCount == Sum(numbers)
  IN IF values = <<>> THEN Nothing
     ELSE Together({BarsOf(numbers, count.n), Bars({Bar(offsetCount, count.n)}),
                    Other(offsetCount, count.n)})
GlobalPie(data) == IF data.count.n = 0 THEN Nothing ELSE ValuePie(data.values, data.count)

\* The first is taken for the most frequent.
ToBarGraph(a, ss, list) ==
  IF list = <<>> THEN Nothing
  ELSE Together({BarsOf(Counts(list), list[1].value.count.n), ElementNames(a, ss, list)})

ProfileChart(a, ss, list) ==
  LET Blobs(x) == {o \in {x.minLastOperation, x.maxLastOperation} : R!HasValue(o)}
  IN Together({Histogram(Number(list[i].histogram)) : i \in DOMAIN list}
       \cup {Links({GetElementBlob(a, ss, o) : o \in Blobs(list[i])}) : i \in DOMAIN list})

RangeChart(data) ==
  IF data.count.n = 0 \/ Len(data.histogram) <= 1 THEN Nothing ELSE Histogram(Number(data.histogram))

\* Where it is not as high as it is wide the page says so instead.
To2DHistogramChart(data) ==
  LET h == data.histogram
      rows == [i \in DOMAIN h |-> Number(h[i])]
  IN IF data.count.n = 0 \/ Len(h) <= 1 THEN Nothing
     ELSE IF \E i \in DOMAIN h : Len(h[i]) # Len(h) THEN Failure
     ELSE Histogram(FlattenSeq(rows))

ToErrorChart(list) == Histogram(DataCounts(list))

\* The errors of an operation are numbers of those of its state, or of its sub system.
ErrorsOf(a, ss, list, isErrorNotWarningsList) ==
  LET subSys == FindSubSystem(a, ss)
      InState(index) ==
        LET s == FindItem(subSys[1].value.states, Key(index.state))
        IN IF s = <<>> THEN <<>>
           ELSE IF isErrorNotWarningsList THEN s[1].value.errors ELSE s[1].value.warnings
      Candidates(index) ==
        IF R!HasValue(index.state) THEN InState(index)
        ELSE IF isErrorNotWarningsList THEN subSys[1].value.noStateErrors
        ELSE subSys[1].value.noStateWarnings
  IN IF list = <<>> THEN Nothing
     ELSE IF \E i \in DOMAIN list :
               list[i].index.errorIndex.n >= Len(Candidates(list[i].index)) THEN Failure
     ELSE Histogram(Counts(list))

-----------------------------------------------------------------------------
(* SubSystemInfo: the way to an analysis.  Where there is only one version the page refers *)
(* to it at once.                                                                          *)

Products == {k.p : k \in DOMAIN analyses}
Majors(p) == {k.V : k \in {j \in DOMAIN analyses : j.p = p}}
Minors(p, V) == {k.v : k \in {j \in DOMAIN analyses : j.p = p /\ j.V = V}}

Products_ == Link([of |-> "products"], [page |-> "subsystem"])
Product(p) == Link([of |-> "product", p |-> p], [page |-> "subsystem", p |-> p])
Major(p, V) == Link([of |-> "major", p |-> p, V |-> V], [page |-> "subsystem", p |-> p, V |-> V])
Minor(k) == Link([of |-> "minor"] @@ k, [page |-> "subsystem"] @@ k)
SubSystemLink(k, ss) == Link([of |-> "subsystem", ss |-> ss], [page |-> "subsystem", ss |-> ss] @@ k)

\* Only in the list of the products, the name of one is not encoded.
NotEncoded(p) ==
  Link([of |-> "product", p |-> p], [page |-> "subsystem", p |-> Decoded[p]])

ShowProjects == Page(<<>>, {Links({NotEncoded(p) : p \in Products})})
ShowMajorVersions(p) ==
  IF p \notin Products THEN NoPage
  ELSE Page(<<p>>, {Links({Products_} \cup {Major(p, V) : V \in Majors(p)})})
ShowMinorVersions(p, V) ==
  IF V \notin Majors(p) THEN NoPage
  ELSE Page(<<p, V>>,
            {Links({Products_, Product(p)} \cup {Minor([p |-> p, V |-> V, v |-> v]) : v \in Minors(p, V)})})

Crumbs(k) == {Products_, Product(k.p), Major(k.p, k.V)}

-----------------------------------------------------------------------------
(* SubSystemInfo: an analysis, a sub system. *)

ValueMembers == [u64 |-> "observedU64", i64 |-> "observedI64", string |-> "observedString"]
RangeMembers ==
  [u64 |-> "observedRangeU64", i64 |-> "observedRangeI64", f64 |-> "observedRangeF64",
   f32_2 |-> "observedRangeF32_2"]

\* Links to the values of an analysis or of a state; the variables say of which state.
ValueLinks(o, query) ==
  LET Of(page, members) ==
        UNION {{Link([of |-> members[t], id |-> o[members[t]][i].index.n],
                     [page |-> page, t |-> t, id |-> o[members[t]][i].index.n] @@ query)
                : i \in DOMAIN o[members[t]]} : t \in DOMAIN members}
  IN Links(Of("value", ValueMembers) \cup Of("range", RangeMembers))

MetricLinks(a, k) ==
  Links({Link([of |-> "perfMetrics", id |-> a.perfMetrics[i].index.n],
              [page |-> "perfmet", id |-> a.perfMetrics[i].index.n] @@ k) : i \in DOMAIN a.perfMetrics})

PieMembers ==
  {"cpu", "cpuCores", "os", "gpu", "gpuVendorId", "primaryLanguage", "isElevated", "monitorCount",
   "monitorSize", "totalMonitorSize", "monitorDpi", "deviceManufacturer",
   "deviceManufacturerModel", "isWireless", "identifier"}
RangeOfMembers ==
  {"totalPhysicalRam", "availablePhysicalRam", "totalVirtualRam", "availableVirtualRam",
   "gpuDedicatedVRam", "gpuSharedVRam", "gpuTotalVRam", "gpuFreeVRam", "availableStorage",
   "totalStorage", "totalSsdStorage", "ssdStorageShare", "downLinkSpeed", "upLinkSpeed"}

ShowSubSystems(k) ==
  IF k \notin DOMAIN analyses THEN NoPage
  ELSE LET a == analyses[k]
       IN Page(Version(a),
               {Links(Crumbs(k)), Histogram(Number(a.days)), Histogram(Number(a.hours)),
                Links({SubSystemLink(k, a.subSystems[i].index.n) : i \in DOMAIN a.subSystems}),
                ToErrorChart(a.crashes), ValueLinks(a, k), MetricLinks(a, k)}
               \cup {GlobalPie(a.hwInfo[m]) : m \in PieMembers}
               \cup {RangeChart(a.hwInfo[m]) : m \in RangeOfMembers})

\* The states come twice: in their order, and by the operations in them.
StatesByOperations(states) ==
  LET operations == [i \in DOMAIN states |-> Sum(Counts(states[i].value.operations))]
  IN BarsOf(operations, Max({1, Largest(operations)}))

ShowContents(k, ss) ==
  IF k \notin DOMAIN analyses THEN NoPage
  ELSE LET a == analyses[k]
       IN Shows(a, FindSubSystem(a, ss), LAMBDA s :
            {Links(Crumbs(k) \cup {Minor(k)}), ToErrorChart(s.noStateErrors),
             Links({Link(NameOf(ss, Key(s.states[i].index)), StateLink(k, ss, Key(s.states[i].index)))
                    : i \in DOMAIN s.states}),
             Links({Link(NameOf(ss, Key(s.operations[i].index)),
                         OperationLink(k, ss, Key(s.operations[i].index)))
                    : i \in DOMAIN s.operations}),
             ToErrorChart(s.noStateWarnings), ValuePie(s.noStateLogs.values, s.noStateLogs.count),
             ProfileChart(a, ss, s.profileData), StatesByOperations(s.states)})

-----------------------------------------------------------------------------
(* StateInfo, OperationInfo, PerformanceMetricInfo. *)

\* How often a state was entered from another one, or left for it, of all times that the
\* other one was left, or entered; neither where the other one is not there.
GetUsageInfo(a, ss, other, self, member) ==
  LET s == FindState(a, ss, other)
      list == IF s = <<>> THEN <<>> ELSE s[1].value[member]
  IN [share |-> Sum(Counts(FindItem(list, self))), total |-> Sum(Counts(list))]

Overview(a, ss, self, list, member) ==
  LET usage == [i \in DOMAIN list |-> GetUsageInfo(a, ss, Key(list[i].index), self, member)]
      totals == [i \in DOMAIN list |-> usage[i].total]
  IN Together({ElementNames(a, ss, list), BarsOf(totals, Max({1, Largest(totals)})),
               Histogram(Counts(list)),
               Bars({Bar(usage[i].share, usage[i].total) : i \in DOMAIN list})})

ShowState(k, ss, key) ==
  IF k \notin DOMAIN analyses THEN NoPage
  ELSE LET a == analyses[k]
       IN Shows(a, FindState(a, ss, key), LAMBDA s :
            {Links(Crumbs(k) \cup {Minor(k), SubSystemLink(k, ss)}),
             TransitionPie(a, ss, s.nextState), TransitionPie(a, ss, s.previousState),
             OperationPie(a, ss, s.operations), TransitionPie(a, ss, s.previousOperation),
             ProfileChart(a, ss, s.profileData), ToErrorChart(s.errors), ToErrorChart(s.warnings),
             ValuePie(s.logs.values, s.logs.count),
             ValueLinks(s, [ss |-> ss, sid |-> key[1], ssid |-> key[2]] @@ k),
             ToBarGraph(a, ss, s.stateReach), ToBarGraph(a, ss, s.operationReach),
             Overview(a, ss, key, s.previousState, "nextState"),
             Overview(a, ss, key, s.nextState, "previousState")})

ShowOperation(k, ss, id) ==
  IF k \notin DOMAIN analyses THEN NoPage
  ELSE LET a == analyses[k]
       IN Shows(a, FindOperation(a, ss, <<id>>), LAMBDA o :
            {Links(Crumbs(k) \cup {Minor(k), SubSystemLink(k, ss)}),
             IndexPie(o.operationIndexCount), OperationPie(a, ss, o.nextOperation),
             TransitionPie(a, ss, o.parentState), TransitionPie(a, ss, o.nextState),
             TransitionPie(a, ss, o.lastOperation), ErrorsOf(a, ss, o.errors, TRUE),
             ErrorsOf(a, ss, o.warnings, FALSE), ValuePie(o.logs.values, o.logs.count)})

ShowMetric(k, id) ==
  IF k \notin DOMAIN analyses THEN NoPage
  ELSE LET a == analyses[k]
       IN Shows(a, FindItem(a.perfMetrics, <<id>>), LAMBDA s :
            {Links(Crumbs(k) \cup {Minor(k)}), RangeChart(s)})

-----------------------------------------------------------------------------
(* ValueInfo, ValueRangeInfo. *)

ShowValues(data) == ValuePie(data.values, data.count)
ShowRange(data, t) == IF t = "f32_2" THEN To2DHistogramChart(data) ELSE RangeChart(data)

ShowValue(k, member, id, Chart(_)) ==
  IF k \notin DOMAIN analyses THEN NoPage
  ELSE LET a == analyses[k]
       IN Shows(a, FindItem(a[member], <<id>>), LAMBDA x : {Links(Crumbs(k) \cup {Minor(k)}), Chart(x)})

StateCrumbs(k, ss, key) ==
  Crumbs(k) \cup {Minor(k), SubSystemLink(k, ss), Link(NameOf(ss, key), StateLink(k, ss, key))}

\* The sub system is looked for by the number of the sub state.
ShowValueOfState(k, ss, key, member, id, Chart(_)) ==
  IF k \notin DOMAIN analyses THEN NoPage
  ELSE LET a == analyses[k]
           s == FindState(a, key[2], key)
           found == IF s = <<>> THEN <<>> ELSE FindItem(s[1].value[member], <<id>>)
       IN Shows(a, found, LAMBDA x : {Links(StateCrumbs(k, ss, key)), Chart(x)})

\* The ranges of floating point numbers are those of the analysis, for a state as well.
ShowRangeOfState(k, ss, key, t, id) ==
  IF t # "f64" THEN ShowValueOfState(k, ss, key, RangeMembers[t], id, LAMBDA x : ShowRange(x, t))
  ELSE IF k \notin DOMAIN analyses THEN NoPage
  ELSE LET a == analyses[k]
       IN Shows(a, FindItem(a.observedRangeF64, <<id>>),
                LAMBDA x : {Links(StateCrumbs(k, ss, key)), ShowRange(x, t)})

-----------------------------------------------------------------------------
(* The page of a URL: without the variables that it needs it is the menu. *)

With(url, names) == names \subseteq DOMAIN url
KeyOf(url) == [p |-> url.p, V |-> url.V, v |-> url.v]

GetMenu(url) ==
  CASE ~With(url, {"p"}) -> ShowProjects
    [] With(url, {"p"}) /\ ~With(url, {"V"}) -> ShowMajorVersions(url.p)
    [] With(url, {"p", "V"}) /\ ~With(url, {"v"}) -> ShowMinorVersions(url.p, url.V)
    [] With(url, {"p", "V", "v"}) /\ ~With(url, {"ss"}) -> ShowSubSystems(KeyOf(url))
    [] OTHER -> ShowContents(KeyOf(url), url.ss)

StatePage(url) ==
  IF ~With(url, {"p", "V", "v", "ss", "id", "sid"}) THEN GetMenu(url)
  ELSE ShowState(KeyOf(url), url.ss, <<url.id, url.sid>>)
OperationPage(url) ==
  IF ~With(url, {"p", "V", "v", "ss", "id"}) THEN GetMenu(url)
  ELSE ShowOperation(KeyOf(url), url.ss, url.id)
MetricPage(url) ==
  IF ~With(url, {"p", "V", "v", "id"}) THEN GetMenu(url) ELSE ShowMetric(KeyOf(url), url.id)

OfState(url) == With(url, {"ss", "sid", "ssid"})
ValuePage(url) ==
  IF ~With(url, {"p", "V", "v", "t", "id"}) \/ url.t \notin DOMAIN ValueMembers THEN GetMenu(url)
  ELSE IF OfState(url) THEN ShowValueOfState(KeyOf(url), url.ss, <<url.sid, url.ssid>>,
                                             ValueMembers[url.t], url.id, ShowValues)
  ELSE ShowValue(KeyOf(url), ValueMembers[url.t], url.id, ShowValues)
RangePage(url) ==
  IF ~With(url, {"p", "V", "v", "t", "id"}) \/ url.t \notin DOMAIN RangeMembers THEN GetMenu(url)
  ELSE IF OfState(url) THEN ShowRangeOfState(KeyOf(url), url.ss, <<url.sid, url.ssid>>, url.t, url.id)
  ELSE ShowValue(KeyOf(url), RangeMembers[url.t], url.id, LAMBDA x : ShowRange(x, url.t))

GetElement(url) ==
  CASE url.page = "subsystem" -> GetMenu(url)
    [] url.page = "state" -> StatePage(url)
    [] url.page = "op" -> OperationPage(url)
    [] url.page = "value" -> ValuePage(url)
    [] url.page = "range" -> RangePage(url)
    [] url.page = "perfmet" -> MetricPage(url)
=============================================================================
