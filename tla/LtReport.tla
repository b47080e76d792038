------------------------------ MODULE LtReport ------------------------------
(***************************************************************************)
(* The report of an analysis: the functions jsonify of                     *)
(* ltanalyze/src/lta_io.h.  A definition is the JSON value of the structure *)
(* whose name it has: an object is a record, an array a sequence in the    *)
(* member "array" of one.                                                  *)
(*                                                                         *)
(* A structure in memory is a place, the names on the way to it, and the   *)
(* number that it has in the innermost container; a literal knows the      *)
(* place that it is from.  Identifiers are these numbers, from 0; counts   *)
(* are two more.                                                           *)
(***************************************************************************)
EXTENDS Integers, Sequences, SequencesExt, FiniteSetsExt, TLC

CONSTANTS
  shape,    \* what the analysis has: text, items, has, kind (see LtLayout)
  version,  \* of the product: [p, V, v]
  Listed,   \* values that a report has at most of one kind; 16
  Buckets   \* of a histogram; 64

-----------------------------------------------------------------------------
(* Places, literals, containers. *)

Root == [at |-> <<>>, n |-> 0]
Of(o, name) == [o EXCEPT !.at = Append(@, name)]
Item(o, i) == [at |-> Append(o.at, ToString(i)), n |-> i - 1]
Items == 1 .. shape.items

Literal(o, is, n) == [is |-> is, at |-> o.at, n |-> n]
Counted(o) == o.n + 2

\* Unsigned numbers of 64 bits are texts in hexadecimal, signed ones in decimal.
Hex(o) == Literal(o, "hex", o.n)
Dec(o) == Literal(o, "dec", o.n)
Num(o) == Literal(o, "int", o.n)
Real(o) == Literal(o, "real", o.n)
Txt(o) == Literal(o, "text", o.n)
Count(o) == Literal(o, "hex", Counted(o))
Constant(n) == Literal(Root, "int", n)
Empty == Literal(Root, "empty", 0)

If(condition, name, value) == IF condition THEN name :> value ELSE <<>>

Array(values) == [array |-> values]
Vector(o, Json(_)) == Array([i \in Items |-> Json(Item(o, i))])
List(o, Index(_), Value(_)) ==
  Array([i \in Items |-> [index |-> Index(Of(Item(o, i), "index")),
                          value |-> Value(Of(Item(o, i), "value"))]])

-----------------------------------------------------------------------------
(* Identifiers and transitions. *)

\* The number of a sub state is one more than that of its state.
StateIdentifier(o) ==
  [state |-> Hex(Of(o, "stateIndex")),
   subState |-> Literal(Of(o, "subStateIndex"), "hex", o.n + 1)]
OperationIdentifier(o) == Hex(Of(o, "operationType"))

TransitionData(o) ==
  [avgDelay |-> Real(Of(o, "avgDelayS")), minDelay |-> Real(Of(o, "minDelay")),
   maxDelay |-> Real(Of(o, "maxDelay")), count |-> Count(Of(o, "count"))]

OperationTransitionData(o) ==
  TransitionData(o) @@ [operations |-> List(Of(o, "operationIndexCount"), Hex, Count)]

Data(o) == [data |-> TransitionData(Of(o, "data"))]

-----------------------------------------------------------------------------
(* Values: the most frequent ones come first, the others are left out. *)

\* An item with its count.
ValueCount(value, count) == [value |-> value, count |-> count]
CountOf(entry) == entry.count.n
S == INSTANCE LtSort
sort_by_value(entries) ==
  LET sorted == S!sort_by_value([i \in DOMAIN entries |->
                  [index |-> entries[i], value |-> CountOf(entries[i])]])
  IN [i \in DOMAIN sorted |-> sorted[i].index]
First(values) == Array(SubSeq(values, 1, Min({Len(values), Listed})))

Total(o) == MapThenSumSet(LAMBDA i : Counted(Item(o, i)), Items)

GlobalValues(o, Json(_)) ==
  LET values == Of(o, "values")
  IN [count |-> Literal(values, "hex", Total(values)),
      values |-> First(sort_by_value(
        [i \in Items |-> ValueCount(Json(Of(Item(values, i), "index")),
                                    Count(Of(Item(values, i), "value")))]))]

Values(o, Json(_)) == GlobalValues(o, Json) @@ Data(o)
Entry(o) == Txt(Of(o, "value"))

\* Values that were there once have their own list, and come in as far as there is room.
GlobalValuesExact(o, Json(_)) ==
  LET multiple == Of(o, "multiple")
      single == Of(o, "single")
      often == [i \in Items |-> ValueCount(Json(Of(Item(multiple, i), "index")),
                                           Count(Of(Item(multiple, i), "value")))]
      once == [i \in Items |-> ValueCount(Json(Item(single, i)), Literal(Item(single, i), "hex", 1))]
      room == Max({0, Listed - Len(often)})
  IN [average |-> Real(Of(o, "average")), min |-> Json(Of(o, "minValue")),
      max |-> Json(Of(o, "maxValue")),
      count |-> Literal(Of(o, "count"), "hex", Total(multiple) + shape.items),
      values |-> First(sort_by_value(often \o SubSeq(once, 1, Min({Len(once), room}))))]

ValuesExact(o, Json(_)) == Data(o) @@ GlobalValuesExact(o, Json)

-----------------------------------------------------------------------------
(* Ranges: a histogram between the least and the largest value. *)

\* The numbers of the items are their values: from 0 to MaxValue.
MaxValue == Max({0, shape.items - 1})
Minimum(o, Json(_)) == [Json(o) EXCEPT !.n = 0]
Maximum(o, Json(_)) == [Json(o) EXCEPT !.n = MaxValue]

\* The first of the boundaries that is not below v; the last bucket has none.
Bucket(v) ==
  Min({j \in 0 .. Buckets - 2 : j * MaxValue >= v * (Buckets - 1)} \cup {Buckets - 1})
InBuckets(values, is) ==
  Literal(values, "hex", MapThenSumSet(LAMBDA i : Counted(Item(values, i)), {i \in Items : is[i]}))

Histogram(values) ==
  Array(IF shape.items <= 1 THEN [i \in Items |-> Count(Of(Item(values, i), "value"))]
        ELSE [j \in 1 .. Buckets |-> InBuckets(values, [i \in Items |-> Bucket(i - 1) = j - 1])])

GlobalValueRange(o, Json(_)) ==
  [average |-> Real(Of(o, "average")), min |-> Minimum(Of(o, "minValue"), Json),
   max |-> Maximum(Of(o, "maxValue"), Json), histogram |-> Histogram(Of(o, "values")),
   count |-> Literal(Of(o, "count"), "hex", Total(Of(o, "values")))]

ValueRange(o, Json(_)) == GlobalValueRange(o, Json) @@ Data(o)

\* The boundaries of x are used for y as well.
Histogram2d(values) ==
  Array(IF shape.items <= 1
        THEN <<Array([i \in Items |-> Count(Of(Item(values, i), "value"))])>>
        ELSE [y \in 1 .. Buckets |-> Array([x \in 1 .. Buckets |->
               InBuckets(values, [i \in Items |-> Bucket(i - 1) = x - 1 /\ Bucket(i - 1) = y - 1])])])

\* The function for lt_value_range_2d is a template whose argument cannot be deduced: the
\* one for its base is called, and the transition data is left out.
ValueRange2d(o) ==
  [averageX |-> Real(Of(o, "averageX")), averageY |-> Real(Of(o, "averageY")),
   minX |-> Minimum(Of(o, "minValueX"), Real), minY |-> Minimum(Of(o, "minValueY"), Real),
   maxX |-> Maximum(Of(o, "maxValueX"), Real), maxY |-> Maximum(Of(o, "maxValueY"), Real),
   count |-> Literal(Of(o, "count"), "hex", Total(Of(o, "values"))),
   histogram |-> Histogram2d(Of(o, "values"))]

-----------------------------------------------------------------------------
(* Profiler data, with the hardware it was measured on. *)

AvgData(o) ==
  [count |-> Count(Of(o, "count")), value |-> Real(Of(o, "value")),
   min |-> Real(Of(o, "minValue")), max |-> Real(Of(o, "maxValue"))]

ShortHwInfo(o) ==
  [cpu |-> Txt(Of(o, "cpuName")), cpuCores |-> Num(Of(o, "cpuCores")),
   freeRam |-> Hex(Of(o, "freeRam")), totalRam |-> Hex(Of(o, "totalRam")),
   gpu |-> Txt(Of(o, "gpuName")), freeVRam |-> Hex(Of(o, "freeVRam")),
   dedicatedVRam |-> Hex(Of(o, "dedicatedVRam")), totalVRam |-> Hex(Of(o, "totalVRam")),
   os |-> Txt(Of(o, "osName")), monitorCount |-> Hex(Of(o, "monitorCount")),
   multiMonitorWidth |-> Num(Of(o, "monitorTotalWidth")),
   multiMonitorHeight |-> Num(Of(o, "monitorTotalHeight")),
   ssdStorageShare |-> Real(Of(o, "ssdStorageShare")), identifier |-> Num(Of(o, "identifier"))]

Infos_MinTwice(o) ==
  [minInfo |-> ShortHwInfo(Of(o, "minInfo")), maxInfo |-> ShortHwInfo(Of(o, "minInfo"))]
Infos(o) == [minInfo |-> ShortHwInfo(Of(o, "minInfo")), maxInfo |-> ShortHwInfo(Of(o, "maxInfo"))]

\* Where there was no operation before, there is an object without members.
LastOperation(o, name, flag) ==
  IF flag \in shape.has THEN OperationIdentifier(Of(o, name)) ELSE Empty

PerfData(o) ==
  Infos(o) @@
  [histogram |-> Array(<<Hex(Of(o, "hist"))>>), timeMs |-> AvgData(Of(o, "timeMs")),
   minLastOperation |-> LastOperation(o, "minLastOperation", "hasMinLastOperation"),
   maxLastOperation |-> LastOperation(o, "maxLastOperation", "hasMaxLastOperation")]

PerfValueRange(o) == ValueRange(o, Real) @@ Infos(o)

-----------------------------------------------------------------------------
(* Errors, warnings and crashes.  Lists of errors have no index. *)

StackTrace(o) ==
  [offset |-> Hex(Of(o, "offset"))]
    @@ If(shape.kind = 0, "module", Txt(Of(o, "moduleName")))
    @@ If(shape.kind = 2 /\ shape.text > 0, "function", Txt(Of(o, "functionName")))
    @@ If(shape.kind = 2 /\ shape.text > 0, "file", Txt(Of(o, "file")))
    @@ If(shape.kind = 2 /\ o.n # 0, "line", Num(Of(o, "line")))
    @@ If("hasDisasm" \in shape.has, "disassembly", Txt(Of(o, "disasm")))

Error(o) ==
  [errorCode |-> Hex(Of(o, "errorCode"))]
    @@ If("hasDescription" \in shape.has, "description", Txt(Of(o, "description")))
    @@ If("hasStackTrace" \in shape.has /\ shape.items > 0, "stackTrace",
          Vector(Of(o, "stackTrace"), StackTrace))

Crash(o) == Error(o) @@ [firstOccurence |-> Txt(Of(o, "firstOccurence"))]

ErrorData(o) == [error |-> Error(Of(o, "error"))] @@ Data(o)
CrashData(o) == [crash |-> Crash(Of(o, "crash"))] @@ Data(o)
OfValues(o, Json(_)) == Array([i \in Items |-> Json(Of(Item(o, i), "value"))])

ErrorIdentifier(o) ==
  [errorIndex |-> Hex(Of(o, "errorIndex"))]
    @@ If("hasStateIndex" \in shape.has, "state", StateIdentifier(Of(o, "state")))

-----------------------------------------------------------------------------
(* States, operations, sub systems. *)

Observed(o) ==
  [observedU64 |-> List(Of(o, "observedU64"), Hex, LAMBDA v : ValuesExact(v, Hex)),
   observedI64 |-> List(Of(o, "observedI64"), Hex, LAMBDA v : ValuesExact(v, Dec)),
   observedString |-> List(Of(o, "observedString"), Hex, LAMBDA v : Values(v, Entry)),
   observedRangeU64 |-> List(Of(o, "observedRangeU64"), Hex, LAMBDA v : ValueRange(v, Hex)),
   observedRangeI64 |-> List(Of(o, "observedRangeI64"), Hex, LAMBDA v : ValueRange(v, Dec)),
   observedRangeF64 |-> List(Of(o, "observedRangeF64"), Hex, LAMBDA v : ValueRange(v, Real)),
   observedRangeF32_2 |-> List(Of(o, "observedRangeF32_2"), Hex, ValueRange2d)]

Timing(o) ==
  TransitionData(Of(o, "data")) @@ [avgStartDelay |-> Real(Of(o, "avgTimeSinceStartS"))]

StateList(o, name) == List(Of(o, name), StateIdentifier, TransitionData)
OperationList(o, name) == List(Of(o, name), OperationIdentifier, TransitionData)
Logs(o, name) == Values(Of(o, name), Entry)

State(o) ==
  Timing(o) @@ Observed(o) @@
  [previousState |-> StateList(o, "previousState"), nextState |-> StateList(o, "nextState"),
   operations |-> List(Of(o, "operations"), OperationIdentifier, OperationTransitionData),
   previousOperation |-> OperationList(o, "previousOperation"),
   stateReach |-> StateList(o, "stateReach"),
   operationReach |-> OperationList(o, "operationReach"),
   profileData |-> Vector(Of(o, "profilerData"), PerfData),
   errors |-> OfValues(Of(o, "errors"), ErrorData),
   warnings |-> OfValues(Of(o, "warnings"), ErrorData), logs |-> Logs(o, "logs")]

Operation(o) ==
  Timing(o) @@
  [operationIndexCount |-> List(Of(o, "operationIndexCount"), Hex, Count),
   parentState |-> StateList(o, "parentState"), nextState |-> StateList(o, "nextState"),
   lastOperation |-> OperationList(o, "lastOperation"),
   nextOperation |-> List(Of(o, "nextOperation"), OperationIdentifier, OperationTransitionData),
   errors |-> List(Of(o, "errors"), ErrorIdentifier, TransitionData),
   warnings |-> List(Of(o, "warnings"), ErrorIdentifier, TransitionData),
   logs |-> Logs(o, "logs")]

SubSystemData(o) ==
  [states |-> List(Of(o, "states"), StateIdentifier, State),
   operations |-> List(Of(o, "operations"), OperationIdentifier, Operation),
   profileData |-> Vector(Of(o, "profilerData"), PerfData),
   noStateErrors |-> OfValues(Of(o, "noStateErrors"), ErrorData),
   noStateWarnings |-> OfValues(Of(o, "noStateWarnings"), ErrorData),
   noStateLogs |-> Logs(o, "noStateLogs")]

-----------------------------------------------------------------------------
(* The hardware of all users, and all of it. *)

Vec2(o) == [x |-> Num(Of(o, "x")), y |-> Num(Of(o, "y"))]

HwInfo(o) ==
  LET Members(fields, Json(_)) == [m \in DOMAIN fields |-> Json(Of(o, fields[m]))]
      Lists(fields, Json(_)) == Members(fields, LAMBDA v : GlobalValues(v, Json))
      Exact(fields, Json(_)) == Members(fields, LAMBDA v : GlobalValuesExact(v, Json))
      Ranges(fields) == Members(fields, LAMBDA v : GlobalValueRange(v, Real))
  IN Lists([cpu |-> "cpuName", os |-> "osName", gpu |-> "gpuName",
            primaryLanguage |-> "langPrimaryName", deviceManufacturer |-> "deviceManufacturerName",
            deviceManufacturerModel |-> "deviceManufacturerModelName"], Entry)
     @@ Lists([gpuVendorId |-> "gpuVendorId", isElevated |-> "elevated",
               isWireless |-> "isWireless"], Num)
     @@ Lists([monitorSize |-> "monitorSize", totalMonitorSize |-> "totalMonitorSize"], Vec2)
     @@ Exact([cpuCores |-> "cpuCores", monitorDpi |-> "monitorDpiAvgXY",
               identifier |-> "identifier"], Num)
     @@ Exact([monitorCount |-> "monitorCount"], Hex)
     @@ Ranges([totalPhysicalRam |-> "ramTotalPhysical", totalVirtualRam |-> "ramTotalVirtual",
                availablePhysicalRam |-> "ramAvailablePhysical",
                availableVirtualRam |-> "ramAvailableVirtual",
                gpuDedicatedVRam |-> "gpuDedicatedVRam", gpuSharedVRam |-> "gpuSharedVRam",
                gpuTotalVRam |-> "gpuTotalVRam", gpuFreeVRam |-> "gpuFreeVRam",
                availableStorage |-> "storageAvailable", totalStorage |-> "storageTotal",
                totalSsdStorage |-> "totalSsdStorage", ssdStorageShare |-> "ssdStorageShare",
                downLinkSpeed |-> "downLinkSpeed", upLinkSpeed |-> "upLinkSpeed"])

Analysis ==
  Observed(Root) @@
  [outputVersion |-> Constant(1), productName |-> Literal(Of(Root, "productName"), "text", version.p),
   majorVersion |-> Literal(Of(Root, "majorVersion"), "hex", version.V),
   minorVersion |-> Literal(Of(Root, "minorVersion"), "hex", version.v),
   subSystems |-> List(Of(Root, "subSystems"), Hex, SubSystemData),
   hwInfo |-> HwInfo(Of(Root, "hwInfo")),
   perfMetrics |-> List(Of(Root, "perfMetrics"), Hex, PerfValueRange),
   crashes |-> OfValues(Of(Root, "crashes"), CrashData),
   firstDayTimestamp |-> Hex(Of(Root, "firstDayTimestamp")),
   days |-> Vector(Of(Root, "days"), Hex), hours |-> Array(<<Hex(Of(Root, "hourHistogram"))>>)]
=============================================================================
