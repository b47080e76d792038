------------------------- MODULE LtAnalysisWriter -------------------------
(***************************************************************************)
(* How an analysis is written to its file: the functions serialize of      *)
(* ltanalyze/src/lta_io.h.  A definition is the layout of the structure    *)
(* whose name it has, the parts in the order in which they are written.    *)
(***************************************************************************)
EXTENDS LtLayout

-----------------------------------------------------------------------------
(* Containers: the count, the size and then the items; a list is of pairs. *)

Vector(name, item) == Table(name, item)
List(name, index, value) == Table(name, Within("index", index) \o Within("value", value))

U8 == Value(1, "u8")
U32 == Value(4, "u32")
U64 == Value(8, "u64")
Entry == Text("value")
Vec2(w) == Values(w, <<"x", "y">>)

StateIdentifier == Values(8, <<"stateIndex", "subStateIndex">>)
OperationIdentifier == Value(8, "operationType")
TransitionData == Values(8, <<"avgDelayS", "count", "minDelay", "maxDelay">>)
OperationTransitionData == TransitionData \o List("operationIndexCount", U64, U64)
Data == Within("data", TransitionData)

-----------------------------------------------------------------------------
(* Values, exact or in ranges, of numbers of w bytes. *)

GlobalValues(item) == List("values", item, U64)
GlobalTexts(name) == Within(name, GlobalValues(Entry))
Texts == GlobalValues(Entry) \o Data

GlobalValuesExact(w) ==
  Value(8, "average") \o Values(w, <<"minValue", "maxValue">>) \o Value(8, "count")
    \o Vector("single", Value(w, "number")) \o List("multiple", Value(w, "number"), U64)

ValuesExact(w) ==
  Value(8, "average") \o Values(w, <<"minValue", "maxValue">>) \o Value(8, "count")
    \o Vector("single", Value(w, "number")) \o List("multiple", Value(w, "number"), U64) \o Data

GlobalValueRange ==
  Values(8, <<"average", "minValue", "maxValue", "count">>) \o List("values", U64, U64)
ValueRange == GlobalValueRange \o Data

GlobalValueRange2d ==
  Values(4, <<"averageX", "averageY", "minValueX", "minValueY", "maxValueX", "maxValueY">>)
    \o Value(8, "count") \o List("values", Vec2(4), U64)
ValueRange2d == GlobalValueRange2d \o Data

-----------------------------------------------------------------------------
(* Profiler data, with the hardware it was measured on. *)

AvgData == Values(8, <<"count", "value", "minValue", "maxValue">>)

ShortHwInfo ==
  Text("cpuName") \o Value(4, "cpuCores") \o Values(8, <<"freeRam", "totalRam">>)
    \o Text("gpuName") \o Values(8, <<"freeVRam", "dedicatedVRam", "totalVRam">>)
    \o Text("osName") \o Value(8, "monitorCount")
    \o Values(4, <<"monitorTotalWidth", "monitorTotalHeight", "ssdStorageShare", "identifier">>)

PerfData ==
  Value(36 * 8, "hist") \o Within("timeMs", AvgData)
    \o Within("minInfo", ShortHwInfo) \o Within("minInfo", ShortHwInfo)
    \o If("hasMinLastOperation", Within("minLastOperation", OperationIdentifier))
    \o If("hasMaxLastOperation", Within("maxLastOperation", OperationIdentifier))

PerfValueRange ==
  ValueRange \o Within("minInfo", ShortHwInfo) \o Within("maxInfo", ShortHwInfo)

-----------------------------------------------------------------------------
(* Errors, warnings and crashes. *)

StackTrace ==
  Kind(Value(8, "offset"),
       0 :> Text("moduleName") @@ 1 :> <<>>
         @@ 2 :> Text("functionName") \o Text("file") \o Value(4, "line"))
    \o If("hasDisasm", Text("disasm"))

Error ==
  Value(8, "errorCode") \o If("hasDescription", Text("description"))
    \o If("hasStackTrace", Value(4, "stackTraceHash") \o Vector("stackTrace", StackTrace))

Crash == Error \o Text("firstOccurence")
ErrorData == Within("error", Error) \o Data
CrashData == Within("crash", Crash) \o Data
ErrorIdentifier == Value(8, "errorIndex") \o If("hasStateIndex", Within("state", StateIdentifier))

-----------------------------------------------------------------------------
(* What was observed, by state and for all; states, operations, sub systems. *)

Observed ==
  List("observedU64", U64, ValuesExact(8)) \o List("observedI64", U64, ValuesExact(8))
    \o List("observedString", U64, Texts)

ObservedRanges ==
  List("observedRangeU64", U64, ValueRange) \o List("observedRangeI64", U64, ValueRange)
    \o List("observedRangeF64", U64, ValueRange) \o List("observedRangeF32_2", U64, ValueRange2d)

State ==
  Data \o Value(8, "avgTimeSinceStartS")
    \o List("previousState", StateIdentifier, TransitionData)
    \o List("nextState", StateIdentifier, TransitionData)
    \o List("operations", OperationIdentifier, OperationTransitionData)
    \o List("previousOperation", OperationIdentifier, TransitionData)
    \o List("stateReach", StateIdentifier, TransitionData)
    \o List("operationReach", OperationIdentifier, TransitionData)
    \o Vector("profilerData", PerfData)
    \o List("errors", U64, ErrorData) \o List("warnings", U64, ErrorData)
    \o Within("logs", Texts) \o Observed \o ObservedRanges

Operation ==
  Data \o Value(8, "avgTimeSinceStartS") \o List("operationIndexCount", U64, U64)
    \o List("parentState", StateIdentifier, TransitionData)
    \o List("nextState", StateIdentifier, TransitionData)
    \o List("lastOperation", OperationIdentifier, TransitionData)
    \o List("nextOperation", OperationIdentifier, OperationTransitionData)
    \o List("errors", ErrorIdentifier, TransitionData)
    \o List("warnings", ErrorIdentifier, TransitionData) \o Within("logs", Texts)

SubSystemData ==
  List("states", StateIdentifier, State) \o List("operations", OperationIdentifier, Operation)
    \o Vector("profilerData", PerfData)
    \o List("noStateErrors", U64, ErrorData) \o List("noStateWarnings", U64, ErrorData)
    \o Within("noStateLogs", Texts)

-----------------------------------------------------------------------------
Ranges(names) == FlattenSeq([i \in 1 .. Len(names) |-> Within(names[i], GlobalValueRange)])

HwInfo ==
  GlobalTexts("cpuName") \o Within("cpuCores", GlobalValuesExact(4))
    \o Ranges(<<"ramTotalPhysical", "ramTotalVirtual", "ramAvailablePhysical",
                "ramAvailableVirtual">>)
    \o GlobalTexts("osName")
    \o Ranges(<<"gpuDedicatedVRam", "gpuSharedVRam", "gpuTotalVRam", "gpuFreeVRam">>)
    \o Within("gpuVendorId", GlobalValues(U32)) \o GlobalTexts("gpuName")
    \o GlobalTexts("langPrimaryName") \o Within("elevated", GlobalValues(U8))
    \o Within("monitorCount", GlobalValuesExact(8))
    \o Within("monitorSize", GlobalValues(Vec2(4)))
    \o Within("totalMonitorSize", GlobalValues(Vec2(4)))
    \o Within("monitorDpiAvgXY", GlobalValuesExact(4))
    \o Ranges(<<"storageAvailable", "storageTotal">>)
    \o GlobalTexts("deviceManufacturerName") \o GlobalTexts("deviceManufacturerModelName")
    \o Ranges(<<"totalSsdStorage", "ssdStorageShare", "downLinkSpeed", "upLinkSpeed">>)
    \o Within("isWireless", GlobalValues(U8)) \o Within("identifier", GlobalValuesExact(4))

Analysis ==
  Tag(4, 11) \o Values(8, <<"majorVersion", "minorVersion">>) \o Text("productName")
    \o List("subSystems", U64, SubSystemData)
    \o Observed \o Within("hwInfo", HwInfo) \o ObservedRanges
    \o List("perfMetrics", U64, PerfValueRange) \o List("crashes", U64, CrashData)
    \o Value(8, "firstDayTimestamp") \o Vector("days", U64) \o Value(24 * 8, "hourHistogram")
===========================================================================
