--------------------------- MODULE LtReportReader ---------------------------
(***************************************************************************)
(* The report as ltsrv has it: the classes of ltsrv/src/ltsrv.cs, which    *)
(* Newtonsoft.Json fills from the members of the same names, and the order *)
(* that Analysis.Sort gives to their lists.                                *)
(*                                                                         *)
(* A type says what a value is converted to.  Members that the JSON object *)
(* does not have keep their default, those that the class does not have    *)
(* are passed over, and one value that cannot be converted is an exception *)
(* for the report as a whole.                                              *)
(***************************************************************************)
EXTENDS Integers, Sequences, SequencesExt, TLC

-----------------------------------------------------------------------------
(* Types, and what they are made from. *)

Plain(type) == [type |-> type]
Class(members) == [type |-> "class", members |-> members]
List(type) == [type |-> "list", of |-> type]
Nullable(type) == [type |-> "nullable", of |-> type]

U64 == Plain("uint64_t")
I64 == Plain("int64_t")
UInt == Plain("uint")
Double == Plain("double")
String == Plain("string")
Bool == Plain("bool")

\* Literals of JSON that each of them is made from: by an operator of ours, or by Newtonsoft.
Accepted ==
  [uint64_t |-> {"hex", "int", "empty"}, int64_t |-> {"hex", "dec", "int", "empty"},
   uint |-> {"int"}, double |-> {"real", "int"}, string |-> {"text", "hex", "dec", "int"},
   bool |-> {"int"}]

\* No object and no number; an object without members is a number that is 0.
Unset == [is |-> "unset", at |-> <<>>, n |-> 0]
IsLiteral(json) == "is" \in DOMAIN json
HasValue(x) == x # Unset

\* Nothing here tells a list that is missing from an empty one.
Default(type) == IF type.type = "list" THEN <<>> ELSE Unset

RECURSIVE Converts(_, _), Converted(_, _)
Converts(type, json) ==
  CASE type.type = "class" ->
         /\ ~IsLiteral(json) /\ "array" \notin DOMAIN json
         /\ \A m \in DOMAIN type.members \cap DOMAIN json : Converts(type.members[m], json[m])
    [] type.type = "list" ->
         /\ "array" \in DOMAIN json
         /\ \A i \in DOMAIN json.array : Converts(type.of, json.array[i])
    [] type.type = "nullable" -> Converts(type.of, json)
    [] OTHER -> IsLiteral(json) /\ json.is \in Accepted[type.type]

Converted(type, json) ==
  CASE type.type = "class" ->
         [m \in DOMAIN type.members |->
            IF m \in DOMAIN json THEN Converted(type.members[m], json[m])
            ELSE Default(type.members[m])]
    [] type.type = "list" -> [i \in DOMAIN json.array |-> Converted(type.of, json.array[i])]
    [] type.type = "nullable" -> Converted(type.of, json)
    [] OTHER -> json

-----------------------------------------------------------------------------
(* The classes. *)

Ref(index, value) == Class([index |-> index, value |-> value])
Refs(value) == List(Ref(U64, value))
StateId == Class([state |-> U64, subState |-> U64])
ErrorId == Class([errorIndex |-> U64, state |-> Nullable(StateId)])

TransitionMembers == [avgDelay |-> Double, maxDelay |-> Double, minDelay |-> Double, count |-> U64]
TransitionData == Class(TransitionMembers)
OperationTransitionData == Class(TransitionMembers @@ [operations |-> Refs(U64)])
WithDelay == TransitionMembers @@ [avgStartDelay |-> Double]

Averaged(T) == [average |-> Double, min |-> T, max |-> T]
WithData == [data |-> TransitionData]
ExactMembers(T) ==
  [count |-> U64, values |-> List(Class([value |-> T, count |-> U64]))]
GlobalExactValueData(T) == Class(ExactMembers(T))
GlobalExactValueDataWithAverage(T) == Class(ExactMembers(T) @@ Averaged(T))
ExactValueData(T) == Class(ExactMembers(T) @@ WithData)
ExactValueDataWithAverage(T) == Class(ExactMembers(T) @@ WithData @@ Averaged(T))

RangeMembers(T) == Averaged(T) @@ [count |-> U64, histogram |-> List(U64)]
GlobalValueRange(T) == Class(RangeMembers(T))
ValueRange(T) == Class(RangeMembers(T) @@ WithData)
ValueRange2D ==
  Class([averageX |-> Double, averageY |-> Double, minX |-> Double, minY |-> Double,
         maxX |-> Double, maxY |-> Double, count |-> U64, histogram |-> List(List(U64))]
        @@ WithData)

HardwareInfoShort ==
  Class([cpu |-> String, cpuCores |-> UInt, freeRam |-> U64, totalRam |-> U64, gpu |-> String,
         freeVRam |-> U64, dedicatedVRam |-> U64, totalVRam |-> U64, os |-> String,
         monitorCount |-> U64, multiMonitorWidth |-> U64, multiMonitorHeight |-> U64,
         ssdStorageShare |-> Double, identifier |-> UInt])
Infos == [minInfo |-> HardwareInfoShort, maxInfo |-> HardwareInfoShort]
PerfValueRange(T) == Class(RangeMembers(T) @@ WithData @@ Infos)
AvgValue(T) == Class([count |-> U64, value |-> Double, min |-> T, max |-> T])
ProfileData ==
  Class(Infos @@ [histogram |-> List(U64), timeMs |-> AvgValue(Double),
                  minLastOperation |-> Nullable(U64), maxLastOperation |-> Nullable(U64)])

StackTrace ==
  Class([offset |-> U64, function |-> String, file |-> String, line |-> Nullable(UInt),
         disassembly |-> String, module |-> String])
ErrorMembers == [errorCode |-> U64, description |-> String, stackTrace |-> List(StackTrace)]
ErrorData == Class([error |-> Class(ErrorMembers)] @@ WithData)
CrashData == Class([crash |-> Class(ErrorMembers @@ [firstOccurence |-> String])] @@ WithData)

ObservedMembers ==
  [observedU64 |-> Refs(ExactValueDataWithAverage(U64)),
   observedI64 |-> Refs(ExactValueDataWithAverage(I64)),
   observedString |-> Refs(ExactValueData(String)),
   observedRangeU64 |-> Refs(ValueRange(U64)), observedRangeI64 |-> Refs(ValueRange(I64)),
   observedRangeF64 |-> Refs(ValueRange(Double)), observedRangeF32_2 |-> Refs(ValueRange2D)]

StateRefs(value) == List(Ref(StateId, value))
State ==
  Class(WithDelay @@ ObservedMembers @@
        [nextState |-> StateRefs(TransitionData), previousState |-> StateRefs(TransitionData),
         operations |-> Refs(OperationTransitionData), previousOperation |-> Refs(TransitionData),
         stateReach |-> StateRefs(TransitionData), operationReach |-> Refs(TransitionData),
         profileData |-> List(ProfileData), errors |-> List(ErrorData),
         warnings |-> List(ErrorData), logs |-> ExactValueData(String)])

Operation ==
  Class(WithDelay @@
        [parentState |-> StateRefs(TransitionData), nextState |-> StateRefs(TransitionData),
         nextOperation |-> Refs(OperationTransitionData), lastOperation |-> Refs(TransitionData),
         operationIndexCount |-> Refs(U64), errors |-> List(Ref(ErrorId, TransitionData)),
         warnings |-> List(Ref(ErrorId, TransitionData)), logs |-> ExactValueData(String)])

SubSystemData ==
  Class([states |-> StateRefs(State), operations |-> Refs(Operation),
         profileData |-> List(ProfileData), noStateErrors |-> List(ErrorData),
         noStateWarnings |-> List(ErrorData), noStateLogs |-> ExactValueData(String)])

Size2 == Class([x |-> UInt, y |-> UInt])
HardwareInfo ==
  LET Texts == GlobalExactValueData(String)
      Gigabytes == GlobalValueRange(Double)
      Average(T) == GlobalExactValueDataWithAverage(T)
  IN Class([cpu |-> Texts, cpuCores |-> Average(UInt),
            totalPhysicalRam |-> Gigabytes, totalVirtualRam |-> Gigabytes,
            availablePhysicalRam |-> Gigabytes, availableVirtualRam |-> Gigabytes, os |-> Texts,
            gpuDedicatedVRam |-> Gigabytes, gpuSharedVRam |-> Gigabytes,
            gpuTotalVRam |-> Gigabytes, gpuFreeVRam |-> Gigabytes,
            gpuVendorId |-> GlobalExactValueData(UInt), gpu |-> Texts,
            primaryLanguage |-> Texts, isElevated |-> GlobalExactValueData(Bool),
            monitorCount |-> Average(U64), monitorSize |-> GlobalExactValueData(Size2),
            totalMonitorSize |-> GlobalExactValueData(Size2), monitorDpi |-> Average(UInt),
            availableStorage |-> Gigabytes, totalStorage |-> Gigabytes,
            deviceManufacturer |-> Texts, deviceManufacturerModel |-> Texts,
            totalSsdStorage |-> Gigabytes, ssdStorageShare |-> Gigabytes,
            downLinkSpeed |-> Gigabytes, upLinkSpeed |-> Gigabytes,
            isWireless |-> Average(Bool), identifier |-> Average(UInt)])

Analysis ==
  Class(ObservedMembers @@
        [productName |-> String, majorVersion |-> U64, minorVersion |-> U64,
         subSystems |-> Refs(SubSystemData), hwInfo |-> HardwareInfo,
         perfMetrics |-> Refs(PerfValueRange(Double)), crashes |-> List(CrashData),
         firstDayTimestamp |-> U64, days |-> List(U64), hours |-> List(U64)])

-----------------------------------------------------------------------------
(* The order of the lists. *)

OrderByDescending(list, Number(_)) ==
  SortSeq(list, LAMBDA x, y : Number(x.value) > Number(y.value))
ByCount(list) == OrderByDescending(list, LAMBDA value : value.count.n)

SortedState_NoReach(s) ==
  [s EXCEPT !.nextState = ByCount(@), !.previousState = ByCount(@),
            !.previousOperation = ByCount(@), !.operations = ByCount(@)]
SortedState(s) ==
  [s EXCEPT !.nextState = ByCount(@), !.previousState = ByCount(@),
            !.previousOperation = ByCount(@), !.operations = ByCount(@),
            !.operationReach = ByCount(@), !.stateReach = ByCount(@)]
SortedOperation(o) ==
  [o EXCEPT !.parentState = ByCount(@), !.lastOperation = ByCount(@), !.nextOperation = ByCount(@),
            !.nextState = ByCount(@),
            !.operationIndexCount = OrderByDescending(@, LAMBDA value : value.n)]

SortedValues(list, Sorted(_)) == [i \in DOMAIN list |-> [list[i] EXCEPT !.value = Sorted(@)]]
SortedSubSystem(s) ==
  [s EXCEPT !.states = SortedValues(@, SortedState),
            !.operations = SortedValues(@, SortedOperation)]
Sort(analysis) == [analysis EXCEPT !.subSystems = SortedValues(@, SortedSubSystem)]

\* The report in memory; without one that can be converted there is none.
Loads(json) == Converts(Analysis, json)
Load(json) == Sort(Converted(Analysis, json))
=============================================================================
