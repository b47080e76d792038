-------------------------- MODULE LtReportMembers --------------------------
(***************************************************************************)
(* What the members of a report mean: the fields of the analysis that the  *)
(* members of the classes of ltsrv stand for.  ltanalyze, where the fields *)
(* are, and ltsrv, where the classes are, have different names for many of *)
(* them.                                                                   *)
(***************************************************************************)
EXTENDS Integers, Sequences, SequencesExt, FiniteSets, TLC

C == INSTANCE LtReportReader

\* A name of ltsrv, and the names that the way to the field has in its place.
Fields ==
  [avgDelay |-> {<<"avgDelayS">>, <<"data", "avgDelayS">>},
   minDelay |-> {<<"minDelay">>, <<"data", "minDelay">>},
   maxDelay |-> {<<"maxDelay">>, <<"data", "maxDelay">>},
   avgStartDelay |-> {<<"avgTimeSinceStartS">>},
   count |-> {<<"count">>, <<"data", "count">>, <<"value">>, <<"values">>, <<>>},
   data |-> {<<"data">>, <<"value", "data">>},
   error |-> {<<"value", "error">>}, crash |-> {<<"value", "crash">>},
   index |-> {<<"index">>, <<"index", "operationType">>},
   value |-> {<<"value">>, <<"index">>, <<"index", "value">>, <<>>},
   values |-> {<<"values">>, <<"multiple">>, <<"single">>},
   min |-> {<<"minValue">>}, minX |-> {<<"minValueX">>}, minY |-> {<<"minValueY">>},
   max |-> {<<"maxValue">>}, maxX |-> {<<"maxValueX">>}, maxY |-> {<<"maxValueY">>},
   histogram |-> {<<"hist">>, <<"values">>, <<"values", "value">>},
   hours |-> {<<"hourHistogram">>},
   state |-> {<<"state">>, <<"stateIndex">>}, subState |-> {<<"subStateIndex">>},
   operations |-> {<<"operations">>, <<"operationIndexCount">>},
   profileData |-> {<<"profilerData">>},
   minLastOperation |-> {<<"minLastOperation", "operationType">>},
   maxLastOperation |-> {<<"maxLastOperation", "operationType">>},
   module |-> {<<"moduleName">>}, function |-> {<<"functionName">>}, disassembly |-> {<<"disasm">>},
   cpu |-> {<<"cpuName">>}, gpu |-> {<<"gpuName">>}, os |-> {<<"osName">>},
   multiMonitorWidth |-> {<<"monitorTotalWidth">>},
   multiMonitorHeight |-> {<<"monitorTotalHeight">>},
   totalPhysicalRam |-> {<<"ramTotalPhysical">>}, totalVirtualRam |-> {<<"ramTotalVirtual">>},
   availablePhysicalRam |-> {<<"ramAvailablePhysical">>},
   availableVirtualRam |-> {<<"ramAvailableVirtual">>},
   primaryLanguage |-> {<<"langPrimaryName">>}, isElevated |-> {<<"elevated">>},
   monitorDpi |-> {<<"monitorDpiAvgXY">>}, availableStorage |-> {<<"storageAvailable">>},
   totalStorage |-> {<<"storageTotal">>}, deviceManufacturer |-> {<<"deviceManufacturerName">>},
   deviceManufacturerModel |-> {<<"deviceManufacturerModelName">>}]

Stands(name) == IF name \in DOMAIN Fields THEN Fields[name] ELSE {<<name>>}

RECURSIVE Means(_, _)
Means(names, place) ==
  IF names = <<>> THEN place = <<>>
  ELSE \E s \in Stands(Head(names)) :
         IsPrefix(s, place) /\ Means(Tail(names), SubSeq(place, Len(s) + 1, Len(place)))

-----------------------------------------------------------------------------
(* The values of a report in memory, with the names on the way to them. *)

RECURSIVE Leaves(_, _, _)
Leaves(type, x, path) ==
  CASE type.type = "class" ->
         IF x = C!Unset THEN {[path |-> path, is |-> "unset", at |-> <<>>]}
         ELSE UNION {Leaves(type.members[m], x[m], Append(path, m)) : m \in DOMAIN type.members}
    [] type.type = "list" ->
         UNION {Leaves(type.of, x[i], Append(path, ToString(i))) : i \in DOMAIN x}
    [] type.type = "nullable" -> Leaves(type.of, x, path)
    [] OTHER -> {[path |-> path, is |-> x.is, at |-> x.at]}

Numbers == {ToString(i) : i \in 0 .. 99}
Names(path) == SelectSeq(path, LAMBDA name : name \notin Numbers)

\* Where the elements of lists on the way to a place end, and which of them one is.
Ends(path) == {i \in DOMAIN path : path[i] \in Numbers}
EndsUpTo(path, i) == Cardinality({j \in Ends(path) : j <= i})

\* The elements that a value is in, and the items it is from.
Pairs(to, from) ==
  {<<SubSeq(to, 1, e[1]), SubSeq(from, 1, e[2])>> :
    e \in {e \in Ends(to) \X Ends(from) : EndsUpTo(to, e[1]) = EndsUpTo(from, e[2])}}

\* All of an element of a list is from one item of a container, and of another item than
\* all of the other elements.
OneToOne(leaves) ==
  LET pairs == UNION {Pairs(l.path, l.at) : l \in leaves}
  IN /\ Cardinality({p[1] : p \in pairs}) = Cardinality(pairs)
     /\ Cardinality({<<Front(p[1]), p[2]>> : p \in pairs}) = Cardinality(pairs)
=============================================================================
