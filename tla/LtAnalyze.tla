------------------------------ MODULE LtAnalyze ------------------------------
(***************************************************************************)
(* ltanalyze at work on logs (analyze_file and main in                     *)
(* ltanalyze/src/ltanalyze.cpp).  A log is a series of records of several  *)
(* sub systems, each of which is in a state and performs operations.  For  *)
(* every log analyze_file follows the sub systems from record to record    *)
(* and counts in the analysis what came after what.  The analysis is       *)
(* loaded from a file before and saved to it after the logs of one run.    *)
(*                                                                         *)
(* A table of the code (SoaList of an identifier and lt_transition_data)   *)
(* is a bag of what it counts: an entry is found or appended, and its      *)
(* count incremented.  Delays, texts and traces are left out; errors that  *)
(* differ in them are different errors.                                    *)
(***************************************************************************)
EXTENDS LtStatistics

CONSTANTS
  SubSystems,
  States,      \* identifiers of states: state and sub state
  Ops,         \* operations
  Levels,      \* errors and warnings, which have lists of their own
  Errors,      \* code, description and stack trace of an error
  Machines,
  Samples,     \* values and times in records
  Days,        \* on which logs are started
  Hours,
  MaxRecords,  \* bounds the number of logs and records
  MaxValues    \* and of records of values among the latter

NoState == "no state"   \* hasLastState is false

ASSUME AnalyzeAssumption ==
  /\ NoState \notin States
  /\ NoOp \notin Ops
  /\ Unknown \notin Machines
  /\ Samples \subseteq Int
  /\ Days \subseteq Nat
  /\ {MaxRecords, MaxValues} \subseteq Nat

(* A state is identified by its number and that of its sub state, of 64    *)
(* bits each.                                                              *)
ASSUME StatesAssumption == IsFiniteSet(States)

VARIABLES
  pc,        \* "idle", "main", "records" (in analyze_file) or "fatal"
  analysis,  \* the lt_analyze in memory
  parsed,    \* anyFilesParsed
  live,      \* lt_analyze_state: the sub systems of the log at hand
  machine,   \* where the log at hand was written
  hwInfo,    \* hwInfoShort: what the log has said of it so far
  stored,    \* hwInfoStored
  file,      \* the analysis file
  told,      \* history: what the logs in the analysis have told
  records,   \* logs and records so far
  values     \* records of values so far

memory == <<analysis, told>>
log == <<live, machine, hwInfo, stored>>
steps == <<records, values>>
vars == <<pc, memory, parsed, log, file, steps>>

Places == States \cup {NoState}

-----------------------------------------------------------------------------
(* An analysis. *)

NoAnalysis ==
  [subSystems |-> {},                      \* get_sub_system_data
   states |-> [ss \in SubSystems |-> {}],  \* lt_sub_system_data.states
   operations |-> [ss \in SubSystems |-> {}],
   \* lt_state
   left |-> EmptyBag,               \* data.count: <<sub system, state>>
   nextState |-> EmptyBag,          \* <<sub system, state, state after it>>
   previousState |-> EmptyBag,      \* <<sub system, state, state before it>>
   stateOps |-> EmptyBag,           \* operations: <<sub system, state, operation in it>>
   previousOperation |-> EmptyBag,  \* <<sub system, state, operation before it>>
   stateReach |-> EmptyBag,         \* <<sub system, state, state at any time after it>>
   operationReach |-> EmptyBag,
   \* lt_operation
   done |-> EmptyBag,               \* data.count: <<sub system, operation>>
   parentState |-> EmptyBag,        \* <<sub system, operation, state it was in>>
   opNextState |-> EmptyBag,        \* nextState: <<sub system, operation, state after it>>
   lastOperation |-> EmptyBag,      \* <<sub system, operation, operation before it>>
   nextOperation |-> EmptyBag,      \* <<sub system, operation, operation after it>>
   opErrors |-> EmptyBag,           \* <<sub system, operation, level, lt_error_identifier>>
   \* errors and warnings of states, noStateErrors and noStateWarnings; crashes
   errors |-> [l \in SubSystems \X Places \X Levels |-> <<>>],
   errorCount |-> EmptyBag,
   crashes |-> <<>>,
   crashCount |-> EmptyBag,
   \* logs of states, noStateLogs, logs of operations; observedString
   logs |-> EmptyBag,
   opLogs |-> EmptyBag,
   strings |-> 0,
   \* observedU64 ..., of the analysis and of each state; perfMetrics; profilerData; hwInfo
   exact |-> NoExact,
   stateExact |-> [s \in SubSystems \X States |-> NoExact],
   range |-> NoRange,
   stateRange |-> [s \in SubSystems \X States |-> NoRange],
   metric |-> NoMetric,
   perf |-> [p \in SubSystems \X Places |-> NoPerf],
   hardware |-> EmptyBag,
   days |-> NoDays,
   hours |-> EmptyBag]

NoLog == [ss \in SubSystems |-> [state |-> NoState, op |-> NoOp, seen |-> {}]]

(* The days of the logs, and which machine measured what. *)
NothingTold == [days |-> EmptyBag, metric |-> {}, perf |-> {}]

\* Mutant of Loaded: operations that were not followed by another are not written.
Loaded_NoLastOperations(a) ==
  [a EXCEPT !.perf = [p \in DOMAIN @ |-> PerfLoaded(@[p])],
            !.operations = [ss \in SubSystems |-> {o \in @[ss] : <<ss, o>> \in DOMAIN a.done}]]

(* What serialize writes and deserialize reads again. *)
Loaded(a) == [a EXCEPT !.perf = [p \in DOMAIN @ |-> PerfLoaded(@[p])]]

Absent == [is |-> "absent"]
Torn == [is |-> "torn"]    \* cut off while it was written
Saved(a, t) == [is |-> "saved", analysis |-> a, told |-> t]

(* How often a bag counts x. *)
Copies(bag, x) == IF x \in DOMAIN bag THEN bag[x] ELSE 0

Plus(bag, keys) == bag (+) SetToBag(keys)

(* The state and the operation a sub system is in, if any. *)
LastState(l) == {l.state} \ {NoState}
LastOp(l) == {l.op} \ {NoOp}

-----------------------------------------------------------------------------
(* Records of states and operations. *)

\* Mutants of StateCounted: the state before is looked up by the state itself,
\* and what is counted as left is the state that is entered.
StateCounted_PreviousSelf(a, l, ss, s) ==
  [a EXCEPT
     !.subSystems = @ \cup {ss},
     !.states[ss] = @ \cup {s} \cup LastState(l) \cup l.seen,
     !.operations[ss] = @ \cup LastOp(l),
     !.left = Plus(@, {ss} \X LastState(l)),
     !.nextState = Plus(@, {ss} \X LastState(l) \X {s}),
     !.previousState = Plus(@, {<<ss, s, s>> : last \in LastState(l)}),
     !.stateReach = Plus(@, {ss} \X l.seen \X {s}),
     !.opNextState = Plus(@, {ss} \X LastOp(l) \X {s}),
     !.previousOperation = Plus(@, {ss} \X {s} \X LastOp(l))]
StateCounted_EnteredLeft(a, l, ss, s) ==
  [a EXCEPT
     !.subSystems = @ \cup {ss},
     !.states[ss] = @ \cup {s} \cup LastState(l) \cup l.seen,
     !.operations[ss] = @ \cup LastOp(l),
     !.left = Plus(@, {<<ss, s>> : last \in LastState(l)}),
     !.nextState = Plus(@, {ss} \X LastState(l) \X {s}),
     !.previousState = Plus(@, {ss} \X {s} \X LastState(l)),
     !.stateReach = Plus(@, {ss} \X l.seen \X {s}),
     !.opNextState = Plus(@, {ss} \X LastOp(l) \X {s}),
     !.previousOperation = Plus(@, {ss} \X {s} \X LastOp(l))]

(* The analysis after sub system ss, of which l is known, has set state s. *)
StateCounted(a, l, ss, s) ==
  [a EXCEPT
     !.subSystems = @ \cup {ss},
     !.states[ss] = @ \cup {s} \cup LastState(l) \cup l.seen,
     !.operations[ss] = @ \cup LastOp(l),
     !.left = Plus(@, {ss} \X LastState(l)),
     !.nextState = Plus(@, {ss} \X LastState(l) \X {s}),
     !.previousState = Plus(@, {ss} \X {s} \X LastState(l)),
     !.stateReach = Plus(@, {ss} \X l.seen \X {s}),
     !.opNextState = Plus(@, {ss} \X LastOp(l) \X {s}),
     !.previousOperation = Plus(@, {ss} \X {s} \X LastOp(l))]

(* The analysis after it has started operation o. *)
OperationCounted(a, l, ss, o) ==
  [a EXCEPT
     !.subSystems = @ \cup {ss},
     !.states[ss] = @ \cup LastState(l) \cup l.seen,
     !.operations[ss] = @ \cup {o} \cup LastOp(l),
     !.stateOps = Plus(@, {ss} \X LastState(l) \X {o}),
     !.parentState = Plus(@, {ss} \X {o} \X LastState(l)),
     !.operationReach = Plus(@, {ss} \X l.seen \X {o}),
     !.done = Plus(@, {ss} \X LastOp(l)),
     !.nextOperation = Plus(@, {ss} \X LastOp(l) \X {o}),
     \* line 590 looks up &id, the operation itself
     !.lastOperation = Plus(@, {<<ss, o, o>> : last \in LastOp(l)})]

(* lt_t_error and lt_t_warning: the error is counted in the list of the    *)
(* state, and the operation refers to it by its place there.               *)
ErrorCounted(a, l, ss, level, error) ==
  LET list == WithError(a.errors[<<ss, l.state, level>>], error)
  IN [a EXCEPT
        !.subSystems = @ \cup {ss},
        !.states[ss] = @ \cup LastState(l),
        !.operations[ss] = @ \cup LastOp(l),
        !.errors[<<ss, l.state, level>>] = list,
        !.errorCount = Plus(@, {<<ss, l.state, level, error>>}),
        !.opErrors = Plus(@, {<<ss, o, level, ErrorIndex(list, error), l.state>> : o \in LastOp(l)})]

\* Mutant of LogCounted: hasLastOperation is not tested.
LogCounted_AnyOperation(a, l, ss) ==
  [a EXCEPT
     !.subSystems = @ \cup {ss},
     !.states[ss] = @ \cup LastState(l),
     !.logs = Plus(@, {<<ss, l.state>>}),
     !.opLogs = Plus(@, {<<ss, l.op>>})]

(* lt_t_log *)
LogCounted(a, l, ss) ==
  [a EXCEPT
     !.subSystems = @ \cup {ss},
     !.states[ss] = @ \cup LastState(l),
     !.operations[ss] = @ \cup LastOp(l),
     !.logs = Plus(@, {<<ss, l.state>>}),
     !.opLogs = Plus(@, {ss} \X LastOp(l))]

-----------------------------------------------------------------------------
(* Records of values. *)

(* The states that the sub systems of the analysis are in: an observed     *)
(* value is counted for each of them.                                      *)
StatesNow(a, ls) == UNION {{ss} \X LastState(ls[ss]) : ss \in a.subSystems}

ExactCounted(a, ls, v) ==
  [a EXCEPT
     !.exact = ExactWith(@, v),
     !.stateExact = [s \in DOMAIN @ |-> IF s \in StatesNow(a, ls) THEN ExactWith(@[s], v) ELSE @[s]]]

RangeCounted(a, ls, v) ==
  [a EXCEPT
     !.range = RangeWith(@, v),
     !.stateRange = [s \in DOMAIN @ |-> IF s \in StatesNow(a, ls) THEN RangeWith(@[s], v) ELSE @[s]]]

(* lt_t_perf_data: times of a sub system and of the state it is in. *)
PerfCounted(a, l, ss, ms, info) ==
  [a EXCEPT
     !.subSystems = @ \cup {ss},
     !.states[ss] = @ \cup LastState(l),
     !.perf = [p \in DOMAIN @ |-> IF p \in {ss} \X {NoState, l.state} THEN PerfWith(@[p], ms, info, l.op) ELSE @[p]]]

-----------------------------------------------------------------------------
Init ==
  /\ pc = "idle"
  /\ analysis = NoAnalysis
  /\ parsed = FALSE
  /\ live = NoLog
  /\ machine = Unknown
  /\ hwInfo = Unknown
  /\ stored = FALSE
  /\ file = Absent
  /\ told = NothingTold
  /\ records = 0
  /\ values = 0

(* main is called with -io and reads the analysis file, or with -o, if     *)
(* there is none to go on with.                                            *)
Start ==
  /\ pc = "idle"
  /\ pc' = "main"
  /\ \/ /\ file.is = "saved"
        /\ analysis' = Loaded(file.analysis)
        /\ told' = file.told
     \/ /\ file.is # "saved"
        /\ UNCHANGED memory
  /\ UNCHANGED <<parsed, log, file, steps>>

(* analyze_file: the headers of a log, which count it. *)
BeginLog(day, hour, m) ==
  /\ pc = "main"
  /\ records < MaxRecords
  /\ records' = records + 1
  /\ pc' = IF DayCounts(analysis.days, day) /\ ~DayFound(DaysUpTo(analysis.days, day), day)
           THEN "fatal" ELSE "records"
  /\ analysis' = [analysis EXCEPT !.days = DaysWith(@, day), !.hours = Plus(@, {hour})]
  /\ told' = [told EXCEPT !.days = Plus(@, {day})]
  /\ parsed' = TRUE
  /\ live' = NoLog
  /\ machine' = m
  /\ hwInfo' = Unknown
  /\ stored' = FALSE
  /\ UNCHANGED <<file, values>>

(* What every record of a log has in common. *)
Reading ==
  /\ pc = "records"
  /\ records < MaxRecords
  /\ records' = records + 1
  /\ UNCHANGED <<pc, parsed, machine, file>>

(* A record of states, operations and errors, and one of values.          *)
ReadingEvent == Reading /\ UNCHANGED values
ReadingValue == Reading /\ values < MaxValues /\ values' = values + 1

SetState(ss, s) ==
  /\ ReadingEvent
  /\ analysis' = StateCounted(analysis, live[ss], ss, s)
  /\ live' = [live EXCEPT ![ss].state = s, ![ss].seen = @ \cup {s}]
  /\ UNCHANGED <<hwInfo, stored, told>>

Operation(ss, o) ==
  /\ ReadingEvent
  /\ analysis' = OperationCounted(analysis, live[ss], ss, o)
  /\ live' = [live EXCEPT ![ss].op = o]
  /\ UNCHANGED <<hwInfo, stored, told>>

Error(ss, level, error) ==
  /\ ReadingEvent
  /\ analysis' = ErrorCounted(analysis, live[ss], ss, level, error)
  /\ UNCHANGED <<live, hwInfo, stored, told>>

Crash(error) ==
  /\ ReadingEvent
  /\ analysis' = [analysis EXCEPT !.crashes = WithError(@, error), !.crashCount = Plus(@, {error})]
  /\ UNCHANGED <<live, hwInfo, stored, told>>

Log(ss) ==
  /\ ReadingEvent
  /\ analysis' = LogCounted(analysis, live[ss], ss)
  /\ UNCHANGED <<live, hwInfo, stored, told>>

ObserveExact(v) ==
  /\ ReadingValue
  /\ analysis' = ExactCounted(analysis, live, v)
  /\ UNCHANGED <<live, hwInfo, stored, told>>

ObserveRange(v) ==
  /\ ReadingValue
  /\ analysis' = RangeCounted(analysis, live, v)
  /\ UNCHANGED <<live, hwInfo, stored, told>>

ObserveString ==
  /\ ReadingValue
  /\ analysis' = [analysis EXCEPT !.strings = @ + 1]
  /\ UNCHANGED <<live, hwInfo, stored, told>>

PerfMetric(v) ==
  /\ ReadingValue
  /\ analysis' = [analysis EXCEPT !.metric = MetricWith(@, v, hwInfo)]
  /\ told' = [told EXCEPT !.metric = @ \cup {<<v, hwInfo>>}]
  /\ UNCHANGED <<live, hwInfo, stored>>

PerfData(ss, ms) ==
  /\ ReadingValue
  /\ analysis' = PerfCounted(analysis, live[ss], ss, ms, hwInfo)
  /\ told' = [told EXCEPT !.perf = @ \cup {<<ss, live[ss].state, ms, hwInfo>>}]
  /\ UNCHANGED <<live, hwInfo, stored>>

(* lt_t_system_info: a log is counted once in the hardware. *)
SystemInfo ==
  /\ ReadingEvent
  /\ hwInfo' = machine
  /\ stored' = TRUE
  /\ analysis' = IF stored THEN analysis ELSE [analysis EXCEPT !.hardware = Plus(@, {machine})]
  /\ UNCHANGED <<live, told>>

EndLog ==
  /\ pc = "records"
  /\ pc' = "main"
  /\ UNCHANGED <<memory, parsed, log, file, steps>>

(* The end of the process: nothing of it is left in memory. *)
Gone ==
  /\ pc' = "idle"
  /\ analysis' = NoAnalysis
  /\ told' = NothingTold
  /\ parsed' = FALSE
  /\ live' = NoLog
  /\ machine' = Unknown
  /\ hwInfo' = Unknown
  /\ stored' = FALSE

(* A log of another product or version, of another format, or cut off: the *)
(* process ends before anything is written.                                *)
Fail ==
  /\ pc \in {"main", "records"}
  /\ Gone
  /\ UNCHANGED <<file, steps>>

(* main saves the analysis, if any log was parsed; writing may fail.       *)
Write ==
  /\ pc = "main"
  /\ Gone
  /\ \/ parsed /\ file' = Saved(analysis, told)
     \/ parsed /\ file' = Torn
     \/ ~parsed /\ UNCHANGED file
  /\ UNCHANGED steps

Record ==
  \/ \E ss \in SubSystems, s \in States : SetState(ss, s)
  \/ \E ss \in SubSystems, o \in Ops : Operation(ss, o)
  \/ \E ss \in SubSystems, level \in Levels, error \in Errors : Error(ss, level, error)
  \/ \E error \in Errors : Crash(error)
  \/ \E ss \in SubSystems : Log(ss)
  \/ \E v \in Samples : ObserveExact(v)
  \/ \E v \in Samples : ObserveRange(v)
  \/ ObserveString
  \/ \E v \in Samples : PerfMetric(v)
  \/ \E ss \in SubSystems, ms \in Samples : PerfData(ss, ms)
  \/ SystemInfo

Next ==
  \/ Start
  \/ \E day \in Days, hour \in Hours, m \in Machines : BeginLog(day, hour, m)
  \/ Record
  \/ EndLog
  \/ Fail
  \/ Write

Spec == Init /\ [][Next]_vars

-----------------------------------------------------------------------------
(* The analysis at hand and the one that is saved. *)
Analyses == {analysis} \cup (IF file.is = "saved" THEN {file.analysis} ELSE {})

IsTable(bag, keys) == DOMAIN bag \subseteq keys /\ \A k \in DOMAIN bag : bag[k] \in Nat \ {0}

SomeSummary(s) ==
  /\ DOMAIN s = {"count", "sum", "min", "max"}
  /\ s.count \in Nat
  /\ s.sum \in Int /\ s.min \in Int /\ s.max \in Int

(* Every table counts what its identifiers say, and every statistic is one *)
(* of the samples.                                                         *)
AnalysisOK(a) ==
  /\ a.subSystems \subseteq SubSystems
  /\ a.states \in [SubSystems -> SUBSET States]
  /\ a.operations \in [SubSystems -> SUBSET Ops]
  /\ IsTable(a.left, SubSystems \X States)
  /\ IsTable(a.done, SubSystems \X Ops)
  /\ \A t \in {a.nextState, a.previousState, a.stateReach} : IsTable(t, SubSystems \X States \X States)
  /\ \A t \in {a.stateOps, a.previousOperation, a.operationReach} : IsTable(t, SubSystems \X States \X Ops)
  /\ \A t \in {a.parentState, a.opNextState} : IsTable(t, SubSystems \X Ops \X States)
  /\ \A t \in {a.lastOperation, a.nextOperation} : IsTable(t, SubSystems \X Ops \X Ops)
  /\ IsTable(a.opErrors, SubSystems \X Ops \X Levels \X Nat \X Places)
  /\ a.errors \in [SubSystems \X Places \X Levels -> Seq(Errors)]
  /\ a.crashes \in Seq(Errors)
  /\ IsTable(a.errorCount, SubSystems \X Places \X Levels \X Errors)
  /\ IsTable(a.crashCount, Errors)
  /\ IsTable(a.logs, SubSystems \X Places)
  /\ IsTable(a.opLogs, SubSystems \X Ops)
  /\ a.strings \in Nat
  /\ DOMAIN a.stateExact = SubSystems \X States
  /\ DOMAIN a.stateRange = SubSystems \X States
  /\ DOMAIN a.perf = SubSystems \X Places
  /\ \A s \in {a.exact.all, a.range.all, a.metric.range.all} : SomeSummary(s)
  /\ IsTable(a.hardware, Machines)
  /\ a.days.first \in Nat /\ a.days.count \in Seq(Nat)
  /\ IsTable(a.hours, Hours)

(* Type invariant: the tables of an analysis, and what the sub systems of  *)
(* a log are doing.                                                        *)
TypeOK ==
  /\ pc \in {"idle", "main", "records", "fatal"}
  /\ file.is \in {"absent", "torn", "saved"}
  /\ \A a \in Analyses : AnalysisOK(a)
  /\ parsed \in BOOLEAN /\ stored \in BOOLEAN
  /\ live \in [SubSystems -> [state : Places, op : Ops \cup {NoOp}, seen : SUBSET States]]
  /\ {machine, hwInfo} \subseteq Machines \cup {Unknown}
  /\ records \in 0..MaxRecords /\ values \in 0..MaxValues

-----------------------------------------------------------------------------
(* One table says of k what the other says of k with its last two          *)
(* identifiers swapped.                                                    *)
Swapped(k) == <<k[1], k[3], k[2]>>
Mirror(f, g) ==
  /\ DOMAIN g = {Swapped(k) : k \in DOMAIN f}
  /\ \A k \in DOMAIN f : g[Swapped(k)] = f[k]

(* What analyze_file counts with a state or an operation and with the one  *)
(* before it agrees: a page that is reached from "Next State" tells the    *)
(* same by "Previous State".                                               *)
TablesMirrored(a) ==
  /\ Mirror(a.nextState, a.previousState)
  /\ Mirror(a.opNextState, a.previousOperation)
  /\ Mirror(a.stateOps, a.parentState)

(* A state or an operation that follows a state is one that is reached     *)
(* from it: stateReach and operationReach count at least as often.         *)
ReachCovers(a) ==
  /\ \A k \in DOMAIN a.nextState : a.nextState[k] <= Copies(a.stateReach, k)
  /\ \A k \in DOMAIN a.stateOps : a.stateOps[k] <= Copies(a.operationReach, k)

TablesAgree == \A a \in Analyses : TablesMirrored(a) /\ ReachCovers(a)

(* So should the operations after and before an operation (line 589, 590). *)
OperationsAreMirrored == \A a \in Analyses : Mirror(a.nextOperation, a.lastOperation)

(* Whatever enters a state leaves it again, unless a log ends or begins in *)
(* it: the numbers of transitions into and out of a state differ by no     *)
(* more than the number of logs, and lt_state.data counts those out of it. *)
Sum(bag, keys) == MapThenSumSet(LAMBDA k : bag[k], keys \cap DOMAIN bag)
FlowBalanced(a) ==
  LET logs == SumFunction(a.hours)
  IN \A ss \in SubSystems, s \in States :
       LET in == Sum(a.nextState, {ss} \X States \X {s})
           out == Sum(a.nextState, {ss} \X {s} \X States)
       IN /\ Copies(a.left, <<ss, s>>) = out
          /\ in - out <= logs /\ out - in <= logs
FlowIsBalanced == \A a \in Analyses : FlowBalanced(a)

(* The states and operations a log has been in are in the analysis, and so *)
(* are those that its tables name.  Otherwise get_state would append to a  *)
(* vector that pSelf (line 502) points into, values would not be counted   *)
(* for a state (line 662), and links of the pages would lead nowhere.      *)
Follows(l, ss) ==
  /\ LastState(l) \subseteq l.seen
  /\ l.seen \subseteq analysis.states[ss]
  /\ LastOp(l) \subseteq analysis.operations[ss]
  /\ l.seen \cup LastOp(l) # {} => ss \in analysis.subSystems
NamesKnown(a) ==
  /\ \A k \in DOMAIN a.nextState : {k[2], k[3]} \subseteq a.states[k[1]]
  /\ \A k \in DOMAIN a.stateOps : k[2] \in a.states[k[1]] /\ k[3] \in a.operations[k[1]]
  /\ \A k \in DOMAIN a.opNextState : k[2] \in a.operations[k[1]] /\ k[3] \in a.states[k[1]]
  /\ \A k \in DOMAIN a.opErrors : k[2] \in a.operations[k[1]] /\ k[5] \in a.states[k[1]] \cup {NoState}
NothingDangles ==
  /\ \A ss \in SubSystems : Follows(live[ss], ss)
  /\ \A a \in Analyses : NamesKnown(a)

(* An operation refers to an error by its place in the list of a state:    *)
(* there is one at that place, and it was counted at least as often as     *)
(* all operations together refer to it.                                    *)
ReferencesRight(a) ==
  \A k \in DOMAIN a.opErrors :
    LET list == a.errors[<<k[1], k[5], k[3]>>]
    IN /\ k[4] \in DOMAIN list
       /\ Sum(a.opErrors, {k[1]} \X Ops \X {k[3]} \X {k[4]} \X {k[5]})
            <= Copies(a.errorCount, <<k[1], k[5], k[3], list[k[4]]>>)
ReferencesAreRight == \A a \in Analyses : ReferencesRight(a)

(* "DO NOT REORDER THESE." (lta_types.h:536): as an analysis is loaded,    *)
(* extended and saved, every error and crash stays at its place.           *)
ErrorsKeepPlace ==
  [][(file.is = "saved" /\ file'.is = "saved") =>
       /\ \A l \in DOMAIN file.analysis.errors :
            IsPrefix(file.analysis.errors[l], file'.analysis.errors[l])
       /\ IsPrefix(file.analysis.crashes, file'.analysis.crashes)]_file

(* The days say on which day how many logs were started, and the index of  *)
(* a day exists when it is used (FATAL_IF, "Invalid List Identifer.").     *)
(* Logs that are all close to each other are all counted.                  *)
DaysRight(a, t) ==
  LET near == \A d, e \in DOMAIN t.days : d - e <= Least(DaysBack, DaysForward)
      series == {a.days.first + i - 1 : i \in DOMAIN a.days.count}
      At(d) == a.days.count[d - a.days.first + 1]
  IN /\ \A d \in series : At(d) <= Copies(t.days, d)
     /\ near => DOMAIN t.days \subseteq series /\ \A d \in DOMAIN t.days : At(d) = t.days[d]
DaysAreRight ==
  /\ pc # "fatal"
  /\ DaysRight(analysis, told)
  /\ file.is = "saved" => DaysRight(file.analysis, file.told)

(* The single values and the buckets of a range add up to what was         *)
(* counted, for the analysis and for every state; and no sub system counts *)
(* a value for more than one of its states.                                *)
ValuesSound(a) ==
  /\ ExactSound(a.exact) /\ \A s \in DOMAIN a.stateExact : ExactSound(a.stateExact[s])
  /\ RangeSound(a.range) /\ \A s \in DOMAIN a.stateRange : RangeSound(a.stateRange[s])
  /\ RangeSound(a.metric.range)
  /\ \A ss \in SubSystems :
       /\ MapThenSumSet(LAMBDA s : a.stateExact[<<ss, s>>].all.count, States) <= a.exact.all.count
       /\ MapThenSumSet(LAMBDA s : a.stateRange[<<ss, s>>].all.count, States) <= a.range.all.count

(* The machine that is shown with the least or the greatest value of a     *)
(* metric, and with the shortest time of the profiler, is one on which it  *)
(* was measured.                                                           *)
MeasuredThere(a, t) ==
  /\ a.metric.range.all.count > 0 =>
       /\ <<a.metric.range.all.min, a.metric.minInfo>> \in t.metric
       /\ <<a.metric.range.all.max, a.metric.maxInfo>> \in t.metric
  /\ \A p \in DOMAIN a.perf : a.perf[p].all.count > 0 =>
       \E s \in Places : /\ <<p[1], s, a.perf[p].all.min, a.perf[p].minInfo>> \in t.perf
                         /\ p[2] \in {s, NoState}
ValuesAreRight ==
  /\ \A a \in Analyses : ValuesSound(a)
  /\ MeasuredThere(analysis, told)
  /\ file.is = "saved" => MeasuredThere(file.analysis, file.told)
=============================================================================
