------------------------------- MODULE LtUpdate -------------------------------
(***************************************************************************)
(* The update thread of ltsrv (Update in ltsrv/src/ltsrv.cs) and the runs  *)
(* of ltanalyze it starts (main in ltanalyze/src/ltanalyze.cpp).  An       *)
(* update groups the logs that lie in the folder of a project by product   *)
(* and version; for each group ltanalyze adds the logs to an analysis file *)
(* (.nlz) and writes a report of it (.nlz.json).  When that fails it is    *)
(* tried again log by log.  A log that has been added is moved away or     *)
(* deleted; the reports are what the pages of the server show.             *)
(*                                                                         *)
(* Any call of ltanalyze may fail, before, while or after it writes its    *)
(* files.  ltsrv may be stopped and started again; a call that it waited   *)
(* for is stopped with it or runs on.                                      *)
(*                                                                         *)
(* There is one project.  Of an analysis it matters how often it counts    *)
(* each log.                                                               *)
(***************************************************************************)
EXTENDS Integers

CONSTANTS
  Logs,         \* logs that ltrcv receives
  Groups,       \* products and versions
  GroupOf,      \* the group of each log
  Bad,          \* logs that analyze_file fails for
  Known,        \* groups that have an analysis file from the start
  Early,        \* logs that are in the folder from the start
  MaxMishaps    \* bounds how often ltsrv is stopped, and a call of ltanalyze fails for
                \* another reason than its logs or its analysis file

ASSUME UpdateAssumption ==
  /\ GroupOf \in [Logs -> Groups]
  /\ Bad \subseteq Logs
  /\ Known \subseteq Groups
  /\ Early \subseteq Logs
  /\ MaxMishaps \in Nat

VARIABLES
  saving,    \* logs that ltrcv is writing
  dir,       \* logs in the folder of the project, complete
  done,      \* logs that were moved away or deleted
  ignored,   \* _IgnoredFiles
  nlz,       \* per group: its analysis file
  json,      \* per group: its report
  shown,     \* per group: the report in _Analysis
  pc,        \* where Update is, or the ltanalyze it waits for
  entries,   \* updateEntries of the groups to come
  group,     \* the group at hand
  rest,      \* its logs that are still to be tried one by one
  mode,      \* the option in baseArgs: "-io" or "-o"
  call,      \* the call of ltanalyze: which one, and its logs, until they are moved
  read,      \* the analysis that ltanalyze has read, or a new one
  newHere,   \* anythingNewHere
  updated,   \* anythingUpdated
  orphans,   \* calls of ltanalyze that outlive the ltsrv that waited for them
  restarts,  \* how often ltsrv was stopped
  faults,    \* how often a call failed for another reason
  late,      \* history: calls that failed after they had written the analysis
  behind,    \* history: groups with a call that failed, lost its report or was not
             \* waited for, since ltsrv has last begun to have their report written
  spoilt     \* history: groups with an analysis that was written in part, or
             \* replaced by what an orphan had read before

files == <<saving, dir, done, nlz, json>>
thread == <<pc, entries, group, rest, mode, call, read, newHere, updated>>
mishaps == <<orphans, restarts, faults, late, behind, spoilt>>
vars == <<files, ignored, shown, thread, mishaps>>

-----------------------------------------------------------------------------
(* The contents of a file: how often each log is counted. *)

Whole(count) == [is |-> "whole", count |-> count]
Blank == [l \in Logs |-> 0]
Absent == [is |-> "absent", count |-> Blank]
Torn == [is |-> "torn", count |-> Blank]    \* written in part, and unreadable
Empty == [is |-> "empty", count |-> Blank]  \* a report opened and not written to its end

\* Part of a new analysis in front of the rest of the old one, which can be read all
\* the same: there is no telling what it counts, but for the logs added later.
Mixed == [is |-> "mixed", count |-> Blank]

MaxCount == MaxMishaps + 1

Contents ==
  [is : {"absent", "torn", "empty", "mixed", "whole"}, count : [Logs -> 0 .. MaxCount]]

\* The analysis with the logs added.
Added(analysis, logs) ==
  [analysis EXCEPT !.count = [l \in Logs |-> @[l] + IF l \in logs THEN 1 ELSE 0]]

OfGroup(g, logs) == {l \in logs : GroupOf[l] = g}

UpdatePC == {"idle", "next", "analyze", "write", "report", "failed", "exited",
             "move", "each", "down"}

\* Batch: all logs of the group; Single: one of them, after Batch has failed;
\* Report: none, but the report is written.
Call == [kind : {"Batch", "Single", "Report"}, logs : SUBSET Logs]
NoCall == [kind |-> "Batch", logs |-> {}]

\* Where a call of ltanalyze is: before it reads, writes its analysis or its report.
Running == {"analyze", "write", "report"}

Orphan == [at : Running, group : Groups, mode : {"-io", "-o"}, call : Call, read : Contents]

HasOut(c) == c.kind \in {"Batch", "Report"}

TypeOK ==
  /\ saving \in SUBSET Logs
  /\ dir \in SUBSET Logs
  /\ done \in SUBSET Logs
  /\ ignored \in SUBSET Logs
  /\ nlz \in [Groups -> Contents]
  /\ json \in [Groups -> Contents]
  /\ shown \in [Groups -> Contents]
  /\ pc \in UpdatePC
  /\ entries \in SUBSET Logs
  /\ group \in Groups
  /\ rest \in SUBSET Logs
  /\ mode \in {"-io", "-o"}
  /\ call \in Call
  /\ read \in Contents
  /\ newHere \in BOOLEAN
  /\ updated \in BOOLEAN
  /\ orphans \in SUBSET Orphan
  /\ restarts \in Nat /\ faults \in Nat /\ restarts + faults <= MaxMishaps
  /\ late \in 0 .. faults
  /\ behind \in SUBSET Groups
  /\ spoilt \in SUBSET Groups

\* ReloadData skips a report that it cannot read.
Readable(reports) ==
  [g \in Groups |-> IF reports[g] = Empty THEN Absent ELSE reports[g]]

Init ==
  /\ saving = {}
  /\ dir = Early
  /\ done = {}
  /\ ignored = {}
  /\ nlz = [g \in Groups |-> IF g \in Known THEN Whole(Blank) ELSE Absent]
  /\ json = nlz
  /\ shown = Readable(json)
  /\ pc = "idle"
  /\ entries = {}
  /\ group \in Groups
  /\ rest = {}
  /\ mode = "-io"
  /\ call = NoCall
  /\ read = Absent
  /\ newHere = FALSE
  /\ updated = FALSE
  /\ orphans = {}
  /\ restarts = 0
  /\ faults = 0
  /\ late = 0
  /\ behind = {}
  /\ spoilt = {}

-----------------------------------------------------------------------------
(* ltrcv saves its logs where ltsrv looks for them. *)

Receive(l) ==
  /\ l \notin saving \cup dir \cup done
  /\ saving' = saving \cup {l}
  /\ UNCHANGED <<dir, done, nlz, json, ignored, shown, thread, mishaps>>

Save(l) ==
  /\ l \in saving
  /\ saving' = saving \ {l}
  /\ dir' = dir \cup {l}
  /\ UNCHANGED <<done, nlz, json, ignored, shown, thread, mishaps>>

-----------------------------------------------------------------------------
(* Update *)

\* The project is due.  A log that cannot be opened, as ltrcv is still writing it,
\* is ignored from now on.
Begin ==
  /\ pc = "idle"
  /\ entries' = dir \ ignored
  /\ ignored' = ignored \cup saving
  /\ updated' = FALSE
  /\ pc' = "next"
  /\ UNCHANGED <<files, shown, group, rest, mode, call, read, newHere, mishaps>>

\* Mutant of NextGroup: the analysis file is always made anew.
NextGroup_New(g) ==
  /\ pc = "next"
  /\ OfGroup(g, entries) # {}
  /\ group' = g
  /\ rest' = OfGroup(g, entries)
  /\ entries' = entries \ rest'
  /\ mode' = "-o"
  /\ call' = [kind |-> "Batch", logs |-> rest']
  /\ pc' = "analyze"
  /\ UNCHANGED <<files, ignored, shown, read, newHere, updated, mishaps>>

\* baseArgs are put together once for all calls.
NextGroup(g) ==
  /\ pc = "next"
  /\ OfGroup(g, entries) # {}
  /\ group' = g
  /\ rest' = OfGroup(g, entries)
  /\ entries' = entries \ rest'
  /\ mode' = IF nlz[g].is # "absent" THEN "-io" ELSE "-o"
  /\ call' = [kind |-> "Batch", logs |-> rest']
  /\ pc' = "analyze"
  /\ UNCHANGED <<files, ignored, shown, read, newHere, updated, mishaps>>

\* Mutant of Finish: the reports are not read.
Finish_NoReload ==
  /\ pc = "next"
  /\ entries = {}
  /\ pc' = "idle"
  /\ UNCHANGED <<files, ignored, shown, entries, group, rest, mode, call, read,
                 newHere, updated, mishaps>>

Finish ==
  /\ pc = "next"
  /\ entries = {}
  /\ shown' = IF updated THEN Readable(json) ELSE shown
  /\ pc' = "idle"
  /\ UNCHANGED <<files, ignored, entries, group, rest, mode, call, read, newHere,
                 updated, mishaps>>

-----------------------------------------------------------------------------
(* main of ltanalyze.  The arguments name the analysis file, then the report, *)
(* then the logs, and are acted upon in this order.                           *)

NewFile == mode = "-o"

\* Can the analysis be read, or is it to be a new one?
CanRead(g, m) == m = "-o" \/ nlz[g].is \in {"whole", "mixed"}
Base(g, m) == IF m = "-o" THEN Whole(Blank) ELSE nlz[g]

\* The report is truncated when it is opened.
Opened(g, c) == IF HasOut(c) THEN [json EXCEPT ![g] = Empty] ELSE json

\* There is nothing to report on a new analysis without a log.
Reports(m, c) == HasOut(c) /\ (m = "-o" => c.logs # {})

\* The analysis file is read, unless it is to be new; the report is truncated;
\* and each log is added.
Analyze ==
  /\ pc = "analyze"
  /\ CanRead(group, mode)
  /\ call.logs \cap Bad = {}
  /\ read' = Base(group, mode)
  /\ json' = Opened(group, call)
  /\ behind' = IF Reports(mode, call) THEN behind \ {group} ELSE behind
  /\ pc' = IF call.logs = {} THEN "report" ELSE "write"
  /\ UNCHANGED <<saving, dir, done, nlz, ignored, shown, entries, group, rest, mode,
                 call, newHere, updated, orphans, restarts, faults, late, spoilt>>

\* The first failure ends the process.
AnalyzeFails ==
  /\ pc = "analyze"
  /\ \/ ~CanRead(group, mode) /\ UNCHANGED json
     \/ /\ CanRead(group, mode)
        /\ call.logs \cap Bad # {}
        /\ json' = Opened(group, call)
  /\ pc' = "failed"
  /\ behind' = behind \cup {group}
  /\ UNCHANGED <<saving, dir, done, nlz, ignored, shown, entries, group, rest, mode,
                 call, read, newHere, updated, orphans, restarts, faults, late, spoilt>>

Write ==
  /\ pc = "write"
  /\ nlz' = [nlz EXCEPT ![group] = Added(read, call.logs)]
  /\ pc' = "report"
  /\ UNCHANGED <<saving, dir, done, json, ignored, shown, entries, group, rest,
                 mode, call, read, newHere, updated, mishaps>>

\* A report that an orphan has written since it was opened is overwritten: it may
\* not be readable then.
Report ==
  /\ pc = "report"
  /\ \/ /\ Reports(mode, call)
        /\ \E report \in {Added(read, call.logs)}
                         \cup (IF json[group] = Empty THEN {} ELSE {Empty}) :
             json' = [json EXCEPT ![group] = report]
     \/ /\ ~Reports(mode, call)
        /\ UNCHANGED json
  /\ pc' = "exited"
  /\ read' = Absent
  /\ UNCHANGED <<saving, dir, done, nlz, ignored, shown, entries, group, rest, mode,
                 call, newHere, updated, mishaps>>

\* Nothing of what is printed to the report is checked: the exit code is 0 although
\* it was not written.
ReportIsLost ==
  /\ pc = "report"
  /\ Reports(mode, call)
  /\ restarts + faults < MaxMishaps
  /\ faults' = faults + 1
  /\ behind' = behind \cup {group}
  /\ pc' = "exited"
  /\ read' = Absent
  /\ UNCHANGED <<files, ignored, shown, entries, group, rest, mode, call, newHere,
                 updated, orphans, restarts, late, spoilt>>

\* What a process leaves that ends at "at".  The analysis file is overwritten in
\* place; the report is opened at some time before the first log is read.
CutOff(at, g, c) ==
  /\ \/ UNCHANGED <<nlz, spoilt>>
     \/ /\ at = "write"
        /\ \/ nlz' = [nlz EXCEPT ![g] = Torn]
           \/ nlz[g].is # "absent" /\ nlz' = [nlz EXCEPT ![g] = Mixed]
        /\ spoilt' = spoilt \cup {g}
  /\ \/ UNCHANGED json
     \/ at = "analyze" /\ json' = Opened(g, c)

\* A call that is killed, runs out of memory, or cannot open or write a file.
CallFails ==
  /\ pc \in Running
  /\ restarts + faults < MaxMishaps
  /\ faults' = faults + 1
  /\ CutOff(pc, group, call)
  /\ late' = IF pc = "report" /\ call.logs # {} THEN late + 1 ELSE late
  /\ behind' = behind \cup {group}
  /\ pc' = "failed"
  /\ read' = Absent
  /\ UNCHANGED <<saving, dir, done, ignored, shown, entries, group, rest, mode, call,
                 newHere, updated, orphans, restarts>>

-----------------------------------------------------------------------------
(* A call that ltsrv does not wait for any more, as ltsrv was stopped. *)

OrphanAnalyze(o) ==
  /\ o.at = "analyze"
  /\ CanRead(o.group, o.mode)
  /\ o.call.logs \cap Bad = {}
  /\ orphans' = {[o EXCEPT !.at = IF o.call.logs = {} THEN "report" ELSE "write",
                           !.read = Base(o.group, o.mode)]}
  /\ json' = Opened(o.group, o.call)
  /\ behind' = behind \cup {o.group}
  /\ UNCHANGED <<saving, dir, done, nlz, ignored, shown, thread, restarts, faults, late,
                 spoilt>>

OrphanWrite(o) ==
  /\ o.at = "write"
  /\ orphans' = {[o EXCEPT !.at = "report"]}
  /\ nlz' = [nlz EXCEPT ![o.group] = Added(o.read, o.call.logs)]
  /\ spoilt' = IF nlz[o.group] = o.read THEN spoilt ELSE spoilt \cup {o.group}
  /\ behind' = behind \cup {o.group}
  /\ UNCHANGED <<saving, dir, done, json, ignored, shown, thread, restarts, faults, late>>

OrphanReport(o) ==
  /\ o.at = "report"
  /\ orphans' = {}
  /\ \/ /\ Reports(o.mode, o.call)
        /\ \E report \in {Added(o.read, o.call.logs), Empty} :
             json' = [json EXCEPT ![o.group] = report]
     \/ /\ ~Reports(o.mode, o.call)
        /\ UNCHANGED json
  /\ behind' = behind \cup {o.group}
  /\ UNCHANGED <<saving, dir, done, nlz, ignored, shown, thread, restarts, faults, late,
                 spoilt>>

OrphanFails(o) ==
  /\ orphans' = {}
  /\ CutOff(o.at, o.group, o.call)
  /\ behind' = behind \cup {o.group}
  /\ UNCHANGED <<saving, dir, done, ignored, shown, thread, restarts, faults, late>>

OrphanStep(o) ==
  \/ OrphanAnalyze(o)
  \/ OrphanWrite(o)
  \/ OrphanReport(o)
  \/ OrphanFails(o)

-----------------------------------------------------------------------------
(* What Update does next. *)

\* The exit code was 0.
Succeeded ==
  /\ pc = "exited"
  /\ pc' = IF call.kind = "Report" THEN "next" ELSE "move"
  /\ updated' = (updated \/ call.kind = "Report")
  /\ UNCHANGED <<files, ignored, shown, entries, group, rest, mode, call, read,
                 newHere, mishaps>>

\* Mutants of Failed: the exit code is not looked at; the logs are not tried one
\* by one.
Failed_Ignored ==
  /\ pc = "failed"
  /\ pc' = IF call.kind = "Report" THEN "next" ELSE "move"
  /\ UNCHANGED <<files, ignored, shown, entries, group, rest, mode, call, read,
                 newHere, updated, mishaps>>

Failed_GivesUp ==
  /\ pc = "failed"
  /\ pc' = "next"
  /\ rest' = {}
  /\ newHere' = FALSE
  /\ UNCHANGED <<files, ignored, shown, entries, group, mode, call, read, updated,
                 mishaps>>

\* After the batch has failed each log is tried; a log that fails is left alone.
Failed ==
  /\ pc = "failed"
  /\ CASE call.kind = "Batch"  -> pc' = "each" /\ newHere' = FALSE
       [] call.kind = "Single" -> pc' = "each" /\ UNCHANGED newHere
       [] call.kind = "Report" -> pc' = "next" /\ UNCHANGED newHere
  /\ UNCHANGED <<files, ignored, shown, entries, group, rest, mode, call, read,
                 updated, mishaps>>

\* Mutant of MoveFails: the log is tried again in the next update.
MoveFails_NotIgnored(l) ==
  /\ pc = "move"
  /\ l \in call.logs
  /\ call' = [call EXCEPT !.logs = @ \ {l}]
  /\ UNCHANGED <<files, ignored, shown, pc, entries, group, rest, mode, read, newHere,
                 updated, mishaps>>

MoveFails(l) ==
  /\ pc = "move"
  /\ l \in call.logs
  /\ call' = [call EXCEPT !.logs = @ \ {l}]
  /\ ignored' = ignored \cup {l}
  /\ UNCHANGED <<files, shown, pc, entries, group, rest, mode, read, newHere,
                 updated, mishaps>>

Move(l) ==
  /\ pc = "move"
  /\ l \in call.logs
  /\ call' = [call EXCEPT !.logs = @ \ {l}]
  /\ dir' = dir \ {l}
  /\ done' = done \cup {l}
  /\ UNCHANGED <<saving, nlz, json, ignored, shown, pc, entries, group, rest, mode,
                 read, newHere, updated, mishaps>>

Moved ==
  /\ pc = "move"
  /\ call.logs = {}
  /\ IF call.kind = "Batch"
     THEN pc' = "next" /\ updated' = TRUE /\ UNCHANGED newHere
     ELSE pc' = "each" /\ newHere' = TRUE /\ UNCHANGED updated
  /\ UNCHANGED <<files, ignored, shown, entries, group, rest, mode, call, read,
                 mishaps>>

NextSingle(l) ==
  /\ pc = "each"
  /\ l \in rest
  /\ rest' = rest \ {l}
  /\ call' = [kind |-> "Single", logs |-> {l}]
  /\ pc' = "analyze"
  /\ UNCHANGED <<files, ignored, shown, entries, group, mode, read, newHere,
                 updated, mishaps>>

NoMoreSingles ==
  /\ pc = "each"
  /\ rest = {}
  /\ call' = [kind |-> "Report", logs |-> {}]
  /\ pc' = IF newHere THEN "analyze" ELSE "next"
  /\ UNCHANGED <<files, ignored, shown, entries, group, rest, mode, read, newHere,
                 updated, mishaps>>

-----------------------------------------------------------------------------
\* ltsrv is stopped at any place.  A call of ltanalyze that it waits for is stopped
\* with it, or runs on: one such call at a time.
Stop ==
  /\ pc # "down"
  /\ restarts + faults < MaxMishaps
  /\ restarts' = restarts + 1
  /\ \/ /\ CutOff(pc, group, call)
        /\ UNCHANGED orphans
     \/ /\ pc \in Running
        /\ orphans = {}
        /\ orphans' = {[at |-> pc, group |-> group, mode |-> mode, call |-> call,
                        read |-> read]}
        /\ UNCHANGED <<nlz, json, spoilt>>
  /\ behind' = IF pc \in Running THEN behind \cup {group} ELSE behind
  /\ ignored' = {}
  /\ pc' = "down"
  /\ entries' = {}
  /\ rest' = {}
  /\ mode' = "-io"
  /\ call' = NoCall
  /\ read' = Absent
  /\ newHere' = FALSE
  /\ updated' = FALSE
  /\ UNCHANGED <<saving, dir, done, shown, group, faults, late>>

\* It is started again, and loads the reports first.
Start ==
  /\ pc = "down"
  /\ shown' = Readable(json)
  /\ pc' = "idle"
  /\ UNCHANGED <<files, ignored, entries, group, rest, mode, call, read, newHere,
                 updated, mishaps>>

UpdateStep ==
  \/ Begin
  \/ \E g \in Groups : NextGroup(g)
  \/ Finish
  \/ Analyze
  \/ AnalyzeFails
  \/ Write
  \/ Report
  \/ Succeeded
  \/ Failed
  \/ \E l \in Logs : Move(l) \/ MoveFails(l) \/ NextSingle(l)
  \/ Moved
  \/ NoMoreSingles

Next ==
  \/ \E l \in Logs : Receive(l) \/ Save(l)
  \/ UpdateStep
  \/ CallFails
  \/ ReportIsLost
  \/ \E o \in orphans : OrphanStep(o)
  \/ Stop
  \/ Start

Spec == Init /\ [][Next]_vars

\* The update thread calls Update every second, and ltanalyze ends.
FairSpec == Spec /\ WF_vars(UpdateStep)

-----------------------------------------------------------------------------
(* Properties. *)

\* A log is moved away or deleted only when the analysis counts it, unless an orphan
\* has replaced that.
CountedBeforeMoved ==
  [][\A l \in done' \ done :
       GroupOf[l] \notin spoilt => nlz[GroupOf[l]].count[l] > 0]_vars

\* Where there was an analysis file at first, the logs that are gone stay in it,
\* whatever fails, unless it was written in part or replaced by an orphan.
NothingForgotten ==
  \A l \in done :
    GroupOf[l] \in Known \ spoilt => nlz[GroupOf[l]].count[l] > 0

\* A log is counted once by each run of ltsrv, although the same logs are analyzed
\* again when a batch fails, and a log that cannot be moved stays; and once more for
\* each call that fails when it has written the analysis already.
CountedOncePerRun ==
  \A l \in Logs :
    nlz[GroupOf[l]].is = "whole" => nlz[GroupOf[l]].count[l] <= 1 + restarts + late

\* Between updates the pages show what the analysis holds, but for the groups that
\* a failure has left behind: a bad log, a failed or interrupted call, a lost report,
\* an orphan.  The next report catches up on them.
PagesAreCurrent ==
  pc = "idle" => \A g \in Groups \ behind : shown[g] = nlz[g]

\* Bad logs do not keep the good ones from being analyzed, and neither do calls that
\* fail: those leave the folder, or are ignored as they could not be opened or moved.
GoodLogsLeave ==
  \A l \in Logs \ Bad :
    l \in dir ~> \/ l \in done \cup ignored
                 \/ nlz[GroupOf[l]].is = "torn"
                 \/ pc = "down"

\* "-o <New LT Analyze File>" (the usage message of ltanalyze): the file is not
\* there yet.
NewIsNew == pc = "analyze" /\ NewFile => nlz[group].is = "absent"
=============================================================================
