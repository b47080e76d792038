--------------------------- MODULE LtUpdateProofs ---------------------------
(***************************************************************************)
(* LtUpdate, for any logs and groups, and however often ltsrv is stopped   *)
(* and calls of ltanalyze fail: a log is counted before it leaves the      *)
(* folder, at most once in each run of ltsrv but for calls that fail late, *)
(* and stays in an analysis that was there at first; and the pages show    *)
(* what the analyses hold, but for the groups that a failure has left      *)
(* behind.                                                                 *)
(*                                                                         *)
(* The logs that a run of ltsrv has dealt with (Spent) are none of those   *)
(* that it has yet to analyze (entries, ToTry, ToAdd; see QueueInv).  So a *)
(* log that is about to be analyzed is counted at most once for each stop  *)
(* and each late failure, and once more when it is spent; and an orphan    *)
(* that is to add a log has its stop to itself (Pending, CountInv).        *)
(*                                                                         *)
(* An analysis, its report and the page differ while ltanalyze or the      *)
(* update is at work on them.  PagesInv says which of them is ahead of     *)
(* which, and when, for a group that is not left behind.                   *)
(***************************************************************************)
EXTENDS LtUpdate, TLAPS

-----------------------------------------------------------------------------
Calling == pc \in Running \cup {"exited", "failed", "move"}

\* The logs that the last call has added and that Update has yet to move.
InFlight == IF pc \in {"report", "exited", "move"} THEN call.logs ELSE {}

Spent == done \cup ignored \cup InFlight

\* The logs of the group that are tried one by one, if the call at hand fails.
ToTry ==
  IF \/ pc = "each"
     \/ Calling /\ call.kind # "Batch"
     \/ pc \in Running \cup {"failed"}
  THEN rest ELSE {}

\* The logs of the call at hand, while it has not added them.
ToAdd == IF pc \in {"analyze", "write"} THEN call.logs ELSE {}

FilesInv == dir \cap done = {} /\ saving \cap (dir \cup done) = {}

QueueInv ==
  /\ (entries \cup ToTry \cup ToAdd) \cap (done \cup ignored) = {}
  /\ entries \cap ToTry = {}
  /\ Calling => entries \cap call.logs = {}
  /\ Calling /\ call.kind # "Batch" => rest \cap call.logs = {}
  /\ \A l \in ToTry : GroupOf[l] = group
  /\ Calling => \A l \in call.logs : GroupOf[l] = group
  /\ Calling /\ call.kind = "Report" => call.logs = {}
  /\ entries \cup ToTry \cup ToAdd \cup InFlight \subseteq dir

\* What a call has read and is to write.
ReadInv ==
  /\ \A g \in Groups : nlz[g].is # "empty"
  /\ pc \in {"write", "report"} =>
       /\ read.is \in {"whole", "mixed"}
       /\ Added(read, call.logs) \in Contents
  /\ \A o \in orphans : o.at \in {"write", "report"} =>
       /\ o.read.is \in {"whole", "mixed"}
       /\ Added(o.read, o.call.logs) \in Contents

\* An orphan is to add the log.
Pending(l) ==
  IF \E o \in orphans : o.at \in {"analyze", "write"} /\ l \in o.call.logs
  THEN 1 ELSE 0

\* How often an analysis may count the log.
Room(l) == restarts + late + (IF l \in Spent THEN 1 ELSE 0) - Pending(l)

Fits(count) == \A l \in Logs : count[l] <= Room(l)

CountInv ==
  /\ \A g \in Groups : Fits(nlz[g].count)
  /\ pc = "write" => Fits(read.count)
  /\ \A o \in orphans : o.at = "write" => Fits(o.read.count)
  /\ \A l \in InFlight : group \in spoilt \/ nlz[group].count[l] > 0

KnownInv ==
  /\ \A g \in Known : nlz[g].is # "absent"
  /\ (Calling \/ pc = "each") /\ group \in Known => mode = "-io"
  /\ pc = "write" /\ group \in Known \ spoilt =>
       \A l \in done : GroupOf[l] = group => read.count[l] > 0

\* For a group that is not left behind: the report is what the analysis holds, unless
\* ltanalyze is at work on it; and it is what is shown, unless an update has changed
\* it or ltsrv is down.
PagesInv ==
  /\ \A g \in Groups \ behind :
       /\ json[g] = nlz[g] \/ (g = group /\ pc \in {"write", "report"})
       /\ \/ shown[g] = json[g]
          \/ g = group /\ pc \in {"write", "report", "exited", "move"}
          \/ updated /\ pc # "idle"
          \/ pc = "down"
  /\ \/ pc \in {"each", "failed"}
     \/ pc = "analyze" /\ call.kind # "Batch"
     \/ Calling /\ call.kind = "Single"
     => group \in behind
  /\ pc = "analyze" /\ call.kind = "Batch" => call.logs # {}
  /\ pc = "move" => call.kind # "Report"
  /\ pc \in {"write", "report"} /\ group \notin behind =>
       Reports(mode, call) /\ json[group] = Empty
  /\ pc = "report" /\ group \notin behind => nlz[group] = Added(read, call.logs)

IInv ==
  /\ TypeOK
  /\ FilesInv
  /\ QueueInv
  /\ ReadInv
  /\ CountInv
  /\ KnownInv
  /\ NothingForgotten
  /\ PagesInv

-----------------------------------------------------------------------------
LEMMA BlankContents ==
  /\ MaxCount \in Nat
  /\ Blank \in [Logs -> 0 .. MaxCount]
  /\ Absent \in Contents /\ Torn \in Contents /\ Empty \in Contents /\ Mixed \in Contents
  /\ Whole(Blank) \in Contents
  /\ \A c \in {Absent, Torn, Mixed, Whole(Blank)} : c.count = Blank /\ c.is # "empty"
  /\ Torn.is # "absent" /\ Mixed.is # "absent" /\ Whole(Blank).is = "whole"
<1>1. MaxCount \in Nat
  BY UpdateAssumption DEF MaxCount
<1>2. Blank \in [Logs -> 0 .. MaxCount]
  BY <1>1 DEF Blank
<1>3. QED
  BY <1>1, <1>2 DEF Absent, Torn, Empty, Mixed, Whole, Contents

LEMMA AddedIs ==
  ASSUME NEW analysis \in Contents, NEW logs
  PROVE  /\ Added(analysis, logs).is = analysis.is
         /\ \A l \in Logs : /\ analysis.count[l] \in Nat
                            /\ Added(analysis, logs).count[l]
                                 = analysis.count[l] + (IF l \in logs THEN 1 ELSE 0)
         /\ (\A l \in Logs : Added(analysis, logs).count[l] <= MaxCount)
              => Added(analysis, logs) \in Contents
<1> DEFINE count == [l \in Logs |-> analysis.count[l] + IF l \in logs THEN 1 ELSE 0]
<1>1. Added(analysis, logs) = [is |-> analysis.is, count |-> count]
  BY DEF Added, Contents
<1>2. /\ analysis.is \in {"absent", "torn", "empty", "mixed", "whole"}
      /\ analysis.count \in [Logs -> 0 .. MaxCount]
  BY DEF Contents
<1>3. \A l \in Logs : analysis.count[l] \in Nat
  BY <1>2, BlankContents
<1>4. ASSUME \A l \in Logs : count[l] <= MaxCount
      PROVE  count \in [Logs -> 0 .. MaxCount]
  BY <1>3, <1>4, BlankContents
<1>5. QED
  BY <1>1, <1>2, <1>3, <1>4 DEF Contents

LEMMA AddedNothing ==
  ASSUME NEW analysis \in Contents
  PROVE  Added(analysis, {}) = analysis
<1>1. analysis = [is |-> analysis.is, count |-> analysis.count]
  BY DEF Contents
<1>2. analysis.count = [l \in Logs |-> analysis.count[l]]
  BY DEF Contents
<1>3. \A l \in Logs : analysis.count[l] + 0 = analysis.count[l]
  BY AddedIs
<1>4. [l \in Logs |-> analysis.count[l] + IF l \in {} THEN 1 ELSE 0] = analysis.count
  BY <1>2, <1>3
<1>5. QED
  BY <1>1, <1>4 DEF Added

LEMMA ReadableContents ==
  ASSUME NEW reports \in [Groups -> Contents]
  PROVE  Readable(reports) \in [Groups -> Contents]
BY BlankContents DEF Readable

LEMMA InitInv == Init => IInv
<1> SUFFICES ASSUME Init PROVE IInv
  OBVIOUS
<1>1. nlz \in [Groups -> Contents] /\ \A g \in Groups : nlz[g] \in {Whole(Blank), Absent}
  <2>1. ASSUME NEW g \in Groups
        PROVE  nlz[g] \in {Whole(Blank), Absent}
    BY <2>1 DEF Init
  <2>2. nlz = [g \in Groups |-> nlz[g]]
    BY DEF Init
  <2>3. \A g \in Groups : nlz[g] \in Contents
    BY <2>1, BlankContents, Zenon
  <2>4. QED
    BY <2>1, <2>2, <2>3, Zenon
<1>2. \A g \in Groups : nlz[g].count = Blank /\ nlz[g].is # "empty"
  BY <1>1, BlankContents
<1>3. restarts = 0 /\ faults = 0 /\ late = 0 /\ orphans = {}
  BY DEF Init
<1>4. TypeOK
  <2>1. json \in [Groups -> Contents] /\ shown \in [Groups -> Contents]
    BY <1>1, ReadableContents DEF Init
  <2>2. call \in Call /\ pc \in UpdatePC /\ read \in Contents
    BY BlankContents DEF Init, Call, NoCall, UpdatePC
  <2>3. /\ saving \in SUBSET Logs /\ dir \in SUBSET Logs /\ done \in SUBSET Logs
        /\ ignored \in SUBSET Logs /\ entries \in SUBSET Logs /\ rest \in SUBSET Logs
    BY UpdateAssumption DEF Init
  <2>4. /\ mode \in {"-io", "-o"} /\ newHere \in BOOLEAN /\ updated \in BOOLEAN
        /\ group \in Groups /\ behind \in SUBSET Groups /\ spoilt \in SUBSET Groups
    BY DEF Init
  <2>5. QED
    BY <1>1, <1>3, <2>1, <2>2, <2>3, <2>4, UpdateAssumption DEF TypeOK
<1>5. FilesInv /\ QueueInv /\ NothingForgotten
  BY DEF Init, FilesInv, QueueInv, NothingForgotten, Calling, Running, ToTry, ToAdd,
         InFlight
<1>6. ReadInv
  BY <1>2 DEF Init, ReadInv
<1>7. CountInv
  <2>1. ASSUME NEW g \in Groups
        PROVE  Fits(nlz[g].count)
    <3>1. ASSUME NEW l \in Logs
          PROVE  nlz[g].count[l] = 0 /\ 0 <= Room(l)
      BY <1>2, <1>3, <3>1 DEF Blank, Pending, Room
    <3>2. QED
      BY <3>1 DEF Fits
  <2>2. QED
    BY <1>3, <2>1 DEF Init, CountInv, InFlight
<1>8. KnownInv
  BY UpdateAssumption, BlankContents DEF Init, KnownInv, Calling, Running
<1>9. PagesInv
  <2>1. \A g \in Groups : shown[g] = json[g] /\ json[g] = nlz[g]
    BY <1>2 DEF Init, Readable, Empty
  <2>2. QED
    BY <2>1 DEF Init, PagesInv, Calling, Running
<1>10. QED
  BY <1>4, <1>5, <1>6, <1>7, <1>8, <1>9 DEF IInv

-----------------------------------------------------------------------------
(* What the steps do. *)

LEMMA Numbers ==
  ASSUME TypeOK
  PROVE  /\ restarts \in Nat /\ late \in Nat /\ faults \in Nat /\ MaxMishaps \in Nat
         /\ restarts + late + 1 <= MaxCount
         /\ \A l : Pending(l) \in {0, 1}
BY UpdateAssumption DEF TypeOK, MaxCount, Pending

LEMMA CountsAre ==
  ASSUME NEW analysis \in Contents, NEW l \in Logs
  PROVE  analysis.count[l] \in Nat
BY BlankContents DEF Contents

\* An analysis has room for logs that are not spent, or that an orphan is to add.
LEMMA RoomForLogs ==
  ASSUME TypeOK, NEW analysis \in Contents, Fits(analysis.count), NEW logs,
         \A l \in logs : l \in Spent => Pending(l) = 1
  PROVE  /\ Added(analysis, logs) \in Contents
         /\ \A l \in Logs : Added(analysis, logs).count[l] <= restarts + late + 1
<1>1. ASSUME NEW l \in Logs
      PROVE  Added(analysis, logs).count[l] <= restarts + late + 1
  <2>1. analysis.count[l] <= restarts + late + (IF l \in Spent THEN 1 ELSE 0) - Pending(l)
    BY DEF Fits, Room
  <2>2. /\ Added(analysis, logs).count[l] = analysis.count[l] + (IF l \in logs THEN 1 ELSE 0)
        /\ analysis.count[l] \in Nat
    BY AddedIs
  <2>3. restarts \in Nat /\ late \in Nat /\ Pending(l) \in {0, 1}
    BY Numbers
  <2>4. CASE l \in logs /\ l \in Spent
    BY <2>1, <2>2, <2>3, <2>4
  <2>5. CASE l \in logs /\ l \notin Spent
    BY <2>1, <2>2, <2>3, <2>5
  <2>6. CASE l \notin logs
    BY <2>1, <2>2, <2>3, <2>6
  <2>7. QED
    BY <2>4, <2>5, <2>6
<1>2. ASSUME NEW l \in Logs
      PROVE  Added(analysis, logs).count[l] <= MaxCount
  <2>1. /\ analysis.count[l] \in Nat
        /\ Added(analysis, logs).count[l] = analysis.count[l] + (IF l \in logs THEN 1 ELSE 0)
    BY AddedIs
  <2>2. /\ restarts \in Nat /\ late \in Nat /\ MaxCount \in Nat
        /\ restarts + late + 1 <= MaxCount
    BY Numbers, BlankContents
  <2>3. Added(analysis, logs).count[l] <= restarts + late + 1
    BY <1>1
  <2>4. Added(analysis, logs).count[l] \in Int
    BY <2>1
  <2>5. QED
    BY <2>2, <2>3, <2>4
<1>3. QED
  BY <1>1, <1>2, AddedIs

\* What ltanalyze begins with.
LEMMA BaseIs ==
  ASSUME IInv, NEW g \in Groups, NEW m, CanRead(g, m)
  PROVE  /\ Base(g, m) \in Contents
         /\ Base(g, m).is \in {"whole", "mixed"}
         /\ Fits(Base(g, m).count)
<1>1. TypeOK /\ nlz[g] \in Contents /\ Fits(nlz[g].count)
  BY DEF IInv, TypeOK, CountInv
<1>2. Fits(Blank)
  <2>1. ASSUME NEW l \in Logs
        PROVE  Blank[l] <= Room(l)
    <3>1. nlz[g].count[l] <= Room(l)
      BY <1>1 DEF Fits
    <3>2. nlz[g].count[l] \in Nat /\ Blank[l] = 0
      BY <1>1, CountsAre DEF Blank
    <3>3. Room(l) \in Int
      BY <1>1, Numbers DEF Room
    <3>4. QED
      BY <3>1, <3>2, <3>3
  <2>2. QED
    BY <2>1 DEF Fits
<1>3. CASE m = "-o"
  <2>1. Base(g, m) = Whole(Blank)
    BY <1>3 DEF Base
  <2>2. QED
    BY <1>2, <2>1, BlankContents
<1>4. CASE m # "-o"
  <2>1. Base(g, m) = nlz[g] /\ nlz[g].is \in {"whole", "mixed"}
    BY <1>4 DEF Base, CanRead
  <2>2. QED
    BY <1>1, <2>1
<1>5. QED
  BY <1>3, <1>4

LEMMA AnalyzeEffect ==
  ASSUME IInv, Analyze
  PROVE  /\ read' \in Contents /\ read'.is \in {"whole", "mixed"}
         /\ Fits(read'.count)
         /\ call.logs \cap Spent = {}
         /\ Added(read', call.logs) \in Contents
<1>1. TypeOK /\ group \in Groups /\ CanRead(group, mode) /\ read' = Base(group, mode)
      /\ pc = "analyze"
  BY DEF IInv, TypeOK, Analyze
<1>2. call.logs \cap Spent = {}
  BY <1>1 DEF IInv, QueueInv, ToAdd, Spent, InFlight
<1>3. read' \in Contents /\ read'.is \in {"whole", "mixed"} /\ Fits(read'.count)
  BY <1>1, BaseIs
<1>4. QED
  BY <1>1, <1>2, <1>3, RoomForLogs

\* The end of a call leaves its analysis as it was, or spoils it.
LEMMA CutOffEffect ==
  ASSUME TypeOK, NEW at, NEW g \in Groups, NEW c, CutOff(at, g, c)
  PROVE  /\ nlz' \in [Groups -> Contents]
         /\ json' \in [Groups -> Contents]
         /\ spoilt' \in SUBSET Groups
         /\ spoilt \subseteq spoilt'
         /\ \/ UNCHANGED nlz
            \/ /\ g \in spoilt'
               /\ nlz'[g] \in {Torn, Mixed}
               /\ \A h \in Groups \ {g} : nlz'[h] = nlz[h]
         /\ \A h \in Groups \ {g} : json'[h] = json[h]
<1>1. CASE UNCHANGED <<nlz, spoilt>>
  BY <1>1, BlankContents DEF TypeOK, CutOff, Opened
<1>2. CASE nlz' = [nlz EXCEPT ![g] = Torn] /\ spoilt' = spoilt \cup {g}
  BY <1>2, BlankContents DEF TypeOK, CutOff, Opened
<1>3. CASE nlz' = [nlz EXCEPT ![g] = Mixed] /\ spoilt' = spoilt \cup {g}
  BY <1>3, BlankContents DEF TypeOK, CutOff, Opened
<1>4. QED
  BY <1>1, <1>2, <1>3 DEF CutOff

LEMMA OrphanIs ==
  ASSUME NEW o \in Orphan, NEW at \in Running, NEW r \in Contents
  PROVE  [o EXCEPT !.at = at, !.read = r] \in Orphan
BY DEF Orphan

LEMMA OrphanMoves ==
  ASSUME NEW o \in Orphan, NEW at \in Running
  PROVE  [o EXCEPT !.at = at] \in Orphan
BY DEF Orphan

LEMMA OrphanFields ==
  ASSUME TypeOK, NEW o \in orphans
  PROVE  /\ o \in Orphan /\ o.at \in Running /\ o.group \in Groups
         /\ o.call \in Call /\ o.call.logs \subseteq Logs /\ o.read \in Contents
BY DEF TypeOK, Orphan, Call

\* What an orphan is to write.
LEMMA OrphanReads ==
  ASSUME IInv, NEW o \in orphans, OrphanAnalyze(o)
  PROVE  LET r == Base(o.group, o.mode)
         IN  /\ r \in Contents /\ r.is \in {"whole", "mixed"}
             /\ Fits(r.count)
             /\ Added(r, o.call.logs) \in Contents
<1>1. TypeOK /\ o.group \in Groups /\ CanRead(o.group, o.mode) /\ o.at = "analyze"
  BY OrphanFields DEF IInv, OrphanAnalyze
<1> DEFINE r == Base(o.group, o.mode)
<1>2. r \in Contents /\ r.is \in {"whole", "mixed"} /\ Fits(r.count)
  BY <1>1, BaseIs
<1>3. \A l \in o.call.logs : Pending(l) = 1
  BY <1>1 DEF Pending
<1> HIDE DEF r
<1>4. Added(r, o.call.logs) \in Contents
  BY <1>1, <1>2, <1>3, RoomForLogs
<1>5. QED
  BY <1>2, <1>4 DEF r

-----------------------------------------------------------------------------
LEMMA OrphanType ==
  ASSUME IInv, NEW o \in orphans, OrphanStep(o)
  PROVE  /\ orphans' \in SUBSET Orphan
         /\ nlz' \in [Groups -> Contents] /\ json' \in [Groups -> Contents]
         /\ behind' = behind \cup {o.group} /\ o.group \in Groups
         /\ spoilt' \in SUBSET Groups /\ spoilt \subseteq spoilt'
         /\ UNCHANGED <<saving, dir, done, ignored, shown, thread, restarts, faults, late>>
<1>0. TypeOK
  BY DEF IInv
<1>1. /\ o \in Orphan /\ o.at \in Running /\ o.group \in Groups
      /\ Base(o.group, o.mode) \in Contents \/ ~OrphanAnalyze(o)
  BY <1>0, OrphanFields, OrphanReads
<1>2. CASE OrphanAnalyze(o)
  <2> DEFINE at == IF o.call.logs = {} THEN "report" ELSE "write"
             r  == Base(o.group, o.mode)
  <2>1. orphans' \in SUBSET Orphan
    <3>1. orphans' = {[o EXCEPT !.at = at, !.read = r]}
      BY <1>2 DEF OrphanAnalyze
    <3>2. at \in Running /\ r \in Contents
      BY <1>1, <1>2 DEF Running
    <3> HIDE DEF at, r
    <3>3. [o EXCEPT !.at = at, !.read = r] \in Orphan
      BY <1>1, <3>2, OrphanIs
    <3>4. QED
      BY <3>1, <3>3
  <2>2. QED
    BY <1>0, <1>1, <1>2, <2>1, BlankContents DEF OrphanAnalyze, Opened, TypeOK
<1>3. CASE OrphanWrite(o)
  <2>1. orphans' \in SUBSET Orphan
    BY <1>1, <1>3, OrphanMoves DEF OrphanWrite, Running
  <2>2. Added(o.read, o.call.logs) \in Contents
    BY <1>3 DEF OrphanWrite, IInv, ReadInv
  <2>3. nlz' \in [Groups -> Contents]
    BY <1>0, <1>3, <2>2 DEF OrphanWrite, TypeOK
  <2>4. spoilt' \in SUBSET Groups /\ spoilt \subseteq spoilt'
    BY <1>0, <1>1, <1>3 DEF OrphanWrite, TypeOK
  <2>5. QED
    BY <1>0, <1>1, <1>3, <2>1, <2>3, <2>4 DEF OrphanWrite, TypeOK
<1>4. CASE OrphanReport(o)
  <2>1. Added(o.read, o.call.logs) \in Contents
    BY <1>4 DEF OrphanReport, IInv, ReadInv
  <2>2. json' \in [Groups -> Contents]
    BY <1>0, <1>4, <2>1, BlankContents DEF OrphanReport, TypeOK
  <2>3. QED
    BY <1>0, <1>1, <1>4, <2>2 DEF OrphanReport, TypeOK
<1>5. CASE OrphanFails(o)
  BY <1>0, <1>1, <1>5, CutOffEffect DEF OrphanFails
<1>6. QED
  BY <1>2, <1>3, <1>4, <1>5 DEF OrphanStep

LEMMA NextType == IInv /\ [Next]_vars => TypeOK'
<1> SUFFICES ASSUME IInv, [Next]_vars PROVE TypeOK'
  OBVIOUS
<1>0. TypeOK
  BY DEF IInv
<1>1. ASSUME NEW l \in Logs, Receive(l) \/ Save(l)
      PROVE  TypeOK'
  BY <1>0, <1>1 DEF TypeOK, Receive, Save, thread, mishaps
<1>2. CASE Begin
  BY <1>0, <1>2 DEF TypeOK, Begin, files, mishaps, UpdatePC
<1>3. ASSUME NEW g \in Groups, NextGroup(g)
      PROVE  TypeOK'
  <2>1. rest' \in SUBSET Logs /\ entries' \in SUBSET Logs
    BY <1>0, <1>3 DEF TypeOK, NextGroup, OfGroup
  <2>2. call' \in Call
    BY <1>3, <2>1 DEF NextGroup, Call
  <2>3. QED
    BY <1>0, <1>3, <2>1, <2>2 DEF TypeOK, NextGroup, files, mishaps, UpdatePC
<1>4. CASE Finish
  BY <1>0, <1>4, ReadableContents DEF TypeOK, Finish, files, mishaps, UpdatePC
<1>5. CASE Analyze
  <2>1. read' \in Contents
    BY <1>5, AnalyzeEffect
  <2>2. json' \in [Groups -> Contents]
    BY <1>0, <1>5, BlankContents DEF TypeOK, Analyze, Opened
  <2>3. QED
    BY <1>0, <1>5, <2>1, <2>2 DEF TypeOK, Analyze, UpdatePC
<1>6. CASE AnalyzeFails
  <2>1. json' \in [Groups -> Contents]
    BY <1>0, <1>6, BlankContents DEF TypeOK, AnalyzeFails, Opened
  <2>2. QED
    BY <1>0, <1>6, <2>1 DEF TypeOK, AnalyzeFails, UpdatePC
<1>7. CASE Write
  <2>1. Added(read, call.logs) \in Contents
    BY <1>7 DEF Write, IInv, ReadInv
  <2>2. nlz' \in [Groups -> Contents]
    BY <1>0, <1>7, <2>1 DEF TypeOK, Write
  <2>3. QED
    BY <1>0, <1>7, <2>2 DEF TypeOK, Write, UpdatePC, mishaps
<1>8. CASE Report
  <2>1. Added(read, call.logs) \in Contents
    BY <1>8 DEF Report, IInv, ReadInv
  <2>2. json' \in [Groups -> Contents]
    BY <1>0, <1>8, <2>1, BlankContents DEF TypeOK, Report
  <2>3. /\ pc' = "exited" /\ read' = Absent
        /\ UNCHANGED <<saving, dir, done, nlz, ignored, shown, entries, group, rest,
                       mode, call, newHere, updated, mishaps>>
    BY <1>8 DEF Report
  <2>4. QED
    BY <1>0, <2>2, <2>3, BlankContents DEF TypeOK, UpdatePC, mishaps
<1>9. CASE ReportIsLost
  <2>1. faults' = faults + 1 /\ restarts + faults < MaxMishaps
    BY <1>9 DEF ReportIsLost
  <2>2. /\ faults' \in Nat /\ restarts + faults' <= MaxMishaps /\ late \in 0 .. faults'
    BY <1>0, <2>1, UpdateAssumption DEF TypeOK
  <2>3. QED
    BY <1>0, <1>9, <2>2, BlankContents DEF TypeOK, ReportIsLost, UpdatePC, files
<1>10. CASE CallFails
  <2>1. /\ faults' = faults + 1 /\ restarts + faults < MaxMishaps
        /\ late' \in {late, late + 1}
    BY <1>10 DEF CallFails
  <2>2. /\ faults' \in Nat /\ restarts + faults' <= MaxMishaps /\ late' \in 0 .. faults'
    BY <1>0, <2>1, UpdateAssumption DEF TypeOK
  <2>3. CutOff(pc, group, call) /\ group \in Groups
    BY <1>0, <1>10 DEF CallFails, TypeOK
  <2>4. /\ nlz' \in [Groups -> Contents] /\ json' \in [Groups -> Contents]
        /\ spoilt' \in SUBSET Groups
    BY <1>0, <2>3, CutOffEffect
  <2>5. /\ pc' = "failed" /\ read' = Absent /\ behind' = behind \cup {group}
        /\ UNCHANGED <<saving, dir, done, ignored, shown, entries, group, rest, mode,
                       call, newHere, updated, orphans, restarts>>
    BY <1>10 DEF CallFails
  <2>6. QED
    BY <1>0, <2>2, <2>4, <2>5, BlankContents DEF TypeOK, UpdatePC
<1>11. ASSUME NEW o \in orphans, OrphanStep(o)
       PROVE  TypeOK'
  <2>1. /\ orphans' \in SUBSET Orphan
        /\ nlz' \in [Groups -> Contents] /\ json' \in [Groups -> Contents]
        /\ behind' = behind \cup {o.group} /\ o.group \in Groups
        /\ spoilt' \in SUBSET Groups
        /\ UNCHANGED <<saving, dir, done, ignored, shown, thread, restarts, faults, late>>
    BY <1>11, OrphanType
  <2>2. QED
    BY <1>0, <2>1 DEF TypeOK, thread
<1>12. CASE Succeeded \/ Failed
  <2>1. CASE Succeeded
    BY <1>0, <2>1 DEF TypeOK, Succeeded, files, mishaps, UpdatePC
  <2>2. CASE Failed
    <3>1. call.kind \in {"Batch", "Single", "Report"}
      BY <1>0 DEF TypeOK, Call
    <3>2. pc' \in UpdatePC /\ (newHere' = FALSE \/ UNCHANGED newHere)
      BY <2>2, <3>1 DEF Failed, UpdatePC
    <3>3. newHere' \in BOOLEAN
      BY <1>0, <3>2 DEF TypeOK
    <3>4. UNCHANGED <<files, ignored, shown, entries, group, rest, mode, call, read,
                      updated, mishaps>>
      BY <2>2 DEF Failed
    <3>5. QED
      BY <1>0, <3>2, <3>3, <3>4 DEF TypeOK, files, mishaps
  <2>3. QED
    BY <1>12, <2>1, <2>2
<1>13. ASSUME NEW l \in Logs, Move(l) \/ MoveFails(l)
       PROVE  TypeOK'
  <2>1. call' \in Call
    BY <1>0, <1>13 DEF TypeOK, Move, MoveFails, Call
  <2>2. QED
    BY <1>0, <1>13, <2>1 DEF TypeOK, Move, MoveFails, files, mishaps
<1>14. ASSUME NEW l \in Logs, NextSingle(l)
       PROVE  TypeOK'
  <2>1. call' \in Call
    BY <1>14 DEF NextSingle, Call
  <2>2. QED
    BY <1>0, <1>14, <2>1 DEF TypeOK, NextSingle, files, mishaps, UpdatePC
<1>15. CASE Moved
  BY <1>0, <1>15 DEF TypeOK, Moved, files, mishaps, UpdatePC
<1>16. CASE NoMoreSingles
  <2>1. call' \in Call
    BY <1>16 DEF NoMoreSingles, Call
  <2>2. QED
    BY <1>0, <1>16, <2>1 DEF TypeOK, NoMoreSingles, files, mishaps, UpdatePC
<1>17. CASE Stop
  <2>1. /\ nlz' \in [Groups -> Contents] /\ json' \in [Groups -> Contents]
        /\ spoilt' \in SUBSET Groups /\ orphans' \in SUBSET Orphan
    <3>1. CASE CutOff(pc, group, call) /\ UNCHANGED orphans
      BY <1>0, <3>1, CutOffEffect DEF TypeOK
    <3>2. CASE /\ pc \in Running /\ UNCHANGED <<nlz, json, spoilt>>
               /\ orphans' = {[at |-> pc, group |-> group, mode |-> mode, call |-> call,
                               read |-> read]}
      BY <1>0, <3>2 DEF TypeOK, Orphan
    <3>3. QED
      BY <1>17, <3>1, <3>2 DEF Stop
  <2>2. restarts' = restarts + 1 /\ restarts + faults < MaxMishaps
    BY <1>17 DEF Stop
  <2>3. restarts' \in Nat /\ restarts' + faults <= MaxMishaps
    BY <1>0, <2>2, UpdateAssumption DEF TypeOK
  <2>4. call' \in Call /\ behind' \in SUBSET Groups
    BY <1>0, <1>17 DEF Stop, NoCall, Call, TypeOK
  <2>5. /\ ignored' = {} /\ pc' = "down" /\ entries' = {} /\ rest' = {} /\ mode' = "-io"
        /\ read' = Absent /\ newHere' = FALSE /\ updated' = FALSE
        /\ UNCHANGED <<saving, dir, done, shown, group, faults, late>>
    BY <1>17 DEF Stop
  <2>6. QED
    BY <1>0, <2>1, <2>3, <2>4, <2>5, BlankContents DEF TypeOK, UpdatePC
<1>18. CASE Start
  BY <1>0, <1>18, ReadableContents DEF TypeOK, Start, files, mishaps, UpdatePC
<1>19. CASE UNCHANGED vars
  BY <1>0, <1>19 DEF TypeOK, vars, files, thread, mishaps
<1>20. QED
  BY <1>1, <1>2, <1>3, <1>4, <1>5, <1>6, <1>7, <1>8, <1>9, <1>10, <1>11, <1>12,
     <1>13, <1>14, <1>15, <1>16, <1>17, <1>18, <1>19 DEF Next, UpdateStep

-----------------------------------------------------------------------------
(* The queue. *)

LEMMA NextFiles == IInv /\ [Next]_vars => FilesInv'
<1> SUFFICES ASSUME IInv, [Next]_vars PROVE FilesInv'
  OBVIOUS
<1> USE DEF FilesInv
<1>0. TypeOK /\ FilesInv /\ QueueInv
  BY DEF IInv
<1>1. ASSUME NEW l \in Logs, Receive(l) \/ Save(l) \/ Move(l)
      PROVE  FilesInv'
  <2>1. CASE Receive(l)
    BY <1>0, <2>1 DEF Receive
  <2>2. CASE Save(l)
    BY <1>0, <2>2 DEF Save
  <2>3. CASE Move(l)
    <3>1. l \in dir
      BY <1>0, <2>3 DEF Move, QueueInv, InFlight
    <3>2. QED
      BY <1>0, <2>3, <3>1 DEF Move
  <2>4. QED
    BY <1>1, <2>1, <2>2, <2>3
<1>2. CASE UNCHANGED <<saving, dir, done>>
  BY <1>0, <1>2
<1>3. (\E l \in Logs : Receive(l) \/ Save(l) \/ Move(l)) \/ UNCHANGED <<saving, dir, done>>
  BY DEF Next, UpdateStep, Begin, NextGroup, Finish, Analyze, Write, Report,
     Succeeded, Failed, MoveFails, NextSingle, Moved, NoMoreSingles, AnalyzeFails,
     CallFails, ReportIsLost, OrphanStep, OrphanAnalyze, OrphanWrite, OrphanReport,
     OrphanFails, Stop, Start, vars, files
<1>4. QED
  BY <1>1, <1>2, <1>3

LEMMA NextQueue == IInv /\ [Next]_vars => QueueInv'
<1> SUFFICES ASSUME IInv, [Next]_vars PROVE QueueInv'
  OBVIOUS
<1> USE DEF QueueInv, InFlight, ToTry, ToAdd, Calling, Running
<1>0. TypeOK /\ FilesInv /\ QueueInv
  BY DEF IInv
<1>1. ASSUME NEW l \in Logs, Receive(l) \/ Save(l)
      PROVE  QueueInv'
  <2>1. UNCHANGED <<done, ignored, thread>> /\ dir \subseteq dir'
    BY <1>1 DEF Receive, Save
  <2>2. QED
    BY <1>0, <2>1 DEF thread
<1>2. CASE Begin
  BY <1>0, <1>2 DEF Begin, files, FilesInv
<1>3. ASSUME NEW g \in Groups, NextGroup(g)
      PROVE  QueueInv'
  <2>1. /\ rest' = OfGroup(g, entries) /\ call'.logs = rest' /\ call'.kind = "Batch"
        /\ entries' = entries \ rest' /\ group' = g /\ pc' = "analyze"
        /\ UNCHANGED <<dir, done, ignored>> /\ pc = "next"
    BY <1>3 DEF NextGroup, files
  <2>2. entries \cap (done \cup ignored) = {} /\ entries \subseteq dir
    BY <1>0, <2>1
  <2>3. \A l \in rest' : l \in entries /\ GroupOf[l] = g
    BY <2>1 DEF OfGroup
  <2>4. QED
    BY <2>1, <2>2, <2>3
<1>4. CASE Finish
  BY <1>0, <1>4 DEF Finish, files
<1>5. CASE Analyze \/ AnalyzeFails
  <2>1. /\ UNCHANGED <<dir, done, ignored, entries, rest, call, group>>
        /\ pc = "analyze" /\ pc' \in {"failed", "report", "write"}
        /\ pc' = "report" => call.logs = {}
    BY <1>5 DEF Analyze, AnalyzeFails
  <2>2. QED
    BY <1>0, <2>1
<1>6. CASE Write \/ Report \/ ReportIsLost \/ CallFails
  <2>1. /\ UNCHANGED <<dir, done, ignored, entries, rest, call, group>>
        /\ \/ pc \in {"write", "report"} /\ pc' \in {"report", "exited"}
           \/ pc \in Running /\ pc' = "failed"
    BY <1>6 DEF Write, Report, ReportIsLost, CallFails, files
  <2>2. QED
    BY <1>0, <2>1
<1>7. CASE Succeeded
  <2>1. /\ UNCHANGED <<dir, done, ignored, entries, rest, call, group>>
        /\ pc = "exited" /\ pc' \in {"move", "next"}
        /\ pc' = "next" => call.kind = "Report"
    BY <1>7 DEF Succeeded, files
  <2>2. QED
    BY <1>0, <2>1
<1>8. CASE Failed
  <2>1. /\ UNCHANGED <<dir, done, ignored, entries, rest, call, group>>
        /\ pc = "failed" /\ pc' \in {"each", "next"}
    BY <1>0, <1>8 DEF Failed, files, TypeOK, Call
  <2>2. QED
    BY <1>0, <2>1
<1>9. ASSUME NEW l \in Logs, Move(l) \/ MoveFails(l)
      PROVE  QueueInv'
  <2>1. /\ UNCHANGED <<pc, entries, rest, group>>
        /\ pc = "move" /\ l \in call.logs
        /\ call'.logs = call.logs \ {l} /\ call'.kind = call.kind
        /\ done' \cup ignored' = done \cup ignored \cup {l}
        /\ dir \ {l} \subseteq dir'
    BY <1>0, <1>9 DEF Move, MoveFails, files, TypeOK, Call
  <2>2. QED
    BY <1>0, <2>1
<1>10. ASSUME NEW l \in Logs, NextSingle(l)
       PROVE  QueueInv'
  <2>1. /\ UNCHANGED <<dir, done, ignored, entries, group>>
        /\ pc = "each" /\ pc' = "analyze" /\ l \in rest /\ rest' = rest \ {l}
        /\ call'.logs = {l} /\ call'.kind = "Single"
    BY <1>10 DEF NextSingle, files
  <2>2. QED
    BY <1>0, <2>1
<1>11. CASE Moved
  <2>1. /\ UNCHANGED <<dir, done, ignored, entries, rest, call, group>>
        /\ pc = "move" /\ pc' \in {"each", "next"}
        /\ pc' = "each" => call.kind # "Batch"
    BY <1>11 DEF Moved, files
  <2>2. QED
    BY <1>0, <2>1
<1>12. CASE NoMoreSingles
  <2>1. /\ UNCHANGED <<dir, done, ignored, entries, rest, group>>
        /\ pc' \in {"analyze", "next"} /\ rest = {}
        /\ call'.logs = {}
    BY <1>12 DEF NoMoreSingles, files
  <2>2. QED
    BY <1>0, <1>12, <2>1 DEF NoMoreSingles
<1>13. CASE Stop
  <2>1. pc' = "down" /\ entries' = {} /\ rest' = {}
    BY <1>13 DEF Stop
  <2>2. QED
    BY <2>1
<1>14. CASE Start
  BY <1>0, <1>14 DEF Start, files
<1>15. ASSUME NEW o \in orphans, OrphanStep(o)
       PROVE  QueueInv'
  <2>1. UNCHANGED <<dir, done, ignored, thread>>
    BY <1>15, OrphanType
  <2>2. QED
    BY <1>0, <2>1 DEF thread
<1>16. CASE UNCHANGED vars
  BY <1>0, <1>16 DEF vars, files, thread
<1>17. QED
  BY <1>1, <1>2, <1>3, <1>4, <1>5, <1>6, <1>7, <1>8, <1>9, <1>10, <1>11, <1>12,
     <1>13, <1>14, <1>15, <1>16 DEF Next, UpdateStep

-----------------------------------------------------------------------------
(* Most steps write no analysis. *)

Quiet ==
  /\ UNCHANGED <<nlz, orphans, spoilt, restarts, late>>
  /\ Spent \subseteq Spent'
  /\ pc' \in {"write", "report"} => UNCHANGED <<pc, read, call, group, mode, done>>
  /\ InFlight' \subseteq InFlight
  /\ InFlight' # {} => group' = group

LEMMA StepIsQuiet ==
  ASSUME IInv, [Next]_vars
  PROVE  \/ Quiet
         \/ Analyze \/ Write \/ CallFails \/ Stop
         \/ \E o \in orphans : OrphanStep(o)
<1> USE DEF Quiet, Spent, InFlight, mishaps
<1>0. TypeOK /\ QueueInv
  BY DEF IInv
<1>1. ASSUME NEW l \in Logs, Receive(l) \/ Save(l)
      PROVE  Quiet
  BY <1>1 DEF Receive, Save, thread
<1>2. CASE Begin
  BY <1>2 DEF Begin, files
<1>3. ASSUME NEW g \in Groups, NextGroup(g)
      PROVE  Quiet
  BY <1>3 DEF NextGroup, files
<1>4. CASE Finish
  BY <1>4 DEF Finish, files
<1>5. CASE Report \/ ReportIsLost
  BY <1>5 DEF Report, ReportIsLost, files
<1>6. CASE AnalyzeFails
  BY <1>6 DEF AnalyzeFails
<1>7. CASE Succeeded
  BY <1>0, <1>7 DEF Succeeded, files, QueueInv, Calling
<1>8. CASE Failed
  <2>1. /\ UNCHANGED <<nlz, done, ignored, mishaps>>
        /\ pc = "failed" /\ pc' \in {"each", "next"}
    BY <1>0, <1>8 DEF Failed, files, TypeOK, Call
  <2>2. QED
    BY <2>1
<1>9. ASSUME NEW l \in Logs, Move(l) \/ MoveFails(l)
      PROVE  Quiet
  <2>1. /\ UNCHANGED <<nlz, mishaps, pc, group>>
        /\ pc = "move" /\ l \in call.logs
        /\ call'.logs = call.logs \ {l}
        /\ done' \cup ignored' = done \cup ignored \cup {l}
    BY <1>0, <1>9 DEF Move, MoveFails, files, TypeOK, Call
  <2>2. QED
    BY <2>1
<1>10. ASSUME NEW l \in Logs, NextSingle(l)
       PROVE  Quiet
  BY <1>10 DEF NextSingle, files
<1>11. CASE Moved
  <2>1. /\ UNCHANGED <<nlz, done, ignored, mishaps>>
        /\ pc = "move" /\ call.logs = {} /\ pc' \in {"each", "next"}
    BY <1>11 DEF Moved, files
  <2>2. QED
    BY <2>1
<1>12. CASE NoMoreSingles
  <2>1. /\ UNCHANGED <<nlz, done, ignored, mishaps>>
        /\ pc = "each" /\ pc' \in {"analyze", "next"}
    BY <1>12 DEF NoMoreSingles, files
  <2>2. QED
    BY <2>1
<1>13. CASE Start
  BY <1>13 DEF Start, files
<1>14. CASE UNCHANGED vars
  BY <1>14 DEF vars, files, thread
<1>15. QED
  BY <1>1, <1>2, <1>3, <1>4, <1>5, <1>6, <1>7, <1>8, <1>9, <1>10, <1>11, <1>12,
     <1>13, <1>14 DEF Next, UpdateStep

LEMMA NextRead == IInv /\ [Next]_vars => ReadInv'
<1> SUFFICES ASSUME IInv, [Next]_vars PROVE ReadInv'
  OBVIOUS
<1> DEFINE Analyses == \A g \in Groups : nlz'[g].is # "empty"
           Reading == pc' \in {"write", "report"} =>
                        /\ read'.is \in {"whole", "mixed"}
                        /\ Added(read', call'.logs) \in Contents
           Orphans == \A n \in orphans' : n.at \in {"write", "report"} =>
                        /\ n.read.is \in {"whole", "mixed"}
                        /\ Added(n.read, n.call.logs) \in Contents
<1>0. TypeOK /\ ReadInv /\ group \in Groups
  BY DEF IInv, TypeOK
<1>1. CASE Quiet
  BY <1>0, <1>1 DEF Quiet, ReadInv
<1>2. CASE Analyze
  <2>1. /\ UNCHANGED <<nlz, orphans, call>>
        /\ read'.is \in {"whole", "mixed"} /\ Added(read', call.logs) \in Contents
    BY <1>2, AnalyzeEffect DEF Analyze
  <2>2. QED
    BY <1>0, <2>1 DEF ReadInv
<1>3. CASE Write
  <2>1. /\ UNCHANGED <<orphans, call, read>> /\ pc = "write"
        /\ nlz' = [nlz EXCEPT ![group] = Added(read, call.logs)]
    BY <1>3 DEF Write, mishaps
  <2>2. Added(read, call.logs).is \in {"whole", "mixed"}
    <3>1. read \in Contents /\ read.is \in {"whole", "mixed"}
      BY <1>0, <2>1 DEF TypeOK, ReadInv
    <3>2. QED
      BY <3>1, AddedIs
  <2>3. Analyses
    BY <1>0, <2>1, <2>2 DEF ReadInv, TypeOK
  <2>4. QED
    BY <1>0, <2>1, <2>3 DEF ReadInv
<1>4. CASE CallFails
  <2>1. CutOff(pc, group, call) /\ pc' = "failed" /\ UNCHANGED orphans
    BY <1>4 DEF CallFails
  <2>2. Analyses
    BY <1>0, <2>1, CutOffEffect, BlankContents DEF ReadInv
  <2>3. QED
    BY <1>0, <2>1, <2>2 DEF ReadInv
<1>5. CASE Stop
  <2>1. pc' = "down"
    BY <1>5 DEF Stop
  <2>2. CASE CutOff(pc, group, call) /\ UNCHANGED orphans
    <3>1. Analyses
      BY <1>0, <2>2, CutOffEffect, BlankContents DEF ReadInv
    <3>2. QED
      BY <1>0, <2>1, <2>2, <3>1 DEF ReadInv
  <2>3. CASE /\ UNCHANGED nlz
             /\ orphans' = {[at |-> pc, group |-> group, mode |-> mode, call |-> call,
                             read |-> read]}
    BY <1>0, <2>1, <2>3 DEF ReadInv
  <2>4. QED
    BY <1>5, <2>2, <2>3 DEF Stop
<1>6. ASSUME NEW o \in orphans, OrphanStep(o)
      PROVE  ReadInv'
  <2>0. /\ o \in Orphan /\ o.group \in Groups /\ o.read \in Contents
        /\ UNCHANGED thread
    BY <1>0, <1>6, OrphanFields, OrphanType
  <2>1. Reading
    BY <1>0, <2>0 DEF ReadInv, thread
  <2>2. CASE OrphanAnalyze(o)
    <3> DEFINE at == IF o.call.logs = {} THEN "report" ELSE "write"
               r  == Base(o.group, o.mode)
    <3>1. /\ UNCHANGED nlz /\ orphans' = {[o EXCEPT !.at = at, !.read = r]}
          /\ at \in Running
      BY <2>2 DEF OrphanAnalyze, Running
    <3>2. /\ r \in Contents /\ r.is \in {"whole", "mixed"}
          /\ Added(r, o.call.logs) \in Contents
      BY <2>2, OrphanReads
    <3> HIDE DEF at, r
    <3>3. Orphans
      <4> DEFINE n == [o EXCEPT !.at = at, !.read = r]
      <4>1. n.read = r /\ n.call = o.call
        BY <2>0 DEF Orphan
      <4>2. orphans' = {n}
        BY <3>1
      <4> HIDE DEF n
      <4>3. QED
        BY <3>2, <4>1, <4>2
    <3>4. QED
      BY <1>0, <2>1, <3>1, <3>3 DEF ReadInv
  <2>3. CASE OrphanWrite(o)
    <3>1. /\ orphans' = {[o EXCEPT !.at = "report"]} /\ o.at = "write"
          /\ nlz' = [nlz EXCEPT ![o.group] = Added(o.read, o.call.logs)]
      BY <2>3 DEF OrphanWrite
    <3>2. o.read.is \in {"whole", "mixed"} /\ Added(o.read, o.call.logs) \in Contents
      BY <1>0, <3>1 DEF ReadInv
    <3>3. Added(o.read, o.call.logs).is \in {"whole", "mixed"}
      BY <2>0, <3>2, AddedIs
    <3>4. Orphans
      <4> DEFINE n == [o EXCEPT !.at = "report"]
      <4>1. n.read = o.read /\ n.call = o.call
        BY <2>0 DEF Orphan
      <4>2. orphans' = {n}
        BY <3>1
      <4> HIDE DEF n
      <4>3. QED
        BY <3>1, <3>2, <4>1, <4>2 DEF ReadInv
    <3>5. Analyses
      BY <1>0, <3>1, <3>3 DEF ReadInv, TypeOK
    <3>6. QED
      BY <2>1, <3>4, <3>5 DEF ReadInv
  <2>4. CASE OrphanReport(o)
    BY <1>0, <2>1, <2>4 DEF OrphanReport, ReadInv
  <2>5. CASE OrphanFails(o)
    <3>1. CutOff(o.at, o.group, o.call) /\ orphans' = {}
      BY <2>5 DEF OrphanFails
    <3>2. Analyses
      BY <1>0, <2>0, <3>1, CutOffEffect, BlankContents DEF ReadInv
    <3>3. QED
      BY <2>1, <3>1, <3>2 DEF ReadInv
  <2>6. QED
    BY <1>6, <2>2, <2>3, <2>4, <2>5 DEF OrphanStep
<1>7. QED
  BY <1>1, <1>2, <1>3, <1>4, <1>5, <1>6, StepIsQuiet

-----------------------------------------------------------------------------
(* The counts. *)

LEMMA Sums ==
  ASSUME NEW a \in Int, NEW b \in Int, NEW t \in {0, 1}, NEW u \in {0, 1},
         NEW p \in {0, 1}, NEW q \in {0, 1}
  PROVE  /\ a <= b /\ t <= u /\ q <= p => a + t - p <= b + u - q
         /\ a + 1 = b /\ q <= p => a + t - p <= b + u - q
         /\ a + 1 = b /\ t = 0 /\ q = 1 => a + t - p <= b + u - q
         /\ a <= b /\ t < u /\ q <= p => a + t - p + 1 <= b + u - q
         /\ a <= b /\ t <= u /\ q < p => a + t - p + 1 <= b + u - q
OBVIOUS

LEMMA RoomGrows ==
  ASSUME IInv, [Next]_vars, NEW l \in Logs
  PROVE  /\ Room(l) \in Int /\ Room(l)' \in Int /\ Room(l) <= Room(l)'
         /\ Write /\ l \in call.logs => Room(l) + 1 <= Room(l)'
         /\ \A o \in orphans :
              OrphanWrite(o) /\ l \in o.call.logs => Room(l) + 1 <= Room(l)'
<1> DEFINE T == IF l \in Spent THEN 1 ELSE 0
           P == Pending(l)
<1>0. TypeOK /\ QueueInv /\ TypeOK'
  BY NextType DEF IInv
<1>1. PICK a \in Int, b \in Int, t \in {0, 1}, u \in {0, 1}, p \in {0, 1}, q \in {0, 1} :
        /\ a = restarts + late /\ t = T /\ p = P /\ Room(l) = a + t - p
        /\ b = (restarts + late)' /\ u = T' /\ q = P' /\ Room(l)' = b + u - q
  <2>1. restarts + late \in Int /\ (restarts + late)' \in Int
    BY <1>0, Numbers DEF TypeOK
  <2>2. T \in {0, 1} /\ T' \in {0, 1} /\ P \in {0, 1} /\ P' \in {0, 1}
    BY DEF Pending
  <2>3. Room(l) = restarts + late + T - P /\ Room(l)' = (restarts + late)' + T' - P'
    BY DEF Room
  <2> HIDE DEF T, P
  <2>4. QED
    BY <2>1, <2>2, <2>3
<1>2. CASE Quiet
  <2>1. UNCHANGED <<restarts, late>> /\ P' = P /\ T <= T'
    BY <1>2 DEF Quiet, Pending
  <2>2. ~Write /\ \A o \in orphans : ~OrphanWrite(o)
    BY <1>0, <1>2 DEF Quiet, Write, OrphanWrite, TypeOK, Orphan
  <2> HIDE DEF T, P
  <2>3. a = b /\ t <= u /\ q = p
    BY <1>1, <2>1
  <2>4. QED
    BY <1>1, <2>2, <2>3, Sums
<1>3. CASE Analyze
  <2>1. /\ UNCHANGED <<orphans, restarts, late, done, ignored, call>>
        /\ pc = "analyze" /\ pc' \in {"report", "write"} /\ (pc' = "report" => call.logs = {})
    BY <1>3 DEF Analyze
  <2>2. P' = P /\ T' = T
    BY <2>1 DEF Pending, Spent, InFlight
  <2>3. ~Write /\ \A o \in orphans : ~OrphanWrite(o)
    BY <2>1 DEF Write, OrphanWrite, thread
  <2> HIDE DEF T, P
  <2>4. a = b /\ t = u /\ q = p
    BY <1>1, <2>1, <2>2
  <2>5. QED
    BY <1>1, <2>3, <2>4, Sums
<1>4. CASE Write
  <2>1. /\ UNCHANGED <<orphans, restarts, late, done, ignored, call>>
        /\ pc = "write" /\ pc' = "report"
    BY <1>4 DEF Write, mishaps
  <2>2. P' = P /\ T <= T'
    BY <2>1 DEF Pending, Spent, InFlight
  <2>3. l \in call.logs => T = 0 /\ T' = 1
    BY <1>0, <2>1 DEF Spent, InFlight, QueueInv, ToAdd
  <2>4. \A o \in orphans : ~OrphanWrite(o)
    BY <2>1 DEF OrphanWrite, thread
  <2> HIDE DEF T, P
  <2>5. a = b /\ t <= u /\ q = p /\ (l \in call.logs => t < u)
    BY <1>1, <2>1, <2>2, <2>3
  <2>6. QED
    BY <1>1, <2>4, <2>5, Sums
<1>5. CASE CallFails
  <2>1. /\ UNCHANGED <<orphans, restarts, done, ignored>>
        /\ pc \in Running /\ pc' = "failed"
        /\ late' = IF pc = "report" /\ call.logs # {} THEN late + 1 ELSE late
    BY <1>5 DEF CallFails
  <2>2. P' = P
    BY <2>1 DEF Pending
  <2>3. l \notin InFlight => T' = T
    BY <2>1 DEF Spent, InFlight
  <2>4. l \in InFlight => late' = late + 1
    BY <2>1 DEF InFlight, Running
  <2>5. late' = late \/ late' = late + 1
    BY <2>1
  <2>6. ~Write /\ \A o \in orphans : ~OrphanWrite(o)
    BY <2>1 DEF Write, OrphanWrite, thread, Running
  <2> HIDE DEF T, P
  <2>7. q = p /\ (l \notin InFlight => t = u) /\ (l \in InFlight => b = a + 1) /\ a <= b
    <3>1. restarts \in Nat /\ late \in Nat /\ UNCHANGED restarts
      BY <1>0, <2>1, Numbers
    <3>2. late' = late => b = a
      BY <1>1, <3>1
    <3>3. late' = late + 1 => b = a + 1
      BY <1>1, <3>1
    <3>4. QED
      BY <1>1, <2>2, <2>3, <2>4, <2>5, <3>2, <3>3
  <2>8. QED
    BY <1>1, <2>6, <2>7, Sums
<1>6. CASE Stop
  <2>1. restarts' = restarts + 1 /\ UNCHANGED late /\ pc # "down" /\ pc' = "down"
    BY <1>6 DEF Stop
  <2>2. P' <= P \/ (T = 0 /\ P' = 1)
    <3>1. CASE UNCHANGED orphans
      BY <3>1 DEF Pending
    <3>2. ASSUME /\ orphans' = {[at |-> pc, group |-> group, mode |-> mode,
                                 call |-> call, read |-> read]}
                 /\ P' # 0
          PROVE  T = 0 /\ P' = 1
      <4>1. pc \in {"analyze", "write"} /\ l \in call.logs /\ P' = 1
        BY <3>2 DEF Pending
      <4>2. QED
        BY <1>0, <4>1 DEF QueueInv, ToAdd, Spent, InFlight
    <3> HIDE DEF P, T
    <3>3. P' # 0 \/ P' <= P
      BY <1>1
    <3>4. QED
      BY <1>6, <3>1, <3>2, <3>3 DEF Stop
  <2>3. ~Write /\ \A o \in orphans : ~OrphanWrite(o)
    BY <2>1 DEF Write, OrphanWrite, thread
  <2> HIDE DEF T, P
  <2>4. a + 1 = b /\ (q <= p \/ (t = 0 /\ q = 1))
    <3>1. restarts \in Nat /\ late \in Nat
      BY <1>0, Numbers
    <3>2. b = a + 1
      BY <1>1, <2>1, <3>1
    <3>3. QED
      BY <1>1, <2>2, <3>2
  <2>5. QED
    BY <1>1, <2>3, <2>4, Sums
<1>7. ASSUME NEW n \in orphans, OrphanStep(n)
      PROVE  /\ Room(l) <= Room(l)'
             /\ ~Write
             /\ \A o \in orphans :
                  OrphanWrite(o) /\ l \in o.call.logs => Room(l) + 1 <= Room(l)'
  <2>1. UNCHANGED <<restarts, late, done, ignored, call, pc>>
    BY <1>7, OrphanType DEF thread
  <2>2. T' = T
    BY <2>1 DEF Spent, InFlight
  <2>3. P' = 1 => P = 1
    <3>1. n \in Orphan
      BY <1>0, OrphanFields
    <3>2. CASE OrphanAnalyze(n)
      <4> DEFINE at == IF n.call.logs = {} THEN "report" ELSE "write"
                 r  == Base(n.group, n.mode)
                 m  == [n EXCEPT !.at = at, !.read = r]
      <4>1. orphans' = {m} /\ n.at = "analyze"
        BY <3>2 DEF OrphanAnalyze
      <4>2. m.call = n.call
        BY <3>1 DEF Orphan
      <4> HIDE DEF m
      <4>3. QED
        BY <4>1, <4>2 DEF Pending
    <3>3. CASE OrphanWrite(n)
      <4> DEFINE m == [n EXCEPT !.at = "report"]
      <4>1. orphans' = {m}
        BY <3>3 DEF OrphanWrite
      <4>2. m.at = "report"
        BY <3>1 DEF Orphan
      <4> HIDE DEF m
      <4>3. QED
        BY <4>1, <4>2 DEF Pending
    <3>4. CASE OrphanReport(n) \/ OrphanFails(n)
      BY <3>4 DEF OrphanReport, OrphanFails, Pending
    <3>5. QED
      BY <1>7, <3>2, <3>3, <3>4 DEF OrphanStep
  <2>4. ASSUME NEW o \in orphans, OrphanWrite(o), l \in o.call.logs
        PROVE  P = 1 /\ P' = 0
    <3>1. o \in Orphan
      BY <1>0, OrphanFields
    <3> DEFINE m == [o EXCEPT !.at = "report"]
    <3>2. orphans' = {m} /\ o.at = "write"
      BY <2>4 DEF OrphanWrite
    <3>3. m.at = "report"
      BY <3>1 DEF Orphan
    <3> HIDE DEF m
    <3>4. QED
      BY <2>4, <3>2, <3>3 DEF Pending
  <2>5. ~Write
    BY <2>1 DEF Write
  <2> HIDE DEF T, P
  <2>6. a = b /\ t = u /\ q <= p
    BY <1>1, <2>1, <2>2, <2>3
  <2>7. ASSUME NEW o \in orphans, OrphanWrite(o), l \in o.call.logs
        PROVE  Room(l) + 1 <= Room(l)'
    <3>1. q < p
      BY <1>1, <2>4, <2>7
    <3>2. QED
      BY <1>1, <2>6, <3>1, Sums
  <2>8. Room(l) <= Room(l)'
    BY <1>1, <2>6, Sums
  <2>9. QED
    BY <2>5, <2>7, <2>8
<1>8. QED
  <2> HIDE DEF T, P
  <2>1. Room(l) \in Int /\ Room(l)' \in Int
    BY <1>1
  <2>2. QED
    BY <2>1, <1>2, <1>3, <1>4, <1>5, <1>6, <1>7, StepIsQuiet

-----------------------------------------------------------------------------
LEMMA NextCount == IInv /\ [Next]_vars => CountInv'
<1> SUFFICES ASSUME IInv, [Next]_vars PROVE CountInv'
  OBVIOUS
<1> DEFINE Analyses == \A g \in Groups : Fits(nlz[g].count)'
           Reading == pc' = "write" => Fits(read.count)'
           Orphans == \A n \in orphans' : n.at = "write" => Fits(n.read.count)'
           Flying == \A l \in InFlight' : group' \in spoilt' \/ nlz'[group'].count[l] > 0
<1>0. /\ TypeOK /\ CountInv /\ TypeOK' /\ group \in Groups
      /\ (Analyses /\ Reading /\ Orphans /\ Flying => CountInv')
  BY NextType DEF IInv, TypeOK, CountInv
<1>a. \A l \in Logs : Room(l) \in Int /\ Room(l)' \in Int /\ Room(l) <= Room(l)'
  BY RoomGrows
\* What has fitted fits on.
<1>b. ASSUME NEW c \in Contents, Fits(c.count)
      PROVE  Fits(c.count)'
  <2>1. ASSUME NEW l \in Logs
        PROVE  c.count[l] <= Room(l)'
    <3>1. c.count[l] <= Room(l) /\ c.count[l] \in Nat
      BY <1>b, CountsAre DEF Fits
    <3>2. Room(l) \in Int /\ Room(l)' \in Int /\ Room(l) <= Room(l)'
      BY <1>a
    <3>3. QED
      BY <3>1, <3>2
  <2>2. QED
    BY <2>1 DEF Fits
<1>c. ASSUME NEW g \in Groups
      PROVE  Fits(nlz[g].count)' \/ nlz'[g] # nlz[g]
  <2>1. nlz[g] \in Contents /\ Fits(nlz[g].count)
    BY <1>0 DEF TypeOK, CountInv
  <2>2. QED
    BY <1>a, <2>1, CountsAre DEF Fits
<1>d. ASSUME NEW g \in Groups, nlz'[g].count = Blank
      PROVE  Fits(nlz[g].count)'
  <2>1. nlz[g] \in Contents /\ Fits(nlz[g].count)
    BY <1>0 DEF TypeOK, CountInv
  <2>2. \A l \in Logs : nlz'[g].count[l] = 0
    BY <1>d DEF Blank
  <2>3. QED
    BY <1>a, <2>1, <2>2, CountsAre DEF Fits
<1>e. ASSUME UNCHANGED <<pc, read>>
      PROVE  Reading
  <2>1. read \in Contents /\ (pc = "write" => Fits(read.count))
    BY <1>0 DEF TypeOK, CountInv
  <2>2. QED
    BY <1>a, <1>e, <2>1, CountsAre DEF Fits
<1>f. ASSUME UNCHANGED orphans
      PROVE  Orphans
  <2>1. ASSUME NEW n \in orphans, n.at = "write"
        PROVE  n.read \in Contents /\ Fits(n.read.count)
    BY <1>0, <2>1, OrphanFields DEF CountInv
  <2>2. QED
    BY <1>b, <1>f, <2>1
<1>2. CASE Quiet
  <2>1. Analyses /\ Orphans
    BY <1>2, <1>c, <1>f DEF Quiet
  <2>2. Reading
    BY <1>2, <1>e DEF Quiet
  <2>3. Flying
    BY <1>0, <1>2 DEF Quiet, CountInv
  <2>4. QED
    BY <1>0, <2>1, <2>2, <2>3
<1>3. CASE Analyze
  <2>1. /\ UNCHANGED <<nlz, orphans, restarts, done, ignored, call, group>>
        /\ pc = "analyze" /\ pc' \in {"report", "write"}
        /\ pc' = "report" => call.logs = {}
    BY <1>3 DEF Analyze
  <2>2. read' \in Contents /\ Fits(read'.count)
    BY <1>3, AnalyzeEffect
  <2>3. Reading
    BY <1>a, <2>2, CountsAre DEF Fits
  <2>4. Flying
    BY <2>1 DEF InFlight
  <2>5. QED
    BY <1>0, <1>c, <1>f, <2>1, <2>3, <2>4
<1>4. CASE Write
  <2>1. /\ UNCHANGED <<orphans, call, group, spoilt>>
        /\ pc = "write" /\ pc' = "report"
        /\ nlz' = [nlz EXCEPT ![group] = Added(read, call.logs)]
    BY <1>4 DEF Write, mishaps
  <2>2. /\ nlz'[group] = Added(read, call.logs)
        /\ \A g \in Groups \ {group} : nlz'[g] = nlz[g]
    BY <1>0, <2>1 DEF TypeOK
  <2>3. ASSUME NEW l \in Logs
        PROVE  /\ nlz'[group].count[l] = read.count[l] + (IF l \in call.logs THEN 1 ELSE 0)
               /\ read.count[l] \in Nat /\ read.count[l] <= Room(l)
    BY <1>0, <2>1, <2>2, AddedIs DEF TypeOK, CountInv, Fits
  <2>4. ASSUME NEW l \in Logs
        PROVE  nlz'[group].count[l] <= Room(l)'
    <3>1. /\ Room(l) \in Int /\ Room(l)' \in Int /\ Room(l) <= Room(l)'
          /\ l \in call.logs => Room(l) + 1 <= Room(l)'
      BY <1>4, RoomGrows
    <3>2. CASE l \in call.logs
      BY <2>3, <3>1, <3>2
    <3>3. CASE l \notin call.logs
      BY <2>3, <3>1, <3>3
    <3>4. QED
      BY <3>2, <3>3
  <2>5. Analyses
    BY <1>c, <2>2, <2>4 DEF Fits
  <2>6. Flying
    <3>1. call.logs \subseteq Logs /\ InFlight' = call.logs
      BY <1>0, <2>1 DEF TypeOK, Call, InFlight
    <3>2. QED
      BY <2>1, <2>3, <3>1
  <2>7. QED
    BY <1>0, <1>f, <2>1, <2>5, <2>6
<1>5. ASSUME NEW at, NEW g \in Groups, NEW c, CutOff(at, g, c)
      PROVE  Analyses
  <2>1. \A h \in Groups : nlz'[h] = nlz[h] \/ nlz'[h] \in {Torn, Mixed}
    BY <1>0, <1>5, CutOffEffect
  <2>2. \A h \in Groups : nlz'[h] = nlz[h] \/ nlz'[h].count = Blank
    BY <2>1, BlankContents
  <2>3. QED
    BY <1>c, <1>d, <2>2
<1>6. CASE CallFails
  <2>1. CutOff(pc, group, call) /\ pc' = "failed" /\ UNCHANGED orphans
    BY <1>6 DEF CallFails
  <2>2. Analyses
    BY <1>0, <1>5, <2>1
  <2>3. QED
    BY <1>0, <1>f, <2>1, <2>2 DEF InFlight
<1>7. CASE Stop
  <2>1. pc' = "down"
    BY <1>7 DEF Stop
  <2>2. CASE CutOff(pc, group, call) /\ UNCHANGED orphans
    <3>1. Analyses
      BY <1>0, <1>5, <2>2
    <3>2. QED
      BY <1>0, <1>f, <2>1, <2>2, <3>1 DEF InFlight
  <2>3. CASE /\ UNCHANGED nlz
             /\ orphans' = {[at |-> pc, group |-> group, mode |-> mode, call |-> call,
                             read |-> read]}
    <3>1. ASSUME NEW n \in orphans', n.at = "write"
          PROVE  Fits(n.read.count)'
      <4>1. n.read = read /\ pc = "write"
        BY <2>3, <3>1
      <4>2. n.read \in Contents /\ Fits(n.read.count)
        BY <1>0, <4>1 DEF TypeOK, CountInv
      <4>3. QED
        BY <1>b, <4>2
    <3>2. QED
      BY <1>0, <1>c, <2>1, <2>3, <3>1 DEF InFlight
  <2>4. QED
    BY <1>7, <2>2, <2>3 DEF Stop
<1>8. ASSUME NEW o \in orphans, OrphanStep(o)
      PROVE  CountInv'
  <2>0. /\ o \in Orphan /\ o.group \in Groups /\ o.read \in Contents
        /\ UNCHANGED <<pc, read, call, group>> /\ spoilt \subseteq spoilt'
    BY <1>0, <1>8, OrphanFields, OrphanType DEF thread
  <2>1. Reading /\ InFlight' = InFlight
    BY <1>e, <2>0 DEF InFlight
  <2>2. CASE OrphanAnalyze(o)
    <3> DEFINE at == IF o.call.logs = {} THEN "report" ELSE "write"
               r  == Base(o.group, o.mode)
               n  == [o EXCEPT !.at = at, !.read = r]
    <3>1. UNCHANGED nlz /\ orphans' = {n}
      BY <2>2 DEF OrphanAnalyze
    <3>2. r \in Contents /\ Fits(r.count)
      BY <2>2, OrphanReads
    <3>3. n.read = r
      BY <2>0 DEF Orphan
    <3> HIDE DEF n, r
    <3>4. ASSUME NEW m \in orphans'
          PROVE  Fits(m.read.count)'
      <4>1. m.read \in Contents /\ Fits(m.read.count)
        BY <3>1, <3>2, <3>3, <3>4
      <4>2. QED
        BY <1>b, <4>1
    <3>5. Flying
      BY <1>0, <2>0, <2>1, <3>1 DEF CountInv
    <3>6. QED
      BY <1>0, <1>c, <2>1, <3>1, <3>4, <3>5
  <2>3. CASE OrphanWrite(o)
    <3> DEFINE n == [o EXCEPT !.at = "report"]
    <3>1. /\ orphans' = {n} /\ o.at = "write"
          /\ nlz' = [nlz EXCEPT ![o.group] = Added(o.read, o.call.logs)]
          /\ nlz[o.group] = o.read \/ o.group \in spoilt'
      BY <2>3 DEF OrphanWrite
    <3>2. n.at = "report"
      BY <2>0 DEF Orphan
    <3> HIDE DEF n
    <3>3. /\ nlz'[o.group] = Added(o.read, o.call.logs)
          /\ \A g \in Groups \ {o.group} : nlz'[g] = nlz[g]
      BY <1>0, <2>0, <3>1 DEF TypeOK
    <3>4. ASSUME NEW l \in Logs
          PROVE  /\ nlz'[o.group].count[l]
                      = o.read.count[l] + (IF l \in o.call.logs THEN 1 ELSE 0)
                 /\ o.read.count[l] \in Nat /\ o.read.count[l] <= Room(l)
      BY <1>0, <2>0, <3>1, <3>3, AddedIs DEF CountInv, Fits
    <3>5. ASSUME NEW l \in Logs
          PROVE  nlz'[o.group].count[l] <= Room(l)'
      <4>1. /\ Room(l) \in Int /\ Room(l)' \in Int /\ Room(l) <= Room(l)'
            /\ l \in o.call.logs => Room(l) + 1 <= Room(l)'
        BY <2>3, RoomGrows
      <4>2. CASE l \in o.call.logs
        BY <3>4, <4>1, <4>2
      <4>3. CASE l \notin o.call.logs
        BY <3>4, <4>1, <4>3
      <4>4. QED
        BY <4>2, <4>3
    <3>6. Analyses
      BY <1>c, <3>3, <3>5 DEF Fits
    <3>7. Flying
      <4>1. SUFFICES ASSUME NEW l \in InFlight, group \notin spoilt'
                     PROVE  nlz'[group].count[l] > 0
        BY <2>0, <2>1
      <4>2. nlz[group].count[l] > 0 /\ l \in Logs
        BY <1>0, <2>0, <4>1 DEF CountInv, TypeOK, Call, InFlight
      <4>3. CASE group = o.group
        <5>1. nlz[group] = o.read
          BY <3>1, <4>1, <4>3
        <5>2. nlz'[group].count[l] >= o.read.count[l]
          BY <3>4, <4>2, <4>3
        <5>3. nlz'[group].count[l] \in Int /\ o.read.count[l] \in Int
          BY <3>4, <4>2, <4>3
        <5>4. QED
          BY <4>2, <5>1, <5>2, <5>3
      <4>4. CASE group # o.group
        BY <1>0, <3>3, <4>2, <4>4
      <4>5. QED
        BY <4>3, <4>4
    <3>8. QED
      BY <1>0, <2>1, <3>1, <3>2, <3>6, <3>7
  <2>4. CASE OrphanReport(o)
    <3>1. UNCHANGED nlz /\ orphans' = {}
      BY <2>4 DEF OrphanReport
    <3>2. Flying
      BY <1>0, <2>0, <2>1, <3>1 DEF CountInv
    <3>3. QED
      BY <1>0, <1>c, <2>1, <3>1, <3>2
  <2>5. CASE OrphanFails(o)
    <3>1. CutOff(o.at, o.group, o.call) /\ orphans' = {}
      BY <2>5 DEF OrphanFails
    <3>2. Analyses
      BY <1>5, <2>0, <3>1
    <3>3. UNCHANGED nlz
          \/ (o.group \in spoilt' /\ \A h \in Groups \ {o.group} : nlz'[h] = nlz[h])
      BY <1>0, <2>0, <3>1, CutOffEffect
    <3>4. Flying
      BY <1>0, <2>0, <2>1, <3>3 DEF CountInv
    <3>5. QED
      BY <1>0, <2>1, <3>1, <3>2, <3>4
  <2>6. QED
    BY <1>8, <2>2, <2>3, <2>4, <2>5 DEF OrphanStep
<1>9. QED
  BY <1>2, <1>3, <1>4, <1>6, <1>7, <1>8, StepIsQuiet

-----------------------------------------------------------------------------
(* What is known from the start, and what is gone. *)

\* What becomes of the analyses.
LEMMA AnalysisSteps ==
  ASSUME IInv, [Next]_vars, NEW g \in Groups
  PROVE  \/ nlz'[g] = nlz[g]
         \/ /\ Write /\ g = group /\ nlz'[g] = Added(read, call.logs)
            /\ read \in Contents /\ read.is \in {"whole", "mixed"}
         \/ g \in spoilt' /\ nlz'[g] \in {Torn, Mixed}
         \/ \E o \in orphans :
              /\ g = o.group /\ nlz'[g] = Added(o.read, o.call.logs)
              /\ o.read \in Contents /\ o.read.is \in {"whole", "mixed"}
              /\ g \in behind' /\ (nlz[g] = o.read \/ g \in spoilt')
<1>0. TypeOK /\ ReadInv /\ group \in Groups
  BY DEF IInv, TypeOK
<1>1. CASE Quiet \/ Analyze
  BY <1>1 DEF Quiet, Analyze
<1>2. CASE Write
  BY <1>0, <1>2 DEF Write, TypeOK, ReadInv
<1>3. ASSUME NEW at, NEW h \in Groups, NEW c, CutOff(at, h, c)
      PROVE  nlz'[g] = nlz[g] \/ (g \in spoilt' /\ nlz'[g] \in {Torn, Mixed})
  BY <1>0, <1>3, CutOffEffect
<1>4. CASE CallFails
  BY <1>0, <1>3, <1>4 DEF CallFails
<1>5. CASE Stop
  BY <1>0, <1>3, <1>5 DEF Stop
<1>6. ASSUME NEW o \in orphans, OrphanStep(o)
      PROVE  \/ nlz'[g] = nlz[g]
             \/ g \in spoilt' /\ nlz'[g] \in {Torn, Mixed}
             \/ /\ g = o.group /\ nlz'[g] = Added(o.read, o.call.logs)
                /\ o.read \in Contents /\ o.read.is \in {"whole", "mixed"}
                /\ g \in behind' /\ (nlz[g] = o.read \/ g \in spoilt')
  <2>0. o.group \in Groups /\ o.read \in Contents /\ behind' = behind \cup {o.group}
    BY <1>0, <1>6, OrphanFields, OrphanType
  <2>1. CASE OrphanAnalyze(o) \/ OrphanReport(o)
    BY <2>1 DEF OrphanAnalyze, OrphanReport
  <2>2. CASE OrphanWrite(o)
    <3>1. /\ nlz' = [nlz EXCEPT ![o.group] = Added(o.read, o.call.logs)]
          /\ nlz[o.group] = o.read \/ o.group \in spoilt'
          /\ o.read.is \in {"whole", "mixed"}
      BY <1>0, <2>2 DEF OrphanWrite, ReadInv
    <3>2. QED
      BY <1>0, <2>0, <3>1 DEF TypeOK
  <2>3. CASE OrphanFails(o)
    BY <1>3, <2>0, <2>3 DEF OrphanFails
  <2>4. QED
    BY <1>6, <2>1, <2>2, <2>3 DEF OrphanStep
<1>7. QED
  BY <1>1, <1>2, <1>4, <1>5, <1>6, StepIsQuiet

LEMMA NextKnown == IInv /\ [Next]_vars => KnownInv'
<1> SUFFICES ASSUME IInv, [Next]_vars PROVE KnownInv'
  OBVIOUS
<1> DEFINE There == \A g \in Known : nlz'[g].is # "absent"
           Mode == (Calling' \/ pc' = "each") /\ group' \in Known => mode' = "-io"
           Later == pc' = "write" /\ group' \in Known \ spoilt' =>
                      \A l \in done' : GroupOf[l] = group' => read'.count[l] > 0
<1>0. TypeOK /\ KnownInv /\ NothingForgotten
  BY DEF IInv
<1>1. There
  <2>1. ASSUME NEW g \in Known
        PROVE  nlz'[g].is # "absent"
    <3>1. g \in Groups /\ nlz[g].is # "absent"
      BY <1>0, UpdateAssumption DEF KnownInv
    <3>2. CASE nlz'[g] = nlz[g]
      BY <3>1, <3>2
    <3>3. CASE nlz'[g] \in {Torn, Mixed}
      BY <3>3, BlankContents
    <3>4. ASSUME NEW c \in Contents, NEW logs, c.is \in {"whole", "mixed"},
                 nlz'[g] = Added(c, logs)
          PROVE  nlz'[g].is # "absent"
      BY <3>4, AddedIs
    <3>5. QED
      BY <3>1, <3>2, <3>3, <3>4, AnalysisSteps
  <2>2. QED
    BY <2>1
<1>2. Mode
  <2>1. ASSUME NEW g \in Groups, NextGroup(g)
        PROVE  Mode
    BY <1>0, <2>1 DEF KnownInv, NextGroup
  <2>2. ASSUME NEW l \in Logs, NextSingle(l)
        PROVE  Mode
    BY <1>0, <2>2 DEF KnownInv, NextSingle
  <2>3. CASE pc' \in {"idle", "next", "down"}
    BY <2>3 DEF Calling, Running
  <2>4. ASSUME UNCHANGED <<group, mode>>, Calling \/ pc = "each"
        PROVE  Mode
    BY <1>0, <2>4 DEF KnownInv
  <2>5. ASSUME UNCHANGED <<group, mode, pc>>
        PROVE  Mode
    BY <1>0, <2>5 DEF KnownInv, Calling
  <2>6. ASSUME NEW o \in orphans, OrphanStep(o)
        PROVE  Mode
    BY <2>5, <2>6, OrphanType DEF thread
  <2>7. CASE Next
    BY <2>1, <2>2, <2>3, <2>4, <2>5, <2>6, <2>7
       DEF Next, UpdateStep, Receive, Save, Begin, Finish, Analyze, AnalyzeFails,
           Write, Report, ReportIsLost, CallFails, Succeeded, Failed, Move, MoveFails,
           Moved, NoMoreSingles, Stop, Start, Calling, Running, thread
  <2>8. QED
    BY <2>5, <2>7 DEF vars, thread
<1>3. Later
  <2>1. CASE Quiet
    BY <1>0, <2>1 DEF Quiet, KnownInv
  <2>2. CASE Analyze
    <3>1. /\ UNCHANGED <<done, spoilt, group>> /\ pc = "analyze"
          /\ read' = Base(group, mode)
      BY <2>2 DEF Analyze
    <3>2. group \in Known => mode = "-io"
      BY <1>0, <3>1 DEF KnownInv, Calling, Running
    <3>3. group \in Known => read' = nlz[group]
      BY <3>1, <3>2 DEF Base
    <3>4. QED
      BY <1>0, <3>1, <3>3 DEF NothingForgotten
  <2>3. CASE Write \/ CallFails \/ Stop
    BY <2>3 DEF Write, CallFails, Stop
  <2>4. ASSUME NEW o \in orphans, OrphanStep(o)
        PROVE  Later
    <3>1. UNCHANGED <<pc, group, read, done>> /\ spoilt \subseteq spoilt'
      BY <2>4, OrphanType DEF thread
    <3>2. QED
      BY <1>0, <3>1 DEF KnownInv
  <2>5. QED
    BY <2>1, <2>2, <2>3, <2>4, StepIsQuiet
<1>4. QED
  BY <1>1, <1>2, <1>3 DEF KnownInv

\* A log that leaves the folder is one that the last call has added.
LEMMA LeavesCounted ==
  ASSUME IInv, [Next]_vars, NEW l \in done', l \notin done
  PROVE  /\ GroupOf[l] \in spoilt \/ nlz[GroupOf[l]].count[l] > 0
         /\ UNCHANGED <<nlz, spoilt>>
<1>1. PICK k \in Logs : Move(k)
  BY DEF Next, UpdateStep, Receive, Save, Begin, NextGroup, Finish, Analyze,
     AnalyzeFails, Write, Report, ReportIsLost, CallFails, Succeeded, Failed,
     MoveFails, NextSingle, Moved, NoMoreSingles, Stop, Start, OrphanStep,
     OrphanAnalyze, OrphanWrite, OrphanReport, OrphanFails, vars, files
<1>2. l = k /\ pc = "move" /\ l \in call.logs /\ UNCHANGED <<nlz, spoilt>>
  BY <1>1 DEF Move, mishaps
<1>3. group \in spoilt \/ nlz[group].count[l] > 0
  BY <1>2 DEF IInv, CountInv, InFlight
<1>4. GroupOf[l] = group
  BY <1>2 DEF IInv, QueueInv, Calling
<1>5. QED
  BY <1>2, <1>3, <1>4

LEMMA NextForgotten == IInv /\ [Next]_vars => NothingForgotten'
<1> SUFFICES ASSUME IInv, [Next]_vars,
                    NEW l \in done', GroupOf[l] \in Known \ spoilt'
             PROVE  nlz'[GroupOf[l]].count[l] > 0
  BY DEF NothingForgotten
<1> DEFINE g == GroupOf[l]
<1>0. /\ TypeOK /\ KnownInv /\ NothingForgotten /\ g \in Groups /\ g \in Known
      /\ g \notin spoilt' /\ l \in Logs
  BY NextType, UpdateAssumption DEF IInv, TypeOK
<1>1. CASE l \notin done
  BY <1>0, <1>1, LeavesCounted
<1>2. CASE l \in done
  <2>1. g \notin spoilt
    <3>1. spoilt \subseteq spoilt'
      <4>1. CASE Quiet \/ Analyze \/ Write
        BY <4>1 DEF Quiet, Analyze, Write, mishaps
      <4>2. CASE CallFails \/ Stop
        BY <4>2 DEF CallFails, Stop, CutOff
      <4>3. QED
        BY <4>1, <4>2, StepIsQuiet, OrphanType
    <3>2. QED
      BY <1>0, <3>1
  <2>2. nlz[g].count[l] > 0
    BY <1>0, <1>2, <2>1 DEF NothingForgotten
  <2>3. ASSUME NEW c \in Contents, NEW logs, nlz'[g] = Added(c, logs), c.count[l] > 0
        PROVE  nlz'[g].count[l] > 0
    <3>1. /\ c.count[l] \in Nat
          /\ nlz'[g].count[l] = c.count[l] + (IF l \in logs THEN 1 ELSE 0)
      BY <1>0, <2>3, AddedIs
    <3>2. QED
      BY <2>3, <3>1
  <2>4. CASE Write /\ g = group /\ nlz'[g] = Added(read, call.logs) /\ read \in Contents
    <3>1. read.count[l] > 0
      BY <1>0, <1>2, <2>1, <2>4 DEF KnownInv, Write
    <3>2. QED
      BY <2>3, <2>4, <3>1
  <2>5. QED
    BY <1>0, <2>2, <2>3, <2>4, AnalysisSteps
<1>3. QED
  BY <1>1, <1>2

-----------------------------------------------------------------------------
(* The reports. *)

LEMMA NextPages == IInv /\ [Next]_vars => PagesInv'
<1> SUFFICES ASSUME IInv, [Next]_vars PROVE PagesInv'
  OBVIOUS
<1> USE DEF PagesInv, Calling, Running
<1>0. TypeOK /\ group \in Groups /\ PagesInv
  BY DEF IInv, TypeOK
\* What ltsrv reads of a report is what the analysis holds.
<1>a. ASSUME NEW g \in Groups, json[g] = nlz[g]
      PROVE  Readable(json)[g] = json[g]
  <2>1. nlz[g].is # "empty"
    BY DEF IInv, ReadInv
  <2>2. QED
    BY <1>a, <2>1 DEF Readable, Empty
<1>1. ASSUME NEW l \in Logs, Receive(l) \/ Save(l)
      PROVE  PagesInv'
  BY <1>0, <1>1 DEF Receive, Save, thread, mishaps
<1>2. CASE Begin
  BY <1>0, <1>2 DEF Begin, files, mishaps
<1>3. ASSUME NEW g \in Groups, NextGroup(g)
      PROVE  PagesInv'
  BY <1>0, <1>3 DEF NextGroup, files, mishaps
<1>4. CASE Finish
  <2>1. \A g \in Groups \ behind : json[g] = nlz[g] /\ Readable(json)[g] = json[g]
    BY <1>0, <1>4, <1>a DEF Finish
  <2>2. QED
    BY <1>0, <1>4, <2>1 DEF Finish, files, mishaps
<1>5. CASE Analyze
  <2>1. /\ UNCHANGED <<nlz, group, mode, call, shown, updated>> /\ pc = "analyze"
        /\ pc' = IF call.logs = {} THEN "report" ELSE "write"
        /\ read' = Base(group, mode)
        /\ \A g \in Groups \ {group} : json'[g] = json[g] /\ (g \in behind' <=> g \in behind)
    BY <1>0, <1>5 DEF Analyze, TypeOK, Opened
  <2>2. call.kind \in {"Batch", "Single", "Report"}
    BY <1>0 DEF TypeOK, Call
  <2>3. group \notin behind' => Reports(mode, call) /\ json'[group] = Empty
    BY <1>0, <1>5, <2>1, <2>2 DEF Analyze, Reports, Opened, HasOut, TypeOK
  <2>4. call.kind = "Single" => group \in behind'
    BY <2>3 DEF Reports, HasOut
  <2>5. ASSUME pc' = "report", group \notin behind'
        PROVE  nlz[group] = Added(read', call.logs)
    <3>1. call.logs = {} /\ mode # "-o"
      BY <2>1, <2>3, <2>5 DEF Reports
    <3>2. read' = nlz[group] /\ nlz[group] \in Contents
      BY <1>0, <2>1, <3>1 DEF Base, TypeOK
    <3>3. QED
      BY <3>1, <3>2, AddedNothing
  <2>6. QED
    BY <1>0, <2>1, <2>3, <2>4, <2>5
<1>6. CASE AnalyzeFails
  <2>1. /\ UNCHANGED <<nlz, group, mode, call, shown, updated>> /\ pc = "analyze"
        /\ pc' = "failed" /\ behind' = behind \cup {group}
        /\ \A g \in Groups \ {group} : json'[g] = json[g]
    BY <1>0, <1>6 DEF AnalyzeFails, TypeOK, Opened
  <2>2. QED
    BY <1>0, <2>1
<1>7. CASE Write
  <2>1. /\ UNCHANGED <<json, group, mode, call, read, shown, updated, behind>>
        /\ pc = "write" /\ pc' = "report"
        /\ nlz'[group] = Added(read, call.logs)
        /\ \A g \in Groups \ {group} : nlz'[g] = nlz[g]
    BY <1>0, <1>7 DEF Write, TypeOK, mishaps
  <2>2. QED
    BY <1>0, <2>1
<1>8. CASE Report
  <2>1. /\ UNCHANGED <<nlz, group, mode, call, shown, updated, behind>>
        /\ pc = "report" /\ pc' = "exited"
        /\ \A g \in Groups \ {group} : json'[g] = json[g]
    BY <1>0, <1>8 DEF Report, TypeOK, mishaps
  <2>2. group \notin behind => json'[group] = nlz[group]
    <3>1. SUFFICES ASSUME group \notin behind PROVE json'[group] = nlz[group]
      OBVIOUS
    <3>2. /\ Reports(mode, call) /\ json[group] = Empty
          /\ nlz[group] = Added(read, call.logs)
      BY <1>0, <2>1, <3>1
    <3>3. json' = [json EXCEPT ![group] = Added(read, call.logs)]
      BY <1>8, <3>2 DEF Report
    <3>4. QED
      BY <1>0, <3>2, <3>3 DEF TypeOK
  <2>3. QED
    BY <1>0, <2>1, <2>2
<1>9. CASE ReportIsLost
  BY <1>0, <1>9 DEF ReportIsLost, files
<1>10. CASE CallFails
  <2>1. /\ CutOff(pc, group, call) /\ pc \in Running /\ pc' = "failed"
        /\ behind' = behind \cup {group}
        /\ UNCHANGED <<group, mode, call, shown, updated>>
    BY <1>10 DEF CallFails
  <2>2. \A g \in Groups \ {group} : json'[g] = json[g] /\ nlz'[g] = nlz[g]
    BY <1>0, <2>1, CutOffEffect
  <2>3. QED
    BY <1>0, <2>1, <2>2
<1>11. ASSUME NEW o \in orphans, OrphanStep(o)
       PROVE  PagesInv'
  <2>1. /\ o \in Orphan /\ o.group \in Groups /\ behind' = behind \cup {o.group}
        /\ UNCHANGED <<group, mode, call, read, shown, updated, pc>>
    BY <1>0, <1>11, OrphanFields, OrphanType DEF thread
  <2>2. ASSUME NEW g \in Groups \ {o.group}
        PROVE  json'[g] = json[g] /\ nlz'[g] = nlz[g]
    <3>1. CASE OrphanAnalyze(o)
      BY <1>0, <2>1, <3>1 DEF OrphanAnalyze, Opened, TypeOK
    <3>2. CASE OrphanWrite(o)
      BY <1>0, <2>1, <3>2 DEF OrphanWrite, TypeOK
    <3>3. CASE OrphanReport(o)
      BY <1>0, <2>1, <3>3 DEF OrphanReport, TypeOK
    <3>4. CASE OrphanFails(o)
      BY <1>0, <2>1, <3>4, CutOffEffect DEF OrphanFails
    <3>5. QED
      BY <1>11, <3>1, <3>2, <3>3, <3>4 DEF OrphanStep
  <2>3. ASSUME group \notin behind'
        PROVE  group \notin behind /\ json'[group] = json[group] /\ nlz'[group] = nlz[group]
    BY <1>0, <2>1, <2>2, <2>3
  <2>4. behind \subseteq behind' /\ \A g \in Groups \ behind' : g # o.group
    BY <2>1
  <2>5. \A g \in Groups \ behind' :
          /\ json'[g] = nlz'[g] \/ (g = group' /\ pc' \in {"write", "report"})
          /\ \/ shown'[g] = json'[g]
             \/ g = group' /\ pc' \in {"write", "report", "exited", "move"}
             \/ updated' /\ pc' # "idle"
             \/ pc' = "down"
    BY <1>0, <2>1, <2>2, <2>4
  <2>6. QED
    BY <1>0, <2>1, <2>3, <2>4, <2>5
<1>12. CASE Succeeded
  BY <1>0, <1>12 DEF Succeeded, files, mishaps
<1>13. CASE Failed
  <2>1. /\ UNCHANGED <<nlz, json, group, mode, call, shown, updated, behind>>
        /\ pc = "failed" /\ pc' \in {"each", "next"}
    BY <1>0, <1>13 DEF Failed, files, mishaps, TypeOK, Call
  <2>2. QED
    BY <1>0, <2>1
<1>14. ASSUME NEW l \in Logs, Move(l) \/ MoveFails(l)
       PROVE  PagesInv'
  <2>1. /\ UNCHANGED <<nlz, json, group, mode, pc, shown, updated, behind>>
        /\ pc = "move" /\ call'.kind = call.kind
    BY <1>0, <1>14 DEF Move, MoveFails, files, mishaps, TypeOK, Call
  <2>2. QED
    BY <1>0, <2>1
<1>15. ASSUME NEW l \in Logs, NextSingle(l)
       PROVE  PagesInv'
  BY <1>0, <1>15 DEF NextSingle, files, mishaps
<1>16. CASE Moved
  <2>1. /\ UNCHANGED <<nlz, json, group, mode, call, shown, behind>>
        /\ pc = "move" /\ pc' \in {"each", "next"} /\ updated' \in BOOLEAN
        /\ \/ updated' = TRUE /\ pc' = "next"
           \/ call.kind # "Batch" /\ pc' = "each" /\ UNCHANGED updated
    BY <1>0, <1>16 DEF Moved, files, mishaps, TypeOK
  <2>2. call.kind # "Batch" => group \in behind
    <3>1. call.kind \in {"Batch", "Single", "Report"} /\ call.kind # "Report"
      BY <1>0, <2>1 DEF TypeOK, Call
    <3>2. QED
      BY <1>0, <2>1, <3>1
  <2>3. QED
    BY <1>0, <2>1, <2>2
<1>17. CASE NoMoreSingles
  BY <1>0, <1>17 DEF NoMoreSingles, files, mishaps
<1>18. CASE Stop
  <2>1. /\ pc' = "down" /\ UNCHANGED <<shown, group>> /\ updated' = FALSE
        /\ behind' = IF pc \in Running THEN behind \cup {group} ELSE behind
        /\ call'.kind = "Batch"
    BY <1>18 DEF Stop, NoCall
  <2>2. \A g \in Groups \ behind' : json'[g] = json[g] /\ nlz'[g] = nlz[g]
    <3>1. CASE CutOff(pc, group, call)
      <4>1. CASE pc \in Running
        BY <1>0, <2>1, <3>1, <4>1, CutOffEffect
      <4>2. CASE pc \notin Running
        BY <3>1, <4>2 DEF CutOff
      <4>3. QED
        BY <4>1, <4>2
    <3>2. CASE UNCHANGED <<nlz, json>>
      BY <3>2
    <3>3. QED
      BY <1>18, <3>1, <3>2 DEF Stop
  <2>3. \A g \in Groups \ behind' : json[g] = nlz[g]
    BY <1>0, <2>1
  <2>4. QED
    BY <2>1, <2>2, <2>3
<1>19. CASE Start
  <2>1. \A g \in Groups \ behind : json[g] = nlz[g] /\ Readable(json)[g] = json[g]
    BY <1>0, <1>19, <1>a DEF Start
  <2>2. QED
    BY <1>0, <1>19, <2>1 DEF Start, files, mishaps
<1>20. CASE UNCHANGED vars
  BY <1>0, <1>20 DEF vars, files, thread, mishaps
<1>21. QED
  BY <1>1, <1>2, <1>3, <1>4, <1>5, <1>6, <1>7, <1>8, <1>9, <1>10, <1>11, <1>12,
     <1>13, <1>14, <1>15, <1>16, <1>17, <1>18, <1>19, <1>20 DEF Next, UpdateStep

-----------------------------------------------------------------------------
(* The theorems. *)

\* What the update thread and ltanalyze rely on holds in every state.
THEOREM Invariance == Spec => []IInv
<1>1. IInv /\ [Next]_vars => IInv'
  BY NextType, NextFiles, NextQueue, NextRead, NextCount, NextKnown, NextForgotten,
     NextPages DEF IInv
<1>2. QED
  BY <1>1, InitInv, PTL DEF Spec

\* Every variable stays in its set; in particular no log is ever counted more
\* often than ltsrv was started and calls of ltanalyze failed, whatever the
\* orphans do.
THEOREM TypeCorrect == Spec => []TypeOK
<1>1. IInv => TypeOK
  BY DEF IInv
<1>2. QED
  BY <1>1, Invariance, PTL

\* Each run of ltsrv counts a log once, although a failed batch is analyzed again
\* and a log that could not be moved lies in the folder still; each call that fails
\* after it has written the analysis may count its logs once more.
THEOREM CountedOnce == Spec => []CountedOncePerRun
<1>1. IInv => CountedOncePerRun
  <2> SUFFICES ASSUME IInv, NEW l \in Logs
               PROVE  nlz[GroupOf[l]].count[l] <= 1 + restarts + late
    BY DEF CountedOncePerRun
  <2>1. TypeOK /\ GroupOf[l] \in Groups /\ nlz[GroupOf[l]] \in Contents
    BY UpdateAssumption DEF IInv, TypeOK
  <2>2. nlz[GroupOf[l]].count[l] <= Room(l)
    BY <2>1 DEF IInv, CountInv, Fits
  <2>3. restarts \in Nat /\ late \in Nat /\ Pending(l) \in {0, 1}
    BY <2>1, Numbers
  <2>4. Room(l) <= 1 + restarts + late /\ Room(l) \in Int
    BY <2>3 DEF Room
  <2>5. nlz[GroupOf[l]].count[l] \in Nat
    BY <2>1, CountsAre
  <2>6. QED
    BY <2>2, <2>3, <2>4, <2>5
<1>2. QED
  BY <1>1, Invariance, PTL

\* The logs that are gone stay counted in an analysis that was there at first,
\* whichever calls fail, unless the file was cut off or an orphan has replaced it.
THEOREM NothingIsForgotten == Spec => []NothingForgotten
<1>1. IInv => NothingForgotten
  BY DEF IInv
<1>2. QED
  BY <1>1, Invariance, PTL

\* The pages show between two updates what the analyses hold, for each group whose
\* last report came without a failure.
THEOREM PagesCurrent == Spec => []PagesAreCurrent
<1>1. IInv => PagesAreCurrent
  BY DEF IInv, PagesInv, PagesAreCurrent
<1>2. QED
  BY <1>1, Invariance, PTL

\* A log is moved away or deleted only when the analysis counts it, or was cut off
\* or replaced by an orphan.
THEOREM CountedFirst == Spec => CountedBeforeMoved
<1>1. IInv /\ [Next]_vars =>
        [\A l \in done' \ done :
           GroupOf[l] \notin spoilt => nlz[GroupOf[l]].count[l] > 0]_vars
  BY LeavesCounted
<1>2. QED
  BY <1>1, Invariance, PTL DEF Spec, CountedBeforeMoved
=============================================================================
