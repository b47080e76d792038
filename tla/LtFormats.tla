----------------------------- MODULE LtFormats -----------------------------
(***************************************************************************)
(* What is written in one program and read in another: the log, by liblt   *)
(* for ltanalyze and ltshow; the stack traces in it, by liblt for          *)
(* ltanalyze and lttrace; the analysis, by ltanalyze for itself; and the   *)
(* report, by ltanalyze for ltsrv, which makes pages from it.              *)
(* A behaviour is one file, or one trace, that gets longer, with writes    *)
(* that may be short, or is written anew; or reports that are loaded while *)
(* someone goes from page to page.                                         *)
(***************************************************************************)
EXTENDS LtLayout, LtTrace, FiniteSetsExt

LW == INSTANCE LtLogWriter
LR == INSTANCE LtLogReader
LS == INSTANCE LtShow
AW == INSTANCE LtAnalysisWriter
AR == INSTANCE LtAnalysisReader
C == INSTANCE LtReportReader
M == INSTANCE LtReportMembers

CONSTANTS
  Headers,      \* shapes of a header
  SystemInfos,  \* shapes of the system information
  Records,      \* the other sections: [type, shape]
  Analyses,     \* shapes of an analysis
  Reports,      \* [version, shape], with a version each
  Listed,       \* values in a report of a kind, 16
  Buckets,      \* of a histogram, 64
  Decoded,      \* by product, the name that is read from a URL with its name as it is
  MaxRecords,   \* bound: sections of a log, and writes of it that are short
  MaxShort      \* bound: writes of a log that are short

J(shape, version) == INSTANCE LtReport
P(analyses) == INSTANCE LtPages

ASSUME ReportsAssumption == \A r, s \in Reports : r.version = s.version => r = s

\* What is written is "nothing", "log", "trace", "analysis" or "report".
VARIABLES
  file,     \* its tokens on the disk
  whole,    \* those that are not cut off, or left from an older file
  count,    \* sections of the log
  short,    \* the sections of which only a part is in the log; 0 is the header
  room,     \* what the last section left of its buffer
  stored,   \* the reports that ltsrv has loaded
  url       \* the page that is shown

disk == <<file, whole, count, short, room>>
pages == <<stored, url>>
vars == <<written, disk, words, pages>>

Start == [page |-> "subsystem"]

Init ==
  /\ InitTrace /\ file = <<>> /\ whole = <<>>
  /\ count = 0 /\ short = {} /\ room = 0
  /\ stored = {} /\ url = Start

-----------------------------------------------------------------------------
(* The log. *)

\* The write of the tokens of something is complete.
Complete(tokens, buffer) ==
  /\ file' = file \o tokens /\ whole' = whole \o tokens
  /\ room' = buffer - Bytes(tokens)
  /\ UNCHANGED <<short, words>>

\* The write is short: it ends before the first token, after one, or in it.
Cut(tokens, section) ==
  \E i \in 0 .. Len(tokens), inside \in BOOLEAN :
    /\ IF inside THEN i > 0 /\ tokens[i].w > 1 ELSE i < Len(tokens)
    /\ file' = file \o (IF inside THEN [SubSeq(tokens, 1, i) EXCEPT ![i].w = @ - 1]
                        ELSE SubSeq(tokens, 1, i))
    /\ Cardinality(short) < MaxShort /\ short' = short \cup {section}
    /\ UNCHANGED <<whole, room, words>>

HeaderOf(shape) == Written(LW!Header, shape, <<"header">>)

OpenLog(shape) ==
  /\ written = "nothing" /\ written' = "log"
  /\ Complete(HeaderOf(shape), 8192) \/ Cut(HeaderOf(shape), 0)
  /\ UNCHANGED <<count, pages>>

\* The system information comes first, and only there.  A short write does not keep lt_init
\* and other threads from what they write next.  A section of which nothing is written
\* leaves the log as it was.
WriteSection(type, shape) ==
  LET section == LW!Section(type, shape, <<Index(count + 1)>>)
  IN /\ written = "log" /\ count + Cardinality(short) < MaxRecords
     /\ type = LW!lt_t_system_info => count = 0
     /\ Complete(section, LW!Buffer(type)) \/ Cut(section, count + 1)
     /\ file' # file /\ count' = count + 1
     /\ UNCHANGED <<written, pages>>

-----------------------------------------------------------------------------
(* The analysis. *)

\* The file is opened as it is; what it is longer than what is written now stays.
SaveAnalysis(shape) ==
  LET tokens == Written(AW!Analysis, shape, <<>>)
      more == Bytes(file) - Bytes(tokens)
  IN /\ written \in {"nothing", "analysis"} /\ written' = "analysis"
     /\ file' = tokens \o (IF more > 0 THEN Token(more, <<"old">>, 0) ELSE <<>>)
     /\ whole' = tokens
     /\ UNCHANGED <<count, short, room, words, pages>>

-----------------------------------------------------------------------------
(* The report. *)

Json(r) == J(r.shape, r.version)!Analysis
InMemory(json) == IF C!Loads(json) THEN C!Load(json) ELSE C!Unset
Loaded == FoldSet(LAMBDA r, loaded : r :> InMemory(Json(r)) @@ loaded, <<>>, Reports)

\* Reports of different versions are loaded one by one.
LoadReport(r) ==
  /\ written \in {"nothing", "report"} /\ written' = "report"
  /\ r \notin stored /\ stored' = stored \cup {r}
  /\ UNCHANGED <<disk, words, url>>

_Analysis ==
  [k \in {r.version : r \in stored} |-> Loaded[CHOOSE r \in stored : r.version = k]]
PageFrom(analyses, u) == P(analyses)!GetElement(u)
PageOf(u) == PageFrom(_Analysis, u)

Follow(link) ==
  /\ written = "report" /\ url' = link.to
  /\ UNCHANGED <<written, disk, words, stored>>

WriteLog ==
  \/ \E h \in Headers : OpenLog(h)
  \/ \E i \in SystemInfos : WriteSection(LW!lt_t_system_info, i)
  \/ \E r \in Records : WriteSection(r.type, r.shape)

Next ==
  \/ WriteLog
  \/ \E a \in Analyses : SaveAnalysis(a)
  \/ \E w \in Words : PushWord(w) /\ UNCHANGED <<disk, pages>>
  \/ \E r \in Reports : LoadReport(r)
  \/ \E l \in PageOf(url).links : Follow(l)

Spec == Init /\ [][Next]_vars

-----------------------------------------------------------------------------
(* Properties. *)

\* A log is read as it was written: ltanalyze and ltshow find every section by its size,
\* take every value from the place it was written to and leave none out.  A log that ends
\* in the middle of its header or of a section is refused.  A log that goes on after a
\* write that was short is never read through: it is refused, or comes to where a number
\* is made from a part of something else, which may or may not be noticed.  No section is
\* longer than the buffer that liblt has for it.
LogReadsBack ==
  written = "log" =>
    /\ room >= 0
    /\ \A r \in {LR!ReadLog(file), LS!ShowLog(file)} :
         /\ IF short = {} THEN ReadRight(r, whole) ELSE ~Reading(r)
         /\ short = {count} => r.verdict = "error"

\* The profiler data of the slowest run gets the hardware of the fastest one: PerfData
\* writes minInfo twice, and reads maxInfo from the second.
IsMaxInfo(to, from) ==
  \E i \in 3 .. Len(to) :
    /\ to[i] = "maxInfo" /\ to[i - 2] = "profilerData"
    /\ from = [to EXCEPT ![i] = "minInfo"]

\* An analysis is read as it was written, every value into the field that it was of, but
\* for maxInfo; also where the file was longer before.
AnalysisReadsBack ==
  written = "analysis" =>
    LET r == Read(AR!Analysis, Reader(file, 1, 0, Bytes(file)), <<>>)
    IN /\ Reading(r) /\ r.got = Len(DataTokens(whole))
       /\ \A m \in r.mixed : IsMaxInfo(m[1], m[2])

\* What a report leaves out: parts of an error and the state of one, where the analysis has
\* none; the transition data of ranges in two dimensions and the least, the largest and the
\* average of isWireless, always.
MayBeUnset(r, names) ==
  \/ Last(names) \in {"module", "function", "file", "line", "description", "disassembly", "state"}
  \/ "observedRangeF32_2" \in ToSet(names) /\ Last(names) = "data"
  \/ "isWireless" \in ToSet(names) /\ Last(names) \in {"average", "min", "max"}

\* Profile data without an operation before it is read as one after operation 0.
IsLastOperation(names) == Last(names) \in {"minLastOperation", "maxLastOperation"}

\* Every report is read as it was written: there is a class for every object and a
\* conversion for every value, every member of a class is the field of the analysis that it
\* is named for, and what is in one element of a list is from one item.  One by one: a
\* report is not changed by the next.
ReportReadsBack ==
  LET Right(r, leaves) ==
        \A l \in leaves :
          CASE l.is = "unset" -> MayBeUnset(r, M!Names(l.path))
            [] l.is = "empty" -> IsLastOperation(M!Names(l.path))
            [] OTHER -> M!Means(M!Names(l.path), M!Names(l.at))
      Loads(r, report) ==
        /\ report # C!Unset
        /\ LET leaves == M!Leaves(C!Analysis, report, <<>>)
           IN Right(r, leaves) /\ M!OneToOne({l \in leaves : l.is \notin {"unset", "empty"}})
  IN written = "report" /\ url = Start /\ Cardinality(stored) = 1 =>
       \A r \in stored : Loads(r, Loaded[r])

\* The place of what the text of a link names, for someone who reads it on a page.
Named(text, page) ==
  LET version == SubSeq(page.subject, 1, 3)
      InSubSystem(list, n) ==
        version \o <<"subSystems", Index(text.ss + 1), "value", list, Index(n + 1)>>
  IN CASE text.of = "products" -> <<>>
       [] text.of = "product" -> <<text.p>>
       [] text.of = "major" -> <<text.p, text.V>>
       [] text.of = "minor" -> <<text.p, text.V, text.v>>
       [] text.of = "subsystem" -> version \o <<"subSystems", Index(text.ss + 1)>>
       [] text.of = "state" -> InSubSystem("states", text.key[1])
       [] text.of = "op" -> InSubSystem("operations", text.key[1])
       [] OTHER -> page.subject \o (IF Len(page.subject) > 3 THEN <<"value">> ELSE <<>>)
                     \o <<text.of, Index(text.id + 1)>>

\* The page of a value of a state looks for the sub system that has the number of the sub
\* state, and ranges of floating point numbers are not looked for in the state.
IsMistaken(to) == "ssid" \in DOMAIN to /\ (to.ssid # to.ss \/ to.t = "f64")

\* The list of the products has their names as they are in its links: one with a character
\* that means something else in a URL is read as another name.
IsMisread(text, page) == page = Start /\ text.of = "product" /\ Decoded[text.p] # text.p

\* Every link but these leads to the page of what its text names, in the same version, and
\* no exception is in the way.  Every bar and every segment fits into its chart, and so do
\* the segments of the listed values together; but that of the other values has less than
\* one percent, and less than nothing where the listed ones have more than one.
LinksLead ==
  LET IsThere(to, place) == to.ok /\ to.subject = place
      Right(page) ==
        /\ \A l \in page.links : \/ IsMistaken(l.to) \/ IsMisread(l.text, url)
                                \/ IsThere(PageOf(l.to), Named(l.text, page))
        /\ \A b \in page.bars :
             IF b.rest THEN 100 * b.part < b.whole ELSE b.part \in 0 .. b.whole
  IN written = "report" => Right(PageOf(url))
=============================================================================
