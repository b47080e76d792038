# Verification of lemontree

lemontree collects telemetry of Windows applications: a library writes a log
file, a helper process uploads it, a receiver stores it, an analyzer adds it to
an analysis, and a web server shows the analyses. The repository has no tests
and no manual; what it promises stands in comments and messages of the source,
and the models below are translated from that source.

The TLA+ modules here model the parts in which processes and threads meet:
starting, writing, sweeping, uploading, receiving, analyzing and moving logs; what
an analysis is made of; and the formats that one program writes and another reads,
down to the pages. TLC checks them on small instances, and TLAPS proves what matters
most of the concurrent parts, and of the analysis, for every value of the constants.

## 1. The system

| part | source | state it keeps | operations |
|---|---|---|---|
| liblt | `liblt/src/liblt.cpp` | `_lt_context` (initialized, failed, mutex, file), shared by all threads of an application | `lt_init`, `lt_write_block`, ~20 reporting functions, stack traces, system information |
| ltsend | `ltsend/src/ltsend.c` | the mutex of its session, the log folder of the user | `EntryPoint` (wait, sweep), `HandleFile`, `TransferToServer` |
| ltrcv | `ltrcv/src/ltrcv.cs` | `keepRunning`, `threadCount`, the folder `received\` | `RcvThread`, `ClientThread`, `ReadDecryptFile` |
| ltanalyze | `ltanalyze/src/` | an analysis file (`.nlz`), a report (`.nlz.json`) | `main`, `analyze_file`, statistics, serialization |
| ltsrv | `ltsrv/src/` | `_Configuration`, `_IgnoredFiles`, `_Analysis` | `Update`, `ReloadData`, web pages |
| ltshow, lttrace, examples | | none | print a log; report the crash of another process; demos |

How they interact:

```
 application threads --records--> log file in a folder
   | first call starts              ^ opened, uploaded, deleted
   v                                |
 ltsend (one per run of an app) ----+--TCP--> ltrcv thread per connection
                                                | File.WriteAllBytes
                                                v
                        ltsrv Update thread <- received\<product>\<ticks>
                          | starts, waits for          | moved or deleted
                          v                            v
                        ltanalyze --> .nlz, .nlz.json --> ReloadData --> pages
```

- Threads of an application share `_lt_context`: a mutex guards the writes, but
  nothing guards the initialization.
- Each run of an application starts its own sender, which waits for that process
  to end. Senders of one session of Windows share a mutex, all those of a user share the
  folder; a sender uploads every log it finds, also those of other runs.
- Sender and receiver share one TCP stream per log. The receiver reads fixed
  amounts, the name, the solution, the key and the MAC with one `Read` each, and decides
  by the MAC when the data is complete.
- ltrcv and ltsrv share the folder of received logs: only the share mode of a file
  that is being written keeps ltsrv from reading half of it.
- ltsrv and ltanalyze share the analysis files; ltsrv learns of a failure by the
  exit code, whenever it came, and ltanalyze writes in place. Nothing ties the two
  processes: an ltanalyze may outlive the ltsrv that waited for it.
- The client threads of ltrcv count themselves, and the accepting thread tests the
  count; they share a mutex for it, and one for the random numbers.
- Four formats lie between programs, each with a function per side and structure and
  nothing that keeps the two in step: the log (liblt; ltanalyze, ltshow), the stack
  traces in it (liblt; ltanalyze, lttrace), the analysis file (ltanalyze on both sides),
  and the report (ltanalyze; the classes of ltsrv).

What is hard, and what makes each part correct (PROJECT.json, "hazards", has the
lines):

| part | hard | correct when |
|---|---|---|
| liblt | a race of two first calls, a wait of 100 ms, a terminated owner of the mutex, early returns, failing writes | a log starts with header and system information, no record is lost without the log being marked as failed, one thread writes at a time, every call returns |
| ltsend, sweep | a killed owner of the mutex, several sessions, logs of running applications, `OPEN_ALWAYS`, process ids given to others | one process of a session sweeps at a time, nothing is uploaded while it is written, a log is deleted only when the server holds it, every finished log is tried |
| ltsend and ltrcv, upload | partial reads, broken connections, exit and restart, the retransmission, names by clock tick | no log is lost, every session ends on both sides, and where nothing fails it delivers |
| analysis of a log | tables that say the same from two sides, references by position, pointers into vectors that grow, what survives saving and loading | the tables agree, what they name exists, references stay right, sums and bounds are those of the samples, each with the machine it was measured on |
| ltrcv, accepting | counts changed by threads that start and end on many ways, mutexes kept over a `return`, an exit while it waits | the count is that of the threads, a full server takes clients again, an exit ends every thread |
| formats | fields without names or lengths, sections told apart by one byte, writes that are short in the middle of a file, a file over a longer one, members found by name | what is written is read, each value where it was from; what is cut off is refused, what has a hole is never read through |
| pages | items found by place, by number or by value; numbers that are those of another page | a link leads to what its text names |
| ltsrv and ltanalyze | bad logs in a batch, calls that fail after they have written, moves that fail, stops between any two steps, files overwritten in place | a log is counted before it leaves the folder, once per run of the server unless a call fails late, and stays counted; the pages show the analysis or a later report catches up; good logs leave |

## 2. The modules

| module | models | state and actions |
|---|---|---|
| `LogDelivery` | what uploading promises, for the machines and the server together | `onDisk`, `stored`; `Record`, `Store`, `Delete` |
| `LogTransfer` | `TransferToServer` against `ClientThread` and `ReadDecryptFile` | per connection the pc of both sides, the stream as two positions (`sent`, `rcvd`), `down` for answers, `store` for `received\`; one action per send, receive and read, `ClientFails`, `ThreadFails`, `Exit`, `Restart`; `calm`, chosen once, has none of these |
| `LtSend` | `EntryPoint`, `HandleFile` as one step, and `lt_init` as far as it starts a sender | per run of an application its session, its state and the pc of its sender; the folder; the mutex of each session (handles, owners, abandoned); one action per call of Windows, `Kill` |
| `LtContext` | `lt_init`, `lt_write_block` of concurrent threads | `_lt_context`, the mutexes with owner and depth, the logs as sequences of blocks, handles with their own position; one action per statement that other threads can see, `Die` |
| `LtUpdate` | `Update` and `ReloadData` of ltsrv, `main` of ltanalyze | the folder, `_IgnoredFiles`, the analysis and report of each group as the number of times they count each log, the locals of `Update`, the calls that outlive it (`orphans`); one action per step of a call of ltanalyze, per file written or moved; `CallFails`, `ReportIsLost`, `Stop`, `Start`, and the steps of an orphan; histories `late`, `behind`, `spoilt` of what failures have done |
| `LtStatistics` | the statistics of `lta_op.h`, and what is left of a `lt_perf_data` in `lta_io.h` | operators: `SummaryWith`, `ExactWith`, `RangeWith`, `MetricWith`, `PerfWith`, `WithError`, `DaysWith` add one sample, error or log; `...Agrees` are the reference definitions |
| `LtAnalyze` | `analyze_file`, and `main` where it loads and saves | `analysis` (every table of `lt_analyze`), `live` (`lt_sub_system` of the log at hand), `hwInfo`, the analysis file; one action per kind of record, `Start`, `BeginLog`, `EndLog`, `Fail`, `Write` |
| `LtSort` | the quick sort of `lta_types.h` | operators; `SortAgrees` is its reference |
| `LtAccept` | `RcvThread`, `AcceptClient`, beginning and end of `ClientThread`, `Main` of ltrcv | `threadCount` and its mutex, the mutex of the random numbers, the connections not yet accepted, the pc of the accepting thread and of each client's; a load and a store where the count is changed |
| `LtLayout` | writing and reading of binary layouts | layouts are sequences of fields, files are sequences of tokens with their widths; `Written` and `Read` are the two sides |
| `LtLogTypes`, `LtSections` | what writers and readers of logs have in common; how a reader finds sections | constants; operators |
| `LtLogWriter`, `LtLogReader`, `LtShow` | the log: the reporting functions and `lt_init` of liblt; `analyze_file`; ltshow | one layout per structure and side |
| `LtStackTrace` | both writers of stack traces in liblt, both readers (ltanalyze, lttrace) | operators, folds over the words that are looked at and the entries of a trace |
| `LtTrace` | words in memory, one more at a time, and what traces say of those that are looked at | `written`, `words`; `PushWord`, `WriteOther` |
| `LtAnalysisWriter`, `LtAnalysisReader` | every `serialize` and `deserialize` of `lta_io.h` | one layout per structure and side |
| `LtReport` | every `jsonify` of `lta_io.h`, histograms included | one JSON value per structure |
| `LtReportReader`, `LtReportMembers` | the classes of ltsrv, `Analysis.Sort`; the field of the analysis that each of their members stands for | types, and values converted to them |
| `LtPages` | the pages and charts of ltsrv | one operator per page: links, bars, and whose data is shown |
| `LtFormats` | a log written section by section, with writes that are short at any place, the words of `LtTrace`, analyses saved over each other, reports loaded and pages looked at | `written`, `whole`, `file`, `count`, `short`, `room`; `words`; `stored`, `url`; one action per section, save, load and click |
| `MC...` | instances for TLC | |
| `LogTransferProofs`, `LtSendProofs`, `LtUpdateProofs`, `LtAcceptProofs`, `LtContextProofs`, `LtAnalyzeProofs`, `LtStatisticsProofs`, `LtTraceProofs` | theorems | |

`LogTransfer` and `LtSend` both implement `LogDelivery`: the sweep treats an upload
as one step that stores the log or does not, and `LogTransfer` is what that step
consists of. `LtSend!Fairness` assumes that an upload ends; `LogTransfer!SessionsEnd`
is what justifies it. `LtAnalyze` is the inside of what `LtUpdate!Analyze` does for one log,
and `Write` is the same step in both; `LtFormats` is what that step writes.
`LtAccept` surrounds the sessions of `LogTransfer`, of which it knows that they end.
`LtUpdate!Receive` and `Save` are the file that
`LogTransfer!BeginSave` and `EndSave` write.

How code became state:

- *LogTransfer.* What a client may send is fixed once its log is, so the stream is a
  position. A read takes any non-empty part of what is under way; but the solution, the
  key and the MAC are one `Read` each in ltrcv, which throws when it is short
  (`ShortRead`), and what one `Read` gives of the name is taken for the name. `macAt` is the
  position that `ReadDecryptFile` took the MAC from, and `crypto_unlock` succeeds
  exactly if a MAC starts there and all of the data follows (`Unlocks`).
  The process that ends and starts again resets every connection (`Restart`).
- *LtSend.* The mutex is named `Global_lemontree_ltsend`, which is not in the namespace
  `Global\`: there is one per session, and `Peers` are the senders that share it.
  `CreateMutexW` gives a handle to all of them and the ownership to the first; a mutex
  without handles is gone. Killing an owner abandons the mutex, and what
  the next waiter does with `WAIT_ABANDONED` is `AcquireFails`. `FindProcess` may
  find the application, nothing, or another process with its id, which the sender then
  waits for without a limit (`mistaken`), and which need not ever end.
- *LtContext.* A file is a sequence of blocks, and every handle has its position, as
  two handles of one name overwrite each other. Mutexes count acquisitions, as those
  of Windows do: the thread that runs `lt_init` owns its mutex twice when
  it writes.
- *LtUpdate.* An analysis file is absent, torn (written in part, and unreadable), mixed
  (part of the new one in front of the rest of the old one, as it is opened with
  `OPEN_ALWAYS` and overwritten in place, and readable all the same) or whole; a report
  that was opened and not written is empty. `Analyze` is what ltanalyze does until it
  writes: it reads the file, truncates the report, adds the logs, in the order of its
  arguments. `Write` and `Report` are apart, as the process may end in between.
  `CallFails` ends it with a failure in each of the three, whatever it has written by
  then (`CutOff`); `ReportIsLost` is the report that could not be written although the
  exit code is 0. `Stop` takes the call at hand with it or leaves an orphan, which goes
  on beside the next run of ltsrv. `behind` are the groups whose report a failure has
  left behind, `spoilt` those whose analysis was written in part or replaced by an
  orphan, `late` the number of calls that failed when their logs were counted already.

- *LtAnalyze.* A table (a `SoaList` of an identifier and a `lt_transition_data`) is a bag
  of tuples: sub system, the entry the table belongs to, its identifier. Finding or
  appending an entry and counting it is one more copy. `get_state` and `get_operation`
  add what they do not find, hence the sets `states` and `operations`. Each action makes
  the lookups and updates of its `case` in one step, as nothing else runs in the
  process. Lists of errors are sequences, as their order matters. An average is kept
  as a sum and a count: `adjust` computes the same but for rounding. Signed, unsigned
  and floating point values share an action, as their code differs in the type only;
  ranges of two dimensions are left out. Reading the headers and failing in the middle of
  a log are `BeginLog` and `Fail`: nothing is saved after a failure.
  `told` is a history of what the logs said, for `DaysAreRight` and `ValuesAreRight`.

- *LtAccept.* An increment is a load and a store of a thread that owns `threadCountMutex`,
  so that it is the mutex that keeps the count right, and not the model. Each way out
  of `ClientThread` (refused, failed, done, an exception) passes the same `finally`.
- *Formats.* A token is a number with its value if the format needs it (lengths, counts,
  tags), and otherwise stands for the field it was written from: its place, the
  names and indices on the way to it. A reader gets tokens by their widths, so that a
  field of another size, or a missing one, shifts all that follows; and every value it
  takes must be from the place it puts it to. An object is given by its *shape*: the
  length of its texts and traces, the number of items of its containers, the optional
  parts it has, its kind. Contents of texts, and hashes, are left out. Only version 11 of
  the log and of the analysis is modelled, as no program writes another. After a
  short write the log goes on, with what `lt_init` writes next or what another thread
  writes that has not seen `failed` yet; `short` are the sections with a part in the log.
- *Report and pages.* The number of an item is its identifier, that of a sub state one
  more, a count two more, so that one taken for the other shows. Newtonsoft.Json, which
  fills classes by names and converts values, is external; a list that is missing is
  empty. Not-a-number is written as 0; that every other number has a JSON form is assumed
  (section 3). Names that the pages look up in an `Info` are left out, and a page is made
  in one step. `Decoded` says which product a URL names that has the name of a product
  as it is; in the instance one name is another and `&` and something.

Left out as data: cryptography, contents of records, names of files but their
equality, console output, waiting times but their effect.

## 3. The runs

| run | instance | shows |
|---|---|---|
| `transfer` | 2 logs of 2 machines, one of an unknown product whose name starts with a known one, 2 connections, data of 3 units, 2 reads; with failures, and calm | safety of an upload, `SessionsEnd`, that it implements `LogDelivery`; without failures, that logs of known products are delivered |
| `ticks` | the clock may repeat a tick | **violated**: `NoLogLost` |
| `sweep` | 2 applications, of one session or two, one log unsendable, 1 fault | exclusion in a session, no empty logs in one session, no early upload, delivery, every finished log is tried |
| `sessions` | the same | **violated**: `OneSweeperOfAll` |
| `context` | 2 threads, 2 calls each, 2 names, 1 termination, writes may fail | the log of a program whose first call is not raced, and that calls return, always |
| `race` | the same | **violated**: `SystemInfoIncluded` |
| `update` | 4 logs of 2 groups (one new, one with a bad log), moves that fail; once, a call that fails, a lost report, or a stop with or without an orphan | counting, moving, pages, progress |
| `newfile` | a new group with a good and a bad log | **violated**: `NewIsNew` |
| `analyze` | 2 sub systems, 2 states, 2 operations, 2 errors, 2 machines, 5 logs and records, 2 of them values; series of up to 5 samples, ranges of at most 2 buckets | agreement of tables, references, days, values, machines; the statistics against their reference |
| `lastop` | 1 sub system | **violated**: `OperationsAreMirrored` |
| `accept` | 3 clients that come again and again, at most 2 threads | the count is right, clients are taken or turned away, an exit ends all |
| `formats` | logs of a header, a system information and records of any type and size, three sections after the header or two if one write is short, at any token or in it; up to 6 words of 5 kinds in memory, depth 3; 4 analyses, each saved over each; 4 reports of 2 products with 0 to 3 items, at most 2 values listed, 4 buckets, in every order of loading, and every page that links lead to | logs, traces, analyses and reports read back, logs with a hole are not read through; links and bars |

Why the bounds are enough. Two connections are the fewest that can meet at one tick
or be cut off by one restart while both are in use; a third adds a thread that does
the same. Three units of data are the fewest with a first, a middle and a last read,
and with two reads a transmission can run out of reads with units still under way.
Two senders are an owner and a waiter. Two threads are what a race takes, and two
calls give one record before and one after something goes wrong; two names allow
the logs of a race to be one file or two. Four logs give a group in which a batch
with a bad log is tried again with two good ones, and a group beside it. One mishap,
a stop or a failing call, separates "before" from "after"; the proofs cover any number
of them, and of the faults of `sweep`. In
`context`, deaths are at most one, since more terminations leave one thread.
In `analyze`, five logs and records are a log with four records (a state, an operation
in it, another of each), or two logs with three, so that a record meets what an earlier
log, or an earlier run of ltanalyze, has left. 256 buckets become 3, the divisor 128
becomes 3, 365 and 356 days become 3 and 2: buckets are merged, and days are left out,
within a series of five. `StatisticsAgree` does not depend on the state and is
evaluated in the first one only; it sorts lists of up to five, which have every way
through a partition; the theorems of section 5 have no such bounds.
In `accept`, three clients are one more than there is room for. In `formats`, the shapes
are the empty ones and the largest ones (texts of 255 bytes, traces of 32 addresses
with names, 31 monitors), since a length, a count or a buffer is wrong at an end or
everywhere; every record type meets every other as its successor. One short write is
one hole, or one end that is cut off; with a hole, one more section is behind it. Six
words at depth 3 are a trace cut off by the depth, by an unknown word or by a repeated one,
and leave words that are not looked at. Two items
of everything are the fewest that could be mixed up, three are more than are listed.

Deadlock is checked in `update` and `analyze`; the other programs end, or have nothing to
do any more: connections are used up, calls are made, files have their bounded length.

Every property of a passing run has a mutant in PROJECT.json: an operator in the
module, placed before the definition it replaces and named after it
(`OpenFails_KeepsMutex`, `Failed_Ignored`, ...), that changes the definition the way a
slip in the code would. TLC finds the property violated with it.

### What does not hold

Five runs find disagreements between the code and what it says of itself
(PROJECT.json, "findings", has the quotations).

1. `ticks`: received logs are named by `DateTime.Now.Ticks`; a second log of the same
   tick overwrites one whose sender was told OK and has deleted its copy.
2. `sessions`: messages and name of the mutex of ltsend say that it is global, but it is
   not in the global namespace of Windows: two sessions of one user sweep the folder at
   once, and `OPEN_ALWAYS` may create a log anew, empty, that the other has deleted.
3. `race`: two first calls at once run `lt_init` twice and leave a log without
   system information, or with two headers.
4. `newfile`: after a failed batch of a group without an analysis file, each log is
   given to ltanalyze with `-o`, so that each call replaces the analysis of the one
   before, whose log is already gone.
5. `lastop`: `analyze_file` looks up the operation before an operation by the operation
   itself (ltanalyze.cpp:590), so that the page "Previous Operation" names every
   operation as the one before itself.

Beside these there are smaller ones, which no run is spent on. Where a property of a
passing run has to except one, its definition says so by name.

- After `RE` the server reads on where it stopped, and takes 16 bytes of the first
  transmission for the MAC of the second: the retransmission can never succeed. Its
  consequence is proved (`RetryNeverSaves`).
- A sender that is told `WAIT_ABANDONED` owns the mutex, but ends without a sweep
  (ltsend.c:985); its log waits for the next run of an application (`AcquireFails`).
- A sender that starts late may wait for another process that has the id of its
  application (ltsend.c:966), for as long as that one runs; its log waits for a sweep of
  another sender (`LogsAreTried`, `mistaken`).
- A part of the handshake, or a MAC, that TCP cuts ends the session, as ltrcv makes one
  `Read` for it (ltrcv.cs:161, 203, 234, 351); the log waits for another sweep.
- A call of ltanalyze that fails when it has written the analysis, at its report or its
  end, makes ltsrv try the logs again one by one, and they are counted twice (`late`). One
  whose report is lost, or that was stopped, leaves an empty report beside a good
  analysis: the page is gone until the group's next log (`behind`). And an ltanalyze that
  outlives its ltsrv overwrites what the next has added meanwhile (`spoilt`).
- A short write of a log does not keep liblt from writing on: after that of the header
  (liblt.cpp:864) the system information follows, after that of a record what a thread
  writes that waits in `lt_write_block` (liblt.cpp:884). Readers never get through such a
  log, but may take bytes behind the hole for something else before they notice.
- `lta_io.h:614` writes `minInfo` where `maxInfo` is meant: after an analysis is loaded,
  the longest time of the profiler is shown with the machine of the shortest
  (`PerfLoaded`, `IsMaxInfo`). `MeasuredThere` is stated for the shortest time and
  for metrics.
- Ranges in two dimensions: the histogram of the second takes the bounds of the first
  (lta_io.h:1787), and their transition data is never written (lta_io.h:1838;
  `MayBeUnset`). Neither are average, least and largest of `isWireless`.
- Profile data without an operation before it has an empty object there, which ltsrv
  reads as operation 0 (`IsLastOperation`).
- A number that is infinite is printed as `inf` (lta_types.h:96): ltsrv cannot read such
  a report, as its second attempt replaces `nan(ind)` only.
- The page of a value of a state looks for the sub system that has the number of the
  sub state, and ranges of floating point numbers of a state are those of the sub
  system (`IsMistaken`). "Other" in a pie chart has the share of `1 - offset`
  percent instead of `100 - offset` (GraphGen.cs:206, 249; the operator `Other`, and
  the bars that `LinksLead` says less of), which is negative when the listed values have
  more than one percent. `ShowProjects` does not encode the name of a product
  (SubSystemInfo.cs:35), so that one with a `&` leads to another page (`IsMisread`).
- The writer of the trace of another process goes over the copy of the stack up to the
  number of segments of the process, not of words of the stack (liblt.cpp:1431): it may
  look at few of them, or at memory behind the copy. `TraceReadsBack` is about the words
  it looks at, whichever these are. A module whose name has a
  character with a zero low byte ends its name early.

## 4. Fairness

- *LogTransfer.* Weak fairness of every client and thread step: both processes run
  their threads. `ClientGivesUp` and `ThreadGivesUp` are the time-outs of 15 s
  and 120 s and the end of the stream: they are taken only by a side that waits for
  something that is not under way. Failures have no fairness. Calm behaviours have no
  failures, and with them no time-outs: `SessionsEnd` is about the others, and
  `KnownLogsDelivered` about those, where each part of the handshake, and each MAC, comes
  in one piece and the data in any, as long as the reads suffice (`Starved`).
- *LtSend.* Weak fairness of every sender; none of applications, or of another
  process that a sender waits for by mistake. Strong fairness of obtaining the mutex,
  since Windows queues the waiters of a mutex, and it may be released and taken any
  number of times meanwhile.
- *LtContext.* Weak fairness of the steps of a thread inside a call: the
  scheduler runs it, and the only call that blocks is the wait, which has a
  time-out of 100 ms. Threads are not obliged to call.
- *LtAccept.* Strong fairness of the accepting thread and of every thread of a client:
  each runs, and what they wait for are mutexes, whose waiters Windows queues, so that
  a step that is possible again and again is taken. A session ends (`SessionsEnd` of
  `LogTransfer`). Clients are not obliged to come, nor is anybody to type "exit".
- *LtAnalyze* and *LtFormats* have no fairness: their properties are safety properties.
- *LtUpdate.* Weak fairness of the update thread: `Main` calls `Update` every second
  and ltanalyze ends. ltrcv is not obliged to finish a file, neither failures nor the
  steps of an orphan are obliged to happen, and nobody need start ltsrv again: hence
  `pc = "down"` in `GoodLogsLeave`.

## 5. What is proved

All theorems hold for every value of the constants that satisfies the module's
ASSUME. These say what the code ensures (a log is no longer than the receive
buffer, since `HandleFile` refuses longer ones; a product name is shorter than the
solution) and that sets contain what they should.

**LogTransfer** (`LogTransferProofs`).
`TypeCorrect`, `OnlyKnownProducts`, `RetryIsInVain`, `AtMostTwice`, `NoLogIsLost`,
`TransferImplementsDelivery`. The invariants are layered. `TypeInv`
adds to the types that a thread in the read loop has a read left, that a used
connection has a log, and that a writing thread has a file. `StreamInv` relates
positions in the stream to the two pcs: how far the client can have sent at its pc,
and where the server must have read from. Its core is that the server leaves the
first `ReadDecryptFile` either with the log or strictly before the end of the first
transmission, so that the second MAC is never read from `RetryAt`; hence
`RetryNeverSaves`, and hence at most two transmissions. `DeliveryInv` says who may
count on a log being stored (a thread about to send OK, an OK under way, a
client about to delete) and that a file being written has one writer. The last two
theorems assume `FreshTicks`, that the clock gives each file a new name: the run
`ticks` shows that they fail without it.

**LtSend** (`LtSendProofs`). `TypeCorrect`, `SweepsAreExclusive`, `NothingIsCreated`,
`UploadsWaitForExit`, `SweepsImplementDelivery`, for any sessions. The first two start at
the mutex: who sweeps owns that of its session and has a handle, so nobody of its session
can create it anew (`MutexInv`); so, where all are of one session, nobody else deletes what
a search has returned, and `OPEN_ALWAYS` opens only what is there (`SearchInv`). Neither
`OneSweeper` nor `NoEmptyLogs` is inductive without the handles and the directory search,
and the run `sessions` shows why the latter needs one session. The last two do without the
mutex: a sender opens a file with a share mode that lets others delete it at most, so what
it has open is not open for writing, its application has ended, and no other sender has it
open (`FolderInv`, `UploadInv`).

**LtUpdate** (`LtUpdateProofs`). `TypeCorrect`, `CountedOnce`, `NothingIsForgotten`,
`CountedFirst`, `PagesCurrent`, for any number of stops, failing calls and lost reports.
`CountedOncePerRun` alone is not inductive: a step that analyzes a log needs to know that
this run of ltsrv has not counted it yet, unless a call has failed late. `Spent` are the
logs that were moved, ignored or just added; `QueueInv` says that what is yet to be
analyzed (the groups to come, the logs tried one by one, the call at hand) is disjoint from
what was moved or ignored. `CountInv` gives each log as much room as there were stops and
late failures, one more if it is spent, and one less while an orphan has yet to add it
(`Room`, `Pending`), and says that what is on the file, what the call at hand has read and
what an orphan has read fit in. That even the type of the counts is bounded follows from
it; `ReadInv` says what may have been read. `KnownInv` (an analysis file that was there
stays, is opened with `-io`, and what was read of it counts the logs that are gone, unless
it is `spoilt`) gives `NothingForgotten`. `PagesAreCurrent` is about the moments between two
updates; `PagesInv` says for every moment which of analysis, report and page is ahead of
which: of a group that is not `behind`, the report differs from the analysis only while
ltanalyze is at work on it, and the page from the report only until the update that
has changed it ends, which is why `updated` must not be lost on any way out of it, or while
ltsrv is down.

**LtAccept** (`LtAcceptProofs`). `TypeCorrect`, `CountIsRight`. `CountIsThreads` compares
a number with the size of a set, and each store changes both: the store must be of what
the count still is. `MutexInv` says so: a thread between its load and its store owns
the mutex, and what it has loaded is the count. `ClientInv` says that whoever is
accepted has no thread yet, so that starting one takes nobody out of the set.

**LtContext** (`LtContextProofs`). `TypeCorrect`, `WritersExclude`, `MutexComesBack`,
`LogsBeginRight`, `NoRecordIsLost`. The types, for any number of calls, need that no mutex is acquired a
third time (`TwiceInv`): a thread has one twice only while it writes a record, or after a
release that failed, since which `failed` keeps everybody from another record. The
other theorems are about contexts that one thread has created (`Alone`). As `created`
only grows, they were that from the beginning; so whoever finds the context
uninitialized is the first to do anything (`FirstOfAll`), and every mutex that is waited
for is that of the context (`OwnerInv`). `ReleaseInv` ties depth and owner to the
pc of the owner, and `Started` the length of the log to how far its creator has come:
only an append at the end keeps a log well formed (`WellFormedGrows`). `HeldInv` says
that, until a thread dies or something fails, the log holds of each thread exactly the
records of the calls it has written (`Made`: the call at hand counts from its record
on), each once and in order (`Kept`); so `NoSilentLoss` holds for any number of calls.

**LtAnalyze** (`LtAnalyzeProofs`). `TypeCorrect`, `NamesAreKnown`,
`TablesAlwaysAgree`, `ErrorsStay`, `DaysAlwaysRight`, `FlowAlwaysBalanced`,
`ReferencesAlwaysRight`, `ValuesAlwaysRight`. For each operator that changes an analysis there is a lemma
on the fields it leaves alone and one per invariant that it disturbs; what is on the
file was in memory before (`FileKept`), and `Loaded` changes no table.
`NothingDangles` needs that nothing is known of a log between two runs (`DangleInv`),
`TablesAgree` needs it in turn: `stateReach` counts the state before only if that is among
the states seen. `ErrorsKeepPlace` is about two files; `PlaceInv` says of every moment in
between that the lists in memory go on where those of the file end. `DaysAreRight`
only speaks of days that are close to each other; `DaysTell` adds why that is enough:
the series begins and ends with a day on which a log was started.

The second part of `LtAnalyzeProofs` has what is said with sums over tables. The folds of the library are
recursive over sets, and the library's theorems on induction cannot be used; but the
well-founded ordering of the subsets of a finite set can (`SubsetInduction`: a set of
subsets, not a predicate). From it follow that the folds exist, that any element may be
taken out of them first (`TotalSplit`), and what one more copy in a bag does to a sum
(`SumPlus`). `FlowIsBalanced` is not inductive, as a log may end in the state in which
another began: `FlowInv` says by how much the log at hand can still tip the balance,
depending on whether it is in the state, in another or in none. `ReferOK` speaks of
every place of every list instead of those that are referred to, since an operation
may be the first to refer to an error; nothing refers to a place behind the end of a
list (`NoReferenceYet`).

`ValuesAreRight` is proved from `ValuesInv`: of every `lt_values_exact` that it adds up
(`ExactOK`), of every `lt_value_range` that its buckets do, are fewer than `MaxBuckets`
and lie between the bounds (`RangeOK`), for the analysis, each state and the metric; that
no sub system counts a value for two states (`Spread`); and that each bound of a measure
was told by a log (`MeasuredOK`). `ExactGrows` and `RangeGrows` say that a sample keeps
this. For the latter, a sample joins one bucket at most (`BestIs`), a bucket joined from
two lies between the same bounds (`InsideJoined`), and when there are too many buckets
there is a closest pair to combine, whatever the samples (`ClosestIs`): the gaps are
fractions, their order is transitive (`FractionOrder`), and a finite set has a least pair
(`LeastOf`). Sums over states need that there are finitely many (`StatesAssumption`: their
identifiers are two numbers of 64 bits).

**LtStatistics, LtSort** (`LtStatisticsProofs`). `StatisticsAlwaysAgree`, from
`ExactIsRight`, `RangeIsRight`, `MeasuresAreRight`, `DaysAreCounted` and `SortIsRight`: the
five comparisons with a reference, for every series and every list, of which the run has
the short ones. A fold from the left is defined by recursion over the places of a
sequence. There is such a function (`FoldExists`), so that a fold is as many steps as the
sequence has elements (`FoldSteps`), and a statement on the first k samples that each
step keeps holds of all: `ExactAt` (single values have occurred once, the others as often
as it says), `RangeOK` with `Summed`, `MetricAt` and `PerfAt` (the machine of a bound is
the first that measured it), `TellAgrees` for the days. Induction is that of the
library on subsets of a finite set, applied to sets of numbers (`NatSetInduction`).

`SortIsRight` follows a round of the partition (`DivAt`: the entries so far are above the
larger pivot, between the two, or not above the smaller one) to its end (`Parted`: three
parts with the pivots between them). What is still to be sorted is a queue of parts
(`Queue`) that do not overlap; two entries are in order unless one of these parts has
both (`InOrder`), and entries are only moved within a part. Every call makes twice the calls
and three times the entries in them less (`Measure`), so that the queue is empty within
the number of calls that the model allows (`Calls`), and the list is in order. That the
sort ends is thus proved, too, for lists with any number of equal values.

**LtTrace** (`LtTraceProofs`). `TracesReadBack`: `TraceReadsBack` is an invariant of
`SpecTrace`, for any modules and offsets, any depth from two on, any number of words, and any number
of segments, which is that of the words looked at in the copy of a stack.
`SpecTrace` is what `LtFormats!Next` does to `written` and `words`, its other actions being
`WriteOther` or leaving both alone; it is apart as `LtFormats` has recursive operators. Both
writers and both readers are folds; with one word, or entry, more they go one step
further (`FoldMore`). A writer and its readers are kept in step (`Agrees`): what is
written so far is read as the frames of the addresses so far, and where the writer
remembers a library, both readers have its name, so that an entry without one is read
right (`WriteMore`). This is all there is to an own stack (`OwnWritten`). In that of a
crashed process, what is written is, besides, the first of the addresses that differ from
the one before, and the writer stops when they are as many as it may store (`Foreign`,
`ForeignMore`). The depth is assumed to be two at least (the code has 32): an address in
the first place is not counted against it.

Only model-checked: everything about liveness (`SessionsEnd`, `KnownLogsDelivered`,
`LogsAreTried`, `CallsReturn`, `GoodLogsLeave`, `ConnectionsAreTaken`, `ServerStops`),
which is out of reach of the prover; and `LogReadsBack`,
`AnalysisReadsBack`, `ReportReadsBack` and `LinksLead` of `LtFormats`, whose layouts
and readers are recursive operators (a layout has layouts in it, a JSON value has values
in it), for which the prover has no backend. What they say of the shape of a file is
finite but for the numbers of items, and the shapes are chosen for those (section 3). The types of `LogTransfer`, `LtSend`, `LtContext`, `LtUpdate` and `LtAccept` are proved
and in no run.

The inductive invariants were checked with TLC on the instances of the runs before
they were proved.

## 6. Not modelled

- Of ltanalyze: delays and times since the start (also their unsigned differences, which
  wrap when records of two threads are out of order), operation indices, merging of ranges
  of two dimensions, files of older versions, the options of the command line but for
  `-i`, `-o` and `-io`.
- A crash of the process that writes the trace of another one, when it looks at memory
  behind its copy of the stack (liblt.cpp:1431). What it may find there are any words.
- What a loss of power leaves of a file whose writes had returned; an ltanalyze.exe that is
  not there, which ends `Update` by an exception.
- How liblt asks Windows for the hardware and for the modules of a process, the hash of a
  trace: results of the machine at hand. DIA and Zydis, which find names and assembly for
  addresses: libraries.
- Colours, wording and layout of pages, the web server; what ltshow prints beside the
  values; the options of lttrace and the debug events that make it write.
- The configuration of ltsrv with several projects and intervals: each is a loop over what
  `LtUpdate` models once.
- The C runtime in ltsend (its loops over 16 bytes in `memset` and `memcpy` do not end
  for exactly 16, ltsend.c:60; which calls become instructions depends on the build), and
  its debug log: below the level of these models.
- Two logs of liblt with one name (liblt.cpp:808: units of 10 ms in 32 bits) but in
  `LtContext`, where two threads may get it: an assumption of the other models.
- Build scripts, examples, vendored code.

## 7. Plan

Done, in the order of a log's way through the system: `LogDelivery`, `LogTransfer`,
`LtSend`, `LtContext`, `LtUpdate`, `LtAccept`, each with proofs; `LtStatistics`, `LtSort`
and `LtAnalyze`, with proofs about all three; the formats, with proofs about the stack traces; the report and
the pages.

What would come next:

1. Delays in `LtAnalyze`, with records of threads out of order.
2. A reload of reports while a page is made.
