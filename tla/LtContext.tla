------------------------------ MODULE LtContext ------------------------------
(***************************************************************************)
(* The threads of one application that report to liblt: every reporting    *)
(* function calls lt_init, which the first time creates a mutex, a sender  *)
(* process and the log and writes the start of it, and lt_write_block,     *)
(* which writes one record under the mutex (liblt/src/liblt.cpp).          *)
(*                                                                         *)
(* lt_init looks at _lt_context.initialized without a lock.  Nothing keeps *)
(* a second thread from it before the first is through: then each creates  *)
(* a mutex and a log, and _lt_context holds those of whoever came last.    *)
(*                                                                         *)
(* A mutex and an open file go by the thread that created them.  What is   *)
(* written with one WriteFile is one block, and all blocks are as long.    *)
(***************************************************************************)
EXTENDS Integers, Sequences

CONSTANTS
  Threads,    \* threads of the application
  Names,      \* names a log can get: lt_time_100ns() in units of 10 ms
  MaxCalls,   \* bounds the calls of a thread to a reporting function
  MaxDeaths,  \* bounds the threads that are terminated
  None        \* no thread: a null or invalid handle

ASSUME ContextAssumption ==
  /\ None \notin Threads \cup Names
  /\ MaxCalls \in Nat
  /\ MaxDeaths \in Nat

VARIABLES
  initialized, failed, mutex, file,  \* _lt_context
  mutexes,  \* the mutex each thread has created in lt_init
  name,     \* per thread: the name of the log it has opened in lt_init
  at,       \* per thread: where the handle of that log writes next
  disk,     \* the logs
  pc,       \* per thread: where its call is
  waits,    \* per thread: the mutex that lt_write_block waits for
  calls,    \* per thread: its calls so far
  created,  \* history: threads that found the context uninitialized
  deaths    \* threads that were terminated

context == <<initialized, failed, mutex, file>>
logs == <<name, at, disk>>
vars == <<context, mutexes, logs, pc, waits, calls, created, deaths>>

-----------------------------------------------------------------------------
Handle == Threads \cup {None}

\* How often the owner has acquired the mutex: Windows counts.
Mutex == [owner : Handle, depth : 0 .. 2, abandoned : BOOLEAN]
Free == [owner |-> None, depth |-> 0, abandoned |-> FALSE]
Owned(t, n) == [owner |-> t, depth |-> n, abandoned |-> FALSE]
Abandoned == [owner |-> None, depth |-> 0, abandoned |-> TRUE]

\* The header, the system information, the record of the k-th call of t, and what
\* is between the end of a log and an offset that is written to.
Start == <<"start", None, 0>>
Info == <<"info", None, 0>>
Record(t, k) == <<"record", t, k>>
Gap == <<"gap", None, 0>>
Block == {Start, Info, Gap} \cup {Record(t, k) : t \in Threads, k \in 1 .. MaxCalls}

ThreadPC == {"idle", "create", "open", "start", "info", "unlock", "publish",
             "lock", "wait", "record", "release", "dead"}

TypeOK ==
  /\ initialized \in BOOLEAN
  /\ failed \in BOOLEAN
  /\ mutex \in Handle
  /\ file \in Handle
  /\ mutexes \in [Threads -> Mutex]
  /\ name \in [Threads -> Names \cup {None}]
  /\ at \in [Threads -> Nat]
  /\ disk \in [Names -> Seq(Block)]
  /\ pc \in [Threads -> ThreadPC]
  /\ waits \in [Threads -> Handle]
  /\ calls \in [Threads -> 0 .. MaxCalls]
  /\ created \in SUBSET Threads
  /\ deaths \in 0 .. MaxDeaths

Init ==
  /\ initialized = FALSE
  /\ failed = FALSE
  /\ mutex = None
  /\ file = None
  /\ mutexes = [t \in Threads |-> Free]
  /\ name = [t \in Threads |-> None]
  /\ at = [t \in Threads |-> 0]
  /\ disk = [n \in Names |-> <<>>]
  /\ pc = [t \in Threads |-> "idle"]
  /\ waits = [t \in Threads |-> None]
  /\ calls = [t \in Threads |-> 0]
  /\ created = {}
  /\ deaths = 0

-----------------------------------------------------------------------------
Goto(t, to) == pc' = [pc EXCEPT ![t] = to] /\ UNCHANGED deaths

\* Contents s with block b written at offset p.  A log that somebody else has
\* truncated is shorter than p.
WriteAt(s, p, b) ==
  [i \in 1 .. (IF p < Len(s) THEN Len(s) ELSE p + 1) |->
     IF i = p + 1 THEN b ELSE IF i <= Len(s) THEN s[i] ELSE Gap]

\* lt_write_block_internal: WriteFile fails if the disk is full or the handle is
\* not one of a file.
Write(b) ==
  \/ /\ file # None
     /\ disk' = [disk EXCEPT ![name[file]] = WriteAt(@, at[file], b)]
     /\ at' = [at EXCEPT ![file] = @ + 1]
     /\ UNCHANGED <<failed, name>>
  \/ /\ failed' = TRUE
     /\ UNCHANGED logs

\* Does ReleaseMutex of thread t succeed for the mutex of the context?
Owns(t) == mutex # None /\ mutexes[mutex].owner = t

Unlock(t) ==
  mutexes' =
    IF ~Owns(t) THEN mutexes
    ELSE [mutexes EXCEPT ![mutex] =
            IF @.depth = 1 THEN Free ELSE Owned(t, @.depth - 1)]

-----------------------------------------------------------------------------
(* lt_init *)

\* A thread calls a reporting function.  After a failure that does nothing.
Call(t) ==
  /\ pc[t] = "idle"
  /\ calls[t] < MaxCalls
  /\ calls' = [calls EXCEPT ![t] = @ + 1]
  /\ Goto(t, IF ~initialized THEN "create" ELSE IF failed THEN "idle" ELSE "lock")
  /\ UNCHANGED <<context, mutexes, logs, waits, created>>

\* CreateMutexW makes the thread its owner.
Create(t) ==
  /\ pc[t] = "create"
  /\ created' = created \cup {t}
  /\ \/ /\ mutex' = t
        /\ mutexes' = [mutexes EXCEPT ![t] = Owned(t, 1)]
        /\ Goto(t, "open")
        /\ UNCHANGED <<initialized, failed>>
     \/ /\ mutex' = None
        /\ initialized' = TRUE
        /\ failed' = TRUE
        /\ Goto(t, "idle")
        /\ UNCHANGED mutexes
  /\ UNCHANGED <<file, logs, waits, calls>>

\* Mutant of OpenFails: an early return forgets to release the mutex.
OpenFails_KeepsMutex(t) ==
  /\ pc[t] = "open"
  /\ file' \in {file, None}
  /\ initialized' = TRUE
  /\ failed' = TRUE
  /\ Goto(t, "idle")
  /\ UNCHANGED <<mutex, mutexes, logs, waits, calls, created>>

\* The path cannot be formed, or the log not be created.
OpenFails(t) ==
  /\ pc[t] = "open"
  /\ file' \in {file, None}
  /\ Unlock(t)
  /\ initialized' = TRUE
  /\ failed' = TRUE
  /\ Goto(t, "idle")
  /\ UNCHANGED <<mutex, logs, waits, calls, created>>

\* CREATE_ALWAYS truncates a log of the same name.
Open(t) ==
  /\ pc[t] = "open"
  /\ \E n \in Names :
       /\ name' = [name EXCEPT ![t] = n]
       /\ disk' = [disk EXCEPT ![n] = <<>>]
  /\ file' = t
  /\ Goto(t, "start")
  /\ UNCHANGED <<initialized, failed, mutex, mutexes, at, waits, calls, created>>

\* Mutant of WriteStart: the system information is written first.
WriteStart_Swapped(t) ==
  /\ pc[t] = "start"
  /\ Write(Info)
  /\ Goto(t, "info")
  /\ UNCHANGED <<initialized, mutex, file, mutexes, waits, calls, created>>

WriteStart(t) ==
  /\ pc[t] = "start"
  /\ Write(Start)
  /\ Goto(t, "info")
  /\ UNCHANGED <<initialized, mutex, file, mutexes, waits, calls, created>>

\* Asking WMI for the system information takes its time.
WriteInfo(t) ==
  /\ pc[t] = "info"
  /\ Write(Info)
  /\ Goto(t, "unlock")
  /\ UNCHANGED <<initialized, mutex, file, mutexes, waits, calls, created>>

\* The result of this ReleaseMutex is ignored.
UnlockInit(t) ==
  /\ pc[t] = "unlock"
  /\ Unlock(t)
  /\ Goto(t, "publish")
  /\ UNCHANGED <<context, logs, waits, calls, created>>

Publish(t) ==
  /\ pc[t] = "publish"
  /\ initialized' = TRUE
  /\ Goto(t, "lock")
  /\ UNCHANGED <<failed, mutex, file, mutexes, logs, waits, calls, created>>

-----------------------------------------------------------------------------
(* lt_write_block *)

BeginWait(t) ==
  /\ pc[t] = "lock"
  /\ waits' = [waits EXCEPT ![t] = mutex]
  /\ Goto(t, "wait")
  /\ UNCHANGED <<context, mutexes, logs, calls, created>>

Available(t) == waits[t] # None /\ mutexes[waits[t]].owner \in {None, t}

Acquire(t) ==
  /\ pc[t] = "wait"
  /\ Available(t)
  /\ ~mutexes[waits[t]].abandoned
  /\ mutexes' = [mutexes EXCEPT ![waits[t]] = Owned(t, @.depth + 1)]
  /\ Goto(t, "record")
  /\ UNCHANGED <<context, logs, waits, calls, created>>

\* WAIT_ABANDONED: the thread owns the mutex now, and neither writes its record
\* nor releases it.
AcquireAbandoned(t) ==
  /\ pc[t] = "wait"
  /\ Available(t)
  /\ mutexes[waits[t]].abandoned
  /\ mutexes' = [mutexes EXCEPT ![waits[t]] = Owned(t, 1)]
  /\ Goto(t, "idle")
  /\ UNCHANGED <<context, logs, waits, calls, created>>

\* Mutants of TimeOut: the record is given up and nobody is told; it is written
\* without the mutex; the thread waits again.
TimeOut_Silent(t) ==
  /\ pc[t] = "wait"
  /\ ~Available(t)
  /\ Goto(t, "idle")
  /\ UNCHANGED <<context, mutexes, logs, waits, calls, created>>

TimeOut_Writes(t) ==
  /\ pc[t] = "wait"
  /\ ~Available(t)
  /\ Goto(t, "record")
  /\ UNCHANGED <<context, mutexes, logs, waits, calls, created>>

TimeOut_Retries(t) ==
  /\ pc[t] = "wait"
  /\ ~Available(t)
  /\ Goto(t, "lock")
  /\ UNCHANGED <<context, mutexes, logs, waits, calls, created>>

\* The mutex was not to be had for 100 ms, or there is none.
TimeOut(t) ==
  /\ pc[t] = "wait"
  /\ ~Available(t)
  /\ failed' = TRUE
  /\ Goto(t, "idle")
  /\ UNCHANGED <<initialized, mutex, file, mutexes, logs, waits, calls, created>>

WriteRecord(t) ==
  /\ pc[t] = "record"
  /\ Write(Record(t, calls[t]))
  /\ Goto(t, "release")
  /\ UNCHANGED <<initialized, mutex, file, mutexes, waits, calls, created>>

\* ReleaseMutex, of the mutex that the context holds by now.
Release(t) ==
  /\ pc[t] = "release"
  /\ Unlock(t)
  /\ failed' = (failed \/ ~Owns(t))
  /\ Goto(t, "idle")
  /\ UNCHANGED <<initialized, mutex, file, logs, waits, calls, created>>

\* A thread is terminated from outside; what it owns is abandoned.
Die(t) ==
  /\ pc[t] # "dead"
  /\ deaths < MaxDeaths
  /\ deaths' = deaths + 1
  /\ pc' = [pc EXCEPT ![t] = "dead"]
  /\ mutexes' = [m \in Threads |-> IF mutexes[m].owner = t THEN Abandoned ELSE mutexes[m]]
  /\ UNCHANGED <<context, logs, waits, calls, created>>

-----------------------------------------------------------------------------
Step(t) ==
  \/ Create(t)
  \/ Open(t)
  \/ OpenFails(t)
  \/ WriteStart(t)
  \/ WriteInfo(t)
  \/ UnlockInit(t)
  \/ Publish(t)
  \/ BeginWait(t)
  \/ Acquire(t)
  \/ AcquireAbandoned(t)
  \/ TimeOut(t)
  \/ WriteRecord(t)
  \/ Release(t)

Next == \E t \in Threads : Call(t) \/ Step(t) \/ Die(t)

Spec == Init /\ [][Next]_vars

\* The scheduler runs every thread, and no call of Windows but the wait blocks.
FairSpec == Spec /\ \A t \in Threads : WF_vars(Step(t))

-----------------------------------------------------------------------------
(* Properties. *)

\* No second thread has found the context uninitialized.
Alone == \A t, u \in created : t = u

WellFormed(s) ==
  /\ Len(s) >= 1 => s[1] = Start
  /\ Len(s) >= 2 => s[2] = Info
  /\ \A i \in 3 .. Len(s) : s[i][1] = "record"

\* "General system information [...] will be included automatically" (liblt.h): a
\* log starts with its header and the system information, and ltanalyze finds no
\* "New Start" in it.
SystemInfoIncluded == \A n \in Names : ~failed => WellFormed(disk[n])

\* The same where a single thread makes the first call: then no thread writes
\* a record ahead of the header, and nobody writes a second one.
HeadersFirst == Alone => SystemInfoIncluded

\* The calls of t that have returned.
Returned(t) == 1 .. (IF pc[t] = "idle" THEN calls[t] ELSE calls[t] - 1)

\* Log s holds the records of t, each once and in order.
Holds(s, t) ==
  /\ \A k \in Returned(t) : \E i \in 1 .. Len(s) : s[i] = Record(t, k)
  /\ \A i \in 1 .. Len(s) : s[i][2] = t => \E k \in 1 .. calls[t] : s[i] = Record(t, k)
  /\ \A i, j \in 1 .. Len(s) : i < j /\ s[i][2] = t /\ s[j][2] = t => s[i][3] < s[j][3]

\* Threads that do not get the mutex in time, a full disk, a log that cannot be
\* created: a record is never lost or doubled without "failed" being set, and
\* those of one thread stay in order.
NoSilentLoss ==
  Alone /\ deaths = 0 /\ ~failed /\ file # None =>
    \A t \in Threads : Holds(disk[name[file]], t)

InCriticalSection(t) ==
  pc[t] \in {"open", "start", "info", "unlock", "record", "release"}

\* At most one thread is about to write to the log, even after an owner of the
\* mutex has died.
OneWriter ==
  Alone => \A t, u \in Threads : InCriticalSection(t) /\ InCriticalSection(u) => t = u

\* No way through the calls leaves the mutex behind, as the early returns of
\* lt_init could: what is owned is owned by a thread that is about to release it.
MutexIsReleased ==
  Alone /\ deaths = 0 =>
    \A m \in Threads : mutexes[m].owner # None => InCriticalSection(mutexes[m].owner)

\* Reporting never blocks the application: every call returns, even when threads
\* race through lt_init or the mutex is never released again.
CallsReturn ==
  \A t \in Threads : pc[t] # "idle" ~> pc[t] \in {"idle", "dead"}
=============================================================================
