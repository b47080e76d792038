------------------------------- MODULE LtSend -------------------------------
(***************************************************************************)
(* The sending processes of one user: EntryPoint of ltsend/src/ltsend.c    *)
(* and the part of lt_init (liblt/src/liblt.cpp) that starts one of them   *)
(* for each run of an application.  A sender waits for its application to  *)
(* end, takes the mutex of its session, and sweeps the log folder: it      *)
(* opens every file it finds, uploads it and deletes it on success.        *)
(*                                                                         *)
(* The folder is the user's.  The name of the mutex is not in the global   *)
(* namespace ("Global\..."), so Windows has one mutex of that name for     *)
(* each session in which the user is logged on.                            *)
(*                                                                         *)
(* A run of an application, its log and its sender go by the same name.    *)
(* The upload (HandleFile) is one step here; LogTransfer is its detail.    *)
(***************************************************************************)
EXTENDS Integers, FiniteSets

CONSTANTS
  Apps,        \* runs of applications that log to the same folder
  Unsendable,  \* logs HandleFile refuses: debug builds, longer than 1 MiB
  Sessions,    \* sessions of Windows in which the user is logged on
  MaxFaults    \* bounds the senders that are killed or cannot list the folder

ASSUME SendAssumption ==
  /\ Unsendable \subseteq Apps
  /\ MaxFaults \in Nat

VARIABLES
  session,    \* per run of an application: its session, and that of its sender
  app,        \* per run of an application: how far it is
  dir,        \* files in the log folder
  empty,      \* files in the log folder that a sender has created, empty
  stored,     \* logs the collecting server holds
  pc,         \* per sender: where its EntryPoint is
  todo,       \* per sender: files its directory search still has to return
  file,       \* per sender: the file it is at
  handles,    \* senders that have a handle of the mutex of their session
  owners,     \* senders that own that mutex
  abandoned,  \* sessions whose mutex was not released by its last owner
  faults,     \* senders that were killed or could not list the folder
  tried       \* history: logs that were opened after their application ended

mutexVars == <<handles, owners, abandoned>>
vars ==
  <<session, app, dir, empty, stored, pc, todo, file, mutexVars, faults, tried>>

-----------------------------------------------------------------------------
AppState == {"idle", "spawned", "running", "gone"}
SenderPC == {"none", "start", "wait", "mistaken", "mutex", "acquire", "find",
             "next", "open", "handle", "delete", "killed", "ended"}

TypeOK ==
  /\ session \in [Apps -> Sessions]
  /\ app \in [Apps -> AppState]
  /\ dir \in SUBSET Apps
  /\ empty \in SUBSET dir
  /\ stored \in SUBSET Apps
  /\ pc \in [Apps -> SenderPC]
  /\ todo \in [Apps -> SUBSET Apps]
  /\ file \in [Apps -> Apps]
  /\ handles \in SUBSET Apps
  /\ owners \in SUBSET Apps
  /\ abandoned \in SUBSET Sessions
  /\ faults \in 0 .. MaxFaults
  /\ tried \in SUBSET Apps

Init ==
  /\ session \in [Apps -> Sessions]
  /\ app = [a \in Apps |-> "idle"]
  /\ dir = {}
  /\ empty = {}
  /\ stored = {}
  /\ pc = [s \in Apps |-> "none"]
  /\ todo = [s \in Apps |-> {}]
  /\ file = [s \in Apps |-> s]
  /\ handles = {}
  /\ owners = {}
  /\ abandoned = {}
  /\ faults = 0
  /\ tried = {}

-----------------------------------------------------------------------------
(* The applications. *)

\* lt_init writes the sender to a temporary file and starts it.
Spawn(a) ==
  /\ app[a] = "idle"
  /\ app' = [app EXCEPT ![a] = "spawned"]
  /\ pc' = [pc EXCEPT ![a] = "start"]
  /\ UNCHANGED <<session, dir, empty, stored, todo, file, mutexVars, faults, tried>>

\* A build that is to start none does not, and any failure on the way is ignored.
SpawnFails(a) ==
  /\ app[a] = "idle"
  /\ app' = [app EXCEPT ![a] = "spawned"]
  /\ UNCHANGED <<session, dir, empty, stored, pc, todo, file, mutexVars, faults,
                 tried>>

\* Only then lt_init creates the log, which stays open until the process ends.
CreateLog(a) ==
  /\ app[a] = "spawned"
  /\ app' = [app EXCEPT ![a] = "running"]
  /\ dir' = dir \cup {a}
  /\ UNCHANGED <<session, empty, stored, pc, todo, file, mutexVars, faults, tried>>

\* The application ends, whatever the reason.
AppEnds(a) ==
  /\ app[a] \in {"spawned", "running"}
  /\ app' = [app EXCEPT ![a] = "gone"]
  /\ UNCHANGED <<session, dir, empty, stored, pc, todo, file, mutexVars, faults,
                 tried>>

-----------------------------------------------------------------------------
(* The senders. *)

\* A sender goes on to "to", leaving all else alone.
Move(s, to) ==
  /\ pc' = [pc EXCEPT ![s] = to]
  /\ UNCHANGED <<session, app, faults, tried>>

\* OpenProcess looks for the id it was given.  When the application has ended
\* it finds nothing, or another process that has been given the same id.
FindProcess(s) ==
  /\ pc[s] = "start"
  /\ \/ app[s] # "gone" /\ Move(s, "wait")
     \/ app[s] = "gone" /\ Move(s, "mutex")
     \/ app[s] = "gone" /\ Move(s, "mistaken")
  /\ UNCHANGED <<dir, empty, stored, todo, file, mutexVars>>

\* Mutant of Await: the sender does not wait for its application.
Await_Not(s) ==
  /\ pc[s] = "wait"
  /\ Move(s, "mutex")
  /\ UNCHANGED <<dir, empty, stored, todo, file, mutexVars>>

\* The application has ended, and 200 ms have passed.
Await(s) ==
  /\ pc[s] = "wait"
  /\ app[s] = "gone"
  /\ Move(s, "mutex")
  /\ UNCHANGED <<dir, empty, stored, todo, file, mutexVars>>

\* The process it waits for by mistake ends, if ever.
OtherEnds(s) ==
  /\ pc[s] = "mistaken"
  /\ Move(s, "mutex")
  /\ UNCHANGED <<dir, empty, stored, todo, file, mutexVars>>

\* The senders of the session of s, which share a mutex.
Peers(s) == {t \in Apps : session[t] = session[s]}

\* Mutant of CreateMutex: a sender that finds the mutex in existence takes it
\* for its own.
CreateMutex_AlwaysOwned(s) ==
  /\ pc[s] = "mutex"
  /\ handles' = handles \cup {s}
  /\ owners' = owners \cup {s}
  /\ Move(s, "find")
  /\ abandoned' = abandoned \ {session[s]}
  /\ UNCHANGED <<dir, empty, stored, todo, file>>

\* The first of a session to create the mutex owns it; the others have to wait.
CreateMutex(s) ==
  /\ pc[s] = "mutex"
  /\ handles' = handles \cup {s}
  /\ \/ /\ handles \cap Peers(s) = {}
        /\ owners' = owners \cup {s}
        /\ abandoned' = abandoned \ {session[s]}
        /\ Move(s, "find")
     \/ /\ handles \cap Peers(s) # {}
        /\ Move(s, "acquire")
        /\ UNCHANGED <<owners, abandoned>>
  /\ UNCHANGED <<dir, empty, stored, todo, file>>

\* Process s ends, with its pc at "end": its handle is closed, and a mutex it
\* owns is abandoned.
Die(s, end) ==
  /\ handles' = handles \ {s}
  /\ owners' = owners \ {s}
  /\ abandoned' = abandoned \cup {session[t] : t \in owners \cap {s}}
  /\ pc' = [pc EXCEPT ![s] = end]
  /\ UNCHANGED <<session, app, dir, empty, stored, todo, file, tried>>

\* WaitForSingleObject returns WAIT_OBJECT_0.
Acquire(s) ==
  /\ pc[s] = "acquire"
  /\ owners \cap Peers(s) = {}
  /\ session[s] \notin abandoned
  /\ owners' = owners \cup {s}
  /\ Move(s, "find")
  /\ UNCHANGED <<dir, empty, stored, todo, file, handles, abandoned>>

\* It returns WAIT_ABANDONED: the sender owns the mutex now, but takes that for
\* a failure and ends, so the mutex is abandoned once more.
AcquireFails(s) ==
  /\ pc[s] = "acquire"
  /\ owners \cap Peers(s) = {}
  /\ session[s] \in abandoned
  /\ Die(s, "ended")
  /\ UNCHANGED faults

\* The search reads the names of the files in the folder.
FindFirst(s) ==
  /\ pc[s] = "find"
  /\ todo' = [todo EXCEPT ![s] = dir]
  /\ Move(s, "next")
  /\ UNCHANGED <<dir, empty, stored, file, mutexVars>>

\* ReleaseMutex, then ExitProcess.
Leave(s) ==
  /\ handles' = handles \ {s}
  /\ owners' = owners \ {s}
  /\ pc' = [pc EXCEPT ![s] = "ended"]
  /\ UNCHANGED <<session, app, dir, empty, stored, todo, file, abandoned, tried>>

FindFirstFails(s) ==
  /\ pc[s] = "find"
  /\ faults < MaxFaults
  /\ faults' = faults + 1
  /\ Leave(s)

FindNext(s, f) ==
  /\ pc[s] = "next"
  /\ f \in todo[s]
  /\ todo' = [todo EXCEPT ![s] = @ \ {f}]
  /\ file' = [file EXCEPT ![s] = f]
  /\ Move(s, "open")
  /\ UNCHANGED <<dir, empty, stored, mutexVars>>

Release(s) ==
  /\ pc[s] = "next"
  /\ todo[s] = {}
  /\ Leave(s)
  /\ UNCHANGED faults

\* Mutant of InUse: ltsend shares the file with those that write it.
InUse_SharesWrite(f) ==
  \E s \in Apps : pc[s] \in {"handle", "delete"} /\ file[s] = f

\* Somebody has f open in a way that CreateFileW in ltsend is not compatible with:
\* it asks to read, and shares the file with nobody but for deletion.
InUse(f) ==
  \/ app[f] = "running"
  \/ \E s \in Apps : pc[s] \in {"handle", "delete"} /\ file[s] = f

\* OPEN_ALWAYS creates a file that a sender of another session has deleted
\* meanwhile.  Any failure leaves the file for the next sweep.
Open(s) ==
  /\ pc[s] = "open"
  /\ \/ /\ ~InUse(file[s])
        /\ dir' = dir \cup {file[s]}
        /\ empty' = IF file[s] \in dir THEN empty ELSE empty \cup {file[s]}
        /\ pc' = [pc EXCEPT ![s] = "handle"]
     \/ /\ pc' = [pc EXCEPT ![s] = "next"]
        /\ UNCHANGED <<dir, empty>>
  /\ tried' = IF app[file[s]] = "gone" THEN tried \cup {file[s]} ELSE tried
  /\ UNCHANGED <<session, app, stored, todo, file, mutexVars, faults>>

Sendable(f) == f \notin Unsendable \cup empty

\* Mutant of Handle: a log that could not be uploaded is deleted too.
Handle_DeletesAll(s) ==
  /\ pc[s] = "handle"
  /\ \/ stored' = stored \cup {file[s]}
     \/ stored' = stored
  /\ Move(s, "delete")
  /\ UNCHANGED <<dir, empty, todo, file, mutexVars>>

\* The upload succeeds, or fails before or after the server has the log.
Handle(s) ==
  /\ pc[s] = "handle"
  /\ \/ /\ Sendable(file[s])
        /\ stored' = stored \cup {file[s]}
        /\ Move(s, "delete")
     \/ /\ Sendable(file[s])
        /\ stored' = stored \cup {file[s]}
        /\ Move(s, "next")
     \/ /\ stored' = stored
        /\ Move(s, "next")
  /\ UNCHANGED <<dir, empty, todo, file, mutexVars>>

\* DeleteFileW, which may fail, and CloseHandle.
Delete(s) ==
  /\ pc[s] = "delete"
  /\ dir' \in {dir, dir \ {file[s]}}
  /\ empty' = empty \cap dir'
  /\ Move(s, "next")
  /\ UNCHANGED <<stored, todo, file, mutexVars>>

\* A sender is killed.  (It has no window; at logoff Windows ends it.)
Kill(s) ==
  /\ pc[s] \notin {"none", "ended", "killed"}
  /\ faults < MaxFaults
  /\ faults' = faults + 1
  /\ Die(s, "killed")

-----------------------------------------------------------------------------
SenderStep(s) ==
  \/ FindProcess(s)
  \/ Await(s)
  \/ CreateMutex(s)
  \/ Acquire(s)
  \/ AcquireFails(s)
  \/ FindFirst(s)
  \/ \E f \in Apps : FindNext(s, f)
  \/ Release(s)
  \/ Open(s)
  \/ Handle(s)
  \/ Delete(s)

Next ==
  \E a \in Apps :
    \/ Spawn(a)
    \/ SpawnFails(a)
    \/ CreateLog(a)
    \/ AppEnds(a)
    \/ SenderStep(a)
    \/ OtherEnds(a)
    \/ FindFirstFails(a)
    \/ Kill(a)

Spec == Init /\ [][Next]_vars

\* The scheduler runs every sender.  The wait for the mutex is served in turn, so
\* a sender that waits while the mutex is released again and again obtains it.
\* Uploads end (LogTransfer!SessionsEnd).  Nothing ends a process that was given
\* the id of an application by chance.
Fairness ==
  \A s \in Apps : /\ WF_vars(SenderStep(s))
                  /\ SF_vars(Acquire(s) \/ AcquireFails(s))

FairSpec == Spec /\ Fairness

-----------------------------------------------------------------------------
(* Properties. *)

\* One process of a session at a time sweeps the folder, even after an owner of
\* the mutex was killed.
Sweeping(s) == pc[s] \in {"find", "next", "open", "handle", "delete"}

OneSweeper ==
  \A s \in Apps : \A t \in Peers(s) : Sweeping(s) /\ Sweeping(t) => s = t

\* The mutex is "global" (the failure messages of ltsend.c): one process at a time
\* sweeps the folder.  It does not hold: see CreateMutex.
OneSweeperOfAll == \A s, t \in Apps : Sweeping(s) /\ Sweeping(t) => s = t

\* Where the senders are all of one session, OPEN_ALWAYS never leaves an empty
\* file behind in place of a log: what the search returned is still there when it
\* is opened.
OneSession == \A s, t \in Apps : session[s] = session[t]

NoEmptyLogs == OneSession => empty = {}

\* "This thread will wait for this process to quit before transmitting
\* information about the session" (liblt.h): neither its own sender nor that of
\* another application uploads the log of an application that still writes it,
\* whatever the sessions.
TransmittedAfterExit ==
  [][\A f \in stored' \ stored : app[f] = "gone"]_vars

\* Logs of applications that have ended.
Finished == {f \in dir \ empty : app[f] = "gone"}

\* The sweeps of all sessions implement the abstract delivery: a log leaves the
\* folder only when the server has it.
Delivery == INSTANCE LogDelivery WITH Logs <- Apps, onDisk <- Finished

ImplementsDelivery == Delivery!Spec

\* The log of an application whose sender was started is tried after the
\* application has ended, unless a sender is killed or cannot list the folder,
\* or its own sender waits for another process that has been given its id.
LogsAreTried ==
  [](faults = 0) =>
    \A f \in Apps :
      f \in Finished /\ pc[f] # "none" ~> f \in tried \/ pc[f] = "mistaken"
=============================================================================
