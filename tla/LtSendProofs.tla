---------------------------- MODULE LtSendProofs ----------------------------
(***************************************************************************)
(* LtSend, for any number of applications, senders and sessions: one       *)
(* process of a session at a time sweeps the folder, one session alone     *)
(* creates no empty log, none is uploaded while it is written, and the     *)
(* sweeps implement LogDelivery.                                           *)
(*                                                                         *)
(* The first two start at the mutex.  Who sweeps owns it, and has a handle *)
(* of it, so that nobody of its session can create it anew (MutexInv).  So *)
(* where there is one session nobody else deletes what a search has        *)
(* returned, and OPEN_ALWAYS opens but what is there (SearchInv).          *)
(*                                                                         *)
(* The last two need no mutex, only that CreateFileW shares a file for     *)
(* deletion alone: while a sender has a file open, it is there, nobody     *)
(* writes it and no other sender opens it (FolderInv, UploadInv).          *)
(***************************************************************************)
EXTENDS LtSend, TLAPS

-----------------------------------------------------------------------------
\* Sender s has a handle of the mutex; it has a file open.
Holding(s) == pc[s] = "acquire" \/ Sweeping(s)
HasOpen(s) == pc[s] \in {"handle", "delete"}

MutexInv ==
  /\ \A s \in Apps : /\ Sweeping(s) => s \in owners
                     /\ Holding(s) => s \in handles
  /\ owners \subseteq handles
  /\ \A s, t \in owners : session[s] = session[t] => s = t

SearchInv ==
  OneSession =>
    \A s \in Apps :
      /\ pc[s] \in {"next", "open", "handle", "delete"} => todo[s] \subseteq dir
      /\ pc[s] \in {"open", "handle", "delete"} => file[s] \in dir \ todo[s]

\* Files that a search has returned were those of applications.
Written(f) == app[f] \in {"running", "gone"}

FolderInv ==
  /\ \A f \in dir : Written(f)
  /\ \A s \in Apps :
       /\ pc[s] \in {"next", "open", "handle", "delete"} =>
            \A f \in todo[s] : Written(f)
       /\ pc[s] \in {"open", "handle", "delete"} => Written(file[s])

UploadInv ==
  /\ \A f \in stored : app[f] = "gone"
  /\ \A s \in Apps :
       /\ HasOpen(s) => app[file[s]] = "gone" /\ file[s] \in dir
       /\ pc[s] = "delete" => file[s] \in stored \ empty
  /\ \A s, t \in Apps : HasOpen(s) /\ HasOpen(t) /\ file[s] = file[t] => s = t

IInv ==
  TypeOK /\ MutexInv /\ SearchInv /\ NoEmptyLogs /\ FolderInv /\ UploadInv

-----------------------------------------------------------------------------
LEMMA InitInv == Init => IInv
<1> SUFFICES ASSUME Init PROVE IInv
  OBVIOUS
<1>1. TypeOK
  <2>1. /\ session \in [Apps -> Sessions]
        /\ app \in [Apps -> AppState]
        /\ pc \in [Apps -> SenderPC]
        /\ todo \in [Apps -> SUBSET Apps]
        /\ file \in [Apps -> Apps]
    BY DEF Init, AppState, SenderPC
  <2>2. faults \in 0 .. MaxFaults
    BY SendAssumption DEF Init
  <2>3. QED
    BY <2>1, <2>2 DEF Init, TypeOK
<1>2. MutexInv /\ SearchInv /\ NoEmptyLogs /\ FolderInv /\ UploadInv
  BY DEF Init, MutexInv, SearchInv, NoEmptyLogs, FolderInv, UploadInv, Holding,
     HasOpen, Sweeping
<1>3. QED
  BY <1>1, <1>2 DEF IInv

-----------------------------------------------------------------------------
(* Types. *)

LEMMA DieType ==
  ASSUME TypeOK, NEW s \in Apps, NEW end \in {"killed", "ended"}, Die(s, end),
         faults' \in 0 .. MaxFaults
  PROVE  TypeOK'
BY DEF TypeOK, Die, SenderPC

LEMMA LeaveType ==
  ASSUME TypeOK, NEW s \in Apps, Leave(s), faults' \in 0 .. MaxFaults
  PROVE  TypeOK'
BY DEF TypeOK, Leave, SenderPC

LEMMA SenderType ==
  ASSUME TypeOK, NEW s \in Apps, SenderStep(s) \/ OtherEnds(s)
  PROVE  TypeOK'
<1>1. CASE FindProcess(s)
  BY <1>1 DEF TypeOK, FindProcess, Move, mutexVars, SenderPC
<1>2. CASE Await(s) \/ OtherEnds(s)
  BY <1>2 DEF TypeOK, Await, OtherEnds, Move, mutexVars, SenderPC
<1>3. CASE CreateMutex(s)
  BY <1>3 DEF TypeOK, CreateMutex, Move, SenderPC
<1>4. CASE Acquire(s)
  BY <1>4 DEF TypeOK, Acquire, Move, SenderPC
<1>5. CASE AcquireFails(s)
  BY <1>5, DieType DEF AcquireFails, TypeOK
<1>6. CASE FindFirst(s)
  BY <1>6 DEF TypeOK, FindFirst, Move, mutexVars, SenderPC
<1>7. ASSUME NEW f \in Apps, FindNext(s, f)
      PROVE  TypeOK'
  BY <1>7 DEF TypeOK, FindNext, Move, mutexVars, SenderPC
<1>8. CASE Release(s)
  BY <1>8, LeaveType DEF Release, TypeOK
<1>9. CASE Open(s)
  <2>1. /\ dir' \in SUBSET Apps
        /\ empty' \in SUBSET dir'
        /\ pc' \in [Apps -> SenderPC]
        /\ tried' \in SUBSET Apps
    BY <1>9 DEF TypeOK, Open, SenderPC
  <2>2. QED
    BY <1>9, <2>1 DEF TypeOK, Open, mutexVars
<1>10. CASE Handle(s)
  BY <1>10 DEF TypeOK, Handle, Move, mutexVars, SenderPC
<1>11. CASE Delete(s)
  BY <1>11 DEF TypeOK, Delete, Move, mutexVars, SenderPC
<1>12. QED
  BY <1>1, <1>2, <1>3, <1>4, <1>5, <1>6, <1>7, <1>8, <1>9, <1>10, <1>11
     DEF SenderStep

LEMMA NextType == TypeOK /\ [Next]_vars => TypeOK'
<1> SUFFICES ASSUME TypeOK, [Next]_vars PROVE TypeOK'
  OBVIOUS
<1>1. CASE UNCHANGED vars
  BY <1>1 DEF TypeOK, vars, mutexVars
<1>2. ASSUME NEW a \in Apps, SenderStep(a) \/ OtherEnds(a)
      PROVE  TypeOK'
  BY <1>2, SenderType
<1>3. ASSUME NEW a \in Apps, Spawn(a) \/ SpawnFails(a) \/ AppEnds(a)
      PROVE  TypeOK'
  BY <1>3 DEF TypeOK, Spawn, SpawnFails, AppEnds, mutexVars, AppState, SenderPC
<1>4. ASSUME NEW a \in Apps, CreateLog(a)
      PROVE  TypeOK'
  BY <1>4 DEF TypeOK, CreateLog, mutexVars, AppState
<1>5. ASSUME NEW a \in Apps, FindFirstFails(a)
      PROVE  TypeOK'
  BY <1>5, LeaveType, SendAssumption DEF FindFirstFails, TypeOK
<1>6. ASSUME NEW a \in Apps, Kill(a)
      PROVE  TypeOK'
  BY <1>6, DieType, SendAssumption DEF Kill, TypeOK
<1>7. QED
  BY <1>1, <1>2, <1>3, <1>4, <1>5, <1>6 DEF Next

-----------------------------------------------------------------------------
(* The mutex. *)

LEMMA SessionFixed == [Next]_vars => UNCHANGED session
BY DEF Next, vars, SenderStep, Spawn, SpawnFails, CreateLog, AppEnds,
   FindProcess, Await, OtherEnds, CreateMutex, Acquire, AcquireFails, FindFirst,
   FindNext, Release, Open, Handle, Delete, FindFirstFails, Kill, Die, Leave, Move

LEMMA NextMutex == IInv /\ [Next]_vars => MutexInv'
<1> SUFFICES ASSUME IInv, [Next]_vars PROVE MutexInv'
  OBVIOUS
<1> USE DEF MutexInv, Holding, Sweeping
<1>0. TypeOK /\ MutexInv /\ UNCHANGED session
  BY SessionFixed DEF IInv
\* Steps of s that leave the mutex alone and do not begin a sweep.
<1>1. ASSUME NEW s \in Apps, UNCHANGED <<owners, handles>>,
             \A t \in Apps \ {s} : pc'[t] = pc[t],
             Sweeping(s)' => Sweeping(s), Holding(s)' => Holding(s)
      PROVE  MutexInv'
  BY <1>0, <1>1
<1>2. ASSUME NEW s \in Apps,
             \/ FindProcess(s) \/ Await(s) \/ OtherEnds(s)
             \/ FindFirst(s) \/ (\E f \in Apps : FindNext(s, f))
             \/ Open(s) \/ Handle(s) \/ Delete(s)
      PROVE  MutexInv'
  <2>1. /\ UNCHANGED <<owners, handles>>
        /\ \A t \in Apps \ {s} : pc'[t] = pc[t]
        /\ (Sweeping(s)' => Sweeping(s)) /\ (Holding(s)' => Holding(s))
    BY <1>0, <1>2 DEF TypeOK, FindProcess, Await, OtherEnds, FindFirst,
       FindNext, Open, Handle, Delete, Move, mutexVars
  <2>2. QED
    BY <1>1, <2>1
<1>3. ASSUME NEW s \in Apps,
             Spawn(s) \/ SpawnFails(s) \/ CreateLog(s) \/ AppEnds(s)
      PROVE  MutexInv'
  BY <1>0, <1>3
     DEF TypeOK, Spawn, SpawnFails, CreateLog, AppEnds, mutexVars
<1>4. ASSUME NEW s \in Apps, CreateMutex(s)
      PROVE  MutexInv'
  <2>1. /\ handles' = handles \cup {s}
        /\ \A t \in Apps \ {s} : pc'[t] = pc[t]
    BY <1>0, <1>4 DEF TypeOK, CreateMutex, Move
  <2>2. CASE handles \cap Peers(s) = {}
    <3>1. owners' = owners \cup {s} /\ pc'[s] = "find"
      BY <1>0, <1>4, <2>2 DEF TypeOK, CreateMutex, Move
    <3>2. \A t \in owners : session[t] # session[s]
      BY <1>0, <2>2 DEF TypeOK, Peers
    <3>3. QED
      BY <1>0, <2>1, <3>1, <3>2
  <2>3. CASE handles \cap Peers(s) # {}
    <3>1. owners' = owners /\ pc'[s] = "acquire"
      BY <1>0, <1>4, <2>3 DEF TypeOK, CreateMutex, Move
    <3>2. QED
      BY <1>0, <2>1, <3>1
  <2>4. QED
    BY <2>2, <2>3
<1>5. ASSUME NEW s \in Apps, Acquire(s)
      PROVE  MutexInv'
  <2>1. \A t \in owners : session[t] # session[s]
    BY <1>0, <1>5 DEF TypeOK, Acquire, Peers
  <2>2. s \in handles
    BY <1>0, <1>5 DEF Acquire
  <2>3. pc'[s] = "find" /\ \A t \in Apps \ {s} : pc'[t] = pc[t]
    BY <1>0, <1>5 DEF TypeOK, Acquire, Move
  <2>4. owners' = owners \cup {s} /\ handles' = handles
    BY <1>5 DEF Acquire
  <2>5. QED
    BY <1>0, <2>1, <2>2, <2>3, <2>4
<1>6. ASSUME NEW s \in Apps,
             (\E end \in {"killed", "ended"} : Die(s, end)) \/ Leave(s)
      PROVE  MutexInv'
  <2>1. /\ handles' = handles \ {s} /\ owners' = owners \ {s}
        /\ pc'[s] \in {"killed", "ended"}
        /\ \A t \in Apps \ {s} : pc'[t] = pc[t]
    BY <1>0, <1>6 DEF TypeOK, Die, Leave
  <2>2. QED
    BY <1>0, <2>1
<1>7. CASE UNCHANGED vars
  BY <1>0, <1>7 DEF vars, mutexVars
<1>8. QED
  BY <1>2, <1>3, <1>4, <1>5, <1>6, <1>7
     DEF Next, SenderStep, AcquireFails, Release, FindFirstFails, Kill

\* One process of a session at a time sweeps the folder.
LEMMA OwnerIsOne == TypeOK /\ MutexInv => OneSweeper
BY DEF MutexInv, OneSweeper, Peers

-----------------------------------------------------------------------------
(* The search and the upload.  A step of s is seen by the sender t through    *)
(* the folder, the server and the applications only.                          *)

\* While t sweeps, another sender of the only session does not.
LEMMA OthersWait ==
  ASSUME IInv, OneSession, NEW s \in Apps, NEW t \in Apps, Sweeping(s), Sweeping(t)
  PROVE  s = t
BY DEF IInv, MutexInv, OneSession

LEMMA NextSearch == IInv /\ [Next]_vars => (SearchInv /\ NoEmptyLogs)'
<1> SUFFICES ASSUME IInv, [Next]_vars, OneSession
             PROVE  (SearchInv /\ NoEmptyLogs)'
  BY SessionFixed DEF SearchInv, NoEmptyLogs, OneSession
<1> USE DEF SearchInv, NoEmptyLogs
<1>0. TypeOK /\ SearchInv /\ empty = {}
  BY DEF IInv
<1>1. ASSUME NEW s \in Apps, UNCHANGED <<todo, file, empty>>, dir \subseteq dir',
             \A t \in Apps \ {s} : pc'[t] = pc[t],
             ~Sweeping(s)' \/ pc'[s] = "find"
      PROVE  (SearchInv /\ NoEmptyLogs)'
  BY <1>0, <1>1 DEF Sweeping
<1>2. ASSUME NEW s \in Apps, Spawn(s) \/ SpawnFails(s) \/ CreateLog(s) \/ AppEnds(s)
      PROVE  (SearchInv /\ NoEmptyLogs)'
  BY <1>0, <1>2 DEF TypeOK, Spawn, SpawnFails, CreateLog, AppEnds
<1>3. ASSUME NEW s \in Apps,
             \/ FindProcess(s) \/ Await(s) \/ OtherEnds(s)
             \/ CreateMutex(s) \/ Acquire(s)
             \/ (\E end \in {"killed", "ended"} : Die(s, end)) \/ Leave(s)
      PROVE  (SearchInv /\ NoEmptyLogs)'
  <2>1. /\ UNCHANGED <<todo, file, empty>>
        /\ dir \subseteq dir'
        /\ \A t \in Apps \ {s} : pc'[t] = pc[t]
        /\ ~Sweeping(s)' \/ pc'[s] = "find"
    BY <1>0, <1>3 DEF TypeOK, FindProcess, Await, OtherEnds, CreateMutex,
       Acquire, Die, Leave, Move, Sweeping
  <2>2. QED
    BY <1>1, <2>1
<1>4. ASSUME NEW s \in Apps, FindFirst(s)
      PROVE  (SearchInv /\ NoEmptyLogs)'
  BY <1>0, <1>4 DEF TypeOK, FindFirst, Move
<1>5. ASSUME NEW s \in Apps, NEW f \in Apps, FindNext(s, f)
      PROVE  (SearchInv /\ NoEmptyLogs)'
  BY <1>0, <1>5 DEF TypeOK, FindNext, Move
<1>6. ASSUME NEW s \in Apps, Open(s)
      PROVE  (SearchInv /\ NoEmptyLogs)'
  <2>1. file[s] \in dir \ todo[s] /\ todo[s] \subseteq dir
    BY <1>0, <1>6 DEF Open
  <2>2. dir' = dir /\ empty' = empty
    BY <1>6, <2>1 DEF Open
  <2>3. \A t \in Apps \ {s} : pc'[t] = pc[t]
    BY <1>0, <1>6 DEF TypeOK, Open
  <2>4. QED
    BY <1>0, <1>6, <2>1, <2>2, <2>3 DEF Open
<1>7. ASSUME NEW s \in Apps, Handle(s)
      PROVE  (SearchInv /\ NoEmptyLogs)'
  BY <1>0, <1>7 DEF TypeOK, Handle, Move
<1>8. ASSUME NEW s \in Apps, Delete(s)
      PROVE  (SearchInv /\ NoEmptyLogs)'
  <2>1. \A t \in Apps \ {s} : pc'[t] = pc[t] /\ ~Sweeping(t)
    BY <1>0, <1>8, OthersWait DEF TypeOK, Delete, Move, Sweeping
  <2>2. pc'[s] = "next" /\ todo'[s] \subseteq dir'
    BY <1>0, <1>8 DEF TypeOK, Delete, Move
  <2>3. empty' = {}
    BY <1>0, <1>8 DEF Delete
  <2>4. QED
    BY <2>1, <2>2, <2>3 DEF Sweeping
<1>9. CASE UNCHANGED vars
  BY <1>0, <1>9 DEF vars
<1>10. QED
  BY <1>2, <1>3, <1>4, <1>5, <1>6, <1>7, <1>8, <1>9
     DEF Next, SenderStep, AcquireFails, Release, FindFirstFails, Kill

(* What is known of every session.                                            *)

LEMMA NextFolder == IInv /\ [Next]_vars => FolderInv'
<1> SUFFICES ASSUME IInv, [Next]_vars PROVE FolderInv'
  OBVIOUS
<1> USE DEF FolderInv
<1>0. TypeOK /\ FolderInv
  BY DEF IInv
\* What has been written stays so.
<1>1. \A f \in Apps : Written(f) => Written(f)'
  <2>1. ASSUME NEW a \in Apps,
               Spawn(a) \/ SpawnFails(a) \/ CreateLog(a) \/ AppEnds(a)
        PROVE  \A f \in Apps : Written(f) => Written(f)'
    BY <1>0, <2>1
       DEF TypeOK, Written, Spawn, SpawnFails, CreateLog, AppEnds
  <2>2. CASE app' = app
    BY <2>2 DEF Written
  <2>3. QED
    BY <2>1, <2>2 DEF Next, vars, SenderStep, FindProcess, Await, OtherEnds,
       CreateMutex, Acquire, AcquireFails, FindFirst, FindNext, Release, Open,
       Handle, Delete, FindFirstFails, Kill, Die, Leave, Move
<1>2. ASSUME NEW s \in Apps, dir' \subseteq dir, UNCHANGED <<todo, file>>,
             \A t \in Apps \ {s} : pc'[t] = pc[t],
             \/ pc'[s] \notin {"next", "open", "handle", "delete"}
             \/ /\ pc[s] \in {"open", "handle", "delete"}
                /\ pc'[s] \in {"next", "handle", "delete"}
      PROVE  FolderInv'
  BY <1>0, <1>1, <1>2 DEF TypeOK
<1>3. ASSUME NEW s \in Apps,
             \/ FindProcess(s) \/ Await(s) \/ OtherEnds(s)
             \/ CreateMutex(s) \/ Acquire(s) \/ Handle(s) \/ Delete(s)
             \/ Spawn(s)
             \/ (\E end \in {"killed", "ended"} : Die(s, end)) \/ Leave(s)
      PROVE  FolderInv'
  <2>1. /\ dir' \subseteq dir /\ UNCHANGED <<todo, file>>
        /\ \A t \in Apps \ {s} : pc'[t] = pc[t]
        /\ \/ pc'[s] \notin {"next", "open", "handle", "delete"}
           \/ /\ pc[s] \in {"open", "handle", "delete"}
              /\ pc'[s] \in {"next", "handle", "delete"}
    BY <1>0, <1>3 DEF TypeOK, FindProcess, Await, OtherEnds, CreateMutex,
       Acquire, Handle, Delete, Spawn, Die, Leave, Move
  <2>2. QED
    BY <1>2, <2>1
<1>4. ASSUME NEW a \in Apps, SpawnFails(a) \/ CreateLog(a) \/ AppEnds(a)
      PROVE  FolderInv'
  <2>1. UNCHANGED <<pc, todo, file>>
    BY <1>4 DEF SpawnFails, CreateLog, AppEnds
  <2>2. \A f \in dir' : Written(f)'
    BY <1>0, <1>1, <1>4
       DEF TypeOK, Written, SpawnFails, CreateLog, AppEnds
  <2>3. QED
    BY <1>0, <1>1, <2>1, <2>2 DEF TypeOK
<1>5. ASSUME NEW s \in Apps, FindFirst(s)
      PROVE  FolderInv'
  <2>1. /\ UNCHANGED <<dir, file>> /\ todo' = [todo EXCEPT ![s] = dir]
        /\ pc'[s] = "next" /\ \A t \in Apps \ {s} : pc'[t] = pc[t]
    BY <1>0, <1>5 DEF TypeOK, FindFirst, Move
  <2>2. QED
    BY <1>0, <1>1, <2>1 DEF TypeOK
<1>6. ASSUME NEW s \in Apps, NEW f \in Apps, FindNext(s, f)
      PROVE  FolderInv'
  <2>1. /\ dir' = dir /\ pc[s] = "next" /\ f \in todo[s]
        /\ todo' = [todo EXCEPT ![s] = @ \ {f}]
        /\ file' = [file EXCEPT ![s] = f]
        /\ pc'[s] = "open" /\ \A t \in Apps \ {s} : pc'[t] = pc[t]
    BY <1>0, <1>6 DEF TypeOK, FindNext, Move
  <2>2. QED
    BY <1>0, <1>1, <2>1 DEF TypeOK
<1>7. ASSUME NEW s \in Apps, Open(s)
      PROVE  FolderInv'
  <2>1. /\ dir' \subseteq dir \cup {file[s]} /\ UNCHANGED <<todo, file>>
        /\ pc[s] = "open" /\ pc'[s] \in {"handle", "next"}
        /\ \A t \in Apps \ {s} : pc'[t] = pc[t]
    BY <1>0, <1>7 DEF TypeOK, Open
  <2>2. QED
    BY <1>0, <1>1, <2>1 DEF TypeOK
<1>8. CASE UNCHANGED vars
  BY <1>0, <1>8 DEF vars, Written
<1>9. QED
  BY <1>3, <1>4, <1>5, <1>6, <1>7, <1>8
     DEF Next, SenderStep, AcquireFails, Release, FindFirstFails, Kill

LEMMA NextUpload == IInv /\ [Next]_vars => UploadInv'
<1> SUFFICES ASSUME IInv, [Next]_vars PROVE UploadInv'
  OBVIOUS
<1> USE DEF UploadInv, HasOpen
<1>0. TypeOK /\ FolderInv /\ UploadInv
  BY DEF IInv
<1>1. ASSUME NEW s \in Apps,
             UNCHANGED <<app, dir, stored, empty>>,
             \A t \in Apps \ {s} : pc'[t] = pc[t] /\ file'[t] = file[t],
             ~HasOpen(s)'
      PROVE  UploadInv'
  BY <1>0, <1>1
<1>2. ASSUME NEW s \in Apps,
             \/ FindProcess(s) \/ Await(s) \/ OtherEnds(s)
             \/ CreateMutex(s) \/ Acquire(s) \/ FindFirst(s)
             \/ (\E f \in Apps : FindNext(s, f))
             \/ (\E end \in {"killed", "ended"} : Die(s, end)) \/ Leave(s)
      PROVE  UploadInv'
  <2>1. /\ UNCHANGED <<app, dir, stored, empty>>
        /\ \A t \in Apps \ {s} : pc'[t] = pc[t] /\ file'[t] = file[t]
        /\ ~HasOpen(s)'
    BY <1>0, <1>2 DEF TypeOK, FindProcess, Await, OtherEnds, CreateMutex,
       Acquire, FindFirst, FindNext, Die, Leave, Move
  <2>2. QED
    BY <1>1, <2>1
<1>3. ASSUME NEW a \in Apps,
             Spawn(a) \/ SpawnFails(a) \/ CreateLog(a) \/ AppEnds(a)
      PROVE  UploadInv'
  <2>1. /\ dir \subseteq dir' /\ UNCHANGED <<stored, file, empty>>
        /\ \A t \in Apps : HasOpen(t)' => pc'[t] = pc[t]
        /\ \A f \in Apps : app[f] = "gone" => app'[f] = "gone"
    BY <1>0, <1>3 DEF TypeOK, Spawn, SpawnFails, CreateLog, AppEnds
  <2>2. QED
    BY <1>0, <2>1 DEF TypeOK
<1>4. ASSUME NEW s \in Apps, Open(s)
      PROVE  UploadInv'
  <2>1. /\ UNCHANGED <<app, stored, file>> /\ dir \subseteq dir'
        /\ pc'[s] \in {"handle", "next"}
        /\ \A t \in Apps \ {s} : pc'[t] = pc[t]
        /\ file[s] \in Apps
    BY <1>0, <1>4 DEF TypeOK, Open
  <2>2. empty' = empty \/ (empty' = empty \cup {file[s]} /\ file[s] \notin dir)
    BY <1>4 DEF Open
  <2>3. pc'[s] = "handle" =>
          /\ app[file[s]] = "gone" /\ file[s] \in dir'
          /\ \A t \in Apps : HasOpen(t) => file[t] # file[s]
    BY <1>0, <1>4 DEF TypeOK, FolderInv, Written, Open, InUse
  <2>4. QED
    BY <1>0, <2>1, <2>2, <2>3
<1>5. ASSUME NEW s \in Apps, Handle(s)
      PROVE  UploadInv'
  <2>1. /\ UNCHANGED <<app, dir, file, empty>>
        /\ stored \subseteq stored' /\ stored' \subseteq stored \cup {file[s]}
        /\ HasOpen(s) /\ pc'[s] \in {"delete", "next"}
        /\ pc'[s] = "delete" => file[s] \in stored' \ empty
        /\ \A t \in Apps \ {s} : pc'[t] = pc[t]
    BY <1>0, <1>5 DEF TypeOK, Handle, Move, Sendable
  <2>2. QED
    BY <1>0, <2>1
<1>6. ASSUME NEW s \in Apps, Delete(s)
      PROVE  UploadInv'
  <2>1. /\ UNCHANGED <<app, file, stored>>
        /\ dir \ {file[s]} \subseteq dir' /\ empty' \subseteq empty
        /\ HasOpen(s) /\ pc'[s] = "next"
        /\ \A t \in Apps \ {s} : pc'[t] = pc[t]
    BY <1>0, <1>6 DEF TypeOK, Delete, Move
  <2>2. QED
    BY <1>0, <2>1
<1>7. CASE UNCHANGED vars
  BY <1>0, <1>7 DEF vars
<1>8. QED
  BY <1>2, <1>3, <1>4, <1>5, <1>6, <1>7
     DEF Next, SenderStep, AcquireFails, Release, FindFirstFails, Kill

-----------------------------------------------------------------------------
LEMMA Invariance == Spec => []IInv
<1>1. IInv /\ [Next]_vars => IInv'
  BY NextType, NextMutex, NextSearch, NextFolder, NextUpload DEF IInv
<1>2. QED
  BY InitInv, <1>1, PTL DEF Spec

\* Whatever the senders and applications do, and wherever a sender is killed,
\* the variables keep to their types.
THEOREM TypeCorrect == Spec => []TypeOK
<1>1. IInv => TypeOK
  BY DEF IInv
<1>2. QED
  BY Invariance, <1>1, PTL

\* Of all senders of a session, one at a time has passed the mutex of EntryPoint.
THEOREM SweepsAreExclusive == Spec => []OneSweeper
<1>1. IInv => OneSweeper
  BY OwnerIsOne DEF IInv
<1>2. QED
  BY Invariance, <1>1, PTL

\* Where all senders are of one session, CreateFileW(OPEN_ALWAYS) of EntryPoint
\* never creates a file.
THEOREM NothingIsCreated == Spec => []NoEmptyLogs
<1>1. IInv => NoEmptyLogs
  BY DEF IInv
<1>2. QED
  BY Invariance, <1>1, PTL

\* A log is uploaded only when the process that wrote it has ended (liblt.h),
\* whatever the sessions.
THEOREM UploadsWaitForExit == Spec => TransmittedAfterExit
<1> DEFINE Step == \A f \in stored' \ stored : app[f] = "gone"
<1>1. IInv /\ [Next]_vars => [Step]_vars
  <2> SUFFICES ASSUME IInv, Next PROVE Step
    BY DEF vars
  <2> HIDE DEF Step
  <2>1. ASSUME NEW s \in Apps, Handle(s)
        PROVE  Step
    <3>1. app[file[s]] = "gone"
      BY <2>1 DEF IInv, UploadInv, HasOpen, Handle
    <3>2. stored' \subseteq stored \cup {file[s]}
      BY <2>1 DEF Handle
    <3>3. QED
      BY <3>1, <3>2 DEF Step
  <2>2. CASE stored' = stored
    BY <2>2 DEF Step
  <2>3. (\E s \in Apps : Handle(s)) \/ stored' = stored
    BY DEF Next, SenderStep, Spawn, SpawnFails, CreateLog, AppEnds,
       FindProcess, Await, OtherEnds, CreateMutex, Acquire, AcquireFails,
       FindFirst, FindNext, Release, Open, Delete, FindFirstFails, Kill,
       Die, Leave
  <2>4. QED
    BY <2>1, <2>2, <2>3
<1>2. QED
  BY Invariance, <1>1, PTL DEF Spec, TransmittedAfterExit

-----------------------------------------------------------------------------
(* The refinement. *)

LEMMA StepImplements ==
  ASSUME IInv, [Next]_vars
  PROVE  Delivery!Next \/ UNCHANGED <<Finished, stored>>
<1>0. TypeOK /\ FolderInv /\ UploadInv
  BY DEF IInv
<1>1. ASSUME NEW a \in Apps, AppEnds(a)
      PROVE  Delivery!Next \/ UNCHANGED <<Finished, stored>>
  <2>1. dir' = dir /\ stored' = stored /\ empty' = empty
    BY <1>1 DEF AppEnds
  <2>2. app' = [app EXCEPT ![a] = "gone"] /\ app[a] # "gone"
    BY <1>1 DEF AppEnds
  <2>3. CASE a \in dir \ empty
    <3>1. Finished' = Finished \cup {a} /\ a \notin Finished
      BY <1>0, <2>1, <2>2, <2>3 DEF TypeOK, Finished
    <3>2. a \notin stored
      BY <1>0, <2>2 DEF UploadInv
    <3>3. Delivery!Record(a)
      BY <2>1, <3>1, <3>2 DEF Delivery!Record
    <3>4. QED
      BY <3>3 DEF Delivery!Next
  <2>4. CASE a \notin dir \ empty
    BY <1>0, <2>1, <2>2, <2>4 DEF TypeOK, Finished
  <2>5. QED
    BY <2>3, <2>4
<1>2. ASSUME NEW s \in Apps, Handle(s)
      PROVE  Delivery!Next \/ UNCHANGED <<Finished, stored>>
  <2>1. UNCHANGED Finished /\ file[s] \in Apps
    BY <1>0, <1>2 DEF TypeOK, Handle, Move, Finished
  <2>2. \/ stored' = stored
        \/ stored' = stored \cup {file[s]} /\ Sendable(file[s])
    BY <1>2 DEF Handle
  <2>3. Sendable(file[s]) => file[s] \in Finished
    BY <1>0, <1>2 DEF UploadInv, HasOpen, Handle, Sendable, Finished
  <2>4. stored' = stored \/ Delivery!Store(file[s])
    BY <2>1, <2>2, <2>3 DEF Delivery!Store
  <2>5. QED
    BY <2>1, <2>4 DEF Delivery!Next
<1>3. ASSUME NEW s \in Apps, Delete(s)
      PROVE  Delivery!Next \/ UNCHANGED <<Finished, stored>>
  <2>1. file[s] \in Finished \cap stored /\ file[s] \in Apps
    BY <1>0, <1>3 DEF UploadInv, HasOpen, Delete, TypeOK, Finished
  <2>2. /\ app' = app /\ stored' = stored /\ dir' \in {dir, dir \ {file[s]}}
        /\ empty' = empty \cap dir'
    BY <1>3 DEF Delete, Move
  <2>3. Finished' \in {Finished, Finished \ {file[s]}}
    BY <1>0, <2>2 DEF TypeOK, Finished
  <2>4. UNCHANGED Finished \/ Delivery!Delete(file[s])
    BY <2>1, <2>2, <2>3 DEF Delivery!Delete
  <2>5. QED
    BY <2>1, <2>2, <2>4 DEF Delivery!Next
<1>4. ASSUME NEW a \in Apps, Spawn(a) \/ SpawnFails(a) \/ CreateLog(a)
      PROVE  UNCHANGED <<Finished, stored>>
  <2>1. /\ UNCHANGED <<stored, empty>>
        /\ dir \subseteq dir' /\ dir' \subseteq dir \cup {a}
    BY <1>4 DEF Spawn, SpawnFails, CreateLog
  <2>2. /\ app[a] # "gone" /\ app'[a] # "gone"
        /\ \A f \in Apps \ {a} : app'[f] = app[f]
    BY <1>0, <1>4 DEF TypeOK, Spawn, SpawnFails, CreateLog
  <2>3. QED
    BY <1>0, <2>1, <2>2 DEF TypeOK, Finished
<1>5. ASSUME NEW s \in Apps, Open(s)
      PROVE  UNCHANGED <<Finished, stored>>
  <2>1. app' = app /\ stored' = stored
    BY <1>5 DEF Open
  <2>2. dir' \ empty' = dir \ empty
    BY <1>0, <1>5 DEF TypeOK, Open
  <2>3. QED
    BY <2>1, <2>2 DEF Finished
<1>6. ASSUME NEW s \in Apps,
             \/ FindProcess(s) \/ Await(s) \/ OtherEnds(s)
             \/ CreateMutex(s) \/ Acquire(s) \/ FindFirst(s)
             \/ (\E f \in Apps : FindNext(s, f))
             \/ (\E end \in {"killed", "ended"} : Die(s, end)) \/ Leave(s)
      PROVE  UNCHANGED <<Finished, stored>>
  BY <1>6 DEF FindProcess, Await, OtherEnds, CreateMutex, Acquire,
     FindFirst, FindNext, Die, Leave, Move, Finished
<1>7. CASE UNCHANGED vars
  BY <1>7 DEF vars, Finished
<1>8. QED
  BY <1>1, <1>2, <1>3, <1>4, <1>5, <1>6, <1>7
     DEF Next, SenderStep, AcquireFails, Release, FindFirstFails, Kill

\* The sweeps of all senders of all sessions implement the abstract delivery: the
\* log of an application that has ended leaves the folder only when the server has
\* it.
THEOREM SweepsImplementDelivery == Spec => ImplementsDelivery
<1>1. Init => Delivery!Init
  BY DEF Init, Delivery!Init, Finished
<1>2. IInv /\ [Next]_vars => [Delivery!Next]_<<Finished, stored>>
  BY StepImplements
<1>3. QED
  BY Invariance, <1>1, <1>2, PTL
     DEF Spec, ImplementsDelivery, Delivery!Spec, Delivery!vars
=============================================================================
