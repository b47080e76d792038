--------------------------- MODULE LtContextProofs ---------------------------
(***************************************************************************)
(* LtContext, for any threads and names and any number of calls and        *)
(* terminations.                                                           *)
(*                                                                         *)
(* The types need that no thread has a mutex three times: what a thread    *)
(* has twice it is about to give back, or it has failed to, and then makes *)
(* no more records (TwiceInv).  The rest is about contexts that one thread *)
(* has created.  There the mutex of the context is the only one that       *)
(* anybody waits for, and who is about to write owns it (OwnerInv); while  *)
(* nobody has been terminated, who owns it is about to give it back        *)
(* (ReleaseInv).  The log is as long as its handle says, and starts as it  *)
(* should as far as its creator has come (LogInv); of each thread it holds *)
(* the records that have been written and nothing else (HeldInv).          *)
(***************************************************************************)
EXTENDS LtContext, SequenceTheorems, TLAPS

-----------------------------------------------------------------------------
\* What is owned twice is about to be released, or was not when it should have been.
TwiceInv ==
  /\ \A m \in Threads : mutexes[m].owner = None <=> mutexes[m].depth = 0
  /\ \A m, t \in Threads : mutexes[m].owner = t /\ mutexes[m].depth = 2 =>
       \/ pc[t] \in {"record", "release"} /\ waits[t] = m
       \/ initialized /\ failed /\ pc[t] = "idle"
  /\ \A t \in Threads :
       pc[t] \in {"wait", "record", "release"} /\ mutex # None /\ mutex # waits[t] =>
         mutexes[mutex].owner # t

\* Who has not returned has made a call.
CallInv == \A t \in Threads : pc[t] \notin {"idle", "dead"} => calls[t] >= 1

TypeInv == TypeOK /\ TwiceInv /\ CallInv

Creating == {"open", "start", "info", "unlock", "publish"}
Writing == {"lock", "wait", "record", "release"}

\* Who creates the context, and where the others are.
CreatedInv ==
  /\ \A t \in Threads : pc[t] \in Creating => t \in created
  /\ \A t \in Threads : pc[t] \in Writing => initialized
  /\ \A t \in Threads : pc[t] = "create" => t \notin created
  /\ \A t \in created : ~initialized => pc[t] \in Creating \cup {"dead"}
  /\ initialized => created # {}
  /\ mutex # None => mutex \in created
  /\ file # None => file \in created

OwnerInv ==
  Alone => \A t \in Threads :
    /\ pc[t] \in {"wait", "record", "release"} => waits[t] = mutex
    /\ InCriticalSection(t) => mutex # None /\ mutexes[mutex].owner = t

ReleaseInv ==
  deaths = 0 =>
    /\ \A m \in Threads : ~mutexes[m].abandoned
    /\ Alone => \A m \in Threads : mutexes[m].owner # None =>
         /\ mutexes[m].depth = 1
         /\ mutex = m
         /\ InCriticalSection(mutexes[m].owner)

\* How far the log is.
Started ==
  /\ \A t \in Threads : pc[t] \in Creating => ~initialized
  /\ \A n \in Names : disk[n] # <<>> => file # None /\ n = name[file]
  /\ \A t \in Threads : t # file => at[t] = 0
  /\ \A t \in Threads : pc[t] = "open" => file = None
  /\ \A t \in Threads : pc[t] \in {"start", "info"} => file = t
  /\ file # None =>
       /\ name[file] \in Names
       /\ Len(disk[name[file]]) = at[file]
       /\ WellFormed(disk[name[file]])
       /\ pc[file] \notin {"idle", "create", "open"} \/ initialized
       /\ pc[file] = "start" => at[file] = 0
       /\ pc[file] = "info" => at[file] = 1
       /\ pc[file] \notin {"start", "info", "dead"} => at[file] >= 2
       /\ initialized => at[file] >= 2

LogInv == Alone /\ ~failed => Started

\* The calls of t whose record is written: of the call at hand, only after that.
Made(t) == IF pc[t] \in {"idle", "release"} THEN calls[t] ELSE calls[t] - 1

\* Log s holds the first n records of t, each once and in order, and no others of t.
Kept(s, t, n) ==
  /\ \A k \in 1 .. n : \E i \in 1 .. Len(s) : s[i] = Record(t, k)
  /\ \A i \in 1 .. Len(s) : s[i][2] = t => \E k \in 1 .. n : s[i] = Record(t, k)
  /\ \A i, j \in 1 .. Len(s) : i < j /\ s[i][2] = t /\ s[j][2] = t => s[i][3] < s[j][3]

\* Before the context is initialized every call is the first of its thread; the log
\* holds what has been written.
HeldInv ==
  Alone /\ deaths = 0 /\ ~failed =>
    /\ \A t \in Threads : pc[t] # "dead"
    /\ ~initialized => \A t \in Threads : calls[t] = IF pc[t] = "idle" THEN 0 ELSE 1
    /\ file # None => \A t \in Threads : Kept(disk[name[file]], t, Made(t))

IInv == TypeInv /\ CreatedInv /\ OwnerInv /\ ReleaseInv /\ LogInv /\ HeldInv

-----------------------------------------------------------------------------
LEMMA InitInv == Init => IInv
<1> SUFFICES ASSUME Init PROVE IInv
  OBVIOUS
<1>1. TypeOK
  <2>1. Free \in Mutex
    BY DEF Mutex, Free, Handle
  <2>2. <<>> \in Seq(Block)
    OBVIOUS
  <2>3. 0 \in 0 .. MaxCalls /\ 0 \in 0 .. MaxDeaths
    BY ContextAssumption
  <2>4. disk \in [Names -> Seq(Block)] /\ mutexes \in [Threads -> Mutex]
    BY <2>1, <2>2 DEF Init
  <2>5. calls \in [Threads -> 0 .. MaxCalls] /\ deaths \in 0 .. MaxDeaths
    BY <2>3 DEF Init
  <2>6. at \in [Threads -> Nat] /\ pc \in [Threads -> ThreadPC]
    BY DEF Init, ThreadPC
  <2>7. QED
    BY <2>4, <2>5, <2>6 DEF Init, TypeOK, Handle
<1>2. TwiceInv /\ CallInv
  BY DEF Init, TwiceInv, CallInv, Free
<1>3. CreatedInv
  BY DEF Init, CreatedInv, Creating, Writing
<1>4. OwnerInv /\ ReleaseInv
  BY DEF Init, OwnerInv, ReleaseInv, InCriticalSection, Free
<1>5. LogInv
  <2>1. \A t \in Threads : pc[t] = "idle" /\ at[t] = 0
    BY DEF Init
  <2>2. file = None /\ \A n \in Names : disk[n] = <<>>
    BY DEF Init
  <2>3. QED
    BY <2>1, <2>2 DEF LogInv, Started, Creating
<1>6. HeldInv
  <2>1. file = None /\ \A t \in Threads : pc[t] = "idle" /\ calls[t] = 0
    BY DEF Init
  <2>2. QED
    BY <2>1 DEF HeldInv
<1>7. QED
  BY <1>1, <1>2, <1>3, <1>4, <1>5, <1>6 DEF IInv, TypeInv

-----------------------------------------------------------------------------
(* What the parts of the actions do. *)

LEMMA WriteAtType ==
  ASSUME NEW s \in Seq(Block), NEW p \in Nat, NEW b \in Block
  PROVE  WriteAt(s, p, b) \in Seq(Block)
<1> DEFINE n == IF p < Len(s) THEN Len(s) ELSE p + 1
<1>1. n \in Nat /\ Len(s) \in Nat
  BY LenProperties
<1>2. \A i \in 1 .. n : i <= Len(s) => s[i] \in Block
  BY <1>1, ElementOfSeq
<1>3. Gap \in Block
  BY DEF Block
<1>4. WriteAt(s, p, b) = [i \in 1 .. n |-> IF i = p + 1 THEN b ELSE IF i <= Len(s) THEN s[i] ELSE Gap]
  BY DEF WriteAt
<1>5. WriteAt(s, p, b) \in [1 .. n -> Block]
  BY <1>2, <1>3, <1>4
<1>6. QED
  BY <1>1, <1>5, SeqDef

\* At its end a log grows by the block.
LEMMA WriteAtEnd ==
  ASSUME NEW s \in Seq(Block), NEW b \in Block
  PROVE  /\ Len(WriteAt(s, Len(s), b)) = Len(s) + 1
         /\ WriteAt(s, Len(s), b)[Len(s) + 1] = b
         /\ \A i \in 1 .. Len(s) : WriteAt(s, Len(s), b)[i] = s[i]
<1>1. Len(s) \in Nat
  BY LenProperties
<1>2. WriteAt(s, Len(s), b) =
        [i \in 1 .. Len(s) + 1 |-> IF i = Len(s) + 1 THEN b ELSE IF i <= Len(s) THEN s[i] ELSE Gap]
  BY <1>1 DEF WriteAt
<1>3. WriteAt(s, Len(s), b) \in Seq(Block)
  BY <1>1, WriteAtType
<1>4. DOMAIN WriteAt(s, Len(s), b) = 1 .. Len(s) + 1
  BY <1>2
<1>5. Len(WriteAt(s, Len(s), b)) = Len(s) + 1
  BY <1>1, <1>3, <1>4, LenProperties
<1>6. QED
  BY <1>1, <1>2, <1>5

LEMMA WriteType ==
  ASSUME TypeOK, NEW b \in Block, Write(b)
  PROVE  /\ failed' \in BOOLEAN /\ (failed => failed')
         /\ name' = name
         /\ at' \in [Threads -> Nat]
         /\ disk' \in [Names -> Seq(Block)]
<1>1. CASE UNCHANGED logs /\ failed' = TRUE
  BY <1>1 DEF TypeOK, logs
<1>2. CASE /\ file # None
           /\ disk' = [disk EXCEPT ![name[file]] = WriteAt(@, at[file], b)]
           /\ at' = [at EXCEPT ![file] = @ + 1]
           /\ UNCHANGED <<failed, name>>
  <2>1. at[file] \in Nat
    BY <1>2 DEF TypeOK, Handle
  <2>2. name[file] \in Names => WriteAt(disk[name[file]], at[file], b) \in Seq(Block)
    BY <2>1, WriteAtType DEF TypeOK
  <2>3. disk' \in [Names -> Seq(Block)]
    BY <1>2, <2>2 DEF TypeOK
  <2>4. at \in [Threads -> Nat] /\ at[file] + 1 \in Nat
    BY <2>1 DEF TypeOK
  <2>5. at' \in [Threads -> Nat]
    BY <1>2, <2>4
  <2>6. QED
    BY <1>2, <2>3, <2>5 DEF TypeOK
<1>3. QED
  BY <1>1, <1>2 DEF Write

LEMMA Blocks ==
  /\ Start \in Block /\ Info \in Block
  /\ TypeOK => \A t \in Threads : calls[t] >= 1 => Record(t, calls[t]) \in Block
<1>1. Start \in Block /\ Info \in Block
  BY DEF Block
<1>2. ASSUME TypeOK, NEW t \in Threads, calls[t] >= 1
      PROVE  Record(t, calls[t]) \in Block
  <2>1. calls[t] \in 1 .. MaxCalls
    BY <1>2, ContextAssumption DEF TypeOK
  <2>2. QED
    BY <2>1 DEF Block
<1>3. QED
  BY <1>1, <1>2

LEMMA MutexFields ==
  /\ Free \in Mutex /\ Abandoned \in Mutex
  /\ \A t \in Threads, n \in 0 .. 2 : Owned(t, n) \in Mutex
  /\ \A x \in Mutex : x.owner \in Handle /\ x.depth \in 0 .. 2 /\ x.abandoned \in BOOLEAN
BY DEF Mutex, Free, Abandoned, Owned, Handle

LEMMA UnlockType ==
  ASSUME TypeOK, TwiceInv, NEW t \in Threads, Unlock(t)
  PROVE  mutexes' \in [Threads -> Mutex]
<1>1. CASE ~Owns(t)
  BY <1>1 DEF Unlock, TypeOK
<1>2. CASE Owns(t)
  <2>1. mutex \in Threads /\ mutexes[mutex] \in Mutex /\ mutexes[mutex].owner = t
    BY <1>2 DEF Owns, TypeOK, Handle
  <2>2. mutexes[mutex].depth \in 1 .. 2
    BY <2>1, MutexFields, ContextAssumption DEF TwiceInv
  <2> DEFINE x == IF mutexes[mutex].depth = 1 THEN Free ELSE Owned(t, mutexes[mutex].depth - 1)
  <2>3. mutexes' = [mutexes EXCEPT ![mutex] = x]
    BY <1>2 DEF Unlock
  <2>4. x \in Mutex
    BY <2>2, MutexFields
  <2> HIDE DEF x
  <2>5. QED
    BY <2>3, <2>4 DEF TypeOK
<1>3. QED
  BY <1>1, <1>2

LEMMA GotoType ==
  ASSUME TypeOK, NEW t \in Threads, NEW to \in ThreadPC, Goto(t, to)
  PROVE  pc' \in [Threads -> ThreadPC] /\ deaths' \in 0 .. MaxDeaths
BY DEF TypeOK, Goto

-----------------------------------------------------------------------------
(* Types. *)

LEMMA CallType ==
  ASSUME TypeInv, NEW t \in Threads, Call(t)
  PROVE  TypeOK'
<1>1. calls' \in [Threads -> 0 .. MaxCalls]
  BY ContextAssumption DEF TypeInv, TypeOK, Call
<1>2. pc' \in [Threads -> ThreadPC] /\ deaths' \in 0 .. MaxDeaths
  BY GotoType DEF TypeInv, Call, ThreadPC
<1>3. QED
  BY <1>1, <1>2 DEF TypeInv, TypeOK, Call, context, logs

LEMMA CreateType ==
  ASSUME TypeInv, NEW t \in Threads, Create(t)
  PROVE  TypeOK'
<1>1. pc' \in [Threads -> ThreadPC] /\ deaths' \in 0 .. MaxDeaths
  BY GotoType DEF TypeInv, Create, ThreadPC
<1>2. mutexes' \in [Threads -> Mutex] /\ mutex' \in Handle
  <2>1. Owned(t, 1) \in Mutex /\ mutexes \in [Threads -> Mutex]
    BY MutexFields DEF TypeInv, TypeOK
  <2>2. QED
    BY <2>1 DEF Create, Handle
<1>3. QED
  BY <1>1, <1>2 DEF TypeInv, TypeOK, Create, logs

LEMMA OpenType ==
  ASSUME TypeInv, NEW t \in Threads, Open(t)
  PROVE  TypeOK'
<1>1. pc' \in [Threads -> ThreadPC] /\ deaths' \in 0 .. MaxDeaths
  BY GotoType DEF TypeInv, Open, ThreadPC
<1>2. PICK n \in Names :
        name' = [name EXCEPT ![t] = n] /\ disk' = [disk EXCEPT ![n] = <<>>]
  BY DEF Open
<1>3. <<>> \in Seq(Block)
  OBVIOUS
<1>4. disk' \in [Names -> Seq(Block)] /\ name' \in [Threads -> Names \cup {None}]
  BY <1>2, <1>3 DEF TypeInv, TypeOK
<1>5. QED
  BY <1>1, <1>4 DEF TypeInv, TypeOK, Open, Handle

LEMMA WriteStepType ==
  ASSUME TypeInv, NEW t \in Threads, WriteStart(t) \/ WriteInfo(t) \/ WriteRecord(t)
  PROVE  TypeOK'
<1>1. pc' \in [Threads -> ThreadPC] /\ deaths' \in 0 .. MaxDeaths
  BY GotoType DEF TypeInv, WriteStart, WriteInfo, WriteRecord, ThreadPC
<1>2. PICK b \in Block : Write(b)
  <2>1. CASE WriteStart(t) \/ WriteInfo(t)
    BY <2>1, Blocks DEF WriteStart, WriteInfo
  <2>2. CASE WriteRecord(t)
    BY <2>2, Blocks DEF WriteRecord, TypeInv, CallInv
  <2>3. QED
    BY <2>1, <2>2
<1>3. /\ failed' \in BOOLEAN /\ name' = name /\ at' \in [Threads -> Nat]
      /\ disk' \in [Names -> Seq(Block)]
  BY <1>2, WriteType DEF TypeInv
<1>4. QED
  BY <1>1, <1>3 DEF TypeInv, TypeOK, WriteStart, WriteInfo, WriteRecord

LEMMA UnlockStepType ==
  ASSUME TypeInv, NEW t \in Threads, OpenFails(t) \/ UnlockInit(t) \/ Release(t)
  PROVE  TypeOK'
<1>1. pc' \in [Threads -> ThreadPC] /\ deaths' \in 0 .. MaxDeaths
  BY GotoType DEF TypeInv, OpenFails, UnlockInit, Release, ThreadPC
<1>2. mutexes' \in [Threads -> Mutex]
  BY UnlockType DEF TypeInv, OpenFails, UnlockInit, Release
<1>3. failed' \in BOOLEAN
  BY DEF TypeInv, TypeOK, OpenFails, UnlockInit, Release, context
<1>4. QED
  BY <1>1, <1>2, <1>3 DEF TypeInv, TypeOK, OpenFails, UnlockInit, Release, context, logs, Handle

LEMMA WaitType ==
  ASSUME TypeInv, NEW t \in Threads,
         Publish(t) \/ BeginWait(t) \/ TimeOut(t) \/ AcquireAbandoned(t)
  PROVE  TypeOK'
<1>1. pc' \in [Threads -> ThreadPC] /\ deaths' \in 0 .. MaxDeaths
  BY GotoType DEF TypeInv, Publish, BeginWait, TimeOut, AcquireAbandoned, ThreadPC
<1>2. mutexes' \in [Threads -> Mutex]
  BY MutexFields DEF TypeInv, TypeOK, Publish, BeginWait, TimeOut, AcquireAbandoned
<1>3. QED
  BY <1>1, <1>2 DEF TypeInv, TypeOK, Publish, BeginWait, TimeOut, AcquireAbandoned, context, logs

\* A mutex that a waiting thread can have, it has at most once.
LEMMA AcquireType ==
  ASSUME TypeInv, NEW t \in Threads, Acquire(t)
  PROVE  TypeOK'
<1>1. pc' \in [Threads -> ThreadPC] /\ deaths' \in 0 .. MaxDeaths
  BY GotoType DEF TypeInv, Acquire, ThreadPC
<1>2. PICK m \in Threads : m = waits[t] /\ mutexes[m].owner \in {None, t}
  BY DEF Acquire, Available, TypeInv, TypeOK, Handle
<1>3. mutexes[m].depth + 1 \in 0 .. 2
  <2>1. mutexes[m].depth \in 0 .. 2
    BY MutexFields DEF TypeInv, TypeOK
  <2>2. mutexes[m].depth # 2
    BY <1>2 DEF TypeInv, TwiceInv, Acquire
  <2>3. QED
    BY <2>1, <2>2
<1>4. mutexes' = [mutexes EXCEPT ![m] = Owned(t, mutexes[m].depth + 1)]
  BY <1>2 DEF Acquire
<1>5. mutexes' \in [Threads -> Mutex]
  BY <1>3, <1>4, MutexFields DEF TypeInv, TypeOK
<1>6. QED
  BY <1>1, <1>5 DEF TypeInv, TypeOK, Acquire, context, logs

LEMMA DieType ==
  ASSUME TypeInv, NEW t \in Threads, Die(t)
  PROVE  TypeOK'
<1>1. deaths' \in 0 .. MaxDeaths
  BY ContextAssumption DEF TypeInv, TypeOK, Die
<1>2. mutexes' \in [Threads -> Mutex]
  BY MutexFields DEF TypeInv, TypeOK, Die
<1>3. pc' \in [Threads -> ThreadPC]
  BY DEF TypeInv, TypeOK, Die, ThreadPC
<1>4. QED
  BY <1>1, <1>2, <1>3 DEF TypeInv, TypeOK, Die, context, logs

LEMMA StepType ==
  ASSUME TypeInv, NEW t \in Threads, Call(t) \/ Step(t) \/ Die(t)
  PROVE  TypeOK'
BY CallType, CreateType, OpenType, WriteStepType, UnlockStepType, WaitType, AcquireType, DieType
   DEF Step

LEMMA StepCallInv ==
  ASSUME TypeInv, NEW t \in Threads, Call(t) \/ Step(t) \/ Die(t)
  PROVE  CallInv'
<1>1. CASE Call(t)
  BY <1>1 DEF TypeInv, TypeOK, CallInv, Call, Goto
<1>2. CASE Die(t)
  BY <1>2 DEF TypeInv, TypeOK, CallInv, Die
<1>3. CASE Step(t)
  <2>1. pc[t] \notin {"idle", "dead"} /\ calls' = calls
    BY <1>3 DEF Step, Create, Open, OpenFails, WriteStart, WriteInfo, UnlockInit, Publish,
                BeginWait, Acquire, AcquireAbandoned, TimeOut, WriteRecord, Release
  <2>2. \A u \in Threads : u # t => pc'[u] = pc[u]
    BY <1>3 DEF Step, Create, Open, OpenFails, WriteStart, WriteInfo, UnlockInit, Publish,
                BeginWait, Acquire, AcquireAbandoned, TimeOut, WriteRecord, Release, Goto,
                TypeInv, TypeOK
  <2>3. QED
    BY <2>1, <2>2 DEF TypeInv, CallInv
<1>4. QED
  BY <1>1, <1>2, <1>3

-----------------------------------------------------------------------------
(* Mutexes that are owned twice. *)

\* Of a mutex of the context that thread t owns, it gives back one.
LEMMA Unlocked ==
  ASSUME TypeInv, NEW t \in Threads, Unlock(t)
  PROVE  /\ \A m \in Threads : mutexes'[m] # mutexes[m] => m = mutex /\ mutexes[m].owner = t
         /\ \A m \in Threads : mutexes'[m].owner \in {None, mutexes[m].owner}
         /\ \A m \in Threads : mutexes'[m].owner = None <=> mutexes'[m].depth = 0
         /\ Owns(t) => mutexes'[mutex].depth = mutexes[mutex].depth - 1
         /\ Owns(t) /\ mutexes[mutex].depth = 1 => mutexes'[mutex] = Free
         /\ \A m \in Threads : mutexes'[m].abandoned => mutexes[m].abandoned
<1>1. \A m \in Threads : mutexes[m].owner = None <=> mutexes[m].depth = 0
  BY DEF TypeInv, TwiceInv
<1>2. CASE ~Owns(t)
  BY <1>1, <1>2 DEF Unlock
<1>3. CASE Owns(t)
  <2>1. mutex \in Threads /\ mutexes[mutex].owner = t
    BY <1>3 DEF Owns, TypeInv, TypeOK, Handle
  <2>2. mutexes[mutex].depth \in 1 .. 2 /\ t # None
    BY <1>1, <2>1, MutexFields, ContextAssumption DEF TypeInv, TypeOK
  <2>3. mutexes' = [mutexes EXCEPT ![mutex] =
                      IF @.depth = 1 THEN Free ELSE Owned(t, @.depth - 1)]
    BY <1>3 DEF Unlock
  <2>4. mutexes'[mutex] = IF mutexes[mutex].depth = 1 THEN Free
                          ELSE Owned(t, mutexes[mutex].depth - 1)
    BY <2>1, <2>3 DEF TypeInv, TypeOK
  <2>5. \A m \in Threads : m # mutex => mutexes'[m] = mutexes[m]
    BY <2>3 DEF TypeInv, TypeOK
  <2>6. /\ mutexes'[mutex].owner \in {None, t}
        /\ mutexes'[mutex].depth = mutexes[mutex].depth - 1
        /\ mutexes'[mutex].owner = None <=> mutexes'[mutex].depth = 0
        /\ ~mutexes'[mutex].abandoned
    BY <2>2, <2>4 DEF Free, Owned
  <2>7. QED
    BY <1>1, <2>1, <2>2, <2>4, <2>5, <2>6
<1>4. QED
  BY <1>2, <1>3

\* Parts of TwiceInv.
Twice1 == \A m \in Threads : mutexes[m].owner = None <=> mutexes[m].depth = 0
Twice2 ==
  \A m, t \in Threads : mutexes[m].owner = t /\ mutexes[m].depth = 2 =>
    \/ pc[t] \in {"record", "release"} /\ waits[t] = m
    \/ initialized /\ failed /\ pc[t] = "idle"
Twice3 ==
  \A t \in Threads :
    pc[t] \in {"wait", "record", "release"} /\ mutex # None /\ mutex # waits[t] =>
      mutexes[mutex].owner # t

LEMMA TwiceParts == TwiceInv <=> Twice1 /\ Twice2 /\ Twice3
BY DEF TwiceInv, Twice1, Twice2, Twice3

\* Steps that leave all mutexes and who waits for them alone.
LEMMA QuietTwice ==
  ASSUME TypeInv, NEW t \in Threads,
         Call(t) \/ Open(t) \/ WriteStart(t) \/ WriteInfo(t) \/ Publish(t) \/ TimeOut(t) \/ WriteRecord(t)
  PROVE  TwiceInv'
<1>1. UNCHANGED <<mutex, mutexes, waits>>
  BY DEF Call, Open, WriteStart, WriteInfo, Publish, TimeOut, WriteRecord, context
<1>2. (initialized => initialized') /\ (failed => failed')
  <2>1. CASE WriteStart(t) \/ WriteInfo(t) \/ WriteRecord(t)
    BY <2>1 DEF WriteStart, WriteInfo, WriteRecord, Write
  <2>2. CASE Call(t) \/ Open(t) \/ Publish(t) \/ TimeOut(t)
    BY <2>2 DEF Call, Open, Publish, TimeOut, context
  <2>3. QED
    BY <2>1, <2>2
<1>3. \A u \in Threads : u # t => pc'[u] = pc[u]
  BY DEF Call, Open, WriteStart, WriteInfo, Publish, TimeOut, WriteRecord, Goto, TypeInv, TypeOK
<1>4. \/ pc'[t] \in {"record", "release"} /\ pc[t] \in {"record", "release"}
      \/ pc[t] \notin {"idle", "record", "release"} /\ pc'[t] \notin {"wait", "record", "release"}
      \/ pc[t] = "idle" /\ pc'[t] \notin {"wait", "record", "release"}
         /\ (initialized /\ failed => pc'[t] = "idle")
  BY DEF Call, Open, WriteStart, WriteInfo, Publish, TimeOut, WriteRecord, Goto, TypeInv, TypeOK
<1>5. Twice1 /\ Twice2 /\ Twice3
  BY TwiceParts DEF TypeInv
<1>6. Twice1'
  BY <1>1, <1>5 DEF Twice1
<1>7. Twice2'
  BY <1>1, <1>2, <1>3, <1>4, <1>5 DEF Twice2
<1>8. Twice3'
  BY <1>1, <1>3, <1>4, <1>5 DEF Twice3
<1>9. QED
  BY <1>6, <1>7, <1>8, TwiceParts DEF TwiceInv, Twice1, Twice2, Twice3

LEMMA CreateTwice ==
  ASSUME TypeInv, NEW t \in Threads, Create(t)
  PROVE  TwiceInv'
<1>1. \A u \in Threads : u # t => pc'[u] = pc[u]
  BY DEF Create, Goto, TypeInv, TypeOK
<1>2. pc[t] = "create" /\ UNCHANGED waits /\ (initialized => initialized') /\ (failed => failed')
  BY DEF Create
<1>3. Twice1 /\ Twice2 /\ Twice3
  BY TwiceParts DEF TypeInv
<1>4. CASE mutex' = t /\ mutexes' = [mutexes EXCEPT ![t] = Owned(t, 1)] /\ Goto(t, "open")
  <2>1. \A m \in Threads : m # t => mutexes'[m] = mutexes[m]
    BY <1>4 DEF TypeInv, TypeOK
  <2>2. mutexes'[t].owner = t /\ mutexes'[t].depth = 1 /\ t # None
    BY <1>4, ContextAssumption DEF TypeInv, TypeOK, Owned
  <2>3. pc'[t] = "open"
    BY <1>4 DEF Goto, TypeInv, TypeOK
  <2>4. Twice1'
    BY <1>3, <2>1, <2>2 DEF Twice1
  <2>5. Twice2'
    BY <1>1, <1>2, <1>3, <2>1, <2>2, <2>3 DEF Twice2
  <2>6. Twice3'
    BY <1>4, <2>2, <2>3 DEF Twice3
  <2>7. QED
    BY <2>4, <2>5, <2>6 DEF TwiceInv, Twice1, Twice2, Twice3
<1>5. CASE mutex' = None /\ Goto(t, "idle") /\ UNCHANGED mutexes
  <2>1. Twice1' /\ Twice3'
    BY <1>3, <1>5 DEF Twice1, Twice3
  <2>2. Twice2'
    BY <1>1, <1>2, <1>3, <1>5 DEF Twice2
  <2>3. QED
    BY <2>1, <2>2 DEF TwiceInv, Twice1, Twice2, Twice3
<1>6. QED
  BY <1>4, <1>5 DEF Create

LEMMA BeginWaitTwice ==
  ASSUME TypeInv, NEW t \in Threads, BeginWait(t)
  PROVE  TwiceInv'
<1>1. /\ pc[t] = "lock" /\ pc'[t] = "wait" /\ waits'[t] = mutex
      /\ \A u \in Threads : u # t => pc'[u] = pc[u] /\ waits'[u] = waits[u]
      /\ UNCHANGED <<mutex, mutexes, initialized, failed>>
  BY DEF BeginWait, Goto, TypeInv, TypeOK, context
<1>2. Twice1 /\ Twice2 /\ Twice3
  BY TwiceParts DEF TypeInv
<1>3. Twice1' /\ Twice2' /\ Twice3'
  BY <1>1, <1>2 DEF Twice1, Twice2, Twice3
<1>4. QED
  BY <1>3 DEF TwiceInv, Twice1, Twice2, Twice3

\* What a thread has waited for is its own then, and the rest is as it was.
LEMMA Acquired ==
  ASSUME TypeInv, NEW t \in Threads, Acquire(t) \/ AcquireAbandoned(t)
  PROVE  /\ waits[t] \in Threads
         /\ mutexes[waits[t]].owner \in {None, t}
         /\ mutexes[waits[t]].depth \in {0, 1}
         /\ mutexes'[waits[t]].owner = t
         /\ \/ Acquire(t) /\ mutexes'[waits[t]].depth = mutexes[waits[t]].depth + 1
            \/ AcquireAbandoned(t) /\ mutexes'[waits[t]].depth = 1
         /\ ~mutexes'[waits[t]].abandoned
         /\ \A m \in Threads : m # waits[t] => mutexes'[m] = mutexes[m]
         /\ \A u \in Threads : u # t => pc'[u] = pc[u]
         /\ pc'[t] = IF Acquire(t) THEN "record" ELSE "idle"
         /\ pc[t] = "wait"
<1>1. PICK m \in Threads : m = waits[t] /\ mutexes[m].owner \in {None, t}
  BY DEF Acquire, AcquireAbandoned, Available, TypeInv, TypeOK, Handle
<1>2. pc[t] = "wait"
  BY DEF Acquire, AcquireAbandoned
<1>3. mutexes[m].depth \in {0, 1}
  <2>1. mutexes[m].depth \in 0 .. 2
    BY MutexFields DEF TypeInv, TypeOK
  <2>2. mutexes[m].depth # 2
    BY <1>1, <1>2 DEF TypeInv, TwiceInv
  <2>3. QED
    BY <2>1, <2>2
<1>4. \A u \in Threads : u # t => pc'[u] = pc[u]
  BY DEF Acquire, AcquireAbandoned, Goto, TypeInv, TypeOK
<1>5. CASE Acquire(t)
  <2>1. mutexes' = [mutexes EXCEPT ![m] = Owned(t, mutexes[m].depth + 1)]
    BY <1>1, <1>5 DEF Acquire
  <2>2. mutexes'[m] = Owned(t, mutexes[m].depth + 1)
        /\ \A n \in Threads : n # m => mutexes'[n] = mutexes[n]
    BY <2>1 DEF TypeInv, TypeOK
  <2>3. pc'[t] = "record"
    BY <1>5 DEF Acquire, Goto, TypeInv, TypeOK
  <2>4. QED
    BY <1>1, <1>2, <1>3, <1>4, <1>5, <2>2, <2>3 DEF Owned
<1>6. CASE AcquireAbandoned(t)
  <2>1. mutexes' = [mutexes EXCEPT ![m] = Owned(t, 1)]
    BY <1>1, <1>6 DEF AcquireAbandoned
  <2>2. mutexes'[m] = Owned(t, 1) /\ \A n \in Threads : n # m => mutexes'[n] = mutexes[n]
    BY <2>1 DEF TypeInv, TypeOK
  <2>3. pc'[t] = "idle" /\ ~Acquire(t)
    BY <1>6 DEF Acquire, AcquireAbandoned, Goto, TypeInv, TypeOK
  <2>4. QED
    BY <1>1, <1>2, <1>3, <1>4, <1>6, <2>2, <2>3 DEF Owned
<1>7. QED
  BY <1>5, <1>6

LEMMA AcquireTwice ==
  ASSUME TypeInv, NEW t \in Threads, Acquire(t) \/ AcquireAbandoned(t)
  PROVE  TwiceInv'
<1>1. Twice1 /\ Twice2 /\ Twice3
  BY TwiceParts DEF TypeInv
<1>2. UNCHANGED <<mutex, waits, initialized, failed>>
  BY DEF Acquire, AcquireAbandoned, context
<1>3. t # None
  BY ContextAssumption
<1> DEFINE w == waits[t]
<1>4. /\ w \in Threads /\ mutexes'[w].owner = t /\ mutexes'[w].depth \in {1, 2}
      /\ mutexes'[w].depth = 2 => pc'[t] = "record"
      /\ \A m \in Threads : m # w => mutexes'[m] = mutexes[m]
      /\ \A u \in Threads : u # t => pc'[u] = pc[u]
      /\ pc[t] = "wait"
  BY Acquired
<1>5. w = waits[t]
  OBVIOUS
<1> HIDE DEF w
<1>6. Twice1'
  BY <1>1, <1>3, <1>4 DEF Twice1
<1>7. Twice2'
  BY <1>1, <1>2, <1>4, <1>5 DEF Twice2
<1>8. Twice3'
  <2> SUFFICES ASSUME NEW u \in Threads, pc'[u] \in {"wait", "record", "release"},
                      mutex # None, mutex # waits[u]
               PROVE  mutexes'[mutex].owner # u
    BY <1>2 DEF Twice3
  <2>1. mutex \in Threads
    BY DEF TypeInv, TypeOK, Handle
  <2>2. mutexes[mutex].owner # u
    BY <1>1, <1>4 DEF Twice3
  <2>3. mutex = w => u # t
    BY <1>5
  <2>4. QED
    BY <1>4, <2>1, <2>2, <2>3
<1>9. QED
  BY <1>6, <1>7, <1>8 DEF TwiceInv, Twice1, Twice2, Twice3

LEMMA UnlockTwice ==
  ASSUME TypeInv, CreatedInv, NEW t \in Threads, OpenFails(t) \/ UnlockInit(t) \/ Release(t)
  PROVE  TwiceInv'
<1>1. Twice1 /\ Twice2 /\ Twice3
  BY TwiceParts DEF TypeInv
<1>2. Unlock(t) /\ UNCHANGED <<mutex, waits>> /\ (initialized => initialized') /\ (failed => failed')
  <2>1. Unlock(t) /\ UNCHANGED <<mutex, waits>>
    BY DEF OpenFails, UnlockInit, Release, context
  <2>2. initialized => initialized'
    BY DEF OpenFails, UnlockInit, Release, context
  <2>3. failed => failed'
    BY DEF OpenFails, UnlockInit, Release, context
  <2>4. QED
    BY <2>1, <2>2, <2>3
<1>3. /\ \A u \in Threads : u # t => pc'[u] = pc[u]
      /\ pc'[t] \in {"idle", "publish"}
  BY DEF OpenFails, UnlockInit, Release, Goto, TypeInv, TypeOK
<1>4. \/ pc[t] \in {"open", "unlock"}
      \/ pc[t] = "release" /\ (~Owns(t) => failed') /\ pc'[t] = "idle"
  BY DEF OpenFails, UnlockInit, Release, Goto, TypeInv, TypeOK
<1>5. /\ \A m \in Threads : mutexes'[m] # mutexes[m] => m = mutex /\ mutexes[m].owner = t
      /\ \A m \in Threads : mutexes'[m].owner \in {None, mutexes[m].owner}
      /\ \A m \in Threads : mutexes'[m].owner = None <=> mutexes'[m].depth = 0
      /\ Owns(t) => mutexes'[mutex].depth = mutexes[mutex].depth - 1
  BY <1>2, Unlocked
<1>6. \A u \in Threads : u # None
  BY ContextAssumption
<1>7. Twice1'
  BY <1>5 DEF Twice1
<1>8. Twice3'
  <2> SUFFICES ASSUME NEW u \in Threads, pc'[u] \in {"wait", "record", "release"},
                      mutex # None, mutex # waits[u]
               PROVE  mutexes'[mutex].owner # u
    BY <1>2 DEF Twice3
  <2>1. mutex \in Threads /\ mutexes[mutex].owner # u
    BY <1>1, <1>3 DEF Twice3, TypeInv, TypeOK, Handle
  <2>2. QED
    BY <1>5, <1>6, <2>1
<1>9. Twice2'
  <2> SUFFICES ASSUME NEW m \in Threads, NEW u \in Threads,
                      mutexes'[m].owner = u, mutexes'[m].depth = 2
               PROVE  \/ pc'[u] \in {"record", "release"} /\ waits[u] = m
                      \/ initialized' /\ failed' /\ pc'[u] = "idle"
    BY <1>2 DEF Twice2
  <2>1. mutexes'[m] = mutexes[m]
    <3>1. SUFFICES ASSUME mutexes'[m] # mutexes[m] PROVE FALSE
      OBVIOUS
    <3>2. m = mutex /\ mutexes[m].owner = t
      BY <1>5, <3>1
    <3>3. Owns(t)
      BY <1>6, <3>2 DEF Owns
    <3>4. mutexes[m].depth \in 0 .. 2
      BY MutexFields DEF TypeInv, TypeOK
    <3>5. QED
      BY <1>5, <3>2, <3>3, <3>4
  <2>2. \/ pc[u] \in {"record", "release"} /\ waits[u] = m
        \/ initialized /\ failed /\ pc[u] = "idle"
    BY <1>1, <2>1 DEF Twice2
  <2>3. CASE u # t
    BY <1>2, <1>3, <2>2, <2>3
  <2>4. CASE u = t
    <3>1. pc[t] = "release" /\ waits[t] = m /\ (~Owns(t) => failed') /\ pc'[t] = "idle"
      BY <1>4, <2>2, <2>4
    <3>2. ~Owns(t)
      <4>1. SUFFICES ASSUME Owns(t) PROVE FALSE
        OBVIOUS
      <4>2. mutex = m
        BY <1>1, <3>1, <4>1 DEF Owns, Twice3
      <4>3. QED
        BY <1>5, <2>1, <4>1, <4>2
    <3>3. initialized
      BY <3>1 DEF CreatedInv, Writing
    <3>4. QED
      BY <1>2, <2>4, <3>1, <3>2, <3>3
  <2>5. QED
    BY <2>3, <2>4
<1>10. QED
  BY <1>7, <1>8, <1>9 DEF TwiceInv, Twice1, Twice2, Twice3

LEMMA DieTwice ==
  ASSUME TypeInv, NEW t \in Threads, Die(t)
  PROVE  TwiceInv'
<1>1. Twice1 /\ Twice2 /\ Twice3
  BY TwiceParts DEF TypeInv
<1>2. /\ UNCHANGED <<mutex, waits, initialized, failed>>
      /\ \A u \in Threads : u # t => pc'[u] = pc[u]
      /\ pc'[t] = "dead"
  BY DEF Die, context, TypeInv, TypeOK
<1>3. \A m \in Threads : \/ mutexes[m].owner # t /\ mutexes'[m] = mutexes[m]
                         \/ mutexes'[m].owner = None /\ mutexes'[m].depth = 0
  BY DEF Die, Abandoned
<1>4. \A u \in Threads : u # None
  BY ContextAssumption
<1>5. Twice1'
  BY <1>1, <1>3 DEF Twice1
<1>6. Twice2'
  BY <1>1, <1>2, <1>3 DEF Twice2
<1>7. Twice3'
  <2>1. mutex # None => mutex \in Threads
    BY DEF TypeInv, TypeOK, Handle
  <2>2. QED
    BY <1>1, <1>2, <1>3, <1>4, <2>1 DEF Twice3
<1>8. QED
  BY <1>5, <1>6, <1>7 DEF TwiceInv, Twice1, Twice2, Twice3

LEMMA StepTwice ==
  ASSUME TypeInv, CreatedInv, NEW t \in Threads, Call(t) \/ Step(t) \/ Die(t)
  PROVE  TwiceInv'
BY QuietTwice, CreateTwice, BeginWaitTwice, AcquireTwice, UnlockTwice, DieTwice DEF Step

-----------------------------------------------------------------------------
(* Who creates the context. *)

LEMMA CallCreated ==
  ASSUME TypeInv, CreatedInv, NEW t \in Threads, Call(t)
  PROVE  CreatedInv'
<1>1. /\ UNCHANGED <<initialized, mutex, file, created>>
      /\ pc[t] = "idle"
      /\ pc'[t] \in {"create", "idle", "lock"}
      /\ pc'[t] = "create" <=> ~initialized
      /\ \A u \in Threads : u # t => pc'[u] = pc[u]
  BY DEF Call, Goto, TypeInv, TypeOK, context
<1>2. created \subseteq Threads
  BY DEF TypeInv, TypeOK
<1>3. t \notin created \/ initialized
  BY <1>1 DEF CreatedInv, Creating
<1>4. QED
  BY <1>1, <1>2, <1>3 DEF CreatedInv, Creating, Writing

LEMMA CreateCreated ==
  ASSUME TypeInv, CreatedInv, NEW t \in Threads, Create(t)
  PROVE  CreatedInv'
<1>1. /\ created' = created \cup {t} /\ UNCHANGED file
      /\ pc[t] = "create"
      /\ \A u \in Threads : u # t => pc'[u] = pc[u]
      /\ \/ mutex' = t /\ pc'[t] = "open" /\ UNCHANGED initialized
         \/ mutex' = None /\ pc'[t] = "idle" /\ initialized'
  BY DEF Create, Goto, TypeInv, TypeOK
<1>2. created \subseteq Threads
  BY DEF TypeInv, TypeOK
<1>3. QED
  BY <1>1, <1>2 DEF CreatedInv, Creating, Writing

LEMMA StepCreated ==
  ASSUME TypeInv, CreatedInv, NEW t \in Threads, Step(t), ~Create(t)
  PROVE  CreatedInv'
<1>1. /\ UNCHANGED <<mutex, created>>
      /\ \A u \in Threads : u # t => pc'[u] = pc[u]
      /\ pc[t] \in Creating \cup Writing
      /\ pc'[t] # "create"
  BY DEF Step, Open, OpenFails, WriteStart, WriteInfo, UnlockInit, Publish, BeginWait,
         Acquire, AcquireAbandoned, TimeOut, WriteRecord, Release, Goto, TypeInv, TypeOK,
         context, Creating, Writing
<1>2. created \subseteq Threads
  BY DEF TypeInv, TypeOK
<1>3. CASE OpenFails(t) \/ Publish(t)
  <2>1. /\ pc[t] \in Creating
        /\ initialized'
        /\ pc'[t] \in {"idle", "lock"}
        /\ file' \in {file, None}
    BY <1>3 DEF OpenFails, Publish, Goto, TypeInv, TypeOK, Creating
  <2>2. QED
    BY <1>1, <1>2, <2>1 DEF CreatedInv, Creating, Writing
<1>4. CASE Open(t) \/ WriteStart(t) \/ WriteInfo(t) \/ UnlockInit(t)
  <2>1. /\ UNCHANGED initialized
        /\ pc[t] \in Creating /\ pc'[t] \in Creating
        /\ file' \in {file, t}
    BY <1>4 DEF Open, WriteStart, WriteInfo, UnlockInit, Goto, TypeInv, TypeOK, Creating, context
  <2>2. QED
    BY <1>1, <1>2, <2>1 DEF CreatedInv, Creating, Writing
<1>5. CASE \/ BeginWait(t) \/ Acquire(t) \/ AcquireAbandoned(t) \/ TimeOut(t) \/ WriteRecord(t)
           \/ Release(t)
  <2>1. /\ UNCHANGED <<initialized, file>>
        /\ pc[t] \in Writing /\ pc'[t] \in Writing \cup {"idle"}
    BY <1>5 DEF BeginWait, Acquire, AcquireAbandoned, TimeOut, WriteRecord, Release, Goto,
                TypeInv, TypeOK, Writing, context
  <2>2. QED
    BY <1>1, <1>2, <2>1 DEF CreatedInv, Creating, Writing
<1>6. QED
  BY <1>3, <1>4, <1>5 DEF Step

LEMMA DieCreated ==
  ASSUME TypeInv, CreatedInv, NEW t \in Threads, Die(t)
  PROVE  CreatedInv'
<1>1. /\ UNCHANGED <<initialized, mutex, file, created>>
      /\ pc'[t] = "dead"
      /\ \A u \in Threads : u # t => pc'[u] = pc[u]
  BY DEF Die, TypeInv, TypeOK, context
<1>2. created \subseteq Threads
  BY DEF TypeInv, TypeOK
<1>3. QED
  BY <1>1, <1>2 DEF CreatedInv, Creating, Writing

\* Between them the steps keep the types, and who has created the context.
LEMMA StepBase ==
  ASSUME TypeInv, CreatedInv, NEW t \in Threads, Call(t) \/ Step(t) \/ Die(t)
  PROVE  TypeInv' /\ CreatedInv'
<1>1. TypeInv'
  BY StepType, StepTwice, StepCallInv DEF TypeInv
<1>2. CreatedInv'
  BY CallCreated, CreateCreated, StepCreated, DieCreated
<1>3. QED
  BY <1>1, <1>2

-----------------------------------------------------------------------------
(* The mutex of a context that one thread has created. *)

LEMMA AloneBefore ==
  ASSUME TypeInv, NEW t \in Threads, Call(t) \/ Step(t) \/ Die(t), Alone'
  PROVE  Alone
<1>1. created \subseteq created'
  BY DEF Call, Die, Step, Create, Open, OpenFails, WriteStart, WriteInfo, UnlockInit, Publish,
         BeginWait, Acquire, AcquireAbandoned, TimeOut, WriteRecord, Release
<1>2. QED
  BY <1>1 DEF Alone

\* Whoever creates the context alone is the first to do anything.
LEMMA FirstOfAll ==
  ASSUME TypeInv, CreatedInv, NEW t \in Threads, Create(t), Alone'
  PROVE  /\ created = {} /\ ~initialized /\ mutex = None /\ file = None
         /\ \A u \in Threads : pc[u] \notin Creating \cup Writing /\ ~InCriticalSection(u)
<1>1. t \in created' /\ t \notin created /\ created \subseteq created'
  BY DEF Create, CreatedInv
<1>2. created = {}
  BY <1>1 DEF Alone
<1>3. ~initialized /\ mutex = None /\ file = None
  BY <1>2 DEF CreatedInv
<1>4. \A u \in Threads : pc[u] \notin Creating \cup Writing
  BY <1>2, <1>3 DEF CreatedInv
<1>5. QED
  BY <1>2, <1>3, <1>4 DEF InCriticalSection, Creating, Writing

\* Steps that leave alone who has which mutex.
LEMMA QuietSteps ==
  ASSUME TypeInv, NEW t \in Threads,
         \/ Call(t) \/ Open(t) \/ WriteStart(t) \/ WriteInfo(t) \/ Publish(t) \/ BeginWait(t)
         \/ TimeOut(t) \/ WriteRecord(t)
  PROVE  /\ UNCHANGED <<mutex, mutexes, created, deaths>>
         /\ \A u \in Threads : u # t => pc'[u] = pc[u] /\ waits'[u] = waits[u]
         /\ InCriticalSection(t)' <=> InCriticalSection(t)
         /\ pc'[t] \in {"wait", "record", "release"} =>
              \/ waits'[t] = mutex
              \/ pc[t] \in {"record", "release"} /\ waits'[t] = waits[t]
<1>1. UNCHANGED <<mutex, mutexes, created, deaths>>
  BY DEF Call, Open, WriteStart, WriteInfo, Publish, BeginWait, TimeOut, WriteRecord, Goto, context
<1>2. \A u \in Threads : u # t => pc'[u] = pc[u] /\ waits'[u] = waits[u]
  BY DEF Call, Open, WriteStart, WriteInfo, Publish, BeginWait, TimeOut, WriteRecord, Goto,
         TypeInv, TypeOK
<1>3. InCriticalSection(t)' <=> InCriticalSection(t)
  BY DEF Call, Open, WriteStart, WriteInfo, Publish, BeginWait, TimeOut, WriteRecord, Goto,
         TypeInv, TypeOK, InCriticalSection
<1>4. pc'[t] \in {"wait", "record", "release"} =>
        \/ waits'[t] = mutex
        \/ pc[t] \in {"record", "release"} /\ waits'[t] = waits[t]
  BY DEF Call, Open, WriteStart, WriteInfo, Publish, BeginWait, TimeOut, WriteRecord, Goto,
         TypeInv, TypeOK
<1>5. QED
  BY <1>1, <1>2, <1>3, <1>4

LEMMA StepOwner ==
  ASSUME TypeInv, CreatedInv, OwnerInv, NEW t \in Threads, Call(t) \/ Step(t) \/ Die(t)
  PROVE  OwnerInv'
<1> SUFFICES ASSUME Alone', NEW u \in Threads
             PROVE  /\ pc'[u] \in {"wait", "record", "release"} => waits'[u] = mutex'
                    /\ InCriticalSection(u)' => mutex' # None /\ mutexes'[mutex'].owner = u
  BY DEF OwnerInv, InCriticalSection
<1>1. \A v \in Threads :
        /\ pc[v] \in {"wait", "record", "release"} => waits[v] = mutex
        /\ InCriticalSection(v) => mutex # None /\ mutexes[mutex].owner = v
  BY AloneBefore DEF OwnerInv
<1>2. mutex \in Threads \cup {None} /\ \A v \in Threads : v # None
  BY ContextAssumption DEF TypeInv, TypeOK, Handle
<1>3. CASE \/ Call(t) \/ Open(t) \/ WriteStart(t) \/ WriteInfo(t) \/ Publish(t) \/ BeginWait(t)
           \/ TimeOut(t) \/ WriteRecord(t)
  BY <1>1, <1>3, QuietSteps DEF InCriticalSection
<1>4. CASE Create(t)
  <2>1. pc[u] \notin Creating \cup Writing
    BY <1>4, FirstOfAll
  <2>2. CASE u # t
    BY <1>4, <2>1, <2>2 DEF Create, Goto, TypeInv, TypeOK, InCriticalSection, Creating, Writing
  <2>3. CASE u = t
    <3>1. \/ mutex' = t /\ mutexes' = [mutexes EXCEPT ![t] = Owned(t, 1)] /\ pc'[t] = "open"
          \/ pc'[t] = "idle"
      BY <1>4 DEF Create, Goto, TypeInv, TypeOK
    <3>2. mutex' = t /\ pc'[t] = "open" => mutexes'[t].owner = t
      BY <3>1 DEF TypeInv, TypeOK, Owned
    <3>3. QED
      BY <1>2, <2>3, <3>1, <3>2 DEF InCriticalSection
  <2>4. QED
    BY <2>2, <2>3
<1>5. CASE Acquire(t) \/ AcquireAbandoned(t)
  <2>1. /\ waits[t] \in Threads /\ mutexes[waits[t]].owner \in {None, t}
        /\ mutexes'[waits[t]].owner = t
        /\ \A v \in Threads : v # t => pc'[v] = pc[v]
        /\ pc[t] = "wait"
    BY <1>5, Acquired
  <2>2. UNCHANGED <<mutex, waits>>
    BY <1>5 DEF Acquire, AcquireAbandoned, context
  <2>3. waits[t] = mutex
    BY <1>1, <2>1
  <2>4. u # t => ~InCriticalSection(u)
    BY <1>1, <1>2, <2>1, <2>3
  <2>5. InCriticalSection(u)' => u = t
    BY <2>1, <2>4 DEF InCriticalSection
  <2>6. pc'[u] \in {"wait", "record", "release"} => waits[u] = mutex
    BY <1>1, <2>1, <2>3
  <2>7. QED
    BY <1>2, <2>1, <2>2, <2>3, <2>5, <2>6
<1>6. CASE OpenFails(t) \/ UnlockInit(t) \/ Release(t)
  <2>1. /\ UNCHANGED <<mutex, waits>>
        /\ \A v \in Threads : v # t => pc'[v] = pc[v]
        /\ pc'[t] \in {"idle", "publish"}
        /\ InCriticalSection(t)
    BY <1>6 DEF OpenFails, UnlockInit, Release, Goto, TypeInv, TypeOK, InCriticalSection, context
  <2>2. ~InCriticalSection(u)'
    BY <1>1, <2>1 DEF InCriticalSection
  <2>3. QED
    BY <1>1, <2>1, <2>2
<1>7. CASE Die(t)
  <2>1. /\ UNCHANGED <<mutex, waits>>
        /\ \A v \in Threads : v # t => pc'[v] = pc[v]
        /\ pc'[t] = "dead"
        /\ \A m \in Threads : mutexes[m].owner # t => mutexes'[m] = mutexes[m]
    BY <1>7 DEF Die, TypeInv, TypeOK, context
  <2>2. QED
    BY <1>1, <1>2, <2>1 DEF InCriticalSection
<1>8. QED
  BY <1>3, <1>4, <1>5, <1>6, <1>7 DEF Step

LEMMA StepRelease ==
  ASSUME TypeInv, CreatedInv, OwnerInv, ReleaseInv, NEW t \in Threads, Call(t) \/ Step(t) \/ Die(t)
  PROVE  ReleaseInv'
<1> SUFFICES ASSUME deaths' = 0
             PROVE  /\ \A m \in Threads : ~mutexes'[m].abandoned
                    /\ Alone' => \A m \in Threads : mutexes'[m].owner # None =>
                         /\ mutexes'[m].depth = 1
                         /\ mutex' = m
                         /\ InCriticalSection(mutexes[m].owner)'
  BY DEF ReleaseInv, InCriticalSection
<1>1. deaths = 0 /\ ~Die(t)
  BY DEF Die, TypeInv, TypeOK, Call, Step, Create, Open, OpenFails, WriteStart, WriteInfo,
         UnlockInit, Publish, BeginWait, Acquire, AcquireAbandoned, TimeOut, WriteRecord, Release,
         Goto
<1>2. \A m \in Threads : ~mutexes[m].abandoned
  BY <1>1 DEF ReleaseInv
<1>3. Alone' => Alone /\ \A m \in Threads : mutexes[m].owner # None =>
                   mutexes[m].depth = 1 /\ mutex = m /\ InCriticalSection(mutexes[m].owner)
  BY <1>1, AloneBefore DEF ReleaseInv
<1>4. Alone' => \A u \in Threads :
        /\ pc[u] \in {"wait", "record", "release"} => waits[u] = mutex
        /\ InCriticalSection(u) => mutex # None /\ mutexes[mutex].owner = u
  BY AloneBefore DEF OwnerInv
<1>5. /\ mutex \in Threads \cup {None}
      /\ \A u \in Threads : u # None
      /\ \A m \in Threads : mutexes[m].owner \in Threads \cup {None}
      /\ \A m \in Threads : mutexes[m].owner = None <=> mutexes[m].depth = 0
  BY ContextAssumption, MutexFields DEF TypeInv, TypeOK, TwiceInv, Handle
<1>6. CASE \/ Call(t) \/ Open(t) \/ WriteStart(t) \/ WriteInfo(t) \/ Publish(t) \/ BeginWait(t)
           \/ TimeOut(t) \/ WriteRecord(t)
  <2>1. /\ UNCHANGED <<mutex, mutexes>>
        /\ \A u \in Threads : u # t => pc'[u] = pc[u]
        /\ InCriticalSection(t)' <=> InCriticalSection(t)
    BY <1>6, QuietSteps
  <2>2. \A u \in Threads : InCriticalSection(u)' <=> InCriticalSection(u)
    BY <2>1 DEF InCriticalSection
  <2>3. \A m \in Threads : mutexes'[m].owner # None =>
          (InCriticalSection(mutexes[m].owner)' <=> InCriticalSection(mutexes[m].owner))
    BY <1>5, <2>1, <2>2 DEF InCriticalSection
  <2>4. QED
    BY <1>2, <1>3, <2>1, <2>3
<1>7. CASE Create(t)
  <2>1. Alone' => \A m \in Threads : mutexes[m].owner = None
    BY <1>3, <1>5, <1>7, FirstOfAll
  <2>2. CASE mutex' = t /\ mutexes' = [mutexes EXCEPT ![t] = Owned(t, 1)] /\ Goto(t, "open")
    <3>1. /\ mutexes'[t].owner = t /\ mutexes'[t].depth = 1 /\ ~mutexes'[t].abandoned
          /\ \A m \in Threads : m # t => mutexes'[m] = mutexes[m]
      BY <2>2 DEF TypeInv, TypeOK, Owned
    <3>2. InCriticalSection(t)'
      BY <2>2 DEF Goto, TypeInv, TypeOK, InCriticalSection
    <3>3. InCriticalSection(mutexes[t].owner)'
      BY <3>1, <3>2 DEF InCriticalSection
    <3>4. QED
      BY <1>2, <2>1, <2>2, <3>1, <3>3
  <2>3. CASE mutex' = None /\ UNCHANGED mutexes
    BY <1>2, <2>1, <2>3
  <2>4. QED
    BY <1>7, <2>2, <2>3 DEF Create
<1>8. CASE Acquire(t) \/ AcquireAbandoned(t)
  <2>1. /\ waits[t] \in Threads /\ mutexes[waits[t]].owner \in {None, t}
        /\ mutexes'[waits[t]].owner = t
        /\ \A m \in Threads : m # waits[t] => mutexes'[m] = mutexes[m]
        /\ pc[t] = "wait" /\ ~mutexes'[waits[t]].abandoned
    BY <1>8, Acquired
  <2>2. UNCHANGED mutex /\ Acquire(t)
    BY <1>2, <1>8, <2>1 DEF Acquire, AcquireAbandoned, context
  <2>3. pc'[t] = "record" /\ mutexes'[waits[t]].depth = mutexes[waits[t]].depth + 1
    <3>1. ~AcquireAbandoned(t)
      BY <2>2 DEF Acquire, AcquireAbandoned
    <3>2. QED
      BY <2>2, <3>1, Acquired
  <2>4. ASSUME Alone'
        PROVE  waits[t] = mutex /\ mutexes[mutex].owner = None /\ mutexes[mutex].depth = 0
    BY <1>3, <1>4, <1>5, <2>1, <2>4 DEF InCriticalSection
  <2>5. \A m \in Threads : m = waits[t] => InCriticalSection(mutexes[m].owner)'
    BY <2>1, <2>3 DEF InCriticalSection
  <2>6. \A m \in Threads : ~mutexes'[m].abandoned
    BY <1>2, <2>1
  <2>7. ASSUME Alone', NEW m \in Threads, mutexes'[m].owner # None
        PROVE  m = mutex /\ mutexes'[m].depth = 1 /\ InCriticalSection(mutexes[m].owner)'
    <3>1. m = mutex
      BY <1>3, <2>1, <2>4, <2>7
    <3>2. mutexes'[m].depth = 1
      BY <2>3, <2>4, <2>7, <3>1
    <3>3. QED
      BY <2>4, <2>5, <2>7, <3>1, <3>2
  <2>8. QED
    BY <2>2, <2>6, <2>7
<1>9. CASE OpenFails(t) \/ UnlockInit(t) \/ Release(t)
  <2>1. Unlock(t) /\ UNCHANGED mutex /\ InCriticalSection(t)
    BY <1>9 DEF OpenFails, UnlockInit, Release, InCriticalSection, context
  <2>2. /\ \A m \in Threads : mutexes'[m].owner \in {None, mutexes[m].owner}
        /\ \A m \in Threads : mutexes'[m].abandoned => mutexes[m].abandoned
        /\ Owns(t) /\ mutexes[mutex].depth = 1 => mutexes'[mutex] = Free
    BY <2>1, Unlocked
  <2>3. ASSUME Alone' PROVE mutexes'[mutex] = Free /\ mutex \in Threads
    <3>1. mutex \in Threads /\ mutexes[mutex].owner = t /\ mutexes[mutex].depth = 1
      BY <1>3, <1>4, <1>5, <2>1, <2>3
    <3>2. QED
      BY <1>5, <2>2, <3>1 DEF Owns
  <2>4. ASSUME Alone', NEW m \in Threads PROVE mutexes'[m].owner = None
    BY <1>3, <2>2, <2>3, <2>4 DEF Free
  <2>5. QED
    BY <1>2, <2>2, <2>4
<1>10. QED
  BY <1>1, <1>6, <1>7, <1>8, <1>9 DEF Step

-----------------------------------------------------------------------------
(* The log of a context that one thread has created. *)

\* Steps that write nothing and open nothing.
LEMMA QuietLog ==
  ASSUME TypeInv, CreatedInv, Started, NEW t \in Threads,
         \/ Call(t) \/ UnlockInit(t) \/ BeginWait(t) \/ Acquire(t) \/ AcquireAbandoned(t)
         \/ Release(t) \/ Die(t)
  PROVE  Started'
<1>1. UNCHANGED <<file, name, at, disk, initialized>>
  BY DEF Call, UnlockInit, BeginWait, Acquire, AcquireAbandoned, Release, Die, context, logs
<1>2. \A u \in Threads : u # t => pc'[u] = pc[u]
  BY DEF Call, UnlockInit, BeginWait, Acquire, AcquireAbandoned, Release, Die, Goto, TypeInv, TypeOK
<1>3. /\ pc[t] \notin {"start", "info", "dead"} \/ pc'[t] = "dead"
      /\ pc'[t] \notin {"open", "start", "info"}
      /\ pc'[t] \in Creating => pc[t] \in Creating
      /\ pc'[t] = "create" => pc[t] = "idle"
      /\ pc'[t] = "idle" => pc[t] \in {"idle"} \cup Writing
  BY DEF Call, UnlockInit, BeginWait, Acquire, AcquireAbandoned, Release, Die, Goto,
         TypeInv, TypeOK, Creating, Writing
<1>4. pc[t] \in Writing => initialized
  BY DEF CreatedInv
<1>5. file # None => file \in Threads
  BY DEF TypeInv, TypeOK, Handle
<1>6. /\ \A u \in Threads : pc'[u] \in Creating => ~initialized
      /\ \A u \in Threads : pc'[u] = "open" => file = None
      /\ \A u \in Threads : pc'[u] \in {"start", "info"} => file = u
  BY <1>2, <1>3 DEF Started, Creating
<1>7. file # None =>
        /\ pc'[file] \notin {"idle", "create", "open"} \/ initialized
        /\ pc'[file] = "start" => at[file] = 0
        /\ pc'[file] = "info" => at[file] = 1
        /\ pc'[file] \notin {"start", "info", "dead"} => at[file] >= 2
  BY <1>2, <1>3, <1>4, <1>5 DEF Started, Writing
<1>8. WellFormed(disk[name[file]])' <=> WellFormed(disk[name[file]])
  BY <1>1 DEF WellFormed
<1>9. QED
  BY <1>1, <1>6, <1>7, <1>8 DEF Started

LEMMA CreateLog ==
  ASSUME TypeInv, CreatedInv, Started, NEW t \in Threads, Create(t), Alone', ~failed'
  PROVE  Started'
<1>1. /\ ~initialized /\ file = None
      /\ \A u \in Threads : pc[u] \notin Creating
  BY FirstOfAll
<1>2. UNCHANGED <<file, name, at, disk, initialized>> /\ Goto(t, "open")
  BY DEF Create, logs
<1>3. \A u \in Threads : pc'[u] = IF u = t THEN "open" ELSE pc[u]
  BY <1>2 DEF Goto, TypeInv, TypeOK
<1>4. QED
  BY <1>1, <1>2, <1>3 DEF Started, Creating

LEMMA OpenLog ==
  ASSUME TypeInv, CreatedInv, Started, Alone, NEW t \in Threads, Open(t)
  PROVE  Started'
<1>1. PICK n \in Names :
        name' = [name EXCEPT ![t] = n] /\ disk' = [disk EXCEPT ![n] = <<>>]
  BY DEF Open
<1>2. pc[t] = "open" /\ file' = t /\ UNCHANGED <<initialized, at>> /\ Goto(t, "start")
  BY DEF Open
<1>3. file = None /\ ~initialized
  BY <1>2 DEF Started, Creating
<1>4. \A u \in Threads : pc'[u] = IF u = t THEN "start" ELSE pc[u]
  BY <1>2 DEF Goto, TypeInv, TypeOK
<1>5. \A u \in Threads : pc[u] \in Creating => u = t
  BY <1>2 DEF CreatedInv, Creating, Alone
<1>6. name'[t] = n /\ \A k \in Names : disk'[k] = <<>>
  BY <1>1, <1>3 DEF TypeInv, TypeOK, Started
<1>7. \A u \in Threads : at[u] = 0 /\ u # None
  BY <1>3, ContextAssumption DEF Started
<1>8. Len(disk'[name'[t]]) = 0
  BY <1>6
<1>9. WellFormed(disk[name[file]])'
  BY <1>2, <1>6 DEF WellFormed
<1>10. QED
  BY <1>2, <1>3, <1>4, <1>5, <1>6, <1>7, <1>8, <1>9 DEF Started, Creating

LEMMA PublishLog ==
  ASSUME TypeInv, CreatedInv, Started, Alone, NEW t \in Threads, Publish(t)
  PROVE  Started'
<1>1. pc[t] = "publish" /\ UNCHANGED <<file, name, at, disk>> /\ initialized' /\ Goto(t, "lock")
  BY DEF Publish, logs
<1>2. \A u \in Threads : pc'[u] = IF u = t THEN "lock" ELSE pc[u]
  BY <1>1 DEF Goto, TypeInv, TypeOK
<1>3. t \in created /\ \A u \in Threads : pc[u] \in Creating => u = t
  BY <1>1 DEF CreatedInv, Creating, Alone
<1>4. file # None => file = t
  BY <1>3 DEF CreatedInv, Alone
<1>5. file # None => at[file] >= 2
  BY <1>1, <1>4 DEF Started
<1>6. WellFormed(disk[name[file]])' <=> WellFormed(disk[name[file]])
  BY <1>1 DEF WellFormed
<1>7. \A u \in Threads : /\ pc'[u] \notin Creating
                         /\ pc'[u] # "open" /\ pc'[u] \notin {"start", "info"}
  BY <1>2, <1>3 DEF Creating
<1>8. QED
  BY <1>1, <1>4, <1>5, <1>6, <1>7 DEF Started

\* What may come next at the end of a log.
LEMMA WellFormedGrows ==
  ASSUME NEW s \in Seq(Block), WellFormed(s), NEW b \in Block,
         Len(s) = 0 => b = Start,
         Len(s) = 1 => b = Info,
         Len(s) >= 2 => b[1] = "record"
  PROVE  WellFormed(WriteAt(s, Len(s), b))
<1> DEFINE r == WriteAt(s, Len(s), b)
<1>1. Len(s) \in Nat
  BY LenProperties
<1>2. Len(r) = Len(s) + 1 /\ r[Len(s) + 1] = b /\ \A i \in 1 .. Len(s) : r[i] = s[i]
  BY WriteAtEnd
<1> HIDE DEF r
<1>3. Len(r) >= 1 /\ r[1] = Start
  <2>1. CASE Len(s) = 0
    <3>1. Len(r) = 1 /\ r[1] = b
      BY <1>2, <2>1
    <3>2. QED
      BY <2>1, <3>1
  <2>2. CASE Len(s) >= 1
    <3>1. s[1] = Start
      BY <2>2 DEF WellFormed
    <3>2. 1 \in 1 .. Len(s)
      BY <1>1, <2>2
    <3>3. QED
      BY <1>1, <1>2, <3>1, <3>2
  <2>3. QED
    BY <1>1, <2>1, <2>2
<1>4. ASSUME Len(r) >= 2 PROVE r[2] = Info
  <2>1. CASE Len(s) = 1
    <3>1. Len(s) + 1 = 2
      BY <2>1
    <3>2. QED
      BY <1>2, <2>1, <3>1
  <2>2. CASE Len(s) >= 2
    <3>1. s[2] = Info
      BY <2>2 DEF WellFormed
    <3>2. 2 \in 1 .. Len(s)
      BY <1>1, <2>2
    <3>3. QED
      BY <1>2, <3>1, <3>2
  <2>3. Len(s) = 1 \/ Len(s) >= 2
    <3>1. Len(r) = Len(s) + 1
      BY <1>2
    <3>2. \A k \in Nat : k + 1 >= 2 => k = 1 \/ k >= 2
      OBVIOUS
    <3>3. Len(s) + 1 >= 2
      BY <1>4, <3>1, Zenon
    <3>4. QED
      BY <1>1, <3>2, <3>3, Zenon
  <2>4. QED
    BY <2>1, <2>2, <2>3
<1>5. ASSUME NEW i \in 3 .. Len(r) PROVE r[i][1] = "record"
  <2>1. CASE i = Len(s) + 1
    <3>1. b[1] = "record"
      BY <1>1, <2>1
    <3>2. QED
      BY <1>2, <2>1, <3>1
  <2>2. CASE i # Len(s) + 1
    <3>1. i \in 3 .. Len(s) /\ i \in 1 .. Len(s)
      BY <1>1, <1>2, <2>2
    <3>2. s[i][1] = "record"
      BY <3>1 DEF WellFormed
    <3>3. QED
      BY <1>2, <3>1, <3>2
  <2>3. QED
    BY <2>1, <2>2
<1>6. WellFormed(r)
  BY <1>3, <1>4, <1>5 DEF WellFormed
<1>7. QED
  BY <1>6 DEF r

LEMMA WriteLog ==
  ASSUME TypeInv, Started, NEW b \in Block, Write(b), ~failed',
         at[file] = 0 => b = Start,
         at[file] = 1 => b = Info,
         at[file] >= 2 => b[1] = "record"
  PROVE  /\ file \in Threads /\ file # None /\ UNCHANGED name
         /\ name[file] \in Names
         /\ at[file] \in Nat /\ at'[file] = at[file] + 1
         /\ \A u \in Threads : u # file => at'[u] = at[u]
         /\ \A n \in Names : n # name[file] => disk'[n] = disk[n]
         /\ Len(disk'[name[file]]) = at'[file]
         /\ WellFormed(disk'[name[file]])
<1>1. /\ file # None
      /\ disk' = [disk EXCEPT ![name[file]] = WriteAt(@, at[file], b)]
      /\ at' = [at EXCEPT ![file] = @ + 1]
      /\ UNCHANGED <<failed, name>>
  BY DEF Write
<1>2. /\ file \in Threads /\ at[file] \in Nat
      /\ name[file] \in Names
      /\ disk[name[file]] \in Seq(Block)
      /\ Len(disk[name[file]]) = at[file]
      /\ WellFormed(disk[name[file]])
  BY <1>1 DEF TypeInv, TypeOK, Started, Handle
<1> DEFINE s == disk[name[file]]
<1>3. disk'[name[file]] = WriteAt(s, Len(s), b)
      /\ \A n \in Names : n # name[file] => disk'[n] = disk[n]
  BY <1>1, <1>2 DEF TypeInv, TypeOK
<1>4. at'[file] = at[file] + 1 /\ \A u \in Threads : u # file => at'[u] = at[u]
  BY <1>1, <1>2 DEF TypeInv, TypeOK
<1>5. s \in Seq(Block) /\ Len(s) = at[file] /\ WellFormed(s)
  BY <1>2
<1> HIDE DEF s
<1>6. WellFormed(WriteAt(s, Len(s), b))
  BY <1>5, WellFormedGrows
<1>7. Len(WriteAt(s, Len(s), b)) = at[file] + 1
  BY <1>5, WriteAtEnd
<1>8. QED
  BY <1>1, <1>2, <1>3, <1>4, <1>6, <1>7

LEMMA WriteStepLog ==
  ASSUME TypeInv, CreatedInv, Started, ~failed', NEW t \in Threads,
         WriteStart(t) \/ WriteInfo(t) \/ WriteRecord(t)
  PROVE  Started'
<1>1. PICK b \in Block :
        /\ Write(b)
        /\ \/ pc[t] = "start" /\ b = Start /\ pc'[t] = "info"
           \/ pc[t] = "info" /\ b = Info /\ pc'[t] = "unlock"
           \/ pc[t] = "record" /\ b[1] = "record" /\ pc'[t] = "release"
  <2>1. CASE WriteStart(t)
    BY <2>1, Blocks DEF WriteStart, Goto, TypeInv, TypeOK
  <2>2. CASE WriteInfo(t)
    BY <2>2, Blocks DEF WriteInfo, Goto, TypeInv, TypeOK
  <2>3. CASE WriteRecord(t)
    <3>1. Record(t, calls[t]) \in Block /\ Write(Record(t, calls[t]))
      BY <2>3, Blocks DEF WriteRecord, TypeInv, CallInv
    <3>2. Record(t, calls[t])[1] = "record"
      BY DEF Record
    <3>3. pc[t] = "record" /\ pc'[t] = "release"
      BY <2>3 DEF WriteRecord, Goto, TypeInv, TypeOK
    <3>4. QED
      BY <3>1, <3>2, <3>3
  <2>4. QED
    BY <2>1, <2>2, <2>3
<1>2. /\ UNCHANGED <<initialized, file>>
      /\ \A u \in Threads : u # t => pc'[u] = pc[u]
  BY DEF WriteStart, WriteInfo, WriteRecord, Goto, TypeInv, TypeOK
<1>3. file # None
  BY <1>1 DEF Write
<1>4. /\ pc[t] = "start" => file = t /\ at[file] = 0
      /\ pc[t] = "info" => file = t /\ at[file] = 1
      /\ pc[t] = "record" => initialized /\ at[file] >= 2
  BY <1>3 DEF Started, CreatedInv, Writing
<1>5. /\ at[file] = 0 => b = Start
      /\ at[file] = 1 => b = Info
      /\ at[file] >= 2 => b[1] = "record"
  BY <1>1, <1>4
<1>6. /\ file \in Threads /\ UNCHANGED name
      /\ name[file] \in Names
      /\ at[file] \in Nat /\ at'[file] = at[file] + 1
      /\ \A u \in Threads : u # file => at'[u] = at[u]
      /\ \A n \in Names : n # name[file] => disk'[n] = disk[n]
      /\ Len(disk'[name[file]]) = at'[file]
      /\ WellFormed(disk'[name[file]])
  BY <1>1, <1>5, WriteLog
<1>7. /\ \A u \in Threads : pc'[u] \in Creating => ~initialized
      /\ \A u \in Threads : pc'[u] = "open" => file = None
      /\ \A u \in Threads : pc'[u] \in {"start", "info"} => file = u
  BY <1>1, <1>2, <1>4 DEF Started, Creating
<1>8. /\ \A n \in Names : disk'[n] # <<>> => n = name[file]
      /\ \A u \in Threads : u # file => at'[u] = 0
  BY <1>6 DEF Started
<1>9. /\ pc'[file] \notin {"idle", "create", "open"} \/ initialized
      /\ pc'[file] # "start"
      /\ pc'[file] = "info" => at'[file] = 1
      /\ pc'[file] \notin {"start", "info", "dead"} => at'[file] >= 2
      /\ initialized => at'[file] >= 2
  <2>1. CASE file = t
    BY <1>1, <1>3, <1>4, <1>6, <2>1 DEF Started
  <2>2. CASE file # t
    <3>1. pc[t] = "record" /\ pc'[file] = pc[file] /\ initialized /\ at[file] >= 2
      BY <1>1, <1>2, <1>4, <1>6, <2>2
    <3>2. QED
      BY <1>3, <1>6, <3>1 DEF Started
  <2>3. QED
    BY <2>1, <2>2
<1>10. WellFormed(disk[name[file]])'
  BY <1>2, <1>6 DEF WellFormed
<1>11. QED
  BY <1>2, <1>3, <1>6, <1>7, <1>8, <1>9, <1>10 DEF Started

\* Nothing takes "failed" back.
LEMMA StaysFailed ==
  ASSUME TypeInv, NEW t \in Threads, Call(t) \/ Step(t) \/ Die(t), ~failed'
  PROVE  ~failed
<1>1. failed \in BOOLEAN
  BY DEF TypeInv, TypeOK
<1>2. ASSUME Call(t) \/ Die(t) PROVE ~failed
  BY <1>2 DEF Call, Die, context
<1>3. ASSUME Step(t) PROVE ~failed
  <2>1. CASE WriteStart(t) \/ WriteInfo(t) \/ WriteRecord(t)
    BY <2>1 DEF WriteStart, WriteInfo, WriteRecord, Write
  <2>2. CASE Release(t)
    BY <1>1, <2>2 DEF Release
  <2>3. CASE Create(t) \/ Open(t)
    BY <2>3 DEF Create, Open
  <2>4. CASE UnlockInit(t) \/ Publish(t)
    BY <2>4 DEF UnlockInit, Publish, context
  <2>5. CASE BeginWait(t) \/ Acquire(t) \/ AcquireAbandoned(t)
    BY <2>5 DEF BeginWait, Acquire, AcquireAbandoned, context
  <2>6. CASE OpenFails(t) \/ TimeOut(t)
    BY <2>6 DEF OpenFails, TimeOut
  <2>7. QED
    BY <1>3, <2>1, <2>2, <2>3, <2>4, <2>5, <2>6 DEF Step
<1>4. QED
  BY <1>2, <1>3

LEMMA StepLog ==
  ASSUME TypeInv, CreatedInv, LogInv, NEW t \in Threads, Call(t) \/ Step(t) \/ Die(t)
  PROVE  LogInv'
<1> SUFFICES ASSUME Alone', ~failed' PROVE Started'
  BY DEF LogInv
<1>1. Alone
  BY AloneBefore
<1>2. ~failed /\ ~OpenFails(t) /\ ~TimeOut(t)
  BY StaysFailed DEF OpenFails, TimeOut
<1>3. Started
  BY <1>1, <1>2 DEF LogInv
<1>4. QED
  BY <1>1, <1>2, <1>3, QuietLog, CreateLog, OpenLog, PublishLog, WriteStepLog DEF Step

-----------------------------------------------------------------------------
(* The records of a thread. *)

LEMMA RecordFields ==
  \A t, k : Record(t, k)[2] = t /\ Record(t, k)[3] = k
BY DEF Record

\* A block that is not one of t adds nothing to the records of t.
LEMMA KeptByOthers ==
  ASSUME NEW s \in Seq(Block), NEW b \in Block, NEW t \in Threads, NEW n \in Nat,
         Kept(s, t, n), b[2] # t
  PROVE  Kept(WriteAt(s, Len(s), b), t, n)
<1> DEFINE r == WriteAt(s, Len(s), b)
<1>1. Len(s) \in Nat
  BY LenProperties
<1>2. Len(r) = Len(s) + 1 /\ r[Len(s) + 1] = b /\ \A i \in 1 .. Len(s) : r[i] = s[i]
  BY WriteAtEnd
<1> HIDE DEF r
<1>3. \A i \in 1 .. Len(r) : r[i][2] = t => i \in 1 .. Len(s) /\ r[i] = s[i]
  <2> SUFFICES ASSUME NEW i \in 1 .. Len(r), r[i][2] = t
               PROVE  i \in 1 .. Len(s)
    BY <1>2
  <2>1. i # Len(s) + 1
    BY <1>2
  <2>2. QED
    BY <1>1, <1>2, <2>1
<1>4. \A i \in 1 .. Len(s) : i \in 1 .. Len(r)
  BY <1>1, <1>2
<1>5. \A k \in 1 .. n : \E i \in 1 .. Len(r) : r[i] = Record(t, k)
  BY <1>2, <1>4 DEF Kept
<1>6. \A i \in 1 .. Len(r) : r[i][2] = t => \E k \in 1 .. n : r[i] = Record(t, k)
  BY <1>3 DEF Kept
<1>7. \A i, j \in 1 .. Len(r) : i < j /\ r[i][2] = t /\ r[j][2] = t => r[i][3] < r[j][3]
  BY <1>3 DEF Kept
<1>8. QED
  BY <1>5, <1>6, <1>7 DEF Kept, r

\* The next record of t at the end of the log.
LEMMA KeptByRecord ==
  ASSUME NEW s \in Seq(Block), NEW t \in Threads, NEW n \in Nat,
         Record(t, n + 1) \in Block, Kept(s, t, n)
  PROVE  Kept(WriteAt(s, Len(s), Record(t, n + 1)), t, n + 1)
<1> DEFINE b == Record(t, n + 1)
           r == WriteAt(s, Len(s), b)
<1>1. Len(s) \in Nat
  BY LenProperties
<1>2. Len(r) = Len(s) + 1 /\ r[Len(s) + 1] = b /\ \A i \in 1 .. Len(s) : r[i] = s[i]
  BY WriteAtEnd
<1>3. b[2] = t /\ b[3] = n + 1
  BY RecordFields
<1> HIDE DEF r
<1>4. \A i \in 1 .. Len(r) : i = Len(s) + 1 \/ i \in 1 .. Len(s)
  BY <1>1, <1>2
<1>5. Len(s) + 1 \in 1 .. Len(r) /\ \A i \in 1 .. Len(s) : i \in 1 .. Len(r)
  BY <1>1, <1>2
<1>6. \A k \in 1 .. n + 1 : \E i \in 1 .. Len(r) : r[i] = Record(t, k)
  <2> SUFFICES ASSUME NEW k \in 1 .. n + 1 PROVE \E i \in 1 .. Len(r) : r[i] = Record(t, k)
    OBVIOUS
  <2>1. CASE k = n + 1
    BY <1>2, <1>5, <2>1
  <2>2. CASE k \in 1 .. n
    BY <1>2, <1>5, <2>2 DEF Kept
  <2>3. QED
    BY <2>1, <2>2
<1>7. \A i \in 1 .. Len(s) : s[i][2] = t => s[i][3] < n + 1
  <2> SUFFICES ASSUME NEW i \in 1 .. Len(s), s[i][2] = t PROVE s[i][3] < n + 1
    OBVIOUS
  <2>1. PICK k \in 1 .. n : s[i] = Record(t, k)
    BY DEF Kept
  <2>2. s[i][3] = k
    BY <2>1, RecordFields
  <2>3. QED
    BY <2>2
<1>8. \A i \in 1 .. Len(r) : r[i][2] = t => \E k \in 1 .. n + 1 : r[i] = Record(t, k)
  <2> SUFFICES ASSUME NEW i \in 1 .. Len(r), r[i][2] = t
               PROVE  \E k \in 1 .. n + 1 : r[i] = Record(t, k)
    OBVIOUS
  <2>1. CASE i = Len(s) + 1
    BY <1>2, <2>1
  <2>2. CASE i \in 1 .. Len(s)
    <3>1. PICK k \in 1 .. n : s[i] = Record(t, k)
      BY <1>2, <2>2 DEF Kept
    <3>2. k \in 1 .. n + 1
      OBVIOUS
    <3>3. QED
      BY <1>2, <2>2, <3>1, <3>2
  <2>3. QED
    BY <1>4, <2>1, <2>2
<1>9. ASSUME NEW i \in 1 .. Len(r), NEW j \in 1 .. Len(r), i < j, r[i][2] = t, r[j][2] = t
      PROVE  r[i][3] < r[j][3]
  <2>1. i \in 1 .. Len(s) /\ r[i] = s[i]
    BY <1>1, <1>2, <1>9
  <2>2. CASE j = Len(s) + 1
    <3>1. r[j][3] = n + 1 /\ s[i][2] = t
      BY <1>2, <1>3, <1>9, <2>1, <2>2
    <3>2. QED
      BY <1>7, <2>1, <3>1
  <2>3. CASE j \in 1 .. Len(s)
    BY <1>2, <1>9, <2>1, <2>3 DEF Kept
  <2>4. QED
    BY <1>4, <2>2, <2>3
<1>10. Kept(r, t, n + 1)
  BY <1>6, <1>8, <1>9 DEF Kept
<1>11. QED
  BY <1>10 DEF r

\* What is written is the next record of the thread, or none of anybody.
LEMMA WriteHeld ==
  ASSUME TypeInv, CreatedInv, Started, HeldInv, Alone, deaths = 0, ~failed, ~failed',
         NEW t \in Threads, WriteStart(t) \/ WriteInfo(t) \/ WriteRecord(t)
  PROVE  HeldInv'
<1>1. PICK b \in Block :
        /\ Write(b)
        /\ \/ /\ b \in {Start, Info} /\ pc[t] \in {"start", "info"}
              /\ pc'[t] \in {"info", "unlock"}
           \/ /\ b = Record(t, calls[t]) /\ pc[t] = "record" /\ pc'[t] = "release"
              /\ calls[t] >= 1
  <2>1. CASE WriteStart(t) \/ WriteInfo(t)
    BY <2>1, Blocks DEF WriteStart, WriteInfo, Goto, TypeInv, TypeOK
  <2>2. CASE WriteRecord(t)
    BY <2>2, Blocks DEF WriteRecord, Goto, TypeInv, TypeOK, CallInv
  <2>3. QED
    BY <2>1, <2>2
<1>2. /\ UNCHANGED <<initialized, file, calls, created>>
      /\ \A u \in Threads : u # t => pc'[u] = pc[u]
  BY DEF WriteStart, WriteInfo, WriteRecord, Goto, TypeInv, TypeOK
<1>3. /\ file # None
      /\ disk' = [disk EXCEPT ![name[file]] = WriteAt(@, at[file], b)]
      /\ UNCHANGED name
  BY <1>1 DEF Write
<1> DEFINE s == disk[name[file]]
<1>4. name[file] \in Names /\ s \in Seq(Block) /\ Len(s) = at[file]
  BY <1>3 DEF Started, TypeInv, TypeOK
<1>5. disk'[name'[file']] = WriteAt(s, Len(s), b)
  BY <1>2, <1>3, <1>4 DEF TypeInv, TypeOK
<1>6. ASSUME NEW u \in Threads
      PROVE  Kept(s, u, Made(u)) /\ Made(u) \in Nat /\ calls[u] \in Nat
  <2>1. calls[u] \in Nat /\ (pc[u] \notin {"idle", "dead"} => calls[u] >= 1)
    BY DEF TypeInv, TypeOK, CallInv
  <2>2. Made(u) \in Nat
    BY <2>1 DEF HeldInv, Made
  <2>3. QED
    BY <1>3, <2>1, <2>2 DEF HeldInv
<1> HIDE DEF s
<1>7. ASSUME NEW u \in Threads, u # t
      PROVE  Kept(WriteAt(s, Len(s), b), u, Made(u)')
  <2>1. Made(u)' = Made(u)
    BY <1>2, <1>7 DEF Made
  <2>2. b[2] # u
    BY <1>1, <1>7, RecordFields, ContextAssumption DEF Start, Info
  <2>3. QED
    BY <1>4, <1>6, <2>1, <2>2, KeptByOthers
<1>8. Kept(WriteAt(s, Len(s), b), t, Made(t)')
  <2>1. CASE b \in {Start, Info} /\ pc[t] \in {"start", "info"} /\ pc'[t] \in {"info", "unlock"}
    <3>1. Made(t)' = Made(t)
      BY <1>2, <2>1 DEF Made
    <3>2. b[2] # t
      BY <2>1, ContextAssumption DEF Start, Info
    <3>3. QED
      BY <1>4, <1>6, <3>1, <3>2, KeptByOthers
  <2>2. CASE b = Record(t, calls[t]) /\ pc[t] = "record" /\ pc'[t] = "release"
    <3>1. Made(t) + 1 = calls[t] /\ Made(t)' = Made(t) + 1
      BY <1>2, <1>6, <2>2 DEF Made
    <3>2. QED
      BY <1>4, <1>6, <2>2, <3>1, KeptByRecord
  <2>3. QED
    BY <1>1, <2>1, <2>2
<1>9. /\ \A u \in Threads : pc'[u] # "dead"
      /\ ~initialized' => \A u \in Threads : calls'[u] = IF pc'[u] = "idle" THEN 0 ELSE 1
  BY <1>1, <1>2 DEF HeldInv
<1>10. QED
  BY <1>5, <1>7, <1>8, <1>9 DEF HeldInv

LEMMA StepHeld ==
  ASSUME TypeInv, CreatedInv, ReleaseInv, LogInv, HeldInv, NEW t \in Threads,
         Call(t) \/ Step(t) \/ Die(t)
  PROVE  HeldInv'
<1> SUFFICES ASSUME Alone', deaths' = 0, ~failed' PROVE HeldInv'
  BY DEF HeldInv
<1>1. Alone /\ ~failed /\ deaths = 0 /\ ~Die(t)
  <2>1. Alone
    BY AloneBefore
  <2>2. ~failed
    BY StaysFailed
  <2>3. deaths \in Nat
    BY ContextAssumption DEF TypeInv, TypeOK
  <2>4. ~Die(t)
    BY <2>3 DEF Die
  <2>5. deaths' = deaths
    BY <2>4 DEF Call, Step, Create, Open, OpenFails, WriteStart, WriteInfo, UnlockInit, Publish,
       BeginWait, Acquire, AcquireAbandoned, TimeOut, WriteRecord, Release, Goto
  <2>6. QED
    BY <2>1, <2>2, <2>4, <2>5
<1>2. Started
  BY <1>1 DEF LogInv
<1>3. CASE WriteStart(t) \/ WriteInfo(t) \/ WriteRecord(t)
  BY <1>1, <1>2, <1>3, WriteHeld
<1>4. CASE Call(t)
  <2>1. /\ UNCHANGED <<initialized, file, name, disk>>
        /\ pc[t] = "idle" /\ calls' = [calls EXCEPT ![t] = @ + 1]
        /\ pc'[t] = IF ~initialized THEN "create" ELSE "lock"
        /\ \A u \in Threads : u # t => pc'[u] = pc[u] /\ calls'[u] = calls[u]
    BY <1>1, <1>4 DEF Call, Goto, TypeInv, TypeOK, context, logs
  <2>2. calls[t] \in Nat /\ calls'[t] = calls[t] + 1
    BY <2>1 DEF TypeInv, TypeOK
  <2>3. \A u \in Threads : Made(u)' = Made(u)
    BY <2>1, <2>2 DEF Made
  <2>4. QED
    BY <1>1, <2>1, <2>2, <2>3 DEF HeldInv
<1>5. CASE Open(t)
  <2>1. /\ file' = t /\ UNCHANGED <<initialized, calls>> /\ ~initialized
        /\ pc[t] = "open" /\ pc'[t] = "start"
        /\ \A u \in Threads : u # t => pc'[u] = pc[u]
    BY <1>2, <1>5 DEF Open, Goto, TypeInv, TypeOK, Started, Creating
  <2>2. PICK n \in Names :
          name' = [name EXCEPT ![t] = n] /\ disk' = [disk EXCEPT ![n] = <<>>]
    BY <1>5 DEF Open
  <2>3. disk'[name'[file']] = <<>>
    BY <2>1, <2>2 DEF TypeInv, TypeOK
  <2>4. \A u \in Threads : calls'[u] = IF pc'[u] = "idle" THEN 0 ELSE 1
    BY <1>1, <2>1 DEF HeldInv
  <2>5. \A u \in Threads : pc'[u] # "release"
    BY <2>1 DEF CreatedInv, Writing
  <2>6. \A u \in Threads : Made(u)' = 0
    BY <2>4, <2>5 DEF Made
  <2>7. \A u \in Threads : Kept(<<>>, u, 0)
    BY DEF Kept
  <2>8. QED
    BY <1>1, <2>1, <2>3, <2>4, <2>6, <2>7 DEF HeldInv
<1>6. CASE Create(t)
  <2>1. /\ UNCHANGED <<initialized, file, name, disk, calls>>
        /\ pc[t] = "create" /\ pc'[t] = "open"
        /\ \A u \in Threads : u # t => pc'[u] = pc[u]
    BY <1>6 DEF Create, Goto, TypeInv, TypeOK, logs
  <2>2. \A u \in Threads : Made(u)' = Made(u)
    BY <2>1 DEF Made
  <2>3. QED
    BY <1>1, <2>1, <2>2 DEF HeldInv
<1>7. CASE UnlockInit(t) \/ Publish(t) \/ BeginWait(t) \/ Acquire(t) \/ Release(t)
  <2>1. /\ UNCHANGED <<file, name, disk, calls>> /\ (initialized => initialized')
        /\ pc[t] \notin {"idle", "dead"}
        /\ Release(t) => pc[t] = "release" /\ pc'[t] = "idle"
        /\ ~Release(t) => pc[t] # "release" /\ pc'[t] \notin {"idle", "release", "dead"}
        /\ \A u \in Threads : u # t => pc'[u] = pc[u]
    BY <1>7 DEF UnlockInit, Publish, BeginWait, Acquire, Release, Goto, TypeInv, TypeOK,
       context, logs
  <2>2. \A u \in Threads : Made(u)' = Made(u)
    BY <2>1 DEF Made
  <2>3. Release(t) => initialized
    BY <2>1 DEF CreatedInv, Writing
  <2>4. QED
    BY <1>1, <2>1, <2>2, <2>3 DEF HeldInv
<1>8. ~OpenFails(t) /\ ~TimeOut(t)
  BY DEF OpenFails, TimeOut
<1>9. ~AcquireAbandoned(t)
  BY <1>1 DEF ReleaseInv, AcquireAbandoned, Available, TypeInv, TypeOK, Handle
<1>10. QED
  BY <1>1, <1>3, <1>4, <1>5, <1>6, <1>7, <1>8, <1>9 DEF Step

-----------------------------------------------------------------------------
(* The invariant, and what follows. *)

LEMMA NextInv == IInv /\ [Next]_vars => IInv'
<1>1. ASSUME IInv, NEW t \in Threads, Call(t) \/ Step(t) \/ Die(t)
      PROVE  IInv'
  BY <1>1, StepBase, StepOwner, StepRelease, StepLog, StepHeld DEF IInv
<1>2. ASSUME IInv, UNCHANGED vars
      PROVE  IInv'
  <2>1. UNCHANGED <<initialized, failed, mutex, file, mutexes, name, at, disk, pc, waits, calls,
                    created, deaths>>
    BY <1>2 DEF vars, context, logs
  <2>2. TypeInv'
    BY <1>2, <2>1 DEF IInv, TypeInv, TypeOK, TwiceInv, CallInv
  <2>3. CreatedInv' /\ OwnerInv' /\ ReleaseInv'
    BY <1>2, <2>1 DEF IInv, CreatedInv, OwnerInv, ReleaseInv, Alone, InCriticalSection
  <2>4. LogInv'
    BY <1>2, <2>1 DEF IInv, LogInv, Started, Alone, WellFormed
  <2>5. HeldInv'
    BY <1>2, <2>1 DEF IInv, HeldInv, Alone, Kept, Made
  <2>6. QED
    BY <2>2, <2>3, <2>4, <2>5 DEF IInv
<1>3. QED
  BY <1>1, <1>2 DEF Next

LEMMA Invariant == Spec => []IInv
<1>1. QED
  BY InitInv, NextInv, PTL DEF Spec

\* The variables have their types: in particular no thread ever owns a mutex three
\* times, and no log has anything but blocks in it.
THEOREM TypeCorrect == Spec => []TypeOK
<1>1. IInv => TypeOK
  BY DEF IInv, TypeInv
<1>2. QED
  BY <1>1, Invariant, PTL

\* Where one thread makes the first call, at most one thread is between obtaining the
\* mutex and releasing it (lt_init, lt_write_block), whoever is terminated.
THEOREM WritersExclude == Spec => []OneWriter
<1>1. IInv => OneWriter
  BY DEF IInv, OwnerInv, OneWriter
<1>2. QED
  BY <1>1, Invariant, PTL

\* Where one thread makes the first call and none is terminated, who owns a mutex is
\* in lt_init or lt_write_block and about to release it.
THEOREM MutexComesBack == Spec => []MutexIsReleased
<1>1. IInv => MutexIsReleased
  BY DEF IInv, ReleaseInv, MutexIsReleased
<1>2. QED
  BY <1>1, Invariant, PTL

\* Where one thread makes the first call and nothing has failed, every log begins with
\* the header and the system information and goes on with records.
THEOREM LogsBeginRight == Spec => []HeadersFirst
<1>1. <<>> \in Seq(Block) /\ WellFormed(<<>>)
  BY DEF WellFormed
<1>2. IInv => HeadersFirst
  <2> SUFFICES ASSUME IInv, Alone, ~failed, NEW n \in Names
               PROVE  WellFormed(disk[n])
    BY DEF HeadersFirst, SystemInfoIncluded
  <2>1. CASE disk[n] = <<>>
    BY <1>1, <2>1
  <2>2. CASE disk[n] # <<>>
    BY <2>2 DEF IInv, LogInv, Started
  <2>3. QED
    BY <2>1, <2>2
<1>3. QED
  BY <1>2, Invariant, PTL

\* Where one thread makes the first call, none is terminated and nothing has failed,
\* the log holds the record of every call that has returned, once and in order.
THEOREM NoRecordIsLost == Spec => []NoSilentLoss
<1>1. IInv => NoSilentLoss
  <2> SUFFICES ASSUME IInv, Alone, deaths = 0, ~failed, file # None, NEW t \in Threads
               PROVE  Holds(disk[name[file]], t)
    BY DEF NoSilentLoss
  <2> DEFINE s == disk[name[file]]
  <2>1. Kept(s, t, Made(t))
    BY DEF IInv, HeldInv
  <2>2. Returned(t) \subseteq 1 .. Made(t) /\ 1 .. Made(t) \subseteq 1 .. calls[t]
    <3>1. calls[t] \in Nat
      BY DEF IInv, TypeInv, TypeOK
    <3>2. QED
      BY <3>1 DEF Returned, Made
  <2> HIDE DEF s
  <2>3. Holds(s, t)
    BY <2>1, <2>2 DEF Holds, Kept
  <2>4. QED
    BY <2>3 DEF s
<1>2. QED
  BY <1>1, Invariant, PTL
=============================================================================
