---------------------------- MODULE LtAcceptProofs ----------------------------
(***************************************************************************)
(* LtAccept, for any number of clients and any limit: the count of the     *)
(* server is the number of its threads that have counted themselves.       *)
(*                                                                         *)
(* A thread between its load and its store owns the mutex, so that what it *)
(* has loaded is still the count (MutexInv); and a connection that is      *)
(* accepted has no thread yet (ClientInv), so that starting one takes      *)
(* nobody off the count.                                                   *)
(***************************************************************************)
EXTENDS LtAccept, FiniteSetTheorems, TLAPS

-----------------------------------------------------------------------------
Changing == {"counting", "uncounting"}

MutexInv ==
  \A c \in Clients :
    pc[c] \in Changing => threadCountMutex = c /\ loaded[c] = threadCount

\* The connections not yet served are distinct, and have no thread.
ClientInv ==
  /\ rcv = "start" => client # None
  /\ client # None => pc[client] = "none"
  /\ \A i \in 1 .. Len(backlog) : backlog[i] # client /\ pc[backlog[i]] = "none"
  /\ \A i, j \in 1 .. Len(backlog) : backlog[i] = backlog[j] => i = j

IInv == TypeOK /\ MutexInv /\ ClientInv /\ CountIsThreads

-----------------------------------------------------------------------------
LEMMA InitInv == Init => IInv
<1> SUFFICES ASSUME Init PROVE IInv
  OBVIOUS
<1>1. TypeOK
  BY AcceptAssumption DEF Init, TypeOK, RcvPC, ThreadPC
<1>2. MutexInv /\ ClientInv
  BY DEF Init, MutexInv, ClientInv, Changing
<1>3. CountIsThreads
  <2>1. Counted = {}
    BY DEF Init, Counted
  <2>2. QED
    BY <2>1, FS_EmptySet DEF Init, CountIsThreads
<1>4. QED
  BY <1>1, <1>2, <1>3 DEF IInv

-----------------------------------------------------------------------------
(* Types. *)

LEMMA LoadType ==
  ASSUME TypeOK, NEW c \in Clients, NEW from, NEW to \in ThreadPC,
         Load(c, from, to)
  PROVE  TypeOK'
BY DEF TypeOK, Load, rcvVars

LEMMA StoreType ==
  ASSUME TypeOK, NEW c \in Clients, NEW from, NEW d \in Int, NEW to \in ThreadPC,
         Store(c, from, d, to)
  PROVE  TypeOK'
<1>1. threadCount' \in Int
  BY DEF TypeOK, Store
<1>2. QED
  BY <1>1 DEF TypeOK, Store, rcvVars

LEMMA GotoType ==
  ASSUME TypeOK, NEW c \in Clients, NEW from, NEW to \in ThreadPC,
         Goto(c, from, to)
  PROVE  TypeOK'
BY DEF TypeOK, Goto, rcvVars, mutexVars

LEMMA ThreadType ==
  ASSUME TypeOK, NEW c \in Clients, ThreadStep(c)
  PROVE  TypeOK'
<1> USE DEF ThreadPC
<1>1. CASE CountIn(c) \/ CountOut(c)
  BY <1>1, LoadType DEF CountIn, CountOut
<1>2. CASE CountedIn(c)
  BY <1>2, StoreType DEF CountedIn
<1>3. CASE CountedOut(c)
  BY <1>3, StoreType DEF CountedOut
<1>4. CASE ReadName(c) \/ SessionEnds(c)
  BY <1>4, GotoType DEF ReadName, SessionEnds
<1>5. CASE TakeRandom(c)
  <2>1. CASE Goto(c, "random", "session")
    BY <2>1, GotoType
  <2>2. CASE csprngMutex' = c
    BY <1>5, <2>2 DEF TypeOK, TakeRandom, Goto, rcvVars, mutexVars
  <2>3. QED
    BY <1>5, <2>1, <2>2 DEF TakeRandom
<1>6. CASE Draw(c)
  BY <1>6 DEF TypeOK, Draw, rcvVars
<1>7. QED
  BY <1>1, <1>2, <1>3, <1>4, <1>5, <1>6 DEF ThreadStep

LEMMA RcvType == TypeOK /\ RcvStep => TypeOK'
<1> SUFFICES ASSUME TypeOK, RcvStep PROVE TypeOK'
  OBVIOUS
<1>1. CASE Listen \/ Test \/ Count \/ Sleep \/ AcceptEnds
  BY <1>1 DEF TypeOK, RcvPC, Listen, Test, Count, Sleep, AcceptEnds, mutexVars
<1>2. CASE Accept \/ AcceptFails
  <2>1. backlog # <<>> /\ backlog' = Tail(backlog)
    BY <1>2 DEF Accept, AcceptFails
  <2>2. Head(backlog) \in Clients /\ backlog' \in Seq(Clients)
    BY <2>1 DEF TypeOK
  <2>3. QED
    BY <1>2, <2>2 DEF TypeOK, RcvPC, Accept, AcceptFails, mutexVars
<1>3. CASE Start \/ StartFails
  BY <1>3 DEF TypeOK, RcvPC, ThreadPC, Start, StartFails, mutexVars
<1>4. QED
  BY <1>1, <1>2, <1>3 DEF RcvStep

LEMMA NextType == TypeOK /\ [Next]_vars => TypeOK'
<1> SUFFICES ASSUME TypeOK, [Next]_vars PROVE TypeOK'
  OBVIOUS
<1>1. CASE UNCHANGED vars
  BY <1>1 DEF TypeOK, vars
<1>2. CASE Exit
  BY <1>2 DEF TypeOK, Exit, rcvVars, mutexVars
<1>3. ASSUME NEW c \in Clients, Connect(c)
      PROVE  TypeOK'
  BY <1>3 DEF TypeOK, Connect, mutexVars
<1>4. QED
  BY <1>1, <1>2, <1>3, RcvType, ThreadType DEF Next

-----------------------------------------------------------------------------
(* The connections not yet served. *)

LEMMA NextClient == TypeOK /\ ClientInv /\ [Next]_vars => ClientInv'
<1> SUFFICES ASSUME TypeOK, ClientInv, [Next]_vars PROVE ClientInv'
  OBVIOUS
<1> USE DEF ClientInv
<1>1. CASE UNCHANGED vars
  BY <1>1 DEF vars
<1>2. CASE Exit
  BY <1>2 DEF Exit, rcvVars
<1>3. ASSUME NEW c \in Clients, Connect(c)
      PROVE  ClientInv'
  <2>1. /\ Len(backlog') = Len(backlog) + 1
        /\ backlog'[Len(backlog) + 1] = c
        /\ \A i \in 1 .. Len(backlog) : backlog'[i] = backlog[i] /\ backlog[i] # c
    BY <1>3 DEF Connect, Waiting, TypeOK
  <2>2. UNCHANGED <<rcv, client, pc>> /\ pc[c] = "none" /\ client # c
    BY <1>3 DEF Connect
  <2>3. Len(backlog) \in Nat
    BY DEF TypeOK
  <2>4. QED
    BY <2>1, <2>2, <2>3
\* Threads leave the queue alone, and act on clients that are not in it.
<1>4. ASSUME NEW c \in Clients, ThreadStep(c)
      PROVE  ClientInv'
  <2>1. /\ UNCHANGED <<rcv, backlog, client>>
        /\ pc[c] # "none"
        /\ \A d \in Clients \ {c} : pc'[d] = pc[d]
    BY <1>4 DEF TypeOK, ThreadStep, CountIn, CountedIn, CountOut, CountedOut, Load,
                Store, ReadName, SessionEnds, TakeRandom, Draw, Goto, rcvVars
  <2>2. \A i \in 1 .. Len(backlog) : backlog[i] \in Clients
    BY DEF TypeOK
  <2>3. client \in Clients \cup {None}
    BY DEF TypeOK
  <2>4. QED
    BY <2>1, <2>2, <2>3
<1>5. CASE Listen \/ Test \/ Count \/ Sleep \/ AcceptEnds
  BY <1>5 DEF Listen, Test, Count, Sleep, AcceptEnds
<1>6. CASE Accept \/ AcceptFails
  <2>1. /\ backlog # <<>> /\ backlog' = Tail(backlog) /\ pc' = pc
        /\ rcv = "accept"
        /\ \/ client' = Head(backlog)
           \/ client' = client /\ rcv' = "test"
    BY <1>6 DEF Accept, AcceptFails
  <2>2. /\ Len(backlog) \in Nat \ {0}
        /\ Len(backlog') = Len(backlog) - 1
        /\ \A i \in 1 .. Len(backlog') : backlog'[i] = backlog[i + 1]
        /\ Head(backlog) = backlog[1]
        /\ Head(backlog) \in Clients
    BY <2>1 DEF TypeOK
  <2>3. Head(backlog) # None
    BY <2>2, AcceptAssumption
  <2>4. QED
    BY <2>1, <2>2, <2>3
<1>7. CASE Start \/ StartFails
  <2>1. /\ backlog' = backlog /\ client' = None /\ rcv' = "test"
        /\ \A d \in Clients \ {client} : pc'[d] = pc[d]
    BY <1>7 DEF TypeOK, Start, StartFails
  <2>2. \A i \in 1 .. Len(backlog) : backlog[i] \in Clients
    BY DEF TypeOK
  <2>3. QED
    BY <2>1, <2>2, AcceptAssumption
<1>8. QED
  BY <1>1, <1>2, <1>3, <1>4, <1>5, <1>6, <1>7 DEF Next, RcvStep

-----------------------------------------------------------------------------
(* The count. *)

LEMMA CountedFinite == IsFiniteSet(Counted)
BY AcceptAssumption, FS_Subset DEF Counted

\* What leaves the count, its mutex and the loaded values alone may move any
\* thread, as long as it does not touch who is counted or changing the count.
LEMMA KeepsCount ==
  ASSUME MutexInv, CountIsThreads,
         UNCHANGED <<threadCount, threadCountMutex, loaded>>,
         \A c \in Clients : /\ pc'[c] \in Changing => pc[c] \in Changing
                            /\ c \in Counted' <=> c \in Counted
  PROVE  MutexInv' /\ CountIsThreads'
<1>1. Counted' = Counted
  BY DEF Counted
<1>2. QED
  BY <1>1 DEF MutexInv, CountIsThreads

LEMMA ThreadCount ==
  ASSUME IInv, NEW c \in Clients, ThreadStep(c)
  PROVE  MutexInv' /\ CountIsThreads'
<1> USE DEF IInv
<1>0. pc \in [Clients -> ThreadPC] /\ loaded \in [Clients -> Int]
  BY DEF TypeOK
<1>1. CASE CountIn(c) \/ CountOut(c)
  <2>1. /\ threadCountMutex = None /\ threadCountMutex' = c
        /\ loaded' = [loaded EXCEPT ![c] = threadCount]
        /\ threadCount' = threadCount
        /\ \/ pc[c] = "begin" /\ pc' = [pc EXCEPT ![c] = "counting"]
           \/ pc[c] = "finally" /\ pc' = [pc EXCEPT ![c] = "uncounting"]
    BY <1>1 DEF CountIn, CountOut, Load
  <2>2. Counted' = Counted
    BY <1>0, <2>1 DEF Counted
  <2>3. \A d \in Clients \ {c} : pc'[d] \notin Changing
    BY <1>0, <2>1, AcceptAssumption DEF MutexInv
  <2>4. QED
    BY <1>0, <2>1, <2>2, <2>3 DEF MutexInv, CountIsThreads
<1>2. CASE CountedIn(c) \/ CountedOut(c)
  <2>1. /\ pc[c] \in Changing
        /\ \/ /\ pc[c] = "counting" /\ pc' = [pc EXCEPT ![c] = "name"]
              /\ threadCount' = loaded[c] + 1
           \/ /\ pc[c] = "uncounting" /\ pc' = [pc EXCEPT ![c] = "none"]
              /\ threadCount' = loaded[c] - 1
    BY <1>0, <1>2 DEF CountedIn, CountedOut, Store, Changing
  <2>2. loaded[c] = Cardinality(Counted)
    BY <2>1 DEF MutexInv, CountIsThreads
  <2>3. \A d \in Clients : pc'[d] \notin Changing
    BY <1>0, <2>1 DEF MutexInv, Changing
  <2>4. CASE pc[c] = "counting"
    <3>1. Counted' = Counted \cup {c} /\ c \notin Counted
      BY <1>0, <2>1, <2>4 DEF Counted
    <3>2. Cardinality(Counted') = Cardinality(Counted) + 1
      BY <3>1, CountedFinite, FS_AddElement
    <3>3. QED
      BY <2>1, <2>2, <2>3, <2>4, <3>2 DEF MutexInv, CountIsThreads
  <2>5. CASE pc[c] = "uncounting"
    <3>1. Counted' = Counted \ {c} /\ c \in Counted
      BY <1>0, <2>1, <2>5 DEF Counted
    <3>2. Cardinality(Counted') = Cardinality(Counted) - 1
      BY <3>1, CountedFinite, FS_RemoveElement
    <3>3. QED
      BY <2>1, <2>2, <2>3, <2>5, <3>2 DEF MutexInv, CountIsThreads
  <2>6. QED
    BY <2>1, <2>4, <2>5
<1>3. CASE ReadName(c) \/ SessionEnds(c) \/ TakeRandom(c) \/ Draw(c)
  <2>1. /\ UNCHANGED <<threadCount, threadCountMutex, loaded>>
        /\ pc[c] \in {"name", "random", "drawing", "session"}
        /\ \E to \in {"random", "drawing", "session", "finally"} :
             pc' = [pc EXCEPT ![c] = to]
    BY <1>3 DEF ReadName, SessionEnds, TakeRandom, Draw, Goto, mutexVars
  <2>2. \A d \in Clients : /\ pc'[d] \in Changing => pc[d] \in Changing
                           /\ d \in Counted' <=> d \in Counted
    BY <1>0, <2>1 DEF Counted, Changing
  <2>3. QED
    BY <2>1, <2>2, KeepsCount
<1>4. QED
  BY <1>1, <1>2, <1>3 DEF ThreadStep

LEMMA NextCount == IInv /\ [Next]_vars => MutexInv' /\ CountIsThreads'
<1> SUFFICES ASSUME IInv, [Next]_vars PROVE MutexInv' /\ CountIsThreads'
  OBVIOUS
<1> USE DEF IInv
<1>1. CASE UNCHANGED <<pc, mutexVars>>
  BY <1>1, KeepsCount DEF mutexVars, Counted
<1>2. CASE Start
  <2>1. pc[client] = "none" /\ client \in Clients
    BY <1>2 DEF ClientInv, TypeOK, Start
  <2>2. pc' = [pc EXCEPT ![client] = "begin"]
    BY <1>2 DEF Start
  <2>3. \A c \in Clients : /\ pc'[c] \in Changing => pc[c] \in Changing
                           /\ c \in Counted' <=> c \in Counted
    BY <2>1, <2>2 DEF TypeOK, Counted, Changing
  <2>4. QED
    BY <1>2, <2>3, KeepsCount DEF Start, mutexVars
<1>3. ASSUME NEW c \in Clients, ThreadStep(c)
      PROVE  MutexInv' /\ CountIsThreads'
  BY <1>3, ThreadCount
<1>4. ASSUME Exit \/ (RcvStep /\ ~Start) \/ \E c \in Clients : Connect(c)
      PROVE  UNCHANGED <<pc, mutexVars>>
  BY <1>4 DEF RcvStep, Exit, Connect, Listen, Test, Count, Sleep, Accept,
              AcceptEnds, AcceptFails, StartFails
<1>5. CASE UNCHANGED vars
  BY <1>1, <1>5 DEF vars, mutexVars
<1>6. QED
  BY <1>1, <1>2, <1>3, <1>4, <1>5 DEF Next

-----------------------------------------------------------------------------
LEMMA NextInv == IInv /\ [Next]_vars => IInv'
BY NextType, NextClient, NextCount DEF IInv

LEMMA Invariance == Spec => []IInv
BY InitInv, NextInv, PTL DEF Spec

\* Every variable of the server keeps its type.
THEOREM TypeCorrect == Spec => []TypeOK
BY Invariance, PTL DEF IInv

\* However threads start, count themselves and end, threadCount is their number.
THEOREM CountIsRight == Spec => []CountIsThreads
BY Invariance, PTL DEF IInv
=============================================================================
