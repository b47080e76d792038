------------------------------- MODULE LtAccept -------------------------------
(***************************************************************************)
(* The threads of ltrcv/src/ltrcv.cs: RcvThread and AcceptClient, which    *)
(* accept connections while fewer than maxThreads threads are counted, the *)
(* beginning and the end of ClientThread, where a thread counts itself,    *)
(* its use of the random numbers, and Main, which ends it all on "exit".   *)
(* What a session does in between is the subject of LogTransfer; here it   *)
(* takes some time and ends.                                               *)
(*                                                                         *)
(* The two mutexes are modelled as what they are, and an increment as a    *)
(* load and a store, so that it is the mutex that keeps the count right.   *)
(***************************************************************************)
EXTENDS Integers, Sequences, FiniteSets

CONSTANTS
  Clients,     \* clients; each connects any number of times, one at a time
  MaxThreads,  \* maxThreads: 256
  None         \* nobody

ASSUME AcceptAssumption ==
  /\ IsFiniteSet(Clients)
  /\ MaxThreads \in Nat \ {0}
  /\ None \notin Clients

VARIABLES
  keepRunning,      \* FALSE once "exit" has been entered
  rcv,              \* where RcvThread is
  backlog,          \* the listener's queue of connections not yet accepted
  client,           \* the connection just accepted
  threadCount,      \* the static of that name
  threadCountMutex, \* the client thread that owns it
  csprngMutex,      \* the client thread that owns it
  pc,               \* per client: where its ClientThread is
  loaded            \* per client: threadCount while its thread changes it

vars == <<keepRunning, rcv, backlog, client, threadCount, threadCountMutex,
          csprngMutex, pc, loaded>>
rcvVars == <<rcv, backlog, client>>
mutexVars == <<threadCount, threadCountMutex, csprngMutex, loaded>>

RcvPC == {"listen", "test", "count", "sleep", "accept", "start", "stopped"}

\* From "begin" to "session" a thread counts itself, in "uncount" it has begun
\* to take itself off the count.
ThreadPC == {"none", "begin", "counting", "name", "random", "drawing",
             "session", "finally", "uncounting"}

\* Threads that the count includes.
Counted == {c \in Clients : pc[c] \notin {"none", "begin", "counting"}}

TypeOK ==
  /\ keepRunning \in BOOLEAN
  /\ rcv \in RcvPC
  /\ backlog \in Seq(Clients)
  /\ client \in Clients \cup {None}
  /\ threadCount \in Int
  /\ threadCountMutex \in Clients \cup {None}
  /\ csprngMutex \in Clients \cup {None}
  /\ pc \in [Clients -> ThreadPC]
  /\ loaded \in [Clients -> Int]

Init ==
  /\ keepRunning = TRUE
  /\ rcv = "listen"
  /\ backlog = <<>>
  /\ client = None
  /\ threadCount = 0
  /\ threadCountMutex = None
  /\ csprngMutex = None
  /\ pc = [c \in Clients |-> "none"]
  /\ loaded = [c \in Clients |-> 0]

-----------------------------------------------------------------------------
(* Outside of the server's threads. *)

Listening == rcv \notin {"listen", "stopped"}

Waiting(c) == \E i \in 1 .. Len(backlog) : backlog[i] = c

Connect(c) ==
  /\ Listening
  /\ pc[c] = "none" /\ client # c /\ ~Waiting(c)
  /\ backlog' = Append(backlog, c)
  /\ UNCHANGED <<keepRunning, rcv, client, pc, mutexVars>>

\* "exit" is entered at the console.
Exit ==
  /\ keepRunning
  /\ keepRunning' = FALSE
  /\ UNCHANGED <<rcvVars, pc, mutexVars>>

-----------------------------------------------------------------------------
(* RcvThread. *)

\* tcpListener.Start, which throws when the port is in use.
Listen ==
  /\ rcv = "listen"
  /\ rcv' \in {"test", "stopped"}
  /\ UNCHANGED <<keepRunning, backlog, client, pc, mutexVars>>

\* The head of the loop.
Test ==
  /\ rcv = "test"
  /\ rcv' = IF keepRunning THEN "count" ELSE "stopped"
  /\ UNCHANGED <<keepRunning, backlog, client, pc, mutexVars>>

\* The count is read under the mutex; whether to accept is decided after.
Count ==
  /\ rcv = "count"
  /\ threadCountMutex = None
  /\ rcv' = IF threadCount < MaxThreads THEN "accept" ELSE "sleep"
  /\ UNCHANGED <<keepRunning, backlog, client, pc, mutexVars>>

Sleep ==
  /\ rcv = "sleep"
  /\ rcv' = "test"
  /\ UNCHANGED <<keepRunning, backlog, client, pc, mutexVars>>

Accept ==
  /\ rcv = "accept"
  /\ backlog # <<>>
  /\ client' = Head(backlog)
  /\ backlog' = Tail(backlog)
  /\ rcv' = "start"
  /\ UNCHANGED <<keepRunning, pc, mutexVars>>

\* Mutant of AcceptEnds: the task is waited for without a time-out, so that
\* the end of the server is noticed with the next connection only.
AcceptEnds_Never ==
  /\ rcv = "accept"
  /\ ~keepRunning
  /\ backlog # <<>>
  /\ rcv' = "test"
  /\ UNCHANGED <<keepRunning, backlog, client, pc, mutexVars>>

\* AcceptClient waits in slices of 100 ms and returns null after an exit.
AcceptEnds ==
  /\ rcv = "accept"
  /\ ~keepRunning
  /\ rcv' = "test"
  /\ UNCHANGED <<keepRunning, backlog, client, pc, mutexVars>>

\* Accepting throws: the connection has been reset.
AcceptFails ==
  /\ rcv = "accept"
  /\ backlog # <<>>
  /\ backlog' = Tail(backlog)
  /\ rcv' = "test"
  /\ UNCHANGED <<keepRunning, client, pc, mutexVars>>

Start ==
  /\ rcv = "start"
  /\ pc' = [pc EXCEPT ![client] = "begin"]
  /\ client' = None
  /\ rcv' = "test"
  /\ UNCHANGED <<keepRunning, backlog, mutexVars>>

\* No thread can be created: the connection is dropped.
StartFails ==
  /\ rcv = "start"
  /\ client' = None
  /\ rcv' = "test"
  /\ UNCHANGED <<keepRunning, backlog, pc, mutexVars>>

RcvStep == Listen \/ Test \/ Count \/ Sleep \/ Accept \/ AcceptEnds
           \/ AcceptFails \/ Start \/ StartFails

-----------------------------------------------------------------------------
(* ClientThread. *)

\* Mutant of Load: the count is changed without its mutex.
Load_NoMutex(c, from, to) ==
  /\ pc[c] = from
  /\ threadCountMutex' = c
  /\ loaded' = [loaded EXCEPT ![c] = threadCount]
  /\ pc' = [pc EXCEPT ![c] = to]
  /\ UNCHANGED <<keepRunning, rcvVars, threadCount, csprngMutex>>

\* WaitOne, and the load of threadCount++ or threadCount--.
Load(c, from, to) ==
  /\ pc[c] = from
  /\ threadCountMutex = None
  /\ threadCountMutex' = c
  /\ loaded' = [loaded EXCEPT ![c] = threadCount]
  /\ pc' = [pc EXCEPT ![c] = to]
  /\ UNCHANGED <<keepRunning, rcvVars, threadCount, csprngMutex>>

\* The store, and ReleaseMutex.
Store(c, from, d, to) ==
  /\ pc[c] = from
  /\ threadCount' = loaded[c] + d
  /\ loaded' = [loaded EXCEPT ![c] = 0]
  /\ threadCountMutex' = None
  /\ pc' = [pc EXCEPT ![c] = to]
  /\ UNCHANGED <<keepRunning, rcvVars, csprngMutex>>

CountIn(c) == Load(c, "begin", "counting")
CountedIn(c) == Store(c, "counting", 1, "name")
CountOut(c) == Load(c, "finally", "uncounting")
CountedOut(c) == Store(c, "uncounting", -1, "none")

Goto(c, from, to) ==
  /\ pc[c] = from
  /\ pc' = [pc EXCEPT ![c] = to]
  /\ UNCHANGED <<keepRunning, rcvVars, mutexVars>>

\* The name of the product arrives, or the step is skipped.
ReadName(c) == Goto(c, "name", "random")

\* WaitOne of csprngMutex; after an exit the challenge is skipped.
TakeRandom(c) ==
  \/ /\ ~keepRunning
     /\ Goto(c, "random", "session")
  \/ /\ keepRunning
     /\ pc[c] = "random"
     /\ csprngMutex = None
     /\ csprngMutex' = c
     /\ pc' = [pc EXCEPT ![c] = "drawing"]
     /\ UNCHANGED <<keepRunning, rcvVars, threadCount, threadCountMutex, loaded>>

\* Mutant of Draw: the mutex is released where the bytes have been drawn,
\* not in a finally block.
Draw_NoFinally(c) ==
  /\ pc[c] = "drawing"
  /\ \E to \in {"session", "finally"} :
       /\ pc' = [pc EXCEPT ![c] = to]
       /\ csprngMutex' = IF to = "session" THEN None ELSE csprngMutex
  /\ UNCHANGED <<keepRunning, rcvVars, threadCount, threadCountMutex, loaded>>

\* GetBytes, or its exception, after which the thread returns; the mutex is
\* released by the finally block in either case.
Draw(c) ==
  /\ pc[c] = "drawing"
  /\ \E to \in {"session", "finally"} : pc' = [pc EXCEPT ![c] = to]
  /\ csprngMutex' = None
  /\ UNCHANGED <<keepRunning, rcvVars, threadCount, threadCountMutex, loaded>>

\* The session ends: the log is received, or something throws; at the latest
\* a read that waits for 120 s.
SessionEnds(c) == Goto(c, "name", "finally") \/ Goto(c, "session", "finally")

ThreadStep(c) ==
  \/ CountIn(c) \/ CountedIn(c) \/ ReadName(c) \/ TakeRandom(c) \/ Draw(c)
  \/ SessionEnds(c) \/ CountOut(c) \/ CountedOut(c)

Next == \/ Exit
        \/ RcvStep
        \/ \E c \in Clients : Connect(c) \/ ThreadStep(c)

\* Threads run, and Windows hands a mutex to its waiters in turn: a thread that
\* finds it free again and again obtains it.
Fairness ==
  /\ SF_vars(RcvStep)
  /\ \A c \in Clients : SF_vars(ThreadStep(c))

Spec == Init /\ [][Next]_vars /\ Fairness

-----------------------------------------------------------------------------
(* Properties. *)

\* The count is the number of threads that have counted themselves and not yet
\* left, on every way out of ClientThread: it neither drifts, which would shut
\* out clients for ever, nor goes below zero.
CountIsThreads == threadCount = Cardinality(Counted)

\* Whoever waits to be accepted is accepted or turned away, or the server
\* ends: a full server finds room again when threads end, as each of them
\* gives back its place and both of its mutexes.
ConnectionsAreTaken == \A c \in Clients : Waiting(c) ~> ~Waiting(c) \/ ~keepRunning

\* After an exit every thread of the process ends, the accepting one and those
\* of the clients, whatever they were waiting for.
ServerStops ==
  ~keepRunning ~> rcv = "stopped" /\ \A c \in Clients : pc[c] = "none"
=============================================================================
