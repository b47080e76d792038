----------------------------- MODULE LogTransfer -----------------------------
(***************************************************************************)
(* The upload of one log file per TCP connection: TransferToServer in      *)
(* ltsend/src/ltsend.c on one side, ClientThread and ReadDecryptFile in    *)
(* ltrcv/src/ltrcv.cs on the other, with a byte stream between them.       *)
(*                                                                         *)
(* What a client may ever send on a connection is fixed once its log is:   *)
(*   name | solution | key | MAC, data | MAC, data | ...                   *)
(* (a new MAC, data pair for each retransmission), so the stream is two    *)
(* positions, sent and rcvd, counted in units; a read takes any non-empty  *)
(* part of what is under way, which is how TCP segments it.  ltrcv makes   *)
(* one Read for each part but the data and throws when it is short, so a   *)
(* stream cut there ends the session.  The data can be unlocked exactly    *)
(* when a MAC has been read from where a MAC starts, followed by all of    *)
(* the data and nothing else.                                              *)
(***************************************************************************)
EXTENDS Integers, Sequences, FiniteSets

CONSTANTS
  Logs,        \* finished log files
  Recognized,  \* per log: the lengths at which its product name, cut there, is
               \* a name in the server's productNames.txt
  Valid,       \* logs that pass ltrcv's tests of a decrypted file
  Conns,       \* connections; bounds how many can be made
  Ticks,       \* values of DateTime.Now.Ticks, the names of received files
  NameLen,     \* length of a product name: 1 to 255 bytes
  SolLen,      \* length of the solution: 1024 - 8 bytes
  KeyLen,      \* length of the client's public key: 32 bytes
  MacLen,      \* length of a MAC: 16 bytes
  DataLen,     \* length of an encrypted log
  BufLen,      \* length of the receive buffer: 1 MiB
  MaxReads,    \* reads of ReadDecryptFile before it gives up: 1 + 50
  FreshTicks,  \* does the clock give every file that is saved a new name?
  None         \* no log, no tick

ASSUME TransferAssumption ==
  /\ NameLen \in Nat \ {0}
  /\ Recognized \in [Logs -> SUBSET (1 .. NameLen)]
  /\ Valid \subseteq Logs
  /\ SolLen \in Nat /\ SolLen > NameLen    \* a name has at most 255 bytes
  /\ KeyLen \in Nat \ {0}
  /\ MacLen \in Nat \ {0}
  /\ DataLen \in Nat \ {0}
  /\ BufLen \in Nat /\ BufLen >= DataLen   \* HandleFile refuses longer files
  /\ MaxReads \in Nat \ {0}
  /\ FreshTicks \in BOOLEAN
  /\ None \notin Logs \cup Ticks

\* Logs whose product name is in the server's productNames.txt.
Known == {l \in Logs : NameLen \in Recognized[l]}

VARIABLES
  calm,         \* chosen once: does nothing fail, and does each part of the
                \* stream but the data arrive in one piece?
  \* the sending machines
  disk,         \* logs in the log folders
  cpc,          \* per connection: where its TransferToServer is
  log,          \* per connection: the log it uploads
  retried,      \* per connection: the local of that name
  \* the byte streams
  sent,         \* per connection: units the client has sent
  rcvd,         \* per connection: units the server has read
  down,         \* per connection: messages to the client not yet received
  \* the receiving server
  keepRunning,  \* FALSE once "exit" has been entered
  spc,          \* per connection: where its ClientThread is
  claimed,      \* per connection: units of the name it read; 0: it read none
  second,       \* per connection: is this the ReadDecryptFile after an RE?
  macAt,        \* per connection: position the MAC was read from
  reads,        \* per connection: retriesLeft, plus one
  name,         \* per connection: the tick it names its file by
  store         \* files under received\, by their tick

clientVars == <<disk, cpc, log, retried>>
serverVars == <<keepRunning, spc, claimed, second, macAt, reads, name, store>>
vars == <<calm, clientVars, sent, rcvd, down, serverVars>>

-----------------------------------------------------------------------------
(* The layout of the stream of a connection. *)

SolAt == NameLen
KeyAt == SolAt + SolLen
PairAt == KeyAt + KeyLen              \* where the first MAC, data pair starts
PairLen == MacLen + DataLen
RetryAt == PairAt + PairLen           \* where the retransmission starts
End == RetryAt + PairLen

Unread(c) == sent[c] - rcvd[c]

\* Units of data that ReadDecryptFile has collected (dataIndex).
Got(c) == rcvd[c] - (macAt[c] + MacLen)

\* Mutant of Unlocks: the MAC is not compared.
Unlocks_NoMac(m, n) == n = DataLen

\* crypto_unlock succeeds on the first n units after a MAC read at position m.
Unlocks(m, n) == n = DataLen /\ m \in {PairAt, RetryAt}

\* Contents of a received file.
File == [log : Logs, whole : BOOLEAN]
NoFile == [log |-> None, whole |-> FALSE]

Stored == {l \in Logs : \E t \in Ticks : store[t] = [log |-> l, whole |-> TRUE]}

-----------------------------------------------------------------------------
ClientPC == {"unused", "challenge", "solution", "key", "mac", "data", "ack",
             "delete", "closed"}
ServerPC == {"none", "name", "challenge", "solution", "key", "mac", "data",
             "retry", "save", "writing", "ok", "closed"}

Challenge == <<"C", "H">>   \* stands for the 11 bytes of the challenge
Ok == <<"O", "K">>
Retry == <<"R", "E">>
Messages == {Challenge, Ok, Retry}

TypeOK ==
  /\ calm \in BOOLEAN
  /\ disk \in SUBSET Logs
  /\ cpc \in [Conns -> ClientPC]
  /\ log \in [Conns -> Logs \cup {None}]
  /\ retried \in [Conns -> BOOLEAN]
  /\ sent \in [Conns -> Nat]
  /\ rcvd \in [Conns -> Nat]
  /\ down \in [Conns -> Seq(Messages)]
  /\ keepRunning \in BOOLEAN
  /\ spc \in [Conns -> ServerPC]
  /\ claimed \in [Conns -> 0 .. NameLen]
  /\ second \in [Conns -> BOOLEAN]
  /\ macAt \in [Conns -> Nat]
  /\ reads \in [Conns -> 0 .. MaxReads]
  /\ name \in [Conns -> Ticks \cup {None}]
  /\ store \in [Ticks -> File \cup {NoFile}]

Init ==
  /\ calm \in BOOLEAN
  /\ disk = Logs
  /\ cpc = [c \in Conns |-> "unused"]
  /\ log = [c \in Conns |-> None]
  /\ retried = [c \in Conns |-> FALSE]
  /\ sent = [c \in Conns |-> 0]
  /\ rcvd = [c \in Conns |-> 0]
  /\ down = [c \in Conns |-> <<>>]
  /\ keepRunning = TRUE
  /\ spc = [c \in Conns |-> "none"]
  /\ claimed = [c \in Conns |-> 0]
  /\ second = [c \in Conns |-> FALSE]
  /\ macAt = [c \in Conns |-> 0]
  /\ reads = [c \in Conns |-> 0]
  /\ name = [c \in Conns |-> None]
  /\ store = [t \in Ticks |-> NoFile]

-----------------------------------------------------------------------------
(* The client: ltsend. *)

Active(c) == cpc[c] \notin {"unused", "closed"}

\* An ltsend has opened the log to upload it, sharing it with nobody who would
\* read it.  LtSend models the senders.
Busy(l) == \E c \in Conns : Active(c) /\ log[c] = l

\* Connect, and send the product name.
Connect(c, l) ==
  /\ cpc[c] = "unused"
  /\ l \in disk
  /\ ~Busy(l)
  /\ cpc' = [cpc EXCEPT ![c] = "challenge"]
  /\ log' = [log EXCEPT ![c] = l]
  /\ sent' = [sent EXCEPT ![c] = NameLen]
  /\ UNCHANGED <<calm, disk, retried, rcvd, down, serverVars>>

ReceiveChallenge(c) ==
  /\ cpc[c] = "challenge"
  /\ down[c] # <<>>
  /\ Head(down[c]) = Challenge
  /\ down' = [down EXCEPT ![c] = Tail(@)]
  /\ cpc' = [cpc EXCEPT ![c] = "solution"]
  /\ UNCHANGED <<calm, disk, log, retried, sent, rcvd, serverVars>>

\* One call of Send: n units, after which the client is at pc "to".
Send(c, from, n, to) ==
  /\ cpc[c] = from
  /\ sent' = [sent EXCEPT ![c] = @ + n]
  /\ cpc' = [cpc EXCEPT ![c] = to]
  /\ UNCHANGED <<calm, disk, log, retried, rcvd, down, serverVars>>

SendSolution(c) == Send(c, "solution", SolLen, "key")
SendKey(c) == Send(c, "key", KeyLen, "mac")
SendMac(c) == Send(c, "mac", MacLen, "data")
SendData(c) == Send(c, "data", DataLen, "ack")

\* The test of TransferToServer as C reads it: && binds before ||.
AsksForRetry(c, ok) == (~retried[c] /\ ok[1] = "R") \/ ok[2] = "E"

\* Mutant of ReceiveAck: whatever the server answers counts as its OK.
ReceiveAck_AnyAnswer(c) ==
  /\ cpc[c] = "ack"
  /\ down[c] # <<>>
  /\ cpc' = [cpc EXCEPT ![c] = "delete"]
  /\ down' = [down EXCEPT ![c] = Tail(@)]
  /\ UNCHANGED <<calm, disk, log, retried, sent, rcvd, serverVars>>

\* Two bytes arrive: retransmit, or report success to the caller.
ReceiveAck(c) ==
  /\ cpc[c] = "ack"
  /\ down[c] # <<>>
  /\ LET ok == Head(down[c]) IN
       \/ /\ AsksForRetry(c, ok)
          /\ retried' = [retried EXCEPT ![c] = TRUE]
          /\ cpc' = [cpc EXCEPT ![c] = "mac"]
       \/ /\ ~AsksForRetry(c, ok)
          /\ cpc' = [cpc EXCEPT ![c] = IF ok = Ok THEN "delete" ELSE "closed"]
          /\ UNCHANGED retried
  /\ down' = [down EXCEPT ![c] = Tail(@)]
  /\ UNCHANGED <<calm, disk, log, sent, rcvd, serverVars>>

\* HandleFile has returned TRUE.
DeleteLog(c) ==
  /\ cpc[c] = "delete"
  /\ disk' = disk \ {log[c]}
  /\ cpc' = [cpc EXCEPT ![c] = "closed"]
  /\ UNCHANGED <<calm, log, retried, sent, rcvd, down, serverVars>>

\* The client waits for a message and none is under way.
Waiting(c) == cpc[c] \in {"challenge", "ack"} /\ down[c] = <<>>

\* A call fails, waits longer than 15 s, gets too few bytes or the end of the
\* stream, or the process is killed.  What a failing Send had already handed
\* to the network stays under way.
ClientFails(c) ==
  /\ Active(c)
  /\ calm => Waiting(c) /\ spc[c] = "closed"
  /\ cpc' = [cpc EXCEPT ![c] = "closed"]
  /\ \E n \in (IF cpc[c] = "data" THEN 0 .. DataLen - 1 ELSE {0}) :
       sent' = [sent EXCEPT ![c] = @ + n]
  /\ UNCHANGED <<calm, disk, log, retried, rcvd, down, serverVars>>

-----------------------------------------------------------------------------
(* The server: ltrcv. *)

Serving(c) == spc[c] \notin {"none", "closed"}

\* A thread goes on, leaving all of the server's state but its pc alone.
Goto(c, pc) ==
  /\ spc' = [spc EXCEPT ![c] = pc]
  /\ UNCHANGED <<calm, clientVars, sent, keepRunning, name, store>>

Accept(c) ==
  /\ keepRunning
  /\ spc[c] = "none"
  /\ cpc[c] # "unused"
  /\ Goto(c, "name")
  /\ UNCHANGED <<rcvd, down, claimed, second, macAt, reads>>

\* Lengths that the one Read of the name may return: any part of it.
NameReads(c) == {k \in 1 .. NameLen : k <= Unread(c) /\ (calm => k = NameLen)}

\* Mutant of ReadName: productNames.txt is not consulted.
ReadName_AnyProduct(c) ==
  /\ spc[c] = "name"
  /\ \E k \in NameReads(c) :
       /\ rcvd' = [rcvd EXCEPT ![c] = @ + k]
       /\ claimed' = [claimed EXCEPT ![c] = k]
       /\ Goto(c, "challenge")
  /\ UNCHANGED <<down, second, macAt, reads>>

\* What one Read returns is taken for the whole name.  A name that is not
\* recognised ends the session; a server that is shutting down skips the step
\* and leaves the name in the stream.
ReadName(c) ==
  /\ spc[c] = "name"
  /\ \/ /\ keepRunning
        /\ \E k \in NameReads(c) :
             /\ rcvd' = [rcvd EXCEPT ![c] = @ + k]
             /\ claimed' = [claimed EXCEPT ![c] = k]
             /\ Goto(c, IF k \in Recognized[log[c]] THEN "challenge" ELSE "closed")
     \/ /\ ~keepRunning
        /\ Goto(c, "challenge")
        /\ UNCHANGED <<rcvd, claimed>>
  /\ UNCHANGED <<down, second, macAt, reads>>

SendChallenge(c) ==
  /\ spc[c] = "challenge"
  /\ down' = IF keepRunning THEN [down EXCEPT ![c] = Append(@, Challenge)]
                            ELSE down
  /\ Goto(c, "solution")
  /\ UNCHANGED <<rcvd, claimed, second, macAt, reads>>

\* The one Read of a part of n units returns fewer, though some are under way:
\* the thread throws.
ShortRead(c, n) ==
  /\ ~calm
  /\ n > 1
  /\ Unread(c) >= 1
  /\ Goto(c, "closed")
  /\ UNCHANGED rcvd

\* It returns all n, and the thread goes on.
WholeRead(c, n, pc) ==
  /\ Unread(c) >= n
  /\ rcvd' = [rcvd EXCEPT ![c] = @ + n]
  /\ Goto(c, pc)

\* The only read that keepRunning does not guard.  Units that start before the
\* solution does, because the name was cut, are no valid one; a server that is
\* shutting down does not look.
ReadSolution(c) ==
  /\ spc[c] = "solution"
  /\ \/ WholeRead(c, SolLen,
                  IF keepRunning /\ rcvd[c] # SolAt THEN "closed" ELSE "key")
     \/ ShortRead(c, SolLen)
  /\ UNCHANGED <<down, claimed, second, macAt, reads>>

ReadKey(c) ==
  /\ spc[c] = "key"
  /\ \/ keepRunning /\ (WholeRead(c, KeyLen, "mac") \/ ShortRead(c, KeyLen))
     \/ ~keepRunning /\ Goto(c, "closed") /\ UNCHANGED rcvd
  /\ UNCHANGED <<down, claimed, second, macAt, reads>>

\* ReadDecryptFile reads the MAC: whatever comes next in the stream.  A short one
\* is no InvalidDataException, so nothing is retried.
ReadMac(c) ==
  /\ spc[c] = "mac"
  /\ \/ /\ WholeRead(c, MacLen, "data")
        /\ macAt' = [macAt EXCEPT ![c] = rcvd[c]]
        /\ reads' = [reads EXCEPT ![c] = MaxReads]
     \/ /\ ShortRead(c, MacLen)
        /\ UNCHANGED <<macAt, reads>>
  /\ UNCHANGED <<down, claimed, second>>

\* Mutants of AfterRead: the server asks for a retry every time it gives up;
\* it gives up one read too early.
AfterRead_AlwaysRetry(c, n) ==
  IF Unlocks(macAt[c], n) THEN "save"
  ELSE IF reads[c] > 1 THEN "data" ELSE "retry"

AfterRead_OffByOne(c, n) ==
  IF Unlocks(macAt[c], n) /\ reads[c] > 1 THEN "save"
  ELSE IF reads[c] > 1 THEN "data"
  ELSE IF second[c] THEN "closed" ELSE "retry"

\* Where a read that brings the collected data to n units leads.
AfterRead(c, n) ==
  IF Unlocks(macAt[c], n) THEN "save"
  ELSE IF reads[c] > 1 THEN "data"
  ELSE IF second[c] THEN "closed" ELSE "retry"

\* One pass of the loop of ReadDecryptFile.  A Read into a buffer that is full
\* returns nothing, and the thread throws.
ReadData(c) ==
  /\ spc[c] = "data"
  /\ \/ /\ \E k \in 1 .. Unread(c) :
             /\ Got(c) + k <= BufLen
             /\ rcvd' = [rcvd EXCEPT ![c] = @ + k]
             /\ Goto(c, AfterRead(c, Got(c) + k))
        /\ reads' = [reads EXCEPT ![c] = @ - 1]
     \/ /\ Got(c) = BufLen
        /\ Goto(c, "closed")
        /\ UNCHANGED <<rcvd, reads>>
  /\ UNCHANGED <<down, claimed, second, macAt>>

\* The InvalidDataException of the first ReadDecryptFile is caught.
SendRetry(c) ==
  /\ spc[c] = "retry"
  /\ down' = [down EXCEPT ![c] = Append(@, Retry)]
  /\ second' = [second EXCEPT ![c] = TRUE]
  /\ Goto(c, "mac")
  /\ UNCHANGED <<rcvd, claimed, macAt, reads>>

\* Mutant of BeginSave: the OK does not wait for the file to be written.
BeginSave_AckEarly(c, t) ==
  /\ spc[c] = "save"
  /\ store[t] = NoFile
  /\ store' = [store EXCEPT ![t] = [log |-> log[c], whole |-> FALSE]]
  /\ name' = [name EXCEPT ![c] = t]
  /\ spc' = [spc EXCEPT ![c] = "ok"]
  /\ UNCHANGED <<calm, clientVars, sent, rcvd, down, keepRunning, claimed, second,
                 macAt, reads>>

\* The file is tested: its type, its version, and that the product name in it,
\* read as ASCII, is the one that was claimed.  Then WriteAllBytes opens the file
\* named by the clock, truncating one that is there; it throws when another
\* thread is writing that very file.
BeginSave(c, t) ==
  /\ spc[c] = "save"
  /\ FreshTicks => store[t] = NoFile
  /\ IF \/ log[c] \notin Valid
        \/ claimed[c] # NameLen
        \/ \E d \in Conns : spc[d] = "writing" /\ name[d] = t
     THEN /\ spc' = [spc EXCEPT ![c] = "closed"]
          /\ UNCHANGED <<name, store>>
     ELSE /\ store' = [store EXCEPT ![t] = [log |-> log[c], whole |-> FALSE]]
          /\ name' = [name EXCEPT ![c] = t]
          /\ spc' = [spc EXCEPT ![c] = "writing"]
  /\ UNCHANGED <<calm, clientVars, sent, rcvd, down, keepRunning, claimed, second,
                 macAt, reads>>

EndSave(c) ==
  /\ spc[c] = "writing"
  /\ store' = [store EXCEPT ![name[c]].whole = TRUE]
  /\ spc' = [spc EXCEPT ![c] = "ok"]
  /\ UNCHANGED <<calm, clientVars, sent, rcvd, down, keepRunning, claimed, second,
                 macAt, reads, name>>

SendOk(c) ==
  /\ spc[c] = "ok"
  /\ down' = [down EXCEPT ![c] = Append(@, Ok)]
  /\ Goto(c, "closed")
  /\ UNCHANGED <<rcvd, claimed, second, macAt, reads>>

\* A read or write throws: end of the stream, 120 s without data, connection
\* reset, disk full.
ThreadFails(c) ==
  /\ ~calm
  /\ Serving(c)
  /\ Goto(c, "closed")
  /\ UNCHANGED <<rcvd, down, claimed, second, macAt, reads>>

\* "exit" is entered at the console; threads that serve a client run on.
Exit ==
  /\ ~calm
  /\ keepRunning
  /\ keepRunning' = FALSE
  /\ UNCHANGED <<calm, clientVars, sent, rcvd, down, spc, claimed, second, macAt,
                 reads, name, store>>

\* The server process ends (killed, or after exit with its last thread) and is
\* started again.  Connections it had, or had not accepted yet, are reset.
Restart ==
  /\ ~calm
  /\ keepRunning' = TRUE
  /\ spc' = [c \in Conns |-> IF cpc[c] = "unused" THEN "none" ELSE "closed"]
  /\ UNCHANGED <<calm, clientVars, sent, rcvd, down, claimed, second, macAt, reads,
                 name, store>>

-----------------------------------------------------------------------------
ClientStep(c) ==
  \/ ReceiveChallenge(c)
  \/ SendSolution(c)
  \/ SendKey(c)
  \/ SendMac(c)
  \/ SendData(c)
  \/ ReceiveAck(c)
  \/ DeleteLog(c)

ServerStep(c) ==
  \/ ReadName(c)
  \/ SendChallenge(c)
  \/ ReadSolution(c)
  \/ ReadKey(c)
  \/ ReadMac(c)
  \/ ReadData(c)
  \/ SendRetry(c)
  \/ \E t \in Ticks : BeginSave(c, t)
  \/ EndSave(c)
  \/ SendOk(c)

Next ==
  \/ \E c \in Conns :
       \/ \E l \in Logs : Connect(c, l)
       \/ ClientStep(c)
       \/ ClientFails(c)
       \/ Accept(c)
       \/ ServerStep(c)
       \/ ThreadFails(c)
  \/ Exit
  \/ Restart

Spec == Init /\ [][Next]_vars

-----------------------------------------------------------------------------
(* Fairness.  Both processes run their threads; every wait has a timeout or  *)
(* ends with the stream.  Nothing obliges a process to fail.                 *)

\* Mutant of ClientGivesUp: the client has no timeout of its own.
ClientGivesUp_NoTimeout(c) ==
  /\ Waiting(c)
  /\ spc[c] = "closed"
  /\ ClientFails(c)

\* 15 s without a message, or the end of the stream.
ClientGivesUp(c) ==
  /\ Waiting(c)
  /\ ClientFails(c)

\* The thread waits for units that are not under way: 120 s, or the end of the
\* stream.
ThreadGivesUp(c) ==
  /\ ~ENABLED ServerStep(c)
  /\ ThreadFails(c)

Fairness ==
  \A c \in Conns :
    /\ WF_vars(ClientStep(c))
    /\ WF_vars(Accept(c))
    /\ WF_vars(ServerStep(c))
    /\ WF_vars(ClientGivesUp(c))
    /\ WF_vars(ThreadGivesUp(c))

FairSpec == Spec /\ Fairness

-----------------------------------------------------------------------------
(* Properties. *)

\* No log is lost: what has been deleted from its machine, because the server
\* said OK (ltsend.c, EntryPoint), is on the server's disk, complete, and no
\* later file has taken its place.
NoLogLost == \A l \in Logs \ disk : l \in Stored

\* Whatever is under received\, even a torn file, is a log of a product that
\* the server recognises, although a server that is shutting down skips the
\* check of the product name.
OnlyKnownStored == \A t \in Ticks : store[t].log \in Known \cup {None}

\* The server gives up on a transmission only with units of it unread, so the
\* retransmission it asks for is read from the middle of the first one: the
\* retry of ClientThread never leads to a saved file.
RetryNeverSaves ==
  \A c \in Conns : second[c] => spc[c] \notin {"save", "writing", "ok"}

\* The client sends a log at most twice per connection.  Its own test does not
\* ensure that ("||" ignores retried); the server asks only once.
AtMostTwoTransmissions == \A c \in Conns : sent[c] <= End

\* The upload implements the abstract delivery of logs.
Delivery == INSTANCE LogDelivery WITH onDisk <- disk, stored <- Stored

ImplementsDelivery == Delivery!Spec

\* Every connection ends on both sides, whoever stops first: no thread of the
\* server and no client waits forever for the other.  (Where nothing ever fails
\* no timeout ends a wait either: KnownLogsDelivered is about those behaviours.)
SessionsEnd ==
  ~calm =>
    \A c \in Conns :
      cpc[c] # "unused" ~> cpc[c] = "closed" /\ spc[c] \in {"none", "closed"}

\* ReadDecryptFile has made all of its reads and data is still under way.
Starved(c) == spc[c] = "retry" /\ Got(c) < DataLen

\* When nothing fails, and name, solution, key and MAC each arrive in one piece
\* (ltrcv makes one Read for each), the two sides never wait for each other:
\* every log of a known product that is sent reaches the server and leaves its
\* machine, however TCP cuts the data, unless it makes more cuts than
\* ReadDecryptFile makes reads.
KnownLogsDelivered ==
  calm /\ [](\A c \in Conns : ~Starved(c)) =>
    \A c \in Conns :
      cpc[c] # "unused" /\ log[c] \in Known \cap Valid ~> log[c] \notin disk
=============================================================================
