-------------------------- MODULE LogTransferProofs --------------------------
(***************************************************************************)
(* Theorems about LogTransfer, for every set of logs and connections,      *)
(* every length of the parts of the stream and every number   *)
(* of reads.                                                               *)
(*                                                                         *)
(* Three inductive invariants, each relative to the ones before:           *)
(*   TypeInv      types, the reads left in the loop of ReadDecryptFile,    *)
(*                which connections have a log, which threads a file;      *)
(*   StreamInv    where in the stream each side is, by its pc;             *)
(*   DeliveryInv  who counts on a log being stored: whoever is about to    *)
(*                send, receive or act on an OK.  It holds because Stored  *)
(*                only grows, and that because a thread completes no file  *)
(*                but its own.                                             *)
(*                                                                         *)
(* The last needs that the clock gives each file the server saves a new    *)
(* name (FreshTicks; the run LogTransferTicks shows that it does).  From   *)
(* it, LogTransfer implements LogDelivery, and so loses no log.            *)
(***************************************************************************)
EXTENDS LogTransfer, SequenceTheorems, TLAPS

-----------------------------------------------------------------------------
(* Types. *)

\* A thread that is about to read data may still read at least once.
ReadsLeft == \A c \in Conns : spc[c] = "data" => reads[c] >= 1

\* A connection that is in use has a log; the server has nothing to do with one
\* that is not.
UsedHasLog ==
  \A c \in Conns :
    IF cpc[c] = "unused" THEN spc[c] = "none" /\ down[c] = <<>>
                         ELSE log[c] \in Logs

\* A thread that writes a file has created it.
WriterHasFile ==
  \A c \in Conns :
    spc[c] = "writing" => name[c] \in Ticks /\ store[name[c]] \in File

TypeInv == TypeOK /\ ReadsLeft /\ UsedHasLog /\ WriterHasFile

LEMMA InitTypeInv == Init => TypeInv
  BY TransferAssumption
  DEF Init, TypeInv, TypeOK, ReadsLeft, UsedHasLog, WriterHasFile, ClientPC,
      ServerPC

\* The effect of a Read on what the thread does not set itself.
LEMMA Reads ==
  ASSUME TypeInv, NEW c \in Conns, NEW n \in Nat, NEW pc \in ServerPC,
         WholeRead(c, n, pc) \/ ShortRead(c, n)
  PROVE  /\ rcvd' \in [Conns -> Nat]
         /\ spc' \in [Conns -> ServerPC]
         /\ UNCHANGED <<calm, clientVars, sent, keepRunning, name, store>>
<1>1. CASE WholeRead(c, n, pc)
  <2>1. /\ rcvd' = [rcvd EXCEPT ![c] = @ + n]
        /\ spc' = [spc EXCEPT ![c] = pc]
        /\ UNCHANGED <<calm, clientVars, sent, keepRunning, name, store>>
    BY <1>1 DEF WholeRead, Goto
  <2>2. QED
    BY <2>1 DEF TypeInv, TypeOK
<1>2. CASE ShortRead(c, n)
  BY <1>2 DEF ShortRead, Goto, TypeInv, TypeOK, ServerPC
<1>3. QED
  BY <1>1, <1>2

LEMMA NextTypeOK ==
  TypeInv /\ [Next]_vars => TypeOK'
<1> SUFFICES ASSUME TypeInv, [Next]_vars
             PROVE  TypeOK'
  OBVIOUS
<1> USE TransferAssumption DEF TypeInv, TypeOK, ClientPC, ServerPC, Messages,
        clientVars, serverVars
<1>1. ASSUME NEW c \in Conns, NEW l \in Logs, Connect(c, l)
      PROVE  TypeOK'
  BY <1>1 DEF Connect
<1>2. ASSUME NEW c \in Conns, ReceiveChallenge(c)
      PROVE  TypeOK'
  BY <1>2, SMTT(60) DEF ReceiveChallenge
<1>3. ASSUME NEW c \in Conns, SendSolution(c)
      PROVE  TypeOK'
  BY <1>3, SMTT(60) DEF SendSolution, Send
<1>4. ASSUME NEW c \in Conns, SendKey(c)
      PROVE  TypeOK'
  BY <1>4, SMTT(60) DEF SendKey, Send
<1>5. ASSUME NEW c \in Conns, SendMac(c)
      PROVE  TypeOK'
  BY <1>5, SMTT(60) DEF SendMac, Send
<1>6. ASSUME NEW c \in Conns, SendData(c)
      PROVE  TypeOK'
  BY <1>6, SMTT(60) DEF SendData, Send
<1>7. ASSUME NEW c \in Conns, ReceiveAck(c)
      PROVE  TypeOK'
  <2>1. down' \in [Conns -> Seq(Messages)]
    BY <1>7 DEF ReceiveAck
  <2>2. cpc' \in [Conns -> ClientPC] /\ retried' \in [Conns -> BOOLEAN]
    BY <1>7 DEF ReceiveAck
  <2>3. QED
    BY <1>7, <2>1, <2>2 DEF ReceiveAck
<1>8. ASSUME NEW c \in Conns, DeleteLog(c)
      PROVE  TypeOK'
  BY <1>8 DEF DeleteLog
<1>9. ASSUME NEW c \in Conns, ClientFails(c)
      PROVE  TypeOK'
  BY <1>9, SMTT(60) DEF ClientFails, Active
<1>10. ASSUME NEW c \in Conns, Accept(c)
      PROVE  TypeOK'
  BY <1>10 DEF Accept, Goto
<1>11. ASSUME NEW c \in Conns, ReadName(c)
      PROVE  TypeOK'
  <2>1. \/ UNCHANGED <<rcvd, claimed>>
        \/ \E k \in 1 .. NameLen : /\ rcvd' = [rcvd EXCEPT ![c] = @ + k]
                                   /\ claimed' = [claimed EXCEPT ![c] = k]
    BY <1>11 DEF ReadName, NameReads
  <2>2. \E pc \in {"challenge", "closed"} : spc' = [spc EXCEPT ![c] = pc]
    BY <1>11 DEF ReadName, Goto
  <2>3. UNCHANGED <<calm, clientVars, sent, keepRunning, name, store, down, second,
                    macAt, reads>>
    BY <1>11 DEF ReadName, Goto
  <2>4. rcvd' \in [Conns -> Nat] /\ claimed' \in [Conns -> 0 .. NameLen]
    BY SMTT(30), <2>1
  <2>5. spc' \in [Conns -> ServerPC]
    BY <2>2
  <2>6. QED
    BY <2>3, <2>4, <2>5
<1>12. ASSUME NEW c \in Conns, SendChallenge(c)
      PROVE  TypeOK'
  BY <1>12, SMTT(60) DEF SendChallenge, Goto
<1>13. ASSUME NEW c \in Conns, ReadSolution(c)
      PROVE  TypeOK'
  <2>1. /\ rcvd' \in [Conns -> Nat] /\ spc' \in [Conns -> ServerPC]
        /\ UNCHANGED <<calm, clientVars, sent, keepRunning, name, store>>
    <3>1. SolLen \in Nat
      BY TransferAssumption
    <3>2. PICK pc \in {"key", "closed"} :
            WholeRead(c, SolLen, pc) \/ ShortRead(c, SolLen)
      BY <1>13 DEF ReadSolution
    <3>3. QED
      BY ONLY <3>1, <3>2, TypeInv, Reads DEF ServerPC
  <2>2. UNCHANGED <<down, claimed, second, macAt, reads>>
    BY <1>13 DEF ReadSolution
  <2>3. QED
    BY <2>1, <2>2
<1>14. ASSUME NEW c \in Conns, ReadKey(c)
      PROVE  TypeOK'
  <2>1. /\ rcvd' \in [Conns -> Nat] /\ spc' \in [Conns -> ServerPC]
        /\ UNCHANGED <<calm, clientVars, sent, keepRunning, name, store>>
    <3>1. KeyLen \in Nat
      BY TransferAssumption
    <3>2. CASE WholeRead(c, KeyLen, "mac") \/ ShortRead(c, KeyLen)
      BY ONLY <3>1, <3>2, TypeInv, Reads DEF ServerPC
    <3>3. CASE Goto(c, "closed") /\ UNCHANGED rcvd
      BY <3>3 DEF Goto
    <3>4. QED
      BY <1>14, <3>2, <3>3 DEF ReadKey
  <2>2. UNCHANGED <<down, claimed, second, macAt, reads>>
    BY <1>14 DEF ReadKey
  <2>3. QED
    BY <2>1, <2>2
<1>15. ASSUME NEW c \in Conns, ReadMac(c)
      PROVE  TypeOK'
  <2>1. /\ rcvd' \in [Conns -> Nat] /\ spc' \in [Conns -> ServerPC]
        /\ UNCHANGED <<calm, clientVars, sent, keepRunning, name, store>>
    <3>1. MacLen \in Nat
      BY TransferAssumption
    <3>2. WholeRead(c, MacLen, "data") \/ ShortRead(c, MacLen)
      BY <1>15 DEF ReadMac
    <3>3. QED
      BY ONLY <3>1, <3>2, TypeInv, Reads DEF ServerPC
  <2>2. /\ macAt' \in [Conns -> Nat] /\ reads' \in [Conns -> 0 .. MaxReads]
        /\ UNCHANGED <<down, claimed, second>>
    <3>1. /\ \/ macAt' = macAt /\ reads' = reads
             \/ /\ macAt' = [macAt EXCEPT ![c] = rcvd[c]]
                /\ reads' = [reads EXCEPT ![c] = MaxReads]
          /\ UNCHANGED <<down, claimed, second>>
      BY <1>15 DEF ReadMac
    <3>2. rcvd[c] \in Nat /\ MaxReads \in 0 .. MaxReads
      BY TransferAssumption
    <3>3. QED
      BY SMTT(30), <3>1, <3>2
  <2>3. QED
    BY <2>1, <2>2
<1>16. ASSUME NEW c \in Conns, ReadData(c)
      PROVE  TypeOK'
  <2>1. \/ UNCHANGED rcvd
        \/ \E k \in 1 .. Unread(c) : rcvd' = [rcvd EXCEPT ![c] = @ + k]
    BY <1>16 DEF ReadData
  <2>2. rcvd' \in [Conns -> Nat]
    <3>1. ASSUME NEW k \in 1 .. Unread(c), rcvd' = [rcvd EXCEPT ![c] = @ + k]
          PROVE  rcvd' \in [Conns -> Nat]
      <4>1. Unread(c) \in Int
        BY DEF Unread
      <4>2. rcvd[c] + k \in Nat
        BY <4>1
      <4>3. QED
        BY <3>1, <4>2
    <3>2. QED
      BY <2>1, <3>1
  <2>3. reads' \in [Conns -> 0 .. MaxReads]
    <3>1. reads' = reads \/ reads' = [reads EXCEPT ![c] = @ - 1]
      BY <1>16 DEF ReadData
    <3>2. reads[c] - 1 \in 0 .. MaxReads
      BY <1>16 DEF ReadData, ReadsLeft
    <3>3. QED
      BY <3>1, <3>2
  <2>4. spc' \in [Conns -> ServerPC]
    <3>1. \A n : AfterRead(c, n) \in ServerPC
      BY DEF AfterRead
    <3>2. \E pc \in ServerPC : spc' = [spc EXCEPT ![c] = pc]
      BY <1>16, <3>1 DEF ReadData, Goto
    <3>3. QED
      BY <3>2
  <2>5. UNCHANGED <<calm, clientVars, sent, keepRunning, name, store, down, claimed,
                    second, macAt>>
    BY <1>16 DEF ReadData, Goto
  <2>6. QED
    BY <2>2, <2>3, <2>4, <2>5
<1>17. ASSUME NEW c \in Conns, SendRetry(c)
      PROVE  TypeOK'
  BY <1>17, SMTT(60) DEF SendRetry, Goto
<1>18. ASSUME NEW c \in Conns, NEW t \in Ticks, BeginSave(c, t)
      PROVE  TypeOK'
  <2> DEFINE torn == [log |-> log[c], whole |-> FALSE]
  <2>1. torn \in File
    BY <1>18 DEF BeginSave, UsedHasLog, File
  <2>2. \/ UNCHANGED <<name, store>>
        \/ /\ store' = [store EXCEPT ![t] = torn]
           /\ name' = [name EXCEPT ![c] = t]
    BY <1>18 DEF BeginSave
  <2>3. \E pc \in {"writing", "closed"} : spc' = [spc EXCEPT ![c] = pc]
    BY <1>18 DEF BeginSave
  <2> HIDE DEF torn
  <2>7. spc' \in [Conns -> ServerPC]
    BY <2>3
  <2>4. store' \in [Ticks -> File \cup {NoFile}]
    BY <2>1, <2>2
  <2>5. name' \in [Conns -> Ticks \cup {None}]
    BY <2>2
  <2>6. QED
    BY <1>18, <2>7, <2>4, <2>5 DEF BeginSave
<1>19. ASSUME NEW c \in Conns, EndSave(c)
      PROVE  TypeOK'
  <2>1. store[name[c]] \in File
    BY <1>19 DEF EndSave, WriterHasFile
  <2>2. [store[name[c]] EXCEPT !.whole = TRUE] \in File
    BY <2>1 DEF File
  <2>3. store' \in [Ticks -> File \cup {NoFile}]
    BY <1>19, <2>2 DEF EndSave
  <2>4. QED
    BY <1>19, <2>3 DEF EndSave
<1>20. ASSUME NEW c \in Conns, SendOk(c)
      PROVE  TypeOK'
  BY <1>20, SMTT(60) DEF SendOk, Goto
<1>21. ASSUME NEW c \in Conns, ThreadFails(c)
      PROVE  TypeOK'
  BY <1>21 DEF ThreadFails, Goto, Serving
<1>22. CASE Exit
  BY <1>22 DEF Exit
<1>23. CASE Restart
  BY <1>23 DEF Restart
<1>24. CASE UNCHANGED vars
  BY <1>24 DEF vars
<1>25. QED
  BY <1>1, <1>2, <1>3, <1>4, <1>5, <1>6, <1>7, <1>8, <1>9, <1>10, <1>11, <1>12,
     <1>13, <1>14, <1>15, <1>16, <1>17, <1>18, <1>19, <1>20, <1>21, <1>22, <1>23,
     <1>24
  DEF Next, ClientStep, ServerStep

LEMMA NextReadsLeft ==
  TypeInv /\ [Next]_vars => ReadsLeft'
<1> SUFFICES ASSUME TypeInv, [Next]_vars
             PROVE  ReadsLeft'
  OBVIOUS
<1> USE TransferAssumption DEF TypeInv, TypeOK, ReadsLeft, clientVars, serverVars
<1>1. ASSUME NEW c \in Conns, NEW l \in Logs, Connect(c, l)
      PROVE  ReadsLeft'
  BY <1>1 DEF Connect
<1>2. ASSUME NEW c \in Conns, ReceiveChallenge(c)
      PROVE  ReadsLeft'
  BY <1>2 DEF ReceiveChallenge
<1>3. ASSUME NEW c \in Conns, SendSolution(c)
      PROVE  ReadsLeft'
  BY <1>3 DEF SendSolution, Send
<1>4. ASSUME NEW c \in Conns, SendKey(c)
      PROVE  ReadsLeft'
  BY <1>4 DEF SendKey, Send
<1>5. ASSUME NEW c \in Conns, SendMac(c)
      PROVE  ReadsLeft'
  BY <1>5 DEF SendMac, Send
<1>6. ASSUME NEW c \in Conns, SendData(c)
      PROVE  ReadsLeft'
  BY <1>6 DEF SendData, Send
<1>7. ASSUME NEW c \in Conns, ReceiveAck(c)
      PROVE  ReadsLeft'
  BY <1>7 DEF ReceiveAck
<1>8. ASSUME NEW c \in Conns, DeleteLog(c)
      PROVE  ReadsLeft'
  BY <1>8 DEF DeleteLog
<1>9. ASSUME NEW c \in Conns, ClientFails(c)
      PROVE  ReadsLeft'
  BY <1>9 DEF ClientFails, Active
<1>10. ASSUME NEW c \in Conns, Accept(c)
      PROVE  ReadsLeft'
  BY <1>10 DEF Accept, Goto
<1>11. ASSUME NEW c \in Conns, ReadName(c)
      PROVE  ReadsLeft'
  BY <1>11 DEF ReadName, Goto, NameReads
<1>12. ASSUME NEW c \in Conns, SendChallenge(c)
      PROVE  ReadsLeft'
  BY <1>12 DEF SendChallenge, Goto
<1>13. ASSUME NEW c \in Conns, ReadSolution(c)
      PROVE  ReadsLeft'
  BY <1>13 DEF ReadSolution, WholeRead, ShortRead, Goto
<1>14. ASSUME NEW c \in Conns, ReadKey(c)
      PROVE  ReadsLeft'
  BY <1>14 DEF ReadKey, WholeRead, ShortRead, Goto
<1>15. ASSUME NEW c \in Conns, ReadMac(c)
      PROVE  ReadsLeft'
  <2>1. MaxReads >= 1 /\ MaxReads \in Nat
    BY TransferAssumption
  <2>2. CASE /\ spc' = [spc EXCEPT ![c] = "data"]
             /\ reads' = [reads EXCEPT ![c] = MaxReads]
    BY <2>1, <2>2
  <2>3. CASE spc' = [spc EXCEPT ![c] = "closed"] /\ reads' = reads
    BY <2>3
  <2>4. QED
    BY <1>15, <2>2, <2>3 DEF ReadMac, WholeRead, ShortRead, Goto
<1>16. ASSUME NEW c \in Conns, ReadData(c)
      PROVE  ReadsLeft'
  BY SMTT(30), <1>16 DEF ReadData, Goto, AfterRead
<1>17. ASSUME NEW c \in Conns, SendRetry(c)
      PROVE  ReadsLeft'
  BY <1>17 DEF SendRetry, Goto
<1>18. ASSUME NEW c \in Conns, NEW t \in Ticks, BeginSave(c, t)
      PROVE  ReadsLeft'
  BY <1>18 DEF BeginSave
<1>19. ASSUME NEW c \in Conns, EndSave(c)
      PROVE  ReadsLeft'
  BY <1>19 DEF EndSave
<1>20. ASSUME NEW c \in Conns, SendOk(c)
      PROVE  ReadsLeft'
  BY <1>20 DEF SendOk, Goto
<1>21. ASSUME NEW c \in Conns, ThreadFails(c)
      PROVE  ReadsLeft'
  BY <1>21 DEF ThreadFails, Goto, Serving
<1>22. CASE Exit
  BY <1>22 DEF Exit
<1>23. CASE Restart
  BY <1>23 DEF Restart
<1>24. CASE UNCHANGED vars
  BY <1>24 DEF vars
<1>25. QED
  BY <1>1, <1>2, <1>3, <1>4, <1>5, <1>6, <1>7, <1>8, <1>9, <1>10, <1>11, <1>12,
     <1>13, <1>14, <1>15, <1>16, <1>17, <1>18, <1>19, <1>20, <1>21, <1>22, <1>23,
     <1>24
  DEF Next, ClientStep, ServerStep

LEMMA NextUsedHasLog ==
  TypeInv /\ [Next]_vars => UsedHasLog'
<1> SUFFICES ASSUME TypeInv, [Next]_vars
             PROVE  UsedHasLog'
  OBVIOUS
<1> USE TransferAssumption DEF TypeInv, TypeOK, UsedHasLog, clientVars, serverVars
<1>1. ASSUME NEW c \in Conns, NEW l \in Logs, Connect(c, l)
      PROVE  UsedHasLog'
  BY <1>1 DEF Connect
<1>2. ASSUME NEW c \in Conns, ReceiveChallenge(c)
      PROVE  UsedHasLog'
  BY <1>2 DEF ReceiveChallenge
<1>3. ASSUME NEW c \in Conns, SendSolution(c)
      PROVE  UsedHasLog'
  BY <1>3 DEF SendSolution, Send
<1>4. ASSUME NEW c \in Conns, SendKey(c)
      PROVE  UsedHasLog'
  BY <1>4 DEF SendKey, Send
<1>5. ASSUME NEW c \in Conns, SendMac(c)
      PROVE  UsedHasLog'
  BY <1>5 DEF SendMac, Send
<1>6. ASSUME NEW c \in Conns, SendData(c)
      PROVE  UsedHasLog'
  BY <1>6 DEF SendData, Send
<1>7. ASSUME NEW c \in Conns, ReceiveAck(c)
      PROVE  UsedHasLog'
  BY <1>7 DEF ReceiveAck
<1>8. ASSUME NEW c \in Conns, DeleteLog(c)
      PROVE  UsedHasLog'
  BY <1>8 DEF DeleteLog
<1>9. ASSUME NEW c \in Conns, ClientFails(c)
      PROVE  UsedHasLog'
  BY <1>9 DEF ClientFails, Active
<1>10. ASSUME NEW c \in Conns, Accept(c)
      PROVE  UsedHasLog'
  BY <1>10 DEF Accept, Goto
<1>11. ASSUME NEW c \in Conns, ReadName(c)
      PROVE  UsedHasLog'
  BY <1>11 DEF ReadName, Goto, NameReads
<1>12. ASSUME NEW c \in Conns, SendChallenge(c)
      PROVE  UsedHasLog'
  BY <1>12 DEF SendChallenge, Goto
<1>13. ASSUME NEW c \in Conns, ReadSolution(c)
      PROVE  UsedHasLog'
  BY <1>13 DEF ReadSolution, WholeRead, ShortRead, Goto
<1>14. ASSUME NEW c \in Conns, ReadKey(c)
      PROVE  UsedHasLog'
  BY <1>14 DEF ReadKey, WholeRead, ShortRead, Goto
<1>15. ASSUME NEW c \in Conns, ReadMac(c)
      PROVE  UsedHasLog'
  BY <1>15 DEF ReadMac, WholeRead, ShortRead, Goto
<1>16. ASSUME NEW c \in Conns, ReadData(c)
      PROVE  UsedHasLog'
  BY <1>16 DEF ReadData, Goto, AfterRead
<1>17. ASSUME NEW c \in Conns, SendRetry(c)
      PROVE  UsedHasLog'
  BY <1>17 DEF SendRetry, Goto
<1>18. ASSUME NEW c \in Conns, NEW t \in Ticks, BeginSave(c, t)
      PROVE  UsedHasLog'
  BY <1>18 DEF BeginSave
<1>19. ASSUME NEW c \in Conns, EndSave(c)
      PROVE  UsedHasLog'
  BY <1>19 DEF EndSave
<1>20. ASSUME NEW c \in Conns, SendOk(c)
      PROVE  UsedHasLog'
  BY <1>20 DEF SendOk, Goto
<1>21. ASSUME NEW c \in Conns, ThreadFails(c)
      PROVE  UsedHasLog'
  BY <1>21 DEF ThreadFails, Goto, Serving
<1>22. CASE Exit
  BY <1>22 DEF Exit
<1>23. CASE Restart
  BY <1>23 DEF Restart
<1>24. CASE UNCHANGED vars
  BY <1>24 DEF vars
<1>25. QED
  BY <1>1, <1>2, <1>3, <1>4, <1>5, <1>6, <1>7, <1>8, <1>9, <1>10, <1>11, <1>12,
     <1>13, <1>14, <1>15, <1>16, <1>17, <1>18, <1>19, <1>20, <1>21, <1>22, <1>23,
     <1>24
  DEF Next, ClientStep, ServerStep

LEMMA NextWriterHasFile ==
  TypeInv /\ [Next]_vars => WriterHasFile'
<1> SUFFICES ASSUME TypeInv, [Next]_vars
             PROVE  WriterHasFile'
  OBVIOUS
<1> USE TransferAssumption DEF TypeInv, TypeOK, WriterHasFile, clientVars, serverVars
<1>1. ASSUME NEW c \in Conns, NEW l \in Logs, Connect(c, l)
      PROVE  WriterHasFile'
  BY <1>1 DEF Connect
<1>2. ASSUME NEW c \in Conns, ReceiveChallenge(c)
      PROVE  WriterHasFile'
  BY <1>2 DEF ReceiveChallenge
<1>3. ASSUME NEW c \in Conns, SendSolution(c)
      PROVE  WriterHasFile'
  BY <1>3 DEF SendSolution, Send
<1>4. ASSUME NEW c \in Conns, SendKey(c)
      PROVE  WriterHasFile'
  BY <1>4 DEF SendKey, Send
<1>5. ASSUME NEW c \in Conns, SendMac(c)
      PROVE  WriterHasFile'
  BY <1>5 DEF SendMac, Send
<1>6. ASSUME NEW c \in Conns, SendData(c)
      PROVE  WriterHasFile'
  BY <1>6 DEF SendData, Send
<1>7. ASSUME NEW c \in Conns, ReceiveAck(c)
      PROVE  WriterHasFile'
  BY <1>7 DEF ReceiveAck
<1>8. ASSUME NEW c \in Conns, DeleteLog(c)
      PROVE  WriterHasFile'
  BY <1>8 DEF DeleteLog
<1>9. ASSUME NEW c \in Conns, ClientFails(c)
      PROVE  WriterHasFile'
  BY <1>9 DEF ClientFails, Active
<1>10. ASSUME NEW c \in Conns, Accept(c)
      PROVE  WriterHasFile'
  BY <1>10 DEF Accept, Goto
<1>11. ASSUME NEW c \in Conns, ReadName(c)
      PROVE  WriterHasFile'
  BY <1>11 DEF ReadName, Goto, NameReads
<1>12. ASSUME NEW c \in Conns, SendChallenge(c)
      PROVE  WriterHasFile'
  BY <1>12 DEF SendChallenge, Goto
<1>13. ASSUME NEW c \in Conns, ReadSolution(c)
      PROVE  WriterHasFile'
  BY <1>13 DEF ReadSolution, WholeRead, ShortRead, Goto
<1>14. ASSUME NEW c \in Conns, ReadKey(c)
      PROVE  WriterHasFile'
  BY <1>14 DEF ReadKey, WholeRead, ShortRead, Goto
<1>15. ASSUME NEW c \in Conns, ReadMac(c)
      PROVE  WriterHasFile'
  BY <1>15 DEF ReadMac, WholeRead, ShortRead, Goto
<1>16. ASSUME NEW c \in Conns, ReadData(c)
      PROVE  WriterHasFile'
  BY SMTT(30), <1>16 DEF ReadData, Goto, AfterRead
<1>17. ASSUME NEW c \in Conns, SendRetry(c)
      PROVE  WriterHasFile'
  BY <1>17 DEF SendRetry, Goto
<1>18. ASSUME NEW c \in Conns, NEW t \in Ticks, BeginSave(c, t)
      PROVE  WriterHasFile'
  <2> DEFINE torn == [log |-> log[c], whole |-> FALSE]
  <2>1. torn \in File
    BY <1>18 DEF BeginSave, UsedHasLog, File
  <2>2. \/ /\ UNCHANGED <<name, store>>
           /\ spc' = [spc EXCEPT ![c] = "closed"]
        \/ /\ store' = [store EXCEPT ![t] = torn]
           /\ name' = [name EXCEPT ![c] = t]
           /\ spc' = [spc EXCEPT ![c] = "writing"]
    BY <1>18 DEF BeginSave
  <2> HIDE DEF torn
  <2>3. CASE UNCHANGED <<name, store>> /\ spc' = [spc EXCEPT ![c] = "closed"]
    BY <2>3
  <2>4. CASE /\ store' = [store EXCEPT ![t] = torn]
             /\ name' = [name EXCEPT ![c] = t]
             /\ spc' = [spc EXCEPT ![c] = "writing"]
    BY <2>1, <2>4
  <2>5. QED
    BY <2>2, <2>3, <2>4
<1>19. ASSUME NEW c \in Conns, EndSave(c)
      PROVE  WriterHasFile'
  <2>1. store[name[c]] \in File /\ name[c] \in Ticks
    BY <1>19 DEF EndSave
  <2>2. [store[name[c]] EXCEPT !.whole = TRUE] \in File
    BY <2>1 DEF File
  <2>3. QED
    BY <1>19, <2>1, <2>2 DEF EndSave
<1>20. ASSUME NEW c \in Conns, SendOk(c)
      PROVE  WriterHasFile'
  BY <1>20 DEF SendOk, Goto
<1>21. ASSUME NEW c \in Conns, ThreadFails(c)
      PROVE  WriterHasFile'
  BY <1>21 DEF ThreadFails, Goto, Serving
<1>22. CASE Exit
  BY <1>22 DEF Exit
<1>23. CASE Restart
  BY <1>23 DEF Restart
<1>24. CASE UNCHANGED vars
  BY <1>24 DEF vars
<1>25. QED
  BY <1>1, <1>2, <1>3, <1>4, <1>5, <1>6, <1>7, <1>8, <1>9, <1>10, <1>11, <1>12,
     <1>13, <1>14, <1>15, <1>16, <1>17, <1>18, <1>19, <1>20, <1>21, <1>22, <1>23,
     <1>24
  DEF Next, ClientStep, ServerStep

LEMMA TypeInvariant == Spec => []TypeInv
<1>1. TypeInv /\ [Next]_vars => TypeInv'
  BY NextTypeOK, NextReadsLeft, NextUsedHasLog, NextWriterHasFile DEF TypeInv
<1>2. QED
  BY InitTypeInv, <1>1, PTL DEF Spec

\* Every variable of both sides keeps its type; in particular the reads left in
\* the loop of ReadDecryptFile never go below zero.
THEOREM TypeCorrect == Spec => []TypeOK
<1>1. TypeInv => TypeOK
  BY DEF TypeInv
<1>2. QED
  BY TypeInvariant, <1>1, PTL

-----------------------------------------------------------------------------
(* Whose logs are stored. *)

\* What was claimed as the name is recognised wherever the thread can still save
\* the log; but for a server that is shutting down, wherever the thread has passed
\* the name.
KnownServed ==
  \A c \in Conns :
    \/ claimed[c] \in Recognized[log[c]]
    \/ spc[c] \in {"none", "name", "closed"}
    \/ ~keepRunning /\ spc[c] \in {"challenge", "solution", "key"}

KnownInv == OnlyKnownStored /\ KnownServed

LEMMA NextKnownServed ==
  TypeInv /\ KnownInv /\ [Next]_vars => KnownServed'
<1> SUFFICES ASSUME TypeInv, KnownInv, [Next]_vars
             PROVE  KnownServed'
  OBVIOUS
<1> USE TransferAssumption DEF TypeInv, TypeOK, UsedHasLog, KnownInv, KnownServed, clientVars,
        serverVars
<1>1. ASSUME NEW c \in Conns, NEW l \in Logs, Connect(c, l)
      PROVE  KnownServed'
  BY <1>1 DEF Connect
<1>2. ASSUME NEW c \in Conns, ReceiveChallenge(c)
      PROVE  KnownServed'
  BY <1>2 DEF ReceiveChallenge
<1>3. ASSUME NEW c \in Conns, SendSolution(c)
      PROVE  KnownServed'
  BY <1>3 DEF SendSolution, Send
<1>4. ASSUME NEW c \in Conns, SendKey(c)
      PROVE  KnownServed'
  BY <1>4 DEF SendKey, Send
<1>5. ASSUME NEW c \in Conns, SendMac(c)
      PROVE  KnownServed'
  BY <1>5 DEF SendMac, Send
<1>6. ASSUME NEW c \in Conns, SendData(c)
      PROVE  KnownServed'
  BY <1>6 DEF SendData, Send
<1>7. ASSUME NEW c \in Conns, ReceiveAck(c)
      PROVE  KnownServed'
  BY <1>7 DEF ReceiveAck
<1>8. ASSUME NEW c \in Conns, DeleteLog(c)
      PROVE  KnownServed'
  BY <1>8 DEF DeleteLog
<1>9. ASSUME NEW c \in Conns, ClientFails(c)
      PROVE  KnownServed'
  BY <1>9 DEF ClientFails, Active
<1>10. ASSUME NEW c \in Conns, Accept(c)
      PROVE  KnownServed'
  BY <1>10 DEF Accept, Goto
<1>11. ASSUME NEW c \in Conns, ReadName(c)
      PROVE  KnownServed'
  <2>1. spc[c] = "name" /\ UNCHANGED <<log, keepRunning>>
    BY <1>11 DEF ReadName, Goto
  <2>2. CASE /\ ~keepRunning
             /\ spc' = [spc EXCEPT ![c] = "challenge"]
             /\ UNCHANGED claimed
    BY <2>1, <2>2
  <2>3. ASSUME NEW k \in 1 .. NameLen, NEW pc \in {"challenge", "closed"},
               pc = "closed" \/ k \in Recognized[log[c]],
               claimed' = [claimed EXCEPT ![c] = k],
               spc' = [spc EXCEPT ![c] = pc]
        PROVE  KnownServed'
    BY <2>1, <2>3
  <2>4. ASSUME ~(~keepRunning /\ spc' = [spc EXCEPT ![c] = "challenge"]
                 /\ UNCHANGED claimed)
        PROVE  \E k \in 1 .. NameLen :
                 /\ claimed' = [claimed EXCEPT ![c] = k]
                 /\ spc' = [spc EXCEPT ![c] = IF k \in Recognized[log[c]]
                                             THEN "challenge" ELSE "closed"]
    BY <1>11, <2>4 DEF ReadName, Goto, NameReads
  <2>5. QED
    BY <2>2, <2>3, <2>4
<1>12. ASSUME NEW c \in Conns, SendChallenge(c)
      PROVE  KnownServed'
  BY <1>12 DEF SendChallenge, Goto
<1>13. ASSUME NEW c \in Conns, ReadSolution(c)
      PROVE  KnownServed'
  BY <1>13 DEF ReadSolution, WholeRead, ShortRead, Goto
<1>14. ASSUME NEW c \in Conns, ReadKey(c)
      PROVE  KnownServed'
  BY <1>14 DEF ReadKey, WholeRead, ShortRead, Goto
<1>15. ASSUME NEW c \in Conns, ReadMac(c)
      PROVE  KnownServed'
  BY <1>15 DEF ReadMac, WholeRead, ShortRead, Goto
<1>16. ASSUME NEW c \in Conns, ReadData(c)
      PROVE  KnownServed'
  <2>1. spc[c] = "data" /\ UNCHANGED <<log, claimed, keepRunning>>
    BY <1>16 DEF ReadData, Goto
  <2>2. \E pc \in ServerPC : spc' = [spc EXCEPT ![c] = pc]
    BY <1>16 DEF ReadData, Goto, AfterRead, ServerPC
  <2>3. QED
    BY <2>1, <2>2
<1>17. ASSUME NEW c \in Conns, SendRetry(c)
      PROVE  KnownServed'
  BY <1>17 DEF SendRetry, Goto
<1>18. ASSUME NEW c \in Conns, NEW t \in Ticks, BeginSave(c, t)
      PROVE  KnownServed'
  BY <1>18 DEF BeginSave
<1>19. ASSUME NEW c \in Conns, EndSave(c)
      PROVE  KnownServed'
  BY <1>19 DEF EndSave
<1>20. ASSUME NEW c \in Conns, SendOk(c)
      PROVE  KnownServed'
  BY <1>20 DEF SendOk, Goto
<1>21. ASSUME NEW c \in Conns, ThreadFails(c)
      PROVE  KnownServed'
  BY <1>21 DEF ThreadFails, Goto, Serving
<1>22. CASE Exit
  BY <1>22 DEF Exit
<1>23. CASE Restart
  BY <1>23 DEF Restart
<1>24. CASE UNCHANGED vars
  BY <1>24 DEF vars
<1>25. QED
  BY <1>1, <1>2, <1>3, <1>4, <1>5, <1>6, <1>7, <1>8, <1>9, <1>10, <1>11, <1>12,
     <1>13, <1>14, <1>15, <1>16, <1>17, <1>18, <1>19, <1>20, <1>21, <1>22, <1>23,
     <1>24
  DEF Next, ClientStep, ServerStep

LEMMA NextOnlyKnownStored ==
  TypeInv /\ KnownInv /\ [Next]_vars => OnlyKnownStored'
<1> SUFFICES ASSUME TypeInv, KnownInv, [Next]_vars
             PROVE  OnlyKnownStored'
  OBVIOUS
<1> USE DEF KnownInv
<1>1. ASSUME NEW c \in Conns, NEW t \in Ticks, BeginSave(c, t)
      PROVE  OnlyKnownStored'
  <2> DEFINE torn == [log |-> log[c], whole |-> FALSE]
  <2>1. \/ store' = store
        \/ claimed[c] = NameLen /\ store' = [store EXCEPT ![t] = torn]
    BY <1>1 DEF BeginSave
  <2>2. claimed[c] \in Recognized[log[c]] /\ log[c] \in Logs
    BY <1>1 DEF BeginSave, KnownServed, TypeInv, UsedHasLog
  <2>3. claimed[c] = NameLen => torn.log \in Known
    BY <2>2 DEF Known
  <2> HIDE DEF torn
  <2>4. QED
    BY <2>1, <2>3 DEF OnlyKnownStored, TypeInv, TypeOK
<1>2. ASSUME NEW c \in Conns, EndSave(c)
      PROVE  OnlyKnownStored'
  <2>1. name[c] \in Ticks /\ store[name[c]] \in File
    BY <1>2 DEF EndSave, TypeInv, WriterHasFile
  <2>2. store' = [store EXCEPT ![name[c]] = [@ EXCEPT !.whole = TRUE]]
    BY <1>2 DEF EndSave
  <2>3. store'[name[c]].log = store[name[c]].log
    BY <2>1, <2>2 DEF File, TypeInv, TypeOK
  <2>4. \A t \in Ticks : t # name[c] => store'[t] = store[t]
    BY <2>2 DEF TypeInv, TypeOK
  <2>5. QED
    BY <2>1, <2>3, <2>4 DEF OnlyKnownStored
<1>3. ASSUME UNCHANGED store
      PROVE  OnlyKnownStored'
  BY <1>3 DEF OnlyKnownStored
<1>4. QED
  BY <1>1, <1>2, <1>3
  DEF Next, ClientStep, ServerStep, Connect, ReceiveChallenge, SendSolution,
      SendKey, SendMac, SendData, Send, ReceiveAck, DeleteLog, ClientFails,
      Accept, ReadName, SendChallenge, ReadSolution, ReadKey, ReadMac,
      WholeRead, ShortRead, ReadData,
      SendRetry, SendOk, ThreadFails, Goto, Exit, Restart, vars, serverVars

LEMMA InitKnownInv == Init => KnownInv
  BY DEF Init, KnownInv, KnownServed, OnlyKnownStored, NoFile

\* Nothing of an unknown product is ever stored, not even a torn file.
THEOREM OnlyKnownProducts == Spec => []OnlyKnownStored
<1>1. TypeInv /\ KnownInv /\ [Next]_vars => KnownInv'
  BY NextKnownServed, NextOnlyKnownStored DEF KnownInv
<1>2. KnownInv => OnlyKnownStored
  BY DEF KnownInv
<1>3. QED
  BY TypeInvariant, InitKnownInv, <1>1, <1>2, PTL DEF Spec

-----------------------------------------------------------------------------
(* Where in the stream each side is. *)

\* No unit is read that has not been sent.
ReadAfterSent == \A c \in Conns : rcvd[c] <= sent[c]

\* What a client has sent when it reaches a pc, before any retransmission.
ClientAt(pc) ==
  CASE pc = "unused" -> 0
    [] pc \in {"challenge", "solution"} -> SolAt
    [] pc = "key" -> KeyAt
    [] pc = "mac" -> PairAt
    [] pc = "data" -> PairAt + MacLen
    [] OTHER -> RetryAt

\* How far a client is, by its pc and by whether it has been asked for a retry.
Base(c) == IF retried[c] THEN PairLen ELSE 0

ClientPlaceOf(c) ==
  /\ cpc[c] = "closed" => sent[c] <= RetryAt + Base(c)
  /\ cpc[c] # "closed" => sent[c] = ClientAt(cpc[c]) + Base(c)
  /\ retried[c] => cpc[c] \in {"mac", "data", "ack", "delete", "closed"}

ClientPlace == \A c \in Conns : ClientPlaceOf(c)

\* A connection sees one RE at most, which the server sends when it turns to its
\* second ReadDecryptFile: under way, or received and never again under way.
RetryOnceOf(c) ==
  /\ ~second[c] => ~retried[c]
  /\ \A i \in 1 .. Len(down[c]) :
       down[c][i] = Retry =>
         /\ second[c]
         /\ ~retried[c]
         /\ \A j \in 1 .. Len(down[c]) : down[c][j] = Retry => i = j

RetryOnce == \A c \in Conns : RetryOnceOf(c)

\* How far the server is, by the pc of its thread.  A second ReadDecryptFile
\* starts, and so finds its MAC, strictly inside the first transmission.
ServerPlaceOf(c) ==
  /\ spc[c] \in {"none", "name"} => rcvd[c] = 0
  /\ keepRunning /\ spc[c] = "key" => rcvd[c] = KeyAt
  /\ second[c] => spc[c] \in {"mac", "data", "closed"}
  /\ spc[c] = "mac" =>
       IF second[c] THEN PairAt < rcvd[c] /\ rcvd[c] < RetryAt
                    ELSE rcvd[c] = PairAt
  /\ spc[c] = "data" =>
       /\ macAt[c] + MacLen <= rcvd[c]
       /\ IF second[c] THEN PairAt < macAt[c] /\ macAt[c] < RetryAt
                       ELSE macAt[c] = PairAt
  /\ spc[c] = "retry" => PairAt < rcvd[c] /\ rcvd[c] < RetryAt

ServerPlace == \A c \in Conns : ServerPlaceOf(c)

StreamInv == ReadAfterSent /\ ClientPlace /\ RetryOnce /\ ServerPlace

LEMMA Layout ==
  /\ MacLen \in Nat /\ DataLen \in Nat /\ PairLen \in Nat
  /\ SolAt \in Nat /\ KeyAt \in Nat /\ PairAt \in Nat /\ RetryAt \in Nat
  /\ 0 < MacLen /\ 0 < DataLen
  /\ SolAt = NameLen
  /\ KeyAt = SolAt + SolLen
  /\ PairAt = KeyAt + KeyLen
  /\ PairLen = MacLen + DataLen
  /\ RetryAt = PairAt + PairLen
  /\ End = RetryAt + PairLen
  /\ NameLen \in Nat /\ 0 < NameLen /\ SolLen \in Nat /\ KeyLen \in Nat
  BY TransferAssumption
  DEF SolAt, KeyAt, PairAt, PairLen, RetryAt, End

LEMMA InitStreamInv == Init => StreamInv
  BY Layout
  DEF Init, StreamInv, ReadAfterSent, ClientPlace, ClientPlaceOf, ClientAt, Base,
      RetryOnce, RetryOnceOf, ServerPlace, ServerPlaceOf

\* A step of the server reads no more than is under way.
LEMMA ReadKeepsReadAfterSent ==
  ASSUME TypeInv, ReadAfterSent, NEW c \in Conns, NEW n \in Nat,
         n <= Unread(c), rcvd' = [rcvd EXCEPT ![c] = @ + n], sent' = sent
  PROVE  ReadAfterSent'
  BY DEF ReadAfterSent, Unread, TypeInv, TypeOK

LEMMA SendKeepsReadAfterSent ==
  ASSUME TypeInv, ReadAfterSent, NEW c \in Conns, NEW n \in Nat,
         sent' = [sent EXCEPT ![c] = @ + n], rcvd' = rcvd
  PROVE  ReadAfterSent'
  BY DEF ReadAfterSent, TypeInv, TypeOK

LEMMA NextReadAfterSent ==
  TypeInv /\ StreamInv /\ [Next]_vars => ReadAfterSent'
<1> SUFFICES ASSUME TypeInv, StreamInv, [Next]_vars
             PROVE  ReadAfterSent'
  OBVIOUS
<1>1. ReadAfterSent
  BY DEF StreamInv
<1>2. ASSUME NEW c \in Conns, NEW l \in Logs, Connect(c, l)
      PROVE  ReadAfterSent'
  <2>1. sent[c] = 0 /\ sent' = [sent EXCEPT ![c] = NameLen] /\ rcvd' = rcvd
    BY <1>2, Layout
    DEF Connect, StreamInv, ClientPlace, ClientPlaceOf, ClientAt, Base
  <2>2. sent' = [sent EXCEPT ![c] = @ + NameLen] /\ NameLen \in Nat
    BY <2>1, Layout
  <2>3. QED
    BY <1>1, <2>1, <2>2, SendKeepsReadAfterSent
<1>3. ASSUME NEW c \in Conns,
             \/ SendSolution(c) \/ SendKey(c) \/ SendMac(c) \/ SendData(c)
      PROVE  ReadAfterSent'
  BY <1>1, <1>3, Layout, SendKeepsReadAfterSent
  DEF SendSolution, SendKey, SendMac, SendData, Send
<1>4. ASSUME NEW c \in Conns, ClientFails(c)
      PROVE  ReadAfterSent'
  <2>1. PICK n \in (IF cpc[c] = "data" THEN 0 .. DataLen - 1 ELSE {0}) :
          sent' = [sent EXCEPT ![c] = @ + n]
    BY <1>4 DEF ClientFails
  <2>2. n \in Nat /\ rcvd' = rcvd
    BY <1>4, <2>1, Layout DEF ClientFails
  <2>3. QED
    BY <1>1, <2>1, <2>2, SendKeepsReadAfterSent
<1>5. ASSUME NEW c \in Conns, ReadName(c)
      PROVE  ReadAfterSent'
  <2>1. CASE UNCHANGED <<rcvd, sent>>
    BY <1>1, <2>1 DEF ReadAfterSent
  <2>2. ASSUME NEW k \in 1 .. NameLen, k <= Unread(c),
               rcvd' = [rcvd EXCEPT ![c] = @ + k], sent' = sent
        PROVE  ReadAfterSent'
    <3>1. k \in Nat
      BY Layout
    <3>2. QED
      BY <1>1, <2>2, <3>1, ReadKeepsReadAfterSent
  <2>3. QED
    BY <1>5, <2>1, <2>2 DEF ReadName, Goto, NameReads
<1>6. ASSUME UNCHANGED <<sent, rcvd>>
      PROVE  ReadAfterSent'
  BY <1>1, <1>6 DEF ReadAfterSent
<1>7. ASSUME NEW c \in Conns, NEW n \in Nat, NEW pc, WholeRead(c, n, pc)
      PROVE  ReadAfterSent'
  <2>1. /\ n <= Unread(c)
        /\ rcvd' = [rcvd EXCEPT ![c] = @ + n]
        /\ sent' = sent
    BY <1>7 DEF WholeRead, Goto, Unread, TypeInv, TypeOK
  <2>2. QED
    BY <1>1, <2>1, ReadKeepsReadAfterSent
<1>8. ASSUME NEW c \in Conns, ReadSolution(c) \/ ReadKey(c) \/ ReadMac(c)
      PROVE  ReadAfterSent'
  <2>1. SolLen \in Nat /\ KeyLen \in Nat /\ MacLen \in Nat
    BY Layout
  <2>2. ASSUME NEW n \in Nat, ShortRead(c, n)
        PROVE  ReadAfterSent'
    BY <1>6, <2>2 DEF ShortRead, Goto
  <2>3. CASE ReadSolution(c)
    BY <1>7, <2>1, <2>2, <2>3 DEF ReadSolution
  <2>4. CASE ReadKey(c)
    <3>1. ~keepRunning => UNCHANGED <<sent, rcvd>>
      BY <2>4 DEF ReadKey, Goto
    <3>2. keepRunning => WholeRead(c, KeyLen, "mac") \/ ShortRead(c, KeyLen)
      BY <2>4 DEF ReadKey
    <3>3. QED
      BY <1>6, <1>7, <2>1, <2>2, <3>1, <3>2
  <2>5. CASE ReadMac(c)
    BY <1>7, <2>1, <2>2, <2>5 DEF ReadMac
  <2>6. QED
    BY <1>8, <2>3, <2>4, <2>5
<1>9. ASSUME NEW c \in Conns, ReadData(c)
      PROVE  ReadAfterSent'
  <2>1. ASSUME NEW k \in 1 .. Unread(c), rcvd' = [rcvd EXCEPT ![c] = @ + k]
        PROVE  ReadAfterSent'
    <3>1. k \in Nat /\ k <= Unread(c) /\ sent' = sent
      <4>1. Unread(c) \in Int /\ sent' = sent
        BY <1>9 DEF ReadData, Goto, Unread, TypeInv, TypeOK
      <4>2. QED
        BY <2>1, <4>1
    <3>2. QED
      BY <1>1, <2>1, <3>1, ReadKeepsReadAfterSent
  <2>2. QED
    BY <1>6, <1>9, <2>1 DEF ReadData, Goto
<1>10. QED
  BY <1>2, <1>3, <1>4, <1>5, <1>6, <1>8, <1>9
  DEF Next, ClientStep, ServerStep, ReceiveChallenge, ReceiveAck, DeleteLog,
      Accept, SendChallenge, SendRetry, BeginSave, EndSave, SendOk, ThreadFails,
      Goto, Exit, Restart, vars, clientVars, serverVars

-----------------------------------------------------------------------------
(* What the steps leave alone. *)

LEMMA ServerFrame ==
  ASSUME NEW c \in Conns, Accept(c) \/ ServerStep(c) \/ ThreadFails(c)
  PROVE  UNCHANGED <<clientVars, sent>>
  BY DEF Accept, ServerStep, ReadName, SendChallenge, ReadSolution, ReadKey, ReadMac,
         WholeRead, ShortRead, ReadData, SendRetry, BeginSave, EndSave, SendOk, ThreadFails, Goto

LEMMA OtherFrame ==
  ASSUME Exit \/ Restart \/ UNCHANGED vars
  PROVE  UNCHANGED <<clientVars, sent, rcvd, down, second, macAt, reads, name,
                     store>>
  BY DEF Exit, Restart, vars, clientVars, serverVars

-----------------------------------------------------------------------------
(* The client keeps its place. *)

LEMMA OtherClientPlaces ==
  ASSUME TypeInv, ClientPlace, NEW c \in Conns,
         \A d \in Conns \ {c} : /\ cpc'[d] = cpc[d]
                                /\ sent'[d] = sent[d]
                                /\ retried'[d] = retried[d],
         ClientPlaceOf(c)'
  PROVE  ClientPlace'
<1> SUFFICES ASSUME NEW d \in Conns, d # c
             PROVE  ClientPlaceOf(d)'
  BY DEF ClientPlace
<1>1. ClientPlaceOf(d)
  BY DEF ClientPlace
<1>2. QED
  BY <1>1 DEF ClientPlaceOf, Base

LEMMA SendKeepsPlace ==
  ASSUME TypeInv, ClientPlace, NEW c \in Conns, NEW from, NEW n \in Nat, NEW to,
         Send(c, from, n, to),
         ClientAt(to) = ClientAt(from) + n, ClientAt(from) \in Nat,
         from # "closed", to # "closed",
         from \in {"mac", "data"} => to \in {"data", "ack"},
         from \notin {"ack", "delete"}
  PROVE  ClientPlace'
<1>1. ClientPlaceOf(c) /\ cpc[c] = from
  BY DEF ClientPlace, Send
<1>2. sent'[c] = sent[c] + n /\ cpc'[c] = to /\ retried'[c] = retried[c]
  BY DEF Send, TypeInv, TypeOK
<1>3. Base(c)' = Base(c) /\ Base(c) \in Nat
  BY <1>2, Layout DEF Base
<1>4. sent[c] = ClientAt(from) + Base(c)
  BY <1>1 DEF ClientPlaceOf
<1>5. sent'[c] = ClientAt(to) + Base(c)
  BY <1>2, <1>3, <1>4
<1>6. retried[c] => to \in {"data", "ack"}
  BY <1>1 DEF ClientPlaceOf
<1>7. ClientPlaceOf(c)'
  BY <1>2, <1>3, <1>5, <1>6 DEF ClientPlaceOf
<1>8. QED
  BY <1>7, OtherClientPlaces DEF Send, TypeInv, TypeOK

\* Only an RE makes the client ask for a retransmission, whatever precedence the
\* operators of its test have.
LEMMA OnlyRetryAsks ==
  ASSUME NEW c \in Conns, NEW m \in Messages, AsksForRetry(c, m)
  PROVE  m = Retry
  BY DEF Messages, Challenge, Ok, Retry, AsksForRetry

LEMMA NextClientPlace ==
  TypeInv /\ StreamInv /\ [Next]_vars => ClientPlace'
<1> SUFFICES ASSUME TypeInv, StreamInv, [Next]_vars
             PROVE  ClientPlace'
  OBVIOUS
<1>1. ClientPlace /\ \A c \in Conns : ClientPlaceOf(c)
  BY DEF StreamInv, ClientPlace
<1>2. ASSUME NEW c \in Conns, NEW l \in Logs, Connect(c, l)
      PROVE  ClientPlace'
  <2>1. ~retried[c]
    BY <1>1, <1>2 DEF Connect, ClientPlaceOf
  <2>2. ClientPlaceOf(c)'
    BY <1>2, <2>1, Layout
    DEF Connect, ClientPlaceOf, ClientAt, Base, TypeInv, TypeOK
  <2>3. QED
    BY <1>1, <1>2, <2>2, OtherClientPlaces DEF Connect, TypeInv, TypeOK
<1>3. ASSUME NEW c \in Conns, ReceiveChallenge(c)
      PROVE  ClientPlace'
  <2>1. cpc[c] = "challenge" /\ cpc' = [cpc EXCEPT ![c] = "solution"]
    BY <1>3 DEF ReceiveChallenge
  <2>2. UNCHANGED <<sent, retried>>
    BY <1>3 DEF ReceiveChallenge
  <2>3. ClientPlaceOf(c)'
    BY <1>1, <2>1, <2>2 DEF ClientPlaceOf, ClientAt, Base, TypeInv, TypeOK
  <2>4. QED
    BY <1>1, <2>1, <2>2, <2>3, OtherClientPlaces DEF TypeInv, TypeOK
<1>4. ASSUME NEW c \in Conns, SendSolution(c)
      PROVE  ClientPlace'
  <2>1. ClientAt("key") = ClientAt("solution") + SolLen /\ SolLen \in Nat
    BY Layout DEF ClientAt
  <2>2. QED
    BY <1>1, <1>4, <2>1, Layout, SendKeepsPlace DEF SendSolution, ClientAt
<1>5. ASSUME NEW c \in Conns, SendKey(c)
      PROVE  ClientPlace'
  <2>1. ClientAt("mac") = ClientAt("key") + KeyLen /\ KeyLen \in Nat
    BY Layout DEF ClientAt
  <2>2. QED
    BY <1>1, <1>5, <2>1, Layout, SendKeepsPlace DEF SendKey, ClientAt
<1>6. ASSUME NEW c \in Conns, SendMac(c)
      PROVE  ClientPlace'
  <2>1. ClientAt("data") = ClientAt("mac") + MacLen
    BY Layout DEF ClientAt
  <2>2. QED
    BY <1>1, <1>6, <2>1, Layout, SendKeepsPlace DEF SendMac, ClientAt
<1>7. ASSUME NEW c \in Conns, SendData(c)
      PROVE  ClientPlace'
  <2>1. ClientAt("ack") = ClientAt("data") + DataLen
    BY Layout DEF ClientAt
  <2>2. ClientAt("data") \in Nat
    BY Layout DEF ClientAt
  <2>3. QED
    BY <1>1, <1>7, <2>1, <2>2, Layout, SendKeepsPlace DEF SendData
<1>8. ASSUME NEW c \in Conns, ReceiveAck(c)
      PROVE  ClientPlace'
  <2>1. cpc[c] = "ack" /\ sent' = sent /\ down[c] # <<>>
    BY <1>8 DEF ReceiveAck
  <2>2. Head(down[c]) \in Messages /\ Head(down[c]) = down[c][1]
        /\ 1 \in 1 .. Len(down[c])
    BY <2>1 DEF TypeInv, TypeOK
  <2>3. sent[c] = RetryAt + Base(c)
    BY <1>1, <2>1 DEF ClientPlaceOf, ClientAt
  <2>4. CASE AsksForRetry(c, Head(down[c]))
    <3>1. Head(down[c]) = Retry
      BY <2>2, <2>4, OnlyRetryAsks
    <3>2. ~retried[c]
      BY <2>2, <3>1 DEF StreamInv, RetryOnce, RetryOnceOf
    <3>3. /\ retried' = [retried EXCEPT ![c] = TRUE]
          /\ cpc' = [cpc EXCEPT ![c] = "mac"]
      BY <1>8, <2>4 DEF ReceiveAck
    <3>4. ClientPlaceOf(c)'
      BY <2>1, <2>3, <3>2, <3>3, Layout
      DEF ClientPlaceOf, ClientAt, Base, TypeInv, TypeOK
    <3>5. QED
      BY <1>1, <2>1, <3>3, <3>4, OtherClientPlaces DEF TypeInv, TypeOK
  <2>5. CASE ~AsksForRetry(c, Head(down[c]))
    <3>1. PICK pc \in {"delete", "closed"} : cpc' = [cpc EXCEPT ![c] = pc]
      BY <1>8, <2>5 DEF ReceiveAck
    <3>2. retried' = retried
      BY <1>8, <2>5 DEF ReceiveAck
    <3>3. Base(c)' = Base(c) /\ Base(c) \in Nat /\ cpc'[c] = pc
      BY <3>1, <3>2, Layout DEF Base, TypeInv, TypeOK
    <3>4. ClientAt(pc) = RetryAt
      BY DEF ClientAt
    <3>5. sent'[c] = RetryAt + Base(c) /\ RetryAt + Base(c) \in Nat
      <4>1. sent'[c] = RetryAt + Base(c)
        BY ONLY <2>1, <2>3
      <4>2. RetryAt + Base(c) \in Nat
        BY <3>3, Layout
      <4>3. QED
        BY <4>1, <4>2
    <3>6. ClientPlaceOf(c)'
      BY <3>3, <3>4, <3>5 DEF ClientPlaceOf
    <3>7. QED
      BY <1>1, <2>1, <3>1, <3>2, <3>6, OtherClientPlaces DEF TypeInv, TypeOK
  <2>6. QED
    BY <2>4, <2>5
<1>9. ASSUME NEW c \in Conns, DeleteLog(c)
      PROVE  ClientPlace'
  <2>1. /\ cpc[c] = "delete" /\ cpc' = [cpc EXCEPT ![c] = "closed"]
        /\ UNCHANGED <<sent, retried>>
    BY <1>9 DEF DeleteLog
  <2>2. Base(c)' = Base(c) /\ Base(c) \in Nat /\ cpc'[c] = "closed"
    BY <2>1, Layout DEF Base, TypeInv, TypeOK
  <2>3. ClientPlaceOf(c)'
    BY <1>1, <2>1, <2>2, Layout DEF ClientPlaceOf, ClientAt
  <2>4. QED
    BY <1>1, <2>1, <2>3, OtherClientPlaces DEF TypeInv, TypeOK
<1>10. ASSUME NEW c \in Conns, ClientFails(c)
       PROVE  ClientPlace'
  <2>1. PICK n \in (IF cpc[c] = "data" THEN 0 .. DataLen - 1 ELSE {0}) :
          sent' = [sent EXCEPT ![c] = @ + n]
    BY <1>10 DEF ClientFails
  <2>2. /\ cpc[c] \notin {"unused", "closed"}
        /\ cpc' = [cpc EXCEPT ![c] = "closed"]
        /\ retried' = retried
    BY <1>10 DEF ClientFails, Active
  <2>3. sent[c] = ClientAt(cpc[c]) + Base(c)
    BY <1>1, <2>2 DEF ClientPlaceOf
  <2>4. ClientAt(cpc[c]) \in Nat /\ ClientAt(cpc[c]) + n <= RetryAt
    BY <2>1, <2>2, Layout DEF ClientAt
  <2>5. Base(c) \in Nat /\ Base(c)' = Base(c) /\ n \in Nat
    BY <2>1, <2>2, Layout DEF Base
  <2>6. sent'[c] <= RetryAt + Base(c)'
    BY <2>1, <2>3, <2>4, <2>5, Layout DEF TypeInv, TypeOK
  <2>7. ClientPlaceOf(c)'
    BY <2>2, <2>6 DEF ClientPlaceOf, TypeInv, TypeOK
  <2>8. QED
    BY <1>1, <2>1, <2>2, <2>7, OtherClientPlaces DEF TypeInv, TypeOK
<1>11. ASSUME UNCHANGED <<cpc, sent, retried>>
       PROVE  ClientPlace'
  BY <1>1, <1>11 DEF ClientPlace, ClientPlaceOf, Base
<1>12. ASSUME NEW c \in Conns, Accept(c) \/ ServerStep(c) \/ ThreadFails(c)
       PROVE  ClientPlace'
  BY <1>11, <1>12, ServerFrame DEF clientVars
<1>13. CASE Exit \/ Restart \/ UNCHANGED vars
  BY <1>11, <1>13, OtherFrame DEF clientVars
<1>14. QED
  BY <1>2, <1>3, <1>4, <1>5, <1>6, <1>7, <1>8, <1>9, <1>10, <1>12, <1>13
  DEF Next, ClientStep

-----------------------------------------------------------------------------
(* The server asks for one retry at most. *)

LEMMA OtherRetries ==
  ASSUME TypeInv, RetryOnce, NEW c \in Conns,
         \A d \in Conns \ {c} : /\ second'[d] = second[d]
                                /\ retried'[d] = retried[d]
                                /\ down'[d] = down[d],
         RetryOnceOf(c)'
  PROVE  RetryOnce'
<1> SUFFICES ASSUME NEW d \in Conns, d # c
             PROVE  RetryOnceOf(d)'
  BY DEF RetryOnce
<1>1. RetryOnceOf(d)
  BY DEF RetryOnce
<1>2. QED
  BY <1>1 DEF RetryOnceOf

\* A message that is no RE may be received or sent at any time.
LEMMA TailKeepsRetryOnce ==
  ASSUME TypeInv, RetryOnce, NEW c \in Conns, down[c] # <<>>,
         down' = [down EXCEPT ![c] = Tail(@)], UNCHANGED <<second, retried>>
  PROVE  RetryOnce'
<1>1. RetryOnceOf(c)
  BY DEF RetryOnce
<1>2. down[c] \in Seq(Messages) /\ down'[c] = Tail(down[c])
  BY DEF TypeInv, TypeOK
<1>3. /\ Len(down'[c]) = Len(down[c]) - 1
      /\ \A i \in 1 .. Len(down'[c]) : down'[c][i] = down[c][i + 1]
  BY <1>2, HeadTailProperties
<1>4. \A i \in 1 .. Len(down'[c]) : i + 1 \in 1 .. Len(down[c])
  BY <1>2, <1>3
<1>5. RetryOnceOf(c)'
  BY <1>1, <1>3, <1>4 DEF RetryOnceOf
<1>6. QED
  BY <1>5, OtherRetries DEF TypeInv, TypeOK

LEMMA AppendKeepsRetryOnce ==
  ASSUME TypeInv, RetryOnce, NEW c \in Conns, NEW m \in Messages, m # Retry,
         down' = [down EXCEPT ![c] = Append(@, m)], UNCHANGED <<second, retried>>
  PROVE  RetryOnce'
<1>1. RetryOnceOf(c)
  BY DEF RetryOnce
<1>2. down[c] \in Seq(Messages) /\ down'[c] = Append(down[c], m)
  BY DEF TypeInv, TypeOK
<1>3. /\ \A i \in 1 .. Len(down[c]) : down'[c][i] = down[c][i]
      /\ Len(down'[c]) = Len(down[c]) + 1
      /\ down'[c][Len(down[c]) + 1] = m
  BY <1>2
<1>4. \A i \in 1 .. Len(down'[c]) :
        down'[c][i] = Retry => i \in 1 .. Len(down[c]) /\ down[c][i] = Retry
  BY <1>2, <1>3
<1>5. RetryOnceOf(c)'
  BY <1>1, <1>4 DEF RetryOnceOf
<1>6. QED
  BY <1>5, OtherRetries DEF TypeInv, TypeOK

LEMMA NextRetryOnce ==
  TypeInv /\ StreamInv /\ [Next]_vars => RetryOnce'
<1> SUFFICES ASSUME TypeInv, StreamInv, [Next]_vars
             PROVE  RetryOnce'
  OBVIOUS
<1>1. RetryOnce /\ \A c \in Conns : RetryOnceOf(c)
  BY DEF StreamInv, RetryOnce
<1>2. ASSUME NEW c \in Conns, ReceiveChallenge(c)
      PROVE  RetryOnce'
  BY <1>1, <1>2, TailKeepsRetryOnce DEF ReceiveChallenge, serverVars
<1>3. ASSUME NEW c \in Conns, ReceiveAck(c)
      PROVE  RetryOnce'
  <2>1. /\ down[c] # <<>> /\ second' = second
        /\ down' = [down EXCEPT ![c] = Tail(@)]
    BY <1>3 DEF ReceiveAck, serverVars
  <2>2. CASE retried' = retried
    BY <1>1, <2>1, <2>2, TailKeepsRetryOnce
  <2>3. CASE /\ AsksForRetry(c, Head(down[c]))
             /\ retried' = [retried EXCEPT ![c] = TRUE]
    <3>1. /\ Head(down[c]) = down[c][1] /\ 1 \in 1 .. Len(down[c])
          /\ Head(down[c]) \in Messages
      BY <2>1 DEF TypeInv, TypeOK
    <3>2. down[c][1] = Retry
      BY <2>3, <3>1, OnlyRetryAsks
    <3>3. second[c] /\ \A j \in 1 .. Len(down[c]) : down[c][j] = Retry => j = 1
      BY <1>1, <3>1, <3>2 DEF RetryOnceOf
    <3>4. down[c] \in Seq(Messages) /\ down'[c] = Tail(down[c])
      BY <2>1 DEF TypeInv, TypeOK
    <3>5. \A i \in 1 .. Len(down'[c]) : down'[c][i] # Retry
      <4>1. /\ Len(down'[c]) = Len(down[c]) - 1
            /\ \A i \in 1 .. Len(down'[c]) : down'[c][i] = down[c][i + 1]
        BY <2>1, <3>4, HeadTailProperties
      <4>2. \A i \in 1 .. Len(down'[c]) : i + 1 \in 1 .. Len(down[c]) /\ i + 1 # 1
        BY <3>4, <4>1
      <4>3. QED
        BY <3>3, <4>1, <4>2
    <3>6. RetryOnceOf(c)'
      BY <2>1, <3>3, <3>5 DEF RetryOnceOf
    <3>7. QED
      BY <1>1, <2>1, <2>3, <3>6, OtherRetries DEF TypeInv, TypeOK
  <2>4. QED
    BY <1>3, <2>2, <2>3 DEF ReceiveAck
<1>4. ASSUME NEW c \in Conns, SendChallenge(c)
      PROVE  RetryOnce'
  <2>1. UNCHANGED <<second, retried>>
    BY <1>4 DEF SendChallenge, Goto, clientVars
  <2>2. CASE down' = [down EXCEPT ![c] = Append(@, Challenge)]
    BY <1>1, <2>1, <2>2, AppendKeepsRetryOnce DEF Messages, Challenge, Retry
  <2>3. CASE down' = down
    BY <1>1, <2>1, <2>3 DEF RetryOnce, RetryOnceOf
  <2>4. QED
    BY <1>4, <2>2, <2>3 DEF SendChallenge
<1>5. ASSUME NEW c \in Conns, SendOk(c)
      PROVE  RetryOnce'
  BY <1>1, <1>5, AppendKeepsRetryOnce
  DEF SendOk, Goto, clientVars, Messages, Ok, Retry
<1>6. ASSUME NEW c \in Conns, SendRetry(c)
      PROVE  RetryOnce'
  <2>1. ~second[c]
    BY <1>6 DEF SendRetry, StreamInv, ServerPlace, ServerPlaceOf
  <2>2. ~retried[c] /\ \A i \in 1 .. Len(down[c]) : down[c][i] # Retry
    BY <1>1, <2>1 DEF RetryOnceOf
  <2>3. /\ down[c] \in Seq(Messages) /\ down'[c] = Append(down[c], Retry)
        /\ second'[c] /\ retried'[c] = retried[c]
    BY <1>6 DEF SendRetry, Goto, clientVars, TypeInv, TypeOK
  <2>4. \A i \in 1 .. Len(down'[c]) : down'[c][i] = Retry => i = Len(down[c]) + 1
    BY <2>2, <2>3
  <2>5. RetryOnceOf(c)'
    BY <2>2, <2>3, <2>4 DEF RetryOnceOf
  <2>6. QED
    BY <1>1, <1>6, <2>5, OtherRetries
    DEF SendRetry, Goto, clientVars, TypeInv, TypeOK
<1>7. ASSUME UNCHANGED <<second, retried, down>>
      PROVE  RetryOnce'
  BY <1>1, <1>7 DEF RetryOnce, RetryOnceOf
<1>8. ASSUME NEW c \in Conns,
             \/ \E l \in Logs : Connect(c, l)
             \/ SendSolution(c) \/ SendKey(c) \/ SendMac(c) \/ SendData(c)
             \/ DeleteLog(c) \/ ClientFails(c)
      PROVE  RetryOnce'
  BY <1>7, <1>8
  DEF Connect, SendSolution, SendKey, SendMac, SendData, Send, DeleteLog, ClientFails,
      serverVars
<1>9. ASSUME NEW c \in Conns,
             \/ Accept(c) \/ ReadName(c) \/ ReadSolution(c) \/ ReadKey(c)
             \/ ReadMac(c) \/ ReadData(c) \/ (\E t \in Ticks : BeginSave(c, t))
             \/ EndSave(c) \/ ThreadFails(c)
      PROVE  RetryOnce'
  BY <1>7, <1>9
  DEF Accept, ReadName, ReadSolution, ReadKey, ReadMac, WholeRead, ShortRead, ReadData,
      BeginSave, EndSave,
      ThreadFails, Goto, clientVars
<1>10. CASE Exit \/ Restart \/ UNCHANGED vars
  BY <1>7, <1>10, OtherFrame DEF clientVars
<1>11. QED
  BY <1>2, <1>3, <1>4, <1>5, <1>6, <1>8, <1>9, <1>10 DEF Next, ClientStep, ServerStep

-----------------------------------------------------------------------------
(* The server keeps its place. *)

LEMMA OtherServerPlaces ==
  ASSUME TypeInv, ServerPlace, NEW c \in Conns, keepRunning' = keepRunning,
         \A d \in Conns \ {c} : /\ spc'[d] = spc[d]
                                /\ rcvd'[d] = rcvd[d]
                                /\ second'[d] = second[d]
                                /\ macAt'[d] = macAt[d],
         ServerPlaceOf(c)'
  PROVE  ServerPlace'
<1> SUFFICES ASSUME NEW d \in Conns, d # c
             PROVE  ServerPlaceOf(d)'
  BY DEF ServerPlace
<1>1. ServerPlaceOf(d)
  BY DEF ServerPlace
<1>2. QED
  BY <1>1 DEF ServerPlaceOf

\* A thread that gives up has no place to keep.
LEMMA CloseKeepsServerPlace ==
  ASSUME TypeInv, ServerPlace, NEW c \in Conns,
         spc' = [spc EXCEPT ![c] = "closed"],
         UNCHANGED <<rcvd, second, macAt, keepRunning>>
  PROVE  ServerPlace'
<1>1. spc'[c] = "closed"
  BY DEF TypeInv, TypeOK
<1>2. ServerPlaceOf(c)'
  BY <1>1 DEF ServerPlaceOf
<1>3. QED
  BY <1>2, OtherServerPlaces DEF TypeInv, TypeOK

LEMMA NextServerPlace ==
  TypeInv /\ StreamInv /\ [Next]_vars => ServerPlace'
<1> SUFFICES ASSUME TypeInv, StreamInv, [Next]_vars
             PROVE  ServerPlace'
  OBVIOUS
<1>1. ServerPlace /\ \A c \in Conns : ServerPlaceOf(c)
  BY DEF StreamInv, ServerPlace
<1>2. ASSUME NEW c \in Conns, Accept(c)
      PROVE  ServerPlace'
  <2>1. /\ spc[c] = "none" /\ spc'[c] = "name"
        /\ UNCHANGED <<keepRunning, rcvd, second, macAt>>
    BY <1>2 DEF Accept, Goto, TypeInv, TypeOK
  <2>2. ServerPlaceOf(c)'
    BY <1>1, <2>1 DEF ServerPlaceOf
  <2>3. QED
    BY <1>1, <1>2, <2>1, <2>2, OtherServerPlaces DEF Accept, Goto, TypeInv, TypeOK
<1>3. ASSUME NEW c \in Conns, ReadName(c)
      PROVE  ServerPlace'
  <2>1. spc[c] = "name" /\ UNCHANGED <<keepRunning, second, macAt>>
    BY <1>3 DEF ReadName, Goto
  <2>2. ~second[c]
    BY <1>1, <2>1 DEF ServerPlaceOf
  <2>3. /\ \A d \in Conns \ {c} : spc'[d] = spc[d] /\ rcvd'[d] = rcvd[d]
        /\ spc'[c] \in {"challenge", "closed"}
    BY <1>3 DEF ReadName, Goto, TypeInv, TypeOK
  <2>4. ServerPlaceOf(c)'
    BY <2>1, <2>2, <2>3 DEF ServerPlaceOf
  <2>5. QED
    BY <1>1, <2>1, <2>3, <2>4, OtherServerPlaces
<1>4. ASSUME NEW c \in Conns, SendChallenge(c)
      PROVE  ServerPlace'
  <2>1. /\ spc[c] = "challenge" /\ spc' = [spc EXCEPT ![c] = "solution"]
        /\ UNCHANGED <<keepRunning, rcvd, second, macAt>>
    BY <1>4 DEF SendChallenge, Goto
  <2>2. spc'[c] = "solution"
    BY <2>1 DEF TypeInv, TypeOK
  <2>3. ServerPlaceOf(c)'
    BY <1>1, <2>1, <2>2 DEF ServerPlaceOf
  <2>4. QED
    BY <1>1, <2>1, <2>3, OtherServerPlaces DEF TypeInv, TypeOK
<1>5. ASSUME NEW c \in Conns, ReadSolution(c)
      PROVE  ServerPlace'
  <2>1. spc[c] = "solution" /\ UNCHANGED <<keepRunning, second, macAt>>
    BY <1>5 DEF ReadSolution, WholeRead, ShortRead, Goto
  <2>2. CASE rcvd' = rcvd /\ spc' = [spc EXCEPT ![c] = "closed"]
    BY <1>1, <2>1, <2>2, CloseKeepsServerPlace
  <2>3. ASSUME NEW pc \in {"key", "closed"},
               pc = "key" /\ keepRunning => rcvd[c] = SolAt,
               rcvd' = [rcvd EXCEPT ![c] = @ + SolLen],
               spc' = [spc EXCEPT ![c] = pc]
        PROVE  ServerPlace'
    <3>1. spc'[c] = pc /\ rcvd'[c] = rcvd[c] + SolLen /\ ~second[c]
      BY <1>1, <2>1, <2>3 DEF ServerPlaceOf, TypeInv, TypeOK
    <3>2. ServerPlaceOf(c)'
      BY <2>1, <2>3, <3>1, Layout DEF ServerPlaceOf
    <3>3. QED
      BY <1>1, <2>1, <2>3, <3>2, OtherServerPlaces DEF TypeInv, TypeOK
  <2>4. QED
    BY <1>5, <2>2, <2>3 DEF ReadSolution, WholeRead, ShortRead, Goto
<1>6. ASSUME NEW c \in Conns, ReadKey(c)
      PROVE  ServerPlace'
  <2>1. spc[c] = "key" /\ UNCHANGED <<keepRunning, second, macAt>>
    BY <1>6 DEF ReadKey, WholeRead, ShortRead, Goto
  <2>2. CASE /\ keepRunning
             /\ rcvd' = [rcvd EXCEPT ![c] = @ + KeyLen]
             /\ spc' = [spc EXCEPT ![c] = "mac"]
    <3>1. rcvd[c] = KeyAt /\ ~second[c]
      BY <1>1, <2>1, <2>2 DEF ServerPlaceOf
    <3>2. spc'[c] = "mac" /\ rcvd'[c] = PairAt /\ ~second'[c]
      BY <2>1, <2>2, <3>1, Layout DEF TypeInv, TypeOK
    <3>3. ServerPlaceOf(c)'
      BY <3>2 DEF ServerPlaceOf
    <3>4. QED
      BY <1>1, <2>1, <2>2, <3>3, OtherServerPlaces DEF TypeInv, TypeOK
  <2>3. CASE rcvd' = rcvd /\ spc' = [spc EXCEPT ![c] = "closed"]
    BY <1>1, <2>1, <2>3, CloseKeepsServerPlace
  <2>4. QED
    BY <1>6, <2>2, <2>3 DEF ReadKey, WholeRead, ShortRead, Goto
<1>7. ASSUME NEW c \in Conns, ReadMac(c)
      PROVE  ServerPlace'
  <2>1. spc[c] = "mac" /\ UNCHANGED <<keepRunning, second>>
    BY <1>7 DEF ReadMac, WholeRead, ShortRead, Goto
  <2>2. CASE UNCHANGED <<rcvd, macAt>> /\ spc' = [spc EXCEPT ![c] = "closed"]
    BY <1>1, <2>1, <2>2, CloseKeepsServerPlace
  <2>3. CASE /\ spc' = [spc EXCEPT ![c] = "data"]
             /\ macAt' = [macAt EXCEPT ![c] = rcvd[c]]
             /\ rcvd' = [rcvd EXCEPT ![c] = @ + MacLen]
    <3>1. /\ spc'[c] = "data" /\ macAt'[c] = rcvd[c]
          /\ rcvd'[c] = rcvd[c] + MacLen /\ rcvd[c] \in Nat
      BY <2>3 DEF TypeInv, TypeOK
    <3>2. ServerPlaceOf(c)'
      BY <1>1, <2>1, <3>1, Layout DEF ServerPlaceOf
    <3>3. QED
      BY <1>1, <2>1, <2>3, <3>2, OtherServerPlaces DEF TypeInv, TypeOK
  <2>4. QED
    BY <1>7, <2>2, <2>3 DEF ReadMac, WholeRead, ShortRead, Goto
<1>8. ASSUME NEW c \in Conns, ReadData(c)
      PROVE  ServerPlace'
  <2>1. /\ spc[c] = "data"
        /\ UNCHANGED <<keepRunning, second, macAt>>
    BY <1>8 DEF ReadData, Goto
  <2>2. CASE UNCHANGED rcvd /\ spc' = [spc EXCEPT ![c] = "closed"]
    BY <1>1, <2>1, <2>2, CloseKeepsServerPlace
  <2>3. ASSUME NEW k \in 1 .. Unread(c),
               rcvd' = [rcvd EXCEPT ![c] = @ + k],
               spc' = [spc EXCEPT ![c] = AfterRead(c, Got(c) + k)]
        PROVE  ServerPlace'
    <3>1. /\ rcvd'[c] = rcvd[c] + k /\ k \in Nat \ {0}
          /\ spc'[c] = AfterRead(c, Got(c) + k)
          /\ macAt[c] \in Nat /\ rcvd[c] \in Nat /\ sent[c] \in Nat
      BY <2>3, Layout DEF Unread, TypeInv, TypeOK
    <3>2. /\ macAt[c] + MacLen <= rcvd[c]
          /\ IF second[c] THEN PairAt < macAt[c] /\ macAt[c] < RetryAt
                          ELSE macAt[c] = PairAt
      BY <1>1, <2>1 DEF ServerPlaceOf
    <3>3. second[c] => ~Unlocks(macAt[c], Got(c) + k)
      BY <3>1, <3>2, Layout DEF Unlocks
    <3>4. spc'[c] = "retry" => rcvd'[c] < RetryAt
      <4>1. ASSUME spc'[c] = "retry"
            PROVE  ~second[c] /\ ~Unlocks(macAt[c], Got(c) + k)
        BY <3>1, <4>1 DEF AfterRead
      <4>2. ASSUME spc'[c] = "retry"
            PROVE  rcvd[c] + k # RetryAt
        <5>1. Got(c) + k # DataLen
          BY <3>2, <4>1, <4>2 DEF Unlocks
        <5>2. QED
          BY <3>1, <3>2, <4>1, <4>2, <5>1, Layout DEF Got
      <4>3. ~second[c] => sent[c] <= RetryAt
        <5>1. ClientPlaceOf(c) /\ RetryOnceOf(c)
          BY DEF StreamInv, ClientPlace, RetryOnce
        <5>2. ASSUME ~second[c]
              PROVE  Base(c) = 0
          BY <5>1, <5>2 DEF RetryOnceOf, Base
        <5>3. ClientAt(cpc[c]) <= RetryAt /\ ClientAt(cpc[c]) \in Nat
          BY Layout DEF ClientAt
        <5>4. QED
          BY <3>1, <5>1, <5>2, <5>3, Layout DEF ClientPlaceOf
      <4>4. rcvd[c] + k <= sent[c]
        BY <2>3, <3>1 DEF Unread
      <4>5. QED
        BY <3>1, <4>1, <4>2, <4>3, <4>4, Layout
    <3>5. spc'[c] \in {"save", "data", "closed", "retry"}
      BY <3>1 DEF AfterRead
    <3>6. second[c] => spc'[c] \in {"data", "closed"}
      BY <3>1, <3>3 DEF AfterRead
    <3>7. spc'[c] = "retry" => ~second[c]
      BY <3>1 DEF AfterRead
    <3>8. ServerPlaceOf(c)'
      BY <2>1, <3>1, <3>2, <3>4, <3>5, <3>6, <3>7, Layout DEF ServerPlaceOf
    <3>9. QED
      BY <1>1, <2>3, <2>1, <3>8, OtherServerPlaces DEF TypeInv, TypeOK
  <2>4. QED
    BY <1>8, <2>2, <2>3 DEF ReadData, Goto
<1>9. ASSUME NEW c \in Conns, SendRetry(c)
      PROVE  ServerPlace'
  <2>1. /\ spc[c] = "retry" /\ spc' = [spc EXCEPT ![c] = "mac"]
        /\ second' = [second EXCEPT ![c] = TRUE]
        /\ UNCHANGED <<keepRunning, rcvd, macAt>>
    BY <1>9 DEF SendRetry, Goto
  <2>2. spc'[c] = "mac" /\ second'[c]
    BY <2>1 DEF TypeInv, TypeOK
  <2>3. ServerPlaceOf(c)'
    BY <1>1, <2>1, <2>2 DEF ServerPlaceOf
  <2>4. QED
    BY <1>1, <2>1, <2>3, OtherServerPlaces DEF TypeInv, TypeOK
<1>10. ASSUME NEW c \in Conns,
              (\E t \in Ticks : BeginSave(c, t)) \/ EndSave(c) \/ SendOk(c)
       PROVE  ServerPlace'
  <2>1. /\ spc[c] \in {"save", "writing", "ok"}
        /\ \E pc \in {"writing", "ok", "closed"} : spc' = [spc EXCEPT ![c] = pc]
        /\ UNCHANGED <<keepRunning, rcvd, second, macAt>>
    BY <1>10 DEF BeginSave, EndSave, SendOk, Goto
  <2>2. ~second[c] /\ spc'[c] \in {"writing", "ok", "closed"}
    BY <1>1, <2>1 DEF ServerPlaceOf, TypeInv, TypeOK
  <2>3. ServerPlaceOf(c)'
    BY <2>1, <2>2 DEF ServerPlaceOf
  <2>4. QED
    BY <1>1, <2>1, <2>3, OtherServerPlaces DEF TypeInv, TypeOK
<1>11. ASSUME NEW c \in Conns, ThreadFails(c)
       PROVE  ServerPlace'
  BY <1>1, <1>11, CloseKeepsServerPlace DEF ThreadFails, Goto
<1>12. CASE Exit
  <2>1. ~keepRunning' /\ UNCHANGED <<spc, rcvd, second, macAt>>
    BY <1>12 DEF Exit
  <2>2. QED
    BY <1>1, <2>1 DEF ServerPlace, ServerPlaceOf
<1>13. CASE Restart
  <2>1. UNCHANGED <<rcvd, second, macAt>>
    BY <1>13 DEF Restart
  <2>2. \A c \in Conns : /\ cpc[c] = "unused" => spc'[c] = "none"
                         /\ cpc[c] # "unused" => spc'[c] = "closed"
    BY <1>13 DEF Restart
  <2>3. \A c \in Conns : cpc[c] = "unused" => spc[c] = "none"
    BY DEF TypeInv, UsedHasLog
  <2>4. \A c \in Conns :
          spc'[c] = "closed" \/ (spc'[c] = "none" /\ spc[c] = "none")
    BY <2>2, <2>3
  <2>5. QED
    BY <1>1, <2>1, <2>4 DEF ServerPlace, ServerPlaceOf
<1>14. ASSUME UNCHANGED <<keepRunning, spc, rcvd, second, macAt>>
       PROVE  ServerPlace'
  BY <1>1, <1>14 DEF ServerPlace, ServerPlaceOf
<1>15. QED
  BY <1>2, <1>3, <1>4, <1>5, <1>6, <1>7, <1>8, <1>9, <1>10, <1>11, <1>12, <1>13,
     <1>14
  DEF Next, ClientStep, ServerStep, Connect, ReceiveChallenge, SendSolution,
      SendKey, SendMac, SendData, Send, ReceiveAck, DeleteLog, ClientFails,
      vars, clientVars, serverVars

LEMMA StreamInvariant == Spec => []StreamInv
<1>1. TypeInv /\ StreamInv /\ [Next]_vars => StreamInv'
  BY NextReadAfterSent, NextClientPlace, NextRetryOnce, NextServerPlace
  DEF StreamInv
<1>2. QED
  BY TypeInvariant, InitStreamInv, <1>1, PTL DEF Spec

\* The retry of ClientThread never saves a file: its ReadDecryptFile starts
\* inside the first transmission, so no MAC it reads can match.
THEOREM RetryIsInVain == Spec => []RetryNeverSaves
<1>1. StreamInv => RetryNeverSaves
  BY DEF StreamInv, ServerPlace, ServerPlaceOf, RetryNeverSaves
<1>2. QED
  BY StreamInvariant, <1>1, PTL

\* A log is sent at most twice per connection, because the server asks once.
THEOREM AtMostTwice == Spec => []AtMostTwoTransmissions
<1>1. ASSUME TypeInv, StreamInv
      PROVE  AtMostTwoTransmissions
  <2> SUFFICES ASSUME NEW c \in Conns
               PROVE  sent[c] <= End
    BY DEF AtMostTwoTransmissions
  <2>1. ClientPlaceOf(c) /\ sent[c] \in Nat
    BY <1>1 DEF StreamInv, ClientPlace, TypeInv, TypeOK
  <2>2. ClientAt(cpc[c]) <= RetryAt /\ ClientAt(cpc[c]) \in Nat
    BY Layout DEF ClientAt
  <2>3. Base(c) <= PairLen /\ Base(c) \in Nat
    BY Layout DEF Base
  <2>4. QED
    BY <2>1, <2>2, <2>3, Layout DEF ClientPlaceOf
<1>2. QED
  BY TypeInvariant, StreamInvariant, <1>1, PTL

-----------------------------------------------------------------------------
(* Delivery. *)

\* A file that is being written belongs to one thread, and is of its log.
WriterOwnsFile ==
  \A c \in Conns :
    spc[c] = "writing" =>
      /\ store[name[c]] = [log |-> log[c], whole |-> FALSE]
      /\ \A d \in Conns : spc[d] = "writing" /\ name[d] = name[c] => d = c

\* The server has acknowledged the log of a connection, or is about to.
Acked(c) ==
  \/ spc[c] = "ok"
  \/ cpc[c] = "delete"
  \/ \E i \in 1 .. Len(down[c]) : down[c][i] = Ok

AckedStored == \A c \in Conns : Acked(c) => log[c] \in Stored

DeliveryInv == WriterOwnsFile /\ AckedStored /\ NoLogLost

-----------------------------------------------------------------------------
(* Which files the steps touch. *)

LEMMA BeginSaveEffect ==
  ASSUME FreshTicks, TypeInv, NEW c \in Conns, NEW t \in Ticks, BeginSave(c, t)
  PROVE  /\ \A u \in Ticks : store[u].whole => store'[u] = store[u]
         /\ Stored' = Stored
<1> DEFINE torn == [log |-> log[c], whole |-> FALSE]
<1>1. store[t] = NoFile /\ store' \in {store, [store EXCEPT ![t] = torn]}
  BY DEF BeginSave
<1>2. ~NoFile.whole /\ ~torn.whole
  BY DEF NoFile
<1>3. \A l \in Logs : /\ NoFile # [log |-> l, whole |-> TRUE]
                      /\ torn # [log |-> l, whole |-> TRUE]
  BY DEF NoFile
<1> HIDE DEF torn
<1>4. \A u \in Ticks : \/ store'[u] = store[u]
                       \/ store[u] = NoFile /\ store'[u] = torn
  BY <1>1 DEF TypeInv, TypeOK
<1>5. \A u \in Ticks : store[u].whole => store'[u] = store[u]
  BY <1>2, <1>4
<1>6. \A l \in Logs, u \in Ticks :
        store'[u] = [log |-> l, whole |-> TRUE] <=>
          store[u] = [log |-> l, whole |-> TRUE]
  BY <1>3, <1>4
<1>7. QED
  BY <1>5, <1>6 DEF Stored

LEMMA CompleteFile ==
  ASSUME NEW f \in File
  PROVE  [f EXCEPT !.whole = TRUE] = [log |-> f.log, whole |-> TRUE]
<1>1. /\ [f EXCEPT !.whole = TRUE] \in File
      /\ [log |-> f.log, whole |-> TRUE] \in File
  BY DEF File
<1>2. /\ [f EXCEPT !.whole = TRUE].log = f.log
      /\ [f EXCEPT !.whole = TRUE].whole
  BY DEF File
<1>3. ASSUME NEW g \in File, NEW h \in File, g.log = h.log, g.whole = h.whole
      PROVE  g = h
  BY <1>3 DEF File
<1>4. QED
  BY <1>1, <1>2, <1>3

LEMMA EndSaveEffect ==
  ASSUME TypeInv, WriterOwnsFile, NEW c \in Conns, EndSave(c)
  PROVE  /\ \A u \in Ticks : store[u].whole => store'[u] = store[u]
         /\ Stored' = Stored \cup {log[c]}
         /\ log[c] \in Logs
<1> DEFINE whole(l) == [log |-> l, whole |-> TRUE]
<1>1. /\ spc[c] = "writing"
      /\ store' = [store EXCEPT ![name[c]] = [@ EXCEPT !.whole = TRUE]]
  BY DEF EndSave
<1>2. name[c] \in Ticks /\ store[name[c]] = [log |-> log[c], whole |-> FALSE]
  BY <1>1 DEF TypeInv, WriterHasFile, WriterOwnsFile
<1>3. log[c] \in Logs
  BY <1>1 DEF TypeInv, UsedHasLog
<1>4. store'[name[c]] = whole(log[c])
  <2>1. store'[name[c]] = [store[name[c]] EXCEPT !.whole = TRUE]
    BY <1>1, <1>2 DEF TypeInv, TypeOK
  <2>2. QED
    <3>1. store[name[c]] \in File /\ store[name[c]].log = log[c]
      BY <1>1, <1>2 DEF TypeInv, WriterHasFile
    <3>2. QED
      BY <2>1, <3>1, CompleteFile
<1>5. \A u \in Ticks : u # name[c] => store'[u] = store[u]
  BY <1>1 DEF TypeInv, TypeOK
<1>6. ~store[name[c]].whole /\ \A l \in Logs : store[name[c]] # whole(l)
  BY <1>2
<1>7. \A l, m \in Logs : whole(l) = whole(m) => l = m
  OBVIOUS
<1>8. Stored = {l \in Logs : \E t \in Ticks : store[t] = whole(l)}
  BY DEF Stored
<1>9. Stored' = {l \in Logs : \E t \in Ticks : store'[t] = whole(l)}
  BY DEF Stored
<1> HIDE DEF whole
<1>10. \A u \in Ticks : store[u].whole => store'[u] = store[u]
  BY <1>5, <1>6
<1>11. \A l \in Logs : l \in Stored' <=> l \in Stored \/ l = log[c]
  BY <1>2, <1>3, <1>4, <1>5, <1>6, <1>7, <1>8, <1>9
<1>12. Stored \subseteq Logs /\ Stored' \subseteq Logs
  BY <1>8, <1>9
<1>13. QED
  BY <1>3, <1>10, <1>11, <1>12

LEMMA FilesKept ==
  ASSUME FreshTicks, TypeInv, WriterOwnsFile, [Next]_vars
  PROVE  /\ \A u \in Ticks : store[u].whole => store'[u] = store[u]
         /\ \/ Stored' = Stored
            \/ \E c \in Conns : EndSave(c)
         /\ Stored \subseteq Stored'
<1>1. ASSUME NEW c \in Conns, NEW t \in Ticks, BeginSave(c, t)
      PROVE  /\ \A u \in Ticks : store[u].whole => store'[u] = store[u]
             /\ Stored' = Stored
  BY <1>1, BeginSaveEffect
<1>2. ASSUME NEW c \in Conns, EndSave(c)
      PROVE  /\ \A u \in Ticks : store[u].whole => store'[u] = store[u]
             /\ Stored \subseteq Stored'
  BY <1>2, EndSaveEffect
<1>3. ASSUME UNCHANGED store
      PROVE  /\ \A u \in Ticks : store[u].whole => store'[u] = store[u]
             /\ Stored' = Stored
  BY <1>3 DEF Stored
<1>4. \/ \E c \in Conns, t \in Ticks : BeginSave(c, t)
      \/ \E c \in Conns : EndSave(c)
      \/ UNCHANGED store
  BY DEF Next, ClientStep, ServerStep, Connect, ReceiveChallenge, SendSolution,
      SendKey, SendMac, SendData, Send, ReceiveAck, DeleteLog, ClientFails,
      Accept, ReadName, SendChallenge, ReadSolution, ReadKey, ReadMac,
      WholeRead, ShortRead, ReadData,
      SendRetry, SendOk, ThreadFails, Goto, Exit, Restart, vars, serverVars
<1>5. QED
  BY <1>1, <1>2, <1>3, <1>4

-----------------------------------------------------------------------------
(* The invariant. *)

LEMMA NextWriterOwnsFile ==
  ASSUME FreshTicks, TypeInv, WriterOwnsFile, [Next]_vars
  PROVE  WriterOwnsFile'
<1>1. ASSUME NEW c \in Conns, NEW t \in Ticks, BeginSave(c, t)
      PROVE  WriterOwnsFile'
  <2> DEFINE torn == [log |-> log[c], whole |-> FALSE]
  <2>1. CASE UNCHANGED <<name, store>> /\ spc' = [spc EXCEPT ![c] = "closed"]
    <3>1. log' = log
      BY <1>1 DEF BeginSave, clientVars
    <3>2. QED
      BY <2>1, <3>1 DEF WriterOwnsFile, TypeInv, TypeOK
  <2>2. CASE /\ \A d \in Conns : ~(spc[d] = "writing" /\ name[d] = t)
             /\ store' = [store EXCEPT ![t] = torn]
             /\ name' = [name EXCEPT ![c] = t]
             /\ spc' = [spc EXCEPT ![c] = "writing"]
    <3>1. log' = log
      BY <1>1 DEF BeginSave, clientVars
    <3>2. /\ store'[t] = torn /\ name'[c] = t
          /\ \A u \in Ticks : u # t => store'[u] = store[u]
          /\ \A d \in Conns : d # c => name'[d] = name[d] /\ spc'[d] = spc[d]
      BY <2>2 DEF TypeInv, TypeOK
    <3>3. \A d \in Conns : spc[d] = "writing" => name[d] \in Ticks
      BY DEF TypeInv, WriterHasFile
    <3>4. ASSUME NEW d \in Conns, d # c, spc'[d] = "writing"
          PROVE  /\ store'[name'[d]] = [log |-> log'[d], whole |-> FALSE]
                 /\ name'[d] # t
                 /\ \A e \in Conns : spc'[e] = "writing" /\ name'[e] = name'[d]
                                       => e = d
      BY <2>2, <3>1, <3>2, <3>3, <3>4 DEF WriterOwnsFile
    <3>5. store'[name'[c]] = [log |-> log'[c], whole |-> FALSE]
      BY <3>1, <3>2
    <3>6. QED
      BY <3>2, <3>4, <3>5 DEF WriterOwnsFile
  <2>3. QED
    BY <1>1, <2>1, <2>2 DEF BeginSave
<1>2. ASSUME NEW c \in Conns, EndSave(c)
      PROVE  WriterOwnsFile'
  <2>1. /\ spc' = [spc EXCEPT ![c] = "ok"] /\ log' = log /\ name' = name
        /\ spc[c] = "writing"
        /\ store' = [store EXCEPT ![name[c]] = [@ EXCEPT !.whole = TRUE]]
    BY <1>2 DEF EndSave, clientVars
  <2>2. /\ spc'[c] = "ok"
        /\ \A u \in Ticks : u # name[c] => store'[u] = store[u]
        /\ \A d \in Conns : d # c => spc'[d] = spc[d]
    BY <2>1 DEF TypeInv, TypeOK
  <2>3. \A d \in Conns : spc[d] = "writing" => name[d] \in Ticks
    BY DEF TypeInv, WriterHasFile
  <2>4. QED
    BY <2>1, <2>2, <2>3 DEF WriterOwnsFile
<1>3. ASSUME UNCHANGED <<name, store>>,
             \A d \in Conns :
               spc'[d] = "writing" => spc[d] = "writing" /\ log'[d] = log[d]
      PROVE  WriterOwnsFile'
  BY <1>3 DEF WriterOwnsFile
<1>4. ASSUME NEW c \in Conns, NEW l \in Logs, Connect(c, l)
      PROVE  WriterOwnsFile'
  <2>1. spc[c] = "none" /\ UNCHANGED <<name, store, spc>>
    BY <1>4 DEF Connect, serverVars, TypeInv, UsedHasLog
  <2>2. \A d \in Conns : d # c => log'[d] = log[d]
    BY <1>4 DEF Connect, TypeInv, TypeOK
  <2>3. QED
    BY <1>3, <2>1, <2>2
<1>5. ASSUME UNCHANGED <<log, name, store>>,
             \/ spc' = spc
             \/ \E c \in Conns, pc \in ServerPC \ {"writing"} :
                  spc' = [spc EXCEPT ![c] = pc]
      PROVE  WriterOwnsFile'
  <2>1. \A d \in Conns : spc'[d] = "writing" => spc[d] = "writing"
    BY <1>5 DEF TypeInv, TypeOK
  <2>2. QED
    BY <1>3, <1>5, <2>1
<1>6. CASE Restart
  <2>1. \A d \in Conns : spc'[d] # "writing"
    BY <1>6 DEF Restart
  <2>2. QED
    BY <1>3, <1>6, <2>1 DEF Restart
<1>7. CASE Exit \/ UNCHANGED vars
  BY <1>5, <1>7 DEF Exit, vars, clientVars, serverVars
<1>8. ASSUME NEW c \in Conns,
             \/ ReceiveChallenge(c) \/ SendSolution(c) \/ SendKey(c) \/ SendMac(c)
             \/ SendData(c) \/ ReceiveAck(c) \/ DeleteLog(c) \/ ClientFails(c)
      PROVE  WriterOwnsFile'
  BY <1>5, <1>8
  DEF ReceiveChallenge, SendSolution, SendKey, SendMac, SendData, Send, ReceiveAck,
      DeleteLog, ClientFails, serverVars
<1>9. ASSUME NEW c \in Conns, NEW pc \in ServerPC \ {"writing"}, Goto(c, pc)
      PROVE  WriterOwnsFile'
  BY <1>5, <1>9 DEF Goto, clientVars
<1>10. ASSUME NEW c \in Conns,
              \/ Accept(c) \/ ReadName(c) \/ SendChallenge(c) \/ ReadSolution(c)
              \/ ReadKey(c) \/ ReadMac(c) \/ SendRetry(c) \/ SendOk(c)
              \/ ThreadFails(c)
       PROVE  WriterOwnsFile'
  BY <1>9, <1>10
  DEF Accept, ReadName, SendChallenge, ReadSolution, ReadKey, ReadMac, WholeRead, ShortRead,
      SendRetry,
      SendOk, ThreadFails, ServerPC
<1>11. ASSUME NEW c \in Conns, ReadData(c)
       PROVE  WriterOwnsFile'
  <2>1. \E pc \in ServerPC \ {"writing"} : Goto(c, pc)
    <3>1. \A n : AfterRead(c, n) \in ServerPC \ {"writing"}
      BY DEF AfterRead, ServerPC
    <3>2. QED
      BY <1>11, <3>1 DEF ReadData, ServerPC
  <2>2. QED
    BY <1>9, <2>1
<1>12. QED
  BY <1>1, <1>2, <1>4, <1>6, <1>7, <1>8, <1>10, <1>11
  DEF Next, ClientStep, ServerStep

LEMMA DiskFrame ==
  ASSUME [Next]_vars
  PROVE  UNCHANGED disk \/ \E c \in Conns : DeleteLog(c)
<1>1. ASSUME NEW c \in Conns,
             \/ \E l \in Logs : Connect(c, l)
             \/ ReceiveChallenge(c) \/ SendSolution(c) \/ SendKey(c) \/ SendMac(c)
             \/ SendData(c) \/ ReceiveAck(c) \/ ClientFails(c)
      PROVE  UNCHANGED disk
  BY <1>1
  DEF Connect, ReceiveChallenge, SendSolution, SendKey, SendMac, SendData, Send,
      ReceiveAck, ClientFails
<1>2. QED
  BY <1>1, ServerFrame, OtherFrame DEF Next, ClientStep, clientVars

LEMMA NextNoLogLost ==
  ASSUME FreshTicks, TypeInv, DeliveryInv, [Next]_vars
  PROVE  NoLogLost'
<1>1. NoLogLost /\ AckedStored /\ Stored \subseteq Stored'
  BY FilesKept DEF DeliveryInv
<1>2. ASSUME NEW c \in Conns, DeleteLog(c)
      PROVE  NoLogLost'
  <2>1. cpc[c] = "delete" /\ disk' = disk \ {log[c]}
    BY <1>2 DEF DeleteLog
  <2>2. log[c] \in Stored
    BY <1>1, <2>1 DEF AckedStored, Acked
  <2>3. QED
    BY <1>1, <2>1, <2>2 DEF NoLogLost
<1>3. ASSUME UNCHANGED disk
      PROVE  NoLogLost'
  BY <1>1, <1>3 DEF NoLogLost
<1>4. QED
  BY <1>2, <1>3, DiskFrame

LEMMA NextAckedStored ==
  ASSUME FreshTicks, TypeInv, DeliveryInv, [Next]_vars
  PROVE  AckedStored'
<1>1. AckedStored /\ WriterOwnsFile /\ Stored \subseteq Stored'
  BY FilesKept DEF DeliveryInv
\* It is enough that no new connection is acknowledged.
<1>2. ASSUME log' = log, \A d \in Conns : Acked(d)' => Acked(d) \/ log[d] \in Stored'
      PROVE  AckedStored'
  BY <1>1, <1>2 DEF AckedStored
<1>3. ASSUME NEW c \in Conns, NEW l \in Logs, Connect(c, l)
      PROVE  AckedStored'
  <2>1. /\ spc'[c] = "none" /\ cpc'[c] = "challenge" /\ down'[c] = <<>>
        /\ UNCHANGED <<spc, down>>
        /\ \A d \in Conns : d # c => log'[d] = log[d] /\ cpc'[d] = cpc[d]
    BY <1>3 DEF Connect, serverVars, TypeInv, TypeOK, UsedHasLog
  <2>2. ~Acked(c)'
    BY <2>1 DEF Acked
  <2>3. \A d \in Conns : d # c => (Acked(d)' => Acked(d))
    BY <2>1 DEF Acked
  <2>4. QED
    BY <1>1, <2>1, <2>2, <2>3 DEF AckedStored
<1>4. ASSUME NEW c \in Conns, EndSave(c)
      PROVE  AckedStored'
  <2>1. log[c] \in Stored'
    BY <1>1, <1>4, EndSaveEffect
  <2>2. /\ UNCHANGED <<cpc, down, log>>
        /\ \A d \in Conns : d # c => spc'[d] = spc[d]
    BY <1>4 DEF EndSave, clientVars, TypeInv, TypeOK
  <2>3. QED
    BY <1>2, <2>1, <2>2 DEF Acked
<1>5. ASSUME NEW c \in Conns, NEW m \in Messages, UNCHANGED <<cpc, log>>,
             down' = [down EXCEPT ![c] = Append(@, m)],
             m = Ok => spc[c] = "ok",
             \A d \in Conns : spc'[d] = "ok" => spc[d] = "ok"
      PROVE  AckedStored'
  <2>1. /\ down[c] \in Seq(Messages) /\ down'[c] = Append(down[c], m)
        /\ \A d \in Conns : d # c => down'[d] = down[d]
    BY <1>5 DEF TypeInv, TypeOK
  <2>2. \A i \in 1 .. Len(down'[c]) :
          \/ i \in 1 .. Len(down[c]) /\ down'[c][i] = down[c][i]
          \/ down'[c][i] = m
    BY <2>1
  <2>3. \A d \in Conns : Acked(d)' => Acked(d)
    BY <1>5, <2>1, <2>2 DEF Acked
  <2>4. QED
    BY <1>2, <1>5, <2>3
<1>6. ASSUME NEW c \in Conns, ReceiveChallenge(c) \/ ReceiveAck(c)
      PROVE  AckedStored'
  <2>1. /\ down[c] # <<>> /\ down' = [down EXCEPT ![c] = Tail(@)]
        /\ UNCHANGED <<spc, log>>
        /\ \E pc \in ClientPC : cpc' = [cpc EXCEPT ![c] = pc]
        /\ cpc'[c] = "delete" => Head(down[c]) = Ok
    BY <1>6
    DEF ReceiveChallenge, ReceiveAck, serverVars, ClientPC, TypeInv, TypeOK
  <2>2. /\ down[c] \in Seq(Messages) /\ down'[c] = Tail(down[c])
        /\ \A d \in Conns : d # c => down'[d] = down[d] /\ cpc'[d] = cpc[d]
    BY <2>1 DEF TypeInv, TypeOK
  <2>3. /\ Len(down'[c]) = Len(down[c]) - 1
        /\ \A i \in 1 .. Len(down'[c]) : down'[c][i] = down[c][i + 1]
    <3>1. down[c] \in Seq(Messages) /\ down[c] # <<>> /\ down'[c] = Tail(down[c])
      BY <2>1, <2>2
    <3>2. QED
      BY ONLY <3>1, HeadTailProperties
  <2>4. \A i \in 1 .. Len(down'[c]) : i + 1 \in 1 .. Len(down[c])
    BY <2>2, <2>3
  <2>5. Head(down[c]) = down[c][1] /\ 1 \in 1 .. Len(down[c])
    BY <2>1, <2>2
  <2>6. \A d \in Conns : Acked(d)' => Acked(d)
    BY <2>1, <2>2, <2>3, <2>4, <2>5 DEF Acked
  <2>7. QED
    BY <1>2, <2>1, <2>6
<1>7. ASSUME UNCHANGED <<log, down>>,
             \A d \in Conns : /\ spc'[d] = "ok" => spc[d] = "ok"
                              /\ cpc'[d] = "delete" => cpc[d] = "delete"
      PROVE  AckedStored'
  BY <1>2, <1>7 DEF Acked
<1>8. ASSUME NEW c \in Conns,
             \/ SendSolution(c) \/ SendKey(c) \/ SendMac(c) \/ SendData(c)
             \/ DeleteLog(c) \/ ClientFails(c)
      PROVE  AckedStored'
  <2>1. /\ UNCHANGED <<log, down, spc>>
        /\ \E pc \in ClientPC \ {"delete"} : cpc' = [cpc EXCEPT ![c] = pc]
    BY <1>8
    DEF SendSolution, SendKey, SendMac, SendData, Send, DeleteLog, ClientFails,
        serverVars, ClientPC
  <2>2. QED
    BY <1>7, <2>1 DEF TypeInv, TypeOK
<1>9. ASSUME NEW c \in Conns, NEW pc \in ServerPC \ {"ok"}, UNCHANGED <<log, cpc>>,
             spc' = [spc EXCEPT ![c] = pc], down' = down
      PROVE  AckedStored'
  BY <1>7, <1>9 DEF TypeInv, TypeOK
<1>10. ASSUME NEW c \in Conns,
              \/ Accept(c) \/ ReadName(c) \/ ReadSolution(c) \/ ReadKey(c)
              \/ ReadMac(c) \/ ThreadFails(c)
       PROVE  AckedStored'
  BY <1>9, <1>10
  DEF Accept, ReadName, ReadSolution, ReadKey, ReadMac, WholeRead, ShortRead,
      ThreadFails, Goto, clientVars, ServerPC
<1>11. ASSUME NEW c \in Conns, ReadData(c)
       PROVE  AckedStored'
  <2>1. \E pc \in ServerPC \ {"ok"} : Goto(c, pc)
    <3>1. \A n : AfterRead(c, n) \in ServerPC \ {"ok"}
      BY DEF AfterRead, ServerPC
    <3>2. QED
      BY <1>11, <3>1 DEF ReadData, ServerPC
  <2>2. down' = down
    BY <1>11 DEF ReadData
  <2>3. QED
    BY <1>9, <2>1, <2>2 DEF Goto, clientVars
<1>12. ASSUME NEW c \in Conns, NEW t \in Ticks, BeginSave(c, t)
       PROVE  AckedStored'
  BY <1>9, <1>12 DEF BeginSave, clientVars, ServerPC
<1>13. ASSUME NEW c \in Conns, SendChallenge(c) \/ SendRetry(c) \/ SendOk(c)
       PROVE  AckedStored'
  <2>1. UNCHANGED <<cpc, log>> /\ \A d \in Conns : spc'[d] = "ok" => spc[d] = "ok"
    BY <1>13
    DEF SendChallenge, SendRetry, SendOk, Goto, clientVars, TypeInv, TypeOK
  <2>2. CASE SendChallenge(c)
    BY <1>5, <1>7, <2>1, <2>2 DEF SendChallenge, Messages, Challenge, Ok
  <2>3. CASE SendRetry(c)
    BY <1>5, <2>1, <2>3 DEF SendRetry, Messages, Retry, Ok
  <2>4. CASE SendOk(c)
    BY <1>5, <2>1, <2>4 DEF SendOk, Messages
  <2>5. QED
    BY <1>13, <2>2, <2>3, <2>4
<1>14. CASE Exit \/ Restart \/ UNCHANGED vars
  BY <1>7, <1>14 DEF Exit, Restart, vars, clientVars, serverVars
<1>15. QED
  BY <1>3, <1>4, <1>6, <1>8, <1>10, <1>11, <1>12, <1>13, <1>14
  DEF Next, ClientStep, ServerStep

LEMMA InitDeliveryInv == Init => DeliveryInv
  BY DEF Init, DeliveryInv, WriterOwnsFile, AckedStored, Acked, NoLogLost

LEMMA NextDeliveryInv ==
  ASSUME FreshTicks, TypeInv, DeliveryInv, [Next]_vars
  PROVE  DeliveryInv'
  BY NextWriterOwnsFile, NextAckedStored, NextNoLogLost DEF DeliveryInv

LEMMA DeliveryInvariant == ASSUME FreshTicks PROVE Spec => []DeliveryInv
<1>1. TypeInv /\ DeliveryInv /\ [Next]_vars => DeliveryInv'
  BY NextDeliveryInv
<1>2. QED
  BY TypeInvariant, InitDeliveryInv, <1>1, PTL DEF Spec

-----------------------------------------------------------------------------
(* The theorems. *)

\* A log that has left its machine is on the server's disk, complete.
THEOREM NoLogIsLost == ASSUME FreshTicks PROVE Spec => []NoLogLost
<1>1. DeliveryInv => NoLogLost
  BY DEF DeliveryInv
<1>2. QED
  BY DeliveryInvariant, <1>1, PTL

\* The upload of LogTransfer implements the delivery of LogDelivery: its only
\* visible steps are EndSave, which stores a log, and DeleteLog.
THEOREM TransferImplementsDelivery == ASSUME FreshTicks PROVE Spec => ImplementsDelivery
<1>1. Init => Delivery!Init
  BY DEF Init, Delivery!Init, Stored, NoFile
<1>2. TypeInv /\ DeliveryInv /\ [Next]_vars => [Delivery!Next]_(Delivery!vars)
  <2> SUFFICES ASSUME TypeInv, DeliveryInv, [Next]_vars
               PROVE  Delivery!Next \/ UNCHANGED <<disk, Stored>>
    BY DEF Delivery!vars
  <2>1. ASSUME NEW c \in Conns, EndSave(c)
        PROVE  Delivery!Next
    <3>1. Stored' = Stored \cup {log[c]} /\ log[c] \in Logs
      BY <2>1, EndSaveEffect DEF DeliveryInv
    <3>2. log[c] \in disk \cup Stored
      BY <3>1 DEF DeliveryInv, NoLogLost
    <3>3. disk' = disk
      BY <2>1 DEF EndSave, clientVars
    <3>4. QED
      BY <3>1, <3>2, <3>3 DEF Delivery!Next, Delivery!Store
  <2>2. ASSUME NEW c \in Conns, DeleteLog(c), log[c] \in disk
        PROVE  Delivery!Next
    <3>1. log[c] \in Stored
      BY <2>2 DEF DeleteLog, DeliveryInv, AckedStored, Acked
    <3>2. disk' = disk \ {log[c]} /\ Stored' = Stored
      BY <2>2 DEF DeleteLog, serverVars, Stored
    <3>3. log[c] \in Logs
      BY <3>1 DEF Stored
    <3>4. QED
      BY <2>2, <3>1, <3>2, <3>3 DEF Delivery!Next, Delivery!Delete
  <2>3. \/ disk' = disk
        \/ \E c \in Conns : DeleteLog(c)
    BY DiskFrame
  <2>4. ASSUME NEW c \in Conns, DeleteLog(c), log[c] \notin disk
        PROVE  UNCHANGED <<disk, Stored>>
    BY <2>4 DEF DeleteLog, serverVars, Stored
  <2>5. Stored' = Stored \/ \E c \in Conns : EndSave(c)
    BY FilesKept DEF DeliveryInv
  <2>6. QED
    BY <2>1, <2>2, <2>3, <2>4, <2>5
<1>3. QED
  BY TypeInvariant, DeliveryInvariant, <1>1, <1>2, PTL
  DEF Spec, ImplementsDelivery, Delivery!Spec
=============================================================================
