----------------------------- MODULE LogDelivery -----------------------------
(***************************************************************************)
(* What the upload of telemetry logs promises, seen from outside: a log    *)
(* lies on the disk of the machine that recorded it until the collecting   *)
(* server holds a complete copy of it, and only then may it be deleted.    *)
(*                                                                         *)
(* Nothing is said here of connections, retries or crashes.  LogTransfer   *)
(* (one upload, byte stream by byte stream) and LtSend (the directory      *)
(* sweeps of the sending processes) are shown to implement this module.    *)
(***************************************************************************)
CONSTANT Logs       \* the finished log files of all machines

VARIABLES onDisk,   \* the logs that still lie in the folder of their machine
          stored    \* the logs the server holds a complete copy of

vars == <<onDisk, stored>>

-----------------------------------------------------------------------------
TypeOK ==
  /\ onDisk \in SUBSET Logs
  /\ stored \in SUBSET Logs

Init ==
  /\ onDisk \in SUBSET Logs
  /\ stored = {}

\* A machine finishes a new log.
Record(l) ==
  /\ l \notin onDisk \cup stored
  /\ onDisk' = onDisk \cup {l}
  /\ UNCHANGED stored

\* The server completes a copy of a log, for the first time or once more.
Store(l) ==
  /\ l \in onDisk \cup stored
  /\ stored' = stored \cup {l}
  /\ UNCHANGED onDisk

\* The sending machine deletes a log that the server holds.
Delete(l) ==
  /\ l \in onDisk \cap stored
  /\ onDisk' = onDisk \ {l}
  /\ UNCHANGED stored

Next == \E l \in Logs : Record(l) \/ Store(l) \/ Delete(l)

Spec == Init /\ [][Next]_vars
=============================================================================
