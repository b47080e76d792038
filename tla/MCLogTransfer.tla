--------------------------- MODULE MCLogTransfer ---------------------------
(***************************************************************************)
(* Instances of LogTransfer for TLC: two logs, so two sessions overlap on  *)
(* the server.                                                             *)
(***************************************************************************)
EXTENDS LogTransfer, TLC

CONSTANTS l1, l2

MCLogs == {l1, l2}
MCConns == 1 .. 2

\* Both products are known.
MCRecognizedAll == l1 :> {2} @@ l2 :> {2}

\* The product of l2 is not known, but its name starts with one that is.
MCRecognizedCut == l1 :> {2} @@ l2 :> {1}
=============================================================================
