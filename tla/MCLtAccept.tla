----------------------------- MODULE MCLtAccept -----------------------------
(***************************************************************************)
(* LtAccept with three clients: one more than the limit of two, so that    *)
(* the server fills up, and enough threads to be started before the first  *)
(* of them has counted itself.                                             *)
(***************************************************************************)
EXTENDS LtAccept

CONSTANTS c1, c2, c3

AllClients == {c1, c2, c3}
=============================================================================
