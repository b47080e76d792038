----------------------------- MODULE MCLtContext -----------------------------
(***************************************************************************)
(* Instances of LtContext for TLC: two threads that may race through       *)
(* lt_init, and two names, so that their logs may be one or two files.     *)
(***************************************************************************)
EXTENDS LtContext

CONSTANTS t1, t2, n1, n2

MCThreads == {t1, t2}
MCNames == {n1, n2}
=============================================================================
