------------------------------ MODULE MCLtSend ------------------------------
(***************************************************************************)
(* Instances of LtSend for TLC: two runs of an application that write to   *)
(* the same folder, so that one sender sweeps while the other waits for it *)
(* or is started late.  Both are of one session, or each of its own.       *)
(***************************************************************************)
EXTENDS LtSend

CONSTANTS a1, a2, s1, s2

MCApps == {a1, a2}
MCUnsendable == {a2}
MCSessions == {s1, s2}
=============================================================================
