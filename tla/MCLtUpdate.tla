----------------------------- MODULE MCLtUpdate -----------------------------
(***************************************************************************)
(* Instances of LtUpdate for TLC.  MC...: a group that has an analysis     *)
(* file, with two good logs and a bad one, and a group that has none, with *)
(* a good log.  MCNew...: a group that has none, with a good log and a bad *)
(* one.                                                                    *)
(***************************************************************************)
EXTENDS LtUpdate

CONSTANTS l1, l2, l3, l4, g1, g2

MCLogs == {l1, l2, l3, l4}
MCGroups == {g1, g2}
MCGroupOf == [l \in MCLogs |-> IF l = l4 THEN g2 ELSE g1]
MCBad == {l3}
MCKnown == {g1}
MCEarly == {l1, l3, l4}

MCNewLogs == {l1, l3}
MCNewGroups == {g2}
MCNewGroupOf == [l \in MCNewLogs |-> g2]
=============================================================================
