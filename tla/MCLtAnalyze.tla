----------------------------- MODULE MCLtAnalyze -----------------------------
(***************************************************************************)
(* Instances of LtAnalyze for TLC.  The identifiers are only compared, so  *)
(* they are symmetric.  A range has at most two buckets, and days that are *)
(* more than two days apart from the others are not counted.               *)
(***************************************************************************)
EXTENDS LtAnalyze, LtSort

CONSTANTS s1, s2, x1, x2, o1, o2, warning, e1, e2, m1, m2, h1

MCSubSystems == {s1, s2}
MCStates == {x1, x2}
MCOps == {o1, o2}
MCErrors == {e1, e2}
MCMachines == {m1, m2}
MCPerfSizes == <<2>>
MCSymmetry ==
  Permutations({s1, s2}) \cup Permutations({x1, x2}) \cup Permutations({o1, o2})
    \cup Permutations({e1, e2}) \cup Permutations({m1, m2})

(* The statistics of every series of up to five samples, four measures, or *)
(* four logs say what the samples, measures and days are (lta_op.h:371,    *)
(* 459, 674, 793 and ltanalyze.cpp:346), and up to six counts are sorted   *)
(* for a report with their values (lta_types.h:122).  They do not depend   *)
(* on the state, so they are evaluated in the first one only.              *)
Series(S, n) == UNION {[1..k -> S] : k \in 0..n}
StatisticsAgree ==
  (pc = "idle" /\ records = 0 /\ values = 0) =>
    /\ \A samples \in Series({0, 1, 3, 7}, 5) : ExactAgrees(samples) /\ RangeAgrees(samples)
    /\ \A measures \in Series({0, 2, 3} \X Machines, 4) : MeasuresAgree(measures)
    /\ \A counts \in Series(1..3, 6) :
         SortAgrees([i \in DOMAIN counts |-> [index |-> i, value |-> counts[i]]])
    /\ \A started \in Series({1, 2, 4, 5, 7, 9}, 4) : DaysAgree(started)
=============================================================================
