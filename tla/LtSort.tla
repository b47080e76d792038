------------------------------- MODULE LtSort -------------------------------
(***************************************************************************)
(* sort_by_value of ltanalyze/src/lta_types.h: a quick sort with two       *)
(* pivots, the largest values first.  Index and value of an entry of a     *)
(* SoaList are always swapped together, so an entry is one thing here.     *)
(***************************************************************************)
EXTENDS Integers, SequencesExt, FiniteSetsExt

Swap(list, i, j) == [list EXCEPT ![i] = list[j], ![j] = list[i]]

-----------------------------------------------------------------------------
(* The partition.  Entries from low + 1 to j - 1 are above both pivots,    *)
(* those after g are not above the lower one.                              *)

Above(s, i, pivot) == s.list[i].value > s.list[pivot].value
ToTheLeft(s, k) == [s EXCEPT !.list = Swap(@, k, s.j), !.j = @ + 1]
ToTheLeftIf(s, k, low) == IF Above(s, k, low) THEN ToTheLeft(s, k) ELSE s
SwapRight(s, k, g) == [s EXCEPT !.list = Swap(@, k, g), !.g = g - 1]
ToTheRight(s, k, high) == SwapRight(s, k, Max({k} \cup {i \in k .. s.g : ~Above(s, high, i)}))

\* One round of the loop over k, while k <= g.
Divide(s, k, low, high) ==
  IF k > s.g THEN s
  ELSE IF Above(s, k, low) THEN ToTheLeft(s, k)
  ELSE IF Above(s, k, high) THEN s
  ELSE ToTheLeftIf(ToTheRight(s, k, high), k, low)

Ordered(list, low, high) == IF list[low].value < list[high].value THEN Swap(list, low, high) ELSE list

Divided(list, low, high) ==
  FoldLeft(LAMBDA s, k : Divide(s, k, low, high),
           [list |-> Ordered(list, low, high), j |-> low + 1, g |-> high - 1],
           [i \in 1 .. high - low - 1 |-> low + i])

\* The list with both pivots in their places, j and g.
WithPivots(s, low, high) ==
  [list |-> Swap(Swap(s.list, low, s.j - 1), high, s.g + 1), j |-> s.j - 1, g |-> s.g + 1]
DualPivotQuickSort_Partition(list, low, high) == WithPivots(Divided(list, low, high), low, high)

-----------------------------------------------------------------------------
(* The calls of QuickSort: those that are to be made, with start and end,  *)
(* in their order.                                                         *)

\* The calls for what is before, between and behind the pivots.
ThreeCalls(p, start, end, rest) ==
  [list |-> p.list,
   calls |-> <<<<start, p.j - 1>>, <<p.j + 1, p.g - 1>>, <<p.g + 1, end>>>> \o rest]

\* The first of the calls, which puts those it makes before the others.
QuickSort(s) ==
  LET start == Head(s.calls)[1]
      end == Head(s.calls)[2]
  IN IF s.calls = <<>> THEN s
     ELSE IF start < end
     THEN ThreeCalls(DualPivotQuickSort_Partition(s.list, start, end), start, end, Tail(s.calls))
     ELSE [s EXCEPT !.calls = Tail(@)]

\* A call for every entry, for what is on its right and for all.
Calls(list) == 2 * Len(list) + 1

sort_by_value(list) ==
  FoldLeft(LAMBDA s, k : QuickSort(s), [list |-> list, calls |-> <<<<1, Len(list)>>>>],
           [k \in 1 .. Calls(list) |-> k]).list

-----------------------------------------------------------------------------
\* The entries are those of the list, and none is larger than the one before it.
SortAgrees(list) ==
  LET sorted == sort_by_value(list)
  IN /\ Len(sorted) = Len(list) /\ ToSet(sorted) = ToSet(list)
     /\ \A i \in 2 .. Len(sorted) : sorted[i].value <= sorted[i - 1].value
=============================================================================
