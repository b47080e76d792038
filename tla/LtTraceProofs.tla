--------------------------- MODULE LtTraceProofs ---------------------------
(***************************************************************************)
(* Stack traces are read as the words that were looked at, whatever these  *)
(* hold and however many they are, for any modules and offsets and any     *)
(* depth from two on.                                                      *)
(*                                                                         *)
(* Writers, readers and what a trace says are folds of sequences; with one *)
(* element more, a fold goes one step further (FoldMore, by induction over *)
(* the natural numbers), and what holds of the empty sequence and is kept  *)
(* by one more element holds of all (SeqInduction).                        *)
(*                                                                         *)
(* What a writer has written is in step with its readers (Agrees): they    *)
(* have the frames of the addresses so far, and if the writer remembers a  *)
(* library, so do they.  An address keeps them in step (WriteMore), which  *)
(* is all there is to the own stack (OwnWritten).  In a foreign trace, the *)
(* addresses that are written are also the first of those that differ from *)
(* the one before (Foreign), and the writer has enough when these are as   *)
(* many as it may store.                                                   *)
(***************************************************************************)
EXTENDS LtTrace, SequenceTheorems, WellFoundedInduction, TLAPS

-----------------------------------------------------------------------------
(* Folds of sequences.                                                     *)

LEMMA NatSetInduction ==
  ASSUME NEW C, 0 \in C, \A k \in Nat : k \in C => k + 1 \in C
  PROVE  \A n \in Nat : n \in C
<1> DEFINE rest == Nat \ C
<1> SUFFICES ASSUME rest # {} PROVE FALSE
  OBVIOUS
<1>1. rest \subseteq Nat
  OBVIOUS
<1>2. PICK n \in rest : \A m \in rest : <<m, n>> \notin OpToRel(<, Nat)
  <2> HIDE DEF rest
  <2> QED  BY <1>1, NatLessThanWellFounded, WFMin
<1>3. n \in Nat /\ n # 0 /\ n - 1 \in Nat /\ (n - 1) + 1 = n
  OBVIOUS
<1>4. <<n - 1, n>> \in OpToRel(<, Nat)
  BY <1>3 DEF OpToRel
<1>5. n - 1 \in C
  BY <1>2, <1>3, <1>4
<1>6. n \in C
  BY <1>3, <1>5
<1> QED  BY <1>6

(* What holds of the empty sequence, and with one more element, holds of all. *)
LEMMA SeqInduction ==
  ASSUME NEW S, NEW C, <<>> \in C,
         \A s \in Seq(S), e \in S : s \in C => Append(s, e) \in C
  PROVE  \A s \in Seq(S) : s \in C
<1> DEFINE D == {n \in Nat : \A s \in Seq(S) : Len(s) = n => s \in C}
<1>1. 0 \in D
  <2>1. \A s \in Seq(S) : Len(s) = 0 => s = <<>>
    OBVIOUS
  <2> QED  BY <2>1
<1>2. ASSUME NEW n \in Nat, n \in D PROVE n + 1 \in D
  <2>1. ASSUME NEW s \in Seq(S), Len(s) = n + 1 PROVE s \in C
    <3> DEFINE t == SubSeq(s, 1, n)
               e == s[n + 1]
    <3>1. t \in Seq(S) /\ e \in S /\ Len(t) = n /\ s = Append(t, e)
      BY <2>1
    <3> HIDE DEF t, e
    <3>2. t \in C
      BY <1>2, <3>1
    <3> QED  BY <3>1, <3>2
  <2> QED  BY <2>1
<1>3. \A n \in Nat : n \in D
  <2>1. \A n \in Nat : n \in D => n + 1 \in D
    BY <1>2
  <2> HIDE DEF D
  <2> QED  BY <1>1, <2>1, NatSetInduction
<1> QED  BY <1>3

(* The operators that are folded, told apart by their names. *)
With(kind, a, x, p) ==
  CASE kind = "own" -> WriteOwn(a, x, p[1])
    [] kind = "foreign" -> WriteForeign(a, x, p[1], p[2])
    [] kind = "bytes" -> a + Size(x)
    [] kind = "analyze" -> Analyze(a, x)
    [] kind = "trace" -> Trace(a, x)
    [] kind = "shown" -> a \o Elements(x)
    [] kind = "known" -> IF Known(x) THEN Append(a, x) ELSE a
    [] OTHER -> Change(p[1], a, x)

(* The definition by which the library folds from the left. *)
Folds(g, kind, p, base, seq, S) ==
  g = [s \in SUBSET S |-> IF s = {} THEN base ELSE With(kind, g[s \ {Max(s)}], seq[Max(s)], p)]
Fold(kind, p, base, seq, S) == (CHOOSE g : Folds(g, kind, p, base, seq, S))[S]

LEMMA MaxIs ==
  ASSUME NEW n \in Nat, NEW s, s \subseteq 1..n + 1, n + 1 \in s
  PROVE  Max(s) = n + 1
<1>1. \A y \in s : n + 1 >= y
  OBVIOUS
<1>2. \A x \in s : (\A y \in s : x >= y) => x = n + 1
  OBVIOUS
<1> QED  BY <1>1, <1>2 DEF Max

LEMMA FoldExists ==
  ASSUME NEW kind, NEW p, NEW base, NEW seq
  PROVE  \A n \in Nat : \E g : Folds(g, kind, p, base, seq, 1..n)
<1> DEFINE C == {n \in Nat : \E g : Folds(g, kind, p, base, seq, 1..n)}
<1>1. 0 \in C
  <2> DEFINE g == [s \in SUBSET {} |-> base]
  <2>1. 1..0 = {} /\ \A s \in SUBSET {} : s = {}
    OBVIOUS
  <2>2. g = [s \in SUBSET {} |-> IF s = {} THEN base ELSE With(kind, g[s \ {Max(s)}], seq[Max(s)], p)]
    OBVIOUS
  <2> HIDE DEF g
  <2> QED  BY <2>1, <2>2 DEF Folds
<1>2. ASSUME NEW n \in Nat, n \in C PROVE n + 1 \in C
  <2> DEFINE S == 1..n
             T == 1..n + 1
  <2>1. PICK g : Folds(g, kind, p, base, seq, S)
    BY <1>2
  <2> DEFINE h == [s \in SUBSET T |-> IF n + 1 \in s THEN With(kind, g[s \ {n + 1}], seq[n + 1], p) ELSE g[s]]
  <2>2. ASSUME NEW s \in SUBSET T
        PROVE  h[s] = IF s = {} THEN base ELSE With(kind, h[s \ {Max(s)}], seq[Max(s)], p)
    <3>1. CASE n + 1 \in s
      <4>1. Max(s) = n + 1 /\ s # {}
        BY <3>1, MaxIs
      <4>2. s \ {n + 1} \in SUBSET T /\ n + 1 \notin s \ {n + 1}
        OBVIOUS
      <4>3. h[s \ {n + 1}] = g[s \ {n + 1}]
        BY <4>2
      <4> QED  BY <3>1, <4>1, <4>3
    <3>2. CASE n + 1 \notin s
      <4>1. s \in SUBSET S
        BY <3>2
      <4>2. g[s] = IF s = {} THEN base ELSE With(kind, g[s \ {Max(s)}], seq[Max(s)], p)
        BY <2>1, <4>1 DEF Folds
      <4> DEFINE m == Max(s)
      <4>3. h[s] = g[s] /\ h[s \ {m}] = g[s \ {m}]
        <5> HIDE DEF m
        <5>1. s \ {m} \in SUBSET T /\ n + 1 \notin s \ {m}
          BY <3>2
        <5> QED  BY <3>2, <5>1
      <4> QED  BY <4>2, <4>3
    <3> QED  BY <3>1, <3>2
  <2>3. Folds(h, kind, p, base, seq, T)
    BY <2>2 DEF Folds
  <2> HIDE DEF h
  <2> QED  BY <2>3
<1>3. \A n \in Nat : n \in C
  <2>1. \A n \in Nat : n \in C => n + 1 \in C
    BY <1>2
  <2> HIDE DEF C
  <2> QED  BY <1>1, <2>1, NatSetInduction
<1> QED  BY <1>3

(* A fold from the left is a step for each element, in their order. *)
Steps(r, kind, p, base, seq, n) ==
  r[0] = base /\ \A k \in 1..n : r[k] = With(kind, r[k - 1], seq[k], p)

LEMMA FoldSteps ==
  ASSUME NEW kind, NEW p, NEW base, NEW seq, NEW n \in Nat
  PROVE  \E r : Steps(r, kind, p, base, seq, n) /\ r[n] = Fold(kind, p, base, seq, 1..n)
<1> DEFINE g == CHOOSE g : Folds(g, kind, p, base, seq, 1..n)
<1>1. Folds(g, kind, p, base, seq, 1..n) /\ Fold(kind, p, base, seq, 1..n) = g[1..n]
  BY FoldExists DEF Fold
<1> HIDE DEF g
<1> DEFINE r == [k \in 0..n |-> g[1..k]]
<1>2. r[0] = base
  <2>1. 1..0 = {}
    OBVIOUS
  <2> QED  BY <1>1, <2>1 DEF Folds
<1>3. ASSUME NEW k \in 1..n PROVE r[k] = With(kind, r[k - 1], seq[k], p)
  <2>1. Max(1..k) = k
    <3> DEFINE m == k - 1
    <3>1. m \in Nat /\ k = m + 1 /\ 1..k \subseteq 1..m + 1 /\ m + 1 \in 1..k
      OBVIOUS
    <3> HIDE DEF m
    <3>2. Max(1..k) = m + 1
      BY <3>1, MaxIs
    <3> QED  BY <3>1, <3>2
  <2>2. (1..k) \ {k} = 1..k - 1 /\ 1..k # {} /\ 1..k \in SUBSET (1..n)
    OBVIOUS
  <2>3. g[1..k] = With(kind, g[1..k - 1], seq[k], p)
    BY <1>1, <2>1, <2>2 DEF Folds
  <2> QED  BY <2>3
<1>4. Steps(r, kind, p, base, seq, n) /\ r[n] = g[1..n]
  BY <1>2, <1>3 DEF Steps
<1> HIDE DEF r
<1> QED  BY <1>1, <1>4

LEMMA FoldMore ==
  ASSUME NEW kind, NEW p, NEW base, NEW S, NEW s \in Seq(S), NEW e \in S
  PROVE  /\ Fold(kind, p, base, <<>>, 1..0) = base
         /\ Fold(kind, p, base, Append(s, e), 1..Len(s) + 1) =
              With(kind, Fold(kind, p, base, s, 1..Len(s)), e, p)
<1> DEFINE n == Len(s)
           more == Append(s, e)
<1>1. n \in Nat /\ more[n + 1] = e /\ \A k \in 1..n : more[k] = s[k]
  OBVIOUS
<1> HIDE DEF n, more
<1>2. Fold(kind, p, base, <<>>, 1..0) = base
  <2>1. 0 \in Nat
    OBVIOUS
  <2>2. PICK r : Steps(r, kind, p, base, <<>>, 0) /\ r[0] = Fold(kind, p, base, <<>>, 1..0)
    BY <2>1, FoldSteps
  <2> QED  BY <2>2 DEF Steps
<1>3. PICK r : Steps(r, kind, p, base, s, n) /\ r[n] = Fold(kind, p, base, s, 1..n)
  BY <1>1, FoldSteps
<1>4. PICK t : Steps(t, kind, p, base, more, n + 1) /\ t[n + 1] = Fold(kind, p, base, more, 1..n + 1)
  <2>1. n + 1 \in Nat
    BY <1>1
  <2> QED  BY <2>1, FoldSteps
<1> DEFINE C == {k \in Nat : k <= n => r[k] = t[k]}
<1>5. 0 \in C
  BY <1>3, <1>4 DEF Steps
<1>6. ASSUME NEW k \in Nat, k \in C PROVE k + 1 \in C
  <2> SUFFICES ASSUME k + 1 <= n PROVE r[k + 1] = t[k + 1]
    OBVIOUS
  <2>1. k + 1 \in 1..n /\ k + 1 \in 1..n + 1 /\ (k + 1) - 1 = k /\ k <= n
    BY <1>1
  <2>2. r[k + 1] = With(kind, r[k], s[k + 1], p)
    BY <1>3, <2>1 DEF Steps
  <2>3. t[k + 1] = With(kind, t[k], more[k + 1], p)
    BY <1>4, <2>1 DEF Steps
  <2> QED  BY <1>1, <1>6, <2>1, <2>2, <2>3
<1>7. \A k \in Nat : k \in C
  <2>1. \A k \in Nat : k \in C => k + 1 \in C
    BY <1>6
  <2> HIDE DEF C
  <2> QED  BY <1>5, <2>1, NatSetInduction
<1>8. r[n] = t[n]
  BY <1>1, <1>7
<1>9. t[n + 1] = With(kind, t[n], more[n + 1], p)
  <2>1. n + 1 \in 1..n + 1 /\ (n + 1) - 1 = n
    BY <1>1
  <2> QED  BY <1>4, <2>1 DEF Steps
<1> QED  BY <1>1, <1>2, <1>3, <1>4, <1>8, <1>9 DEF n, more
-----------------------------------------------------------------------------
(* Writers and readers, one step further.                                  *)

(* Writers and readers of some words or entries. *)
OwnWriter(ws, d) ==
  FoldLeft(LAMBDA w, word : WriteOwn(w, word, d), NoTrace([module |-> "none"]), ws)
ForeignWriter(start, ws, d) ==
  FoldLeft(LAMBDA w, word : WriteForeign(w, word, d, Depth), start, ws)
Analysis(entries) == FoldLeft(Analyze, [name |-> "<Invalid Module>", trace |-> <<>>], entries)
Tracing(entries) ==
  FoldLeft(Trace, [name |-> "<Invalid Module>", offset |-> 0, out |-> <<>>], entries)

LEMMA FoldsAre ==
  ASSUME NEW seq, NEW n \in Nat, DOMAIN seq = 1..n, NEW d, NEW start
  PROVE  /\ OwnWriter(seq, d) = Fold("own", <<d>>, NoTrace([module |-> "none"]), seq, 1..n)
         /\ ForeignWriter(start, seq, d) = Fold("foreign", <<d, Depth>>, start, seq, 1..n)
         /\ TraceBytes(seq) = Fold("bytes", <<>>, 0, seq, 1..n)
         /\ Analysis(seq) =
              Fold("analyze", <<>>, [name |-> "<Invalid Module>", trace |-> <<>>], seq, 1..n)
         /\ Tracing(seq) =
              Fold("trace", <<>>, [name |-> "<Invalid Module>", offset |-> 0, out |-> <<>>], seq, 1..n)
         /\ Shown(seq) = Fold("shown", <<>>, <<>>, seq, 1..n)
         /\ AddressesOf(seq) = Fold("known", <<>>, <<>>, seq, 1..n)
<1>1. OwnWriter(seq, d) = Fold("own", <<d>>, NoTrace([module |-> "none"]), seq, 1..n)
  BY DEF OwnWriter, FoldLeft, MapThenFoldSet, Fold, Folds, With
<1>2. ForeignWriter(start, seq, d) = Fold("foreign", <<d, Depth>>, start, seq, 1..n)
  BY DEF ForeignWriter, FoldLeft, MapThenFoldSet, Fold, Folds, With
<1>3. TraceBytes(seq) = Fold("bytes", <<>>, 0, seq, 1..n)
  BY DEF TraceBytes, FoldLeft, MapThenFoldSet, Fold, Folds, With
<1>4. Analysis(seq) =
        Fold("analyze", <<>>, [name |-> "<Invalid Module>", trace |-> <<>>], seq, 1..n)
  BY DEF Analysis, FoldLeft, MapThenFoldSet, Fold, Folds, With
<1>5. Tracing(seq) =
        Fold("trace", <<>>, [name |-> "<Invalid Module>", offset |-> 0, out |-> <<>>], seq, 1..n)
  BY DEF Tracing, FoldLeft, MapThenFoldSet, Fold, Folds, With
<1>6. Shown(seq) = Fold("shown", <<>>, <<>>, seq, 1..n)
  BY DEF Shown, FoldLeft, MapThenFoldSet, Fold, Folds, With
<1>7. AddressesOf(seq) = Fold("known", <<>>, <<>>, seq, 1..n)
  BY DEF AddressesOf, FoldLeft, MapThenFoldSet, Fold, Folds, With
<1> QED  BY <1>1, <1>2, <1>3, <1>4, <1>5, <1>6, <1>7

LEMMA ChangesAre ==
  ASSUME NEW seq, NEW n \in Nat, DOMAIN seq = 1..n, NEW rip
  PROVE  ChangesIn(rip, seq) = Fold("change", <<rip>>, <<>>, seq, 1..n)
BY DEF ChangesIn, FoldLeft, MapThenFoldSet, Fold, Folds, With

LEMMA SeqsAre ==
  ASSUME NEW S, NEW s \in Seq(S), NEW e \in S
  PROVE  /\ Len(s) \in Nat /\ DOMAIN s = 1..Len(s)
         /\ Len(s) + 1 \in Nat /\ DOMAIN Append(s, e) = 1..Len(s) + 1
         /\ 0 \in Nat /\ DOMAIN <<>> = 1..0
OBVIOUS

(* What is written, with one word more. *)
LEMMA WritersMore ==
  ASSUME NEW S, NEW s \in Seq(S), NEW e \in S, NEW d, NEW start
  PROVE  /\ OwnWriter(<<>>, d) = NoTrace([module |-> "none"])
         /\ OwnWriter(Append(s, e), d) = WriteOwn(OwnWriter(s, d), e, d)
         /\ ForeignWriter(start, <<>>, d) = start
         /\ ForeignWriter(start, Append(s, e), d) =
              WriteForeign(ForeignWriter(start, s, d), e, d, Depth)
<1> DEFINE n == Len(s)
           more == Append(s, e)
           none == NoTrace([module |-> "none"])
<1>1. n \in Nat /\ DOMAIN s = 1..n /\ n + 1 \in Nat /\ DOMAIN more = 1..n + 1 /\ 0 \in Nat /\ DOMAIN <<>> = 1..0
  BY SeqsAre
<1>2. /\ Fold("own", <<d>>, none, <<>>, 1..0) = none
      /\ Fold("own", <<d>>, none, more, 1..n + 1) = With("own", Fold("own", <<d>>, none, s, 1..n), e, <<d>>)
  BY FoldMore
<1>3. /\ Fold("foreign", <<d, Depth>>, start, <<>>, 1..0) = start
      /\ Fold("foreign", <<d, Depth>>, start, more, 1..n + 1) =
           With("foreign", Fold("foreign", <<d, Depth>>, start, s, 1..n), e, <<d, Depth>>)
  BY FoldMore
<1> HIDE DEF n, more
<1>4. \A seq : \A k \in Nat : DOMAIN seq = 1..k =>
        /\ OwnWriter(seq, d) = Fold("own", <<d>>, none, seq, 1..k)
        /\ ForeignWriter(start, seq, d) = Fold("foreign", <<d, Depth>>, start, seq, 1..k)
  BY ZenonT(60), FoldsAre
<1>5. \A a, x : With("own", a, x, <<d>>) = WriteOwn(a, x, d)
  BY DEF With
<1>6. \A a, x : With("foreign", a, x, <<d, Depth>>) = WriteForeign(a, x, d, Depth)
  BY DEF With
<1> HIDE DEF none
<1> USE <1>1, <1>4
<1>7. OwnWriter(<<>>, d) = none /\ ForeignWriter(start, <<>>, d) = start
  BY <1>2, <1>3
<1>8. OwnWriter(more, d) = WriteOwn(OwnWriter(s, d), e, d)
  BY <1>2, <1>5
<1>9. ForeignWriter(start, more, d) = WriteForeign(ForeignWriter(start, s, d), e, d, Depth)
  BY <1>3, <1>6
<1> QED  BY <1>7, <1>8, <1>9 DEF more, none

(* What is read, with one entry more. *)
LEMMA ReadersMore ==
  ASSUME NEW S, NEW s \in Seq(S), NEW e \in S
  PROVE  /\ TraceBytes(<<>>) = 0 /\ TraceBytes(Append(s, e)) = TraceBytes(s) + Size(e)
         /\ Analysis(<<>>) = [name |-> "<Invalid Module>", trace |-> <<>>]
         /\ Analysis(Append(s, e)) = Analyze(Analysis(s), e)
         /\ Tracing(<<>>) = [name |-> "<Invalid Module>", offset |-> 0, out |-> <<>>]
         /\ Tracing(Append(s, e)) = Trace(Tracing(s), e)
         /\ Shown(<<>>) = <<>> /\ Shown(Append(s, e)) = Shown(s) \o Elements(e)
<1> DEFINE n == Len(s)
           more == Append(s, e)
           base == [name |-> "<Invalid Module>", trace |-> <<>>]
           begin == [name |-> "<Invalid Module>", offset |-> 0, out |-> <<>>]
<1>1. n \in Nat /\ DOMAIN s = 1..n /\ n + 1 \in Nat /\ DOMAIN more = 1..n + 1 /\ 0 \in Nat /\ DOMAIN <<>> = 1..0
  BY SeqsAre
<1>0. \A seq : \A k \in Nat : DOMAIN seq = 1..k =>
        /\ Analysis(seq) = Fold("analyze", <<>>, base, seq, 1..k)
        /\ Tracing(seq) = Fold("trace", <<>>, begin, seq, 1..k)
  BY FoldsAre
<1> HIDE DEF base, begin
<1>2. /\ Fold("bytes", <<>>, 0, <<>>, 1..0) = 0
      /\ Fold("bytes", <<>>, 0, more, 1..n + 1) = With("bytes", Fold("bytes", <<>>, 0, s, 1..n), e, <<>>)
  BY FoldMore
<1>3. /\ Fold("analyze", <<>>, base, <<>>, 1..0) = base
      /\ Fold("analyze", <<>>, base, more, 1..n + 1) = With("analyze", Fold("analyze", <<>>, base, s, 1..n), e, <<>>)
  BY FoldMore
<1>4. /\ Fold("trace", <<>>, begin, <<>>, 1..0) = begin
      /\ Fold("trace", <<>>, begin, more, 1..n + 1) = With("trace", Fold("trace", <<>>, begin, s, 1..n), e, <<>>)
  BY FoldMore
<1>5. /\ Fold("shown", <<>>, <<>>, <<>>, 1..0) = <<>>
      /\ Fold("shown", <<>>, <<>>, more, 1..n + 1) = With("shown", Fold("shown", <<>>, <<>>, s, 1..n), e, <<>>)
  BY FoldMore
<1> HIDE DEF n, more
<1>6. \A seq : \A k \in Nat : DOMAIN seq = 1..k =>
        /\ TraceBytes(seq) = Fold("bytes", <<>>, 0, seq, 1..k)
        /\ Shown(seq) = Fold("shown", <<>>, <<>>, seq, 1..k)
  BY FoldsAre
<1>7. \A a, x : /\ With("bytes", a, x, <<>>) = a + Size(x)
                /\ With("analyze", a, x, <<>>) = Analyze(a, x)
  BY DEF With
<1>8. \A a, x : /\ With("trace", a, x, <<>>) = Trace(a, x)
                /\ With("shown", a, x, <<>>) = a \o Elements(x)
  BY DEF With
<1> USE <1>0, <1>1, <1>6
<1>9. TraceBytes(<<>>) = 0 /\ Analysis(<<>>) = base /\ Tracing(<<>>) = begin /\ Shown(<<>>) = <<>>
  BY <1>2, <1>3, <1>4, <1>5
<1>10. TraceBytes(more) = TraceBytes(s) + Size(e)
  BY <1>2, <1>7
<1>11. Analysis(more) = Analyze(Analysis(s), e)
  BY <1>3, <1>7
<1>12. Tracing(more) = Trace(Tracing(s), e)
  BY <1>4, <1>8
<1>13. Shown(more) = Shown(s) \o Elements(e)
  <2> DEFINE before == Fold("shown", <<>>, <<>>, s, 1..n)
  <2>1. With("shown", before, e, <<>>) = before \o Elements(e)
    BY DEF With
  <2>2. Shown(s) = before /\ Shown(more) = Fold("shown", <<>>, <<>>, more, 1..n + 1)
    OBVIOUS
  <2>3. Fold("shown", <<>>, <<>>, more, 1..n + 1) = With("shown", before, e, <<>>)
    BY <1>5
  <2> HIDE DEF before
  <2> QED  BY <2>1, <2>2, <2>3
<1> QED  BY <1>9, <1>10, <1>11, <1>12, <1>13 DEF more, base, begin

(* What was on the stack, with one word more. *)
LEMMA WordsMore ==
  ASSUME NEW S, NEW s \in Seq(S), NEW e \in S, NEW rip
  PROVE  /\ AddressesOf(<<>>) = <<>>
         /\ AddressesOf(Append(s, e)) = IF Known(e) THEN Append(AddressesOf(s), e) ELSE AddressesOf(s)
         /\ ChangesIn(rip, <<>>) = <<>>
         /\ ChangesIn(rip, Append(s, e)) =
              Change(rip, ChangesIn(rip, s), e)
<1> DEFINE n == Len(s)
           more == Append(s, e)
           F(seq) == ChangesIn(rip, seq)
<1>1. n \in Nat /\ DOMAIN s = 1..n /\ n + 1 \in Nat /\ DOMAIN more = 1..n + 1 /\ 0 \in Nat /\ DOMAIN <<>> = 1..0
  BY SeqsAre
<1>2. /\ Fold("known", <<>>, <<>>, <<>>, 1..0) = <<>>
      /\ Fold("known", <<>>, <<>>, more, 1..n + 1) = With("known", Fold("known", <<>>, <<>>, s, 1..n), e, <<>>)
  BY FoldMore
<1>3. /\ Fold("change", <<rip>>, <<>>, <<>>, 1..0) = <<>>
      /\ Fold("change", <<rip>>, <<>>, more, 1..n + 1) = With("change", Fold("change", <<rip>>, <<>>, s, 1..n), e, <<rip>>)
  BY FoldMore
<1> HIDE DEF n, more
<1>4. \A seq : \A k \in Nat : DOMAIN seq = 1..k => AddressesOf(seq) = Fold("known", <<>>, <<>>, seq, 1..k)
  BY FoldsAre
<1>5. ASSUME NEW seq, NEW k \in Nat, DOMAIN seq = 1..k PROVE F(seq) = Fold("change", <<rip>>, <<>>, seq, 1..k)
  BY <1>5, ChangesAre
<1>6. \A a, x : With("known", a, x, <<>>) = IF Known(x) THEN Append(a, x) ELSE a
  BY DEF With
<1>7. \A a, x : With("change", a, x, <<rip>>) = Change(rip, a, x)
  BY DEF With
<1>8. AddressesOf(<<>>) = <<>> /\ AddressesOf(more) = IF Known(e) THEN Append(AddressesOf(s), e) ELSE AddressesOf(s)
  BY <1>1, <1>2, <1>4, <1>6
<1>9. F(<<>>) = <<>>
  BY <1>1, <1>3, <1>5
<1>10. F(more) = Change(rip, F(s), e)
  <2>1. F(more) = Fold("change", <<rip>>, <<>>, more, 1..n + 1) /\ F(s) = Fold("change", <<rip>>, <<>>, s, 1..n)
    BY <1>1, <1>5
  <2> HIDE DEF F
  <2> QED  BY <1>3, <1>7, <2>1
<1> QED  BY <1>8, <1>9, <1>10 DEF more, F
-----------------------------------------------------------------------------
(* Reading.                                                                *)

LEMMA Replaced ==
  ASSUME NEW S, NEW a \in S, NEW b \in S, NEW s \in Seq(S)
  PROVE  [Append(s, a) EXCEPT ![Len(s) + 1] = b] = Append(s, b)
<1> DEFINE n == Len(s) + 1
           p == Append(s, a)
           x == [p EXCEPT ![n] = b]
           y == Append(s, b)
<1>1. p \in Seq(S) /\ Len(p) = n /\ n \in 1 .. Len(p) /\ \A i \in 1 .. n - 1 : p[i] = s[i]
  OBVIOUS
<1>2. y \in Seq(S) /\ Len(y) = n /\ y[n] = b /\ \A i \in 1 .. n - 1 : y[i] = s[i]
  OBVIOUS
<1> HIDE DEF n, p, y
<1>3. x \in Seq(S) /\ Len(x) = n /\ \A i \in 1 .. n : x[i] = IF i = n THEN b ELSE p[i]
  BY <1>1, ExceptSeq
<1> HIDE DEF x
<1>4. \A i \in 1 .. n : x[i] = y[i]
  <2>1. n \in Nat /\ \A i \in 1 .. n : i = n \/ i \in 1 .. n - 1
    BY <1>1
  <2> QED  BY <1>1, <1>2, <1>3, <2>1
<1>5. Len(x) = Len(y) /\ \A i \in 1 .. Len(x) : x[i] = y[i]
  BY <1>2, <1>3, <1>4
<1>6. x = y
  BY <1>2, <1>3, <1>5, SeqEqual
<1> QED BY <1>6 DEF x, y, p, n

Names == STRING \cup {NoName, "app", "disasm", "MODULE_NOT_FOUND", "<Invalid Module>"}
Data == [offset : Int, of : Words]
Entries == [type : {"app", "same", "dll", "data"}, offset : Int, name : Names, of : Words]
Frames == [module : Names, offset : Int, disasm : SUBSET Data]

LEMMA FramesAre ==
  /\ \A f \in Frames : /\ f = [module |-> f.module, offset |-> f.offset, disasm |-> f.disasm]
                       /\ f.module \in Names /\ f.offset \in Int /\ f.disasm \in SUBSET Data
  /\ \A m \in Names : \A o \in Int : \A d \in SUBSET Data :
       [module |-> m, offset |-> o, disasm |-> d] \in Frames
BY DEF Frames

LEMMA ElementsAre ==
  ASSUME NEW f \in Frames
  PROVE  /\ f.disasm = {} => Elements(f) = <<f>>
         /\ f.disasm # {} => Elements(f) =
              <<[f EXCEPT !.disasm = {}], [module |-> "disasm", offset |-> f.offset, disasm |-> f.disasm]>>
         /\ Elements(f) \in Seq(Frames)
<1> DEFINE bare == [f EXCEPT !.disasm = {}]
           data == [module |-> "disasm", offset |-> f.offset, disasm |-> f.disasm]
<1>1. bare \in Frames /\ data \in Frames
  <2>1. bare = [module |-> f.module, offset |-> f.offset, disasm |-> {}]
    BY FramesAre
  <2>2. {} \in SUBSET Data /\ "disasm" \in Names
    BY DEF Names
  <2>3. bare \in Frames
    BY <2>1, <2>2, FramesAre
  <2>4. data \in Frames
    BY <2>2, FramesAre
  <2> QED  BY <2>3, <2>4
<1>2. f.disasm = {} => bare = f
  BY FramesAre
<1>3. Elements(f) = IF f.disasm = {} THEN <<bare>> ELSE <<bare, data>>
  BY DEF Elements, Frame
<1> HIDE DEF bare, data
<1>4. <<bare>> \in Seq(Frames) /\ <<bare, data>> \in Seq(Frames)
  BY <1>1
<1> QED  BY <1>2, <1>3, <1>4 DEF bare, data

LEMMA ShownIs == \A fs \in Seq(Frames) : Shown(fs) \in Seq(Frames)
<1> DEFINE C == {fs \in Seq(Frames) : Shown(fs) \in Seq(Frames)}
<1>1. <<>> \in C
  <2>1. <<>> \in Seq({{}}) /\ {} \in {{}}
    OBVIOUS
  <2>2. Shown(<<>>) = <<>>
    BY <2>1, ReadersMore
  <2>3. <<>> \in Seq(Frames)
    OBVIOUS
  <2> QED  BY <2>2, <2>3, Zenon
<1>2. ASSUME NEW frames \in Seq(Frames), NEW f \in Frames, frames \in C PROVE Append(frames, f) \in C
  <2>1. Shown(Append(frames, f)) = Shown(frames) \o Elements(f)
    BY ReadersMore
  <2>2. Elements(f) \in Seq(Frames) /\ Shown(frames) \in Seq(Frames)
    BY <1>2, ElementsAre
  <2>3. Shown(frames) \o Elements(f) \in Seq(Frames) /\ Append(frames, f) \in Seq(Frames)
    BY <2>2
  <2> QED  BY <2>1, <2>3, Zenon
<1> HIDE DEF C
<1>3. \A s \in Seq(Frames) : s \in C
  BY <1>1, <1>2, SeqInduction
<1> QED  BY <1>3 DEF C

(* Both readers have found the frames, and are at this name and offset.    *)
Reads(entries, name, at, frames) ==
  /\ Analysis(entries) = [name |-> name, trace |-> frames]
  /\ Tracing(entries) = [name |-> name, offset |-> at, out |-> Shown(frames)]

LEMMA ReadsNone == Reads(<<>>, "<Invalid Module>", 0, <<>>) /\ TraceBytes(<<>>) = 0
<1>1. <<>> \in Seq({{}}) /\ {} \in {{}}
  OBVIOUS
<1>2. /\ Analysis(<<>>) = [name |-> "<Invalid Module>", trace |-> <<>>]
      /\ Tracing(<<>>) = [name |-> "<Invalid Module>", offset |-> 0, out |-> <<>>]
      /\ Shown(<<>>) = <<>> /\ TraceBytes(<<>>) = 0
  BY <1>1, ReadersMore
<1> QED  BY <1>2 DEF Reads

LEMMA ReadsAddress ==
  ASSUME NEW entries \in Seq(Entries), NEW frames \in Seq(Frames), NEW e \in Entries,
         NEW name \in Names, NEW at, Reads(entries, name, at, frames), e.type # "data",
         NEW f, f = FrameAt(name, e)
  PROVE  /\ f \in Frames /\ f.disasm = {} /\ f.offset = e.offset
         /\ Reads(Append(entries, e), NameAfter(name, e), e.offset, Append(frames, f))
<1>1. f \in Frames /\ f.disasm = {} /\ f.offset = e.offset
  <2> DEFINE nm == IF e.type = "app" THEN "app" ELSE NameAfter(name, e)
  <2>1. nm \in Names /\ e.offset \in Int /\ {} \in SUBSET Data
    BY DEF NameAfter, Entries, Names
  <2>2. f = [module |-> nm, offset |-> e.offset, disasm |-> {}]
    BY DEF FrameAt, Frame
  <2> HIDE DEF nm
  <2> QED  BY <2>1, <2>2, FramesAre
<1>2. /\ Analysis(Append(entries, e)) = Analyze(Analysis(entries), e)
      /\ Tracing(Append(entries, e)) = Trace(Tracing(entries), e)
  BY ReadersMore
<1>3. Shown(Append(frames, f)) = Shown(frames) \o Elements(f) /\ Elements(f) = <<f>>
  BY <1>1, ReadersMore, ElementsAre
<1>4. Shown(Append(frames, f)) = Append(Shown(frames), f)
  <2>1. Shown(frames) \in Seq(Frames)
    BY ShownIs
  <2> HIDE DEF Frames
  <2>2. Shown(frames) \o <<f>> = Append(Shown(frames), f)
    BY <1>1, <2>1
  <2> QED  BY <1>3, <2>2
<1>5. Analyze(Analysis(entries), e) = [name |-> NameAfter(name, e), trace |-> Append(frames, f)]
  BY DEF Reads, Analyze
<1>6. Trace(Tracing(entries), e) =
        [name |-> NameAfter(name, e), offset |-> e.offset, out |-> Append(Shown(frames), f)]
  BY DEF Reads, Trace
<1> QED  BY <1>1, <1>2, <1>4, <1>5, <1>6 DEF Reads

LEMMA ReadsData ==
  ASSUME NEW entries \in Seq(Entries), NEW frames \in Seq(Frames), NEW f \in Frames,
         f.disasm = {}, NEW name, NEW at, f.offset = at, Reads(entries, name, at, Append(frames, f)),
         NEW e \in Entries, e.type = "data"
  PROVE  Reads(Append(entries, e), name, at,
               Append(frames, [f EXCEPT !.disasm = {[offset |-> at, of |-> e.of]}]))
<1> DEFINE d == {[offset |-> at, of |-> e.of]}
           h == [f EXCEPT !.disasm = d]
           n == Len(frames) + 1
           all == Append(frames, f)
           data == [module |-> "disasm", offset |-> at, disasm |-> d]
<1>1. h \in Frames /\ h.disasm = d /\ h.disasm # {} /\ h.offset = at /\ [h EXCEPT !.disasm = {}] = f
  <2>1. f = [module |-> f.module, offset |-> at, disasm |-> {}] /\ f.module \in Names /\ at \in Int
    BY FramesAre
  <2>2. d \in SUBSET Data /\ d # {}
    BY <2>1 DEF Entries, Data
  <2> HIDE DEF d
  <2>3. h = [module |-> f.module, offset |-> at, disasm |-> d]
    BY <2>1
  <2>4. h \in Frames
    BY <2>1, <2>2, <2>3, FramesAre
  <2>5. h.disasm = d /\ h.disasm # {} /\ h.offset = at
    BY <2>2, <2>3
  <2> HIDE DEF h
  <2>6. [h EXCEPT !.disasm = {}] = [module |-> f.module, offset |-> at, disasm |-> {}]
    <3>1. h.module = f.module /\ h.offset = at
      BY <2>3
    <3>2. [h EXCEPT !.disasm = {}] = [module |-> h.module, offset |-> h.offset, disasm |-> {}]
      BY <2>4, FramesAre
    <3> QED  BY <3>1, <3>2
  <2> QED  BY <2>1, <2>4, <2>5, <2>6
<1>2. /\ Analysis(Append(entries, e)) = Analyze(Analysis(entries), e)
      /\ Tracing(Append(entries, e)) = Trace(Tracing(entries), e)
  BY ReadersMore
<1>3. Analysis(entries) = [name |-> name, trace |-> all]
      /\ Tracing(entries) = [name |-> name, offset |-> at, out |-> Shown(all)]
  BY DEF Reads
<1>4. Len(all) = n /\ n \in Nat /\ n # 0 /\ all[n] = f
  OBVIOUS
<1>5. [all EXCEPT ![n].disasm = d] = Append(frames, h)
  <2> HIDE DEF d, Frames
  <2>1. [all EXCEPT ![n].disasm = d] = [all EXCEPT ![n] = h]
    BY <1>4
  <2> HIDE DEF h
  <2>2. [all EXCEPT ![n] = h] = Append(frames, h)
    BY <1>1, Replaced
  <2> QED  BY <2>1, <2>2
<1>6. NameAfter(name, e) = name
  BY DEF NameAfter
<1> HIDE DEF all, n
<1>7. Analyze(Analysis(entries), e) = [name |-> name, trace |-> Append(frames, h)]
  <2>1. Analyze(Analysis(entries), e) =
          [name |-> name, trace |-> [all EXCEPT ![n].disasm = {[offset |-> all[n].offset, of |-> e.of]}]]
    <3> DEFINE r == Analysis(entries)
    <3>1. r.name = name /\ r.trace = all /\ Len(r.trace) = n /\ n # 0 /\ e.type = "data"
      BY <1>3, <1>4
    <3> HIDE DEF r
    <3>2. Analyze(r, e) = [name |-> NameAfter(r.name, e),
             trace |-> [r.trace EXCEPT ![Len(r.trace)].disasm =
                          {[offset |-> r.trace[Len(r.trace)].offset, of |-> e.of]}]]
      BY <3>1 DEF Analyze
    <3>3. Analyze(r, e) = [name |-> NameAfter(name, e),
             trace |-> [all EXCEPT ![n].disasm = {[offset |-> all[n].offset, of |-> e.of]}]]
      BY <3>1, <3>2, Zenon
    <3> QED  BY <1>6, <3>3 DEF r
  <2>2. all[n].offset = at
    BY <1>4
  <2>3. [all EXCEPT ![n].disasm = {[offset |-> all[n].offset, of |-> e.of]}] = [all EXCEPT ![n].disasm = d]
    BY <2>2
  <2> HIDE DEF d, h
  <2> QED  BY <1>5, <2>1, <2>3
<1>8. Trace(Tracing(entries), e) = [name |-> name, offset |-> at, out |-> Append(Shown(all), data)]
  BY <1>3, <1>6 DEF Trace, Frame
<1>9. Append(Shown(all), data) = Shown(Append(frames, h))
  <2>1. Shown(all) = Shown(frames) \o Elements(f) /\ Shown(Append(frames, h)) = Shown(frames) \o Elements(h)
    <3> HIDE DEF h, Frames
    <3>1. Shown(Append(frames, f)) = Shown(frames) \o Elements(f)
      BY ReadersMore
    <3>2. Shown(Append(frames, h)) = Shown(frames) \o Elements(h)
      BY <1>1, ReadersMore
    <3> QED  BY <3>1, <3>2 DEF all
  <2>2. Elements(f) = <<f>> /\ Elements(h) = <<f, data>>
    BY <1>1, ElementsAre
  <2>3. Shown(frames) \in Seq(Frames) /\ data \in Frames
    <3>1. Shown(frames) \in Seq(Frames)
      BY ShownIs
    <3>2. "disasm" \in Names /\ at \in Int /\ d \in SUBSET Data
      <4>1. h.offset \in Int /\ h.disasm \in SUBSET Data
        BY <1>1, FramesAre
      <4> QED  BY <1>1, <4>1 DEF Names
    <3>3. data \in Frames
      BY <3>2, FramesAre
    <3> QED  BY <3>1, <3>3
  <2> HIDE DEF data, Frames, h
  <2>4. Append(Shown(frames) \o <<f>>, data) = Shown(frames) \o <<f, data>>
    BY <2>3
  <2> QED  BY <2>1, <2>2, <2>4
<1> QED  BY <1>2, <1>7, <1>8, <1>9 DEF Reads
-----------------------------------------------------------------------------
(* Writing.                                                                *)

(* What a writer has written is read as these frames, and fits.            *)
Agrees(w, frames) ==
  /\ w.entries \in Seq(Entries) /\ frames \in Seq(Frames) /\ w.stored \in Nat
  /\ TraceBytes(w.entries) \in Nat /\ TraceBytes(w.entries) <= 26 + 282 * w.stored
  /\ \E name \in Names : \E at \in Int :
       /\ Reads(w.entries, name, at, frames)
       /\ w.module \notin {"none", "app"} => name = w.module

LEMMA WordsAre ==
  ASSUME NEW word \in Words, NEW d
  PROVE  /\ word.module \in Names /\ word.offset \in Int
         /\ FrameOf(word, d) = [module |-> word.module, offset |-> word.offset,
              disasm |-> IF d /\ word.readable THEN {[offset |-> word.offset, of |-> word]} ELSE {}]
         /\ FrameOf(word, d) \in Frames
<1>1. word.module \in STRING /\ word.offset \in Int
  BY WordsAssumption
<1>2. word.module \in Names
  BY <1>1 DEF Names
<1> DEFINE D == IF d /\ word.readable THEN {[offset |-> word.offset, of |-> word]} ELSE {}
<1>3. FrameOf(word, d) = [module |-> word.module, offset |-> word.offset, disasm |-> D]
  BY DEF FrameOf, Frame, Disasm
<1>4. D \in SUBSET Data
  BY <1>1 DEF Data
<1> HIDE DEF D
<1>5. FrameOf(word, d) \in Frames
  BY <1>1, <1>2, <1>3, <1>4, FramesAre
<1> QED  BY <1>1, <1>2, <1>3, <1>5 DEF D

LEMMA EntriesAre ==
  ASSUME NEW word \in Words, NEW name \in Names, NEW type,
         type \in {"app", "same", "dll", "data"}
  PROVE  Entry(type, word, name) \in Entries
BY WordsAre DEF Entry, Entries

LEMMA EntryHas ==
  ASSUME NEW word, NEW name, NEW type
  PROVE  /\ Entry(type, word, name).type = type /\ Entry(type, word, name).name = name
         /\ Entry(type, word, name).offset = word.offset /\ Entry(type, word, name).of = word
BY DEF Entry

(* The entry of an address, and the name that its reader has then. *)
EntryOf(module, word) ==
  IF word.module = "app" THEN Entry("app", word, NoName)
  ELSE IF word.module = module THEN Entry("same", word, NoName)
  ELSE Entry("dll", word, word.module)

Is(x, y) == x = y

LEMMA EntryIs ==
  ASSUME NEW word \in Words, Known(word), NEW name \in Names, NEW module,
         module \notin {"none", "app"} => name = module,
         NEW e, Is(e, EntryOf(module, word))
  PROVE  /\ e \in Entries /\ e.type # "data" /\ e.offset = word.offset
         /\ FrameAt(name, e) = [module |-> word.module, offset |-> word.offset, disasm |-> {}]
         /\ NameAfter(name, e) \in Names
         /\ word.module \notin {"none", "app"} => NameAfter(name, e) = word.module
         /\ Size(e) \in Nat /\ Size(e) <= 265
<1>1. NoName \in Names /\ word.module \in Names /\ word.module # "none"
  BY WordsAre DEF Names, Known
<1>2. CASE word.module = "app"
  <2>1. e = Entry("app", word, NoName)
    BY <1>2 DEF EntryOf, Is
  <2>2. e \in Entries /\ e.type = "app" /\ e.offset = word.offset
    <3>1. "app" \in {"app", "same", "dll", "data"}
      OBVIOUS
    <3>2. e \in Entries
      BY <1>1, <2>1, <3>1, EntriesAre
    <3> QED  BY <2>1, <3>2, EntryHas
  <2>3. Size(e) = 9 /\ NameAfter(name, e) = name
    BY <2>2 DEF Size, NameAfter
  <2> QED  BY <1>2, <2>2, <2>3 DEF FrameAt, Frame
<1>3. CASE word.module # "app" /\ word.module = module
  <2>1. e = Entry("same", word, NoName) /\ name = word.module
    BY <1>1, <1>3 DEF EntryOf, Is
  <2>2. e \in Entries /\ e.type = "same" /\ e.offset = word.offset
    <3>1. "same" \in {"app", "same", "dll", "data"}
      OBVIOUS
    <3>2. e \in Entries
      BY <1>1, <2>1, <3>1, EntriesAre
    <3> QED  BY <2>1, <3>2, EntryHas
  <2>3. Size(e) = 9 /\ NameAfter(name, e) = name
    BY <2>2 DEF Size, NameAfter
  <2> QED  BY <2>1, <2>2, <2>3 DEF FrameAt, Frame
<1>4. CASE word.module # "app" /\ word.module # module
  <2>1. e = Entry("dll", word, word.module)
    BY <1>4 DEF EntryOf, Is
  <2>2. e \in Entries /\ e.type = "dll" /\ e.offset = word.offset /\ e.name = word.module
    <3>1. "dll" \in {"app", "same", "dll", "data"}
      OBVIOUS
    <3>2. e \in Entries
      BY <1>1, <2>1, <3>1, EntriesAre
    <3> QED  BY <2>1, <3>2, EntryHas
  <2>3. Size(e) \in Nat /\ Size(e) <= 265 /\ NameAfter(name, e) = word.module
    BY <2>2 DEF Size, NameAfter
  <2> QED  BY <1>1, <2>1, <2>2, <2>3 DEF FrameAt, Frame
<1> QED  BY <1>2, <1>3, <1>4

LEMMA WriteMore ==
  ASSUME NEW w, NEW frames, NEW word \in Words, Known(word), NEW d \in BOOLEAN, Agrees(w, frames)
  PROVE  /\ Agrees(WriteAddress(w, word, d), Append(frames, FrameOf(word, d)))
         /\ WriteAddress(w, word, d).stored = w.stored + 1
         /\ WriteAddress(w, word, d).last = word
         /\ WriteAddress(w, word, d).enough = w.enough
<1> DEFINE e == EntryOf(w.module, word)
           e2 == Entry("data", word, NoName)
           next == WriteAddress(w, word, d)
           f == [module |-> word.module, offset |-> word.offset, disasm |-> {}]
           one == Append(w.entries, e)
           two == Append(one, e2)
           data == d /\ word.readable
<1>1. PICK name \in Names, at \in Int :
        /\ Reads(w.entries, name, at, frames)
        /\ w.module \notin {"none", "app"} => name = w.module
  BY DEF Agrees
<1>2. /\ w.entries \in Seq(Entries) /\ frames \in Seq(Frames) /\ w.stored \in Nat
      /\ TraceBytes(w.entries) \in Nat /\ TraceBytes(w.entries) <= 26 + 282 * w.stored
  BY DEF Agrees
<1>3. /\ e \in Entries /\ e.type # "data" /\ e.offset = word.offset
      /\ FrameAt(name, e) = f
      /\ NameAfter(name, e) \in Names
      /\ word.module \notin {"none", "app"} => NameAfter(name, e) = word.module
      /\ Size(e) \in Nat /\ Size(e) <= 265
  <2> HIDE DEF f
  <2>1. Is(e, EntryOf(w.module, word))
    BY DEF Is
  <2> DEFINE module == w.module
  <2> HIDE DEF e, module
  <2>2. module \notin {"none", "app"} => name = module
    BY <1>1 DEF module
  <2>3. Is(e, EntryOf(module, word))
    BY <2>1 DEF module
  <2> QED  BY <2>2, <2>3, EntryIs DEF f
<1>4. e2 \in Entries /\ e2.type = "data" /\ e2.of = word /\ NoName \in Names
  <2>1. "data" \in {"app", "same", "dll", "data"} /\ NoName \in Names
    BY DEF Names
  <2>2. e2 \in Entries
    BY <2>1, EntriesAre
  <2> QED  BY <2>1, <2>2, EntryHas
<1>5. /\ next.module = word.module /\ next.last = word /\ next.stored = w.stored + 1
      /\ next.enough = w.enough
      /\ next.entries = (w.entries \o <<e>>) \o (IF data THEN <<e2>> ELSE <<>>)
  BY DEF WriteAddress, EntryOf
<1>6. word.offset \in Int /\ FrameOf(word, d) \in Frames
      /\ FrameOf(word, d) = [module |-> word.module, offset |-> word.offset,
              disasm |-> IF data THEN {[offset |-> word.offset, of |-> word]} ELSE {}]
  BY WordsAre
<1> HIDE DEF e, e2, next, data, Entries, Frames
<1>7. one \in Seq(Entries) /\ two \in Seq(Entries)
      /\ next.entries = IF data THEN two ELSE one
  <2>1. w.entries \o <<e>> = one /\ one \in Seq(Entries)
    BY <1>2, <1>3
  <2> HIDE DEF one
  <2>2. one \o <<e2>> = two /\ two \in Seq(Entries)
    BY <1>4, <2>1
  <2>3. one \o <<>> = one
    BY <2>1
  <2> HIDE DEF two
  <2> QED  BY <1>5, <2>1, <2>2, <2>3
<1>8. f \in Frames /\ f.disasm = {} /\ f.offset = word.offset
      /\ Reads(one, NameAfter(name, e), word.offset, Append(frames, f))
  <2> HIDE DEF f
  <2>1. f = FrameAt(name, e)
    BY <1>3
  <2> QED  BY <1>1, <1>2, <1>3, <2>1, ReadsAddress
<1>9. data => Reads(two, NameAfter(name, e), word.offset, Append(frames, FrameOf(word, d)))
  <2> SUFFICES ASSUME data PROVE Reads(two, NameAfter(name, e), word.offset, Append(frames, FrameOf(word, d)))
    OBVIOUS
  <2>1. [f EXCEPT !.disasm = {[offset |-> word.offset, of |-> word]}] = FrameOf(word, d)
    BY <1>6
  <2> HIDE DEF f, one
  <2> DEFINE nm == NameAfter(name, e)
  <2> HIDE DEF nm
  <2>2. Reads(one, nm, word.offset, Append(frames, f))
    BY <1>8 DEF nm
  <2>3. Reads(two, nm, word.offset, Append(frames, [f EXCEPT !.disasm = {[offset |-> word.offset, of |-> e2.of]}]))
    BY <1>2, <1>4, <1>7, <1>8, <2>2, ReadsData
  <2> QED  BY <1>4, <2>1, <2>3 DEF nm
<1>10. ~data => f = FrameOf(word, d)
  BY <1>6
<1>11. Reads(next.entries, NameAfter(name, e), word.offset, Append(frames, FrameOf(word, d)))
  <2> HIDE DEF f, one, two
  <2> QED  BY <1>7, <1>8, <1>9, <1>10
<1>12. TraceBytes(next.entries) \in Nat /\ TraceBytes(next.entries) <= 26 + 282 * next.stored
  <2>1. TraceBytes(one) = TraceBytes(w.entries) + Size(e)
    BY <1>2, <1>3, ReadersMore
  <2>2. TraceBytes(two) = TraceBytes(one) + Size(e2)
    <3> HIDE DEF one
    <3> QED  BY <1>4, <1>7, ReadersMore
  <2>3. Size(e2) = 17
    BY <1>4 DEF Size
  <2> HIDE DEF one, two
  <2>4. TraceBytes(next.entries) = TraceBytes(w.entries) + Size(e) \/
        TraceBytes(next.entries) = TraceBytes(w.entries) + Size(e) + 17
    BY <1>7, <2>1, <2>2, <2>3
  <2>5. ASSUME NEW b \in Nat, NEW k \in Nat, NEW z \in Nat, NEW t,
               b <= 26 + 282 * k, z <= 265, t = b + z \/ t = b + z + 17
        PROVE  t \in Nat /\ t <= 26 + 282 * (k + 1)
    BY <2>5
  <2> DEFINE b == TraceBytes(w.entries)
             k == w.stored
             z == Size(e)
             t == TraceBytes(next.entries)
  <2> HIDE DEF b, k, z, t
  <2>6. b \in Nat /\ k \in Nat /\ z \in Nat /\ b <= 26 + 282 * k /\ z <= 265
        /\ (t = b + z \/ t = b + z + 17)
    BY <1>2, <1>3, <2>4 DEF b, k, z, t
  <2>7. t \in Nat /\ t <= 26 + 282 * (k + 1)
    BY <2>5, <2>6
  <2> QED  BY <1>5, <2>7 DEF t, k
<1>13. next.entries \in Seq(Entries) /\ Append(frames, FrameOf(word, d)) \in Seq(Frames) /\ next.stored \in Nat
  BY <1>2, <1>5, <1>6, <1>7
<1>14. Agrees(next, Append(frames, FrameOf(word, d)))
  <2> HIDE DEF one, two, f
  <2> QED  BY <1>3, <1>5, <1>6, <1>11, <1>12, <1>13 DEF Agrees
<1> QED  BY <1>5, <1>14 DEF next
-----------------------------------------------------------------------------
(* The own stack.                                                          *)

LEMMA FramesMore ==
  ASSUME NEW found \in Seq(Words), NEW w \in Words, NEW d
  PROVE  /\ FramesOf(<<>>, d) = <<>>
         /\ FramesOf(found, d) \in Seq(Frames) /\ Len(FramesOf(found, d)) = Len(found)
         /\ FramesOf(Append(found, w), d) = Append(FramesOf(found, d), FrameOf(w, d))
<1> DEFINE n == Len(found)
           more == Append(found, w)
           s == FramesOf(found, d)
           t == FramesOf(more, d)
           f == FrameOf(w, d)
<1>1. n \in Nat /\ more \in Seq(Words) /\ Len(more) = n + 1 /\ more[n + 1] = w
      /\ \A i \in 1 .. n : more[i] = found[i]
  OBVIOUS
<1>2. \A word \in Words : FrameOf(word, d) \in Frames
  BY WordsAre
<1>3. (\A i \in 1 .. n : found[i] \in Words) /\ \A i \in 1 .. n + 1 : more[i] \in Words
  BY <1>1
<1> HIDE DEF n, more
<1>4. s = [i \in 1 .. n |-> FrameOf(found[i], d)] /\ t = [i \in 1 .. n + 1 |-> FrameOf(more[i], d)]
  BY <1>1 DEF FramesOf, n
<1>5. s \in Seq(Frames) /\ Len(s) = n
  BY <1>1, <1>2, <1>3, <1>4
<1>6. t \in Seq(Frames) /\ Len(t) = n + 1
  BY <1>1, <1>2, <1>3, <1>4
<1>7. f \in Frames
  BY <1>2
<1>8. \A i \in 1 .. n + 1 : t[i] = Append(s, f)[i]
  <2>1. ASSUME NEW i \in 1 .. n PROVE t[i] = Append(s, f)[i]
    <3>1. i \in 1 .. n + 1 /\ Append(s, f)[i] = s[i]
      BY <1>1, <1>5, <1>7, AppendProperties
    <3> QED  BY <1>1, <1>4, <3>1
  <2>2. t[n + 1] = Append(s, f)[n + 1]
    <3>1. Append(s, f)[n + 1] = f
      BY <1>5, <1>7, AppendProperties
    <3> QED  BY <1>1, <1>4, <3>1
  <2>3. \A i \in 1 .. n + 1 : i = n + 1 \/ i \in 1 .. n
    BY <1>1
  <2> QED  BY <2>1, <2>2, <2>3
<1> HIDE DEF s, t, f
<1>9. Append(s, f) \in Seq(Frames) /\ Len(Append(s, f)) = n + 1
  BY <1>5, <1>7, AppendProperties
<1>10. t = Append(s, f)
  <2>1. Len(t) = Len(Append(s, f)) /\ \A i \in 1 .. Len(t) : t[i] = Append(s, f)[i]
    BY <1>6, <1>8, <1>9
  <2> QED  BY <1>6, <1>9, <2>1, SeqEqual
<1>11. FramesOf(<<>>, d) = <<>>
  <2>1. Len(<<>>) = 0 /\ 1 .. 0 = {}
    OBVIOUS
  <2> QED  BY <2>1 DEF FramesOf
<1> QED  BY <1>5, <1>10, <1>11 DEF s, t, f, n, more

LEMMA NothingWritten ==
  ASSUME NEW word
  PROVE  /\ Agrees(NoTrace(word), <<>>) /\ NoTrace(word).stored = 0
         /\ NoTrace(word).last = word /\ NoTrace(word).enough = FALSE
<1> DEFINE w == NoTrace(word)
<1>1. /\ w.entries = <<>> /\ w.stored = 0 /\ w.module = "none"
      /\ w.last = word /\ w.enough = FALSE
  BY DEF NoTrace
<1> HIDE DEF w
<1>2. "<Invalid Module>" \in Names /\ 0 \in Int /\ <<>> \in Seq(Entries) /\ <<>> \in Seq(Frames)
  BY DEF Names
<1>3. Reads(w.entries, "<Invalid Module>", 0, <<>>) /\ TraceBytes(w.entries) = 0
  BY <1>1, ReadsNone
<1>4. Agrees(w, <<>>)
  <2>1. \E name \in Names : \E at \in Int :
          Reads(w.entries, name, at, <<>>) /\ (w.module \notin {"none", "app"} => name = w.module)
    BY <1>1, <1>2, <1>3
  <2>2. w.entries \in Seq(Entries) /\ w.stored \in Nat
    <3>1. 0 \in Nat
      OBVIOUS
    <3> QED  BY <1>1, <1>2, <3>1, Zenon
  <2>3. 0 \in Nat /\ 0 <= 26 + 282 * 0
    OBVIOUS
  <2>4. TraceBytes(w.entries) \in Nat /\ TraceBytes(w.entries) <= 26 + 282 * w.stored
    BY <1>1, <1>3, <2>3
  <2> QED  BY <1>2, <2>1, <2>2, <2>4 DEF Agrees
<1> QED  BY <1>1, <1>4 DEF w

(* The trace of the own stack. *)
OwnAgrees(ws, d) ==
  /\ AddressesOf(ws) \in Seq(Words)
  /\ Agrees(OwnWriter(ws, d), FramesOf(AddressesOf(ws), d))
  /\ OwnWriter(ws, d).stored <= Len(ws)

LEMMA OwnIs ==
  ASSUME NEW ws, NEW d, NEW w, NEW adr, Is(OwnWriter(ws, d), w), Is(AddressesOf(ws), adr),
         adr \in Seq(Words), Agrees(w, FramesOf(adr, d)), w.stored <= Len(ws)
  PROVE  OwnAgrees(ws, d)
BY DEF OwnAgrees, Is

LEMMA OwnWritten == ASSUME NEW d \in BOOLEAN PROVE \A ws \in Seq(Words) : OwnAgrees(ws, d)
<1> DEFINE C == {ws \in Seq(Words) : OwnAgrees(ws, d)}
           none == [module |-> "none"]
<1>0. <<>> \in Seq({{}}) /\ {} \in {{}} /\ <<>> \in Seq(Words) /\ Len(<<>>) = 0
  OBVIOUS
<1>1. <<>> \in C
  <2>1. OwnWriter(<<>>, d) = NoTrace(none) /\ AddressesOf(<<>>) = <<>>
    BY <1>0, WritersMore, WordsMore
  <2>2. FramesOf(<<>>, d) = <<>>
    <3>1. Len(<<>>) = 0 /\ 1 .. 0 = {}
      OBVIOUS
    <3> QED  BY <3>1 DEF FramesOf
  <2> HIDE DEF none
  <2>3. OwnAgrees(<<>>, d)
    <3> DEFINE w == NoTrace(none)
               adr == <<>>
    <3>1. Is(OwnWriter(<<>>, d), w) /\ Is(AddressesOf(<<>>), adr)
      BY <2>1 DEF Is
    <3>2. Agrees(w, FramesOf(adr, d)) /\ w.stored = 0
      BY <2>2, NothingWritten
    <3>3. adr \in Seq(Words) /\ w.stored <= Len(<<>>)
      BY <1>0, <3>2
    <3> HIDE DEF w, adr
    <3> QED  BY <3>1, <3>2, <3>3, OwnIs
  <2> QED  BY <1>0, <2>3, Zenon
<1>2. ASSUME NEW ws \in Seq(Words), NEW e \in Words, ws \in C PROVE Append(ws, e) \in C
  <2> DEFINE w == OwnWriter(ws, d)
             found == AddressesOf(ws)
             more == Append(ws, e)
  <2>1. OwnWriter(more, d) = WriteOwn(w, e, d)
    BY WritersMore
  <2>2. AddressesOf(more) = IF Known(e) THEN Append(found, e) ELSE found
    BY WordsMore
  <2>3. more \in Seq(Words) /\ Len(more) = Len(ws) + 1 /\ Len(ws) \in Nat
    OBVIOUS
  <2>4. OwnAgrees(ws, d)
    BY <1>2
  <2> HIDE DEF more, w, found, C
  <2>5. found \in Seq(Words) /\ Agrees(w, FramesOf(found, d)) /\ w.stored <= Len(ws) /\ w.stored \in Nat
    BY <2>4 DEF OwnAgrees, Agrees, w, found
  <2>6. ASSUME Known(e) PROVE OwnAgrees(more, d)
    <3> DEFINE next == WriteAddress(w, e, d)
    <3>1. OwnWriter(more, d) = next /\ AddressesOf(more) = Append(found, e)
      BY <2>1, <2>2, <2>6 DEF WriteOwn
    <3>2. Agrees(next, Append(FramesOf(found, d), FrameOf(e, d))) /\ next.stored = w.stored + 1
      BY <2>5, <2>6, WriteMore
    <3>3. FramesOf(Append(found, e), d) = Append(FramesOf(found, d), FrameOf(e, d))
      BY <2>5, FramesMore
    <3>4. Append(found, e) \in Seq(Words)
      BY <2>5
    <3> HIDE DEF next
    <3>5. next.stored <= Len(more)
      BY <2>3, <2>5, <3>2
    <3> DEFINE now == Append(found, e)
    <3>6. Is(OwnWriter(more, d), next) /\ Is(AddressesOf(more), now)
      BY <3>1 DEF Is
    <3>7. Agrees(next, FramesOf(now, d))
      BY <3>2, <3>3
    <3> HIDE DEF now
    <3> QED  BY <3>4, <3>5, <3>6, <3>7, OwnIs DEF now
  <2>7. ASSUME ~Known(e) PROVE OwnAgrees(more, d)
    <3>1. OwnWriter(more, d) = w /\ AddressesOf(more) = found
      BY <2>1, <2>2, <2>7 DEF WriteOwn
    <3>2. w.stored <= Len(more)
      BY <2>3, <2>5
    <3>3. Is(OwnWriter(more, d), w) /\ Is(AddressesOf(more), found)
      BY <3>1 DEF Is
    <3> QED  BY <2>5, <3>2, <3>3, OwnIs
  <2>8. OwnAgrees(more, d)
    BY <2>6, <2>7
  <2> QED  BY <2>3, <2>8, Zenon DEF C, more
<1> HIDE DEF C
<1>3. \A s \in Seq(Words) : s \in C
  BY <1>1, <1>2, SeqInduction
<1> QED  BY <1>3 DEF C

LEMMA AgreeReads ==
  ASSUME NEW w, NEW frames, Agrees(w, frames), w.stored <= Depth
  PROVE  ReadsBack(w.entries, frames)
<1>1. PICK name \in Names, at \in Int : Reads(w.entries, name, at, frames)
  BY DEF Agrees
<1>2. Analyzed(w.entries) = Analysis(w.entries).trace /\ Traced(w.entries) = Tracing(w.entries).out
  BY DEF Analyzed, Analysis, Traced, Tracing
<1>3. Analysis(w.entries) = [name |-> name, trace |-> frames]
      /\ Tracing(w.entries) = [name |-> name, offset |-> at, out |-> Shown(frames)]
  BY <1>1 DEF Reads
<1>4. Analyzed(w.entries) = frames /\ Traced(w.entries) = Shown(frames)
  BY <1>2, <1>3
<1>5. TraceBytes(w.entries) <= 26 + Depth * (265 + 17)
  <2>1. w.stored \in Nat /\ TraceBytes(w.entries) \in Nat /\ TraceBytes(w.entries) <= 26 + 282 * w.stored
    BY DEF Agrees
  <2>2. Depth \in Nat
    BY DepthAssumption
  <2>3. ASSUME NEW b \in Nat, NEW k \in Nat, NEW z \in Nat, b <= 26 + 282 * k, k <= z
        PROVE  b <= 26 + z * (265 + 17)
    BY <2>3
  <2> DEFINE b == TraceBytes(w.entries)
             k == w.stored
  <2> HIDE DEF b, k
  <2>4. b \in Nat /\ k \in Nat /\ b <= 26 + 282 * k /\ k <= Depth
    BY <2>1 DEF b, k
  <2>5. b <= 26 + Depth * (265 + 17)
    BY <2>2, <2>3, <2>4
  <2> QED  BY <2>5 DEF b
<1> QED  BY <1>4, <1>5 DEF ReadsBack

LEMMA OwnReadsBack ==
  ASSUME NEW ws \in Seq(Words), NEW d \in BOOLEAN
  PROVE  ReadsBack(lt_write_stack_trace(ws, d, Depth), OwnFrames(ws, d))
<1> DEFINE first == First(ws, Depth)
           w == OwnWriter(first, d)
<1>1. first \in Seq(Words) /\ Len(first) <= Depth /\ Len(first) \in Nat /\ Depth \in Nat
  BY DepthAssumption DEF First
<1>2. lt_write_stack_trace(ws, d, Depth) = w.entries
  BY DEF lt_write_stack_trace, OwnWriter, First
<1> HIDE DEF first
<1>3. OwnAgrees(first, d)
  BY <1>1, OwnWritten
<1>4. Agrees(w, FramesOf(AddressesOf(first), d)) /\ w.stored <= Len(first) /\ w.stored \in Nat
  BY <1>3 DEF OwnAgrees, Agrees
<1>5. OwnFrames(ws, d) = FramesOf(AddressesOf(first), d)
  BY DEF OwnFrames, first
<1> HIDE DEF w
<1>6. w.stored <= Depth
  BY <1>1, <1>4
<1> QED  BY <1>2, <1>4, <1>5, <1>6, AgreeReads
-----------------------------------------------------------------------------
(* Another stack.                                                          *)

(* The first of some words, with one more. *)
LEMMA FirstIs ==
  ASSUME NEW S, NEW seq \in Seq(S), NEW e \in S, NEW m \in Nat
  PROVE  /\ Len(seq) <= m => First(seq, m) = seq
         /\ Len(seq) < m => First(Append(seq, e), m) = Append(seq, e)
         /\ Len(seq) >= m => First(Append(seq, e), m) = First(seq, m)
         /\ First(seq, m) \in Seq(S)
<1> DEFINE n == Len(seq)
           more == Append(seq, e)
<1>1. n \in Nat /\ Len(more) = n + 1 /\ more \in Seq(S)
  OBVIOUS
<1>2. n <= m => First(seq, m) = seq
  <2>1. SubSeq(seq, 1, n) = seq
    OBVIOUS
  <2>2. n <= m => (IF n < m THEN n ELSE m) = n
    BY <1>1
  <2> QED  BY <2>1, <2>2 DEF First
<1>3. n < m => First(more, m) = more
  <2>1. SubSeq(more, 1, n + 1) = more
    BY <1>1
  <2> HIDE DEF n, more
  <2>2. n < m => (IF n + 1 < m THEN n + 1 ELSE m) = n + 1
    BY <1>1
  <2> QED  BY <1>1, <2>1, <2>2 DEF First
<1>4. n >= m => First(more, m) = First(seq, m)
  <2>1. n >= m => /\ (IF n + 1 < m THEN n + 1 ELSE m) = m
                  /\ (IF n < m THEN n ELSE m) = m
    BY <1>1
  <2>2. ASSUME n >= m PROVE SubSeq(more, 1, m) = SubSeq(seq, 1, m)
    <3> DEFINE a == SubSeq(more, 1, m)
               b == SubSeq(seq, 1, m)
    <3>1. a \in Seq(S) /\ b \in Seq(S) /\ Len(a) = m /\ Len(b) = m
      BY <1>1, <2>2
    <3>2. \A i \in 1 .. m : a[i] = seq[i] /\ b[i] = seq[i]
      BY <1>1, <2>2
    <3> HIDE DEF a, b
    <3>3. Len(a) = Len(b) /\ \A i \in 1 .. Len(a) : a[i] = b[i]
      BY <3>1, <3>2
    <3>4. a = b
      BY <3>1, <3>3, SeqEqual
    <3> QED  BY <3>4 DEF a, b
  <2> HIDE DEF more
  <2>3. First(more, m) = SubSeq(more, 1, IF n + 1 < m THEN n + 1 ELSE m)
    BY <1>1 DEF First
  <2>4. First(seq, m) = SubSeq(seq, 1, IF n < m THEN n ELSE m)
    BY DEF First
  <2> QED  BY <2>1, <2>2, <2>3, <2>4
<1>5. First(seq, m) \in Seq(S)
  BY DEF First
<1> QED  BY <1>2, <1>3, <1>4, <1>5 DEF n, more

LEMMA AppendConcat ==
  ASSUME NEW T, NEW a \in Seq(T), NEW b \in Seq(T), NEW c \in T, NEW z, Is(z, Append(b, c))
  PROVE  Is(Append(a \o b, c), a \o z)
<1>1. Append(a \o b, c) = a \o Append(b, c)
  OBVIOUS
<1> QED  BY <1>1 DEF Is

LEMMA FramesJoin ==
  ASSUME NEW front \in Seq(Frames), NEW adr \in Seq(Words), NEW e \in Words, NEW d
  PROVE  Append(front \o FramesOf(adr, d), FrameOf(e, d)) = front \o FramesOf(Append(adr, e), d)
<1> DEFINE x == FramesOf(adr, d)
           y == FrameOf(e, d)
           z == FramesOf(Append(adr, e), d)
<1>1. x \in Seq(Frames)
  BY FramesMore
<1>2. Is(z, Append(x, y))
  BY FramesMore DEF Is
<1>3. y \in Frames
  BY WordsAre
<1> HIDE DEF x, y, z
<1>4. Is(Append(front \o x, y), front \o z)
  BY <1>1, <1>2, <1>3, AppendConcat
<1> QED  BY <1>4 DEF x, y, z, Is

(* The trace of another stack: where its writer is after some words, of which these are *)
(* the addresses that differ from the one before.                                       *)
Foreign(w, adr, front, base, m, rip, d) ==
  /\ adr \in Seq(Words)
  /\ Agrees(w, front \o FramesOf(First(adr, m), d))
  /\ w.enough \in BOOLEAN
  /\ w.stored = base + (IF Len(adr) < m THEN Len(adr) ELSE m)
  /\ w.enough <=> Len(adr) >= m
  /\ ~w.enough => w.last = IF adr = <<>> THEN rip ELSE adr[Len(adr)]

LEMMA ForeignMore ==
  ASSUME NEW w, NEW adr, NEW front \in Seq(Frames), NEW base \in Nat, NEW m \in Nat, m >= 1,
         base + m = Depth, NEW rip, NEW d \in BOOLEAN, NEW e \in Words, Known(e),
         Foreign(w, adr, front, base, m, rip, d)
  PROVE  Foreign(WriteForeign(w, e, d, Depth), Change(rip, adr, e), front, base, m, rip, d)
<1> DEFINE last == IF adr = <<>> THEN rip ELSE adr[Len(adr)]
           now == Append(adr, e)
           next == WriteAddress(w, e, d)
           more == [next EXCEPT !.enough = next.stored = Depth]
           fs == front \o FramesOf(adr, d)
<1>1. adr \in Seq(Words) /\ Len(adr) \in Nat /\ now \in Seq(Words) /\ Len(now) = Len(adr) + 1
      /\ now # <<>> /\ now[Len(now)] = e
  <2>1. adr \in Seq(Words)
    BY DEF Foreign
  <2> QED  BY <2>1, AppendProperties
<1>2. Change(rip, adr, e) = IF e # last THEN now ELSE adr
  BY DEF Change
<1>3. WriteForeign(w, e, d, Depth) = IF w.enough \/ e = w.last THEN w ELSE more
  BY DEF WriteForeign
<1> HIDE DEF now, next, last
<1>4. CASE w.enough
  <2>1. Len(adr) >= m /\ WriteForeign(w, e, d, Depth) = w
    BY <1>3, <1>4 DEF Foreign
  <2>2. First(now, m) = First(adr, m)
    BY <1>1, <2>1, FirstIs DEF now
  <2>3. Foreign(w, now, front, base, m, rip, d)
    <3>1. Len(now) >= m /\ (IF Len(now) < m THEN Len(now) ELSE m) = (IF Len(adr) < m THEN Len(adr) ELSE m)
      BY <1>1, <2>1
    <3> QED  BY <1>1, <1>4, <2>2, <3>1 DEF Foreign
  <2> QED  BY <1>2, <2>1, <2>3
<1>5. CASE ~w.enough /\ e = last
  <2>1. e = w.last
    BY <1>5 DEF Foreign, last
  <2>2. WriteForeign(w, e, d, Depth) = w /\ Change(rip, adr, e) = adr
    BY <1>2, <1>3, <1>5, <2>1
  <2> QED  BY <2>2
<1>6. CASE ~w.enough /\ e # last
  <2>1. w.last = last /\ Len(adr) < m /\ w.stored = base + Len(adr)
    BY <1>1, <1>6 DEF Foreign, last
  <2>2. WriteForeign(w, e, d, Depth) = more /\ Change(rip, adr, e) = now
    BY <1>2, <1>3, <1>6, <2>1
  <2>3. First(adr, m) = adr /\ First(now, m) = now
    <3>1. Len(adr) <= m
      BY <1>1, <2>1
    <3>2. First(adr, m) = adr
      BY <1>1, <3>1, FirstIs
    <3>3. First(now, m) = now
      BY <1>1, <2>1, FirstIs DEF now
    <3> QED  BY <3>2, <3>3
  <2>4. Agrees(w, fs)
    BY <2>3 DEF Foreign
  <2>5. /\ Agrees(next, Append(fs, FrameOf(e, d))) /\ next.stored = w.stored + 1
        /\ next.last = e
    <3> HIDE DEF fs
    <3> QED  BY <2>4, WriteMore DEF next
  <2>6. Append(fs, FrameOf(e, d)) = front \o FramesOf(now, d)
    BY <1>1, FramesJoin DEF now, fs
  <2>7. more.entries = next.entries /\ more.module = next.module /\ more.stored = next.stored
        /\ more.last = e /\ more.enough = (next.stored = Depth)
    <3>1. next = [entries |-> next.entries, module |-> next.module, last |-> next.last,
                  stored |-> next.stored, enough |-> next.enough]
      BY DEF next, WriteAddress
    <3> QED  BY <2>5, <3>1
  <2> HIDE DEF more, fs
  <2>8. Agrees(more, front \o FramesOf(First(now, m), d))
    <3>1. Agrees(next, front \o FramesOf(now, d))
      BY <2>5, <2>6
    <3>2. Agrees(more, front \o FramesOf(now, d))
      BY <2>7, <3>1 DEF Agrees
    <3> QED  BY <2>3, <3>2
  <2>9. more.stored = base + Len(now) /\ Len(now) <= m
    BY <1>1, <2>1, <2>5, <2>7
  <2>10. more.enough \in BOOLEAN /\ (more.enough <=> Len(now) >= m)
    <3>1. more.stored = Depth <=> Len(now) >= m
      BY <1>1, <2>9
    <3> QED  BY <2>7, <3>1
  <2>11. more.stored = base + (IF Len(now) < m THEN Len(now) ELSE m)
    BY <1>1, <2>9
  <2>12. more.last = IF now = <<>> THEN rip ELSE now[Len(now)]
    BY <1>1, <2>7
  <2>13. Foreign(more, now, front, base, m, rip, d)
    BY <1>1, <2>8, <2>10, <2>11, <2>12 DEF Foreign
  <2> QED  BY <2>2, <2>13
<1> QED  BY <1>4, <1>5, <1>6

ForeignAgrees(ws, start, front, base, m, rip, d) ==
  /\ AddressesOf(ws) \in Seq(Words)
  /\ Foreign(ForeignWriter(start, ws, d), Changes(rip, ws), front, base, m, rip, d)

LEMMA ForeignIs ==
  ASSUME NEW ws, NEW start, NEW front, NEW base, NEW m, NEW rip, NEW d, NEW w, NEW adr,
         Is(ForeignWriter(start, ws, d), w), Is(Changes(rip, ws), adr),
         AddressesOf(ws) \in Seq(Words), Foreign(w, adr, front, base, m, rip, d)
  PROVE  ForeignAgrees(ws, start, front, base, m, rip, d)
BY DEF ForeignAgrees, Is

LEMMA ForeignWritten ==
  ASSUME NEW front \in Seq(Frames), NEW base \in Nat, NEW m \in Nat, m >= 1, base + m = Depth,
         NEW rip, NEW d \in BOOLEAN, NEW start, Foreign(start, <<>>, front, base, m, rip, d)
  PROVE  \A ws \in Seq(Words) : ForeignAgrees(ws, start, front, base, m, rip, d)
<1> DEFINE C == {ws \in Seq(Words) : ForeignAgrees(ws, start, front, base, m, rip, d)}
<1>0. <<>> \in Seq({{}}) /\ {} \in {{}} /\ <<>> \in Seq(Words)
  OBVIOUS
<1>1. <<>> \in C
  <2>1. ForeignWriter(start, <<>>, d) = start
    BY <1>0, WritersMore
  <2>2. AddressesOf(<<>>) = <<>> /\ ChangesIn(rip, <<>>) = <<>>
    BY <1>0, WordsMore
  <2>3. Changes(rip, <<>>) = <<>>
    BY <2>2 DEF Changes
  <2>4. Is(ForeignWriter(start, <<>>, d), start) /\ Is(Changes(rip, <<>>), <<>>)
        /\ AddressesOf(<<>>) \in Seq(Words)
    BY <1>0, <2>1, <2>2, <2>3 DEF Is
  <2>5. ForeignAgrees(<<>>, start, front, base, m, rip, d)
    BY <2>4, ForeignIs
  <2> QED  BY <1>0, <2>5, Zenon
<1>2. ASSUME NEW ws \in Seq(Words), NEW e \in Words, ws \in C PROVE Append(ws, e) \in C
  <2> DEFINE w == ForeignWriter(start, ws, d)
             adr == Changes(rip, ws)
             known == AddressesOf(ws)
             more == Append(ws, e)
  <2>1. ForeignWriter(start, more, d) = WriteForeign(w, e, d, Depth)
    BY WritersMore
  <2>2. AddressesOf(more) = IF Known(e) THEN Append(known, e) ELSE known
    BY WordsMore
  <2>3. more \in Seq(Words)
    OBVIOUS
  <2>4. ForeignAgrees(ws, start, front, base, m, rip, d)
    BY <1>2
  <2>5. known \in Seq(Words) /\ Foreign(w, adr, front, base, m, rip, d)
    BY <2>4 DEF ForeignAgrees
  <2>6. adr = ChangesIn(rip, known) /\ Changes(rip, more) = ChangesIn(rip, AddressesOf(more))
    BY DEF Changes
  <2> HIDE DEF more, w, adr, known, C
  <2>7. ASSUME Known(e) PROVE ForeignAgrees(more, start, front, base, m, rip, d)
    <3> DEFINE next == WriteForeign(w, e, d, Depth)
               now == Change(rip, adr, e)
    <3>1. AddressesOf(more) = Append(known, e) /\ Append(known, e) \in Seq(Words)
      BY <2>2, <2>5, <2>7
    <3>2. ChangesIn(rip, Append(known, e)) = Change(rip, ChangesIn(rip, known), e)
      BY <2>5, WordsMore
    <3>3. Is(ForeignWriter(start, more, d), next) /\ Is(Changes(rip, more), now)
      BY <2>1, <2>6, <3>1, <3>2 DEF Is
    <3>4. Foreign(next, now, front, base, m, rip, d)
      BY <2>5, <2>7, ForeignMore
    <3>5. AddressesOf(more) \in Seq(Words)
      BY <3>1
    <3> HIDE DEF next, now
    <3> QED  BY <3>3, <3>4, <3>5, ForeignIs
  <2>8. ASSUME ~Known(e) PROVE ForeignAgrees(more, start, front, base, m, rip, d)
    <3>1. AddressesOf(more) = known
      BY <2>2, <2>8
    <3>2. Is(ForeignWriter(start, more, d), w)
      BY <2>1, <2>8 DEF Is, WriteForeign
    <3>3. Is(Changes(rip, more), adr) /\ AddressesOf(more) \in Seq(Words)
      BY <2>5, <2>6, <3>1 DEF Is
    <3> QED  BY <2>5, <3>2, <3>3, ForeignIs
  <2>9. ForeignAgrees(more, start, front, base, m, rip, d)
    BY <2>7, <2>8
  <2> QED  BY <2>3, <2>9, Zenon DEF C, more
<1> HIDE DEF C
<1>3. \A s \in Seq(Words) : s \in C
  BY <1>1, <1>2, SeqInduction
<1> QED  BY <1>3 DEF C

LEMMA FirstOfNone == ASSUME NEW m \in Nat, NEW d PROVE FramesOf(First(<<>>, m), d) = <<>> /\ Len(<<>>) = 0
<1>1. <<>> \in Seq({{}}) /\ {} \in {{}} /\ Len(<<>>) = 0 /\ Len(<<>>) <= m
  OBVIOUS
<1>2. First(<<>>, m) = <<>>
  BY <1>1, FirstIs
<1>3. 1 .. 0 = {}
  OBVIOUS
<1> QED  BY <1>1, <1>2, <1>3 DEF FramesOf

(* A trace begins with the instruction pointer, if that is in a module. *)
LEMMA BeginsKnown ==
  ASSUME NEW rip \in Words, Known(rip), NEW d \in BOOLEAN, NEW m \in Nat, m >= 1
  PROVE  /\ Foreign(WriteAddress(NoTrace(rip), rip, d), <<>>, <<FrameOf(rip, d)>>, 1, m, rip, d)
         /\ <<FrameOf(rip, d)>> \in Seq(Frames)
<1> DEFINE none == NoTrace(rip)
           start == WriteAddress(none, rip, d)
           f == FrameOf(rip, d)
<1>1. Agrees(none, <<>>) /\ none.stored = 0 /\ none.enough = FALSE
  BY NothingWritten
<1> HIDE DEF none
<1>2. /\ Agrees(start, Append(<<>>, f)) /\ start.stored = none.stored + 1
      /\ start.last = rip /\ start.enough = none.enough
  <2> DEFINE no == <<>>
  <2>1. Agrees(none, no)
    BY <1>1
  <2> HIDE DEF no
  <2>2. /\ Agrees(start, Append(no, f)) /\ start.stored = none.stored + 1
        /\ start.last = rip /\ start.enough = none.enough
    BY <2>1, WriteMore
  <2> QED  BY <2>2 DEF no
<1>3. f \in Frames
  BY WordsAre
<1>4. FramesOf(First(<<>>, m), d) = <<>> /\ Len(<<>>) = 0 /\ <<>> \in Seq(Words)
  BY FirstOfNone
<1> HIDE DEF start, f
<1>5. Append(<<>>, f) = <<f>> /\ <<f>> \o <<>> = <<f>> /\ <<f>> \in Seq(Frames)
  BY <1>3
<1>6. Agrees(start, <<f>> \o FramesOf(First(<<>>, m), d))
  BY <1>2, <1>4, <1>5
<1>7. start.stored = 1 + (IF Len(<<>>) < m THEN Len(<<>>) ELSE m) /\ start.enough = FALSE /\ ~(Len(<<>>) >= m)
  BY <1>1, <1>2, <1>4
<1>8. Foreign(start, <<>>, <<f>>, 1, m, rip, d)
  BY <1>2, <1>4, <1>6, <1>7 DEF Foreign
<1> QED  BY <1>5, <1>8 DEF start, none, f

(* Otherwise with what says so. *)
LEMMA BeginsUnknown ==
  ASSUME NEW rip \in Words, NEW d \in BOOLEAN, NEW m \in Nat, m >= 1
  PROVE  /\ Foreign([NoTrace(rip) EXCEPT !.entries = <<Entry("dll", rip, NotFound)>>], <<>>,
                    <<Frame(NotFound, rip, {})>>, 0, m, rip, d)
         /\ <<Frame(NotFound, rip, {})>> \in Seq(Frames)
<1> DEFINE none == NoTrace(rip)
           e == Entry("dll", rip, NotFound)
           start == [none EXCEPT !.entries = <<e>>]
           f == Frame(NotFound, rip, {})
<1>1. start.entries = <<e>> /\ start.module = "none" /\ start.last = rip /\ start.stored = 0 /\ start.enough = FALSE
  <2> HIDE DEF e
  <2>1. start.entries = <<e>>
    BY DEF NoTrace
  <2>2. start.module = "none"
    BY DEF NoTrace
  <2>3. start.last = rip
    BY DEF NoTrace
  <2>4. start.stored = 0 /\ start.enough = FALSE
    BY DEF NoTrace
  <2> QED  BY <2>1, <2>2, <2>3, <2>4
<1>2. rip.offset \in Int /\ NotFound \in Names /\ "dll" \in {"app", "same", "dll", "data"}
      /\ "<Invalid Module>" \in Names
  BY WordsAre DEF Names, NotFound
<1>3. e \in Entries
  BY <1>2, EntriesAre
<1>4. e.type = "dll" /\ e.name = NotFound /\ e.offset = rip.offset
  BY EntryHas
<1> HIDE DEF e, f, start
<1>6. f = FrameAt("<Invalid Module>", e)
  BY <1>4 DEF f, FrameAt, Frame, NameAfter
<1>7. NameAfter("<Invalid Module>", e) = NotFound
  BY <1>4 DEF NameAfter
<1>8. f \in Frames /\ Reads(Append(<<>>, e), NotFound, rip.offset, Append(<<>>, f))
  <2>1. Reads(<<>>, "<Invalid Module>", 0, <<>>) /\ <<>> \in Seq(Entries) /\ <<>> \in Seq(Frames)
    <3>1. <<>> \in Seq(Entries) /\ <<>> \in Seq(Frames)
      OBVIOUS
    <3> QED  BY <3>1, ReadsNone
  <2>2. e.type # "data"
    BY <1>4
  <2> DEFINE name == "<Invalid Module>"
             no == <<>>
  <2>3. name \in Names /\ Reads(no, name, 0, no) /\ no \in Seq(Entries) /\ no \in Seq(Frames) /\ f = FrameAt(name, e)
    BY <1>2, <1>6, <2>1
  <2> HIDE DEF name, no
  <2>4. f \in Frames /\ Reads(Append(no, e), NameAfter(name, e), e.offset, Append(no, f))
    BY <1>3, <2>2, <2>3, ReadsAddress
  <2> QED  BY <1>4, <1>7, <2>4 DEF name, no
<1>9. Append(<<>>, e) = <<e>> /\ Append(<<>>, f) = <<f>> /\ <<f>> \o <<>> = <<f>>
      /\ <<e>> \in Seq(Entries) /\ <<f>> \in Seq(Frames)
  BY <1>3, <1>8
<1>10. TraceBytes(<<e>>) = 26
  <2>1. <<>> \in Seq(Entries)
    OBVIOUS
  <2>2. TraceBytes(<<>>) = 0 /\ TraceBytes(Append(<<>>, e)) = TraceBytes(<<>>) + Size(e)
    BY <1>3, <2>1, ReadersMore
  <2>3. Size(e) = 26
    BY <1>4 DEF Size
  <2> QED  BY <1>9, <2>2, <2>3
<1>11. Agrees(start, <<f>>)
  <2>1. Reads(start.entries, NotFound, rip.offset, <<f>>)
    BY <1>1, <1>8, <1>9
  <2>2. \E name \in Names : \E at \in Int :
          Reads(start.entries, name, at, <<f>>) /\ (start.module \notin {"none", "app"} => name = start.module)
    BY <1>2, <1>1, <2>1
  <2>3. TraceBytes(start.entries) \in Nat /\ TraceBytes(start.entries) <= 26 + 282 * start.stored
    <3>1. 26 \in Nat /\ 26 <= 26 + 282 * 0
      OBVIOUS
    <3> QED  BY <1>1, <1>10, <3>1
  <2>4. start.entries \in Seq(Entries) /\ <<f>> \in Seq(Frames) /\ start.stored \in Nat
    <3>1. 0 \in Nat
      OBVIOUS
    <3> QED  BY <1>1, <1>9, <3>1
  <2> QED  BY <2>2, <2>3, <2>4 DEF Agrees
<1>12. FramesOf(First(<<>>, m), d) = <<>> /\ Len(<<>>) = 0 /\ <<>> \in Seq(Words)
  BY FirstOfNone
<1>13. Agrees(start, <<f>> \o FramesOf(First(<<>>, m), d))
  BY <1>9, <1>11, <1>12
<1>14. start.stored = 0 + (IF Len(<<>>) < m THEN Len(<<>>) ELSE m) /\ ~(Len(<<>>) >= m)
  BY <1>1, <1>12
<1>15. Foreign(start, <<>>, <<f>>, 0, m, rip, d)
  BY <1>1, <1>12, <1>13, <1>14 DEF Foreign
<1> QED  BY <1>9, <1>15 DEF start, f, e
-----------------------------------------------------------------------------
(* The theorem.                                                            *)

LEMMA FramesCons ==
  ASSUME NEW rip \in Words, NEW d
  PROVE  \A ws \in Seq(Words) : FramesOf(<<rip>> \o ws, d) = <<FrameOf(rip, d)>> \o FramesOf(ws, d)
<1> DEFINE C == {ws \in Seq(Words) : FramesOf(<<rip>> \o ws, d) = <<FrameOf(rip, d)>> \o FramesOf(ws, d)}
           front == <<FrameOf(rip, d)>>
<1>1. FrameOf(rip, d) \in Frames /\ front \in Seq(Frames)
  BY WordsAre
<1>2. <<>> \in C
  <2>1. <<>> \in Seq(Words) /\ Append(<<>>, rip) = <<rip>> /\ <<rip>> \o <<>> = <<rip>>
    OBVIOUS
  <2>2. FramesOf(<<>>, d) = <<>> /\ FramesOf(Append(<<>>, rip), d) = Append(FramesOf(<<>>, d), FrameOf(rip, d))
    BY <2>1, FramesMore
  <2>3. Append(<<>>, FrameOf(rip, d)) = front /\ front \o <<>> = front
    BY <1>1
  <2> QED  BY <2>1, <2>2, <2>3
<1>3. ASSUME NEW ws \in Seq(Words), NEW e \in Words, ws \in C PROVE Append(ws, e) \in C
  <2> DEFINE long == <<rip>> \o ws
  <2>1. FramesOf(long, d) = front \o FramesOf(ws, d)
    BY <1>3
  <2>2. long \in Seq(Words) /\ <<rip>> \o Append(ws, e) = Append(long, e) /\ Append(ws, e) \in Seq(Words)
    <3>1. ASSUME NEW a \in Seq(Words) PROVE a \o Append(ws, e) = Append(a \o ws, e) /\ a \o ws \in Seq(Words)
      BY <3>1
    <3> QED  BY <3>1
  <2>3. Append(front \o FramesOf(ws, d), FrameOf(e, d)) = front \o FramesOf(Append(ws, e), d)
    BY <1>1, FramesJoin
  <2> HIDE DEF long, front
  <2>4. FramesOf(Append(long, e), d) = Append(FramesOf(long, d), FrameOf(e, d))
    BY <2>2, FramesMore
  <2> QED  BY <2>1, <2>2, <2>3, <2>4 DEF front
<1> HIDE DEF C
<1>4. \A s \in Seq(Words) : s \in C
  BY <1>2, <1>3, SeqInduction
<1> QED  BY <1>4 DEF C

LEMMA ForeignReads ==
  ASSUME NEW rip, NEW ws \in Seq(Words), NEW d \in BOOLEAN, NEW start, NEW front \in Seq(Frames),
         NEW base \in Nat, NEW m \in Nat, m >= 1, base + m = Depth,
         Foreign(start, <<>>, front, base, m, rip, d)
  PROVE  /\ ReadsBack(ForeignWriter(start, ws, d).entries, front \o FramesOf(First(Changes(rip, ws), m), d))
         /\ Changes(rip, ws) \in Seq(Words)
<1> DEFINE w == ForeignWriter(start, ws, d)
           adr == Changes(rip, ws)
<1>1. ForeignAgrees(ws, start, front, base, m, rip, d)
  BY ForeignWritten
<1>2. Foreign(w, adr, front, base, m, rip, d)
  BY <1>1 DEF ForeignAgrees
<1> HIDE DEF w, adr
<1>3. /\ adr \in Seq(Words) /\ Agrees(w, front \o FramesOf(First(adr, m), d))
      /\ w.stored = base + (IF Len(adr) < m THEN Len(adr) ELSE m)
  BY <1>2 DEF Foreign
<1>4. w.stored <= Depth
  <2>1. Len(adr) \in Nat /\ Depth \in Nat
    BY <1>3, DepthAssumption
  <2> QED  BY <1>3, <2>1
<1>5. ReadsBack(w.entries, front \o FramesOf(First(adr, m), d))
  BY <1>3, <1>4, AgreeReads
<1> QED  BY <1>3, <1>5 DEF w, adr

LEMMA ForeignReadsBack ==
  ASSUME NEW rip \in Words, NEW memory \in Seq(Words), NEW d \in BOOLEAN,
         NEW n \in 0..Len(memory)
  PROVE  ReadsBack(lt_write_foreign_stack_trace(rip, memory, n, d, Depth),
                   ForeignFrames(rip, SubSeq(memory, 1, n), d))
<1> DEFINE ws == SubSeq(memory, 1, n)
           rest == Changes(rip, ws)
<1> SUFFICES ReadsBack(lt_write_foreign_stack_trace(rip, memory, n, d, Depth),
                       ForeignFrames(rip, ws, d))
  OBVIOUS
<1>0. ws \in Seq(Words)
  BY SubSeqProperties
<1> HIDE DEF ws
<1>1. CASE Known(rip)
  <2> DEFINE start == WriteAddress(NoTrace(rip), rip, d)
             front == <<FrameOf(rip, d)>>
             m == Depth - 1
  <2>1. m \in Nat /\ m >= 1 /\ 1 + m = Depth /\ 1 \in Nat
    BY DepthAssumption
  <2>2. lt_write_foreign_stack_trace(rip, memory, n, d, Depth) = ForeignWriter(start, ws, d).entries
    BY <1>1 DEF lt_write_foreign_stack_trace, ForeignWriter, ws
  <2>3. ForeignFrames(rip, ws, d) = FramesOf(<<rip>> \o First(rest, m), d)
    BY <1>1 DEF ForeignFrames
  <2> HIDE DEF m
  <2>4. Foreign(start, <<>>, front, 1, m, rip, d) /\ front \in Seq(Frames)
    BY <1>1, <2>1, BeginsKnown
  <2> HIDE DEF start, front, rest
  <2>5. /\ ReadsBack(ForeignWriter(start, ws, d).entries, front \o FramesOf(First(rest, m), d))
        /\ rest \in Seq(Words)
    BY <2>1, <2>4, ForeignReads, <1>0 DEF rest
  <2>6. First(rest, m) \in Seq(Words)
    BY <2>1, <2>5, FirstIs
  <2>7. FramesOf(<<rip>> \o First(rest, m), d) = front \o FramesOf(First(rest, m), d)
    BY <2>6, FramesCons DEF front
  <2> QED  BY <2>2, <2>3, <2>5, <2>7
<1>2. CASE ~Known(rip)
  <2> DEFINE start == [NoTrace(rip) EXCEPT !.entries = <<Entry("dll", rip, NotFound)>>]
             front == <<Frame(NotFound, rip, {})>>
  <2>1. Depth \in Nat /\ Depth >= 1 /\ 0 + Depth = Depth /\ 0 \in Nat
    BY DepthAssumption
  <2>2. lt_write_foreign_stack_trace(rip, memory, n, d, Depth) = ForeignWriter(start, ws, d).entries
    BY <1>2 DEF lt_write_foreign_stack_trace, ForeignWriter, ws
  <2>3. ForeignFrames(rip, ws, d) = front \o FramesOf(First(rest, Depth), d)
    BY <1>2 DEF ForeignFrames
  <2>4. Foreign(start, <<>>, front, 0, Depth, rip, d) /\ front \in Seq(Frames)
    BY <2>1, BeginsUnknown
  <2> HIDE DEF start, front, rest
  <2>5. ReadsBack(ForeignWriter(start, ws, d).entries, front \o FramesOf(First(rest, Depth), d))
    BY <2>1, <2>4, ForeignReads, <1>0 DEF rest
  <2> QED  BY <2>2, <2>3, <2>5
<1> QED  BY <1>1, <1>2

(* The words in memory, of which there is one when a trace is written. *)
TraceInv == words \in Seq(Words) /\ (written = "trace" => words # <<>>)

LEMMA TraceInvReads == TraceInv => TraceReadsBack
<1> SUFFICES ASSUME TraceInv, written = "trace", NEW d \in BOOLEAN
             PROVE  /\ ReadsBack(lt_write_stack_trace(words, d, Depth), OwnFrames(words, d))
                    /\ \A n \in 0..Len(words) - 1 :
                         ReadsBack(lt_write_foreign_stack_trace(Head(words), Tail(words), n, d, Depth),
                                   ForeignFrames(Head(words), SubSeq(Tail(words), 1, n), d))
  BY DEF TraceReadsBack
<1>1. words \in Seq(Words) /\ words # <<>>
  BY DEF TraceInv
<1>2. Head(words) \in Words /\ Tail(words) \in Seq(Words) /\ Len(Tail(words)) = Len(words) - 1
  BY <1>1
<1>3. ReadsBack(lt_write_stack_trace(words, d, Depth), OwnFrames(words, d))
  BY <1>1, OwnReadsBack
<1>4. ASSUME NEW n \in 0..Len(words) - 1
      PROVE  ReadsBack(lt_write_foreign_stack_trace(Head(words), Tail(words), n, d, Depth),
                       ForeignFrames(Head(words), SubSeq(Tail(words), 1, n), d))
  <2>1. n \in 0..Len(Tail(words))
    BY <1>2
  <2> QED  BY <1>2, <2>1, ForeignReadsBack
<1> QED  BY <1>3, <1>4

(* Whatever is in the words that are looked at, however many these are, and *)
(* for any depth of two or more: both traces of them are read as what they  *)
(* hold, and fit.                                                           *)
THEOREM TracesReadBack == SpecTrace => []TraceReadsBack
<1>1. InitTrace => TraceInv
  <2>1. <<>> \in Seq(Words)
    OBVIOUS
  <2>2. "nothing" # "trace"
    OBVIOUS
  <2> QED  BY <2>1, <2>2 DEF InitTrace, TraceInv
<1>2. TraceInv /\ [NextTrace]_<<written, words>> => TraceInv'
  <2> SUFFICES ASSUME TraceInv, [NextTrace]_<<written, words>> PROVE TraceInv'
    OBVIOUS
  <2>1. CASE UNCHANGED <<written, words>>
    BY <2>1 DEF TraceInv
  <2>2. ASSUME NEW w \in Words, PushWord(w) PROVE TraceInv'
    <3>1. words' = Append(words, w) /\ words \in Seq(Words)
      BY <2>2 DEF PushWord, TraceInv
    <3>2. Append(words, w) \in Seq(Words) /\ Append(words, w) # <<>>
      BY <3>1, AppendProperties
    <3> QED  BY <3>1, <3>2 DEF TraceInv
  <2>3. CASE WriteOther
    BY <2>3 DEF WriteOther, TraceInv
  <2> QED  BY <2>1, <2>2, <2>3 DEF NextTrace
<1> QED  BY <1>1, <1>2, TraceInvReads, PTL DEF SpecTrace
=============================================================================
