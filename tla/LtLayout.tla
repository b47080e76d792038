------------------------------ MODULE LtLayout ------------------------------
(***************************************************************************)
(* Binary layouts, as the writers put them down and as the readers take    *)
(* them up: the code has a function for each side of each structure, and   *)
(* nothing but their authors keeps the two in step.                        *)
(*                                                                         *)
(* A layout is a sequence of fields.  What is written is a sequence of     *)
(* tokens: one per number, text or run of values, with its width in bytes. *)
(* A token of data has a place, the names on the way to its field; a token *)
(* that the format itself needs (a length, a count, a tag) has its value.  *)
(* So a file is read right when every place gets the token of that place.  *)
(***************************************************************************)
EXTENDS Integers, Sequences, SequencesExt, TLC

\* What an object has is its shape: the length of its texts (text) and of its stack
\* trace (stack), the number of items of its containers (items), the set of the
\* optional parts it has (has), and its kind (kind).

-----------------------------------------------------------------------------
(* Fields. *)

Field(is, name, w, of) == <<[is |-> is, name |-> name, w |-> w, of |-> of]>>

\* A number or a run of bytes of w bytes; the same for several fields.
Value(w, name) == Field("value", name, w, <<>>)
Values(w, names) == FlattenSeq([i \in 1 .. Len(names) |-> Value(w, names[i])])

\* A number that the format prescribes.
Tag(w, n) == Field("tag", "tag", w, n)

\* A text, its length in a byte before it; a stack trace, its length in two bytes.
Text(name) == Field("text", name, 1, <<0, 255>>)
Stack(least, most) == Field("stack", "stackTrace", 2, <<least, most>>)

\* Values of w bytes in one run, their number in a byte before it.
Run(name, w) == Field("run", name, 1, w)

\* Items that are counted in a byte, or in a table that also has its size.
Counted(name, of) == Field("counted", name, 1, of)
Table(name, of) == Field("table", name, 8, of)

Within(name, of) == Field("within", name, 0, of)

\* A part after a flag that tells if it is there; a number that tells what follows, and
\* the layouts it tells apart.
If(flag, of) == Field("if", flag, 1, of)
Kind(common, cases) == Field("kind", "kind", 1, <<common, cases>>)

\* A part with a tag before it, that the writer may leave out; and the reader of such
\* parts, which goes on until the end of the section.
Part(tag, name, of) == Field("part", name, 1, Tag(1, tag) \o Field("within", name, 0, of))
Parts(cases) == Field("parts", "parts", 1, cases)

-----------------------------------------------------------------------------
(* Writing. *)

Token(w, at, n) == <<[w |-> w, at |-> at, n |-> n]>>
Number(w, n) == Token(w, <<>>, n)

\* The sum of the widths of tokens i to j, by halves.
RECURSIVE Width(_, _, _)
Width(tokens, i, j) ==
  LET m == (i + j) \div 2
  IN IF i > j THEN 0
     ELSE IF i = j THEN tokens[i].w
     ELSE Width(tokens, i, m) + Width(tokens, m + 1, j)

Bytes(tokens) == Width(tokens, 1, Len(tokens))

Index(i) == ToString(i)

RECURSIVE Written(_, _, _)
Written(layout, shape, place) ==
  LET Items(f) == FlattenSeq([i \in 1 .. shape.items |->
                    Written(f.of, shape, place \o <<f.name, Index(i)>>)])
      Some(f, n) == IF n = 0 THEN <<>> ELSE Token(n, Append(place, f.name), 0)
      Sized(f, n) == Number(f.w, n) \o Some(f, n)
      One(f) ==
        CASE f.is = "value" -> Token(f.w, Append(place, f.name), 0)
          [] f.is = "tag" -> Number(f.w, f.of)
          [] f.is = "text" -> Sized(f, shape.text)
          [] f.is = "stack" -> Sized(f, shape.stack)
          [] f.is = "run" -> Number(1, shape.items) \o Some(f, f.of * shape.items)
          [] f.is = "counted" -> Number(1, shape.items) \o Items(f)
          [] f.is = "table" -> Number(8, shape.items) \o Number(8, 8 + Bytes(Items(f))) \o Items(f)
          [] f.is = "within" -> Written(f.of, shape, Append(place, f.name))
          [] f.is = "if" -> IF f.name \in shape.has
                            THEN Number(1, 1) \o Written(f.of, shape, place)
                            ELSE Number(1, 0)
          [] f.is = "kind" -> Number(1, shape.kind)
                                \o Written(f.of[1] \o f.of[2][shape.kind], shape, place)
          [] f.is = "part" -> IF f.name \in shape.has THEN Written(f.of, shape, place) ELSE <<>>
  IN FlattenSeq([i \in 1 .. Len(layout) |-> One(layout[i])])

DataTokens(tokens) == SelectSeq(tokens, LAMBDA t : t.at # <<>>)

-----------------------------------------------------------------------------
(* Reading.  A reader is at a token and an offset, and has an end.  It has got some    *)
(* data, and what is mixed up is in pairs of the place that wanted it and the place it *)
(* is from.  Once it has failed it stays as it is: "error" is what the code notices,   *)
(* "garbled" a number that is taken from data, or data from numbers.                   *)

Reader(file, at, offset, end) ==
  [file |-> file, at |-> at, offset |-> offset, end |-> end, verdict |-> "read",
   got |-> 0, mixed |-> {}, n |-> 0]

Fail(r, verdict) == [r EXCEPT !.verdict = verdict]
Reading(r) == r.verdict = "read"
AtEnd(r) == r.offset >= r.end

\* ByteStream::read of w bytes.  Nothing is read of no bytes.
Take(r, w) ==
  IF ~Reading(r) \/ w = 0 THEN r
  ELSE IF w < 0 \/ r.offset + w > r.end THEN Fail(r, "error")
  ELSE IF r.file[r.at].w # w THEN Fail(r, "garbled")
  ELSE [r EXCEPT !.at = @ + 1, !.offset = @ + w]

\* What comes after something that was read.
Then(r, Next(_)) == IF Reading(r) THEN Next(r) ELSE r

TakeNumber(r, w) ==
  Then(Take(r, w), LAMBDA t :
    IF r.file[r.at].at = <<>> THEN [t EXCEPT !.n = r.file[r.at].n] ELSE Fail(t, "garbled"))

TakeData(r, w, place) ==
  LET Got(t, from) ==
        IF from = <<>> THEN Fail(t, "garbled")
        ELSE [t EXCEPT !.got = @ + 1,
                       !.mixed = IF from = place THEN @ ELSE @ \cup {<<place, from>>}]
  IN IF w = 0 THEN r ELSE Then(Take(r, w), LAMBDA t : Got(t, r.file[r.at].at))

\* The token that starts n bytes after token i, of the tokens up to j, or 0.
RECURSIVE After(_, _, _, _)
After(tokens, i, j, n) ==
  LET m == (i + j) \div 2
      half == Width(tokens, i, m)
  IN IF n = 0 THEN i
     ELSE IF i = j THEN IF n = tokens[i].w THEN i + 1 ELSE 0
     ELSE IF n < half THEN After(tokens, i, m, n)
     ELSE After(tokens, m + 1, j, n - half)

\* ByteStream::read without a destination: n bytes, whatever they are.
Skip(r, n) ==
  LET at == After(r.file, r.at, Len(r.file), n)
  IN IF ~Reading(r) \/ n = 0 THEN r
     ELSE IF n < 0 \/ r.offset + n > r.end THEN Fail(r, "error")
     ELSE IF at = 0 THEN Fail(r, "garbled")
     ELSE [r EXCEPT !.at = at, !.offset = @ + n]

RECURSIVE Read(_, _, _)
Read(layout, reader, place) ==
  LET RECURSIVE Items(_, _, _, _)
      Items(f, r, i, n) ==
        IF ~Reading(r) \/ i > n THEN r
        ELSE Items(f, Read(f.of, r, place \o <<f.name, Index(i)>>), i + 1, n)
      \* The items are read from a stream of their own, and must use it up.
      Used(r, end) == IF AtEnd(r) THEN [r EXCEPT !.end = end] ELSE Fail(r, "error")
      Tabled(f, s, n, end) ==
        IF s.n < 8 \/ end > s.end THEN Fail(s, "error")
        ELSE Then(Items(f, [s EXCEPT !.end = end], 1, n), LAMBDA t : Used(t, s.end))
      Case(cases, n, r) ==
        IF n \in DOMAIN cases THEN Read(cases[n], r, place) ELSE Fail(r, "error")
      RECURSIVE AllParts(_, _)
      AllParts(f, r) ==
        IF ~Reading(r) \/ AtEnd(r) THEN r
        ELSE AllParts(f, Then(TakeNumber(r, 1), LAMBDA t : Case(f.of, t.n, t)))
      \* What follows a number of a field.
      Numbered(f, c) ==
        CASE f.is = "tag" -> IF c.n = f.of THEN c ELSE Fail(c, "error")
          [] f.is \in {"text", "stack"} ->
               IF c.n = 0 \/ c.n \in f.of[1] .. f.of[2]
               THEN TakeData(c, c.n, Append(place, f.name)) ELSE Fail(c, "error")
          [] f.is = "run" -> TakeData(c, f.of * c.n, Append(place, f.name))
          [] f.is = "counted" -> Items(f, c, 1, c.n)
          [] f.is = "table" ->
               Then(TakeNumber(c, 8), LAMBDA s : Tabled(f, s, c.n, s.offset + s.n - 8))
          [] f.is = "if" -> IF c.n # 0 THEN Read(f.of, c, place) ELSE c
          [] f.is = "kind" -> Then(Read(f.of[1], c, place), LAMBDA d : Case(f.of[2], c.n, d))
      One(r, f) ==
        CASE f.is = "value" -> TakeData(r, f.w, Append(place, f.name))
          [] f.is = "within" -> Read(f.of, r, Append(place, f.name))
          [] f.is = "parts" -> AllParts(f, r)
          [] OTHER -> Then(TakeNumber(r, f.w), LAMBDA c : Numbered(f, c))
      RECURSIVE From(_, _)
      From(i, r) == IF ~Reading(r) \/ i > Len(layout) THEN r ELSE From(i + 1, One(r, layout[i]))
  IN From(1, reader)

\* Every place got the data written for it, and nothing that was written is missing.
ReadRight(r, written) == Reading(r) /\ r.mixed = {} /\ r.got = Len(DataTokens(written))
=============================================================================
