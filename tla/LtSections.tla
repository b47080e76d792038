----------------------------- MODULE LtSections -----------------------------
(***************************************************************************)
(* The sections of a log, as both of its readers take them up: all of them *)
(* are found first, by the sizes they have, and then they are read one     *)
(* after the other, each from a stream of its own.                         *)
(***************************************************************************)
EXTENDS LtLogTypes

\* The reader at the end of the section that it is at the start of.
Framed(r) ==
  LET type == TakeNumber(r, 1)
      size == TakeNumber(type, 2)
  IN IF ~Reading(type) THEN type
     ELSE IF type.n = lt_t_start THEN Fail(type, "error")
     ELSE IF type.n < lt_t_fixed_length
          THEN IF Reading(size) /\ size.n < 3 THEN Fail(size, "error") ELSE Skip(size, size.n - 3)
     ELSE IF type.n \in DOMAIN FixedLength THEN Skip(type, FixedLength[type.n] - 1)
     ELSE Fail(type, "error")

RECURSIVE Found(_, _)
Found(r, sections) ==
  LET next == Framed(r)
  IN IF ~Reading(r) \/ AtEnd(r) THEN [r |-> r, sections |-> sections]
     ELSE Found(next, Append(sections, [r EXCEPT !.end = next.offset]))

\* The reader behind the type and the size of a section, with its type for a number.
Entered(r, section) ==
  LET Behind(t) ==
        IF t.n < lt_t_fixed_length THEN [TakeNumber(t, 2) EXCEPT !.n = t.n] ELSE t
  IN Behind(TakeNumber([r EXCEPT !.at = section.at, !.offset = section.offset,
                                 !.end = section.end], 1))

RECURSIVE Each(_, _, _, _)
Each(r, i, sections, layouts) ==
  LET Inside(s) == IF s.n \in DOMAIN layouts THEN Read(layouts[s.n], s, <<Index(i)>>)
                   ELSE Fail(s, "error")
  IN IF ~Reading(r) \/ i > Len(sections) THEN r
     ELSE Each(Inside(Entered(r, sections[i])), i + 1, sections, layouts)

\* What a reader makes of a log whose header and sections it takes to be laid out so.
ReadSections(log, header, layouts) ==
  LET All(found) == Each(found.r, 1, found.sections, layouts)
  IN All(Found(Read(header, Reader(log, 1, 0, Bytes(log)), <<"header">>), <<>>))
=============================================================================
