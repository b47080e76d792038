---------------------------- MODULE LtStackTrace ----------------------------
(***************************************************************************)
(* Stack traces in a log.  liblt writes one for the own stack, or for a    *)
(* process that crashed, from words that may be addresses or anything      *)
(* else; ltanalyze and lttrace read them.  To save the names, an address   *)
(* in the module of the address before it has none.                        *)
(***************************************************************************)
EXTENDS Integers, SequencesExt

\* A word is an address at an offset in a module: the application ("app"), a library, or
\* none ("none"); the instruction at it may be readable.

Known(word) == word.module # "none"
NotFound == "MODULE_NOT_FOUND"
NoName == ""

Entry(type, word, name) == [type |-> type, offset |-> word.offset, name |-> name, of |-> word]

-----------------------------------------------------------------------------
(* Writing.  A writer has its entries, the module of its last address, the last address, *)
(* how many it has stored and whether they are enough.                                    *)

\* WriteAddress, remembering a module only where it writes its name for the first time.
WriteAddress_FirstModule(w, word, includeData) ==
  LET entry == IF word.module = "app" THEN Entry("app", word, NoName)
               ELSE IF word.module = w.module THEN Entry("same", word, NoName)
               ELSE Entry("dll", word, word.module)
      data == IF includeData /\ word.readable THEN <<Entry("data", word, NoName)>> ELSE <<>>
  IN [entries |-> w.entries \o <<entry>> \o data,
      module |-> IF w.module = "none" THEN word.module ELSE w.module,
      last |-> word, stored |-> w.stored + 1, enough |-> w.enough]

\* lt_write_potential_stack_address, for an address in a module.
WriteAddress(w, word, includeData) ==
  LET entry == IF word.module = "app" THEN Entry("app", word, NoName)
               ELSE IF word.module = w.module THEN Entry("same", word, NoName)
               ELSE Entry("dll", word, word.module)
      data == IF includeData /\ word.readable THEN <<Entry("data", word, NoName)>> ELSE <<>>
  IN [entries |-> w.entries \o <<entry>> \o data, module |-> word.module,
      last |-> word, stored |-> w.stored + 1, enough |-> w.enough]

NoTrace(word) ==
  [entries |-> <<>>, module |-> "none", last |-> word, stored |-> 0, enough |-> FALSE]

\* A word of the own stack.
WriteOwn(w, word, includeData) == IF Known(word) THEN WriteAddress(w, word, includeData) ELSE w

lt_write_stack_trace(words, includeData, depth) ==
  FoldLeft(LAMBDA w, word : WriteOwn(w, word, includeData),
           NoTrace([module |-> "none"]),
           SubSeq(words, 1, IF Len(words) < depth THEN Len(words) ELSE depth)).entries

\* A word of the memory of a crashed process, which may be no address, or the last one
\* again.
WriteForeign(w, word, includeData, depth) ==
  LET next == WriteAddress(w, word, includeData)
  IN IF w.enough \/ ~Known(word) \/ word = w.last THEN w
     ELSE [next EXCEPT !.enough = next.stored = depth]

\* The stack of the crashed process is copied to the memory that pStack points to.  As
\* many words of that memory are looked at as the process has segments (segmentCount):
\* the rest of the stack is not, and where the stack is shorter, what is behind its copy.
lt_write_foreign_stack_trace(rip, memory, segmentCount, includeData, depth) ==
  LET start == IF Known(rip) THEN WriteAddress(NoTrace(rip), rip, includeData)
               ELSE [NoTrace(rip) EXCEPT !.entries = <<Entry("dll", rip, NotFound)>>]
  IN FoldLeft(LAMBDA w, word : WriteForeign(w, word, includeData, depth), start,
              SubSeq(memory, 1, segmentCount)).entries

\* The bytes of an entry, with the longest name that it may have.
Size(entry) ==
  CASE entry.type = "dll" -> 1 + 1 + 8 + (IF entry.name = NotFound THEN 16 ELSE 255)
    [] entry.type = "data" -> 1 + 16
    [] OTHER -> 1 + 8

TraceBytes(entries) == FoldLeft(LAMBDA n, entry : n + Size(entry), 0, entries)

-----------------------------------------------------------------------------
(* Reading.  A reader knows the last name. *)

Frame(module, word, disasm) == [module |-> module, offset |-> word.offset, disasm |-> disasm]
NameAfter(name, entry) == IF entry.type = "dll" THEN entry.name ELSE name
FrameAt(name, entry) ==
  Frame(IF entry.type = "app" THEN "app" ELSE NameAfter(name, entry), entry, {})

\* get_tracktrace_from_pdb: an instruction goes to the address before it.
Analyze(r, entry) ==
  LET n == Len(r.trace)
      disasm == {[offset |-> r.trace[n].offset, of |-> entry.of]}
  IN [name |-> NameAfter(r.name, entry),
      trace |-> IF entry.type # "data" THEN Append(r.trace, FrameAt(r.name, entry))
                ELSE IF n = 0 THEN r.trace
                ELSE [r.trace EXCEPT ![n].disasm = disasm]]

Analyzed(entries) ==
  FoldLeft(Analyze, [name |-> "<Invalid Module>", trace |-> <<>>], entries).trace

\* lttrace prints an instruction as an element of its own, at the offset of the last one.
Trace(r, entry) ==
  LET at == [offset |-> r.offset]
  IN [name |-> NameAfter(r.name, entry),
      offset |-> IF entry.type = "data" THEN r.offset ELSE entry.offset,
      out |-> Append(r.out, IF entry.type # "data" THEN FrameAt(r.name, entry)
                ELSE Frame("disasm", at, {[offset |-> r.offset, of |-> entry.of]}))]

Traced(entries) ==
  FoldLeft(Trace, [name |-> "<Invalid Module>", offset |-> 0, out |-> <<>>], entries).out
=============================================================================
