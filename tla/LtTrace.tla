------------------------------ MODULE LtTrace ------------------------------
(***************************************************************************)
(* Words in memory, one more at a time: what liblt writes of them, as the  *)
(* own stack or for a process that crashed, and what ltanalyze and lttrace *)
(* read.                                                                   *)
(***************************************************************************)
EXTENDS LtStackTrace

CONSTANTS
  Words,     \* what memory may hold: [module, offset, readable]
  Depth,     \* addresses in a stack trace, lt_stack_trace_depth
  MaxWords   \* bound: words in memory

\* An address in the first place does not end a foreign trace.
ASSUME DepthAssumption == Depth \in Nat /\ Depth >= 2
ASSUME WordsAssumption == Words \subseteq [module : STRING, offset : Int, readable : BOOLEAN]

VARIABLES
  written,  \* what is written: "nothing", "trace", or something that is no trace
  words     \* the own stack; or of a crashed process the instruction pointer, and then
            \* the copy of the stack and what is behind it in the memory of the reporter

InitTrace == written = "nothing" /\ words = <<>>

PushWord(word) ==
  /\ written \in {"nothing", "trace"} /\ written' = "trace"
  /\ Len(words) < MaxWords /\ words' = Append(words, word)

\* Something that is no trace.
WriteOther == written # "trace" /\ written' # "trace" /\ UNCHANGED words

NextTrace == WriteOther \/ \E w \in Words : PushWord(w)
SpecTrace == InitTrace /\ [][NextTrace]_<<written, words>>

-----------------------------------------------------------------------------
(* What a trace says of a stack. *)

\* An address, and how lttrace shows it.
Disasm(word, includeData) ==
  IF includeData /\ word.readable THEN {[offset |-> word.offset, of |-> word]} ELSE {}
FrameOf(word, includeData) == Frame(word.module, word, Disasm(word, includeData))
Elements(frame) ==
  LET bare == [frame EXCEPT !.disasm = {}]
  IN IF frame.disasm = {} THEN <<bare>> ELSE <<bare, Frame("disasm", frame, frame.disasm)>>
Shown(frames) == FoldLeft(LAMBDA out, frame : out \o Elements(frame), <<>>, frames)

First(seq, n) == SubSeq(seq, 1, IF Len(seq) < n THEN Len(seq) ELSE n)
FramesOf(ws, includeData) == [i \in 1 .. Len(ws) |-> FrameOf(ws[i], includeData)]

\* The addresses among the words, and those that differ from the one before.
AddressesOf(ws) == FoldLeft(LAMBDA found, w : IF Known(w) THEN Append(found, w) ELSE found, <<>>, ws)
Change(rip, found, w) ==
  IF w # (IF found = <<>> THEN rip ELSE found[Len(found)]) THEN Append(found, w) ELSE found
ChangesIn(rip, addresses) == FoldLeft(LAMBDA found, w : Change(rip, found, w), <<>>, addresses)
Changes(rip, ws) == ChangesIn(rip, AddressesOf(ws))

\* The trace of an own stack, and that of a crashed process of which some words were seen.
OwnFrames(ws, includeData) == FramesOf(AddressesOf(First(ws, Depth)), includeData)
ForeignFrames(rip, ws, includeData) ==
  LET rest == Changes(rip, ws)
  IN IF Known(rip) THEN FramesOf(<<rip>> \o First(rest, Depth - 1), includeData)
     ELSE <<Frame(NotFound, rip, {})>> \o FramesOf(First(rest, Depth), includeData)

ReadsBack(entries, frames) ==
  /\ Analyzed(entries) = frames
  /\ Traced(entries) = Shown(frames)
  /\ TraceBytes(entries) <= 26 + Depth * (265 + 17)

\* A stack trace is read as the words that liblt has looked at: the own stack; or of a
\* crashed process the instruction pointer and as many words from the copy of the stack on
\* as the process has segments, which may be less than the stack or more.  Of these,
\* ltanalyze and lttrace find every address with its module, although only the first of a
\* run of addresses in a library is written with the name, and every instruction at its
\* address; and the trace fits into what liblt counts on for its depth.
TraceReadsBack ==
  written = "trace" =>
    \A includeData \in BOOLEAN :
      /\ ReadsBack(lt_write_stack_trace(words, includeData, Depth),
                   OwnFrames(words, includeData))
      /\ \A segmentCount \in 0 .. Len(words) - 1 :
           LET memory == Tail(words)
           IN ReadsBack(
                lt_write_foreign_stack_trace(Head(words), memory, segmentCount, includeData, Depth),
                ForeignFrames(Head(words), SubSeq(memory, 1, segmentCount), includeData))
=============================================================================
