------------------------------ MODULE FileTools ------------------------------
(***************************************************************************)
(* The tools that work on the text of a file: search_replace, write_file   *)
(* and read_file, and what grep says of its matches.  The calls of one     *)
(* answer of the model run side by side, and each of them reads, opens     *)
(* (which empties the file) and writes in steps of its own.                *)
(*                                                                         *)
(* A text is a sequence of lines, and a line is its size, by which two     *)
(* lines are the same or not.  Abstracted: encodings, the hints that a     *)
(* failed block is answered with, images; permissions are those of         *)
(* Shells, and snapshots those of Rewind.                                  *)
(***************************************************************************)
EXTENDS Integers, Sequences, SequencesExt, FiniteSetsExt

CONSTANTS
  Texts,    \* what the file may hold at first
  Edits,    \* lists of blocks of search_replace: [search, replace]
  Writes,   \* what write_file may write
  MaxCalls, \* calls
  MaxBytes, \* max_read_bytes
  MaxFound  \* max_matches of grep

VARIABLES
  text,      \* the file
  calls,     \* calls of search_replace and write_file: [kind, input, step, out, result],
             \* and, as history, met: the calls that had the file open at the same time
  expected,  \* history: the text with every call that succeeded, in that order
  disturbed, \* history: two calls overlapped, or one did not write what it had opened for
  reader,    \* a model that reads the file page by page: [offset, got, truncated, of]
  pages      \* count: pages read

fileVars == <<text, calls, expected, disturbed, reader, pages>>

FileAssumption == MaxCalls \in Nat /\ MaxBytes \in Nat /\ MaxFound \in Nat \ {0}

Init ==
  /\ text \in Texts
  /\ calls = <<>> /\ expected = text /\ disturbed = FALSE
  /\ reader = [offset |-> 0, got |-> <<>>, truncated |-> TRUE, of |-> text] /\ pages = 0

StartsFirst == text = CHOOSE t \in Texts : TRUE

Size(lines) == FoldLeft(+, 0, lines)

-----------------------------------------------------------------------------
(* search_replace *)

\* _apply_blocks: each block is looked for in what the blocks before it have left.
ApplyBlocks(content, blocks) ==
  FoldLeft(LAMBDA acc, b :
             IF b.search \in SubSeqs(acc.text)
             THEN [acc EXCEPT !.text = ReplaceFirstSubSeq(b.replace, b.search, acc.text)]
             ELSE [acc EXCEPT !.failed = @ + 1],
           [text |-> content, failed |-> 0], blocks)

Running == {c \in DOMAIN calls : calls[c].step # "over"}

Call(kind, input) ==
  /\ Len(calls) < MaxCalls
  /\ calls' = Append(calls, [kind |-> kind, input |-> input, step |-> "called", out |-> <<>>,
                             result |-> "none", met |-> {}])
  /\ disturbed' = (disturbed \/ Running # {})
  /\ UNCHANGED <<text, expected, reader, pages>>

\* Mutant: the file is open for writing before the blocks are looked for.
ReadAndApplyOpened(c) ==
  LET applied == ApplyBlocks(text, calls[c].input) IN
  /\ calls[c].kind = "edit" /\ calls[c].step = "called"
  /\ text' = <<>>
  /\ calls' = IF applied.failed > 0
              THEN [calls EXCEPT ![c].step = "over", ![c].result = "failed"]
              ELSE [calls EXCEPT ![c].step = "opened", ![c].out = applied.text]
  /\ UNCHANGED <<expected, disturbed, reader, pages>>

\* The file is read, and every block has to apply before anything is written; a text
\* that stays what it was is not written at all.
ReadAndApply(c) ==
  LET applied == ApplyBlocks(text, calls[c].input) IN
  /\ calls[c].kind = "edit" /\ calls[c].step = "called"
  /\ \/ /\ applied.failed > 0
        /\ calls' = [calls EXCEPT ![c].step = "over", ![c].result = "failed"]
     \/ /\ applied.failed = 0 /\ applied.text = text
        /\ calls' = [calls EXCEPT ![c].step = "over", ![c].result = "done"]
     \/ /\ applied.failed = 0 /\ applied.text # text
        /\ calls' = [calls EXCEPT ![c].step = "ready", ![c].out = applied.text]
  /\ UNCHANGED <<text, expected, disturbed, reader, pages>>

\* write_file needs no look at the text, where it may overwrite.
Prepare(c) ==
  /\ calls[c].kind = "write" /\ calls[c].step = "called"
  /\ calls' = [calls EXCEPT ![c].step = "ready", ![c].out = calls[c].input]
  /\ UNCHANGED <<text, expected, disturbed, reader, pages>>

\* Opening the file to write empties it, for others that have it open as well.
Truncate(c) ==
  LET others == {d \in DOMAIN calls : calls[d].step = "opened"} IN
  /\ calls[c].step = "ready"
  /\ text' = <<>>
  /\ calls' = [d \in DOMAIN calls |->
                 CASE d = c -> [calls[d] EXCEPT !.step = "opened", !.met = others]
                   [] d \in others -> [calls[d] EXCEPT !.met = @ \union {c}]
                   [] OTHER -> calls[d]]
  /\ UNCHANGED <<expected, disturbed, reader, pages>>

\* What the call has done to the text that is expected.
Expect(c) ==
  IF calls[c].kind = "write" THEN calls[c].input ELSE ApplyBlocks(expected, calls[c].input).text

\* What is left of lines without their first bytes: a line may be cut.
Rest(lines, bytes) ==
  LET whole == Max({n \in 0..Len(lines) : Size(SubSeq(lines, 1, n)) <= bytes})
      over  == bytes - Size(SubSeq(lines, 1, whole))
      rest  == SubSeq(lines, whole + 1, Len(lines))
  IN IF rest = <<>> \/ over = 0 THEN rest ELSE [rest EXCEPT ![1] = @ - over]

\* A call writes from the start of the file: what another that had it open wrote in the
\* meantime stays, where it is longer.
Overlaid(c) == calls[c].out \o Rest(text, Size(calls[c].out))

Write(c) ==
  /\ calls[c].step = "opened"
  /\ text' = Overlaid(c)
  /\ calls' = [calls EXCEPT ![c].step = "over", ![c].result = "done"]
  /\ expected' = Expect(c)
  /\ UNCHANGED <<disturbed, reader, pages>>

\* The new text cannot be encoded as the old one was: the file stays as it is, emptied.
WriteFails(c) ==
  /\ calls[c].kind = "edit" /\ calls[c].step = "opened"
  /\ calls' = [calls EXCEPT ![c].step = "over", ![c].result = "unwritten"]
  /\ disturbed' = TRUE
  /\ UNCHANGED <<text, expected, reader, pages>>

\* The turn is interrupted: a file that was opened may have been left as it is, or written.
Cancel(c) ==
  /\ calls[c].step # "over"
  /\ calls' = [calls EXCEPT ![c].step = "over", ![c].result = "cancelled"]
  /\ IF calls[c].step = "opened"
     THEN disturbed' = TRUE /\ text' \in {text, Overlaid(c)}
     ELSE UNCHANGED <<disturbed, text>>
  /\ UNCHANGED <<expected, reader, pages>>

-----------------------------------------------------------------------------
(* read_file: whole lines from an offset, as many as fit. *)

Page(lines, offset) ==
  LET fits == {n \in offset..Len(lines) : Size(SubSeq(lines, offset + 1, n)) <= MaxBytes}
      last == IF fits = {} THEN offset ELSE Max(fits)
  IN [lines |-> SubSeq(lines, offset + 1, last), truncated |-> last < Len(lines) /\ offset < Len(lines)]

ReadPage ==
  /\ reader.truncated /\ pages < 3
  /\ LET page == Page(text, reader.offset) IN
     reader' = [offset |-> reader.offset + Len(page.lines), got |-> reader.got \o page.lines,
                truncated |-> page.truncated, of |-> IF pages = 0 THEN text ELSE reader.of]
  /\ pages' = pages + 1
  /\ UNCHANGED <<text, calls, expected, disturbed>>

-----------------------------------------------------------------------------
(* grep: each file gives one match more than are wanted. *)

Smaller(m, n) == IF m <= n THEN m ELSE n
GrepResult(counts) ==
  LET found == MapThenSumSet(LAMBDA f : Smaller(counts[f], MaxFound + 1), DOMAIN counts)
  IN [count |-> Smaller(found, MaxFound), truncated |-> found > MaxFound]

-----------------------------------------------------------------------------
FileNext ==
  \/ \E input \in Edits : Call("edit", input)
  \/ \E input \in Writes : Call("write", input)
  \/ \E c \in DOMAIN calls : ReadAndApply(c) \/ Prepare(c) \/ Truncate(c) \/ Write(c)
                              \/ WriteFails(c) \/ Cancel(c)
  \/ ReadPage

Spec == Init /\ [][FileNext]_fileVars

-----------------------------------------------------------------------------
(* Properties. *)

TypeOK ==
  /\ text \in Seq(Nat) /\ expected \in Seq(Nat) /\ disturbed \in BOOLEAN
  /\ \A c \in DOMAIN calls : /\ calls[c].step \in {"called", "ready", "opened", "over"}
                             /\ calls[c].result \in {"none", "done", "failed", "unwritten", "cancelled"}
  /\ reader.truncated \in BOOLEAN /\ pages \in 0..3

\* One after the other, the calls that succeeded have had their effect and the others
\* none; calls that overlap may undo each other.
EditsHold == ~disturbed /\ Running = {} => text = expected

\* When nothing is under way the file holds what some call wrote, what it held before, or
\* nothing after a write was cut off or failed; only of two calls that had the file open at the same
\* time may the end of the longer text follow the shorter one.
TextOfSomeCall ==
  Running = {} =>
    \/ text \in Texts \cup {calls[c].out : c \in DOMAIN calls}
    \/ text = <<>> /\ \E c \in DOMAIN calls : calls[c].result \in {"unwritten", "cancelled"}
    \/ \E c \in DOMAIN calls : \E d \in calls[c].met :
         /\ IsPrefix(calls[c].out, text)
         /\ Size(text) = Size(calls[d].out) /\ Size(calls[c].out) < Size(text)

\* Pages that were read one after the other are the file, if nobody has changed it; and
\* the reader comes forward unless a single line is larger than a page.
PagesWhole ==
  /\ calls = <<>> /\ ~reader.truncated => reader.got = reader.of
  /\ calls = <<>> /\ pages > 0 /\ reader.truncated /\ reader.got = <<>> =>
       reader.of[1] > MaxBytes

\* A result of grep that is not said to be cut short is complete.
GrepComplete ==
  \A counts \in [1..2 -> 0..MaxFound + 2] :
    ~GrepResult(counts).truncated => GrepResult(counts).count = counts[1] + counts[2]

FilesSafe == EditsHold /\ TextOfSomeCall /\ PagesWhole /\ GrepComplete
=============================================================================
