----------------------------- MODULE LogConsole -----------------------------
(***************************************************************************)
(* The debug console: a view of the program's log file, with older pages   *)
(* loaded as the user scrolls up and new lines appended as they are        *)
(* written.  A thread polls the file (LogReader); pages are counted from   *)
(* its end, so that the lines the thread has seen since are skipped.       *)
(*                                                                         *)
(* Abstracted: a position in the file is a number of lines, each of which  *)
(* is an entry or does not parse, and takes one row.                       *)
(***************************************************************************)
EXTENDS Integers, Sequences, FiniteSets

CONSTANTS
  PageSize,
  Height,    \* rows of the view
  MaxLogged, \* bound: lines
  MaxOpened  \* bound: consoles

VARIABLES
  file,     \* the log file, of [id, entry]
  exists,
  position, \* _last_position: as far as the thread has read
  newLines, \* _new_lines_count: lines it has read since it was started
  watcher,  \* the thread: [at, batch], entries that it has not handed over yet
  console,  \* DebugConsole with its _LogView; page is the lines that the page being read skips
  logged,   \* count: lines written
  opened,   \* count: consoles
  uneven    \* history: a page was counted from another end than the thread's

logVars == <<file, exists, position, newLines, watcher, console, logged, opened, uneven>>

LogAssumption ==
  PageSize \in Nat \ {0} /\ Height \in Nat \ {0} /\ MaxLogged \in Nat /\ MaxOpened \in Nat

Idle == [at |-> "off", batch |-> <<>>]

\* A cursor of zero is none.  History: looking, the entry in the first row, zero at the
\* bottom, and end, how far the thread had read when the page was asked for.
Closed ==
  [open |-> FALSE, filling |-> FALSE, page |-> -1, shown |-> <<>>, cursor |-> 0,
   more |-> TRUE, y |-> 0, looking |-> 0, end |-> 0]

Init ==
  /\ file = <<>> /\ exists = TRUE /\ position = 0 /\ newLines = 0 /\ watcher = Idle
  /\ console = Closed /\ logged = 0 /\ opened = 0 /\ uneven = FALSE

Entries(lines) == LET IsEntry(l) == l.entry IN SelectSeq(lines, IsEntry)

-----------------------------------------------------------------------------
(* The file, written by the logger; somebody may empty or remove it. *)

Log(entry) ==
  /\ logged < MaxLogged /\ logged' = logged + 1
  /\ file' = Append(file, [id |-> logged', entry |-> entry]) /\ exists' = TRUE
  /\ UNCHANGED <<position, newLines, watcher, console, opened, uneven>>

Clear ==
  /\ file # <<>> /\ file' = <<>> /\ exists' \in BOOLEAN
  /\ uneven' = (uneven \/ console.open)
  /\ UNCHANGED <<position, newLines, watcher, console, logged, opened>>

-----------------------------------------------------------------------------
(* The thread. *)

\* _process_new_content
Poll ==
  LET shrunk == Len(file) < position
      from == IF shrunk THEN 0 ELSE position
      lines == SubSeq(file, from + 1, Len(file))
  IN
  /\ watcher.at = "waits"
  /\ IF ~exists
     THEN position' = 0 /\ UNCHANGED <<newLines, watcher>>
     ELSE /\ position' = Len(file)
          /\ newLines' = (IF shrunk THEN 0 ELSE newLines) + Len(lines)
          /\ watcher' = [at |-> IF Entries(lines) = <<>> THEN "waits" ELSE "gives",
                         batch |-> Entries(lines)]
  /\ UNCHANGED <<file, exists, console, logged, opened, uneven>>

-----------------------------------------------------------------------------
(* The view. *)

Greater(m, n) == IF m > n THEN m ELSE n
Bottom(c) == Greater(0, Len(c.shown) - Height)
Looking(c) == IF c.y = Bottom(c) THEN 0 ELSE c.shown[c.y + 1].id
ScrolledTo(c, y) == LET d == [c EXCEPT !.y = y] IN [d EXCEPT !.looking = Looking(d)]

\* write_line: whoever looks at the end keeps looking at it.
Written(c, entry) ==
  LET d == [c EXCEPT !.shown = Append(@, entry)]
  IN IF c.y = Bottom(c) THEN [d EXCEPT !.y = Bottom(d)] ELSE d

\* Mutant: older lines push down what is looked at.
PrependedAbove(c, entries) == [c EXCEPT !.shown = entries \o @]

\* prepend_lines: what was looked at stays where it is.
Prepended(c, entries) ==
  LET d == [c EXCEPT !.shown = entries \o @]
      y == c.y + Len(entries)
  IN [d EXCEPT !.y = IF y > Bottom(d) THEN Bottom(d) ELSE y]

\* _append_log_entry, for which the thread waits until the application is free.
Give ==
  /\ watcher.at = "gives" /\ console.page = -1
  /\ console' = Written(console, Head(watcher.batch))
  /\ watcher' = [at |-> IF Len(watcher.batch) = 1 THEN "waits" ELSE "gives", batch |-> Tail(watcher.batch)]
  /\ UNCHANGED <<file, exists, position, newLines, logged, opened, uneven>>

-----------------------------------------------------------------------------
(* A page: what it skips is computed first, then the file is read. *)

\* Mutant: lines that were written since are not skipped.
SkippedByCursor(c) == c.cursor

\* _read_lines_backward
Skipped(c) == c.cursor + newLines

Asks(c) == [c EXCEPT !.page = Skipped(c), !.end = position]

\* get_logs
LogsBefore(skip) ==
  LET rest == SubSeq(file, 1, Len(file) - skip)
      entries == {i \in DOMAIN rest : rest[i].entry}
      Newer(i) == Cardinality({j \in entries : j >= i})
      full == Cardinality(entries) >= PageSize
      first == IF full THEN CHOOSE i \in entries : Newer(i) = PageSize ELSE 1
  IN [full |-> full, lines |-> SubSeq(rest, first, Len(rest))]

\* _load_page
ReadPage ==
  LET page == LogsBefore(console.page)
      entries == Entries(page.lines)
  IN
  /\ console.page >= 0
  /\ console' =
       Prepended([console EXCEPT !.page = -1, !.more = page.full, !.end = 0,
                                 !.cursor = IF page.full THEN @ + PageSize ELSE 0], entries)
  /\ uneven' = (uneven \/ Len(file) # position \/ console.end # position
                  \/ (page.full /\ Len(entries) < Len(page.lines)))
  /\ UNCHANGED <<file, exists, position, newLines, watcher, logged, opened>>

-----------------------------------------------------------------------------
(* The console. *)

\* action_toggle_debug_console, on_mount, start_watching
Open ==
  /\ ~console.open /\ opened < MaxOpened /\ opened' = opened + 1
  /\ console' = [Closed EXCEPT !.open = TRUE, !.filling = TRUE]
  /\ position' = Len(file) /\ watcher' = [Idle EXCEPT !.at = "waits"] /\ uneven' = FALSE
  /\ UNCHANGED <<file, exists, newLines, logged>>

\* on_unmount, stop_watching: what the thread still hands over nobody sees.
Close ==
  /\ console.open /\ console.page = -1
  /\ console' = Closed /\ watcher' = Idle /\ newLines' = 0
  /\ UNCHANGED <<file, exists, position, logged, opened, uneven>>

\* _check_and_fill
Fill ==
  LET fits == Len(console.shown) <= Height IN
  /\ console.filling /\ console.page = -1
  /\ console' = IF ~console.more THEN [console EXCEPT !.filling = FALSE]
                ELSE IF fits THEN Asks(console)
                ELSE ScrolledTo([console EXCEPT !.filling = FALSE], Bottom(console))
  /\ UNCHANGED <<file, exists, position, newLines, watcher, logged, opened, uneven>>

\* action_scroll_up and the others; _try_load_previous
Scroll ==
  /\ console.open /\ console.page = -1
  /\ \E y \in 0..Bottom(console) :
       LET c == ScrolledTo(console, y) IN
       console' = IF y = 0 /\ c.more /\ c.cursor # 0 THEN Asks(c) ELSE c
  /\ UNCHANGED <<file, exists, position, newLines, watcher, logged, opened, uneven>>

LogNext ==
  \/ \E entry \in BOOLEAN : Log(entry)
  \/ Clear \/ Poll \/ Give \/ ReadPage \/ Open \/ Close \/ Fill \/ Scroll

Spec == Init /\ [][LogNext]_logVars

-----------------------------------------------------------------------------
(* Properties. *)

TypeOK ==
  /\ exists \in BOOLEAN /\ position \in 0..MaxLogged /\ newLines \in 0..MaxLogged
  /\ watcher.at \in {"off", "waits", "gives"} /\ console.page >= -1
  /\ (console.open <=> watcher.at # "off")

Ids(lines) == [i \in DOMAIN lines |-> lines[i].id]

\* The console shows every entry up to those that it has yet to be given, once and in
\* their order, back to the page that was read last: however pages and new lines take
\* turns.  All of them if there is no older page.
ShowsTheLog ==
  LET known == Ids(Entries(SubSeq(file, 1, position)))
      given == SubSeq(known, 1, Len(known) - Len(watcher.batch))
      count == Len(console.shown)
  IN console.open /\ ~uneven =>
       /\ count <= Len(given)
       /\ Ids(console.shown) = SubSeq(given, Len(given) - count + 1, Len(given))
       /\ (~console.more => count = Len(given))

\* What the user looks at stays in its row, whatever is added above or below; the end
\* stays in sight of who looks at it.
KeepsThePlace ==
  console.open =>
    IF console.looking = 0 THEN console.y = Bottom(console)
    ELSE console.shown[console.y + 1].id = console.looking

LogSafe == ShowsTheLog /\ KeepsThePlace
=============================================================================
