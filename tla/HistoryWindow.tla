----------------------------- MODULE HistoryWindow -----------------------------
(***************************************************************************)
(* The display of a long conversation.  A session that is resumed shows    *)
(* its last messages and a button that loads older ones in batches         *)
(* (SessionWindowing); what is said then comes below, the oldest widgets   *)
(* are removed when there are too many, a rewind removes the last ones,    *)
(* and after a turn it is recomputed what is left to load                  *)
(* (sync_backfill_state).                                                  *)
(*                                                                         *)
(* Abstracted: the text and the height of a widget; a message is a number  *)
(* and a kind, which says how many widgets it has.                         *)
(***************************************************************************)
EXTENDS Integers, Sequences, FiniteSets, SequencesExt

CONSTANTS
  TailSize,    \* HISTORY_RESUME_TAIL_MESSAGES
  BatchSize,   \* LOAD_MORE_BATCH_SIZE
  MaxHistory,  \* bound: messages of the session that is resumed
  MaxLive      \* bound: messages said after that

VARIABLES
  history,   \* agent_loop.messages without the system message: of [id, kind]
  display,   \* the widgets of messages, in order: of [id, index], the latter -1 if live
  window,    \* [backfill, cursor, more]: SessionWindowing, and whether the button is shown
  running,   \* a turn is under way
  said,      \* count of messages said
  lost       \* history: what has happened to the display

windowVars == <<history, display, window, running, said, lost>>

WindowAssumption == TailSize \in Nat \ {0} /\ BatchSize \in Nat \ {0} /\ MaxHistory \in Nat /\ MaxLive \in Nat

Kinds == {"user", "reply", "call", "injected", "empty"}

\* How many widgets a message has when it comes from the history, and when it is said: a
\* reply then has one for the thought before it, too; a call one for its text.
FromHistory(m) == CASE m.kind = "call" -> 2 [] m.kind \in {"injected", "empty"} -> 0 [] OTHER -> 1
WhenSaid(m) == CASE m.kind \in {"call", "reply"} -> 2 [] m.kind \in {"injected", "empty"} -> 0 [] OTHER -> 1

\* build_history_widgets: of messages whose first one is the one at start in the history.
Widgets(messages, start) ==
  FlattenSeq([i \in DOMAIN messages |->
    [k \in 1..FromHistory(messages[i]) |-> [id |-> messages[i].id, index |-> start + i - 1]]])

\* split_history_tail
TailStart(messages) == IF Len(messages) > TailSize THEN Len(messages) - TailSize ELSE 0

\* HistoryLoadMoreManager: the button is shown while something is left.
Left(messages) == [backfill |-> messages, cursor |-> Len(messages), more |-> messages # <<>>]

\* _resume_history_from_messages
Resumed(messages) ==
  LET start == TailStart(messages)
      tail == SubSeq(messages, start + 1, Len(messages)) IN
  /\ display = Widgets(tail, start)
  /\ window = Left(SubSeq(messages, 1, start))

Nothing == [compacted |-> FALSE, pruned |-> FALSE, unindexed |-> FALSE]

Init ==
  /\ \E kinds \in SeqOf(Kinds, MaxHistory) : history = [i \in DOMAIN kinds |-> [id |-> i, kind |-> kinds[i]]]
  /\ Resumed(history)
  /\ running = FALSE /\ said = 0 /\ lost = Nothing

StartsEmpty == history = <<>>

-----------------------------------------------------------------------------
\* next_load_more_batch, and its widgets come after the button, before all others.
LoadMore ==
  LET start == IF window.cursor > BatchSize THEN window.cursor - BatchSize ELSE 0
      batch == SubSeq(window.backfill, start + 1, window.cursor)
  IN /\ window.more
     /\ IF window.cursor = 0
        THEN window' = [window EXCEPT !.more = FALSE] /\ UNCHANGED display
        ELSE /\ display' = Widgets(batch, start) \o display
             /\ window' = [window EXCEPT !.cursor = start, !.more = start > 0]
     /\ UNCHANGED <<history, running, said, lost>>

Say(kind) ==
  LET m == [id |-> MaxHistory + said + 1, kind |-> kind] IN
  /\ said < MaxLive /\ said' = said + 1
  /\ kind = "user" => ~running
  /\ kind \in {"reply", "call"} => running
  /\ running' = (running \/ kind = "user")
  /\ history' = Append(history, m)
  /\ display' = display \o [k \in 1..WhenSaid(m) |-> [id |-> m.id, index |-> -1]]
  /\ UNCHANGED <<window, lost>>

Indices == {display[i].index : i \in DOMAIN display} \ {-1}
Least(S) == CHOOSE n \in S : \A m \in S : n <= m
AtLeast0(n) == IF n > 0 THEN n ELSE 0

\* Mutant: what is left to load is always told from the number of widgets.
RecomputedByCount == AtLeast0(Len(history) - Len(display))

\* recompute_backfill: what lies before the oldest widget that came from the history is
\* left to load, but what was loaded already and has no widget is not.  Without such a
\* widget the others are counted as if each was a message.
Recomputed ==
  IF Indices = {} THEN AtLeast0(Len(history) - Len(display))
  ELSE LET oldest == Least(Indices)
           between == SubSeq(history, window.cursor + 1, IF oldest < Len(history) THEN oldest ELSE Len(history)) IN
       IF oldest > window.cursor /\ (between = <<>> \/ \E i \in DOMAIN between : between[i].kind # "injected")
       THEN oldest ELSE window.cursor

\* The turn ends: sync_backfill_state, if the button is shown.
TurnEnds ==
  LET end == IF Recomputed > Len(history) THEN Len(history) ELSE Recomputed IN
  /\ running /\ running' = FALSE
  /\ window' = IF window.more THEN Left(SubSeq(history, 1, end)) ELSE window
  /\ lost' = [lost EXCEPT !.unindexed = @ \/ (window.more /\ Indices = {})]
  /\ UNCHANGED <<history, display, said>>

\* prune_oldest_children: the button is the first of the children.
Prune(n) ==
  /\ n < Len(display)
  /\ display' = SubSeq(display, n + 1, Len(display))
  /\ window' = [window EXCEPT !.more = FALSE]
  /\ lost' = [lost EXCEPT !.pruned = TRUE]
  /\ UNCHANGED <<history, running, said>>

\* A rewind to the prompt of the i-th widget: it and all that comes after it go.
Rewind(i) ==
  LET at == CHOOSE k \in DOMAIN history : history[k].id = display[i].id IN
  /\ ~running /\ i \in DOMAIN display /\ display[i].id \in {history[k].id : k \in DOMAIN history}
  /\ history[at].kind = "user"
  /\ history' = SubSeq(history, 1, at - 1)
  /\ display' = SubSeq(display, 1, i - 1)
  /\ UNCHANGED <<window, running, said, lost>>

\* The conversation becomes a summary; the widgets stay.
Compact ==
  /\ said < MaxLive /\ said' = said + 1
  /\ history # <<>> /\ history' = <<[id |-> MaxHistory + said + 1, kind |-> "injected"]>>
  /\ lost' = [lost EXCEPT !.compacted = TRUE]
  /\ UNCHANGED <<display, window, running>>

\* /reload: nothing is left to load any more.
Reload ==
  /\ ~running /\ window.more
  /\ window' = Left(<<>>)
  /\ lost' = [lost EXCEPT !.pruned = TRUE]
  /\ UNCHANGED <<history, display, running, said>>

\* /clear
Clear ==
  /\ ~running /\ history # <<>>
  /\ history' = <<>> /\ display' = <<>> /\ window' = Left(<<>>)
  /\ lost' = Nothing
  /\ UNCHANGED <<running, said>>

WindowNext ==
  \/ LoadMore \/ TurnEnds \/ Compact \/ Reload \/ Clear
  \/ \E kind \in Kinds : Say(kind)
  \/ \E n \in 1..Len(display) : Prune(n) \/ Rewind(n)

Spec == Init /\ [][WindowNext]_windowVars

-----------------------------------------------------------------------------
(* Properties. *)

TypeOK ==
  /\ \A i \in DOMAIN display : display[i].index \in Nat \cup {-1}
  /\ window.cursor \in 0..Len(window.backfill) /\ window.more \in BOOLEAN
  /\ running \in BOOLEAN

\* The messages of a sequence of widgets, each once.
MessagesOf(widgets) ==
  FoldLeft(LAMBDA ids, w : IF ids # <<>> /\ Last(ids) = w.id THEN ids ELSE Append(ids, w.id), <<>>, widgets)

\* What the user has seen, or can load, is the conversation: each of its messages that
\* has a widget, once and in order, whatever is loaded, said, rewound and pruned in
\* between.  Not so after a compaction, which the widgets do not follow, nor after a turn
\* that ends with no widget from the history on the screen (a tail that has none, a rewind
\* to the oldest prompt shown) while there is more to load: widgets are taken for messages.
DisplayIsHistory ==
  LET all == MessagesOf(Widgets(history, 0))
      left == MessagesOf(Widgets(SubSeq(window.backfill, 1, window.cursor), 0))
      shown == MessagesOf(display)
  IN ~lost.compacted /\ ~lost.unindexed =>
       IF window.more THEN left \o shown = all
       ELSE IsSuffix(shown, all) /\ (~lost.pruned => shown = all)

\* The index of a widget is the one of its message, so that a rewind finds it.
IndexIsPosition ==
  ~lost.compacted /\ ~lost.unindexed => \A i \in DOMAIN display :
    display[i].index = -1 \/ history[display[i].index + 1].id = display[i].id

WindowSafe == DisplayIsHistory /\ IndexIsPosition
=============================================================================
