---------------------------- MODULE EventDisplay ----------------------------
(***************************************************************************)
(* What the terminal shows of the events of a turn or of a remote session: *)
(* EventHandler turns them into rows, the text of which is written while   *)
(* it arrives (StreamingMessageBase), unless the user has scrolled up or   *)
(* folded it.                                                              *)
(*                                                                         *)
(* Abstracted: what a row says; a piece of text is the number of its       *)
(* event, 0 if it is blank.  Rows of results fold like those of thoughts,  *)
(* and say nothing new when they are unfolded: they are left out.          *)
(***************************************************************************)
EXTENDS Integers, Sequences, FiniteSets, SequencesExt

CONSTANTS
  Calls,     \* ids of tool calls
  None,
  MaxShown,  \* bound: events that are shown
  MaxLooks   \* bound: how often the user scrolls and folds

VARIABLES
  rows,     \* the rows: of [id, kind, call, content, written, buffer, folded, spins]
  current,  \* current_streaming_message, _reasoning, current_compact, the hooks' container: ids, 0 if none
  tracked,  \* tool_calls: the row of each call, 0 if none
  bottom,   \* the end of the conversation is on the screen
  feed,     \* where events come from: [from, called, answered, within]
  shown,    \* count of events
  looks,    \* count of what the user looked at
  failed    \* history: [compaction, remote]: calls and compactions that nothing ends

displayVars == <<rows, current, tracked, bottom, feed, shown, looks, failed>>

DisplayAssumption == IsFiniteSet(Calls) /\ None \notin Calls /\ MaxShown \in Nat /\ MaxLooks \in Nat

NoCurrent == [reply |-> 0, thought |-> 0, compact |-> 0, hooks |-> 0]
Away == [from |-> "none", called |-> {}, answered |-> {}, within |-> "none"]

Init ==
  /\ rows = <<>> /\ current = NoCurrent /\ tracked = [c \in Calls |-> 0]
  /\ bottom = TRUE /\ feed = Away /\ shown = 0 /\ looks = 0
  /\ failed = [compaction |-> FALSE, remote |-> FALSE]

-----------------------------------------------------------------------------
(* Rows. *)

RowOf(id) == CHOOSE i \in DOMAIN rows : rows[i].id = id
On(id) == \E i \in DOMAIN rows : rows[i].id = id
Row(kind, call, content) ==
  [id |-> shown + 1, kind |-> kind, call |-> call, content |-> content, written |-> content,
   buffer |-> <<>>, folded |-> FALSE, spins |-> kind \in {"thought", "call", "compact"}]

\* Mutant: a stream is stopped without what was held back.
StoppedShort(row) == [row EXCEPT !.buffer = <<>>]

\* stop_stream: what was held back is written, unless the text is folded.
Stopped(row) ==
  [row EXCEPT !.written = IF row.folded THEN @ ELSE @ \o row.buffer, !.buffer = <<>>]

\* stop_spinning
Still(row) == [row EXCEPT !.spins = FALSE]

\* finalize_streaming: the thought and the reply that are being written are complete.
Final(rs, id) == [i \in DOMAIN rs |-> IF rs[i].id = id THEN Still(Stopped(rs[i])) ELSE rs[i]]
Finalized == Final(Final(rows, current.thought), current.reply)
NothingWritten == [current EXCEPT !.reply = 0, !.thought = 0]

\* append_content: a folded text keeps it for later, and so does one off the screen.
Appended(row, piece) ==
  LET more == [row EXCEPT !.content = Append(@, piece)] IN
  IF row.folded THEN more
  ELSE IF bottom THEN [more EXCEPT !.written = Append(@ \o row.buffer, piece), !.buffer = <<>>]
  ELSE [more EXCEPT !.buffer = Append(@, piece)]

-----------------------------------------------------------------------------
(* Events. *)

\* Nothing else happens within a compaction or a run of hooks.
EventWithin(within) == feed.within = within /\ shown < MaxShown /\ shown' = shown + 1
Event == feed.from # "none" /\ EventWithin("none")
Rest == UNCHANGED <<bottom, looks>>

\* write_initial_content; thoughts are folded unless the user asked for the contrary,
\* which is as if each was unfolded at once.
Begun(row) == IF row.kind = "thought" THEN [row EXCEPT !.folded = TRUE, !.written = <<>>] ELSE row

\* The text goes to the row that is being written, or to one of its own.
Texted(rs, kind, id, piece) ==
  IF id = 0 THEN Append(rs, Begun(Row(kind, None, <<piece>>)))
  ELSE [i \in DOMAIN rs |-> IF rs[i].id = id THEN Appended(rs[i], piece) ELSE rs[i]]

\* _handle_assistant_message: a reply ends the thought before it.
Reply(piece) ==
  /\ Event
  /\ rows' = Texted(Final(rows, current.thought), "reply", current.reply, piece)
  /\ current' = [current EXCEPT !.thought = 0, !.reply = IF @ = 0 THEN shown + 1 ELSE @]
  /\ Rest /\ UNCHANGED <<tracked, feed, failed>>

\* _handle_reasoning_message: a thought ends the reply, which disappears if it was blank.
Blank(id) == On(id) /\ \A i \in DOMAIN rows[RowOf(id)].content : rows[RowOf(id)].content[i] = 0
Thought(piece) ==
  LET ended == Final(rows, current.reply)
      left == IF Blank(current.reply) THEN RemoveAt(ended, RowOf(current.reply)) ELSE ended
  IN /\ Event
     /\ rows' = Texted(left, "thought", current.thought, piece)
     /\ current' = [current EXCEPT !.reply = 0, !.thought = IF @ = 0 THEN shown + 1 ELSE @]
     /\ Rest /\ UNCHANGED <<tracked, feed, failed>>

\* A call that is known only has its row updated (_handle_tool_call).
ToolCall(c) ==
  /\ Event /\ c \notin feed.answered
  /\ feed' = [feed EXCEPT !.called = @ \union {c}]
  /\ rows' = IF tracked[c] # 0 THEN Finalized ELSE Append(Finalized, Row("call", c, <<>>))
  /\ tracked' = [tracked EXCEPT ![c] = IF @ = 0 THEN shown + 1 ELSE @]
  /\ current' = NothingWritten
  /\ Rest /\ UNCHANGED failed

\* The result comes below its call, or last if that has no row (_handle_tool_result,
\* ToolResultMessage.on_mount).
ToolResult(c) ==
  LET rs == [i \in DOMAIN Finalized |-> IF rows[i].id = tracked[c] THEN Still(Finalized[i]) ELSE Finalized[i]]
      at == IF On(tracked[c]) THEN RowOf(tracked[c]) ELSE Len(rows)
  IN /\ Event /\ c \in feed.called \ feed.answered
     /\ feed' = [feed EXCEPT !.answered = @ \union {c}]
     /\ rows' = InsertAt(rs, at + 1, Row("result", c, <<>>))
     /\ tracked' = [tracked EXCEPT ![c] = 0]
     /\ current' = NothingWritten
     /\ Rest /\ UNCHANGED failed

\* _handle_compact_start, _handle_compact_end
CompactStart ==
  /\ Event /\ feed.from = "turn" /\ feed' = [feed EXCEPT !.within = "compact"]
  /\ rows' = Append(Finalized, Row("compact", None, <<>>))
  /\ current' = [NothingWritten EXCEPT !.compact = shown + 1]
  /\ Rest /\ UNCHANGED <<tracked, failed>>

CompactEnd ==
  /\ EventWithin("compact") /\ feed' = [feed EXCEPT !.within = "none"]
  /\ rows' = Final(Finalized, current.compact)
  /\ current' = [NothingWritten EXCEPT !.compact = 0]
  /\ Rest /\ UNCHANGED <<tracked, failed>>

\* What the user said to a remote session is shown; that of a turn is there already.
UserMessage ==
  /\ Event /\ feed.from = "remote"
  /\ rows' = Append(Finalized, Row("user", None, <<>>)) /\ current' = NothingWritten
  /\ Rest /\ UNCHANGED <<tracked, feed, failed>>

\* _handle_hook_event: the container of a run is hidden until a hook says something, and
\* removed if none did.
HookRunStart ==
  /\ Event /\ feed.from = "turn" /\ feed' = [feed EXCEPT !.within = "hooks"]
  /\ rows' = Append(rows, [Row("hooks", None, <<>>) EXCEPT !.folded = TRUE])
  /\ current' = [current EXCEPT !.hooks = shown + 1]
  /\ Rest /\ UNCHANGED <<tracked, failed>>

HookSays ==
  /\ EventWithin("hooks")
  /\ rows' = [i \in DOMAIN rows |-> IF rows[i].id = current.hooks
                THEN [rows[i] EXCEPT !.folded = FALSE, !.content = Append(@, shown + 1), !.written = Append(@, shown + 1)]
                ELSE rows[i]]
  /\ Rest /\ UNCHANGED <<current, tracked, feed, failed>>

HookRunEnd ==
  /\ EventWithin("hooks")
  /\ rows' = IF On(current.hooks) /\ rows[RowOf(current.hooks)].folded THEN RemoveAt(rows, RowOf(current.hooks)) ELSE rows
  /\ current' = [current EXCEPT !.hooks = 0] /\ feed' = [feed EXCEPT !.within = "none"]
  /\ Rest /\ UNCHANGED <<tracked, failed>>

-----------------------------------------------------------------------------
(* Turns and remote sessions. *)

Begin == feed.from = "none" /\ feed' = [Away EXCEPT !.from = "turn"] /\ Rest /\ UNCHANGED <<rows, current, tracked, shown, failed>>

\* stop_current_tool_call: the rows of all known calls.
CallsStopped(rs) == [i \in DOMAIN rs |-> IF \E c \in Calls : tracked[c] = rs[i].id THEN Still(rs[i]) ELSE rs[i]]

\* A turn ends when its calls have results, fails (_handle_turn_error), or is interrupted
\* (_interrupt_agent_loop): only the last ends a compaction, too.
TurnEnds(how) ==
  /\ feed.from = "turn" /\ feed' = Away
  /\ how = "done" => feed.called = feed.answered /\ feed.within = "none"
  /\ rows' = CASE how = "done" -> Finalized
               [] how = "fails" -> CallsStopped(Finalized)
               [] how = "interrupted" -> Final(CallsStopped(Finalized), current.compact)
  /\ tracked' = IF how = "done" THEN tracked ELSE [c \in Calls |-> 0]
  /\ current' = [NothingWritten EXCEPT !.compact = IF how = "interrupted" THEN 0 ELSE @]
  /\ failed' = [failed EXCEPT !.compaction = @ \/ (how = "fails" /\ feed.within = "compact")]
  /\ Rest /\ UNCHANGED shown

\* A remote session takes the place of what was shown, and its events come from the first
\* one.  The calls of another one, or of itself before, are still known.
Attach ==
  /\ feed.from # "turn" /\ feed' = [Away EXCEPT !.from = "remote"]
  /\ rows' = <<>> /\ current' = NothingWritten
  /\ failed' = [failed EXCEPT !.remote = @ \/ \E c \in Calls : tracked[c] # 0]
  /\ Rest /\ UNCHANGED <<tracked, shown>>

\* The stream of a remote session ends, with results for its open calls, or it fails
\* (on_remote_finalize_streaming), after which they remain.
RemoteEnds ==
  /\ feed.from = "remote" /\ feed' = Away
  /\ failed' \in {[failed EXCEPT !.remote = TRUE]} \union (IF feed.called = feed.answered THEN {failed} ELSE {})
  /\ rows' = Finalized /\ current' = NothingWritten
  /\ Rest /\ UNCHANGED <<tracked, shown>>

\* /clear
ClearRows ==
  /\ feed.from = "none" /\ rows # <<>> /\ rows' = <<>> /\ current' = NothingWritten
  /\ Rest /\ UNCHANGED <<tracked, feed, shown, failed>>

-----------------------------------------------------------------------------
(* The user looks. *)

\* It matters while a text arrives.
Scroll ==
  /\ current.reply # 0 \/ current.thought # 0
  /\ looks < MaxLooks /\ looks' = looks + 1 /\ bottom' = ~bottom
  /\ UNCHANGED <<rows, current, tracked, feed, shown, failed>>

\* set_collapsed: what is unfolded is written again from its start.
Fold(i) ==
  LET row == rows[i] IN
  /\ looks < MaxLooks /\ looks' = looks + 1
  /\ row.kind = "thought"
  /\ rows' = [rows EXCEPT ![i] =
       IF row.folded THEN [row EXCEPT !.folded = FALSE, !.written = row.content, !.buffer = <<>>]
       ELSE [row EXCEPT !.folded = TRUE]]
  /\ UNCHANGED <<current, tracked, bottom, feed, shown, failed>>

DisplayNext ==
  \/ Reply(shown + 1) \/ Thought(shown + 1) \/ (current.reply = 0 /\ Reply(0))
  \/ \E c \in Calls : ToolCall(c) \/ ToolResult(c)
  \/ CompactStart \/ CompactEnd \/ UserMessage \/ HookRunStart \/ HookSays \/ HookRunEnd
  \/ Begin \/ Attach \/ RemoteEnds \/ ClearRows \/ Scroll
  \/ \E how \in {"done", "fails", "interrupted"} : TurnEnds(how)
  \/ \E i \in DOMAIN rows : Fold(i)

Spec == Init /\ [][DisplayNext]_displayVars

-----------------------------------------------------------------------------
(* Properties. *)

TypeOK ==
  /\ \A i \in DOMAIN rows : rows[i].id \in 1..MaxShown /\ rows[i].spins \in BOOLEAN /\ rows[i].folded \in BOOLEAN
  /\ tracked \in [Calls -> 0..MaxShown] /\ bottom \in BOOLEAN
  /\ feed.from \in {"none", "turn", "remote"} /\ feed.answered \subseteq feed.called

\* Nothing of a text is lost or shown twice, however it was folded, scrolled away and
\* interrupted while it arrived: what is not folded is written but for what is held back,
\* and nothing is held back of a text that is complete.
TextIsWhole ==
  \A i \in DOMAIN rows :
    /\ ~rows[i].folded => rows[i].written \o rows[i].buffer = rows[i].content
    /\ rows[i].buffer # <<>> => rows[i].id \in {current.reply, current.thought}

\* When nothing runs, nothing on the screen looks as if it did, but for a compaction that
\* failed and the calls of a remote session whose stream failed.
NothingSpins ==
  feed.from = "none" => \A i \in DOMAIN rows :
    rows[i].spins => \/ rows[i].kind = "compact" /\ failed.compaction
                     \/ rows[i].kind = "call" /\ failed.remote

\* Every call has a row, and its result follows it at once; so it is until a remote
\* session is left while a call is open, the row of which is not shown when it comes back.
CallsPaired ==
  ~failed.remote =>
    /\ \A c \in feed.called : \E i \in DOMAIN rows : rows[i].kind = "call" /\ rows[i].call = c
    /\ \A i \in DOMAIN rows : rows[i].kind = "result" =>
         i > 1 /\ rows[i - 1].kind = "call" /\ rows[i - 1].call = rows[i].call

DisplaySafe == TextIsWhole /\ NothingSpins /\ CallsPaired
=============================================================================
