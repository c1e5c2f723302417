------------------------------ MODULE ReadAloud ------------------------------
(***************************************************************************)
(* Reading turns aloud: TurnSummaryTracker has a turn summarised when it   *)
(* ends, NarratorManager turns the summary into speech, AudioPlayer plays  *)
(* it in a thread of its own and reports the end to the event loop.        *)
(*                                                                         *)
(* Abstracted: a summary and its speech are the number of their turn.  The *)
(* feature switch is on, as in the tests.                                  *)
(***************************************************************************)
EXTENDS Naturals, Sequences, FiniteSets

CONSTANTS
  MaxTurns,  \* bound: turns
  MaxSyncs   \* bound: changes of the settings

VARIABLES
  turn,       \* turns begun, and whether the last one runs
  tracker,    \* TurnSummaryTracker: its turn or 0, generation; or it does nothing
  tts,        \* _tts_client is there
  narrator,   \* NarratorManager._state
  summaries,  \* by turn: the task that asks for its summary
  cancelable, \* _cancel_summary: the turn of the task it cancels, or 0
  speaking,   \* _speak_task: its turn, and its step
  player,     \* AudioPlayer: the turn that it plays, or 0
  posted,     \* reports of the player that the loop has still to take
  syncs       \* syncs so far

aloudVars == <<turn, tracker, tts, narrator, summaries, cancelable, speaking, player, posted, syncs>>

AloudAssumption == MaxTurns \in Nat /\ MaxSyncs \in Nat

Turn == 1..MaxTurns
Step == {"none", "asking", "over"}

TypeOK ==
  /\ turn \in [n : 0..MaxTurns, runs : BOOLEAN]
  /\ tracker \in [on : BOOLEAN, data : 0..MaxTurns, generation : 0..MaxTurns] /\ tts \in BOOLEAN
  /\ narrator \in {"idle", "summarizing", "speaking"}
  /\ summaries \in [Turn -> [step : Step, generation : 0..MaxTurns]]
  /\ cancelable \in 0..MaxTurns /\ player \in 0..MaxTurns /\ posted \in 0..MaxTurns
  /\ speaking \in [turn : 0..MaxTurns, step : Step] /\ syncs \in 0..MaxSyncs

Init ==
  /\ turn = [n |-> 0, runs |-> FALSE]
  /\ tracker = [on |-> TRUE, data |-> 0, generation |-> 0] /\ tts = TRUE
  /\ narrator = "idle" /\ cancelable = 0 /\ player = 0 /\ posted = 0 /\ syncs = 0
  /\ summaries = [n \in Turn |-> [step |-> "none", generation |-> 0]]
  /\ speaking = [turn |-> 0, step |-> "none"]

-----------------------------------------------------------------------------
(* Turns. *)

\* Closing the stream of the player ends it, which is reported.
Silent == player' = 0 /\ posted' = posted + (IF player # 0 THEN 1 ELSE 0)

\* Mutant of Cancelled: speech that was asked for is still to come.
CancelledSummary ==
  /\ summaries' = [n \in Turn |-> IF n = cancelable THEN [summaries[n] EXCEPT !.step = "over"]
                                  ELSE summaries[n]]
  /\ cancelable' = 0 /\ speaking' = speaking
  /\ Silent
  /\ narrator' = "idle"

\* NarratorManager.cancel.
Cancelled ==
  /\ summaries' = [n \in Turn |-> IF n = cancelable THEN [summaries[n] EXCEPT !.step = "over"]
                                  ELSE summaries[n]]
  /\ cancelable' = 0
  /\ speaking' = [turn |-> 0, step |-> "none"]
  /\ Silent
  /\ narrator' = "idle"

\* cancel and on_turn_start, before the turn (_handle_agent_loop_turn).
TurnStarts ==
  /\ ~turn.runs /\ turn.n < MaxTurns
  /\ turn' = [n |-> turn.n + 1, runs |-> TRUE]
  /\ tracker' = IF tracker.on THEN [tracker EXCEPT !.data = turn.n + 1, !.generation = @ + 1] ELSE tracker
  /\ Cancelled
  /\ UNCHANGED <<tts, syncs>>

\* on_turn_end, end_turn: after an error too.
TurnEnds ==
  /\ turn.runs
  /\ turn' = [turn EXCEPT !.runs = FALSE]
  /\ tracker' = [tracker EXCEPT !.data = 0]
  /\ IF tracker.data = 0 THEN UNCHANGED <<summaries, cancelable, narrator>>
     ELSE /\ summaries' = [summaries EXCEPT ![tracker.data] = [step |-> "asking", generation |-> tracker.generation]]
          /\ cancelable' = IF tts THEN tracker.data ELSE cancelable
          /\ narrator' = IF tts THEN "summarizing" ELSE narrator
  /\ UNCHANGED <<tts, speaking, player, posted, syncs>>

\* on_turn_cancel: nothing is left to summarise when the turn ends.
TurnCancelled ==
  /\ turn.runs
  /\ turn' = [turn EXCEPT !.runs = FALSE]
  /\ tracker' = [tracker EXCEPT !.data = 0]
  /\ UNCHANGED <<tts, narrator, summaries, cancelable, speaking, player, posted, syncs>>

-----------------------------------------------------------------------------
(* Summaries and speech. *)

\* _generate_summary, _on_turn_summary: a summary of an earlier generation is dropped.
SummaryComes(n, ok) ==
  /\ summaries[n].step = "asking"
  /\ summaries' = [summaries EXCEPT ![n].step = "over"]
  /\ cancelable' = 0
  /\ IF ok /\ tts /\ summaries[n].generation = tracker.generation
     THEN speaking' = [turn |-> n, step |-> "asking"] /\ narrator' = narrator
     ELSE narrator' = "idle" /\ speaking' = speaking
  /\ UNCHANGED <<turn, tracker, tts, player, posted, syncs>>

\* _speak_summary goes on with what the server sent; the loop takes what was
\* posted before it.
Spoken ==
  /\ speaking.step = "asking" /\ posted = 0
  /\ speaking' = [speaking EXCEPT !.step = "over"]
  /\ IF player = 0 THEN player' = speaking.turn /\ narrator' = "speaking"
     ELSE player' = player /\ narrator' = "idle"
  /\ UNCHANGED <<turn, tracker, tts, summaries, cancelable, posted, syncs>>

SpeechFails ==
  /\ speaking.step = "asking"
  /\ speaking' = [speaking EXCEPT !.step = "over"]
  /\ narrator' = "idle"
  /\ UNCHANGED <<turn, tracker, tts, summaries, cancelable, player, posted, syncs>>

\* _on_stream_finished, in the thread of the player.
PlayEnds ==
  /\ player # 0 /\ Silent
  /\ UNCHANGED <<turn, tracker, tts, narrator, summaries, cancelable, speaking, syncs>>

\* _on_playback_finished.
PlaybackFinished ==
  /\ posted # 0 /\ posted' = posted - 1
  /\ narrator' = IF narrator = "speaking" THEN "idle" ELSE narrator
  /\ UNCHANGED <<turn, tracker, tts, summaries, cancelable, speaking, player, syncs>>

\* Escape (VibeApp._try_interrupt) or the end of the application.
Escape ==
  /\ player # 0 \/ narrator # "idle"
  /\ Cancelled
  /\ UNCHANGED <<turn, tracker, tts, syncs>>

\* sync, after a change of the settings: a new tracker and client, and the tasks
\* of the old ones are cancelled.
Sync(on, client) ==
  /\ ~turn.runs /\ syncs < MaxSyncs
  /\ syncs' = syncs + 1
  /\ tracker' = [on |-> on, data |-> 0, generation |-> 0] /\ tts' = (on /\ client)
  /\ summaries' = [n \in Turn |-> IF summaries[n].step = "asking" THEN [summaries[n] EXCEPT !.step = "over"]
                                  ELSE summaries[n]]
  /\ cancelable' = 0 /\ speaking' = [turn |-> 0, step |-> "none"]
  /\ Silent /\ narrator' = "idle"
  /\ turn' = turn

AloudNext ==
  \/ TurnStarts \/ TurnEnds \/ TurnCancelled \/ Spoken \/ SpeechFails \/ PlayEnds
  \/ PlaybackFinished \/ Escape
  \/ \E n \in Turn, ok \in BOOLEAN : SummaryComes(n, ok)
  \/ \E on, client \in BOOLEAN : Sync(on, client)

\* Servers answer or fail, and what is played comes to its end.
AloudFairness ==
  /\ WF_aloudVars(\E n \in Turn, ok \in BOOLEAN : SummaryComes(n, ok))
  /\ WF_aloudVars(Spoken) /\ WF_aloudVars(PlayEnds) /\ WF_aloudVars(PlaybackFinished)

Spec == Init /\ [][AloudNext]_aloudVars /\ AloudFairness

-----------------------------------------------------------------------------
(* Properties. *)

\* What is played is the summary of the last turn, and not while another runs.
LastTurnOnly == player # 0 => player = turn.n /\ ~turn.runs

\* The state says what happens: it is speech that plays, and it is a summary or
\* speech that is waited for.
StateTrue ==
  /\ player # 0 => narrator = "speaking"
  /\ narrator = "speaking" => player # 0 \/ posted # 0
  /\ narrator = "summarizing" => cancelable # 0 \/ speaking.step = "asking"

\* The narrator speaks for the last turn only and its state is what escape acts
\* on, whatever thread or server is late (narrator_manager.py, tracker.py).
AloudSafe == LastTurnOnly /\ StateTrue

\* The narrator comes to rest after every turn.
AloudSettles == narrator # "idle" ~> narrator = "idle"
=============================================================================
