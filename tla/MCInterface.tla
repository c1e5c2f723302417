----------------------------- MODULE MCInterface -----------------------------
(***************************************************************************)
(* Instances of the components of the terminal's interface that come to    *)
(* rest.  They share no state, so that they are checked side by side:      *)
(* `part` says which of them runs, the others stay in their initial states. *)
(***************************************************************************)
EXTENDS Integers, Sequences, FiniteSets, TLC

CONSTANTS
  InputTexts, NoText, Found, None, MaxTyped,  \* PathCompletion
  Paths, Dirs, Root, Parent, Threshold, MaxChanges, MaxToggles,              \* FileIndex
  MaxRecordings, MaxChunks,                   \* Dictation
  MaxTurns, MaxSyncs,                         \* ReadAloud
  MaxPrompts, MaxEscapes,                     \* AppTurns
  At1, At2, At3, Dir, A, B, C                 \* the instance below

VARIABLES
  part,
  ui, text, changes, active, futures, pending, last, list, cleared, selected, posted, popup,
  worker, lock, typed, raced, failed,
  disk, index, built, caller, walk, watcher, wanted, events, batch, lateChanges, missed,
  unordered, used,
  enabled, state, mic, audio, task, current, stopping, late, crashed,
  turn, tracker, tts, narrator, summaries, cancelable, speaking, player, reported, syncs,
  running, interrupting, agentTask, turns, bashTask, bash, submits, interrupts, sentPrompts,
  racedTurns

Completion == INSTANCE PathCompletion WITH Blank <- NoText, Texts <- InputTexts
Index == INSTANCE FileIndex WITH late <- lateChanges
Voice == INSTANCE Dictation
Aloud == INSTANCE ReadAloud WITH posted <- reported
Turns == INSTANCE AppTurns WITH prompts <- sentPrompts, raced <- racedTurns

ASSUME Assumptions ==
  /\ Completion!PathAssumption
  /\ Index!IndexAssumption
  /\ Voice!VoiceAssumption
  /\ Aloud!AloudAssumption
  /\ Turns!TurnAssumption

\* Three texts with two, one and no match.
MCFound == At1 :> 2 @@ At2 :> 1 @@ At3 :> 0
\* A file in a directory in a directory, and one beside them.
MCParent == Dir :> Root @@ A :> Dir @@ B :> A @@ C :> Root

completionVars == <<ui, text, changes, active, futures, pending, last, list, cleared, selected,
                    posted, popup, worker, lock, typed, raced, failed>>
indexVars == <<disk, index, built, caller, walk, watcher, wanted, events, batch, lateChanges,
               missed, unordered, used>>
voiceVars == <<enabled, state, mic, audio, task, current, stopping, late, crashed>>
aloudVars == <<turn, tracker, tts, narrator, summaries, cancelable, speaking, player, reported,
               syncs>>
turnVars == <<running, interrupting, agentTask, turns, bashTask, bash, submits, interrupts,
              sentPrompts, racedTurns>>
vars == <<part, completionVars, indexVars, voiceVars, aloudVars, turnVars>>

Init ==
  /\ part \in {"completion", "index", "voice", "aloud", "turns"}
  /\ Completion!Init
  /\ Index!Init /\ (part # "index" => Index!StartsEmpty)
  /\ Voice!Init
  /\ Aloud!Init
  /\ Turns!Init

Next ==
  \/ /\ part = "completion" /\ Completion!Next
     /\ UNCHANGED <<part, indexVars, voiceVars, aloudVars, turnVars>>
  \/ /\ part = "index" /\ Index!Next
     /\ UNCHANGED <<part, completionVars, voiceVars, aloudVars, turnVars>>
  \/ /\ part = "voice" /\ Voice!VoiceNext
     /\ UNCHANGED <<part, completionVars, indexVars, aloudVars, turnVars>>
  \/ /\ part = "aloud" /\ Aloud!AloudNext
     /\ UNCHANGED <<part, completionVars, indexVars, voiceVars, turnVars>>
  \/ /\ part = "turns" /\ Turns!TurnNext
     /\ UNCHANGED <<part, completionVars, indexVars, voiceVars, aloudVars>>

Spec ==
  /\ Init /\ [][Next]_vars
  /\ Completion!Fairness
  /\ Voice!VoiceFairness
  /\ Aloud!AloudFairness
  /\ Turns!TurnFairness

\* See QuietShowsAnswer, SelectionInRange and Converges: the popup shows the answer to
\* the text, what is selected is in it, and the index it comes from comes to hold the
\* files that exist (path_completion.py, file_indexer/).
CompletionSafe ==
  /\ part = "completion" => Completion!TypeOK /\ Completion!QuietShowsAnswer /\ Completion!SelectionInRange
  /\ part = "index" => Index!TypeOK /\ Index!Converges

\* See NeverStuck in PathCompletion: what the tests expect of typing, that the UI's thread
\* does not wait for itself (path_completion.py).  It does: see MCInterfaceStuck.cfg.
NeverStuck == part = "completion" => Completion!NeverStuck

\* See DictationSafe and AloudSafe: what is heard belongs to the one recording, and
\* what is spoken to the last turn (voice_manager.py, narrator_manager.py).
VoiceSafe ==
  /\ part = "voice" => Voice!TypeOK /\ Voice!DictationSafe
  /\ part = "aloud" => Aloud!TypeOK /\ Aloud!AloudSafe

\* See TurnsSafe in AppTurns: a prompt gets a turn, and one at a time (app.py).
ApplicationSafe == part = "turns" => Turns!TypeOK /\ Turns!TurnsSafe

\* See Settles, DictationSettles, AloudSettles and TurnsSettle: completion, dictation
\* and the narrator come to rest, and whatever is submitted is acted upon or dropped.
InterfaceSettles ==
  /\ part = "completion" => Completion!Settles
  /\ part = "voice" => Voice!DictationSettles
  /\ part = "aloud" => Aloud!AloudSettles
  /\ part = "turns" => Turns!TurnsSettle
==============================================================================
