---------------------------- MODULE TurnControl -----------------------------
(***************************************************************************)
(* What steers a turn between two requests to the model: the middleware    *)
(* pipeline (limits, automatic compaction, context warning, reminders of   *)
(* the read-only agents), the statistics it reads, and the hooks that run  *)
(* when the model has stopped calling tools and may ask for another round. *)
(*                                                                         *)
(* The pipeline keeps state of its own (has_warned, _was_active) that must *)
(* agree with what the conversation says to the model, while the user      *)
(* switches the agent and has the settings loaded again at any time, and   *)
(* compacts, clears, rewinds and resumes another session.                  *)
(*                                                                         *)
(* Abstracted: of the conversation, the messages that matter here; tokens  *)
(* as below half, above half and above the threshold; cost as over the     *)
(* limit or not.  Tool calls and interrupts are in AgentLoop.              *)
(***************************************************************************)
EXTENDS Integers, Sequences, SequencesExt, FiniteSets

CONSTANTS
  Modes, Default,   \* the read-only agents (plan, chat), and another
  Hooks,            \* 1..n: the post-turn hooks, in their order
  MaxRetries,       \* _MAX_RETRIES, 3
  MaxTurns,         \* --max-turns, or NoLimit
  NoLimit,
  MaxPrice,         \* --max-price is given
  Context,          \* the token levels that occur, within Levels
  MaxPrompts,       \* bound: messages of the user
  MaxRequests,      \* bound: requests of turns, and of compactions
  MaxSwitches,      \* bound: switches of the agent
  MaxLoads          \* bound: sessions resumed, and settings loaded again

Levels == 0..2

ASSUME ControlAssumption ==
  /\ Default \notin Modes
  /\ IsFiniteSet(Hooks) /\ Hooks = 1..Cardinality(Hooks)
  /\ MaxTurns \in Nat \union {NoLimit} /\ NoLimit \notin Nat
  /\ Context \subseteq Levels /\ 0 \in Context
  /\ MaxPrice \in BOOLEAN
  /\ {MaxRetries, MaxPrompts, MaxRequests, MaxSwitches, MaxLoads} \subseteq Nat

VARIABLES
  pc,        \* the await that the loop, or /compact, is at
  messages,  \* the prompts and what was injected
  profile,   \* the active agent
  was,       \* _was_active of each read-only middleware
  warned,    \* has_warned of the context warning
  tokens,    \* level of stats.context_tokens
  over,      \* session_cost > max_price
  steps,     \* stats.steps
  hook,      \* the hook that runs
  retries,   \* the retry count of each hook
  rounds,    \* history: rounds the hooks have asked for since the prompt
  turns,     \* history: LLM turns
  stale,     \* history: messages were cut or replaced since has_warned was set
  unsure,    \* history: modes of which the conversation and the pipeline may differ
  used       \* how much of each bound is used up

vars == <<pc, messages, profile, was, warned, tokens, over, steps, hook, retries, rounds,
          turns, stale, unsure, used>>
pipeVars == <<was, warned>>
statVars == <<tokens, over, steps>>
hookVars == <<hook, retries, rounds>>
outOfStep == <<stale, unsure>>

Profiles == Modes \union {Default}
Notes == [in : SUBSET Modes, out : SUBSET Modes, warning : BOOLEAN]
Message == [kind : {"prompt", "request", "summary", "note", "round"}, note : Notes]
Silent == [in |-> {}, out |-> {}, warning |-> FALSE]
Plain(kind) == [kind |-> kind, note |-> Silent]
Said(note) == [kind |-> "note", note |-> note]

\* What a session on disk may say last: a mode that began, with a warning, or neither.
Saved ==
  {<<Plain("prompt")>>} \union
  {<<Plain("prompt"), Said([in |-> {m}, out |-> {}, warning |-> TRUE])>> : m \in Modes}

Bounds ==
  [prompts : 0..MaxPrompts, requests : 0..MaxRequests, switches : 0..MaxSwitches,
   loads : 0..MaxLoads]

TypeOK ==
  /\ pc \in {"idle", "before", "chat", "hooks", "compact", "counted", "auto", "autocounted"}
  /\ messages \in Seq(Message)
  /\ profile \in Profiles
  /\ was \in [Modes -> BOOLEAN] /\ warned \in BOOLEAN
  /\ tokens \in Levels /\ over \in BOOLEAN /\ steps \in Nat
  /\ hook \in 0..Cardinality(Hooks) + 1
  /\ retries \in [Hooks -> 0..MaxRetries]
  /\ rounds \in Nat /\ turns \in Nat /\ stale \in BOOLEAN /\ unsure \subseteq Modes
  /\ used \in Bounds

\* With --continue or --resume the conversation is that of a saved session.
Init ==
  /\ pc = "idle" /\ messages \in Saved \union {<<>>}
  /\ profile \in Profiles
  /\ was = [m \in Modes |-> FALSE] /\ warned = FALSE
  /\ tokens = 0 /\ over = FALSE /\ steps = 0
  /\ hook = 0 /\ retries = [h \in Hooks |-> 0] /\ rounds = 0
  /\ turns = 0 /\ stale = FALSE /\ unsure = IF messages = <<>> THEN {} ELSE Modes
  /\ used = [prompts |-> 0, requests |-> 0, switches |-> 0, loads |-> 0]

-----------------------------------------------------------------------------
(* run_before_turn: the limits, compaction, the warning, the reminders *)

LimitReached == MaxTurns # NoLimit /\ steps - 1 >= MaxTurns

MustStop == LimitReached \/ over
MustCompact == tokens = 2

NowWarns == tokens >= 1 /\ ~warned

\* What the pipeline injects: reminders of modes that have begun and farewells
\* of modes that have ended.
Note ==
  [in |-> {m \in Modes : profile = m /\ ~was[m]},
   out |-> {m \in Modes : profile # m /\ was[m]},
   warning |-> NowWarns]

Remember ==
  /\ was' = [m \in Modes |-> profile = m]
  /\ warned' = (warned \/ NowWarns)

ResetPipeline ==
  /\ was' = [m \in Modes |-> FALSE]
  /\ warned' = FALSE
  /\ stale' = FALSE /\ unsure' = {}

\* The messages are cut or replaced, and the pipeline is not told.
Unnoticed == stale' = warned /\ unsure' = Modes

-----------------------------------------------------------------------------
(* A turn *)

Submit ==
  /\ pc = "idle" /\ used.prompts < MaxPrompts
  /\ used' = [used EXCEPT !.prompts = @ + 1]
  /\ messages' = Append(messages, Plain("prompt"))
  /\ steps' = steps + 1
  /\ retries' = [h \in Hooks |-> 0] /\ rounds' = 0 /\ hook' = 0
  /\ pc' = "before"
  /\ UNCHANGED <<profile, pipeVars, tokens, over, turns, outOfStep>>

Stop ==
  /\ pc = "before" /\ MustStop
  /\ pc' = "idle"
  /\ UNCHANGED <<messages, profile, pipeVars, statVars, hookVars, turns, outOfStep, used>>

\* An LLM turn begins.
Request ==
  /\ used.requests < MaxRequests
  /\ used' = [used EXCEPT !.requests = @ + 1]
  /\ turns' = turns + 1
  /\ pc' = "chat"

Go ==
  /\ pc = "before" /\ ~MustStop /\ ~MustCompact
  /\ Request
  /\ Remember
  /\ messages' = IF Note = Silent THEN messages
                 ELSE Append(messages, Said(Note))
  /\ steps' = steps + 1
  /\ unsure' = unsure \ (Note.in \union Note.out)
  /\ UNCHANGED <<profile, tokens, over, hookVars, stale>>

\* Mutant of Answer: the turn limit is counted in messages of the user.
AnswerUncounted ==
  /\ pc = "chat"
  /\ pc' \in {"before", "hooks"}
  /\ tokens' \in Context
  /\ over' \in {over, MaxPrice}
  /\ steps' = steps - 1
  /\ hook' = 1
  /\ UNCHANGED <<messages, profile, pipeVars, retries, rounds, turns, outOfStep, used>>

\* The model has called tools, and the loop goes on, or it has not.
Answer ==
  /\ pc = "chat"
  /\ pc' \in {"before", "hooks"}
  /\ tokens' \in Context
  /\ over' \in {over, MaxPrice}
  /\ hook' = 1
  /\ UNCHANGED <<messages, profile, pipeVars, steps, retries, rounds, turns, outOfStep, used>>

\* The model, or counting the tokens, fails; or the user interrupts.
Fails ==
  /\ pc \in {"chat", "hooks", "compact", "counted", "auto", "autocounted"}
  /\ pc' = "idle"
  /\ UNCHANGED <<messages, profile, pipeVars, statVars, hookVars, turns, outOfStep, used>>

-----------------------------------------------------------------------------
(* HooksManager.run *)

NextHook ==
  /\ hook' = hook + 1
  /\ UNCHANGED <<pc, messages, profile, pipeVars, statVars, rounds, turns, outOfStep, used>>

\* Mutant of HookPasses: a hook that passes resets the counts of all.
HookPassesResetsAll ==
  /\ pc = "hooks" /\ hook \in Hooks
  /\ \/ retries' = [h \in Hooks |-> 0]
     \/ UNCHANGED retries
  /\ NextHook

\* Exit code 0, a timeout or another code: the count is dropped.  Exit code 2
\* without output is a warning and leaves it.
HookPasses ==
  /\ pc = "hooks" /\ hook \in Hooks
  /\ \/ retries' = [retries EXCEPT ![hook] = 0]
     \/ UNCHANGED retries
  /\ NextHook

\* Exit code 2 with output: another round, at the cost of one retry.
HookRetries ==
  /\ pc = "hooks" /\ hook \in Hooks
  /\ retries[hook] < MaxRetries
  /\ retries' = [retries EXCEPT ![hook] = @ + 1]
  /\ rounds' = rounds + 1
  /\ messages' = Append(messages, Plain("round"))
  /\ pc' = "before"
  /\ UNCHANGED <<profile, pipeVars, statVars, hook, turns, outOfStep, used>>

\* Exit code 2 with no retry left: an error, and the next hook runs.
HookExhausted ==
  /\ pc = "hooks" /\ hook \in Hooks
  /\ retries[hook] = MaxRetries
  /\ UNCHANGED retries
  /\ NextHook

HooksDone ==
  /\ pc = "hooks" /\ hook \notin Hooks
  /\ hook' = 0
  /\ pc' = "idle"
  /\ UNCHANGED <<messages, profile, pipeVars, statVars, retries, rounds, turns, outOfStep, used>>

-----------------------------------------------------------------------------
(* Compaction, /clear, rewind, switches of the agent *)

CompactRequest ==
  /\ used.requests < MaxRequests
  /\ used' = [used EXCEPT !.requests = @ + 1]
  /\ messages' = Append(messages, Plain("request"))
  /\ steps' = steps + 1
  /\ UNCHANGED <<profile, tokens, over, hookVars, turns, outOfStep>>

AutoCompact ==
  /\ pc = "before" /\ ~MustStop /\ MustCompact
  /\ pc' = "auto"
  /\ UNCHANGED pipeVars
  /\ CompactRequest

ManualCompact ==
  /\ pc = "idle" /\ messages # <<>>
  /\ pc' = "compact"
  /\ UNCHANGED pipeVars
  /\ CompactRequest

\* The summary replaces the conversation.
Summarised ==
  /\ pc \in {"compact", "auto"}
  /\ pc' = IF pc = "auto" THEN "autocounted" ELSE "counted"
  /\ messages' = <<Plain("summary")>>
  /\ Unnoticed
  /\ tokens' \in Context
  /\ over' \in {over, MaxPrice}
  /\ UNCHANGED <<profile, pipeVars, steps, hookVars, turns, used>>

\* Mutant of Compacted: the middleware is not told of the compaction.
CompactedNoReset ==
  /\ pc = "counted"
  /\ pc' = "idle"
  /\ tokens' \in Context
  /\ stale' = FALSE /\ unsure' = {}
  /\ UNCHANGED <<messages, profile, pipeVars, over, steps, hookVars, turns, used>>

Compacted ==
  /\ pc = "counted"
  /\ pc' = "idle"
  /\ tokens' \in Context
  /\ ResetPipeline
  /\ UNCHANGED <<messages, profile, over, steps, hookVars, turns, used>>

\* After an automatic compaction the LLM turn follows, without the pipeline.
AutoCompacted ==
  /\ pc = "autocounted"
  /\ Request
  /\ tokens' \in Context
  /\ ResetPipeline
  /\ steps' = steps + 1
  /\ UNCHANGED <<messages, profile, over, hookVars>>

\* Mutant of Clear: /clear leaves the middleware as it is.
ClearNoReset ==
  /\ pc = "idle" /\ messages # <<>>
  /\ messages' = <<>>
  /\ tokens' = 0 /\ over' = FALSE /\ steps' = 0
  /\ turns' = 0 /\ stale' = FALSE /\ unsure' = {}
  /\ UNCHANGED <<pc, profile, pipeVars, hookVars, used>>

Clear ==
  /\ pc = "idle" /\ messages # <<>>
  /\ messages' = <<>>
  /\ ResetPipeline
  /\ tokens' = 0 /\ over' = FALSE /\ steps' = 0
  /\ turns' = 0
  /\ UNCHANGED <<pc, profile, hookVars, used>>

\* The pipeline is left as it is.
Rewind ==
  /\ pc = "idle"
  /\ \E i \in DOMAIN messages :
       /\ messages[i].kind = "prompt"
       /\ messages' = SubSeq(messages, 1, i - 1)
  /\ Unnoticed
  /\ UNCHANGED <<pc, profile, pipeVars, statVars, hookVars, turns, used>>

Load ==
  /\ used.loads < MaxLoads
  /\ used' = [used EXCEPT !.loads = @ + 1]

\* /resume of a local session: neither the pipeline nor the statistics are told.
Resume ==
  /\ pc = "idle" /\ Load
  /\ messages' \in Saved
  /\ Unnoticed
  /\ UNCHANGED <<pc, profile, pipeVars, statVars, hookVars, turns>>

\* /reload and every change of a setting, which an editor may make during a turn: the
\* pipeline is built anew, and what it has told stays in the conversation.
Reload ==
  /\ Load
  /\ was' = [m \in Modes |-> FALSE] /\ warned' = FALSE
  /\ tokens' = IF messages = <<>> THEN 0 ELSE tokens
  /\ stale' = FALSE
  /\ unsure' = unsure \union {m \in Modes : was[m]}
  /\ UNCHANGED <<pc, messages, profile, over, steps, hookVars, turns>>

\* By the user at any time, or by exit_plan_mode.
SwitchAgent(p) ==
  /\ p # profile /\ used.switches < MaxSwitches
  /\ used' = [used EXCEPT !.switches = @ + 1]
  /\ profile' = p
  /\ tokens' = IF messages = <<>> THEN 0 ELSE tokens
  /\ UNCHANGED <<pc, messages, pipeVars, over, steps, hookVars, turns, outOfStep>>

-----------------------------------------------------------------------------
Next ==
  \/ Submit \/ Stop \/ Go \/ Answer \/ Fails
  \/ HookPasses \/ HookRetries \/ HookExhausted \/ HooksDone
  \/ AutoCompact \/ ManualCompact \/ Summarised \/ Compacted \/ AutoCompacted
  \/ Clear \/ Rewind \/ Resume \/ Reload
  \/ \E p \in Profiles : SwitchAgent(p)

Spec == Init /\ [][Next]_vars

\* The modes are told apart by nothing but their names.
ModeSymmetry == Permutations(Modes)

-----------------------------------------------------------------------------
(* Properties. *)

Requested == turns' > turns

\* What the conversation says last of mode m is its reminder.
Announced(ms, m) ==
  \E i \in DOMAIN ms :
    /\ m \in ms[i].note.in
    /\ \A j \in i + 1..Len(ms) : m \notin ms[j].note.out

\* Every request that the pipeline lets through tells the model the mode it is in:
\* the last word on a read-only mode is its reminder if the agent is in it, and
\* nothing or the farewell if not; over stops, failures, compactions, /clear and
\* switches at any time.  Exempt are the request that follows an automatic
\* compaction, which does not pass the pipeline, and modes of which the two differ,
\* until the pipeline speaks of them again: all of them after a rewind, a resumed
\* session or a compaction that fails once it has replaced the conversation, which
\* do not reset it, and after settings were loaded again those whose reminder was given,
\* which it has forgotten.
ModeAnnounced ==
  [][Requested /\ pc = "before" =>
       \A m \in Modes \ unsure' : Announced(messages', m) <=> profile' = m]_vars

\* A warning counts as given only while the conversation has it, or the model
\* would never be warned again: also after settings were loaded again. Exempt is a
\* warning that was given before a rewind, a resumed session or a compaction that fails
\* late replaced the conversation: this is not told to the pipeline.
WarningGiven ==
  warned /\ ~stale => \E i \in DOMAIN messages : messages[i].note.warning

\* "--max-turns N: Limit the maximum number of assistant turns" (README), for
\* hooks' rounds and compactions too.
TurnsLimited == MaxTurns # NoLimit => turns <= MaxTurns

\* Hooks cannot keep the model busy for ever: a hook that passes gets its
\* retries back, but hooks that take turns in asking for another round and in
\* passing still end before they come by a vector of counts twice: with n hooks,
\* after (MaxRetries + 1)^n - 1 rounds for one prompt.
RoundsBounded ==
  rounds <= Cardinality([Hooks -> 0..MaxRetries]) - 1
=============================================================================
