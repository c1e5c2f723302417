# Verification of the Workplace CLI

TLA+ models of the Workplace CLI (a coding agent for the terminal, a fork of
Mistral Vibe), the TLC configurations that check them on small instances, and
theorems that TLAPS proves for every value of the constants. Paths below are
relative to the repository; `agent_loop.py` is `vibe/core/agent_loop.py` and
`app.py` is `vibe/cli/textual_ui/app.py`.

    tlc -config MCToolGate.cfg MCToolGate.tla      # a model check
    tlapm ToolGate_proofs.tla                      # a proof

`PROJECT.json` lists the runs, the source lines of every definition (`map`),
a mutation of the code for every checked property (`mutants`), the hazards and
the theorems.

## 1. The system

One process. An `AgentLoop` holds a conversation with a model and runs the
tools that the model calls; a Textual application (or an ACP server for editors,
or a programmatic run) drives it. Nearly everything runs on one asyncio event
loop, so interleaving happens at `await`s; threads come in where files are
indexed, completions computed, the agent switched, tools discovered, audio
recorded and played, and the log watched. Several processes of one user share
files: settings, caches, trusted folders, sessions.

| Part | State | Operations | Where it is hard |
|---|---|---|---|
| **Turns** (`agent_loop.py`) | `messages`, the tool tasks of an answer, a queue of their events | `act`, one LLM request after another, tools in parallel, `inject_user_context`, `compact`, `clear_history` | Cancellation at any `await`; generators that are abandoned and finalised later; tasks that append their own responses |
| **Approval** (`agent_loop.py`, `app.py`, `task.py`) | `_approval_lock` per loop, session rules, `_user_interaction_lock`, `_pending_approval`, the prompt on the screen | `_should_execute_tool`, `_approval_callback`, key presses, `approve_always`, agent switches, interrupts | Two locks; answers that are handled late; subagents that ask through the same screen; grants that must count for calls that already wait |
| **Turn control** (`middleware.py`, `hooks/`) | `_was_active`, `has_warned`, counts of steps and retries | the pipeline before each request, hooks after the last, resets | Its memory must agree with a conversation that others replace |
| **Session store** (`core/session/`) | a directory per session with `messages.jsonl` and `meta.json` | save, reset, load, migrate, list, rename, continue | Several savers; interruption between two files; a kill in the middle of a line |
| **Rewind** (`core/rewind/`) | checkpoints: an index into the conversation and file contents | snapshot before a write, restore, truncate | Indices into a list that shifts; files that change behind its back |
| **Application** (`app.py`) | the turn's task, `_agent_running`, the panel below the conversation, the attached session | submit, interrupt, `!` commands, panels, `/resume` | Handlers, workers, the turn and a remote stream meet wherever they await |
| **Display** (`event_handler.py`, `widgets/`, `windowing/`) | rows, their streams, the window of mounted messages | events, folding, scrolling, loading older messages | Indices kept by widgets; rows that nobody finishes |
| **Input** (`chat_input/`, `history_manager.py`) | text, history with its draft, suggestions | keys, messages between three queues | Keys that come before what earlier ones caused |
| **Completion** (`cli/autocompletion/`, `core/autocompletion/`) | suggestions, selection, a pending future, a lock; the index of files | text changes, keys, delivery of answers; walks and changes of files | Two threads and a queue to the UI; walks that are overtaken by changes |
| **Tools** (`core/tools/`) | processes and their buffers; files | one call, one result | Permissions by pattern; process groups; edits in parallel; pages and limits |
| **MCP and connectors** (`core/tools/mcp/`, `connectors/`) | caches of discovered tools, the manager's classes and instances | discover, refresh, switch off, authorise | Discovery in another thread; refreshes that are cut short; failures that are cached |
| **LLM backends** (`core/llm/`) | parser state within a request | streams of three styles, requests of five formats, retries | Chunks of items that overlap; retries before the first event only |
| **ACP server** (`vibe/acp/`) | sessions, each with a loop and at most one prompt | prompt, cancel, close, fork, load, modes | Checks before an `await`; closing while a prompt starts |
| **Remote sessions** (`core/nuage/`, `textual_ui/remote/`) | next sequence number, open calls, pending request | attach, stream, answer, detach | Resuming a stream; a request that arrives while the last one is answered |
| **Teleport, sign-in** (`core/teleport/`, `setup/auth/`) | a chain of remote calls | push, create, wait; poll | Questions in the middle; a repository that moves on; failures in a row |
| **Voice, narrator** (`cli/voice_manager/`, `narrator_manager/`) | recording and playback | start, stop, cancel | Stop waits for a task that may be replaced meanwhile |
| **Configuration** (`core/config/`, `model_discovery.py`) | TOML files, layers with trust, a cache of models | load, merge, migrate, save; resolve, grant, revoke | Several processes without a lock; trust that changes during a load |
| **Start-up** (`trusted_folders.py`, `setup/onboarding/`, `update_notifier/`) | files with decisions, keys and what was told | ask once, remember | Several processes; kills while a file is written |

How they interact. The application calls `act()` and shows the events it
yields; the loop calls back for approvals and questions; tool tasks append to
`messages`, which saves, checkpoints and middleware read; `/clear`, `/compact`
and rewind replace it and notify them by the observer of `MessageList` or by
resets. An interrupt cancels the task of the turn. A `!` command and an agent
switch run beside a turn. A remote session replaces the loop as the source of
events. Every tool call asks `resolve_permission` of its tool before the gate.

What makes each part right: a request is one that models accept; one answer of
the user lets one call run, and locks come free after any interrupt; the model
knows the mode that it is in, and limits hold; what a save returned for is on
disk; a rewind brings back the files of the prompt that was selected; the popup
settles on the answer to the text; what is shown is what happened; a decision of
the user is kept and counts. The properties below say this precisely.

## 2. Modules

`MC*.tla` holds an instance. The modules share no state: each models the part of
the others that it depends on as its environment (the placeholders that
`AgentLoop` inserts are an action of `Rewind` and of `SessionStore`, a compaction
is one of `TurnControl`). Five components are run on their own, because their
interleavings fill a run:

| Module | Models | Runs | Proofs |
|---|---|---|---|
| `ToolGate` | approval of calls | `gate`, `gate_sub` | `ToolGate_proofs` |
| `AgentLoop` | conversation and tool execution | `loop` | `AgentLoop_proofs` |
| `TurnControl` | middleware and hooks | `control` | `Turn_proofs` |
| `SessionStore` | saving, loading, crashes | `store`, `store_twice` | `SessionStore_proofs` |
| `DurableLog` | what a session store promises (abstract) | `store` | |
| `Rewind` | checkpoints and restoring | `rewind`, `rewind_stale` | `Rewind_proofs` |

The others are checked side by side in three bundles. A bundle (`MCInterface`,
`MCClients`, `MCServices`) instantiates its components over disjoint variables;
`part`, chosen in `Init`, says which of them runs while the others stay in one
initial state. A behaviour of a bundle is therefore a behaviour of one component,
and a bundle's invariant `part = "x" => ...` is that component's. (It is not a
claim about the components' interplay, which their environments model.)

`Services` has those components of `MCServices` which are proved about: tools, layer,
merging, permission, shell, folders, setup, update, question, prompt, panel, switch,
config, saved and display. `MCServices` extends it with the others. Its `Init` contains `ServicesInit`, and each of its steps is one of
`ServicesNext` or leaves `servicesVars` as they are, so that its behaviours satisfy
`ServicesSpec`, of which `Services_proofs` and, for config, saved and display, `Turn_proofs`
speak. The prover has the definitions of a whole bundle and all lemmas before it at every
step; two modules are proved much faster than one.

| Bundle | `part` and module | Models |
|---|---|---|
| `MCInterface` | completion: `PathCompletion` | the popup of `@` paths, two threads (all five: `Interface_proofs`) |
| | index: `FileIndex` | the index of files and its watcher |
| | voice: `Dictation` | recording and transcription |
| | aloud: `ReadAloud` | summaries, speech, playback |
| | turns: `AppTurns` | submitted prompts, turns, `!` commands, interrupts |
| `MCClients` | acp: `AcpServer` | sessions of the ACP server (all four: `Clients_proofs`) |
| | remote: `RemoteSession` | stream and translator of a workflow's events |
| | teleport: `Teleport` | /teleport and the repository |
| | signin: `SignIn` | the polling for a key |
| `MCServices` | llm: `LlmStream` | streams of three styles of API, added up |
| | formats: `LlmStream` | requests made of a conversation |
| | tools: `RemoteTools` | MCP servers, connectors, the tool manager, /mcp |
| | config: `Configuration` | `config.toml` and the cache of models, processes |
| | layer: `ConfigLayers` | one layer of settings with its trust |
| | merging: `ConfigLayers` | merge strategies |
| | permission: `Shells` | what commands and files need, what grants match |
| | shell: `Shells` | commands, waited for and in the background |
| | file: `FileTools` | parallel edits, pages of a file, grep |
| | mention: `PathMentions` | matching, ranking, ignore rules, paths in a message |
| | folders: `Startup` | trust in directories, what is read then |
| | setup: `Startup` | the first start without a key |
| | update: `Updates` | `cache.toml` and its writers |
| | question: `QuestionForm` | the form of ask_user_question |
| | prompt: `PromptInput` | the input line, its history, the menu of commands |
| | panel: `BottomPanel` | what is shown below the conversation |
| | console: `LogConsole` | the debug console and the log |
| | saved: `SavedSessions` | names of sessions, listing, continuing |
| | switch: `SessionSwitch` | /resume between saved and remote sessions |
| | window: `HistoryWindow` | which messages are mounted |
| | display: `EventDisplay` | rows made of events |

### ToolGate

A call moves through phases: `new`, waiting for the approval lock, evaluated,
waiting for the UI, `prompt`, answered, closing, `run`, and settled. One action
is what happens between two `await`s: `Begin`, `Evaluate`
(`_should_execute_tool` under the lock), `ShowPrompt` and `OpenPrompt`
(`_approval_callback`, which takes the UI lock, switches the widget, then
creates the future), `Resume` and `Closed`. `Press` is a key in the prompt and
`Deliver` the handling of its message, possibly later. `ApproveAlways` enters
session rules or changes the tool's permission in the loop's configuration;
`SwitchTo` rebuilds that from the profile. `Interrupt` resolves the open prompt
and cancels the turn; its tasks are cancelled at once or by `CancelTasks` when
the abandoned generator is finalised. `Spawn` starts a subagent, a loop with its
own lock and rules that asks through the same UI.

### AgentLoop

`messages` holds users' messages, answers with their calls, responses and
placeholders; `pc` the `await` at which the turn is; `task` the state of each
tool task. An interrupt at `queue.get()` cancels the tasks and waits for them
(`Gathered`); anywhere else the generator is abandoned and finalised later
(`Finalise`), and `disturbed` records it. `!` commands report at any time.

### TurnControl

`pc` is the `await` of the conversation loop or of `/compact`. The pipeline is
run as the code runs it: in order, with stop and compaction ending it, and
injected messages combined. `was` and `warned` are the memories of the
middleware. The conversation keeps only what they must agree with: reminders,
farewells and warnings. Tokens and price are chosen by the model within levels.
A session may begin with a saved conversation (--continue, --resume); `Resume`
replaces it (`_resume_local_session`, which tells the pipeline nothing), and `Reload`
builds the pipeline anew (/reload and every change of a setting, which an editor may
make during a turn), so that what has been said is forgotten. `unsure` are the modes
of which pipeline and conversation may differ since, `stale` says it of the warning.

### SessionStore and DurableLog

A save is a small program (read metadata, append, replace metadata), cut at each
file operation, run by any of `Savers`; a cancellation ends one, a kill all,
and a kill within an append leaves half a line. `DurableLog` knows a
conversation, the file of each session, and steps that extend the one or persist
its next message. The mapping drops half lines and repetitions: those are what
the code does not promise to avoid (see section 6). `SavedSessions` has the same
saves with fewer steps, and renames beside them.

### Rewind

Checkpoints are kept with their index and files, prompts with the index that
their widget remembers. Snapshot and write of a tool are two steps. Files also
change from outside, may be unreadable when they are read, and a save may fail. Files that
cannot be restored (`errors`) are reported and the rewind goes on, as in
`_restore_checkpoint`: one that cannot be deleted stays, one that cannot be written
stays or is cut short (`Torn`).

### The interface

`PathCompletion`: two threads and a queue. `ui.at` is where the UI's thread
stands, and it is cut only where it takes `_query_lock` or where the pool's thread
can see the difference. A future is its place in the order of submission, and a
list of suggestions is the future that computed it: that makes lists comparable by
identity, as they are shared and cleared in place. `FileIndex`: `walk` is a walk
under way, directory by directory; `events` what the watching library has seen and
not reported, `batch` what the watcher's thread applies, `lateChanges` what a
thread applies that was stopped and did not end within a second.

`AppTurns` has the one handler that runs at a time, the workers that escape
starts, the tasks of turns and of `!` commands, each at the `await` where it
stands. `BottomPanel` has `current` (`_current_bottom_app`) and the panels that
are mounted, which differ while `_switch_to_input_app` removes them one by one.
`SessionSwitch` runs the stream of a remote session beside the handler of one
command, prompt or answer. `PromptInput` and `QuestionForm` keep the queues of
their widgets: a key is handled when its turn comes, what it causes later.
`EventDisplay` and `HistoryWindow` keep the rows and what each says, in numbers of
pieces and messages; `LogConsole` a file, a thread that polls it and a view.

`Dictation` and `ReadAloud` model code that is switched off in this release
(`VOICE_FEATURES_ENABLED`, `vibe/core/feature_flags.py:14`); the switch is on in
the models as in the tests.

### Clients and servers

`AcpServer`: a request of the editor is a record that says where its handler
stands; `open` maps ids to session objects, so that an object can lose its id. A change of
mode is cut at the reload, which may fail after the profile has changed (`ModeFails`).
`RemoteSession`: the workflow writes a log of numbered events, `stream` follows it
with disconnects, and the translator's buffers, calls and pending request follow
from what was consumed; a text is the numbers of the events that brought it.
`Teleport`: commits with their histories, branches, what the origin has, and one record per
call of /teleport. `SignIn`: a flow, the service's decision, and a clock.

### Services

`LlmStream`: the server streams a plan of items in one of three styles (content
blocks, deltas, output items); the adapter's parser, the aggregate and what was
announced follow event by event, with failures and retries. Its second half
translates the five mappers as functions of a history. `RemoteTools`: who asks (the
thread of deferred initialisation, the screen, a switch of the agent) is a task
with steps, the registries and the manager have caches, `served` is what there
really is. `Configuration` and `Updates` cut a write of a file into emptying and
writing, with other processes in between. `ConfigLayers` has callers that wait for
the lock of a layer, ask for trust, tell of it and read. The permissions of commands in `Shells`,
the merging half of `ConfigLayers` and `PathMentions` are pure: a step asks one question, and the answer
is compared with a reference definition (`PathMentions` was in addition compared
with the Python on some eleven thousand inputs while it was written). `Shells` has
groups of two processes and pipes counted in chunks; `FileTools` cuts an edit into
reading, opening (which empties) and writing. Here and in `Updates` a write goes to the
start of the file: of two writers that have both opened it the later one lays its text
over the other's, the end of which stays where that is longer.

## 3. Runs

| Run | Asks | Bounds | States |
|---|---|---|---|
| `gate` | Do locks, prompts and grants agree, over two turns? | 3 calls of one permission and a question, 1 key per prompt, 1 switch | 2.1 M |
| `gate_sub` | Does one key let one call run, and do all calls settle, with a subagent? | a call of the main loop, a task, a call of its subagent, 2 keys per prompt | 0.2 M |
| `store` | Is what was saved durable, and is the store a durable log? | two savers of 1 session, or one over 3; 3 messages, 1 fault, resumptions | 5.5 M |
| `store_twice` | Can a message be stored twice? (it can) | 2 messages, 2 faults | |
| `loop` | Are requests well-formed and interrupts finite? | 2 calls, 2 prompts, 3 requests, 2 interrupts, one each of `!`, `/clear`, compaction | 1.0 M |
| `rewind` | Do rewinds restore what they should? | 3 prompts, 1 file that may fail to be restored, 2 edits, 1 reply, 1 `!` | 7.5 M |
| `rewind_stale` | Does a message land where its widget says? (not always) | as `rewind`, 2 prompts | |
| `control` | Does the pipeline agree with the conversation; do limits hold? | 2 modes, 2 hooks, 1 retry, limit 4, 2 prompts, 5 requests, 1 switch, 1 resumption or reload | 13.4 M |
| `interface` | Do completion, index, voice and submitted prompts come to rest, and rightly? | below | 0.3 M |
| `completion_stuck` | Does the handler of a change always return? (it does not) | as `interface` | |
| `clients` | Do the ACP server, remote sessions, teleports and sign-ins keep their promises? | below | 0.6 M |
| `services` | Do the other twenty-one components? | below | 1.8 M |

Why these bounds. Every property relates at most three actors or three events,
and each bound admits one more than a violation of its mutants needs: three calls
for a grant that reaches a waiting call and one of a later turn; two savers and
one fault between them; a prompt before, at and after the one that is rewound
to; a late answer, the current one and one more; a change before, in and after
a walk. Every action and disjunct of the next-state relations fires in some run.

The bounds of the bundles: three changes of a text with 2, 1 and 0 matches; four
paths, among them a directory within a directory, three changes of files, threshold 2; two recordings;
three turns to read aloud; three submitted prompts and an escape. Four requests
of an editor over two session objects (a fork, a load, a close, a prompt each may
be among them); four events of a remote workflow, so that a request, its answer
and the next request, its own or another task's, meet; two teleports over two branches; a sign-in of four units
of time with three failures. Answers of two items with two pieces each, all orders
of overlap; every history of six messages; two processes with three starts, two
saves and one crash; all commands of three parts; two shells; two calls on a file
for all pairs of the edits of the instance; three questions and six keys; four keys
in the input with a history of two; three panels of which any two may overlap;
two saved messages and three live ones with a tail and a batch of one; two remote
workflows and a saved session with five steps of the user; four shown events;
three layers with all values of two items. Four changes of the text in the completion
(1.7 M states) found nothing new. The modes of `control` are symmetric.

`CHECK_DEADLOCK FALSE` is set everywhere: the user may do nothing more, and the
bounds on prompts, requests and faults stop every behaviour in the end. That
parts do not wait for each other for ever is said by liveness properties
instead.

**Fairness.** `gate_sub`: the event loop runs each ready task, each message and
each finaliser (weak fairness); with `EnvironmentFairness`, assumed only by
`EveryCallSettles`, tools end and the user answers what is on the screen.
`loop`: finalisers run, and a tool that was cancelled ends; tools that were not
may run for ever. `interface`: handlers and the pool's thread run to their end
(weak); a message in a queue is handled although keys keep coming (strong, as
the queues are first in, first out and every key is a message too); timeouts pass,
a stopped recording ends, requests for summaries and speech return or fail (they
have timeouts), and playback comes to its end; handlers of prompts and cancelled
tasks proceed, turns and commands that nobody cancelled need not end. `clients`:
a cancelled task ends and so do background updates, a prompt need not; the stream
delivers what the workflow has written and ends with it, but the workflow, the user
and the answer to a request are not fair; a teleport proceeds except where it asks
the user; a sign-in polls, the clock of which runs. Nothing in `services` is
assumed to happen, and nothing is promised to. In a bundle the fairness of a part
holds unconditionally; that is harmless, since in the state in which a part rests
when another one runs none of its fair actions is enabled.

**Properties.** Each is stated in words where it is defined. Of the components
with runs of their own: `LocksConsistent`, `PendingOwned`, `OneKeyOneCall`,
`GrantsStick`, `InterruptSettles`, `EveryCallSettles` (ToolGate);
`RequestsWellFormed`, `AnsweredOnce`, `NothingRunsOn`, `InterruptsEnd` (AgentLoop);
`ModeAnnounced`, `WarningGiven`, `TurnsLimited`, `RoundsBounded` (TurnControl);
`MetaNeverAhead`, `NothingLost`, `OnceAlone`, `ImplementsLog` (SessionStore);
`CheckpointsSound`, `RestoreExact`, `RewindsToSelected` (Rewind).

A property of a bundle is the conjunction of what its components promise:

| Property | Promises |
|---|---|
| `CompletionSafe` | `QuietShowsAnswer`, `SelectionInRange`; `Converges` |
| `VoiceSafe` | `MicSeen`, `TextInTime`, `OwnAudio`, `Survives`; `LastTurnOnly`, `StateTrue` |
| `ApplicationSafe` | `OneTurn`, `PromptsRun`, `ReportedOnce` |
| `InterfaceSettles` | `Settles`, `DictationSettles`, `AloudSettles`, `TurnsSettle` |
| `AcpSafe` | `OnePromptTask`, `ClosedQuiet`, `Reachable`, `LogsApart`, `AsksAsProfile` |
| `RemoteSafe` | `CallsPaired`, `ShownIsSent`, `Answerable` |
| `HandoverSafe` | `CommitReachable`, `PushedIfApproved`, `OwnService`; `SignInSafe` |
| `ClientsSettle` | `CancelSettles`, `RemoteSettles`, `TeleportEnds`, `SignInEnds` |
| `StreamIsWhole`, `RequestsFaithful` | the answer is what was sent; `SaysAll`, `ResultsFollow`, `UsersMerged` |
| `ToolsSafe` | `Agree`, `Current`, `ScreenCurrent`, `LockHeld` |
| `ConfigSafe` | `SettingsKept`, `ModelUsable` |
| `CommandsSafe` | `EveryPartCovered`, `GrantsMatch`, `FilesResolved`; `FrontEnds`, `ResultWhole`, `OutputOnce`, `KilledIsGone` |
| `ContentsSafe` | `EditsHold`, `TextOfSomeCall`, `PagesWhole`, `GrepComplete`; the nine of `MentionsSafe`; `DisplayIsHistory`, `IndexIsPosition`; `ShowsTheLog`, `KeepsThePlace`; `HigherWins`, `GroupedInAnyWay` |
| `SetupSafe` | `DecisionsKept`, `AskedOnce`, `UsedIfTrusted`, `DocsTrusted`; `KeyAskedFor`, `SavedOnce`; `NewsOnce`, `ToldOnce`, `WholeAgain`; `LastDecisionCounts`, `LoadsAreFresh`, `ToldWhatCounts` |
| `FormsSafe` | `QuestionSafe`; `DraftWaits`, `MenuFits`; `InputAlone`, `PanelsAgree`, `TurnAnswerable`; `ScreenIsSession`, `OneStream`, `QuestionIsAsked`, `RequestIsKept` |
| `SessionsSafe` | `NameKept`, `CountedAreThere`, `SavedOnce`; `TextIsWhole`, `NothingSpins`, `CallsPaired` |

Every property of a run has a mutation of the code that violates it. Each component
of a bundle has one or more beside it, marked "Mutant" where they are defined:
replaced for the definition that follows them, TLC finds the component's promise
broken.

Several properties have an exemption that a history variable tracks (`disturbed`,
`shifted`, `stale`, `missed`, `unordered`, `raced`, `inserted`, `lost`, `failed`,
`happened`, `overlapped`, `broken`, `strayed`, `displaced`, `cut`, ...). Each names
something that the code does not handle; the actions that cause it are in the model, and the property says how far
the damage goes. Section 6 lists them.

## 4. Proofs

`ToolGate_proofs`, for any calls, loops, turns, tools and profiles:

- `TypeCorrect`, `LocksSafe`, `PendingSafe`. The inductive invariant is
  `IInv == TypeOK /\ LocksConsistent /\ PendingOwned /\ IdleTurnsOff`. The locks
  alone are not inductive: that a call which starts finds no lock in its name
  needs the phases' types, and that an interrupt resolves the right prompt needs
  `PendingOwned`; `IdleTurnsOff` says that the calls of a turn which has not
  begun are `off`. One lemma treats the steps of a call's task, one the others,
  action by action.
- `GrantsStickOneLoop`: `GrantsStick` for every instance without subagents.
  `WhoAsks` shows that only `Evaluate` leads to a prompt, with at least one
  permission that was not covered; `AsksUngranted` that the permission stays
  ungranted until the prompt opens, since the loop's lock is held meanwhile and
  every other prompt of the loop needs it.
- `OneKeyOneCallSafe`: one key lets at most one call run, for finitely many calls.
  The invariant `KeysPaid` counts: calls that may run, the answer that waits to be
  taken and answers that were posted are together no more than the keys that said
  yes. `PressPays`, `DeliverPays` and `ResumePays` follow an answer on its way; the
  second needs that the messages left in a queue move up, a bijection of positions.

`AgentLoop_proofs`, for any calls, prompts and requests:

- `TypeCorrect`, `NothingLeftRunning` (`NothingRunsOn`), `CallsAnsweredOnce`
  (`AnsweredOnce`), `RequestsAreWellFormed` (`RequestsWellFormed`). `IInv` is the
  conjunction of four invariants. `TypeInv` types the state. `BatchOwnsTasks` says that,
  until a tool is abandoned (`disturbed`), only tools of the current answer are at work.
  `CallsInv` says that no call is issued twice (`CallsIssued`), that a call has at most
  one response of a tool, and that the call of such a response has come to its end and
  is not answered again (`AnswersFinal`); it holds of disturbed turns as well. `InOrder`
  says that, until then, an answer is open while its tools are at work (`Open`: the
  responses to the others of its calls follow it, and nothing else does), and that
  otherwise every call of the conversation has its response (`Complete`), but for a
  turn that is over, in which some may be missing (`Tidy`).
- What a request is made of is `Filled`, the conversation with a placeholder for every
  missing response. `FilledComplete` says that a tidy conversation that is filled in is
  complete, `FilledAnswers` that no call is answered twice by it. `Filled` gives
  the message at every position by rank (how many places come before it) and not by a
  recursion, so that these lemmas are about sets of positions; that the ranks have no
  gaps is `LeastNumber`, by the least number that would be one.

`Turn_proofs`, first about `TurnControl`, for any modes, hooks and limits:

- `TypeCorrect`.
- `RoundsEnd`: `RoundsBounded`. Every round of hooks that ends in a retry raises the
  retry counts in the order that compares them at the last hook in which they differ:
  the hook that asks for another try counts one more, the hooks before it start again
  from zero and those after it have not run (`HookDone`, `CountsRise`). So the counts
  met since the prompt are all different, and there are no more rounds than counts but
  the first: `Cardinality([Hooks -> 0..MaxRetries]) - 1`, which is
  (retries + 1)^n - 1. `RoundsInv` says that the rounds so far are no more than the
  counts below the present ones.
- `LimitKept`: `TurnsLimited`, from `StepsAhead`: the counted steps run ahead of
  the LLM turns, by one at least between the user's message and the request, so
  that the limit, which is compared with steps, is never met by turns first.
- `WarningsGiven` and `ModesAnnounced`: from the invariant `InStep` of
  `MemoryInStep`, which says of every mode that is not `unsure` that `_was_active` holds
  exactly if the last word of the conversation on it is its reminder. A mode gets `unsure`
  when the one is replaced without the other, and is no more once the pipeline speaks of it. Lemmas say what appending a message does to
  "the last word" (`AnnouncedAppend`, `PlainAppend`, `WarnedAppend`).

`SessionStore_proofs`, for any messages, faults and resumed sessions; the first three for
several sessions of one saver or one session of several savers (`SavesStay`), the others
for what the run `store` checks (`MCSpec`):

- `TypeCorrect` (without that condition), with `SaveReady`: a save that is to
  append has something to append, one that reads the metadata finds them.
- `MetaBehind` and `SavedIsDurable`: `MetaNeverAhead` and `NothingLost`. Neither is
  inductive: the invariant `IInv` says of each save under way that what it has
  seen is in the file or still in its batch, in number and as a set, and that the
  conversation has since grown only (`SaveOK`); that what the metadata count is
  the beginning of the conversation (`PrefixSaved`, `CountFits`); that a session
  yet to begin has no metadata (`FreshDirs`) and a process that is down neither
  conversation nor saves (`DownEmpty`). `AppendLineSound`, `WriteMetaSound` and
  `CollectSound` treat the steps of a save, `ConversationGrows` those of the
  conversation, `SessionBegins` new and resumed sessions.
- `SavesStay` is needed, see section 6.
- `BothParts`: the same two for what the run `store` checks, without that condition.
  All the argument needs is that a session is left only while no save is under way
  (`SessionStays`), which holds under `SavesStay` and in both parts of the run.
- `StoredOnce`: `OnceAlone`. `LogInv` holds through cancellations and crashes: no line is
  in a session that has yet to begin (`Unwritten`), messages are numbered as they are
  created (`Numbered`), the messages of the file are those of a first part of the
  conversation (`FileIsPart`), and each save has what comes next still to append, in
  the order of the conversation (`SaveAt`). `AloneInv` adds, until a save is cut short, that the file has exactly
  the first messages: as many as the metadata count, or as a save under way has come to.
- `StoreIsLog`: `ImplementsLog`, from `LogInv` alone. The mapping drops torn lines and
  repetitions (`Once`): `Firsts` are the places where a message comes first, `Nth` the
  place of a rank among them. `OncePrefix` and `OnceAppend` say what the mapping makes of
  a first part of a sequence and of an element more; `NextLine` that a line which
  is appended is in the file already, or is the next first message of the conversation.
  So `AppendLine` is `Persist` or a stutter; an appended message is `Extend`; a
  new session, a reset or a restart `Begin`; an exit or a crash `Stop`, torn line
  included; a resumption `Continue`; reading, metadata and cancellation stutter.

`Rewind_proofs`, for any files, prompts and bounds:

- `TypeCorrect`, `CheckpointsKept` (`CheckpointsSound`), `FilesRestored`
  (`RestoreExact`). The invariant `RewindInv` adds to the types and to `CheckpointsSound`
  that checkpoints are in the order of their indices (`Rising`), that no prompt is behind
  the place where a response is missing (`NoneBehind`), so that the placeholders which
  are inserted there shift no checkpoint, that a prompt is sent once (`SentOnce`), and
  that a checkpoint has the files as they were when its prompt was sent, those it does
  not know being still as they were (`FilesKnown`); `RestoreExact` speaks of the files
  that the rewind does not report as failed. The order is what makes a truncation of the
  checkpoints a prefix of them, of which
  `Before` and `Nth` speak by rank (`NthIs`).
- `RewindsLand`: `RewindsToSelected`. `WidgetInv` says that, until messages are moved,
  widgets are in the order of their prompts (`Ordered`), each stands at the message it
  shows (`Landed`) and a rewind under way has the index of the widget that was chosen
  (`Chosen`). The order is what a truncation needs: the widgets that stay are those of
  the messages that stay. The checkpoints take no part in it.

`Clients_proofs`, for any values of the constants of `MCClients`. Each component has its
own invariant, which holds while that component is the one that runs (`OneRuns`):

- `ServerIsSafe`: `AcpSafe`, in two layers. `AcpInv` says where
  requests and tasks stand: a task that runs is the prompt of its session
  (`TaskIsPrompt`), which is why a second one cannot start; a session that is found is
  open and has the id it is found under (`FoundIsOpen`); one that is being closed
  refuses background tasks (`ClosingIsClosed`), so that no prompt and no update is left when
  its loop is closed (handlers of a mode or a command that found it before may be). `Known`, inductive relative to `AcpInv`,
  adds that every id in use was generated (`Numbered`), so that new logs are nobody
  else's, that a session is found until it is closed or loaded again (`OpenIsFound`),
  which the approval callback needs (`AllAsksStay`, `AsksKept`), and that a task that runs is not one of a closed
  session (`RunningIsOpen`). Steps that leave a session's name, log and state alone
  share the lemmas `CalmSound` and `CalmKnown`.
- `RemoteIsSafe`: `RemoteSafe`, from `RemoteInv`, which has four parts. `PairInv`: `Paired`
  relates the messages to the sets of calls that the translator has seen, both ways;
  `StartedIsCalled` says that the call of every started tool was shown, which is what a
  task that fails relies on, since its last event shows no call; `LogLegal` is what is
  assumed of the workflow, as `Emit` has it. `TextInv`: what a task has of its text is
  what the events received so far amount to (`TextOK`), its message shows just that, and
  no number of a message is used for two texts (`Below`: new ones are higher than any
  before). `WaitInv`: what is pending is a request that waits as far as the client can
  know (`PendingWaits`), and a request starts with its first event (`StartsFirst`).
  `RemoteTypes` types the rest. The texts are concatenations (`FlattenSeq`), defined by a
  recursive function: `Joined` says what a function of the partial concatenations satisfies, `JoinedOnce` that it is the only
  one and `FlattenIs` that it exists, each by the least number that would contradict it
  (`LeastNumber`) instead of an induction. `FlattenAppend`, `FlattenLonger` and
  `FlattenNothing` are then what a new message, a piece more and other messages do.
- `HandoverIsSafe`: `HandoverSafe`. `TeleInv`: what a teleport has described is below the
  head of the branch that is checked out, unless it strayed (`TeleFollows`); histories are
  closed, so that what a push replaces stays on the remote (`RepoOK`); a service that is
  closed was closed by a teleport that used it (`ClosedByUser`). `SignInInv`: until a
  sign-in fails, it has counted the requests that failed since the last answer.

`Interface_proofs`, for any values of the constants of `MCInterface`, with an invariant for
each component:

- `CompletionIsSafe`: `CompletionSafe`, from two. `CompletionInv` says who holds the lock and
  what a handler that has begun relies on (`Handling`), which future is queued, computed,
  watched and shown (`Jobs`), that the last query is that of the text or a change of it is
  still to be handled (`Asked`), that of the calls which were posted the last to render
  shows the list (`Showing`), and from where the answer to the last query is still to come
  (`Answered`): from the pool, from a callback, or from a handler that is about to
  give the query up. `QuietShowsAnswer` is what is left of it when nothing is under way.
  `IndexInv` says, for as long as no change went unseen and their order is known, that
  what a change was applied to is not lost (`NothingLost`), that a path on the disk which
  is not in the index is ahead of the walk or behind an addition (`AddedLater`, `AddedWhole`),
  and that one in the index which is not on the disk is behind a deletion (`NothingStale`).
  That only one thread writes is `OneWrites`; that the disk is a tree `TreeClosed`. A
  path is below another if it is in the least set that is closed downwards, so that
  nothing is said of how deep directories are.
- `VoiceIsSafe`: `VoiceSafe`. `VoiceInv`: who has the microphone (`MicOpen`), that a
  recording that was stopped and one that is heard are the last (`LastStops`,
  `LastHeard`), and that a late end is known to be late (`LateKnown`). `AloudInv`: only
  the last turn has a summary that is asked for or read (`TracksTurn`, `OneAsked`, `OneSpoken`), and
  what was reported is behind it (`Reported`).
- `ApplicationIsSafe`: `ApplicationSafe`. `TurnInv`: one task works (`OneWorks`), an
  interrupt knows the turn it stops (`OwnInterrupt`) and nothing begins meanwhile
  (`QuietForIt`), tasks that nobody owns are over (`NoneOfIts`), the start-up prompt is alone
  (`FirstAlone`), and a command that was stopped is stopped once (`BashCounted`).

The proof of the index found what the run had not shown: with one directory `Converges`
holds, but with a directory in another the index keeps what is below one that is moved away
while it, or one above it, is being added; `_walk_directory` stops without a word at
what is gone, and the deletion was applied before. The exemption says that now and the run has such
a tree; in turn, of two changes in one batch only a deletion and another change are exempt.

`Services_proofs`, for any values of the constants of `Services`, with an invariant for each
component:

- `ToolsAreSafe`: `ToolsSafe`. `ToolsInv`: which task holds the lock of discovery and what
  the screen shows while it waits (`TasksScreen`); and, until a refresh meets another or the
  start (`disturbed`), how the tools of servers and those of connectors are on their way
  to the manager (`ServersFollow`, `ConnectorsFollow`), and that nothing on the way is older
  than what was served when the last refresh began (`NoneOlder`).
- `CommandsAreSafe`: `CommandsSafe`. `ShellInv` says of each command how its processes, its call,
  what was read of it and its kill_bash fit together (`CommandOK`: `CallFits`, `BufferFits`,
  `KillFits`). `PermissionInv`: an answer is that of the command, and what is granted is what it asked
  for. What a command asks for is found by the first place where one of its parts asks
  (`NatLeast`), so that commands of any length are covered.
- `LayerIsSafe`: `LayerSafe`, the part of `SetupSafe` about one layer of settings, that is, the last decision about a layer counts, a load
  returns what was there during it, and who is told of a change is told what counts.
  `LayerInv` adds what is known at each step of the caller that holds the lock
  (`JobSound`: it has decided what it will write, and nothing else can have changed
  since), of what was told (`ToldSound`), and of the cache (`CacheFresh`).
- `FormsAreSafe`: `FormsSafe`. `QuestionInv`: the cursor is on an option of its question, what
  is ticked is an option, and what is answered was confirmed (`AnswersKnown`). `InputInv`: the
  types and the two properties, which are inductive with them. `PanelInv`: with the input
  on the screen each panel that is left is ahead of a removal (`Leaving`); until panels meet,
  `currentPanel` is there (`Current`), alone, and what waits in the queue is its own (`Alone`).
  `SwitchInv`: what is known of the attached session is what was read of it (`Attached`), a
  request that was read is pending or answered (`RequestKnown`), and an open question is the
  last shown, unless its answer is on its way (`QuestionShown`).
- `SetupIsSafe`: `SetupSafe`, with `LayerIsSafe`. `TrustInv`: what is in a list was trusted once (`OnlyTrusted`), a
  dialog is open where nothing is decided (`AskedIsOpen`), and, until a program writes
  without what another wrote, the decisions are those of the file, or of the only program that
  is writing (`NotStale`). A directory's ancestors are the least set that has it and what each of
  its members is in, with no recursion in it; that no directory is in itself
  (`TrustAssumption`) makes the nearest decision unique (`NearestIs`). `KeyInv`: what is asked
  for is the key of the active model, and a key that was given is known. `UpdateInv`: until
  writes overlap or are cut short (`cut`, too, once a writer lays its text over another's) one
  writer is at work (`OneWriter`), and it knows
  what is in the file (`KnowsTheFile`); a mark is of the last version that was shown
  (`MarkIsLast`), a check was due (`FetchIsDue`), and what was shown or told is
  in the cache or about to be (`ShownIsSeen`, `ToldIsKnown`).

`Turn_proofs`, next about the rest of `Services`, for any values of its constants:

- `ConfigIsSafe`: `ConfigSafe`. `ConfigInv`: the models of every file, update and process
  are usable (`Usable`: once the older file was migrated its names are gone, the first
  model of the program is in every list, and a discovered one gets into a file only by
  being set), and, until something is lost, all that was set is in the file while nobody
  writes, and in what each process has in memory or is about to write, unless another one
  has written since (`SettingsKept`, by `Covers`). The invariant has to speak of a process that
  reads *while* another writes: it is `behind` then, and what it says of itself holds only if no
  other is writing. That saves keep what others set comes from lemmas about merging: a
  file that covers what was set still does when an update is merged into it that extends
  what it replaces (`MergeCovers`), and after the migration (`MigrationCovers`), and a process
  that loads it has all that it holds (`LoadedIs`).
- `SessionsAreSafe`: `SessionsSafe`, from two. `SessionsInv` says of a session which no
  savers disturbed that a rename meets neither a save nor another rename and knows the
  count on disk (`SavesAlone`), that its name is the one that the user was told, on disk, in
  memory and in a save that is under way (`Named`), and, if no save was cut, that the lines
  on disk are the first messages of memory, counted but between the two writes of a save
  (`Copied`); of any session that metadata never count more than there is (`LinesCounted`).
  `DisplayInv` says which row each of the ids in `currentRows` names (`Currently`), that a
  row's text is what was written and what is buffered, and that only a row under way
  buffers (`Texts`), that what spins is a thought, a call or a compaction whose end may
  still come (`Spins`), and that a call without a result is tracked by the row that is its own, below
  which there is no result yet (`CallRows`). Rows are removed and inserted in the
  middle: `RemovedShape` and its like say what that keeps of such an invariant, once for
  all handlers.

Proving these two showed that an exemption was not needed: `ModelUsable` holds when
settings were lost, too, and says so now. Definitions that filtered or folded sequences
(`Latest`, `Say`, `Thought`, `HookRunEnd`), out of the provers' reach, were written without.

Proving those of `Services_proofs` corrected the model in three places. `NewsOnce` had been checked with one program:
with two, a program of an older version that is slow to start shows its news behind those of a
newer one, which then shows its own again. `disturbed` of `Updates` now says so; the run has
one program still, the theorem any number. `QuestionSafe` had held only within six keys: a
seventh un-ticks an option that was confirmed by mistake, and `confirmed` now tells what was
shown from what was misread. And the history of the input begins with at most `MaxEntries`
entries, as `_load_history` cuts it.

Assumptions: those named in the modules (`CallsAssumption`, `ConfigAssumption`,
`ControlAssumption`, `StoreAssumption`, `RewindAssumption`, `LoopAssumption`,
`BoundsAssumption`; `Assumptions` of `MCClients` and of `MCInterface` and
`ServicesAssumptions`, which name those of their components):
that functions have the domains they are meant to have, and that bounds are numbers;
and the hypothesis that a theorem states. Nothing else is assumed.

Only model-checked: liveness (`InterruptSettles`, `EveryCallSettles`,
`InterruptsEnd`, `InterfaceSettles`, `ClientsSettle`), which rests on fairness and
`ENABLED`; what recursive definitions compute for any input, out of the provers' reach:
the parsers and mappers of `LlmStream` (`StreamIsWhole`, `RequestsFaithful`) and, in
`ContentsSafe`, `PathMentions`, the merging half of `ConfigLayers`, the blocks and pages of
`FileTools`, the widgets of `HistoryWindow` and the pages of `LogConsole`, which filter and
concatenate sequences that they then compare.

## 5. Plan

Done: the core (approval, turns, turn control, persistence with its abstract log,
rewind), completion and its index, and the services, clients and views above. What
is left, in this order:

1. A second refinement: the input line as a text with a history, implemented by the
   three queues of `PromptInput`.
2. Interplay of panels and switching: `BottomPanel` and `SessionSwitch` meet in the
   question of a remote session and are checked apart.
3. Approvals of the ACP server, which are the editor's; events without a number in
   `RemoteSession`; patches of configurations once something applies them.

## 6. Where the code and its documentation part ways

Shown by runs (their counterexamples are short):

- `store_twice`: a save that is cut short after its append leaves the old count,
  and the next save appends the same messages again (`session_logger.py:286`).
- `rewind_stale`: the index that a prompt's widget remembers is taken before
  placeholders are inserted (`app.py:1157`); a rewind from it fails or meets
  another message.
- `completion_stuck`: `add_done_callback` under a lock that is not reentrant
  (`path_completion.py:83`): if the answer is already there the UI waits for
  itself.

Two more are stated in their modules and are not among the runs: `RefreshCompletes`
(RemoteTools), a second refresh cancels the first, whose end counts as the end of both,
so that the screen can be closed amid the second one and the tools stay purged
(`mcp_app.py:217`, against `tests/cli/test_mcp_app.py:208`); `DraftRestored`
(PromptInput), a draft that is only the mode `!` is not found again after going up and
down in the history (`body.py`, against `tests/test_ui_input_history.py:58`).

What follows is marked by exemptions of properties, with the actions in the models.

**Conversation and approval**

- A subagent's prompts grant to the main loop only (`task.py:142`), so
  `GrantsStick` is a property of one loop. A tool without permission patterns
  that was allowed "for remainder of this session" is asked about again after a
  switch of the agent (`agents/manager.py:91`).
- Tools outlive a turn that is interrupted while it saves or shows an event
  (`agent_loop.py:812`), and a `!` command enters a message between a call and its
  response (`agent_loop.py:551`): `disturbed` in `AgentLoop`.
- Rewinding, /resume (`app.py:1931`), a session that is continued from the command line, and
  a compaction that fails late (`agent_loop.py:1442`) do not reset the middleware, so that a
  warning or a reminder may be missing (`stale`, `unsure`). /reload and changes of a setting
  build it anew (`agent_loop.py:1702`) while its reminders stay: a mode that is left
  afterwards gets no farewell (`unsure`). The request after an automatic compaction
  passes no pipeline: the condition of `ModeAnnounced`.
- Hooks that take turns reach (retries + 1)^n - 1 rounds, not 3 n (`RoundsBounded`).
- A grant for one command "to the letter" that holds brackets does not match that
  command, since grants are patterns (`GrantsMatch`).

**Sessions on disk**

- Placeholders that are inserted before the saved part never reach the file:
  `inserted` in `SessionStore`.
- A save in the thread of `switch_agent` (`app.py:2847`) that is under way when
  the turn's task begins a session finishes in the new one: `session_dir` and
  `session_metadata` are read again after the append (`session_logger.py:310` and
  `:324`), so the new session starts with a count of messages it does not have,
  and loses as many. With two savers and two sessions TLC finds this in seven
  states; hence one session or one saver in `store`, and `SavesStay`.
- A rename writes back the count it read before a save, or is itself overwritten by a
  save in flight, and its end names whatever session the logger has by then
  (`saved_sessions.py`): `raced` in `SavedSessions`, a condition of `NameKept` and
  `SavedOnce`.
- Validity of a session is judged by lines as `str.splitlines` cuts them
  (`session_loader.py:50`), which the writer does not.
- A file that cannot be read counts as one that does not exist: `missed` in `Rewind`. One
  that cannot be restored is reported, and the conversation is cut all the same, with the
  checkpoint (`manager.py:121`): `errors`.

**Application**

- A prompt that is submitted while an interrupt is under way is shown and gets no turn
  (`app.py:1165`); the end of an interrupted turn clears the flag of the next one
  (`app.py:1589`); the start-up prompt and a submitted one can both begin a turn; a
  `!` command cancelled while its report is saved reports twice (`app.py:1072`):
  `raced` in `AppTurns`.
- `_switch_to_input_app` (`app.py:2341`) removes what was mounted while it ran; a panel
  that someone waits for is then gone, and the mode of rewinding stays on: `overlapped`
  and `swept` in `BottomPanel`.
- Resuming a saved session leaves the remote one before the file is found
  (`app.py:1904`); an answer that fails to be sent is not caught (`app.py:1195`); the
  panel of a question stays open and dead when the stream ends
  (`remote_session_manager.py:180`), and is closed by the return of the previous answer
  when the next request is already there: `happened` in `SessionSwitch`.
- An automatic compaction that fails leaves its row spinning (`app.py:1312`), a remote
  stream that fails its open calls; unfolding a thought while a piece of it arrives may
  show the piece twice or never (`messages.py:210`): `failed` in `EventDisplay`.
- What is left to load is reckoned in widgets as if they were messages when no widget of
  the history is on the screen (`windowing/state.py:78`), and is off after a
  compaction: `lost` in `HistoryWindow`.
- The debug console counts entries and skips lines (`log_reader.py:92`), so a page read
  while lines of the last poll are outstanding begins elsewhere; a log that is removed
  does not reset the count: `uneven` in `LogConsole`.
- In the form of questions text left in the field of a question without "other" is
  ticked as option -1 (`question_app.py:436`): the second disjunct of `QuestionSafe`.
  Enter twice in the input submits twice.
- Key handlers read suggestions without the lock: `raced` in `PathCompletion`.
- Changes while nothing watches, and the order within a batch, are lost; a directory
  that is moved away while it, or one above it, is being added, may stay in the index:
  `missed` and `unordered` in `FileIndex` (`watcher.py:65`, `store.py:68`).
- A change inside an ignored directory is indexed though a walk would skip it
  (`store.py:95`); a name that `lower()` makes longer, such as "İ", lets `fuzzy_match`
  raise (`fuzzy.py:73`), which `RaisesOnlyOnLongLower` bounds; an image that is mentioned
  twice is attached twice.
- Escape after a transcription that timed out raises (`voice_manager.py:135`): `crashed`
  in `Dictation`.

**Tools and models**

- Edits of one file in parallel overwrite each other, and if both have opened it the end of
  the longer text may follow the shorter one (`met`); a cancellation between opening and
  writing, or a text that the file's encoding lacks (`search_replace.py:253`), leaves it
  empty (`EditsHold` and `TextOfSomeCall` say what remains);
  a line longer than a page can neither be read nor skipped.
- A shell that has exited is not killed with its group (`async_subprocess.py`), so what
  it left behind runs on: the exception in `FrontEnds` and `KilledIsGone`. Of output
  that came between two readings only the last part is shown.
- The thread of deferred initialisation can overwrite what a refresh found meanwhile; a
  bootstrap that failed is cached; a refresh that is cancelled leaves the tools purged:
  `disturbed` in `RemoteTools`.
- Streams are retried only on a status error before the first event; an incomplete
  answer drops the arguments of its open call; texts of items that overlap are mixed
  (`SameBut`); only `OpenAIAdapter` sends images; `AnthropicMapper` leaves consecutive
  messages of the user apart: conditions of `StreamIsWhole` and `RequestsFaithful`.

**Settings and start-up**

- Two processes lose each other's setting (`_settings.py:975`), and a kill while
  `config.toml` is written leaves it empty (`_settings.py:1009`): `lost` in
  `Configuration`. A discovered model can be chosen without the provider that
  serves it; `set_thinking` drops fields of a model.
- A grant of trust that fails after it was noted stays noted, and revoking it then does
  nothing (`layer.py:181`): `broken` in `ConfigLayers`. The layers are a library that
  only tests use as yet. The union of a single value keeps its duplicates.
- The decision of a second process about a folder overwrites the first's, and one that is
  killed while writing loses all: `outdated` in `Startup`; the AGENTS.md of a
  directory below the working directory counts whatever was decided about it.
- Two writers of `cache.toml` lose each other's section, and may leave a mixed file that
  cannot be read (`cache.py:22`): `disturbed` and `cut`; a first
  installation shows its news at the second start only. The version that was seen is a
  single one: a program of an older version that starts slowly behind an update shows its
  news and makes the newer one show them again (`whats_new.py`): `disturbed` in `Updates`.
- The reload after the onboarding is not guarded (`cli.py:81`).

**Clients**

- A built-in command of ACP is awaited without being the session's prompt
  (`acp_agent_loop.py:803`); loading an id that is open displaces the live object:
  `displaced` in `AcpServer`; changes of mode overlap. One whose reload fails has changed
  the profile and not the callback (`acp_agent_loop.py:685`), so that a session may ask
  though its mode does not, or have nobody to ask: `halfway`.
- After an answer the pending request is cleared, also if the next has arrived
  (`remote_events_source.py:115`): `lost` in `RemoteSession`. After too many disconnects a
  stream ends without a word.
- Commit, branch and diff are read before the fetch and the user's approval, so a
  repository that moves on meanwhile strays from what is handed over; a diff that
  failed counts as none; two teleports share one service: `strayed` and
  `closed` in `Teleport`.

## 7. Not modelled

What `PROJECT.json` lists as `not_modelled` or leaves out of a part, with reasons
there. In short: the calls of MCP tools and sampling, `websearch`, `webfetch`, skills
and memory, which are one request and one answer without state that a later step reads;
the texts of prompts, start-up files and commands; rendering, themes and status lines;
the protocols of libraries (Textual, MCP, HTTP, watching of files), which appear only as
the environment; cryptography; telemetry, which nothing reads back; prices and token
counts beyond what limits compare; programmatic runs, a loop over the events of one
turn; installers, packaging and the tests.
