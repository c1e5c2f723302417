------------------------------ MODULE AppTurns ------------------------------
(***************************************************************************)
(* What the application does with a prompt: VibeApp of the terminal, where *)
(* the handler of a submitted prompt, the workers that escape starts, the  *)
(* task of the agent's turn and the tasks of `!` commands run on one loop  *)
(* and meet wherever they await.                                           *)
(*                                                                         *)
(* The application handles one message after the other, keys among them,   *)
(* so that nothing is typed while a handler awaits.  Abstracted: what a    *)
(* turn does (AgentLoop), what it asks the user (ToolGate), what a command *)
(* shows, and remote sessions (RemoteSession).                             *)
(***************************************************************************)
EXTENDS Integers, Sequences, FiniteSets

CONSTANTS
  MaxPrompts,   \* prompts, commands and `!` commands submitted
  MaxEscapes    \* escapes that interrupt

VARIABLES
  running,      \* _agent_running
  interrupting, \* _interrupt_requested
  agentTask,    \* _agent_task: a turn, or 0
  turns,        \* tasks of turns and of compactions: [step, kind, by, cut]
  bashTask,     \* _bash_task: a `!` command, or 0
  bash,         \* `!` commands: [step, cut, reports]
  submits,      \* handlers of a prompt: of the message, and of the initial prompt
  interrupts,   \* _interrupt_agent_loop under way: of the handler, and of each escape
  prompts,      \* what became of each prompt
  raced         \* history: both submitters began a turn, or an interrupt cleared another's

turnVars == <<running, interrupting, agentTask, turns, bashTask, bash, submits, interrupts,
              prompts, raced>>

TurnAssumption == MaxPrompts \in Nat /\ MaxEscapes \in Nat

Submitters == {"app", "startup"}
Interrupters == 0..MaxEscapes  \* 0: the handler of a prompt
Off == [at |-> "off", of |-> 0]
Working == {"created", "acting", "unwinding"}
Live == {t \in DOMAIN turns : turns[t].step \in {"acting", "unwinding"}}

Init ==
  /\ running = FALSE /\ interrupting = FALSE /\ agentTask = 0 /\ turns = <<>>
  /\ bashTask = 0 /\ bash = <<>>
  /\ submits \in [Submitters -> {Off}]
  /\ interrupts = [w \in Interrupters |-> Off]
  /\ prompts = <<>> /\ raced = FALSE

-----------------------------------------------------------------------------
(* A prompt is submitted. *)

\* The task is told to stop; before its first step it just ends.
Cancelled(tasks, n) ==
  IF n = 0 THEN tasks
  ELSE [tasks EXCEPT ![n].cut = tasks[n].step, ![n].step = IF @ = "created" THEN "done" ELSE @]

\* _interrupt_agent_loop: what the turn has asked is answered with no, its task is
\* cancelled and waited for.
Interrupt(w) ==
  /\ running /\ ~interrupting
  /\ interrupting' = TRUE
  /\ turns' = Cancelled(turns, agentTask)
  /\ interrupts' = [interrupts EXCEPT ![w] = [at |-> "waiting", of |-> agentTask]]

NoInterrupt == (~running \/ interrupting) /\ UNCHANGED <<interrupting, turns>>

Prompting(p, state) == prompts' = [prompts EXCEPT ![p].now = state]

\* A turn is about to begin, or is being stopped.
Busy == interrupting \/ submits["startup"].at \in {"mounting", "creating"}
        \/ \E t \in DOMAIN turns : turns[t].step = "created"

\* The prompt that the program was started with is sent in such a moment, too, when
\* another follows before it has its turn.
Overtaken ==
  [p \in DOMAIN prompts |->
     [prompts[p] EXCEPT !.hasty = @ \/ (submits["startup"].at = "mounting" /\ p = submits["startup"].of)]]

\* The handler of a message: a `!` command is stopped, and so is the turn.
Submit ==
  /\ submits["app"] = Off /\ Len(prompts) < MaxPrompts
  /\ prompts' = Append(Overtaken, [now |-> "sent", hasty |-> Busy])
  /\ bash' = Cancelled(bash, bashTask) /\ bashTask' = 0
  /\ \/ /\ Interrupt(0)
        /\ submits' = [submits EXCEPT !["app"] = [at |-> "interrupt", of |-> Len(prompts')]]
     \/ /\ NoInterrupt /\ UNCHANGED interrupts
        /\ submits' = [submits EXCEPT !["app"] = [at |-> "dispatch", of |-> Len(prompts')]]
  /\ UNCHANGED <<running, agentTask, raced>>

\* The worker of the prompt that the program was started with.
SubmitInitial ==
  /\ submits["startup"] = Off /\ prompts = <<>>
  /\ prompts' = <<[now |-> "sent", hasty |-> FALSE]>>
  /\ submits' = [submits EXCEPT !["startup"] = [at |-> "mounting", of |-> 1]]
  /\ UNCHANGED <<running, interrupting, agentTask, turns, bashTask, bash, interrupts, raced>>

\* A `!` command, which runs as a task.
RunBash ==
  /\ submits["app"].at = "dispatch"
  /\ bash' = Append(bash, [step |-> "created", cut |-> "no", reports |-> 0])
  /\ bashTask' = Len(bash')
  /\ Prompting(submits["app"].of, "ran")
  /\ submits' = [submits EXCEPT !["app"] = Off]
  /\ UNCHANGED <<running, interrupting, agentTask, turns, interrupts, raced>>

\* By the time a widget is mounted the loop has begun every task it had.
Begun == \A t \in DOMAIN turns : turns[t].step # "created"

\* /compact is refused while a turn runs; other commands show something.
RunCommand(compacts) ==
  /\ submits["app"].at = "dispatch" /\ Begun
  /\ submits' = [submits EXCEPT !["app"] =
                   IF compacts /\ ~running THEN [@ EXCEPT !.at = "compacting"] ELSE Off]
  /\ Prompting(submits["app"].of, "ran")
  /\ UNCHANGED <<running, interrupting, agentTask, turns, bashTask, bash, interrupts, raced>>

\* A message, or the prompt of a skill: its widget is mounted ...
ShowMessage ==
  /\ submits["app"].at = "dispatch"
  /\ submits' = [submits EXCEPT !["app"].at = "mounting"]
  /\ UNCHANGED <<running, interrupting, agentTask, turns, bashTask, bash, interrupts, prompts, raced>>

\* Mutant: whether a turn runs was asked before the message was shown.
MountedAnyway(s) ==
  /\ submits[s].at = "mounting" /\ Begun
  /\ submits' = [submits EXCEPT ![s].at = "creating"]
  /\ UNCHANGED <<running, interrupting, agentTask, turns, bashTask, bash, interrupts, prompts, raced>>

\* ... and unless a turn runs one is begun, once the remote stream has stopped.
Mounted(s) ==
  /\ submits[s].at = "mounting" /\ Begun
  /\ \/ /\ running
        /\ submits' = [submits EXCEPT ![s] = Off]
        /\ Prompting(submits[s].of, "lost")
     \/ /\ ~running
        /\ submits' = [submits EXCEPT ![s].at = "creating"]
        /\ UNCHANGED prompts
  /\ UNCHANGED <<running, interrupting, agentTask, turns, bashTask, bash, interrupts, raced>>

CreateTask(s, kind) ==
  /\ submits[s].at = IF kind = "turn" THEN "creating" ELSE "compacting"
  /\ turns' = Append(turns, [step |-> "created", kind |-> kind, by |-> s, cut |-> "no"])
  /\ agentTask' = Len(turns')
  /\ Prompting(submits[s].of, "ran")
  /\ submits' = [submits EXCEPT ![s] = Off]
  /\ raced' = (raced \/ \E t \in DOMAIN turns : turns[t].step \in Working /\ turns[t].by # s)
  /\ UNCHANGED <<running, interrupting, bashTask, bash, interrupts>>

-----------------------------------------------------------------------------
(* Turns: _handle_agent_loop_turn, and _run_compact. *)

Starts(t) ==
  /\ turns[t].step = "created"
  /\ turns' = [turns EXCEPT ![t].step = "acting"]
  /\ running' = TRUE
  /\ UNCHANGED <<interrupting, agentTask, bashTask, bash, submits, interrupts, prompts, raced>>

\* The cancellation is raised where the turn awaits.
Unwinds(t) ==
  /\ turns[t].step = "acting" /\ turns[t].cut # "no"
  /\ turns' = [turns EXCEPT ![t].step = "unwinding"]
  /\ UNCHANGED <<running, interrupting, agentTask, bashTask, bash, submits, interrupts, prompts, raced>>

\* The answer is complete, it failed, or it was cancelled: the application's flags are
\* reset before the display is finished.
Over(t) ==
  /\ turns[t].step \in {"acting", "unwinding"}
  /\ running' = FALSE /\ agentTask' = 0
  /\ interrupting' = IF turns[t].kind = "turn" THEN FALSE ELSE interrupting
  /\ turns' = [turns EXCEPT ![t].step = IF turns[t].kind = "turn" THEN "ending" ELSE "done"]
  /\ UNCHANGED <<bashTask, bash, submits, interrupts, prompts, raced>>

Finished(t) ==
  /\ turns[t].step = "ending"
  /\ turns' = [turns EXCEPT ![t].step = "done"]
  /\ UNCHANGED <<running, interrupting, agentTask, bashTask, bash, submits, interrupts, prompts, raced>>

-----------------------------------------------------------------------------
(* _interrupt_agent_loop *)

\* Escape, unless something else on the screen takes it: a worker.
Escape(n) ==
  /\ submits["app"] = Off /\ running
  /\ interrupts[n] = Off /\ \A m \in 1..n - 1 : interrupts[m] # Off
  /\ interrupts' = [interrupts EXCEPT ![n].at = "called"]
  /\ UNCHANGED <<running, interrupting, agentTask, turns, bashTask, bash, submits, prompts, raced>>

\* Unless nothing runs any more, or it is being interrupted.
Called(n) ==
  /\ interrupts[n].at = "called"
  /\ \/ Interrupt(n)
     \/ NoInterrupt /\ interrupts' = [interrupts EXCEPT ![n].at = "over"]
  /\ UNCHANGED <<running, agentTask, bashTask, bash, submits, prompts, raced>>

\* The task is over, and so is the display of the answer.  Whatever runs by now counts
\* as not running.
TaskGone(w) ==
  /\ interrupts[w].at = "waiting"
  /\ interrupts[w].of \notin {t \in DOMAIN turns : turns[t].step # "done"}
  /\ running' = FALSE
  /\ raced' = (raced \/ running)
  /\ interrupts' = [interrupts EXCEPT ![w].at = "closing"]
  /\ UNCHANGED <<interrupting, agentTask, turns, bashTask, bash, submits, prompts>>

InterruptEnds(w) ==
  /\ interrupts[w].at = "closing"
  /\ interrupting' = FALSE
  /\ interrupts' = [interrupts EXCEPT ![w] = IF w = 0 THEN Off ELSE [@ EXCEPT !.at = "over"]]
  /\ submits' = IF w = 0 THEN [submits EXCEPT !["app"].at = "dispatch"] ELSE submits
  /\ UNCHANGED <<running, agentTask, turns, bashTask, bash, prompts, raced>>

-----------------------------------------------------------------------------
(* `!` commands: _handle_bash_command *)

BashStarts(b) ==
  /\ bash[b].step = "created"
  /\ bash' = [bash EXCEPT ![b].step = "running"]
  /\ UNCHANGED <<running, interrupting, agentTask, turns, bashTask, submits, interrupts, prompts, raced>>

\* It ends, fails or takes too long: its output is added to the conversation, and saved.
BashReports(b) ==
  /\ bash[b].step = "running" /\ bash[b].cut = "no"
  /\ bash' = [bash EXCEPT ![b].step = "saving", ![b].reports = @ + 1]
  /\ UNCHANGED <<running, interrupting, agentTask, turns, bashTask, submits, interrupts, prompts, raced>>

\* Cancelled, its process is killed, and what it has written is reported; again, if it
\* was cancelled while the report was being saved.
BashKilled(b) ==
  /\ bash[b].step \in {"running", "saving"} /\ bash[b].cut # "no"
  /\ bash' = [bash EXCEPT ![b].step = "done", ![b].reports = @ + 1]
  /\ UNCHANGED <<running, interrupting, agentTask, turns, bashTask, submits, interrupts, prompts, raced>>

BashSaved(b) ==
  /\ bash[b].step = "saving" /\ bash[b].cut = "no"
  /\ bash' = [bash EXCEPT ![b].step = "done"]
  /\ UNCHANGED <<running, interrupting, agentTask, turns, bashTask, submits, interrupts, prompts, raced>>

-----------------------------------------------------------------------------
Tasks ==
  \/ \E t \in DOMAIN turns : Starts(t) \/ Unwinds(t) \/ Finished(t) \/ (turns[t].cut # "no" /\ Over(t))
  \/ \E b \in DOMAIN bash : BashStarts(b) \/ BashKilled(b) \/ BashSaved(b)

Handlers ==
  \/ RunBash \/ ShowMessage \/ \E compacts \in BOOLEAN : RunCommand(compacts)
  \/ \E s \in Submitters : Mounted(s) \/ \E kind \in {"turn", "compact"} : CreateTask(s, kind)
  \/ \E n \in 1..MaxEscapes : Called(n)
  \/ \E w \in Interrupters : TaskGone(w) \/ InterruptEnds(w)

TurnNext ==
  \/ Submit \/ SubmitInitial \/ \E n \in 1..MaxEscapes : Escape(n)
  \/ Handlers
  \/ Tasks \/ (\E t \in DOMAIN turns : Over(t)) \/ \E b \in DOMAIN bash : BashReports(b)

\* The loop runs every task that can go on.
TurnFairness ==
  /\ WF_turnVars(Handlers)
  /\ WF_turnVars(Tasks)

Spec == Init /\ [][TurnNext]_turnVars /\ TurnFairness

-----------------------------------------------------------------------------
(* Properties. *)

Steps == {"created", "acting", "unwinding", "ending", "done"}

TypeOK ==
  /\ {running, interrupting, raced} \subseteq BOOLEAN
  /\ agentTask \in 0..Len(turns) /\ bashTask \in 0..Len(bash)
  /\ \A t \in DOMAIN turns : turns[t].step \in Steps /\ turns[t].cut \in Steps \cup {"no"}
  /\ \A b \in DOMAIN bash : bash[b].step \in {"created", "running", "saving", "done"}
                            /\ bash[b].reports \in Nat
  /\ \A s \in Submitters : submits[s].of \in 0..Len(prompts)
  /\ \A w \in Interrupters : interrupts[w].of \in 0..Len(turns)

\* One turn at a time works on the conversation, the flag says so, and escape reaches
\* it; unless the first prompt's worker and the handler have both begun one, or an
\* interrupt has cleared the flag of the turn that came next.
OneTurn ==
  ~raced => /\ Cardinality(Live) <= 1
            /\ running <=> Live # {}
            /\ \A t \in Live : agentTask = t

\* A prompt gets its turn, unless it was sent in the moment when a turn was about to
\* begin or was being stopped.
PromptsRun == \A p \in DOMAIN prompts : prompts[p].now = "lost" => prompts[p].hasty \/ raced

\* The model is told of each `!` command once, unless it was stopped before it had
\* begun or while the report was saved.
ReportedOnce ==
  \A b \in DOMAIN bash : bash[b].step = "done" /\ bash[b].cut \notin {"created", "saving"} => bash[b].reports = 1

TurnsSafe == OneTurn /\ PromptsRun /\ ReportedOnce

\* Whatever is submitted is acted upon or dropped, and every interrupt comes to its end
\* (interrupts of a turn whose tools end, see InterruptsEnd in AgentLoop).
Waits(p) == p \in DOMAIN prompts /\ prompts[p].now = "sent"

TurnsSettle ==
  /\ \A p \in 1..MaxPrompts : Waits(p) ~> ~Waits(p)
  /\ \A w \in Interrupters : interrupts[w].at = "waiting" ~> interrupts[w].at # "waiting"
=============================================================================
