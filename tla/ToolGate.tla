------------------------------ MODULE ToolGate ------------------------------
(***************************************************************************)
(* The approval of tool calls that run concurrently.                       *)
(*                                                                         *)
(* One turn of the agent starts a task per tool call of the model's answer *)
(* (_run_tools_concurrently).  Every task must be allowed by               *)
(* _should_execute_tool before it executes: an agent profile may bypass    *)
(* permissions, the tool's configuration or a session rule may allow the   *)
(* call, or the user is asked.  Two locks are taken in turn: the approval  *)
(* lock of the AgentLoop and the user-interaction lock of the terminal UI. *)
(* The `task` tool runs a subagent, an AgentLoop of its own (own lock,     *)
(* rules and configuration) that asks through the same UI.                 *)
(*                                                                         *)
(* A key press in the prompt becomes a message that the UI handles later.  *)
(* An interrupt answers the open prompt, ends the turn, and cancels the    *)
(* tasks at once or, when the turn was suspended outside queue.get(),      *)
(* when its generators are finalised.                                      *)
(*                                                                         *)
(* Abstracted: a required permission is identified with the session        *)
(* pattern that covers it; wildcard_match of other patterns is left out.   *)
(***************************************************************************)
EXTENDS Integers, Sequences, FiniteSets

CONSTANTS
  Calls,        \* tool calls
  NoCall,       \* nobody (a free lock)
  Loops, Main,  \* the AgentLoops, and the one of the session
  LoopOf,       \* [Calls -> Loops]: the loop that issued a call
  ParentOf,     \* [Loops \ {Main} -> Calls]: the task call that runs it
  Turns,        \* 1..n: the turns of the main loop
  TurnOf,       \* [Calls -> Turns]: the turn in which a call is issued
  Tools,        \* names of tools
  Tool,         \* [Calls -> Tools]
  Perms,        \* session patterns
  Needs,        \* [Calls -> SUBSET Perms]: ctx.required_permissions
  Ctx,          \* [Calls -> {"none", "always", "never", "ask"}]: what
                \*   tool.resolve_permission returns ("none": no opinion)
  Questions,    \* calls of tools that ask the user while they run
  ExitPlan,     \* those of them that switch the agent (exit_plan_mode)
  Interactive,  \* an approval callback is set
  Profiles, InitProfile,
  Bypass,       \* [Profiles -> BOOLEAN]: bypass_tool_permissions
  Enabled,      \* [Profiles -> SUBSET Tools]: the available tools
  ToolPerm,     \* [Profiles -> [Tools -> {"always", "never", "ask"}]]
  SubBypass,    \* [Loops \ {Main} -> BOOLEAN]
  SubPerm,      \* [Tools -> {"always", "never", "ask"}] of the subagents
  MaxPress,     \* bound: key presses on one prompt
  MaxSwitch     \* bound: switches of the agent profile

Permission == {"always", "never", "ask"}

ASSUME CallsAssumption ==
  /\ NoCall \notin Calls
  /\ Main \in Loops
  /\ LoopOf \in [Calls -> Loops]
  /\ ParentOf \in [Loops \ {Main} -> Calls]
  /\ Turns \subseteq Nat
  /\ TurnOf \in [Calls -> Turns]
  /\ Questions \subseteq Calls
  /\ ExitPlan \subseteq Questions

ASSUME ConfigAssumption ==
  /\ Tool \in [Calls -> Tools]
  /\ Needs \in [Calls -> SUBSET Perms]
  /\ Ctx \in [Calls -> Permission \union {"none"}]
  /\ InitProfile \in Profiles
  /\ Bypass \in [Profiles -> BOOLEAN]
  /\ Enabled \in [Profiles -> SUBSET Tools]
  /\ ToolPerm \in [Profiles -> [Tools -> Permission]]
  /\ SubBypass \in [Loops \ {Main} -> BOOLEAN]
  /\ SubPerm \in [Tools -> Permission]
  /\ Interactive \in BOOLEAN

ASSUME BoundsAssumption == MaxPress \in Nat /\ MaxSwitch \in Nat

VARIABLES
  phase,     \* where each call's task is suspended
  lock,      \* holder of each loop's _approval_lock
  ui,        \* holder of the _user_interaction_lock
  pending,   \* the _pending_approval future of the holder
  verdict,   \* how each call's prompt was resolved
  asked,     \* the uncovered permissions shown in each call's prompt
  rules,     \* each loop's _session_rules
  toolPerm,  \* config.tools[...].permission of each loop
  profile,   \* the main loop's active_profile
  uiQ,       \* answers posted by the prompt and not handled yet
  cancelReq, \* tasks whose next step raises CancelledError
  turn,      \* state of each turn
  pressed,   \* history: the keys pressed on each call's prompt
  granted,   \* history: what the user allowed for the rest of the session
  switches   \* number of profile switches so far

callVars == <<phase, verdict, asked, cancelReq>>
lockVars == <<lock, ui, pending>>
permVars == <<rules, toolPerm, profile, granted, switches>>
userVars == <<uiQ, pressed>>
vars == <<callVars, lockVars, permVars, userVars, turn>>

Answers == {"yes", "always", "no"}
Message == [tool : Tools, perms : SUBSET Perms, answer : Answers]
Settled == {"done", "skipped", "failed"}
Locked == {"uiwait", "prompt", "closing"}                  \* holds the loop's lock
OnScreen == {"prompt", "closing", "question", "qclosing"}  \* holds the UI lock
Phases == {"off", "new", "lockwait", "run", "qwait", "answered"}
            \union Locked \union OnScreen \union Settled

TypeOK ==
  /\ phase \in [Calls -> Phases]
  /\ lock \in [Loops -> Calls \union {NoCall}]
  /\ ui \in Calls \union {NoCall}
  /\ pending \in {"none", "open", "yes", "no", "cancelled"}
  /\ verdict \in [Calls -> {"none", "yes", "no", "cancelled"}]
  /\ asked \in [Calls -> SUBSET Perms]
  /\ rules \in [Loops -> SUBSET (Tools \X Perms)]
  /\ toolPerm \in [Loops -> [Tools -> Permission]]
  /\ profile \in Profiles
  /\ uiQ \in Seq(Message)
  /\ cancelReq \subseteq Calls
  /\ turn \in [Turns -> {"idle", "live", "interrupted", "reaped", "over"}]
  /\ pressed \in [Calls -> Seq(Answers)]
  /\ granted \subseteq Tools \X Perms
  /\ switches \in Nat

Init ==
  /\ phase = [c \in Calls |-> "off"]
  /\ lock = [l \in Loops |-> NoCall]
  /\ ui = NoCall
  /\ pending = "none"
  /\ verdict = [c \in Calls |-> "none"]
  /\ asked = [c \in Calls |-> {}]
  /\ rules = [l \in Loops |-> {}]
  /\ toolPerm = [l \in Loops |-> IF l = Main THEN ToolPerm[InitProfile] ELSE SubPerm]
  /\ profile = InitProfile
  /\ uiQ = <<>>
  /\ cancelReq = {}
  /\ turn = [t \in Turns |-> "idle"]
  /\ pressed = [c \in Calls |-> <<>>]
  /\ granted = {}
  /\ switches = 0

-----------------------------------------------------------------------------
(* A call's way through _should_execute_tool. *)

BypassOf(l) == IF l = Main THEN Bypass[profile] ELSE SubBypass[l]

Uncovered(c) == {p \in Needs[c] : <<Tool[c], p>> \notin rules[LoopOf[c]]}

\* The parent's auto-approve mode answers for the user, for enabled tools only.
AutoApproved(c) == Bypass[profile] /\ Tool[c] \in Enabled[profile]

PermissionOf(c) ==
  IF Ctx[c] = "none" THEN toolPerm[LoopOf[c]][Tool[c]] ELSE Ctx[c]

Covered(c) == Needs[c] # {} /\ Uncovered(c) = {}

MustAsk(c) == PermissionOf(c) = "ask" /\ ~Covered(c)

MayExecute(c) ==
  \/ PermissionOf(c) = "always"
  \/ PermissionOf(c) = "ask" /\ Covered(c)
  \/ MustAsk(c) /\ Interactive /\ AutoApproved(c)

MustSkip(c) == PermissionOf(c) = "never" \/ (MustAsk(c) /\ ~Interactive)

Move(c, p) == phase' = [phase EXCEPT ![c] = p]

Awake(c, p) == phase[c] = p /\ c \notin cancelReq

\* The first step of the task: bypass is looked at before the lock.
Begin(c) ==
  /\ phase[c] = "new"
  /\ Move(c, IF BypassOf(LoopOf[c]) THEN "run" ELSE "lockwait")
  /\ UNCHANGED <<verdict, asked, cancelReq, lockVars, permVars, userVars, turn>>

\* The callback waits for the UI only when the UI lock is taken.
ShowPrompt(c) ==
  IF ui = NoCall
    THEN Move(c, "prompt") /\ ui' = c /\ pending' = "open"
    ELSE Move(c, "uiwait") /\ UNCHANGED <<ui, pending>>

\* One step from the acquisition of the approval lock to the first await.
Evaluate(c) ==
  /\ Awake(c, "lockwait")
  /\ lock[LoopOf[c]] = NoCall
  /\ \/ /\ MayExecute(c)
        /\ Move(c, "run")
        /\ UNCHANGED <<lockVars, asked>>
     \/ /\ MustSkip(c)
        /\ Move(c, "skipped")
        /\ UNCHANGED <<lockVars, asked>>
     \/ /\ MustAsk(c) /\ Interactive /\ ~AutoApproved(c)
        /\ lock' = [lock EXCEPT ![LoopOf[c]] = c]
        /\ asked' = [asked EXCEPT ![c] = Uncovered(c)]
        /\ ShowPrompt(c)
  /\ UNCHANGED <<verdict, cancelReq, permVars, userVars, turn>>

OpenPrompt(c) ==
  /\ Awake(c, "uiwait")
  /\ ui = NoCall
  /\ ShowPrompt(c)
  /\ UNCHANGED <<verdict, asked, cancelReq, lock, permVars, userVars, turn>>

\* Mutant of Resume: the finally block does not reset _pending_approval.
ResumeNoReset(c) ==
  /\ Awake(c, "prompt")
  /\ pending \in {"yes", "no"}
  /\ verdict' = [verdict EXCEPT ![c] = pending]
  /\ Move(c, "closing")
  /\ UNCHANGED <<asked, cancelReq, lockVars, permVars, userVars, turn>>

\* The future is resolved: the prompt goes away, the locks are still held.
Resume(c) ==
  /\ Awake(c, "prompt")
  /\ pending \in {"yes", "no"}
  /\ verdict' = [verdict EXCEPT ![c] = pending]
  /\ pending' = "none"
  /\ Move(c, "closing")
  /\ UNCHANGED <<asked, cancelReq, lock, ui, permVars, userVars, turn>>

\* Mutant of Closed: the approval lock is not released.
ClosedKeepsLock(c) ==
  /\ Awake(c, "closing")
  /\ Move(c, IF verdict[c] = "yes" THEN "run" ELSE "skipped")
  /\ ui' = NoCall
  /\ UNCHANGED <<verdict, asked, cancelReq, lock, pending, permVars, userVars, turn>>

Closed(c) ==
  /\ Awake(c, "closing")
  /\ Move(c, CASE verdict[c] = "yes" -> "run"
               [] verdict[c] = "no" -> "skipped"
               [] OTHER -> "failed")
  /\ ui' = NoCall
  /\ lock' = [lock EXCEPT ![LoopOf[c]] = NoCall]
  /\ UNCHANGED <<verdict, asked, cancelReq, pending, permVars, userVars, turn>>

-----------------------------------------------------------------------------
(* The tool runs. *)

Children(c) == {d \in Calls : LoopOf[d] # Main /\ ParentOf[LoopOf[d]] = c}

\* The subagent of a running task call issues a call of its own.
Spawn(c) ==
  /\ phase[c] = "off" /\ LoopOf[c] # Main
  /\ Awake(ParentOf[LoopOf[c]], "run")
  /\ Move(c, "new")
  /\ UNCHANGED <<verdict, asked, cancelReq, lockVars, permVars, userVars, turn>>

\* The tool returns or raises (both "done" here); a task call waits for its subagent.
Finish(c) ==
  /\ Awake(c, "run") \/ Awake(c, "answered")
  /\ \A d \in Children(c) : phase[d] \in Settled \union {"off"}
  /\ Move(c, "done")
  /\ UNCHANGED <<verdict, asked, cancelReq, lockVars, permVars, userVars, turn>>

\* _user_input_callback: a question needs the same UI lock.
AskUser(c) ==
  /\ c \in Questions
  /\ Awake(c, "run") \/ Awake(c, "qwait")
  /\ IF ui = NoCall
       THEN Move(c, "question") /\ ui' = c
       ELSE phase[c] = "run" /\ Move(c, "qwait") /\ UNCHANGED ui
  /\ UNCHANGED <<verdict, asked, cancelReq, lock, pending, permVars, userVars, turn>>

AnswerQuestion(c) ==
  /\ Awake(c, "question")
  /\ Move(c, "qclosing")
  /\ UNCHANGED <<verdict, asked, cancelReq, lockVars, permVars, userVars, turn>>

QuestionClosed(c) ==
  /\ Awake(c, "qclosing")
  /\ Move(c, IF verdict[c] = "cancelled" THEN "failed" ELSE "answered")
  /\ ui' = NoCall
  /\ UNCHANGED <<verdict, asked, cancelReq, lock, pending, permVars, userVars, turn>>

-----------------------------------------------------------------------------
(* The user and the UI's message handlers. *)

\* The prompt widget posts an answer for every key, until it is removed.
Press(c, a) ==
  /\ phase[c] \in {"prompt", "closing"}
  /\ Len(pressed[c]) < MaxPress
  /\ pressed' = [pressed EXCEPT ![c] = Append(@, a)]
  /\ uiQ' = Append(uiQ, [tool |-> Tool[c], perms |-> asked[c], answer |-> a])
  /\ UNCHANGED <<callVars, lockVars, permVars, turn>>

\* AgentLoop.approve_always, always on the main loop.
ApproveAlways(t, ps) ==
  IF ps # {}
    THEN /\ rules' = [rules EXCEPT ![Main] = @ \union ({t} \X ps)]
         /\ UNCHANGED toolPerm
    ELSE /\ toolPerm' = [toolPerm EXCEPT ![Main][t] = "always"]
         /\ UNCHANGED rules

\* Mutant of Deliver: the answer is handled again (as if it bubbled on).
DeliverAgain ==
  /\ uiQ # <<>>
  /\ pending = "open"
  /\ pending' = IF Head(uiQ).answer = "no" THEN "no" ELSE "yes"
  /\ UNCHANGED <<callVars, lock, ui, permVars, userVars, turn>>

\* on_approval_app_approval_*: whatever prompt is open now is resolved.
Deliver ==
  /\ uiQ # <<>>
  /\ uiQ' = Tail(uiQ)
  /\ LET m == Head(uiQ) IN
       /\ pending' = IF pending # "open" THEN pending
                     ELSE IF m.answer = "no" THEN "no" ELSE "yes"
       /\ IF m.answer = "always"
            THEN ApproveAlways(m.tool, m.perms)
            ELSE UNCHANGED <<rules, toolPerm>>
       /\ granted' = IF m.answer = "always" /\ pending = "open"
                       THEN granted \union ({m.tool} \X m.perms)
                       ELSE granted
  /\ UNCHANGED <<callVars, lock, ui, profile, switches, pressed, turn>>

\* Mutant of SwitchTo: the session rules are dropped with the configuration.
SwitchToForgets(p) ==
  /\ p # profile
  /\ switches < MaxSwitch
  /\ switches' = switches + 1
  /\ profile' = p
  /\ toolPerm' = [toolPerm EXCEPT ![Main] = ToolPerm[p]]
  /\ rules' = [rules EXCEPT ![Main] = {}]
  /\ UNCHANGED granted

\* switch_agent drops the cached configuration and builds the profile's.
SwitchTo(p) ==
  /\ p # profile
  /\ switches < MaxSwitch
  /\ switches' = switches + 1
  /\ profile' = p
  /\ toolPerm' = [toolPerm EXCEPT ![Main] = ToolPerm[p]]
  /\ UNCHANGED <<rules, granted>>

\* The key that cycles the agents works while the input box is shown.
SwitchAgent(p) ==
  /\ \A c \in Calls : phase[c] \notin {"prompt", "question"}
  /\ SwitchTo(p)
  /\ UNCHANGED <<callVars, lockVars, userVars, turn>>

\* exit_plan_mode switches the agent after a positive answer.
SwitchByTool(c, p) ==
  /\ c \in ExitPlan
  /\ Awake(c, "answered")
  /\ SwitchTo(p)
  /\ Move(c, "done")
  /\ UNCHANGED <<verdict, asked, cancelReq, lockVars, userVars, turn>>

-----------------------------------------------------------------------------
(* Turns, interrupts and cancellation. *)

MainCalls(t) == {c \in Calls : LoopOf[c] = Main /\ TurnOf[c] = t}

\* The turns follow one another; an interrupted one may leave tasks behind.
StartTurn(t) ==
  /\ turn[t] = "idle"
  /\ (t - 1) \in Turns => turn[t - 1] \in {"interrupted", "reaped", "over"}
  /\ turn' = [turn EXCEPT ![t] = "live"]
  /\ phase' = [c \in Calls |-> IF c \in MainCalls(t) THEN "new" ELSE phase[c]]
  /\ UNCHANGED <<verdict, asked, cancelReq, lockVars, permVars, userVars>>

EndTurn(t) ==
  /\ turn[t] = "live"
  /\ \A c \in MainCalls(t) : phase[c] \in Settled
  /\ turn' = [turn EXCEPT ![t] = "over"]
  /\ UNCHANGED <<callVars, lockVars, permVars, userVars>>

\* _interrupt_agent_loop answers what is on screen and cancels the agent task.
Interrupt(t) ==
  /\ turn[t] = "live"
  /\ turn' = [turn EXCEPT ![t] = "interrupted"]
  /\ pending' = IF pending = "open" THEN "no" ELSE pending
  /\ phase' = [c \in Calls |-> IF phase[c] = "question" THEN "qclosing" ELSE phase[c]]
  /\ UNCHANGED <<verdict, asked, cancelReq, lock, ui, permVars, userVars>>

\* Mutant of CancelTasks: a task that waits for its prompt is left alone.
CancelIdleTasks(S) ==
  LET T == {c \in S : phase[c] \notin OnScreen \union Settled \union {"off"}} IN
  /\ \A c \in T : phase[c] # "new"
  /\ cancelReq' = cancelReq \union T
  /\ UNCHANGED <<phase, verdict, asked, lockVars, permVars, userVars>>

\* task.cancel() on the unfinished tasks; it cancels an open future at once.
CancelTasks(S) ==
  LET T == {c \in S : phase[c] \notin Settled \union {"off"}} IN
  /\ \A c \in T : phase[c] # "new"
  /\ cancelReq' = cancelReq \union T
  /\ pending' = IF ui \in T /\ pending = "open" THEN "cancelled" ELSE pending
  /\ UNCHANGED <<phase, verdict, asked, lock, ui, permVars, userVars>>

Reap(t) ==
  /\ turn[t] = "interrupted"
  /\ turn' = [turn EXCEPT ![t] = "reaped"]
  /\ CancelTasks(MainCalls(t))

\* The cancelled task call stops its subagent, whose tasks are cancelled too.
ReapSub(l) ==
  /\ ParentOf[l] \in cancelReq
  /\ Children(ParentOf[l]) \ cancelReq # {}
  /\ \E c \in Children(ParentOf[l]) \ cancelReq :
       phase[c] \notin Settled \union {"off"}
  /\ CancelTasks(Children(ParentOf[l]))
  /\ UNCHANGED turn

\* CancelledError where no lock of the UI is held: the call fails.
CancelWaiting(c) ==
  /\ c \in cancelReq
  /\ phase[c] \in {"lockwait", "uiwait", "run", "qwait", "answered"}
  /\ Move(c, "failed")
  /\ lock' = IF phase[c] = "uiwait" THEN [lock EXCEPT ![LoopOf[c]] = NoCall] ELSE lock
  /\ UNCHANGED <<verdict, asked, cancelReq, ui, pending, permVars, userVars, turn>>

\* CancelledError while the prompt is open: the finally block removes it.
CancelOpen(c) ==
  /\ c \in cancelReq
  /\ phase[c] \in {"prompt", "question"}
  /\ Move(c, IF phase[c] = "prompt" THEN "closing" ELSE "qclosing")
  /\ verdict' = [verdict EXCEPT ![c] = "cancelled"]
  /\ pending' = IF phase[c] = "prompt" THEN "none" ELSE pending
  /\ cancelReq' = cancelReq \ {c}
  /\ UNCHANGED <<asked, lock, ui, permVars, userVars, turn>>

\* Mutant of CancelClosing: only the UI lock is released.
CancelClosingKeepsLock(c) ==
  /\ c \in cancelReq
  /\ phase[c] \in {"closing", "qclosing"}
  /\ Move(c, "failed")
  /\ ui' = NoCall
  /\ UNCHANGED <<verdict, asked, cancelReq, lock, pending, permVars, userVars, turn>>

\* CancelledError in the finally block itself: the locks are released.
CancelClosing(c) ==
  /\ c \in cancelReq
  /\ phase[c] \in {"closing", "qclosing"}
  /\ Move(c, "failed")
  /\ ui' = NoCall
  /\ lock' = IF phase[c] = "closing" THEN [lock EXCEPT ![LoopOf[c]] = NoCall] ELSE lock
  /\ UNCHANGED <<verdict, asked, cancelReq, pending, permVars, userVars, turn>>

-----------------------------------------------------------------------------
\* Steps of a call's own task.
CallStep(c) ==
  \/ Begin(c) \/ Evaluate(c) \/ OpenPrompt(c) \/ Resume(c) \/ Closed(c)
  \/ AskUser(c) \/ QuestionClosed(c)
  \/ CancelWaiting(c) \/ CancelOpen(c) \/ CancelClosing(c)

\* Steps that the code does not owe: tools, subagents and the user.
ToolStep(c) == Finish(c) \/ Spawn(c) \/ \E p \in Profiles : SwitchByTool(c, p)

UserStep(c) == AnswerQuestion(c) \/ \E a \in Answers : Press(c, a)

Next ==
  \/ \E c \in Calls : CallStep(c) \/ ToolStep(c) \/ UserStep(c)
  \/ Deliver
  \/ \E t \in Turns : StartTurn(t) \/ EndTurn(t) \/ Interrupt(t) \/ Reap(t)
  \/ \E l \in Loops \ {Main} : ReapSub(l)
  \/ \E p \in Profiles : SwitchAgent(p)

Spec == Init /\ [][Next]_vars

\* The event loop runs every ready task, handler and finaliser.
CodeFairness ==
  /\ \A c \in Calls : WF_vars(CallStep(c))
  /\ WF_vars(Deliver)
  /\ \A t \in Turns : WF_vars(Reap(t))
  /\ \A l \in Loops \ {Main} : WF_vars(ReapSub(l))

FairSpec == Spec /\ CodeFairness

\* In addition tools end and the user answers what is on the screen.
EnvironmentFairness ==
  \A c \in Calls : WF_vars(Finish(c)) /\ WF_vars(UserStep(c))

-----------------------------------------------------------------------------
(* Properties. *)

\* The two locks and the tasks agree: a loop's approval lock is held by the
\* one call of that loop between its evaluation and the removal of its prompt,
\* and the UI by the one call whose prompt or question is on the screen, after
\* any interleaving of answers, interrupts and cancellations.
LocksConsistent ==
  /\ \A c \in Calls : phase[c] \in Locked <=> lock[LoopOf[c]] = c
  /\ \A c \in Calls : phase[c] \in OnScreen <=> ui = c
  /\ \A l \in Loops : lock[l] # NoCall => LoopOf[lock[l]] = l

\* A pending future exists exactly while a prompt waits for its answer, so an
\* answer handled after its prompt closed resolves nothing.
PendingOwned ==
  pending # "none" <=> (ui # NoCall /\ phase[ui] = "prompt")

\* One key press lets at most one call run: no answer is used by two prompts,
\* however late it is handled.
OneKeyOneCall ==
  Cardinality({c \in Calls : verdict[c] = "yes"})
    <= Cardinality({x \in Calls \X (1..MaxPress) :
         x[2] <= Len(pressed[x[1]]) /\ pressed[x[1]][x[2]] # "no"})

PromptOpens(c) == phase[c] # "prompt" /\ phase'[c] = "prompt"

\* "Allow for remainder of this session" on a prompt that lists permissions:
\* no later prompt of the session asks for permissions that were all granted,
\* for calls that were already waiting for the lock too.  This is about one loop: a
\* subagent does not learn what was granted in its prompts (ApproveAlways).
GrantsStick ==
  [][\A c \in Calls :
       PromptOpens(c) /\ Needs[c] # {} =>
         \E p \in Needs[c] : <<Tool[c], p>> \notin granted]_vars

\* After an interrupt every call of the turn settles, those of its subagents
\* too, without any further answer of the user.
InterruptSettles ==
  \A t \in Turns :
    turn[t] = "interrupted" ~>
      \A c \in Calls : TurnOf[c] = t => phase[c] \in Settled \union {"off"}

\* A user who answers what is on the screen and tools that end suffice for
\* every started call to settle: no call waits for a lock for ever.
EveryCallSettles ==
  EnvironmentFairness => \A c \in Calls : phase[c] = "new" ~> phase[c] \in Settled

=============================================================================
