-------------------------- MODULE ToolGate_proofs --------------------------
(***************************************************************************)
(* Proofs about ToolGate: type correctness, the consistency of the locks   *)
(* with the tasks, that one key press lets at most one call run, and, for  *)
(* a session without subagents, that a grant for the rest of the session   *)
(* is never asked for again.                                               *)
(***************************************************************************)
EXTENDS ToolGate, FiniteSetTheorems, TLAPS

\* The calls of a turn that has not begun have not been issued.
IdleTurnsOff ==
  \A t \in Turns : turn[t] = "idle" => \A c \in MainCalls(t) : phase[c] = "off"

IInv == TypeOK /\ LocksConsistent /\ PendingOwned /\ IdleTurnsOff

\* The initial states satisfy the invariant.
LEMMA InitInv == Init => IInv
<1> SUFFICES ASSUME Init PROVE IInv
  OBVIOUS
<1>1. TypeOK
  BY CallsAssumption, ConfigAssumption
  DEF Init, TypeOK, Phases, Permission
<1>2. LocksConsistent
  BY CallsAssumption DEF Init, LocksConsistent, Locked, OnScreen
<1>3. PendingOwned /\ IdleTurnsOff
  BY DEF Init, PendingOwned, IdleTurnsOff, MainCalls
<1> QED
  BY <1>1, <1>2, <1>3 DEF IInv

\* Every step of a call's task preserves the types.
LEMMA CallStepType ==
  ASSUME TypeOK, NEW c \in Calls, CallStep(c)
  PROVE  TypeOK'
<1> USE CallsAssumption, ConfigAssumption
    DEF TypeOK, Phases, Permission, Locked, OnScreen, Settled,
        lockVars, permVars, userVars, Move, Awake
<1>1. CASE Begin(c)
  BY <1>1 DEF Begin
<1>2. CASE Evaluate(c)
  <2>1. CASE UNCHANGED <<lockVars, asked>> /\ (Move(c, "run") \/ Move(c, "skipped"))
    <3>1. phase' \in [Calls -> Phases]
      BY <2>1
    <3>2. UNCHANGED <<verdict, cancelReq, permVars, userVars, turn>>
      BY <1>2 DEF Evaluate
    <3> QED
      BY <2>1, <3>1, <3>2
  <2>2. CASE /\ lock' = [lock EXCEPT ![LoopOf[c]] = c]
             /\ asked' = [asked EXCEPT ![c] = Uncovered(c)]
             /\ ShowPrompt(c)
    <3>1. Uncovered(c) \subseteq Perms
      BY DEF Uncovered
    <3> HIDE DEF Uncovered
    <3>2. asked' \in [Calls -> SUBSET Perms]
      BY <2>2, <3>1
    <3>3. /\ phase' \in [Calls -> Phases]
          /\ ui' \in Calls \union {NoCall}
          /\ pending' \in {"none", "open", "yes", "no", "cancelled"}
      BY <2>2 DEF ShowPrompt
    <3> QED
      BY <1>2, <2>2, <3>2, <3>3 DEF Evaluate
  <2> QED
    BY <1>2, <2>1, <2>2 DEF Evaluate
<1>3. CASE OpenPrompt(c)
  BY <1>3 DEF OpenPrompt, ShowPrompt
<1>4. CASE Resume(c)
  BY <1>4 DEF Resume
<1>5. CASE Closed(c)
  BY <1>5 DEF Closed
<1>6. CASE AskUser(c)
  BY <1>6 DEF AskUser
<1>7. CASE QuestionClosed(c)
  BY <1>7 DEF QuestionClosed
<1>8. CASE CancelWaiting(c)
  BY <1>8 DEF CancelWaiting
<1>9. CASE CancelOpen(c)
  BY <1>9 DEF CancelOpen
<1>10. CASE CancelClosing(c)
  BY <1>10 DEF CancelClosing
<1> QED
  BY <1>1, <1>2, <1>3, <1>4, <1>5, <1>6, <1>7, <1>8, <1>9, <1>10 DEF CallStep

\* Every other step does.
LEMMA OtherStepType ==
  ASSUME TypeOK,
         \/ \E c \in Calls : ToolStep(c) \/ UserStep(c)
         \/ Deliver
         \/ \E t \in Turns : StartTurn(t) \/ EndTurn(t) \/ Interrupt(t) \/ Reap(t)
         \/ \E l \in Loops \ {Main} : ReapSub(l)
         \/ \E p \in Profiles : SwitchAgent(p)
         \/ UNCHANGED vars
  PROVE  TypeOK'
<1> USE CallsAssumption, ConfigAssumption
    DEF TypeOK, Phases, Permission, Locked, OnScreen, Settled, Answers,
        callVars, lockVars, permVars, userVars, Move, Awake
<1>1. ASSUME NEW c \in Calls, ToolStep(c) PROVE TypeOK'
  <2>1. CASE Finish(c)
    BY <2>1 DEF Finish
  <2>2. CASE Spawn(c)
    BY <2>2 DEF Spawn
  <2>3. ASSUME NEW p \in Profiles, SwitchByTool(c, p) PROVE TypeOK'
    BY <2>3 DEF SwitchByTool, SwitchTo
  <2> QED
    BY <1>1, <2>1, <2>2, <2>3 DEF ToolStep
<1>2. ASSUME NEW c \in Calls, UserStep(c) PROVE TypeOK'
  <2>1. CASE AnswerQuestion(c)
    BY <2>1 DEF AnswerQuestion
  <2>2. ASSUME NEW a \in Answers, Press(c, a) PROVE TypeOK'
    BY <2>2 DEF Press, Message
  <2> QED
    BY <1>2, <2>1, <2>2 DEF UserStep
<1>3. CASE Deliver
  <2> DEFINE m == Head(uiQ)
  <2>1. m \in Message
    BY <1>3 DEF Deliver
  <2>2. rules' \in [Loops -> SUBSET (Tools \X Perms)] /\ toolPerm' \in [Loops -> [Tools -> Permission]]
    <3>1. {m.tool} \X m.perms \subseteq Tools \X Perms /\ m.tool \in Tools
      BY <2>1 DEF Message
    <3>2. CASE m.answer = "always" /\ m.perms # {}
      <4>1. /\ rules' = [rules EXCEPT ![Main] = @ \union ({m.tool} \X m.perms)]
            /\ toolPerm' = toolPerm
        BY <1>3, <3>2 DEF Deliver, ApproveAlways
      <4>2. rules[Main] \union ({m.tool} \X m.perms) \in SUBSET (Tools \X Perms)
        BY <3>1
      <4> QED
        BY <4>1, <4>2
    <3>3. CASE m.answer = "always" /\ m.perms = {}
      <4>1. /\ rules' = rules
            /\ toolPerm' = [toolPerm EXCEPT ![Main][m.tool] = "always"]
        BY <1>3, <3>3 DEF Deliver, ApproveAlways
      <4> QED
        BY <3>1, <4>1
    <3>4. CASE m.answer # "always"
      BY <1>3, <3>4 DEF Deliver
    <3> QED
      BY <3>2, <3>3, <3>4
  <2>3. granted' \subseteq Tools \X Perms
    <3>1. m.tool \in Tools /\ m.perms \subseteq Perms
      BY <2>1 DEF Message
    <3>2. {m.tool} \X m.perms \subseteq Tools \X Perms
      BY <3>1
    <3>3. \/ granted' = granted
          \/ granted' = granted \union ({m.tool} \X m.perms)
      BY <1>3 DEF Deliver
    <3> QED
      BY <3>2, <3>3
  <2>4. uiQ' \in Seq(Message)
    BY <1>3 DEF Deliver
  <2> QED
    BY <1>3, <2>2, <2>3, <2>4 DEF Deliver
<1>4. ASSUME NEW t \in Turns, StartTurn(t) \/ EndTurn(t) \/ Interrupt(t) \/ Reap(t)
      PROVE TypeOK'
  <2>1. CASE StartTurn(t)
    BY <2>1 DEF StartTurn
  <2>2. CASE EndTurn(t)
    BY <2>2 DEF EndTurn
  <2>3. CASE Interrupt(t)
    BY <2>3 DEF Interrupt
  <2>4. CASE Reap(t)
    BY <2>4 DEF Reap, CancelTasks, MainCalls
  <2> QED
    BY <1>4, <2>1, <2>2, <2>3, <2>4
<1>5. ASSUME NEW l \in Loops \ {Main}, ReapSub(l) PROVE TypeOK'
  BY <1>5 DEF ReapSub, CancelTasks, Children
<1>6. ASSUME NEW p \in Profiles, SwitchAgent(p) PROVE TypeOK'
  BY <1>6 DEF SwitchAgent, SwitchTo
<1>7. CASE UNCHANGED vars
  BY <1>7 DEF vars
<1> QED
  BY <1>1, <1>2, <1>3, <1>4, <1>5, <1>6, <1>7

\* The state is always well-typed.
THEOREM TypeCorrect == Spec => []TypeOK
<1>1. Init => TypeOK
  BY InitInv DEF IInv
<1>2. TypeOK /\ [Next]_vars => TypeOK'
  BY CallStepType, OtherStepType DEF Next
<1> QED
  BY <1>1, <1>2, PTL DEF Spec

-----------------------------------------------------------------------------
\* A step of one task keeps the locks in agreement with all the tasks.
LEMMA CallStepLocks ==
  ASSUME IInv, NEW c \in Calls, CallStep(c)
  PROVE  LocksConsistent' /\ PendingOwned' /\ IdleTurnsOff'
<1> USE CallsAssumption
    DEF IInv, TypeOK, LocksConsistent, PendingOwned, IdleTurnsOff, MainCalls,
        Locked, OnScreen, lockVars, Move, Awake
<1>1. CASE Begin(c)
  BY <1>1 DEF Begin
<1>2. CASE Evaluate(c)
  <2>1. CASE UNCHANGED <<lockVars, asked>> /\ (Move(c, "run") \/ Move(c, "skipped"))
    BY <1>2, <2>1 DEF Evaluate
  <2>2. CASE /\ lock' = [lock EXCEPT ![LoopOf[c]] = c]
             /\ ShowPrompt(c)
    BY <1>2, <2>2 DEF Evaluate, ShowPrompt
  <2> QED
    BY <1>2, <2>1, <2>2 DEF Evaluate
<1>3. CASE OpenPrompt(c)
  BY <1>3 DEF OpenPrompt, ShowPrompt
<1>4. CASE Resume(c)
  BY <1>4 DEF Resume
<1>5. CASE Closed(c)
  BY <1>5 DEF Closed
<1>6. CASE AskUser(c)
  BY <1>6 DEF AskUser
<1>7. CASE QuestionClosed(c)
  BY <1>7 DEF QuestionClosed
<1>8. CASE CancelWaiting(c)
  BY <1>8 DEF CancelWaiting
<1>9. CASE CancelOpen(c)
  BY <1>9 DEF CancelOpen
<1>10. CASE CancelClosing(c)
  BY <1>10 DEF CancelClosing
<1> QED
  BY <1>1, <1>2, <1>3, <1>4, <1>5, <1>6, <1>7, <1>8, <1>9, <1>10 DEF CallStep

\* So does every other step.
LEMMA OtherStepLocks ==
  ASSUME IInv,
         \/ \E c \in Calls : ToolStep(c) \/ UserStep(c)
         \/ Deliver
         \/ \E t \in Turns : StartTurn(t) \/ EndTurn(t) \/ Interrupt(t) \/ Reap(t)
         \/ \E l \in Loops \ {Main} : ReapSub(l)
         \/ \E p \in Profiles : SwitchAgent(p)
         \/ UNCHANGED vars
  PROVE  LocksConsistent' /\ PendingOwned' /\ IdleTurnsOff'
<1> USE CallsAssumption
    DEF IInv, TypeOK, LocksConsistent, PendingOwned, IdleTurnsOff, MainCalls,
        Locked, OnScreen, callVars, lockVars, Move, Awake
<1>1. ASSUME NEW c \in Calls, ToolStep(c)
      PROVE  LocksConsistent' /\ PendingOwned' /\ IdleTurnsOff'
  <2>1. CASE Finish(c)
    BY <2>1 DEF Finish
  <2>2. CASE Spawn(c)
    BY <2>2 DEF Spawn
  <2>3. ASSUME NEW p \in Profiles, SwitchByTool(c, p)
        PROVE  LocksConsistent' /\ PendingOwned' /\ IdleTurnsOff'
    BY <2>3 DEF SwitchByTool
  <2> QED
    BY <1>1, <2>1, <2>2, <2>3 DEF ToolStep
<1>2. ASSUME NEW c \in Calls, UserStep(c)
      PROVE  LocksConsistent' /\ PendingOwned' /\ IdleTurnsOff'
  <2>1. CASE AnswerQuestion(c)
    BY <2>1 DEF AnswerQuestion
  <2>2. ASSUME NEW a \in Answers, Press(c, a)
        PROVE  LocksConsistent' /\ PendingOwned' /\ IdleTurnsOff'
    BY <2>2 DEF Press
  <2> QED
    BY <1>2, <2>1, <2>2 DEF UserStep
<1>3. CASE Deliver
  <2>1. /\ UNCHANGED <<phase, lock, ui, turn>>
        /\ pending = "none" <=> pending' = "none"
    BY <1>3 DEF Deliver
  <2> QED
    BY <2>1
<1>4. ASSUME NEW t \in Turns, StartTurn(t) \/ EndTurn(t) \/ Interrupt(t) \/ Reap(t)
      PROVE  LocksConsistent' /\ PendingOwned' /\ IdleTurnsOff'
  <2>1. CASE StartTurn(t)
    BY <2>1 DEF StartTurn
  <2>2. CASE EndTurn(t)
    BY <2>2 DEF EndTurn
  <2>3. CASE Interrupt(t)
    BY <2>3 DEF Interrupt
  <2>4. CASE Reap(t)
    BY <2>4 DEF Reap, CancelTasks
  <2> QED
    BY <1>4, <2>1, <2>2, <2>3, <2>4
<1>5. ASSUME NEW l \in Loops \ {Main}, ReapSub(l)
      PROVE  LocksConsistent' /\ PendingOwned' /\ IdleTurnsOff'
  BY <1>5 DEF ReapSub, CancelTasks
<1>6. ASSUME NEW p \in Profiles, SwitchAgent(p)
      PROVE  LocksConsistent' /\ PendingOwned' /\ IdleTurnsOff'
  BY <1>6 DEF SwitchAgent
<1>7. CASE UNCHANGED vars
  BY <1>7 DEF vars
<1> QED
  BY <1>1, <1>2, <1>3, <1>4, <1>5, <1>6, <1>7

\* The inductive invariant holds in every reachable state.
THEOREM Invariance == Spec => []IInv
<1>1. IInv /\ [Next]_vars => IInv'
  <2> SUFFICES ASSUME IInv, [Next]_vars PROVE IInv'
    OBVIOUS
  <2>1. TypeOK'
    BY CallStepType, OtherStepType DEF Next, IInv
  <2>2. LocksConsistent' /\ PendingOwned' /\ IdleTurnsOff'
    BY CallStepLocks, OtherStepLocks DEF Next
  <2> QED
    BY <2>1, <2>2 DEF IInv
<1> QED
  BY InitInv, <1>1, PTL DEF Spec

\* The approval locks and the UI lock are held by exactly the tasks that are
\* between their acquisition and their release, for any number of calls, loops
\* and turns.
THEOREM LocksSafe == Spec => []LocksConsistent
<1>1. IInv => LocksConsistent
  BY DEF IInv
<1> QED
  BY Invariance, <1>1, PTL

\* The future that answers resolve belongs to the prompt on the screen.
THEOREM PendingSafe == Spec => []PendingOwned
<1>1. IInv => PendingOwned
  BY DEF IInv
<1> QED
  BY Invariance, <1>1, PTL

-----------------------------------------------------------------------------
(* Grants stick, when no subagent runs. *)

\* What was granted is in the session rules, and a call that waits for the UI
\* still needs something that was not granted.
GrantsKnown ==
  /\ \A t \in Tools, p \in Perms : <<t, p>> \in granted => <<t, p>> \in rules[Main]
  /\ \A c \in Calls : phase[c] = "uiwait" /\ Needs[c] # {} =>
       \E p \in Needs[c] : <<Tool[c], p>> \notin granted

\* Only an evaluation makes a call wait for the UI, only an evaluation or the
\* end of that wait opens a prompt, and only a handled answer grants anything.
LEMMA WhoAsks ==
  ASSUME IInv, [Next]_vars
  PROVE  /\ \A d \in Calls : phase[d] # "uiwait" /\ phase'[d] = "uiwait" => Evaluate(d)
         /\ \A d \in Calls : PromptOpens(d) => Evaluate(d) \/ OpenPrompt(d)
         /\ Deliver \/ UNCHANGED <<rules, granted>>
<1> DEFINE Goal == /\ \A d \in Calls : phase[d] # "uiwait" /\ phase'[d] = "uiwait" => Evaluate(d)
                   /\ \A d \in Calls : PromptOpens(d) => Evaluate(d) \/ OpenPrompt(d)
                   /\ Deliver \/ UNCHANGED <<rules, granted>>
<1> SUFFICES Goal
  OBVIOUS
<1> USE DEF IInv, TypeOK, PromptOpens, callVars, permVars, Move, Awake
<1>1. ASSUME NEW c \in Calls, CallStep(c) PROVE Goal
  <2>1. CASE Begin(c)
    BY <2>1 DEF Begin
  <2>2. CASE Evaluate(c)
    <3>1. phase' = [phase EXCEPT ![c] = phase'[c]]
      BY <2>2 DEF Evaluate, ShowPrompt
    <3>2. UNCHANGED <<rules, granted>>
      BY <2>2 DEF Evaluate
    <3> QED
      BY <2>2, <3>1, <3>2
  <2>3. CASE OpenPrompt(c)
    BY <2>3 DEF OpenPrompt, ShowPrompt
  <2>4. CASE Resume(c)
    BY <2>4 DEF Resume
  <2>5. CASE Closed(c)
    BY <2>5 DEF Closed
  <2>6. CASE AskUser(c)
    BY <2>6 DEF AskUser
  <2>7. CASE QuestionClosed(c)
    BY <2>7 DEF QuestionClosed
  <2>8. CASE CancelWaiting(c)
    BY <2>8 DEF CancelWaiting
  <2>9. CASE CancelOpen(c)
    BY <2>9 DEF CancelOpen
  <2>10. CASE CancelClosing(c)
    BY <2>10 DEF CancelClosing
  <2> QED
    BY <1>1, <2>1, <2>2, <2>3, <2>4, <2>5, <2>6, <2>7, <2>8, <2>9, <2>10 DEF CallStep
<1>2. ASSUME NEW c \in Calls, ToolStep(c) PROVE Goal
  BY <1>2 DEF ToolStep, Finish, Spawn, SwitchByTool, SwitchTo
<1>3. ASSUME NEW c \in Calls, UserStep(c) PROVE Goal
  BY <1>3 DEF UserStep, AnswerQuestion, Press
<1>4. CASE Deliver
  BY <1>4 DEF Deliver
<1>5. ASSUME NEW t \in Turns, StartTurn(t) \/ EndTurn(t) \/ Interrupt(t) \/ Reap(t)
      PROVE  Goal
  <2>1. CASE StartTurn(t) \/ Interrupt(t)
    BY <2>1 DEF StartTurn, Interrupt
  <2>2. CASE EndTurn(t) \/ Reap(t)
    BY <2>2 DEF EndTurn, Reap, CancelTasks
  <2> QED
    BY <1>5, <2>1, <2>2
<1>6. ASSUME NEW l \in Loops \ {Main}, ReapSub(l) PROVE Goal
  BY <1>6 DEF ReapSub, CancelTasks
<1>7. ASSUME NEW p \in Profiles, SwitchAgent(p) PROVE Goal
  BY <1>7 DEF SwitchAgent, SwitchTo
<1>8. CASE UNCHANGED vars
  BY <1>8 DEF vars
<1> QED
  BY <1>1, <1>2, <1>3, <1>4, <1>5, <1>6, <1>7, <1>8 DEF Next

\* A call that must ask needs something that the session has not granted.
LEMMA AsksUngranted ==
  ASSUME Loops = {Main}, IInv, GrantsKnown, NEW c \in Calls, Needs[c] # {},
         Evaluate(c), phase'[c] \in {"uiwait", "prompt"}
  PROVE  \E p \in Needs[c] : <<Tool[c], p>> \notin granted
<1>1. MustAsk(c)
  BY DEF Evaluate, Move, IInv, TypeOK
<1>2. PICK p \in Needs[c] : <<Tool[c], p>> \notin rules[LoopOf[c]]
  BY <1>1 DEF MustAsk, Covered, Uncovered
<1>3. LoopOf[c] = Main /\ Tool[c] \in Tools /\ p \in Perms
  BY CallsAssumption, ConfigAssumption
<1> QED
  BY <1>2, <1>3 DEF GrantsKnown

\* In a session of one loop nothing that was granted for its rest is asked for
\* again: the approval lock keeps every later call from being evaluated before
\* the answer is in the rules.
THEOREM GrantsStickOneLoop == ASSUME Loops = {Main} PROVE Spec => GrantsStick
<1>1. Init => GrantsKnown
  BY DEF Init, GrantsKnown
<1>2. IInv /\ GrantsKnown /\ [Next]_vars => GrantsKnown'
  <2> SUFFICES ASSUME IInv, GrantsKnown, [Next]_vars PROVE GrantsKnown'
    OBVIOUS
  <2>1. CASE Deliver
    <3>1. ASSUME pending = "open", NEW c \in Calls PROVE phase[c] # "uiwait"
      <4>1. /\ phase[ui] = "prompt" /\ ui \in Calls
        BY <3>1, CallsAssumption DEF IInv, PendingOwned, TypeOK
      <4>2. LoopOf[ui] = Main /\ LoopOf[c] = Main
        BY <4>1, CallsAssumption
      <4> QED
        BY <4>1, <4>2 DEF IInv, LocksConsistent, Locked
    <3>2. \A c \in Calls : phase'[c] = phase[c]
      BY <2>1 DEF Deliver, callVars
    <3>3. pending # "open" => granted' = granted
      BY <2>1 DEF Deliver
    <3>4. ASSUME NEW t \in Tools, NEW p \in Perms, <<t, p>> \in granted'
          PROVE  <<t, p>> \in rules'[Main]
      <4> DEFINE m == Head(uiQ)
      <4>1. rules[Main] \subseteq rules'[Main]
        BY <2>1, CallsAssumption DEF Deliver, ApproveAlways, IInv, TypeOK
      <4>2. CASE <<t, p>> \in granted
        BY <4>1, <4>2 DEF GrantsKnown
      <4>3. CASE <<t, p>> \notin granted
        <5>1. m.answer = "always" /\ <<t, p>> \in {m.tool} \X m.perms
          BY <2>1, <3>4, <4>3 DEF Deliver
        <5>2. m.perms # {}
          BY <5>1
        <5>3. rules' = [rules EXCEPT ![Main] = @ \union ({m.tool} \X m.perms)]
          BY <2>1, <5>1, <5>2 DEF Deliver, ApproveAlways
        <5> QED
          BY <5>1, <5>3, CallsAssumption DEF IInv, TypeOK
      <4> QED
        BY <4>2, <4>3
    <3> QED
      BY <3>1, <3>2, <3>3, <3>4 DEF GrantsKnown
  <2>2. CASE UNCHANGED <<rules, granted>>
    <3>1. ASSUME NEW c \in Calls, phase'[c] = "uiwait", Needs[c] # {}
          PROVE  \E p \in Needs[c] : <<Tool[c], p>> \notin granted
      BY <3>1, WhoAsks, AsksUngranted DEF GrantsKnown
    <3> QED
      BY <2>2, <3>1 DEF GrantsKnown
  <2> QED
    BY <2>1, <2>2, WhoAsks
<1>3. IInv /\ GrantsKnown /\ [Next]_vars =>
        [\A c \in Calls : PromptOpens(c) /\ Needs[c] # {} =>
           \E p \in Needs[c] : <<Tool[c], p>> \notin granted]_vars
  <2> SUFFICES ASSUME IInv, GrantsKnown, [Next]_vars,
                      NEW c \in Calls, PromptOpens(c), Needs[c] # {}
               PROVE  \E p \in Needs[c] : <<Tool[c], p>> \notin granted
    OBVIOUS
  <2>1. CASE Evaluate(c)
    BY <2>1, AsksUngranted DEF PromptOpens
  <2>2. CASE OpenPrompt(c)
    BY <2>2 DEF OpenPrompt, Awake, GrantsKnown
  <2> QED
    BY <2>1, <2>2, WhoAsks
<1> QED
  BY Invariance, <1>1, <1>2, <1>3, PTL DEF Spec, GrantsStick
-----------------------------------------------------------------------------
(* One key lets one call run. *)

YesCalls == {c \in Calls : verdict[c] = "yes"}
YesPosted == {i \in 1..Len(uiQ) : uiQ[i].answer # "no"}
YesKeys ==
  {x \in Calls \X (1..MaxPress) : x[2] <= Len(pressed[x[1]]) /\ pressed[x[1]][x[2]] # "no"}
YesPending == IF pending = "yes" THEN 1 ELSE 0

\* Every key that says yes is posted once, handled once, and then resolves one prompt or
\* none, which lets one call run.
KeysPaid == Cardinality(YesCalls) + YesPending + Cardinality(YesPosted) <= Cardinality(YesKeys)

LEMMA KeysFinite ==
  ASSUME TypeOK, IsFiniteSet(Calls)
  PROVE  /\ IsFiniteSet(YesCalls) /\ Cardinality(YesCalls) \in Nat
         /\ IsFiniteSet(YesPosted) /\ Cardinality(YesPosted) \in Nat
         /\ IsFiniteSet(YesKeys) /\ Cardinality(YesKeys) \in Nat
<1>1. IsFiniteSet(YesCalls)
  BY FS_Subset DEF YesCalls
<1>2. Len(uiQ) \in Nat
  BY DEF TypeOK
<1>3. IsFiniteSet(YesPosted)
  <2>1. IsFiniteSet(1..Len(uiQ))
    BY <1>2, FS_Interval
  <2>2. YesPosted \subseteq 1..Len(uiQ)
    BY DEF YesPosted
  <2> QED
    BY <2>1, <2>2, FS_Subset
<1>4. IsFiniteSet(Calls \X (1..MaxPress))
  <2>1. IsFiniteSet(1..MaxPress)
    BY BoundsAssumption, FS_Interval
  <2> QED
    BY <2>1, FS_Product
<1>5. IsFiniteSet(YesKeys)
  BY <1>4, FS_Subset DEF YesKeys
<1> QED
  BY <1>1, <1>3, <1>5, FS_CardinalityType

\* A key is posted.
LEMMA PressPays ==
  ASSUME TypeOK, IsFiniteSet(Calls), KeysPaid, NEW c \in Calls, NEW a \in Answers, Press(c, a)
  PROVE  KeysPaid'
<1>1. /\ Len(pressed[c]) \in Nat /\ Len(pressed[c]) + 1 <= MaxPress /\ pressed[c] \in Seq(Answers)
      /\ pressed' = [pressed EXCEPT ![c] = Append(pressed[c], a)]
      /\ uiQ \in Seq(Message)
      /\ uiQ' = Append(uiQ, [tool |-> Tool[c], perms |-> asked[c], answer |-> a])
  BY BoundsAssumption DEF Press, TypeOK
<1>2. YesCalls' = YesCalls /\ YesPending' = YesPending
  BY DEF Press, callVars, lockVars, YesCalls, YesPending
<1>3. YesPosted' = IF a # "no" THEN YesPosted \union {Len(uiQ) + 1} ELSE YesPosted
  BY <1>1 DEF YesPosted
<1>4. Len(uiQ) + 1 \notin YesPosted
  BY <1>1 DEF YesPosted
<1>5. YesKeys' = IF a # "no" THEN YesKeys \union {<<c, Len(pressed[c]) + 1>>} ELSE YesKeys
  <2>1. ASSUME NEW x \in Calls \X (1..MaxPress), x[1] # c
        PROVE  x \in YesKeys' <=> x \in YesKeys
    BY <1>1, <2>1 DEF YesKeys, TypeOK
  <2>2. ASSUME NEW x \in Calls \X (1..MaxPress), x[1] = c
        PROVE  x \in YesKeys' <=> x \in YesKeys \/ (x[2] = Len(pressed[c]) + 1 /\ a # "no")
    <3>1. pressed'[c] = Append(pressed[c], a)
      BY <1>1 DEF TypeOK
    <3> QED
      BY <1>1, <2>2, <3>1 DEF YesKeys
  <2>3. <<c, Len(pressed[c]) + 1>> \in Calls \X (1..MaxPress)
    BY <1>1, BoundsAssumption
  <2>4. \A x \in Calls \X (1..MaxPress) :
          x = <<c, Len(pressed[c]) + 1>> <=> x[1] = c /\ x[2] = Len(pressed[c]) + 1
    OBVIOUS
  <2>5. YesKeys \subseteq Calls \X (1..MaxPress) /\ YesKeys' \subseteq Calls \X (1..MaxPress)
    BY DEF YesKeys
  <2> QED
    BY <2>1, <2>2, <2>3, <2>4, <2>5
<1>6. <<c, Len(pressed[c]) + 1>> \notin YesKeys
  BY <1>1 DEF YesKeys
<1>7. Cardinality(YesPosted \union {Len(uiQ) + 1}) = Cardinality(YesPosted) + 1
  BY <1>4, KeysFinite, FS_AddElement
<1>8. Cardinality(YesKeys \union {<<c, Len(pressed[c]) + 1>>}) = Cardinality(YesKeys) + 1
  BY <1>6, KeysFinite, FS_AddElement
<1>9. YesPending \in Nat
  BY DEF YesPending
<1> HIDE DEF YesPending
<1>10. CASE a # "no"
  BY <1>2, <1>3, <1>5, <1>7, <1>8, <1>9, <1>10, KeysFinite DEF KeysPaid
<1>11. CASE a = "no"
  BY <1>2, <1>3, <1>5, <1>11 DEF KeysPaid
<1> QED
  BY <1>10, <1>11

\* A message leaves the queue; the others move up.
LEMMA DeliverPays ==
  ASSUME TypeOK, IsFiniteSet(Calls), KeysPaid, Deliver
  PROVE  KeysPaid'
<1>1. /\ uiQ \in Seq(Message) /\ uiQ # <<>> /\ uiQ' = Tail(uiQ) /\ Len(uiQ) \in Nat
      /\ Len(uiQ') = Len(uiQ) - 1 /\ \A i \in 1..Len(uiQ') : uiQ'[i] = uiQ[i + 1]
      /\ Head(uiQ) = uiQ[1]
  BY DEF Deliver, TypeOK
<1>2. YesCalls' = YesCalls /\ YesKeys' = YesKeys
  BY DEF Deliver, callVars, YesCalls, YesKeys
<1>3. Cardinality(YesPosted') = Cardinality(YesPosted \ {1})
  <2> DEFINE f == [i \in YesPosted' |-> i + 1]
  <2>1. \A i \in YesPosted' : i \in Nat /\ i + 1 \in YesPosted \ {1}
    BY <1>1 DEF YesPosted
  <2>2. \A j \in YesPosted \ {1} : j \in Nat /\ j - 1 \in YesPosted' /\ (j - 1) + 1 = j
    BY <1>1 DEF YesPosted
  <2>3. f \in Injection(YesPosted', YesPosted \ {1})
    BY <2>1 DEF Injection, IsInjective
  <2>4. f \in Surjection(YesPosted', YesPosted \ {1})
    BY <2>1, <2>2 DEF Surjection
  <2>5. IsFiniteSet(YesPosted \ {1})
    BY KeysFinite, FS_RemoveElement
  <2> HIDE DEF f
  <2> QED
    BY <2>3, <2>4, <2>5, FS_Injection
<1>4. 1 \in YesPosted <=> Head(uiQ).answer # "no"
  BY <1>1 DEF YesPosted
<1>5. pending' = IF pending # "open" THEN pending ELSE IF Head(uiQ).answer = "no" THEN "no" ELSE "yes"
  BY DEF Deliver
<1>6. 1 \in YesPosted => Cardinality(YesPosted \ {1}) = Cardinality(YesPosted) - 1
  BY KeysFinite, FS_RemoveElement
<1>7. 1 \notin YesPosted => YesPosted \ {1} = YesPosted
  OBVIOUS
<1>8. CASE 1 \in YesPosted
  <2>1. YesPending' <= YesPending + 1 /\ YesPending \in Nat /\ YesPending' \in Nat
    BY DEF YesPending
  <2>2. Cardinality(YesPosted') = Cardinality(YesPosted) - 1
    BY <1>3, <1>6, <1>8
  <2> QED
    BY <1>2, <2>1, <2>2, KeysFinite DEF KeysPaid
<1>9. CASE 1 \notin YesPosted
  <2>1. YesPending' = YesPending
    BY <1>4, <1>5, <1>9 DEF YesPending
  <2>2. Cardinality(YesPosted') = Cardinality(YesPosted)
    BY <1>3, <1>7, <1>9
  <2> QED
    BY <1>2, <2>1, <2>2 DEF KeysPaid
<1> QED
  BY <1>8, <1>9

\* The prompt takes the answer that resolved its future.
LEMMA ResumePays ==
  ASSUME TypeOK, IsFiniteSet(Calls), KeysPaid, NEW c \in Calls, Resume(c)
  PROVE  KeysPaid'
<1>1. YesPosted' = YesPosted /\ YesKeys' = YesKeys /\ YesPending' = 0
  BY DEF Resume, userVars, YesPosted, YesKeys, YesPending
<1>2. YesCalls' = IF pending = "yes" THEN YesCalls \union {c} ELSE YesCalls \ {c}
  BY DEF Resume, YesCalls, TypeOK
<1>3. CASE pending = "yes"
  <2>1. Cardinality(YesCalls') <= Cardinality(YesCalls) + 1 /\ Cardinality(YesCalls') \in Nat
    <3>1. /\ IsFiniteSet(YesCalls \union {c})
          /\ Cardinality(YesCalls \union {c}) =
               IF c \in YesCalls THEN Cardinality(YesCalls) ELSE Cardinality(YesCalls) + 1
      BY KeysFinite, FS_AddElement
    <3> QED
      BY <1>2, <1>3, <3>1, KeysFinite
  <2>2. YesPending = 1
    BY <1>3 DEF YesPending
  <2> QED
    BY <1>1, <2>1, <2>2, KeysFinite DEF KeysPaid
<1>4. CASE pending # "yes"
  <2>1. Cardinality(YesCalls') <= Cardinality(YesCalls) /\ Cardinality(YesCalls') \in Nat
    BY <1>2, <1>4, KeysFinite, FS_Subset, FS_CardinalityType
  <2>2. YesPending = 0
    BY <1>4 DEF YesPending
  <2> QED
    BY <1>1, <2>1, <2>2, KeysFinite DEF KeysPaid
<1> QED
  BY <1>3, <1>4

\* Nothing else says yes for a call, posts an answer or resolves a prompt with yes.
LEMMA OthersPayNothing ==
  ASSUME TypeOK, IsFiniteSet(Calls), KeysPaid, UNCHANGED <<uiQ, pressed>>,
         \A c \in Calls : verdict'[c] = "yes" => verdict[c] = "yes",
         pending' = "yes" => pending = "yes"
  PROVE  KeysPaid'
<1>1. YesPosted' = YesPosted /\ YesKeys' = YesKeys /\ YesPending' <= YesPending /\ YesPending \in Nat /\ YesPending' \in Nat
  BY DEF YesPosted, YesKeys, YesPending
<1>2. YesCalls' \subseteq YesCalls
  BY DEF YesCalls
<1>3. Cardinality(YesCalls') <= Cardinality(YesCalls) /\ Cardinality(YesCalls') \in Nat
  BY <1>2, KeysFinite, FS_Subset, FS_CardinalityType
<1> QED
  BY <1>1, <1>3, KeysFinite DEF KeysPaid

LEMMA StepPays ==
  ASSUME IInv, IsFiniteSet(Calls), KeysPaid, [Next]_vars
  PROVE  KeysPaid'
<1> USE DEF IInv, callVars, lockVars, permVars, userVars
<1>1. ASSUME NEW c \in Calls, CallStep(c) PROVE KeysPaid'
  <2>1. CASE Resume(c)
    BY <2>1, ResumePays
  <2>2. CASE Evaluate(c) \/ OpenPrompt(c)
    BY <2>2, OthersPayNothing DEF Evaluate, OpenPrompt, ShowPrompt
  <2>3. CASE Begin(c) \/ Closed(c) \/ AskUser(c) \/ QuestionClosed(c)
    BY <2>3, OthersPayNothing DEF Begin, Closed, AskUser, QuestionClosed
  <2>4. CASE CancelWaiting(c) \/ CancelClosing(c)
    BY <2>4, OthersPayNothing DEF CancelWaiting, CancelClosing
  <2>5. CASE CancelOpen(c)
    BY <2>5, OthersPayNothing DEF CancelOpen, TypeOK
  <2> QED
    BY <1>1, <2>1, <2>2, <2>3, <2>4, <2>5 DEF CallStep
<1>2. ASSUME NEW c \in Calls, ToolStep(c) PROVE KeysPaid'
  BY <1>2, OthersPayNothing DEF ToolStep, Finish, Spawn, SwitchByTool
<1>3. ASSUME NEW c \in Calls, UserStep(c) PROVE KeysPaid'
  BY <1>3, PressPays, OthersPayNothing DEF UserStep, AnswerQuestion
<1>4. CASE Deliver
  BY <1>4, DeliverPays
<1>5. ASSUME NEW t \in Turns, StartTurn(t) \/ EndTurn(t) \/ Interrupt(t) \/ Reap(t) PROVE KeysPaid'
  BY <1>5, OthersPayNothing DEF StartTurn, EndTurn, Interrupt, Reap, CancelTasks
<1>6. ASSUME NEW l \in Loops \ {Main}, ReapSub(l) PROVE KeysPaid'
  BY <1>6, OthersPayNothing DEF ReapSub, CancelTasks
<1>7. ASSUME NEW p \in Profiles, SwitchAgent(p) PROVE KeysPaid'
  BY <1>7, OthersPayNothing DEF SwitchAgent
<1>8. CASE UNCHANGED vars
  BY <1>8, OthersPayNothing DEF vars
<1> QED
  BY <1>1, <1>2, <1>3, <1>4, <1>5, <1>6, <1>7, <1>8 DEF Next

\* One key press lets at most one call run, for any number of calls, subagents, turns and
\* keys, however late the answers are handled (app.py, _approval_callback and the handlers
\* of the prompt's messages).
THEOREM OneKeyOneCallSafe == ASSUME IsFiniteSet(Calls) PROVE Spec => []OneKeyOneCall
<1>1. Init => KeysPaid
  <2> SUFFICES ASSUME Init PROVE KeysPaid
    OBVIOUS
  <2>1. YesCalls = {} /\ YesPosted = {} /\ YesKeys = {} /\ YesPending = 0
    BY DEF Init, YesCalls, YesPosted, YesKeys, YesPending
  <2> QED
    BY <2>1, FS_EmptySet DEF KeysPaid
<1>2. IInv /\ KeysPaid /\ [Next]_vars => KeysPaid'
  BY StepPays
<1>3. IInv /\ KeysPaid => OneKeyOneCall
  BY KeysFinite DEF IInv, KeysPaid, OneKeyOneCall, YesCalls, YesKeys, YesPending
<1> QED
  BY Invariance, <1>1, <1>2, <1>3, PTL DEF Spec

=============================================================================
