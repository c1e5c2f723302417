----------------------------- MODULE MCToolGate -----------------------------
(***************************************************************************)
(* Instances of ToolGate.  In the first, a main loop issues two calls that *)
(* need the same permission and a question in its first turn, and a third  *)
(* call with the same need in its second turn.  In the second, a task call *)
(* runs a subagent that issues a call, beside a call of the main loop to a *)
(* tool whose prompts list no permission.                                  *)
(***************************************************************************)
EXTENDS ToolGate, TLC

CONSTANTS c1, c2, c3, c4, main, sub, bash, edit, task, p1, dflt, auto

MCTools == {bash, edit, task}
MCProfiles == {dflt, auto}
MCBypass == (dflt :> FALSE) @@ (auto :> TRUE)
MCEnabled == (dflt :> MCTools) @@ (auto :> {edit, task})
MCSubPerm == [t \in MCTools |-> "ask"]
MCToolPerm == [p \in MCProfiles |-> MCSubPerm]

\* c1, c2 and the question c4 in turn 1, c3 in turn 2
OneLoop == [c \in Calls |-> main]
NoSub == [l \in {} |-> c1]
NoSubBypass == [l \in {} |-> FALSE]
TwoTurns == [c \in Calls |-> IF c = c3 THEN 2 ELSE 1]

BashCalls == [c \in Calls |-> IF c = c4 THEN task ELSE bash]
BashNeeds == [c \in Calls |-> IF c = c4 THEN {} ELSE {p1}]
BashCtx == [c \in Calls |-> IF c = c4 THEN "always" ELSE "ask"]

SubCalls == [BashCalls EXCEPT ![c1] = edit]
SubNeeds == [BashNeeds EXCEPT ![c1] = {}]
SubCtx == [BashCtx EXCEPT ![c1] = "none"]

\* c4 runs the subagent, which issues c2 and c3; c1 is a call of the main loop
SubLoop == [c \in Calls |-> IF c \in {c2, c3} THEN sub ELSE main]
SubParent == sub :> c4
SubAsks == sub :> FALSE
OneTurn == [c \in Calls |-> 1]
=============================================================================
