------------------------------- MODULE Teleport -------------------------------
(***************************************************************************)
(* /teleport: the session goes on in a remote workspace.  The service      *)
(* describes the workspace by a commit, a branch and a diff, has the       *)
(* commit pushed if the user agrees, starts a workflow with it and waits   *)
(* until that is connected; the application follows its events.  Meanwhile *)
(* the user, or the agent, works on in the repository.                     *)
(*                                                                         *)
(* A commit is a number with its history, the work that is not committed   *)
(* a number of changes.  Abstracted: the name of the repository, the config  *)
(* and the messages that go along, their sizes, and a detached head.       *)
(***************************************************************************)
EXTENDS Naturals, FiniteSets

CONSTANTS
  Teleports,  \* calls of /teleport
  Branches,   \* branches; Main is checked out at first
  Main,
  MaxCommits, \* bound: commits, with the first one
  MaxWork,    \* bound: changes, commits and switches made while teleports run
  MaxWaits    \* polls within the timeout of wait_for_github_connection

VARIABLES
  repo,     \* [branch, head: Branches -> commit, history: commit -> commits, changes, work]
  origin,   \* branches of the remote: Branches -> commit, 0 where there is none
  tele,     \* tele[t]: [step, commit, branch, diff, failed, approved, polls, browser, service]
  service,  \* AgentLoop._teleport_service: its number, 0 for none
  closed,   \* services whose client and threads are closed
  strayed   \* history: teleports during which the work left the commit they described

teleVars == <<repo, origin, tele, service, closed, strayed>>

TeleportAssumption == Main \in Branches /\ MaxCommits \in Nat \ {0} /\ MaxWork \in Nat /\ MaxWaits \in Nat

Commits == 1..MaxCommits
Idle == [step |-> "idle", commit |-> 0, branch |-> Main, diff |-> 0, failed |-> FALSE,
         approved |-> FALSE, polls |-> 0, browser |-> 0, service |-> 0]

\* The first commit is pushed, or not.
Init ==
  /\ repo = [branch |-> Main, head |-> [b \in Branches |-> 1],
             history |-> [c \in 0..MaxCommits |-> IF c = 1 THEN {1} ELSE {}], made |-> 1, changes |-> 0, work |-> 0]
  /\ origin \in {[b \in Branches |-> 0], [b \in Branches |-> IF b = Main THEN 1 ELSE 0]}
  /\ tele = [t \in Teleports |-> Idle]
  /\ service = 0 /\ closed = {} /\ strayed = {}

StartsPushed == origin[Main] = 1

Head == repo.head[repo.branch]

\* A commit and the ones it is built on.
History(c) == repo.history[c]
OnRemote(c) == \E b \in Branches : c \in History(origin[b])

Running(t) == tele[t].step \notin {"idle", "complete", "error", "crashed"}
To(t, step) == tele' = [tele EXCEPT ![t].step = step]

\* The generator ends, and with it `async with`: the service closes, also for a second
\* teleport that has found it there.
Ends(t, step) ==
  /\ tele' = [tele EXCEPT ![t].step = step]
  /\ service' = 0 /\ closed' = closed \cup {tele[t].service}

Usable(t) == tele[t].service \notin closed

-----------------------------------------------------------------------------
(* The service and the loop that drives it. *)

Begin(t) ==
  LET s == IF service # 0 THEN service ELSE Cardinality({u \in Teleports : tele[u].service # 0}) + 1 IN
  /\ tele[t].step = "idle"
  /\ service' = s
  /\ tele' = [tele EXCEPT ![t].step = "info", ![t].service = s]
  /\ UNCHANGED <<repo, origin, closed, strayed>>

\* get_info: the commit and the branch are read, then the diff in a thread.
GetInfo(t) ==
  /\ tele[t].step = "info" /\ Usable(t)
  /\ tele' = [tele EXCEPT ![t].step = "diff", ![t].commit = Head, ![t].branch = repo.branch]
  /\ UNCHANGED <<repo, origin, service, closed, strayed>>

\* A diff that cannot be made counts as no diff.
GetDiff(t) ==
  /\ tele[t].step = "diff" /\ Usable(t)
  /\ \/ tele' = [tele EXCEPT ![t].step = "check", ![t].diff = repo.changes]
     \/ tele' = [tele EXCEPT ![t].step = "check", ![t].failed = TRUE]
  /\ UNCHANGED <<repo, origin, service, closed, strayed>>

\* Both are looked up in what was fetched: the commit on any branch of the remote, and
\* the branch that is checked out now.
CheckPushed(t) ==
  /\ tele[t].step = "check" /\ Usable(t)
  /\ To(t, IF OnRemote(tele[t].commit) /\ origin[repo.branch] # 0 THEN "start" ELSE "asking")
  /\ UNCHANGED <<repo, origin, service, closed, strayed>>

\* Mutant: whatever the answer, the branch is pushed.
AnswerPushAnyway(t, approved) ==
  /\ tele[t].step = "asking"
  /\ tele' = [tele EXCEPT ![t].step = "push", ![t].approved = approved]
  /\ UNCHANGED <<repo, origin, service, closed, strayed>>

\* _ask_push_approval, and what the service makes of the answer.
AnswerPush(t, approved) ==
  /\ tele[t].step = "asking"
  /\ IF approved
     THEN /\ tele' = [tele EXCEPT ![t].step = "push", ![t].approved = TRUE]
          /\ UNCHANGED <<service, closed>>
     ELSE Ends(t, "error")
  /\ UNCHANGED <<repo, origin, strayed>>

\* The branch that is checked out now is pushed; the remote may refuse.
Push(t) ==
  /\ tele[t].step = "push" /\ Usable(t)
  /\ \/ /\ origin[repo.branch] \in History(Head) \cup {0}
        /\ origin' = [origin EXCEPT ![repo.branch] = Head]
        /\ To(t, "start") /\ UNCHANGED <<service, closed>>
     \/ Ends(t, "error") /\ UNCHANGED origin
  /\ UNCHANGED <<repo, strayed>>

\* The workflow gets what get_info said.  An answer that is no success is an error, a
\* connection that fails one that nobody catches.
StartWorkflow(t) ==
  /\ tele[t].step = "start" /\ Usable(t)
  /\ \/ To(t, "waiting") /\ UNCHANGED <<service, closed>>
     \/ \E step \in {"error", "crashed"} : Ends(t, step)
  /\ UNCHANGED <<repo, origin, strayed>>

\* The browser is opened for the first address that comes.
Poll(t, status) ==
  /\ tele[t].step = "waiting" /\ Usable(t)
  /\ \/ status = "connected" /\ To(t, "fetching") /\ UNCHANGED <<service, closed>>
     \/ /\ status \in {"pending", "oauth"} /\ tele[t].polls < MaxWaits
        /\ tele' = [tele EXCEPT ![t].polls = @ + 1, ![t].browser = IF status = "oauth" /\ @ = 0 THEN 1 ELSE @]
        /\ UNCHANGED <<service, closed>>
     \/ /\ status = "error" \/ (status \in {"pending", "oauth"} /\ tele[t].polls >= MaxWaits)
        /\ Ends(t, "error")
     \/ status = "failed" /\ Ends(t, "crashed")
  /\ UNCHANGED <<repo, origin, strayed>>

FetchUrl(t) ==
  /\ tele[t].step = "fetching" /\ Usable(t)
  /\ \E step \in {"complete", "error", "crashed"} : Ends(t, step)
  /\ UNCHANGED <<repo, origin, strayed>>

\* Another teleport has closed the service that this one uses.
Closed(t) ==
  /\ Running(t) /\ tele[t].step # "asking" /\ ~Usable(t)
  /\ Ends(t, "crashed")
  /\ UNCHANGED <<repo, origin, strayed>>

-----------------------------------------------------------------------------
(* Work in the repository while a teleport is under way. *)

Works == repo.work < MaxWork /\ UNCHANGED <<origin, tele, service, closed>>

\* The teleports that have read the commit, when it is no longer below the head.
Stray(history) == strayed' = strayed \cup {t \in Teleports : Running(t) /\ tele[t].commit \notin history \cup {0}}

Change ==
  /\ Works /\ repo' = [repo EXCEPT !.changes = @ + 1, !.work = @ + 1] /\ UNCHANGED strayed

\* A commit on the head, or in its place.
Commit(amends) ==
  LET made == repo.made + 1
      history == {made} \cup (IF amends THEN History(Head) \ {Head} ELSE History(Head))
  IN  /\ Works /\ made <= MaxCommits
      /\ repo' = [repo EXCEPT !.made = made, !.head[repo.branch] = made, !.history[made] = history,
                              !.changes = 0, !.work = @ + 1]
      /\ Stray(history)

Switch(b) ==
  /\ Works /\ b # repo.branch
  /\ repo' = [repo EXCEPT !.branch = b, !.work = @ + 1]
  /\ strayed' = strayed \cup {t \in Teleports : Running(t) /\ tele[t].commit # 0}

-----------------------------------------------------------------------------
Proceeds(t) ==
  \/ GetInfo(t) \/ GetDiff(t) \/ CheckPushed(t) \/ Push(t) \/ StartWorkflow(t)
  \/ \E status \in {"connected", "pending", "oauth", "error", "failed"} : Poll(t, status)
  \/ FetchUrl(t) \/ Closed(t)

TeleportNext ==
  \/ \E t \in Teleports : Begin(t) \/ Proceeds(t) \/ \E approved \in BOOLEAN : AnswerPush(t, approved)
  \/ Change \/ (\E amends \in BOOLEAN : Commit(amends)) \/ (\E b \in Branches : Switch(b))

TeleportFairness == \A t \in Teleports : WF_teleVars(Proceeds(t))

Spec == Init /\ [][TeleportNext]_teleVars /\ TeleportFairness

-----------------------------------------------------------------------------
(* Properties. *)

TypeOK ==
  /\ repo.branch \in Branches /\ repo.head \in [Branches -> Commits]
  /\ origin \in [Branches -> 0..MaxCommits] /\ strayed \subseteq Teleports
  /\ \A t \in Teleports : tele[t].browser \in 0..1

Alone(t) == \A u \in Teleports \ {t} : tele[u].service # tele[t].service

\* The workspace can be built where the session goes on: its commit and its branch are
\* on the remote when the workflow starts, unless the work in the repository has left
\* them.
CommitReachable ==
  \A t \in Teleports \ strayed :
    tele[t].step \in {"start", "waiting", "fetching", "complete"} =>
      OnRemote(tele[t].commit) /\ origin[tele[t].branch] # 0

\* Nothing is pushed that the user has not agreed to: a teleport that was refused, or
\* did not ask, has left the remote alone.
PushedIfApproved ==
  (\A t \in Teleports : ~tele[t].approved) =>
    \A b \in Branches : origin[b] \in IF b = Main THEN {0, 1} ELSE {0}

\* A teleport is refused, fails or completes on its own, and is not broken by another one
\* unless both have used the same service at a time.
OwnService == \A t \in Teleports : Alone(t) /\ Running(t) => Usable(t)

TeleportSafe == CommitReachable /\ PushedIfApproved /\ OwnService

\* A teleport ends, or waits for the user's answer.
TeleportEnds == \A t \in Teleports : []<>(~Running(t) \/ tele[t].step = "asking")
=============================================================================
