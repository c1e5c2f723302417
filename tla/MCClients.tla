------------------------------ MODULE MCClients ------------------------------
(***************************************************************************)
(* Instances of the components that serve a client or follow a server.     *)
(* They share no state, so that they are checked side by side: `part` says *)
(* which of them runs, the others stay in their initial states.            *)
(***************************************************************************)
EXTENDS Integers, Sequences, FiniteSets

CONSTANTS
  MaxRequests, MaxSessions, MaxIds, Bypassing,                               \* AcpServer
  Tasks, Kind, Call, MaxEvents, MaxRetry,     \* RemoteSession
  Teleports, Branches, Main, MaxCommits, MaxWork, MaxWaits,                  \* Teleport
  Lifetime, MaxFailures                       \* SignIn

VARIABLES
  part,
  open, sessions, ids, stored, reqs, displaced,
  log, stream, content, msgId, calls, pending, asking, messages, sending, lost,
  repo, origin, tele, service, closedServices, strayed,
  flow, signInService, clock, failing

Acp == INSTANCE AcpServer
Remote == INSTANCE RemoteSession
Move == INSTANCE Teleport WITH closed <- closedServices
Sign == INSTANCE SignIn WITH service <- signInService

ASSUME Assumptions ==
  /\ Acp!AcpAssumption
  /\ Remote!RemoteAssumption
  /\ Move!TeleportAssumption
  /\ Sign!SignInAssumption

\* A text, a question and a task that works on it, two requests for input, a steer.
MCKind == [t1 |-> "text", t2 |-> "question", t3 |-> "working", w |-> "wait", v |-> "wait", s |-> "steer"]
MCCall == [t1 |-> "x", t2 |-> "c", t3 |-> "c", w |-> "x", v |-> "x", s |-> "x"]

acpVars == <<open, sessions, ids, stored, reqs, displaced>>
remoteVars == <<log, stream, content, msgId, calls, pending, asking, messages, sending, lost>>
teleVars == <<repo, origin, tele, service, closedServices, strayed>>
signInVars == <<flow, signInService, clock, failing>>
vars == <<part, acpVars, remoteVars, teleVars, signInVars>>

Init ==
  /\ part \in {"acp", "remote", "teleport", "signin"}
  /\ Acp!Init
  /\ Remote!Init
  /\ Move!Init /\ (part # "teleport" => Move!StartsPushed)
  /\ Sign!Init

Next ==
  \/ part = "acp" /\ Acp!Next /\ UNCHANGED <<part, remoteVars, teleVars, signInVars>>
  \/ part = "remote" /\ Remote!Next /\ UNCHANGED <<part, acpVars, teleVars, signInVars>>
  \/ /\ part = "teleport" /\ Move!TeleportNext
     /\ UNCHANGED <<part, acpVars, remoteVars, signInVars>>
  \/ part = "signin" /\ Sign!SignInNext /\ UNCHANGED <<part, acpVars, remoteVars, teleVars>>

Spec ==
  /\ Init /\ [][Next]_vars
  /\ Acp!AcpFairness
  /\ Remote!RemoteFairness
  /\ Move!TeleportFairness
  /\ Sign!SignInFairness

\* See AcpSafe in AcpServer: sessions of the ACP server keep apart, run one
\* prompt at a time and leave nothing behind (acp_agent_loop.py, session.py).
AcpSafe == part = "acp" => Acp!TypeOK /\ Acp!AcpSafe

\* See RemoteSafe in RemoteSession: the messages of a remote session are what the workflow
\* did (remote_workflow_event_translator.py).
RemoteSafe == part = "remote" => Remote!TypeOK /\ Remote!RemoteSafe

\* See TeleportSafe and SignInSafe: a workspace can be built from what was pushed and
\* nothing is pushed unasked, and a key is only had when the user agreed (teleport.py,
\* git.py, browser_sign_in.py).
HandoverSafe ==
  /\ part = "teleport" => Move!TypeOK /\ Move!TeleportSafe
  /\ part = "signin" => Sign!TypeOK /\ Sign!SignInSafe

\* See CancelSettles, RemoteSettles, TeleportEnds and SignInEnds: a request to cancel or
\* close is answered, a stream ends with its workflow, a teleport and a sign-in end.
ClientsSettle ==
  /\ part = "acp" => Acp!CancelSettles
  /\ part = "remote" => Remote!RemoteSettles
  /\ part = "teleport" => Move!TeleportEnds
  /\ part = "signin" => Sign!SignInEnds
==============================================================================
