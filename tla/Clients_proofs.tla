--------------------------- MODULE Clients_proofs ---------------------------
(***************************************************************************)
(* Proof that the components of MCClients are safe, for any values of      *)
(* their constants.  Each has an inductive invariant of its own: AcpInv    *)
(* and Known for the sessions of the ACP server, RemoteInv for a remote    *)
(* session, TeleInv for teleports, SignInInv for signing in.               *)
(***************************************************************************)
EXTENDS MCClients, SequenceTheorems, NaturalsInduction, WellFoundedInduction, TLAPS

-----------------------------------------------------------------------------
(* The ACP server: AcpInv says where requests, tasks and objects stand,    *)
(* Known what is known of ids, logs and approvals.                         *)


AcpTypes ==
  /\ open \in [Acp!Ids -> Acp!Objects \union {Acp!None}]
  /\ sessions \in Seq(Acp!SessionStates)
  /\ ids \in 0..MaxIds
  /\ reqs \in [Acp!Requests -> Acp!ReqStates]

\* A request that has arrived stands at an object that was created; tasks are
\* those of prompts.
Placed ==
  \A r \in Acp!Requests :
    /\ reqs[r].at \notin {"prompt", "answered"} => reqs[r].task = "none"
    /\ reqs[r].at \notin {"new", "answered"} \/ reqs[r].task # "none" => reqs[r].on \in DOMAIN sessions

\* A task that runs is the prompt of its session.
TaskIsPrompt == \A r \in Acp!Requests : Acp!Alive(r) => sessions[reqs[r].on].prompt = r

\* A session that can be found is open and has the id under which it is found.
FoundIsOpen ==
  \A i \in Acp!Ids : open[i] # Acp!None =>
    open[i] \in DOMAIN sessions /\ sessions[open[i]].id = i /\ ~sessions[open[i]].closed

\* A session that is being closed is closed to spawn.
ClosingIsClosed ==
  \A r \in Acp!Requests : reqs[r].at \in {"tasks", "loop"} => sessions[reqs[r].on].closed

\* ClosedQuiet, request by request.
NothingLeft ==
  \A r, q \in Acp!Requests : reqs[r].at = "loop" =>
    ~sessions[reqs[r].on].background /\ (Acp!Alive(q) => reqs[q].on # reqs[r].on)

AcpInv ==
  AcpTypes /\ Placed /\ TaskIsPrompt /\ FoundIsOpen /\ ClosingIsClosed /\ NothingLeft

\* A session is created, by a request that is answered or goes on to replay it.
LEMMA CreateSound ==
  ASSUME Acp!AcpAssumption, AcpInv, NEW r \in Acp!Requests, NEW i \in Acp!Ids, NEW j \in Acp!Ids,
         NEW p \in Acp!Profiles, Acp!Create(i, j, p), ids' \in 0..MaxIds,
         reqs' \in [Acp!Requests -> Acp!ReqStates],
         \A q \in Acp!Requests \ {r} : reqs'[q] = reqs[q], reqs'[r].task = reqs[r].task,
         \/ reqs'[r].at = "answered" /\ reqs'[r].on = reqs[r].on
         \/ reqs'[r].at = "replay" /\ reqs'[r].on = Len(sessions) + 1 /\ reqs[r].at = "new"
  PROVE  AcpInv'
<1> DEFINE n == Len(sessions) + 1
<1>1. Len(sessions) \in Nat /\ DOMAIN sessions = 1..Len(sessions)
  BY DEF AcpInv, AcpTypes
<1>2. n \in Acp!Objects
  BY <1>1 DEF Acp!Create, Acp!Objects, Acp!AcpAssumption
<1>3. Acp!Created(i, j, p) \in Acp!SessionStates
  BY <1>2 DEF Acp!Created, Acp!SessionStates
<1>4. /\ sessions' = Append(sessions, Acp!Created(i, j, p)) /\ sessions' \in Seq(Acp!SessionStates)
      /\ DOMAIN sessions' = DOMAIN sessions \union {n} /\ n \notin DOMAIN sessions
      /\ sessions'[n] = Acp!Created(i, j, p)
      /\ \A o \in DOMAIN sessions : sessions'[o] = sessions[o]
  BY <1>1, <1>3 DEF AcpInv, AcpTypes, Acp!Create
<1>5. open' = [open EXCEPT ![i] = n] /\ open' \in [Acp!Ids -> Acp!Objects \union {Acp!None}]
  BY <1>2 DEF Acp!Create, AcpInv, AcpTypes
<1>6. AcpTypes'
  BY <1>4, <1>5 DEF AcpTypes
<1>7. \A q \in Acp!Requests :
        Acp!Alive(q)' => Acp!Alive(q) /\ reqs'[q].on = reqs[q].on /\ reqs[q].on \in DOMAIN sessions
  BY DEF AcpInv, Placed, Acp!Alive
<1>8. \A q \in Acp!Requests : reqs'[q].at \in {"tasks", "loop"} =>
        q # r /\ reqs'[q] = reqs[q] /\ reqs[q].on \in DOMAIN sessions
  BY DEF AcpInv, Placed
<1>9. Placed'
  BY <1>4 DEF AcpInv, Placed
<1>10. (TaskIsPrompt /\ ClosingIsClosed)'
  BY <1>4, <1>7, <1>8 DEF AcpInv, TaskIsPrompt, ClosingIsClosed
<1>11. FoundIsOpen'
  BY <1>1, <1>4, <1>5 DEF AcpInv, AcpTypes, FoundIsOpen, Acp!Created
<1>12. NothingLeft'
  BY <1>4, <1>7, <1>8 DEF AcpInv, NothingLeft
<1> QED
  BY <1>6, <1>9, <1>10, <1>11, <1>12 DEF AcpInv

\* A step that starts no task and closes no session.
LEMMA CalmSound ==
  ASSUME AcpInv, AcpTypes', open' = open, DOMAIN sessions' = DOMAIN sessions,
         \A o \in DOMAIN sessions :
           /\ sessions'[o].id = sessions[o].id /\ sessions'[o].closed = sessions[o].closed
           /\ sessions'[o].background => sessions[o].background \/ ~sessions[o].closed,
         \A q \in Acp!Requests :
           /\ Acp!Alive(q)' => Acp!Alive(q) /\ sessions'[reqs[q].on].prompt = sessions[reqs[q].on].prompt
           /\ reqs[q].at # "new" => reqs'[q].on = reqs[q].on
           /\ reqs[q].at = "new" => reqs'[q].task = "none" /\
                (reqs'[q].at \in {"new", "answered"} \/ reqs'[q].on \in DOMAIN sessions)
           /\ reqs'[q].at = "new" => reqs[q].at = "new"
           /\ reqs[q].at = "answered" => reqs'[q].at = "answered"
           /\ reqs[q].at = "prompt" => reqs'[q].at \in {"prompt", "answered"}
           /\ reqs[q].task = "none" => reqs'[q].task = "none"
           /\ reqs'[q].at \in {"tasks", "loop"} => reqs'[q].at = reqs[q].at
  PROVE  AcpInv'
<1>1. Placed'
  BY DEF AcpInv, Placed
<1>2. \A q \in Acp!Requests : Acp!Alive(q)' =>
        Acp!Alive(q) /\ reqs'[q].on = reqs[q].on /\ reqs[q].on \in DOMAIN sessions
  BY DEF AcpInv, Placed, Acp!Alive
<1>3. \A q \in Acp!Requests : reqs'[q].at \in {"tasks", "loop"} =>
        reqs'[q].at = reqs[q].at /\ reqs'[q].on = reqs[q].on /\ reqs[q].on \in DOMAIN sessions
  BY DEF AcpInv, Placed
<1>4. TaskIsPrompt' /\ ClosingIsClosed' /\ FoundIsOpen'
  BY <1>2, <1>3 DEF AcpInv, TaskIsPrompt, ClosingIsClosed, FoundIsOpen
<1>5. NothingLeft'
  BY <1>2, <1>3 DEF AcpInv, NothingLeft, ClosingIsClosed
<1> QED
  BY <1>1, <1>4, <1>5 DEF AcpInv

\* What becomes of the sessions when one of them goes on, neither closed nor
\* handed to another prompt.
Kept ==
  /\ sessions' \in Seq(Acp!SessionStates) /\ DOMAIN sessions' = DOMAIN sessions
  /\ \A o \in DOMAIN sessions :
       /\ sessions'[o].id = sessions[o].id /\ sessions'[o].closed = sessions[o].closed
       /\ sessions'[o].prompt = sessions[o].prompt
       /\ sessions'[o].background => sessions[o].background \/ ~sessions[o].closed

LEMMA GoesOn ==
  ASSUME AcpInv, NEW o \in DOMAIN sessions, NEW s \in Acp!SessionStates,
         sessions' = [sessions EXCEPT ![o] = s], s.id = sessions[o].id,
         s.closed = sessions[o].closed, s.prompt = sessions[o].prompt,
         s.background => sessions[o].background \/ ~sessions[o].closed
  PROVE  Kept
BY DEF AcpInv, AcpTypes, Kept

LEMMA CompactsKeep ==
  ASSUME Acp!AcpAssumption, AcpInv, NEW o \in DOMAIN sessions, Acp!Compacts(o)
  PROVE  Kept /\ ids' \in 0..MaxIds
<1>1. sessions[o] \in Acp!SessionStates
  BY DEF AcpInv, AcpTypes
<1>2. ids + 1 \in Acp!Ids /\ ids + 1 \in 0..MaxIds
  BY DEF Acp!Compacts, AcpInv, AcpTypes, Acp!AcpAssumption, Acp!Ids
<1>3. [sessions[o] EXCEPT !.log = ids + 1] \in Acp!SessionStates
  BY <1>1, <1>2 DEF Acp!SessionStates
<1>4. sessions' = [sessions EXCEPT ![o] = [sessions[o] EXCEPT !.log = ids + 1]]
  BY DEF Acp!Compacts
<1>5. Kept
  BY <1>1, <1>3, <1>4, GoesOn DEF Acp!SessionStates
<1> QED
  BY <1>2, <1>5 DEF Acp!Compacts

LEMMA SpawnedKeep ==
  ASSUME AcpInv, NEW o \in DOMAIN sessions, sessions' = [sessions EXCEPT ![o] = Acp!Spawned(@)]
  PROVE  Kept
<1>1. sessions[o] \in Acp!SessionStates
  BY DEF AcpInv, AcpTypes
<1>2. Acp!Spawned(sessions[o]) \in Acp!SessionStates
  BY <1>1 DEF Acp!Spawned, Acp!SessionStates
<1> QED
  BY <1>1, <1>2, GoesOn DEF Acp!Spawned, Acp!SessionStates

\* What is found is an object that was created, is open, and is asked for anew.
LEMMA Found ==
  ASSUME AcpInv, NEW r \in Acp!Requests, NEW i \in Acp!Ids, NEW o \in DOMAIN sessions, Acp!Finds(r, i, o)
  PROVE  /\ sessions[o] \in Acp!SessionStates /\ ~sessions[o].closed /\ sessions[o].id = i
         /\ open[i] = o /\ reqs[r].at = "new" /\ reqs[r].task = "none" /\ reqs[r] \in Acp!ReqStates
         /\ o \in Acp!Objects
BY DEF AcpInv, AcpTypes, FoundIsOpen, Placed, Acp!Finds, Acp!Arrives

\* The requests when one of them is answered.
LEMMA AnswerSound ==
  ASSUME AcpInv, NEW r \in Acp!Requests, NEW s \in {"none", "end", "cancelled", "refused"},
         Acp!Answer(r, s)
  PROVE  /\ reqs' \in [Acp!Requests -> Acp!ReqStates]
         /\ \A q \in Acp!Requests :
              /\ reqs'[q].on = reqs[q].on /\ reqs'[q].task = reqs[q].task
              /\ reqs'[q].at = IF q = r THEN "answered" ELSE reqs[q].at
<1>1. reqs[r] \in Acp!ReqStates /\ reqs \in [Acp!Requests -> Acp!ReqStates]
  BY DEF AcpInv, AcpTypes
<1>2. [reqs[r] EXCEPT !.at = "answered", !.stop = s] \in Acp!ReqStates
  BY <1>1 DEF Acp!ReqStates
<1>3. reqs' = [reqs EXCEPT ![r] = [reqs[r] EXCEPT !.at = "answered", !.stop = s]]
  BY <1>1 DEF Acp!Answer
<1> QED
  BY <1>1, <1>2, <1>3 DEF Acp!ReqStates

\* The requests when one that was sent is set on its way.
LEMMA StepSound ==
  ASSUME AcpInv, NEW r \in Acp!Requests, NEW o \in Acp!Objects,
         NEW where \in {"replay", "fork", "command", "option", "mode"},
         Acp!Step(r, o, where)
  PROVE  /\ reqs' \in [Acp!Requests -> Acp!ReqStates]
         /\ \A q \in Acp!Requests : q # r => reqs'[q] = reqs[q]
         /\ reqs'[r].on = o /\ reqs'[r].task = reqs[r].task /\ reqs'[r].at = where
<1>1. reqs[r] \in Acp!ReqStates /\ reqs \in [Acp!Requests -> Acp!ReqStates]
  BY DEF AcpInv, AcpTypes
<1>2. [reqs[r] EXCEPT !.at = where, !.on = o] \in Acp!ReqStates
  BY <1>1 DEF Acp!ReqStates
<1>3. reqs' = [reqs EXCEPT ![r] = [reqs[r] EXCEPT !.at = where, !.on = o]]
  BY <1>1 DEF Acp!Step
<1> QED
  BY <1>1, <1>2, <1>3 DEF Acp!ReqStates

\* A request is answered, or set on its way, while a session goes on.
LEMMA AnswerKeeps ==
  ASSUME AcpInv, NEW r \in Acp!Requests, NEW s \in {"none", "end", "cancelled", "refused"},
         Acp!Answer(r, s), Kept, open' = open, ids' \in 0..MaxIds
  PROVE  AcpInv'
<1>1. AcpTypes'
  BY AnswerSound DEF AcpInv, AcpTypes, Kept
<1>2. \A q \in Acp!Requests :
        /\ reqs'[q].on = reqs[q].on /\ reqs'[q].task = reqs[q].task
        /\ reqs'[q].at = IF q = r THEN "answered" ELSE reqs[q].at
        /\ reqs[q].at = "new" => reqs[q].task = "none"
        /\ Acp!Alive(q)' => Acp!Alive(q) /\ reqs[q].on \in DOMAIN sessions
  BY AnswerSound DEF AcpInv, Placed, Acp!Alive
<1> QED
  BY <1>1, <1>2, CalmSound DEF Kept

LEMMA StepKeeps ==
  ASSUME AcpInv, NEW r \in Acp!Requests, NEW o \in DOMAIN sessions, o \in Acp!Objects,
         NEW where \in {"fork", "command", "option", "mode"},
         Acp!Step(r, o, where), reqs[r].at = "new", Kept, open' = open, ids' = ids
  PROVE  AcpInv'
<1>1. AcpTypes'
  BY StepSound DEF AcpInv, AcpTypes, Kept
<1>2. \A q \in Acp!Requests : q # r => reqs'[q] = reqs[q]
  BY StepSound
<1>3. reqs'[r].on = o /\ reqs'[r].task = "none" /\ reqs[r].task = "none" /\ reqs'[r].at = where
  BY StepSound DEF AcpInv, Placed
<1>4. \A q \in Acp!Requests :
        /\ reqs[q].at = "new" => reqs[q].task = "none"
        /\ Acp!Alive(q)' => Acp!Alive(q) /\ reqs'[q] = reqs[q] /\ reqs[q].on \in DOMAIN sessions
  BY <1>2, <1>3 DEF AcpInv, Placed, Acp!Alive
<1> QED
  BY <1>1, <1>2, <1>3, <1>4, CalmSound DEF Kept

LEMMA Unchanged ==
  ASSUME AcpInv, UNCHANGED sessions
  PROVE  Kept
BY DEF AcpInv, AcpTypes, Kept

LEMMA CreationsLand ==
  ASSUME Acp!AcpAssumption, AcpInv, NEW r \in Acp!Requests,
         Acp!NewSession(r) \/ Acp!Forked(r) \/ \E i \in Acp!Ids : Acp!LoadSession(r, i)
  PROVE  AcpInv'
<1>1. CASE Acp!NewSession(r)
  <2>1. ids + 1 \in Acp!Ids /\ ids + 1 \in 0..MaxIds /\ reqs[r].at = "new"
    BY <1>1 DEF Acp!NewSession, Acp!Arrives, AcpInv, AcpTypes, Acp!AcpAssumption, Acp!Ids
  <2>2. Acp!Create(ids + 1, ids + 1, "default") /\ Acp!Answer(r, "end") /\ ids' = ids + 1
    BY <1>1 DEF Acp!NewSession
  <2>3. "default" \in Acp!Profiles
    BY DEF Acp!Profiles
  <2>4. /\ reqs' \in [Acp!Requests -> Acp!ReqStates] /\ reqs'[r].at = "answered"
        /\ \A q \in Acp!Requests : q # r => reqs'[q] = reqs[q]
        /\ reqs'[r].on = reqs[r].on /\ reqs'[r].task = reqs[r].task
    BY <2>2, AnswerSound DEF Acp!Answer, AcpInv, AcpTypes
  <2> QED
    BY <2>1, <2>2, <2>3, <2>4, CreateSound
<1>2. CASE Acp!Forked(r)
  <2>1. ids + 1 \in Acp!Ids /\ ids + 1 \in 0..MaxIds /\ reqs[r].at = "fork"
    BY <1>2 DEF Acp!Forked, AcpInv, AcpTypes, Acp!AcpAssumption, Acp!Ids
  <2>2. sessions[reqs[r].on].profile \in Acp!Profiles
    <3>1. reqs[r].on \in DOMAIN sessions
      BY <2>1 DEF AcpInv, Placed
    <3>2. sessions[reqs[r].on] \in Acp!SessionStates
      BY <3>1 DEF AcpInv, AcpTypes
    <3> QED
      BY <3>2 DEF Acp!SessionStates
  <2>3. /\ Acp!Create(ids + 1, ids + 1, sessions[reqs[r].on].profile)
        /\ Acp!Answer(r, "end") /\ ids' = ids + 1
    BY <1>2 DEF Acp!Forked
  <2>4. /\ reqs' \in [Acp!Requests -> Acp!ReqStates] /\ reqs'[r].at = "answered"
        /\ \A q \in Acp!Requests : q # r => reqs'[q] = reqs[q]
        /\ reqs'[r].on = reqs[r].on /\ reqs'[r].task = reqs[r].task
    BY <2>3, AnswerSound DEF Acp!Answer, AcpInv, AcpTypes
  <2> QED
    BY <2>1, <2>2, <2>3, <2>4, CreateSound
<1>3. ASSUME NEW i \in Acp!Ids, Acp!LoadSession(r, i) PROVE AcpInv'
  <2>1. /\ Acp!Create(i, i, "default") /\ Acp!Step(r, Len(sessions) + 1, "replay")
        /\ ids' = ids /\ reqs[r].at = "new"
    BY <1>3 DEF Acp!LoadSession, Acp!Arrives
  <2>2. Len(sessions) + 1 \in Acp!Objects
    BY <2>1 DEF Acp!Create, Acp!Objects, Acp!AcpAssumption, AcpInv, AcpTypes
  <2>3. "default" \in Acp!Profiles /\ ids' \in 0..MaxIds
    BY <2>1 DEF Acp!Profiles, AcpInv, AcpTypes
  <2> QED
    BY <2>1, <2>2, <2>3, StepSound, CreateSound
<1> QED
  BY <1>1, <1>2, <1>3

\* What is awaited ends: the request is answered.
LEMMA AnswersLand ==
  ASSUME Acp!AcpAssumption, AcpInv, NEW r \in Acp!Requests,
         \/ Acp!Replayed(r) \/ Acp!CommandEnds(r) \/ Acp!PromptCancelled(r) \/ Acp!LoopClosed(r)
         \/ Acp!OptionSet(r) \/ Acp!ModeSet(r) \/ Acp!ModeFails(r)
  PROVE  AcpInv'
<1> DEFINE o == reqs[r].on
<1>1. ids \in 0..MaxIds
  BY DEF AcpInv, AcpTypes
<1>2. CASE Acp!Replayed(r)
  BY <1>1, <1>2, SpawnedKeep, AnswerKeeps DEF AcpInv, Placed, Acp!Replayed
<1>3. CASE Acp!CommandEnds(r)
  BY <1>1, <1>3, CompactsKeep, SpawnedKeep, Unchanged, AnswerKeeps DEF AcpInv, Placed,
                                                                       Acp!CommandEnds
<1>4. CASE Acp!PromptCancelled(r) \/ Acp!LoopClosed(r) \/ Acp!OptionSet(r)
  BY <1>1, <1>4, Unchanged, AnswerKeeps DEF Acp!PromptCancelled, Acp!LoopClosed, Acp!OptionSet
<1>5. CASE Acp!ModeSet(r)
  <2>1. o \in DOMAIN sessions /\ sessions[o] \in Acp!SessionStates /\ open' = open /\ ids' = ids
    BY <1>5 DEF AcpInv, AcpTypes, Placed, Acp!ModeSet
  <2>2. CASE Acp!Answer(r, "refused") /\ UNCHANGED sessions
    BY <1>1, <2>1, <2>2, Unchanged, AnswerKeeps
  <2>3. CASE /\ sessions' = [sessions EXCEPT ![o] = Acp!Asking(@)]
             /\ Acp!Answer(r, "end")
    <3> DEFINE s == Acp!Asking(sessions[o])
    <3>1. s \in Acp!SessionStates
      BY <2>1 DEF Acp!SessionStates, Acp!Asking, Acp!Callback, AcpInv, AcpTypes
    <3>2. sessions' = [sessions EXCEPT ![o] = s]
      BY <2>1, <2>3
    <3>3. Kept
      BY <2>1, <3>1, <3>2, GoesOn DEF Acp!SessionStates, Acp!Asking
    <3> QED
      BY <1>1, <2>1, <2>3, <3>3, AnswerKeeps
  <2> QED
    BY <1>5, <2>2, <2>3 DEF Acp!ModeSet
<1>6. CASE Acp!ModeFails(r)
  <2>1. /\ o \in DOMAIN sessions /\ sessions[o] \in Acp!SessionStates /\ open' = open /\ ids' = ids
        /\ Acp!Answer(r, "refused")
    BY <1>6 DEF AcpInv, AcpTypes, Placed, Acp!ModeFails
  <2> DEFINE s == [sessions[o] EXCEPT !.halfway = TRUE]
  <2>2. s \in Acp!SessionStates /\ sessions' = [sessions EXCEPT ![o] = s]
    BY <1>6, <2>1 DEF Acp!SessionStates, Acp!ModeFails
  <2>3. Kept
    BY <2>1, <2>2, GoesOn DEF Acp!SessionStates
  <2> QED
    BY <1>1, <2>1, <2>3, AnswerKeeps
<1> QED
  BY <1>2, <1>3, <1>4, <1>5, <1>6

\* The editor forks, sets an option or a mode: refused, answered or on its way.
LEMMA RequestsLand ==
  ASSUME AcpInv, NEW r \in Acp!Requests, NEW i \in Acp!Ids, NEW o \in DOMAIN sessions,
         \/ Acp!ForkSession(r, i, o) \/ Acp!SetOption(r, i, o)
         \/ \E p \in Acp!Profiles : Acp!SetMode(r, i, o, p)
  PROVE  AcpInv'
<1>1. ids \in 0..MaxIds
  BY DEF AcpInv, AcpTypes
<1>2. CASE Acp!ForkSession(r, i, o) \/ Acp!SetOption(r, i, o)
  BY <1>1, <1>2, Found, Unchanged, AnswerKeeps, StepKeeps DEF Acp!ForkSession, Acp!SetOption
<1>3. ASSUME NEW p \in Acp!Profiles, Acp!SetMode(r, i, o, p) PROVE AcpInv'
  <2>1. Acp!Finds(r, i, o) /\ open' = open /\ ids' = ids
    BY <1>3 DEF Acp!SetMode
  <2>2. /\ sessions[o] \in Acp!SessionStates /\ Acp!Callback(sessions[o]) \in Acp!Objects \union {Acp!None}
        /\ reqs[r].at = "new" /\ o \in Acp!Objects
    BY <2>1, Found DEF Acp!Callback, Acp!SessionStates, AcpInv, AcpTypes
  <2>3. CASE /\ sessions' = [sessions EXCEPT ![o] = Acp!Asking(@)]
             /\ Acp!Answer(r, "end")
    <3> DEFINE s == Acp!Asking(sessions[o])
    <3>1. s \in Acp!SessionStates /\ sessions' = [sessions EXCEPT ![o] = s]
      BY <2>2, <2>3 DEF Acp!SessionStates, Acp!Asking
    <3>2. Kept
      BY <2>2, <3>1, GoesOn DEF Acp!SessionStates, Acp!Asking
    <3> QED
      BY <1>1, <2>1, <2>3, <3>2, AnswerKeeps
  <2>4. CASE sessions' = [sessions EXCEPT ![o].profile = p] /\ Acp!Step(r, o, "mode")
    <3> DEFINE s == [sessions[o] EXCEPT !.profile = p]
    <3>1. s \in Acp!SessionStates /\ sessions' = [sessions EXCEPT ![o] = s]
      BY <2>2, <2>4 DEF Acp!SessionStates
    <3>2. Kept
      BY <2>2, <3>1, GoesOn DEF Acp!SessionStates
    <3> QED
      BY <2>1, <2>2, <2>4, <3>2, StepKeeps
  <2> QED
    BY <1>3, <2>3, <2>4 DEF Acp!SetMode
<1> QED
  BY <1>2, <1>3

LEMMA TasksLand ==
  ASSUME Acp!AcpAssumption, AcpInv, NEW r \in Acp!Requests, Acp!Turn(r) \/ Acp!TaskEnds(r) \/ Acp!Prompted(r)
  PROVE  AcpInv'
<1> DEFINE o == reqs[r].on
<1>1. /\ o \in DOMAIN sessions /\ sessions[o] \in Acp!SessionStates /\ open' = open
      /\ reqs[r] \in Acp!ReqStates /\ reqs[r].task # "none" /\ reqs[r].at # "new"
  BY DEF AcpInv, AcpTypes, Placed, Acp!Turn, Acp!TaskEnds, Acp!Prompted, Acp!Alive
<1>2. \A q \in Acp!Requests : Acp!Alive(q) => reqs[q].at # "new" /\ reqs[q].on \in DOMAIN sessions
  BY DEF AcpInv, Placed, Acp!Alive
<1>3. CASE Acp!Turn(r)
  <2>1. Kept /\ ids' \in 0..MaxIds /\ reqs' = reqs
    BY <1>1, <1>3, CompactsKeep DEF Acp!Turn
  <2>2. AcpTypes'
    BY <1>1, <2>1 DEF AcpInv, AcpTypes, Kept
  <2> QED
    BY <1>1, <1>2, <2>1, <2>2, CalmSound DEF Kept, Acp!Alive, AcpInv, Placed
<1>4. CASE Acp!TaskEnds(r)
  <2>1. PICK s \in {"end", "cancelled", "refused"} :
          reqs' = [reqs EXCEPT ![r].task = "done", ![r].stop = s]
    BY <1>4 DEF Acp!TaskEnds
  <2>2. [reqs[r] EXCEPT !.task = "done", !.stop = s] \in Acp!ReqStates
    BY <1>1 DEF Acp!ReqStates
  <2>3. reqs' = [reqs EXCEPT ![r] = [reqs[r] EXCEPT !.task = "done", !.stop = s]]
    BY <1>1, <2>1 DEF AcpInv, AcpTypes
  <2>4. /\ reqs'[r].at = reqs[r].at /\ reqs'[r].on = reqs[r].on /\ reqs'[r].task = "done"
        /\ \A q \in Acp!Requests : q # r => reqs'[q] = reqs[q]
    BY <1>1, <2>3 DEF AcpInv, AcpTypes, Acp!ReqStates
  <2>5. AcpTypes' /\ sessions' = sessions
    BY <1>4, <2>2, <2>3 DEF AcpInv, AcpTypes, Acp!TaskEnds
  <2> QED
    BY <1>1, <1>2, <2>4, <2>5, CalmSound DEF Acp!Alive, AcpInv, Placed
<1>5. CASE Acp!Prompted(r)
  <2> DEFINE cleared == [sessions[o] EXCEPT !.prompt = IF @ = r THEN Acp!None ELSE @]
             s == IF reqs[r].stop = "refused" THEN cleared ELSE Acp!Spawned(cleared)
             q1 == [reqs[r] EXCEPT !.task = "gone", !.at = "answered"]
  <2>1. /\ sessions' = [sessions EXCEPT ![o] = s] /\ ids' = ids
        /\ reqs' = [reqs EXCEPT ![r] = q1]
    BY <1>1, <1>5 DEF Acp!Prompted, AcpInv, AcpTypes
  <2>2. cleared \in Acp!SessionStates
    BY <1>1 DEF Acp!SessionStates
  <2>3. /\ s \in Acp!SessionStates /\ s.id = sessions[o].id /\ s.closed = sessions[o].closed
        /\ s.prompt = IF sessions[o].prompt = r THEN Acp!None ELSE sessions[o].prompt
        /\ s.background => sessions[o].background \/ ~sessions[o].closed
    BY <1>1, <2>2 DEF Acp!SessionStates, Acp!Spawned
  <2>4. q1 \in Acp!ReqStates /\ q1.at = "answered" /\ q1.on = reqs[r].on /\ q1.task = "gone"
    BY <1>1 DEF Acp!ReqStates
  <2> HIDE DEF s, q1, cleared
  <2>5. AcpTypes' /\ DOMAIN sessions' = DOMAIN sessions
    BY <1>1, <2>1, <2>3, <2>4 DEF AcpInv, AcpTypes
  <2>6. /\ \A q \in DOMAIN sessions \ {o} : sessions'[q] = sessions[q]
        /\ sessions'[o] = s
        /\ \A q \in Acp!Requests \ {r} : reqs'[q] = reqs[q]
        /\ reqs'[r] = q1
    BY <1>1, <2>1 DEF AcpInv, AcpTypes
  <2>7. ASSUME NEW q \in Acp!Requests, Acp!Alive(q)'
        PROVE  Acp!Alive(q) /\ sessions'[reqs[q].on].prompt = sessions[reqs[q].on].prompt
    BY <1>2, <2>3, <2>4, <2>6, <2>7 DEF Acp!Alive, AcpInv, TaskIsPrompt
  <2>8. \A q \in DOMAIN sessions :
          /\ sessions'[q].id = sessions[q].id /\ sessions'[q].closed = sessions[q].closed
          /\ sessions'[q].background => sessions[q].background \/ ~sessions[q].closed
    BY <2>3, <2>6
  <2> QED
    BY <1>1, <2>4, <2>5, <2>6, <2>7, <2>8, CalmSound DEF AcpInv, Placed
<1> QED
  BY <1>3, <1>4, <1>5

\* Tasks that are told to end go on until they have.
LEMMA CancelledSound ==
  ASSUME AcpInv, NEW rs \in SUBSET Acp!Requests
  PROVE  /\ Acp!Cancelled(rs) \in [Acp!Requests -> Acp!ReqStates]
         /\ \A q \in Acp!Requests :
              /\ Acp!Cancelled(rs)[q].at = reqs[q].at /\ Acp!Cancelled(rs)[q].on = reqs[q].on
              /\ \/ Acp!Cancelled(rs)[q].task = reqs[q].task
                 \/ Acp!Cancelled(rs)[q].task = "cancelling" /\ reqs[q].task = "run"
<1>1. \A t \in Acp!Requests : reqs[t] \in Acp!ReqStates /\ [reqs[t] EXCEPT !.task = "cancelling"] \in Acp!ReqStates
  BY DEF AcpInv, AcpTypes, Acp!ReqStates
<1> QED
  BY <1>1 DEF Acp!Cancelled, Acp!ReqStates

\* The prompt that starts is the only one: there was none, so no task runs.
LEMMA PromptLands ==
  ASSUME AcpInv, NEW r \in Acp!Requests, NEW i \in Acp!Ids, NEW o \in DOMAIN sessions, Acp!Prompt(r, i, o)
  PROVE  AcpInv'
<1>1. /\ Acp!Finds(r, i, o) /\ open' = open /\ ids' = ids /\ ids' \in 0..MaxIds
  BY DEF Acp!Prompt, AcpInv, AcpTypes
<1>2. /\ sessions[o] \in Acp!SessionStates /\ ~sessions[o].closed /\ o \in Acp!Objects
      /\ reqs[r].at = "new" /\ reqs[r].task = "none" /\ reqs[r] \in Acp!ReqStates
  BY <1>1, Found
<1>3. CASE (Acp!Answer(r, "refused") \/ Acp!Step(r, o, "command")) /\ UNCHANGED sessions
  BY <1>1, <1>2, <1>3, Unchanged, AnswerKeeps, StepKeeps
<1>4. CASE /\ sessions[o].prompt = Acp!None
           /\ sessions' = [sessions EXCEPT ![o].prompt = r]
           /\ reqs' = [reqs EXCEPT ![r].at = "prompt", ![r].on = o, ![r].task = "run"]
  <2> DEFINE s == [sessions[o] EXCEPT !.prompt = r]
             p == [reqs[r] EXCEPT !.at = "prompt", !.on = o, !.task = "run"]
  <2>1. s \in Acp!SessionStates /\ p \in Acp!ReqStates
    BY <1>2 DEF Acp!SessionStates, Acp!ReqStates
  <2>2. sessions' = [sessions EXCEPT ![o] = s] /\ reqs' = [reqs EXCEPT ![r] = p]
    BY <1>4 DEF AcpInv, AcpTypes
  <2>3. /\ s.prompt = r /\ s.id = sessions[o].id /\ s.closed = sessions[o].closed
        /\ s.background = sessions[o].background
        /\ p.at = "prompt" /\ p.on = o /\ p.task = "run"
    BY <1>2 DEF Acp!SessionStates, Acp!ReqStates
  <2> HIDE DEF s, p
  <2>4. /\ AcpTypes' /\ DOMAIN sessions' = DOMAIN sessions
        /\ sessions'[o] = s /\ \A q \in DOMAIN sessions \ {o} : sessions'[q] = sessions[q]
        /\ reqs'[r] = p /\ \A q \in Acp!Requests \ {r} : reqs'[q] = reqs[q]
    BY <1>1, <2>1, <2>2 DEF AcpInv, AcpTypes
  <2>5. Acp!None \notin Acp!Requests
    BY DEF Acp!None, Acp!Requests
  <2>6. \A q \in Acp!Requests : Acp!Alive(q) => q # r /\ reqs[q].on \in DOMAIN sessions \ {o}
    BY <1>2, <1>4, <2>5 DEF AcpInv, Placed, TaskIsPrompt, Acp!Alive
  <2>7. Placed' /\ TaskIsPrompt'
    BY <2>3, <2>4, <2>6 DEF AcpInv, Placed, TaskIsPrompt, Acp!Alive
  <2>8. FoundIsOpen'
    BY <1>1, <2>3, <2>4 DEF AcpInv, FoundIsOpen
  <2>9. ClosingIsClosed'
    BY <2>3, <2>4 DEF AcpInv, ClosingIsClosed, Placed
  <2>10. NothingLeft'
    BY <1>2, <2>3, <2>4 DEF AcpInv, Placed, ClosingIsClosed, NothingLeft, Acp!Alive
  <2> QED
    BY <2>4, <2>7, <2>8, <2>9, <2>10 DEF AcpInv
<1> QED
  BY <1>3, <1>4 DEF Acp!Prompt

LEMMA CancelLands ==
  ASSUME AcpInv, NEW r \in Acp!Requests, NEW i \in Acp!Ids, NEW o \in DOMAIN sessions, Acp!CancelPrompt(r, i, o)
  PROVE  AcpInv'
<1> DEFINE t == sessions[o].prompt
           c == Acp!Cancelled({t})
<1>1. Acp!Finds(r, i, o) /\ open' = open /\ ids' = ids /\ sessions' = sessions /\ ids' \in 0..MaxIds
  BY DEF Acp!CancelPrompt, AcpInv, AcpTypes
<1>2. /\ sessions[o] \in Acp!SessionStates /\ o \in Acp!Objects
      /\ reqs[r].at = "new" /\ reqs[r].task = "none"
  BY <1>1, Found
<1>3. CASE Acp!Answer(r, "end")
  BY <1>1, <1>3, Unchanged, AnswerKeeps
<1>4. CASE t # Acp!None /\ reqs' = [c EXCEPT ![r].at = "cancel", ![r].on = o, ![r].waits = t]
  <2>1. t \in Acp!Requests \union {Acp!None}
    BY <1>2 DEF Acp!SessionStates
  <2> DEFINE p == [c[r] EXCEPT !.at = "cancel", !.on = o, !.waits = t]
  <2>2. /\ c \in [Acp!Requests -> Acp!ReqStates]
        /\ \A q \in Acp!Requests :
             /\ c[q].at = reqs[q].at /\ c[q].on = reqs[q].on
             /\ c[q].task = reqs[q].task \/ (c[q].task = "cancelling" /\ reqs[q].task = "run")
    BY <1>4, <2>1, CancelledSound
  <2> HIDE DEF c
  <2>3. p \in Acp!ReqStates /\ p.at = "cancel" /\ p.on = o /\ p.task = c[r].task
    <3>1. c[r] \in Acp!ReqStates /\ o \in Acp!Objects \union {Acp!None}
      BY <1>2, <2>2
    <3> HIDE DEF t
    <3> QED
      BY <2>1, <3>1 DEF Acp!ReqStates
  <2>4. reqs' = [c EXCEPT ![r] = p]
    BY <1>4, <2>2
  <2> HIDE DEF p
  <2>5. /\ AcpTypes' /\ reqs'[r] = p /\ \A q \in Acp!Requests \ {r} : reqs'[q] = c[q]
    BY <1>1, <2>2, <2>3, <2>4 DEF AcpInv, AcpTypes
  <2>6. p.task = "none"
    BY <1>2, <2>2, <2>3
  <2>7. \A q \in Acp!Requests : Acp!Alive(q)' => Acp!Alive(q)
    BY <2>2, <2>5, <2>6 DEF Acp!Alive
  <2> QED
    BY <1>1, <1>2, <2>2, <2>3, <2>5, <2>6, <2>7, CalmSound DEF AcpInv, Placed
<1> QED
  BY <1>3, <1>4 DEF Acp!CancelPrompt

LEMMA CloseLands ==
  ASSUME AcpInv, NEW r \in Acp!Requests, NEW i \in Acp!Ids, NEW o \in DOMAIN sessions, Acp!Close(r, i, o)
  PROVE  AcpInv'
<1> DEFINE c == Acp!Cancelled(Acp!TasksOf(o))
           s == [sessions[o] EXCEPT !.closed = TRUE]
           p == [c[r] EXCEPT !.at = "tasks", !.on = o]
<1>1. /\ Acp!Finds(r, i, o) /\ open' = [open EXCEPT ![i] = Acp!None] /\ ids' = ids
      /\ reqs' = [c EXCEPT ![r].at = "tasks", ![r].on = o]
      /\ sessions' = [sessions EXCEPT ![o].closed = TRUE]
  BY DEF Acp!Close
<1>2. /\ sessions[o] \in Acp!SessionStates /\ o \in Acp!Objects /\ sessions[o].id = i
      /\ reqs[r].at = "new" /\ reqs[r].task = "none"
  BY <1>1, Found
<1>3. /\ s \in Acp!SessionStates /\ s.closed /\ s.id = sessions[o].id
      /\ s.prompt = sessions[o].prompt /\ s.background = sessions[o].background
  BY <1>2 DEF Acp!SessionStates
<1>4. sessions' = [sessions EXCEPT ![o] = s]
  BY <1>1 DEF AcpInv, AcpTypes
<1>5. /\ c \in [Acp!Requests -> Acp!ReqStates]
      /\ \A q \in Acp!Requests :
           /\ c[q].at = reqs[q].at /\ c[q].on = reqs[q].on
           /\ c[q].task = reqs[q].task \/ (c[q].task = "cancelling" /\ reqs[q].task = "run")
  BY CancelledSound DEF Acp!TasksOf
<1> HIDE DEF c, s
<1>6. p \in Acp!ReqStates /\ p.at = "tasks" /\ p.on = o /\ p.task = "none"
  BY <1>2, <1>5 DEF Acp!ReqStates
<1>7. reqs' = [c EXCEPT ![r] = p]
  BY <1>1, <1>5
<1> HIDE DEF p
<1>8. /\ AcpTypes' /\ DOMAIN sessions' = DOMAIN sessions
      /\ sessions'[o] = s /\ \A q \in DOMAIN sessions \ {o} : sessions'[q] = sessions[q]
      /\ reqs'[r] = p /\ \A q \in Acp!Requests \ {r} : reqs'[q] = c[q]
  <2>1. /\ sessions' \in Seq(Acp!SessionStates) /\ DOMAIN sessions' = DOMAIN sessions
        /\ sessions'[o] = s /\ \A q \in DOMAIN sessions \ {o} : sessions'[q] = sessions[q]
    BY <1>3, <1>4 DEF AcpInv, AcpTypes
  <2>2. /\ reqs' \in [Acp!Requests -> Acp!ReqStates]
        /\ reqs'[r] = p /\ \A q \in Acp!Requests \ {r} : reqs'[q] = c[q]
    BY <1>5, <1>6, <1>7
  <2>3. open' \in [Acp!Ids -> Acp!Objects \union {Acp!None}] /\ ids' \in 0..MaxIds
    BY <1>1 DEF AcpInv, AcpTypes
  <2> QED
    BY <2>1, <2>2, <2>3 DEF AcpTypes
<1>9. \A q \in Acp!Requests : Acp!Alive(q)' => Acp!Alive(q) /\ q # r /\ reqs'[q].on = reqs[q].on
  BY <1>5, <1>6, <1>8 DEF Acp!Alive
<1>10. Placed'
  BY <1>5, <1>6, <1>8 DEF AcpInv, Placed
<1>11. TaskIsPrompt' /\ ClosingIsClosed' /\ NothingLeft'
  <2>1. TaskIsPrompt'
    BY <1>3, <1>8, <1>9 DEF AcpInv, TaskIsPrompt, Placed, Acp!Alive
  <2>2. \A q \in Acp!Requests \ {r} : reqs'[q].at = reqs[q].at /\ reqs'[q].on = reqs[q].on
    BY <1>5, <1>8
  <2>3. ClosingIsClosed'
    BY <1>3, <1>6, <1>8, <2>2 DEF AcpInv, ClosingIsClosed, Placed
  <2>4. NothingLeft'
    BY <1>3, <1>6, <1>8, <1>9, <2>2 DEF AcpInv, NothingLeft, Placed
  <2> QED
    BY <2>1, <2>3, <2>4
<1>12. FoundIsOpen'
  BY <1>1, <1>2, <1>3, <1>8 DEF AcpInv, AcpTypes, FoundIsOpen
<1> QED
  BY <1>8, <1>10, <1>11, <1>12 DEF AcpInv

\* The tasks of a session that is being closed have ended, the last of its
\* updates too, and no other starts.
LEMMA TasksEndedLands ==
  ASSUME AcpInv, NEW r \in Acp!Requests, Acp!TasksEnded(r)
  PROVE  AcpInv'
<1> DEFINE o == reqs[r].on
           s == [sessions[o] EXCEPT !.prompt = Acp!None]
           p == [reqs[r] EXCEPT !.at = "loop"]
<1>1. /\ o \in DOMAIN sessions /\ sessions[o] \in Acp!SessionStates /\ reqs[r] \in Acp!ReqStates
      /\ reqs[r].at = "tasks" /\ sessions[o].closed /\ ~sessions[o].background
      /\ open' = open /\ ids' = ids
  BY DEF AcpInv, AcpTypes, Placed, ClosingIsClosed, Acp!TasksEnded
<1>2. s \in Acp!SessionStates /\ p \in Acp!ReqStates
  BY <1>1 DEF Acp!SessionStates, Acp!ReqStates
<1>3. /\ s.id = sessions[o].id /\ s.closed = sessions[o].closed
      /\ s.background = sessions[o].background
      /\ p.at = "loop" /\ p.on = o /\ p.task = reqs[r].task
  BY <1>1 DEF Acp!SessionStates, Acp!ReqStates
<1>4. sessions' = [sessions EXCEPT ![o] = s] /\ reqs' = [reqs EXCEPT ![r] = p]
  BY DEF Acp!TasksEnded, AcpInv, AcpTypes
<1> HIDE DEF s, p
<1>5. /\ AcpTypes' /\ DOMAIN sessions' = DOMAIN sessions
      /\ sessions'[o] = s /\ \A q \in DOMAIN sessions \ {o} : sessions'[q] = sessions[q]
      /\ reqs'[r] = p /\ \A q \in Acp!Requests \ {r} : reqs'[q] = reqs[q]
  BY <1>1, <1>2, <1>4 DEF AcpInv, AcpTypes
<1>6. \A q \in Acp!Requests : Acp!Alive(q) => reqs[q].on # o
  BY DEF Acp!TasksEnded, Acp!TasksOf
<1>7. \A q \in Acp!Requests : Acp!Alive(q)' => Acp!Alive(q) /\ q # r
  BY <1>3, <1>5, <1>6 DEF Acp!Alive
<1>8. \A q \in Acp!Requests : reqs'[q].on = reqs[q].on
  BY <1>3, <1>5
<1>9. Placed'
  BY <1>1, <1>3, <1>5 DEF AcpInv, Placed
<1>10. TaskIsPrompt'
  BY <1>5, <1>6, <1>7, <1>8 DEF AcpInv, TaskIsPrompt, Placed, Acp!Alive
<1>11. FoundIsOpen'
  BY <1>1, <1>3, <1>5 DEF AcpInv, FoundIsOpen
<1>12. ClosingIsClosed'
  <2>1. \A q \in Acp!Requests : reqs'[q].at \in {"tasks", "loop"} =>
          sessions[reqs[q].on].closed /\ reqs[q].on \in DOMAIN sessions
    BY <1>1, <1>5 DEF AcpInv, ClosingIsClosed, Placed
  <2>2. \A q \in DOMAIN sessions : sessions'[q].closed = sessions[q].closed
    BY <1>3, <1>5
  <2> QED
    BY <1>8, <2>1, <2>2 DEF ClosingIsClosed
<1>13. NothingLeft'
  BY <1>1, <1>3, <1>5, <1>6, <1>7, <1>8 DEF AcpInv, NothingLeft, Placed
<1> QED
  BY <1>5, <1>9, <1>10, <1>11, <1>12, <1>13 DEF AcpInv

LEMMA BackgroundLands ==
  ASSUME AcpInv, NEW o \in DOMAIN sessions, Acp!BackgroundEnds(o)
  PROVE  AcpInv'
<1> DEFINE s == [sessions[o] EXCEPT !.background = FALSE]
<1>1. sessions[o] \in Acp!SessionStates /\ reqs' = reqs /\ ids' = ids /\ open' = open
  BY DEF AcpInv, AcpTypes, Acp!BackgroundEnds
<1>2. s \in Acp!SessionStates /\ sessions' = [sessions EXCEPT ![o] = s]
  BY <1>1 DEF Acp!SessionStates, Acp!BackgroundEnds
<1>3. Kept
  BY <1>1, <1>2, GoesOn DEF Acp!SessionStates
<1>4. AcpTypes'
  BY <1>1, <1>3 DEF AcpInv, AcpTypes, Kept
<1>5. \A q \in Acp!Requests : Acp!Alive(q)' => Acp!Alive(q) /\ reqs[q].on \in DOMAIN sessions
  BY <1>1 DEF AcpInv, Placed, Acp!Alive
<1> QED
  BY <1>1, <1>3, <1>4, <1>5, CalmSound DEF Kept, AcpInv, Placed

LEMMA AcpStep ==
  ASSUME Acp!AcpAssumption, AcpInv, [Acp!Next]_Acp!acpVars
  PROVE  AcpInv'
<1>1. CASE UNCHANGED Acp!acpVars
  BY <1>1 DEF Acp!acpVars, AcpInv, AcpTypes, Placed, TaskIsPrompt, FoundIsOpen, ClosingIsClosed,
              NothingLeft, Acp!Alive
<1>2. ASSUME NEW r \in Acp!Requests, NEW i \in Acp!Ids, NEW o \in DOMAIN sessions,
             \/ Acp!ForkSession(r, i, o) \/ Acp!Prompt(r, i, o)
             \/ Acp!CancelPrompt(r, i, o) \/ Acp!Close(r, i, o) \/ Acp!SetOption(r, i, o)
             \/ \E p \in Acp!Profiles : Acp!SetMode(r, i, o, p)
      PROVE  AcpInv'
  BY <1>2, RequestsLand, PromptLands, CancelLands, CloseLands
<1> QED
  BY <1>1, <1>2, CreationsLand, AnswersLand, TasksLand, TasksEndedLands, BackgroundLands DEF Acp!Next

-----------------------------------------------------------------------------
(* Acp!Reachable, Acp!LogsApart and Acp!AsksAsProfile follow from AcpInv and from Known.   *)

\* Every id in use was generated, every object within the bound.
Numbered ==
  /\ stored \subseteq 1..ids
  /\ DOMAIN sessions \subseteq Acp!Objects /\ displaced \subseteq Acp!Objects
  /\ \A o \in DOMAIN sessions : sessions[o].id <= ids /\ sessions[o].log <= ids

\* A session is found under its id until it is closed or loaded again.
OpenIsFound ==
  \A o \in DOMAIN sessions \ displaced : sessions[o].closed \/ open[sessions[o].id] = o

\* Closing a session cancels what it runs.
RunningIsOpen ==
  \A r \in Acp!Requests : reqs[r].task = "run" => ~sessions[reqs[r].on].closed

Known == Numbered /\ OpenIsFound /\ RunningIsOpen /\ Acp!LogsApart /\ Acp!AsksAsProfile

\* What a session asks for stays as it is, or is set again, or is being set, or that failed.
AsksKept(o) ==
  /\ sessions'[o].asks \in {sessions[o].asks, Acp!None, o}
  /\ \/ /\ sessions'[o].asks = sessions[o].asks /\ sessions'[o].profile = sessions[o].profile
        /\ sessions[o].halfway => sessions'[o].halfway
        /\ \A r \in Acp!Requests :
             reqs[r].at = "mode" /\ reqs[r].on = o => reqs'[r].at = "mode" /\ reqs'[r].on = o
     \/ sessions'[o].asks = (IF sessions'[o].profile \in Bypassing THEN Acp!None ELSE o)
     \/ sessions'[o].halfway
     \/ \E r \in Acp!Requests : reqs'[r].at = "mode" /\ reqs'[r].on = o

LEMMA AllAsksStay ==
  ASSUME \A q \in DOMAIN sessions :
           /\ sessions'[q].asks = sessions[q].asks /\ sessions'[q].profile = sessions[q].profile
           /\ sessions'[q].halfway = sessions[q].halfway,
         \A q \in Acp!Requests :
           reqs[q].at = "mode" => reqs'[q].at = "mode" /\ reqs'[q].on = reqs[q].on
  PROVE  \A q \in DOMAIN sessions : AsksKept(q)
BY DEF AsksKept

RunsOn ==
  \A r \in Acp!Requests :
    reqs'[r].task = "run" => reqs[r].task = "run" /\ reqs'[r].on = reqs[r].on

\* A step that generates no id, starts no task and closes no session.
LEMMA CalmKnown ==
  ASSUME AcpInv, Known, DOMAIN sessions' = DOMAIN sessions, open' = open,
         displaced' = displaced, ids' = ids, stored' \subseteq 1..ids, RunsOn,
         \A o \in DOMAIN sessions :
           /\ sessions'[o].id = sessions[o].id /\ sessions'[o].log = sessions[o].log
           /\ sessions'[o].closed = sessions[o].closed,
         \A o \in DOMAIN sessions \ displaced : sessions[o].closed \/ AsksKept(o)
  PROVE  Known'
<1>1. Numbered' /\ OpenIsFound'
  BY DEF Known, Numbered, OpenIsFound
<1>2. RunningIsOpen'
  BY DEF Known, RunningIsOpen, RunsOn, AcpInv, Placed
<1>3. Acp!LogsApart'
  BY DEF Known, Acp!LogsApart
<1>4. Acp!AsksAsProfile'
  BY DEF Known, Acp!AsksAsProfile, AsksKept
<1> QED
  BY <1>1, <1>2, <1>3, <1>4 DEF Known

\* The log that a compaction starts is nobody else's.
LEMMA CompactsKnown ==
  ASSUME Acp!AcpAssumption, AcpInv, Known, NEW o \in DOMAIN sessions, Acp!Compacts(o), open' = open,
         displaced' = displaced, RunsOn,
         \A r \in Acp!Requests : reqs[r].at = "mode" => reqs'[r].at = "mode" /\ reqs'[r].on = reqs[r].on
  PROVE  Known'
<1>1. /\ sessions' = [sessions EXCEPT ![o].log = ids + 1] /\ ids' = ids + 1
      /\ stored' = stored \union {sessions[o].log, ids + 1}
      /\ sessions[o] \in Acp!SessionStates /\ ids \in Nat
  BY DEF Acp!Compacts, AcpInv, AcpTypes, Acp!AcpAssumption
<1>2. /\ DOMAIN sessions' = DOMAIN sessions /\ sessions'[o].log = ids + 1
      /\ \A q \in DOMAIN sessions :
           /\ sessions'[q].id = sessions[q].id /\ sessions'[q].closed = sessions[q].closed
           /\ sessions'[q].asks = sessions[q].asks /\ sessions'[q].profile = sessions[q].profile
             /\ sessions'[q].halfway = sessions[q].halfway
           /\ q # o => sessions'[q].log = sessions[q].log
           /\ sessions[q].id \in Nat /\ sessions[q].log \in Nat \ {0}
  <2>1. \A q \in DOMAIN sessions : sessions[q] \in Acp!SessionStates
    BY DEF AcpInv, AcpTypes
  <2>2. \A q \in DOMAIN sessions : sessions[q].id \in Nat /\ sessions[q].log \in Nat \ {0}
    BY <2>1 DEF Acp!SessionStates, Acp!Ids
  <2>3. /\ DOMAIN sessions' = DOMAIN sessions
        /\ sessions'[o] = [sessions[o] EXCEPT !.log = ids + 1]
        /\ \A q \in DOMAIN sessions \ {o} : sessions'[q] = sessions[q]
    BY <1>1 DEF AcpInv, AcpTypes
  <2> QED
    BY <1>1, <2>2, <2>3 DEF Acp!SessionStates
<1>3. Numbered' /\ OpenIsFound'
  BY <1>1, <1>2 DEF Known, Numbered, OpenIsFound
<1>4. RunningIsOpen'
  BY <1>2 DEF Known, RunningIsOpen, RunsOn, AcpInv, Placed
<1>5. Acp!LogsApart'
  BY <1>1, <1>2 DEF Known, Acp!LogsApart, Numbered
<1>6. Acp!AsksAsProfile'
  BY <1>2 DEF Known, Acp!AsksAsProfile
<1> QED
  BY <1>3, <1>4, <1>5, <1>6 DEF Known

\* A session is created under an id of its own, or one that displaces the others.
LEMMA CreateKnown ==
  ASSUME Acp!AcpAssumption, AcpInv, Known, NEW i \in Acp!Ids, NEW p \in Acp!Profiles, Acp!Create(i, i, p),
         ids' \in Nat, ids <= ids', i <= ids', stored' \subseteq 1..ids',
         displaced' = displaced \union
           {o \in DOMAIN sessions : sessions[o].id = i \/ sessions[o].log = i},
         \A r \in Acp!Requests : reqs'[r].task = reqs[r].task,
         \A r \in Acp!Requests : reqs[r].at # "new" => reqs'[r].on = reqs[r].on,
         \A r \in Acp!Requests : reqs[r].at = "mode" => reqs'[r].at = "mode"
  PROVE  Known'
<1> DEFINE n == Len(sessions) + 1
<1>1. Len(sessions) \in Nat /\ DOMAIN sessions = 1..Len(sessions) /\ ids \in Nat
  BY DEF AcpInv, AcpTypes, Acp!AcpAssumption
<1>2. n \in Acp!Objects
  BY <1>1 DEF Acp!Create, Acp!Objects, Acp!AcpAssumption
<1>3. Acp!Created(i, i, p) \in Acp!SessionStates
  BY <1>2 DEF Acp!Created, Acp!SessionStates
<1>4. /\ DOMAIN sessions' = DOMAIN sessions \union {n} /\ n \notin DOMAIN sessions
      /\ sessions'[n] = Acp!Created(i, i, p)
      /\ \A o \in DOMAIN sessions : sessions'[o] = sessions[o]
  BY <1>1, <1>3 DEF AcpInv, AcpTypes, Acp!Create
<1>5. \A o \in DOMAIN sessions : sessions[o].id \in Acp!Ids /\ sessions[o].log \in Acp!Ids
  <2>1. \A o \in DOMAIN sessions : sessions[o] \in Acp!SessionStates
    BY DEF AcpInv, AcpTypes
  <2> QED
    BY <2>1 DEF Acp!SessionStates
<1>6. /\ sessions'[n].id = i /\ sessions'[n].log = i /\ ~sessions'[n].closed
      /\ sessions'[n].profile = p /\ sessions'[n].asks = (IF p \in Bypassing THEN Acp!None ELSE n)
  BY <1>4 DEF Acp!Created
<1>7. open' = [open EXCEPT ![i] = n] /\ open'[i] = n
  BY DEF Acp!Create, AcpInv, AcpTypes
<1>8. Numbered'
  BY <1>1, <1>2, <1>4, <1>5, <1>6 DEF Known, Numbered, Acp!Ids
<1>9. OpenIsFound'
  BY <1>4, <1>5, <1>6, <1>7 DEF Known, OpenIsFound, AcpInv, AcpTypes
<1>10. RunningIsOpen'
  BY <1>4 DEF Known, RunningIsOpen, AcpInv, Placed
<1>11. Acp!LogsApart'
  BY <1>4, <1>6 DEF Known, Acp!LogsApart
<1>12. Acp!AsksAsProfile'
  BY <1>4, <1>6 DEF Known, Acp!AsksAsProfile
<1> QED
  BY <1>8, <1>9, <1>10, <1>11, <1>12 DEF Known

\* What a request that is answered leaves as it was.
LEMMA AnswerKnown ==
  ASSUME AcpInv, NEW r \in Acp!Requests, NEW s \in {"none", "end", "cancelled", "refused"},
         Acp!Answer(r, s)
  PROVE  /\ RunsOn
         /\ reqs[r].at # "mode" =>
              \A q \in Acp!Requests :
                reqs[q].at = "mode" => reqs'[q].at = "mode" /\ reqs'[q].on = reqs[q].on
BY AnswerSound DEF RunsOn

\* Saving stores an id that was generated.
LEMMA SavesKnown ==
  ASSUME AcpInv, Known, Acp!AcpAssumption, NEW o \in DOMAIN sessions, Acp!Saves(o)
  PROVE  stored' \subseteq 1..ids
<1>1. sessions[o].log \in 1..ids
  <2>1. sessions[o] \in Acp!SessionStates /\ ids \in Nat
    BY DEF AcpInv, AcpTypes, Acp!AcpAssumption
  <2> QED
    BY <2>1 DEF Acp!SessionStates, Acp!Ids, Known, Numbered, Acp!AcpAssumption
<1> QED
  BY <1>1 DEF Acp!Saves, Known, Numbered

\* One session changes, in what neither names it nor closes it.
LEMMA OneChanges ==
  ASSUME AcpInv, NEW o \in DOMAIN sessions, NEW s \in Acp!SessionStates,
         sessions' = [sessions EXCEPT ![o] = s], s.id = sessions[o].id, s.log = sessions[o].log,
         s.closed = sessions[o].closed
  PROVE  /\ DOMAIN sessions' = DOMAIN sessions /\ sessions'[o] = s
         /\ \A q \in DOMAIN sessions \ {o} : sessions'[q] = sessions[q]
         /\ \A q \in DOMAIN sessions :
              /\ sessions'[q].id = sessions[q].id /\ sessions'[q].log = sessions[q].log
              /\ sessions'[q].closed = sessions[q].closed
BY DEF AcpInv, AcpTypes

LEMMA CreationsKnown ==
  ASSUME Acp!AcpAssumption, AcpInv, Known, NEW r \in Acp!Requests,
         Acp!NewSession(r) \/ Acp!Forked(r) \/ \E i \in Acp!Ids : Acp!LoadSession(r, i)
  PROVE  Known'
<1>1. /\ ids \in Nat /\ stored \subseteq 1..ids
      /\ \A o \in DOMAIN sessions : sessions[o].id # ids + 1 /\ sessions[o].log # ids + 1
  BY DEF AcpInv, AcpTypes, Acp!AcpAssumption, Known, Numbered, Acp!SessionStates, Acp!Ids
<1>2. CASE Acp!NewSession(r) \/ Acp!Forked(r)
  <2>1. PICK p \in Acp!Profiles : Acp!Create(ids + 1, ids + 1, p)
    <3>1. CASE Acp!NewSession(r)
      BY <3>1 DEF Acp!NewSession, Acp!Profiles
    <3>2. CASE Acp!Forked(r)
      <4>1. reqs[r].on \in DOMAIN sessions
        BY <3>2 DEF Acp!Forked, AcpInv, Placed
      <4>2. sessions[reqs[r].on] \in Acp!SessionStates
        BY <4>1 DEF AcpInv, AcpTypes
      <4> QED
        BY <3>2, <4>2 DEF Acp!Forked, Acp!SessionStates
    <3> QED
      BY <1>2, <3>1, <3>2
  <2>2. /\ Acp!Answer(r, "end") /\ ids' = ids + 1 /\ displaced' = displaced
        /\ stored' \in {stored, stored \union {ids + 1}} /\ reqs[r].at \in {"new", "fork"}
        /\ ids + 1 \in Acp!Ids
    BY <1>1, <1>2 DEF Acp!NewSession, Acp!Forked, Acp!Arrives, Acp!Ids, Acp!AcpAssumption
  <2>3. \A q \in Acp!Requests :
          /\ reqs'[q].on = reqs[q].on /\ reqs'[q].task = reqs[q].task
          /\ reqs[q].at = "mode" => reqs'[q].at = "mode"
    BY <2>2, AnswerSound
  <2>4. stored' \subseteq 1..ids' /\ ids' \in Nat /\ ids <= ids' /\ ids + 1 <= ids'
    <3>1. ids' \in Nat /\ ids <= ids' /\ ids + 1 <= ids'
      BY <1>1, <2>2
    <3>2. 1..ids \subseteq 1..(ids + 1) /\ ids + 1 \in 1..(ids + 1)
      BY <1>1
    <3>3. stored' \subseteq 1..(ids + 1)
      BY <1>1, <2>2, <3>2
    <3> QED
      BY <2>2, <3>1, <3>3
  <2>5. {o \in DOMAIN sessions : sessions[o].id = ids + 1 \/ sessions[o].log = ids + 1} = {}
    BY <1>1
  <2>6. displaced' = displaced \union
          {o \in DOMAIN sessions : sessions[o].id = ids + 1 \/ sessions[o].log = ids + 1}
    BY <2>2, <2>5
  <2> QED
    BY <2>1, <2>2, <2>3, <2>4, <2>6, CreateKnown
<1>3. ASSUME NEW i \in Acp!Ids, Acp!LoadSession(r, i) PROVE Known'
  <2>1. /\ Acp!Create(i, i, "default") /\ Acp!Step(r, Len(sessions) + 1, "replay") /\ ids' = ids
        /\ reqs[r].at = "new" /\ stored' = stored /\ i \in stored /\ "default" \in Acp!Profiles
        /\ displaced' = displaced \union
             {o \in DOMAIN sessions : sessions[o].id = i \/ sessions[o].log = i}
    BY <1>3 DEF Acp!LoadSession, Acp!Arrives, Acp!Profiles
  <2>2. Len(sessions) + 1 \in Acp!Objects
    BY <2>1 DEF Acp!Create, Acp!Objects, Acp!AcpAssumption, AcpInv, AcpTypes
  <2>3. \A q \in Acp!Requests :
          /\ reqs'[q].task = reqs[q].task
          /\ reqs[q].at # "new" => reqs'[q].on = reqs[q].on
          /\ reqs[q].at = "mode" => reqs'[q].at = "mode"
    BY <2>1, <2>2, StepSound
  <2>4. i <= ids' /\ ids' \in Nat /\ ids <= ids' /\ stored' \subseteq 1..ids'
    BY <1>1, <2>1
  <2> QED
    BY <2>1, <2>3, <2>4, CreateKnown
<1> QED
  BY <1>2, <1>3

LEMMA AnswersKnown ==
  ASSUME Acp!AcpAssumption, AcpInv, Known, NEW r \in Acp!Requests,
         \/ Acp!Replayed(r) \/ Acp!CommandEnds(r) \/ Acp!PromptCancelled(r) \/ Acp!LoopClosed(r)
         \/ Acp!OptionSet(r)
  PROVE  Known'
<1> DEFINE o == reqs[r].on
<1>1. /\ stored \subseteq 1..ids /\ reqs[r].at # "mode" /\ open' = open /\ displaced' = displaced
      /\ Acp!Answer(r, "end") \/ Acp!Answer(r, "refused")
  BY DEF Known, Numbered, Acp!Replayed, Acp!CommandEnds, Acp!PromptCancelled, Acp!LoopClosed, Acp!OptionSet
<1>2. /\ RunsOn
      /\ \A q \in Acp!Requests :
           reqs[q].at = "mode" => reqs'[q].at = "mode" /\ reqs'[q].on = reqs[q].on
  <2>1. CASE Acp!Answer(r, "end")
    BY <1>1, <2>1, AnswerKnown
  <2>2. CASE Acp!Answer(r, "refused")
    BY <1>1, <2>2, AnswerKnown
  <2> QED BY <1>1, <2>1, <2>2
<1>3. CASE /\ UNCHANGED <<sessions, ids>>
           /\ stored' = stored \/ (Acp!Saves(o) /\ reqs[r].at = "option")
  BY <1>1, <1>2, <1>3, SavesKnown, AllAsksStay, CalmKnown DEF AcpInv, Placed
<1>4. CASE Acp!Compacts(o) /\ Acp!CommandEnds(r)
  BY <1>1, <1>2, <1>4, CompactsKnown DEF Acp!CommandEnds, AcpInv, Placed
<1>5. CASE /\ sessions' = [sessions EXCEPT ![o] = Acp!Spawned(@)] /\ ids' = ids
           /\ \/ stored' = stored /\ reqs[r].at = "replay"
              \/ Acp!Saves(o) /\ reqs[r].at = "command"
  <2>1. o \in DOMAIN sessions /\ sessions[o] \in Acp!SessionStates
    BY <1>5 DEF AcpInv, AcpTypes, Placed
  <2> DEFINE s == Acp!Spawned(sessions[o])
  <2>2. /\ s \in Acp!SessionStates /\ s.id = sessions[o].id /\ s.log = sessions[o].log
        /\ s.closed = sessions[o].closed /\ s.asks = sessions[o].asks /\ s.profile = sessions[o].profile
        /\ s.halfway = sessions[o].halfway
    BY <2>1 DEF Acp!Spawned, Acp!SessionStates
  <2> HIDE DEF s
  <2>3. stored' \subseteq 1..ids
    BY <1>1, <1>5, <2>1, SavesKnown
  <2>4. sessions' = [sessions EXCEPT ![o] = s]
    BY <1>5, <2>1 DEF s
  <2>5. /\ DOMAIN sessions' = DOMAIN sessions
        /\ \A q \in DOMAIN sessions :
             /\ sessions'[q].id = sessions[q].id /\ sessions'[q].log = sessions[q].log
             /\ sessions'[q].closed = sessions[q].closed
             /\ sessions'[q].asks = sessions[q].asks /\ sessions'[q].profile = sessions[q].profile
             /\ sessions'[q].halfway = sessions[q].halfway
    BY <2>1, <2>2, <2>4, OneChanges
  <2> QED
    BY <1>1, <1>2, <1>5, <2>3, <2>5, AllAsksStay, CalmKnown
<1> QED
  BY <1>3, <1>4, <1>5 DEF Acp!Replayed, Acp!CommandEnds, Acp!PromptCancelled, Acp!LoopClosed, Acp!OptionSet

\* A change of mode that is under way, or one that is asked for.
LEMMA ModesKnown ==
  ASSUME Acp!AcpAssumption, AcpInv, Known, NEW r \in Acp!Requests,
         \/ Acp!ModeSet(r) \/ Acp!ModeFails(r)
         \/ \E i \in Acp!Ids, o \in DOMAIN sessions, p \in Acp!Profiles : Acp!SetMode(r, i, o, p)
  PROVE  Known'
<1>1. stored \subseteq 1..ids
  BY DEF Known, Numbered
<1>2. CASE Acp!ModeSet(r)
  <2> DEFINE o == reqs[r].on
             expected == IF sessions[o].profile \in Bypassing THEN Acp!None ELSE o
  <2>1. /\ o \in DOMAIN sessions /\ sessions[o] \in Acp!SessionStates /\ open' = open /\ ids' = ids
        /\ displaced' = displaced /\ Acp!Saves(o)
    BY <1>2 DEF AcpInv, AcpTypes, Placed, Acp!ModeSet
  <2>2. stored' \subseteq 1..ids
    BY <2>1, SavesKnown
  <2>3. /\ RunsOn
        /\ \A q \in Acp!Requests : reqs[q].at = "mode" /\ q # r =>
             reqs'[q].at = "mode" /\ reqs'[q].on = reqs[q].on
    BY <1>2, AnswerSound DEF Acp!ModeSet, RunsOn
  <2>4. o \in displaced \/ sessions[o].closed \/ open[sessions[o].id] = o
    BY <2>1 DEF Known, OpenIsFound
  <2>5. CASE UNCHANGED sessions
    <3>1. o \in displaced \/ sessions[o].closed \/ sessions'[o].asks = expected
      <4>1. Acp!None \notin DOMAIN sessions
        BY DEF Acp!None, AcpInv, AcpTypes
      <4>2. CASE sessions[o].profile \notin Bypassing /\ open[sessions[o].id] = Acp!None
        BY <2>1, <2>4, <4>1, <4>2
      <4>3. CASE sessions' = [sessions EXCEPT ![o] = Acp!Asking(@)]
        BY <2>1, <2>4, <4>3 DEF AcpInv, AcpTypes, Acp!SessionStates, Acp!Asking, Acp!Callback
      <4> QED
        BY <1>2, <4>2, <4>3 DEF Acp!ModeSet
    <3> QED
      BY <2>1, <2>2, <2>3, <2>5, <3>1, CalmKnown DEF AsksKept
  <2>6. CASE sessions' = [sessions EXCEPT ![o] = Acp!Asking(@)]
    <3> DEFINE s == Acp!Asking(sessions[o])
    <3>1. /\ s \in Acp!SessionStates /\ s.id = sessions[o].id /\ s.log = sessions[o].log
          /\ s.closed = sessions[o].closed /\ s.profile = sessions[o].profile
          /\ s.asks = Acp!Callback(sessions[o])
      BY <2>1 DEF Acp!SessionStates, Acp!Asking, Acp!Callback, AcpInv, AcpTypes
    <3> HIDE DEF s
    <3>2. sessions' = [sessions EXCEPT ![o] = s]
      BY <2>1, <2>6 DEF s
    <3>3. /\ DOMAIN sessions' = DOMAIN sessions /\ sessions'[o] = s
          /\ \A q \in DOMAIN sessions \ {o} : sessions'[q] = sessions[q]
          /\ \A q \in DOMAIN sessions :
               /\ sessions'[q].id = sessions[q].id /\ sessions'[q].log = sessions[q].log
               /\ sessions'[q].closed = sessions[q].closed
      BY <2>1, <3>1, <3>2, OneChanges
    <3>4. o \in displaced \/ sessions[o].closed \/ sessions'[o].asks = expected
      BY <2>4, <3>1, <3>3 DEF Acp!Callback
    <3>5. \A q \in DOMAIN sessions \ displaced : sessions[q].closed \/ AsksKept(q)
      BY <2>3, <3>1, <3>3, <3>4 DEF AsksKept
    <3> QED
      BY <2>1, <2>2, <2>3, <3>3, <3>5, CalmKnown
  <2> QED
    BY <1>2, <2>5, <2>6 DEF Acp!ModeSet
<1>3. ASSUME NEW i \in Acp!Ids, NEW o \in DOMAIN sessions, NEW p \in Acp!Profiles, Acp!SetMode(r, i, o, p)
      PROVE  Known'
  <2>1. /\ Acp!Finds(r, i, o) /\ open' = open /\ ids' = ids /\ stored' = stored
        /\ displaced' = displaced
    BY <1>3 DEF Acp!SetMode
  <2>2. /\ sessions[o] \in Acp!SessionStates /\ Acp!Callback(sessions[o]) \in Acp!Objects \union {Acp!None}
        /\ reqs[r].at = "new" /\ reqs[r].task = "none" /\ o \in Acp!Objects /\ open[sessions[o].id] = o
    BY <2>1, Found DEF Acp!Callback, Acp!SessionStates, AcpInv, AcpTypes
  <2>3. CASE /\ sessions' = [sessions EXCEPT ![o] = Acp!Asking(@)]
             /\ Acp!Answer(r, "end")
    <3> DEFINE s == Acp!Asking(sessions[o])
    <3>1. /\ s \in Acp!SessionStates /\ s.id = sessions[o].id /\ s.log = sessions[o].log
          /\ s.closed = sessions[o].closed /\ s.profile = sessions[o].profile
          /\ s.asks = Acp!Callback(sessions[o])
      BY <2>2 DEF Acp!SessionStates, Acp!Asking
    <3>2. sessions' = [sessions EXCEPT ![o] = s]
      BY <2>2, <2>3
    <3> HIDE DEF s
    <3>3. /\ DOMAIN sessions' = DOMAIN sessions /\ sessions'[o] = s
          /\ \A q \in DOMAIN sessions \ {o} : sessions'[q] = sessions[q]
          /\ \A q \in DOMAIN sessions :
               /\ sessions'[q].id = sessions[q].id /\ sessions'[q].log = sessions[q].log
               /\ sessions'[q].closed = sessions[q].closed
      BY <3>1, <3>2, OneChanges
    <3>4. /\ RunsOn
          /\ \A q \in Acp!Requests :
               reqs[q].at = "mode" => reqs'[q].at = "mode" /\ reqs'[q].on = reqs[q].on
      BY <2>2, <2>3, AnswerKnown
    <3>5. AsksKept(o)
      BY <2>2, <3>1, <3>3 DEF AsksKept, Acp!Callback
    <3>6. \A q \in DOMAIN sessions : AsksKept(q)
      BY <3>3, <3>4, <3>5 DEF AsksKept
    <3> QED
      BY <1>1, <2>1, <3>3, <3>4, <3>6, CalmKnown
  <2>4. CASE sessions' = [sessions EXCEPT ![o].profile = p] /\ Acp!Step(r, o, "mode")
    <3> DEFINE s == [sessions[o] EXCEPT !.profile = p]
    <3>1. /\ s \in Acp!SessionStates /\ s.id = sessions[o].id /\ s.log = sessions[o].log
          /\ s.closed = sessions[o].closed /\ s.asks = sessions[o].asks
      BY <2>2 DEF Acp!SessionStates
    <3>2. sessions' = [sessions EXCEPT ![o] = s]
      BY <2>2, <2>4
    <3> HIDE DEF s
    <3>3. /\ DOMAIN sessions' = DOMAIN sessions /\ sessions'[o].asks = sessions[o].asks
          /\ \A q \in DOMAIN sessions \ {o} : sessions'[q] = sessions[q]
          /\ \A q \in DOMAIN sessions :
               /\ sessions'[q].id = sessions[q].id /\ sessions'[q].log = sessions[q].log
               /\ sessions'[q].closed = sessions[q].closed
      BY <3>1, <3>2, OneChanges
    <3>4. /\ \A q \in Acp!Requests \ {r} : reqs'[q] = reqs[q]
          /\ reqs'[r].at = "mode" /\ reqs'[r].on = o /\ reqs'[r].task = "none"
      BY <2>2, <2>4, StepSound
    <3>5. RunsOn /\ \A q \in DOMAIN sessions : AsksKept(q)
      BY <2>2, <3>3, <3>4 DEF AsksKept, RunsOn
    <3> QED
      BY <1>1, <2>1, <3>3, <3>5, CalmKnown
  <2> QED
    BY <1>3, <2>3, <2>4 DEF Acp!SetMode
<1>4. CASE Acp!ModeFails(r)
  <2> DEFINE o == reqs[r].on
  <2>1. /\ o \in DOMAIN sessions /\ sessions[o] \in Acp!SessionStates /\ open' = open /\ ids' = ids
        /\ displaced' = displaced /\ Acp!Answer(r, "refused")
        /\ Acp!Saves(o) \/ UNCHANGED stored
    BY <1>4 DEF AcpInv, AcpTypes, Placed, Acp!ModeFails
  <2>2. stored' \subseteq 1..ids
    BY <1>1, <2>1, SavesKnown
  <2>3. /\ RunsOn
        /\ \A q \in Acp!Requests : reqs[q].at = "mode" /\ q # r =>
             reqs'[q].at = "mode" /\ reqs'[q].on = reqs[q].on
    BY <2>1, AnswerSound DEF RunsOn
  <2> DEFINE s == [sessions[o] EXCEPT !.halfway = TRUE]
  <2>4. /\ s \in Acp!SessionStates /\ s.id = sessions[o].id /\ s.log = sessions[o].log
        /\ s.closed = sessions[o].closed /\ s.asks = sessions[o].asks /\ s.halfway
    BY <2>1 DEF Acp!SessionStates
  <2>5. sessions' = [sessions EXCEPT ![o] = s]
    BY <1>4, <2>1 DEF Acp!ModeFails
  <2> HIDE DEF s
  <2>6. /\ DOMAIN sessions' = DOMAIN sessions /\ sessions'[o] = s
        /\ \A q \in DOMAIN sessions \ {o} : sessions'[q] = sessions[q]
        /\ \A q \in DOMAIN sessions :
             /\ sessions'[q].id = sessions[q].id /\ sessions'[q].log = sessions[q].log
             /\ sessions'[q].closed = sessions[q].closed
    BY <2>1, <2>4, <2>5, OneChanges
  <2>7. \A q \in DOMAIN sessions : AsksKept(q)
    BY <2>3, <2>4, <2>6 DEF AsksKept
  <2> QED
    BY <2>1, <2>2, <2>3, <2>6, <2>7, CalmKnown
<1> QED
  BY <1>2, <1>3, <1>4

\* Requests that leave the sessions as they are.
LEMMA RequestsKnown ==
  ASSUME AcpInv, Known, NEW r \in Acp!Requests, NEW i \in Acp!Ids, NEW o \in DOMAIN sessions,
         Acp!ForkSession(r, i, o) \/ Acp!SetOption(r, i, o) \/ Acp!CancelPrompt(r, i, o)
  PROVE  Known'
<1>1. /\ Acp!Finds(r, i, o) /\ UNCHANGED <<open, sessions, ids, stored, displaced>>
      /\ stored \subseteq 1..ids
  BY DEF Acp!ForkSession, Acp!SetOption, Acp!CancelPrompt, Known, Numbered
<1>2. o \in Acp!Objects /\ reqs[r].at = "new" /\ reqs[r].task = "none" /\ reqs[r] \in Acp!ReqStates
  BY <1>1, Found
<1>3. RunsOn /\ \A q \in Acp!Requests :
        reqs[q].at = "mode" => reqs'[q].at = "mode" /\ reqs'[q].on = reqs[q].on
  <2>1. CASE Acp!Answer(r, "refused") \/ Acp!Answer(r, "end")
    BY <1>2, <2>1, AnswerKnown
  <2>2. CASE Acp!Step(r, o, "fork") \/ Acp!Step(r, o, "option")
    BY <1>2, <2>2, StepSound DEF RunsOn
  <2>3. CASE /\ sessions[o].prompt # Acp!None
             /\ reqs' = [Acp!Cancelled({sessions[o].prompt}) EXCEPT
                  ![r].at = "cancel", ![r].on = o, ![r].waits = sessions[o].prompt]
    <3> DEFINE c == Acp!Cancelled({sessions[o].prompt})
    <3>1. {sessions[o].prompt} \in SUBSET Acp!Requests
      BY <1>1, <2>3, Found DEF Acp!SessionStates
    <3>2. /\ c \in [Acp!Requests -> Acp!ReqStates]
          /\ \A q \in Acp!Requests :
               /\ c[q].at = reqs[q].at /\ c[q].on = reqs[q].on
               /\ c[q].task = reqs[q].task \/ (c[q].task = "cancelling" /\ reqs[q].task = "run")
      BY <3>1, CancelledSound
    <3> HIDE DEF c
    <3>3. c[r].task = "none" /\ c[r] \in Acp!ReqStates
      BY <1>2, <3>2
    <3>4. /\ reqs' = [c EXCEPT ![r].at = "cancel", ![r].on = o, ![r].waits = sessions[o].prompt]
          /\ \A q \in Acp!Requests \ {r} : reqs'[q] = c[q]
      BY <2>3, <3>2 DEF c
    <3>5. reqs'[r].task = "none"
      BY <3>2, <3>3, <3>4 DEF Acp!ReqStates
    <3> QED
      BY <1>2, <3>2, <3>4, <3>5 DEF RunsOn
  <2> QED
    BY <2>1, <2>2, <2>3 DEF Acp!ForkSession, Acp!SetOption, Acp!CancelPrompt
<1> QED
  BY <1>1, <1>3, CalmKnown DEF AsksKept

\* A turn, the end of a task, its callbacks, the end of updates and of closing.
LEMMA TasksKnown ==
  ASSUME Acp!AcpAssumption, AcpInv, Known, NEW r \in Acp!Requests,
         Acp!Turn(r) \/ Acp!TaskEnds(r) \/ Acp!Prompted(r) \/ Acp!TasksEnded(r)
  PROVE  Known'
<1> DEFINE o == reqs[r].on
<1>1. /\ o \in DOMAIN sessions /\ sessions[o] \in Acp!SessionStates /\ open' = open
      /\ reqs[r] \in Acp!ReqStates /\ displaced' = displaced /\ stored \subseteq 1..ids
  BY DEF AcpInv, AcpTypes, Placed, Known, Numbered, Acp!Turn, Acp!TaskEnds, Acp!Prompted,
         Acp!TasksEnded, Acp!Alive
<1>2. CASE Acp!Turn(r)
  BY <1>1, <1>2, CompactsKnown DEF Acp!Turn, RunsOn
<1>3. CASE Acp!TaskEnds(r)
  <2>1. /\ sessions' = sessions /\ ids' = ids /\ stored' \subseteq 1..ids
    BY <1>1, <1>3, SavesKnown DEF Acp!TaskEnds
  <2>2. PICK s \in {"end", "cancelled", "refused"} :
          reqs' = [reqs EXCEPT ![r].task = "done", ![r].stop = s]
    BY <1>3 DEF Acp!TaskEnds
  <2>3. \A q \in Acp!Requests :
          /\ reqs'[q].at = reqs[q].at /\ reqs'[q].on = reqs[q].on
          /\ reqs'[q].task \in {reqs[q].task, "done"}
    BY <1>1, <2>2 DEF AcpInv, AcpTypes, Acp!ReqStates
  <2> QED
    BY <1>1, <2>1, <2>3, CalmKnown DEF AsksKept, RunsOn
<1>4. CASE Acp!Prompted(r)
  <2> DEFINE cleared == [sessions[o] EXCEPT !.prompt = IF @ = r THEN Acp!None ELSE @]
             s == IF reqs[r].stop = "refused" THEN cleared ELSE Acp!Spawned(cleared)
  <2>1. cleared \in Acp!SessionStates
    BY <1>1 DEF Acp!SessionStates
  <2>2. /\ s \in Acp!SessionStates /\ s.id = sessions[o].id /\ s.log = sessions[o].log
        /\ s.closed = sessions[o].closed /\ s.asks = sessions[o].asks
        /\ s.profile = sessions[o].profile /\ s.halfway = sessions[o].halfway
    BY <1>1, <2>1 DEF Acp!SessionStates, Acp!Spawned
  <2>3. sessions' = [sessions EXCEPT ![o] = s] /\ ids' = ids /\ stored' = stored
    BY <1>1, <1>4 DEF Acp!Prompted
  <2> HIDE DEF s, cleared
  <2>4. /\ DOMAIN sessions' = DOMAIN sessions
        /\ \A q \in DOMAIN sessions :
             /\ sessions'[q].id = sessions[q].id /\ sessions'[q].log = sessions[q].log
             /\ sessions'[q].closed = sessions[q].closed
             /\ sessions'[q].asks = sessions[q].asks /\ sessions'[q].profile = sessions[q].profile
             /\ sessions'[q].halfway = sessions[q].halfway
    BY <1>1, <2>2, <2>3, OneChanges
  <2>5. reqs' = [reqs EXCEPT ![r].task = "gone", ![r].at = "answered"]
    BY <1>4 DEF Acp!Prompted
  <2>6. \A q \in Acp!Requests : reqs[q].at # "mode" \/ q # r
    BY <1>4 DEF Acp!Prompted, AcpInv, Placed
  <2>7. RunsOn /\ \A q \in Acp!Requests :
          reqs[q].at = "mode" => reqs'[q].at = "mode" /\ reqs'[q].on = reqs[q].on
    BY <1>1, <2>5, <2>6 DEF RunsOn, AcpInv, AcpTypes, Acp!ReqStates
  <2> QED
    BY <1>1, <2>3, <2>4, <2>7, AllAsksStay, CalmKnown
<1>5. CASE Acp!TasksEnded(r)
  <2> DEFINE s == [sessions[o] EXCEPT !.prompt = Acp!None]
  <2>1. /\ s \in Acp!SessionStates /\ s.id = sessions[o].id /\ s.log = sessions[o].log
        /\ s.closed = sessions[o].closed /\ s.asks = sessions[o].asks
        /\ s.profile = sessions[o].profile /\ s.halfway = sessions[o].halfway
    BY <1>1 DEF Acp!SessionStates
  <2>2. sessions' = [sessions EXCEPT ![o] = s] /\ ids' = ids /\ stored' = stored
    BY <1>1, <1>5 DEF Acp!TasksEnded
  <2> HIDE DEF s
  <2>3. /\ DOMAIN sessions' = DOMAIN sessions
        /\ \A q \in DOMAIN sessions :
             /\ sessions'[q].id = sessions[q].id /\ sessions'[q].log = sessions[q].log
             /\ sessions'[q].closed = sessions[q].closed
             /\ sessions'[q].asks = sessions[q].asks /\ sessions'[q].profile = sessions[q].profile
             /\ sessions'[q].halfway = sessions[q].halfway
    BY <1>1, <2>1, <2>2, OneChanges
  <2>4. RunsOn /\ \A q \in Acp!Requests :
          reqs[q].at = "mode" => reqs'[q].at = "mode" /\ reqs'[q].on = reqs[q].on
    BY <1>1, <1>5 DEF RunsOn, Acp!TasksEnded, AcpInv, AcpTypes, Acp!ReqStates
  <2> QED
    BY <1>1, <2>2, <2>3, <2>4, AllAsksStay, CalmKnown
<1> QED
  BY <1>2, <1>3, <1>4, <1>5

LEMMA BackgroundKnown ==
  ASSUME AcpInv, Known, NEW o \in DOMAIN sessions, Acp!BackgroundEnds(o)
  PROVE  Known'
<1> DEFINE s == [sessions[o] EXCEPT !.background = FALSE]
<1>1. /\ UNCHANGED <<open, ids, stored, reqs, displaced>> /\ stored \subseteq 1..ids
      /\ sessions[o] \in Acp!SessionStates
  BY DEF Acp!BackgroundEnds, Known, Numbered, AcpInv, AcpTypes
<1>2. /\ s \in Acp!SessionStates /\ s.id = sessions[o].id /\ s.log = sessions[o].log
      /\ s.closed = sessions[o].closed /\ s.asks = sessions[o].asks
      /\ s.profile = sessions[o].profile /\ s.halfway = sessions[o].halfway
  BY <1>1 DEF Acp!SessionStates
<1>3. sessions' = [sessions EXCEPT ![o] = s]
  BY <1>1 DEF Acp!BackgroundEnds
<1> HIDE DEF s
<1>4. /\ DOMAIN sessions' = DOMAIN sessions
      /\ \A q \in DOMAIN sessions :
           /\ sessions'[q].id = sessions[q].id /\ sessions'[q].log = sessions[q].log
           /\ sessions'[q].closed = sessions[q].closed
           /\ sessions'[q].asks = sessions[q].asks /\ sessions'[q].profile = sessions[q].profile
             /\ sessions'[q].halfway = sessions[q].halfway
  BY <1>1, <1>2, <1>3, OneChanges
<1> QED
  BY <1>1, <1>4, AllAsksStay, CalmKnown DEF RunsOn

LEMMA PromptKnown ==
  ASSUME AcpInv, Known, NEW r \in Acp!Requests, NEW i \in Acp!Ids, NEW o \in DOMAIN sessions, Acp!Prompt(r, i, o)
  PROVE  Known'
<1>1. /\ Acp!Finds(r, i, o) /\ UNCHANGED <<open, ids, stored, displaced>> /\ stored \subseteq 1..ids
  BY DEF Acp!Prompt, Known, Numbered
<1>2. /\ sessions[o] \in Acp!SessionStates /\ ~sessions[o].closed /\ o \in Acp!Objects
      /\ reqs[r].at = "new" /\ reqs[r].task = "none" /\ reqs[r] \in Acp!ReqStates
  BY <1>1, Found
<1>3. CASE Acp!Answer(r, "refused") /\ UNCHANGED sessions
  BY <1>1, <1>2, <1>3, AnswerKnown, CalmKnown DEF AsksKept
<1>4. CASE Acp!Step(r, o, "command") /\ UNCHANGED sessions
  BY <1>1, <1>2, <1>4, StepSound, CalmKnown DEF RunsOn, AsksKept
<1>5. CASE /\ sessions' = [sessions EXCEPT ![o].prompt = r]
           /\ reqs' = [reqs EXCEPT ![r].at = "prompt", ![r].on = o, ![r].task = "run"]
  <2> DEFINE s == [sessions[o] EXCEPT !.prompt = r]
  <2>1. /\ s \in Acp!SessionStates /\ s.id = sessions[o].id /\ s.log = sessions[o].log
        /\ s.closed = sessions[o].closed /\ s.asks = sessions[o].asks
        /\ s.profile = sessions[o].profile /\ s.halfway = sessions[o].halfway
    BY <1>2 DEF Acp!SessionStates
  <2>2. sessions' = [sessions EXCEPT ![o] = s]
    BY <1>2, <1>5
  <2> HIDE DEF s
  <2>3. /\ DOMAIN sessions' = DOMAIN sessions
        /\ \A q \in DOMAIN sessions :
             /\ sessions'[q].id = sessions[q].id /\ sessions'[q].log = sessions[q].log
             /\ sessions'[q].closed = sessions[q].closed
             /\ sessions'[q].asks = sessions[q].asks /\ sessions'[q].profile = sessions[q].profile
             /\ sessions'[q].halfway = sessions[q].halfway
    BY <1>2, <2>1, <2>2, OneChanges
  <2>4. reqs'[r].on = o /\ \A q \in Acp!Requests \ {r} : reqs'[q] = reqs[q]
    BY <1>2, <1>5 DEF AcpInv, AcpTypes, Acp!ReqStates
  <2>5. Numbered' /\ OpenIsFound' /\ Acp!LogsApart'
    BY <1>1, <2>3 DEF Known, Numbered, OpenIsFound, Acp!LogsApart
  <2>6. RunningIsOpen'
    BY <1>2, <2>3, <2>4 DEF Known, RunningIsOpen, AcpInv, Placed
  <2>7. Acp!AsksAsProfile'
    BY <1>1, <1>2, <2>3, <2>4 DEF Known, Acp!AsksAsProfile
  <2> QED
    BY <2>5, <2>6, <2>7 DEF Known
<1> QED
  BY <1>3, <1>4, <1>5 DEF Acp!Prompt

LEMMA CloseKnown ==
  ASSUME AcpInv, Known, NEW r \in Acp!Requests, NEW i \in Acp!Ids, NEW o \in DOMAIN sessions, Acp!Close(r, i, o)
  PROVE  Known'
<1> DEFINE c == Acp!Cancelled(Acp!TasksOf(o))
           s == [sessions[o] EXCEPT !.closed = TRUE]
<1>1. /\ Acp!Finds(r, i, o) /\ open' = [open EXCEPT ![i] = Acp!None] /\ UNCHANGED <<ids, stored, displaced>>
      /\ reqs' = [c EXCEPT ![r].at = "tasks", ![r].on = o]
      /\ sessions' = [sessions EXCEPT ![o].closed = TRUE]
  BY DEF Acp!Close
<1>2. /\ sessions[o] \in Acp!SessionStates /\ sessions[o].id = i /\ open[i] = o
      /\ reqs[r].at = "new" /\ reqs[r].task = "none"
  BY <1>1, Found
<1>3. /\ sessions'[o].closed /\ DOMAIN sessions' = DOMAIN sessions
      /\ \A q \in DOMAIN sessions :
           /\ sessions'[q].id = sessions[q].id /\ sessions'[q].log = sessions[q].log
           /\ sessions'[q].asks = sessions[q].asks /\ sessions'[q].profile = sessions[q].profile
             /\ sessions'[q].halfway = sessions[q].halfway
           /\ q # o => sessions'[q].closed = sessions[q].closed
  BY <1>1, <1>2 DEF AcpInv, AcpTypes, Acp!SessionStates
<1>4. /\ c \in [Acp!Requests -> Acp!ReqStates]
      /\ \A q \in Acp!Requests :
           /\ c[q].at = reqs[q].at /\ c[q].on = reqs[q].on
           /\ c[q].task = reqs[q].task \/ (c[q].task = "cancelling" /\ reqs[q].task = "run")
  BY CancelledSound DEF Acp!TasksOf
<1>5. \A q \in Acp!Requests : reqs[q].task = "run" /\ reqs[q].on = o => c[q].task = "cancelling"
  BY DEF AcpInv, AcpTypes, Acp!ReqStates, Acp!Cancelled, Acp!TasksOf, Acp!Alive
<1> HIDE DEF c
<1>6. \A q \in Acp!Requests \ {r} : reqs'[q] = c[q]
  BY <1>1, <1>4
<1>7. reqs'[r].task = "none"
  BY <1>1, <1>2, <1>4 DEF Acp!ReqStates
<1>8. Numbered' /\ Acp!LogsApart'
  BY <1>1, <1>3 DEF Known, Numbered, Acp!LogsApart
<1>9. OpenIsFound'
  BY <1>1, <1>2, <1>3 DEF Known, OpenIsFound, AcpInv, AcpTypes
<1>10. RunningIsOpen'
  BY <1>3, <1>4, <1>5, <1>6, <1>7 DEF Known, RunningIsOpen, AcpInv, Placed
<1>11. Acp!AsksAsProfile'
  BY <1>1, <1>2, <1>3, <1>4, <1>6 DEF Known, Acp!AsksAsProfile
<1> QED
  BY <1>8, <1>9, <1>10, <1>11 DEF Known

LEMMA KnownStep ==
  ASSUME Acp!AcpAssumption, AcpInv, Known, [Acp!Next]_Acp!acpVars
  PROVE  Known'
<1>1. CASE UNCHANGED Acp!acpVars
  BY <1>1 DEF Acp!acpVars, Known, Numbered, OpenIsFound, RunningIsOpen, Acp!LogsApart, Acp!AsksAsProfile
<1>2. ASSUME NEW r \in Acp!Requests, NEW i \in Acp!Ids, NEW o \in DOMAIN sessions,
             \/ Acp!ForkSession(r, i, o) \/ Acp!Prompt(r, i, o)
             \/ Acp!CancelPrompt(r, i, o) \/ Acp!Close(r, i, o) \/ Acp!SetOption(r, i, o)
             \/ \E p \in Acp!Profiles : Acp!SetMode(r, i, o, p)
      PROVE  Known'
  BY <1>2, RequestsKnown, PromptKnown, CloseKnown, ModesKnown
<1> QED
  BY <1>1, <1>2, CreationsKnown, AnswersKnown, TasksKnown, ModesKnown, BackgroundKnown DEF Acp!Next

-----------------------------------------------------------------------------
(* Remote sessions: calls and their results first. *)

Msgs == [role : {"assistant", "user", "call", "tool"}, id : Nat \union Remote!Ids, body : Seq(Nat)]

Events == [task : Tasks \union {Remote!None}, op : Remote!Ops]

\* Messages with the calls of `called` and the results of `answered`, each once.
Paired(ms, called, answered) ==
  /\ ms \in Seq(Msgs) /\ called \subseteq Remote!Ids /\ answered \subseteq called
  /\ \A n \in DOMAIN ms :
       /\ ms[n].role = "call" => ms[n].id \in called
       /\ ms[n].role = "tool" => ms[n].id \in answered
       /\ ms[n].role = "tool" => \E m \in 1..n-1 : ms[m].role = "call" /\ ms[m].id = ms[n].id
       /\ ms[n].role \in {"call", "tool"} =>
            \A m \in DOMAIN ms : ms[m].role = ms[n].role /\ ms[m].id = ms[n].id => m = n
  /\ \A c \in called : \E n \in DOMAIN ms : ms[n].role = "call" /\ ms[n].id = c

LEMMA AppendFacts ==
  ASSUME NEW ms \in Seq(Msgs), NEW msg \in Msgs
  PROVE  /\ Append(ms, msg) \in Seq(Msgs) /\ Len(ms) \in Nat /\ DOMAIN ms = 1..Len(ms)
         /\ DOMAIN Append(ms, msg) = 1..(Len(ms) + 1)
         /\ Append(ms, msg)[Len(ms) + 1] = msg
         /\ \A n \in DOMAIN ms : Append(ms, msg)[n] = ms[n]
OBVIOUS

\* A call that was not shown is shown.
LEMMA CallAppended ==
  ASSUME NEW ms, NEW called, NEW answered, Paired(ms, called, answered), NEW c \in Remote!Ids,
         c \notin called
  PROVE  Paired(Append(ms, Remote!CallMsg(c)), called \union {c}, answered)
<1> DEFINE new == Append(ms, Remote!CallMsg(c))
           k == Len(ms) + 1
<1>1. Remote!CallMsg(c) \in Msgs /\ Remote!CallMsg(c).role = "call" /\ Remote!CallMsg(c).id = c
  BY DEF Remote!CallMsg, Msgs
<1>2. /\ ms \in Seq(Msgs) /\ new \in Seq(Msgs) /\ Len(ms) \in Nat /\ DOMAIN ms = 1..Len(ms)
      /\ DOMAIN new = 1..k /\ new[k] = Remote!CallMsg(c)
      /\ \A n \in DOMAIN ms : new[n] = ms[n]
  BY <1>1, AppendFacts DEF Paired
<1> HIDE DEF new
<1>3. \A n \in DOMAIN new : n = k \/ n \in DOMAIN ms
  BY <1>2
<1>4. \A n \in DOMAIN ms : ms[n].role = "call" => ms[n].id # c
  BY DEF Paired
<1>5. ASSUME NEW n \in DOMAIN ms, ms[n].role = "tool"
      PROVE  \E m \in 1..n-1 : new[m].role = "call" /\ new[m].id = ms[n].id
  BY <1>2, <1>5 DEF Paired
<1>6. \A n \in DOMAIN new :
        /\ new[n].role = "call" => new[n].id \in called \union {c}
        /\ new[n].role = "tool" => new[n].id \in answered
        /\ new[n].role = "tool" => \E m \in 1..n-1 : new[m].role = "call" /\ new[m].id = new[n].id
  BY <1>1, <1>2, <1>3, <1>5 DEF Paired
<1>7. \A n, m \in DOMAIN new :
        new[n].role \in {"call", "tool"} /\ new[m].role = new[n].role /\ new[m].id = new[n].id => m = n
  BY <1>1, <1>2, <1>3, <1>4 DEF Paired
<1>8. \A d \in called \union {c} : \E n \in DOMAIN new : new[n].role = "call" /\ new[n].id = d
  BY <1>1, <1>2 DEF Paired
<1> QED
  BY <1>2, <1>6, <1>7, <1>8 DEF Paired

\* A call that was shown gets its result.
LEMMA ResultAppended ==
  ASSUME NEW ms, NEW called, NEW answered, Paired(ms, called, answered), NEW c \in called,
         c \notin answered
  PROVE  Paired(Append(ms, Remote!Result(c)), called, answered \union {c})
<1> DEFINE new == Append(ms, Remote!Result(c))
           k == Len(ms) + 1
<1>1. Remote!Result(c) \in Msgs /\ Remote!Result(c).role = "tool" /\ Remote!Result(c).id = c
  BY DEF Remote!Result, Msgs, Paired
<1>2. /\ ms \in Seq(Msgs) /\ new \in Seq(Msgs) /\ Len(ms) \in Nat /\ DOMAIN ms = 1..Len(ms)
      /\ DOMAIN new = 1..k /\ new[k] = Remote!Result(c)
      /\ \A n \in DOMAIN ms : new[n] = ms[n]
  BY <1>1, AppendFacts DEF Paired
<1> HIDE DEF new
<1>3. \A n \in DOMAIN new : n = k \/ n \in DOMAIN ms
  BY <1>2
<1>4. \A n \in DOMAIN ms : ms[n].role = "tool" => ms[n].id # c
  BY DEF Paired
<1>5. ASSUME NEW n \in DOMAIN ms, ms[n].role = "tool"
      PROVE  \E m \in 1..n-1 : new[m].role = "call" /\ new[m].id = ms[n].id
  BY <1>2, <1>5 DEF Paired
<1>6. \E m \in 1..k-1 : new[m].role = "call" /\ new[m].id = c
  BY <1>2 DEF Paired
<1>7. \A n \in DOMAIN new :
        /\ new[n].role = "call" => new[n].id \in called
        /\ new[n].role = "tool" => new[n].id \in answered \union {c}
        /\ new[n].role = "tool" => \E m \in 1..n-1 : new[m].role = "call" /\ new[m].id = new[n].id
  BY <1>1, <1>2, <1>3, <1>5, <1>6 DEF Paired
<1>8. \A n, m \in DOMAIN new :
        new[n].role \in {"call", "tool"} /\ new[m].role = new[n].role /\ new[m].id = new[n].id => m = n
  BY <1>1, <1>2, <1>3, <1>4 DEF Paired
<1>9. \A d \in called : \E n \in DOMAIN new : new[n].role = "call" /\ new[n].id = d
  BY <1>2 DEF Paired
<1> QED
  BY <1>2, <1>7, <1>8, <1>9 DEF Paired

\* Texts and messages of the user say nothing of calls.
LEMMA PlainAppended ==
  ASSUME NEW ms, NEW called, NEW answered, Paired(ms, called, answered), NEW msg \in Msgs,
         msg.role \in {"assistant", "user"}
  PROVE  Paired(Append(ms, msg), called, answered)
<1> DEFINE new == Append(ms, msg)
<1>1. /\ ms \in Seq(Msgs) /\ new \in Seq(Msgs) /\ DOMAIN ms \subseteq DOMAIN new
      /\ DOMAIN ms = 1..Len(ms) /\ Len(ms) \in Nat
      /\ \A n \in DOMAIN new : new[n].role \in {"assistant", "user"} \/ n \in DOMAIN ms
      /\ \A n \in DOMAIN ms : new[n] = ms[n]
  BY AppendFacts DEF Paired
<1> HIDE DEF new
<1>2. ASSUME NEW n \in DOMAIN ms, ms[n].role = "tool"
      PROVE  \E m \in 1..n-1 : new[m].role = "call" /\ new[m].id = ms[n].id
  <2>1. PICK m \in 1..n-1 : ms[m].role = "call" /\ ms[m].id = ms[n].id
    BY <1>2 DEF Paired
  <2>2. m \in DOMAIN ms
    BY <1>1
  <2> QED
    BY <1>1, <2>1, <2>2
<1>3. \A n \in DOMAIN new :
        /\ new[n].role = "call" => new[n].id \in called
        /\ new[n].role = "tool" => new[n].id \in answered
        /\ new[n].role = "tool" => \E m \in 1..n-1 : new[m].role = "call" /\ new[m].id = new[n].id
  BY <1>1, <1>2 DEF Paired
<1>4. \A n, m \in DOMAIN new :
        new[n].role \in {"call", "tool"} /\ new[m].role = new[n].role /\ new[m].id = new[n].id => m = n
  <2>1. \A n \in DOMAIN new : new[n].role \in {"call", "tool"} => n \in DOMAIN ms
    BY <1>1
  <2> QED
    BY <1>1, <2>1 DEF Paired
<1>5. \A d \in called : \E n \in DOMAIN new : new[n].role = "call" /\ new[n].id = d
  BY <1>1 DEF Paired
<1> QED
  BY <1>1, <1>3, <1>4, <1>5 DEF Paired

\* A longer text in the place of another.
LEMMA BodyReplaced ==
  ASSUME NEW ms, NEW called, NEW answered, Paired(ms, called, answered), NEW new \in Seq(Msgs),
         DOMAIN new = DOMAIN ms,
         \A n \in DOMAIN ms : new[n].role = ms[n].role /\ new[n].id = ms[n].id
  PROVE  Paired(new, called, answered)
<1>1. DOMAIN ms = 1..Len(ms) /\ Len(ms) \in Nat
  BY DEF Paired
<1>2. ASSUME NEW n \in DOMAIN ms, ms[n].role = "tool"
      PROVE  \E m \in 1..n-1 : new[m].role = "call" /\ new[m].id = ms[n].id
  <2>1. PICK m \in 1..n-1 : ms[m].role = "call" /\ ms[m].id = ms[n].id
    BY <1>2 DEF Paired
  <2>2. m \in DOMAIN ms
    BY <1>1
  <2> QED
    BY <2>1, <2>2
<1> QED
  BY <1>2 DEF Paired

\* What is known of the workflow's events: a task of a tool has started before it fails,
\* and the end is nobody's.
LogLegal ==
  \A n \in DOMAIN log :
    /\ log[n].op = "end" => log[n].task = Remote!None
    /\ log[n].task # Remote!None => log[n].task \in Tasks
    /\ log[n].task # Remote!None /\ log[n].op = "fail" /\ Kind[log[n].task] \in {"tool", "question"} =>
         \E m \in 1..n-1 : log[m].task = log[n].task

\* The call of a tool of which an event was received has been shown.
StartedIsCalled ==
  \A n \in 1..stream.next-1 :
    log[n].task # Remote!None /\ Kind[log[n].task] \in {"tool", "question"} =>
      Call[log[n].task] \in calls.called

PairInv ==
  /\ log \in Seq(Events)
  /\ stream.next \in 1..Len(log) + 1
  /\ DOMAIN stream = {"up", "next", "retries", "over"}
  /\ calls \in [called : SUBSET Remote!Ids, answered : SUBSET Remote!Ids, open : SUBSET Remote!Ids]
  /\ content \in [Tasks -> Seq(Nat)] /\ msgId \in [Tasks -> Nat]
  /\ asking # Remote!None => asking \in calls.called
  /\ LogLegal /\ StartedIsCalled
  /\ Paired(messages, calls.called, calls.answered)

\* What an event may do to the calls and messages.
Consumed ==
  /\ calls' \in [called : SUBSET Remote!Ids, answered : SUBSET Remote!Ids, open : SUBSET Remote!Ids]
  /\ content' \in [Tasks -> Seq(Nat)] /\ msgId' \in [Tasks -> Nat]
  /\ calls.called \subseteq calls'.called
  /\ asking' # Remote!None => asking' \in calls'.called
  /\ Paired(messages', calls'.called, calls'.answered)

LEMMA MergeSound ==
  ASSUME PairInv, NEW id \in Nat, NEW piece \in Seq(Nat)
  PROVE  Paired(Remote!Merge(messages, Remote!Text(id, piece)), calls.called, calls.answered)
<1> DEFINE m == Remote!Text(id, piece)
           k == Len(messages)
<1>1. m \in Msgs /\ m.role = "assistant" /\ m.id = id /\ m.body = piece
  BY DEF Remote!Text, Msgs
<1>2. messages \in Seq(Msgs) /\ Paired(messages, calls.called, calls.answered)
  BY DEF PairInv, Paired
<1>3. CASE Remote!Merge(messages, m) = Append(messages, m)
  BY <1>1, <1>2, <1>3, PlainAppended
<1>4. CASE messages # <<>> /\ Remote!Merge(messages, m) = [messages EXCEPT ![k].body = @ \o m.body]
  <2>1. k \in DOMAIN messages /\ messages[k] \in Msgs
    BY <1>2, <1>4
  <2>2. messages[k].body \o m.body \in Seq(Nat)
    BY <1>1, <2>1 DEF Msgs
  <2> DEFINE new == [messages[k] EXCEPT !.body = messages[k].body \o m.body]
  <2>3. new \in Msgs /\ new.role = messages[k].role /\ new.id = messages[k].id
    BY <2>1, <2>2 DEF Msgs
  <2>4. Remote!Merge(messages, m) = [messages EXCEPT ![k] = new]
    BY <1>4, <2>1
  <2> HIDE DEF new
  <2>5. /\ [messages EXCEPT ![k] = new] \in Seq(Msgs)
        /\ DOMAIN [messages EXCEPT ![k] = new] = DOMAIN messages
        /\ \A n \in DOMAIN messages :
             [messages EXCEPT ![k] = new][n] = IF n = k THEN new ELSE messages[n]
    BY <1>2, <2>1, <2>3
  <2> QED
    BY <1>2, <2>3, <2>4, <2>5, BodyReplaced
<1> QED
  BY <1>3, <1>4 DEF Remote!Merge

LEMMA TextConsumed ==
  ASSUME PairInv, NEW t \in Tasks, NEW n \in Nat, NEW op \in Remote!Ops, Remote!TextEvent(t, n, op)
  PROVE  Consumed
<1> DEFINE new == Remote!NewText(t, n, op)
           goesOn == Remote!IsPrefix(content[t], new)
           id == IF goesOn /\ msgId[t] # 0 THEN msgId[t] ELSE n
           delta == IF goesOn THEN SubSeq(new, Len(content[t]) + 1, Len(new)) ELSE new
<1>1. content[t] \in Seq(Nat) /\ msgId[t] \in Nat
  BY DEF PairInv
<1>2. new \in Seq(Nat)
  BY <1>1 DEF Remote!NewText
<1>3. id \in Nat
  BY <1>1
<1> HIDE DEF new, goesOn
<1>4. delta \in Seq(Nat)
  BY <1>1, <1>2
<1>5. /\ content' = [content EXCEPT ![t] = new] /\ msgId' = [msgId EXCEPT ![t] = id]
      /\ messages' = Remote!Merge(messages, Remote!Text(id, delta)) /\ UNCHANGED <<calls, asking>>
  BY DEF Remote!TextEvent, new, goesOn
<1> HIDE DEF id, delta
<1>6. content' \in [Tasks -> Seq(Nat)] /\ msgId' \in [Tasks -> Nat]
  BY <1>2, <1>3, <1>5 DEF PairInv
<1>7. Paired(messages', calls.called, calls.answered)
  BY <1>3, <1>4, <1>5, MergeSound
<1> QED
  BY <1>5, <1>6, <1>7 DEF PairInv, Consumed

\* A call that is shown, and a result of one that was.
LEMMA ShownOnce ==
  ASSUME PairInv, NEW c \in Remote!Ids
  PROVE  /\ Remote!Called(c) \in [called : SUBSET Remote!Ids, answered : SUBSET Remote!Ids, open : SUBSET Remote!Ids]
         /\ Remote!Called(c).called = calls.called \union {c} /\ Remote!Called(c).answered = calls.answered
         /\ Paired(Remote!CalledMsgs(c), calls.called \union {c}, calls.answered)
<1>1. calls.called \in SUBSET Remote!Ids /\ calls.answered \in SUBSET Remote!Ids /\ calls.open \in SUBSET Remote!Ids
  BY DEF PairInv
<1>2. CASE c \in calls.called
  <2>1. calls.called \union {c} = calls.called
    BY <1>2
  <2> QED
    BY <1>1, <1>2, <2>1 DEF Remote!Called, Remote!CalledMsgs, PairInv
<1>3. CASE c \notin calls.called
  BY <1>1, <1>3, CallAppended DEF Remote!Called, Remote!CalledMsgs, PairInv
<1> QED
  BY <1>2, <1>3

LEMMA ResultOnce ==
  ASSUME PairInv, NEW cs \in [called : SUBSET Remote!Ids, answered : SUBSET Remote!Ids, open : SUBSET Remote!Ids],
         NEW ms, cs.answered = calls.answered, Paired(ms, cs.called, cs.answered),
         NEW c \in cs.called
  PROVE  /\ Remote!Answered(cs, c) \in [called : SUBSET Remote!Ids, answered : SUBSET Remote!Ids, open : SUBSET Remote!Ids]
         /\ Remote!Answered(cs, c).called = cs.called
         /\ Paired(Remote!ResultMsgs(ms, c), Remote!Answered(cs, c).called, Remote!Answered(cs, c).answered)
<1>1. /\ Remote!Answered(cs, c) \in [called : SUBSET Remote!Ids, answered : SUBSET Remote!Ids, open : SUBSET Remote!Ids]
      /\ Remote!Answered(cs, c).called = cs.called /\ Remote!Answered(cs, c).answered = cs.answered \union {c}
  BY DEF Remote!Answered
<1>2. CASE c \in calls.answered
  BY <1>1, <1>2 DEF Remote!ResultMsgs
<1>3. CASE c \notin calls.answered
  BY <1>1, <1>3, ResultAppended DEF Remote!ResultMsgs
<1> QED
  BY <1>2, <1>3

\* That a tool fails is said of a call that was shown when it started.
LEMMA ToolConsumed ==
  ASSUME PairInv, NEW t \in Tasks, NEW op \in Remote!Ops, Remote!ToolTask(t, op),
         op = "fail" => Call[t] \in calls.called
  PROVE  Consumed /\ Call[t] \in calls'.called
<1> DEFINE c == Call[t]
           cs == IF op # "fail" THEN Remote!Called(c) ELSE calls
           ms == IF op # "fail" THEN Remote!CalledMsgs(c) ELSE messages
<1>1. c \in Remote!Ids
  BY DEF Remote!Ids
<1>2. /\ cs \in [called : SUBSET Remote!Ids, answered : SUBSET Remote!Ids, open : SUBSET Remote!Ids]
      /\ cs.answered = calls.answered /\ cs.called = calls.called \union {c}
      /\ Paired(ms, cs.called, cs.answered)
  <2>1. CASE op = "fail"
    BY <2>1 DEF PairInv
  <2>2. CASE op # "fail"
    BY <1>1, <2>2, ShownOnce
  <2> QED
    BY <2>1, <2>2
<1>3. /\ calls' = IF op \in {"complete", "fail"} THEN Remote!Answered(cs, c) ELSE cs
      /\ messages' = IF op \in {"complete", "fail"} THEN Remote!ResultMsgs(ms, c) ELSE ms
      /\ asking' \in {c, asking} /\ UNCHANGED <<content, msgId>>
  BY DEF Remote!ToolTask
<1> HIDE DEF cs, ms
<1>4. /\ calls' \in [called : SUBSET Remote!Ids, answered : SUBSET Remote!Ids, open : SUBSET Remote!Ids]
      /\ calls'.called = calls.called \union {c}
      /\ Paired(messages', calls'.called, calls'.answered)
  BY <1>2, <1>3, ResultOnce
<1> QED
  BY <1>3, <1>4 DEF Consumed, PairInv

LEMMA WorkingConsumed ==
  ASSUME PairInv, NEW t \in Tasks, NEW op \in Remote!Ops, Remote!WorkingTask(t, op)
  PROVE  Consumed
<1> DEFINE c == Call[t]
<1>1. c \in Remote!Ids /\ UNCHANGED <<content, msgId, asking>>
  BY DEF Remote!Ids, Remote!WorkingTask
<1>2. CASE op = "fail"
  BY <1>1, <1>2 DEF Remote!WorkingTask, Consumed, PairInv
<1>3. CASE op # "fail"
  <2>1. /\ Remote!Called(c) \in [called : SUBSET Remote!Ids, answered : SUBSET Remote!Ids, open : SUBSET Remote!Ids]
        /\ Remote!Called(c).called = calls.called \union {c} /\ Remote!Called(c).answered = calls.answered
        /\ Paired(Remote!CalledMsgs(c), Remote!Called(c).called, Remote!Called(c).answered)
    BY <1>1, ShownOnce
  <2>2. /\ calls' = IF op = "complete" THEN Remote!Answered(Remote!Called(c), c) ELSE Remote!Called(c)
        /\ messages' = IF op = "complete" THEN Remote!ResultMsgs(Remote!CalledMsgs(c), c) ELSE Remote!CalledMsgs(c)
    BY <1>3 DEF Remote!WorkingTask
  <2>3. /\ calls' \in [called : SUBSET Remote!Ids, answered : SUBSET Remote!Ids, open : SUBSET Remote!Ids]
        /\ calls'.called = calls.called \union {c}
        /\ Paired(messages', calls'.called, calls'.answered)
    BY <2>1, <2>2, ResultOnce
  <2> QED
    BY <1>1, <2>3 DEF Consumed, PairInv
<1> QED
  BY <1>2, <1>3

\* The question that was asked last is one that was shown.
LEMMA WaitConsumed ==
  ASSUME PairInv, NEW t \in Tasks, NEW n \in Nat, NEW op \in Remote!Ops,
         Remote!WaitStarts(t) \/ Remote!SteerEnds(t, n, op) \/ Remote!WaitEnds(t, n, op)
  PROVE  Consumed
<1>1. Remote!User(n) \in Msgs /\ Remote!User(n).role = "user"
  BY DEF Remote!User, Msgs
<1>2. CASE Remote!WaitStarts(t)
  BY <1>2 DEF Remote!WaitStarts, Consumed, PairInv
<1>3. CASE Remote!SteerEnds(t, n, op)
  BY <1>1, <1>3, PlainAppended DEF Remote!SteerEnds, PairInv, Consumed
<1>4. CASE Remote!WaitEnds(t, n, op)
  <2> DEFINE answers == asking # Remote!None /\ op \in {"answer", "fail"}
             ms == IF answers THEN Remote!ResultMsgs(messages, asking) ELSE messages
  <2>1. /\ asking' = Remote!None /\ UNCHANGED <<content, msgId>>
        /\ calls' = IF answers THEN Remote!Answered(calls, asking) ELSE calls
        /\ messages' = IF op = "answer" THEN Append(ms, Remote!User(n)) ELSE ms
    BY <1>4 DEF Remote!WaitEnds
  <2>2. /\ calls' \in [called : SUBSET Remote!Ids, answered : SUBSET Remote!Ids, open : SUBSET Remote!Ids]
        /\ calls'.called = calls.called
        /\ Paired(ms, calls'.called, calls'.answered)
    <3>1. CASE answers
      BY <2>1, <3>1, ResultOnce DEF PairInv
    <3>2. CASE ~answers
      BY <2>1, <3>2 DEF PairInv
    <3> QED
      BY <3>1, <3>2
  <2> HIDE DEF ms
  <2>3. Paired(messages', calls'.called, calls'.answered)
    BY <1>1, <2>1, <2>2, PlainAppended
  <2> QED
    BY <2>1, <2>2, <2>3 DEF Consumed, PairInv
<1> QED
  BY <1>2, <1>3, <1>4

LEMMA DeliverPairs ==
  ASSUME PairInv, Remote!Deliver
  PROVE  PairInv'
<1> DEFINE n == stream.next
           t == log[n].task
           op == log[n].op
<1>1. /\ n \in 1..Len(log) /\ n \in Nat /\ n \in DOMAIN log /\ log' = log /\ Remote!Consume(t, n, op)
      /\ stream' = [Remote!Received(n) EXCEPT !.over = (op = "end")]
  BY DEF Remote!Deliver, PairInv
<1>2. op \in Remote!Ops /\ (t # Remote!None => t \in Tasks) /\ (op = "end" => t = Remote!None)
  <2>1. log[n] \in Events
    BY <1>1 DEF PairInv
  <2>2. op = "end" => t = Remote!None
    BY <1>1 DEF PairInv, LogLegal
  <2> QED
    BY <2>1, <2>2 DEF Events
<1>3. DOMAIN stream' = {"up", "next", "retries", "over"} /\ stream'.next = n + 1
  BY <1>1 DEF Remote!Received, PairInv
<1>4. t # Remote!None /\ op = "fail" /\ Kind[t] \in {"tool", "question"} => Call[t] \in calls.called
  BY <1>1 DEF PairInv, LogLegal, StartedIsCalled
<1>5. Consumed
  <2>1. CASE op = "end" /\ Remote!WorkflowEnds
    BY <2>1 DEF Remote!WorkflowEnds, Consumed, PairInv
  <2>2. CASE t # Remote!None /\ Kind[t] = "text" /\ Remote!TextEvent(t, n, op)
    BY <1>1, <1>2, <2>2, TextConsumed
  <2>3. CASE t # Remote!None /\ Kind[t] \in {"tool", "question"} /\ Remote!ToolTask(t, op)
    BY <1>2, <1>4, <2>3, ToolConsumed
  <2>4. CASE t # Remote!None /\ Kind[t] = "working" /\ Remote!WorkingTask(t, op)
    BY <1>2, <2>4, WorkingConsumed
  <2>5. CASE t # Remote!None /\ (Remote!WaitStarts(t) \/ Remote!SteerEnds(t, n, op) \/ Remote!WaitEnds(t, n, op))
    BY <1>1, <1>2, <2>5, WaitConsumed
  <2> QED
    BY <1>1, <2>1, <2>2, <2>3, <2>4, <2>5 DEF Remote!Consume
<1>6. t # Remote!None /\ Kind[t] \in {"tool", "question"} => Call[t] \in calls'.called
  BY <1>1, <1>2, <1>4, ToolConsumed DEF Remote!Consume
<1> HIDE DEF n
<1>7. StartedIsCalled'
  <2>1. \A m \in 1..stream'.next-1 : m \in 1..n-1 \/ m = n
    BY <1>1, <1>3
  <2>2. \A m \in 1..n-1 : log[m].task # Remote!None /\ Kind[log[m].task] \in {"tool", "question"} =>
          Call[log[m].task] \in calls'.called
    BY <1>5 DEF PairInv, StartedIsCalled, Consumed, n
  <2> QED
    BY <1>1, <1>6, <2>1, <2>2 DEF StartedIsCalled
<1> QED
  BY <1>1, <1>3, <1>5, <1>7 DEF PairInv, LogLegal, Consumed

\* The workflow's next event.
LEMMA EmitPairs ==
  ASSUME Remote!RemoteAssumption, PairInv, Remote!Emit
  PROVE  PairInv'
<1>1. PICK e \in Events :
        /\ log' = Append(log, e)
        /\ \/ e.task = Remote!None /\ e.op = "end"
           \/ e.task \in Tasks /\ ~Remote!Ended(e.task, log) /\ Remote!Legal(e.task, e.op)
  <2>1. CASE \E t \in Tasks, op \in Remote!Ops :
               ~Remote!Ended(t, log) /\ Remote!Legal(t, op) /\ log' = Append(log, [task |-> t, op |-> op])
    <3>1. PICK t \in Tasks, op \in Remote!Ops :
            ~Remote!Ended(t, log) /\ Remote!Legal(t, op) /\ log' = Append(log, [task |-> t, op |-> op])
      BY <2>1
    <3> DEFINE e == [task |-> t, op |-> op]
    <3>2. e \in Events /\ e.task = t /\ e.op = op
      BY DEF Events
    <3> QED
      BY <3>1, <3>2
  <2>2. CASE log' = Append(log, [task |-> Remote!None, op |-> "end"])
    <3> DEFINE e == [task |-> Remote!None, op |-> "end"]
    <3>1. e \in Events /\ e.task = Remote!None /\ e.op = "end"
      BY DEF Events, Remote!Ops
    <3> QED
      BY <2>2, <3>1
  <2> QED
    BY <2>1, <2>2 DEF Remote!Emit
<1>2. /\ log \in Seq(Events) /\ Len(log) \in Nat
      /\ log' \in Seq(Events) /\ Len(log') = Len(log) + 1
      /\ DOMAIN log = 1..Len(log) /\ DOMAIN log' = 1..(Len(log) + 1)
      /\ log'[Len(log) + 1] = e /\ \A n \in DOMAIN log : log'[n] = log[n]
  BY <1>1 DEF PairInv
<1>3. LogLegal'
  <2> SUFFICES ASSUME NEW n \in DOMAIN log'
               PROVE  /\ log'[n].op = "end" => log'[n].task = Remote!None
                      /\ log'[n].task # Remote!None => log'[n].task \in Tasks
                      /\ log'[n].task # Remote!None /\ log'[n].op = "fail"
                           /\ Kind[log'[n].task] \in {"tool", "question"} =>
                           \E m \in 1..n-1 : log'[m].task = log'[n].task
    BY DEF LogLegal
  <2>1. CASE n \in DOMAIN log
    <3>1. \A m \in 1..n-1 : log'[m] = log[m]
      BY <1>2, <2>1
    <3> QED
      BY <1>2, <2>1, <3>1 DEF PairInv, LogLegal
  <2>2. CASE n = Len(log) + 1
    BY <1>1, <1>2, <2>2 DEF Remote!Legal, Remote!Started
  <2> QED
    BY <1>2, <2>1, <2>2
<1>4. UNCHANGED <<stream, content, msgId, calls, asking, messages>>
  BY DEF Remote!Emit
<1>5. StartedIsCalled'
  <2>1. \A n \in 1..stream.next-1 : n \in DOMAIN log
    BY <1>2 DEF PairInv
  <2> QED
    BY <1>2, <1>4, <2>1 DEF PairInv, StartedIsCalled
<1>6. stream'.next \in 1..Len(log') + 1
  BY <1>2, <1>4 DEF PairInv
<1> QED
  BY <1>2, <1>3, <1>4, <1>5, <1>6 DEF PairInv

LEMMA PairStep ==
  ASSUME Remote!RemoteAssumption, PairInv, [Remote!Next]_Remote!remoteVars
  PROVE  PairInv'
<1>1. CASE Remote!Emit
  BY <1>1, EmitPairs
<1>2. CASE Remote!Deliver
  BY <1>2, DeliverPairs
<1>3. CASE Remote!Disconnect \/ Remote!StreamFails \/ Remote!StreamEnds
  BY <1>3 DEF Remote!Disconnect, Remote!StreamFails, Remote!StreamEnds, PairInv, LogLegal,
              StartedIsCalled
<1>4. CASE Remote!Send \/ UNCHANGED Remote!remoteVars \/ \E t \in Tasks : Remote!Sent(t) \/ Remote!SendFails(t)
  BY <1>4 DEF Remote!Send, Remote!Sent, Remote!SendFails, Remote!remoteVars, PairInv, LogLegal,
              StartedIsCalled
<1> QED
  BY <1>1, <1>2, <1>3, <1>4 DEF Remote!Next

-----------------------------------------------------------------------------
(* Texts: what the pieces of a sequence come to, one behind the other. *)

\* Every set of numbers has a least one.
Less == {p \in Nat \X Nat : p[1] < p[2]}

LEMMA LeastNumber ==
  ASSUME NEW S \in SUBSET Nat, S # {}
  PROVE  \E x \in S : \A y \in S : x <= y
<1>1. IsWellFoundedOn(Less, Nat)
  BY NatLessThanWellFounded DEF OpToRel, Less
<1>2. PICK x \in S : \A y \in S : ~(<<y, x>> \in Less)
  BY <1>1, WFMin
<1>3. ASSUME NEW y \in S PROVE x <= y
  <2>1. x \in Nat /\ y \in Nat /\ ~(<<y, x>> \in Less)
    BY <1>2
  <2>2. y < x => <<y, x>> \in Less
    BY <2>1 DEF Less
  <2> QED BY <2>1, <2>2
<1> QED BY <1>3

Texts == Seq(Nat)

\* The first n pieces of s, joined.
Joined(f, s, n) ==
  f \in [1..n -> Texts] /\ \A i \in 1..n : f[i] = IF i = 1 THEN s[i] ELSE f[i-1] \o s[i]

\* There is but one way to join them.
LEMMA JoinedOnce ==
  ASSUME NEW s, NEW m \in Nat, NEW n \in Nat, NEW f, NEW g, Joined(f, s, m), Joined(g, s, n)
  PROVE  \A i \in 1..m : i <= n => f[i] = g[i]
<1> DEFINE D == {i \in 1..m : i <= n /\ f[i] # g[i]}
<1> SUFFICES ASSUME D # {} PROVE FALSE
  OBVIOUS
<1>1. D \in SUBSET Nat
  OBVIOUS
<1>2. PICK k \in D : \A i \in D : k <= i
  BY <1>1, LeastNumber
<1>3. k \in Nat /\ k \in 1..m /\ k \in 1..n /\ f[k] # g[k]
  OBVIOUS
<1>4. CASE k = 1
  BY <1>3, <1>4 DEF Joined
<1>5. CASE k # 1
  <2>1. k - 1 \in 1..m /\ k - 1 <= n /\ k - 1 \notin D
    BY <1>2, <1>3, <1>5
  <2>2. f[k - 1] = g[k - 1]
    BY <2>1
  <2> QED BY <1>3, <1>5, <2>2 DEF Joined
<1> QED BY <1>4, <1>5

\* There is one.
LEMMA JoinedSome ==
  ASSUME NEW s \in Seq(Texts)
  PROVE  \E f : Joined(f, s, Len(s))
<1>1. Len(s) \in Nat /\ \A i \in 1..Len(s) : s[i] \in Texts
  BY LenProperties, ElementOfSeq
<1> DEFINE D == {n \in 0..Len(s) : ~\E f : Joined(f, s, n)}
<1> SUFFICES ASSUME D # {} PROVE FALSE
  BY <1>1
<1>2. D \in SUBSET Nat
  BY <1>1
<1>3. PICK k \in D : \A i \in D : k <= i
  BY <1>2, LeastNumber
<1>4. k \in 0..Len(s) /\ k \in Nat /\ ~\E f : Joined(f, s, k)
  BY <1>1
<1>5. k # 0
  <2>1. Joined([i \in 1..0 |-> <<>>], s, 0)
    BY DEF Joined
  <2> QED BY <1>4, <2>1
<1>6. k - 1 \in 0..Len(s) /\ k - 1 \notin D
  BY <1>1, <1>3, <1>4, <1>5
<1>7. PICK f : Joined(f, s, k - 1)
  BY <1>6
<1> DEFINE g == [i \in 1..k |-> IF i # k THEN f[i] ELSE IF k = 1 THEN s[k] ELSE f[k - 1] \o s[k]]
<1>8. \A i \in 1..k : i = k \/ i \in 1..k - 1
  BY <1>4
<1>9. s[k] \in Texts /\ (k # 1 => k - 1 \in 1..k - 1) /\ k \in 1..k
  BY <1>1, <1>4, <1>5
<1>10. k # 1 => f[k - 1] \in Texts /\ f[k - 1] \o s[k] \in Texts
  BY <1>7, <1>9, ConcatProperties DEF Joined, Texts
<1>11. g \in [1..k -> Texts]
  BY <1>7, <1>8, <1>9, <1>10 DEF Joined
<1>12. ASSUME NEW i \in 1..k PROVE g[i] = IF i = 1 THEN s[i] ELSE g[i-1] \o s[i]
  <2>1. CASE i = k
    BY <1>4, <1>9, <2>1
  <2>2. CASE i # k
    <3>1. i \in 1..k - 1 /\ (i # 1 => i - 1 \in 1..k /\ i - 1 # k)
      BY <1>4, <1>8, <2>2
    <3>2. f[i] = IF i = 1 THEN s[i] ELSE f[i-1] \o s[i]
      BY <1>7, <3>1 DEF Joined
    <3> QED BY <2>2, <3>1, <3>2
  <2> QED BY <2>1, <2>2
<1>13. Joined(g, s, k)
  BY <1>11, <1>12 DEF Joined
<1> QED
  BY <1>4, <1>13

\* FlattenSeq joins all of them.
LEMMA FlattenIs ==
  ASSUME NEW s \in Seq(Texts)
  PROVE  /\ Len(s) = 0 => Remote!FlattenSeq(s) = <<>>
         /\ Len(s) # 0 => \E f : Joined(f, s, Len(s)) /\ Remote!FlattenSeq(s) = f[Len(s)]
<1>1. Len(s) \in Nat /\ (Len(s) = 0 => s = <<>>)
  BY LenProperties, EmptySeq
<1>2. CASE Len(s) = 0
  BY <1>1, <1>2 DEF Remote!FlattenSeq
<1>3. CASE Len(s) # 0
  <2> DEFINE F(f) == f = [i \in 1..Len(s) |-> IF i = 1 THEN s[i] ELSE f[i-1] \o s[i]]
             flat == CHOOSE f : F(f)
  <2>1. PICK g : Joined(g, s, Len(s))
    BY JoinedSome
  <2>2. F(g)
    BY <2>1 DEF Joined
  <2>3. F(flat)
    <3> HIDE DEF F
    <3> QED BY <2>2
  <2>4. Remote!FlattenSeq(s) = flat[Len(s)]
    BY <1>3, Zenon DEF Remote!FlattenSeq
  <2> HIDE DEF flat
  <2>5. DOMAIN flat = 1..Len(s) /\ \A i \in 1..Len(s) : flat[i] = IF i = 1 THEN s[i] ELSE flat[i-1] \o s[i]
    BY <2>3
  <2>6. ASSUME NEW i \in 1..Len(s) PROVE flat[i] = g[i]
    <3> DEFINE D == {j \in 1..Len(s) : flat[j] # g[j]}
    <3> SUFFICES ASSUME D # {} PROVE FALSE
      OBVIOUS
    <3>1. D \in SUBSET Nat
      OBVIOUS
    <3>2. PICK k \in D : \A j \in D : k <= j
      BY <3>1, LeastNumber
    <3>3. k \in 1..Len(s) /\ k \in Nat /\ flat[k] # g[k]
      OBVIOUS
    <3>4. CASE k = 1
      BY <2>1, <2>5, <3>3, <3>4 DEF Joined
    <3>5. CASE k # 1
      <4>1. k - 1 \in 1..Len(s) /\ k - 1 \notin D
        BY <1>1, <3>2, <3>3, <3>5
      <4>2. flat[k - 1] = g[k - 1]
        BY <4>1
      <4> QED BY <2>1, <2>5, <3>3, <3>5, <4>2 DEF Joined
    <3> QED BY <3>4, <3>5
  <2>7. Len(s) \in 1..Len(s)
    BY <1>1, <1>3
  <2> QED BY <1>3, <2>1, <2>4, <2>6, <2>7
<1> QED BY <1>2, <1>3

LEMMA JoinsAnyway ==
  ASSUME NEW a \in Seq(Nat), NEW b \in Seq(Nat), NEW c \in Seq(Nat)
  PROVE  (a \o b) \o c = a \o (b \o c)
BY ConcatAssociative

LEMMA FlattenType ==
  ASSUME NEW s \in Seq(Texts)
  PROVE  Remote!FlattenSeq(s) \in Texts
<1>1. Len(s) \in Nat /\ <<>> \in Texts
  BY LenProperties DEF Texts
<1>2. CASE Len(s) # 0
  BY <1>1, <1>2, FlattenIs DEF Joined
<1> QED BY <1>1, <1>2, FlattenIs

LEMMA FlattenAppend ==
  ASSUME NEW s \in Seq(Texts), NEW x \in Texts
  PROVE  Remote!FlattenSeq(Append(s, x)) = Remote!FlattenSeq(s) \o x
<1> DEFINE more == Append(s, x)
           n == Len(s)
<1>1. /\ n \in Nat /\ more \in Seq(Texts) /\ Len(more) = n + 1 /\ more[n + 1] = x
      /\ \A i \in 1..n : more[i] = s[i]
  BY LenProperties, AppendProperties
<1> HIDE DEF more, n
<1>2. PICK g : Joined(g, more, n + 1) /\ Remote!FlattenSeq(more) = g[n + 1]
  <2>1. n + 1 # 0
    BY <1>1
  <2> QED BY <1>1, <2>1, FlattenIs
<1>3. g[n + 1] = IF n + 1 = 1 THEN x ELSE g[n] \o x
  <2>1. n + 1 \in 1..n + 1 /\ n + 1 - 1 = n
    BY <1>1
  <2>2. \A i \in 1..n + 1 : g[i] = IF i = 1 THEN more[i] ELSE g[i - 1] \o more[i]
    BY <1>2 DEF Joined
  <2> QED BY <1>1, <2>1, <2>2
<1>4. CASE n = 0
  <2>1. Remote!FlattenSeq(s) = <<>> /\ <<>> \o x = x
    BY <1>4, FlattenIs, ConcatEmptySeq DEF n, Texts
  <2> QED BY <1>2, <1>3, <1>4, <2>1 DEF more
<1>5. CASE n # 0
  <2>1. PICK f : Joined(f, s, n) /\ Remote!FlattenSeq(s) = f[n]
    BY <1>5, FlattenIs DEF n
  <2>2. Joined(f, more, n)
    BY <1>1, <2>1 DEF Joined
  <2>3. n \in 1..n /\ n <= n + 1 /\ n + 1 # 1 /\ n + 1 \in Nat
    BY <1>1, <1>5
  <2>4. f[n] = g[n]
    BY <1>1, <1>2, <2>2, <2>3, JoinedOnce
  <2> QED BY <1>2, <1>3, <2>1, <2>3, <2>4 DEF more
<1> QED BY <1>4, <1>5

LEMMA FlattenNothing ==
  ASSUME NEW s \in Seq(Texts), \A i \in 1..Len(s) : s[i] = <<>>
  PROVE  Remote!FlattenSeq(s) = <<>>
<1> DEFINE n == Len(s)
           f == [i \in 1..n |-> <<>>]
<1>1. n \in Nat /\ <<>> \in Texts /\ <<>> \o <<>> = <<>>
  BY LenProperties, ConcatEmptySeq DEF Texts
<1>2. Joined(f, s, n)
  <2>1. f \in [1..n -> Texts] /\ \A i \in 1..n : f[i] = <<>>
    BY <1>1
  <2>2. \A i \in 1..n : i # 1 => i - 1 \in 1..n
    BY <1>1
  <2> HIDE DEF f
  <2> QED BY <1>1, <2>1, <2>2 DEF Joined
<1>3. CASE n # 0
  <2>1. PICK g : Joined(g, s, n) /\ Remote!FlattenSeq(s) = g[n]
    BY <1>3, FlattenIs
  <2>2. n \in 1..n /\ n <= n /\ f[n] = <<>>
    BY <1>1, <1>3
  <2>3. PICK h : Joined(h, s, n) /\ h[n] = <<>>
    BY <1>2, <2>2
  <2>4. PICK k \in Nat : k = n
    BY <1>1
  <2> HIDE DEF f, n
  <2>5. \A i \in 1..k : i <= k => h[i] = g[i]
    BY <2>1, <2>3, <2>4, JoinedOnce, SMT
  <2> QED BY <2>1, <2>2, <2>3, <2>4, <2>5
<1> QED BY <1>3, FlattenIs

\* The last of the pieces is made longer.
LEMMA FlattenLonger ==
  ASSUME NEW s \in Seq(Texts), NEW t \in Seq(Texts), NEW x \in Texts, s # <<>>,
         Len(t) = Len(s), \A i \in 1..Len(s) - 1 : t[i] = s[i],
         t[Len(s)] = s[Len(s)] \o x
  PROVE  Remote!FlattenSeq(t) = Remote!FlattenSeq(s) \o x
<1> DEFINE n == Len(s)
           front == SubSeq(s, 1, n - 1)
<1>1. n \in Nat /\ n # 0 /\ n \in 1..n /\ s[n] \in Texts /\ t[n] \in Texts
  <2>1. n \in Nat /\ n # 0
    BY LenProperties, EmptySeq
  <2>2. n \in 1..n
    BY <2>1
  <2> QED BY <2>1, <2>2, ElementOfSeq
<1>2. /\ front \in Seq(Texts) /\ Len(front) = n - 1
      /\ \A i \in 1..n - 1 : front[i] = s[i]
  BY <1>1, ElementOfSeq, SubSeqProperties
<1> HIDE DEF front
<1>3. ASSUME NEW r \in Seq(Texts), Len(r) = n, \A i \in 1..n - 1 : r[i] = s[i], r[n] \in Texts
      PROVE  r = Append(front, r[n])
  <2>1. /\ Append(front, r[n]) \in Seq(Texts) /\ Len(Append(front, r[n])) = n
        /\ Append(front, r[n])[n] = r[n]
        /\ \A i \in 1..n - 1 : Append(front, r[n])[i] = r[i]
    BY <1>1, <1>2, <1>3, AppendProperties
  <2>2. \A i \in 1..n : i = n \/ i \in 1..n - 1
    BY <1>1
  <2>3. \A i \in 1..n : Append(front, r[n])[i] = r[i]
    BY <2>1, <2>2
  <2> QED BY <1>3, <2>1, <2>3, SeqEqual
<1>4. s = Append(front, s[n]) /\ t = Append(front, t[n])
  BY <1>1, <1>3
<1>5. Remote!FlattenSeq(s) = Remote!FlattenSeq(front) \o s[n] /\ Remote!FlattenSeq(t) = Remote!FlattenSeq(front) \o t[n]
  BY <1>1, <1>2, <1>4, FlattenAppend
<1>6. (Remote!FlattenSeq(front) \o s[n]) \o x = Remote!FlattenSeq(front) \o (s[n] \o x)
  <2> DEFINE a == Remote!FlattenSeq(front)
             b == s[n]
  <2>1. a \in Seq(Nat) /\ b \in Seq(Nat) /\ x \in Seq(Nat)
    BY <1>1, <1>2, FlattenType DEF Texts
  <2> HIDE DEF a, b
  <2>2. (a \o b) \o x = a \o (b \o x)
    BY <2>1, JoinsAnyway
  <2> QED BY <2>2 DEF a, b
<1> QED
  BY <1>5, <1>6

-----------------------------------------------------------------------------
(* The text of a task, as it was sent and as it is shown. *)

Body(m, id) == IF m.role = "assistant" /\ m.id = id THEN m.body ELSE <<>>
PiecesOf(ms, id) == Remote!FlattenSeq([n \in DOMAIN ms |-> Body(ms[n], id)])

LEMMA BodiesType ==
  ASSUME NEW ms \in Seq(Msgs), NEW id
  PROVE  /\ [n \in DOMAIN ms |-> Body(ms[n], id)] \in Seq(Texts)
         /\ Len([n \in DOMAIN ms |-> Body(ms[n], id)]) = Len(ms)
         /\ DOMAIN ms = 1..Len(ms) /\ Len(ms) \in Nat
<1>1. DOMAIN ms = 1..Len(ms) /\ Len(ms) \in Nat
  BY LenProperties
<1>2. \A n \in DOMAIN ms : Body(ms[n], id) \in Texts
  <2>1. \A n \in DOMAIN ms : ms[n] \in Msgs
    BY <1>1, ElementOfSeq
  <2>2. <<>> \in Texts
    BY DEF Texts
  <2> QED BY <2>1, <2>2 DEF Body, Msgs, Texts
<1> QED BY <1>1, <1>2

LEMMA PiecesAppend ==
  ASSUME NEW ms \in Seq(Msgs), NEW m \in Msgs, NEW id
  PROVE  PiecesOf(Append(ms, m), id) = PiecesOf(ms, id) \o Body(m, id)
<1> DEFINE b == [n \in DOMAIN ms |-> Body(ms[n], id)]
           c == [n \in DOMAIN Append(ms, m) |-> Body(Append(ms, m)[n], id)]
           k == Len(ms)
<1>1. /\ b \in Seq(Texts) /\ Len(b) = k /\ DOMAIN ms = 1..k /\ k \in Nat
      /\ \A n \in 1..k : b[n] = Body(ms[n], id)
  BY BodiesType
<1>2. /\ Append(ms, m) \in Seq(Msgs) /\ Len(Append(ms, m)) = k + 1
      /\ Append(ms, m)[k + 1] = m /\ \A n \in 1..k : Append(ms, m)[n] = ms[n]
  BY AppendProperties
<1>3. /\ c \in Seq(Texts) /\ Len(c) = k + 1 /\ DOMAIN Append(ms, m) = 1..k + 1
      /\ \A n \in 1..k + 1 : c[n] = Body(Append(ms, m)[n], id)
  BY <1>2, BodiesType
<1>4. Body(m, id) \in Texts
  <2>1. k + 1 \in 1..k + 1
    BY <1>1
  <2> HIDE DEF c, k
  <2>2. c[k + 1] \in Texts
    BY <1>3, <2>1, ElementOfSeq
  <2> QED BY <1>2, <1>3, <2>1, <2>2
<1> HIDE DEF b, c, k
<1>5. c = Append(b, Body(m, id))
  <2>1. /\ Append(b, Body(m, id)) \in Seq(Texts) /\ Len(Append(b, Body(m, id))) = k + 1
        /\ Append(b, Body(m, id))[k + 1] = Body(m, id)
        /\ \A n \in 1..k : Append(b, Body(m, id))[n] = b[n]
    BY <1>1, <1>4, AppendProperties
  <2>2. ASSUME NEW n \in 1..k + 1 PROVE c[n] = Append(b, Body(m, id))[n]
    BY <1>1, <1>2, <1>3, <2>1
  <2> QED BY <1>3, <2>1, <2>2, SeqEqual
<1>6. Remote!FlattenSeq(c) = Remote!FlattenSeq(b) \o Body(m, id)
  BY <1>1, <1>4, <1>5, FlattenAppend
<1> QED
  BY <1>6 DEF PiecesOf, b, c

LEMMA PiecesType ==
  ASSUME NEW ms \in Seq(Msgs), NEW id
  PROVE  PiecesOf(ms, id) \in Seq(Nat)
BY BodiesType, FlattenType DEF PiecesOf, Texts

\* The assistant's messages have numbers below k.
Below(ms, k) == \A n \in DOMAIN ms : ms[n].role = "assistant" => ms[n].id \in Nat /\ ms[n].id < k

LEMMA NewIsEmpty ==
  ASSUME NEW ms \in Seq(Msgs), NEW k \in Nat, Below(ms, k)
  PROVE  PiecesOf(ms, k) = <<>>
<1> DEFINE b == [n \in DOMAIN ms |-> Body(ms[n], k)]
<1>1. b \in Seq(Texts) /\ DOMAIN ms = 1..Len(b)
  BY BodiesType
<1>2. \A n \in 1..Len(b) : b[n] = <<>>
  BY <1>1 DEF Body, Below
<1> HIDE DEF b
<1> QED
  BY <1>1, <1>2, FlattenNothing DEF PiecesOf, b

\* Messages that say nothing of texts.
SaysNothing(ms, new) ==
  new \in Seq(Msgs) /\ (\A id : PiecesOf(new, id) = PiecesOf(ms, id)) /\ \A k \in Nat : Below(ms, k) => Below(new, k)

LEMMA AppendsNothing ==
  ASSUME NEW ms \in Seq(Msgs), NEW new, SaysNothing(ms, new), NEW m \in Msgs, m.role # "assistant"
  PROVE  SaysNothing(ms, Append(new, m))
<1>1. new \in Seq(Msgs) /\ Append(new, m) \in Seq(Msgs) /\ \A id : Body(m, id) = <<>>
  BY AppendProperties DEF SaysNothing, Body
<1>2. ASSUME NEW id PROVE PiecesOf(Append(new, m), id) = PiecesOf(ms, id)
  <2>1. PiecesOf(Append(new, m), id) = PiecesOf(new, id) \o <<>>
    <3>1. PiecesOf(Append(new, m), id) = PiecesOf(new, id) \o Body(m, id)
      BY <1>1, PiecesAppend
    <3> QED BY <1>1, <3>1
  <2>2. PiecesOf(new, id) \in Seq(Nat)
    BY <1>1, PiecesType
  <2>3. PiecesOf(new, id) \o <<>> = PiecesOf(new, id)
    BY <2>2, ConcatEmptySeq
  <2> QED BY <2>1, <2>3 DEF SaysNothing
<1>3. ASSUME NEW k \in Nat, Below(ms, k) PROVE Below(Append(new, m), k)
  BY <1>1, <1>3, AppendFacts DEF SaysNothing, Below
<1> QED
  BY <1>1, <1>2, <1>3 DEF SaysNothing

\* A piece of a text is added to its message, or begins one.
LEMMA MergeAdds ==
  ASSUME NEW ms \in Seq(Msgs), NEW id \in Nat, NEW piece \in Seq(Nat)
  PROVE  /\ Remote!Merge(ms, Remote!Text(id, piece)) \in Seq(Msgs)
         /\ PiecesOf(Remote!Merge(ms, Remote!Text(id, piece)), id) = PiecesOf(ms, id) \o piece
         /\ \A j : j # id => PiecesOf(Remote!Merge(ms, Remote!Text(id, piece)), j) = PiecesOf(ms, j)
         /\ \A k \in Nat : Below(ms, k) /\ id < k => Below(Remote!Merge(ms, Remote!Text(id, piece)), k)
<1> DEFINE m == Remote!Text(id, piece)
           new == Remote!Merge(ms, m)
           k == Len(ms)
<1>1. m \in Msgs /\ m.role = "assistant" /\ m.id = id /\ m.body = piece
  BY DEF Remote!Text, Msgs
<1>2. DOMAIN ms = 1..k /\ k \in Nat /\ (ms # <<>> => k \in 1..k)
  BY LenProperties, EmptySeq
<1>3. CASE new = Append(ms, m)
  <2>1. Append(ms, m) \in Seq(Msgs)
    BY <1>1, AppendProperties
  <2>2. PiecesOf(new, id) = PiecesOf(ms, id) \o piece
    BY <1>1, <1>3, PiecesAppend DEF Body
  <2>3. ASSUME NEW j, j # id PROVE PiecesOf(new, j) = PiecesOf(ms, j)
    <3>1. PiecesOf(new, j) = PiecesOf(ms, j) \o <<>>
      BY <1>1, <1>3, <2>3, PiecesAppend DEF Body
    <3>2. PiecesOf(ms, j) \o <<>> = PiecesOf(ms, j)
      BY PiecesType, ConcatEmptySeq
    <3> QED BY <3>1, <3>2
  <2>4. \A l \in Nat : Below(ms, l) /\ id < l => Below(new, l)
    BY <1>1, <1>3, AppendFacts DEF Below
  <2> QED BY <1>3, <2>1, <2>2, <2>3, <2>4
<1>4. CASE /\ ms # <<>> /\ Remote!Last(ms).role = "assistant" /\ Remote!Last(ms).id = id
           /\ new = [ms EXCEPT ![k].body = @ \o piece]
  <2>1. k \in 1..k /\ Remote!Last(ms) = ms[k] /\ ms[k] \in Msgs
    BY <1>2, <1>4, ElementOfSeq DEF Remote!Last
  <2>2. ms[k].body \in Seq(Nat) /\ ms[k].body \o piece \in Seq(Nat)
    BY <2>1, ConcatProperties DEF Msgs
  <2> DEFINE longer == [ms[k] EXCEPT !.body = ms[k].body \o piece]
  <2>3. /\ longer \in Msgs /\ longer.role = "assistant" /\ longer.id = id
        /\ longer.body = ms[k].body \o piece
    BY <1>4, <2>1, <2>2 DEF Msgs
  <2>4. new = [ms EXCEPT ![k] = longer]
    BY <1>2, <1>4, <2>1
  <2> HIDE DEF longer
  <2>5. /\ new \in Seq(Msgs) /\ Len(new) = k /\ DOMAIN new = 1..k
        /\ \A n \in 1..k : new[n] = IF n = k THEN longer ELSE ms[n]
    BY <1>2, <2>1, <2>3, <2>4, ExceptSeq
  <2> HIDE DEF new
  <2>6. PiecesOf(new, id) = PiecesOf(ms, id) \o piece
    <3> DEFINE b == [n \in DOMAIN ms |-> Body(ms[n], id)]
               c == [n \in DOMAIN new |-> Body(new[n], id)]
    <3>1. /\ b \in Seq(Texts) /\ c \in Seq(Texts) /\ Len(b) = k /\ Len(c) = k
          /\ \A n \in 1..k : b[n] = Body(ms[n], id) /\ c[n] = Body(new[n], id)
      BY <1>2, <2>5, BodiesType
    <3> HIDE DEF b, c, k
    <3>2. b # <<>>
      BY <1>2, <2>1, <3>1, EmptySeq
    <3>3. c[k] = b[k] \o piece
      BY <1>4, <2>1, <2>3, <2>5, <3>1 DEF Body
    <3>4. \A n \in 1..k - 1 : n \in 1..k /\ n # k
      BY <1>2
    <3>5. \A n \in 1..k - 1 : c[n] = b[n]
      BY <2>5, <3>1, <3>4
    <3>6. piece \in Texts
      BY DEF Texts
    <3>7. Remote!FlattenSeq(c) = Remote!FlattenSeq(b) \o piece
      BY <3>1, <3>2, <3>3, <3>5, <3>6, FlattenLonger
    <3> QED BY <3>7 DEF PiecesOf, b, c
  <2>7. ASSUME NEW j, j # id PROVE PiecesOf(new, j) = PiecesOf(ms, j)
    <3>1. \A n \in 1..k : Body(new[n], j) = Body(ms[n], j)
      BY <1>4, <2>1, <2>3, <2>5, <2>7 DEF Body
    <3>2. [n \in DOMAIN new |-> Body(new[n], j)] = [n \in DOMAIN ms |-> Body(ms[n], j)]
      BY <1>2, <2>5, <3>1
    <3> QED BY <3>2 DEF PiecesOf
  <2>8. \A l \in Nat : Below(ms, l) /\ id < l => Below(new, l)
    BY <1>2, <2>3, <2>5 DEF Below
  <2> QED BY <2>5, <2>6, <2>7, <2>8 DEF new
<1> QED
  BY <1>1, <1>3, <1>4 DEF Remote!Merge

\* What counts of a text where the client is.
SentPieces(t) == [n \in 1..stream.next - 1 |-> IF Remote!Counts(t, n, stream.next) THEN <<n>> ELSE <<>>]

LEMMA SentType ==
  ASSUME stream.next \in Nat \ {0}, NEW t
  PROVE  /\ SentPieces(t) \in Seq(Texts) /\ Len(SentPieces(t)) = stream.next - 1
         /\ Remote!TextOf(t) = Remote!FlattenSeq(SentPieces(t)) /\ Remote!TextOf(t) \in Seq(Nat)
<1>1. stream.next - 1 \in Nat
  OBVIOUS
<1>2. \A n \in Nat : <<n>> \in Texts
  BY DEF Texts
<1>3. <<>> \in Texts
  BY DEF Texts
<1>4. SentPieces(t) \in Seq(Texts) /\ Len(SentPieces(t)) = stream.next - 1
  BY <1>1, <1>2, <1>3 DEF SentPieces
<1> QED
  BY <1>4, FlattenType DEF Remote!TextOf, SentPieces, Texts

LEMMA TextOfStays ==
  ASSUME stream.next \in Nat \ {0}, stream'.next = stream.next,
         \A n \in 1..stream.next - 1 : log'[n] = log[n], NEW t
  PROVE  Remote!TextOf(t)' = Remote!TextOf(t)
<1>1. ASSUME NEW k \in 1..stream.next - 1
      PROVE  Remote!Counts(t, k, stream.next)' <=> Remote!Counts(t, k, stream.next)
  BY DEF Remote!Counts
<1>2. [n \in 1..stream.next - 1 |-> IF Remote!Counts(t, n, stream.next) THEN <<n>> ELSE <<>>]'
        = [n \in 1..stream.next - 1 |-> IF Remote!Counts(t, n, stream.next) THEN <<n>> ELSE <<>>]
  BY <1>1
<1> QED
  BY <1>2 DEF Remote!TextOf

LEMMA TextOfGrows ==
  ASSUME NEW n \in Nat \ {0}, n = stream.next, stream'.next = n + 1, log' = log, NEW t
  PROVE  Remote!TextOf(t)' = IF log[n].task # t THEN Remote!TextOf(t)
                      ELSE IF log[n].op = "append" THEN Remote!TextOf(t) \o <<n>> ELSE <<n>>
<1> DEFINE p == SentPieces(t)
           q == [k \in 1..n |-> IF Remote!Counts(t, k, n + 1) THEN <<k>> ELSE <<>>]
<1>1. Remote!TextOf(t)' = Remote!FlattenSeq(q)
  BY DEF Remote!Counts, Remote!TextOf
<1>2. /\ p \in Seq(Texts) /\ Len(p) = n - 1 /\ Remote!TextOf(t) = Remote!FlattenSeq(p) /\ Remote!TextOf(t) \in Seq(Nat)
      /\ \A k \in 1..n - 1 : p[k] = IF Remote!Counts(t, k, n) THEN <<k>> ELSE <<>>
  BY SentType DEF SentPieces
<1>3. q \in Seq(Texts) /\ Len(q) = n
  <2>1. <<>> \in Texts /\ \A k \in 1..n : <<k>> \in Texts
    BY DEF Texts
  <2>2. q \in [1..n -> Texts]
    BY <2>1
  <2> HIDE DEF q
  <2>3. q \in Seq(Texts) /\ DOMAIN q = 1..n
    BY <2>2
  <2> QED BY <2>3, LenProperties
<1>4. \A k \in 1..n : q[k] = IF Remote!Counts(t, k, n + 1) THEN <<k>> ELSE <<>>
  OBVIOUS
<1>5. Remote!Counts(t, n, n + 1) <=> log[n].task = t
  BY DEF Remote!Counts
<1>6. ASSUME NEW k \in 1..n - 1
      PROVE  Remote!Counts(t, k, n + 1) <=> Remote!Counts(t, k, n) /\ (log[n].task = t => log[n].op = "append")
  BY DEF Remote!Counts
<1> HIDE DEF p, q
<1>7. ASSUME NEW r \in Seq(Texts), Len(r) = n - 1, \A k \in 1..n - 1 : q[k] = r[k], NEW x \in Texts, q[n] = x
      PROVE  Remote!FlattenSeq(q) = Remote!FlattenSeq(r) \o x
  <2>1. /\ Append(r, x) \in Seq(Texts) /\ Len(Append(r, x)) = n /\ Append(r, x)[n] = x
        /\ \A k \in 1..n - 1 : Append(r, x)[k] = r[k]
    BY <1>7, AppendProperties
  <2>2. ASSUME NEW k \in 1..n PROVE q[k] = Append(r, x)[k]
    BY <1>7, <2>1
  <2>3. q = Append(r, x)
    BY <1>3, <2>1, <2>2, SeqEqual
  <2> QED BY <2>3, FlattenAppend
<1>8. <<n>> \in Texts /\ <<>> \in Texts /\ n \in 1..n
  BY DEF Texts
<1>9. CASE log[n].task # t
  <2>1. q[n] = <<>> /\ \A k \in 1..n - 1 : q[k] = p[k]
    <3>1. \A k \in 1..n - 1 : k \in 1..n
      OBVIOUS
    <3> QED BY <1>2, <1>4, <1>5, <1>6, <1>8, <1>9, <3>1
  <2>2. Remote!FlattenSeq(q) = Remote!FlattenSeq(p) \o <<>>
    BY <1>2, <1>7, <1>8, <2>1
  <2>3. Remote!TextOf(t) \o <<>> = Remote!TextOf(t)
    BY <1>2, ConcatEmptySeq
  <2> QED BY <1>1, <1>2, <1>9, <2>2, <2>3
<1>10. CASE log[n].task = t /\ log[n].op = "append"
  <2>1. q[n] = <<n>> /\ \A k \in 1..n - 1 : q[k] = p[k]
    <3>1. \A k \in 1..n - 1 : k \in 1..n
      OBVIOUS
    <3> QED BY <1>2, <1>4, <1>5, <1>6, <1>8, <1>10, <3>1
  <2>2. Remote!FlattenSeq(q) = Remote!FlattenSeq(p) \o <<n>>
    BY <1>2, <1>7, <1>8, <2>1
  <2> QED BY <1>1, <1>2, <1>10, <2>2
<1>11. CASE log[n].task = t /\ log[n].op # "append"
  <2> DEFINE r == [k \in 1..n - 1 |-> <<>>]
  <2>1. r \in Seq(Texts) /\ Len(r) = n - 1 /\ \A k \in 1..n - 1 : r[k] = <<>>
    BY <1>8
  <2> HIDE DEF r
  <2>2. q[n] = <<n>> /\ \A k \in 1..n - 1 : q[k] = r[k]
    <3>1. \A k \in 1..n - 1 : k \in 1..n
      OBVIOUS
    <3> QED BY <1>4, <1>5, <1>6, <1>8, <1>11, <2>1, <3>1
  <2>3. Remote!FlattenSeq(q) = Remote!FlattenSeq(r) \o <<n>>
    BY <1>7, <1>8, <2>1, <2>2
  <2>4. Remote!FlattenSeq(r) = <<>> /\ <<>> \o <<n>> = <<n>>
    BY <2>1, FlattenNothing
  <2> QED BY <1>1, <1>11, <2>3, <2>4
<1> QED
  BY <1>9, <1>10, <1>11

\* What a task has of its text, and where it is shown.
TextOK(t) ==
  /\ content[t] = Remote!TextOf(t)
  /\ msgId[t] < stream.next
  /\ msgId[t] = 0 => content[t] = <<>>
  /\ msgId[t] # 0 => PiecesOf(messages, msgId[t]) = content[t]
  /\ \A u \in Tasks : Kind[u] = "text" /\ u # t /\ msgId[t] # 0 => msgId[u] # msgId[t]

TextInv ==
  /\ Below(messages, stream.next)
  /\ \A t \in Tasks : Kind[t] = "text" => TextOK(t)

\* The prefix that a text goes on from, with what is new of it.
LEMMA TextGoesOn ==
  ASSUME NEW old \in Seq(Nat), NEW new \in Seq(Nat), Remote!IsPrefix(old, new)
  PROVE  /\ SubSeq(new, Len(old) + 1, Len(new)) \in Seq(Nat)
         /\ old \o SubSeq(new, Len(old) + 1, Len(new)) = new
<1> DEFINE k == Len(old)
           l == Len(new)
           rest == SubSeq(new, k + 1, l)
<1>1. k \in Nat /\ l \in Nat /\ k <= l /\ SubSeq(old, 1, k) = SubSeq(new, 1, k)
  BY LenProperties DEF Remote!IsPrefix
<1>2. \A i \in 1..l : new[i] \in Nat
  BY ElementOfSeq
<1>3. ASSUME NEW i \in 1..k PROVE old[i] = new[i]
  <2>1. SubSeq(old, 1, k)[i] = old[i]
    BY <1>1, ElementOfSeq, SubSeqProperties
  <2>2. SubSeq(new, 1, k)[i] = new[i]
    BY <1>1, <1>2, SubSeqProperties
  <2> QED BY <1>1, <2>1, <2>2
<1>4. /\ rest \in Seq(Nat) /\ Len(rest) = l - k
      /\ \A i \in 1..l - k : rest[i] = new[k + i]
  <2>1. \A i \in k + 1..l : new[i] \in Nat
    BY <1>1, <1>2
  <2>2. /\ rest \in Seq(Nat) /\ Len(rest) = IF k + 1 <= l THEN l - (k + 1) + 1 ELSE 0
        /\ \A i \in 1..l - (k + 1) + 1 : rest[i] = new[k + 1 + i - 1]
    BY <1>1, <2>1, SubSeqProperties
  <2>3. l - (k + 1) + 1 = l - k /\ \A i \in 1..l - k : k + 1 + i - 1 = k + i
    BY <1>1
  <2>4. Len(rest) = l - k
    BY <1>1, <2>2
  <2> HIDE DEF rest, k, l
  <2> QED BY <2>2, <2>3, <2>4
<1> HIDE DEF rest
<1>5. /\ old \o rest \in Seq(Nat) /\ Len(old \o rest) = l
      /\ \A i \in 1..l : (old \o rest)[i] = IF i <= k THEN old[i] ELSE rest[i - k]
  <2>1. k + (l - k) = l
    BY <1>1
  <2> QED BY <1>4, <2>1, ConcatProperties
<1>6. ASSUME NEW i \in 1..l PROVE (old \o rest)[i] = new[i]
  <2>1. CASE i <= k
    BY <1>3, <1>5, <2>1
  <2>2. CASE ~(i <= k)
    <3>1. i - k \in 1..l - k /\ k + (i - k) = i
      BY <1>1, <2>2
    <3>2. rest[i - k] = new[k + (i - k)]
      BY <1>4, <3>1
    <3> QED BY <1>5, <2>2, <3>1, <3>2
  <2> QED BY <2>1, <2>2
<1>7. old \o rest = new
  BY <1>5, <1>6, SeqEqual
<1> QED
  BY <1>4, <1>7 DEF rest

LEMMA TextShown ==
  ASSUME PairInv, TextInv, NEW t \in Tasks, Kind[t] = "text", NEW n \in Nat \ {0}, n = stream.next,
         log[n].task = t, NEW op, op = log[n].op, Remote!TextEvent(t, n, op), stream'.next = n + 1,
         log' = log
  PROVE  TextInv'
<1> DEFINE new == Remote!NewText(t, n, op)
           goesOn == Remote!IsPrefix(content[t], new)
           id == IF goesOn /\ msgId[t] # 0 THEN msgId[t] ELSE n
           delta == IF goesOn THEN SubSeq(new, Len(content[t]) + 1, Len(new)) ELSE new
<1>1. /\ content \in [Tasks -> Seq(Nat)] /\ msgId \in [Tasks -> Nat] /\ messages \in Seq(Msgs)
      /\ content[t] \in Seq(Nat) /\ msgId[t] \in Nat /\ msgId[t] < n
  BY DEF PairInv, Paired, TextInv, TextOK
<1>2. new = (IF op = "append" THEN content[t] \o <<n>> ELSE <<n>>) /\ new \in Seq(Nat)
  <2>1. <<n>> \in Seq(Nat) /\ Append(content[t], n) = content[t] \o <<n>> /\ Append(content[t], n) \in Seq(Nat)
    BY <1>1
  <2> QED BY <2>1 DEF Remote!NewText
<1>3. id \in Nat /\ id # 0 /\ id < n + 1 /\ (id = n \/ id = msgId[t])
  BY <1>1
<1>4. /\ content' = [content EXCEPT ![t] = new] /\ msgId' = [msgId EXCEPT ![t] = id]
      /\ messages' = Remote!Merge(messages, Remote!Text(id, delta))
  BY DEF Remote!TextEvent
<1> HIDE DEF new
<1>5. PiecesOf(messages, n) = <<>>
  BY <1>1, NewIsEmpty DEF TextInv
<1>6. delta \in Seq(Nat) /\ PiecesOf(messages, id) \o delta = new
  <2>1. CASE goesOn
    <3>1. delta \in Seq(Nat) /\ content[t] \o delta = new
      BY <1>1, <1>2, <2>1, TextGoesOn
    <3>2. PiecesOf(messages, id) = content[t]
      <4>1. TextOK(t)
        BY DEF TextInv
      <4> QED BY <1>5, <2>1, <4>1 DEF TextOK
    <3> QED BY <3>1, <3>2
  <2>2. CASE ~goesOn
    BY <1>2, <1>5, <2>2, ConcatEmptySeq
  <2> QED BY <2>1, <2>2
<1> HIDE DEF id, delta, goesOn
<1>7. /\ messages' \in Seq(Msgs)
      /\ PiecesOf(messages', id) = new
      /\ \A j : j # id => PiecesOf(messages', j) = PiecesOf(messages, j)
      /\ Below(messages', n + 1)
  <2>1. Below(messages, n + 1)
    BY DEF TextInv, Below
  <2>2. /\ messages' \in Seq(Msgs)
        /\ PiecesOf(messages', id) = PiecesOf(messages, id) \o delta
        /\ \A j : j # id => PiecesOf(messages', j) = PiecesOf(messages, j)
        /\ \A k \in Nat : Below(messages, k) /\ id < k => Below(messages', k)
    <3> DEFINE merged == Remote!Merge(messages, Remote!Text(id, delta))
    <3>1. delta \in Seq(Nat) /\ messages' = merged
      BY <1>4, <1>6
    <3>2. /\ merged \in Seq(Msgs)
          /\ PiecesOf(merged, id) = PiecesOf(messages, id) \o delta
          /\ \A j : j # id => PiecesOf(merged, j) = PiecesOf(messages, j)
          /\ \A k \in Nat : Below(messages, k) /\ id < k => Below(merged, k)
      BY <1>1, <1>3, <3>1, MergeAdds
    <3> HIDE DEF merged
    <3> QED BY <3>1, <3>2
  <2>3. n + 1 \in Nat
    OBVIOUS
  <2> QED BY <1>3, <1>6, <2>1, <2>2, <2>3
<1>8. content'[t] = Remote!TextOf(t)'
  <2>1. content[t] = Remote!TextOf(t)
    BY DEF TextInv, TextOK
  <2>2. Remote!TextOf(t)' = IF op = "append" THEN Remote!TextOf(t) \o <<n>> ELSE <<n>>
    BY TextOfGrows
  <2> QED BY <1>1, <1>2, <1>4, <2>1, <2>2
<1>9. \A u \in Tasks : Kind[u] = "text" /\ u # t => msgId[u] # id
  BY <1>3 DEF TextInv, TextOK
<1>10. /\ msgId'[t] = id /\ content'[t] = new
       /\ \A u \in Tasks : u # t => msgId'[u] = msgId[u] /\ content'[u] = content[u]
  BY <1>1, <1>4
<1>11. TextOK(t)'
  BY <1>3, <1>7, <1>8, <1>9, <1>10 DEF TextOK
<1>12. ASSUME NEW u \in Tasks, Kind[u] = "text", u # t PROVE TextOK(u)'
  <2>1. TextOK(u) /\ msgId'[u] = msgId[u] /\ content'[u] = content[u] /\ msgId[u] # id
        /\ msgId[u] \in Nat
    BY <1>1, <1>9, <1>10, <1>12 DEF TextInv
  <2>2. Remote!TextOf(u)' = Remote!TextOf(u)
    BY <1>12, TextOfGrows
  <2>3. \A v \in Tasks : Kind[v] = "text" /\ v # u /\ msgId[u] # 0 => msgId'[v] # msgId[u]
    BY <1>10, <2>1 DEF TextOK
  <2>4. msgId[u] < stream'.next
    BY <2>1 DEF TextOK
  <2> QED BY <1>7, <2>1, <2>2, <2>3, <2>4 DEF TextOK
<1> QED
  BY <1>7, <1>11, <1>12 DEF TextInv

\* Other tasks say nothing of texts.
LEMMA OthersSayNothing ==
  ASSUME PairInv, NEW t, NEW n \in Nat, NEW op,
         \/ Remote!WorkflowEnds
         \/ t \in Tasks /\ (Remote!ToolTask(t, op) \/ Remote!WorkingTask(t, op))
         \/ Remote!WaitStarts(t) \/ Remote!SteerEnds(t, n, op) \/ Remote!WaitEnds(t, n, op)
  PROVE  SaysNothing(messages, messages') /\ UNCHANGED <<content, msgId>>
<1>1. messages \in Seq(Msgs) /\ SaysNothing(messages, messages)
  BY DEF PairInv, Paired, SaysNothing
<1>2. \A c \in Remote!Ids : Remote!CallMsg(c) \in Msgs /\ Remote!CallMsg(c).role # "assistant"
                     /\ Remote!Result(c) \in Msgs /\ Remote!Result(c).role # "assistant"
  BY DEF Remote!CallMsg, Remote!Result, Msgs
<1>3. Remote!User(n) \in Msgs /\ Remote!User(n).role # "assistant"
  BY DEF Remote!User, Msgs
<1>4. ASSUME NEW c \in Remote!Ids PROVE SaysNothing(messages, Remote!CalledMsgs(c))
  BY <1>1, <1>2, AppendsNothing DEF Remote!CalledMsgs
<1>5. ASSUME NEW c \in Remote!Ids, NEW ms, SaysNothing(messages, ms) PROVE SaysNothing(messages, Remote!ResultMsgs(ms, c))
  BY <1>1, <1>2, <1>5, AppendsNothing DEF Remote!ResultMsgs
<1>6. CASE Remote!WorkflowEnds \/ Remote!WaitStarts(t)
  BY <1>1, <1>6 DEF Remote!WorkflowEnds, Remote!WaitStarts
<1>7. CASE t \in Tasks /\ (Remote!ToolTask(t, op) \/ Remote!WorkingTask(t, op))
  BY <1>1, <1>4, <1>5, <1>7 DEF Remote!Ids, Remote!ToolTask, Remote!WorkingTask
<1>8. CASE Remote!SteerEnds(t, n, op)
  BY <1>1, <1>3, <1>8, AppendsNothing DEF Remote!SteerEnds
<1>9. CASE Remote!WaitEnds(t, n, op)
  <2> DEFINE answers == asking # Remote!None /\ op \in {"answer", "fail"}
             ms == IF answers THEN Remote!ResultMsgs(messages, asking) ELSE messages
  <2>1. SaysNothing(messages, ms)
    BY <1>1, <1>5 DEF PairInv, Paired
  <2>2. messages' \in {ms, Append(ms, Remote!User(n))} /\ UNCHANGED <<content, msgId>>
    BY <1>9 DEF Remote!WaitEnds
  <2> HIDE DEF ms
  <2> QED BY <1>1, <1>3, <2>1, <2>2, AppendsNothing
<1> QED
  BY <1>6, <1>7, <1>8, <1>9

\* Where no text has changed and none was received it is as it was.
LEMMA TextsStay ==
  ASSUME PairInv, TextInv, NEW k \in Nat, stream'.next = k, stream.next <= k,
         UNCHANGED <<content, msgId>>, SaysNothing(messages, messages'),
         \A t \in Tasks : Kind[t] = "text" => Remote!TextOf(t)' = Remote!TextOf(t)
  PROVE  TextInv'
<1>1. stream.next \in Nat /\ msgId \in [Tasks -> Nat]
  BY DEF PairInv
<1>2. Below(messages', k)
  <2>1. Below(messages, k)
    BY <1>1 DEF TextInv, Below
  <2> QED BY <2>1 DEF SaysNothing
<1>3. ASSUME NEW t \in Tasks, Kind[t] = "text" PROVE TextOK(t)'
  BY <1>1, <1>3 DEF TextInv, TextOK, SaysNothing
<1> QED BY <1>2, <1>3 DEF TextInv

LEMMA TextStep ==
  ASSUME Remote!RemoteAssumption, PairInv, PairInv', TextInv, [Remote!Next]_Remote!remoteVars
  PROVE  TextInv'
<1>1. /\ messages \in Seq(Msgs) /\ SaysNothing(messages, messages)
      /\ stream.next \in Nat \ {0} /\ stream.next \in 1..Len(log) + 1
      /\ Len(log) \in Nat /\ DOMAIN log = 1..Len(log) /\ log \in Seq(Events)
  BY LenProperties DEF PairInv, Paired, SaysNothing
<1>2. CASE Remote!Deliver
  <2> DEFINE n == stream.next
             t == log[n].task
             op == log[n].op
  <2>1. /\ n \in Nat \ {0} /\ n \in 1..Len(log) /\ log' = log /\ Remote!Consume(t, n, op)
        /\ stream'.next = n + 1 /\ n + 1 \in Nat
    BY <1>1, <1>2 DEF Remote!Deliver, Remote!Received, PairInv
  <2>2. t # Remote!None => t \in Tasks
    BY <1>1, <2>1 DEF PairInv, LogLegal
  <2> HIDE DEF n
  <2>3. CASE t # Remote!None /\ Kind[t] = "text" /\ Remote!TextEvent(t, n, op)
    BY <2>1, <2>2, <2>3, TextShown DEF n
  <2>4. CASE ~(t # Remote!None /\ Kind[t] = "text" /\ Remote!TextEvent(t, n, op))
    <3>1. SaysNothing(messages, messages') /\ UNCHANGED <<content, msgId>>
      BY <2>1, <2>2, <2>4, OthersSayNothing DEF Remote!Consume
    <3>2. \A u \in Tasks : Kind[u] = "text" => t # u
      BY <1>1, <2>1, <2>4 DEF PairInv, LogLegal, Remote!Consume, Remote!RemoteAssumption
    <3>3. \A u \in Tasks : Kind[u] = "text" => Remote!TextOf(u)' = Remote!TextOf(u)
      BY <2>1, <3>2, TextOfGrows DEF n
    <3> QED BY <1>1, <2>1, <3>1, <3>3, TextsStay DEF n
  <2> QED BY <2>3, <2>4
<1>3. CASE ~Remote!Deliver
  <2>1. UNCHANGED <<content, msgId, messages>> /\ stream'.next = stream.next
        /\ \A n \in DOMAIN log : log'[n] = log[n]
    <3>1. CASE Remote!Emit
      <4>1. PICK e : log' = Append(log, e)
        BY <3>1 DEF Remote!Emit
      <4>2. \A n \in DOMAIN log : Append(log, e)[n] = log[n]
        BY <1>1
      <4> QED BY <3>1, <4>1, <4>2 DEF Remote!Emit
    <3>2. CASE ~Remote!Emit
      BY <1>3, <3>2
      DEF Remote!Next, Remote!Disconnect, Remote!StreamFails, Remote!StreamEnds, Remote!Send,
          Remote!Sent, Remote!SendFails, Remote!remoteVars, PairInv
    <3> QED BY <3>1, <3>2
  <2>2. \A n \in 1..stream.next - 1 : log'[n] = log[n]
    BY <1>1, <2>1
  <2>3. \A t : Remote!TextOf(t)' = Remote!TextOf(t)
    BY <1>1, <2>1, <2>2, TextOfStays
  <2> QED BY <1>1, <2>1, <2>3, TextsStay
<1> QED BY <1>2, <1>3

-----------------------------------------------------------------------------
(* Requests for the user's input. *)

Terminal == {"answer", "complete", "fail"}

Begun(t, k) == \E n \in 1..k : log[n].task = t
Finished(t, k) == \E n \in 1..k : log[n].task = t /\ log[n].op \in Terminal
EndSeen(k) == \E n \in 1..k : log[n].op = "end"

\* Waits, where the client is behind k events.
Waiting(t, k) == Begun(t, k) /\ ~Finished(t, k) /\ ~EndSeen(k)

LEMMA SeenIs ==
  ASSUME PairInv, NEW t
  PROVE  Remote!Waits(t) <=> Waiting(t, stream.next - 1)
<1> DEFINE k == stream.next - 1
<1>1. k \in Nat /\ \A n \in 1..k : n \in 1..Len(log) /\ log[n] \in Events
  BY LenProperties, ElementOfSeq DEF PairInv
<1>2. Remote!Seen \in Seq(Events) /\ Len(Remote!Seen) = k /\ DOMAIN Remote!Seen = 1..k /\ \A n \in 1..k : Remote!Seen[n] = log[n]
  <2>1. /\ Remote!Seen \in Seq(Events) /\ Len(Remote!Seen) = IF 1 <= k THEN k - 1 + 1 ELSE 0
        /\ \A n \in 1..k - 1 + 1 : Remote!Seen[n] = log[1 + n - 1]
    BY <1>1, SubSeqProperties DEF Remote!Seen
  <2>2. Len(Remote!Seen) = k /\ DOMAIN Remote!Seen = 1..Len(Remote!Seen)
    BY <1>1, <2>1, LenProperties
  <2>3. k - 1 + 1 = k /\ \A n \in 1..k : 1 + n - 1 = n
    BY <1>1
  <2> HIDE DEF k
  <2> QED BY <2>1, <2>2, <2>3
<1> HIDE DEF k
<1>3. Remote!Started(t, Remote!Seen) <=> Begun(t, k)
  BY <1>2 DEF Remote!Started, Begun
<1>4. Remote!Ended(t, Remote!Seen) <=> Finished(t, k)
  BY <1>2 DEF Remote!Ended, Remote!OpsOf, Terminal, Finished
<1>5. Remote!IsOver(Remote!Seen) <=> EndSeen(k)
  BY <1>2 DEF Remote!IsOver, EndSeen
<1> QED
  BY <1>3, <1>4, <1>5 DEF Remote!Waits, Waiting, k

\* A request begins with its task, and the events behind it end it.
StartsFirst ==
  \A n \in DOMAIN log : log[n].task \in Tasks /\ Kind[log[n].task] \in {"wait", "steer"} =>
    /\ log[n].op \in Terminal \union {"start"}
    /\ log[n].op = "start" => \A m \in 1..n - 1 : log[m].task # log[n].task

\* What is pending waits, as far as was received, and so does nothing else that may
\* be answered.
PendingWaits ==
  /\ stream.over <=> EndSeen(stream.next - 1)
  /\ pending # Remote!None =>
       /\ pending \in Tasks /\ Kind[pending] \in {"wait", "steer"}
       /\ Waiting(pending, stream.next - 1)
  /\ \A t \in Tasks \ lost : Kind[t] = "wait" /\ Waiting(t, stream.next - 1) => pending = t

WaitInv == StartsFirst /\ PendingWaits

\* One event more.
LEMMA WaitingGrows ==
  ASSUME NEW n \in Nat \ {0}, NEW t
  PROVE  /\ Begun(t, n) <=> Begun(t, n - 1) \/ log[n].task = t
         /\ Finished(t, n) <=> Finished(t, n - 1) \/ (log[n].task = t /\ log[n].op \in Terminal)
         /\ EndSeen(n) <=> EndSeen(n - 1) \/ log[n].op = "end"
<1>1. \A m : m \in 1..n <=> m \in 1..n - 1 \/ m = n
  OBVIOUS
<1> QED BY <1>1 DEF Begun, Finished, EndSeen

\* Events that were received do not change.
LEMMA WaitingStays ==
  ASSUME NEW k, stream'.next - 1 = k, stream.next - 1 = k, \A n \in 1..k : log'[n] = log[n], NEW t
  PROVE  /\ Waiting(t, stream.next - 1)' <=> Waiting(t, k)
         /\ EndSeen(stream.next - 1)' <=> EndSeen(k)
BY DEF Waiting, Begun, Finished, EndSeen

LEMMA DeliverWaits ==
  ASSUME Remote!RemoteAssumption, PairInv, PairInv', WaitInv, Remote!Deliver
  PROVE  WaitInv'
<1> DEFINE n == stream.next
           t == log[n].task
           op == log[n].op
<1>1. /\ n \in Nat \ {0} /\ n \in DOMAIN log /\ log' = log /\ Remote!Consume(t, n, op)
      /\ stream'.next = n + 1 /\ stream'.over = (op = "end") /\ ~stream.over
      /\ op \in Remote!Ops /\ (t # Remote!None => t \in Tasks) /\ (op = "end" => t = Remote!None)
  <2>1. log \in Seq(Events) /\ DOMAIN log = 1..Len(log) /\ n \in 1..Len(log) /\ n \in Nat \ {0}
    BY LenProperties DEF PairInv, Remote!Deliver
  <2>2. log[n] \in Events
    BY <2>1, ElementOfSeq
  <2>3. op = "end" => t = Remote!None
    BY <2>1 DEF PairInv, LogLegal
  <2>4. DOMAIN stream = {"up", "next", "retries", "over"}
    BY DEF PairInv
  <2>5. stream'.next = n + 1 /\ stream'.over = (op = "end")
    BY <2>4 DEF Remote!Deliver, Remote!Received
  <2> QED BY <2>1, <2>2, <2>3, <2>5 DEF Remote!Deliver, Events
<1>2. ~EndSeen(n - 1)
  BY <1>1 DEF WaitInv, PendingWaits
<1>3. ASSUME NEW u
      PROVE  /\ Begun(u, n) <=> Begun(u, n - 1) \/ t = u
             /\ Finished(u, n) <=> Finished(u, n - 1) \/ (t = u /\ op \in Terminal)
             /\ EndSeen(n) <=> op = "end"
  BY <1>1, <1>2, WaitingGrows
<1>a. /\ EndSeen(stream.next - 1)' <=> EndSeen(n)
      /\ Waiting(pending, stream.next - 1)' <=> Waiting(pending', n)
      /\ \A u : Waiting(u, stream.next - 1)' <=> Waiting(u, n)
  <2>1. stream'.next - 1 = n
    BY <1>1
  <2> QED BY <1>1, <2>1 DEF Waiting, Begun, Finished, EndSeen
<1>b. /\ stream'.over <=> EndSeen(n)
      /\ pending' # Remote!None =>
           /\ pending' \in Tasks /\ Kind[pending'] \in {"wait", "steer"}
           /\ Waiting(pending', n)
      /\ \A u \in Tasks \ lost' : Kind[u] = "wait" /\ Waiting(u, n) => pending' = u
      => PendingWaits'
  BY <1>a DEF PendingWaits
<1>4. stream'.over <=> EndSeen(n)
  BY <1>1, <1>3
<1>5. ASSUME NEW u, u # t, op # "end"
      PROVE  Waiting(u, n) <=> Waiting(u, n - 1)
  BY <1>2, <1>3, <1>5 DEF Waiting
<1>6. op = "end" => \A u : ~Waiting(u, n)
  BY <1>3 DEF Waiting
<1>7. /\ pending # Remote!None => /\ pending \in Tasks /\ Kind[pending] \in {"wait", "steer"}
                           /\ Waiting(pending, n - 1)
      /\ \A u \in Tasks \ lost : Kind[u] = "wait" /\ Waiting(u, n - 1) => pending = u
  BY DEF WaitInv, PendingWaits, n
<1>8. PendingWaits'
  <2>1. CASE op = "end"
    BY <1>b, <1>1, <1>4, <1>6, <2>1 DEF Remote!Consume, Remote!WorkflowEnds, Remote!RemoteAssumption
  <2>2. CASE op # "end" /\ t \in Tasks /\ Kind[t] \notin {"wait", "steer"}
    <3>1. UNCHANGED <<pending, lost>>
      BY <1>1, <2>2 DEF Remote!Consume, Remote!TextEvent, Remote!ToolTask, Remote!WorkingTask
    <3>2. pending # Remote!None => pending # t
      BY <1>7, <2>2
    <3>3. \A u \in Tasks : Kind[u] = "wait" => u # t
      BY <2>2
    <3> QED BY <1>4, <1>b, <1>5, <1>7, <2>2, <3>1, <3>2, <3>3 
  <2>3. CASE op # "end" /\ t \in Tasks /\ Kind[t] \in {"wait", "steer"} /\ op = "start"
    <3>1. Remote!WaitStarts(t)
      BY <1>1, <2>3 DEF Remote!Consume
    <3>2. Waiting(t, n)
      BY <1>1, <1>3, <2>3 DEF WaitInv, StartsFirst, n, Finished, Waiting, Terminal
    <3>3. /\ pending' = IF Kind[t] = "wait" \/ pending = Remote!None THEN t ELSE pending
          /\ lost' = IF Kind[t] = "wait" THEN lost \union Remote!Open({t}) ELSE lost
      BY <3>1 DEF Remote!WaitStarts
    <3>4. pending' # Remote!None => pending' \in Tasks /\ Kind[pending'] \in {"wait", "steer"}
                             /\ Waiting(pending', n)
      BY <1>5, <1>7, <2>3, <3>2, <3>3
    <3>5. ASSUME NEW u \in Tasks \ lost', Kind[u] = "wait", Waiting(u, n), u # t
          PROVE  pending' = u
      BY <1>5, <1>7, <2>3, <3>3, <3>5 DEF Remote!RemoteAssumption, Remote!Open
    <3>6. ASSUME Kind[t] = "wait" PROVE pending' = t
      BY <3>3, <3>6
    <3> QED BY <1>4, <1>b, <3>4, <3>5, <3>6 
  <2>4. CASE op # "end" /\ t \in Tasks /\ Kind[t] \in {"wait", "steer"} /\ op # "start"
    <3>1. op \in Terminal
      BY <1>1, <2>4 DEF WaitInv, StartsFirst, n
    <3>2. ~Waiting(t, n)
      BY <1>3, <3>1 DEF Waiting
    <3>3. CASE Kind[t] = "steer"
      BY <1>b, <1>1, <1>4, <1>5, <1>7, <2>4, <3>3 DEF Remote!Consume, Remote!SteerEnds
    <3>4. CASE Kind[t] = "wait"
      <4>1. Remote!WaitEnds(t, n, op)
        BY <1>1, <2>4, <3>4 DEF Remote!Consume
      <4>2. pending' = Remote!None /\ lost' = lost \union Remote!Open({t})
        BY <4>1 DEF Remote!WaitEnds
      <4>3. ASSUME NEW u \in Tasks \ lost', Kind[u] = "wait" PROVE ~Waiting(u, n)
        <5>1. CASE u = t
          BY <3>2, <5>1
        <5>2. CASE u # t
          BY <1>5, <1>7, <2>4, <4>2, <4>3, <5>2 DEF Remote!Open, Remote!RemoteAssumption
        <5> QED BY <5>1, <5>2
      <4> QED BY <1>4, <1>b, <4>2, <4>3 
    <3> QED BY <2>4, <3>3, <3>4
  <2>5. CASE op # "end" /\ t \notin Tasks
    BY <1>1, <2>5 DEF Remote!Consume
  <2> QED BY <2>1, <2>2, <2>3, <2>4, <2>5
<1> QED
  BY <1>1, <1>8 DEF WaitInv, StartsFirst

\* The first event of a request starts it.
LEMMA EmitStartsFirst ==
  ASSUME Remote!RemoteAssumption, PairInv, StartsFirst, Remote!Emit
  PROVE  StartsFirst'
<1>1. PICK e : /\ log' = Append(log, e)
               /\ e.task \in Tasks => e.op \in Remote!Ops /\ Remote!Legal(e.task, e.op)
  <2>1. CASE \E t \in Tasks, op \in Remote!Ops :
               ~Remote!Ended(t, log) /\ Remote!Legal(t, op) /\ log' = Append(log, [task |-> t, op |-> op])
    <3>1. PICK t \in Tasks, op \in Remote!Ops : Remote!Legal(t, op) /\ log' = Append(log, [task |-> t, op |-> op])
      BY <2>1
    <3> DEFINE e == [task |-> t, op |-> op]
    <3>2. e.task = t /\ e.op = op
      OBVIOUS
    <3> QED BY <3>1, <3>2
  <2>2. CASE log' = Append(log, [task |-> Remote!None, op |-> "end"])
    <3> DEFINE e == [task |-> Remote!None, op |-> "end"]
    <3>1. e.task = Remote!None
      OBVIOUS
    <3> QED BY <2>2, <3>1 DEF Remote!RemoteAssumption
  <2> QED BY <2>1, <2>2 DEF Remote!Emit
<1>2. /\ Len(log) \in Nat /\ DOMAIN log = 1..Len(log) /\ DOMAIN log' = 1..Len(log) + 1
      /\ log'[Len(log) + 1] = e /\ \A n \in DOMAIN log : log'[n] = log[n]
  BY <1>1 DEF PairInv
<1>3. ASSUME NEW n \in DOMAIN log', log'[n].task \in Tasks, Kind[log'[n].task] \in {"wait", "steer"}
      PROVE  /\ log'[n].op \in Terminal \union {"start"}
             /\ log'[n].op = "start" => \A m \in 1..n - 1 : log'[m].task # log'[n].task
  <2>1. CASE n \in DOMAIN log
    BY <1>2, <1>3, <2>1 DEF StartsFirst
  <2>2. CASE n = Len(log) + 1
    BY <1>1, <1>2, <1>3, <2>2 DEF Remote!Legal, Terminal, Remote!ToolKinds, Remote!Started
  <2> QED BY <1>2, <2>1, <2>2
<1> QED BY <1>3 DEF StartsFirst

LEMMA WaitStep ==
  ASSUME Remote!RemoteAssumption, PairInv, PairInv', WaitInv, [Remote!Next]_Remote!remoteVars
  PROVE  WaitInv'
<1> DEFINE k == stream.next - 1
<1>1. CASE Remote!Deliver
  BY <1>1, DeliverWaits
<1>2. CASE ~Remote!Deliver
  <2>1. stream'.next = stream.next /\ stream'.over = stream.over /\ \A n \in 1..k : log'[n] = log[n]
    <3>1. k \in Nat /\ DOMAIN stream = {"up", "next", "retries", "over"}
          /\ \A n \in 1..k : n \in DOMAIN log
      BY DEF PairInv
    <3>2. CASE Remote!Emit
      <4>1. PICK e : log' = Append(log, e)
        BY <3>2 DEF Remote!Emit
      <4>2. \A n \in DOMAIN log : Append(log, e)[n] = log[n]
        BY DEF PairInv
      <4> QED BY <3>1, <3>2, <4>1, <4>2 DEF Remote!Emit
    <3>3. CASE ~Remote!Emit
      BY <1>2, <3>1, <3>3
      DEF Remote!Next, Remote!Disconnect, Remote!StreamFails, Remote!StreamEnds, Remote!Send,
          Remote!Sent, Remote!SendFails, Remote!remoteVars
    <3> QED BY <3>2, <3>3
  <2>2. StartsFirst'
    <3>1. CASE Remote!Emit
      BY <3>1, EmitStartsFirst DEF WaitInv
    <3>2. CASE ~Remote!Emit
      <4>1. log' = log
        BY <1>2, <3>2 DEF Remote!Next, Remote!Disconnect, Remote!StreamFails, Remote!StreamEnds,
                          Remote!Send, Remote!Sent, Remote!SendFails, Remote!remoteVars
      <4> QED BY <4>1 DEF WaitInv, StartsFirst
    <3> QED BY <3>1, <3>2
  <2>3. /\ EndSeen(stream.next - 1)' <=> EndSeen(k)
        /\ Waiting(pending, stream.next - 1)' <=> Waiting(pending', k)
        /\ \A u : Waiting(u, stream.next - 1)' <=> Waiting(u, k)
    BY <2>1 DEF Waiting, Begun, Finished, EndSeen
  <2>4. \/ UNCHANGED <<pending, lost>>
        \/ pending' = Remote!None /\ lost' = lost \union Remote!Open({})
    BY <1>2 DEF Remote!Next, Remote!Emit, Remote!Disconnect, Remote!StreamFails, Remote!StreamEnds,
                Remote!Send, Remote!Sent, Remote!SendFails, Remote!remoteVars
  <2>5. ASSUME NEW u \in Tasks \ lost', Kind[u] = "wait", Waiting(u, k)
        PROVE  pending' = u
    BY <2>4, <2>5 DEF WaitInv, PendingWaits, Remote!Open, Remote!RemoteAssumption
  <2>6. pending' # Remote!None => /\ pending' \in Tasks /\ Kind[pending'] \in {"wait", "steer"}
                           /\ Waiting(pending', k)
    BY <2>4 DEF WaitInv, PendingWaits
  <2>7. stream'.over <=> EndSeen(k)
    BY <2>1 DEF WaitInv, PendingWaits
  <2>8. PendingWaits'
    BY <2>3, <2>5, <2>6, <2>7 DEF PendingWaits
  <2> QED BY <2>2, <2>8 DEF WaitInv
<1> QED BY <1>1, <1>2

-----------------------------------------------------------------------------
(* Types, and the theorem. *)

\* A stream that runs has tries left.
RemoteTypes ==
  /\ Remote!TypeOK
  /\ Len(log) <= MaxEvents
  /\ stream.up => stream.retries <= MaxRetry

LEMMA DeliverTypes ==
  ASSUME Remote!RemoteAssumption, PairInv, PairInv', RemoteTypes, WaitInv', Remote!Deliver
  PROVE  RemoteTypes'
<1> DEFINE n == stream.next
           t == log[n].task
           op == log[n].op
<1>1. /\ n \in 1..MaxEvents /\ n \in DOMAIN log /\ log' = log /\ Len(log) \in Nat /\ Len(log) <= MaxEvents
      /\ UNCHANGED sending /\ Remote!Consume(t, n, op) /\ stream.up
      /\ stream' = [Remote!Received(n) EXCEPT !.over = (op = "end")]
  BY DEF Remote!Deliver, PairInv, RemoteTypes, Remote!RemoteAssumption
<1>2. op \in Remote!Ops /\ (t # Remote!None => t \in Tasks) /\ (op = "end" => t = Remote!None)
  <2>1. log[n] \in Events
    BY <1>1 DEF PairInv
  <2> QED BY <1>1, <2>1 DEF Events, PairInv, LogLegal
<1>3. /\ stream' \in [up : BOOLEAN, next : 1..MaxEvents + 2, retries : 0..MaxRetry + 1, over : BOOLEAN]
      /\ stream'.retries = 0
  <2>1. n + 1 \in 1..MaxEvents + 2 /\ 0 \in 0..MaxRetry + 1 /\ (op = "end") \in BOOLEAN
    BY <1>1 DEF Remote!RemoteAssumption
  <2> HIDE DEF n, op
  <2> QED BY <1>1, <2>1 DEF Remote!Received, RemoteTypes, Remote!TypeOK
<1> HIDE DEF n
<1>4. content' \in [Tasks -> Seq(1..MaxEvents)] /\ msgId' \in [Tasks -> 0..MaxEvents]
  <2>1. CASE t # Remote!None /\ Kind[t] = "text" /\ Remote!TextEvent(t, n, op)
    <3>1. t \in Tasks /\ content[t] \in Seq(1..MaxEvents) /\ msgId[t] \in 0..MaxEvents /\ n \in 0..MaxEvents
      BY <1>1, <1>2, <2>1 DEF RemoteTypes, Remote!TypeOK
    <3>2. Remote!NewText(t, n, op) \in Seq(1..MaxEvents)
      <4>1. \A S, s, x : s \in Seq(S) /\ x \in S => Append(s, x) \in Seq(S) /\ <<x>> \in Seq(S)
        OBVIOUS
      <4> QED BY <1>1, <3>1, <4>1 DEF Remote!NewText
    <3>3. \E id \in 0..MaxEvents : msgId' = [msgId EXCEPT ![t] = id]
      BY <2>1, <3>1 DEF Remote!TextEvent
    <3>4. content' = [content EXCEPT ![t] = Remote!NewText(t, n, op)]
      BY <2>1 DEF Remote!TextEvent
    <3> QED BY <3>2, <3>3, <3>4 DEF RemoteTypes, Remote!TypeOK
  <2>2. CASE ~(t # Remote!None /\ Kind[t] = "text" /\ Remote!TextEvent(t, n, op))
    <3>1. UNCHANGED <<content, msgId>>
      BY <1>1, <2>2 DEF Remote!Consume, Remote!ToolTask, Remote!WorkingTask, Remote!WaitStarts,
                        Remote!SteerEnds, Remote!WaitEnds, Remote!WorkflowEnds
    <3> QED BY <3>1 DEF RemoteTypes, Remote!TypeOK
  <2> QED BY <2>1, <2>2
<1>5. pending' \in Tasks \union {Remote!None}
  BY DEF WaitInv, PendingWaits
<1>6. lost' \subseteq Tasks
  <2>1. lost \subseteq Tasks /\ Remote!Open({t}) \subseteq Tasks
    BY DEF RemoteTypes, Remote!TypeOK, Remote!Open
  <2> QED BY <1>1, <2>1
      DEF Remote!Consume, Remote!TextEvent, Remote!ToolTask, Remote!WorkingTask, Remote!WaitStarts,
          Remote!SteerEnds, Remote!WaitEnds, Remote!WorkflowEnds
<1>7. asking' \in Remote!Ids \union {Remote!None}
  BY DEF PairInv, Paired
<1>8. log' \in Seq([task : Tasks \union {Remote!None}, op : Remote!Ops]) /\ Len(log') <= MaxEvents
      /\ calls' \in [called : SUBSET Remote!Ids, answered : SUBSET Remote!Ids, open : SUBSET Remote!Ids]
  BY <1>1 DEF PairInv, Events
<1>9. Remote!TypeOK'
  BY <1>1, <1>3, <1>4, <1>5, <1>6, <1>7, <1>8 DEF Remote!TypeOK, RemoteTypes
<1> QED BY <1>3, <1>8, <1>9 DEF RemoteTypes, Remote!RemoteAssumption

LEMMA TypesStep ==
  ASSUME Remote!RemoteAssumption, PairInv, PairInv', RemoteTypes, WaitInv', [Remote!Next]_Remote!remoteVars
  PROVE  RemoteTypes'
<1>1. CASE Remote!Deliver
  BY <1>1, DeliverTypes
<1>2. CASE Remote!Emit
  <2>1. log' \in Seq([task : Tasks \union {Remote!None}, op : Remote!Ops])
    BY DEF PairInv, Events
  <2>2. Len(log') <= MaxEvents
    <3>1. PICK e : log' = Append(log, e)
      BY <1>2 DEF Remote!Emit
    <3>2. Len(log') = Len(log) + 1 /\ Len(log) \in Nat
      BY <3>1 DEF PairInv
    <3> QED BY <1>2, <3>2 DEF Remote!Emit, Remote!RemoteAssumption
  <2> QED BY <1>2, <2>1, <2>2 DEF Remote!Emit, RemoteTypes, Remote!TypeOK
<1>3. CASE Remote!Disconnect
  <2>1. DOMAIN stream = {"up", "next", "retries", "over"} /\ stream.retries \in Nat
        /\ stream.retries + 1 \in 0..MaxRetry + 1
        /\ (stream.retries < MaxRetry) \in BOOLEAN
    BY <1>3 DEF Remote!Disconnect, RemoteTypes, Remote!TypeOK, Remote!RemoteAssumption
  <2>2. /\ stream' \in [up : BOOLEAN, next : 1..MaxEvents + 2, retries : 0..MaxRetry + 1, over : BOOLEAN]
        /\ stream'.up = (stream.retries < MaxRetry) /\ stream'.retries = stream.retries + 1
    BY <1>3, <2>1 DEF Remote!Disconnect, RemoteTypes, Remote!TypeOK
  <2>3. stream'.up => stream'.retries <= MaxRetry
    BY <2>1, <2>2 DEF Remote!RemoteAssumption
  <2> QED BY <1>3, <2>2, <2>3 DEF Remote!Disconnect, RemoteTypes, Remote!TypeOK
<1>4. CASE Remote!StreamFails \/ Remote!StreamEnds
  <2>1. /\ stream' \in [up : BOOLEAN, next : 1..MaxEvents + 2, retries : 0..MaxRetry + 1, over : BOOLEAN]
        /\ ~stream'.up
    BY <1>4 DEF Remote!StreamFails, Remote!StreamEnds, RemoteTypes, Remote!TypeOK
  <2>2. UNCHANGED <<log, content, msgId, pending, asking, sending, lost>>
        /\ calls' \in [called : SUBSET Remote!Ids, answered : SUBSET Remote!Ids, open : SUBSET Remote!Ids]
    BY <1>4 DEF Remote!StreamFails, Remote!StreamEnds, PairInv
  <2> QED BY <2>1, <2>2 DEF RemoteTypes, Remote!TypeOK
<1>5. CASE Remote!Send \/ UNCHANGED Remote!remoteVars \/ \E t \in Tasks : Remote!Sent(t) \/ Remote!SendFails(t)
  BY <1>5 DEF Remote!Send, Remote!Sent, Remote!SendFails, Remote!remoteVars, Remote!Open,
              RemoteTypes, Remote!TypeOK
<1> QED BY <1>1, <1>2, <1>3, <1>4, <1>5 DEF Remote!Next

\* Calls are paired, texts are shown, requests wait, and all has its type.
RemoteInv == PairInv /\ TextInv /\ WaitInv /\ RemoteTypes

LEMMA RemoteInit ==
  ASSUME Remote!RemoteAssumption, Remote!Init
  PROVE  RemoteInv
<1>1. PairInv
  BY DEF Remote!Init, PairInv, LogLegal, StartedIsCalled, Paired, Msgs
<1>2. Remote!Seen = <<>> /\ stream.next - 1 = 0
  BY DEF Remote!Init, Remote!Seen
<1>3. WaitInv
  BY <1>2 DEF Remote!Init, WaitInv, StartsFirst, PendingWaits, Waiting, Begun, EndSeen
<1>4. RemoteTypes
  BY DEF Remote!Init, RemoteTypes, Remote!TypeOK, Remote!RemoteAssumption
<1>5. TextInv
  <2>1. \A t : Remote!TextOf(t) = <<>>
    BY SentType, FlattenIs DEF Remote!Init
  <2>2. Below(messages, stream.next)
    BY DEF Remote!Init, Below
  <2> QED BY <2>1, <2>2 DEF Remote!Init, TextInv, TextOK
<1> QED BY <1>1, <1>3, <1>4, <1>5 DEF RemoteInv

LEMMA RemoteStep ==
  ASSUME Remote!RemoteAssumption, RemoteInv, [Remote!Next]_Remote!remoteVars
  PROVE  RemoteInv'
<1>1. PairInv'
  BY PairStep DEF RemoteInv
<1>2. TextInv'
  BY <1>1, TextStep DEF RemoteInv
<1>3. WaitInv'
  BY <1>1, WaitStep DEF RemoteInv
<1>4. RemoteTypes'
  BY <1>1, <1>3, TypesStep DEF RemoteInv
<1> QED BY <1>1, <1>2, <1>3, <1>4 DEF RemoteInv

LEMMA RemoteImplies ==
  ASSUME RemoteInv
  PROVE  Remote!TypeOK /\ Remote!RemoteSafe
<1>1. Remote!CallsPaired
  BY DEF RemoteInv, PairInv, Paired, Remote!CallsPaired
<1>2. \A id : Remote!Pieces(id) = PiecesOf(messages, id)
  BY DEF Remote!Pieces, PiecesOf, Body
<1>3. Remote!ShownIsSent
  BY <1>2 DEF RemoteInv, TextInv, TextOK, Remote!ShownIsSent
<1>4. Remote!Answerable
  BY SeenIs DEF RemoteInv, WaitInv, PendingWaits, Remote!Answerable
<1> QED BY <1>1, <1>3, <1>4 DEF RemoteInv, RemoteTypes, Remote!RemoteSafe

-----------------------------------------------------------------------------
(* Teleports. *)

TeleFields ==
  {"step", "commit", "branch", "diff", "failed", "approved", "polls", "browser", "service"}

TeleShape ==
  /\ DOMAIN tele = Teleports
  /\ \A t \in Teleports : DOMAIN tele[t] = TeleFields /\ tele[t].browser \in 0..1
  /\ strayed \subseteq Teleports

\* Commits are numbered as they are made; a history holds those of its commits.
RepoOK ==
  /\ DOMAIN repo = {"branch", "head", "history", "made", "changes", "work"}
  /\ repo.branch \in Branches /\ repo.made \in Move!Commits
  /\ repo.head \in [Branches -> 1..repo.made] /\ origin \in [Branches -> 0..repo.made]
  /\ DOMAIN repo.history = 0..MaxCommits
  /\ \A c \in 0..repo.made :
       /\ Move!History(c) \subseteq 1..c
       /\ c # 0 => c \in Move!History(c)
       /\ \A d \in Move!History(c) : Move!History(d) \subseteq Move!History(c)

\* What a teleport has read is still where the session is; it is on the remote.
Described(t) == tele[t].commit \in Move!History(Move!Head) /\ tele[t].branch = repo.branch
OnOrigin(t) == Move!OnRemote(tele[t].commit) /\ origin[tele[t].branch] # 0

StepsDescribed == {"diff", "check", "asking", "push", "start", "waiting", "fetching"}
StepsPushed == {"start", "waiting", "fetching", "complete"}
StepsEnded == {"complete", "error", "crashed"}

TeleFollows ==
  \A t \in Teleports \ strayed :
    /\ tele[t].step \in StepsDescribed => Described(t)
    /\ tele[t].step \in StepsPushed => OnOrigin(t)

PushAsked == \A t \in Teleports : tele[t].step = "push" => tele[t].approved

\* A service that is closedServices was closedServices by a teleport that used it, and has ended.
ClosedByUser ==
  \A s \in closedServices : \E t \in Teleports : tele[t].service = s /\ tele[t].step \in StepsEnded

TeleInv == TeleShape /\ RepoOK /\ TeleFollows /\ PushAsked /\ Move!PushedIfApproved /\ ClosedByUser

\* One teleport takes a step of its own, but no push.
LEMMA OneTeleports ==
  ASSUME TeleInv, NEW t \in Teleports, UNCHANGED <<repo, origin, strayed>>,
         DOMAIN tele' = Teleports, DOMAIN tele'[t] = TeleFields, tele'[t].browser \in 0..1,
         \A u \in Teleports \ {t} : tele'[u] = tele[u],
         t \notin strayed =>
           /\ tele'[t].step \in StepsDescribed =>
                tele'[t].commit \in Move!History(Move!Head) /\ tele'[t].branch = repo.branch
           /\ tele'[t].step \in StepsPushed =>
                Move!OnRemote(tele'[t].commit) /\ origin[tele'[t].branch] # 0,
         tele'[t].step = "push" => tele'[t].approved,
         tele[t].approved => tele'[t].approved,
         tele[t].step \notin StepsEnded,
         \/ closedServices' = closedServices
         \/ /\ closedServices' = closedServices \cup {tele[t].service}
            /\ tele'[t].service = tele[t].service /\ tele'[t].step \in StepsEnded
  PROVE  TeleInv'
<1>1. TeleShape' /\ RepoOK'
  BY DEF TeleInv, TeleShape, RepoOK, Move!History
<1>2. TeleFollows'
  BY DEF TeleFollows, Described, OnOrigin, Move!OnRemote, Move!History, Move!Head, TeleInv
<1>3. PushAsked'
  BY DEF TeleInv, PushAsked
<1>4. Move!PushedIfApproved'
  BY DEF TeleInv, Move!PushedIfApproved
<1>5. ClosedByUser'
  <2> SUFFICES ASSUME NEW s \in closedServices'
               PROVE  \E u \in Teleports : tele'[u].service = s /\ tele'[u].step \in StepsEnded
    BY DEF ClosedByUser
  <2>1. CASE s \in closedServices
    BY <2>1 DEF TeleInv, ClosedByUser
  <2>2. CASE s \notin closedServices
    BY <2>2
  <2> QED BY <2>1, <2>2
<1> QED BY <1>1, <1>2, <1>3, <1>4, <1>5 DEF TeleInv

\* The steps of the service, and of the loop that drives it.
LEMMA TeleportProceeds ==
  ASSUME TeleInv, NEW t \in Teleports,
         \/ Move!Begin(t) \/ Move!GetInfo(t) \/ Move!GetDiff(t) \/ Move!CheckPushed(t)
         \/ \E approved \in BOOLEAN : Move!AnswerPush(t, approved)
         \/ Move!StartWorkflow(t) \/ Move!FetchUrl(t) \/ Move!Closed(t)
         \/ \E status \in {"connected", "pending", "oauth", "error", "failed"} : Move!Poll(t, status)
  PROVE  TeleInv'
<1> USE DEF StepsDescribed, StepsPushed, StepsEnded
<1>1. /\ DOMAIN tele = Teleports /\ DOMAIN tele[t] = TeleFields /\ tele[t].browser \in 0..1
      /\ t \notin strayed =>
           /\ tele[t].step \in StepsDescribed =>
                tele[t].commit \in Move!History(Move!Head) /\ tele[t].branch = repo.branch
           /\ tele[t].step \in StepsPushed =>
                Move!OnRemote(tele[t].commit) /\ origin[tele[t].branch] # 0
  BY DEF TeleInv, TeleShape, TeleFollows, Described, OnOrigin
<1>2. Move!Head \in Move!History(Move!Head)
  BY DEF TeleInv, RepoOK, Move!Head
<1>3. CASE Move!Begin(t)
  BY <1>1, <1>3, OneTeleports DEF Move!Begin, TeleFields
<1>4. CASE Move!GetInfo(t)
  BY <1>1, <1>2, <1>4, OneTeleports DEF Move!GetInfo, TeleFields
<1>5. CASE Move!GetDiff(t)
  BY <1>1, <1>5, OneTeleports DEF Move!GetDiff, TeleFields
<1>6. CASE Move!CheckPushed(t)
  BY <1>1, <1>6, OneTeleports DEF Move!CheckPushed, Move!To, TeleFields
<1>7. CASE \E approved \in BOOLEAN : Move!AnswerPush(t, approved)
  BY <1>1, <1>7, OneTeleports DEF Move!AnswerPush, Move!Ends, TeleFields
<1>8. CASE \/ Move!StartWorkflow(t) \/ Move!FetchUrl(t) \/ Move!Closed(t)
           \/ \E status \in {"connected", "pending", "oauth", "error", "failed"} : Move!Poll(t, status)
  <2>1. /\ tele[t].step \notin {"idle", "complete", "error", "crashed"}
        /\ \/ /\ closedServices' = closedServices /\ tele'[t].step = tele[t].step
           \/ /\ closedServices' = closedServices
              /\ <<tele[t].step, tele'[t].step>> \in {<<"start", "waiting">>, <<"waiting", "fetching">>}
           \/ /\ closedServices' = closedServices \cup {tele[t].service} /\ tele'[t].service = tele[t].service
              /\ \/ tele'[t].step \in {"error", "crashed"}
                 \/ tele[t].step = "fetching" /\ tele'[t].step = "complete"
        /\ tele'[t].commit = tele[t].commit /\ tele'[t].branch = tele[t].branch
        /\ \A u \in Teleports \ {t} : tele'[u] = tele[u]
        /\ DOMAIN tele' = Teleports /\ DOMAIN tele'[t] = TeleFields
        /\ tele'[t].browser \in 0..1 /\ tele'[t].approved = tele[t].approved
    <3>1. CASE Move!StartWorkflow(t)
      BY <1>1, <3>1 DEF Move!StartWorkflow, Move!Ends, Move!To, TeleFields
    <3>2. CASE Move!FetchUrl(t)
      BY <1>1, <3>2 DEF Move!FetchUrl, Move!Ends, TeleFields
    <3>3. CASE Move!Closed(t)
      BY <1>1, <3>3 DEF Move!Closed, Move!Ends, Move!Running, TeleFields
    <3>4. CASE \E status \in {"connected", "pending", "oauth", "error", "failed"} : Move!Poll(t, status)
      BY <1>1, <3>4 DEF Move!Poll, Move!Ends, Move!To, TeleFields
    <3> QED BY <1>8, <3>1, <3>2, <3>3, <3>4
  <2>2. UNCHANGED <<repo, origin, strayed>>
    BY <1>8 DEF Move!StartWorkflow, Move!FetchUrl, Move!Closed, Move!Poll
  <2>3. tele'[t].step = "push" => tele'[t].approved
    BY <2>1 DEF TeleInv, PushAsked
  <2> QED BY <1>1, <2>1, <2>2, <2>3, OneTeleports
<1> QED BY <1>3, <1>4, <1>5, <1>6, <1>7, <1>8

\* What is pushed goes on from what was there, and so does its history.
LEMMA TeleportPushes ==
  ASSUME TeleInv, NEW t \in Teleports, Move!Push(t)
  PROVE  TeleInv'
<1> USE DEF StepsDescribed, StepsPushed, StepsEnded
<1>1. /\ DOMAIN tele = Teleports /\ DOMAIN tele[t] = TeleFields /\ tele[t].browser \in 0..1
      /\ tele[t].step = "push" /\ tele[t].approved
      /\ UNCHANGED <<repo, strayed>>
      /\ t \notin strayed => tele[t].commit \in Move!History(Move!Head) /\ tele[t].branch = repo.branch
  BY DEF TeleInv, TeleShape, TeleFollows, Described, PushAsked, Move!Push
<1>2. CASE Move!Ends(t, "error") /\ UNCHANGED origin
  BY <1>1, <1>2, OneTeleports DEF Move!Ends, TeleFields
<1>3. CASE /\ origin[repo.branch] \in Move!History(Move!Head) \cup {0}
           /\ origin' = [origin EXCEPT ![repo.branch] = Move!Head]
           /\ Move!To(t, "start") /\ UNCHANGED <<service, closedServices>>
  <2>1. /\ tele'[t].step = "start" /\ tele'[t].commit = tele[t].commit /\ tele'[t].branch = tele[t].branch
        /\ \A u \in Teleports \ {t} : tele'[u] = tele[u]
        /\ DOMAIN tele' = Teleports /\ DOMAIN tele'[t] = TeleFields
        /\ tele'[t].browser = tele[t].browser /\ tele'[t].approved = tele[t].approved
        /\ tele'[t].service = tele[t].service
    BY <1>1, <1>3 DEF Move!To, TeleFields
  <2>2. /\ repo.branch \in Branches /\ Move!Head \in 1..repo.made /\ repo.made \in Nat
        /\ origin \in [Branches -> 0..repo.made]
        /\ Move!Head # 0 /\ Move!History(0) = {}
    BY DEF TeleInv, RepoOK, Move!Head, Move!Commits
  <2>3. /\ origin' \in [Branches -> 0..repo.made] /\ origin'[repo.branch] = Move!Head
        /\ \A b \in Branches \ {repo.branch} : origin'[b] = origin[b]
    BY <1>3, <2>2
  <2>4. /\ Move!History(origin[repo.branch]) \subseteq Move!History(Move!Head)
        /\ \A c : Move!History(c)' = Move!History(c)
        /\ Move!Head' = Move!Head
    BY <1>1, <1>3, <2>2 DEF TeleInv, RepoOK, Move!History, Move!Head
  <2>5. \A c : Move!OnRemote(c) => Move!OnRemote(c)'
    BY <1>1, <2>2, <2>3, <2>4 DEF Move!OnRemote, Move!History
  <2>6. \A c \in Move!History(Move!Head) : Move!OnRemote(c)'
    BY <2>2, <2>3, <2>4 DEF Move!OnRemote
  <2>7. \A b \in Branches : origin[b] # 0 => origin'[b] # 0
    BY <2>2, <2>3
  <2>8. TeleShape' /\ RepoOK'
    BY <1>1, <2>1, <2>3, <2>4 DEF TeleInv, TeleShape, RepoOK
  <2>9. TeleFollows'
    <3> SUFFICES ASSUME NEW u \in Teleports \ strayed
                 PROVE  /\ tele'[u].step \in StepsDescribed => Described(u)'
                        /\ tele'[u].step \in StepsPushed => OnOrigin(u)'
      BY <1>1 DEF TeleFollows
    <3>1. CASE u = t
      <4>1. Described(t)'
        BY <1>1, <2>1, <2>4, <3>1 DEF Described
      <4>2. OnOrigin(t)'
        BY <1>1, <2>1, <2>2, <2>3, <2>6, <3>1 DEF OnOrigin, Move!OnRemote
      <4> QED BY <3>1, <4>1, <4>2
    <3>2. CASE u # t
      <4>1. tele'[u] = tele[u]
        BY <2>1, <3>2
      <4>2. tele[u].step \in StepsDescribed => Described(u)'
        BY <1>1, <2>4, <4>1 DEF TeleInv, TeleFollows, Described
      <4>3. tele[u].step \in StepsPushed => OnOrigin(u)'
        BY <1>3, <2>2, <2>5, <4>1 DEF TeleInv, TeleFollows, OnOrigin, Move!OnRemote
      <4> QED BY <4>1, <4>2, <4>3
    <3> QED BY <3>1, <3>2
  <2>10. PushAsked' /\ Move!PushedIfApproved'
    BY <1>1, <2>1 DEF TeleInv, PushAsked, Move!PushedIfApproved
  <2>11. ClosedByUser'
    BY <1>1, <1>3, <2>1 DEF ClosedByUser, TeleInv
  <2> QED BY <2>8, <2>9, <2>10, <2>11 DEF TeleInv
<1> QED BY <1>2, <1>3 DEF Move!Push

\* The user works on: what a teleport has described stays below the head, or it strays.
LEMMA WorkGoesOn ==
  ASSUME TeleInv, UNCHANGED <<origin, tele, closedServices>>, RepoOK',
         strayed \subseteq strayed', strayed' \subseteq Teleports,
         \A c \in 0..repo.made : Move!History(c)' = Move!History(c),
         \A t \in Teleports \ strayed' :
           tele[t].step \in StepsDescribed => tele[t].commit \in Move!History(Move!Head)' /\ tele[t].branch = repo'.branch
  PROVE  TeleInv'
<1>1. \A c : Move!OnRemote(c) => Move!OnRemote(c)'
  BY DEF TeleInv, RepoOK, Move!OnRemote, Move!History
<1>2. TeleFollows'
  <2> SUFFICES ASSUME NEW t \in Teleports \ strayed'
               PROVE  /\ tele[t].step \in StepsDescribed => Described(t)'
                      /\ tele[t].step \in StepsPushed => OnOrigin(t)'
    BY DEF TeleFollows
  <2>1. tele[t].step \in StepsDescribed => Described(t)'
    BY DEF Described
  <2>2. tele[t].step \in StepsPushed => OnOrigin(t)'
    BY <1>1 DEF TeleInv, TeleFollows, OnOrigin, Move!OnRemote
  <2> QED BY <2>1, <2>2
<1> QED
  BY <1>2 DEF TeleInv, TeleShape, PushAsked, Move!PushedIfApproved, ClosedByUser

LEMMA TeleportCommits ==
  ASSUME Move!TeleportAssumption, TeleInv, NEW amends \in BOOLEAN, Move!Commit(amends)
  PROVE  TeleInv'
<1> DEFINE made == repo.made + 1
           history == {made} \cup (IF amends THEN Move!History(Move!Head) \ {Move!Head} ELSE Move!History(Move!Head))
<1>1. /\ made \in 1..MaxCommits /\ made = repo.made + 1 /\ repo.made \in Nat
      /\ Move!Head \in 1..repo.made /\ repo.branch \in Branches
      /\ UNCHANGED <<origin, tele, closedServices>>
  BY DEF TeleInv, RepoOK, Move!Head, Move!Commit, Move!Works, Move!Commits, Move!TeleportAssumption
<1>2. /\ DOMAIN repo' = {"branch", "head", "history", "made", "changes", "work"}
      /\ repo'.branch = repo.branch /\ repo'.made = made
      /\ repo'.head = [repo.head EXCEPT ![repo.branch] = made]
      /\ repo'.history = [repo.history EXCEPT ![made] = history]
      /\ Move!Stray(history)
  BY DEF TeleInv, RepoOK, Move!Commit
<1> HIDE DEF made
<1>3. /\ history \subseteq 1..made /\ made \in history
      /\ \A d \in history \ {made} : d \in 0..repo.made /\ Move!History(d) \subseteq history
  <2>1. Move!History(Move!Head) \subseteq 1..Move!Head /\ \A d \in Move!History(Move!Head) : Move!History(d) \subseteq Move!History(Move!Head)
    BY <1>1 DEF TeleInv, RepoOK
  <2>2. ASSUME NEW d \in Move!History(Move!Head), d # Move!Head
        PROVE  Move!Head \notin Move!History(d)
    BY <1>1, <2>1, <2>2 DEF TeleInv, RepoOK
  <2> QED BY <1>1, <2>1, <2>2
<1>4. /\ \A c : c = made => Move!History(c)' = history
      /\ \A c \in 0..repo.made : Move!History(c)' = Move!History(c)
  <2>1. DOMAIN repo.history = 0..MaxCommits /\ made \in 0..MaxCommits
        /\ \A c \in 0..repo.made : c # made /\ c \in 0..MaxCommits
    BY <1>1 DEF TeleInv, RepoOK, Move!TeleportAssumption
  <2> HIDE DEF history
  <2>2. repo'.history[made] = history /\ \A c \in 0..repo.made : repo'.history[c] = repo.history[c]
    BY <1>2, <2>1
  <2> QED BY <2>2 DEF Move!History
<1> HIDE DEF history
<1>5. Move!Head' = made /\ Move!History(Move!Head)' = history
  BY <1>1, <1>2, <1>4 DEF TeleInv, RepoOK, Move!Head, Move!History
<1>6. RepoOK'
  <2>1. /\ repo'.head \in [Branches -> 1..made] /\ origin \in [Branches -> 0..made]
        /\ DOMAIN repo'.history = 0..MaxCommits
    BY <1>1, <1>2 DEF TeleInv, RepoOK
  <2>2. ASSUME NEW c \in 0..made
        PROVE  /\ Move!History(c)' \subseteq 1..c
               /\ c # 0 => c \in Move!History(c)'
               /\ \A d \in Move!History(c)' : Move!History(d)' \subseteq Move!History(c)'
    <3>1. CASE c = made
      BY <1>3, <1>4, <3>1
    <3>2. CASE c # made
      <4>1. c \in 0..repo.made
        BY <1>1, <3>2
      <4>2. Move!History(c) \subseteq 1..c /\ (c # 0 => c \in Move!History(c))
            /\ \A d \in Move!History(c) : Move!History(d) \subseteq Move!History(c)
        BY <4>1 DEF TeleInv, RepoOK
      <4>3. \A d \in Move!History(c) : d \in 0..repo.made
        BY <1>1, <4>1, <4>2
      <4> QED BY <1>4, <4>1, <4>2, <4>3
    <3> QED BY <3>1, <3>2
  <2> QED BY <1>1, <1>2, <2>1, <2>2 DEF RepoOK, Move!Commits, TeleInv
<1>7. strayed \subseteq strayed' /\ strayed' \subseteq Teleports
  BY <1>2 DEF Move!Stray, TeleInv, TeleShape
<1>8. ASSUME NEW t \in Teleports \ strayed', tele[t].step \in StepsDescribed
      PROVE  tele[t].commit \in Move!History(Move!Head)' /\ tele[t].branch = repo'.branch
  <2>1. Move!Running(t)
    BY <1>8 DEF Move!Running, StepsDescribed
  <2>2. tele[t].commit \in history \cup {0}
    BY <1>2, <1>8, <2>1 DEF Move!Stray
  <2>3. tele[t].commit \in Move!History(Move!Head) /\ tele[t].branch = repo.branch
    BY <1>7, <1>8 DEF TeleInv, TeleFollows, Described
  <2>4. tele[t].commit # 0
    BY <1>1, <2>3 DEF TeleInv, RepoOK
  <2>5. Move!History(Move!Head)' = history
    BY <1>5
  <2> QED BY <1>2, <2>2, <2>3, <2>4, <2>5
<1> QED BY <1>1, <1>4, <1>6, <1>7, <1>8, WorkGoesOn

LEMMA TeleportWorks ==
  ASSUME TeleInv, Move!Change \/ \E b \in Branches : Move!Switch(b)
  PROVE  TeleInv'
<1>1. CASE Move!Change
  <2>1. /\ repo'.branch = repo.branch /\ repo'.head = repo.head /\ repo'.history = repo.history
        /\ repo'.made = repo.made /\ DOMAIN repo' = DOMAIN repo
        /\ UNCHANGED <<origin, tele, closedServices, strayed>>
    BY <1>1 DEF Move!Change, Move!Works, TeleInv, RepoOK
  <2>2. RepoOK' /\ Move!History(Move!Head)' = Move!History(Move!Head) /\ \A c : Move!History(c)' = Move!History(c)
    BY <2>1 DEF TeleInv, RepoOK, Move!History, Move!Head
  <2> QED BY <2>1, <2>2, WorkGoesOn DEF TeleInv, TeleShape, TeleFollows, Described
<1>2. ASSUME NEW b \in Branches, Move!Switch(b) PROVE TeleInv'
  <2>1. /\ repo'.branch = b /\ repo'.head = repo.head /\ repo'.history = repo.history
        /\ repo'.made = repo.made /\ DOMAIN repo' = DOMAIN repo
        /\ UNCHANGED <<origin, tele, closedServices>>
        /\ strayed' = strayed \cup {t \in Teleports : Move!Running(t) /\ tele[t].commit # 0}
    BY <1>2 DEF Move!Switch, Move!Works, TeleInv, RepoOK
  <2>2. RepoOK' /\ \A c : Move!History(c)' = Move!History(c)
    BY <2>1 DEF TeleInv, RepoOK, Move!History
  <2>3. ASSUME NEW t \in Teleports \ strayed' PROVE tele[t].step \notin StepsDescribed
    BY <2>1 DEF TeleInv, TeleFollows, Described, RepoOK, Move!Head, Move!Commits, Move!Running,
                StepsDescribed
  <2> QED BY <2>1, <2>2, <2>3, WorkGoesOn DEF TeleInv, TeleShape
<1> QED BY <1>1, <1>2

LEMMA TeleStep ==
  ASSUME Move!TeleportAssumption, TeleInv, [Move!TeleportNext]_Move!teleVars
  PROVE  TeleInv'
<1>1. CASE UNCHANGED Move!teleVars
  BY <1>1 DEF Move!teleVars, TeleInv, TeleShape, RepoOK, TeleFollows, Described, OnOrigin, Move!OnRemote,
              Move!History, Move!Head, PushAsked, Move!PushedIfApproved, ClosedByUser
<1>2. CASE Move!TeleportNext
  BY <1>2, TeleportProceeds, TeleportPushes, TeleportCommits, TeleportWorks
    DEF Move!TeleportNext, Move!Proceeds
<1> QED BY <1>1, <1>2

LEMMA TeleInit ==
  ASSUME Move!TeleportAssumption, Move!Init
  PROVE  TeleInv
<1>1. TeleShape
  BY DEF Move!Init, TeleShape, TeleFields, Move!Idle
<1>2. RepoOK
  BY DEF Move!Commits, Move!TeleportAssumption, Move!Init, Move!History, RepoOK
<1>3. TeleFollows /\ PushAsked /\ ClosedByUser
  BY DEF Move!Init, Move!Idle, TeleFollows, PushAsked, ClosedByUser, StepsDescribed, StepsPushed
<1>4. Move!PushedIfApproved
  BY DEF Move!Init, Move!PushedIfApproved
<1> QED BY <1>1, <1>2, <1>3, <1>4 DEF TeleInv

LEMMA TeleImplies ==
  ASSUME Move!TeleportAssumption, TeleInv
  PROVE  Move!TypeOK /\ Move!TeleportSafe
<1>1. Move!TypeOK
  BY DEF TeleInv, RepoOK, Move!Commits, Move!TeleportAssumption, TeleShape, Move!TypeOK
<1>2. Move!CommitReachable
  BY DEF TeleInv, TeleFollows, OnOrigin, StepsPushed, Move!CommitReachable
<1>3. Move!OwnService
  BY DEF Move!OwnService, Move!Usable, TeleInv, ClosedByUser, Move!Alone, Move!Running, StepsEnded
<1> QED BY <1>1, <1>2, <1>3 DEF TeleInv, Move!TeleportSafe

-----------------------------------------------------------------------------
(* Signing in. *)

Decided == {"completed", "denied", "expired", "error"}

\* Until it fails the flow counts what has failed since the last answer.
SignInInv ==
  /\ Sign!TypeOK /\ Sign!SignInSafe
  /\ DOMAIN flow = {"step", "failures", "code", "key"} /\ DOMAIN signInService = {"state", "token"}
  /\ failing \in Nat /\ (flow.step # "failed" => failing = flow.failures /\ failing < MaxFailures)
  /\ flow.step \in {"opening", "polling", "sleeping", "exchanging"} => signInService.state \in {"pending"} \cup Decided

LEMMA SignInPolls ==
  ASSUME Sign!SignInAssumption, SignInInv, NEW answer \in Sign!Answers, Sign!Poll(answer)
  PROVE  SignInInv'
<1> USE DEF Sign!SignInAssumption
<1>1. /\ flow.step = "polling" /\ flow.code = "none" /\ flow.key = FALSE /\ clock < Lifetime
      /\ flow.failures \in Nat /\ failing = flow.failures /\ failing < MaxFailures
      /\ clock \in 0..Lifetime /\ UNCHANGED <<signInService, clock>>
      /\ DOMAIN flow = {"step", "failures", "code", "key"} /\ DOMAIN signInService = {"state", "token"}
      /\ signInService.state \in {"pending"} \cup Decided
  BY DEF SignInInv, Sign!TypeOK, Sign!SignInSafe, Sign!Poll
<1>2. answer \in {"failed", "unknown", "completed_without_token"} \cup {signInService.state}
  BY DEF Sign!Answers
<1>3. CASE answer = "failed" /\ flow.failures + 1 >= MaxFailures
  <2>1. failing' = MaxFailures /\ Sign!Fails("poll_failed")
    BY <1>1, <1>3 DEF Sign!Poll, Sign!Fails
  <2>2. /\ flow'.step = "failed" /\ flow'.code = "poll_failed" /\ flow'.key = flow.key
        /\ flow'.failures = flow.failures /\ DOMAIN flow' = DOMAIN flow
    BY <1>1, <2>1 DEF Sign!Fails
  <2> QED BY <1>1, <2>1, <2>2 DEF SignInInv, Sign!TypeOK, Sign!SignInSafe
<1>4. CASE answer = "failed" /\ flow.failures + 1 < MaxFailures
  <2>1. failing' = failing + 1 /\ flow' = [flow EXCEPT !.step = "sleeping", !.failures = @ + 1]
    BY <1>1, <1>4 DEF Sign!Poll
  <2>2. /\ flow'.step = "sleeping" /\ flow'.code = "none" /\ flow'.key = FALSE
        /\ flow'.failures = flow.failures + 1 /\ DOMAIN flow' = DOMAIN flow
    BY <1>1, <2>1
  <2> QED BY <1>1, <1>4, <2>1, <2>2 DEF SignInInv, Sign!TypeOK, Sign!SignInSafe
<1>5. CASE answer # "failed"
  <2>1. failing' = 0
    BY <1>5 DEF Sign!Poll
  <2>2. /\ flow'.key = FALSE /\ DOMAIN flow' = DOMAIN flow
        /\ \/ /\ flow'.code = "none" /\ flow'.failures = 0
              /\ \/ flow'.step = "sleeping"
                 \/ flow'.step = "exchanging" /\ signInService.state = "completed"
           \/ /\ flow'.step = "failed" /\ flow'.failures = flow.failures
              /\ \/ flow'.code \in {"missing_exchange_token", "unknown_state"}
                 \/ flow'.code \in {"denied", "expired", "error"} /\ signInService.state = flow'.code
    BY <1>1, <1>2, <1>5 DEF Sign!Poll, Decided, Sign!Fails
  <2>3. Sign!TypeOK'
    BY <1>1, <2>1, <2>2 DEF Sign!TypeOK
  <2>4. Sign!SignInSafe'
    BY <1>1, <2>1, <2>2 DEF Sign!SignInSafe, Decided
  <2>5. failing' \in Nat /\ (flow'.step # "failed" => failing' = flow'.failures /\ failing' < MaxFailures)
    BY <2>1, <2>2
  <2>6. DOMAIN flow' = {"step", "failures", "code", "key"} /\ DOMAIN signInService' = {"state", "token"}
        /\ signInService'.state \in {"pending"} \cup Decided
    BY <1>1, <2>2
  <2> QED BY <2>3, <2>4, <2>5, <2>6 DEF SignInInv
<1> QED BY <1>1, <1>3, <1>4, <1>5

LEMMA SignInStep ==
  ASSUME Sign!SignInAssumption, SignInInv, [Sign!SignInNext]_Sign!signInVars
  PROVE  SignInInv'
<1> USE DEF Sign!SignInAssumption
<1>1. CASE UNCHANGED Sign!signInVars
  BY <1>1 DEF Sign!signInVars, SignInInv, Sign!TypeOK, Sign!SignInSafe
<1>a. DOMAIN flow = {"step", "failures", "code", "key"}
  BY DEF SignInInv
<1>2. CASE Sign!Authenticate \/ Sign!OpenBrowser
  BY <1>a, <1>2 DEF Sign!Authenticate, Sign!OpenBrowser, Sign!Fails, SignInInv, Sign!TypeOK,
                    Sign!SignInSafe, Decided
<1>3. CASE Sign!CreateProcess
  <2>1. /\ flow'.key = flow.key /\ flow'.failures = flow.failures /\ DOMAIN flow' = DOMAIN flow
        /\ flow.step = "start" /\ UNCHANGED <<clock, failing>>
        /\ \/ flow'.step = "opening" /\ flow'.code = flow.code /\ signInService'.state = "pending"
           \/ flow'.step = "failed" /\ flow'.code = "start_failed"
    <3>1. \/ flow' = [flow EXCEPT !.step = "opening"] /\ signInService' = [state |-> "pending", token |-> TRUE]
          \/ flow' = [flow EXCEPT !.step = "failed", !.code = "start_failed"]
      BY <1>3 DEF Sign!CreateProcess, Sign!Fails
    <3>2. flow.step = "start" /\ UNCHANGED <<clock, failing>>
      BY <1>3 DEF Sign!CreateProcess
    <3>3. CASE flow' = [flow EXCEPT !.step = "opening"] /\ signInService' = [state |-> "pending", token |-> TRUE]
      BY <1>a, <3>2, <3>3
    <3>4. CASE flow' = [flow EXCEPT !.step = "failed", !.code = "start_failed"]
      BY <1>a, <3>2, <3>4
    <3> QED BY <3>1, <3>3, <3>4
  <2>2. DOMAIN signInService' = {"state", "token"}
    BY <1>3 DEF Sign!CreateProcess, SignInInv
  <2> QED BY <2>1, <2>2 DEF SignInInv, Sign!TypeOK, Sign!SignInSafe, Decided
<1>4. CASE \E answer \in Sign!Answers : Sign!Poll(answer)
  BY <1>4, SignInPolls
<1>5. CASE Sign!Sleep \/ Sign!TimeOut \/ Sign!Tick
  <2>1. /\ flow'.key = flow.key /\ flow'.failures = flow.failures /\ DOMAIN flow' = DOMAIN flow
        /\ flow.step \in {"polling", "sleeping"} /\ UNCHANGED <<signInService, failing>>
        /\ \/ flow'.step = flow.step /\ flow'.code = flow.code
           \/ flow'.step = "polling" /\ flow'.code = flow.code
           \/ flow'.step = "failed" /\ flow'.code = "timed_out" /\ clock' >= Lifetime
    BY <1>5, <1>a DEF Sign!Sleep, Sign!TimeOut, Sign!Tick, Sign!Fails
  <2>2. clock' \in 0..Lifetime
    BY <1>5 DEF Sign!Sleep, Sign!TimeOut, Sign!Tick, SignInInv, Sign!TypeOK
  <2> QED BY <2>1, <2>2 DEF SignInInv, Sign!TypeOK, Sign!SignInSafe, Decided
<1>6. CASE Sign!Exchange
  BY <1>6 DEF Sign!Exchange, Sign!Fails, SignInInv, Sign!TypeOK, Sign!SignInSafe, Decided
<1>7. CASE \E state \in Decided : Sign!Decide(state)
  BY <1>7 DEF Sign!Decide, SignInInv, Sign!TypeOK, Sign!SignInSafe, Decided
<1> QED
  BY <1>1, <1>2, <1>3, <1>4, <1>5, <1>6, <1>7 DEF Sign!SignInNext, Sign!Proceeds, Decided

LEMMA SignInInit ==
  ASSUME Sign!SignInAssumption, Sign!Init
  PROVE  SignInInv
BY DEF Sign!SignInAssumption, Sign!Init, SignInInv, Sign!TypeOK, Sign!SignInSafe

-----------------------------------------------------------------------------
(* The components side by side. *)

LEMMA AcpInit ==
  ASSUME Acp!AcpAssumption, Acp!Init
  PROVE  AcpInv /\ Known
<1>1. sessions = <<>> /\ <<>> \in Seq(Acp!SessionStates) /\ 0 \in 0..MaxIds
  BY DEF Acp!Init, Acp!AcpAssumption
<1>2. AcpTypes
  BY <1>1 DEF Acp!Init, AcpTypes, Acp!ReqStates, Acp!New
<1>3. AcpInv
  BY <1>2 DEF Acp!Init, AcpInv, Placed, TaskIsPrompt, FoundIsOpen, ClosingIsClosed, NothingLeft,
              Acp!Alive, Acp!New
<1> QED
  BY <1>3 DEF Acp!Init, Known, Numbered, OpenIsFound, RunningIsOpen, Acp!LogsApart,
              Acp!AsksAsProfile, Acp!New

LEMMA AcpImplies ==
  ASSUME Acp!AcpAssumption, AcpInv, Known
  PROVE  Acp!TypeOK /\ Acp!AcpSafe
<1>1. Acp!OnePromptTask /\ Acp!ClosedQuiet
  BY DEF AcpInv, Placed, TaskIsPrompt, NothingLeft, Acp!OnePromptTask, Acp!ClosedQuiet, Acp!TasksOf,
         Acp!Alive
<1>2. Acp!Reachable
  BY DEF AcpInv, Placed, Known, RunningIsOpen, OpenIsFound, Acp!Reachable
<1>3. Acp!TypeOK
  BY DEF AcpInv, AcpTypes, Acp!Ids, Acp!AcpAssumption, Acp!TypeOK, Known, Numbered
<1> QED
  BY <1>1, <1>2, <1>3 DEF Acp!AcpSafe, Known

\* A step is one of the component that runs.
LEMMA OneRuns ==
  ASSUME [Next]_vars
  PROVE  /\ part' = part
         /\ part = "acp" => [Acp!Next]_Acp!acpVars
         /\ part = "remote" => [Remote!Next]_Remote!remoteVars
         /\ part = "teleport" => [Move!TeleportNext]_Move!teleVars
         /\ part = "signin" => [Sign!SignInNext]_Sign!signInVars
BY DEF Next, vars, acpVars, remoteVars, teleVars, signInVars,
       Acp!acpVars, Remote!remoteVars, Move!teleVars, Sign!signInVars

\* For any requests, sessions, ids and profiles: a session runs one prompt at a
\* time, which can be found to be cancelled; nothing of it runs on when its agent
\* loop is being closed; sessions write to logs of their own and ask as their
\* profile says (prompt, cancel_prompt, close_session, _apply_mode_change).
THEOREM ServerIsSafe == Spec => []AcpSafe
<1> DEFINE Inv == part = "acp" => AcpInv /\ Known
<1>1. Init => Inv
  BY Assumptions, AcpInit DEF Init
<1>2. Inv /\ [Next]_vars => Inv'
  BY Assumptions, OneRuns, AcpStep, KnownStep
<1>3. Inv => AcpSafe
  BY Assumptions, AcpImplies DEF AcpSafe
<1> QED
  BY <1>1, <1>2, <1>3, PTL DEF Spec

\* For any workflow, disconnects and answers of the user: each call is shown once and
\* has at most one result, behind it; what was received of a text is in its message,
\* whole and once; an answer goes to a request that waits, and a question can be answered
\* until it was or gave way to another (remote_workflow_event_translator.py).
THEOREM RemoteIsSafe == Spec => []RemoteSafe
<1> DEFINE Inv == part = "remote" => RemoteInv
<1>1. Init => Inv
  BY Assumptions, RemoteInit DEF Init
<1>2. Inv /\ [Next]_vars => Inv'
  BY Assumptions, OneRuns, RemoteStep
<1>3. Inv => RemoteSafe
  BY Assumptions, RemoteImplies DEF RemoteSafe
<1> QED
  BY <1>1, <1>2, <1>3, PTL DEF Spec

\* For any teleports, commits and branches, and any time limit and number of failures: a
\* workflow starts from a commit and a branch that are on the remote, unless the user has
\* left them; nothing is pushed unasked; teleports with services of their own do not
\* break each other; a key is only had when the user agreed, and an error says what has
\* happened (teleport.py, git.py, browser_sign_in.py).
THEOREM HandoverIsSafe == Spec => []HandoverSafe
<1> DEFINE Inv == (part = "teleport" => TeleInv) /\ (part = "signin" => SignInInv)
<1>1. Init => Inv
  BY Assumptions, TeleInit, SignInInit DEF Init
<1>2. Inv /\ [Next]_vars => Inv'
  BY Assumptions, OneRuns, TeleStep, SignInStep
<1>3. Inv => HandoverSafe
  BY Assumptions, TeleImplies DEF HandoverSafe, SignInInv
<1> QED
  BY <1>1, <1>2, <1>3, PTL DEF Spec
=============================================================================
