--------------------------- MODULE MCSessionStore ---------------------------
(* Instances of SessionStore, and the log it implements. *)
EXTENDS SessionStore, TLC

CONSTANTS turn, thread

VARIABLE part  \* one session and any savers, or one save at a time

\* Two savers may meet in one session; over several sessions there is one save
\* at a time, and no responses are filled in.
OneSession == dirs = 1 /\ resumes <= 1
OneSave == inserted = {} /\ \A s, t \in Savers : s # t => Idle \in {save[s], save[t]}
NoSave == \A s \in Savers : save[s] = Idle

MCInit == Init /\ part \in {"savers", "sessions"}

MCNext ==
  /\ Next
  /\ part = "savers" => OneSession'
  /\ part = "sessions" => OneSave' /\ (NoSave \/ UNCHANGED <<dir, resumes>>)
  /\ UNCHANGED part

MCSpec == MCInit /\ [][MCNext]_<<vars, part>>

\* Where a sequence has a line that is not torn and that it does not have before.
Firsts(s) == {i \in DOMAIN s : s[i] # Torn /\ \A j \in 1..i - 1 : s[j] # s[i]}

\* The nth number of a finite set of them.
Nth(S, n) == CHOOSE k \in S : Cardinality({j \in S : j <= k}) = n

\* A sequence without torn lines and repetitions.
Once(s) == [n \in 1..Cardinality(Firsts(s)) |-> s[Nth(Firsts(s), n)]]

\* The session directory is the abstract session, messages.jsonl its file.
Shown(s) == IF part = "sessions" THEN Once(s) ELSE <<>>
Log == INSTANCE DurableLog WITH
         Sessions <- Dirs, Message <- MessageIds,
         log <- Shown(messages), session <- dir, file <- [d \in Dirs |-> Shown(lines[d])]

\* But for torn lines and repetitions, the store of one saver is a durable log,
\* over resets, compactions, rewinds, exits and resumed sessions, and over saves
\* that are cancelled or killed at any file operation.
ImplementsLog == Log!Spec

\* With one saver, and until a save is cut short or a response filled in behind
\* the part already saved, no message is in a session's file twice.
OnceAlone == part = "sessions" => OnceUndisturbed

SaverSymmetry == Permutations({turn, thread})
=============================================================================
