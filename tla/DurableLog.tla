----------------------------- MODULE DurableLog -----------------------------
(***************************************************************************)
(* What a session log promises: the file of the current session holds the  *)
(* conversation up to some point, and grows by the messages that follow;   *)
(* resuming a session continues from what its file holds.                  *)
(***************************************************************************)
EXTENDS Integers, Sequences, SequencesExt

CONSTANTS Sessions, Message

VARIABLES
  log,      \* the conversation
  session,  \* the current session
  file      \* what each session has on disk

vars == <<log, session, file>>

Init ==
  /\ log = <<>>
  /\ session \in Sessions
  /\ file = [s \in Sessions |-> <<>>]

Extend == \E m \in Message : log' = Append(log, m) /\ UNCHANGED <<session, file>>

\* The next message reaches the file.
Persist ==
  /\ Len(file[session]) < Len(log)
  /\ file' = [file EXCEPT ![session] = Append(@, log[Len(@) + 1])]
  /\ UNCHANGED <<log, session>>

\* A session that has nothing on disk begins, with part of the conversation or
\* with a message of its own.
Begin ==
  /\ \E s \in Sessions \ {session} : file[s] = <<>> /\ session' = s
  /\ \/ \E n \in 0..Len(log) : log' = SubSeq(log, 1, n)
     \/ \E m \in Message : log' = <<m>>
  /\ UNCHANGED file

\* The process ends: the conversation is gone, the files stay.
Stop == log' = <<>> /\ UNCHANGED <<session, file>>

Continue ==
  /\ \E s \in Sessions : session' = s /\ file[s] # <<>> /\ log' = file[s]
  /\ UNCHANGED file

Next == Extend \/ Persist \/ Begin \/ Stop \/ Continue

Spec == Init /\ [][Next]_vars
=============================================================================
