--------------------------- MODULE Turn_proofs ------------------------------
(***************************************************************************)
(* Proofs about what surrounds a turn, for any values of the constants:    *)
(* what steers it (TurnControl), the settings that it runs with, the       *)
(* session that it is saved to, and the rows in which it is shown (the     *)
(* components of Services that are not in Services_proofs).                *)
(***************************************************************************)
EXTENDS Services, TurnControl, FiniteSetTheorems, SequenceTheorems, WellFoundedInduction, TLAPS

-----------------------------------------------------------------------------
(* What steers a turn, for any agents, hooks and bounds: the types, that   *)
(* the turn limit is kept, that a warning counts as given only while the   *)
(* conversation has it, that every request that the pipeline lets through  *)
(* says the mode, and that the rounds of the hooks end.                    *)
(*                                                                         *)
(* The three inductive invariants are kept apart because they share        *)
(* nothing: the statistics run ahead of the LLM turns (StepsAhead), what   *)
(* the pipeline remembers is what the conversation says (InStep), and each *)
(* round of the hooks raises their counts (RoundsInv).                     *)

(* Types *)

\* A note of the pipeline is a note.
LEMMA NoteType == TypeOK => Note \in Notes
  BY DEF TypeOK, Note, Notes, NowWarns, Levels

\* The messages that the loop itself appends are messages.
LEMMA PlainType ==
  \A kind \in {"prompt", "request", "summary", "round"} : Plain(kind) \in Message
  BY DEF Plain, Message, Silent, Notes

\* What was saved is a conversation.
LEMMA SavedType == Saved \subseteq Seq(Message)
<1>1. ASSUME NEW n \in Notes PROVE Said(n) \in Message
  BY DEF Said, Message
<1>2. ASSUME NEW m \in Modes PROVE [in |-> {m}, out |-> {}, warning |-> TRUE] \in Notes
  BY DEF Notes
<1>3. <<Plain("prompt")>> \in Seq(Message)
  BY PlainType
<1>4. ASSUME NEW x \in Message PROVE <<Plain("prompt"), x>> \in Seq(Message)
  BY PlainType
<1>5. ASSUME NEW m \in Modes
      PROVE  <<Plain("prompt"), Said([in |-> {m}, out |-> {}, warning |-> TRUE])>> \in Seq(Message)
  BY <1>1, <1>2, <1>4
<1> QED
  BY <1>3, <1>5 DEF Saved

\* A bound that is not used up yet may be used.
LEMMA BoundsType ==
  ASSUME TypeOK
  PROVE  /\ used.prompts < MaxPrompts => [used EXCEPT !.prompts = @ + 1] \in Bounds
         /\ used.requests < MaxRequests => [used EXCEPT !.requests = @ + 1] \in Bounds
         /\ used.switches < MaxSwitches => [used EXCEPT !.switches = @ + 1] \in Bounds
         /\ used.loads < MaxLoads => [used EXCEPT !.loads = @ + 1] \in Bounds
<1>1. /\ used.prompts \in 0..MaxPrompts /\ used.requests \in 0..MaxRequests
      /\ used.switches \in 0..MaxSwitches /\ used.loads \in 0..MaxLoads
      /\ used = [prompts |-> used.prompts, requests |-> used.requests,
                 switches |-> used.switches, loads |-> used.loads]
  BY DEF TypeOK, Bounds
<1>2. \A n \in Nat : \A i \in 0..n : i < n => i + 1 \in 0..n
  OBVIOUS
<1> QED
  BY <1>1, <1>2, ControlAssumption DEF Bounds

\* The state has its type at all times.
THEOREM TypeCorrect == Spec => []TypeOK
<1>1. Init => TypeOK
  <2> SUFFICES ASSUME Init PROVE TypeOK
    OBVIOUS
  <2>1. Cardinality(Hooks) \in Nat
    BY ControlAssumption, FS_CardinalityType
  <2>2. messages \in Seq(Message)
    BY EmptySeq, SavedType DEF Init
  <2>3. used \in Bounds
    BY ControlAssumption DEF Init, Bounds
  <2>4. /\ was \in [Modes -> BOOLEAN] /\ retries \in [Hooks -> 0..MaxRetries]
        /\ hook \in 0..Cardinality(Hooks) + 1
    BY <2>1, ControlAssumption DEF Init
  <2> QED
    BY <2>2, <2>3, <2>4, ControlAssumption DEF Init, TypeOK, Profiles, Levels
<1>2. TypeOK /\ [Next]_vars => TypeOK'
  <2> SUFFICES ASSUME TypeOK, [Next]_vars PROVE TypeOK'
    OBVIOUS
  <2> USE ControlAssumption
  <2>c. Cardinality(Hooks) \in Nat
    BY FS_CardinalityType
  <2>1. CASE Submit
    BY <2>c, <2>1, PlainType, BoundsType DEF Submit, TypeOK, pipeVars, outOfStep
  <2>2. CASE Stop
    BY <2>2 DEF Stop, TypeOK, pipeVars, statVars, hookVars, outOfStep
  <2>3. CASE Go
    <3>1. messages' \in Seq(Message)
      <4>1. Said(Note) \in Message
        BY NoteType DEF Message, Said
      <4> QED
        BY <2>3, <4>1 DEF Go, TypeOK
    <3>2. was' \in [Modes -> BOOLEAN] /\ warned' \in BOOLEAN
      BY <2>3 DEF Go, Remember, TypeOK, NowWarns, Levels
    <3>3. used' \in Bounds
      BY <2>3, BoundsType DEF Go, Request
    <3> QED
      BY <2>3, <3>1, <3>2, <3>3 DEF Go, Request, TypeOK, hookVars
  <2>4. CASE Answer
    BY <2>4, <2>c DEF Answer, TypeOK, pipeVars, outOfStep
  <2>5. CASE Fails
    BY <2>5 DEF Fails, TypeOK, pipeVars, statVars, hookVars, outOfStep
  <2>6. CASE HookPasses
    BY <2>6, <2>c DEF HookPasses, NextHook, TypeOK, pipeVars, statVars, outOfStep
  <2>7. CASE HookRetries
    BY <2>7, PlainType DEF HookRetries, TypeOK, pipeVars, statVars, outOfStep
  <2>8. CASE HookExhausted
    BY <2>8, <2>c DEF HookExhausted, NextHook, TypeOK, pipeVars, statVars, outOfStep
  <2>9. CASE HooksDone
    BY <2>9, <2>c DEF HooksDone, TypeOK, pipeVars, statVars, outOfStep
  <2>10. CASE AutoCompact
    BY <2>10, PlainType, BoundsType DEF AutoCompact, CompactRequest, TypeOK, pipeVars, hookVars, outOfStep
  <2>11. CASE ManualCompact
    BY <2>11, PlainType, BoundsType DEF ManualCompact, CompactRequest, TypeOK, pipeVars, hookVars, outOfStep
  <2>12. CASE Summarised
    BY <2>12, PlainType DEF Summarised, Unnoticed, TypeOK, pipeVars, hookVars
  <2>13. CASE Compacted
    BY <2>13 DEF Compacted, ResetPipeline, TypeOK, hookVars
  <2>14. CASE AutoCompacted
    <3>1. used' \in Bounds
      BY <2>14, BoundsType DEF AutoCompacted, Request
    <3>2. was' \in [Modes -> BOOLEAN]
      BY <2>14 DEF AutoCompacted, ResetPipeline
    <3>3. tokens' \in Levels /\ steps' \in Nat /\ turns' \in Nat /\ pc' = "chat"
      BY <2>14 DEF AutoCompacted, Request, TypeOK
    <3>4. warned' \in BOOLEAN /\ stale' \in BOOLEAN /\ unsure' = {}
      BY <2>14 DEF AutoCompacted, ResetPipeline
    <3>5. UNCHANGED <<messages, profile, over, hook, retries, rounds>>
      BY <2>14 DEF AutoCompacted, hookVars
    <3> QED
      BY <3>1, <3>2, <3>3, <3>4, <3>5 DEF TypeOK
  <2>15. CASE Clear
    BY <2>15, EmptySeq DEF Clear, ResetPipeline, TypeOK, hookVars, Levels
  <2>16. CASE Rewind
    BY <2>16, SubSeqProperties DEF Rewind, Unnoticed, TypeOK, pipeVars, statVars, hookVars
  <2>17. CASE \E p \in Profiles : SwitchAgent(p)
    BY <2>17, BoundsType DEF SwitchAgent, outOfStep, TypeOK, pipeVars, hookVars, Levels
  <2>18. CASE UNCHANGED vars
    BY <2>18 DEF vars, TypeOK, pipeVars, statVars, hookVars
  <2>19. CASE Resume
    BY <2>19, SavedType, BoundsType DEF Resume, Load, Unnoticed, TypeOK, pipeVars, statVars, hookVars
  <2>20. CASE Reload
    BY <2>20, BoundsType DEF Reload, Load, TypeOK, hookVars, Levels
  <2> QED
    BY <2>1, <2>2, <2>3, <2>4, <2>5, <2>6, <2>7, <2>8, <2>9, <2>10, <2>11, <2>12, <2>13,
       <2>14, <2>15, <2>16, <2>17, <2>18, <2>19, <2>20 DEF Next
<1> QED
  BY <1>1, <1>2, PTL DEF Spec

-----------------------------------------------------------------------------
(* The turn limit *)

\* Steps count the LLM turns and more: one for the message of the user before
\* the loop asks for its first turn, and one for each compaction.
StepsAhead ==
  /\ steps >= turns
  /\ pc \in {"before", "chat", "hooks", "auto", "autocounted"} => steps >= turns + 1
  /\ MaxTurns # NoLimit /\ pc \in {"auto", "autocounted"} => turns < MaxTurns
  /\ TurnsLimited

\* Never more LLM turns than --max-turns: _conversation_loop, compact and the
\* rounds of the hooks together, for every limit.
THEOREM LimitKept == Spec => []TurnsLimited
<1>1. Init => StepsAhead
  BY ControlAssumption DEF Init, StepsAhead, TurnsLimited
<1>2. TypeOK /\ StepsAhead /\ [Next]_vars => StepsAhead'
  <2> SUFFICES ASSUME TypeOK, StepsAhead, [Next]_vars PROVE StepsAhead'
    OBVIOUS
  <2> USE ControlAssumption DEF TypeOK, StepsAhead, TurnsLimited
  <2>1. CASE Submit
    BY <2>1 DEF Submit
  <2>2. CASE Stop
    BY <2>2 DEF Stop, statVars
  <2>3. CASE Go
    BY <2>3 DEF Go, Request, MustStop, LimitReached
  <2>4. CASE Answer
    BY <2>4 DEF Answer
  <2>5. CASE Fails
    BY <2>5 DEF Fails, statVars
  <2>6. CASE HookPasses \/ HookExhausted
    BY <2>6 DEF HookPasses, HookExhausted, NextHook, statVars
  <2>7. CASE HookRetries
    BY <2>7 DEF HookRetries, statVars
  <2>8. CASE HooksDone
    BY <2>8 DEF HooksDone, statVars
  <2>9. CASE AutoCompact
    BY <2>9 DEF AutoCompact, CompactRequest, MustStop, LimitReached
  <2>10. CASE ManualCompact
    BY <2>10 DEF ManualCompact, CompactRequest
  <2>11. CASE Summarised
    BY <2>11 DEF Summarised
  <2>12. CASE Compacted
    BY <2>12 DEF Compacted
  <2>13. CASE AutoCompacted
    BY <2>13 DEF AutoCompacted, Request
  <2>14. CASE Clear
    BY <2>14 DEF Clear
  <2>15. CASE Rewind
    BY <2>15 DEF Rewind, statVars
  <2>16. CASE \E p \in Profiles : SwitchAgent(p)
    BY <2>16 DEF SwitchAgent
  <2>17. CASE UNCHANGED vars
    BY <2>17 DEF vars, statVars
  <2>18. CASE Resume \/ Reload
    BY <2>18 DEF Resume, Reload, statVars
  <2> QED
    BY <2>1, <2>2, <2>3, <2>4, <2>5, <2>6, <2>7, <2>8, <2>9, <2>10, <2>11, <2>12, <2>13,
       <2>14, <2>15, <2>16, <2>17, <2>18 DEF Next
<1>3. StepsAhead => TurnsLimited
  BY DEF StepsAhead
<1> QED
  BY <1>1, <1>2, <1>3, TypeCorrect, PTL DEF Spec

-----------------------------------------------------------------------------
(* What the pipeline remembers is what the conversation says *)

\* What a message adds to what is announced.
LEMMA AnnouncedAppend ==
  ASSUME NEW ms \in Seq(Message), NEW x \in Message, NEW m
  PROVE  Announced(Append(ms, x), m) <=>
           \/ m \in x.note.in
           \/ Announced(ms, m) /\ m \notin x.note.out
<1> DEFINE new == Append(ms, x)
           n == Len(ms)
<1>1. /\ n \in Nat
      /\ DOMAIN new = 1..n + 1 /\ Len(new) = n + 1 /\ DOMAIN ms = 1..n
      /\ new[n + 1] = x
      /\ \A i \in 1..n : new[i] = ms[i]
  BY AppendProperties, LenProperties
<1> HIDE DEF new, n
<1>2. ASSUME m \in x.note.in PROVE Announced(new, m)
  BY <1>1, <1>2 DEF Announced
<1>3. ASSUME Announced(ms, m), m \notin x.note.out PROVE Announced(new, m)
  BY <1>1, <1>3 DEF Announced, n
<1>4. ASSUME Announced(new, m), m \notin x.note.in
      PROVE  Announced(ms, m) /\ m \notin x.note.out
  BY <1>1, <1>4 DEF Announced, n
<1> QED
  BY <1>2, <1>3, <1>4 DEF new

\* A plain message announces nothing and warns of nothing.
LEMMA PlainAppend ==
  ASSUME NEW ms \in Seq(Message), NEW kind \in {"prompt", "request", "summary", "round"}
  PROVE  \A m : Announced(Append(ms, Plain(kind)), m) <=> Announced(ms, m)
  BY AnnouncedAppend, PlainType DEF Plain, Silent

\* A warning that is there stays there.
Warned(ms) == \E i \in DOMAIN ms : ms[i].note.warning

LEMMA WarnedAppend ==
  ASSUME NEW ms \in Seq(Message), NEW x \in Message
  PROVE  /\ Warned(ms) => Warned(Append(ms, x))
         /\ x.note.warning => Warned(Append(ms, x))
<1>1. /\ DOMAIN Append(ms, x) = 1..Len(ms) + 1 /\ DOMAIN ms = 1..Len(ms) /\ Len(ms) \in Nat
      /\ Append(ms, x)[Len(ms) + 1] = x
      /\ \A i \in 1..Len(ms) : Append(ms, x)[i] = ms[i]
  BY AppendProperties, LenProperties
<1> QED
  BY <1>1 DEF Warned

\* While tokens are counted the conversation is the summary, so that a reset of
\* the pipeline puts it in step again.
InStep ==
  /\ \A m \in Modes \ unsure : was[m] <=> Announced(messages, m)
  /\ warned /\ ~stale => Warned(messages)
  /\ pc \in {"counted", "autocounted"} => messages = <<Plain("summary")>>

\* A summary announces nothing.
LEMMA SummarySilent == \A m : ~Announced(<<Plain("summary")>>, m)
  BY DEF Announced, Plain, Silent

\* The pipeline's memory agrees with the conversation, but for what is exempt.
LEMMA MemoryInStep == Spec => []InStep
<1>1. Init => InStep
  <2>1. \A m : ~Announced(<<>>, m)
    BY DEF Announced
  <2> QED
    BY <2>1 DEF Init, InStep
<1>2. TypeOK /\ InStep /\ [Next]_vars => InStep'
  <2> SUFFICES ASSUME TypeOK, InStep, [Next]_vars PROVE InStep'
    OBVIOUS
  <2>t. messages \in Seq(Message)
    BY DEF TypeOK
  <2>plain. ASSUME NEW kind \in {"prompt", "request", "summary", "round"},
                   messages' = Append(messages, Plain(kind)),
                   UNCHANGED <<was, warned, stale, unsure>>, pc' \notin {"counted", "autocounted"}
            PROVE  InStep'
    BY <2>t, <2>plain, PlainType, PlainAppend, WarnedAppend DEF InStep
  <2>same. ASSUME UNCHANGED <<messages, was, warned, stale, unsure>>,
                  pc' = pc \/ pc' \notin {"counted", "autocounted"}
           PROVE  InStep'
    BY <2>same DEF InStep
  <2>1. CASE Submit
    BY <2>1, <2>plain DEF Submit, pipeVars, outOfStep
  <2>2. CASE Stop \/ Fails \/ HooksDone \/ Answer
    BY <2>2, <2>same DEF Stop, Fails, HooksDone, Answer, pipeVars, outOfStep
  <2>3. CASE Go
    <3> DEFINE x == Said(Note)
    <3>1. /\ \A m \in Modes : was'[m] <=> profile = m
          /\ unsure' = unsure \ (Note.in \union Note.out) /\ stale' = stale /\ pc' = "chat"
          /\ warned' => warned \/ Note.warning
      BY <2>3 DEF Go, Remember, Request, Note
    <3>2. x \in Message /\ x.note = Note
      BY NoteType DEF Message, Said
    <3>3. CASE Note = Silent
      <4>1. messages' = messages /\ unsure' = unsure /\ (warned' => warned)
        BY <2>3, <3>1, <3>3 DEF Go, Silent
      <4>2. \A m \in Modes : was[m] <=> profile = m
        BY <3>3 DEF Note, Silent, TypeOK
      <4> QED
        BY <3>1, <4>1, <4>2 DEF InStep
    <3>4. CASE Note # Silent
      <4>1. messages' = Append(messages, x)
        BY <2>3, <3>4 DEF Go
      <4>2. ASSUME NEW m \in Modes \ unsure' PROVE was'[m] <=> Announced(messages', m)
        <5>1. /\ m \in Note.in => profile = m
              /\ m \in Note.out => profile # m
              /\ m \notin Note.in \union Note.out => (was[m] <=> profile = m)
          BY DEF Note, TypeOK
        <5>2. Announced(messages', m) <=> m \in Note.in \/ (Announced(messages, m) /\ m \notin Note.out)
          BY <2>t, <3>2, <4>1, AnnouncedAppend
        <5>3. m \in Note.in \union Note.out \/ (was[m] <=> Announced(messages, m))
          BY <3>1 DEF InStep
        <5> QED
          BY <3>1, <5>1, <5>2, <5>3
      <4>3. Warned(messages) \/ Note.warning => Warned(messages')
        BY <2>t, <3>2, <4>1, WarnedAppend
      <4> QED
        BY <3>1, <4>2, <4>3 DEF InStep
    <3> QED
      BY <3>3, <3>4
  <2>4. CASE HookPasses \/ HookExhausted
    BY <2>4, <2>same DEF HookPasses, HookExhausted, NextHook, pipeVars, outOfStep
  <2>5. CASE HookRetries
    BY <2>5, <2>plain DEF HookRetries, pipeVars, outOfStep
  <2>6. CASE AutoCompact \/ ManualCompact
    BY <2>6, <2>plain DEF AutoCompact, ManualCompact, CompactRequest, pipeVars, outOfStep
  <2>7. CASE Summarised
    BY <2>7 DEF Summarised, Unnoticed, InStep, pipeVars
  <2>8. CASE Rewind \/ Resume
    BY <2>8 DEF Rewind, Resume, Unnoticed, InStep, pipeVars
  <2>9. CASE Compacted \/ AutoCompacted
    BY <2>9, SummarySilent DEF Compacted, AutoCompacted, InStep, Request, ResetPipeline
  <2>10. CASE Clear
    BY <2>10 DEF Clear, ResetPipeline, Announced, InStep
  <2>11. CASE \E p \in Profiles : SwitchAgent(p)
    BY <2>11, <2>same DEF SwitchAgent, pipeVars, outOfStep
  <2>12. CASE UNCHANGED vars
    BY <2>12, <2>same DEF vars, pipeVars
  <2>13. CASE Reload
    <3>1. ASSUME NEW m \in Modes \ unsure' PROVE ~was'[m] /\ ~Announced(messages', m)
      BY <2>13 DEF Reload, InStep
    <3> QED
      BY <2>13, <3>1 DEF Reload, InStep
  <2> QED
    BY <2>1, <2>2, <2>3, <2>4, <2>5, <2>6, <2>7, <2>8, <2>9, <2>10, <2>11, <2>12, <2>13 DEF Next
<1> QED
  BY <1>1, <1>2, TypeCorrect, PTL DEF Spec

\* The context warning is counted as given only while the conversation that the
\* model sees has it (ContextWarningMiddleware), for any number of compactions,
\* failures, /clear and settings loaded again; but a warning before a rewind, a
\* resumed session or a compaction that fails late.
THEOREM WarningsGiven == Spec => []WarningGiven
<1>1. InStep => WarningGiven
  BY DEF InStep, WarningGiven, Warned
<1> QED
  BY <1>1, MemoryInStep, PTL

\* Every request that passes the pipeline says the mode (ReadOnlyAgentMiddleware),
\* for any read-only agents and any switches; of the modes that a rewind, a resumed session
\* or settings loaded again have put out of step, from when the pipeline speaks of them again.
THEOREM ModesAnnounced == Spec => ModeAnnounced
<1> DEFINE Says ==
      Requested /\ pc = "before" =>
        \A m \in Modes \ unsure' : Announced(messages', m) <=> profile' = m
<1>1. TypeOK /\ InStep /\ InStep' /\ [Next]_vars => [Says]_vars
  <2> SUFFICES ASSUME TypeOK, InStep', Next, Requested, pc = "before",
                      NEW m \in Modes \ unsure'
               PROVE  Announced(messages', m) <=> profile' = m
    OBVIOUS
  <2>1. Go
    <3>1. ~UNCHANGED turns
      BY DEF Requested, TypeOK
    <3> QED
      BY <3>1 DEF Next, Submit, Stop, Answer, Fails, HookPasses, HookRetries, HookExhausted,
           NextHook, HooksDone, AutoCompact, ManualCompact, CompactRequest, Summarised,
           Compacted, AutoCompacted, Clear, Rewind, Resume, Reload, SwitchAgent
  <2>2. was'[m] <=> profile' = m
    BY <2>1 DEF Go, Remember
  <2>3. was'[m] <=> Announced(messages', m)
    BY <2>1 DEF Go, InStep
  <2> QED
    BY <2>2, <2>3
<1> QED
  BY <1>1, TypeCorrect, MemoryInStep, PTL DEF Spec, ModeAnnounced

-----------------------------------------------------------------------------
(* The rounds of the hooks *)

\* The ways for the counts to stand.  They are ordered by the last hook whose counts differ.
Counts == [Hooks -> 0..MaxRetries]

\* The counts of the hooks from k on are the same.
SameFrom(k, u, v) == \A j \in Hooks : j >= k => u[j] = v[j]

\* They are below.
Below(k, u, v) == \E h \in Hooks : h >= k /\ u[h] < v[h] /\ SameFrom(h + 1, u, v)

\* Those that are not above, when only the hooks from k on count.
UpTo(k, v) == {u \in Counts : Below(k, u, v) \/ SameFrom(k, u, v)}

\* Each round goes to counts above the ones before; while the hooks run, those that have
\* run already may have got theirs back, so that only the others tell.
RoundsInv ==
  /\ RoundsBounded
  /\ pc \in {"before", "chat", "hooks", "auto", "autocounted"} =>
       rounds < Cardinality(UpTo(IF pc = "hooks" THEN hook ELSE 1, retries))

\* There are finitely many counts: each is a set of pairs.
LEMMA CountsFinite == IsFiniteSet(Counts) /\ Cardinality(Counts) \in Nat
<1> DEFINE P == Hooks \X (0..MaxRetries)
           graph(v) == {<<h, v[h]>> : h \in Hooks}
           inv == [G \in SUBSET P |-> IF \E v \in Counts : graph(v) = G
                                        THEN CHOOSE v \in Counts : graph(v) = G
                                        ELSE [h \in Hooks |-> 0]]
<1>1. IsFiniteSet(SUBSET P)
  <2>1. IsFiniteSet(0..MaxRetries)
    BY ControlAssumption, FS_Interval
  <2>2. IsFiniteSet(P)
    BY <2>1, ControlAssumption, FS_Product
  <2> QED BY <2>2, FS_SUBSET
<1>2. [h \in Hooks |-> 0] \in Counts
  BY ControlAssumption DEF Counts
<1>3. \A v \in Counts : graph(v) \in SUBSET P
  BY DEF Counts
<1>4. \A u, v \in Counts : graph(u) = graph(v) => u = v
  <2> SUFFICES ASSUME NEW u \in Counts, NEW v \in Counts, graph(u) = graph(v) PROVE u = v
    OBVIOUS
  <2>1. \A h \in Hooks : u[h] = v[h]
    <3> SUFFICES ASSUME NEW h \in Hooks PROVE u[h] = v[h]
      OBVIOUS
    <3>1. <<h, u[h]>> \in graph(v)
      OBVIOUS
    <3>2. PICK g \in Hooks : <<h, u[h]>> = <<g, v[g]>>
      BY <3>1
    <3> QED BY <3>2
  <2> QED BY <2>1 DEF Counts
<1> HIDE DEF P, graph
<1>5. inv \in [SUBSET P -> Counts]
  BY <1>2
<1>6. \A v \in Counts : inv[graph(v)] = v
  BY <1>3, <1>4
<1> HIDE DEF inv
<1>7. inv \in Surjection(SUBSET P, Counts)
  BY <1>3, <1>5, <1>6 DEF Surjection
<1> QED BY <1>1, <1>7, FS_Surjection, FS_CardinalityType

\* They are one at least.
LEMMA UpToFinite ==
  ASSUME NEW k, NEW v \in Counts
  PROVE  /\ IsFiniteSet(UpTo(k, v)) /\ Cardinality(UpTo(k, v)) \in Nat
         /\ Cardinality(UpTo(k, v)) <= Cardinality(Counts)
         /\ Cardinality(UpTo(k, v)) > 0
<1>1. UpTo(k, v) \subseteq Counts /\ v \in UpTo(k, v)
  BY DEF UpTo, SameFrom
<1>2. IsFiniteSet(UpTo(k, v)) /\ Cardinality(UpTo(k, v)) <= Cardinality(Counts)
  BY <1>1, CountsFinite, FS_Subset
<1>3. Cardinality(UpTo(k, v)) \in Nat /\ Cardinality(UpTo(k, v)) # 0
  BY <1>1, <1>2, FS_CardinalityType, FS_EmptySet
<1> QED BY <1>2, <1>3

\* The next hook: what its predecessor does to its count does not matter.
LEMMA HookDone ==
  ASSUME NEW k \in Hooks, NEW u \in Counts, NEW v \in Counts, SameFrom(k + 1, u, v)
  PROVE  Cardinality(UpTo(k, u)) <= Cardinality(UpTo(k + 1, v))
<1>1. Hooks \subseteq Int /\ k \in Int
  BY ControlAssumption, FS_CardinalityType
<1>2. ASSUME NEW w \in Counts, Below(k, w, u) \/ SameFrom(k, w, u)
      PROVE  Below(k + 1, w, v) \/ SameFrom(k + 1, w, v)
  <2>1. CASE SameFrom(k, w, u)
    BY <1>1, <2>1 DEF SameFrom
  <2>2. CASE Below(k, w, u)
    <3>1. PICK h \in Hooks : h >= k /\ w[h] < u[h] /\ SameFrom(h + 1, w, u)
      BY <2>2 DEF Below
    <3>2. CASE h = k
      BY <1>1, <3>1, <3>2 DEF SameFrom
    <3>3. CASE h # k
      BY <1>1, <3>1, <3>3 DEF SameFrom, Below
    <3> QED BY <3>2, <3>3
  <2> QED BY <1>2, <2>1, <2>2
<1>3. UpTo(k, u) \subseteq UpTo(k + 1, v)
  BY <1>2 DEF UpTo
<1> QED BY <1>3, UpToFinite, FS_Subset

\* Another round: the counts go up.
LEMMA CountsRise ==
  ASSUME NEW k \in Hooks, NEW u \in Counts, NEW v \in Counts,
         u[k] < v[k], SameFrom(k + 1, u, v)
  PROVE  Cardinality(UpTo(k, u)) < Cardinality(UpTo(1, v))
<1>1. Hooks \subseteq Int /\ k \in Int /\ (\A h \in Hooks : h >= 1) /\ MaxRetries \in Nat
  BY ControlAssumption, FS_CardinalityType
<1>0. \A w \in Counts : \A h \in Hooks : w[h] \in Int
  BY <1>1 DEF Counts
<1>2. ASSUME NEW w \in Counts, Below(k, w, u) \/ SameFrom(k, w, u)
      PROVE  Below(1, w, v)
  <2>1. CASE SameFrom(k, w, u)
    BY <1>1, <2>1 DEF SameFrom, Below
  <2>2. CASE Below(k, w, u)
    BY <1>0, <1>1, <2>2 DEF Below, SameFrom
  <2> QED BY <1>2, <2>1, <2>2
<1>3. v \notin UpTo(k, u)
  <2> SUFFICES ASSUME Below(k, v, u) \/ SameFrom(k, v, u) PROVE FALSE
    BY DEF UpTo
  <2>1. CASE SameFrom(k, v, u)
    BY <1>0, <1>1, <2>1 DEF SameFrom
  <2>2. CASE Below(k, v, u)
    BY <1>0, <1>1, <2>2 DEF Below, SameFrom
  <2> QED BY <2>1, <2>2
<1> DEFINE A == UpTo(k, u)
           B == UpTo(1, v)
<1>4. A \subseteq B /\ v \in B /\ v \notin A
  BY <1>2, <1>3 DEF UpTo, SameFrom
<1>5. IsFiniteSet(A) /\ IsFiniteSet(B) /\ Cardinality(A) \in Nat /\ Cardinality(B) \in Nat
  BY UpToFinite
<1> HIDE DEF A, B
<1>6. Cardinality(A) <= Cardinality(B) /\ Cardinality(A) # Cardinality(B)
  BY <1>4, <1>5, FS_Subset
<1>7. Cardinality(A) < Cardinality(B)
  BY <1>5, <1>6
<1> QED BY <1>7 DEF A, B

\* What the steps of a turn keep.
LEMMA RoundsStep ==
  ASSUME TypeOK, RoundsInv, [Next]_vars
  PROVE  RoundsInv'
<1> DEFINE Running == {"before", "chat", "hooks", "auto", "autocounted"}
           N == Cardinality(Counts)
<1>0. /\ retries \in Counts /\ rounds \in Nat /\ N \in Nat /\ rounds <= N - 1
      /\ pc = "hooks" => rounds < Cardinality(UpTo(hook, retries))
      /\ pc \in Running /\ pc # "hooks" => rounds < Cardinality(UpTo(1, retries))
  BY CountsFinite DEF TypeOK, RoundsInv, RoundsBounded, Counts
<1> HIDE DEF N
<1>1. ASSUME retries' \in Counts, rounds' \in Nat,
             pc' \in Running => rounds' < Cardinality(UpTo(IF pc' = "hooks" THEN hook' ELSE 1, retries')),
             pc' \in Running \/ rounds' <= N - 1
      PROVE  RoundsInv'
  <2>1. rounds' <= N - 1
    <3>1. CASE pc' \in Running
      <4> DEFINE c == Cardinality(UpTo(IF pc' = "hooks" THEN hook' ELSE 1, retries'))
      <4>1. c \in Nat /\ c <= N
        BY <1>1, UpToFinite DEF N
      <4>2. rounds' < c
        BY <1>1, <3>1
      <4> HIDE DEF c
      <4> QED BY <1>0, <1>1, <4>1, <4>2
    <3>2. CASE pc' \notin Running
      BY <1>1, <3>2
    <3> QED BY <3>1, <3>2
  <2>2. RoundsBounded'
    BY <2>1 DEF RoundsBounded, N, Counts
  <2> QED BY <1>1, <2>2 DEF RoundsInv
<1>2. CASE Submit
  BY <1>1, <1>2, ControlAssumption, UpToFinite DEF Submit, Counts
<1>3. CASE Answer
  BY <1>0, <1>1, <1>3 DEF Answer
<1>4. CASE HookPasses \/ HookExhausted
  <2>1. /\ pc = "hooks" /\ pc' = "hooks" /\ hook \in Hooks /\ hook' = hook + 1 /\ rounds' = rounds
    BY <1>4 DEF HookPasses, HookExhausted, NextHook
  <2>2. retries' \in Counts /\ SameFrom(hook + 1, retries, retries')
    BY <1>0, <1>4, <2>1, ControlAssumption, FS_CardinalityType DEF HookPasses, HookExhausted,
                                                                   Counts, SameFrom
  <2>3. Cardinality(UpTo(hook, retries)) <= Cardinality(UpTo(hook', retries'))
    BY <1>0, <2>1, <2>2, HookDone
  <2>4. rounds' < Cardinality(UpTo(hook', retries'))
    BY <1>0, <2>1, <2>2, <2>3, UpToFinite
  <2> QED BY <1>0, <1>1, <2>1, <2>2, <2>4
<1>5. CASE HookRetries
  <2>1. /\ pc = "hooks" /\ pc' = "before" /\ hook \in Hooks /\ retries[hook] < MaxRetries
        /\ retries' = [retries EXCEPT ![hook] = @ + 1] /\ rounds' = rounds + 1
    BY <1>5 DEF HookRetries
  <2>2. retries' \in Counts /\ retries[hook] < retries'[hook] /\ SameFrom(hook + 1, retries, retries')
    BY <1>0, <2>1, ControlAssumption, FS_CardinalityType DEF Counts, SameFrom
  <2>3. Cardinality(UpTo(hook, retries)) < Cardinality(UpTo(1, retries'))
    BY <1>0, <2>1, <2>2, CountsRise
  <2>4. rounds' < Cardinality(UpTo(1, retries'))
    BY <1>0, <2>1, <2>2, <2>3, UpToFinite
  <2> QED BY <1>0, <1>1, <2>1, <2>2, <2>4
<1>6. CASE Go \/ AutoCompact \/ AutoCompacted
  BY <1>0, <1>1, <1>6 DEF Go, AutoCompact, AutoCompacted, CompactRequest, Request, hookVars
<1>7. CASE Summarised
  BY <1>0, <1>1, <1>7 DEF Summarised, hookVars
<1>8. CASE Stop \/ Fails \/ HooksDone \/ ManualCompact \/ Compacted
  <2>1. UNCHANGED <<retries, rounds>> /\ pc' \notin Running
    BY <1>8 DEF Stop, Fails, HooksDone, ManualCompact, CompactRequest, Compacted, hookVars
  <2> QED BY <1>0, <1>1, <2>1
<1>9. CASE Clear \/ Rewind \/ Resume \/ Reload \/ (\E p \in Profiles : SwitchAgent(p)) \/ UNCHANGED vars
  BY <1>0, <1>1, <1>9 DEF Clear, Rewind, Resume, Reload, SwitchAgent, vars, hookVars
<1> QED BY <1>2, <1>3, <1>4, <1>5, <1>6, <1>7, <1>8, <1>9 DEF Next

\* n hooks that take turns in asking for another round (HooksManager.run) end, for any
\* hooks and any number of retries.
THEOREM RoundsEnd == Spec => []RoundsBounded
<1>1. Init => RoundsInv
  <2> SUFFICES ASSUME Init PROVE RoundsInv
    OBVIOUS
  <2>1. [h \in Hooks |-> 0] \in Counts /\ Cardinality(Counts) \in Nat
    BY ControlAssumption, CountsFinite DEF Counts
  <2>2. Cardinality(Counts) > 0
    BY <2>1, UpToFinite
  <2> QED BY <2>1, <2>2 DEF Init, RoundsInv, RoundsBounded, Counts
<1>2. TypeOK /\ RoundsInv /\ [Next]_vars => RoundsInv'
  BY RoundsStep
<1>3. RoundsInv => RoundsBounded
  BY DEF RoundsInv
<1> QED BY <1>1, <1>2, <1>3, TypeCorrect, PTL DEF Spec

-----------------------------------------------------------------------------
(* The settings of a program and the catalogue of models. ConfigInv: the   *)
(* active model is one that can be used, and, unless a file of settings    *)
(* was lost or broken, a program has in memory what was said of the        *)
(* settings, or will read or write it, and the program that writes them    *)
(* knows the rest.                                                         *)

ModelMaps == UNION {[S -> Config!Levels] : S \in SUBSET Config!Aliases}
Lives == [active : Config!Aliases, models : ModelMaps, allow : SUBSET Config!Patterns, provided : BOOLEAN]
Processes ==
  [phase : Config!Phases, live : Lives, update : Config!Config, buffer : Config!Config,
   next : {"ready", "reload", "start"},
   behind : BOOLEAN, late : BOOLEAN]

ConfigTypes ==
  /\ file \in Config!Config /\ said \in Config!Config /\ cache \in {"none", "known", "serves"} /\
       lost \in BOOLEAN
  /\ proc \in [Procs -> Processes]
  /\ budget \in [saves : Nat, starts : Nat, trouble : Nat]

\* Models are none, or the first that comes with the program is one of them; but for the first
\* file none has its old name.
HasBase(models) == models = Config!NoModels \/ Config!Default \in DOMAIN models
IsNew(c) == c.active # "old" /\ "old" \notin DOMAIN c.models
\* A discovered model gets into a file by what was set.
Known(models, set) == "disc" \in DOMAIN models => "disc" \in DOMAIN set.models
LiveUsable(live, set) ==
  /\ live.active \in DOMAIN live.models /\ Config!Default \in DOMAIN live.models /\ IsNew(live)
  /\ live.active = "disc" /\ ~live.provided => "disc" \in DOMAIN set.models

\* What holds of a process and what it is about to write.
ProcUsable(q, f, set) ==
  /\ HasBase(q.update.models) /\ HasBase(q.buffer.models) /\ IsNew(q.update) /\ IsNew(q.buffer)
  /\ ~q.buffer.torn
  /\ q.phase \in {"down", "loading", "ready"} => q.update = Config!Nothing
  /\ q.phase = "ready" => IsNew(f)
  /\ q.phase = "loading" => q.next # "ready"
  /\ "disc" \in DOMAIN q.buffer.models => "disc" \in DOMAIN set.models \cup DOMAIN q.update.models
  /\ LiveUsable(q.live, set)

Usable ==
  /\ HasBase(file.models) /\ Known(file.models, said) /\ IsNew(said) /\ ~said.torn
  /\ file.torn => IsNew(file)
  /\ \A p \in Procs : ProcUsable(proc[p], file, said)

\* c, or what a process knows, has all that was set.
Covers(c, set) ==
  /\ ~c.torn /\ Config!Migrated(c).active = set.active /\ Config!Migrated(c).permission = set.permission
  /\ set.allow \subseteq Config!Migrated(c).allow
  /\ \A a \in DOMAIN set.models : a \in DOMAIN Config!Migrated(c).models /\
       Config!Migrated(c).models[a] = set.models[a]
LiveCovers(live, set) ==
  /\ set.allow \subseteq live.allow
  /\ \A a \in DOMAIN set.models : a \in DOMAIN live.models /\ live.models[a] = set.models[a]
Saving(q) == q.phase \in {"emptying", "writing"}
ProcKept(q, set) ==
  /\ Saving(q) /\ ~q.late => Covers(q.buffer, Config!Told(set, q.update))
  /\ q.phase = "ready" /\ ~q.behind => LiveCovers(q.live, set)
  /\ Saving(q) /\ q.next = "ready" /\ ~q.behind => LiveCovers(q.live, Config!Told(set, q.update))

\* As long as nothing was lost: while nobody writes the file has all that was set, and what
\* a process knows and is about to write has it unless another writes now, or has written
\* since (behind, late).
Writers == {p \in Procs : proc[p].phase = "writing"}
SettingsKept ==
  /\ Writers = {} => Covers(file, said)
  /\ \A p \in Procs : Writers \subseteq {p} => ProcKept(proc[p], said)

ConfigInv == ConfigTypes /\ Usable /\ (~lost => SettingsKept)

\* Maps of models.
LEMMA MapsAre ==
  /\ Config!NoModels \in ModelMaps /\ DOMAIN Config!NoModels = {}
  /\ Config!BuiltIn \in ModelMaps /\ DOMAIN Config!BuiltIn = {"base", "local"}
<1>1. DOMAIN Config!NoModels = {} /\ Config!NoModels \in [{} -> Config!Levels]
  BY DEF Config!NoModels, Config!Same
<1>2. DOMAIN Config!BuiltIn = {"base", "local"} /\ \A a \in {"base", "local"} : Config!BuiltIn[a] = "off"
  BY DEF Config!BuiltIn, Config!Same
<1>3. Config!BuiltIn \in [{"base", "local"} -> Config!Levels]
  BY <1>2 DEF Config!BuiltIn, Config!Same, Config!Levels
<1> QED
  BY <1>1, <1>2, <1>3 DEF ModelMaps, Config!Aliases

LEMMA MapsOf ==
  ASSUME NEW m
  PROVE  m \in ModelMaps <=> /\ m = [a \in DOMAIN m |-> m[a]] /\ DOMAIN m \subseteq Config!Aliases
                             /\ \A a \in DOMAIN m : m[a] \in Config!Levels
<1>1. ASSUME m \in ModelMaps
      PROVE  /\ m = [a \in DOMAIN m |-> m[a]] /\ DOMAIN m \subseteq Config!Aliases /\
                  \A a \in DOMAIN m : m[a] \in Config!Levels
  BY <1>1 DEF ModelMaps
<1>2. ASSUME m = [a \in DOMAIN m |-> m[a]], DOMAIN m \subseteq Config!Aliases,
               \A a \in DOMAIN m : m[a] \in Config!Levels
      PROVE  m \in ModelMaps
  BY <1>2 DEF ModelMaps
<1> QED
  BY <1>1, <1>2

\* A map that has no model is the empty one.
LEMMA EmptyMap ==
  ASSUME NEW m \in ModelMaps, DOMAIN m = {}
  PROVE  m = Config!NoModels
<1>1. m = [a \in DOMAIN m |-> m[a]]
  BY MapsOf
<1> QED
  BY <1>1 DEF Config!NoModels, Config!Same

\* Two maps, the first before the second.
LEMMA JoinIs ==
  ASSUME NEW m \in ModelMaps, NEW n \in ModelMaps
  PROVE  /\ Config!Joined(m, n) \in ModelMaps /\ DOMAIN Config!Joined(m, n) = DOMAIN m \cup DOMAIN n
         /\ \A a \in DOMAIN m : Config!Joined(m, n)[a] = m[a]
         /\ \A a \in DOMAIN n \ DOMAIN m : Config!Joined(m, n)[a] = n[a]
<1> DEFINE j == Config!Joined(m, n)
<1>1. /\ j = [a \in DOMAIN m \cup DOMAIN n |-> IF a \in DOMAIN m THEN m[a] ELSE n[a]]
  BY DEF Config!Joined
<1>2. DOMAIN m \subseteq Config!Aliases /\ DOMAIN n \subseteq Config!Aliases /\
        (\A a \in DOMAIN m : m[a] \in Config!Levels) /\ \A a \in DOMAIN n : n[a] \in Config!Levels
  BY MapsOf
<1>3. j \in [DOMAIN m \cup DOMAIN n -> Config!Levels] /\ DOMAIN m \cup DOMAIN n \in SUBSET Config!Aliases
  BY <1>1, <1>2
<1>4. j \in ModelMaps
  BY <1>3 DEF ModelMaps
<1> QED
  BY <1>1, <1>4

LEMMA RenamedIs ==
  ASSUME NEW m \in ModelMaps
  PROVE  /\ Config!Renamed(m) \in ModelMaps /\ "old" \notin DOMAIN Config!Renamed(m)
         /\ "old" \notin DOMAIN m => Config!Renamed(m) = m
         /\ HasBase(m) => HasBase(Config!Renamed(m))
         /\ "disc" \in DOMAIN Config!Renamed(m) => "disc" \in DOMAIN m
<1>1. CASE "old" \notin DOMAIN m
  BY <1>1 DEF Config!Renamed
<1>2. CASE "old" \in DOMAIN m
  <2> DEFINE S == (DOMAIN m \ {"old"}) \cup {"new"}
             r == [a \in S |-> IF a = "new" THEN "high" ELSE m[a]]
  <2>1. Config!Renamed(m) = r
    BY <1>2 DEF Config!Renamed
  <2>2. DOMAIN m \subseteq Config!Aliases /\ \A a \in DOMAIN m : m[a] \in Config!Levels
    BY MapsOf
  <2>3. r \in [S -> Config!Levels] /\ S \in SUBSET Config!Aliases
    BY <2>2 DEF Config!Levels, Config!Aliases
  <2>4. r \in ModelMaps /\ DOMAIN r = S
    BY <2>3 DEF ModelMaps
  <2>5. m # Config!NoModels
    BY <1>2, MapsAre
  <2>6. HasBase(m) => "base" \in S
    BY <2>5 DEF HasBase, Config!Default
  <2>7. "old" \notin S /\ ("disc" \in S => "disc" \in DOMAIN m)
    OBVIOUS
  <2> HIDE DEF S, r
  <2> QED
    BY <1>2, <2>1, <2>4, <2>6, <2>7 DEF HasBase, Config!Default
<1> QED
  BY <1>1, <1>2

-----------------------------------------------------------------------------
LEMMA ConfigsAre ==
  /\ Config!Nothing \in Config!Config /\ Config!Nothing.active = "unset" /\
       Config!Nothing.models = Config!NoModels /\ Config!Nothing.allow = {}
  /\ Config!Nothing.permission = "unset" /\ Config!Nothing.torn = FALSE
  /\ IsNew(Config!Nothing) /\ HasBase(Config!Nothing.models) /\ DOMAIN Config!Nothing.models = {}
  /\ Config!NoLive \in Lives /\ Config!NoLive.active = "base" /\
       DOMAIN Config!NoLive.models = {"base", "local"}
<1>1. Config!NoModels \in ModelMaps /\ DOMAIN Config!NoModels = {} /\ Config!BuiltIn \in ModelMaps /\
        DOMAIN Config!BuiltIn = {"base", "local"}
  BY MapsAre
<1> HIDE DEF Config!NoModels, Config!BuiltIn
<1>2. /\ Config!Nothing \in Config!Config /\ Config!Nothing.active = "unset" /\
           Config!Nothing.models = Config!NoModels /\ Config!Nothing.allow = {}
      /\ Config!Nothing.permission = "unset" /\ Config!Nothing.torn = FALSE
  BY <1>1 DEF Config!Nothing, Config!Config, ModelMaps
<1>3. IsNew(Config!Nothing) /\ HasBase(Config!Nothing.models) /\ DOMAIN Config!Nothing.models = {}
  BY <1>1, <1>2 DEF IsNew, HasBase
<1>4. Config!NoLive \in Lives /\ Config!NoLive.active = "base" /\
        DOMAIN Config!NoLive.models = {"base", "local"}
  BY <1>1 DEF Config!NoLive, Lives, Config!Aliases, Config!Default
<1> QED
  BY <1>2, <1>3, <1>4

LEMMA DownIs ==
  /\ Config!Down \in Processes /\ Config!Down.phase = "down" /\ Config!Down.live = Config!NoLive /\
       Config!Down.update = Config!Nothing
  /\ Config!Down.buffer = Config!Nothing /\ ~Config!Down.late /\ ~Config!Down.behind
BY ConfigsAre DEF Config!Down, Processes, Config!Phases

\* The fields of a configuration.
LEMMA FieldsOf ==
  ASSUME NEW c \in Config!Config
  PROVE  /\ c.active \in Config!Aliases \cup {"unset"} /\ c.models \in ModelMaps /\
              c.allow \in SUBSET Config!Patterns
         /\ c.permission \in {"unset", "always"} /\ c.torn \in BOOLEAN
BY DEF Config!Config, ModelMaps

LEMMA MergeIs ==
  ASSUME NEW c \in Config!Config, NEW u \in Config!Config
  PROVE  /\ Config!Merge(c, u) \in Config!Config
         /\ Config!Merge(c, u).active = IF u.active = "unset" THEN c.active ELSE u.active
         /\ Config!Merge(c, u).models = IF u.models = Config!NoModels THEN c.models ELSE u.models
         /\ Config!Merge(c, u).allow = IF u.allow = {} THEN c.allow ELSE u.allow
         /\ Config!Merge(c, u).permission = IF u.permission = "unset" THEN c.permission ELSE u.permission
         /\ Config!Merge(c, u).torn = c.torn
         /\ HasBase(c.models) /\ HasBase(u.models) => HasBase(Config!Merge(c, u).models)
         /\ IsNew(c) /\ IsNew(u) => IsNew(Config!Merge(c, u))
         /\ "disc" \in DOMAIN Config!Merge(c, u).models => "disc" \in DOMAIN c.models \cup DOMAIN u.models
<1> DEFINE a == IF u.active = "unset" THEN c.active ELSE u.active
           m == IF u.models = Config!NoModels THEN c.models ELSE u.models
           w == IF u.allow = {} THEN c.allow ELSE u.allow
           r == IF u.permission = "unset" THEN c.permission ELSE u.permission
<1>1. Config!Merge(c, u) = [active |-> a, models |-> m, allow |-> w, permission |-> r, torn |-> c.torn]
  BY DEF Config!Merge
<1>2. a \in Config!Aliases \cup {"unset"} /\ m \in ModelMaps /\ w \in SUBSET Config!Patterns /\
        r \in {"unset", "always"} /\ c.torn \in BOOLEAN
  BY FieldsOf
<1>3. HasBase(c.models) /\ HasBase(u.models) => HasBase(m)
  OBVIOUS
<1>4. IsNew(c) /\ IsNew(u) => a # "old" /\ "old" \notin DOMAIN m
  BY DEF IsNew
<1>5. "disc" \in DOMAIN m => "disc" \in DOMAIN c.models \cup DOMAIN u.models
  OBVIOUS
<1>6. /\ Config!Merge(c, u).active = a /\ Config!Merge(c, u).models = m /\
           Config!Merge(c, u).allow = w /\ Config!Merge(c, u).permission = r
      /\ Config!Merge(c, u).torn = c.torn
  BY <1>1
<1>7. Config!Merge(c, u) \in Config!Config
  <2> HIDE DEF a, m, w, r
  <2> QED
    BY <1>1, <1>2 DEF Config!Config, ModelMaps
<1>8. IsNew(c) /\ IsNew(u) => IsNew(Config!Merge(c, u))
  <2> HIDE DEF a, m, w, r
  <2> QED
    BY <1>4, <1>6 DEF IsNew
<1>9. HasBase(c.models) /\ HasBase(u.models) => HasBase(Config!Merge(c, u).models)
  <2> HIDE DEF a, m, w, r
  <2> QED
    BY <1>3, <1>6
<1>10. "disc" \in DOMAIN Config!Merge(c, u).models => "disc" \in DOMAIN c.models \cup DOMAIN u.models
  <2> HIDE DEF a, m, w, r
  <2> QED
    BY <1>5, <1>6
<1> QED
  BY <1>6, <1>7, <1>8, <1>9, <1>10

LEMMA MigratedIs ==
  ASSUME NEW c \in Config!Config
  PROVE  /\ Config!Migrated(c) \in Config!Config /\ IsNew(Config!Migrated(c))
         /\ Config!Migrated(c).active = IF c.active = "old" THEN "new" ELSE c.active
         /\ Config!Migrated(c).models = Config!Renamed(c.models)
         /\ Config!Migrated(c).allow = IF c.allow = {} THEN {} ELSE c.allow \cup {"find"}
         /\ Config!Migrated(c).permission = c.permission /\ Config!Migrated(c).torn = c.torn
         /\ HasBase(c.models) => HasBase(Config!Migrated(c).models)
         /\ IsNew(c) => Config!Migrated(c).active = c.active /\ Config!Migrated(c).models = c.models
         /\ "disc" \in DOMAIN Config!Migrated(c).models => "disc" \in DOMAIN c.models
<1> DEFINE a == IF c.active = "old" THEN "new" ELSE c.active
           w == IF c.allow = {} THEN {} ELSE c.allow \cup {"find"}
           m == Config!Renamed(c.models)
<1>1. Config!Migrated(c) = [active |-> a, models |-> m, allow |-> w, permission |-> c.permission,
                            torn |-> c.torn]
  BY DEF Config!Migrated
<1>2. /\ m \in ModelMaps /\ "old" \notin DOMAIN m /\ ("old" \notin DOMAIN c.models => m = c.models)
      /\ (HasBase(c.models) => HasBase(m)) /\ ("disc" \in DOMAIN m => "disc" \in DOMAIN c.models)
  <2>1. c.models \in ModelMaps
    BY FieldsOf
  <2> QED
    BY <2>1, RenamedIs
<1>3. a \in Config!Aliases \cup {"unset"} /\ w \in SUBSET Config!Patterns /\
        c.permission \in {"unset", "always"} /\ c.torn \in BOOLEAN
  BY FieldsOf DEF Config!Aliases, Config!Patterns
<1>4. a # "old" /\ (c.active # "old" => a = c.active)
  OBVIOUS
<1> HIDE DEF m
<1>5. /\ Config!Migrated(c).active = a /\ Config!Migrated(c).models = m /\ Config!Migrated(c).allow = w
      /\ Config!Migrated(c).permission = c.permission /\ Config!Migrated(c).torn = c.torn
  BY <1>1
<1>6. Config!Migrated(c) \in Config!Config
  <2> HIDE DEF a, w
  <2> QED
    BY <1>1, <1>2, <1>3 DEF Config!Config, ModelMaps
<1>7. IsNew(Config!Migrated(c)) /\ (IsNew(c) => Config!Migrated(c).active = c.active /\
                                    Config!Migrated(c).models = c.models)
  <2> HIDE DEF a, w
  <2> QED
    BY <1>2, <1>4, <1>5 DEF IsNew
<1>8. HasBase(c.models) => HasBase(Config!Migrated(c).models)
  BY <1>2, <1>5
<1>9. "disc" \in DOMAIN Config!Migrated(c).models => "disc" \in DOMAIN c.models
  BY <1>2, <1>5
<1>10. m = Config!Renamed(c.models)
  BY DEF m
<1> QED
  BY <1>5, <1>6, <1>7, <1>8, <1>9, <1>10

LEMMA ToldIs ==
  ASSUME NEW set \in Config!Config, NEW u \in Config!Config
  PROVE  /\ Config!Told(set, u) \in Config!Config /\ Config!Told(set, u).torn = set.torn
         /\ Config!Told(set, u).active = IF u.active = "unset" THEN set.active ELSE u.active
         /\ Config!Told(set, u).permission = IF u.permission = "unset" THEN set.permission ELSE u.permission
         /\ Config!Told(set, u).allow = u.allow \cup set.allow
         /\ DOMAIN Config!Told(set, u).models = DOMAIN u.models \cup DOMAIN set.models
         /\ \A a \in DOMAIN Config!Told(set, u).models :
              Config!Told(set, u).models[a] = IF a \in DOMAIN u.models THEN u.models[a] ELSE set.models[a]
         /\ IsNew(set) /\ IsNew(u) => IsNew(Config!Told(set, u))
<1> DEFINE g == Config!Merge(set, u)
           j == Config!Joined(g.models, set.models)
<1>1. Config!Told(set, u) = [active |-> g.active, models |-> j, allow |-> g.allow \cup set.allow,
                 permission |-> g.permission, torn |-> set.torn]
  BY DEF Config!Told
<1>2. /\ g \in Config!Config
      /\ g.active = IF u.active = "unset" THEN set.active ELSE u.active
      /\ g.models = IF u.models = Config!NoModels THEN set.models ELSE u.models
      /\ g.allow = IF u.allow = {} THEN set.allow ELSE u.allow
      /\ g.permission = IF u.permission = "unset" THEN set.permission ELSE u.permission
      /\ (IsNew(set) /\ IsNew(u) => IsNew(g))
  BY MergeIs
<1>3. g.models \in ModelMaps /\ set.models \in ModelMaps /\ u.models \in ModelMaps
  BY <1>2, FieldsOf
<1>4. /\ j \in ModelMaps /\ DOMAIN j = DOMAIN g.models \cup DOMAIN set.models
      /\ \A a \in DOMAIN g.models : j[a] = g.models[a]
      /\ \A a \in DOMAIN set.models \ DOMAIN g.models : j[a] = set.models[a]
  <2> HIDE DEF g
  <2> QED
    BY <1>3, JoinIs
<1>5. DOMAIN Config!NoModels = {} /\ (DOMAIN u.models = {} => u.models = Config!NoModels)
  BY <1>3, MapsAre, EmptyMap
<1> HIDE DEF g, j
<1>6. /\ Config!Told(set, u).active = g.active /\ Config!Told(set, u).models = j /\
           Config!Told(set, u).allow = g.allow \cup set.allow
      /\ Config!Told(set, u).permission = g.permission /\ Config!Told(set, u).torn = set.torn
  BY <1>1
<1>7. /\ DOMAIN j = DOMAIN u.models \cup DOMAIN set.models
      /\ \A a \in DOMAIN j : j[a] = IF a \in DOMAIN u.models THEN u.models[a] ELSE set.models[a]
  BY <1>2, <1>4, <1>5
<1>8. g.allow \cup set.allow = u.allow \cup set.allow
  BY <1>2
<1>9. Config!Told(set, u) \in Config!Config
  BY <1>1, <1>2, <1>4, FieldsOf DEF Config!Config, ModelMaps
<1>10. IsNew(set) /\ IsNew(u) => IsNew(Config!Told(set, u))
  BY <1>2, <1>6, <1>7 DEF IsNew
<1> QED
  BY <1>2, <1>6, <1>7, <1>8, <1>9, <1>10


-----------------------------------------------------------------------------
\* An update that has what was set, where it has anything, keeps it.
LEMMA MergeCovers ==
  ASSUME NEW set \in Config!Config, NEW c \in Config!Config, NEW u \in Config!Config, IsNew(c),
           IsNew(u), Covers(c, set),
         u.allow = {} \/ set.allow \subseteq u.allow,
         u.models = Config!NoModels \/ DOMAIN set.models \subseteq DOMAIN u.models
  PROVE  Covers(Config!Merge(c, u), Config!Told(set, u))
<1> DEFINE b == Config!Merge(c, u)
           t == Config!Told(set, u)
<1>1. /\ b \in Config!Config /\ b.active = (IF u.active = "unset" THEN c.active ELSE u.active)
      /\ b.models = (IF u.models = Config!NoModels THEN c.models ELSE u.models)
      /\ b.allow = (IF u.allow = {} THEN c.allow ELSE u.allow)
      /\ b.permission = (IF u.permission = "unset" THEN c.permission ELSE u.permission)
      /\ b.torn = c.torn /\ IsNew(b)
  BY MergeIs
<1>2. /\ t.active = (IF u.active = "unset" THEN set.active ELSE u.active)
      /\ t.permission = (IF u.permission = "unset" THEN set.permission ELSE u.permission)
      /\ t.allow = u.allow \cup set.allow /\ DOMAIN t.models = DOMAIN u.models \cup DOMAIN set.models
      /\ \A a \in DOMAIN t.models : t.models[a] = IF a \in DOMAIN u.models THEN u.models[a] ELSE set.models[a]
  BY ToldIs
<1> HIDE DEF b, t
<1>3. /\ Config!Migrated(b).active = b.active /\ Config!Migrated(b).models = b.models /\
           Config!Migrated(b).permission = b.permission
      /\ Config!Migrated(b).allow = IF b.allow = {} THEN {} ELSE b.allow \cup {"find"}
  BY <1>1, MigratedIs
<1>4. /\ Config!Migrated(c).active = c.active /\ Config!Migrated(c).models = c.models /\
           Config!Migrated(c).permission = c.permission
      /\ Config!Migrated(c).allow = IF c.allow = {} THEN {} ELSE c.allow \cup {"find"}
  BY MigratedIs
<1>5. /\ ~c.torn /\ c.active = set.active /\ c.permission = set.permission /\
           set.allow \subseteq Config!Migrated(c).allow
      /\ \A a \in DOMAIN set.models : a \in DOMAIN c.models /\ c.models[a] = set.models[a]
  BY <1>4 DEF Covers
<1>6. ~b.torn /\ Config!Migrated(b).active = t.active /\ Config!Migrated(b).permission = t.permission
  BY <1>1, <1>2, <1>3, <1>5
<1>7. t.allow \subseteq Config!Migrated(b).allow
  BY <1>1, <1>2, <1>3, <1>4, <1>5
<1>8. ASSUME NEW a \in DOMAIN t.models PROVE a \in DOMAIN b.models /\ b.models[a] = t.models[a]
  BY <1>1, <1>2, <1>5, MapsAre
<1>9. Covers(b, t)
  BY <1>3, <1>6, <1>7, <1>8 DEF Covers
<1> QED
  BY <1>9 DEF b, t

\* The migration changes nothing of what was set.
LEMMA MigrationCovers ==
  ASSUME NEW set \in Config!Config, IsNew(set), NEW c \in Config!Config, Covers(c, set)
  PROVE  Covers(Config!Migrated(c), set)
<1> DEFINE b == Config!Migrated(c)
<1>1. b \in Config!Config /\ IsNew(b) /\ b.torn = c.torn /\ b.permission = c.permission
  BY MigratedIs
<1>2. b.allow = IF c.allow = {} THEN {} ELSE c.allow \cup {"find"}
  BY MigratedIs
<1> HIDE DEF b
<1>3. /\ Config!Migrated(b).active = b.active /\ Config!Migrated(b).models = b.models /\
           Config!Migrated(b).permission = b.permission
      /\ Config!Migrated(b).allow = IF b.allow = {} THEN {} ELSE b.allow \cup {"find"}
  BY <1>1, MigratedIs
<1>4. /\ ~c.torn /\ b.active = set.active /\ b.permission = set.permission /\ set.allow \subseteq b.allow
      /\ \A a \in DOMAIN set.models : a \in DOMAIN b.models /\ b.models[a] = set.models[a]
  BY DEF b, Covers
<1>5. set.allow \subseteq Config!Migrated(b).allow
  BY <1>3, <1>4
<1>6. Covers(b, set)
  BY <1>1, <1>3, <1>4, <1>5 DEF Covers
<1> QED
  BY <1>6 DEF b

LEMMA ToldNothing ==
  ASSUME NEW set \in Config!Config
  PROVE  Config!Told(set, Config!Nothing) = set
<1>1. Config!Nothing \in Config!Config /\ Config!Nothing.active = "unset" /\
        Config!Nothing.models = Config!NoModels /\ Config!Nothing.allow = {} /\
          Config!Nothing.permission = "unset" /\ DOMAIN Config!Nothing.models = {}
  BY ConfigsAre
<1> DEFINE t == Config!Told(set, Config!Nothing)
<1>2. /\ t \in Config!Config /\ t.torn = set.torn /\ t.active = set.active /\ t.permission = set.permission
      /\ t.allow = {} \cup set.allow /\ DOMAIN t.models = {} \cup DOMAIN set.models
      /\ \A a \in DOMAIN t.models : t.models[a] = set.models[a]
  <2> DEFINE u == Config!Nothing
  <2>1. u \in Config!Config /\ u.active = "unset" /\ u.allow = {} /\ u.permission = "unset" /\
          DOMAIN u.models = {}
    BY <1>1
  <2>2. t = Config!Told(set, u)
    OBVIOUS
  <2> HIDE DEF t, u
  <2>3. /\ Config!Told(set, u) \in Config!Config /\ Config!Told(set, u).torn = set.torn
        /\ Config!Told(set, u).active = IF u.active = "unset" THEN set.active ELSE u.active
        /\ Config!Told(set, u).permission = IF u.permission = "unset" THEN set.permission ELSE u.permission
        /\ Config!Told(set, u).allow = u.allow \cup set.allow
        /\ DOMAIN Config!Told(set, u).models = DOMAIN u.models \cup DOMAIN set.models
        /\ \A a \in DOMAIN Config!Told(set, u).models :
             Config!Told(set, u).models[a] = IF a \in DOMAIN u.models THEN u.models[a] ELSE set.models[a]
    BY ZenonT(60), <2>1, ToldIs
  <2> QED
    BY <2>1, <2>2, <2>3
<1> HIDE DEF t
<1>3. t.models \in ModelMaps /\ set.models \in ModelMaps
  BY <1>2, FieldsOf
<1>4. t.models = [a \in DOMAIN t.models |-> t.models[a]] /\
        set.models = [a \in DOMAIN set.models |-> set.models[a]]
  BY <1>3, MapsOf
<1>5. t.models = set.models
  BY <1>2, <1>4
<1>6. t = set
  BY <1>2, <1>5 DEF Config!Config
<1> QED
  BY <1>6 DEF t

\* What a program that has read the settings uses.
LEMMA LoadedIs ==
  ASSUME NEW c \in Config!Config, IsNew(c), HasBase(c.models), Known(c.models, said)
  PROVE  /\ Config!Loaded(c) \in Lives /\ LiveUsable(Config!Loaded(c), said) /\
              Config!Loaded(c).allow = c.allow
         /\ \A a \in DOMAIN c.models : a \in DOMAIN Config!Loaded(c).models /\
              Config!Loaded(c).models[a] = c.models[a]
<1> DEFINE base == IF c.models = Config!NoModels THEN Config!BuiltIn ELSE c.models
           models == Config!WithCache(base)
           active == IF c.active = "unset" THEN Config!Default ELSE c.active
           live == Config!Loaded(c)
<1>1. /\ c.active \in Config!Aliases \cup {"unset"} /\ c.active # "old" /\ c.models \in ModelMaps /\
           "old" \notin DOMAIN c.models
      /\ c.allow \in SUBSET Config!Patterns
  BY FieldsOf DEF IsNew
<1>2. /\ base \in ModelMaps /\ "base" \in DOMAIN base /\ "old" \notin DOMAIN base
      /\ ("disc" \in DOMAIN base => "disc" \in DOMAIN said.models)
      /\ \A a \in DOMAIN c.models : a \in DOMAIN base /\ base[a] = c.models[a]
  BY <1>1, MapsAre DEF HasBase, Known, Config!Default
<1>3. /\ models \in ModelMaps /\ "base" \in DOMAIN models /\ "old" \notin DOMAIN models
      /\ ("disc" \in DOMAIN models => "disc" \in DOMAIN said.models \/ cache = "serves")
      /\ \A a \in DOMAIN base : a \in DOMAIN models /\ models[a] = base[a]
  <2> HIDE DEF base
  <2>1. CASE cache = "serves" /\ "disc" \notin DOMAIN base
    <3> DEFINE one == Config!Same({"disc"}, "off")
    <3>1. one \in [{"disc"} -> Config!Levels] /\ DOMAIN one = {"disc"}
      BY DEF Config!Same, Config!Levels
    <3>2. one \in ModelMaps
      BY <3>1 DEF ModelMaps, Config!Aliases
    <3> HIDE DEF one
    <3>3. models = Config!Joined(base, one)
      BY <2>1 DEF Config!WithCache, one
    <3>4. /\ Config!Joined(base, one) \in ModelMaps /\
               DOMAIN Config!Joined(base, one) = DOMAIN base \cup {"disc"}
          /\ \A a \in DOMAIN base : Config!Joined(base, one)[a] = base[a]
      <4>1. base \in ModelMaps
        BY <1>2
      <4> QED
        BY <4>1, <3>1, <3>2, JoinIs
    <3> HIDE DEF models
    <3> QED
      BY <1>2, <2>1, <3>3, <3>4
  <2>2. CASE ~(cache = "serves" /\ "disc" \notin DOMAIN base)
    BY <1>2, <2>2 DEF Config!WithCache
  <2> QED
    BY <2>1, <2>2
<1> DEFINE asIs == [active |-> active, models |-> models, allow |-> c.allow, provided |-> cache # "none"]
           fits == IF active \in DOMAIN models THEN active ELSE Config!Default
<1>4. Config!LoadedAsIs(c) = asIs
  BY DEF Config!LoadedAsIs
<1>5. active \in Config!Aliases /\ active # "old" /\ fits \in Config!Aliases /\ fits # "old" /\
        fits \in DOMAIN models
  BY <1>1, <1>3 DEF Config!Default, Config!Aliases
<1> HIDE DEF models, active
<1>6. live = [asIs EXCEPT !.active = fits]
  BY <1>4 DEF Config!Loaded
<1> HIDE DEF fits
<1>7. live = [active |-> fits, models |-> models, allow |-> c.allow, provided |-> cache # "none"]
  BY <1>6
<1> HIDE DEF live
<1>8. live.active = fits /\ live.models = models /\ live.allow = c.allow /\ live.provided = (cache # "none")
  BY <1>7
<1>9. live \in Lives
  BY <1>1, <1>3, <1>5, <1>7 DEF Lives
<1>10. LiveUsable(live, said)
  BY <1>3, <1>5, <1>8 DEF IsNew, LiveUsable, Config!Default
<1>11. \A a \in DOMAIN c.models : a \in DOMAIN live.models /\ live.models[a] = c.models[a]
  BY <1>2, <1>3, <1>8
<1> QED
  BY <1>8, <1>9, <1>10, <1>11 DEF live


-----------------------------------------------------------------------------
\* What one process is to become keeps the invariant, when none of the shared files changes.
LEMMA ProcChanges ==
  ASSUME ConfigInv, NEW p \in Procs, NEW q \in Processes, proc' = [proc EXCEPT ![p] = q],
         file' = file, said' = said, lost' = lost, cache' \in {"none", "known", "serves"},
         budget' \in [saves : Nat, starts : Nat, trouble : Nat],
         q.phase # "writing", proc[p].phase # "writing", ProcUsable(q, file, said),
         ~lost /\ Covers(file, said) /\ ProcKept(proc[p], said) => ProcKept(q, said)
  PROVE  ConfigInv'
<1>1. proc \in [Procs -> Processes] /\ ConfigTypes /\ Usable
  BY DEF ConfigInv, ConfigTypes
<1>2. /\ proc' \in [Procs -> Processes] /\ proc'[p] = q
      /\ \A x \in Procs \ {p} : proc'[x] = proc[x]
  BY <1>1
<1>3. ConfigTypes'
  BY <1>1, <1>2 DEF ConfigTypes
<1>4. Usable'
  BY <1>1, <1>2 DEF Usable, Known
<1>5. ASSUME ~lost PROVE SettingsKept'
  <2>1. SettingsKept
    BY <1>5 DEF ConfigInv
  <2>2. Writers' = Writers /\ p \notin Writers /\ Writers \subseteq Procs
    BY <1>2 DEF Writers
  <2>3. Writers' = {} => Covers(file', said')
    BY <2>1, <2>2 DEF SettingsKept
  <2>4. ASSUME NEW x \in Procs, Writers' \subseteq {x} PROVE ProcKept(proc'[x], said')
    BY <1>2, <1>5, <2>1, <2>2, <2>4 DEF SettingsKept
  <2> QED
    BY <2>3, <2>4 DEF SettingsKept
<1> QED
  BY <1>3, <1>4, <1>5 DEF ConfigInv

\* A process that is down, or loads, has nothing to keep.
LEMMA IdleKept ==
  ASSUME NEW q, NEW set, q.phase \in {"down", "loading"}
  PROVE  ProcKept(q, set)
BY DEF ProcKept, Saving

LEMMA DownUsable ==
  ASSUME NEW f, NEW set
  PROVE  /\ LiveUsable(Config!NoLive, set)
         /\ ProcUsable(Config!Down, f, set) /\ ProcKept(Config!Down, set)
<1>1. LiveUsable(Config!NoLive, set)
  BY ConfigsAre DEF LiveUsable, IsNew, Config!Default
<1>2. ProcUsable(Config!Down, f, set)
  BY <1>1, ConfigsAre, DownIs DEF ProcUsable
<1> QED
  BY <1>1, <1>2, DownIs, IdleKept

LEMMA ConfigStarts ==
  ASSUME Config!ConfigAssumption, Config!Init
  PROVE  ConfigInv
<1>1. /\ file \in Config!Config /\ ~file.torn /\ HasBase(file.models) /\ "disc" \notin DOMAIN file.models
  <2> DEFINE b == Config!BuiltIn
             o == Config!Same(DOMAIN Config!BuiltIn \cup {"old"}, "off")
  <2>1. b \in ModelMaps /\ DOMAIN b = {"base", "local"}
    BY MapsAre
  <2>2. o \in [{"base", "local", "old"} -> Config!Levels] /\ DOMAIN o = {"base", "local", "old"}
    BY <2>1 DEF Config!Same, Config!Levels
  <2>3. o \in ModelMaps
    BY <2>2 DEF ModelMaps, Config!Aliases
  <2>4. /\ Config!Created = [Config!Nothing EXCEPT !.active = Config!Default, !.models = b,
                             !.allow = {"find"}]
        /\ Config!Older = [Config!Nothing EXCEPT !.active = "old", !.models = o, !.allow = {"ls"}]
    BY DEF Config!Created, Config!Older
  <2> HIDE DEF b, o
  <2>5. HasBase(b) /\ HasBase(o) /\ "disc" \notin DOMAIN b /\ "disc" \notin DOMAIN o
    BY <2>1, <2>2 DEF HasBase, Config!Default
  <2>6. Config!Nothing = [active |-> "unset", models |-> Config!NoModels, allow |-> {},
                          permission |-> "unset", torn |-> FALSE]
    BY DEF Config!Nothing
  <2>7. /\ Config!Created = [active |-> Config!Default, models |-> b, allow |-> {"find"},
                             permission |-> "unset", torn |-> FALSE]
        /\ Config!Older = [active |-> "old", models |-> o, allow |-> {"ls"}, permission |-> "unset",
                           torn |-> FALSE]
    BY <2>4, <2>6
  <2>8. Config!Created \in Config!Config /\ Config!Older \in Config!Config
    BY <2>1, <2>3, <2>7 DEF Config!Config, ModelMaps, Config!Aliases, Config!Patterns, Config!Default
  <2>9. file \in {Config!Created, Config!Older}
    BY DEF Config!Init
  <2>10. /\ Config!Created.models = b /\ Config!Created.torn = FALSE
         /\ Config!Older.models = o /\ Config!Older.torn = FALSE
    BY <2>7
  <2>11. CASE file = Config!Created
    BY <2>5, <2>8, <2>10, <2>11
  <2>12. CASE file = Config!Older
    BY <2>5, <2>8, <2>10, <2>12
  <2> QED
    BY <2>9, <2>11, <2>12
<1>2. said = Config!Migrated(file) /\ lost = FALSE /\ cache = "none" /\ proc = [p \in Procs |-> Config!Down]
  BY DEF Config!Init
<1>3. /\ said \in Config!Config /\ IsNew(said) /\ ~said.torn
  BY <1>1, <1>2, MigratedIs
<1>4. budget \in [saves : Nat, starts : Nat, trouble : Nat]
  BY DEF Config!Init, Config!ConfigAssumption
<1>5. ConfigTypes
  BY <1>1, <1>2, <1>3, <1>4, DownIs DEF ConfigTypes
<1>6. Usable
  BY <1>1, <1>2, <1>3, DownUsable DEF Usable, Known
<1>7. SettingsKept
  BY <1>1, <1>2, DownUsable DEF Covers, SettingsKept
<1> QED
  BY <1>5, <1>6, <1>7 DEF ConfigInv

LEMMA ConfigInvIsEnough ==
  ASSUME ConfigInv
  PROVE  Config!TypeOK /\ Config!ConfigSafe
<1>1. ConfigTypes /\ Usable /\ proc \in [Procs -> Processes]
  BY DEF ConfigInv, ConfigTypes
<1>2. Config!TypeOK
  BY <1>1 DEF Config!TypeOK, ConfigTypes, Processes
<1>3. Config!SettingsKept
  BY <1>1, MigratedIs DEF ConfigInv, SettingsKept, Writers, ConfigTypes, Config!SettingsKept, Covers
<1>4. Config!ModelUsable
  BY <1>1 DEF Config!ModelUsable, Usable, ProcUsable, LiveUsable
<1> QED
  BY <1>2, <1>3, <1>4 DEF Config!ConfigSafe


-----------------------------------------------------------------------------
LEMMA ConfigStart ==
  ASSUME ConfigInv, NEW p \in Procs, Config!Start(p)
  PROVE  ConfigInv'
<1> DEFINE q == [Config!Down EXCEPT !.phase = "loading", !.next = "start"]
<1>1. ConfigTypes
  BY DEF ConfigInv
<1>2. /\ q \in Processes /\ q.phase = "loading" /\ q.next = "start" /\ q.live = Config!NoLive /\
           q.update = Config!Nothing
      /\ q.buffer = Config!Nothing
  BY DownIs DEF Processes, Config!Phases
<1>3. proc' = [proc EXCEPT ![p] = q] /\ file' = file /\ said' = said /\ lost' = lost /\ cache' = cache
  BY DEF Config!Start
<1> HIDE DEF q
<1>4. ProcUsable(q, file, said)
  BY <1>2, ConfigsAre, DownUsable DEF ProcUsable
<1>5. ProcKept(q, said)
  BY <1>2, IdleKept
<1>6. budget' \in [saves : Nat, starts : Nat, trouble : Nat] /\ proc[p].phase # "writing"
  BY <1>1 DEF Config!Start, ConfigTypes
<1>7. cache' \in {"none", "known", "serves"}
  BY <1>1, <1>3 DEF ConfigTypes
<1>8. q.phase # "writing"
  BY <1>2
<1> QED
  BY <1>2, <1>3, <1>4, <1>5, <1>6, <1>7, <1>8, ProcChanges

LEMMA ConfigMigrate ==
  ASSUME ConfigInv, NEW p \in Procs, Config!Migrate(p)
  PROVE  ConfigInv'
<1> DEFINE b == Config!Migrated(file)
           r == proc[p]
           q == [r EXCEPT !.phase = "emptying", !.buffer = b, !.late = FALSE]
<1>1. ConfigTypes /\ Usable /\ r \in Processes /\ ProcUsable(r, file, said) /\
        file \in Config!Config /\ said \in Config!Config
  BY DEF ConfigInv, ConfigTypes, Usable
<1>2. r.phase = "loading" /\ r.update = Config!Nothing /\ r.next # "ready" /\ ~file.torn
  BY <1>1 DEF Config!Migrate, ProcUsable
<1>3. b \in Config!Config /\ IsNew(b) /\ ~b.torn /\ HasBase(b.models) /\ ("disc" \in DOMAIN b.models =>
        "disc" \in DOMAIN said.models)
  BY <1>1, <1>2, MigratedIs DEF Usable, Known
<1>4. IsNew(said) /\ (Covers(file, said) => Covers(b, said)) /\ Config!Told(said, Config!Nothing) = said
  BY <1>1, MigrationCovers, ToldNothing DEF Usable
<1>5. proc' = [proc EXCEPT ![p] = q] /\ file' = file /\ said' = said /\ lost' = lost /\
        cache' = cache /\ budget' = budget
  BY DEF Config!Migrate
<1> HIDE DEF b, r
<1>6. /\ q \in Processes /\ q.phase = "emptying" /\ q.buffer = b /\ q.update = r.update /\ q.live = r.live
      /\ q.next = r.next
  BY <1>1, <1>3 DEF Processes, Config!Phases
<1> HIDE DEF q
<1>7. ProcUsable(q, file, said)
  BY <1>1, <1>2, <1>3, <1>6 DEF ProcUsable
<1>8. Covers(file, said) => ProcKept(q, said)
  BY <1>2, <1>4, <1>6 DEF ProcKept, Saving
<1>9. /\ budget' \in [saves : Nat, starts : Nat, trouble : Nat] /\ cache' \in {"none", "known", "serves"}
      /\ proc[p].phase # "writing" /\ q.phase # "writing"
  BY <1>1, <1>2, <1>5, <1>6 DEF ConfigTypes, r
<1> QED
  BY <1>5, <1>6, <1>7, <1>8, <1>9, ProcChanges

LEMMA ConfigLoad ==
  ASSUME ConfigInv, NEW p \in Procs, Config!Load(p)
  PROVE  ConfigInv'
<1> DEFINE r == proc[p]
           q == IF ~file.torn THEN [r EXCEPT !.phase = "ready", !.live = Config!Loaded(file),
                                    !.behind = FALSE]
                ELSE IF r.next = "reload" THEN [r EXCEPT !.phase = "ready"] ELSE Config!Down
<1>1. ConfigTypes /\ Usable /\ r \in Processes /\ ProcUsable(r, file, said) /\
        file \in Config!Config /\ said \in Config!Config
  BY DEF ConfigInv, ConfigTypes, Usable
<1>2. r.phase = "loading" /\ r.update = Config!Nothing /\ (file.torn \/ Config!Migrated(file) = file)
  BY <1>1 DEF Config!Load, ProcUsable
<1>3. IsNew(file)
  BY <1>1, <1>2, MigratedIs DEF Usable
<1>4. /\ Config!Loaded(file) \in Lives /\ LiveUsable(Config!Loaded(file), said) /\
           Config!Loaded(file).allow = file.allow
      /\ \A a \in DOMAIN file.models : a \in DOMAIN Config!Loaded(file).models /\
           Config!Loaded(file).models[a] = file.models[a]
  BY <1>1, <1>3, LoadedIs DEF Usable
<1>5. proc' = [proc EXCEPT ![p] = q] /\ file' = file /\ said' = said /\ lost' = lost /\
        cache' = cache /\ budget' = budget
  BY DEF Config!Load
<1>6. q \in Processes /\ q.phase # "writing" /\ ProcUsable(q, file, said) /\ (Covers(file, said) =>
        ProcKept(q, said))
  <2>1. CASE ~file.torn
    <3> DEFINE l == Config!Loaded(file)
    <3>1. q = [r EXCEPT !.phase = "ready", !.live = l, !.behind = FALSE]
      BY <2>1
    <3> HIDE DEF l, r, q
    <3>2. /\ q \in Processes /\ q.phase = "ready" /\ q.buffer = r.buffer /\ q.update = r.update /\
               q.live = l
          /\ q.next = r.next
      BY <1>1, <1>4, <3>1 DEF Processes, Config!Phases, l
    <3>3. ProcUsable(q, file, said)
      BY <1>1, <1>2, <1>3, <1>4, <3>2 DEF ProcUsable, l
    <3>4. ASSUME Covers(file, said) PROVE LiveCovers(l, said)
      BY <1>2, <1>4, <2>1, <3>4 DEF Covers, LiveCovers, l
    <3>5. Covers(file, said) => ProcKept(q, said)
      BY <3>2, <3>4 DEF ProcKept, Saving
    <3> QED
      BY <3>2, <3>3, <3>5
  <2>2. CASE file.torn /\ r.next = "reload"
    <3>1. q = [r EXCEPT !.phase = "ready"]
      BY <2>2
    <3> HIDE DEF r, q
    <3>2. /\ q \in Processes /\ q.phase = "ready" /\ q.buffer = r.buffer /\ q.update = r.update /\
               q.live = r.live
          /\ q.next = r.next
      BY <1>1, <3>1 DEF Processes, Config!Phases
    <3>3. ProcUsable(q, file, said)
      BY <1>1, <1>2, <1>3, <3>2 DEF ProcUsable
    <3>4. ~Covers(file, said)
      BY <2>2 DEF Covers
    <3> QED
      BY <3>2, <3>3, <3>4
  <2>3. CASE file.torn /\ r.next # "reload"
    BY <2>3, DownIs, DownUsable
  <2> QED
    BY <2>1, <2>2, <2>3
<1> HIDE DEF q
<1>9. /\ budget' \in [saves : Nat, starts : Nat, trouble : Nat] /\ cache' \in {"none", "known", "serves"}
      /\ proc[p].phase # "writing"
  BY <1>1, <1>2, <1>5 DEF ConfigTypes, r
<1> QED
  BY <1>5, <1>6, <1>9, ProcChanges

\* A process that goes away without having written.
LEMMA GoesDown ==
  ASSUME ConfigInv, NEW p \in Procs, proc' = [proc EXCEPT ![p] = Config!Down], proc[p].phase # "writing",
         file' = file, said' = said, lost' = lost, cache' = cache, budget' \in [saves : Nat,
           starts : Nat, trouble : Nat]
  PROVE  ConfigInv'
<1>1. cache' \in {"none", "known", "serves"}
  BY DEF ConfigInv, ConfigTypes
<1>2. Config!Down \in Processes /\ Config!Down.phase # "writing" /\
        ProcUsable(Config!Down, file, said) /\ ProcKept(Config!Down, said)
  BY DownIs, DownUsable
<1> QED
  BY <1>1, <1>2, ProcChanges

LEMMA ConfigExit ==
  ASSUME ConfigInv, NEW p \in Procs, Config!Exit(p)
  PROVE  ConfigInv'
<1>1. /\ proc' = [proc EXCEPT ![p] = Config!Down] /\ proc[p].phase # "writing"
      /\ file' = file /\ said' = said /\ lost' = lost /\ cache' = cache /\ budget' = budget
  BY DEF Config!Exit
<1>2. budget' \in [saves : Nat, starts : Nat, trouble : Nat]
  BY <1>1 DEF ConfigInv, ConfigTypes
<1> QED
  BY <1>1, <1>2, GoesDown

LEMMA ConfigRefresh ==
  ASSUME ConfigInv, NEW p \in Procs, NEW found \in {"known", "serves"}, Config!RefreshModels(p, found)
  PROVE  ConfigInv'
<1> DEFINE r == proc[p]
           q == [r EXCEPT !.phase = "loading", !.next = "reload"]
<1>1. ConfigTypes /\ r \in Processes /\ ProcUsable(r, file, said)
  BY DEF ConfigInv, ConfigTypes, Usable
<1>2. r.phase = "ready" /\ r.update = Config!Nothing
  BY <1>1 DEF Config!RefreshModels, ProcUsable
<1>3. /\ proc' = [proc EXCEPT ![p] = q] /\ file' = file /\ said' = said /\ lost' = lost /\ cache' = found
      /\ budget' = [budget EXCEPT !.saves = @ - 1] /\ budget.saves > 0
  BY DEF Config!RefreshModels
<1> HIDE DEF r
<1>4. /\ q \in Processes /\ q.phase = "loading" /\ q.buffer = r.buffer /\ q.update = r.update /\
           q.live = r.live
      /\ q.next = "reload"
  BY <1>1 DEF Processes, Config!Phases
<1> HIDE DEF q
<1>5. ProcUsable(q, file, said)
  BY <1>1, <1>2, <1>4 DEF ProcUsable
<1>6. ProcKept(q, said)
  BY <1>4, IdleKept
<1>7. budget' \in [saves : Nat, starts : Nat, trouble : Nat]
  BY <1>1, <1>3 DEF ConfigTypes
<1>8. cache' \in {"none", "known", "serves"} /\ proc[p].phase # "writing" /\ q.phase # "writing"
  BY <1>2, <1>3, <1>4 DEF r
<1> QED
  BY <1>3, <1>4, <1>5, <1>6, <1>7, <1>8, ProcChanges

LEMMA ConfigCacheGoes ==
  ASSUME ConfigInv, Config!CacheGoes
  PROVE  ConfigInv'
<1>1. /\ proc' = proc /\ file' = file /\ said' = said /\ lost' = lost /\ cache' = "none"
      /\ budget' = [budget EXCEPT !.trouble = @ - 1] /\ budget.trouble > 0
  BY DEF Config!CacheGoes
<1>2. ConfigTypes'
  BY <1>1 DEF ConfigInv, ConfigTypes
<1>3. Usable'
  BY <1>1 DEF ConfigInv, Usable, Known
<1>4. ~lost => SettingsKept'
  BY <1>1 DEF ConfigInv, SettingsKept, Writers
<1> QED
  BY <1>1, <1>2, <1>3, <1>4 DEF ConfigInv


-----------------------------------------------------------------------------
\* A change of the settings, by what it has to be.
LEMMA ConfigSaves ==
  ASSUME ConfigInv, NEW p \in Procs, NEW update \in Config!Config, NEW live \in Lives,
           NEW coming \in {"ready", "reload"},
         HasBase(update.models), IsNew(update), LiveUsable(live, said),
         proc[p].phase = "ready" /\ ~proc[p].behind /\ LiveCovers(proc[p].live, said) /\
           Covers(file, said) =>
           /\ update.allow = {} \/ said.allow \subseteq update.allow
           /\ update.models = Config!NoModels \/ DOMAIN said.models \subseteq DOMAIN update.models,
         coming = "ready" =>
           /\ update.models = Config!NoModels /\ update.allow \subseteq live.allow
           /\ proc[p].live.allow \subseteq live.allow /\ live.models = proc[p].live.models,
         Config!SaveUpdates(p, update, live, coming)
  PROVE  ConfigInv'
<1> DEFINE r == proc[p]
           b == Config!Merge(file, update)
           late == r.behind /\ (update.allow # {} \/ update.models # Config!NoModels)
           q == [r EXCEPT !.phase = "emptying", !.update = update, !.live = live, !.next = coming,
                          !.buffer = b, !.late = late]
<1>1. ConfigTypes /\ Usable /\ r \in Processes /\ ProcUsable(r, file, said) /\
        file \in Config!Config /\ said \in Config!Config
  BY DEF ConfigInv, ConfigTypes, Usable
<1>2. r.phase = "ready" /\ r.update = Config!Nothing /\ IsNew(file)
  BY <1>1 DEF Config!SaveUpdates, ProcUsable
<1>3. /\ file' = file /\ said' = said /\ lost' = lost /\ cache' = cache
      /\ budget' = [budget EXCEPT !.saves = @ - 1] /\ budget.saves > 0
  BY DEF Config!SaveUpdates
<1>4. /\ budget' \in [saves : Nat, starts : Nat, trouble : Nat] /\ cache' \in {"none", "known", "serves"}
      /\ proc[p].phase # "writing"
  BY <1>1, <1>2, <1>3 DEF ConfigTypes
<1>5. CASE file.torn
  BY <1>3, <1>4, <1>5, GoesDown DEF Config!SaveUpdates
<1>6. CASE ~file.torn
  <2>1. proc' = [proc EXCEPT ![p] = q]
    BY <1>6 DEF Config!SaveUpdates
  <2>2. /\ b \in Config!Config /\ b.torn = file.torn /\ HasBase(b.models) /\ IsNew(b)
        /\ ("disc" \in DOMAIN b.models => "disc" \in DOMAIN file.models \cup DOMAIN update.models)
    BY <1>1, <1>2, MergeIs DEF Usable
  <2>3. late \in BOOLEAN /\ r.behind \in BOOLEAN
    BY <1>1 DEF Processes
  <2>4. late = (r.behind /\ (update.allow # {} \/ update.models # Config!NoModels))
    OBVIOUS
  <2>5. r = proc[p] /\ b = Config!Merge(file, update)
    OBVIOUS
  <2> HIDE DEF r, b, late
  <2>6. /\ q \in Processes /\ q.phase = "emptying" /\ q.update = update /\ q.live = live /\ q.next = coming
        /\ q.buffer = b /\ q.late = late /\ q.behind = r.behind
    BY <1>1, <2>2, <2>3 DEF Processes, Config!Phases
  <2> HIDE DEF q
  <2>7. ProcUsable(q, file, said)
    BY <1>1, <1>6, <2>2, <2>6 DEF Usable, Known, ProcUsable
  <2>8. ASSUME Covers(file, said), ProcKept(r, said)
        PROVE  ProcKept(q, said)
    <3>1. ~r.behind => LiveCovers(r.live, said)
      BY <1>2, <2>8 DEF ProcKept
    <3>2. ASSUME ~late PROVE Covers(b, Config!Told(said, update))
      BY <1>1, <1>2, <2>4, <2>5, <2>8, <3>1, <3>2, MergeCovers
    <3>3. ASSUME coming = "ready", ~r.behind PROVE LiveCovers(live, Config!Told(said, update))
      BY <1>1, <2>5, <3>1, <3>3, MapsAre, ToldIs DEF LiveCovers
    <3> QED
      BY <2>6, <3>2, <3>3 DEF ProcKept, Saving
  <2> QED
    BY <1>3, <1>4, <2>1, <2>5, <2>6, <2>7, <2>8, ProcChanges
<1> QED
  BY <1>5, <1>6

\* What a process that can take a change of the settings knows.
LEMMA ReadyIs ==
  ASSUME ConfigInv, NEW p \in Procs, proc[p].phase = "ready"
  PROVE  /\ proc[p].live \in Lives /\ LiveUsable(proc[p].live, said) /\ IsNew(file) /\
              file \in Config!Config
         /\ HasBase(file.models) /\ said \in Config!Config
<1>1. ConfigTypes /\ Usable /\ proc[p] \in Processes /\ ProcUsable(proc[p], file, said)
  BY DEF ConfigInv, ConfigTypes, Usable
<1> QED
  BY <1>1 DEF ConfigTypes, Usable, ProcUsable, Processes

LEMMA ConfigSelect ==
  ASSUME ConfigInv, NEW p \in Procs, NEW a \in Config!Aliases, Config!Select(p, a)
  PROVE  ConfigInv'
<1> DEFINE u == [Config!Nothing EXCEPT !.active = a]
           live == proc[p].live
<1>1. proc[p].phase = "ready" /\ a \in DOMAIN live.models /\ Config!SaveUpdates(p, u, live, "reload")
  BY DEF Config!Select, Config!SaveUpdates
<1>2. live \in Lives /\ LiveUsable(live, said) /\ a # "old"
  BY <1>1, ReadyIs DEF LiveUsable, IsNew
<1>3. /\ u \in Config!Config /\ u.active = a /\ u.models = Config!NoModels /\ u.allow = {}
  BY ConfigsAre DEF Config!Config
<1> HIDE DEF u, live
<1>4. HasBase(u.models) /\ IsNew(u)
  BY <1>2, <1>3, MapsAre DEF HasBase, IsNew
<1> QED
  BY <1>1, <1>2, <1>3, <1>4, ConfigSaves

LEMMA ConfigAllow ==
  ASSUME ConfigInv, NEW p \in Procs, NEW pattern \in Config!Patterns, Config!Allow(p, pattern)
  PROVE  ConfigInv'
<1> DEFINE live == proc[p].live
           wider == live.allow \cup {pattern}
           u == [Config!Nothing EXCEPT !.allow = wider]
           mine == [live EXCEPT !.allow = wider]
<1>1. proc[p].phase = "ready" /\ Config!SaveUpdates(p, u, mine, "ready")
  BY DEF Config!Allow, Config!SaveUpdates
<1>2. live \in Lives /\ LiveUsable(live, said) /\ live = proc[p].live
  BY <1>1, ReadyIs
<1>3. wider \in SUBSET Config!Patterns /\ live.allow \subseteq wider
  BY <1>2 DEF Lives
<1> HIDE DEF live
<1> HIDE DEF wider
<1>4. /\ u \in Config!Config /\ u.active = "unset" /\ u.models = Config!NoModels /\ u.allow = wider
  BY <1>3, ConfigsAre DEF Config!Config
<1>5. /\ mine \in Lives /\ mine.active = live.active /\ mine.models = live.models /\ mine.allow = wider
      /\ mine.provided = live.provided
  BY <1>2, <1>3 DEF Lives
<1> HIDE DEF u, mine
<1>6. HasBase(u.models) /\ IsNew(u)
  BY <1>4, MapsAre DEF HasBase, IsNew
<1>7. LiveUsable(mine, said)
  BY <1>2, <1>5 DEF LiveUsable, IsNew
<1>8. LiveCovers(live, said) => said.allow \subseteq u.allow
  BY <1>3, <1>4 DEF LiveCovers
<1> QED
  BY <1>1, <1>2, <1>3, <1>4, <1>5, <1>6, <1>7, <1>8, ConfigSaves

LEMMA ConfigPermission ==
  ASSUME ConfigInv, NEW p \in Procs, Config!SetPermission(p)
  PROVE  ConfigInv'
<1> DEFINE u == [Config!Nothing EXCEPT !.permission = "always"]
           live == proc[p].live
<1>1. proc[p].phase = "ready" /\ Config!SaveUpdates(p, u, live, "ready")
  BY DEF Config!SetPermission, Config!SaveUpdates
<1>2. live \in Lives /\ LiveUsable(live, said) /\ live = proc[p].live
  BY <1>1, ReadyIs
<1>3. /\ u \in Config!Config /\ u.active = "unset" /\ u.models = Config!NoModels /\ u.allow = {}
  BY ConfigsAre DEF Config!Config
<1> HIDE DEF u, live
<1>4. HasBase(u.models) /\ IsNew(u)
  BY <1>3, MapsAre DEF HasBase, IsNew
<1> QED
  BY <1>1, <1>2, <1>3, <1>4, ConfigSaves

LEMMA ConfigThinking ==
  ASSUME ConfigInv, NEW p \in Procs, NEW level \in Config!Levels, Config!SetThinking(p, level)
  PROVE  ConfigInv'
<1> DEFINE live == proc[p].live
           a == live.active
           ms == live.models
           moved == [ms EXCEPT ![a] = level]
           stored == file.models
           kept == [stored EXCEPT ![a] = level]
           mine == [live EXCEPT !.models[live.active] = level]
           models == IF a \in DOMAIN stored THEN kept ELSE mine.models
           u == [Config!Nothing EXCEPT !.models = models]
<1>1. proc[p].phase = "ready" /\ a \in DOMAIN ms /\ Config!SaveUpdates(p, u, mine, "reload")
  BY DEF Config!SetThinking, Config!SaveUpdates
<1>2. /\ live \in Lives /\ LiveUsable(live, said) /\ live = proc[p].live /\ IsNew(file) /\
           file \in Config!Config
      /\ HasBase(file.models) /\ said \in Config!Config /\ stored = file.models
  BY <1>1, ReadyIs
<1>3. ms \in ModelMaps /\ stored \in ModelMaps /\ ms = live.models /\ a = live.active
  BY <1>2, FieldsOf DEF Lives
<1> HIDE DEF live
<1>4. mine = [live EXCEPT !.models = moved]
  BY <1>2 DEF Lives
<1> HIDE DEF ms, stored, a
<1>5. moved \in ModelMaps /\ DOMAIN moved = DOMAIN ms /\ kept \in ModelMaps /\ DOMAIN kept = DOMAIN stored
  BY <1>3 DEF ModelMaps
<1> HIDE DEF moved, kept
<1>6. /\ mine \in Lives /\ mine.active = live.active /\ mine.models = moved /\ mine.allow = live.allow
      /\ mine.provided = live.provided
  BY <1>2, <1>4, <1>5 DEF Lives
<1> HIDE DEF mine
<1>7. LiveUsable(mine, said)
  BY <1>2, <1>3, <1>5, <1>6 DEF LiveUsable, IsNew
<1>8. models \in ModelMaps /\ HasBase(models) /\ "old" \notin DOMAIN models
  <2>1. CASE a \in DOMAIN stored
    BY <1>2, <1>5, <2>1, MapsAre DEF HasBase, IsNew
  <2>2. CASE a \notin DOMAIN stored
    BY <1>2, <1>3, <1>5, <1>6, <2>2 DEF LiveUsable, IsNew, HasBase
  <2> QED
    BY <2>1, <2>2
<1>9. ASSUME LiveCovers(live, said), Covers(file, said)
      PROVE  DOMAIN said.models \subseteq DOMAIN models
  BY <1>2, <1>3, <1>5, <1>6, <1>9, MigratedIs DEF Covers, LiveCovers
<1> HIDE DEF models
<1>10. /\ u \in Config!Config /\ u.active = "unset" /\ u.models = models /\ u.allow = {}
  BY <1>8, ConfigsAre DEF Config!Config, ModelMaps
<1> HIDE DEF u
<1>11. HasBase(u.models) /\ IsNew(u)
  BY <1>8, <1>10 DEF IsNew
<1>12. mine \in Lives /\ Config!SaveUpdates(p, u, mine, "reload")
  BY <1>1, <1>6
<1>13. LiveCovers(proc[p].live, said) /\ Covers(file, said) => DOMAIN said.models \subseteq DOMAIN u.models
  BY <1>2, <1>9, <1>10
<1> QED
  BY <1>7, <1>10, <1>11, <1>12, <1>13, ConfigSaves


-----------------------------------------------------------------------------
\* What a process may use depends on the file and on what was set, which only grows.
LEMMA StaysUsable ==
  ASSUME NEW q, NEW f, NEW set, NEW g, NEW more, ProcUsable(q, f, set), IsNew(g),
         DOMAIN set.models \subseteq DOMAIN more.models
  PROVE  ProcUsable(q, g, more)
BY DEF ProcUsable, LiveUsable

LEMMA ConfigOpen ==
  ASSUME ConfigInv, NEW p \in Procs, Config!Open(p)
  PROVE  ConfigInv'
<1> DEFINE r == proc[p]
           q == [r EXCEPT !.phase = "writing"]
<1>1. /\ ConfigTypes /\ Usable /\ r \in Processes /\ ProcUsable(r, file, said) /\
           file \in Config!Config /\ said \in Config!Config
      /\ proc \in [Procs -> Processes]
  BY DEF ConfigInv, ConfigTypes, Usable
<1>2. /\ r.phase = "emptying" /\ proc' = [proc EXCEPT ![p] = q] /\ file' = Config!Nothing /\
           said' = said /\ lost' = lost
      /\ cache' = cache /\ budget' = budget
  BY DEF Config!Open
<1>3. r = proc[p]
  OBVIOUS
<1> HIDE DEF r
<1>4. /\ q \in Processes /\ q.phase = "writing" /\ q.update = r.update /\ q.live = r.live /\ q.next = r.next
      /\ q.buffer = r.buffer /\ q.late = r.late /\ q.behind = r.behind
  BY <1>1 DEF Processes, Config!Phases
<1> HIDE DEF q
<1>5. /\ proc' \in [Procs -> Processes] /\ proc'[p] = q /\ \A x \in Procs \ {p} : proc'[x] = proc[x]
  BY <1>1, <1>2, <1>4
<1>6. ConfigTypes'
  BY <1>1, <1>2, <1>5, ConfigsAre DEF ConfigTypes
<1>7. IsNew(file') /\ HasBase(file'.models) /\ Known(file'.models, said') /\ ~file'.torn
  BY <1>2, ConfigsAre DEF Known
<1>8. ProcUsable(q, file, said)
  BY <1>1, <1>2, <1>4 DEF ProcUsable
<1>9. ASSUME NEW x \in Procs PROVE ProcUsable(proc'[x], file', said')
  BY <1>1, <1>2, <1>5, <1>7, <1>8, StaysUsable DEF Usable
<1>10. Usable'
  BY <1>1, <1>2, <1>7, <1>9 DEF Usable
<1>11. ASSUME ~lost PROVE SettingsKept'
  <2>1. SettingsKept
    BY <1>11 DEF ConfigInv
  <2>2. Writers' = Writers \cup {p}
    BY <1>4, <1>5 DEF Writers
  <2>3. ASSUME NEW x \in Procs, Writers' \subseteq {x} PROVE ProcKept(proc'[x], said')
    <3>1. x = p /\ Writers \subseteq {p}
      BY <2>2, <2>3
    <3>2. ProcKept(r, said)
      BY <1>3, <2>1, <3>1 DEF SettingsKept
    <3>3. ProcKept(q, said)
      BY <1>2, <1>4, <3>2 DEF ProcKept, Saving
    <3> QED
      BY <1>2, <1>5, <3>1, <3>3
  <2>4. Writers' # {}
    BY <2>2
  <2> QED
    BY <2>3, <2>4 DEF SettingsKept
<1> QED
  BY <1>2, <1>6, <1>10, <1>11 DEF ConfigInv

LEMMA ConfigWrite ==
  ASSUME ConfigInv, NEW p \in Procs, Config!Write(p)
  PROVE  ConfigInv'
<1> DEFINE r == proc[p]
           q == [r EXCEPT !.phase = IF r.next = "ready" THEN "ready" ELSE "loading",
                          !.update = Config!Nothing, !.buffer = Config!Nothing, !.late = FALSE]
           other(x) == [proc[x] EXCEPT !.behind = TRUE, !.late = @ \/
                        proc[x].phase \in {"emptying", "writing"}]
           after == Config!Told(said, r.update)
<1>1. /\ ConfigTypes /\ Usable /\ r \in Processes /\ ProcUsable(r, file, said) /\
           file \in Config!Config /\ said \in Config!Config
      /\ proc \in [Procs -> Processes] /\ lost \in BOOLEAN
  BY DEF ConfigInv, ConfigTypes, Usable
<1>2. /\ r.phase = "writing" /\ file' = r.buffer /\ lost' = (lost \/ r.late) /\ said' = after
      /\ cache' = cache /\ budget' = budget
      /\ proc' = [x \in Procs |-> IF x = p THEN q ELSE IF proc[x].phase = "down" THEN Config!Down ELSE other(x)]
  BY DEF Config!Write
<1>3. r = proc[p] /\ after = Config!Told(said, r.update)
  OBVIOUS
<1>4. r.update \in Config!Config /\ r.buffer \in Config!Config /\ r.late \in BOOLEAN /\ IsNew(said) /\
        IsNew(r.update)
  BY <1>1 DEF Processes, Usable, ProcUsable
<1>5. /\ after \in Config!Config /\ after.torn = said.torn /\ IsNew(after)
      /\ DOMAIN after.models = DOMAIN r.update.models \cup DOMAIN said.models
  <2> HIDE DEF r
  <2> QED
    BY <1>1, <1>4, ToldIs
<1> HIDE DEF after
<1> HIDE DEF r
<1>6. /\ q \in Processes /\ q.phase = (IF r.next = "ready" THEN "ready" ELSE "loading") /\
           q.update = Config!Nothing /\ q.live = r.live
      /\ q.next = r.next /\ q.buffer = Config!Nothing /\ q.behind = r.behind
  BY <1>1, ConfigsAre DEF Processes, Config!Phases
<1> HIDE DEF q
<1>7. ASSUME NEW x \in Procs
      PROVE  /\ other(x) \in Processes /\ other(x).behind = TRUE /\ other(x).phase = proc[x].phase
             /\ other(x).late = (proc[x].late \/ Saving(proc[x])) /\ other(x).live = proc[x].live
             /\ other(x).update = proc[x].update /\ other(x).buffer = proc[x].buffer /\
                  other(x).next = proc[x].next
  <2> DEFINE o == proc[x]
             late == o.late \/ o.phase \in {"emptying", "writing"}
  <2>1. o \in Processes /\ late \in BOOLEAN /\ late = (o.late \/ Saving(o))
    BY <1>1 DEF Processes, Saving
  <2>2. other(x) = [o EXCEPT !.behind = TRUE, !.late = late]
    BY <2>1 DEF Processes
  <2> HIDE DEF o, late
  <2>3. /\ other(x) \in Processes /\ other(x).behind = TRUE /\ other(x).phase = o.phase
        /\ other(x).late = late /\ other(x).live = o.live
        /\ other(x).update = o.update /\ other(x).buffer = o.buffer /\ other(x).next = o.next
    BY <2>1, <2>2 DEF Processes
  <2> QED
    BY <2>1, <2>3 DEF o
<1> HIDE DEF other
<1>8. /\ proc'[p] = q
      /\ \A x \in Procs \ {p} : proc'[x] = IF proc[x].phase = "down" THEN Config!Down ELSE other(x)
  BY <1>2
<1>9. proc' \in [Procs -> Processes]
  BY <1>2, <1>6, <1>7, DownIs
<1>10. ConfigTypes'
  BY <1>1, <1>2, <1>4, <1>5, <1>9 DEF ConfigTypes
<1>11. /\ IsNew(r.buffer) /\ HasBase(r.buffer.models) /\ ~r.buffer.torn /\ Known(r.buffer.models, after)
       /\ LiveUsable(r.live, said) /\ DOMAIN said.models \subseteq DOMAIN after.models
  BY <1>1, <1>5 DEF ProcUsable, Known
<1>12. ProcUsable(q, r.buffer, after)
  BY <1>6, <1>11, ConfigsAre DEF LiveUsable, ProcUsable
<1>13. ASSUME NEW x \in Procs \ {p} PROVE ProcUsable(proc'[x], r.buffer, after)
  <2>1. CASE proc[x].phase = "down"
    BY <1>8, <2>1, DownUsable
  <2>2. CASE proc[x].phase # "down"
    <3>1. ProcUsable(proc[x], file, said)
      BY <1>1 DEF Usable
    <3> DEFINE o == proc[x]
               n == other(x)
    <3>2. /\ n.phase = o.phase /\ n.live = o.live /\ n.update = o.update /\ n.buffer = o.buffer /\
               n.next = o.next
      BY <1>7
    <3>3. ProcUsable(o, file, said) /\ proc'[x] = n
      BY <1>8, <2>2, <3>1
    <3> HIDE DEF o, n
    <3>4. ProcUsable(n, file, said)
      BY <3>2, <3>3 DEF ProcUsable
    <3>5. ProcUsable(n, r.buffer, after)
      BY <1>11, <3>4, StaysUsable
    <3> QED
      BY <3>3, <3>5
  <2> QED
    BY <2>1, <2>2
<1>14. Usable'
  BY <1>1, <1>2, <1>5, <1>8, <1>11, <1>12, <1>13 DEF Usable
<1>15. ASSUME ~lost' PROVE SettingsKept'
  <2>1. SettingsKept /\ ~r.late
    BY <1>2, <1>15 DEF ConfigInv
  <2>2. Writers' = Writers \ {p} /\ p \in Writers
    BY <1>2, <1>3, <1>6, <1>7, <1>8, DownIs DEF Writers
  <2>3. ASSUME Writers' = {}
        PROVE  Covers(r.buffer, after) /\ (r.next = "ready" /\ ~r.behind => LiveCovers(r.live, after))
    BY <1>2, <1>3, <2>1, <2>2, <2>3 DEF SettingsKept, ProcKept, Saving
  <2>4. Writers' = {} => Covers(file', said')
    BY <1>2, <2>3
  <2>5. ASSUME NEW x \in Procs, Writers' \subseteq {x} PROVE ProcKept(proc'[x], said')
    <3>1. CASE x = p
      BY <1>2, <1>6, <1>8, <2>2, <2>3, <2>5, <3>1 DEF ProcKept, Saving
    <3>2. CASE x # p /\ proc[x].phase = "down"
      BY <1>8, <3>2, DownUsable
    <3>3. CASE x # p /\ proc[x].phase # "down"
      <4> DEFINE n == other(x)
      <4>1. proc'[x] = n
        BY <1>8, <3>3
      <4>2. n.behind = TRUE /\ n.late = (proc[x].late \/ Saving(proc[x])) /\ n.phase = proc[x].phase
        BY <1>7
      <4> HIDE DEF n
      <4>3. Saving(n) => n.late
        BY <4>2 DEF Saving
      <4>4. ProcKept(n, after)
        BY <4>2, <4>3 DEF ProcKept
      <4> QED
        BY <1>2, <4>1, <4>4
    <3> QED
      BY <3>1, <3>2, <3>3
  <2> QED
    BY <2>4, <2>5 DEF SettingsKept
<1> QED
  BY <1>10, <1>14, <1>15 DEF ConfigInv

LEMMA ConfigCrash ==
  ASSUME ConfigInv, NEW p \in Procs, Config!Crash(p)
  PROVE  ConfigInv'
<1>1. /\ ConfigTypes /\ Usable /\ file \in Config!Config /\ said \in Config!Config /\
           proc \in [Procs -> Processes]
  BY DEF ConfigInv, ConfigTypes
<1>2. /\ proc' = [proc EXCEPT ![p] = Config!Down] /\ said' = said /\ cache' = cache
      /\ budget' = [budget EXCEPT !.trouble = @ - 1] /\ budget.trouble > 0
  BY DEF Config!Crash
<1>3. budget' \in [saves : Nat, starts : Nat, trouble : Nat]
  BY <1>1, <1>2 DEF ConfigTypes
<1>4. CASE proc[p].phase # "writing"
  BY <1>2, <1>3, <1>4, GoesDown DEF Config!Crash
<1>5. CASE proc[p].phase = "writing"
  <2>1. PICK torn \in BOOLEAN : file' = [Config!Nothing EXCEPT !.torn = torn] /\ lost' = TRUE
    BY <1>5 DEF Config!Crash
  <2> DEFINE f == [Config!Nothing EXCEPT !.torn = torn]
  <2>2. f \in Config!Config /\ f.active = "unset" /\ f.models = Config!NoModels
    BY ConfigsAre DEF Config!Config
  <2> HIDE DEF f
  <2>3. IsNew(f) /\ HasBase(f.models) /\ Known(f.models, said)
    BY <2>2, MapsAre DEF IsNew, HasBase, Known
  <2>4. file' = f
    BY <2>1 DEF f
  <2>5. /\ proc' \in [Procs -> Processes] /\ proc'[p] = Config!Down /\
             \A x \in Procs \ {p} : proc'[x] = proc[x]
    BY <1>1, <1>2, DownIs
  <2>6. ConfigTypes'
    BY <1>1, <1>2, <1>3, <2>1, <2>2, <2>4, <2>5 DEF ConfigTypes
  <2>7. ASSUME NEW x \in Procs PROVE ProcUsable(proc'[x], f, said)
    <3>1. CASE x = p
      BY <2>5, <3>1, DownUsable
    <3>2. CASE x # p
      BY <1>1, <2>3, <2>5, <3>2, StaysUsable DEF Usable
    <3> QED
      BY <3>1, <3>2
  <2>8. Usable'
    BY <1>1, <1>2, <2>3, <2>4, <2>7 DEF Usable
  <2> QED
    BY <2>1, <2>6, <2>8 DEF ConfigInv
<1> QED
  BY <1>4, <1>5

LEMMA ConfigStep ==
  ASSUME ConfigInv, [Config!ConfigNext]_Config!configVars
  PROVE  ConfigInv'
<1>1. CASE UNCHANGED Config!configVars
  BY <1>1 DEF Config!configVars, ConfigInv, ConfigTypes, Usable, SettingsKept, Writers
<1>2. CASE Config!CacheGoes
  BY <1>2, ConfigCacheGoes
<1>3. ASSUME NEW p \in Procs,
             \/ Config!Start(p) \/ Config!Migrate(p) \/ Config!Load(p)
             \/ \E a \in Config!Aliases : Config!Select(p, a)
             \/ \E level \in Config!Levels : Config!SetThinking(p, level)
             \/ \E pattern \in Config!Patterns : Config!Allow(p, pattern)
             \/ Config!SetPermission(p) \/ Config!Open(p) \/ Config!Write(p)
             \/ \E found \in {"known", "serves"} : Config!RefreshModels(p, found)
             \/ Config!Exit(p) \/ Config!Crash(p)
      PROVE  ConfigInv'
  BY <1>3, ConfigStart, ConfigMigrate, ConfigLoad, ConfigSelect, ConfigThinking, ConfigAllow, ConfigPermission,
     ConfigOpen, ConfigWrite, ConfigRefresh, ConfigExit, ConfigCrash
<1> QED
  BY <1>1, <1>2, <1>3 DEF Config!ConfigNext

-----------------------------------------------------------------------------
(* Sessions that are saved. SessionsInv: the count of a directory is that  *)
(* of its lines, whoever writes last, and, unless a rename and a save      *)
(* overlapped, the name that the user was told is kept.                    *)

TitleSources == {"auto", "manual"}
Given == Names \cup {"none"}
Totals == Nat \cup {Session!NoMeta}

SessionTypes ==
  /\ disk \in [Session!Sessions -> [lines : Seq(Session!Messages), total : Totals,
                                    title : Session!Titles, source : TitleSources, place : Places]]
  /\ liveSession \in [dir : Session!Sessions, messages : Seq(Session!Messages), title : Session!Titles,
                      source : TitleSources, place : Places]
  /\ savingSession \in [step : {"idle", "append", "meta"}, dir : Session!Sessions, old : Nat,
                        said : Seq(Session!Messages),
               title : Session!Titles, source : TitleSources]
  /\ renaming \in [Renames -> [step : {"idle", "writing"}, dir : Session!Sessions, name : Given,
                               total : Totals, live : BOOLEAN]]
  /\ begun \in Session!Sessions /\ toldName \in [Session!Sessions -> Given]
  /\ raced \subseteq Session!Sessions /\ cutSave \subseteq Session!Sessions

\* Nothing is known of a session that was not begun, and what is saved is the one in memory.
Unbegun ==
  /\ liveSession.dir <= begun /\ (savingSession.step # "idle" => savingSession.dir = liveSession.dir)
  /\ \A d \in Session!Sessions : d > begun => ~Session!Saved(d) /\ disk[d].lines = <<>> /\
       toldName[d] = "none"

\* Metadata count no more than there is: those that are there, those that a rename has read, and
\* those that a save is about to write.
LinesCounted ==
  /\ \A d \in Session!Sessions : disk[d].total <= Len(disk[d].lines)
  /\ \A r \in Renames : renaming[r].step = "writing" =>
       Session!Saved(renaming[r].dir) /\ renaming[r].total \in 0..Len(disk[renaming[r].dir].lines) /\
         renaming[r].name # "none"
  /\ savingSession.step = "append" => savingSession.old <= Len(disk[savingSession.dir].lines)
  /\ savingSession.step = "meta" => Len(savingSession.said) <= Len(disk[savingSession.dir].lines)

\* A rename that nothing else met: its session is not being saved, by no other rename either, it knows
\* whether it is the one in memory, and the count that it has read is still there.
AloneIn(r) ==
  LET q == renaming[r] IN
  q.step = "writing" /\ q.dir \notin raced =>
    /\ ~Session!Saving(q.dir) /\ (liveSession.dir = q.dir => q.live) /\ q.total = disk[q.dir].total
    /\ \A s \in Renames : renaming[s].step = "writing" /\ renaming[s].dir = q.dir => s = r
SavesAlone == \A r \in Renames : AloneIn(r)

\* The name of a session that nothing met, on disk, in memory, and in a save.
NamedAs(title, source, name) ==
  title = (IF name = "none" THEN "first" ELSE name) /\ source = (IF name = "none" THEN "auto" ELSE "manual")
NameOf(d) ==
  d \notin raced =>
    /\ Session!Saved(d) => NamedAs(disk[d].title, disk[d].source, toldName[d])
    /\ liveSession.dir = d => liveSession.source = (IF toldName[d] = "none" THEN "auto" ELSE "manual") /\ (toldName[d] # "none" => liveSession.title = toldName[d])
    /\ savingSession.step = "meta" /\ savingSession.dir = d =>
         NamedAs(savingSession.title, savingSession.source, toldName[d])
Named == \A d \in Session!Sessions : NameOf(d)

\* The messages of a session that nothing met or cut short: they are counted but between the writes of
\* a save, and they are the first of those in memory.
SavedCount(d) == IF Session!Saved(d) THEN disk[d].total ELSE 0
CopyOf(d) ==
  LET lines == disk[d].lines IN
  d \notin raced \cup cutSave =>
    /\ Session!IsInjective(lines)
    /\ savingSession.step = "meta" /\ savingSession.dir = d => Len(savingSession.said) = Len(lines)
    /\ ~(savingSession.step = "meta" /\ savingSession.dir = d) => SavedCount(d) = Len(lines)
    /\ savingSession.step = "append" /\ savingSession.dir = d => savingSession.old = Len(lines)
    /\ liveSession.dir = d => /\ Session!IsInjective(liveSession.messages)
                              /\ Len(lines) <= Len(liveSession.messages)
                              /\ \A i \in 1..Len(lines) : lines[i] = liveSession.messages[i]
Copied == \A d \in Session!Sessions : CopyOf(d)

SessionsInv == SessionTypes /\ Unbegun /\ LinesCounted /\ SavesAlone /\ Named /\ Copied


-----------------------------------------------------------------------------
\* The fields of what there is.
LEMMA SessionFields ==
  ASSUME SessionTypes
  PROVE  /\ \A d \in Session!Sessions : /\ disk[d].lines \in Seq(Session!Messages) /\
                                             disk[d].total \in Totals /\ disk[d].title \in Session!Titles
                                        /\ disk[d].source \in TitleSources /\
                                             disk[d].place \in Places /\ toldName[d] \in Given
         /\ liveSession.dir \in Session!Sessions /\ liveSession.messages \in Seq(Session!Messages) /\
              liveSession.title \in Session!Titles /\ liveSession.source \in TitleSources
         /\ liveSession.place \in Places
         /\ savingSession.step \in {"idle", "append", "meta"} /\
              savingSession.dir \in Session!Sessions /\ savingSession.old \in Nat /\
                savingSession.said \in Seq(Session!Messages)
         /\ savingSession.title \in Session!Titles /\ savingSession.source \in TitleSources
         /\ \A r \in Renames : /\ renaming[r].step \in {"idle", "writing"} /\
                                    renaming[r].dir \in Session!Sessions /\ renaming[r].name \in Given
                               /\ renaming[r].total \in Totals /\ renaming[r].live \in BOOLEAN
BY DEF SessionTypes

LEMMA FirstSessionIs ==
  ASSUME Session!SessionsAssumption
  PROVE  /\ 1 \in Session!Sessions /\ MaxSavedSessions \in Nat /\ Session!Sessions \subseteq Nat
         /\ Session!Nothing = [step |-> "idle", dir |-> 1, old |-> 0, said |-> <<>>, title |-> "none",
                               source |-> "auto"]
         /\ Session!Nothing \in [step : {"idle", "append", "meta"}, dir : Session!Sessions, old : Nat,
                                 said : Seq(Session!Messages),
                         title : Session!Titles, source : TitleSources]
         /\ Session!NotAsked \in [step : {"idle", "writing"}, dir : Session!Sessions, name : Given,
                                  total : Totals, live : BOOLEAN]
         /\ Session!Nothing.step = "idle" /\ Session!NotAsked.step = "idle"
         /\ \A d \in Session!Sessions, p \in Places :
              /\ Session!Begun(d, p) \in [dir : Session!Sessions, messages : Seq(Session!Messages),
                                          title : Session!Titles, source : TitleSources, place : Places]
              /\ Session!Begun(d, p).dir = d /\ Session!Begun(d, p).messages = <<>> /\
                   Session!Begun(d, p).source = "auto"
<1>1. 1 \in Session!Sessions /\ MaxSavedSessions \in Nat /\ Session!Sessions \subseteq Nat
  BY DEF Session!SessionsAssumption, Session!Sessions
<1>2. <<>> \in Seq(Session!Messages)
  OBVIOUS
<1> QED
  BY <1>1, <1>2 DEF Session!Nothing, Session!NotAsked, Session!Begun, Session!Titles, TitleSources,
                    Given, Totals

LEMMA SessionsInit ==
  ASSUME Session!SessionsAssumption, Session!Init
  PROVE  SessionsInv
<1> USE FirstSessionIs
<1>1. PICK p \in Places :
        /\ disk = [d \in Session!Sessions |-> [lines |-> <<>>, total |-> Session!NoMeta,
                                               title |-> "none", source |-> "auto", place |-> p]]
        /\ liveSession = Session!Begun(1, p)
  BY DEF Session!Init
<1>2. /\ begun = 1 /\ savingSession = Session!Nothing /\
           renaming = [r \in Renames |-> Session!NotAsked] /\ toldName = [d \in Session!Sessions |-> "none"]
      /\ raced = {} /\ cutSave = {}
  BY DEF Session!Init
<1>3. \A d \in Session!Sessions : disk[d].lines = <<>> /\ disk[d].total = Session!NoMeta /\
                                                            ~Session!Saved(d)
  BY <1>1 DEF Session!Saved
<1>4. SessionTypes
  BY <1>1, <1>2 DEF Totals, Session!Titles, TitleSources, SessionTypes, Given
<1>5. Unbegun
  BY <1>1, <1>2, <1>3 DEF Unbegun
<1>6. LinesCounted
  BY <1>2, <1>3 DEF LinesCounted, Session!NoMeta
<1>7. SavesAlone
  BY <1>2 DEF SavesAlone, AloneIn
<1>8. Named
  BY <1>1, <1>2, <1>3 DEF Named, NameOf
<1>9. Copied
  BY <1>1, <1>2, <1>3 DEF Copied, Session!IsInjective, SavedCount, CopyOf
<1> QED
  BY <1>4, <1>5, <1>6, <1>7, <1>8, <1>9 DEF SessionsInv

LEMMA SessionsInvIsEnough ==
  ASSUME Session!SessionsAssumption, SessionsInv
  PROVE  Session!TypeOK /\ Session!SessionsSafe
<1>1. SessionTypes /\ Unbegun /\ LinesCounted /\ Named /\ Copied
  BY DEF SessionsInv
<1>2. Session!TypeOK
  <2>1. liveSession.dir \in 1..begun
    BY <1>1, FirstSessionIs, SessionFields DEF SessionTypes, Unbegun, Session!Sessions
  <2> QED
    BY <1>1, <2>1, SessionFields DEF Session!TypeOK, SessionTypes, Totals, TitleSources
<1>3. Session!NameKept
  BY <1>1 DEF Session!NameKept, Named, NameOf, NamedAs
<1>4. Session!CountedAreThere
  BY <1>1 DEF Session!CountedAreThere, LinesCounted
<1>5. Session!SavedOnce
  BY <1>1 DEF Session!SavedOnce, Copied, CopyOf
<1> QED
  BY <1>2, <1>3, <1>4, <1>5 DEF Session!SessionsSafe

-----------------------------------------------------------------------------
LEMMA SessionSays ==
  ASSUME Session!SessionsAssumption, SessionsInv, NEW message \in Session!Messages, Session!Say(message)
  PROVE  SessionsInv'
<1> DEFINE old == liveSession.messages
           new == Append(old, message)
<1>1. SessionTypes /\ Unbegun /\ LinesCounted /\ SavesAlone /\ Named /\ Copied
  BY DEF SessionsInv
<1>2. /\ liveSession' = [liveSession EXCEPT !.messages = new] /\ savingSession.step = "idle" /\
           message \notin Session!Range(old)
      /\ disk' = disk /\ savingSession' = savingSession /\ renaming' = renaming /\ begun' = begun /\
           toldName' = toldName /\ raced' = raced /\ cutSave' = cutSave
  BY DEF Session!Say, Session!diskVars, Session!historyVars
<1>3. old \in Seq(Session!Messages) /\ new \in Seq(Session!Messages) /\ Len(new) = Len(old) + 1 /\
        new[Len(old) + 1] = message
      /\ \A i \in 1..Len(old) : new[i] = old[i]
  BY <1>1, SessionFields
<1>4. Session!IsInjective(old) => Session!IsInjective(new)
  <2>1. \A i \in 1..Len(old) : old[i] # message
    BY <1>2, <1>3 DEF Session!Range
  <2>2. DOMAIN new = 1..(Len(old) + 1) /\ DOMAIN old = 1..Len(old)
    BY <1>3
  <2> HIDE DEF new, old
  <2> QED
    BY <1>3, <2>1, <2>2 DEF Session!IsInjective
<1>5. /\ liveSession'.messages = new /\ liveSession'.dir = liveSession.dir /\
           liveSession'.title = liveSession.title /\ liveSession'.source = liveSession.source
      /\ liveSession' \in [dir : Session!Sessions, messages : Seq(Session!Messages),
                           title : Session!Titles, source : TitleSources, place : Places]
  <2> HIDE DEF new
  <2> QED
    BY <1>1, <1>2, <1>3 DEF SessionTypes
<1> HIDE DEF new
<1>6. SessionTypes'
  BY <1>1, <1>2, <1>5 DEF SessionTypes
<1>7. Unbegun'
  BY <1>1, <1>2, <1>5 DEF Unbegun, Session!Saved
<1>8. LinesCounted'
  BY <1>1, <1>2 DEF LinesCounted, Session!Saved
<1>9. SavesAlone'
  BY <1>1, <1>2, <1>5 DEF SavesAlone, AloneIn, Session!Saving
<1>10. Named'
  BY <1>1, <1>2, <1>5 DEF Named, NameOf, Session!Saved
<1>11. Copied'
  <2> SUFFICES ASSUME NEW d \in Session!Sessions PROVE CopyOf(d)'
    BY DEF Copied
  <2>1. CopyOf(d)
    BY <1>1 DEF Copied
  <2>2. disk[d].lines \in Seq(Session!Messages) /\ old = liveSession.messages
    BY <1>1, SessionFields
  <2> HIDE DEF old
  <2> QED
    BY <1>2, <1>3, <1>4, <1>5, <2>1, <2>2 DEF CopyOf, SavedCount, Session!Saved
<1> QED
  BY <1>6, <1>7, <1>8, <1>9, <1>10, <1>11 DEF SessionsInv


LEMMA SessionSaveBegins ==
  ASSUME Session!SessionsAssumption, SessionsInv, Session!SaveBegin
  PROVE  SessionsInv'
<1> DEFINE d == liveSession.dir
           old == IF Session!Saved(d) THEN disk[d].total ELSE 0
           new == [Session!Nothing EXCEPT !.step = "append", !.dir = d, !.old = old]
<1>1. SessionTypes /\ Unbegun /\ LinesCounted /\ SavesAlone /\ Named /\ Copied
  BY DEF SessionsInv
<1>2. /\ savingSession' = new /\ savingSession.step = "idle"
      /\ raced' = IF Session!Renaming(d) THEN raced \cup {d} ELSE raced
      /\ disk' = disk /\ liveSession' = liveSession /\ renaming' = renaming /\ begun' = begun /\
           toldName' = toldName /\ cutSave' = cutSave
  BY DEF Session!SaveBegin, Session!diskVars
<1>3. d \in Session!Sessions /\ old \in Nat /\ old <= Len(disk[d].lines) /\ old = SavedCount(d)
  BY <1>1, SessionFields DEF LinesCounted, Session!Saved, Totals, SavedCount
<1> HIDE DEF old
<1>4. /\ new \in [step : {"idle", "append", "meta"}, dir : Session!Sessions, old : Nat,
                  said : Seq(Session!Messages),
                  title : Session!Titles, source : TitleSources]
      /\ new.step = "append" /\ new.dir = d /\ new.old = old
  BY <1>3, FirstSessionIs
<1> HIDE DEF new
<1>5. d = liveSession.dir
  OBVIOUS
<1> HIDE DEF d
<1>6. SessionTypes'
  BY <1>1, <1>2, <1>3, <1>4 DEF SessionTypes
<1>7. Unbegun'
  BY <1>1, <1>2, <1>4, <1>5 DEF Unbegun, Session!Saved
<1>8. LinesCounted'
  BY <1>1, <1>2, <1>3, <1>4 DEF LinesCounted, Session!Saved
<1>9. SavesAlone'
  BY <1>1, <1>2, <1>4 DEF SavesAlone, Session!Renaming, AloneIn, Session!Saving
<1>10. Named'
  BY <1>1, <1>2, <1>4 DEF Named, NameOf, Session!Saved
<1>11. Copied'
  BY <1>1, <1>2, <1>3, <1>4 DEF Copied, CopyOf, SavedCount, Session!Saved
<1> QED
  BY <1>6, <1>7, <1>8, <1>9, <1>10, <1>11 DEF SessionsInv

\* Nothing is saved any more: of the session that was saved some may be missing.
LEMMA SaveGivenUp ==
  ASSUME Session!SessionsAssumption, SessionsInv, savingSession' = Session!Nothing,
           cutSave' = cutSave \cup {savingSession.dir} \/ (savingSession.step = "append" /\
                                                           cutSave' = cutSave),
         disk' = disk, liveSession' = liveSession, renaming' = renaming, begun' = begun,
           toldName' = toldName, raced' = raced
  PROVE  SessionsInv'
<1>1. SessionTypes /\ Unbegun /\ LinesCounted /\ SavesAlone /\ Named /\ Copied
  BY DEF SessionsInv
<1>2. savingSession'.step = "idle"
  BY FirstSessionIs
<1>3. SessionTypes'
  BY <1>1, FirstSessionIs DEF SessionTypes
<1>4. Unbegun'
  BY <1>1, <1>2 DEF Unbegun, Session!Saved
<1>5. LinesCounted'
  BY <1>1, <1>2 DEF LinesCounted, Session!Saved
<1>6. SavesAlone'
  BY <1>1, <1>2 DEF SavesAlone, AloneIn, Session!Saving
<1>7. Named'
  BY <1>1, <1>2 DEF Named, NameOf, Session!Saved
<1>8. Copied'
  BY <1>1, <1>2 DEF Copied, CopyOf, SavedCount, Session!Saved
<1> QED
  BY <1>3, <1>4, <1>5, <1>6, <1>7, <1>8 DEF SessionsInv

LEMMA SessionSaveCut ==
  ASSUME Session!SessionsAssumption, SessionsInv, Session!SaveCut
  PROVE  SessionsInv'
<1>1. /\ savingSession' = Session!Nothing /\ cutSave' = cutSave \cup {savingSession.dir}
      /\ disk' = disk /\ liveSession' = liveSession /\ renaming' = renaming /\ begun' = begun /\
           toldName' = toldName /\ raced' = raced
  BY DEF Session!SaveCut, Session!diskVars
<1> QED
  BY <1>1, SaveGivenUp

\* What the title of a session is, by its name.
LEMMA TitleIs ==
  ASSUME NEW l, NEW name, l.source = (IF name = "none" THEN "auto" ELSE "manual"), name # "none" =>
           l.title = name
  PROVE  NamedAs(Session!ResolveTitle(l).title, Session!ResolveTitle(l).source, name)
BY DEF NamedAs, Session!ResolveTitle

LEMMA TitleTypes ==
  ASSUME NEW l, l.title \in Session!Titles
  PROVE  Session!ResolveTitle(l).title \in Session!Titles /\ Session!ResolveTitle(l).source \in TitleSources
BY DEF Session!ResolveTitle, Session!Titles, TitleSources

\* What is behind the first m of a sequence, and two sequences one after the other.
LEMMA RestIs ==
  ASSUME NEW S, NEW s \in Seq(S), NEW m \in Nat
  PROVE  LET rest == SubSeq(s, m + 1, Len(s)) IN
         /\ rest \in Seq(S) /\ (Len(s) <= m => Len(rest) = 0)
         /\ (Len(s) > m => Len(rest) = Len(s) - m /\ \A i \in 1..Len(rest) : rest[i] = s[m + i])
<1> DEFINE rest == SubSeq(s, m + 1, Len(s))
<1>1. rest \in Seq(S)
  OBVIOUS
<1>2. CASE Len(s) <= m
  <2>1. Len(rest) = 0
    BY <1>2
  <2> QED
    BY <1>1, <1>2, <2>1
<1>3. CASE Len(s) > m
  BY <1>1, <1>3
<1> QED
  BY <1>2, <1>3

LEMMA BothAre ==
  ASSUME NEW S, NEW s \in Seq(S), NEW t \in Seq(S)
  PROVE  /\ s \o t \in Seq(S) /\ Len(s \o t) = Len(s) + Len(t)
         /\ \A i \in 1..Len(s) : (s \o t)[i] = s[i]
         /\ \A i \in Len(s) + 1 .. Len(s \o t) : (s \o t)[i] = t[i - Len(s)]
OBVIOUS

LEMMA SessionAppends ==
  ASSUME Session!SessionsAssumption, SessionsInv, Session!SaveAppend
  PROVE  SessionsInv'
<1> DEFINE d == savingSession.dir
           spoken == liveSession.messages
           new == SubSeq(spoken, savingSession.old + 1, Len(spoken))
           lines == disk[d].lines
           more == lines \o new
           t == Session!ResolveTitle(liveSession)
           l == [liveSession EXCEPT !.title = t.title, !.source = t.source]
           s == [savingSession EXCEPT !.step = "meta", !.said = spoken, !.title = t.title,
                 !.source = t.source]
<1>1. SessionTypes /\ Unbegun /\ LinesCounted /\ SavesAlone /\ Named /\ Copied
  BY DEF SessionsInv
<1>2. /\ savingSession.step = "append"
      /\ renaming' = renaming /\ begun' = begun /\ toldName' = toldName /\ raced' = raced /\
           cutSave' = cutSave
  BY DEF Session!SaveAppend, Session!historyVars
<1>3. CASE new = <<>>
  BY <1>2, <1>3, SaveGivenUp DEF Session!SaveAppend, Session!diskVars
<1>4. CASE new # <<>>
  <2>1. disk' = [disk EXCEPT ![d].lines = @ \o new] /\ liveSession' = l /\ savingSession' = s
    BY <1>4 DEF Session!SaveAppend
  <2>2. d \in Session!Sessions /\ d = liveSession.dir /\ spoken \in Seq(Session!Messages) /\
          lines \in Seq(Session!Messages) /\ savingSession.old \in Nat
        /\ savingSession.old <= Len(lines) /\ liveSession.title \in Session!Titles
    BY <1>1, <1>2, SessionFields DEF Unbegun, LinesCounted
  <2>3. new \in Seq(Session!Messages) /\ Len(new) = Len(spoken) - savingSession.old /\
          Len(spoken) > savingSession.old
        /\ \A i \in 1..Len(new) : new[i] = spoken[savingSession.old + i]
    <3>1. new \in Seq(Session!Messages) /\ (Len(spoken) <= savingSession.old => Len(new) = 0)
          /\ (Len(spoken) > savingSession.old => Len(new) = Len(spoken) - savingSession.old /\
              \A i \in 1..Len(new) : new[i] = spoken[savingSession.old + i])
      BY <2>2, RestIs
    <3>2. Len(new) # 0
      BY <1>4, <3>1
    <3> QED
      BY <2>2, <3>1, <3>2
  <2>4. t.title \in Session!Titles /\ t.source \in TitleSources
    BY <2>2, TitleTypes
  <2> HIDE DEF new
  <2>5. more \in Seq(Session!Messages) /\ Len(more) = Len(lines) + Len(new) /\ Len(spoken) <= Len(more)
        /\ (\A i \in 1..Len(lines) : more[i] = lines[i])
        /\ \A i \in Len(lines) + 1 .. Len(more) : more[i] = new[i - Len(lines)]
    <3>1. more \in Seq(Session!Messages) /\ Len(more) = Len(lines) + Len(new)
          /\ (\A i \in 1..Len(lines) : more[i] = lines[i])
          /\ \A i \in Len(lines) + 1 .. Len(more) : more[i] = new[i - Len(lines)]
      BY <2>2, <2>3, BothAre
    <3>2. Len(spoken) <= Len(more)
      BY <2>2, <2>3, <3>1
    <3> QED
      BY <3>1, <3>2
  <2>6. /\ disk' = [disk EXCEPT ![d] = [disk[d] EXCEPT !.lines = more]]
    BY <1>1, <2>1, <2>2 DEF SessionTypes
  <2> HIDE DEF more
  <2>7. /\ disk' \in [Session!Sessions -> [lines : Seq(Session!Messages), total : Totals,
                                           title : Session!Titles, source : TitleSources, place : Places]]
        /\ disk'[d].lines = more /\ disk'[d].total = disk[d].total /\ disk'[d].title = disk[d].title
        /\ disk'[d].source = disk[d].source
        /\ \A e \in Session!Sessions \ {d} : disk'[e] = disk[e]
    <3> DEFINE o == disk[d]
               n == [o EXCEPT !.lines = more]
    <3>1. o \in [lines : Seq(Session!Messages), total : Totals, title : Session!Titles,
                 source : TitleSources, place : Places]
      BY <1>1, <2>2 DEF SessionTypes
    <3>2. o = disk[d]
      OBVIOUS
    <3> HIDE DEF o, d
    <3>3. /\ n \in [lines : Seq(Session!Messages), total : Totals, title : Session!Titles,
                    source : TitleSources, place : Places]
          /\ n.lines = more /\ n.total = o.total /\ n.title = o.title /\ n.source = o.source
      BY <2>5, <3>1
    <3>4. disk' = [disk EXCEPT ![d] = n]
      BY <2>6, <3>2
    <3> HIDE DEF n
    <3> QED
      BY <1>1, <2>2, <3>2, <3>3, <3>4 DEF SessionTypes
  <2> HIDE DEF t
  <2>8. /\ l \in [dir : Session!Sessions, messages : Seq(Session!Messages), title : Session!Titles,
                  source : TitleSources, place : Places]
        /\ l.dir = liveSession.dir /\ l.messages = spoken /\ l.title = t.title /\ l.source = t.source
    BY <1>1, <2>4 DEF SessionTypes
  <2>9. /\ s \in [step : {"idle", "append", "meta"}, dir : Session!Sessions, old : Nat,
                  said : Seq(Session!Messages),
                  title : Session!Titles, source : TitleSources]
        /\ s.step = "meta" /\ s.dir = d /\ s.said = spoken /\ s.title = t.title /\ s.source = t.source
    BY <1>1, <2>2, <2>4 DEF SessionTypes
  <2>10. t = Session!ResolveTitle(liveSession) /\ spoken = liveSession.messages /\
           d = savingSession.dir /\ lines = disk[d].lines
    BY DEF t
  <2> HIDE DEF l, s, spoken, lines
  <2> HIDE DEF d
  <2>11. SessionTypes'
    BY <1>1, <1>2, <2>1, <2>7, <2>8, <2>9 DEF SessionTypes
  <2>12. \A e \in Session!Sessions : disk'[e].total = disk[e].total /\
           (Session!Saved(e)' <=> Session!Saved(e)) /\ Len(disk[e].lines) <= Len(disk'[e].lines)
    <3>1. \A e \in Session!Sessions : disk[e].lines \in Seq(Session!Messages)
      BY <1>1, SessionFields
    <3>2. Len(disk[d].lines) <= Len(disk'[d].lines)
      BY <2>2, <2>3, <2>5, <2>7, <2>10
    <3>3. \A e \in Session!Sessions : disk'[e].total = disk[e].total
      BY <2>7
    <3>4. \A e \in Session!Sessions : Len(disk[e].lines) \in Nat
      BY <3>1
    <3>5. ASSUME NEW e \in Session!Sessions PROVE Len(disk[e].lines) <= Len(disk'[e].lines)
      BY <2>7, <3>2, <3>4
    <3> QED
      BY <3>3, <3>5 DEF Session!Saved
  <2>13. Unbegun'
    <3>1. d <= begun
      BY <1>1, <1>2, <2>2 DEF Unbegun
    <3>2. \A e \in Session!Sessions : e > begun => e # d
      BY <1>1, <2>2, <3>1, FirstSessionIs DEF SessionTypes
    <3> QED
      BY <1>1, <1>2, <2>1, <2>2, <2>7, <2>8, <2>9, <2>12, <3>2 DEF Unbegun
  <2>14. LinesCounted'
    <3>1. \A e \in Session!Sessions : disk[e].lines \in Seq(Session!Messages) /\
            disk'[e].lines \in Seq(Session!Messages) /\ disk[e].total \in Totals
      BY <1>1, <2>7, SessionFields
    <3>2. \A e \in Session!Sessions : Len(disk[e].lines) \in Nat /\ Len(disk'[e].lines) \in Nat
      BY <3>1
    <3>3. \A e \in Session!Sessions : disk'[e].total <= Len(disk'[e].lines)
      BY <1>1, <2>12, <3>1, <3>2 DEF LinesCounted, Totals, Session!NoMeta
    <3>4. ASSUME NEW r \in Renames, renaming'[r].step = "writing"
          PROVE  /\ disk'[renaming'[r].dir].total # Session!NoMeta /\
                      renaming'[r].total \in 0..Len(disk'[renaming'[r].dir].lines)
                 /\ renaming'[r].name # "none"
      <4> DEFINE e == renaming[r].dir
      <4>1. e \in Session!Sessions /\ Session!Saved(e) /\
              renaming[r].total \in 0..Len(disk[e].lines) /\ renaming'[r].dir = e /\
                renaming'[r].total = renaming[r].total
            /\ renaming'[r].name # "none"
        BY <1>1, <1>2, <3>4, SessionFields DEF LinesCounted
      <4> HIDE DEF e
      <4>2. disk'[e].total # Session!NoMeta /\ renaming[r].total \in 0..Len(disk'[e].lines)
        BY <2>12, <3>2, <4>1 DEF Session!Saved
      <4> QED
        BY <4>1, <4>2
    <3>5. savingSession'.step = "meta" /\ savingSession'.said = spoken /\ savingSession'.dir = d
      BY <2>1, <2>9
    <3>6. Len(savingSession'.said) <= Len(disk'[savingSession'.dir].lines)
      BY <2>5, <2>7, <3>5
    <3> QED
      BY <3>3, <3>4, <3>5, <3>6 DEF LinesCounted, Session!Saved
  <2>15. SavesAlone'
    <3> SUFFICES ASSUME NEW r \in Renames PROVE AloneIn(r)'
      BY <1>2 DEF SavesAlone
    <3>1. AloneIn(r) /\ renaming[r].dir \in Session!Sessions
      BY <1>1, SessionFields DEF SavesAlone
    <3> QED
      BY <1>2, <2>1, <2>8, <2>9, <2>10, <2>12, <3>1 DEF AloneIn, Session!Saving
  <2>16. Named'
    <3> SUFFICES ASSUME NEW e \in Session!Sessions PROVE NameOf(e)'
      BY DEF Named
    <3>1. NameOf(e)
      BY <1>1 DEF Named
    <3>2. ASSUME e = d, d \notin raced PROVE NamedAs(t.title, t.source, toldName[d])
      BY <2>2, <2>10, <3>1, <3>2, TitleIs DEF NameOf
    <3>3. disk'[e].title = disk[e].title /\ disk'[e].source = disk[e].source /\
            (Session!Saved(e)' <=> Session!Saved(e))
      BY <2>7, <2>12
    <3>4. CASE e = d
      BY <1>2, <2>1, <2>8, <2>9, <3>1, <3>2, <3>3, <3>4 DEF NameOf, NamedAs
    <3>5. CASE e # d
      BY <1>2, <2>1, <2>2, <2>8, <2>9, <3>1, <3>3, <3>5 DEF NameOf
    <3> QED
      BY <3>4, <3>5
  <2>17. Copied'
    <3> SUFFICES ASSUME NEW e \in Session!Sessions PROVE CopyOf(e)'
      BY DEF Copied
    <3>1. CopyOf(e)
      BY <1>1 DEF Copied
    <3>2. CASE e = d
      <4>1. CASE d \in raced \cup cutSave
        BY <1>2, <3>2, <4>1 DEF CopyOf
      <4>2. CASE d \notin raced \cup cutSave
        <5>1. savingSession.old = Len(lines) /\ Session!IsInjective(spoken) /\
                Len(lines) <= Len(spoken) /\ \A i \in 1..Len(lines) : lines[i] = spoken[i]
          BY <1>2, <2>2, <2>10, <3>1, <3>2, <4>2 DEF CopyOf
        <5>2. Len(more) = Len(spoken)
          BY <2>2, <2>3, <2>5, <5>1
        <5>3. ASSUME NEW i \in 1..Len(more) PROVE more[i] = spoken[i]
          <6>1. CASE i <= Len(lines)
            BY <2>2, <2>5, <5>1, <6>1
          <6>2. CASE i > Len(lines)
            <7>1. i \in Len(lines) + 1 .. Len(more) /\ i - Len(lines) \in 1..Len(new)
              BY <2>2, <2>3, <2>5, <6>2
            <7>2. savingSession.old + (i - Len(lines)) = i
              BY <2>2, <5>1
            <7> QED
              BY <2>3, <2>5, <7>1, <7>2
          <6> QED
            BY <2>2, <6>1, <6>2
        <5>4. DOMAIN more = 1..Len(more) /\ DOMAIN spoken = 1..Len(spoken)
          BY <2>2, <2>5
        <5>5. Session!IsInjective(more)
          BY <5>1, <5>2, <5>3, <5>4 DEF Session!IsInjective
        <5>6. disk'[e].lines = more /\ savingSession'.step = "meta" /\ savingSession'.dir = e /\
                savingSession'.said = spoken /\ liveSession'.messages = spoken
          BY <2>1, <2>7, <2>8, <2>9, <3>2
        <5>7. Len(more) <= Len(spoken)
          BY <2>2, <5>2
        <5> QED
          BY <5>1, <5>2, <5>3, <5>5, <5>6, <5>7 DEF CopyOf
      <4> QED
        BY <4>1, <4>2
    <3>3. CASE e # d
      <4>1. disk'[e] = disk[e] /\ (SavedCount(e)' = SavedCount(e))
        BY <2>7, <3>3 DEF SavedCount, Session!Saved
      <4>2. savingSession'.dir # e /\ savingSession.dir # e /\ liveSession'.dir # e
        BY <2>1, <2>2, <2>8, <2>9, <2>10, <3>3
      <4> QED
        BY <1>2, <3>1, <4>1, <4>2 DEF CopyOf
    <3> QED
      BY <3>2, <3>3
  <2> QED
    BY <2>11, <2>13, <2>14, <2>15, <2>16, <2>17 DEF SessionsInv
<1> QED
  BY <1>3, <1>4


LEMMA SessionSaved ==
  ASSUME Session!SessionsAssumption, SessionsInv, Session!SaveMeta
  PROVE  SessionsInv'
<1> DEFINE d == savingSession.dir
           n == [lines |-> disk[d].lines, total |-> Len(savingSession.said),
                 title |-> savingSession.title, source |-> savingSession.source,
                 place |-> liveSession.place]
<1>1. SessionTypes /\ Unbegun /\ LinesCounted /\ SavesAlone /\ Named /\ Copied
  BY DEF SessionsInv
<1>2. d \in Session!Sessions
  BY <1>1, SessionFields
<1>3. /\ savingSession.step = "meta" /\ disk' = [disk EXCEPT ![d] = n] /\ savingSession' = Session!Nothing
      /\ liveSession' = liveSession /\ renaming' = renaming /\ begun' = begun /\
           toldName' = toldName /\ raced' = raced /\ cutSave' = cutSave
  BY DEF Session!SaveMeta, Session!historyVars
<1>4. savingSession'.step = "idle"
  BY <1>3, FirstSessionIs
<1>5. Len(savingSession.said) \in Nat /\ Len(savingSession.said) <= Len(disk[d].lines)
  BY <1>1, <1>3, SessionFields DEF LinesCounted
<1>6. n \in [lines : Seq(Session!Messages), total : Totals, title : Session!Titles,
             source : TitleSources, place : Places]
  BY <1>1, <1>2, <1>5, SessionFields DEF Totals
<1>7. n.lines = disk[d].lines /\ n.total = Len(savingSession.said) /\ n.title = savingSession.title /\
        n.source = savingSession.source
  OBVIOUS
<1> HIDE DEF n
<1>8. d = savingSession.dir
  OBVIOUS
<1> HIDE DEF d
<1>9. disk'[d] = n /\ \A e \in Session!Sessions \ {d} : disk'[e] = disk[e]
  BY <1>1, <1>2, <1>3 DEF SessionTypes
<1>10. SessionTypes'
  BY <1>1, <1>3, <1>6, FirstSessionIs DEF SessionTypes
<1>11. disk'[d].total # Session!NoMeta /\
         (\A e \in Session!Sessions \ {d} : (Session!Saved(e)' <=> Session!Saved(e)))
  BY <1>5, <1>7, <1>9 DEF Session!NoMeta, Session!Saved
<1>12. Unbegun'
  <2>1. d <= begun /\ d = liveSession.dir
    BY <1>1, <1>3, <1>8 DEF Unbegun
  <2>2. \A e \in Session!Sessions : e > begun => e # d
    BY <1>1, <1>2, <2>1, FirstSessionIs DEF SessionTypes
  <2> QED
    BY <1>1, <1>3, <1>4, <1>9, <1>11, <2>2 DEF Unbegun
<1>13. LinesCounted'
  <2>1. \A e \in Session!Sessions : disk'[e].lines = disk[e].lines
    BY <1>7, <1>9
  <2>2. \A e \in Session!Sessions : disk'[e].total <= Len(disk'[e].lines)
    BY <1>1, <1>5, <1>7, <1>9 DEF LinesCounted
  <2>3. \A r \in Renames : renaming[r].dir \in Session!Sessions
    BY <1>1, SessionFields
  <2>4. ASSUME NEW e \in Session!Sessions, disk[e].total # Session!NoMeta
        PROVE disk'[e].total # Session!NoMeta
    BY <1>9, <1>11, <2>4
  <2> QED
    BY <1>1, <1>3, <1>4, <2>1, <2>2, <2>3, <2>4 DEF LinesCounted, Session!Saved
<1>14. SavesAlone'
  BY <1>1, <1>3, <1>4, <1>8, <1>9, SessionFields DEF SavesAlone, AloneIn, Session!Saving
<1>15. Named'
  <2> SUFFICES ASSUME NEW e \in Session!Sessions PROVE NameOf(e)'
    BY DEF Named
  <2>1. NameOf(e)
    BY <1>1 DEF Named
  <2>2. CASE e = d
    BY <1>3, <1>4, <1>7, <1>8, <1>9, <2>1, <2>2 DEF NameOf, NamedAs
  <2>3. CASE e # d
    BY <1>3, <1>4, <1>9, <1>11, <2>1, <2>3 DEF NameOf
  <2> QED
    BY <2>2, <2>3
<1>16. Copied'
  <2> SUFFICES ASSUME NEW e \in Session!Sessions PROVE CopyOf(e)'
    BY DEF Copied
  <2>1. CopyOf(e)
    BY <1>1 DEF Copied
  <2>2. CASE e = d
    <3>1. disk'[e].lines = disk[e].lines /\ disk'[e].total = Len(savingSession.said) /\
            disk'[e].total # Session!NoMeta
      BY <1>7, <1>9, <1>11, <2>2
    <3>2. SavedCount(e)' = Len(savingSession.said)
      BY <3>1 DEF SavedCount, Session!Saved
    <3> QED
      BY <1>3, <1>4, <1>8, <2>1, <2>2, <3>1, <3>2 DEF CopyOf
  <2>3. CASE e # d
    BY <1>3, <1>4, <1>8, <1>9, <2>1, <2>3 DEF SavedCount, Session!Saved, CopyOf
  <2> QED
    BY <2>2, <2>3
<1> QED
  BY <1>10, <1>12, <1>13, <1>14, <1>15, <1>16 DEF SessionsInv

\* What is behind the later of two numbers is behind the earlier one.
LEMMA Later == \A a, b, c \in Nat : a <= b /\ c > b => c > a
  OBVIOUS

\* Another session comes into memory, with what is on disk of it.
LEMMA AnotherSession ==
  ASSUME Session!SessionsAssumption, SessionsInv, NEW d \in Session!Sessions,
         liveSession' \in [dir : Session!Sessions, messages : Seq(Session!Messages),
                           title : Session!Titles, source : TitleSources, place : Places],
         liveSession'.dir = d, disk' = disk, toldName' = toldName, begun' \in Session!Sessions,
           begun <= begun', d <= begun',
         savingSession' \in [step : {"idle", "append", "meta"}, dir : Session!Sessions, old : Nat,
                             said : Seq(Session!Messages),
                    title : Session!Titles, source : TitleSources],
         savingSession'.step = "idle", savingSession.step # "idle" => savingSession.dir \in cutSave',
         raced \subseteq raced', raced' \subseteq Session!Sessions, cutSave \subseteq cutSave',
           cutSave' \subseteq Session!Sessions,
         renaming' \in [Renames -> [step : {"idle", "writing"}, dir : Session!Sessions, name : Given,
                                    total : Totals, live : BOOLEAN]],
         \A r \in Renames : renaming'[r].step = "writing" =>
           /\ renaming[r].step = "writing" /\ renaming'[r].dir = renaming[r].dir /\
                renaming'[r].total = renaming[r].total
           /\ renaming'[r].name = renaming[r].name
           /\ renaming[r].dir # d \/ d \in raced',
         d \notin raced' => /\ liveSession'.source = (IF toldName[d] = "none" THEN "auto" ELSE "manual")
                            /\ toldName[d] # "none" => liveSession'.title = toldName[d],
         d \notin raced' \cup cutSave' => /\ Session!IsInjective(liveSession'.messages) /\
                                               Len(disk[d].lines) <= Len(liveSession'.messages)
                                          /\ \A i \in 1..Len(disk[d].lines) : disk[d].lines[i] = liveSession'.messages[i]
  PROVE  SessionsInv'
<1>1. SessionTypes /\ Unbegun /\ LinesCounted /\ SavesAlone /\ Named /\ Copied
  BY DEF SessionsInv
<1>2. SessionTypes'
  BY <1>1 DEF SessionTypes
<1>3. Unbegun'
  <2>1. begun \in Nat /\ begun' \in Nat /\ \A e \in Session!Sessions : e \in Nat
    BY <1>1, FirstSessionIs DEF SessionTypes
  <2>2. \A e \in Session!Sessions : e > begun' => e > begun
    BY <2>1, Later
  <2>3. liveSession'.dir <= begun' /\ (savingSession'.step # "idle" =>
                                       savingSession'.dir = liveSession'.dir)
    BY <1>1, <2>1 DEF Unbegun
  <2>4. ASSUME NEW e \in Session!Sessions, e > begun'
        PROVE ~Session!Saved(e)' /\ disk'[e].lines = <<>> /\ toldName'[e] = "none"
    BY <1>1, <2>2, <2>4 DEF Unbegun, Session!Saved
  <2> QED
    BY <2>3, <2>4 DEF Unbegun
<1>4. LinesCounted'
  BY <1>1 DEF LinesCounted, Session!Saved
<1>5. SavesAlone'
  BY <1>1 DEF SavesAlone, AloneIn, Session!Saving
<1>6. Named'
  BY <1>1 DEF Named, NameOf, Session!Saved
<1>7. Copied'
  BY <1>1 DEF Copied, SavedCount, Session!Saved, CopyOf
<1> QED
  BY <1>2, <1>3, <1>4, <1>5, <1>6, <1>7 DEF SessionsInv

LEMMA SessionResets ==
  ASSUME Session!SessionsAssumption, SessionsInv, NEW n \in 0..Len(liveSession.messages),
           Session!ResetSession(n)
  PROVE  SessionsInv'
<1> DEFINE d == begun + 1
           b == Session!Begun(d, liveSession.place)
           old == liveSession.messages
           left == SubSeq(old, 1, n)
           l == [b EXCEPT !.messages = left]
<1>1. SessionTypes /\ Unbegun /\ LinesCounted /\ SavesAlone /\ Named /\ Copied
  BY DEF SessionsInv
<1>2. /\ savingSession.step = "idle" /\ begun < MaxSavedSessions /\ begun' = d /\ liveSession' = l
      /\ cutSave' = (IF liveSession.dir \in raced \cup cutSave THEN cutSave \cup {d} ELSE cutSave)
      /\ disk' = disk /\ savingSession' = savingSession /\ renaming' = renaming /\
           toldName' = toldName /\ raced' = raced
  BY DEF Session!ResetSession, Session!diskVars
<1>3. d \in Session!Sessions /\ begun <= d /\ d > begun /\ liveSession.dir \in Session!Sessions /\
        old \in Seq(Session!Messages) /\ liveSession.place \in Places
  <2>1. begun \in 1..MaxSavedSessions /\ MaxSavedSessions \in Nat
    BY <1>1, FirstSessionIs DEF SessionTypes, Session!Sessions
  <2>2. d \in 1..MaxSavedSessions /\ begun <= d /\ d > begun
    BY <1>2, <2>1
  <2>3. liveSession.dir \in Session!Sessions /\ old \in Seq(Session!Messages) /\
          liveSession.place \in Places
    BY <1>1, SessionFields
  <2> QED
    BY <2>2, <2>3 DEF Session!Sessions
<1>4. left \in Seq(Session!Messages) /\ Len(left) = n /\ n <= Len(old) /\ \A i \in 1..n : left[i] = old[i]
  BY <1>3
<1>5. /\ b \in [dir : Session!Sessions, messages : Seq(Session!Messages), title : Session!Titles,
                source : TitleSources, place : Places]
      /\ b.dir = d /\ b.source = "auto"
  BY <1>3, FirstSessionIs
<1>6. ~Session!Saved(d) /\ disk[d].lines = <<>> /\ toldName[d] = "none"
  BY <1>1, <1>3 DEF Unbegun
<1> HIDE DEF b, left
<1>7. /\ l \in [dir : Session!Sessions, messages : Seq(Session!Messages), title : Session!Titles,
                source : TitleSources, place : Places]
      /\ l.dir = d /\ l.source = "auto" /\ l.messages = left
  BY <1>4, <1>5
<1> HIDE DEF l
<1>8. ASSUME NEW r \in Renames, renaming[r].step = "writing" PROVE renaming[r].dir # d
  BY <1>1, <1>6, <1>8 DEF LinesCounted
<1>9. ASSUME liveSession.dir \notin raced \cup cutSave PROVE Session!IsInjective(left)
  <2>1. Session!IsInjective(old)
    BY <1>1, <1>3, <1>9 DEF Copied, CopyOf
  <2>2. DOMAIN left = 1..n /\ DOMAIN old = 1..Len(old) /\ 1..n \subseteq 1..Len(old)
    BY <1>3, <1>4
  <2> HIDE DEF old
  <2> QED
    BY <1>4, <2>1, <2>2 DEF Session!IsInjective
<1>10. Len(disk[d].lines) = 0
  BY <1>6
<1>11. d \notin cutSave' => liveSession.dir \notin raced \cup cutSave
  BY <1>2
<1>12. cutSave' \subseteq Session!Sessions /\ cutSave \subseteq cutSave' /\ raced \subseteq Session!Sessions
  BY <1>1, <1>2, <1>3 DEF SessionTypes
<1>13. /\ savingSession \in [step : {"idle", "append", "meta"}, dir : Session!Sessions, old : Nat,
                             said : Seq(Session!Messages),
                    title : Session!Titles, source : TitleSources]
       /\ renaming \in [Renames -> [step : {"idle", "writing"}, dir : Session!Sessions, name : Given,
                                    total : Totals, live : BOOLEAN]]
  BY <1>1 DEF SessionTypes
<1>14. d \notin raced' \cup cutSave' => /\ Session!IsInjective(liveSession'.messages) /\
                                             Len(disk[d].lines) <= Len(liveSession'.messages)
                                        /\ \A i \in 1..Len(disk[d].lines) : disk[d].lines[i] = liveSession'.messages[i]
  BY <1>2, <1>4, <1>7, <1>9, <1>10, <1>11
<1>15. d \notin raced' => /\ liveSession'.source = (IF toldName[d] = "none" THEN "auto" ELSE "manual")
                          /\ toldName[d] # "none" => liveSession'.title = toldName[d]
  BY <1>2, <1>6, <1>7
<1>16. d <= begun'
  BY <1>2, <1>3, FirstSessionIs
<1>17. liveSession' \in [dir : Session!Sessions, messages : Seq(Session!Messages),
                         title : Session!Titles, source : TitleSources, place : Places] /\
                           liveSession'.dir = d
  BY <1>2, <1>7
<1>18. begun' \in Session!Sessions /\ begun <= begun'
  BY <1>2, <1>3
<1>19. \A r \in Renames : renaming'[r].step = "writing" =>
          /\ renaming[r].step = "writing" /\ renaming'[r].dir = renaming[r].dir /\
               renaming'[r].total = renaming[r].total
          /\ renaming'[r].name = renaming[r].name
          /\ renaming[r].dir # d \/ d \in raced'
  BY <1>2, <1>8
<1>20. disk' = disk /\ toldName' = toldName /\ raced' = raced /\ savingSession' = savingSession /\
         renaming' = renaming /\ savingSession.step = "idle"
  BY <1>2
<1> HIDE DEF d
<1> QED
  BY <1>3, <1>12, <1>13, <1>14, <1>15, <1>16, <1>17, <1>18, <1>19, <1>20, AnotherSession

\* A session that is found again is the one on disk.
LEMMA FoundAgain ==
  ASSUME Session!SessionsAssumption, SessionsInv, NEW d \in Session!Sessions, Session!IsValid(d)
  PROVE  /\ d <= begun
         /\ d \notin raced => /\ disk[d].source = (IF toldName[d] = "none" THEN "auto" ELSE "manual")
                              /\ toldName[d] # "none" => disk[d].title = toldName[d]
         /\ d \notin raced \cup cutSave => Session!IsInjective(disk[d].lines)
         /\ disk[d].lines \in Seq(Session!Messages) /\ disk[d].title \in Session!Titles /\
              disk[d].source \in TitleSources /\ disk[d].place \in Places
<1>1. SessionTypes /\ Unbegun /\ Named /\ Copied /\ Session!Saved(d)
  BY DEF SessionsInv, Session!IsValid
<1>2. d <= begun
  BY <1>1, FirstSessionIs DEF Unbegun, SessionTypes
<1>3. NameOf(d) /\ CopyOf(d)
  BY <1>1 DEF Named, Copied
<1>4. d \notin raced => /\ disk[d].source = (IF toldName[d] = "none" THEN "auto" ELSE "manual")
                        /\ toldName[d] # "none" => disk[d].title = toldName[d]
  BY <1>1, <1>3 DEF NameOf, NamedAs
<1> QED
  BY <1>1, <1>2, <1>3, <1>4, SessionFields DEF CopyOf

LEMMA SessionResumes ==
  ASSUME Session!SessionsAssumption, SessionsInv, NEW d \in Session!Sessions, Session!Resume(d)
  PROVE  SessionsInv'
<1> DEFINE l == [dir |-> d, messages |-> disk[d].lines, title |-> disk[d].title,
                 source |-> disk[d].source, place |-> disk[d].place]
<1>1. SessionTypes /\ Unbegun /\ LinesCounted
  BY DEF SessionsInv
<1>2. /\ savingSession.step = "idle" /\ Session!IsValid(d) /\ liveSession' = l
      /\ renaming' = [r \in Renames |-> [renaming[r] EXCEPT !.live = FALSE]]
      /\ raced' = (IF Session!Renaming(d) THEN raced \cup {d} ELSE raced)
      /\ disk' = disk /\ savingSession' = savingSession /\ begun' = begun /\ toldName' = toldName /\
           cutSave' = cutSave
  BY DEF Session!Resume, Session!Resumed, Session!diskVars
<1>3. /\ d <= begun
      /\ d \notin raced => /\ disk[d].source = (IF toldName[d] = "none" THEN "auto" ELSE "manual")
                           /\ toldName[d] # "none" => disk[d].title = toldName[d]
      /\ d \notin raced \cup cutSave => Session!IsInjective(disk[d].lines)
      /\ disk[d].lines \in Seq(Session!Messages) /\ disk[d].title \in Session!Titles /\
           disk[d].source \in TitleSources /\ disk[d].place \in Places
  BY <1>2, FoundAgain
<1>4. /\ l \in [dir : Session!Sessions, messages : Seq(Session!Messages), title : Session!Titles,
                source : TitleSources, place : Places]
      /\ l.dir = d /\ l.messages = disk[d].lines /\ l.title = disk[d].title /\ l.source = disk[d].source
  BY <1>3
<1> HIDE DEF l
<1>5. ASSUME NEW r \in Renames
      PROVE  /\ renaming'[r] \in [step : {"idle", "writing"}, dir : Session!Sessions, name : Given,
                                  total : Totals, live : BOOLEAN]
             /\ renaming'[r].step = renaming[r].step /\ renaming'[r].dir = renaming[r].dir /\
                  renaming'[r].total = renaming[r].total
             /\ renaming'[r].name = renaming[r].name
  <2> DEFINE q == renaming[r]
  <2>1. q \in [step : {"idle", "writing"}, dir : Session!Sessions, name : Given, total : Totals,
               live : BOOLEAN]
    BY <1>1 DEF SessionTypes
  <2>2. renaming'[r] = [q EXCEPT !.live = FALSE]
    BY <1>2
  <2> HIDE DEF q
  <2>3. renaming'[r].step = q.step /\ renaming'[r].dir = q.dir /\ renaming'[r].total = q.total /\
          renaming'[r].name = q.name
        /\ renaming'[r] \in [step : {"idle", "writing"}, dir : Session!Sessions, name : Given,
                             total : Totals, live : BOOLEAN]
    BY <2>1, <2>2
  <2> QED
    BY <2>3 DEF q
<1>6. renaming' \in [Renames -> [step : {"idle", "writing"}, dir : Session!Sessions, name : Given,
                                 total : Totals, live : BOOLEAN]]
  BY <1>2, <1>5
<1>7. ASSUME NEW r \in Renames, renaming'[r].step = "writing" PROVE renaming[r].dir # d \/ d \in raced'
  BY <1>2, <1>5, <1>7 DEF Session!Renaming
<1>8. raced \subseteq raced' /\ raced' \subseteq Session!Sessions /\
        cutSave \subseteq Session!Sessions /\ begun \in Session!Sessions /\ begun <= begun
  BY <1>1, <1>2, FirstSessionIs DEF SessionTypes
<1>9. savingSession \in [step : {"idle", "append", "meta"}, dir : Session!Sessions, old : Nat,
                         said : Seq(Session!Messages),
                title : Session!Titles, source : TitleSources]
  BY <1>1 DEF SessionTypes
<1>10. d \notin raced' \cup cutSave' => /\ Session!IsInjective(liveSession'.messages) /\
                                             Len(disk[d].lines) <= Len(liveSession'.messages)
                                        /\ \A i \in 1..Len(disk[d].lines) : disk[d].lines[i] = liveSession'.messages[i]
  BY <1>2, <1>3, <1>4, <1>8
<1>11. d \notin raced' => /\ liveSession'.source = (IF toldName[d] = "none" THEN "auto" ELSE "manual")
                          /\ toldName[d] # "none" => liveSession'.title = toldName[d]
  BY <1>2, <1>3, <1>4, <1>8
<1> QED
  BY <1>2, <1>3, <1>4, <1>5, <1>6, <1>7, <1>8, <1>9, <1>10, <1>11, AnotherSession

LEMMA SessionRestarts ==
  ASSUME Session!SessionsAssumption, SessionsInv, NEW p \in Places, NEW continues \in BOOLEAN,
           Session!Restart(p, continues)
  PROVE  SessionsInv'
<1>1. SessionTypes /\ Unbegun /\ LinesCounted
  BY DEF SessionsInv
<1>2. /\ cutSave' = (IF savingSession.step # "idle" THEN cutSave \cup {savingSession.dir} ELSE cutSave) /\ savingSession' = Session!Nothing
      /\ renaming' = [r \in Renames |-> Session!NotAsked]
      /\ disk' = disk /\ toldName' = toldName /\ raced' = raced
  BY DEF Session!Restart, Session!diskVars
<1>3. /\ raced \subseteq Session!Sessions /\ cutSave \subseteq cutSave' /\
           cutSave' \subseteq Session!Sessions /\ begun \in Session!Sessions /\ begun <= begun
      /\ (savingSession.step # "idle" => savingSession.dir \in cutSave')
  BY <1>1, <1>2, FirstSessionIs, SessionFields DEF SessionTypes
<1>4. /\ savingSession' \in [step : {"idle", "append", "meta"}, dir : Session!Sessions, old : Nat,
                             said : Seq(Session!Messages),
                    title : Session!Titles, source : TitleSources]
      /\ savingSession'.step = "idle"
  BY <1>2, FirstSessionIs
<1>5. /\ renaming' \in [Renames -> [step : {"idle", "writing"}, dir : Session!Sessions, name : Given,
                                    total : Totals, live : BOOLEAN]]
      /\ \A r \in Renames : renaming'[r].step = "idle"
  BY <1>2, FirstSessionIs
<1>6. CASE continues
  <2>1. PICK d \in Session!Sessions :
          /\ Session!Latest(d, p) /\ begun' = begun
          /\ liveSession' = [dir |-> d, messages |-> disk[d].lines, title |-> disk[d].title,
                             source |-> disk[d].source, place |-> p]
    BY <1>6 DEF Session!Restart
  <2>2. Session!IsValid(d)
    BY <2>1 DEF Session!Latest, Session!Listed
  <2>3. /\ d <= begun
        /\ d \notin raced => /\ disk[d].source = (IF toldName[d] = "none" THEN "auto" ELSE "manual")
                             /\ toldName[d] # "none" => disk[d].title = toldName[d]
        /\ d \notin raced \cup cutSave => Session!IsInjective(disk[d].lines)
        /\ disk[d].lines \in Seq(Session!Messages) /\ disk[d].title \in Session!Titles /\
             disk[d].source \in TitleSources
    BY <2>2, FoundAgain
  <2>4. /\ liveSession' \in [dir : Session!Sessions, messages : Seq(Session!Messages),
                             title : Session!Titles, source : TitleSources, place : Places]
        /\ liveSession'.dir = d /\ liveSession'.messages = disk[d].lines /\
             liveSession'.title = disk[d].title /\ liveSession'.source = disk[d].source
    BY <2>1, <2>3
  <2>5. d \notin raced' \cup cutSave' => /\ Session!IsInjective(liveSession'.messages) /\
                                              Len(disk[d].lines) <= Len(liveSession'.messages)
                                         /\ \A i \in 1..Len(disk[d].lines) : disk[d].lines[i] = liveSession'.messages[i]
    BY <1>2, <1>3, <2>3, <2>4
  <2>6. d \notin raced' => /\ liveSession'.source = (IF toldName[d] = "none" THEN "auto" ELSE "manual")
                           /\ toldName[d] # "none" => liveSession'.title = toldName[d]
    BY <1>2, <2>3, <2>4
  <2> QED
    BY <1>2, <1>3, <1>4, <1>5, <2>1, <2>3, <2>4, <2>5, <2>6, AnotherSession
<1>7. CASE ~continues
  <2> DEFINE d == begun + 1
  <2>1. begun < MaxSavedSessions /\ begun' = d /\ liveSession' = Session!Begun(d, p)
    BY <1>7 DEF Session!Restart
  <2>2. d \in Session!Sessions /\ begun <= d /\ d > begun
    BY <1>1, <2>1, FirstSessionIs DEF SessionTypes, Session!Sessions
  <2>3. ~Session!Saved(d) /\ disk[d].lines = <<>> /\ toldName[d] = "none"
    BY <1>1, <2>2 DEF Unbegun
  <2>4. /\ liveSession' \in [dir : Session!Sessions, messages : Seq(Session!Messages),
                             title : Session!Titles, source : TitleSources, place : Places]
        /\ liveSession'.dir = d /\ liveSession'.messages = <<>> /\ liveSession'.source = "auto"
    BY <2>1, <2>2, FirstSessionIs
  <2>5. Session!IsInjective(liveSession'.messages) /\ Len(disk[d].lines) = 0 /\
          Len(liveSession'.messages) = 0
    BY <2>3, <2>4 DEF Session!IsInjective
  <2>6. d \notin raced' \cup cutSave' => /\ Session!IsInjective(liveSession'.messages) /\
                                              Len(disk[d].lines) <= Len(liveSession'.messages)
                                         /\ \A i \in 1..Len(disk[d].lines) : disk[d].lines[i] = liveSession'.messages[i]
    BY <2>5
  <2>7. d \notin raced' => /\ liveSession'.source = (IF toldName[d] = "none" THEN "auto" ELSE "manual")
                           /\ toldName[d] # "none" => liveSession'.title = toldName[d]
    BY <2>3, <2>4
  <2>8. begun' \in Session!Sessions /\ begun <= begun' /\ d <= begun'
    BY <2>1, <2>2, FirstSessionIs
  <2> HIDE DEF d
  <2> QED
    BY <1>2, <1>3, <1>4, <1>5, <2>2, <2>4, <2>6, <2>7, <2>8, AnotherSession
<1> QED
  BY <1>6, <1>7


\* A name is given: a rename that does not know of another one is met by it.
LEMMA SessionIsRenamed ==
  ASSUME Session!SessionsAssumption, SessionsInv, NEW r \in Renames, NEW d \in Session!Sessions,
           NEW name \in Names, Session!RenameBegin(r, d, name)
  PROVE  SessionsInv'
<1>1. SessionTypes /\ Unbegun /\ LinesCounted /\ SavesAlone /\ Named /\ Copied
  BY DEF SessionsInv
<1>2. /\ renaming[r].step = "idle"
      /\ raced' = (IF Session!Saving(d) \/ Session!Renaming(d) THEN raced \cup {d} ELSE raced)
      /\ disk' = disk /\ savingSession' = savingSession /\ begun' = begun /\ cutSave' = cutSave
  BY DEF Session!RenameBegin, Session!diskVars
<1>3. raced \subseteq raced' /\ raced' \subseteq Session!Sessions /\ (Session!Saving(d) \/
                                                                      Session!Renaming(d) => d \in raced')
  BY <1>1, <1>2 DEF SessionTypes
<1>4. name \in Given /\ name \in Session!Titles /\ name # "none" /\ "manual" \in TitleSources
  BY DEF Given, Session!Titles, TitleSources, Session!SessionsAssumption
<1>5. CASE Session!Saved(d)
  <2> DEFINE n == [step |-> "writing", dir |-> d, name |-> name, total |-> disk[d].total,
                   live |-> d = liveSession.dir]
  <2>1. renaming' = [renaming EXCEPT ![r] = n] /\ liveSession' = liveSession /\ toldName' = toldName
    BY <1>5 DEF Session!RenameBegin
  <2>2. disk[d].total \in Totals /\ disk[d].lines \in Seq(Session!Messages)
    BY <1>1, SessionFields
  <2>3. /\ n \in [step : {"idle", "writing"}, dir : Session!Sessions, name : Given, total : Totals,
                  live : BOOLEAN]
        /\ n.step = "writing" /\ n.dir = d /\ n.total = disk[d].total /\
             n.live = (d = liveSession.dir) /\ n.name # "none"
    BY <1>4, <2>2
  <2> HIDE DEF n
  <2>4. renaming'[r] = n /\ \A s \in Renames \ {r} : renaming'[s] = renaming[s]
    BY <1>1, <2>1 DEF SessionTypes
  <2>5. SessionTypes'
    BY <1>1, <1>2, <1>3, <2>1, <2>3 DEF SessionTypes
  <2>6. Unbegun'
    BY <1>1, <1>2, <2>1 DEF Unbegun, Session!Saved
  <2>7. LinesCounted'
    <3>1. n.total \in 0..Len(disk[d].lines)
      BY <1>1, <1>5, <2>2, <2>3 DEF LinesCounted, Session!Saved, Totals
    <3>2. ASSUME NEW s \in Renames, renaming'[s].step = "writing"
          PROVE  /\ disk[renaming'[s].dir].total # Session!NoMeta /\
                      renaming'[s].total \in 0..Len(disk[renaming'[s].dir].lines)
                 /\ renaming'[s].name # "none"
      BY <1>1, <1>5, <2>3, <2>4, <3>1, <3>2 DEF Session!Saved, LinesCounted
    <3> QED
      BY <1>1, <1>2, <3>2 DEF LinesCounted, Session!Saved
  <2>8. SavesAlone'
    <3> SUFFICES ASSUME NEW s \in Renames PROVE AloneIn(s)'
      BY <1>2, <2>1 DEF SavesAlone
    <3>1. AloneIn(s)
      BY <1>1 DEF SavesAlone
    <3>2. d \notin raced' => ~Session!Saving(d) /\ \A o \in Renames : renaming[o].step = "writing" =>
            renaming[o].dir # d
      BY <1>3 DEF Session!Renaming
    <3>3. CASE s = r
      BY <1>2, <2>1, <2>3, <2>4, <3>2, <3>3 DEF AloneIn, Session!Saving
    <3>4. CASE s # r
      BY <1>2, <1>3, <2>1, <2>3, <2>4, <3>1, <3>2, <3>4 DEF AloneIn, Session!Saving
    <3> QED
      BY <3>3, <3>4
  <2>9. Named'
    BY <1>1, <1>2, <1>3, <2>1 DEF Named, NameOf, Session!Saved
  <2>10. Copied'
    BY <1>1, <1>2, <1>3, <2>1 DEF Copied, CopyOf, SavedCount, Session!Saved
  <2> QED
    BY <2>5, <2>6, <2>7, <2>8, <2>9, <2>10 DEF SessionsInv
<1>6. CASE ~Session!Saved(d)
  <2> DEFINE l == [liveSession EXCEPT !.title = name, !.source = "manual"]
  <2>1. liveSession' = l /\ toldName' = [toldName EXCEPT ![d] = name] /\ renaming' = renaming /\
          d = liveSession.dir
    BY <1>6 DEF Session!RenameBegin
  <2>2. /\ l \in [dir : Session!Sessions, messages : Seq(Session!Messages), title : Session!Titles,
                  source : TitleSources, place : Places]
        /\ l.dir = liveSession.dir /\ l.messages = liveSession.messages /\ l.title = name /\
             l.source = "manual"
    BY <1>1, <1>4 DEF SessionTypes
  <2> HIDE DEF l
  <2>3. toldName' \in [Session!Sessions -> Given] /\ toldName'[d] = name /\
          \A e \in Session!Sessions \ {d} : toldName'[e] = toldName[e]
    BY <1>1, <1>4, <2>1 DEF SessionTypes
  <2>4. SessionTypes'
    BY <1>1, <1>2, <1>3, <2>1, <2>2, <2>3 DEF SessionTypes
  <2>5. Unbegun'
    BY <1>1, <1>2, <2>1, <2>2, <2>3, FirstSessionIs DEF Unbegun, SessionTypes, Session!Saved
  <2>6. LinesCounted'
    BY <1>1, <1>2, <2>1 DEF LinesCounted, Session!Saved
  <2>7. SavesAlone'
    BY <1>1, <1>2, <1>3, <2>1, <2>2 DEF SavesAlone, AloneIn, Session!Saving
  <2>8. Named'
    <3> SUFFICES ASSUME NEW e \in Session!Sessions PROVE NameOf(e)'
      BY DEF Named
    <3>1. NameOf(e)
      BY <1>1 DEF Named
    <3>2. CASE e = d
      <4>1. d \notin raced' => ~(savingSession.step = "meta" /\ savingSession.dir = d)
        BY <1>3 DEF Session!Saving
      <4> QED
        BY <1>2, <1>4, <1>6, <2>1, <2>2, <2>3, <3>2, <4>1 DEF NameOf, Session!Saved
    <3>3. CASE e # d
      BY <1>2, <1>3, <2>1, <2>2, <2>3, <3>1, <3>3 DEF NameOf, Session!Saved
    <3> QED
      BY <3>2, <3>3
  <2>9. Copied'
    BY <1>1, <1>2, <1>3, <2>1, <2>2 DEF Copied, CopyOf, SavedCount, Session!Saved
  <2> QED
    BY <2>4, <2>5, <2>6, <2>7, <2>8, <2>9 DEF SessionsInv
<1> QED
  BY <1>5, <1>6

\* The name is written, with the count that was read before: of a session that nothing met it is the one that is there.
LEMMA SessionHasName ==
  ASSUME Session!SessionsAssumption, SessionsInv, NEW r \in Renames, Session!RenameWrite(r)
  PROVE  SessionsInv'
<1>1. SessionTypes /\ Unbegun /\ LinesCounted /\ SavesAlone /\ Named /\ Copied
  BY DEF SessionsInv
<1>2. PICK q : q = renaming[r]
  OBVIOUS
<1>3. PICK d : d = q.dir
  OBVIOUS
<1>4. /\ q.step = "writing" /\ renaming' = [renaming EXCEPT ![r] = Session!NotAsked]
      /\ disk' = [disk EXCEPT ![d].total = q.total, ![d].title = q.name, ![d].source = "manual"]
      /\ liveSession' = (IF q.live THEN [liveSession EXCEPT !.title = q.name,
                                         !.source = "manual"] ELSE liveSession)
      /\ toldName' = [toldName EXCEPT ![d] = q.name]
      /\ raced' = (IF q.live /\ liveSession.dir # d THEN raced \cup {liveSession.dir} ELSE raced)
      /\ savingSession' = savingSession /\ begun' = begun /\ cutSave' = cutSave
  BY <1>2, <1>3 DEF Session!RenameWrite
<1>5. /\ d \in Session!Sessions /\ q.name \in Given /\ q.total \in Totals /\ q.live \in BOOLEAN
      /\ disk[d].total # Session!NoMeta /\ q.total \in 0..Len(disk[d].lines) /\
           disk[d].lines \in Seq(Session!Messages) /\ liveSession.dir \in Session!Sessions
  BY <1>1, <1>2, <1>3, <1>4, SessionFields DEF LinesCounted, Session!Saved
<1>6. d \notin raced => /\ ~Session!Saving(d) /\ (liveSession.dir = d => q.live) /\ q.total = disk[d].total
                        /\ \A s \in Renames : renaming[s].step = "writing" /\ renaming[s].dir = d => s = r
  BY <1>1, <1>2, <1>3, <1>4 DEF SavesAlone, AloneIn
<1>7. raced \subseteq raced' /\ raced' \subseteq Session!Sessions /\ (q.live /\ liveSession.dir # d =>
                                                                      liveSession.dir \in raced')
  BY <1>1, <1>4, <1>5 DEF SessionTypes
<1>8. q.name \in Session!Titles /\ "manual" \in TitleSources
  BY <1>5 DEF Given, Session!Titles, TitleSources
<1>9. q.name # "none"
  BY <1>1, <1>2, <1>4 DEF LinesCounted
<1> DEFINE n == [disk[d] EXCEPT !.total = q.total, !.title = q.name, !.source = "manual"]
           l == [liveSession EXCEPT !.title = q.name, !.source = "manual"]
<1>10. disk' = [disk EXCEPT ![d] = n]
  BY <1>1, <1>4, <1>5 DEF SessionTypes
<1>11. /\ n \in [lines : Seq(Session!Messages), total : Totals, title : Session!Titles,
                 source : TitleSources, place : Places]
       /\ n.lines = disk[d].lines /\ n.total = q.total /\ n.title = q.name /\ n.source = "manual"
  <2> DEFINE o == disk[d]
  <2>1. o \in [lines : Seq(Session!Messages), total : Totals, title : Session!Titles,
               source : TitleSources, place : Places]
    BY <1>1, <1>5 DEF SessionTypes
  <2> HIDE DEF o
  <2>2. [o EXCEPT !.total = q.total, !.title = q.name, !.source = "manual"]
          \in [lines : Seq(Session!Messages), total : Totals, title : Session!Titles,
               source : TitleSources, place : Places]
    BY <1>5, <1>8, <2>1
  <2> QED
    BY <1>1, <1>5, <1>8, <2>2 DEF o, SessionTypes
<1>12. /\ l \in [dir : Session!Sessions, messages : Seq(Session!Messages), title : Session!Titles,
                 source : TitleSources, place : Places]
       /\ l.dir = liveSession.dir /\ l.messages = liveSession.messages /\ l.title = q.name /\
            l.source = "manual"
  BY <1>1, <1>8 DEF SessionTypes
<1>13. liveSession' = IF q.live THEN l ELSE liveSession
  BY <1>4
<1> HIDE DEF n, l
<1>14. disk'[d] = n /\ \A e \in Session!Sessions \ {d} : disk'[e] = disk[e]
  BY <1>1, <1>5, <1>10 DEF SessionTypes
<1>15. toldName' \in [Session!Sessions -> Given] /\ toldName'[d] = q.name /\
         \A e \in Session!Sessions \ {d} : toldName'[e] = toldName[e]
  BY <1>1, <1>4, <1>5 DEF SessionTypes
<1>16. renaming'[r] = Session!NotAsked /\ \A s \in Renames \ {r} : renaming'[s] = renaming[s]
  BY <1>1, <1>4 DEF SessionTypes
<1>17. /\ liveSession' \in [dir : Session!Sessions, messages : Seq(Session!Messages),
                            title : Session!Titles, source : TitleSources, place : Places]
       /\ liveSession'.dir = liveSession.dir /\ liveSession'.messages = liveSession.messages
  BY <1>1, <1>12, <1>13 DEF SessionTypes
<1>18. q.total # Session!NoMeta /\ q.total <= Len(disk[d].lines)
  BY <1>5 DEF Session!NoMeta
<1>19. (disk'[d].total # Session!NoMeta) /\
         \A e \in Session!Sessions : disk'[e].lines = disk[e].lines /\
           (disk'[e].total # Session!NoMeta <=> disk[e].total # Session!NoMeta)
  BY <1>5, <1>11, <1>14, <1>18
<1>20. SessionTypes'
  <2>1. disk' \in [Session!Sessions -> [lines : Seq(Session!Messages), total : Totals,
                                        title : Session!Titles, source : TitleSources, place : Places]]
    BY <1>1, <1>10, <1>11 DEF SessionTypes
  <2>2. renaming' \in [Renames -> [step : {"idle", "writing"}, dir : Session!Sessions, name : Given,
                                   total : Totals, live : BOOLEAN]]
    BY <1>1, <1>4, FirstSessionIs DEF SessionTypes
  <2> QED
    BY <1>1, <1>4, <1>7, <1>15, <1>17, <2>1, <2>2 DEF SessionTypes
<1>21. Unbegun'
  BY <1>1, <1>4, <1>5, <1>14, <1>15, <1>17 DEF Unbegun, Session!Saved
<1>22. LinesCounted'
  <2>1. \A e \in Session!Sessions : disk'[e].total <= Len(disk'[e].lines)
    BY <1>1, <1>11, <1>14, <1>18, <1>19 DEF LinesCounted
  <2>2. ASSUME NEW s \in Renames, renaming'[s].step = "writing"
        PROVE  /\ disk'[renaming'[s].dir].total # Session!NoMeta /\
                    renaming'[s].total \in 0..Len(disk'[renaming'[s].dir].lines)
               /\ renaming'[s].name # "none"
    <3>1. s # r
      BY <1>16, <2>2, FirstSessionIs
    <3>2. renaming'[s] = renaming[s] /\ renaming[s].dir \in Session!Sessions
      BY <1>1, <1>16, <3>1, SessionFields
    <3> QED
      BY <1>1, <1>19, <2>2, <3>2 DEF LinesCounted, Session!Saved
  <2>3. savingSession.dir \in Session!Sessions
    BY <1>1, SessionFields
  <2> QED
    BY <1>1, <1>4, <1>19, <2>1, <2>2, <2>3 DEF LinesCounted, Session!Saved
<1>23. SavesAlone'
  <2> SUFFICES ASSUME NEW s \in Renames, s # r PROVE AloneIn(s)'
    BY <1>16, FirstSessionIs DEF SavesAlone, AloneIn
  <2>1. AloneIn(s) /\ renaming[s].dir \in Session!Sessions
    BY <1>1, SessionFields DEF SavesAlone
  <2>2. renaming[s].step = "writing" /\ renaming[s].dir \notin raced => renaming[s].dir # d
    BY <1>2, <1>3, <1>4, <2>1 DEF AloneIn
  <2>3. \A o \in Renames : renaming'[o].step = "writing" => o # r /\ renaming'[o] = renaming[o]
    BY <1>16, FirstSessionIs
  <2> QED
    BY <1>4, <1>7, <1>14, <1>16, <1>17, <2>1, <2>2, <2>3 DEF AloneIn, Session!Saving
<1>24. Named'
  <2> SUFFICES ASSUME NEW e \in Session!Sessions PROVE NameOf(e)'
    BY DEF Named
  <2>1. NameOf(e)
    BY <1>1 DEF Named
  <2>2. CASE e = d
    <3>1. d \notin raced' => ~(savingSession.step = "meta" /\ savingSession.dir = d)
      BY <1>6, <1>7 DEF Session!Saving
    <3>2. d \notin raced' /\ liveSession.dir = d => liveSession'.source = "manual" /\
            liveSession'.title = q.name
      BY <1>6, <1>7, <1>12, <1>13
    <3>3. disk'[d].title = q.name /\ disk'[d].source = "manual"
      BY <1>11, <1>14
    <3> QED
      BY <1>4, <1>9, <1>15, <1>17, <2>2, <3>1, <3>2, <3>3 DEF NameOf, NamedAs
  <2>3. CASE e # d
    <3>1. e \notin raced' /\ liveSession.dir = e => liveSession' = liveSession
      BY <1>7, <1>13, <2>3
    <3> QED
      BY <1>4, <1>7, <1>14, <1>15, <1>17, <2>1, <2>3, <3>1 DEF NameOf, Session!Saved
  <2> QED
    BY <2>2, <2>3
<1>25. Copied'
  <2> SUFFICES ASSUME NEW e \in Session!Sessions PROVE CopyOf(e)'
    BY DEF Copied
  <2>1. CopyOf(e)
    BY <1>1 DEF Copied
  <2>2. ASSUME e \notin raced PROVE disk'[e].total = disk[e].total
    BY <1>6, <1>11, <1>14, <2>2
  <2>3. e \notin raced => SavedCount(e)' = SavedCount(e)
    BY <2>2 DEF SavedCount, Session!Saved
  <2> QED
    BY <1>4, <1>7, <1>17, <1>19, <2>1, <2>3 DEF CopyOf
<1> QED
  BY <1>20, <1>21, <1>22, <1>23, <1>24, <1>25 DEF SessionsInv

LEMMA SessionsStep ==
  ASSUME Session!SessionsAssumption, SessionsInv, [Session!SessionsNext]_Session!sessionsVars
  PROVE  SessionsInv'
<1>1. CASE UNCHANGED Session!sessionsVars
  <2>1. /\ disk' = disk /\ liveSession' = liveSession /\ savingSession' = savingSession /\
             renaming' = renaming /\ begun' = begun /\ toldName' = toldName
        /\ raced' = raced /\ cutSave' = cutSave
    BY <1>1 DEF Session!sessionsVars
  <2> QED
    BY <2>1 DEF SessionsInv, SessionTypes, Unbegun, LinesCounted, SavesAlone, AloneIn, Named, NameOf,
                Copied, CopyOf, SavedCount, Session!Saved, Session!Saving
<1>2. CASE Session!SessionsNext
  <2>1. CASE \E message \in Session!Messages : Session!Say(message)
    BY <2>1, SessionSays
  <2>2. CASE Session!SaveBegin \/ Session!SaveAppend \/ Session!SaveMeta \/ Session!SaveCut
    BY <2>2, SessionSaveBegins, SessionAppends, SessionSaved, SessionSaveCut
  <2>3. CASE \E n \in 0..Len(liveSession.messages) : Session!ResetSession(n)
    BY <2>3, SessionResets
  <2>4. CASE \E r \in Renames : Session!RenameWrite(r) \/
               \E d \in Session!Sessions, name \in Names : Session!RenameBegin(r, d, name)
    BY <2>4, SessionHasName, SessionIsRenamed
  <2>5. CASE \E d \in Session!Sessions : Session!Resume(d)
    BY <2>5, SessionResumes
  <2>6. CASE \E p \in Places, continues \in BOOLEAN : Session!Restart(p, continues)
    BY <2>6, SessionRestarts
  <2> QED
    BY <1>2, <2>1, <2>2, <2>3, <2>4, <2>5, <2>6 DEF Session!SessionsNext
<1> QED
  BY <1>1, <1>2

-----------------------------------------------------------------------------
(* The rows of the conversation. DisplayInv: rows have ids of their own,   *)
(* the text of a row is written but for what is held back, what spins is   *)
(* under way, and a call that has no result has a row, below which no      *)
(* result stands.                                                          *)

Kinds == {"reply", "thought", "call", "result", "compact", "user", "hooks"}
RowType == [id : Nat, kind : Kinds, call : ShownCalls \cup {NoCall}, content : Seq(Nat),
            written : Seq(Nat), buffer : Seq(Nat),
            folded : BOOLEAN, spins : BOOLEAN]

DisplayTypes ==
  /\ rows \in Seq(RowType)
  /\ currentRows \in [reply : Nat, thought : Nat, compact : Nat, hooks : Nat]
  /\ tracked \in [ShownCalls -> 0..MaxShown] /\ atBottom \in BOOLEAN
  /\ feed \in [from : {"none", "turn", "remote"}, called : SUBSET ShownCalls,
               answered : SUBSET ShownCalls, within : {"none", "compact", "hooks"}]
  /\ feed.answered \subseteq feed.called
  /\ shownEvents \in 0..MaxShown /\ brokenRows \in [compaction : BOOLEAN, remote : BOOLEAN]

\* The rows have ids of their own, each of an event that was shown.
Identified(rs, n) ==
  /\ \A i \in DOMAIN rs : rs[i].id \in 1..n
  /\ \A i, j \in DOMAIN rs : rs[i].id = rs[j].id => i = j

\* What is being written, and by whom.
KindsKept(rs, cur) ==
  \A i \in DOMAIN rs : /\ rs[i].id = cur.reply => rs[i].kind = "reply"
                       /\ rs[i].id = cur.thought => rs[i].kind = "thought"
                       /\ rs[i].id = cur.compact => rs[i].kind = "compact"
                       /\ rs[i].id = cur.hooks => rs[i].kind = "hooks"
Currently ==
  /\ currentRows.reply <= shownEvents /\ currentRows.thought <= shownEvents /\
       currentRows.compact <= shownEvents /\ currentRows.hooks <= shownEvents
  /\ KindsKept(rows, currentRows)
  /\ feed.from = "none" => currentRows.reply = 0 /\ currentRows.thought = 0 /\ feed.called = {} /\
       feed.answered = {}
  /\ feed.from # "turn" => feed.within = "none"

TextOk(row) ==
  /\ ~row.folded => row.written \o row.buffer = row.content
  /\ row.kind = "hooks" => row.written = row.content /\ row.buffer = <<>>
Texts(rs, cur) == \A i \in DOMAIN rs : TextOk(rs[i]) /\ (rs[i].buffer # <<>> =>
                                                         rs[i].id \in {cur.reply, cur.thought})

\* What spins is under way, unless nothing could end it.
MaySpin(row, cur, tr, fd, fl) ==
  \/ row.kind = "thought" /\ row.id = cur.thought
  \/ row.kind = "call" /\ (fl.remote \/ (row.call \in fd.called \ fd.answered /\ row.id = tr[row.call]))
  \/ row.kind = "compact" /\ (fl.compaction \/ (fd.within = "compact" /\ row.id = cur.compact))
Spins(rs, cur, tr, fd, fl) == \A i \in DOMAIN rs : rs[i].spins => MaySpin(rs[i], cur, tr, fd, fl)

\* A call that has no result yet is known by its row, and no result follows that.
HasRow(rs, c, id) ==
  \E p \in DOMAIN rs : /\ rs[p].id = id /\ rs[p].kind = "call" /\ rs[p].call = c
                       /\ p + 1 \in DOMAIN rs => rs[p + 1].kind # "result"
IsShown(rs, c) == \E p \in DOMAIN rs : rs[p].kind = "call" /\ rs[p].call = c
Paired(rs) ==
  \A i \in DOMAIN rs : rs[i].kind = "result" => i > 1 /\ rs[i - 1].kind = "call" /\
    rs[i - 1].call = rs[i].call
CallRows(rs, tr, fd) ==
  /\ \A c \in ShownCalls : tr[c] # 0 => c \in fd.called \ fd.answered /\ HasRow(rs, c, tr[c])
  /\ \A c \in fd.called \ fd.answered : tr[c] # 0
  /\ \A c \in fd.called : IsShown(rs, c)
  /\ Paired(rs)

DisplayInv ==
  /\ DisplayTypes /\ Identified(rows, shownEvents) /\ Currently /\ Texts(rows, currentRows)
  /\ Spins(rows, currentRows, tracked, feed, brokenRows) /\ (~brokenRows.remote =>
                                                             CallRows(rows, tracked, feed))

\* What rows become that lose nothing and start nothing.
Keeps(new, old) ==
  /\ new \in RowType /\ new.id = old.id /\ new.kind = old.kind /\ new.call = old.call
  /\ TextOk(old) => TextOk(new)
  /\ new.buffer # <<>> => old.buffer # <<>>
  /\ new.spins => old.spins
KeptRows(rs, new) == new \in Seq(RowType) /\ DOMAIN new = DOMAIN rs /\
  \A i \in DOMAIN rs : Keeps(new[i], rs[i])

\* The rows are those from before, and one more.
FromRows(new, rs, row) == \A i \in DOMAIN new : new[i] = row \/ \E j \in DOMAIN rs : new[i] = rs[j]

-----------------------------------------------------------------------------
LEMMA StillIs ==
  ASSUME NEW row \in RowType
  PROVE  Keeps(Display!Still(row), row) /\ ~Display!Still(row).spins
<1> DEFINE new == [row EXCEPT !.spins = FALSE]
<1>1. /\ new \in RowType /\ new.id = row.id /\ new.kind = row.kind /\ new.call = row.call /\
           new.content = row.content
      /\ new.written = row.written /\ new.buffer = row.buffer /\ new.folded = row.folded /\ ~new.spins
  BY DEF RowType
<1>2. Display!Still(row) = new
  BY DEF Display!Still
<1> HIDE DEF new
<1> QED
  BY <1>1, <1>2 DEF Keeps, TextOk

LEMMA StoppedIs ==
  ASSUME NEW row \in RowType
  PROVE  Keeps(Display!Stopped(row), row) /\ Display!Stopped(row).buffer = <<>>
<1> DEFINE written == IF row.folded THEN row.written ELSE row.written \o row.buffer
           new == [row EXCEPT !.written = written, !.buffer = <<>>]
<1>1. row.written \in Seq(Nat) /\ row.buffer \in Seq(Nat) /\ row.content \in Seq(Nat) /\
        row.folded \in BOOLEAN
  BY DEF RowType
<1>2. written \in Seq(Nat) /\ written \o <<>> = written /\ <<>> \in Seq(Nat)
  BY <1>1
<1>3. Display!Stopped(row) = new
  BY DEF Display!Stopped
<1>4. row.folded \/ written = row.written \o row.buffer
  OBVIOUS
<1>5. row.buffer = <<>> => written = row.written
  BY <1>1
<1> HIDE DEF written
<1>6. /\ new \in RowType /\ new.id = row.id /\ new.kind = row.kind /\ new.call = row.call /\
           new.content = row.content
      /\ new.written = written /\ new.buffer = <<>> /\ new.folded = row.folded /\ new.spins = row.spins
  BY <1>2 DEF RowType
<1> HIDE DEF new
<1> QED
  BY <1>2, <1>3, <1>4, <1>5, <1>6 DEF Keeps, TextOk

LEMMA KeepsBoth ==
  ASSUME NEW row, NEW mid, NEW new, Keeps(mid, row), Keeps(new, mid)
  PROVE  Keeps(new, row)
BY DEF Keeps

LEMMA KeepsSame ==
  ASSUME NEW row \in RowType
  PROVE  Keeps(row, row)
BY DEF Keeps

LEMMA RowsAre ==
  ASSUME NEW rs \in Seq(RowType)
  PROVE  Len(rs) \in Nat /\ DOMAIN rs = 1..Len(rs) /\ \A i \in DOMAIN rs : rs[i] \in RowType
OBVIOUS

LEMMA MappedAre ==
  ASSUME NEW rs \in Seq(RowType), NEW new, new = [i \in DOMAIN rs |-> new[i]],
           \A i \in DOMAIN rs : new[i] \in RowType
  PROVE  new \in Seq(RowType) /\ DOMAIN new = DOMAIN rs /\ Len(new) = Len(rs)
<1>1. Len(rs) \in Nat /\ DOMAIN rs = 1..Len(rs)
  OBVIOUS
<1>2. new \in [1..Len(rs) -> RowType]
  BY <1>1
<1>3. new \in Seq(RowType)
  BY <1>1, <1>2
<1> QED
  BY <1>1, <1>3

LEMMA FinalIs ==
  ASSUME NEW rs \in Seq(RowType), NEW id
  PROVE  /\ KeptRows(rs, Display!Final(rs, id))
         /\ \A i \in DOMAIN rs : rs[i].id = id => Display!Final(rs, id)[i].buffer = <<>> /\
              ~Display!Final(rs, id)[i].spins
<1> DEFINE new == Display!Final(rs, id)
<1>1. new = [i \in DOMAIN rs |-> IF rs[i].id = id THEN Display!Still(Display!Stopped(rs[i])) ELSE rs[i]]
  BY DEF Display!Final
<1>2. ASSUME NEW i \in DOMAIN rs
      PROVE  /\ Keeps(new[i], rs[i])
             /\ rs[i].id = id => new[i].buffer = <<>> /\ ~new[i].spins
  <2>1. rs[i] \in RowType
    BY RowsAre
  <2>2. CASE rs[i].id = id
    BY <1>1, <2>1, <2>2, StoppedIs, StillIs, KeepsBoth DEF Keeps
  <2>3. CASE rs[i].id # id
    BY <1>1, <2>1, <2>3, KeepsSame
  <2> QED
    BY <2>2, <2>3
<1> HIDE DEF new
<1>3. new = [i \in DOMAIN rs |-> new[i]] /\ \A i \in DOMAIN rs : new[i] \in RowType
  BY <1>1, <1>2 DEF Keeps
<1>4. new \in Seq(RowType) /\ DOMAIN new = DOMAIN rs
  BY <1>3, MappedAre
<1> QED
  BY <1>2, <1>4 DEF KeptRows, new

LEMMA KeptBoth ==
  ASSUME NEW rs, NEW mid, NEW new, KeptRows(rs, mid), KeptRows(mid, new)
  PROVE  KeptRows(rs, new)
BY KeepsBoth DEF KeptRows

\* finalize_streaming: what was being written is complete.
LEMMA FinalizedIs ==
  ASSUME rows \in Seq(RowType)
  PROVE  /\ KeptRows(rows, Display!Finalized)
         /\ \A i \in DOMAIN rows : rows[i].id \in {currentRows.reply, currentRows.thought} =>
              Display!Finalized[i].buffer = <<>> /\ ~Display!Finalized[i].spins
<1> DEFINE mid == Display!Final(rows, currentRows.thought)
           new == Display!Final(mid, currentRows.reply)
<1>1. /\ KeptRows(rows, mid)
      /\ \A i \in DOMAIN rows : rows[i].id = currentRows.thought => mid[i].buffer = <<>> /\ ~mid[i].spins
  BY FinalIs
<1> HIDE DEF mid
<1>2. mid \in Seq(RowType) /\ DOMAIN mid = DOMAIN rows /\ \A i \in DOMAIN rows : mid[i].id = rows[i].id
  BY <1>1 DEF KeptRows, Keeps
<1>3. /\ KeptRows(mid, new)
      /\ \A i \in DOMAIN rows : rows[i].id = currentRows.reply => new[i].buffer = <<>> /\ ~new[i].spins
  BY <1>2, FinalIs
<1>4. Display!Finalized = new
  BY DEF Display!Finalized, mid
<1> HIDE DEF new
<1>5. \A i \in DOMAIN rows : /\ new[i].buffer # <<>> => mid[i].buffer # <<>>
                             /\ new[i].spins => mid[i].spins
  BY <1>2, <1>3 DEF KeptRows, Keeps
<1> QED
  BY <1>1, <1>3, <1>4, <1>5, KeptBoth

\* Rows that are kept stay where they are.
LEMMA KeptShape ==
  ASSUME NEW rs \in Seq(RowType), NEW new, KeptRows(rs, new)
  PROVE  /\ \A n : Identified(rs, n) => Identified(new, n)
         /\ \A cur : KindsKept(rs, cur) => KindsKept(new, cur)
         /\ \A c, id : HasRow(rs, c, id) => HasRow(new, c, id)
         /\ \A c : IsShown(rs, c) => IsShown(new, c)
         /\ Paired(rs) => Paired(new)
         /\ \A cur : Texts(rs, cur) => Texts(new, cur)
         /\ \A cur, tr, fd, fl : Spins(rs, cur, tr, fd, fl) => Spins(new, cur, tr, fd, fl)
<1>1. /\ DOMAIN new = DOMAIN rs
      /\ \A i \in DOMAIN rs : /\ new[i].id = rs[i].id /\ new[i].kind = rs[i].kind /\
                                   new[i].call = rs[i].call
                              /\ (TextOk(rs[i]) => TextOk(new[i])) /\ (new[i].buffer # <<>> =>
                                   rs[i].buffer # <<>>)
                              /\ (new[i].spins => rs[i].spins)
  BY DEF KeptRows, Keeps
<1>2. \A n : Identified(rs, n) => Identified(new, n)
  BY <1>1 DEF Identified
<1>3. \A cur : KindsKept(rs, cur) => KindsKept(new, cur)
  BY <1>1 DEF KindsKept
<1>4. \A c, id : HasRow(rs, c, id) => HasRow(new, c, id)
  BY <1>1 DEF HasRow
<1>5. \A c : IsShown(rs, c) => IsShown(new, c)
  BY <1>1 DEF IsShown
<1>6. Paired(rs) => Paired(new)
  BY <1>1, RowsAre DEF Paired
<1>7. \A cur : Texts(rs, cur) => Texts(new, cur)
  BY <1>1 DEF Texts
<1>8. \A cur, tr, fd, fl : Spins(rs, cur, tr, fd, fl) => Spins(new, cur, tr, fd, fl)
  BY <1>1 DEF Spins, MaySpin
<1> QED
  BY <1>2, <1>3, <1>4, <1>5, <1>6, <1>7, <1>8


\* What is said of every row holds of the rows from before and one more.
LEMMA FromShape ==
  ASSUME NEW rs, NEW new, NEW row, FromRows(new, rs, row)
  PROVE  /\ \A cur : KindsKept(rs, cur)
                     /\ (row.id = cur.reply => row.kind = "reply") /\ (row.id = cur.thought =>
                          row.kind = "thought")
                     /\ (row.id = cur.compact => row.kind = "compact") /\ (row.id = cur.hooks =>
                          row.kind = "hooks")
                     => KindsKept(new, cur)
         /\ \A cur : Texts(rs, cur) /\ TextOk(row) /\ row.buffer = <<>> => Texts(new, cur)
         /\ \A cur, tr, fd, fl : Spins(rs, cur, tr, fd, fl) /\ (row.spins => MaySpin(row, cur, tr, fd, fl))
                                 => Spins(new, cur, tr, fd, fl)
<1>1. \A cur : KindsKept(rs, cur)
               /\ (row.id = cur.reply => row.kind = "reply") /\ (row.id = cur.thought =>
                                                                 row.kind = "thought")
               /\ (row.id = cur.compact => row.kind = "compact") /\ (row.id = cur.hooks =>
                                                                     row.kind = "hooks")
               => KindsKept(new, cur)
  BY DEF FromRows, KindsKept
<1>2. \A cur : Texts(rs, cur) /\ TextOk(row) /\ row.buffer = <<>> => Texts(new, cur)
  BY DEF FromRows, Texts
<1>3. \A cur, tr, fd, fl : Spins(rs, cur, tr, fd, fl) /\ (row.spins => MaySpin(row, cur, tr, fd, fl))
                           => Spins(new, cur, tr, fd, fl)
  BY DEF FromRows, Spins
<1> QED
  BY <1>1, <1>2, <1>3

\* A row is added at the end.
LEMMA AddedShape ==
  ASSUME NEW rs \in Seq(RowType), NEW row \in RowType, NEW n \in Nat, Identified(rs, n),
           row.id = n + 1, row.kind # "result"
  PROVE  LET new == Append(rs, row) IN
         /\ new \in Seq(RowType) /\ FromRows(new, rs, row) /\ Identified(new, n + 1)
         /\ \A c, id : HasRow(rs, c, id) => HasRow(new, c, id)
         /\ \A c : IsShown(rs, c) => IsShown(new, c)
         /\ Paired(rs) => Paired(new)
         /\ row.kind = "call" => HasRow(new, row.call, n + 1) /\ IsShown(new, row.call)
<1> DEFINE new == Append(rs, row)
           k == Len(rs)
<1>1. /\ new \in Seq(RowType) /\ k \in Nat /\ DOMAIN rs = 1..k /\ DOMAIN new = 1..(k + 1) /\
           new[k + 1] = row
      /\ \A i \in 1..k : new[i] = rs[i]
  OBVIOUS
<1> HIDE DEF new, k
<1>2. FromRows(new, rs, row)
  BY <1>1 DEF FromRows
<1>3. Identified(new, n + 1)
  BY <1>1 DEF Identified
<1>4. ASSUME NEW c, NEW id, HasRow(rs, c, id) PROVE HasRow(new, c, id)
  BY <1>1, <1>4 DEF HasRow
<1>5. \A c : IsShown(rs, c) => IsShown(new, c)
  BY <1>1 DEF IsShown
<1>6. Paired(rs) => Paired(new)
  BY <1>1 DEF Paired
<1>7. row.kind = "call" => HasRow(new, row.call, n + 1) /\ IsShown(new, row.call)
  BY <1>1 DEF HasRow, IsShown
<1> QED
  BY <1>1, <1>2, <1>3, <1>4, <1>5, <1>6, <1>7 DEF new

\* A row that is of no call is removed.
LEMMA RemovedAre ==
  ASSUME NEW rs \in Seq(RowType), NEW k \in DOMAIN rs
  PROVE  LET new == Display!RemoveAt(rs, k) IN
         /\ new \in Seq(RowType) /\ DOMAIN new = 1..(Len(rs) - 1)
         /\ \A i \in 1..(Len(rs) - 1) : new[i] = IF i < k THEN rs[i] ELSE rs[i + 1]
<1> DEFINE a == SubSeq(rs, 1, k - 1)
           b == SubSeq(rs, k + 1, Len(rs))
<1>1. Len(rs) \in Nat /\ k \in 1..Len(rs)
  OBVIOUS
<1>2. a \in Seq(RowType) /\ Len(a) = k - 1 /\ \A i \in 1..(k - 1) : a[i] = rs[i]
  BY <1>1
<1>3. b \in Seq(RowType) /\ Len(b) = Len(rs) - k /\ \A i \in 1..(Len(rs) - k) : b[i] = rs[k + i]
  BY <1>1
<1>4. Display!RemoveAt(rs, k) = a \o b
  BY DEF Display!RemoveAt
<1> HIDE DEF a, b
<1>5. a \o b \in Seq(RowType) /\ Len(a \o b) = Len(rs) - 1
      /\ \A i \in 1..(Len(rs) - 1) : (a \o b)[i] = IF i <= k - 1 THEN a[i] ELSE b[i - (k - 1)]
  BY <1>1, <1>2, <1>3
<1>6. ASSUME NEW i \in 1..(Len(rs) - 1) PROVE (a \o b)[i] = IF i < k THEN rs[i] ELSE rs[i + 1]
  <2>1. CASE i < k
    BY <1>1, <1>2, <1>5, <2>1
  <2>2. CASE i >= k
    <3>1. i - (k - 1) \in 1..(Len(rs) - k) /\ k + (i - (k - 1)) = i + 1
      BY <1>1, <2>2
    <3>2. ~(i <= k - 1) /\ ~(i < k)
      BY <1>1, <2>2
    <3>3. (a \o b)[i] = b[i - (k - 1)]
      BY <1>5, <3>2
    <3>4. b[i - (k - 1)] = rs[i + 1]
      BY <1>3, <3>1
    <3> QED
      BY <3>2, <3>3, <3>4
  <2>3. i \in Int /\ k \in Int
    BY <1>1
  <2>4. i < k \/ i >= k
    BY <2>3
  <2> QED
    BY <2>1, <2>2, <2>4
<1>7. DOMAIN (a \o b) = 1..(Len(rs) - 1)
  BY <1>5
<1> QED
  BY <1>4, <1>5, <1>6, <1>7

LEMMA RemovedShape ==
  ASSUME NEW rs \in Seq(RowType), NEW k \in DOMAIN rs, rs[k].kind \notin {"call", "result"}
  PROVE  LET new == Display!RemoveAt(rs, k) IN
         /\ new \in Seq(RowType) /\ FromRows(new, rs, rs[1])
         /\ \A n : Identified(rs, n) => Identified(new, n)
         /\ \A c, id : Paired(rs) /\ HasRow(rs, c, id) => HasRow(new, c, id)
         /\ \A c : IsShown(rs, c) => IsShown(new, c)
         /\ Paired(rs) => Paired(new)
<1> DEFINE new == Display!RemoveAt(rs, k)
           m == Len(rs)
<1>1. /\ new \in Seq(RowType) /\ DOMAIN new = 1..(m - 1) /\ DOMAIN rs = 1..m /\ m \in Nat /\ k \in 1..m
      /\ \A i \in 1..(m - 1) : new[i] = IF i < k THEN rs[i] ELSE rs[i + 1]
  BY RemovedAre, RowsAre
<1> HIDE DEF new, m
<1>2. \A i \in 1..(m - 1) : (i < k /\ i \in 1..m /\ new[i] = rs[i]) \/ (i >= k /\ i + 1 \in 1..m /\
        new[i] = rs[i + 1])
  BY <1>1
<1>3. FromRows(new, rs, rs[1])
  BY <1>1, <1>2 DEF FromRows
<1>4. ASSUME NEW n, Identified(rs, n) PROVE Identified(new, n)
  <2>1. \A i \in 1..(m - 1) : new[i].id \in 1..n
    BY <1>1, <1>2, <1>4 DEF Identified
  <2>2. ASSUME NEW i \in 1..(m - 1), NEW j \in 1..(m - 1), new[i].id = new[j].id PROVE i = j
    <3>1. \A q, r \in 1..m : rs[q].id = rs[r].id => q = r
      BY <1>1, <1>4 DEF Identified
    <3>2. CASE i < k /\ j < k
      BY <1>2, <2>2, <3>1, <3>2
    <3>3. CASE i < k /\ j >= k
      BY <1>1, <1>2, <2>2, <3>1, <3>3
    <3>4. CASE i >= k /\ j < k
      BY <1>1, <1>2, <2>2, <3>1, <3>4
    <3>5. CASE i >= k /\ j >= k
      BY <1>1, <1>2, <2>2, <3>1, <3>5
    <3> QED
      BY <1>1, <3>2, <3>3, <3>4, <3>5
  <2> QED
    BY <1>1, <2>1, <2>2 DEF Identified
<1>5. ASSUME NEW p \in 1..m, rs[p].kind = "call"
      PROVE  \E q \in 1..(m - 1) : (q < k /\ q = p) \/ (q >= k /\ q + 1 = p)
  <2>1. p # k
    BY <1>5
  <2>2. CASE p < k
    BY <1>1, <2>2
  <2>3. CASE p > k
    <3>1. p - 1 \in 1..(m - 1) /\ p - 1 >= k /\ (p - 1) + 1 = p
      BY <1>1, <2>3
    <3> QED
      BY <3>1
  <2> QED
    BY <1>1, <2>1, <2>2, <2>3
<1>6. ASSUME NEW c, NEW id, Paired(rs), HasRow(rs, c, id) PROVE HasRow(new, c, id)
  <2>1. PICK p \in 1..m : /\ rs[p].id = id /\ rs[p].kind = "call" /\ rs[p].call = c
                          /\ p + 1 \in 1..m => rs[p + 1].kind # "result"
    BY <1>1, <1>6 DEF HasRow
  <2>2. PICK q \in 1..(m - 1) : (q < k /\ q = p) \/ (q >= k /\ q + 1 = p)
    BY <1>5, <2>1
  <2>3. new[q] = rs[p]
    BY <1>1, <2>2
  <2>4. ASSUME q + 1 \in 1..(m - 1), new[q + 1].kind = "result" PROVE FALSE
    <3>1. CASE q + 1 < k
      BY <1>1, <2>1, <2>2, <2>4, <3>1
    <3>2. CASE q + 1 >= k
      <4>1. q + 2 \in 1..m /\ rs[q + 2].kind = "result"
        BY <1>1, <2>4, <3>2
      <4>2. rs[q + 1].kind = "call"
        BY <1>1, <1>6, <4>1 DEF Paired
      <4>3. q + 1 # k /\ q + 1 = p
        BY <1>1, <2>2, <3>2, <4>2
      <4> QED
        BY <1>1, <2>1, <4>1, <4>3
    <3> QED
      BY <1>1, <3>1, <3>2
  <2> QED
    BY <1>1, <2>1, <2>3, <2>4 DEF HasRow
<1>7. ASSUME NEW c, IsShown(rs, c) PROVE IsShown(new, c)
  <2>1. PICK p \in 1..m : rs[p].kind = "call" /\ rs[p].call = c
    BY <1>1, <1>7 DEF IsShown
  <2>2. PICK q \in 1..(m - 1) : (q < k /\ q = p) \/ (q >= k /\ q + 1 = p)
    BY <1>5, <2>1
  <2>3. new[q] = rs[p]
    BY <1>1, <2>2
  <2> QED
    BY <1>1, <2>1, <2>3 DEF IsShown
<1>8. Paired(rs) => Paired(new)
  <2> SUFFICES ASSUME Paired(rs), NEW i \in 1..(m - 1), new[i].kind = "result"
               PROVE  i > 1 /\ new[i - 1].kind = "call" /\ new[i - 1].call = new[i].call
    BY <1>1 DEF Paired
  <2>1. CASE i < k
    <3>1. i \in 1..m /\ rs[i].kind = "result" /\ new[i] = rs[i]
      BY <1>1, <2>1
    <3>2. i > 1 /\ rs[i - 1].kind = "call" /\ rs[i - 1].call = rs[i].call
      BY <1>1, <3>1 DEF Paired
    <3>3. i - 1 \in 1..(m - 1) /\ i - 1 < k
      BY <1>1, <2>1, <3>2
    <3> QED
      BY <1>1, <3>1, <3>2, <3>3
  <2>2. CASE i >= k
    <3>1. i + 1 \in 1..m /\ rs[i + 1].kind = "result" /\ new[i] = rs[i + 1]
      BY <1>1, <2>2
    <3>2. (i + 1) - 1 = i
      BY <1>1
    <3>3. rs[i].kind = "call" /\ rs[i].call = rs[i + 1].call
      BY <1>1, <3>1, <3>2 DEF Paired
    <3>4. i > k /\ i > 1
      BY <1>1, <2>2, <3>3
    <3>5. i - 1 \in 1..(m - 1) /\ i - 1 >= k /\ (i - 1) + 1 = i
      BY <1>1, <3>4
    <3>6. new[i - 1] = rs[i]
      BY <1>2, <3>5
    <3> QED
      BY <3>1, <3>3, <3>4, <3>6
  <2> QED
    BY <1>1, <2>1, <2>2
<1> QED
  BY <1>1, <1>3, <1>4, <1>6, <1>7, <1>8 DEF new

\* A row is inserted below the one at p, or last.
LEMMA InsertedAre ==
  ASSUME NEW rs \in Seq(RowType), NEW row \in RowType, NEW p \in 0..Len(rs)
  PROVE  LET new == Display!InsertAt(rs, p + 1, row) IN
         /\ new \in Seq(RowType) /\ DOMAIN new = 1..(Len(rs) + 1)
         /\ \A i \in 1..(Len(rs) + 1) : new[i] = IF i <= p THEN rs[i] ELSE IF i = p + 1 THEN row ELSE rs[i - 1]
<1> DEFINE a == SubSeq(rs, 1, (p + 1) - 1)
           b == SubSeq(rs, p + 1, Len(rs))
           one == <<row>>
<1>1. Len(rs) \in Nat /\ p \in Nat /\ p <= Len(rs)
  OBVIOUS
<1>2. a \in Seq(RowType) /\ Len(a) = p /\ \A i \in 1..p : a[i] = rs[i]
  BY <1>1
<1>3. b \in Seq(RowType) /\ Len(b) = Len(rs) - p /\ \A i \in 1..(Len(rs) - p) : b[i] = rs[p + i]
  BY <1>1
<1>4. Display!InsertAt(rs, p + 1, row) = (a \o one) \o b
  BY DEF Display!InsertAt
<1>5. one \in Seq(RowType) /\ Len(one) = 1 /\ one[1] = row
  OBVIOUS
<1> HIDE DEF a, b, one
<1> DEFINE c == a \o one
<1>6. c \in Seq(RowType) /\ Len(c) = p + 1 /\ c[p + 1] = row /\ \A i \in 1..p : c[i] = rs[i]
  <2>1. /\ c \in Seq(RowType) /\ Len(c) = Len(a) + Len(one)
        /\ \A i \in 1..Len(a) : c[i] = a[i]
        /\ \A i \in Len(a) + 1 .. Len(c) : c[i] = one[i - Len(a)]
    BY <1>2, <1>5, BothAre
  <2> HIDE DEF c
  <2>2. p + 1 \in p + 1 .. Len(c) /\ p + 1 - p = 1
    BY <1>1, <1>2, <1>5, <2>1
  <2> QED
    BY <1>1, <1>2, <1>5, <2>1, <2>2
<1> HIDE DEF c
<1>7. c \o b \in Seq(RowType) /\ Len(c \o b) = Len(rs) + 1
      /\ \A i \in 1..(Len(rs) + 1) : (c \o b)[i] = IF i <= p + 1 THEN c[i] ELSE b[i - (p + 1)]
  BY <1>1, <1>3, <1>6
<1>8. ASSUME NEW i \in 1..(Len(rs) + 1)
      PROVE (c \o b)[i] = IF i <= p THEN rs[i] ELSE IF i = p + 1 THEN row ELSE rs[i - 1]
  <2>1. CASE i <= p + 1
    BY <1>1, <1>6, <1>7, <2>1
  <2>2. CASE i > p + 1
    BY <1>1, <1>3, <1>7, <2>2
  <2>3. i \in Int /\ p + 1 \in Int
    BY <1>1
  <2>4. i <= p + 1 \/ i > p + 1
    BY <2>3
  <2> QED
    BY <2>1, <2>2, <2>4
<1>9. DOMAIN (c \o b) = 1..(Len(rs) + 1)
  BY <1>7
<1>10. Display!InsertAt(rs, p + 1, row) = c \o b
  BY <1>4 DEF c
<1>11. \A i \in 1..(Len(rs) + 1) : (c \o b)[i] = IF i <= p THEN rs[i] ELSE IF i = p + 1 THEN row ELSE rs[i - 1]
  BY <1>8
<1> DEFINE new == c \o b
<1>12. /\ new \in Seq(RowType) /\ DOMAIN new = 1..(Len(rs) + 1)
       /\ \A i \in 1..(Len(rs) + 1) : new[i] = IF i <= p THEN rs[i] ELSE IF i = p + 1 THEN row ELSE rs[i - 1]
  BY <1>7, <1>9, <1>11
<1> HIDE DEF new
<1>13. Display!InsertAt(rs, p + 1, row) = new
  BY <1>10 DEF new
<1> QED
  BY <1>12, <1>13

LEMMA InsertedShape ==
  ASSUME NEW rs \in Seq(RowType), NEW row \in RowType, NEW p \in 0..Len(rs), NEW n \in Nat,
           Identified(rs, n), row.id = n + 1,
         row.kind = "result"
  PROVE  LET new == Display!InsertAt(rs, p + 1, row) IN
         /\ new \in Seq(RowType) /\ FromRows(new, rs, row) /\ Identified(new, n + 1)
         /\ \A c : IsShown(rs, c) => IsShown(new, c)
         /\ \A c, id : HasRow(rs, c, id) /\ (p \in DOMAIN rs => rs[p].id # id) => HasRow(new, c, id)
         /\ Paired(rs) /\ p \in DOMAIN rs /\ rs[p].kind = "call" /\ rs[p].call = row.call
            /\ (p + 1 \in DOMAIN rs => rs[p + 1].kind # "result") => Paired(new)
<1> DEFINE new == Display!InsertAt(rs, p + 1, row)
           m == Len(rs)
<1>1. /\ new \in Seq(RowType) /\ DOMAIN new = 1..(m + 1) /\ DOMAIN rs = 1..m /\ m \in Nat /\ p \in 0..m
      /\ \A i \in 1..(m + 1) : new[i] = IF i <= p THEN rs[i] ELSE IF i = p + 1 THEN row ELSE rs[i - 1]
  BY InsertedAre, RowsAre
<1> HIDE DEF new, m
<1>2. \A i \in 1..(m + 1) : \/ i <= p /\ i \in 1..m /\ new[i] = rs[i]
                            \/ i = p + 1 /\ new[i] = row
                            \/ i > p + 1 /\ i - 1 \in 1..m /\ new[i] = rs[i - 1]
  BY <1>1
<1>3. FromRows(new, rs, row)
  BY <1>1, <1>2 DEF FromRows
<1>4. Identified(new, n + 1)
  <2>1. \A i \in 1..m : rs[i].id \in 1..n
    BY <1>1 DEF Identified
  <2>2. \A i \in 1..(m + 1) : new[i].id \in 1..(n + 1)
    BY <1>2, <2>1
  <2>3. ASSUME NEW i \in 1..(m + 1), NEW j \in 1..(m + 1), new[i].id = new[j].id PROVE i = j
    <3>1. \A q \in 1..m : rs[q].id # row.id
      BY <2>1
    <3>2. \A q, r \in 1..m : rs[q].id = rs[r].id => q = r
      BY <1>1 DEF Identified
    <3> QED
      BY <1>1, <1>2, <2>3, <3>1, <3>2
  <2> QED
    BY <1>1, <2>2, <2>3 DEF Identified
<1>5. ASSUME NEW q \in 1..m
      PROVE \E r \in 1..(m + 1) : new[r] = rs[q] /\ ((q <= p /\ r = q) \/ (q > p /\ r = q + 1))
  <2>1. CASE q <= p
    BY <1>1, <2>1
  <2>2. CASE q > p
    BY <1>1, <2>2
  <2> QED
    BY <1>1, <2>1, <2>2
<1>6. \A c : IsShown(rs, c) => IsShown(new, c)
  BY <1>1, <1>5 DEF IsShown
<1>7. ASSUME NEW c, NEW id, HasRow(rs, c, id), p \in DOMAIN rs => rs[p].id # id PROVE HasRow(new, c, id)
  <2>1. PICK q \in 1..m : /\ rs[q].id = id /\ rs[q].kind = "call" /\ rs[q].call = c
                          /\ q + 1 \in 1..m => rs[q + 1].kind # "result"
    BY <1>1, <1>7 DEF HasRow
  <2>2. q # p
    BY <1>1, <1>7, <2>1
  <2>3. PICK r \in 1..(m + 1) : new[r] = rs[q] /\ ((q <= p /\ r = q) \/ (q > p /\ r = q + 1))
    BY <1>5
  <2>4. ASSUME r + 1 \in 1..(m + 1) PROVE new[r + 1].kind # "result"
    <3>1. CASE q < p
      BY <1>1, <2>1, <2>3, <2>4, <3>1
    <3>2. CASE q > p
      BY <1>1, <2>1, <2>3, <2>4, <3>2
    <3> QED
      BY <1>1, <2>2, <3>1, <3>2
  <2> QED
    BY <1>1, <2>1, <2>3, <2>4 DEF HasRow
<1>8. ASSUME Paired(rs), p \in DOMAIN rs, rs[p].kind = "call", rs[p].call = row.call,
             p + 1 \in DOMAIN rs => rs[p + 1].kind # "result"
      PROVE  Paired(new)
  <2> SUFFICES ASSUME NEW i \in 1..(m + 1), new[i].kind = "result"
               PROVE  i > 1 /\ new[i - 1].kind = "call" /\ new[i - 1].call = new[i].call
    BY <1>1 DEF Paired
  <2>1. CASE i <= p
    <3>1. i \in 1..m /\ new[i] = rs[i]
      BY <1>1, <2>1
    <3>2. i > 1 /\ rs[i - 1].kind = "call" /\ rs[i - 1].call = rs[i].call
      BY <1>1, <1>8, <3>1 DEF Paired
    <3>3. new[i - 1] = rs[i - 1]
      BY <1>1, <2>1, <3>2
    <3> QED
      BY <3>1, <3>2, <3>3
  <2>2. CASE i = p + 1
    BY <1>1, <1>8, <2>2
  <2>3. CASE i > p + 1
    <3>1. i - 1 \in 1..m /\ new[i] = rs[i - 1]
      BY <1>1, <2>3
    <3>2. i - 1 > 1 /\ rs[(i - 1) - 1].kind = "call" /\ rs[(i - 1) - 1].call = rs[i - 1].call
      BY <1>1, <1>8, <3>1 DEF Paired
    <3>3. i - 1 # p + 1
      BY <1>1, <1>8, <3>1
    <3>4. i - 1 > p + 1 /\ i - 1 \in 1..(m + 1) /\ i > 1
      BY <1>1, <2>3, <3>1, <3>3
    <3>5. new[i - 1] = rs[(i - 1) - 1]
      BY <1>1, <3>4
    <3> QED
      BY <3>1, <3>2, <3>4, <3>5
  <2> QED
    BY <1>1, <2>1, <2>2, <2>3
<1> QED
  BY <1>1, <1>3, <1>4, <1>6, <1>7, <1>8 DEF new


-----------------------------------------------------------------------------
LEMMA RowIs ==
  ASSUME shownEvents \in Nat, NEW kind \in Kinds, NEW call \in ShownCalls \cup {NoCall},
           NEW content \in Seq(Nat)
  PROVE  LET row == Display!Row(kind, call, content) IN
         /\ row \in RowType /\ row.id = shownEvents + 1 /\ row.kind = kind /\ row.call = call /\
              row.content = content
         /\ row.written = content /\ row.buffer = <<>> /\ ~row.folded /\ (row.spins => kind \in {"thought", "call", "compact"})
         /\ TextOk(row)
<1> DEFINE row == [id |-> shownEvents + 1, kind |-> kind, call |-> call, content |-> content,
                   written |-> content,
                   buffer |-> <<>>, folded |-> FALSE, spins |-> kind \in {"thought", "call", "compact"}]
<1>1. <<>> \in Seq(Nat) /\ content \o <<>> = content
  OBVIOUS
<1>2. /\ row \in RowType /\ row.id = shownEvents + 1 /\ row.kind = kind /\ row.call = call /\
           row.content = content
      /\ row.written = content /\ row.buffer = <<>> /\ row.folded = FALSE /\
                                                         row.spins = (kind \in {"thought", "call",
                                                           "compact"})
  BY <1>1 DEF RowType
<1>3. Display!Row(kind, call, content) = row
  BY DEF Display!Row
<1> HIDE DEF row
<1> QED
  BY <1>1, <1>2, <1>3 DEF TextOk

LEMMA BegunIs ==
  ASSUME NEW row \in RowType, TextOk(row), row.kind # "hooks"
  PROVE  LET new == Display!Begun(row) IN
         /\ new \in RowType /\ new.id = row.id /\ new.kind = row.kind /\ new.call = row.call /\
              new.buffer = row.buffer
         /\ new.spins = row.spins /\ TextOk(new)
<1>1. CASE row.kind = "thought"
  <2> DEFINE new == [row EXCEPT !.folded = TRUE, !.written = <<>>]
  <2>1. <<>> \in Seq(Nat)
    OBVIOUS
  <2>2. /\ new \in RowType /\ new.id = row.id /\ new.kind = row.kind /\ new.call = row.call /\
             new.buffer = row.buffer
        /\ new.spins = row.spins /\ new.folded = TRUE
    BY <2>1 DEF RowType
  <2>3. Display!Begun(row) = new
    BY <1>1 DEF Display!Begun
  <2> HIDE DEF new
  <2> QED
    BY <1>1, <2>2, <2>3 DEF TextOk
<1>2. CASE row.kind # "thought"
  BY <1>2 DEF Display!Begun
<1> QED
  BY <1>1, <1>2

LEMMA LaterAppended ==
  ASSUME NEW s \in Seq(Nat), NEW t \in Seq(Nat), NEW e \in Nat
  PROVE  s \o Append(t, e) = Append(s \o t, e)
<1> DEFINE a == s \o Append(t, e)
           b == Append(s \o t, e)
<1>1. a \in Seq(Nat) /\ b \in Seq(Nat) /\ Len(a) = Len(s) + Len(t) + 1 /\ Len(b) = Len(a) /\
        Len(s) \in Nat /\ Len(t) \in Nat
  OBVIOUS
<1>2. ASSUME NEW i \in 1..Len(a) PROVE a[i] = b[i]
  BY <1>1
<1> HIDE DEF a, b
<1>3. a = b
  BY <1>1, <1>2, SeqEqual
<1> QED
  BY <1>3 DEF a, b

LEMMA AppendedIs ==
  ASSUME atBottom \in BOOLEAN, NEW row \in RowType, TextOk(row), row.kind # "hooks", NEW piece \in Nat
  PROVE  LET new == Display!Appended(row, piece) IN
         /\ new \in RowType /\ new.id = row.id /\ new.kind = row.kind /\ new.call = row.call
         /\ new.spins = row.spins /\ TextOk(new)
<1> DEFINE content == Append(row.content, piece)
           more == [row EXCEPT !.content = content]
<1>1. row.written \in Seq(Nat) /\ row.buffer \in Seq(Nat) /\ row.content \in Seq(Nat) /\
        row.folded \in BOOLEAN
  BY DEF RowType
<1>2. content \in Seq(Nat)
  BY <1>1
<1>3. ASSUME ~row.folded
      PROVE  /\ Append(row.written \o row.buffer, piece) = content /\ content \o <<>> = content
             /\ row.written \o Append(row.buffer, piece) = content
  <2>1. row.written \o row.buffer = row.content
    BY <1>3 DEF TextOk
  <2>2. row.written \o Append(row.buffer, piece) = Append(row.written \o row.buffer, piece)
    BY <1>1, LaterAppended
  <2> QED
    BY <1>1, <1>2, <2>1, <2>2
<1> HIDE DEF content
<1>4. /\ more \in RowType /\ more.id = row.id /\ more.kind = row.kind /\ more.call = row.call /\
           more.spins = row.spins
      /\ more.folded = row.folded /\ more.content = content /\ more.written = row.written /\
           more.buffer = row.buffer
  BY <1>2 DEF RowType
<1>5. CASE row.folded
  <2>1. Display!Appended(row, piece) = more
    BY <1>5 DEF Display!Appended, content
  <2> HIDE DEF more
  <2> QED
    BY <1>4, <1>5, <2>1 DEF TextOk
<1>6. CASE ~row.folded /\ atBottom
  <2> DEFINE new == [more EXCEPT !.written = content, !.buffer = <<>>]
  <2>1. Display!Appended(row, piece) = [more EXCEPT !.written = Append(row.written \o row.buffer,
          piece), !.buffer = <<>>]
    BY <1>1, <1>4, <1>6 DEF Display!Appended, content, RowType
  <2>2. Display!Appended(row, piece) = new
    BY <1>3, <1>6, <2>1
  <2> HIDE DEF more
  <2>3. /\ new \in RowType /\ new.id = row.id /\ new.kind = row.kind /\ new.call = row.call /\
             new.spins = row.spins
        /\ new.folded = row.folded /\ new.content = content /\ new.written = content /\ new.buffer = <<>>
    <3>1. <<>> \in Seq(Nat)
      OBVIOUS
    <3> QED
      BY <1>2, <1>4, <3>1 DEF RowType
  <2> HIDE DEF new
  <2> QED
    BY <1>3, <1>6, <2>2, <2>3 DEF TextOk
<1>7. CASE ~row.folded /\ ~atBottom
  <2> DEFINE buffer == Append(row.buffer, piece)
             new == [more EXCEPT !.buffer = buffer]
  <2>1. Display!Appended(row, piece) = new
    BY <1>1, <1>4, <1>7 DEF Display!Appended, content, RowType
  <2>2. buffer \in Seq(Nat) /\ row.written \o buffer = content
    <3>1. buffer \in Seq(Nat)
      BY <1>1
    <3>2. row.written \o Append(row.buffer, piece) = content
      BY <1>3, <1>7
    <3> QED
      BY <3>1, <3>2
  <2> HIDE DEF more, buffer
  <2>3. /\ new \in RowType /\ new.id = row.id /\ new.kind = row.kind /\ new.call = row.call /\
             new.spins = row.spins
        /\ new.folded = row.folded /\ new.content = content /\ new.written = row.written /\
             new.buffer = buffer
    BY <1>4, <2>2 DEF RowType
  <2> HIDE DEF new
  <2> QED
    BY <1>7, <2>1, <2>2, <2>3 DEF TextOk
<1> QED
  BY <1>5, <1>6, <1>7

\* Rows that stay what they are.
SameRows(rs, new) ==
  /\ new \in Seq(RowType) /\ DOMAIN new = DOMAIN rs
  /\ \A i \in DOMAIN rs : new[i].id = rs[i].id /\ new[i].kind = rs[i].kind /\ new[i].call = rs[i].call

LEMMA SameShape ==
  ASSUME NEW rs \in Seq(RowType), NEW new, SameRows(rs, new)
  PROVE  /\ \A n : Identified(rs, n) => Identified(new, n)
         /\ \A cur : KindsKept(rs, cur) => KindsKept(new, cur)
         /\ \A c, id : HasRow(rs, c, id) => HasRow(new, c, id)
         /\ \A c : IsShown(rs, c) => IsShown(new, c)
         /\ Paired(rs) => Paired(new)
<1>1. /\ DOMAIN new = DOMAIN rs
      /\ \A i \in DOMAIN rs : new[i].id = rs[i].id /\ new[i].kind = rs[i].kind /\ new[i].call = rs[i].call
  BY DEF SameRows
<1>2. \A n : Identified(rs, n) => Identified(new, n)
  BY <1>1 DEF Identified
<1>3. \A cur : KindsKept(rs, cur) => KindsKept(new, cur)
  BY <1>1 DEF KindsKept
<1>4. \A c, id : HasRow(rs, c, id) => HasRow(new, c, id)
  BY <1>1 DEF HasRow
<1>5. \A c : IsShown(rs, c) => IsShown(new, c)
  BY <1>1 DEF IsShown
<1>6. Paired(rs) => Paired(new)
  BY <1>1, RowsAre DEF Paired
<1> QED
  BY <1>2, <1>3, <1>4, <1>5, <1>6

\* The calls have their rows as long as rows of calls and results stay where they are.
LEMMA CallRowsStay ==
  ASSUME NEW rs, NEW new, NEW tr, NEW fd, CallRows(rs, tr, fd),
         \A c, id : Paired(rs) /\ HasRow(rs, c, id) => HasRow(new, c, id),
         \A c : IsShown(rs, c) => IsShown(new, c), Paired(rs) => Paired(new)
  PROVE  CallRows(new, tr, fd)
BY DEF CallRows

\* What is complete.
CalmRows(rs) == \A i \in DOMAIN rs : TextOk(rs[i]) /\ rs[i].buffer = <<>> /\ (rs[i].spins => rs[i].kind \in {"call", "compact"})

LEMMA EndedIs ==
  ASSUME DisplayInv
  PROVE  /\ Display!Finalized \in Seq(RowType) /\ Identified(Display!Finalized, shownEvents) /\
              KindsKept(Display!Finalized, currentRows) /\ CalmRows(Display!Finalized)
         /\ KeptRows(rows, Display!Finalized) /\
              Spins(Display!Finalized, currentRows, tracked, feed, brokenRows)
         /\ ~brokenRows.remote => CallRows(Display!Finalized, tracked, feed)
<1> DEFINE new == Display!Finalized
<1>1. rows \in Seq(RowType) /\ Identified(rows, shownEvents) /\ KindsKept(rows, currentRows) /\
        Texts(rows, currentRows)
      /\ Spins(rows, currentRows, tracked, feed, brokenRows) /\ (~brokenRows.remote =>
                                                                 CallRows(rows, tracked, feed))
  BY DEF DisplayInv, DisplayTypes, Currently
<1>2. /\ KeptRows(rows, new)
      /\ \A i \in DOMAIN rows : rows[i].id \in {currentRows.reply, currentRows.thought} =>
           new[i].buffer = <<>> /\ ~new[i].spins
  BY <1>1, FinalizedIs
<1> HIDE DEF new
<1>3. /\ new \in Seq(RowType) /\ DOMAIN new = DOMAIN rows
      /\ \A i \in DOMAIN rows : new[i].id = rows[i].id /\ new[i].kind = rows[i].kind
  BY <1>2 DEF KeptRows, Keeps
<1>4. /\ Identified(new, shownEvents) /\ KindsKept(new, currentRows) /\ Texts(new, currentRows) /\
           Spins(new, currentRows, tracked, feed, brokenRows)
      /\ (Paired(rows) => Paired(new)) /\ (\A c, id : HasRow(rows, c, id) => HasRow(new, c, id))
      /\ \A c : IsShown(rows, c) => IsShown(new, c)
  BY <1>1, <1>2, KeptShape
<1>5. ASSUME NEW i \in DOMAIN new
      PROVE  TextOk(new[i]) /\ new[i].buffer = <<>> /\ (new[i].spins => new[i].kind \in {"call", "compact"})
  BY <1>2, <1>3, <1>4 DEF Texts, Spins, MaySpin
<1>6. ~brokenRows.remote => CallRows(new, tracked, feed)
  BY <1>1, <1>4, CallRowsStay
<1> QED
  BY <1>2, <1>3, <1>4, <1>5, <1>6 DEF CalmRows, new

LEMMA CalmIs ==
  ASSUME NEW rs, CalmRows(rs)
  PROVE  /\ \A cur : Texts(rs, cur)
         /\ \A cur, earlier, tr, fd, fl : Spins(rs, earlier, tr, fd, fl) /\
              cur.compact = earlier.compact => Spins(rs, cur, tr, fd, fl)
BY DEF CalmRows, Texts, Spins, MaySpin


-----------------------------------------------------------------------------
LEMMA DisplayInit ==
  ASSUME Display!DisplayAssumption, Display!Init
  PROVE  DisplayInv
<1>1. /\ rows = <<>> /\ currentRows = Display!NoCurrent /\ tracked = [c \in ShownCalls |-> 0] /\
                          atBottom = TRUE /\ feed = Display!Away /\ shownEvents = 0
      /\ brokenRows = [compaction |-> FALSE, remote |-> FALSE]
  BY DEF Display!Init
<1>2. rows \in Seq(RowType) /\ DOMAIN rows = {} /\ 0 \in 0..MaxShown
  BY <1>1 DEF Display!DisplayAssumption
<1>3. DisplayTypes
  BY <1>1, <1>2 DEF DisplayTypes, Display!NoCurrent, Display!Away
<1>4. Identified(rows, shownEvents) /\ KindsKept(rows, currentRows) /\ Texts(rows, currentRows) /\
        Spins(rows, currentRows, tracked, feed, brokenRows)
  BY <1>2 DEF Identified, KindsKept, Texts, Spins
<1>5. Currently
  BY <1>1, <1>4 DEF Currently, Display!NoCurrent, Display!Away
<1>6. CallRows(rows, tracked, feed)
  BY <1>1, <1>2 DEF CallRows, Paired, Display!Away
<1> QED
  BY <1>3, <1>4, <1>5, <1>6 DEF DisplayInv

LEMMA DisplayInvIsEnough ==
  ASSUME Display!DisplayAssumption, DisplayInv
  PROVE  Display!TypeOK /\ Display!DisplaySafe
<1>1. /\ DisplayTypes /\ Identified(rows, shownEvents) /\ Currently /\ Texts(rows, currentRows)
      /\ Spins(rows, currentRows, tracked, feed, brokenRows) /\ (~brokenRows.remote =>
                                                                 CallRows(rows, tracked, feed))
  BY DEF DisplayInv
<1>2. rows \in Seq(RowType) /\ MaxShown \in Nat /\ shownEvents \in 0..MaxShown
  BY <1>1 DEF DisplayTypes, Display!DisplayAssumption
<1>3. Display!TypeOK
  <2>1. \A i \in DOMAIN rows : rows[i].spins \in BOOLEAN /\ rows[i].folded \in BOOLEAN
    BY <1>2, RowsAre DEF RowType
  <2>2. \A i \in DOMAIN rows : rows[i].id \in 1..MaxShown
    BY <1>1, <1>2 DEF Identified
  <2>3. feed.from \in {"none", "turn", "remote"} /\ feed.answered \subseteq feed.called
    BY <1>1 DEF DisplayTypes
  <2> QED
    BY <1>1, <2>1, <2>2, <2>3 DEF Display!TypeOK, DisplayTypes
<1>4. Display!TextIsWhole
  BY <1>1 DEF Display!TextIsWhole, Texts, TextOk
<1>5. Display!NothingSpins
  BY <1>1, <1>2 DEF Display!NothingSpins, Spins, Identified, Currently, MaySpin
<1>6. Display!CallsPaired
  BY <1>1 DEF Display!CallsPaired, CallRows, IsShown, Paired
<1> QED
  BY <1>3, <1>4, <1>5, <1>6 DEF Display!DisplaySafe

LEMMA TextRowIs ==
  ASSUME shownEvents \in Nat, NEW kind \in {"reply", "thought"}, NEW piece \in Nat
  PROVE  LET row == Display!Begun(Display!Row(kind, NoCall, <<piece>>)) IN
         /\ row \in RowType /\ row.id = shownEvents + 1 /\ row.kind = kind /\ row.buffer = <<>>
         /\ (row.spins => kind \in {"thought", "call", "compact"}) /\ TextOk(row)
<1> DEFINE content == <<piece>>
<1>1. content \in Seq(Nat) /\ kind \in Kinds /\ NoCall \in ShownCalls \cup {NoCall}
  BY DEF Kinds
<1> HIDE DEF content
<1>10. LET row == Display!Row(kind, NoCall, content) IN
       /\ row \in RowType /\ row.id = shownEvents + 1 /\ row.kind = kind /\ row.call = NoCall /\
            row.content = content
       /\ row.written = content /\ row.buffer = <<>> /\ ~row.folded /\ (row.spins => kind \in {"thought", "call", "compact"})
       /\ TextOk(row)
  BY <1>1, RowIs, ZenonT(60)
<1>20. PICK plain : plain = Display!Row(kind, NoCall, content)
  OBVIOUS
<1>2. plain \in RowType /\ plain.id = shownEvents + 1 /\ plain.kind = kind /\ plain.buffer = <<>>
      /\ (plain.spins => kind \in {"thought", "call", "compact"}) /\ TextOk(plain)
  BY <1>10, <1>20, ZenonT(60)
<1>3. kind # "hooks"
  OBVIOUS
<1>4. LET new == Display!Begun(plain) IN
         /\ new \in RowType /\ new.id = plain.id /\ new.kind = plain.kind /\ new.call = plain.call /\
              new.buffer = plain.buffer
         /\ new.spins = plain.spins /\ TextOk(new)
  BY <1>2, <1>3, BegunIs
<1> QED
  BY <1>2, <1>4, <1>20 DEF content

\* Text in the row of the stream, or in one of its own.
LEMMA TextedIs ==
  ASSUME shownEvents \in Nat, atBottom \in BOOLEAN, NEW rs \in Seq(RowType), Identified(rs,
           shownEvents), NEW kind \in {"reply", "thought"},
         NEW id \in Nat, NEW piece \in Nat, NEW cur, NEW tr, NEW fd, NEW fl,
         KindsKept(rs, cur), Texts(rs, cur), Spins(rs, cur, tr, fd, fl),
         kind = "reply" => cur.reply = (IF id = 0 THEN shownEvents + 1 ELSE id) /\
           cur.thought # shownEvents + 1,
         kind = "thought" => cur.thought = (IF id = 0 THEN shownEvents + 1 ELSE id) /\
           cur.reply # shownEvents + 1,
         cur.compact # shownEvents + 1, cur.hooks # shownEvents + 1
  PROVE  LET new == Display!Texted(rs, kind, id, piece) IN
         /\ new \in Seq(RowType) /\ Identified(new, shownEvents + 1) /\ KindsKept(new, cur) /\
              Texts(new, cur)
         /\ Spins(new, cur, tr, fd, fl)
         /\ \A c, d : HasRow(rs, c, d) => HasRow(new, c, d)
         /\ \A c : IsShown(rs, c) => IsShown(new, c)
         /\ Paired(rs) => Paired(new)
<1>1. CASE id = 0
  <2> DEFINE row == Display!Begun(Display!Row(kind, NoCall, <<piece>>))
  <2>3. row \in RowType /\ row.id = shownEvents + 1 /\ row.kind = kind /\ row.buffer = <<>> /\
          (row.spins => kind \in {"thought", "call", "compact"})
        /\ TextOk(row)
    BY TextRowIs
  <2>4. Display!Texted(rs, kind, id, piece) = Append(rs, row)
    BY <1>1 DEF Display!Texted
  <2> HIDE DEF row
  <2>5. LET new == Append(rs, row) IN
        /\ new \in Seq(RowType) /\ FromRows(new, rs, row) /\ Identified(new, shownEvents + 1)
        /\ \A c, d : HasRow(rs, c, d) => HasRow(new, c, d)
        /\ \A c : IsShown(rs, c) => IsShown(new, c)
        /\ Paired(rs) => Paired(new)
    BY <2>3, AddedShape
  <2>6. KindsKept(Append(rs, row), cur)
    BY <1>1, <2>3, <2>5, FromShape
  <2>7. Texts(Append(rs, row), cur)
    BY <2>3, <2>5, FromShape
  <2>8. row.spins => MaySpin(row, cur, tr, fd, fl)
    BY <1>1, <2>3 DEF MaySpin
  <2>9. Spins(Append(rs, row), cur, tr, fd, fl)
    BY <2>5, <2>8, FromShape
  <2> QED
    BY <2>4, <2>5, <2>6, <2>7, <2>9
<1>2. CASE id # 0
  <2> DEFINE new == [i \in DOMAIN rs |-> IF rs[i].id = id THEN Display!Appended(rs[i], piece) ELSE rs[i]]
  <2>1. Display!Texted(rs, kind, id, piece) = new
    BY <1>2 DEF Display!Texted
  <2>2. ASSUME NEW i \in DOMAIN rs
        PROVE  /\ new[i] \in RowType /\ new[i].id = rs[i].id /\ new[i].kind = rs[i].kind /\
                    new[i].call = rs[i].call
               /\ new[i].spins = rs[i].spins /\ TextOk(new[i]) /\ (rs[i].id # id => new[i] = rs[i])
    <3>1. rs[i] \in RowType /\ TextOk(rs[i])
      BY RowsAre DEF Texts
    <3>2. CASE rs[i].id = id
      BY <1>2, <3>1, <3>2, AppendedIs DEF KindsKept
    <3>3. CASE rs[i].id # id
      BY <3>1, <3>3
    <3> QED
      BY <3>2, <3>3
  <2>3. DOMAIN new = DOMAIN rs /\ new = [i \in DOMAIN rs |-> new[i]]
    OBVIOUS
  <2> HIDE DEF new
  <2>4. new \in Seq(RowType) /\ DOMAIN new = DOMAIN rs
    BY <2>2, <2>3, MappedAre
  <2>5. SameRows(rs, new)
    BY <2>2, <2>4 DEF SameRows
  <2>6. Identified(new, shownEvents) /\ KindsKept(new, cur) /\ (\A c, d : HasRow(rs, c, d) =>
                                                                HasRow(new, c, d))
        /\ (\A c : IsShown(rs, c) => IsShown(new, c)) /\ (Paired(rs) => Paired(new))
    BY <2>5, SameShape
  <2>7. Identified(new, shownEvents + 1)
    BY <2>6 DEF Identified
  <2>8. Texts(new, cur)
    BY <1>2, <2>2, <2>4 DEF Texts
  <2>9. Spins(new, cur, tr, fd, fl)
    BY <2>2, <2>4 DEF Spins, MaySpin
  <2> QED
    BY <2>1, <2>4, <2>6, <2>7, <2>8, <2>9
<1> QED
  BY <1>1, <1>2

\* The types of what an event leaves as it is.
LEMMA DisplayFields ==
  ASSUME Display!DisplayAssumption, DisplayTypes
  PROVE  /\ rows \in Seq(RowType) /\ atBottom \in BOOLEAN /\ shownEvents \in Nat /\
              shownEvents <= MaxShown /\ MaxShown \in Nat
         /\ (shownEvents < MaxShown => shownEvents + 1 \in 0..MaxShown) /\ shownEvents \in 0..MaxShown
         /\ currentRows \in [reply : Nat, thought : Nat, compact : Nat, hooks : Nat]
         /\ currentRows.reply \in Nat /\ currentRows.thought \in Nat /\ currentRows.compact \in Nat /\
              currentRows.hooks \in Nat
         /\ tracked \in [ShownCalls -> 0..MaxShown]
         /\ feed \in [from : {"none", "turn", "remote"}, called : SUBSET ShownCalls,
                      answered : SUBSET ShownCalls, within : {"none", "compact", "hooks"}]
         /\ feed.from \in {"none", "turn", "remote"} /\ feed.called \subseteq ShownCalls /\
              feed.answered \subseteq feed.called
         /\ feed.within \in {"none", "compact", "hooks"}
         /\ brokenRows \in [compaction : BOOLEAN, remote : BOOLEAN] /\
              brokenRows.compaction \in BOOLEAN /\ brokenRows.remote \in BOOLEAN
<1>1. MaxShown \in Nat /\ shownEvents \in 0..MaxShown
  BY DEF DisplayTypes, Display!DisplayAssumption
<1>2. shownEvents \in Nat /\ shownEvents <= MaxShown /\ (shownEvents < MaxShown =>
                                                         shownEvents + 1 \in 0..MaxShown)
  BY <1>1
<1> QED
  BY <1>1, <1>2 DEF DisplayTypes

LEMMA ReplyArrives ==
  ASSUME Display!DisplayAssumption, DisplayInv, NEW piece \in Nat, Display!Reply(piece)
  PROVE  DisplayInv'
<1> DEFINE rs == Display!Final(rows, currentRows.thought)
           reply == IF currentRows.reply = 0 THEN shownEvents + 1 ELSE currentRows.reply
           cur == [currentRows EXCEPT !.thought = 0, !.reply = reply]
<1>1. /\ DisplayTypes /\ Identified(rows, shownEvents) /\ Currently /\ KindsKept(rows, currentRows) /\
           Texts(rows, currentRows)
      /\ Spins(rows, currentRows, tracked, feed, brokenRows) /\ (~brokenRows.remote =>
                                                                 CallRows(rows, tracked, feed))
  BY DEF DisplayInv, Currently
<1>2. /\ feed.from # "none" /\ shownEvents < MaxShown /\ shownEvents' = shownEvents + 1
      /\ rows' = Display!Texted(rs, "reply", currentRows.reply, piece)
      /\ currentRows' = [currentRows EXCEPT !.thought = 0, !.reply = IF @ = 0 THEN shownEvents + 1 ELSE @]
      /\ atBottom' = atBottom /\ tracked' = tracked /\ feed' = feed /\ brokenRows' = brokenRows
  BY DEF Display!Reply, Display!Event, Display!EventWithin, Display!Rest
<1>3. rows \in Seq(RowType) /\ atBottom \in BOOLEAN /\ shownEvents \in Nat /\
        shownEvents + 1 \in 0..MaxShown /\ currentRows.reply \in Nat
  BY <1>1, <1>2, DisplayFields
<1>4. /\ KeptRows(rows, rs)
      /\ \A i \in DOMAIN rows : rows[i].id = currentRows.thought => rs[i].buffer = <<>> /\ ~rs[i].spins
  BY <1>3, FinalIs
<1> HIDE DEF rs
<1>5. /\ rs \in Seq(RowType) /\ DOMAIN rs = DOMAIN rows
      /\ \A i \in DOMAIN rows : rs[i].id = rows[i].id /\ rs[i].kind = rows[i].kind
  BY <1>4 DEF KeptRows, Keeps
<1>6. /\ Identified(rs, shownEvents) /\ KindsKept(rs, currentRows) /\ Texts(rs, currentRows) /\
           Spins(rs, currentRows, tracked, feed, brokenRows)
      /\ (Paired(rows) => Paired(rs)) /\ (\A c, id : HasRow(rows, c, id) => HasRow(rs, c, id))
      /\ \A c : IsShown(rows, c) => IsShown(rs, c)
  BY <1>1, <1>3, <1>4, KeptShape
<1>7. /\ cur \in [reply : Nat, thought : Nat, compact : Nat, hooks : Nat]
      /\ cur.reply = (IF currentRows.reply = 0 THEN shownEvents + 1 ELSE currentRows.reply) /\
           cur.thought = 0
      /\ cur.compact = currentRows.compact /\ cur.hooks = currentRows.hooks
  <2>1. currentRows \in [reply : Nat, thought : Nat, compact : Nat, hooks : Nat]
    BY <1>1, DisplayFields
  <2>2. reply \in Nat /\ reply = IF currentRows.reply = 0 THEN shownEvents + 1 ELSE currentRows.reply
    BY <1>3
  <2> HIDE DEF reply
  <2>3. /\ cur \in [reply : Nat, thought : Nat, compact : Nat, hooks : Nat]
        /\ cur.reply = reply /\ cur.thought = 0 /\ cur.compact = currentRows.compact /\
             cur.hooks = currentRows.hooks
    BY <2>1, <2>2
  <2> QED
    BY <2>2, <2>3
<1>70. currentRows' = cur
  BY <1>1, <1>2, DisplayFields
<1> HIDE DEF cur
<1>8. currentRows.compact <= shownEvents /\ currentRows.hooks <= shownEvents /\
        currentRows.reply <= shownEvents
  BY <1>1 DEF Currently
<1>9. \A i \in DOMAIN rs : rs[i].id \in 1..shownEvents
  BY <1>6 DEF Identified
<1>10. KindsKept(rs, cur)
  BY <1>3, <1>6, <1>7, <1>9 DEF KindsKept
<1>11. Texts(rs, cur)
  BY <1>4, <1>5, <1>6, <1>7, <1>9 DEF Texts
<1>12. Spins(rs, cur, tracked, feed, brokenRows)
  BY <1>4, <1>5, <1>6, <1>7 DEF Spins, MaySpin
<1>13. cur.compact # shownEvents + 1 /\ cur.hooks # shownEvents + 1 /\ cur.thought # shownEvents + 1
  BY <1>1, <1>3, <1>7, <1>8, DisplayFields
<1>14. /\ rows' \in Seq(RowType) /\ Identified(rows', shownEvents + 1) /\ KindsKept(rows', cur) /\
            Texts(rows', cur)
       /\ Spins(rows', cur, tracked, feed, brokenRows)
       /\ (\A c, d : HasRow(rs, c, d) => HasRow(rows', c, d)) /\ (\A c : IsShown(rs, c) =>
                                                                  IsShown(rows', c))
       /\ (Paired(rs) => Paired(rows'))
  BY <1>2, <1>3, <1>5, <1>6, <1>7, <1>10, <1>11, <1>12, <1>13, TextedIs
<1>15. DisplayTypes'
  BY <1>1, <1>2, <1>3, <1>7, <1>70, <1>14 DEF DisplayTypes
<1>16. cur.reply <= shownEvents + 1 /\ cur.thought <= shownEvents + 1 /\
         cur.compact <= shownEvents + 1 /\ cur.hooks <= shownEvents + 1
  BY <1>1, <1>3, <1>7, <1>8, DisplayFields
<1>17. Currently'
  BY <1>1, <1>2, <1>70, <1>14, <1>16 DEF Currently
<1>18. ~brokenRows.remote => CallRows(rows', tracked, feed)
  BY <1>1, <1>6, <1>14, CallRowsStay
<1> QED
  BY <1>2, <1>70, <1>14, <1>15, <1>17, <1>18 DEF DisplayInv


LEMMA RowOfIs ==
  ASSUME NEW id, Display!On(id)
  PROVE  Display!RowOf(id) \in DOMAIN rows /\ rows[Display!RowOf(id)].id = id
BY DEF Display!On, Display!RowOf

LEMMA RemovedRest ==
  ASSUME NEW rs \in Seq(RowType), NEW k \in DOMAIN rs, rs[k].kind \notin {"call", "result"}
  PROVE  LET new == Display!RemoveAt(rs, k) IN
         /\ \A i \in DOMAIN new : \E j \in DOMAIN rs : new[i] = rs[j]
         /\ \A cur : KindsKept(rs, cur) => KindsKept(new, cur)
         /\ \A cur : Texts(rs, cur) => Texts(new, cur)
         /\ \A cur, tr, fd, fl : Spins(rs, cur, tr, fd, fl) => Spins(new, cur, tr, fd, fl)
<1> DEFINE new == Display!RemoveAt(rs, k)
<1>1. 1 \in DOMAIN rs
  BY RowsAre
<1>2. FromRows(new, rs, rs[1])
  BY RemovedShape
<1> HIDE DEF new
<1>3. \A i \in DOMAIN new : \E j \in DOMAIN rs : new[i] = rs[j]
  BY <1>1, <1>2 DEF FromRows
<1>4. \A cur : KindsKept(rs, cur) => KindsKept(new, cur)
  BY <1>3 DEF KindsKept
<1>5. \A cur : Texts(rs, cur) => Texts(new, cur)
  BY <1>3 DEF Texts
<1>6. \A cur, tr, fd, fl : Spins(rs, cur, tr, fd, fl) => Spins(new, cur, tr, fd, fl)
  BY <1>3 DEF Spins
<1> QED
  BY <1>3, <1>4, <1>5, <1>6 DEF new

LEMMA ThoughtArrives ==
  ASSUME Display!DisplayAssumption, DisplayInv, NEW piece \in Nat, Display!Thought(piece)
  PROVE  DisplayInv'
<1> DEFINE ended == Display!Final(rows, currentRows.reply)
           rs == IF Display!Blank(currentRows.reply) THEN Display!RemoveAt(ended,
             Display!RowOf(currentRows.reply)) ELSE ended
           thought == IF currentRows.thought = 0 THEN shownEvents + 1 ELSE currentRows.thought
           cur == [currentRows EXCEPT !.reply = 0, !.thought = thought]
<1>1. /\ DisplayTypes /\ Identified(rows, shownEvents) /\ Currently /\ KindsKept(rows, currentRows) /\
           Texts(rows, currentRows)
      /\ Spins(rows, currentRows, tracked, feed, brokenRows) /\ (~brokenRows.remote =>
                                                                 CallRows(rows, tracked, feed))
  BY DEF DisplayInv, Currently
<1>2. /\ feed.from # "none" /\ shownEvents < MaxShown /\ shownEvents' = shownEvents + 1
      /\ rows' = Display!Texted(rs, "thought", currentRows.thought, piece)
      /\ currentRows' = [currentRows EXCEPT !.reply = 0, !.thought = IF @ = 0 THEN shownEvents + 1 ELSE @]
      /\ atBottom' = atBottom /\ tracked' = tracked /\ feed' = feed /\ brokenRows' = brokenRows
  BY DEF Display!Thought, Display!Event, Display!EventWithin, Display!Rest
<1>3. rows \in Seq(RowType) /\ atBottom \in BOOLEAN /\ shownEvents \in Nat /\
        shownEvents + 1 \in 0..MaxShown /\ currentRows.thought \in Nat
  BY <1>1, <1>2, DisplayFields
<1>4. /\ KeptRows(rows, ended)
      /\ \A i \in DOMAIN rows : rows[i].id = currentRows.reply => ended[i].buffer = <<>> /\ ~ended[i].spins
  BY <1>3, FinalIs
<1> HIDE DEF ended
<1>5. /\ ended \in Seq(RowType) /\ DOMAIN ended = DOMAIN rows
      /\ \A i \in DOMAIN rows : ended[i].id = rows[i].id /\ ended[i].kind = rows[i].kind
  BY <1>4 DEF KeptRows, Keeps
<1>6. /\ Identified(ended, shownEvents) /\ KindsKept(ended, currentRows) /\ Texts(ended, currentRows)
      /\ Spins(ended, currentRows, tracked, feed, brokenRows)
      /\ (Paired(rows) => Paired(ended)) /\ (\A c, id : HasRow(rows, c, id) => HasRow(ended, c, id))
      /\ \A c : IsShown(rows, c) => IsShown(ended, c)
  BY <1>1, <1>3, <1>4, KeptShape
<1>7. \A i \in DOMAIN ended : ended[i].id = currentRows.reply => ended[i].buffer = <<>>
  BY <1>4, <1>5
<1>8. ~brokenRows.remote => CallRows(ended, tracked, feed)
  BY <1>1, <1>6, CallRowsStay
<1>9. /\ rs \in Seq(RowType) /\ Identified(rs, shownEvents) /\ KindsKept(rs, currentRows) /\
           Texts(rs, currentRows)
      /\ Spins(rs, currentRows, tracked, feed, brokenRows) /\ (~brokenRows.remote =>
                                                               CallRows(rs, tracked, feed))
      /\ \A i \in DOMAIN rs : rs[i].id = currentRows.reply => rs[i].buffer = <<>>
  <2>1. CASE ~Display!Blank(currentRows.reply)
    BY <1>5, <1>6, <1>7, <1>8, <2>1
  <2>2. CASE Display!Blank(currentRows.reply)
    <3> DEFINE k == Display!RowOf(currentRows.reply)
               new == Display!RemoveAt(ended, k)
    <3>1. k \in DOMAIN ended /\ ended[k].id = currentRows.reply
      BY <1>5, <2>2, RowOfIs DEF Display!Blank
    <3>2. rs = new
      BY <2>2
    <3>3. ended[k].kind \notin {"call", "result"}
      BY <1>6, <3>1 DEF KindsKept
    <3> HIDE DEF k
    <3>4. /\ new \in Seq(RowType) /\ (\A n : Identified(ended, n) => Identified(new, n))
          /\ (\A c, id : Paired(ended) /\ HasRow(ended, c, id) => HasRow(new, c, id))
          /\ (\A c : IsShown(ended, c) => IsShown(new, c)) /\ (Paired(ended) => Paired(new))
      BY <1>5, <3>1, <3>3, RemovedShape
    <3>5. /\ \A i \in DOMAIN new : \E j \in DOMAIN ended : new[i] = ended[j]
          /\ \A cur0 : KindsKept(ended, cur0) => KindsKept(new, cur0)
          /\ \A cur0 : Texts(ended, cur0) => Texts(new, cur0)
          /\ \A cur0, tr, fd, fl : Spins(ended, cur0, tr, fd, fl) => Spins(new, cur0, tr, fd, fl)
      BY <1>5, <3>1, <3>3, RemovedRest
    <3> HIDE DEF new, rs
    <3>6. ~brokenRows.remote => CallRows(new, tracked, feed)
      BY <1>8, <3>4, CallRowsStay
    <3>7. \A i \in DOMAIN new : new[i].id = currentRows.reply => new[i].buffer = <<>>
      BY <1>7, <3>5
    <3> QED
      BY <1>6, <3>2, <3>4, <3>5, <3>6, <3>7
  <2> QED
    BY <2>1, <2>2
<1> HIDE DEF rs
<1>10. /\ cur \in [reply : Nat, thought : Nat, compact : Nat, hooks : Nat]
       /\ cur.thought = (IF currentRows.thought = 0 THEN shownEvents + 1 ELSE currentRows.thought) /\
            cur.reply = 0
       /\ cur.compact = currentRows.compact /\ cur.hooks = currentRows.hooks
  <2>1. currentRows \in [reply : Nat, thought : Nat, compact : Nat, hooks : Nat]
    BY <1>1, DisplayFields
  <2>2. thought \in Nat /\ thought = IF currentRows.thought = 0 THEN shownEvents + 1 ELSE currentRows.thought
    BY <1>3
  <2> HIDE DEF thought
  <2>3. /\ cur \in [reply : Nat, thought : Nat, compact : Nat, hooks : Nat]
        /\ cur.thought = thought /\ cur.reply = 0 /\ cur.compact = currentRows.compact /\
             cur.hooks = currentRows.hooks
    BY <2>1, <2>2
  <2> QED
    BY <2>2, <2>3
<1>11. currentRows' = cur
  BY <1>1, <1>2, DisplayFields
<1> HIDE DEF cur
<1>12. /\ currentRows.compact <= shownEvents /\ currentRows.hooks <= shownEvents /\
            currentRows.thought <= shownEvents
       /\ currentRows.compact \in Nat /\ currentRows.hooks \in Nat
  BY <1>1, DisplayFields DEF Currently
<1>13. \A i \in DOMAIN rs : rs[i].id \in 1..shownEvents
  BY <1>9 DEF Identified
<1>14. KindsKept(rs, cur)
  BY <1>3, <1>9, <1>10, <1>13 DEF KindsKept
<1>15. Texts(rs, cur)
  BY <1>9, <1>10, <1>13 DEF Texts
<1>16. Spins(rs, cur, tracked, feed, brokenRows)
  BY <1>9, <1>10, <1>13 DEF Spins, MaySpin
<1>17. cur.compact # shownEvents + 1 /\ cur.hooks # shownEvents + 1 /\ cur.reply # shownEvents + 1
  BY <1>3, <1>10, <1>12
<1>18. /\ rows' \in Seq(RowType) /\ Identified(rows', shownEvents + 1) /\ KindsKept(rows', cur) /\
            Texts(rows', cur)
       /\ Spins(rows', cur, tracked, feed, brokenRows)
       /\ (\A c, d : HasRow(rs, c, d) => HasRow(rows', c, d)) /\ (\A c : IsShown(rs, c) =>
                                                                  IsShown(rows', c))
       /\ (Paired(rs) => Paired(rows'))
  BY <1>2, <1>3, <1>9, <1>10, <1>14, <1>15, <1>16, <1>17, TextedIs
<1>19. DisplayTypes'
  BY <1>1, <1>2, <1>3, <1>10, <1>11, <1>18 DEF DisplayTypes
<1>20. cur.reply <= shownEvents + 1 /\ cur.thought <= shownEvents + 1 /\
         cur.compact <= shownEvents + 1 /\ cur.hooks <= shownEvents + 1
  BY <1>3, <1>10, <1>12
<1>21. Currently'
  BY <1>1, <1>2, <1>11, <1>18, <1>20 DEF Currently
<1>22. ~brokenRows.remote => CallRows(rows', tracked, feed)
  BY <1>9, <1>18, CallRowsStay
<1> QED
  BY <1>2, <1>11, <1>18, <1>19, <1>21, <1>22 DEF DisplayInv


-----------------------------------------------------------------------------
LEMMA NothingWrittenIs ==
  ASSUME currentRows \in [reply : Nat, thought : Nat, compact : Nat, hooks : Nat]
  PROVE  /\ Display!NothingWritten \in [reply : Nat, thought : Nat, compact : Nat, hooks : Nat]
         /\ Display!NothingWritten.reply = 0 /\ Display!NothingWritten.thought = 0
         /\ Display!NothingWritten.compact = currentRows.compact /\
              Display!NothingWritten.hooks = currentRows.hooks
BY DEF Display!NothingWritten

\* What is written is of its kind, whatever stops being written or starts with the next event.
LEMMA KindsMoved ==
  ASSUME NEW n \in Nat, NEW rs, Identified(rs, n), NEW earlier, KindsKept(rs, earlier), NEW cur,
         cur.reply \in {earlier.reply, 0, n + 1}, cur.thought \in {earlier.thought, 0, n + 1},
         cur.compact \in {earlier.compact, 0, n + 1}, cur.hooks \in {earlier.hooks, 0, n + 1}
  PROVE  KindsKept(rs, cur)
<1>1. \A i \in DOMAIN rs : rs[i].id # 0 /\ rs[i].id # n + 1
  BY DEF Identified
<1> QED
  BY <1>1 DEF KindsKept

LEMMA IdentifiedMore ==
  ASSUME NEW n \in Nat, NEW rs, Identified(rs, n)
  PROVE  Identified(rs, n + 1)
BY DEF Identified

\* An event that has a row of its own comes after what was complete.
LEMMA RowAdded ==
  ASSUME DisplayInv, shownEvents \in Nat, NEW row \in RowType, row.id = shownEvents + 1,
           row.kind \in {"call", "compact", "user"},
         TextOk(row), row.buffer = <<>>, NEW cur, cur.reply = 0, cur.thought = 0,
           cur.hooks = currentRows.hooks,
         currentRows.hooks # shownEvents + 1, currentRows.compact # shownEvents + 1,
         cur.compact = currentRows.compact \/ (row.kind = "compact" /\ cur.compact = shownEvents + 1),
         NEW tr, NEW fd, Spins(Display!Finalized, cur, tr, fd, brokenRows), row.spins =>
           MaySpin(row, cur, tr, fd, brokenRows),
         NEW new, new = Append(Display!Finalized, row)
  PROVE  /\ new \in Seq(RowType) /\ Identified(new, shownEvents + 1) /\ KindsKept(new, cur) /\
              Texts(new, cur)
         /\ Spins(new, cur, tr, fd, brokenRows)
         /\ \A c, id : HasRow(Display!Finalized, c, id) => HasRow(new, c, id)
         /\ \A c : IsShown(Display!Finalized, c) => IsShown(new, c)
         /\ Paired(Display!Finalized) => Paired(new)
         /\ row.kind = "call" => HasRow(new, row.call, shownEvents + 1) /\ IsShown(new, row.call)
<1> DEFINE rs == Display!Finalized
<1>1. rs \in Seq(RowType) /\ Identified(rs, shownEvents) /\ KindsKept(rs, currentRows) /\ CalmRows(rs)
  BY EndedIs
<1>2. Spins(rs, cur, tr, fd, brokenRows) /\ new = Append(rs, row)
  OBVIOUS
<1> HIDE DEF rs
<1>3. row.kind # "result"
  OBVIOUS
<1>4. /\ new \in Seq(RowType) /\ FromRows(new, rs, row) /\ Identified(new, shownEvents + 1)
      /\ \A c, id : HasRow(rs, c, id) => HasRow(new, c, id)
      /\ \A c : IsShown(rs, c) => IsShown(new, c)
      /\ Paired(rs) => Paired(new)
      /\ row.kind = "call" => HasRow(new, row.call, shownEvents + 1) /\ IsShown(new, row.call)
  BY <1>1, <1>2, <1>3, AddedShape
<1>5. KindsKept(rs, cur)
  BY <1>1, KindsMoved
<1>6. /\ row.id = cur.reply => row.kind = "reply"
      /\ row.id = cur.thought => row.kind = "thought"
      /\ row.id = cur.compact => row.kind = "compact"
      /\ row.id = cur.hooks => row.kind = "hooks"
  OBVIOUS
<1>7. KindsKept(new, cur)
  BY <1>4, <1>5, <1>6, FromShape
<1>8. Texts(rs, cur)
  BY <1>1, CalmIs
<1>9. Texts(new, cur)
  BY <1>4, <1>8, FromShape
<1>10. Spins(new, cur, tr, fd, brokenRows)
  BY <1>2, <1>4, FromShape
<1> QED
  BY <1>4, <1>7, <1>9, <1>10 DEF rs

LEMMA OneIsCalled ==
  ASSUME Display!DisplayAssumption, DisplayInv, NEW c \in ShownCalls, Display!ToolCall(c)
  PROVE  DisplayInv'
<1> DEFINE rs == Display!Finalized
           cur == Display!NothingWritten
           fd == [feed EXCEPT !.called = feed.called \cup {c}]
           tr == [tracked EXCEPT ![c] = IF tracked[c] = 0 THEN shownEvents + 1 ELSE tracked[c]]
           row == Display!Row("call", c, <<>>)
<1>1. /\ DisplayTypes /\ Currently /\ (~brokenRows.remote => CallRows(rs, tracked, feed))
      /\ rs \in Seq(RowType) /\ Identified(rs, shownEvents) /\ KindsKept(rs, currentRows) /\ CalmRows(rs)
      /\ Spins(rs, currentRows, tracked, feed, brokenRows)
  BY EndedIs DEF DisplayInv
<1>2. /\ feed.from # "none" /\ shownEvents < MaxShown /\ shownEvents' = shownEvents + 1 /\
           c \notin feed.answered
      /\ feed' = fd /\ rows' = (IF tracked[c] # 0 THEN rs ELSE Append(rs, row)) /\ currentRows' = cur
      /\ atBottom' = atBottom /\ brokenRows' = brokenRows
  BY DEF Display!ToolCall, Display!Event, Display!EventWithin, Display!Rest
<1>3. tracked' = tr
  BY DEF Display!ToolCall
<1>4. /\ currentRows \in [reply : Nat, thought : Nat, compact : Nat, hooks : Nat] /\
           shownEvents \in Nat /\ shownEvents + 1 \in 0..MaxShown
      /\ tracked \in [ShownCalls -> 0..MaxShown] /\ feed.called \subseteq ShownCalls /\
           feed.answered \subseteq feed.called
      /\ feed \in [from : {"none", "turn", "remote"}, called : SUBSET ShownCalls,
                   answered : SUBSET ShownCalls, within : {"none", "compact", "hooks"}]
  BY <1>1, <1>2, DisplayFields
<1>5. /\ cur \in [reply : Nat, thought : Nat, compact : Nat, hooks : Nat] /\ cur.reply = 0 /\
           cur.thought = 0
      /\ cur.compact = currentRows.compact /\ cur.hooks = currentRows.hooks /\
           currentRows.compact <= shownEvents /\ currentRows.hooks <= shownEvents
      /\ currentRows.compact \in Nat /\ currentRows.hooks \in Nat
  BY <1>1, <1>4, NothingWrittenIs DEF Currently
<1>6. /\ fd \in [from : {"none", "turn", "remote"}, called : SUBSET ShownCalls,
                 answered : SUBSET ShownCalls, within : {"none", "compact", "hooks"}]
      /\ fd.called = feed.called \cup {c} /\ fd.answered = feed.answered /\ fd.from = feed.from /\
           fd.within = feed.within
  BY <1>4
<1>7. /\ tr \in [ShownCalls -> 0..MaxShown] /\ (\A d \in ShownCalls : d # c => tr[d] = tracked[d])
      /\ tr[c] = (IF tracked[c] = 0 THEN shownEvents + 1 ELSE tracked[c])
  BY <1>4
<1> HIDE DEF cur, fd, tr
<1>8. \A i \in DOMAIN rs : rs[i].id \in 1..shownEvents
  BY <1>1 DEF Identified
<1>9. Spins(rs, cur, tr, fd, brokenRows)
  <2> SUFFICES ASSUME NEW i \in DOMAIN rs, rs[i].spins PROVE MaySpin(rs[i], cur, tr, fd, brokenRows)
    BY DEF Spins
  <2>1. MaySpin(rs[i], currentRows, tracked, feed, brokenRows) /\ rs[i].kind \in {"call", "compact"} /\
          rs[i].id # 0
    BY <1>1, <1>8 DEF Spins, CalmRows
  <2>2. CASE rs[i].kind = "compact"
    BY <1>5, <1>6, <2>1, <2>2 DEF MaySpin
  <2>3. CASE rs[i].kind = "call" /\ ~brokenRows.remote
    BY <1>4, <1>6, <1>7, <2>1, <2>3 DEF MaySpin
  <2>4. CASE rs[i].kind = "call" /\ brokenRows.remote
    BY <2>4 DEF MaySpin
  <2> QED
    BY <2>1, <2>2, <2>3, <2>4
<1>10. Texts(rs, cur) /\ KindsKept(rs, cur) /\ Identified(rs, shownEvents + 1)
  BY <1>1, <1>4, <1>5, CalmIs, KindsMoved, IdentifiedMore
<1>11. /\ rows' \in Seq(RowType) /\ Identified(rows', shownEvents + 1) /\ KindsKept(rows', cur) /\
            Texts(rows', cur)
       /\ Spins(rows', cur, tr, fd, brokenRows) /\ (~brokenRows.remote => CallRows(rows', tr, fd))
  <2>1. CASE tracked[c] # 0
    BY <1>1, <1>2, <1>4, <1>6, <1>7, <1>9, <1>10, <2>1 DEF CallRows
  <2>2. CASE tracked[c] = 0
    <3>1. "call" \in Kinds /\ c \in ShownCalls \cup {NoCall} /\ <<>> \in Seq(Nat)
      BY DEF Kinds
    <3>2. LET own == Display!Row("call", c, <<>>) IN
          /\ own \in RowType /\ own.id = shownEvents + 1 /\ own.kind = "call" /\ own.call = c /\
               own.content = <<>>
          /\ own.written = <<>> /\ own.buffer = <<>> /\ ~own.folded /\ (own.spins => "call" \in {"thought", "call", "compact"})
          /\ TextOk(own)
      BY <1>4, <3>1, RowIs, ZenonT(60)
    <3>3. row \in RowType /\ row.id = shownEvents + 1 /\ row.kind = "call" /\ row.call = c /\
            row.buffer = <<>> /\ TextOk(row)
      BY <3>2, ZenonT(60)
    <3> HIDE DEF row
    <3>4. MaySpin(row, cur, tr, fd, brokenRows)
      BY <1>2, <1>6, <1>7, <2>2, <3>3 DEF MaySpin
    <3>5. currentRows.hooks # shownEvents + 1 /\ currentRows.compact # shownEvents + 1
      BY <1>4, <1>5
    <3>6. rows' = Append(Display!Finalized, row)
      BY <1>2, <2>2
    <3>7. /\ rows' \in Seq(RowType) /\ Identified(rows', shownEvents + 1) /\ KindsKept(rows', cur) /\
               Texts(rows', cur)
          /\ Spins(rows', cur, tr, fd, brokenRows)
          /\ (\A d, id : HasRow(rs, d, id) => HasRow(rows', d, id)) /\ (\A d : IsShown(rs, d) =>
               IsShown(rows', d))
          /\ (Paired(rs) => Paired(rows')) /\ HasRow(rows', c, shownEvents + 1) /\ IsShown(rows', c)
      BY <1>4, <1>5, <1>9, <3>3, <3>4, <3>5, <3>6, RowAdded
    <3> HIDE DEF rs
    <3>8. ASSUME ~brokenRows.remote PROVE CallRows(rows', tr, fd)
      BY <1>1, <1>2, <1>4, <1>6, <1>7, <2>2, <3>7, <3>8 DEF CallRows
    <3> QED
      BY <3>7, <3>8
  <2> QED
    BY <2>1, <2>2
<1>12. DisplayTypes'
  BY <1>1, <1>2, <1>3, <1>4, <1>5, <1>6, <1>7, <1>11 DEF DisplayTypes
<1>13. cur.reply <= shownEvents + 1 /\ cur.thought <= shownEvents + 1 /\
         cur.compact <= shownEvents + 1 /\ cur.hooks <= shownEvents + 1
  BY <1>4, <1>5
<1>14. Currently'
  BY <1>1, <1>2, <1>6, <1>11, <1>13 DEF Currently
<1> QED
  BY <1>2, <1>3, <1>11, <1>12, <1>14 DEF DisplayInv


\* A call that has no result yet has one row, and no result below that.
LEMMA OwnRow ==
  ASSUME NEW rs, NEW n, Identified(rs, n), NEW c, NEW id, HasRow(rs, c, id), NEW p \in DOMAIN rs,
           rs[p].id = id
  PROVE  rs[p].kind = "call" /\ rs[p].call = c /\ (p + 1 \in DOMAIN rs => rs[p + 1].kind # "result")
<1>1. PICK q \in DOMAIN rs : /\ rs[q].id = id /\ rs[q].kind = "call" /\ rs[q].call = c
                             /\ q + 1 \in DOMAIN rs => rs[q + 1].kind # "result"
  BY DEF HasRow
<1>2. q = p
  BY <1>1 DEF Identified
<1> QED
  BY <1>1, <1>2

LEMMA OneIsAnswered ==
  ASSUME Display!DisplayAssumption, DisplayInv, NEW c \in ShownCalls, Display!ToolResult(c)
  PROVE  DisplayInv'
<1> DEFINE done == Display!Finalized
           rs == [i \in DOMAIN done |-> IF rows[i].id = tracked[c] THEN Display!Still(done[i]) ELSE done[i]]
           at == IF Display!On(tracked[c]) THEN Display!RowOf(tracked[c]) ELSE Len(rows)
           cur == Display!NothingWritten
           fd == [feed EXCEPT !.answered = feed.answered \cup {c}]
           tr == [tracked EXCEPT ![c] = 0]
           row == Display!Row("result", c, <<>>)
<1>1. /\ DisplayTypes /\ Currently /\ (~brokenRows.remote => CallRows(done, tracked, feed))
      /\ done \in Seq(RowType) /\ Identified(done, shownEvents) /\ KindsKept(done, currentRows) /\
           CalmRows(done)
      /\ Spins(done, currentRows, tracked, feed, brokenRows) /\ KeptRows(rows, done)
  BY EndedIs DEF DisplayInv
<1>2. /\ feed.from # "none" /\ shownEvents < MaxShown /\ shownEvents' = shownEvents + 1 /\
           c \in feed.called \ feed.answered
      /\ feed' = fd /\ rows' = Display!InsertAt(rs, at + 1, row) /\ currentRows' = cur /\ tracked' = tr
      /\ atBottom' = atBottom /\ brokenRows' = brokenRows
  BY DEF Display!ToolResult, Display!Event, Display!EventWithin, Display!Rest
<1>3. /\ currentRows \in [reply : Nat, thought : Nat, compact : Nat, hooks : Nat] /\
           shownEvents \in Nat /\ shownEvents + 1 \in 0..MaxShown
      /\ tracked \in [ShownCalls -> 0..MaxShown] /\ feed.called \subseteq ShownCalls /\
           feed.answered \subseteq feed.called
      /\ feed \in [from : {"none", "turn", "remote"}, called : SUBSET ShownCalls,
                   answered : SUBSET ShownCalls, within : {"none", "compact", "hooks"}]
      /\ rows \in Seq(RowType) /\ MaxShown \in Nat
  BY <1>1, <1>2, DisplayFields
<1>4. /\ cur \in [reply : Nat, thought : Nat, compact : Nat, hooks : Nat] /\ cur.reply = 0 /\
           cur.thought = 0
      /\ cur.compact = currentRows.compact /\ cur.hooks = currentRows.hooks /\
           currentRows.compact <= shownEvents /\ currentRows.hooks <= shownEvents
      /\ currentRows.compact \in Nat /\ currentRows.hooks \in Nat
  BY <1>1, <1>3, NothingWrittenIs DEF Currently
<1>5. /\ fd \in [from : {"none", "turn", "remote"}, called : SUBSET ShownCalls,
                 answered : SUBSET ShownCalls, within : {"none", "compact", "hooks"}]
      /\ fd.called = feed.called /\ fd.answered = feed.answered \cup {c} /\ fd.from = feed.from /\
           fd.within = feed.within
  BY <1>3
<1>6. tr \in [ShownCalls -> 0..MaxShown] /\ (\A d \in ShownCalls : d # c => tr[d] = tracked[d]) /\ tr[c] = 0
  BY <1>3
<1>7. DOMAIN done = DOMAIN rows /\ \A i \in DOMAIN rows : done[i].id = rows[i].id /\
        done[i].kind = rows[i].kind /\ done[i].call = rows[i].call
  BY <1>1 DEF KeptRows, Keeps
<1>8. at \in 0..Len(rows) /\ (Display!On(tracked[c]) => at \in DOMAIN rows /\ rows[at].id = tracked[c])
  BY <1>3, RowOfIs
<1> HIDE DEF cur, fd, tr, done, at
<1>9. ASSUME NEW i \in DOMAIN done
      PROVE  Keeps(rs[i], done[i]) /\ (done[i].id = tracked[c] => ~rs[i].spins)
  <2>1. done[i] \in RowType
    BY <1>1, RowsAre
  <2>2. CASE rows[i].id = tracked[c]
    BY <2>1, <2>2, StillIs
  <2>3. CASE rows[i].id # tracked[c]
    BY <1>7, <2>1, <2>3, KeepsSame
  <2> QED
    BY <2>2, <2>3
<1>10. rs = [i \in DOMAIN done |-> rs[i]]
  OBVIOUS
<1> HIDE DEF rs
<1>11. rs \in Seq(RowType) /\ DOMAIN rs = DOMAIN done /\ Len(rs) = Len(done)
  BY <1>1, <1>9, <1>10, MappedAre DEF Keeps
<1>12. KeptRows(done, rs)
  BY <1>9, <1>11 DEF KeptRows
<1>13. Len(rs) = Len(rows) /\ at \in 0..Len(rs)
  <2>1. Len(done) = Len(rows)
    BY <1>1, <1>3, <1>7
  <2> QED
    BY <1>8, <1>11, <2>1
<1>14. /\ Identified(rs, shownEvents) /\ KindsKept(rs, currentRows) /\ Texts(rs, cur)
       /\ (Paired(done) => Paired(rs)) /\ (\A d, id : HasRow(done, d, id) => HasRow(rs, d, id))
       /\ (\A d : IsShown(done, d) => IsShown(rs, d))
  <2>1. Texts(done, cur)
    BY <1>1, CalmIs
  <2> QED
    BY <1>1, <1>12, <2>1, KeptShape
<1>15. KindsKept(rs, cur)
  BY <1>3, <1>4, <1>14, KindsMoved
<1>16. \A i \in DOMAIN rs : /\ rs[i].id \in 1..shownEvents /\ rs[i].id = done[i].id /\
                                 rs[i].kind = done[i].kind /\ rs[i].call = done[i].call
                            /\ (rs[i].spins => done[i].spins)
  BY <1>9, <1>11, <1>14 DEF Keeps, Identified
<1>17. Spins(rs, cur, tr, fd, brokenRows)
  <2> SUFFICES ASSUME NEW i \in DOMAIN rs, rs[i].spins PROVE MaySpin(rs[i], cur, tr, fd, brokenRows)
    BY DEF Spins
  <2>1. done[i].spins /\ rs[i].id # tracked[c] /\ rs[i].id # 0
    BY <1>9, <1>11, <1>16
  <2>2. MaySpin(done[i], currentRows, tracked, feed, brokenRows) /\ done[i].kind \in {"call", "compact"}
    BY <1>1, <1>11, <2>1 DEF Spins, CalmRows
  <2>3. CASE rs[i].kind = "compact"
    BY <1>4, <1>5, <1>16, <2>2, <2>3 DEF MaySpin
  <2>4. CASE rs[i].kind = "call" /\ brokenRows.remote
    BY <2>4 DEF MaySpin
  <2>5. CASE rs[i].kind = "call" /\ ~brokenRows.remote
    BY <1>3, <1>5, <1>6, <1>16, <2>1, <2>2, <2>5 DEF MaySpin
  <2> QED
    BY <1>16, <2>2, <2>3, <2>4, <2>5
<1>18. /\ row \in RowType /\ row.id = shownEvents + 1 /\ row.kind = "result" /\ row.call = c /\
            row.buffer = <<>> /\ TextOk(row)
       /\ ~row.spins
  <2>1. "result" \in Kinds /\ c \in ShownCalls \cup {NoCall} /\ <<>> \in Seq(Nat) /\
          "result" \notin {"thought", "call", "compact"}
    BY DEF Kinds
  <2>2. LET own == Display!Row("result", c, <<>>) IN
        /\ own \in RowType /\ own.id = shownEvents + 1 /\ own.kind = "result" /\ own.call = c /\
             own.content = <<>>
        /\ own.written = <<>> /\ own.buffer = <<>> /\ ~own.folded /\ (own.spins =>
                                                                      "result" \in {"thought", "call",
                                                                        "compact"})
        /\ TextOk(own)
    BY <1>3, <2>1, RowIs, ZenonT(60)
  <2> QED
    BY <2>1, <2>2, ZenonT(60)
<1> HIDE DEF row
<1>19. /\ rows' \in Seq(RowType) /\ FromRows(rows', rs, row) /\ Identified(rows', shownEvents + 1)
       /\ (\A d : IsShown(rs, d) => IsShown(rows', d))
       /\ (\A d, id : HasRow(rs, d, id) /\ (at \in DOMAIN rs => rs[at].id # id) => HasRow(rows', d, id))
       /\ (Paired(rs) /\ at \in DOMAIN rs /\ rs[at].kind = "call" /\ rs[at].call = row.call
           /\ (at + 1 \in DOMAIN rs => rs[at + 1].kind # "result") => Paired(rows'))
  BY <1>2, <1>3, <1>11, <1>13, <1>14, <1>18, InsertedShape
<1>20. KindsKept(rows', cur) /\ Texts(rows', cur) /\ Spins(rows', cur, tr, fd, brokenRows)
  BY <1>3, <1>4, <1>14, <1>15, <1>17, <1>18, <1>19, FromShape
<1>21. ASSUME ~brokenRows.remote PROVE CallRows(rows', tr, fd)
  <2>1. CallRows(done, tracked, feed)
    BY <1>1, <1>21
  <2>2. tracked[c] # 0 /\ HasRow(rs, c, tracked[c])
    BY <1>2, <1>14, <2>1 DEF CallRows
  <2>3. at \in DOMAIN rs /\ rs[at].id = tracked[c]
    BY <1>7, <1>8, <1>11, <1>16, <2>2 DEF HasRow, Display!On
  <2>4. rs[at].kind = "call" /\ rs[at].call = c /\ (at + 1 \in DOMAIN rs => rs[at + 1].kind # "result")
    BY <1>14, <2>2, <2>3, OwnRow
  <2>5. Paired(rows')
    BY <1>14, <1>18, <1>19, <2>1, <2>3, <2>4 DEF CallRows
  <2>6. ASSUME NEW d \in ShownCalls, tr[d] # 0
        PROVE d \in fd.called \ fd.answered /\ HasRow(rows', d, tr[d])
    <3>1. d # c /\ tr[d] = tracked[d]
      BY <1>6, <2>6
    <3>2. d \in feed.called \ feed.answered /\ HasRow(rs, d, tracked[d])
      BY <1>14, <2>1, <2>6, <3>1 DEF CallRows
    <3>3. rs[at].id # tracked[d]
      BY <1>14, <2>3, <2>4, <3>1, <3>2, OwnRow
    <3> QED
      BY <1>5, <1>19, <3>1, <3>2, <3>3
  <2>7. \A d \in fd.called \ fd.answered : tr[d] # 0
    BY <1>3, <1>5, <1>6, <2>1 DEF CallRows
  <2>8. \A d \in fd.called : IsShown(rows', d)
    BY <1>5, <1>14, <1>19, <2>1 DEF CallRows
  <2> QED
    BY <2>5, <2>6, <2>7, <2>8 DEF CallRows
<1>22. DisplayTypes'
  BY <1>1, <1>2, <1>3, <1>4, <1>5, <1>6, <1>19 DEF DisplayTypes
<1>23. cur.reply <= shownEvents + 1 /\ cur.thought <= shownEvents + 1 /\
         cur.compact <= shownEvents + 1 /\ cur.hooks <= shownEvents + 1
  BY <1>3, <1>4
<1>24. Currently'
  BY <1>1, <1>2, <1>5, <1>20, <1>23 DEF Currently
<1> QED
  BY <1>2, <1>19, <1>20, <1>21, <1>22, <1>24 DEF DisplayInv


LEMMA CompactStarts ==
  ASSUME Display!DisplayAssumption, DisplayInv, Display!CompactStart
  PROVE  DisplayInv'
<1> DEFINE rs == Display!Finalized
           cur == [Display!NothingWritten EXCEPT !.compact = shownEvents + 1]
           fd == [feed EXCEPT !.within = "compact"]
           row == Display!Row("compact", NoCall, <<>>)
<1>1. /\ DisplayTypes /\ Currently /\ (~brokenRows.remote => CallRows(rs, tracked, feed))
      /\ rs \in Seq(RowType) /\ Identified(rs, shownEvents) /\ KindsKept(rs, currentRows) /\ CalmRows(rs)
      /\ Spins(rs, currentRows, tracked, feed, brokenRows)
  BY EndedIs DEF DisplayInv
<1>2. /\ feed.from = "turn" /\ feed.within = "none" /\ shownEvents < MaxShown /\
           shownEvents' = shownEvents + 1
      /\ feed' = fd /\ rows' = Append(rs, row) /\ currentRows' = cur
      /\ tracked' = tracked /\ atBottom' = atBottom /\ brokenRows' = brokenRows
  BY DEF Display!CompactStart, Display!Event, Display!EventWithin, Display!Rest
<1>3. /\ currentRows \in [reply : Nat, thought : Nat, compact : Nat, hooks : Nat] /\
           shownEvents \in Nat /\ shownEvents + 1 \in 0..MaxShown
      /\ feed \in [from : {"none", "turn", "remote"}, called : SUBSET ShownCalls,
                   answered : SUBSET ShownCalls, within : {"none", "compact", "hooks"}]
  BY <1>1, <1>2, DisplayFields
<1>4. /\ cur \in [reply : Nat, thought : Nat, compact : Nat, hooks : Nat] /\ cur.reply = 0 /\
           cur.thought = 0
      /\ cur.compact = shownEvents + 1 /\ cur.hooks = currentRows.hooks
  BY <1>3, NothingWrittenIs
<1>5. currentRows.compact # shownEvents + 1 /\ currentRows.hooks # shownEvents + 1 /\
        cur.hooks <= shownEvents + 1
  BY <1>1, <1>3, <1>4 DEF Currently
<1>6. /\ fd \in [from : {"none", "turn", "remote"}, called : SUBSET ShownCalls,
                 answered : SUBSET ShownCalls, within : {"none", "compact", "hooks"}]
      /\ fd.called = feed.called /\ fd.answered = feed.answered /\ fd.from = feed.from /\
           fd.within = "compact"
  BY <1>3
<1> HIDE DEF cur, fd
<1>7. Spins(rs, cur, tracked, fd, brokenRows)
  BY <1>1, <1>2, <1>6 DEF Spins, CalmRows, MaySpin
<1>8. /\ row \in RowType /\ row.id = shownEvents + 1 /\ row.kind = "compact" /\ row.buffer = <<>> /\
           TextOk(row)
  <2>1. "compact" \in Kinds /\ NoCall \in ShownCalls \cup {NoCall} /\ <<>> \in Seq(Nat)
    BY DEF Kinds
  <2>2. LET own == Display!Row("compact", NoCall, <<>>) IN
        /\ own \in RowType /\ own.id = shownEvents + 1 /\ own.kind = "compact" /\ own.call = NoCall /\
             own.content = <<>>
        /\ own.written = <<>> /\ own.buffer = <<>> /\ ~own.folded /\ (own.spins =>
                                                                      "compact" \in {"thought", "call",
                                                                        "compact"})
        /\ TextOk(own)
    BY <1>3, <2>1, RowIs, ZenonT(60)
  <2> QED
    BY <2>2, ZenonT(60)
<1> HIDE DEF row
<1>9. MaySpin(row, cur, tracked, fd, brokenRows)
  BY <1>4, <1>6, <1>8 DEF MaySpin
<1>10. rows' = Append(Display!Finalized, row)
  BY <1>2
<1>11. /\ rows' \in Seq(RowType) /\ Identified(rows', shownEvents + 1) /\ KindsKept(rows', cur) /\
            Texts(rows', cur)
       /\ Spins(rows', cur, tracked, fd, brokenRows)
       /\ (\A d, id : HasRow(rs, d, id) => HasRow(rows', d, id)) /\ (\A d : IsShown(rs, d) =>
                                                                     IsShown(rows', d))
       /\ (Paired(rs) => Paired(rows'))
  BY <1>3, <1>4, <1>5, <1>7, <1>8, <1>9, <1>10, RowAdded
<1> HIDE DEF rs
<1>12. ~brokenRows.remote => CallRows(rows', tracked, feed)
  BY <1>1, <1>11, CallRowsStay
<1>13. ~brokenRows.remote => CallRows(rows', tracked, fd)
  BY <1>6, <1>12 DEF CallRows
<1>14. feed'.answered \subseteq feed'.called
  BY <1>1, <1>2, <1>6 DEF DisplayTypes
<1>15. DisplayTypes'
  BY <1>1, <1>2, <1>3, <1>4, <1>6, <1>11, <1>14 DEF DisplayTypes
<1>16. Currently'
  BY <1>2, <1>3, <1>4, <1>5, <1>6, <1>11 DEF Currently
<1> QED
  BY <1>2, <1>11, <1>13, <1>15, <1>16 DEF DisplayInv

LEMMA UserSays ==
  ASSUME Display!DisplayAssumption, DisplayInv, Display!UserMessage
  PROVE  DisplayInv'
<1> DEFINE rs == Display!Finalized
           cur == Display!NothingWritten
           row == Display!Row("user", NoCall, <<>>)
<1>1. /\ DisplayTypes /\ Currently /\ (~brokenRows.remote => CallRows(rs, tracked, feed))
      /\ rs \in Seq(RowType) /\ Identified(rs, shownEvents) /\ KindsKept(rs, currentRows) /\ CalmRows(rs)
      /\ Spins(rs, currentRows, tracked, feed, brokenRows)
  BY EndedIs DEF DisplayInv
<1>2. /\ feed.from # "none" /\ shownEvents < MaxShown /\ shownEvents' = shownEvents + 1 /\
           rows' = Append(rs, row) /\ currentRows' = cur
      /\ feed' = feed /\ tracked' = tracked /\ atBottom' = atBottom /\ brokenRows' = brokenRows
  BY DEF Display!UserMessage, Display!Event, Display!EventWithin, Display!Rest
<1>3. /\ currentRows \in [reply : Nat, thought : Nat, compact : Nat, hooks : Nat] /\
           shownEvents \in Nat /\ shownEvents + 1 \in 0..MaxShown
  BY <1>1, <1>2, DisplayFields
<1>4. /\ cur \in [reply : Nat, thought : Nat, compact : Nat, hooks : Nat] /\ cur.reply = 0 /\
           cur.thought = 0
      /\ cur.compact = currentRows.compact /\ cur.hooks = currentRows.hooks
  BY <1>3, NothingWrittenIs
<1>5. /\ currentRows.compact # shownEvents + 1 /\ currentRows.hooks # shownEvents + 1 /\
           cur.hooks <= shownEvents + 1 /\ cur.compact <= shownEvents + 1
  BY <1>1, <1>3, <1>4 DEF Currently
<1> HIDE DEF cur
<1>6. Spins(rs, cur, tracked, feed, brokenRows)
  BY <1>1, <1>4, CalmIs
<1>7. row \in RowType /\ row.id = shownEvents + 1 /\ row.kind = "user" /\ row.buffer = <<>> /\
        TextOk(row) /\ ~row.spins
  <2>1. "user" \in Kinds /\ NoCall \in ShownCalls \cup {NoCall} /\ <<>> \in Seq(Nat) /\
          "user" \notin {"thought", "call", "compact"}
    BY DEF Kinds
  <2>2. LET own == Display!Row("user", NoCall, <<>>) IN
        /\ own \in RowType /\ own.id = shownEvents + 1 /\ own.kind = "user" /\ own.call = NoCall /\
             own.content = <<>>
        /\ own.written = <<>> /\ own.buffer = <<>> /\ ~own.folded /\ (own.spins =>
                                                                      "user" \in {"thought", "call",
                                                                        "compact"})
        /\ TextOk(own)
    BY <1>3, <2>1, RowIs, ZenonT(60)
  <2> QED
    BY <2>1, <2>2, ZenonT(60)
<1> HIDE DEF row
<1>8. rows' = Append(Display!Finalized, row)
  BY <1>2
<1>9. /\ rows' \in Seq(RowType) /\ Identified(rows', shownEvents + 1) /\ KindsKept(rows', cur) /\
           Texts(rows', cur)
      /\ Spins(rows', cur, tracked, feed, brokenRows)
      /\ (\A d, id : HasRow(rs, d, id) => HasRow(rows', d, id)) /\ (\A d : IsShown(rs, d) =>
                                                                    IsShown(rows', d))
      /\ (Paired(rs) => Paired(rows'))
  BY <1>3, <1>4, <1>5, <1>6, <1>7, <1>8, RowAdded
<1> HIDE DEF rs
<1>10. ~brokenRows.remote => CallRows(rows', tracked, feed)
  BY <1>1, <1>9, CallRowsStay
<1>11. DisplayTypes'
  BY <1>1, <1>2, <1>3, <1>4, <1>9 DEF DisplayTypes
<1>12. Currently'
  BY <1>1, <1>2, <1>3, <1>4, <1>5, <1>9 DEF Currently
<1> QED
  BY <1>2, <1>9, <1>10, <1>11, <1>12 DEF DisplayInv

LEMMA CompactEnds ==
  ASSUME Display!DisplayAssumption, DisplayInv, Display!CompactEnd
  PROVE  DisplayInv'
<1> DEFINE done == Display!Finalized
           rs == Display!Final(done, currentRows.compact)
           cur == [Display!NothingWritten EXCEPT !.compact = 0]
           fd == [feed EXCEPT !.within = "none"]
<1>1. /\ DisplayTypes /\ Currently /\ (~brokenRows.remote => CallRows(done, tracked, feed))
      /\ done \in Seq(RowType) /\ Identified(done, shownEvents) /\ KindsKept(done, currentRows) /\
           CalmRows(done)
      /\ Spins(done, currentRows, tracked, feed, brokenRows)
  BY EndedIs DEF DisplayInv
<1>2. /\ feed.within = "compact" /\ shownEvents < MaxShown /\ shownEvents' = shownEvents + 1
      /\ feed' = fd /\ rows' = rs /\ currentRows' = cur /\ tracked' = tracked /\
           atBottom' = atBottom /\ brokenRows' = brokenRows
  BY DEF Display!CompactEnd, Display!EventWithin, Display!Rest
<1>3. /\ currentRows \in [reply : Nat, thought : Nat, compact : Nat, hooks : Nat] /\
           shownEvents \in Nat /\ shownEvents + 1 \in 0..MaxShown
      /\ feed \in [from : {"none", "turn", "remote"}, called : SUBSET ShownCalls,
                   answered : SUBSET ShownCalls, within : {"none", "compact", "hooks"}]
  BY <1>1, <1>2, DisplayFields
<1>4. /\ cur \in [reply : Nat, thought : Nat, compact : Nat, hooks : Nat] /\ cur.reply = 0 /\
           cur.thought = 0
      /\ cur.compact = 0 /\ cur.hooks = currentRows.hooks /\ currentRows.hooks <= shownEvents
  BY <1>1, <1>3, NothingWrittenIs DEF Currently
<1>5. /\ fd \in [from : {"none", "turn", "remote"}, called : SUBSET ShownCalls,
                 answered : SUBSET ShownCalls, within : {"none", "compact", "hooks"}]
      /\ fd.called = feed.called /\ fd.answered = feed.answered /\ fd.from = feed.from /\ fd.within = "none"
  BY <1>3
<1> HIDE DEF cur, fd, done
<1>6. KeptRows(done, rs) /\ \A i \in DOMAIN done : done[i].id = currentRows.compact => ~rs[i].spins
  BY <1>1, FinalIs
<1> HIDE DEF rs
<1>7. /\ rs \in Seq(RowType) /\ DOMAIN rs = DOMAIN done
      /\ \A i \in DOMAIN done : rs[i].id = done[i].id /\ rs[i].kind = done[i].kind
  BY <1>6 DEF KeptRows, Keeps
<1>8. Texts(done, cur)
  BY <1>1, CalmIs
<1>9. /\ Identified(rs, shownEvents) /\ KindsKept(rs, currentRows) /\ Texts(rs, cur) /\
           Spins(rs, currentRows, tracked, feed, brokenRows)
      /\ (Paired(done) => Paired(rs)) /\ (\A c, id : HasRow(done, c, id) => HasRow(rs, c, id))
      /\ \A c : IsShown(done, c) => IsShown(rs, c)
  BY <1>1, <1>6, <1>8, KeptShape
<1>10. KindsKept(rs, cur) /\ Identified(rs, shownEvents + 1)
  BY <1>3, <1>4, <1>9, KindsMoved, IdentifiedMore
<1>11. Spins(rs, cur, tracked, fd, brokenRows)
  <2> SUFFICES ASSUME NEW i \in DOMAIN rs, rs[i].spins PROVE MaySpin(rs[i], cur, tracked, fd, brokenRows)
    BY DEF Spins
  <2>1. MaySpin(rs[i], currentRows, tracked, feed, brokenRows) /\ rs[i].id # currentRows.compact
    BY <1>6, <1>7, <1>9 DEF Spins
  <2>2. done[i].spins
    BY <1>6, <1>7 DEF KeptRows, Keeps
  <2>3. rs[i].kind # "thought"
    BY <1>1, <1>7, <2>2 DEF CalmRows
  <2> QED
    BY <1>5, <2>1, <2>3 DEF MaySpin
<1>12. ~brokenRows.remote => CallRows(rs, tracked, feed)
  BY <1>1, <1>9, CallRowsStay
<1>13. ~brokenRows.remote => CallRows(rs, tracked, fd)
  BY <1>5, <1>12 DEF CallRows
<1>14. feed'.answered \subseteq feed'.called
  BY <1>1, <1>2, <1>5 DEF DisplayTypes
<1>15. DisplayTypes'
  BY <1>1, <1>2, <1>3, <1>4, <1>5, <1>7, <1>14 DEF DisplayTypes
<1>16. Currently'
  BY <1>1, <1>2, <1>3, <1>4, <1>5, <1>10 DEF Currently
<1> QED
  BY <1>2, <1>9, <1>10, <1>11, <1>13, <1>15, <1>16 DEF DisplayInv


LEMMA HooksRowIs ==
  ASSUME shownEvents \in Nat
  PROVE  LET row == [Display!Row("hooks", NoCall, <<>>) EXCEPT !.folded = TRUE] IN
         /\ row \in RowType /\ row.id = shownEvents + 1 /\ row.kind = "hooks" /\ row.buffer = <<>> /\
              TextOk(row) /\ ~row.spins
<1> DEFINE row == Display!Row("hooks", NoCall, <<>>)
           new == [row EXCEPT !.folded = TRUE]
<1>1. "hooks" \in Kinds /\ NoCall \in ShownCalls \cup {NoCall} /\ <<>> \in Seq(Nat) /\
        "hooks" \notin {"thought", "call", "compact"}
  BY DEF Kinds
<1>2. LET own == Display!Row("hooks", NoCall, <<>>) IN
      /\ own \in RowType /\ own.id = shownEvents + 1 /\ own.kind = "hooks" /\ own.call = NoCall /\
           own.content = <<>>
      /\ own.written = <<>> /\ own.buffer = <<>> /\ ~own.folded /\ (own.spins =>
                                                                    "hooks" \in {"thought", "call",
                                                                      "compact"})
      /\ TextOk(own)
  BY <1>1, RowIs, ZenonT(60)
<1>3. /\ row \in RowType /\ row.id = shownEvents + 1 /\ row.kind = "hooks" /\ row.written = <<>> /\
           row.content = <<>>
      /\ row.buffer = <<>> /\ ~row.spins
  BY <1>1, <1>2, ZenonT(60)
<1> HIDE DEF row
<1>4. /\ new \in RowType /\ new.id = shownEvents + 1 /\ new.kind = "hooks" /\ new.written = <<>> /\
           new.content = <<>>
      /\ new.buffer = <<>> /\ ~new.spins /\ new.folded = TRUE
  BY <1>3 DEF RowType
<1> HIDE DEF new
<1>5. TextOk(new)
  BY <1>4 DEF TextOk
<1> QED
  BY <1>4, <1>5 DEF new, row

LEMMA HooksStart ==
  ASSUME Display!DisplayAssumption, DisplayInv, Display!HookRunStart
  PROVE  DisplayInv'
<1> DEFINE cur == [currentRows EXCEPT !.hooks = shownEvents + 1]
           fd == [feed EXCEPT !.within = "hooks"]
           row == [Display!Row("hooks", NoCall, <<>>) EXCEPT !.folded = TRUE]
<1>1. /\ DisplayTypes /\ Identified(rows, shownEvents) /\ Currently /\ KindsKept(rows, currentRows) /\
           Texts(rows, currentRows)
      /\ Spins(rows, currentRows, tracked, feed, brokenRows) /\ (~brokenRows.remote =>
                                                                 CallRows(rows, tracked, feed))
  BY DEF DisplayInv, Currently
<1>2. /\ feed.from = "turn" /\ feed.within = "none" /\ shownEvents < MaxShown /\
           shownEvents' = shownEvents + 1
      /\ feed' = fd /\ rows' = Append(rows, row) /\ currentRows' = cur
      /\ tracked' = tracked /\ atBottom' = atBottom /\ brokenRows' = brokenRows
  BY DEF Display!HookRunStart, Display!Event, Display!EventWithin, Display!Rest
<1>3. /\ currentRows \in [reply : Nat, thought : Nat, compact : Nat, hooks : Nat] /\
           shownEvents \in Nat /\ shownEvents + 1 \in 0..MaxShown
      /\ feed \in [from : {"none", "turn", "remote"}, called : SUBSET ShownCalls,
                   answered : SUBSET ShownCalls, within : {"none", "compact", "hooks"}]
      /\ rows \in Seq(RowType)
  BY <1>1, <1>2, DisplayFields
<1>4. /\ cur \in [reply : Nat, thought : Nat, compact : Nat, hooks : Nat] /\
           cur.reply = currentRows.reply /\ cur.thought = currentRows.thought
      /\ cur.compact = currentRows.compact /\ cur.hooks = shownEvents + 1
  BY <1>3
<1>5. /\ cur.reply <= shownEvents /\ cur.thought <= shownEvents /\ cur.compact <= shownEvents
      /\ cur.reply <= shownEvents + 1 /\ cur.thought <= shownEvents + 1 /\
           cur.compact <= shownEvents + 1 /\ cur.hooks <= shownEvents + 1
      /\ cur.reply # shownEvents + 1 /\ cur.thought # shownEvents + 1 /\ cur.compact # shownEvents + 1
  BY <1>1, <1>3, <1>4 DEF Currently
<1>6. /\ fd \in [from : {"none", "turn", "remote"}, called : SUBSET ShownCalls,
                 answered : SUBSET ShownCalls, within : {"none", "compact", "hooks"}]
      /\ fd.called = feed.called /\ fd.answered = feed.answered /\ fd.from = feed.from /\
           fd.within = "hooks"
  BY <1>3
<1>7. row \in RowType /\ row.id = shownEvents + 1 /\ row.kind = "hooks" /\ row.buffer = <<>> /\
        TextOk(row) /\ ~row.spins
  BY <1>3, HooksRowIs
<1> HIDE DEF cur, fd, row
<1>8. row.kind # "result"
  BY <1>7
<1>9. /\ rows' \in Seq(RowType) /\ FromRows(rows', rows, row) /\ Identified(rows', shownEvents + 1)
      /\ (\A d, id : HasRow(rows, d, id) => HasRow(rows', d, id)) /\ (\A d : IsShown(rows, d) =>
                                                                      IsShown(rows', d))
      /\ (Paired(rows) => Paired(rows'))
  BY <1>1, <1>2, <1>3, <1>7, <1>8, AddedShape
<1>10. KindsKept(rows, cur)
  BY <1>1, <1>3, <1>4, KindsMoved
<1>11. Texts(rows, cur)
  BY <1>1, <1>4 DEF Texts
<1>12. Spins(rows, cur, tracked, fd, brokenRows)
  BY <1>1, <1>2, <1>4, <1>6 DEF Spins, MaySpin
<1>13. KindsKept(rows', cur) /\ Texts(rows', cur) /\ Spins(rows', cur, tracked, fd, brokenRows)
  BY <1>5, <1>7, <1>9, <1>10, <1>11, <1>12, FromShape
<1>14. ~brokenRows.remote => CallRows(rows', tracked, feed)
  BY <1>1, <1>9, CallRowsStay
<1>15. ~brokenRows.remote => CallRows(rows', tracked, fd)
  BY <1>6, <1>14 DEF CallRows
<1>16. feed'.answered \subseteq feed'.called
  BY <1>1, <1>2, <1>6 DEF DisplayTypes
<1>17. DisplayTypes'
  BY <1>1, <1>2, <1>3, <1>4, <1>6, <1>9, <1>16 DEF DisplayTypes
<1>18. Currently'
  BY <1>2, <1>5, <1>6, <1>13 DEF Currently
<1> QED
  BY <1>2, <1>9, <1>13, <1>15, <1>17, <1>18 DEF DisplayInv

LEMMA HookIsHeard ==
  ASSUME Display!DisplayAssumption, DisplayInv, Display!HookSays
  PROVE  DisplayInv'
<1> DEFINE rs == [i \in DOMAIN rows |-> IF rows[i].id = currentRows.hooks
                    THEN [rows[i] EXCEPT !.folded = FALSE, !.content = Append(@, shownEvents + 1),
                          !.written = Append(@, shownEvents + 1)]
                    ELSE rows[i]]
<1>1. /\ DisplayTypes /\ Identified(rows, shownEvents) /\ Currently /\ KindsKept(rows, currentRows) /\
           Texts(rows, currentRows)
      /\ Spins(rows, currentRows, tracked, feed, brokenRows) /\ (~brokenRows.remote =>
                                                                 CallRows(rows, tracked, feed))
  BY DEF DisplayInv, Currently
<1>2. /\ shownEvents < MaxShown /\ shownEvents' = shownEvents + 1 /\ rows' = rs
      /\ currentRows' = currentRows /\ tracked' = tracked /\ feed' = feed /\ atBottom' = atBottom /\
           brokenRows' = brokenRows
  BY DEF Display!HookSays, Display!EventWithin, Display!Rest
<1>3. shownEvents \in Nat /\ shownEvents + 1 \in 0..MaxShown /\ rows \in Seq(RowType)
  BY <1>1, <1>2, DisplayFields
<1>4. ASSUME NEW i \in DOMAIN rows
      PROVE  /\ rs[i] \in RowType /\ rs[i].id = rows[i].id /\ rs[i].kind = rows[i].kind /\
                  rs[i].call = rows[i].call
             /\ rs[i].spins = rows[i].spins /\ rs[i].buffer = rows[i].buffer /\ TextOk(rs[i])
  <2>1. rows[i] \in RowType /\ TextOk(rows[i])
    BY <1>1, <1>3, RowsAre DEF Texts
  <2>2. CASE rows[i].id = currentRows.hooks
    <3> DEFINE row == rows[i]
               heard == Append(row.content, shownEvents + 1)
               new == [row EXCEPT !.folded = FALSE, !.content = heard, !.written = heard]
    <3>1. row \in RowType /\ row.written = row.content /\ row.buffer = <<>> /\ row.content \in Seq(Nat)
      BY <1>1, <2>1, <2>2 DEF KindsKept, TextOk, RowType
    <3>2. heard \in Seq(Nat) /\ heard \o <<>> = heard
      BY <1>3, <3>1
    <3>3. rs[i] = [row EXCEPT !.folded = FALSE, !.content = Append(row.content, shownEvents + 1),
                   !.written = Append(row.written, shownEvents + 1)]
      BY <2>2, <3>1 DEF RowType
    <3>4. rs[i] = new
      BY <3>1, <3>3
    <3> HIDE DEF row, heard
    <3>5. /\ new \in RowType /\ new.id = row.id /\ new.kind = row.kind /\ new.call = row.call /\
               new.spins = row.spins
          /\ new.buffer = row.buffer /\ new.content = heard /\ new.written = heard
      BY <3>1, <3>2 DEF RowType
    <3> HIDE DEF new
    <3>6. TextOk(new)
      BY <3>1, <3>2, <3>5 DEF TextOk
    <3> QED
      BY <3>4, <3>5, <3>6 DEF row
  <2>3. CASE rows[i].id # currentRows.hooks
    <3>1. rs[i] = rows[i]
      BY <2>3
    <3> QED
      BY <2>1, <3>1
  <2> QED
    BY <2>2, <2>3
<1>5. rs = [i \in DOMAIN rows |-> rs[i]]
  OBVIOUS
<1> HIDE DEF rs
<1>6. rs \in Seq(RowType) /\ DOMAIN rs = DOMAIN rows
  BY <1>3, <1>4, <1>5, MappedAre
<1>7. SameRows(rows, rs)
  BY <1>4, <1>6 DEF SameRows
<1>8. /\ Identified(rs, shownEvents) /\ KindsKept(rs, currentRows) /\ (\A c, d : HasRow(rows, c, d) =>
           HasRow(rs, c, d))
      /\ (\A c : IsShown(rows, c) => IsShown(rs, c)) /\ (Paired(rows) => Paired(rs))
  BY <1>1, <1>3, <1>7, SameShape
<1>9. Identified(rs, shownEvents + 1)
  BY <1>3, <1>8, IdentifiedMore
<1>10. Texts(rs, currentRows)
  BY <1>1, <1>4, <1>6 DEF Texts
<1>11. Spins(rs, currentRows, tracked, feed, brokenRows)
  BY <1>1, <1>4, <1>6 DEF Spins, MaySpin
<1>12. ~brokenRows.remote => CallRows(rs, tracked, feed)
  BY <1>1, <1>8, CallRowsStay
<1>13. DisplayTypes'
  BY <1>1, <1>2, <1>3, <1>6 DEF DisplayTypes
<1>14. currentRows.reply <= shownEvents + 1 /\ currentRows.thought <= shownEvents + 1 /\
         currentRows.compact <= shownEvents + 1 /\ currentRows.hooks <= shownEvents + 1
  BY <1>1, <1>3, DisplayFields DEF Currently
<1>15. Currently'
  BY <1>1, <1>2, <1>8, <1>14 DEF Currently
<1> QED
  BY <1>2, <1>9, <1>10, <1>11, <1>12, <1>13, <1>15 DEF DisplayInv

LEMMA HooksEnd ==
  ASSUME Display!DisplayAssumption, DisplayInv, Display!HookRunEnd
  PROVE  DisplayInv'
<1> DEFINE k == Display!RowOf(currentRows.hooks)
           rs == IF Display!On(currentRows.hooks) /\ rows[k].folded THEN Display!RemoveAt(rows, k) ELSE rows
           cur == [currentRows EXCEPT !.hooks = 0]
           fd == [feed EXCEPT !.within = "none"]
<1>1. /\ DisplayTypes /\ Identified(rows, shownEvents) /\ Currently /\ KindsKept(rows, currentRows) /\
           Texts(rows, currentRows)
      /\ Spins(rows, currentRows, tracked, feed, brokenRows) /\ (~brokenRows.remote =>
                                                                 CallRows(rows, tracked, feed))
  BY DEF DisplayInv, Currently
<1>2. /\ feed.within = "hooks" /\ shownEvents < MaxShown /\ shownEvents' = shownEvents + 1 /\
           rows' = rs /\ currentRows' = cur /\ feed' = fd
      /\ tracked' = tracked /\ atBottom' = atBottom /\ brokenRows' = brokenRows
  BY DEF Display!HookRunEnd, Display!EventWithin, Display!Rest
<1>3. /\ currentRows \in [reply : Nat, thought : Nat, compact : Nat, hooks : Nat] /\
           shownEvents \in Nat /\ shownEvents + 1 \in 0..MaxShown
      /\ feed \in [from : {"none", "turn", "remote"}, called : SUBSET ShownCalls,
                   answered : SUBSET ShownCalls, within : {"none", "compact", "hooks"}]
      /\ rows \in Seq(RowType)
  BY <1>1, <1>2, DisplayFields
<1>4. /\ cur \in [reply : Nat, thought : Nat, compact : Nat, hooks : Nat] /\
           cur.reply = currentRows.reply /\ cur.thought = currentRows.thought
      /\ cur.compact = currentRows.compact /\ cur.hooks = 0
  BY <1>3
<1>5. cur.reply <= shownEvents + 1 /\ cur.thought <= shownEvents + 1 /\
        cur.compact <= shownEvents + 1 /\ cur.hooks <= shownEvents + 1
  BY <1>1, <1>3, <1>4 DEF Currently
<1>6. /\ fd \in [from : {"none", "turn", "remote"}, called : SUBSET ShownCalls,
                 answered : SUBSET ShownCalls, within : {"none", "compact", "hooks"}]
      /\ fd.called = feed.called /\ fd.answered = feed.answered /\ fd.from = feed.from /\ fd.within = "none"
  BY <1>3
<1> HIDE DEF cur, fd
<1>7. /\ rs \in Seq(RowType) /\ Identified(rs, shownEvents) /\ KindsKept(rs, currentRows) /\
           Texts(rs, currentRows)
      /\ Spins(rs, currentRows, tracked, feed, brokenRows) /\ (~brokenRows.remote =>
                                                               CallRows(rs, tracked, feed))
  <2>1. CASE ~(Display!On(currentRows.hooks) /\ rows[k].folded)
    <3>1. rs = rows
      BY <2>1
    <3> QED
      BY <1>1, <1>3, <3>1
  <2>2. CASE Display!On(currentRows.hooks) /\ rows[k].folded
    <3> DEFINE new == Display!RemoveAt(rows, k)
    <3>1. k \in DOMAIN rows /\ rows[k].id = currentRows.hooks
      BY <2>2, RowOfIs
    <3>2. rs = new
      BY <2>2
    <3> HIDE DEF k
    <3>3. rows[k].kind \notin {"call", "result"}
      BY <1>1, <3>1 DEF KindsKept
    <3>4. /\ new \in Seq(RowType) /\ (\A n : Identified(rows, n) => Identified(new, n))
          /\ (\A c, id : Paired(rows) /\ HasRow(rows, c, id) => HasRow(new, c, id))
          /\ (\A c : IsShown(rows, c) => IsShown(new, c)) /\ (Paired(rows) => Paired(new))
      BY <1>3, <3>1, <3>3, RemovedShape
    <3>5. /\ \A cur0 : KindsKept(rows, cur0) => KindsKept(new, cur0)
          /\ \A cur0 : Texts(rows, cur0) => Texts(new, cur0)
          /\ \A cur0, tr, fd0, fl : Spins(rows, cur0, tr, fd0, fl) => Spins(new, cur0, tr, fd0, fl)
      BY <1>3, <3>1, <3>3, RemovedRest
    <3> HIDE DEF new, rs
    <3>6. ~brokenRows.remote => CallRows(new, tracked, feed)
      BY <1>1, <3>4, CallRowsStay
    <3> QED
      BY <1>1, <3>2, <3>4, <3>5, <3>6
  <2> QED
    BY <2>1, <2>2
<1> HIDE DEF rs
<1>8. KindsKept(rs, cur) /\ Identified(rs, shownEvents + 1)
  BY <1>3, <1>4, <1>7, KindsMoved, IdentifiedMore
<1>9. Texts(rs, cur)
  BY <1>4, <1>7 DEF Texts
<1>10. Spins(rs, cur, tracked, fd, brokenRows)
  BY <1>2, <1>4, <1>6, <1>7 DEF Spins, MaySpin
<1>11. ~brokenRows.remote => CallRows(rs, tracked, fd)
  BY <1>6, <1>7 DEF CallRows
<1>12. feed'.answered \subseteq feed'.called
  BY <1>1, <1>2, <1>6 DEF DisplayTypes
<1>13. DisplayTypes'
  BY <1>1, <1>2, <1>3, <1>4, <1>6, <1>7, <1>12 DEF DisplayTypes
<1>14. Currently'
  BY <1>1, <1>2, <1>4, <1>5, <1>6, <1>8 DEF Currently
<1> QED
  BY <1>2, <1>8, <1>9, <1>10, <1>11, <1>13, <1>14 DEF DisplayInv


LEMMA AwayIs ==
  Display!Away \in [from : {"none", "turn", "remote"}, called : SUBSET ShownCalls,
                    answered : SUBSET ShownCalls, within : {"none", "compact", "hooks"}]
  /\ Display!Away.from = "none" /\ Display!Away.called = {} /\ Display!Away.answered = {} /\
       Display!Away.within = "none"
BY DEF Display!Away

LEMMA TurnBegins ==
  ASSUME Display!DisplayAssumption, DisplayInv, Display!Begin
  PROVE  DisplayInv'
<1> DEFINE fd == [Display!Away EXCEPT !.from = "turn"]
<1>1. /\ DisplayTypes /\ Identified(rows, shownEvents) /\ Currently /\ Texts(rows, currentRows)
      /\ Spins(rows, currentRows, tracked, feed, brokenRows) /\ (~brokenRows.remote =>
                                                                 CallRows(rows, tracked, feed))
  BY DEF DisplayInv
<1>2. /\ feed.from = "none" /\ feed' = fd /\ shownEvents' = shownEvents /\ rows' = rows
      /\ currentRows' = currentRows /\ tracked' = tracked /\ atBottom' = atBottom /\
           brokenRows' = brokenRows
  BY DEF Display!Begin, Display!Rest
<1>3. /\ fd \in [from : {"none", "turn", "remote"}, called : SUBSET ShownCalls,
                 answered : SUBSET ShownCalls, within : {"none", "compact", "hooks"}]
      /\ fd.called = {} /\ fd.answered = {} /\ fd.from = "turn" /\ fd.within = "none"
  BY AwayIs
<1> HIDE DEF fd
<1>4. feed.called = {} /\ feed.answered = {} /\ feed.within = "none"
  BY <1>1, <1>2 DEF Currently
<1>5. Spins(rows, currentRows, tracked, fd, brokenRows)
  BY <1>1, <1>3, <1>4 DEF Spins, MaySpin
<1>6. ~brokenRows.remote => CallRows(rows, tracked, fd)
  BY <1>1, <1>3, <1>4 DEF CallRows
<1>7. DisplayTypes'
  BY <1>1, <1>2, <1>3 DEF DisplayTypes
<1>8. Currently'
  BY <1>1, <1>2, <1>3 DEF Currently
<1> QED
  BY <1>1, <1>2, <1>5, <1>6, <1>7, <1>8 DEF DisplayInv

\* stop_current_tool_call: no row of a known call spins any more.
LEMMA CallsStoppedIs ==
  ASSUME NEW rs \in Seq(RowType)
  PROVE  /\ KeptRows(rs, Display!CallsStopped(rs))
         /\ \A i \in DOMAIN rs : (\E c \in ShownCalls : tracked[c] = rs[i].id) =>
              ~Display!CallsStopped(rs)[i].spins
<1> DEFINE new == [i \in DOMAIN rs |-> IF \E c \in ShownCalls : tracked[c] = rs[i].id THEN Display!Still(rs[i]) ELSE rs[i]]
<1>1. Display!CallsStopped(rs) = new
  BY DEF Display!CallsStopped
<1>2. ASSUME NEW i \in DOMAIN rs
      PROVE  Keeps(new[i], rs[i]) /\ ((\E c \in ShownCalls : tracked[c] = rs[i].id) => ~new[i].spins)
  <2>1. rs[i] \in RowType
    BY RowsAre
  <2>2. CASE \E c \in ShownCalls : tracked[c] = rs[i].id
    BY <2>1, <2>2, StillIs
  <2>3. CASE ~\E c \in ShownCalls : tracked[c] = rs[i].id
    <3>1. new[i] = rs[i]
      BY <2>3
    <3> QED
      BY <2>1, <2>3, <3>1, KeepsSame
  <2> QED
    BY <2>2, <2>3
<1>3. new = [i \in DOMAIN rs |-> new[i]]
  OBVIOUS
<1> HIDE DEF new
<1>4. new \in Seq(RowType) /\ DOMAIN new = DOMAIN rs
  BY <1>2, <1>3, MappedAre DEF Keeps
<1> QED
  BY <1>1, <1>2, <1>4 DEF KeptRows

\* What is left on the screen when a turn or a remote session ends.
LEMMA LeftAlone ==
  ASSUME DisplayInv, NEW new, KeptRows(Display!Finalized, new), NEW cur, NEW tr, NEW fl,
         cur.reply = 0, cur.thought = 0, cur.hooks = currentRows.hooks,
           cur.compact \in {currentRows.compact, 0}, shownEvents \in Nat,
         fl.remote \in BOOLEAN, brokenRows.remote => fl.remote, brokenRows.compaction => fl.compaction,
         ~fl.remote => \A c \in ShownCalls : tr[c] = 0,
         \A i \in DOMAIN new : new[i].spins /\ new[i].kind = "compact" => fl.compaction,
         \A i \in DOMAIN new : new[i].spins /\ new[i].kind = "call" => fl.remote
  PROVE  /\ new \in Seq(RowType) /\ Identified(new, shownEvents) /\ KindsKept(new, cur) /\ Texts(new, cur)
         /\ Spins(new, cur, tr, Display!Away, fl) /\ (~fl.remote => CallRows(new, tr, Display!Away))
<1> DEFINE rs == Display!Finalized
<1>1. /\ rs \in Seq(RowType) /\ Identified(rs, shownEvents) /\ KindsKept(rs, currentRows) /\ CalmRows(rs)
      /\ (~brokenRows.remote => CallRows(rs, tracked, feed)) /\ KeptRows(rs, new)
  BY EndedIs
<1> HIDE DEF rs
<1>2. Texts(rs, cur)
  BY <1>1, CalmIs
<1>3. /\ Identified(new, shownEvents) /\ KindsKept(new, currentRows) /\ Texts(new, cur) /\
           (Paired(rs) => Paired(new))
  BY <1>1, <1>2, KeptShape
<1>4. KindsKept(new, cur)
  BY <1>3, KindsMoved
<1>5. new \in Seq(RowType) /\ DOMAIN new = DOMAIN rs /\
        \A i \in DOMAIN rs : new[i].kind = rs[i].kind /\ (new[i].spins => rs[i].spins)
  BY <1>1 DEF KeptRows, Keeps
<1>6. Spins(new, cur, tr, Display!Away, fl)
  BY <1>1, <1>5 DEF Spins, CalmRows, MaySpin
<1>7. ASSUME ~fl.remote PROVE CallRows(new, tr, Display!Away)
  BY <1>1, <1>3, <1>7, AwayIs DEF CallRows
<1> QED
  BY <1>3, <1>4, <1>5, <1>6, <1>7

LEMMA TurnIsOver ==
  ASSUME Display!DisplayAssumption, DisplayInv, NEW how \in {"done", "fails", "interrupted"},
           Display!TurnEnds(how)
  PROVE  DisplayInv'
<1> DEFINE done == Display!Finalized
           stopped == Display!CallsStopped(done)
           rs == CASE how = "done" -> done [] how = "fails" -> stopped [] how = "interrupted" -> Display!Final(stopped, currentRows.compact)
           cur == [Display!NothingWritten EXCEPT !.compact = IF how = "interrupted" THEN 0 ELSE currentRows.compact]
           tr == IF how = "done" THEN tracked ELSE [c \in ShownCalls |-> 0]
           fl == [brokenRows EXCEPT !.compaction = brokenRows.compaction \/ (how = "fails" /\
             feed.within = "compact")]
<1>1. /\ DisplayTypes /\ Currently /\ (~brokenRows.remote => CallRows(done, tracked, feed))
      /\ done \in Seq(RowType) /\ Identified(done, shownEvents) /\ KindsKept(done, currentRows) /\
           CalmRows(done)
      /\ Spins(done, currentRows, tracked, feed, brokenRows)
  BY EndedIs DEF DisplayInv
<1>2. /\ how = "done" => feed.called = feed.answered /\ feed.within = "none"
      /\ feed' = Display!Away /\ shownEvents' = shownEvents /\ rows' = rs /\ tracked' = tr /\
           atBottom' = atBottom
  BY DEF Display!TurnEnds, Display!Rest
<1>3. /\ currentRows \in [reply : Nat, thought : Nat, compact : Nat, hooks : Nat] /\
           shownEvents \in Nat /\ shownEvents \in 0..MaxShown
      /\ 0 \in 0..MaxShown /\ tracked \in [ShownCalls -> 0..MaxShown] /\
           brokenRows \in [compaction : BOOLEAN, remote : BOOLEAN]
      /\ feed.called \subseteq ShownCalls
  BY <1>1, DisplayFields
<1>4. /\ cur \in [reply : Nat, thought : Nat, compact : Nat, hooks : Nat] /\ cur.reply = 0 /\
           cur.thought = 0
      /\ cur.compact = (IF how = "interrupted" THEN 0 ELSE currentRows.compact) /\
           cur.hooks = currentRows.hooks
      /\ currentRows.compact <= shownEvents /\ currentRows.hooks <= shownEvents
  BY <1>1, <1>3, NothingWrittenIs DEF Currently
<1>5. currentRows' = cur
  BY <1>3, NothingWrittenIs DEF Display!TurnEnds
<1>6. /\ fl \in [compaction : BOOLEAN, remote : BOOLEAN] /\ fl.remote = brokenRows.remote
      /\ fl.compaction = (brokenRows.compaction \/ (how = "fails" /\ feed.within = "compact"))
  BY <1>3
<1>7. brokenRows' = fl
  BY <1>3 DEF Display!TurnEnds
<1>8. tr \in [ShownCalls -> 0..MaxShown]
  BY <1>3
<1> HIDE DEF cur, fl, done
<1>9. ASSUME ~brokenRows.remote PROVE \A c \in ShownCalls : tr[c] = 0
  <2>1. CASE how = "done"
    BY <1>1, <1>2, <1>9, <2>1 DEF CallRows
  <2>2. CASE how # "done"
    BY <2>2
  <2> QED
    BY <2>1, <2>2
<1> HIDE DEF tr
<1>10. KeptRows(done, stopped) /\
         \A i \in DOMAIN done : (\E c \in ShownCalls : tracked[c] = done[i].id) => ~stopped[i].spins
  BY <1>1, CallsStoppedIs
<1> HIDE DEF stopped
<1>11. stopped \in Seq(RowType) /\ DOMAIN stopped = DOMAIN done /\
         \A i \in DOMAIN done : stopped[i].id = done[i].id
  BY <1>10 DEF KeptRows, Keeps
<1> DEFINE last == Display!Final(stopped, currentRows.compact)
<1>12. KeptRows(stopped, last) /\ \A i \in DOMAIN stopped : stopped[i].id = currentRows.compact =>
         ~last[i].spins
  BY <1>11, FinalIs
<1>13. /\ how = "done" => rs = done
       /\ how = "fails" => rs = stopped
       /\ how = "interrupted" => rs = last
  OBVIOUS
<1> HIDE DEF rs, last
<1>14. KeptRows(done, done)
  BY <1>1, RowsAre, KeepsSame DEF KeptRows
<1>15. KeptRows(done, last) /\ \A i \in DOMAIN done : last[i].spins => stopped[i].spins
  BY <1>10, <1>11, <1>12, KeptBoth DEF KeptRows, Keeps
<1>16. KeptRows(done, rs)
  BY <1>10, <1>13, <1>14, <1>15
<1>17. DOMAIN rs = DOMAIN done /\ \A i \in DOMAIN done : rs[i].kind = done[i].kind /\
         rs[i].id = done[i].id /\ (rs[i].spins => done[i].spins)
  BY <1>16 DEF KeptRows, Keeps
<1>18. ASSUME NEW i \in DOMAIN rs, rs[i].spins
       PROVE  (rs[i].kind = "compact" => fl.compaction) /\ (rs[i].kind = "call" => fl.remote)
  <2>1. MaySpin(done[i], currentRows, tracked, feed, brokenRows)
    BY <1>1, <1>17, <1>18 DEF Spins
  <2>2. ASSUME rs[i].kind = "compact", ~fl.compaction PROVE FALSE
    <3>1. feed.within = "compact" /\ done[i].id = currentRows.compact
      BY <1>6, <1>17, <2>1, <2>2 DEF MaySpin
    <3>2. how = "interrupted"
      BY <1>2, <1>6, <2>2, <3>1
    <3> QED
      BY <1>11, <1>12, <1>13, <1>17, <1>18, <3>1, <3>2
  <2>3. ASSUME rs[i].kind = "call", ~fl.remote PROVE FALSE
    <3>1. done[i].call \in feed.called \ feed.answered /\ done[i].id = tracked[done[i].call]
      BY <1>6, <1>17, <2>1, <2>3 DEF MaySpin
    <3>2. how # "done"
      BY <1>2, <3>1
    <3>3. ~stopped[i].spins
      BY <1>3, <1>10, <1>17, <3>1
    <3> QED
      BY <1>13, <1>15, <1>17, <1>18, <3>2, <3>3
  <2> QED
    BY <2>2, <2>3
<1>19. /\ rs \in Seq(RowType) /\ Identified(rs, shownEvents) /\ KindsKept(rs, cur) /\ Texts(rs, cur)
       /\ Spins(rs, cur, tr, Display!Away, fl) /\ (~fl.remote => CallRows(rs, tr, Display!Away))
  BY <1>3, <1>4, <1>6, <1>9, <1>16, <1>18, LeftAlone DEF done
<1>20. DisplayTypes'
  <2>1. feed'.answered \subseteq feed'.called
    BY <1>2, AwayIs
  <2> QED
    BY <1>1, <1>2, <1>3, <1>4, <1>5, <1>6, <1>7, <1>8, <1>19, <2>1, AwayIs DEF DisplayTypes
<1>21. cur.reply <= shownEvents /\ cur.thought <= shownEvents /\ cur.compact <= shownEvents /\
         cur.hooks <= shownEvents
  BY <1>3, <1>4
<1>22. Currently'
  BY <1>2, <1>4, <1>5, <1>19, <1>21, AwayIs DEF Currently
<1> QED
  BY <1>2, <1>5, <1>7, <1>19, <1>20, <1>22 DEF DisplayInv


LEMMA NoRowsAre ==
  ASSUME NEW rs, rs = <<>>
  PROVE  /\ rs \in Seq(RowType) /\ Paired(rs)
         /\ \A n : Identified(rs, n)
         /\ \A cur : KindsKept(rs, cur) /\ Texts(rs, cur)
         /\ \A cur, tr, fd, fl : Spins(rs, cur, tr, fd, fl)
<1>1. rs \in Seq(RowType) /\ DOMAIN rs = {}
  OBVIOUS
<1> QED
  BY <1>1 DEF Paired, Identified, KindsKept, Texts, Spins

LEMMA RemoteIsAttached ==
  ASSUME Display!DisplayAssumption, DisplayInv, Display!Attach
  PROVE  DisplayInv'
<1> DEFINE cur == Display!NothingWritten
           fd == [Display!Away EXCEPT !.from = "remote"]
           known == \E c \in ShownCalls : tracked[c] # 0
           fl == [brokenRows EXCEPT !.remote = brokenRows.remote \/ known]
<1>1. DisplayTypes /\ Currently
  BY DEF DisplayInv
<1>2. rows' = <<>> /\ currentRows' = cur /\ feed' = fd /\ shownEvents' = shownEvents /\
                        tracked' = tracked /\ atBottom' = atBottom
  BY DEF Display!Attach, Display!Rest
<1>3. currentRows \in [reply : Nat, thought : Nat, compact : Nat, hooks : Nat] /\
        brokenRows \in [compaction : BOOLEAN, remote : BOOLEAN]
  BY <1>1, DisplayFields
<1>4. /\ cur \in [reply : Nat, thought : Nat, compact : Nat, hooks : Nat]
      /\ cur.reply <= shownEvents /\ cur.thought <= shownEvents /\ cur.compact <= shownEvents /\
           cur.hooks <= shownEvents
  <2>1. shownEvents \in Nat
    BY <1>1, DisplayFields
  <2> QED
    BY <1>1, <1>3, <2>1, NothingWrittenIs DEF Currently
<1>5. known \in BOOLEAN
  OBVIOUS
<1>6. brokenRows' = fl
  BY <1>3 DEF Display!Attach
<1>7. fl \in [compaction : BOOLEAN, remote : BOOLEAN] /\ (~fl.remote =>
                                                          \A c \in ShownCalls : tracked[c] = 0)
  <2> HIDE DEF known
  <2>1. fl \in [compaction : BOOLEAN, remote : BOOLEAN] /\ fl.remote = (brokenRows.remote \/ known)
    BY <1>3, <1>5
  <2> QED
    BY <2>1 DEF known
<1>8. /\ fd \in [from : {"none", "turn", "remote"}, called : SUBSET ShownCalls,
                 answered : SUBSET ShownCalls, within : {"none", "compact", "hooks"}]
      /\ fd.called = {} /\ fd.answered = {} /\ fd.from = "remote" /\ fd.within = "none"
  BY AwayIs
<1> HIDE DEF cur, fd, fl
<1>9. /\ rows' \in Seq(RowType) /\ Paired(rows') /\ Identified(rows', shownEvents) /\
           KindsKept(rows', cur) /\ Texts(rows', cur)
      /\ Spins(rows', cur, tracked, fd, fl)
  BY <1>2, NoRowsAre
<1>10. ~fl.remote => CallRows(rows', tracked, fd)
  BY <1>7, <1>8, <1>9 DEF CallRows
<1>11. DisplayTypes'
  BY <1>1, <1>2, <1>4, <1>6, <1>7, <1>8, <1>9 DEF DisplayTypes
<1>12. Currently'
  BY <1>2, <1>4, <1>8, <1>9 DEF Currently
<1> QED
  BY <1>2, <1>6, <1>9, <1>10, <1>11, <1>12 DEF DisplayInv

LEMMA RemoteIsOver ==
  ASSUME Display!DisplayAssumption, DisplayInv, Display!RemoteEnds
  PROVE  DisplayInv'
<1> DEFINE done == Display!Finalized
           cur == Display!NothingWritten
           cutOff == [brokenRows EXCEPT !.remote = TRUE]
<1>1. /\ DisplayTypes /\ Currently /\ (~brokenRows.remote => CallRows(done, tracked, feed))
      /\ done \in Seq(RowType) /\ Spins(done, currentRows, tracked, feed, brokenRows)
  BY EndedIs DEF DisplayInv
<1>2. feed.from = "remote" /\ feed' = Display!Away /\ rows' = done /\ currentRows' = cur /\
        shownEvents' = shownEvents /\ tracked' = tracked /\ atBottom' = atBottom
  BY DEF Display!RemoteEnds, Display!Rest
<1>3. brokenRows' = cutOff \/ (brokenRows' = brokenRows /\ feed.called = feed.answered)
  BY DEF Display!RemoteEnds
<1>4. currentRows \in [reply : Nat, thought : Nat, compact : Nat, hooks : Nat] /\
        brokenRows \in [compaction : BOOLEAN, remote : BOOLEAN]
      /\ shownEvents \in Nat
  BY <1>1, DisplayFields
<1>5. /\ cur \in [reply : Nat, thought : Nat, compact : Nat, hooks : Nat] /\ cur.reply = 0 /\
           cur.thought = 0
      /\ cur.compact = currentRows.compact /\ cur.hooks = currentRows.hooks
  BY <1>4, NothingWrittenIs
<1>6. cutOff \in [compaction : BOOLEAN, remote : BOOLEAN] /\ cutOff.remote /\
        cutOff.compaction = brokenRows.compaction
  BY <1>4
<1> HIDE DEF cur, cutOff, done
<1>7. brokenRows' \in [compaction : BOOLEAN, remote : BOOLEAN] /\
        brokenRows'.compaction = brokenRows.compaction /\ (brokenRows.remote => brokenRows'.remote)
      /\ brokenRows'.remote \in BOOLEAN /\ (~brokenRows'.remote => feed.called = feed.answered /\
                                            ~brokenRows.remote)
  BY <1>3, <1>4, <1>6
<1>8. feed.within = "none"
  BY <1>1, <1>2 DEF Currently
<1>9. ASSUME NEW i \in DOMAIN done, done[i].spins
      PROVE  (done[i].kind = "compact" => brokenRows'.compaction) /\ (done[i].kind = "call" =>
                                                                      brokenRows'.remote)
  BY <1>1, <1>7, <1>8, <1>9 DEF Spins, MaySpin
<1>10. ~brokenRows'.remote => \A c \in ShownCalls : tracked[c] = 0
  BY <1>1, <1>7 DEF CallRows
<1>11. KeptRows(Display!Finalized, done)
  BY <1>1, RowsAre, KeepsSame DEF KeptRows, done
<1>12. /\ done \in Seq(RowType) /\ Identified(done, shownEvents) /\ KindsKept(done, cur) /\ Texts(done, cur)
       /\ Spins(done, cur, tracked, Display!Away, brokenRows') /\ (~brokenRows'.remote =>
                                                                   CallRows(done, tracked, Display!Away))
  BY <1>4, <1>5, <1>7, <1>9, <1>10, <1>11, LeftAlone
<1>13. DisplayTypes'
  BY <1>1, <1>2, <1>5, <1>7, AwayIs DEF DisplayTypes
<1>14. cur.reply <= shownEvents /\ cur.thought <= shownEvents /\ cur.compact <= shownEvents /\
         cur.hooks <= shownEvents
  BY <1>1, <1>4, <1>5 DEF Currently
<1>15. Currently'
  BY <1>2, <1>5, <1>12, <1>14, AwayIs DEF Currently
<1> QED
  BY <1>2, <1>12, <1>13, <1>15 DEF DisplayInv

LEMMA RowsAreCleared ==
  ASSUME Display!DisplayAssumption, DisplayInv, Display!ClearRows
  PROVE  DisplayInv'
<1> DEFINE cur == Display!NothingWritten
<1>1. DisplayTypes /\ Currently /\ (~brokenRows.remote => CallRows(rows, tracked, feed))
  BY DEF DisplayInv
<1>2. /\ feed.from = "none" /\ rows' = <<>> /\ currentRows' = cur /\ feed' = feed /\
                                                 shownEvents' = shownEvents /\ tracked' = tracked
      /\ atBottom' = atBottom /\ brokenRows' = brokenRows
  BY DEF Display!ClearRows, Display!Rest
<1>3. currentRows \in [reply : Nat, thought : Nat, compact : Nat, hooks : Nat] /\ shownEvents \in Nat
  BY <1>1, DisplayFields
<1>4. /\ cur \in [reply : Nat, thought : Nat, compact : Nat, hooks : Nat] /\ cur.reply = 0 /\
           cur.thought = 0
      /\ cur.reply <= shownEvents /\ cur.thought <= shownEvents /\ cur.compact <= shownEvents /\
           cur.hooks <= shownEvents
  BY <1>1, <1>3, NothingWrittenIs DEF Currently
<1> HIDE DEF cur
<1>5. feed.called = {} /\ feed.answered = {} /\ feed.within = "none"
  BY <1>1, <1>2 DEF Currently
<1>6. /\ rows' \in Seq(RowType) /\ Paired(rows') /\ Identified(rows', shownEvents) /\
           KindsKept(rows', cur) /\ Texts(rows', cur)
      /\ Spins(rows', cur, tracked, feed, brokenRows)
  BY <1>2, NoRowsAre
<1>7. ~brokenRows.remote => CallRows(rows', tracked, feed)
  BY <1>1, <1>5, <1>6 DEF CallRows
<1>8. DisplayTypes'
  BY <1>1, <1>2, <1>4, <1>6 DEF DisplayTypes
<1>9. Currently'
  BY <1>2, <1>4, <1>5, <1>6 DEF Currently
<1> QED
  BY <1>2, <1>6, <1>7, <1>8, <1>9 DEF DisplayInv

LEMMA ScreenScrolls ==
  ASSUME Display!DisplayAssumption, DisplayInv, Display!Scroll
  PROVE  DisplayInv'
<1>1. /\ DisplayTypes /\ Identified(rows, shownEvents) /\ Currently /\ Texts(rows, currentRows)
      /\ Spins(rows, currentRows, tracked, feed, brokenRows) /\ (~brokenRows.remote =>
                                                                 CallRows(rows, tracked, feed))
  BY DEF DisplayInv
<1>2. /\ atBottom' = ~atBottom /\ rows' = rows /\ currentRows' = currentRows /\ feed' = feed /\
           shownEvents' = shownEvents /\ tracked' = tracked /\ brokenRows' = brokenRows
  BY DEF Display!Scroll
<1>3. DisplayTypes'
  BY <1>1, <1>2 DEF DisplayTypes
<1>4. Currently'
  BY <1>1, <1>2 DEF Currently
<1> QED
  BY <1>1, <1>2, <1>3, <1>4 DEF DisplayInv

LEMMA RowFolds ==
  ASSUME Display!DisplayAssumption, DisplayInv, NEW i \in DOMAIN rows, Display!Fold(i)
  PROVE  DisplayInv'
<1> DEFINE row == rows[i]
           opened == [row EXCEPT !.folded = FALSE, !.written = row.content, !.buffer = <<>>]
           shut == [row EXCEPT !.folded = TRUE]
           new == IF row.folded THEN opened ELSE shut
           rs == [rows EXCEPT ![i] = new]
<1>1. /\ DisplayTypes /\ Identified(rows, shownEvents) /\ Currently /\ KindsKept(rows, currentRows) /\
           Texts(rows, currentRows)
      /\ Spins(rows, currentRows, tracked, feed, brokenRows) /\ (~brokenRows.remote =>
                                                                 CallRows(rows, tracked, feed))
  BY DEF DisplayInv, Currently
<1>2. /\ row.kind = "thought" /\ rows' = rs /\ currentRows' = currentRows /\ feed' = feed /\
           shownEvents' = shownEvents /\ tracked' = tracked
      /\ atBottom' = atBottom /\ brokenRows' = brokenRows
  BY DEF Display!Fold
<1>3. rows \in Seq(RowType)
  BY <1>1 DEF DisplayTypes
<1>4. row \in RowType /\ row.content \in Seq(Nat) /\ <<>> \in Seq(Nat) /\ row.content \o <<>> = row.content
  <2>1. row \in RowType
    BY <1>3, RowsAre
  <2> HIDE DEF row
  <2>2. row.content \in Seq(Nat)
    BY <2>1 DEF RowType
  <2> QED
    BY <2>1, <2>2
<1> HIDE DEF row
<1>5. /\ opened \in RowType /\ opened.id = row.id /\ opened.kind = row.kind /\
           opened.call = row.call /\ opened.spins = row.spins
      /\ opened.written = row.content /\ opened.content = row.content /\ opened.buffer = <<>>
  BY <1>4 DEF RowType
<1>6. /\ shut \in RowType /\ shut.id = row.id /\ shut.kind = row.kind /\ shut.call = row.call /\
           shut.spins = row.spins
      /\ shut.folded = TRUE /\ shut.buffer = row.buffer
  BY <1>4 DEF RowType
<1> HIDE DEF opened, shut
<1>7. Keeps(new, row)
  BY <1>2, <1>4, <1>5, <1>6 DEF Keeps, TextOk
<1> HIDE DEF new
<1>8. new \in RowType
  BY <1>7 DEF Keeps
<1>9. rs \in Seq(RowType) /\ DOMAIN rs = DOMAIN rows /\ rs[i] = new /\ \A j \in DOMAIN rows : j # i =>
        rs[j] = rows[j]
  BY <1>3, <1>8
<1> HIDE DEF rs
<1>10. KeptRows(rows, rs)
  <2>1. ASSUME NEW j \in DOMAIN rows PROVE Keeps(rs[j], rows[j])
    BY <1>3, <1>7, <1>9, RowsAre, KeepsSame DEF row
  <2> QED
    BY <1>9, <2>1 DEF KeptRows
<1>11. /\ Identified(rs, shownEvents) /\ KindsKept(rs, currentRows) /\ Texts(rs, currentRows) /\
            Spins(rs, currentRows, tracked, feed, brokenRows)
       /\ (Paired(rows) => Paired(rs)) /\ (\A c, id : HasRow(rows, c, id) => HasRow(rs, c, id))
       /\ \A c : IsShown(rows, c) => IsShown(rs, c)
  BY <1>1, <1>3, <1>10, KeptShape
<1>12. ~brokenRows.remote => CallRows(rs, tracked, feed)
  BY <1>1, <1>11, CallRowsStay
<1>13. DisplayTypes'
  BY <1>1, <1>2, <1>9 DEF DisplayTypes
<1>14. Currently'
  BY <1>1, <1>2, <1>11 DEF Currently
<1> QED
  BY <1>2, <1>11, <1>12, <1>13, <1>14 DEF DisplayInv

LEMMA DisplayStep ==
  ASSUME Display!DisplayAssumption, DisplayInv, [Display!DisplayNext]_Display!displayVars
  PROVE  DisplayInv'
<1>0. 0 \in Nat /\ shownEvents + 1 \in Nat
  BY DisplayFields DEF DisplayInv
<1>1. ASSUME Display!Reply(shownEvents + 1) PROVE DisplayInv'
  BY <1>0, <1>1, ReplyArrives
<1>2. ASSUME Display!Reply(0) PROVE DisplayInv'
  BY <1>0, <1>2, ReplyArrives
<1>3. ASSUME Display!Thought(shownEvents + 1) PROVE DisplayInv'
  BY <1>0, <1>3, ThoughtArrives
<1>4. ASSUME NEW c \in ShownCalls, Display!ToolCall(c) PROVE DisplayInv'
  BY <1>4, OneIsCalled
<1>5. ASSUME NEW c \in ShownCalls, Display!ToolResult(c) PROVE DisplayInv'
  BY <1>5, OneIsAnswered
<1>6. ASSUME NEW how \in {"done", "fails", "interrupted"}, Display!TurnEnds(how) PROVE DisplayInv'
  BY <1>6, TurnIsOver
<1>7. ASSUME NEW i \in DOMAIN rows, Display!Fold(i) PROVE DisplayInv'
  BY <1>7, RowFolds
<1>8. CASE UNCHANGED Display!displayVars
  BY <1>8 DEF Display!displayVars, DisplayInv, DisplayTypes, Currently
<1>9. CASE Display!DisplayNext
  BY <1>1, <1>2, <1>3, <1>4, <1>5, <1>6, <1>7, <1>9, CompactStarts, CompactEnds, UserSays, HooksStart, HookIsHeard, HooksEnd,
     TurnBegins, RemoteIsAttached, RemoteIsOver, RowsAreCleared, ScreenScrolls DEF Display!DisplayNext
<1> QED
  BY <1>8, <1>9

-----------------------------------------------------------------------------
\* A step is one of the component that runs.
LEMMA OneRuns ==
  ASSUME [ServicesNext]_servicesVars
  PROVE  /\ part' = part
         /\ part = "config" => [Config!ConfigNext]_Config!configVars
         /\ part = "saved" => [Session!SessionsNext]_Session!sessionsVars
         /\ part = "display" => [Display!DisplayNext]_Display!displayVars
<1>1. CASE UNCHANGED servicesVars
  BY <1>1 DEF servicesVars, configVars, sessionsVars, displayVars, Config!configVars,
              Session!sessionsVars, Display!displayVars
<1>2. CASE ServicesNext
  BY <1>2 DEF ServicesNext
<1> QED
  BY <1>1, <1>2

\* For any number of processes, models and settings: a setting stays as it was last set,
\* whichever process writes it, unless a file of settings was lost or written while another
\* process wrote it, and the active model is one that can be used (_settings.py,
\* model_discovery.py).
THEOREM ConfigIsSafe == ServicesSpec => []ConfigSafe
<1> DEFINE Inv == part = "config" => ConfigInv
<1> USE ServicesAssumptions
<1>1. ServicesInit => Inv
  BY ConfigStarts DEF ServicesInit
<1>2. Inv /\ [ServicesNext]_servicesVars => Inv'
  BY OneRuns, ConfigStep
<1>3. Inv => ConfigSafe
  BY ConfigInvIsEnough DEF ConfigSafe
<1> QED
  BY <1>1, <1>2, <1>3, PTL DEF ServicesSpec

\* For any sessions, names, renames and saves, and any events of a turn or of a remote session:
\* a session keeps the name that it was given and its messages, whoever saves it and wherever
\* a save is cut short, and of what the events say nothing is lost on the screen, nothing is
\* shown twice and nothing spins that has ended (saved_sessions.py, session_logger.py,
\* event_handler.py).
THEOREM SessionsAreSafe == ServicesSpec => []SessionsSafe
<1> DEFINE Inv == /\ part = "saved" => SessionsInv
                  /\ part = "display" => DisplayInv
<1> USE ServicesAssumptions
<1>1. ServicesInit => Inv
  BY SessionsInit, DisplayInit DEF ServicesInit
<1>2. Inv /\ [ServicesNext]_servicesVars => Inv'
  BY OneRuns, SessionsStep, DisplayStep
<1>3. Inv => SessionsSafe
  BY SessionsInvIsEnough, DisplayInvIsEnough DEF SessionsSafe
<1> QED
  BY <1>1, <1>2, <1>3, PTL DEF ServicesSpec

=============================================================================
