------------------------ MODULE SessionStore_proofs -------------------------
(***************************************************************************)
(* Proofs about SessionStore: its type, and, as long as no session begins  *)
(* under a save that is under way, that the metadata never count what is   *)
(* not in the file and that what a save returned for is in it; for any     *)
(* number of messages, faults and resumed sessions.                        *)
(***************************************************************************)
EXTENDS MCSessionStore, SequenceTheorems, FiniteSetTheorems, NaturalsInduction,
        WellFoundedInduction, TLAPS

(* Sequences *)

\* Appending adds one element.
LEMMA RangeAppend ==
  ASSUME NEW S, NEW seq \in Seq(S), NEW x \in S
  PROVE  ToSet(Append(seq, x)) = ToSet(seq) \union {x}
<1>1. /\ DOMAIN Append(seq, x) = 1..Len(seq) + 1 /\ DOMAIN seq = 1..Len(seq)
      /\ Len(seq) \in Nat
      /\ Append(seq, x)[Len(seq) + 1] = x
      /\ \A i \in 1..Len(seq) : Append(seq, x)[i] = seq[i]
  BY AppendProperties, LenProperties
<1> QED
  BY <1>1 DEF ToSet

\* A sequence has the elements of its head and its tail.
LEMMA RangeHeadTail ==
  ASSUME NEW S, NEW seq \in Seq(S), seq # <<>>
  PROVE  ToSet(seq) = {Head(seq)} \union ToSet(Tail(seq))
<1>1. /\ Len(seq) \in Nat \ {0} /\ DOMAIN seq = 1..Len(seq)
      /\ DOMAIN Tail(seq) = 1..Len(seq) - 1
      /\ \A i \in 1..Len(seq) - 1 : Tail(seq)[i] = seq[i + 1]
  BY EmptySeq, LenProperties, HeadTailProperties
<1>2. Head(seq) = seq[1]
  OBVIOUS
<1>3. ToSet(seq) \subseteq {Head(seq)} \union ToSet(Tail(seq))
  <2> SUFFICES ASSUME NEW i \in 1..Len(seq), i # 1 PROVE seq[i] \in ToSet(Tail(seq))
    BY <1>1, <1>2 DEF ToSet
  <2> i - 1 \in 1..Len(seq) - 1 /\ Tail(seq)[i - 1] = seq[i]
    BY <1>1
  <2> QED
    BY <1>1 DEF ToSet
<1>4. ToSet(Tail(seq)) \subseteq ToSet(seq)
  BY <1>1 DEF ToSet
<1>5. Head(seq) \in ToSet(seq)
  BY <1>1, <1>2 DEF ToSet
<1> QED
  BY <1>3, <1>4, <1>5

\* A response that is filled in leaves every message at its place or one further.
LEMMA InsertType ==
  ASSUME NEW ms \in Seq(MessageIds), NEW x \in MessageIds, NEW i \in 1..Len(ms)
  PROVE  /\ InsertAt(ms, i, x) \in Seq(MessageIds)
         /\ Len(InsertAt(ms, i, x)) = Len(ms) + 1
         /\ \A j \in 1..Len(ms) + 1 :
              InsertAt(ms, i, x)[j] = IF j < i THEN ms[j]
                                      ELSE IF j = i THEN x ELSE ms[j - 1]
<1> DEFINE a == SubSeq(ms, 1, i - 1)
           b == SubSeq(ms, i, Len(ms))
<1>1. Len(ms) \in Nat /\ i \in Nat /\ \A j \in 1..Len(ms) : ms[j] \in MessageIds
  BY LenProperties, ElementOfSeq
<1>2. /\ a \in Seq(MessageIds) /\ Len(a) = i - 1
      /\ \A j \in 1..i - 1 : a[j] = ms[j]
  BY <1>1, SubSeqProperties
<1>3. /\ b \in Seq(MessageIds) /\ Len(b) = Len(ms) - i + 1
      /\ \A j \in 1..Len(ms) - i + 1 : b[j] = ms[i + j - 1]
  BY <1>1, SubSeqProperties
<1>4. <<x>> \in Seq(MessageIds) /\ Len(<<x>>) = 1 /\ <<x>>[1] = x
  OBVIOUS
<1> HIDE DEF a, b
<1>5. /\ a \o <<x>> \in Seq(MessageIds) /\ Len(a \o <<x>>) = i
      /\ \A j \in 1..i : (a \o <<x>>)[j] = IF j < i THEN ms[j] ELSE x
  <2>1. /\ a \o <<x>> \in Seq(MessageIds) /\ Len(a \o <<x>>) = Len(a) + Len(<<x>>)
        /\ \A j \in 1..Len(a) + Len(<<x>>) :
             (a \o <<x>>)[j] = IF j <= Len(a) THEN a[j] ELSE <<x>>[j - Len(a)]
    BY <1>2, <1>4, ConcatProperties
  <2> QED
    BY <1>1, <1>2, <1>4, <2>1
<1> DEFINE c == a \o <<x>>
<1>6. InsertAt(ms, i, x) = c \o b
  BY DEF InsertAt, a, b
<1>7. c \in Seq(MessageIds) /\ Len(c) = i
  BY <1>5
<1> HIDE DEF c
<1>8. /\ c \o b \in Seq(MessageIds)
      /\ Len(c \o b) = Len(c) + Len(b)
      /\ \A j \in 1..Len(c) + Len(b) :
           (c \o b)[j] = IF j <= Len(c) THEN c[j] ELSE b[j - Len(c)]
  BY <1>3, <1>7, ConcatProperties
<1>9. \A j \in 1..i : c[j] = IF j < i THEN ms[j] ELSE x
  BY <1>5 DEF c
<1>10. ASSUME NEW j \in 1..Len(ms) + 1, ~(j <= i)
       PROVE  (c \o b)[j] = ms[j - 1]
  <2>1. j - i \in 1..Len(ms) - i + 1 /\ i + (j - i) - 1 = j - 1 /\ j \in 1..Len(c) + Len(b)
    BY <1>1, <1>3, <1>7, <1>10
  <2> QED
    BY <1>1, <1>3, <1>7, <1>8, <1>10, <2>1
<1> QED
  BY <1>1, <1>3, <1>6, <1>7, <1>8, <1>9, <1>10

\* What a save takes: all that lies beyond the saved number of messages.
LEMMA UnsavedType ==
  ASSUME messages \in Seq(MessageIds), NEW old \in Nat
  PROVE  /\ Unsaved(old) \in Seq(MessageIds)
         /\ Len(Unsaved(old)) = IF old < Len(messages) THEN Len(messages) - old ELSE 0
         /\ Unsaved(old) = <<>> <=> Len(messages) <= old
         /\ \A i \in 1..Len(messages) : i <= old \/ messages[i] \in ToSet(Unsaved(old))
         /\ \A i \in 1..Len(Unsaved(old)) : Unsaved(old)[i] = messages[old + i]
<1>1. Len(messages) \in Nat /\ \A j \in 1..Len(messages) : messages[j] \in MessageIds
  BY LenProperties, ElementOfSeq
<1>2. /\ Unsaved(old) \in Seq(MessageIds)
      /\ Len(Unsaved(old)) = IF old + 1 <= Len(messages) THEN Len(messages) - (old + 1) + 1 ELSE 0
      /\ \A i \in 1..Len(messages) - (old + 1) + 1 : Unsaved(old)[i] = messages[old + 1 + i - 1]
  BY <1>1, SubSeqProperties DEF Unsaved
<1>3. Unsaved(old) = <<>> <=> Len(Unsaved(old)) = 0
  BY <1>2, EmptySeq
<1>4. ASSUME NEW i \in 1..Len(messages), ~(i <= old)
      PROVE  messages[i] \in ToSet(Unsaved(old))
  <2>1. i - old \in 1..Len(Unsaved(old)) /\ Unsaved(old)[i - old] = messages[i]
    BY <1>1, <1>2, <1>4
  <2> QED
    BY <1>2, <2>1, LenProperties DEF ToSet
<1>5. \A i \in 1..Len(Unsaved(old)) : Unsaved(old)[i] = messages[old + i]
  BY <1>1, <1>2
<1> QED
  BY <1>1, <1>2, <1>3, <1>4, <1>5

-----------------------------------------------------------------------------
(* Types *)

\* A save that is to append has something to append, and one that reads the
\* metadata finds them.
SaveReady ==
  \A s \in Savers :
    /\ save[s].pc = "append" => save[s].batch # <<>>
    /\ save[s].pc = "read" => total[save[s].to] # NoMeta

\* A sequence of more than one element has a tail.
LEMMA TailNotEmpty ==
  ASSUME NEW S, NEW seq \in Seq(S), seq # <<>>
  PROVE  Tail(seq) # <<>> <=> Len(seq) # 1
<1>1. Len(Tail(seq)) = Len(seq) - 1 /\ Tail(seq) \in Seq(S) /\ Len(seq) \in Nat
  BY HeadTailProperties, LenProperties
<1>2. Tail(seq) = <<>> <=> Len(Tail(seq)) = 0
  BY <1>1, EmptySeq
<1> QED
  BY <1>1, <1>2

\* The type is preserved by every step.
LEMMA TypeStep == TypeOK /\ SaveReady /\ [Next]_vars => TypeOK' /\ SaveReady'
<1> SUFFICES ASSUME TypeOK, SaveReady, [Next]_vars PROVE TypeOK' /\ SaveReady'
  OBVIOUS
<1> USE StoreAssumption DEF TypeOK, SaveReady, memVars, diskVars, sessionVars
<1>ids. created < MaxMessages => created + 1 \in MessageIds /\ created + 1 \in 0..MaxMessages
  BY DEF MessageIds
<1>idle. Idle \in SaveStates /\ Idle.pc = "idle"
  BY EmptySeq DEF Idle, SaveStates, Dirs
<1>cover. ASSUME NEW d \in Dirs, NEW ms \in Seq(MessageIds), Cover(d, ms)
          PROVE  saved' \in [Dirs -> SUBSET MessageIds]
  <2> ToSet(ms) \subseteq MessageIds
    BY LenProperties, ElementOfSeq DEF ToSet
  <2> QED
    BY <1>cover DEF Cover
<1>collect. ASSUME NEW s \in Savers, NEW old \in Nat, Collect(s, old)
            PROVE  /\ save' \in [Savers -> SaveStates]
                   /\ saved' \in [Dirs -> SUBSET MessageIds]
                   /\ UNCHANGED total => SaveReady'
  <2>1. CASE Unsaved(old) = <<>>
    BY <1>collect, <1>idle, <1>cover, <2>1 DEF Collect
  <2>2. CASE Unsaved(old) # <<>> /\ dir \in made'
    <3> DEFINE new == [pc |-> "append", batch |-> Unsaved(old), to |-> dir,
                       seen |-> messages, meta |-> dir]
    <3>1. save' = [save EXCEPT ![s] = new] /\ UNCHANGED saved
      BY <1>collect, <2>2 DEF Collect
    <3>2. Unsaved(old) \in Seq(MessageIds)
      BY UnsavedType
    <3>3. new \in SaveStates /\ new.pc = "append" /\ new.batch # <<>>
      BY <2>2, <3>2 DEF SaveStates
    <3> HIDE DEF new
    <3> QED
      BY <3>1, <3>3
  <2>3. CASE ~(Unsaved(old) # <<>> /\ dir \in made') /\ Unsaved(old) # <<>>
    BY <1>collect, <1>idle, <2>3 DEF Collect
  <2> QED
    BY <2>1, <2>2, <2>3
<1>1. CASE AppendMessage
  BY <1>1, <1>ids, AppendProperties DEF AppendMessage
<1>2. CASE InsertMessage
  <2> PICK i \in 1..Len(messages) : messages' = InsertAt(messages, i, created + 1)
    BY <1>2 DEF InsertMessage
  <2> QED
    BY <1>2, <1>ids, InsertType DEF InsertMessage
<1>3. CASE NewSession
  <2>1. messages' \in Seq(MessageIds) /\ created' \in 0..MaxMessages
    <3>1. CASE created' = created /\ \E n \in 0..Len(messages) : messages' = SubSeq(messages, 1, n)
      BY <3>1, SubSeqProperties, LenProperties, ElementOfSeq
    <3>2. CASE created < MaxMessages /\ created' = created + 1 /\ messages' = <<created + 1>>
      BY <3>2, <1>ids
    <3> QED
      BY <1>3, <3>1, <3>2 DEF NewSession, Kept
  <2> QED
    BY <1>3, <2>1 DEF NewSession, Dirs
<1>4. CASE \E s \in Savers : StartSave(s)
  <2> PICK s \in Savers : StartSave(s)
    BY <1>4
  <2>1. made' \subseteq Dirs
    BY DEF StartSave
  <2>2. CASE total[dir] = NoMeta
    BY <1>collect, <2>1, <2>2 DEF StartSave
  <2>3. CASE total[dir] # NoMeta
    <3> DEFINE new == [Idle EXCEPT !.pc = "read", !.to = dir]
    <3>1. new \in SaveStates /\ new.pc = "read" /\ new.to = dir
      BY <1>idle DEF SaveStates, Idle
    <3>2. save' = [save EXCEPT ![s] = new] /\ UNCHANGED <<saved, total>>
      BY <2>3 DEF StartSave
    <3> HIDE DEF new
    <3>3. save' \in [Savers -> SaveStates] /\ SaveReady'
      BY <2>3, <3>1, <3>2
    <3> QED
      BY <2>1, <3>2, <3>3 DEF StartSave
  <2> QED
    BY <2>2, <2>3
<1>5. CASE \E s \in Savers : ReadMeta(s)
  <2> PICK s \in Savers : ReadMeta(s)
    BY <1>5
  <2>1. total[save[s].to] \in Nat
    BY DEF ReadMeta, SaveStates
  <2>2. save' \in [Savers -> SaveStates] /\ saved' \in [Dirs -> SUBSET MessageIds] /\ SaveReady'
    BY <1>collect, <2>1 DEF ReadMeta
  <2> QED
    BY <2>2 DEF ReadMeta
<1>6. CASE \E s \in Savers : AppendLine(s)
  <2> PICK s \in Savers : AppendLine(s)
    BY <1>6
  <2> DEFINE batch == save[s].batch
             p == IF Len(batch) = 1 THEN "meta" ELSE "append"
             new == [save[s] EXCEPT !.batch = Tail(batch), !.pc = p, !.meta = dir]
  <2>1. save[s] \in SaveStates /\ save[s].to \in Dirs /\ batch \in Seq(MessageIds) /\ batch # <<>>
    BY DEF AppendLine, SaveStates
  <2>2. Head(batch) \in MessageIds /\ Tail(batch) \in Seq(MessageIds)
    BY <2>1, HeadTailProperties
  <2>3. save' = [save EXCEPT ![s] = new]
    BY DEF AppendLine
  <2>5. p \in {"append", "meta"} /\ (p = "append" => Tail(batch) # <<>>)
    BY <2>1, TailNotEmpty
  <2> HIDE DEF p
  <2>6. new \in SaveStates /\ new.pc = p /\ new.batch = Tail(batch)
    BY <2>1, <2>2, <2>5 DEF SaveStates
  <2> HIDE DEF new
  <2>7. save' \in [Savers -> SaveStates]
    BY <2>3, <2>6
  <2>8. SaveReady'
    BY <2>3, <2>5, <2>6 DEF AppendLine
  <2>9. lines' \in [Dirs -> Seq(MessageIds \union {Torn})]
    <3>1. lines' = [lines EXCEPT ![save[s].to] = Append(@, Head(batch))]
      BY DEF AppendLine
    <3>2. Append(lines[save[s].to], Head(batch)) \in Seq(MessageIds \union {Torn})
      BY <2>1, <2>2, AppendProperties
    <3> QED
      BY <3>1, <3>2
  <2>10. UNCHANGED <<messages, created, inserted, total, made, dir, dirs, up, faults, resumes, saved>>
    BY DEF AppendLine
  <2> QED
    BY <2>7, <2>8, <2>9, <2>10
<1>7. CASE \E s \in Savers : WriteMeta(s)
  <2> PICK s \in Savers : WriteMeta(s)
    BY <1>7
  <2>1. save[s].meta \in Dirs /\ save[s].seen \in Seq(MessageIds) /\ Len(save[s].seen) \in Nat
    BY LenProperties DEF SaveStates
  <2>2. /\ total' \in [Dirs -> Nat \union {NoMeta}]
        /\ saved' \in [Dirs -> SUBSET MessageIds]
        /\ \A d \in Dirs : total[d] # NoMeta => total'[d] # NoMeta
    <3>1. CASE save[s].meta \in made
      <4> total' = [total EXCEPT ![save[s].meta] = Len(save[s].seen)]
        BY <3>1 DEF WriteMeta
      <4> QED
        BY <1>cover, <2>1, <3>1 DEF WriteMeta, NoMeta
    <3>2. CASE save[s].meta \notin made
      BY <3>2 DEF WriteMeta
    <3> QED
      BY <3>1, <3>2
  <2>3. save' = [save EXCEPT ![s] = Idle]
    BY DEF WriteMeta
  <2>4. SaveReady'
    BY <1>idle, <2>2, <2>3 DEF SaveStates
  <2> QED
    BY <1>idle, <2>2, <2>3, <2>4 DEF WriteMeta
<1>8. CASE \E s \in Savers : CancelSave(s)
  BY <1>8, <1>idle DEF CancelSave
<1>9. CASE Exit \/ Crash
  <2>1. save' = [s \in Savers |-> Idle] /\ messages' = <<>> /\ up' = FALSE
    BY <1>9 DEF Exit, Crash, Down
  <2>2. SaveReady' /\ save' \in [Savers -> SaveStates] /\ messages' \in Seq(MessageIds)
    BY <1>idle, <2>1, EmptySeq
  <2>3. lines' \in [Dirs -> Seq(MessageIds \union {Torn})]
    <3>1. CASE UNCHANGED lines
      BY <3>1
    <3>2. ASSUME NEW s \in Savers, lines' = [lines EXCEPT ![save[s].to] = Append(@, Torn)]
          PROVE  lines' \in [Dirs -> Seq(MessageIds \union {Torn})]
      BY <3>2, AppendProperties DEF SaveStates
    <3> QED
      BY <1>9, <3>1, <3>2 DEF Exit, Crash
  <2>4. UNCHANGED <<created, inserted, total, made, dir, dirs, resumes, saved>>
        /\ faults' \in 0..MaxFaults
    BY <1>9 DEF Exit, Crash, Down
  <2> QED
    BY <2>1, <2>2, <2>3, <2>4
<1>10. CASE \E d \in Dirs : Resume(d)
  <2> PICK d \in Dirs : Resume(d)
    BY <1>10
  <2>1. lines[d] \in Seq(MessageIds)
    <3>1. \A i \in 1..Len(lines[d]) : lines[d][i] \in MessageIds
      BY LenProperties, ElementOfSeq DEF Resume, Loadable, Parses, ToSet
    <3> QED
      BY <3>1, SubSeqProperties, SubSeqFull, LenProperties
  <2> QED
    BY <2>1 DEF Resume
<1>11. CASE Restart
  BY <1>11 DEF Restart, Dirs
<1>12. CASE UNCHANGED vars
  BY <1>12 DEF vars
<1> QED
  BY <1>1, <1>2, <1>3, <1>4, <1>5, <1>6, <1>7, <1>8, <1>9, <1>10, <1>11, <1>12 DEF Next

\* The state has its type at all times, whatever saves run at once.
THEOREM TypeCorrect == Spec => []TypeOK
<1>1. Init => TypeOK /\ SaveReady
  BY StoreAssumption, EmptySeq
  DEF Init, TypeOK, SaveReady, Idle, SaveStates, Dirs, MessageIds, NoMeta
<1> QED
  BY <1>1, TypeStep, PTL DEF Spec

-----------------------------------------------------------------------------
(* What is on disk *)

\* No session begins while a save is under way: there is one saver, which begins
\* sessions only between its saves, or one session.  Without it neither property
\* holds: metadata built after the session has changed go to the new directory
\* with the count of the old one.
SavesStay == (\A s, t \in Savers : s = t) \/ MaxDirs = 1

\* What it comes to: a step that goes to another session finds no save under way.
SessionStays == dir' # dir => \A s \in Savers : save[s].pc = "idle"

\* A save under way works for the current session.  What it has seen, and is not
\* in the file yet, it still has to append; and the conversation has since only
\* grown, but for what was inserted.
SaveOK(s) ==
  save[s].pc # "idle" =>
    /\ save[s].to = dir
    /\ save[s].pc = "meta" => save[s].batch = <<>>
    /\ save[s].pc # "read" =>
         /\ save[s].meta = dir
         /\ ToSet(save[s].seen) \ inserted \subseteq ToSet(lines[dir]) \union ToSet(save[s].batch)
         /\ Len(save[s].seen) <= Len(lines[dir]) + Len(save[s].batch)
         /\ Len(save[s].seen) <= Len(messages)
         /\ \A i \in 1..Len(save[s].seen) : messages[i] \in ToSet(save[s].seen) \union inserted

\* The messages that the metadata count are the first of the conversation.
PrefixSaved ==
  \A i \in 1..Len(messages) :
    i <= total[dir] => messages[i] \in ToSet(lines[dir]) \union inserted

CountFits == up => total[dir] <= Len(messages)

DownEmpty == ~up => messages = <<>> /\ \A s \in Savers : save[s].pc = "idle"

\* A session that has yet to begin has no metadata.
FreshDirs == dir <= dirs /\ \A d \in Dirs : d > dirs => total[d] = NoMeta

IInv ==
  /\ TypeOK /\ SaveReady
  /\ \A s \in Savers : SaveOK(s)
  /\ PrefixSaved /\ CountFits /\ DownEmpty /\ FreshDirs
  /\ MetaNeverAhead /\ NothingLost

Grown(d) == ToSet(lines[d]) \subseteq ToSet(lines'[d]) /\ Len(lines[d]) <= Len(lines'[d])

\* A line more in one file.
LEMMA LineGrows ==
  ASSUME TypeOK, NEW d \in Dirs, NEW x \in MessageIds \union {Torn},
         lines' = [lines EXCEPT ![d] = Append(@, x)]
  PROVE  /\ \A e \in Dirs : Grown(e)
         /\ ToSet(lines'[d]) = ToSet(lines[d]) \union {x}
         /\ Len(lines'[d]) = Len(lines[d]) + 1
<1>1. lines[d] \in Seq(MessageIds \union {Torn}) /\ lines'[d] = Append(lines[d], x)
  BY DEF TypeOK
<1>2. ToSet(lines'[d]) = ToSet(lines[d]) \union {x} /\ Len(lines'[d]) = Len(lines[d]) + 1
      /\ Len(lines[d]) \in Nat
  BY <1>1, RangeAppend, AppendProperties, LenProperties
<1>3. ASSUME NEW e \in Dirs, e # d PROVE lines'[e] = lines[e] /\ Len(lines[e]) \in Nat
  BY <1>3, LenProperties DEF TypeOK
<1> QED
  BY <1>2, <1>3 DEF Grown

\* While files only grow, what was on disk stays there.
LEMMA LogKept ==
  ASSUME IInv, TypeOK', \A d \in Dirs : Grown(d), UNCHANGED <<total, saved>>,
         inserted \subseteq inserted'
  PROVE  MetaNeverAhead' /\ NothingLost'
<1>1. \A d \in Dirs : Len(lines[d]) \in Nat /\ Len(lines'[d]) \in Nat /\ total[d] \in Int
  BY LenProperties DEF IInv, TypeOK, NoMeta
<1> QED
  BY <1>1 DEF IInv, MetaNeverAhead, NothingLost, Grown

\* A save is not disturbed by what others append to the file.
LEMMA SaveKept ==
  ASSUME IInv, TypeOK', NEW s \in Savers, save'[s] = save[s], Grown(dir),
         UNCHANGED <<dir, messages, inserted>>
  PROVE  SaveOK(s)'
<1>1. /\ Len(lines[dir]) \in Nat /\ Len(lines'[dir]) \in Nat
      /\ Len(save[s].batch) \in Nat /\ Len(save[s].seen) \in Nat
      /\ Len(messages) \in Nat
  BY LenProperties DEF IInv, TypeOK, SaveStates
<1>2. SaveOK(s) /\ dir' = dir /\ messages' = messages /\ inserted' = inserted
  BY DEF IInv
<1>3. ToSet(lines[dir]) \subseteq ToSet(lines'[dir]) /\ Len(lines[dir]) <= Len(lines'[dir])
  BY <1>2 DEF Grown
<1> DEFINE v == save[s]
           old == ToSet(lines[dir])
           new == ToSet(lines'[dir])
<1>4. ASSUME v.pc # "idle"
      PROVE  v.to = dir /\ (v.pc = "meta" => v.batch = <<>>)
  BY <1>2, <1>4 DEF SaveOK
<1>5. ASSUME v.pc # "idle", v.pc # "read"
      PROVE  /\ v.meta = dir
             /\ ToSet(v.seen) \ inserted \subseteq old \union ToSet(v.batch)
             /\ Len(v.seen) <= Len(lines[dir]) + Len(v.batch)
             /\ Len(v.seen) <= Len(messages)
             /\ \A i \in 1..Len(v.seen) : messages[i] \in ToSet(v.seen) \union inserted
  BY <1>2, <1>5 DEF SaveOK
<1> HIDE DEF old, new
<1>6. ASSUME v.pc # "idle", v.pc # "read"
      PROVE  /\ ToSet(v.seen) \ inserted \subseteq new \union ToSet(v.batch)
             /\ Len(v.seen) <= Len(lines'[dir]) + Len(v.batch)
  <2>1. old \subseteq new
    BY <1>3 DEF old, new
  <2>2. \A k, l, m, n \in Nat : k <= l + n /\ l <= m => k <= m + n
    OBVIOUS
  <2> QED
    BY <1>1, <1>3, <1>5, <1>6, <2>1, <2>2
<1> QED
  BY <1>2, <1>4, <1>5, <1>6 DEF SaveOK, new

\* A save that has read the metadata covers all it has seen.
LEMMA CollectSound ==
  ASSUME IInv, TypeOK', NEW s \in Savers, NEW old \in Nat, Collect(s, old),
         old <= Len(lines[dir]),
         \A i \in 1..Len(messages) :
           i <= old => messages[i] \in ToSet(lines[dir]) \union inserted,
         UNCHANGED <<dir, messages, inserted, lines, total>>
  PROVE  (\A t \in Savers : SaveOK(t)') /\ MetaNeverAhead' /\ NothingLost'
<1>1. /\ messages \in Seq(MessageIds) /\ dir \in Dirs /\ save \in [Savers -> SaveStates]
      /\ Len(messages) \in Nat /\ Len(lines[dir]) \in Nat /\ Len(Unsaved(old)) \in Nat
      /\ saved \in [Dirs -> SUBSET MessageIds]
  BY UnsavedType, LenProperties DEF IInv, TypeOK
<1>2. ToSet(messages) = {messages[i] : i \in 1..Len(messages)}
  BY <1>1, LenProperties DEF ToSet
<1>3. ToSet(messages) \ inserted \subseteq ToSet(lines[dir]) \union ToSet(Unsaved(old))
  <2>1. ASSUME NEW i \in 1..Len(messages)
        PROVE  messages[i] \in ToSet(lines[dir]) \union inserted \union ToSet(Unsaved(old))
    <3>1. i <= old \/ messages[i] \in ToSet(Unsaved(old))
      BY <1>1, UnsavedType
    <3> QED BY <3>1
  <2> QED
    BY <1>2, <2>1, Zenon
<1>4. Len(messages) <= Len(lines[dir]) + Len(Unsaved(old))
  <2>1. Len(Unsaved(old)) = IF old < Len(messages) THEN Len(messages) - old ELSE 0
    BY <1>1, UnsavedType
  <2>2. \A m, l, u \in Nat :
          old <= l /\ u = (IF old < m THEN m - old ELSE 0) => m <= l + u
    OBVIOUS
  <2> QED
    BY <1>1, <2>1, <2>2
<1>5. ASSUME NEW t \in Savers, t # s PROVE SaveOK(t)'
  <2> save'[t] = save[t]
    BY <1>1, <1>5 DEF Collect
  <2> Grown(dir)
    BY <1>1 DEF Grown
  <2> QED
    BY SaveKept
<1>6. MetaNeverAhead'
  BY DEF MetaNeverAhead, IInv
<1>7. CASE Unsaved(old) = <<>>
  <2>1. save'[s].pc = "idle" /\ saved' = [saved EXCEPT ![dir] = @ \union ToSet(messages)]
    BY <1>1, <1>7 DEF Collect, Cover, Idle
  <2>2. ToSet(messages) \ inserted \subseteq ToSet(lines[dir])
    BY <1>3, <1>7 DEF ToSet
  <2>3. NothingLost'
    BY <1>1, <2>1, <2>2 DEF NothingLost, IInv
  <2> QED
    BY <1>5, <1>6, <2>1, <2>3 DEF SaveOK
<1>8. CASE Unsaved(old) # <<>> /\ dir \in made'
  <2> DEFINE new == [pc |-> "append", batch |-> Unsaved(old), to |-> dir,
                     seen |-> messages, meta |-> dir]
  <2>1. save'[s] = new /\ UNCHANGED saved
    BY <1>1, <1>8 DEF Collect
  <2>2. SaveOK(s)'
    BY <1>1, <1>2, <1>3, <1>4, <2>1 DEF SaveOK
  <2> QED
    BY <1>5, <1>6, <2>1, <2>2 DEF NothingLost, IInv
<1>9. CASE ~(Unsaved(old) # <<>> /\ dir \in made') /\ Unsaved(old) # <<>>
  <2>1. save'[s].pc = "idle" /\ UNCHANGED saved
    BY <1>1, <1>9 DEF Collect, Idle
  <2> QED
    BY <1>5, <1>6, <2>1 DEF SaveOK, NothingLost, IInv
<1> QED
  BY <1>7, <1>8, <1>9

\* A step that leaves the saves, the files and the session alone, and in which the
\* conversation grows.
LEMMA ConversationGrows ==
  ASSUME IInv, TypeOK', UNCHANGED <<diskVars, dir, dirs, save, saved>>,
         inserted \subseteq inserted', Len(messages) <= Len(messages'),
         \A i \in 1..Len(messages') :
           \/ messages'[i] \in inserted'
           \/ i > Len(messages)
           \/ i \in 1..Len(messages) /\ messages'[i] = messages[i]
           \/ i - 1 \in 1..Len(messages) /\ messages'[i] = messages[i - 1],
         total[dir] <= Len(messages)
  PROVE  (\A s \in Savers : SaveOK(s)') /\ PrefixSaved' /\ MetaNeverAhead' /\ NothingLost'
<1>1. /\ Len(messages) \in Nat /\ Len(messages') \in Nat /\ dir \in Dirs /\ total[dir] \in Int
      /\ \A s \in Savers : Len(save[s].seen) \in Nat
      /\ dir' = dir /\ lines' = lines /\ save' = save /\ total' = total /\ saved' = saved
  BY LenProperties DEF IInv, TypeOK, NoMeta, SaveStates, diskVars
<1>2. MetaNeverAhead' /\ NothingLost'
  BY <1>1 DEF IInv, MetaNeverAhead, NothingLost
<1>3. PrefixSaved'
  <2> SUFFICES ASSUME NEW i \in 1..Len(messages'), i <= total[dir]
               PROVE  messages'[i] \in ToSet(lines[dir]) \union inserted'
    BY <1>1 DEF PrefixSaved
  <2>1. \A j \in 1..Len(messages) :
          j <= total[dir] => messages[j] \in ToSet(lines[dir]) \union inserted
    BY DEF IInv, PrefixSaved
  <2> QED
    BY <1>1, <2>1
<1>4. ASSUME NEW s \in Savers PROVE SaveOK(s)'
  <2>1. SaveOK(s)
    BY DEF IInv
  <2>2. ASSUME NEW i \in 1..Len(save[s].seen), save[s].pc # "idle", save[s].pc # "read"
        PROVE  messages'[i] \in ToSet(save[s].seen) \union inserted'
    <3>1. /\ Len(save[s].seen) <= Len(messages)
          /\ \A j \in 1..Len(save[s].seen) : messages[j] \in ToSet(save[s].seen) \union inserted
      BY <2>1, <2>2 DEF SaveOK
    <3>2. i \in 1..Len(messages') /\ ~(i > Len(messages))
      BY <1>1, <3>1
    <3>3. CASE messages'[i] \in inserted' \/ messages'[i] = messages[i]
      BY <3>1, <3>3
    <3>4. CASE i - 1 \in 1..Len(messages) /\ messages'[i] = messages[i - 1]
      BY <1>1, <3>1, <3>4
    <3> QED
      BY <3>2, <3>3, <3>4
  <2>3. ASSUME save[s].pc # "idle", save[s].pc # "read"
        PROVE  /\ ToSet(save[s].seen) \ inserted' \subseteq ToSet(lines[dir]) \union ToSet(save[s].batch)
               /\ Len(save[s].seen) <= Len(messages')
    <3>1. /\ ToSet(save[s].seen) \ inserted \subseteq ToSet(lines[dir]) \union ToSet(save[s].batch)
          /\ Len(save[s].seen) <= Len(messages)
      BY <2>1, <2>3 DEF SaveOK
    <3>2. Len(save[s].seen) <= Len(messages')
      BY <1>1, <3>1
    <3>3. ToSet(save[s].seen) \ inserted' \subseteq ToSet(save[s].seen) \ inserted
      OBVIOUS
    <3> QED
      BY <3>1, <3>2, <3>3
  <2> QED
    BY <1>1, <2>1, <2>2, <2>3 DEF SaveOK
<1> QED
  BY <1>2, <1>3, <1>4

\* A step that changes no file while no save is under way.
LEMMA AllIdle ==
  ASSUME IInv, TypeOK', UNCHANGED <<total, saved, inserted>>, \A d \in Dirs : Grown(d),
         \A s \in Savers : save'[s].pc = "idle"
  PROVE  (\A s \in Savers : SaveOK(s)') /\ MetaNeverAhead' /\ NothingLost'
<1>1. \A s \in Savers : SaveOK(s)'
  BY DEF SaveOK
<1> QED
  BY <1>1, LogKept

\* What a save covers once its metadata are written.
LEMMA WriteMetaSound ==
  ASSUME IInv, TypeOK', NEW s \in Savers, WriteMeta(s)
  PROVE  /\ \A t \in Savers : SaveOK(t)'
         /\ PrefixSaved' /\ CountFits' /\ FreshDirs' /\ MetaNeverAhead' /\ NothingLost'
<1>1. /\ SaveOK(s) /\ save[s].pc = "meta" /\ save[s].meta = dir /\ dir \in Dirs /\ dir <= dirs
      /\ Len(save[s].seen) \in Nat /\ Len(lines[dir]) \in Nat /\ Len(messages) \in Nat
      /\ ToSet(save[s].batch) = {} /\ Len(save[s].batch) = 0
      /\ save \in [Savers -> SaveStates] /\ total \in [Dirs -> Nat \union {NoMeta}]
      /\ saved \in [Dirs -> SUBSET MessageIds]
  <2>1. SaveOK(s) /\ save[s].pc = "meta" /\ save[s].meta = dir /\ save[s].batch = <<>>
    BY DEF WriteMeta, SaveOK, IInv
  <2> QED
    <3>1. /\ dir \in Dirs /\ lines[dir] \in Seq(MessageIds \union {Torn})
          /\ messages \in Seq(MessageIds)
          /\ save \in [Savers -> SaveStates] /\ total \in [Dirs -> Nat \union {NoMeta}]
          /\ saved \in [Dirs -> SUBSET MessageIds] /\ dir <= dirs
      BY DEF IInv, TypeOK, FreshDirs
    <3>2. save[s].seen \in Seq(MessageIds) /\ ToSet(<<>>) = {} /\ Len(<<>>) = 0
      BY <3>1 DEF SaveStates, ToSet
    <3> QED
      BY <2>1, <3>1, <3>2, LenProperties
<1>2. /\ ToSet(save[s].seen) \ inserted \subseteq ToSet(lines[dir])
      /\ Len(save[s].seen) <= Len(lines[dir])
      /\ Len(save[s].seen) <= Len(messages)
      /\ \A i \in 1..Len(save[s].seen) : messages[i] \in ToSet(save[s].seen) \union inserted
  BY <1>1 DEF SaveOK
<1>3. ASSUME NEW t \in Savers PROVE SaveOK(t)'
  <2>1. CASE t = s
    BY <1>1, <2>1 DEF WriteMeta, SaveOK, Idle
  <2>2. CASE t # s
    <3>1. save'[t] = save[t]
      BY <1>1, <2>2 DEF WriteMeta
    <3>2. UNCHANGED <<dir, messages, inserted>> /\ lines' = lines
      BY DEF WriteMeta, memVars, sessionVars
    <3>3. Grown(dir)
      BY <1>1, <3>2 DEF Grown
    <3> QED
      BY <3>1, <3>2, <3>3, SaveKept
  <2> QED
    BY <2>1, <2>2
<1>4. CASE dir \in made
  <2>1. /\ total' = [total EXCEPT ![dir] = Len(save[s].seen)]
        /\ saved' = [saved EXCEPT ![dir] = @ \union ToSet(save[s].seen)]
        /\ UNCHANGED <<messages, inserted, lines, dir, dirs, up>>
    BY <1>1, <1>4 DEF WriteMeta, Cover, memVars, sessionVars
  <2>2. PrefixSaved'
    <3> SUFFICES ASSUME NEW i \in 1..Len(messages), i <= Len(save[s].seen)
                 PROVE  messages[i] \in ToSet(lines[dir]) \union inserted
      BY <1>1, <2>1 DEF PrefixSaved
    <3> QED
      BY <1>1, <1>2
  <2>3. CountFits'
    BY <1>1, <1>2, <2>1 DEF CountFits
  <2>4. FreshDirs'
    <3>1. ASSUME NEW d \in Dirs, d > dirs PROVE total'[d] = total[d] /\ total[d] = NoMeta
      <4> d # dir
        BY <1>1, <3>1, StoreAssumption DEF Dirs, IInv, TypeOK
      <4> QED
        BY <1>1, <2>1, <3>1 DEF FreshDirs, IInv
    <3> QED
      BY <1>1, <2>1, <3>1 DEF FreshDirs
  <2>5. MetaNeverAhead' /\ NothingLost'
    BY <1>1, <1>2, <2>1 DEF IInv, MetaNeverAhead, NothingLost
  <2> QED
    BY <1>3, <2>2, <2>3, <2>4, <2>5
<1>5. CASE dir \notin made
  <2>1. UNCHANGED <<total, saved, messages, inserted, lines, dir, dirs, up>>
    BY <1>1, <1>5 DEF WriteMeta, memVars, sessionVars
  <2> QED
    BY <1>3, <2>1 DEF IInv, PrefixSaved, CountFits, FreshDirs, MetaNeverAhead, NothingLost
<1> QED
  BY <1>4, <1>5

\* A line appended by a save leaves the rest of what it has seen to append.
LEMMA AppendLineSound ==
  ASSUME IInv, TypeOK', NEW s \in Savers, AppendLine(s)
  PROVE  /\ \A t \in Savers : SaveOK(t)'
         /\ PrefixSaved' /\ MetaNeverAhead' /\ NothingLost'
<1> DEFINE b == save[s].batch
<1>1. /\ SaveOK(s) /\ save[s].pc = "append" /\ save[s].to = dir /\ dir \in Dirs
      /\ b \in Seq(MessageIds) /\ b # <<>> /\ Head(b) \in MessageIds
      /\ Tail(b) \in Seq(MessageIds) /\ Len(Tail(b)) = Len(b) - 1 /\ Len(b) \in Nat
      /\ ToSet(b) = {Head(b)} \union ToSet(Tail(b))
      /\ save \in [Savers -> SaveStates]
  <2>1. SaveOK(s) /\ save[s].pc = "append" /\ save[s].to = dir
    BY DEF AppendLine, SaveOK, IInv
  <2>2. b \in Seq(MessageIds) /\ b # <<>> /\ dir \in Dirs /\ save \in [Savers -> SaveStates]
    BY <2>1 DEF IInv, TypeOK, SaveReady, SaveStates
  <2> QED
    BY <2>1, <2>2, HeadTailProperties, LenProperties, RangeHeadTail
<1>2. /\ UNCHANGED <<messages, inserted, total, made, dir, dirs, saved>>
      /\ lines' = [lines EXCEPT ![dir] = Append(@, Head(b))]
  BY <1>1 DEF AppendLine, memVars, sessionVars
<1>3. /\ \A e \in Dirs : Grown(e)
      /\ ToSet(lines'[dir]) = ToSet(lines[dir]) \union {Head(b)}
      /\ Len(lines'[dir]) = Len(lines[dir]) + 1 /\ Len(lines[dir]) \in Nat
  <2>1. Len(lines[dir]) \in Nat
    BY <1>1, LenProperties DEF IInv, TypeOK
  <2> QED
    BY <1>1, <1>2, <2>1, LineGrows DEF IInv
<1>4. MetaNeverAhead' /\ NothingLost'
  BY <1>2, <1>3, LogKept
<1>5. PrefixSaved'
  BY <1>1, <1>2, <1>3 DEF IInv, PrefixSaved, Grown
<1>6. ASSUME NEW t \in Savers, t # s PROVE SaveOK(t)'
  <2>1. save'[t] = save[t]
    BY <1>1, <1>6 DEF AppendLine
  <2>2. UNCHANGED <<dir, messages, inserted>>
    BY <1>2
  <2>3. Grown(dir)
    BY <1>1, <1>3 DEF Grown
  <2> QED
    BY <2>1, <2>2, <2>3, SaveKept
<1>7. SaveOK(s)'
  <2> DEFINE p == IF Len(b) = 1 THEN "meta" ELSE "append"
             new == [save[s] EXCEPT !.batch = Tail(b), !.pc = p, !.meta = dir]
  <2>1. save'[s] = new
    BY <1>1 DEF AppendLine
  <2>2. p \in {"append", "meta"} /\ (p = "meta" => Tail(b) = <<>>)
    BY <1>1, TailNotEmpty
  <2> HIDE DEF p
  <2>3. new.pc = p /\ new.batch = Tail(b) /\ new.to = dir /\ new.seen = save[s].seen
        /\ new.meta = dir
    BY <1>1 DEF SaveStates
  <2> HIDE DEF new
  <2>4. /\ ToSet(save[s].seen) \ inserted \subseteq ToSet(lines[dir]) \union ToSet(b)
        /\ Len(save[s].seen) <= Len(lines[dir]) + Len(b)
        /\ Len(save[s].seen) <= Len(messages)
        /\ \A i \in 1..Len(save[s].seen) : messages[i] \in ToSet(save[s].seen) \union inserted
    BY <1>1 DEF SaveOK
  <2>5. ToSet(save[s].seen) \ inserted \subseteq ToSet(lines'[dir]) \union ToSet(Tail(b))
    BY <1>1, <1>3, <2>4
  <2>6. Len(save[s].seen) <= Len(lines'[dir]) + Len(Tail(b))
    <3>1. \A k \in Int, l, m \in Nat : k <= l + m => k <= (l + 1) + (m - 1)
      OBVIOUS
    <3>2. Len(save[s].seen) \in Int
      BY <1>1, LenProperties DEF SaveStates
    <3> QED
      BY <1>1, <1>3, <2>4, <3>1, <3>2
  <2> QED
    BY <1>2, <2>1, <2>2, <2>3, <2>4, <2>5, <2>6 DEF SaveOK
<1> QED
  BY <1>4, <1>5, <1>6, <1>7

\* Where a conversation and a session begin, while no save is under way, the
\* counted prefix is nothing or the file itself.
LEMMA SessionBegins ==
  ASSUME IInv, TypeOK', UNCHANGED <<diskVars, inserted, saved, save>>, dirs' \in {dirs, dirs + 1},
         \A s \in Savers : save[s].pc = "idle",
         dir' <= dirs',
         \/ total[dir'] = NoMeta
         \/ total[dir'] # NoMeta /\ messages' = lines[dir']
  PROVE  /\ \A s \in Savers : SaveOK(s)'
         /\ PrefixSaved' /\ CountFits' /\ FreshDirs' /\ MetaNeverAhead' /\ NothingLost'
<1>1. /\ lines' = lines /\ total' = total /\ inserted' = inserted /\ save' = save /\ saved' = saved
      /\ dirs \in Int /\ dirs' \in Int /\ \A d \in Dirs : d \in Int
      /\ dir' \in Dirs /\ messages' \in Seq(MessageIds)
      /\ lines[dir'] \in Seq(MessageIds \union {Torn})
  BY StoreAssumption DEF IInv, TypeOK, diskVars, Dirs
<1>2. Len(messages') \in Nat /\ Len(lines[dir']) \in Nat
      /\ \A i \in 1..Len(lines[dir']) : lines[dir'][i] \in ToSet(lines[dir'])
  BY <1>1, LenProperties DEF ToSet
<1>3. (\A s \in Savers : SaveOK(s)') /\ MetaNeverAhead' /\ NothingLost'
  BY <1>1 DEF SaveOK, IInv, MetaNeverAhead, NothingLost
<1>4. FreshDirs'
  <2> SUFFICES ASSUME NEW d \in Dirs, d > dirs' PROVE total[d] = NoMeta
    BY <1>1 DEF FreshDirs
  <2> d > dirs
    BY <1>1
  <2> QED
    BY DEF IInv, FreshDirs
<1>5. CASE total[dir'] = NoMeta
  <2>1. total[dir'] <= Len(messages') /\ \A i \in 1..Len(messages') : ~(i <= total[dir'])
    BY <1>2, <1>5 DEF NoMeta
  <2> QED
    BY <1>1, <1>3, <1>4, <2>1 DEF PrefixSaved, CountFits
<1>6. CASE messages' = lines[dir']
  <2>1. total[dir'] <= Len(lines[dir'])
    BY <1>1 DEF IInv, MetaNeverAhead
  <2> QED
    BY <1>1, <1>2, <1>3, <1>4, <1>6, <2>1 DEF PrefixSaved, CountFits
<1> QED
  BY <1>5, <1>6

\* The invariant is preserved by every step of the process that runs.
LEMMA RunningStep ==
  ASSUME IInv, TypeOK', SessionStays,
         \/ AppendMessage \/ InsertMessage \/ NewSession
         \/ \E s \in Savers :
              StartSave(s) \/ ReadMeta(s) \/ AppendLine(s) \/ WriteMeta(s) \/ CancelSave(s)
  PROVE  /\ \A s \in Savers : SaveOK(s)'
         /\ PrefixSaved' /\ CountFits' /\ FreshDirs' /\ MetaNeverAhead' /\ NothingLost'
<1>type. /\ messages \in Seq(MessageIds) /\ Len(messages) \in Nat
         /\ dir \in Dirs /\ total[dir] \in Int /\ Len(lines[dir]) \in Nat /\ total[dir] <= Len(lines[dir])
         /\ (created < MaxMessages => created + 1 \in MessageIds)
         /\ dirs \in Int /\ MaxDirs \in Nat
  <2>1. TypeOK /\ MetaNeverAhead
    BY DEF IInv
  <2>2. dir \in Dirs /\ messages \in Seq(MessageIds) /\ lines[dir] \in Seq(MessageIds \union {Torn})
    BY <2>1 DEF TypeOK
  <2>3. Len(messages) \in Nat /\ Len(lines[dir]) \in Nat /\ total[dir] <= Len(lines[dir])
    BY <2>1, <2>2, LenProperties DEF MetaNeverAhead
  <2>4. total[dir] \in Int
    BY <2>1, <2>2 DEF TypeOK, NoMeta
  <2>5. created < MaxMessages => created + 1 \in MessageIds
    BY <2>1, StoreAssumption DEF TypeOK, MessageIds
  <2>6. dirs \in Int /\ MaxDirs \in Nat
    BY <2>1, StoreAssumption DEF TypeOK, Dirs
  <2> QED
    BY <2>2, <2>3, <2>4, <2>5, <2>6
<1>same. ASSUME UNCHANGED <<messages, inserted, lines, total, dir, dirs, up>>
         PROVE  /\ PrefixSaved' /\ CountFits' /\ FreshDirs'
                /\ \A d \in Dirs : Grown(d)
  <2>1. \A d \in Dirs : Len(lines[d]) \in Nat
    BY LenProperties DEF IInv, TypeOK
  <2>2. \A d \in Dirs : Grown(d)
    BY <1>same, <2>1 DEF Grown
  <2> QED
    BY <1>same, <2>2 DEF IInv, PrefixSaved, CountFits, FreshDirs
<1>1. CASE AppendMessage
  <2>1. /\ messages' = Append(messages, created + 1) /\ created + 1 \in MessageIds
        /\ up /\ UNCHANGED <<inserted, diskVars, dir, dirs, up, save, saved>>
    BY <1>type, <1>1 DEF AppendMessage, sessionVars
  <2>2. Len(messages') = Len(messages) + 1
        /\ \A i \in 1..Len(messages') :
             i > Len(messages) \/ (i \in 1..Len(messages) /\ messages'[i] = messages[i])
    BY <1>type, <2>1, AppendProperties
  <2>3. total[dir] <= Len(messages)
    BY <2>1 DEF IInv, CountFits
  <2>4. (\A s \in Savers : SaveOK(s)') /\ PrefixSaved' /\ MetaNeverAhead' /\ NothingLost'
    <3>1. Len(messages) <= Len(messages')
      BY <1>type, <2>2
    <3>2. inserted \subseteq inserted' /\ UNCHANGED <<diskVars, dir, dirs, save, saved>>
      BY <2>1
    <3> QED
      BY <2>2, <2>3, <3>1, <3>2, ConversationGrows
  <2>5. CountFits'
    <3>1. total'[dir'] = total[dir] /\ total[dir] <= Len(messages')
      BY <1>type, <2>1, <2>2, <2>3 DEF diskVars
    <3> QED
      BY <3>1 DEF CountFits
  <2>6. FreshDirs'
    BY <2>1 DEF diskVars, FreshDirs, IInv
  <2> QED
    BY <2>4, <2>5, <2>6
<1>2. CASE InsertMessage
  <2> PICK k \in 1..Len(messages) : messages' = InsertAt(messages, k, created + 1)
    BY <1>2 DEF InsertMessage
  <2>1. /\ created + 1 \in MessageIds /\ inserted' = inserted \union {created + 1}
        /\ up /\ UNCHANGED <<diskVars, dir, dirs, up, save, saved>>
    BY <1>type, <1>2 DEF InsertMessage, sessionVars
  <2>2. /\ Len(messages') = Len(messages) + 1
        /\ \A j \in 1..Len(messages) + 1 :
             messages'[j] = IF j < k THEN messages[j]
                            ELSE IF j = k THEN created + 1 ELSE messages[j - 1]
    BY <1>type, <2>1, InsertType
  <2>3. total[dir] <= Len(messages)
    BY <2>1 DEF IInv, CountFits
  <2>4. (\A s \in Savers : SaveOK(s)') /\ PrefixSaved' /\ MetaNeverAhead' /\ NothingLost'
    <3>1. Len(messages) <= Len(messages')
      BY <1>type, <2>2
    <3>2. inserted \subseteq inserted' /\ UNCHANGED <<diskVars, dir, dirs, save, saved>>
      BY <2>1
    <3>3. ASSUME NEW i \in 1..Len(messages')
          PROVE  \/ messages'[i] \in inserted'
                 \/ i \in 1..Len(messages) /\ messages'[i] = messages[i]
                 \/ i - 1 \in 1..Len(messages) /\ messages'[i] = messages[i - 1]
      <4>1. i \in 1..Len(messages) + 1
        BY <2>2
      <4>2. CASE i = k
        BY <2>1, <2>2, <4>1, <4>2
      <4>3. CASE i < k
        BY <1>type, <2>2, <4>1, <4>3
      <4>4. CASE i > k
        BY <1>type, <2>2, <4>1, <4>4
      <4> QED
        BY <4>1, <4>2, <4>3, <4>4
    <3> QED
      BY <2>3, <3>1, <3>2, <3>3, ConversationGrows
  <2>5. CountFits'
    <3>1. total'[dir'] = total[dir] /\ total[dir] <= Len(messages')
      BY <1>type, <2>1, <2>2, <2>3 DEF diskVars
    <3> QED
      BY <3>1 DEF CountFits
  <2>6. FreshDirs'
    BY <2>1 DEF diskVars, FreshDirs, IInv
  <2> QED
    BY <2>4, <2>5, <2>6
<1>3. CASE NewSession
  <2>1. /\ dirs < MaxDirs /\ dir' = dirs + 1 /\ dirs' = dirs + 1
        /\ UNCHANGED <<inserted, diskVars, save, saved>>
        /\ \E s \in Savers : save[s].pc = "idle"
    BY <1>3 DEF NewSession
  <2>2. \A s \in Savers : save[s].pc = "idle"
    <3>1. dir' # dir
      BY <1>type, <2>1 DEF IInv, FreshDirs, Dirs
    <3> QED
      BY <3>1 DEF SessionStays
  <2>3. total[dir'] = NoMeta /\ dir' <= dirs' /\ dirs' \in {dirs, dirs + 1}
    <3>1. dir' \in Dirs /\ dir' > dirs
      BY <1>type, <2>1 DEF TypeOK
    <3> QED
      BY <1>type, <2>1, <3>1 DEF IInv, FreshDirs
  <2> QED
    BY <2>1, <2>2, <2>3, SessionBegins
<1>4. CASE \E s \in Savers : StartSave(s)
  <2> PICK s \in Savers : StartSave(s)
    BY <1>4
  <2>1. UNCHANGED <<messages, inserted, lines, total, dir, dirs, up>>
    BY DEF StartSave, memVars, sessionVars
  <2>2. CASE total[dir] = NoMeta
    <3>1. Collect(s, 0)
      BY <2>2 DEF StartSave
    <3>2. 0 <= Len(lines[dir]) /\ \A i \in 1..Len(messages) : ~(i <= 0)
      BY <1>type
    <3>3. (\A t \in Savers : SaveOK(t)') /\ MetaNeverAhead' /\ NothingLost'
      BY <2>1, <3>1, <3>2, CollectSound
    <3> QED
      BY <1>same, <2>1, <3>3
  <2>3. CASE total[dir] # NoMeta
    <3>1. save' = [save EXCEPT ![s] = [Idle EXCEPT !.pc = "read", !.to = dir]] /\ UNCHANGED saved
      BY <2>3 DEF StartSave
    <3>2. SaveOK(s)'
      BY <2>1, <3>1 DEF SaveOK, Idle, IInv, TypeOK
    <3>3. ASSUME NEW t \in Savers, t # s PROVE SaveOK(t)'
      <4>1. save'[t] = save[t]
        BY <3>1, <3>3 DEF IInv, TypeOK
      <4>2. Grown(dir) /\ UNCHANGED <<dir, messages, inserted>>
        BY <1>type, <2>1 DEF Grown
      <4> QED
        BY <4>1, <4>2, SaveKept
    <3>4. MetaNeverAhead' /\ NothingLost'
      BY <2>1, <3>1 DEF IInv, MetaNeverAhead, NothingLost
    <3> QED
      BY <1>same, <2>1, <3>2, <3>3, <3>4
  <2> QED
    BY <2>2, <2>3
<1>5. CASE \E s \in Savers : ReadMeta(s)
  <2> PICK s \in Savers : ReadMeta(s)
    BY <1>5
  <2>1. UNCHANGED <<messages, inserted, lines, total, dir, dirs, up>>
    BY DEF ReadMeta, memVars, diskVars, sessionVars
  <2>2. save[s].to = dir /\ total[dir] \in Nat /\ Collect(s, total[dir])
    <3>1. SaveOK(s) /\ save[s].pc = "read" /\ total[save[s].to] # NoMeta
      BY DEF ReadMeta, IInv, SaveReady
    <3>2. save[s].to = dir
      BY <3>1 DEF SaveOK
    <3> QED
      BY <3>1, <3>2 DEF ReadMeta, IInv, TypeOK
  <2>3. \A i \in 1..Len(messages) :
          i <= total[dir] => messages[i] \in ToSet(lines[dir]) \union inserted
    BY DEF IInv, PrefixSaved
  <2>4. (\A t \in Savers : SaveOK(t)') /\ MetaNeverAhead' /\ NothingLost'
    BY <1>type, <2>1, <2>2, <2>3, CollectSound
  <2> QED
    BY <1>same, <2>1, <2>4
<1>6. CASE \E s \in Savers : AppendLine(s)
  <2> PICK s \in Savers : AppendLine(s)
    BY <1>6
  <2>1. UNCHANGED <<messages, total, dir, dirs, up>>
    BY DEF AppendLine, memVars, sessionVars
  <2>2. CountFits' /\ FreshDirs'
    BY <2>1 DEF IInv, CountFits, FreshDirs
  <2> QED
    BY <2>2, AppendLineSound
<1>7. CASE \E s \in Savers : WriteMeta(s)
  BY <1>7, WriteMetaSound
<1>8. CASE \E s \in Savers : CancelSave(s)
  <2> PICK s \in Savers : CancelSave(s)
    BY <1>8
  <2>1. UNCHANGED <<messages, inserted, lines, total, dir, dirs, up, saved>>
        /\ save' = [save EXCEPT ![s] = Idle]
    BY DEF CancelSave, memVars, diskVars
  <2>2. SaveOK(s)'
    BY <2>1 DEF SaveOK, Idle, IInv, TypeOK
  <2>3. ASSUME NEW t \in Savers, t # s PROVE SaveOK(t)'
    <3>1. save'[t] = save[t]
      BY <2>1, <2>3 DEF IInv, TypeOK
    <3>2. Grown(dir) /\ UNCHANGED <<dir, messages, inserted>>
      BY <1>type, <2>1 DEF Grown
    <3> QED
      BY <3>1, <3>2, SaveKept
  <2>4. MetaNeverAhead' /\ NothingLost'
    BY <2>1 DEF IInv, MetaNeverAhead, NothingLost
  <2> QED
    BY <1>same, <2>1, <2>2, <2>3, <2>4
<1> QED
  BY <1>1, <1>2, <1>3, <1>4, <1>5, <1>6, <1>7, <1>8

\* It is preserved when the process ends, and by the process that comes after it.
LEMMA RestartStep ==
  ASSUME IInv, TypeOK', SessionStays,
         Exit \/ Crash \/ Restart \/ \E d \in Dirs : Resume(d)
  PROVE  /\ \A s \in Savers : SaveOK(s)'
         /\ PrefixSaved' /\ CountFits' /\ FreshDirs' /\ MetaNeverAhead' /\ NothingLost'
<1>type. /\ dirs \in Int /\ MaxDirs \in Nat /\ dir \in Dirs /\ \A d \in Dirs : Len(lines[d]) \in Nat
         /\ \A d \in Dirs : d \in Int
  BY LenProperties, StoreAssumption DEF IInv, TypeOK, Dirs
<1>1. CASE Exit \/ Crash
  <2>1. /\ up' = FALSE /\ messages' = <<>> /\ save' = [s \in Savers |-> Idle]
        /\ UNCHANGED <<inserted, total, dir, dirs, saved>>
    BY <1>1 DEF Exit, Crash, Down
  <2>2. \A d \in Dirs : Grown(d)
    <3>1. CASE UNCHANGED lines
      BY <1>type, <3>1 DEF Grown
    <3>2. ASSUME NEW s \in Savers, lines' = [lines EXCEPT ![save[s].to] = Append(@, Torn)]
          PROVE  \A d \in Dirs : Grown(d)
      BY <3>2, LineGrows DEF IInv, TypeOK, SaveStates
    <3> QED
      BY <1>1, <3>1, <3>2 DEF Exit, Crash
  <2>3. \A s \in Savers : save'[s].pc = "idle"
    BY <2>1 DEF Idle
  <2>4. PrefixSaved'
    BY <2>1 DEF PrefixSaved
  <2>5. CountFits' /\ FreshDirs'
    BY <2>1 DEF IInv, CountFits, FreshDirs
  <2> QED
    BY <2>1, <2>2, <2>3, <2>4, <2>5, AllIdle
<1>2. CASE Restart
  <2>1. /\ ~up /\ dirs < MaxDirs /\ dir' = dirs + 1 /\ dirs' = dirs + 1
        /\ UNCHANGED <<inserted, diskVars, saved, save>>
    BY <1>2 DEF Restart, memVars
  <2>2. \A s \in Savers : save[s].pc = "idle"
    BY <2>1 DEF IInv, DownEmpty
  <2>3. total[dir'] = NoMeta /\ dir' <= dirs' /\ dirs' \in {dirs, dirs + 1}
    <3>1. dir' \in Dirs /\ dir' > dirs
      BY <1>type, <2>1 DEF TypeOK
    <3> QED
      BY <1>type, <2>1, <3>1 DEF IInv, FreshDirs
  <2> QED
    BY <2>1, <2>2, <2>3, SessionBegins
<1>3. CASE \E d \in Dirs : Resume(d)
  <2> PICK d \in Dirs : Resume(d)
    BY <1>3
  <2>1. /\ dir' = d /\ messages' = lines[d] /\ total[d] # NoMeta
        /\ UNCHANGED <<inserted, dirs, diskVars, saved, save>>
        /\ \E s \in Savers : save[s].pc = "idle"
        /\ up => d # dir
    BY DEF Resume, ValidSession
  <2>2. \A s \in Savers : save[s].pc = "idle"
    <3>1. CASE up
      BY <2>1, <3>1 DEF SessionStays
    <3>2. CASE ~up
      BY <3>2 DEF IInv, DownEmpty
    <3> QED
      BY <3>1, <3>2
  <2>3. dir' <= dirs' /\ dirs' \in {dirs, dirs + 1}
    <3>1. ~(d > dirs)
      BY <2>1 DEF IInv, FreshDirs
    <3> QED
      BY <1>type, <2>1, <3>1
  <2> QED
    BY <2>1, <2>2, <2>3, SessionBegins
<1> QED
  BY <1>1, <1>2, <1>3

\* A process that does not run has no conversation and no saves.
LEMMA DownStep == DownEmpty /\ Next => DownEmpty'
<1> SUFFICES ASSUME DownEmpty, Next PROVE DownEmpty'
  OBVIOUS
<1>1. CASE Exit \/ Crash
  BY <1>1 DEF Exit, Crash, Down, DownEmpty, Idle
<1>2. CASE Restart \/ \E d \in Dirs : Resume(d)
  BY <1>2 DEF Restart, Resume, DownEmpty
<1>3. CASE AppendMessage \/ InsertMessage \/ NewSession
  BY <1>3 DEF AppendMessage, InsertMessage, NewSession, DownEmpty, sessionVars
<1>4. ASSUME NEW s \in Savers,
             StartSave(s) \/ ReadMeta(s) \/ AppendLine(s) \/ WriteMeta(s) \/ CancelSave(s)
      PROVE  DownEmpty'
  <2>1. up
    <3> SUFFICES ASSUME ~up PROVE FALSE
      OBVIOUS
    <3>1. save[s].pc = "idle"
      BY DEF DownEmpty
    <3> QED
      BY <1>4, <3>1 DEF StartSave, ReadMeta, AppendLine, WriteMeta, CancelSave
  <2>2. UNCHANGED up
    BY <1>4 DEF StartSave, ReadMeta, AppendLine, WriteMeta, CancelSave, sessionVars
  <2> QED
    BY <2>1, <2>2 DEF DownEmpty
<1> QED
  BY <1>1, <1>2, <1>3, <1>4 DEF Next

\* It holds at first.
LEMMA InitSound == Init => IInv
<1> SUFFICES ASSUME Init PROVE IInv
  OBVIOUS
<1>1. TypeOK /\ SaveReady
  BY StoreAssumption, EmptySeq
  DEF Init, TypeOK, SaveReady, Idle, SaveStates, Dirs, MessageIds, NoMeta
<1>2. (\A s \in Savers : SaveOK(s)) /\ DownEmpty
  BY DEF Init, Idle, SaveOK, DownEmpty
<1>3. Len(<<>>) = 0
  OBVIOUS
<1>4. PrefixSaved /\ CountFits /\ FreshDirs /\ MetaNeverAhead /\ NothingLost
  BY <1>3, StoreAssumption
  DEF Init, PrefixSaved, CountFits, FreshDirs, MetaNeverAhead, NothingLost, NoMeta, Dirs
<1> QED
  BY <1>1, <1>2, <1>4 DEF IInv

\* Every step that leaves a session only when no save is under way preserves it.
LEMMA StepSound == IInv /\ [Next]_vars /\ [SessionStays]_vars => IInv'
<1> SUFFICES ASSUME IInv, [Next]_vars, [SessionStays]_vars PROVE IInv'
  OBVIOUS
<1>1. TypeOK' /\ SaveReady'
  BY TypeStep DEF IInv
<1>2. CASE Next
  <2>0. SessionStays
    BY DEF SessionStays, vars
  <2>1. /\ \A s \in Savers : SaveOK(s)'
        /\ PrefixSaved' /\ CountFits' /\ FreshDirs' /\ MetaNeverAhead' /\ NothingLost'
    BY <1>1, <1>2, <2>0, RunningStep, RestartStep DEF Next
  <2> QED
    BY <1>1, <1>2, <2>1, DownStep DEF IInv
<1>3. CASE UNCHANGED vars
  BY <1>3 DEF vars, IInv, TypeOK, SaveReady, SaveOK, PrefixSaved, CountFits, DownEmpty,
              FreshDirs, MetaNeverAhead, NothingLost, Unsaved
<1> QED
  BY <1>2, <1>3

\* It is so with one saver and with one session.
LEMMA StaysAlone == SavesStay /\ IInv /\ [Next]_vars => [SessionStays]_vars
<1> SUFFICES ASSUME SavesStay, IInv, TypeOK', Next, dir' # dir, NEW s \in Savers
             PROVE  save[s].pc = "idle"
  BY TypeStep DEF SessionStays, vars, IInv
<1>1. MaxDirs # 1
  BY DEF IInv, TypeOK, Dirs
<1>2. CASE \E t \in Savers : save[t].pc = "idle"
  BY <1>1, <1>2 DEF SavesStay
<1>3. CASE Restart
  BY <1>3 DEF Restart, IInv, DownEmpty
<1> QED
  BY <1>2, <1>3 DEF Next, AppendMessage, InsertMessage, NewSession, StartSave, ReadMeta, AppendLine,
                    WriteMeta, CancelSave, Exit, Crash, Down, Resume, sessionVars

LEMMA Invariance == ASSUME SavesStay PROVE Spec => []IInv
<1>1. SavesStay
  OBVIOUS
<1>2. IInv /\ [Next]_vars => IInv'
  BY <1>1, StepSound, StaysAlone
<1> QED
  BY <1>2, InitSound, PTL DEF Spec

\* The metadata of a session never count more messages than its file has lines,
\* over saves that are cancelled or killed between the two writes.
THEOREM MetaBehind == ASSUME SavesStay PROVE Spec => []MetaNeverAhead
BY Invariance, PTL DEF IInv

\* What a save returned for is in the session's file, and stays there over
\* inserted responses, new sessions, crashes and resumed sessions.
THEOREM SavedIsDurable == ASSUME SavesStay PROVE Spec => []NothingLost
BY Invariance, PTL DEF IInv

-----------------------------------------------------------------------------
(* The run: both properties in its parts *)

\* With any number of savers there is one session.
PartRuns ==
  /\ part \in {"savers", "sessions"}
  /\ part = "savers" => dirs = 1 /\ dir = 1 /\ made \subseteq {1}

\* A step of either part leaves a session only when no save is under way.
LEMMA PartsStay ==
  ASSUME IInv, PartRuns, MCNext
  PROVE  PartRuns' /\ SessionStays
<1>0. /\ dir \in Dirs /\ dirs \in Dirs /\ part' = part /\ Next
      /\ part \in {"savers", "sessions"}
      /\ \A d \in Dirs : d \in Nat /\ d >= 1
  BY StoreAssumption DEF IInv, TypeOK, MCNext, Dirs, PartRuns
<1>1. CASE part = "savers"
  <2>1. dirs = 1 /\ dirs' = 1 /\ dir = 1 /\ made \subseteq {1}
    BY <1>1 DEF PartRuns, MCNext, OneSession
  <2>2. dir' = 1 /\ made' \subseteq {1}
    BY <1>0, <2>1
    DEF Next, AppendMessage, InsertMessage, NewSession, StartSave, ReadMeta, AppendLine, WriteMeta,
        CancelSave, Exit, Crash, Down, Restart, Resume, ValidSession, sessionVars, diskVars
  <2> QED
    BY <1>0, <2>1, <2>2 DEF PartRuns, SessionStays
<1>2. CASE part # "savers"
  <2>1. PartRuns'
    BY <1>0, <1>2 DEF PartRuns
  <2>2. SessionStays
    <3>1. CASE NoSave
      BY <3>1 DEF NoSave, SessionStays, Idle
    <3>2. CASE ~NoSave
      BY <1>0, <1>2, <3>2 DEF MCNext, SessionStays
    <3> QED
      BY <3>1, <3>2
  <2> QED
    BY <2>1, <2>2
<1> QED
  BY <1>1, <1>2

\* In the states and the steps of the run the invariant holds.
LEMMA PartsSound == MCSpec => [](IInv /\ PartRuns)
<1>1. MCInit => IInv /\ PartRuns
  BY InitSound, StoreAssumption DEF MCInit, Init, PartRuns
<1>2. IInv /\ PartRuns /\ [MCNext]_<<vars, part>> => (IInv /\ PartRuns)'
  <2> SUFFICES ASSUME IInv, PartRuns, [MCNext]_<<vars, part>> PROVE (IInv /\ PartRuns)'
    OBVIOUS
  <2>1. CASE MCNext
    BY <2>1, PartsStay, StepSound DEF MCNext
  <2>2. CASE UNCHANGED <<vars, part>>
    <3>1. IInv'
      BY <2>2, StepSound
    <3> QED
      BY <2>2, <3>1 DEF PartRuns, vars
  <2> QED
    BY <2>1, <2>2
<1> QED
  BY <1>1, <1>2, PTL DEF MCSpec

\* The metadata are never ahead of the file and nothing is lost, with savers that meet in
\* one session and with one save at a time over several.
THEOREM BothParts == MCSpec => [](MetaNeverAhead /\ NothingLost)
BY PartsSound, PTL DEF IInv

-----------------------------------------------------------------------------
(* One save at a time: OnceAlone and ImplementsLog *)

\* The first messages of a conversation, and the messages of a file.
Start(ms, n) == {ms[i] : i \in 1..n}
Real(ms) == ToSet(ms) \ {Torn}

\* A save that is at its file, and how much of what it has seen is there.
Writes(s) == save[s].pc \in {"append", "meta"}
Written(s) == Len(save[s].seen) - Len(save[s].batch)

\* The rest of what it has seen is to be appended, in the order of the conversation.
SaveAt(s) ==
  Writes(s) =>
    /\ dir \in made
    /\ Written(s) \in Nat
    /\ Start(messages, Written(s)) \subseteq ToSet(lines[dir])
    /\ \A i \in 1..Len(save[s].batch) : save[s].batch[i] = messages[Written(s) + i]

\* What the file of the session holds is the first part of the conversation.
FileIsPart ==
  up => \E n \in 0..Len(messages) : Real(lines[dir]) = Start(messages, n)

\* A session that has yet to begin has nothing on disk.
Unwritten == \A d \in Dirs : d > dirs => lines[d] = <<>>

\* Messages are numbered as they are created.
Numbered ==
  /\ \A x \in ToSet(messages) : x <= created
  /\ \A d \in Dirs : \A x \in ToSet(lines[d]) : x <= created

LogInv ==
  /\ inserted = {} /\ OneSave
  /\ Unwritten /\ Numbered /\ FileIsPart
  /\ \A s \in Savers : SaveAt(s)

\* A step of the run in this part, between states in which IInv holds.
SessionsNext == IInv /\ IInv' /\ Next /\ OneSave' /\ (NoSave \/ UNCHANGED <<dir, resumes>>)

\* Where the conversation only grows, its first messages stay.
LEMMA StartStays ==
  ASSUME NEW ms \in Seq(MessageIds), NEW more \in Seq(MessageIds), Len(ms) <= Len(more),
         \A i \in 1..Len(ms) : more[i] = ms[i],
         NEW n \in Int, n <= Len(ms)
  PROVE  Start(more, n) = Start(ms, n)
<1>1. Len(ms) \in Nat
  BY LenProperties
<1>2. \A i \in 1..n : i \in 1..Len(ms)
  BY <1>1
<1> QED
  BY <1>2 DEF Start

\* A save that rests is where it was, while the conversation grows.
LEMMA SaveAtStays ==
  ASSUME IInv, TypeOK', LogInv, NEW s \in Savers, save'[s] = save[s],
         UNCHANGED <<dir, lines>>, made \subseteq made',
         Len(messages) <= Len(messages'), \A i \in 1..Len(messages) : messages'[i] = messages[i]
  PROVE  SaveAt(s)'
<1>1. /\ SaveAt(s) /\ SaveOK(s) /\ messages \in Seq(MessageIds) /\ messages' \in Seq(MessageIds)
      /\ dir' = dir /\ lines' = lines
  BY DEF LogInv, IInv, TypeOK
<1>2. Len(messages) \in Nat /\ Len(messages') \in Nat
      /\ Len(save[s].seen) \in Nat /\ Len(save[s].batch) \in Nat
  BY <1>1, LenProperties DEF IInv, TypeOK, SaveStates
<1>3. SUFFICES ASSUME Writes(s)
               PROVE  /\ Start(messages', Written(s)) \subseteq ToSet(lines[dir])
                      /\ \A i \in 1..Len(save[s].batch) :
                           save[s].batch[i] = messages'[Written(s) + i]
  BY <1>1 DEF SaveAt, Writes, Written
<1>4. /\ Written(s) \in Nat /\ Len(save[s].seen) <= Len(messages)
      /\ Start(messages, Written(s)) \subseteq ToSet(lines[dir])
      /\ \A i \in 1..Len(save[s].batch) : save[s].batch[i] = messages[Written(s) + i]
  BY <1>1, <1>3 DEF SaveAt, SaveOK, Writes
<1>5. Written(s) + Len(save[s].batch) = Len(save[s].seen)
  BY <1>2 DEF Written
<1>6. Start(messages', Written(s)) = Start(messages, Written(s))
  <2>1. Written(s) <= Len(messages)
    BY <1>2, <1>4, <1>5
  <2> QED
    BY <1>1, <1>4, <2>1, StartStays
<1>7. ASSUME NEW i \in 1..Len(save[s].batch)
      PROVE  save[s].batch[i] = messages'[Written(s) + i]
  <2>1. Written(s) + i \in 1..Len(messages)
    BY <1>2, <1>4, <1>5
  <2> QED
    BY <1>4, <2>1
<1> QED
  BY <1>2, <1>4, <1>6, <1>7

\* A message that is appended.
LEMMA AppendSound ==
  ASSUME SessionsNext, LogInv, AppendMessage
  PROVE  Unwritten' /\ Numbered' /\ FileIsPart' /\ \A s \in Savers : SaveAt(s)'
<1>1. /\ messages \in Seq(MessageIds) /\ messages' \in Seq(MessageIds) /\ created \in Nat
      /\ created + 1 \in MessageIds
      /\ messages' = Append(messages, created + 1) /\ created' = created + 1 /\ up
      /\ lines' = lines /\ made' = made /\ save' = save
      /\ dir' = dir /\ dirs' = dirs /\ up' = up
      /\ \A d \in Dirs : ToSet(lines[d]) \subseteq Int
  <2>1. \A d \in Dirs : ToSet(lines[d]) \subseteq Int
    <3> SUFFICES ASSUME NEW d \in Dirs PROVE ToSet(lines[d]) \subseteq MessageIds \union {Torn}
      BY DEF MessageIds, Torn
    <3>1. lines[d] \in Seq(MessageIds \union {Torn})
      BY DEF SessionsNext, IInv, TypeOK
    <3> QED
      BY <3>1, LenProperties, ElementOfSeq DEF ToSet
  <2> QED
    BY <2>1, StoreAssumption
    DEF AppendMessage, SessionsNext, IInv, TypeOK, diskVars, sessionVars, MessageIds
<1>2. /\ Len(messages) \in Nat /\ Len(messages') = Len(messages) + 1
      /\ \A i \in 1..Len(messages) : messages'[i] = messages[i]
      /\ ToSet(messages') = ToSet(messages) \union {created + 1}
  BY <1>1, AppendProperties, LenProperties, RangeAppend
<1>3. Unwritten'
  BY <1>1 DEF LogInv, Unwritten
<1>4. Numbered'
  <2>1. ToSet(messages) \subseteq MessageIds
    BY <1>1, LenProperties, ElementOfSeq DEF ToSet
  <2>2. Numbered
    BY DEF LogInv
  <2>3. ASSUME NEW x \in Int, x <= created PROVE x <= created + 1
    BY <1>1, <2>3
  <2>4. \A x \in ToSet(messages') : x <= created + 1
    BY <1>1, <1>2, <2>1, <2>2, <2>3 DEF Numbered, MessageIds
  <2>5. \A d \in Dirs : \A x \in ToSet(lines[d]) : x <= created + 1
    BY <1>1, <2>2, <2>3 DEF Numbered
  <2> QED
    BY <1>1, <2>4, <2>5 DEF Numbered
<1>5. FileIsPart'
  <2>1. PICK n \in 0..Len(messages) : Real(lines[dir]) = Start(messages, n)
    BY <1>1 DEF LogInv, FileIsPart
  <2>2. n \in Int /\ n <= Len(messages) /\ n \in 0..Len(messages') /\ Len(messages) <= Len(messages')
    BY <1>2, <2>1
  <2>3. Start(messages', n) = Start(messages, n)
    BY <1>1, <1>2, <2>2, StartStays
  <2> QED
    BY <1>1, <2>1, <2>2, <2>3 DEF FileIsPart
<1>6. ASSUME NEW s \in Savers PROVE SaveAt(s)'
  <2>1. Len(messages) <= Len(messages') /\ made \subseteq made'
    BY <1>1, <1>2
  <2> QED
    BY <1>1, <1>2, <2>1, SaveAtStays DEF SessionsNext, IInv
<1> QED
  BY <1>3, <1>4, <1>5, <1>6

\* A step that leaves the conversation and the files alone.
LEMMA PartStays ==
  ASSUME LogInv, UNCHANGED <<messages, created, lines, dir, dirs, up>>
  PROVE  Unwritten' /\ Numbered' /\ FileIsPart'
BY DEF LogInv, Unwritten, Numbered, FileIsPart

\* Of the others none is under way.
LEMMA OthersIdle ==
  ASSUME LogInv, NEW s \in Savers, save[s] # Idle, NEW t \in Savers, t # s
  PROVE  save[t] = Idle
BY DEF LogInv, OneSave

\* A save that takes what is new.
LEMMA CollectAt ==
  ASSUME SessionsNext, LogInv, NEW s \in Savers, NEW old \in Nat, Collect(s, old),
         Start(messages, old) \subseteq ToSet(lines[dir]),
         UNCHANGED <<messages, created, lines, dir, dirs, up>>, made \subseteq made'
  PROVE  Unwritten' /\ Numbered' /\ FileIsPart' /\ \A t \in Savers : SaveAt(t)'
<1>1. /\ save \in [Savers -> SaveStates] /\ messages \in Seq(MessageIds)
      /\ Len(messages) \in Nat /\ messages' = messages /\ lines' = lines /\ dir' = dir
  BY LenProperties DEF SessionsNext, IInv, TypeOK
<1>2. ASSUME NEW t \in Savers, t # s PROVE SaveAt(t)'
  <2>1. save'[t] = save[t]
    BY <1>1, <1>2 DEF Collect
  <2>2. Len(messages) <= Len(messages') /\ \A i \in 1..Len(messages) : messages'[i] = messages[i]
    BY <1>1
  <2> QED
    BY <1>1, <2>1, <2>2, SaveAtStays DEF SessionsNext, IInv
<1>3. SaveAt(s)'
  <2>1. CASE Unsaved(old) # <<>> /\ dir \in made'
    <3> DEFINE new == [pc |-> "append", batch |-> Unsaved(old), to |-> dir,
                       seen |-> messages, meta |-> dir]
    <3>1. save'[s] = new
      BY <1>1, <2>1 DEF Collect
    <3>2. new.seen = messages /\ new.batch = Unsaved(old)
      OBVIOUS
    <3> HIDE DEF new
    <3>3. Len(Unsaved(old)) = Len(messages) - old
          /\ \A i \in 1..Len(Unsaved(old)) : Unsaved(old)[i] = messages[old + i]
      BY <1>1, <2>1, UnsavedType
    <3>4. Written(s)' = old
      BY <1>1, <3>1, <3>2, <3>3 DEF Written
    <3> QED
      BY <1>1, <2>1, <3>1, <3>2, <3>3, <3>4 DEF SaveAt
  <2>2. CASE ~(Unsaved(old) # <<>> /\ dir \in made')
    <3>1. save'[s] = Idle
      BY <1>1, <2>2 DEF Collect
    <3> QED
      BY <3>1 DEF SaveAt, Writes, Idle
  <2> QED
    BY <2>1, <2>2
<1> QED
  BY <1>2, <1>3, PartStays

\* What the metadata count is in the file.
LEMMA CountedIsThere ==
  ASSUME IInv, LogInv, up
  PROVE  Start(messages, total[dir]) \subseteq ToSet(lines[dir])
<1>1. /\ PrefixSaved /\ total[dir] <= Len(messages) /\ inserted = {}
  BY DEF IInv, LogInv, CountFits
<1>2. Len(messages) \in Nat /\ total[dir] \in Int
  BY LenProperties DEF IInv, TypeOK, NoMeta
<1> QED
  BY <1>1, <1>2 DEF PrefixSaved, Start

\* A save begins, reads the metadata, writes them, or is cancelled.
LEMMA SaveMoves ==
  ASSUME SessionsNext, LogInv, NEW s \in Savers,
         StartSave(s) \/ ReadMeta(s) \/ WriteMeta(s) \/ CancelSave(s)
  PROVE  Unwritten' /\ Numbered' /\ FileIsPart' /\ \A t \in Savers : SaveAt(t)'
<1>1. /\ save \in [Savers -> SaveStates] /\ messages \in Seq(MessageIds)
      /\ Len(messages) \in Nat /\ made \subseteq made'
      /\ UNCHANGED <<messages, created, lines, dir, dirs, up>>
  BY LenProperties
  DEF SessionsNext, IInv, TypeOK, StartSave, ReadMeta, WriteMeta, CancelSave, memVars, diskVars,
      sessionVars
<1>2. ASSUME NEW old \in Nat, Collect(s, old), Start(messages, old) \subseteq ToSet(lines[dir])
      PROVE  Unwritten' /\ Numbered' /\ FileIsPart' /\ \A t \in Savers : SaveAt(t)'
  BY <1>1, <1>2, CollectAt
<1>3. ASSUME ~Writes(s)', \A t \in Savers : t # s => save'[t] = save[t]
      PROVE  Unwritten' /\ Numbered' /\ FileIsPart' /\ \A t \in Savers : SaveAt(t)'
  <2>1. ASSUME NEW t \in Savers, t # s PROVE SaveAt(t)'
    <3>1. /\ save'[t] = save[t] /\ UNCHANGED <<dir, lines>> /\ Len(messages) <= Len(messages')
          /\ \A i \in 1..Len(messages) : messages'[i] = messages[i]
      BY <1>1, <1>3, <2>1
    <3> QED
      BY <1>1, <3>1, SaveAtStays DEF SessionsNext, IInv
  <2>2. SaveAt(s)'
    BY <1>3 DEF SaveAt
  <2> QED
    BY <1>1, <2>1, <2>2, PartStays
<1>4. CASE StartSave(s)
  <2>1. CASE total[dir] = NoMeta
    <3>1. Collect(s, 0) /\ Start(messages, 0) = {}
      BY <1>4, <2>1 DEF StartSave, Start
    <3> QED
      BY <1>2, <3>1
  <2>2. CASE total[dir] # NoMeta
    <3>1. save' = [save EXCEPT ![s] = [Idle EXCEPT !.pc = "read", !.to = dir]]
      BY <1>4, <2>2 DEF StartSave
    <3> QED
      BY <1>1, <1>3, <3>1 DEF Writes, Idle
  <2> QED
    BY <2>1, <2>2
<1>5. CASE ReadMeta(s)
  <2>1. /\ save[s].pc = "read" /\ save[s].to = dir /\ total[dir] \in Nat /\ up
        /\ Collect(s, total[dir])
    <3>1. save[s].pc = "read" /\ SaveOK(s) /\ total[save[s].to] # NoMeta /\ DownEmpty
      BY <1>5 DEF ReadMeta, SessionsNext, IInv, SaveReady
    <3>2. save[s].to = dir /\ up
      BY <3>1 DEF SaveOK, DownEmpty
    <3>3. total[dir] \in Nat
      BY <3>1, <3>2 DEF SessionsNext, IInv, TypeOK
    <3> QED
      BY <1>5, <3>1, <3>2, <3>3 DEF ReadMeta
  <2> QED
    BY <1>2, <2>1, CountedIsThere DEF SessionsNext
<1>6. CASE WriteMeta(s) \/ CancelSave(s)
  <2>1. save' = [save EXCEPT ![s] = Idle]
    BY <1>6 DEF WriteMeta, CancelSave
  <2> QED
    BY <1>1, <1>3, <2>1 DEF Writes, Idle
<1> QED
  BY <1>4, <1>5, <1>6

\* A line more is one more of what the save has seen.
LEMMA WrittenGrows ==
  ASSUME IInv, NEW s \in Savers, AppendLine(s)
  PROVE  Written(s)' = Written(s) + 1
<1> DEFINE b == save[s].batch
           p == IF Len(b) = 1 THEN "meta" ELSE "append"
           new == [save[s] EXCEPT !.batch = Tail(b), !.pc = p, !.meta = dir]
<1>1. /\ save \in [Savers -> SaveStates] /\ save[s] \in SaveStates /\ b # <<>>
      /\ b \in Seq(MessageIds) /\ save[s].seen \in Seq(MessageIds)
  BY DEF AppendLine, IInv, SaveReady, TypeOK, SaveStates
<1>2. save'[s] = new
  BY <1>1 DEF AppendLine
<1> HIDE DEF p
<1>3. new.batch = Tail(b) /\ new.seen = save[s].seen
  BY <1>1 DEF SaveStates
<1> HIDE DEF new
<1>4. Len(Tail(b)) = Len(b) - 1 /\ Len(b) \in Nat /\ Len(save[s].seen) \in Nat
  BY <1>1, HeadTailProperties, LenProperties
<1>5. Written(s)' = Len(save[s].seen) - Len(Tail(b)) /\ Written(s) = Len(save[s].seen) - Len(b)
  BY <1>2, <1>3 DEF Written
<1>6. Len(save[s].seen) - (Len(b) - 1) = (Len(save[s].seen) - Len(b)) + 1
  BY <1>4
<1>7. Len(Tail(b)) = Len(b) - 1
  BY <1>4
<1> QED
  BY <1>5, <1>6, <1>7, Zenon

\* A line that is appended is the next message of the conversation that the file does not
\* have, or one that it has.
LEMMA NextLine ==
  ASSUME SessionsNext, LogInv, NEW s \in Savers, AppendLine(s)
  PROVE  \E k \in 1..Len(messages) :
           /\ k = Written(s) + 1 /\ messages[k] = Head(save[s].batch)
           /\ messages[k] \in MessageIds
           /\ lines' = [lines EXCEPT ![dir] = Append(@, messages[k])]
           /\ Start(messages, k - 1) \subseteq ToSet(lines[dir])
           /\ messages[k] \notin ToSet(lines[dir]) =>
                Real(lines[dir]) = Start(messages, k - 1)
<1> DEFINE b == save[s].batch
           k == Written(s) + 1
<1>1. /\ SaveOK(s) /\ SaveAt(s) /\ save[s].pc = "append" /\ up /\ b # <<>> /\ dir \in Dirs
      /\ messages \in Seq(MessageIds) /\ b \in Seq(MessageIds) /\ save[s].seen \in Seq(MessageIds)
      /\ lines[dir] \in Seq(MessageIds \union {Torn})
  BY DEF AppendLine, SessionsNext, LogInv, IInv, SaveReady, DownEmpty, TypeOK, SaveStates
<1>2. /\ Len(b) \in Nat /\ Len(b) # 0 /\ Len(messages) \in Nat /\ Len(save[s].seen) \in Nat
      /\ Head(b) = b[1]
  BY <1>1, LenProperties, EmptySeq
<1>3. /\ Written(s) \in Nat /\ Len(save[s].seen) <= Len(messages) /\ save[s].to = dir
      /\ Start(messages, Written(s)) \subseteq ToSet(lines[dir])
      /\ \A i \in 1..Len(b) : b[i] = messages[Written(s) + i]
  BY <1>1 DEF SaveAt, SaveOK, Writes
<1>4. k \in 1..Len(messages) /\ k - 1 = Written(s)
  BY <1>2, <1>3 DEF Written
<1>5. messages[k] = Head(b) /\ messages[k] \in MessageIds
  BY <1>1, <1>2, <1>3, <1>4, ElementOfSeq
<1>6. lines' = [lines EXCEPT ![dir] = Append(@, messages[k])]
  BY <1>3, <1>5 DEF AppendLine
<1> HIDE DEF k, b
<1>7. ASSUME messages[k] \notin ToSet(lines[dir])
      PROVE  Real(lines[dir]) = Start(messages, k - 1)
  <2>1. PICK n \in 0..Len(messages) : Real(lines[dir]) = Start(messages, n)
    BY <1>1 DEF LogInv, FileIsPart
  <2>2. ~(k <= n)
    <3> SUFFICES ASSUME k <= n PROVE FALSE
      OBVIOUS
    <3>1. k \in 1..n
      BY <1>4, <2>1
    <3>2. messages[k] \in Start(messages, n)
      BY <3>1 DEF Start
    <3> QED
      BY <1>7, <2>1, <3>2 DEF Real
  <2>3. \A i \in 1..n : i \in 1..(k - 1)
    BY <1>4, <2>1, <2>2
  <2>4. Start(messages, n) \subseteq Start(messages, k - 1)
    BY <2>3 DEF Start
  <2>5. Start(messages, k - 1) \subseteq Real(lines[dir])
    <3>1. \A i \in 1..(k - 1) : i \in 1..Len(messages)
      BY <1>2, <1>4
    <3>2. \A i \in 1..(k - 1) : messages[i] \in MessageIds
      BY <1>1, <3>1, ElementOfSeq
    <3>3. Torn \notin MessageIds
      BY DEF Torn, MessageIds
    <3> QED
      BY <1>3, <1>4, <3>2, <3>3 DEF Start, Real
  <2> QED
    BY <2>1, <2>4, <2>5
<1> QED
  BY <1>3, <1>4, <1>5, <1>6, <1>7 DEF k, b

\* Once it is there the file holds one message more, or what it held.
LEMMA LineSound ==
  ASSUME SessionsNext, LogInv, NEW s \in Savers, AppendLine(s)
  PROVE  Unwritten' /\ Numbered' /\ FileIsPart' /\ \A t \in Savers : SaveAt(t)'
<1>1. PICK k \in 1..Len(messages) :
        /\ k = Written(s) + 1 /\ messages[k] = Head(save[s].batch)
        /\ messages[k] \in MessageIds
        /\ lines' = [lines EXCEPT ![dir] = Append(@, messages[k])]
        /\ Start(messages, k - 1) \subseteq ToSet(lines[dir])
        /\ messages[k] \notin ToSet(lines[dir]) =>
             Real(lines[dir]) = Start(messages, k - 1)
  BY NextLine
<1>2. /\ TypeOK /\ IInv /\ SaveOK(s) /\ SaveAt(s) /\ save[s].pc = "append" /\ up
      /\ dir \in Dirs /\ dirs \in Dirs /\ dir <= dirs /\ save[s].batch # <<>>
      /\ save[s].batch \in Seq(MessageIds) /\ save[s].seen \in Seq(MessageIds)
      /\ save \in [Savers -> SaveStates] /\ messages \in Seq(MessageIds)
  BY DEF AppendLine, SessionsNext, LogInv, IInv, SaveReady, DownEmpty, FreshDirs, TypeOK, SaveStates
<1>3. /\ UNCHANGED <<messages, created, made, dir, dirs, up>>
      /\ ToSet(lines'[dir]) = ToSet(lines[dir]) \union {messages[k]}
      /\ \A d \in Dirs : d # dir => lines'[d] = lines[d]
  BY <1>1, <1>2, LineGrows DEF AppendLine, memVars, sessionVars, TypeOK
<1>4. Len(messages) \in Nat /\ k \in Nat /\ k # 0
  BY <1>2, LenProperties
<1>5. Unwritten'
  <2> SUFFICES ASSUME NEW d \in Dirs, d > dirs PROVE lines'[d] = <<>>
    BY <1>3 DEF Unwritten
  <2> d # dir
    BY <1>2, StoreAssumption DEF Dirs
  <2> QED
    BY <1>3 DEF LogInv, Unwritten
<1>6. Numbered'
  <2>1. messages[k] \in ToSet(messages)
    BY <1>2, LenProperties DEF ToSet
  <2> QED
    BY <1>3, <2>1 DEF LogInv, Numbered
<1>7. Start(messages, k) = Start(messages, k - 1) \union {messages[k]}
  <2>1. \A i : i \in 1..k <=> i \in 1..(k - 1) \/ i = k
    BY <1>4
  <2> QED
    BY <2>1 DEF Start
<1>8. FileIsPart'
  <2>1. CASE messages[k] \in ToSet(lines[dir])
    <3>1. ToSet(lines'[dir]) = ToSet(lines[dir])
      BY <1>3, <2>1
    <3> QED
      BY <1>3, <3>1 DEF LogInv, FileIsPart, Real
  <2>2. CASE messages[k] \notin ToSet(lines[dir])
    <3>1. messages[k] # Torn
      BY <1>1 DEF MessageIds, Torn
    <3>2. Real(lines'[dir]) = Start(messages, k)
      BY <1>1, <1>3, <1>7, <2>2, <3>1 DEF Real
    <3>3. k \in 0..Len(messages)
      BY <1>4
    <3> QED
      BY <1>3, <3>2, <3>3 DEF FileIsPart
  <2> QED
    BY <2>1, <2>2
<1>9. ASSUME NEW t \in Savers, t # s PROVE SaveAt(t)'
  <2>1. save[s] # Idle
    BY <1>2 DEF Idle
  <2>2. save'[t] = Idle
    BY <1>2, <1>9, <2>1, OthersIdle DEF AppendLine
  <2> QED
    BY <2>2 DEF SaveAt, Writes, Idle
<1>10. SaveAt(s)'
  <2> DEFINE b == save[s].batch
             p == IF Len(b) = 1 THEN "meta" ELSE "append"
             new == [save[s] EXCEPT !.batch = Tail(b), !.pc = p, !.meta = dir]
  <2>1. save'[s] = new
    BY <1>2 DEF AppendLine
  <2> HIDE DEF p
  <2>2. new.batch = Tail(b) /\ new.seen = save[s].seen
    BY <1>2 DEF SaveStates
  <2> HIDE DEF new
  <2>3. /\ Len(Tail(b)) = Len(b) - 1 /\ Len(b) \in Nat /\ Len(save[s].seen) \in Nat
        /\ \A i \in 1..Len(b) - 1 : Tail(b)[i] = b[i + 1]
    BY <1>2, HeadTailProperties, LenProperties
  <2>4. /\ Written(s) \in Nat /\ dir \in made
        /\ \A i \in 1..Len(b) : b[i] = messages[Written(s) + i]
    BY <1>2 DEF SaveAt, Writes
  <2>5. Written(s)' = k
    <3>1. Written(s)' = Written(s) + 1
      BY <1>2, WrittenGrows
    <3> QED
      BY <1>1, <3>1
  <2>6. Start(messages, k) \subseteq ToSet(lines'[dir])
    BY <1>1, <1>3, <1>7
  <2>7. ASSUME NEW i \in 1..Len(Tail(b)) PROVE Tail(b)[i] = messages[k + i]
    <3>0. k = Written(s) + 1 /\ Written(s) \in Nat /\ Len(Tail(b)) = Len(b) - 1 /\ Len(b) \in Nat
      BY <1>1, <2>3, <2>4
    <3>1. i + 1 \in 1..Len(b) /\ Written(s) + (i + 1) = k + i
      BY <3>0
    <3> QED
      BY <2>3, <2>4, <3>1
  <2> QED
    BY <1>3, <1>4, <2>1, <2>2, <2>4, <2>5, <2>6, <2>7 DEF SaveAt
<1> QED
  BY <1>5, <1>6, <1>8, <1>9, <1>10

\* Where a session begins or is resumed its file holds nothing or the conversation.
LEMMA BeginsSound ==
  ASSUME SessionsNext, LogInv, UNCHANGED <<lines, save, up>> \/ (UNCHANGED <<lines, save>> /\ up'),
         \A s \in Savers : save[s].pc = "idle",
         dirs \in Int, dirs' \in {dirs, dirs + 1},
         lines[dir'] = <<>> \/ (messages' = lines[dir'] /\ messages' \in Seq(MessageIds)),
         \A x \in ToSet(messages') : x <= created',
         created' \in {created, created + 1}, created \in Int
  PROVE  Unwritten' /\ Numbered' /\ FileIsPart' /\ \A s \in Savers : SaveAt(s)'
<1>1. lines' = lines /\ save' = save /\ dir' \in Dirs /\ messages' \in Seq(MessageIds)
      /\ \A d \in Dirs : d \in Int /\ ToSet(lines[d]) \subseteq Int
  <2>1. ASSUME NEW d \in Dirs PROVE d \in Int /\ ToSet(lines[d]) \subseteq Int
    <3>1. lines[d] \in Seq(MessageIds \union {Torn})
      BY DEF SessionsNext, IInv, TypeOK
    <3>2. ToSet(lines[d]) \subseteq MessageIds \union {Torn}
      BY <3>1, LenProperties, ElementOfSeq DEF ToSet
    <3> QED
      BY <3>2, StoreAssumption DEF MessageIds, Torn, Dirs
  <2> QED
    BY <2>1 DEF SessionsNext, IInv, TypeOK
<1>2. Unwritten'
  <2> SUFFICES ASSUME NEW d \in Dirs, d > dirs' PROVE lines[d] = <<>>
    BY <1>1 DEF Unwritten
  <2> d > dirs
    BY <1>1
  <2> QED
    BY DEF LogInv, Unwritten
<1>3. Numbered'
  <2>1. ASSUME NEW d \in Dirs, NEW x \in ToSet(lines[d]) PROVE x <= created'
    <3>1. x \in Int /\ x <= created
      BY <1>1, <2>1 DEF LogInv, Numbered
    <3> QED
      BY <3>1
  <2> QED
    BY <1>1, <2>1 DEF Numbered
<1>4. FileIsPart'
  <2> SUFFICES \E n \in 0..Len(messages') : Real(lines[dir']) = Start(messages', n)
    BY <1>1 DEF FileIsPart
  <2>1. Len(messages') \in Nat
    BY <1>1, LenProperties
  <2>2. CASE lines[dir'] = <<>>
    <3>1. Real(lines[dir']) = {} /\ Start(messages', 0) = {}
      BY <2>2 DEF Real, ToSet, Start
    <3> QED
      BY <2>1, <3>1
  <2>3. CASE messages' = lines[dir']
    <3>1. ToSet(messages') = Start(messages', Len(messages')) /\ ToSet(messages') \subseteq MessageIds
      BY <1>1, LenProperties, ElementOfSeq DEF ToSet, Start
    <3>2. Torn \notin MessageIds
      BY DEF Torn, MessageIds
    <3>3. Real(messages') = Start(messages', Len(messages'))
      BY <3>1, <3>2 DEF Real
    <3> QED
      BY <2>1, <2>3, <3>3
  <2> QED
    BY <2>2, <2>3
<1>5. \A s \in Savers : SaveAt(s)'
  BY <1>1 DEF SaveAt, Writes
<1> QED
  BY <1>2, <1>3, <1>4, <1>5

\* The first part of a sequence has the elements that are there, each in its place.
LEMMA FirstPart ==
  ASSUME NEW S, NEW seq \in Seq(S), NEW n \in 0..Len(seq)
  PROVE  /\ SubSeq(seq, 1, n) \in Seq(S) /\ Len(SubSeq(seq, 1, n)) = n
         /\ DOMAIN SubSeq(seq, 1, n) = 1..n
         /\ \A i \in 1..n : SubSeq(seq, 1, n)[i] = seq[i] /\ i \in 1..Len(seq)
<1>1. Len(seq) \in Nat /\ n \in Nat /\ n <= Len(seq)
  BY LenProperties
<1>2. \A i \in 1..n : i \in 1..Len(seq)
  BY <1>1
<1>3. \A i \in 1..n : seq[i] \in S
  BY <1>2, ElementOfSeq
<1>4. 1 \in Int /\ n \in Int
  BY <1>1
<1> DEFINE part1 == SubSeq(seq, 1, n)
<1>5. /\ part1 \in Seq(S)
      /\ Len(part1) = IF 1 <= n THEN n - 1 + 1 ELSE 0
      /\ \A i \in 1..n - 1 + 1 : part1[i] = seq[1 + i - 1]
  BY <1>3, <1>4, SubSeqProperties
<1> HIDE DEF part1
<1>6. Len(part1) = n
  BY <1>1, <1>5
<1>7. \A i \in 1..n : part1[i] = seq[i]
  <2> SUFFICES ASSUME NEW i \in 1..n PROVE part1[i] = seq[i]
    OBVIOUS
  <2>1. i \in 1..n - 1 + 1 /\ 1 + i - 1 = i
    BY <1>1
  <2>2. part1[i] = seq[1 + i - 1]
    BY <1>5, <2>1
  <2> QED BY <2>1, <2>2
<1>8. DOMAIN part1 = 1..n
  BY <1>5, <1>6, LenProperties
<1> QED
  BY <1>2, <1>5, <1>6, <1>7, <1>8 DEF part1

\* What a conversation keeps is of it, or is new.
LEMMA KeptIs ==
  ASSUME TypeOK, NEW m, Kept(m)
  PROVE  /\ created \in Int /\ created' \in {created, created + 1}
         /\ \/ created' = created /\ ToSet(m) \subseteq ToSet(messages)
            \/ created' = created + 1 /\ ToSet(m) = {created + 1}
<1>1. created \in Int /\ messages \in Seq(MessageIds)
  BY DEF TypeOK
<1>2. ASSUME NEW n \in 0..Len(messages), m = SubSeq(messages, 1, n)
      PROVE  ToSet(m) \subseteq ToSet(messages)
  <2>1. DOMAIN m = 1..n /\ \A i \in 1..n : m[i] = messages[i] /\ i \in 1..Len(messages)
    BY <1>1, <1>2, FirstPart
  <2> QED
    BY <1>1, <2>1, LenProperties DEF ToSet
<1>3. ASSUME m = <<created + 1>> PROVE ToSet(m) = {created + 1}
  BY <1>3 DEF ToSet
<1> QED
  BY <1>1, <1>2, <1>3 DEF Kept

\* The log of one save at a time is kept by every step.
LEMMA LogStep ==
  ASSUME SessionsNext, LogInv
  PROVE  LogInv'
<1>1. /\ TypeOK /\ IInv /\ created \in Nat /\ dirs \in Int /\ messages \in Seq(MessageIds)
      /\ \A d \in Dirs : d \in Int
  <2>1. TypeOK /\ IInv
    BY DEF SessionsNext, IInv
  <2>2. created \in Nat /\ dirs \in Int /\ \A d \in Dirs : d \in Int
    BY <2>1, StoreAssumption DEF TypeOK, Dirs
  <2> QED
    BY <2>1, <2>2 DEF TypeOK
<1>2. inserted' = {} /\ OneSave'
  BY DEF SessionsNext, OneSave
<1>3. SUFFICES Unwritten' /\ Numbered' /\ FileIsPart' /\ \A s \in Savers : SaveAt(s)'
  BY <1>2 DEF LogInv
<1>4. CASE AppendMessage
  BY <1>4, AppendSound
<1>5. CASE InsertMessage
  <2> created + 1 \in inserted'
    BY <1>5 DEF InsertMessage
  <2> QED
    BY <1>2
<1>6. CASE \E s \in Savers : StartSave(s) \/ ReadMeta(s) \/ WriteMeta(s) \/ CancelSave(s)
  BY <1>6, SaveMoves
<1>7. CASE \E s \in Savers : AppendLine(s)
  BY <1>7, LineSound
<1>8. CASE Exit \/ Crash
  <2>1. /\ messages' = <<>> /\ up' = FALSE /\ save' = [s \in Savers |-> Idle]
        /\ UNCHANGED <<created, dir, dirs>>
    BY <1>8 DEF Exit, Crash, Down
  <2>2. /\ \A d \in Dirs : ToSet(lines'[d]) \subseteq ToSet(lines[d]) \union {Torn}
        /\ \A d \in Dirs : d > dirs => lines'[d] = lines[d]
    <3>1. CASE UNCHANGED lines
      BY <3>1
    <3>2. ASSUME NEW s \in Savers, save[s].pc = "append",
                 lines' = [lines EXCEPT ![save[s].to] = Append(@, Torn)]
          PROVE  /\ \A d \in Dirs : ToSet(lines'[d]) \subseteq ToSet(lines[d]) \union {Torn}
                 /\ \A d \in Dirs : d > dirs => lines'[d] = lines[d]
      <4>1. SaveOK(s) /\ dir \in Dirs /\ dir <= dirs
        BY <1>1 DEF IInv, TypeOK, FreshDirs
      <4>2. save[s].to = dir
        BY <3>2, <4>1 DEF SaveOK
      <4>3. \A d \in Dirs : d # dir => lines'[d] = lines[d]
        BY <1>1, <3>2, <4>2 DEF TypeOK
      <4>4. ToSet(lines'[dir]) = ToSet(lines[dir]) \union {Torn}
        BY <1>1, <3>2, <4>1, <4>2, LineGrows
      <4>5. \A d \in Dirs : d > dirs => d # dir
        BY <1>1, <4>1
      <4> QED
        BY <4>3, <4>4, <4>5
    <3> QED
      BY <1>8, <3>1, <3>2 DEF Exit, Crash
  <2>3. Unwritten'
    BY <2>1, <2>2 DEF LogInv, Unwritten
  <2>4. Numbered'
    <3>1. Torn <= created /\ ToSet(<<>>) = {}
      BY <1>1 DEF Torn, ToSet
    <3> QED
      BY <2>1, <2>2, <3>1 DEF LogInv, Numbered
  <2>5. FileIsPart'
    BY <2>1 DEF FileIsPart
  <2>6. \A s \in Savers : SaveAt(s)'
    BY <2>1 DEF SaveAt, Writes, Idle
  <2> QED
    BY <2>3, <2>4, <2>5, <2>6
<1>9. CASE NewSession
  <2>1. /\ dir' = dirs + 1 /\ dirs' = dirs + 1 /\ up /\ UNCHANGED <<lines, save, up>>
        /\ Kept(messages')
    BY <1>9 DEF NewSession, diskVars
  <2>2. dir' \in Dirs /\ dir' # dir /\ dir' > dirs
    BY <1>1, <2>1 DEF SessionsNext, IInv, TypeOK, FreshDirs
  <2>3. \A s \in Savers : save[s].pc = "idle"
    BY <2>2 DEF SessionsNext, NoSave, Idle
  <2>4. lines[dir'] = <<>>
    BY <2>2 DEF LogInv, Unwritten
  <2>5. \A x \in ToSet(messages') : x <= created'
    <3>1. CASE created' = created /\ ToSet(messages') \subseteq ToSet(messages)
      BY <3>1 DEF LogInv, Numbered
    <3>2. CASE created' = created + 1 /\ ToSet(messages') = {created + 1}
      BY <1>1, <3>2
    <3> QED
      BY <1>1, <2>1, <3>1, <3>2, KeptIs
  <2>6. created' \in {created, created + 1} /\ dirs' \in {dirs, dirs + 1}
    BY <1>1, <2>1, KeptIs
  <2> QED
    BY <1>1, <2>1, <2>3, <2>4, <2>5, <2>6, BeginsSound
<1>10. CASE Restart
  <2>1. /\ dir' = dirs + 1 /\ dirs' = dirs + 1 /\ ~up /\ up'
        /\ UNCHANGED <<lines, save, messages, created>>
    BY <1>10 DEF Restart, memVars, diskVars
  <2>2. dir' \in Dirs /\ dir' > dirs
    BY <1>1, <2>1 DEF SessionsNext, IInv, TypeOK
  <2>3. \A s \in Savers : save[s].pc = "idle"
    BY <1>1, <2>1 DEF IInv, DownEmpty
  <2>4. lines[dir'] = <<>>
    BY <2>2 DEF LogInv, Unwritten
  <2>5. \A x \in ToSet(messages') : x <= created'
    BY <2>1 DEF LogInv, Numbered
  <2> QED
    BY <1>1, <2>1, <2>3, <2>4, <2>5, BeginsSound
<1>11. ASSUME NEW d \in Dirs, Resume(d)
       PROVE  Unwritten' /\ Numbered' /\ FileIsPart' /\ \A s \in Savers : SaveAt(s)'
  <2>1. /\ dir' = d /\ messages' = lines[d] /\ up' /\ resumes' = resumes + 1
        /\ UNCHANGED <<lines, save, dirs, created>>
    BY <1>11 DEF Resume, diskVars
  <2>2. resumes' # resumes
    BY <1>1, <2>1 DEF TypeOK
  <2>3. \A s \in Savers : save[s].pc = "idle"
    BY <2>2 DEF SessionsNext, NoSave, Idle
  <2>4. messages' \in Seq(MessageIds)
    BY DEF SessionsNext, IInv, TypeOK
  <2>5. \A x \in ToSet(messages') : x <= created'
    BY <2>1 DEF LogInv, Numbered
  <2> QED
    BY <1>1, <2>1, <2>3, <2>4, <2>5, BeginsSound
<1> QED
  BY <1>4, <1>5, <1>6, <1>7, <1>8, <1>9, <1>10, <1>11 DEF SessionsNext, Next

\* A sequence without repetitions has none with a new element.
LEMMA AppendNew ==
  ASSUME NEW S, NEW seq \in Seq(S), NEW x \in S, IsInjective(seq), x \notin ToSet(seq)
  PROVE  IsInjective(Append(seq, x))
<1>1. /\ DOMAIN Append(seq, x) = 1..Len(seq) + 1 /\ DOMAIN seq = 1..Len(seq)
      /\ Len(seq) \in Nat
      /\ Append(seq, x)[Len(seq) + 1] = x
      /\ \A i \in 1..Len(seq) : Append(seq, x)[i] = seq[i]
  BY AppendProperties, LenProperties
<1>2. \A i \in 1..Len(seq) : seq[i] # x
  BY <1>1 DEF ToSet
<1>3. \A i, j \in 1..Len(seq) : seq[i] = seq[j] => i = j
  BY <1>1 DEF IsInjective
<1> SUFFICES ASSUME NEW i \in 1..Len(seq) + 1, NEW j \in 1..Len(seq) + 1,
                    Append(seq, x)[i] = Append(seq, x)[j]
             PROVE  i = j
  BY <1>1 DEF IsInjective
<1>4. i \in 1..Len(seq) \/ i = Len(seq) + 1
  BY <1>1
<1>5. j \in 1..Len(seq) \/ j = Len(seq) + 1
  BY <1>1
<1> QED
  BY <1>1, <1>2, <1>3, <1>4, <1>5

\* All that a file has is counted.
Whole(d) == Len(lines[d]) = IF total[d] = NoMeta THEN 0 ELSE total[d]

\* Until a save is cut short no message is twice in the conversation or in a file; what the
\* file of the session has is the first part of the conversation, as far as the metadata
\* count or, while a save is at the file, as far as it has come.
AloneInv ==
  faults = 0 =>
    /\ IsInjective(messages)
    /\ \A d \in Dirs : IsInjective(lines[d]) /\ Torn \notin ToSet(lines[d])
    /\ up => /\ Len(lines[dir]) <= Len(messages)
             /\ \A i \in 1..Len(lines[dir]) : lines[dir][i] = messages[i]
    /\ \A d \in Dirs : (d # dir \/ \A s \in Savers : ~Writes(s)) => Whole(d)
    /\ \A s \in Savers : Writes(s) => Len(lines[dir]) = Written(s)

\* A save that goes on as it was.
LEMMA AloneStays ==
  ASSUME AloneInv, UNCHANGED <<messages, lines, total, dir, up, faults>>,
         \A s \in Savers : Writes(s)' <=> Writes(s),
         \A s \in Savers : Writes(s) => Written(s)' = Written(s)
  PROVE  AloneInv'
<1>1. /\ messages' = messages /\ lines' = lines /\ total' = total /\ dir' = dir /\ up' = up
      /\ faults' = faults
  OBVIOUS
<1>2. \A d \in Dirs : Whole(d)' <=> Whole(d)
  BY <1>1 DEF Whole
<1> QED
  BY <1>1, <1>2 DEF AloneInv

\* A message that is appended is a new one.
LEMMA AloneAppends ==
  ASSUME SessionsNext, LogInv, AloneInv, AppendMessage
  PROVE  AloneInv'
<1>1. /\ messages \in Seq(MessageIds) /\ created \in Nat /\ created + 1 \in MessageIds
      /\ messages' = Append(messages, created + 1)
      /\ UNCHANGED <<lines, total, save, dir, up, faults>>
      /\ dir \in Dirs /\ lines[dir] \in Seq(MessageIds \union {Torn})
  BY StoreAssumption
  DEF AppendMessage, SessionsNext, IInv, TypeOK, diskVars, sessionVars, MessageIds
<1>2. /\ Len(messages) \in Nat /\ Len(messages') = Len(messages) + 1 /\ Len(lines[dir]) \in Nat
      /\ \A i \in 1..Len(messages) : messages'[i] = messages[i]
  BY <1>1, AppendProperties, LenProperties
<1>3. created + 1 \notin ToSet(messages)
  BY <1>1 DEF LogInv, Numbered
<1>4. SUFFICES ASSUME faults = 0 PROVE AloneInv'
  BY <1>1 DEF AloneInv
<1>5. IsInjective(messages')
  BY <1>1, <1>3, <1>4, AppendNew DEF AloneInv
<1>6. ASSUME up
      PROVE  /\ Len(lines[dir]) <= Len(messages')
             /\ \A i \in 1..Len(lines[dir]) : lines[dir][i] = messages'[i]
  <2>1. Len(lines[dir]) <= Len(messages) /\ \A i \in 1..Len(lines[dir]) : lines[dir][i] = messages[i]
    BY <1>4, <1>6 DEF AloneInv
  <2>2. \A i \in 1..Len(lines[dir]) : i \in 1..Len(messages)
    BY <1>2, <2>1
  <2> QED
    BY <1>2, <2>1, <2>2
<1>7. \A d \in Dirs : Whole(d)' <=> Whole(d)
  BY <1>1 DEF Whole
<1>8. \A s \in Savers : (Writes(s)' <=> Writes(s)) /\ Written(s)' = Written(s)
  BY <1>1 DEF Writes, Written
<1> QED
  BY <1>1, <1>4, <1>5, <1>6, <1>7, <1>8 DEF AloneInv

\* A save takes what the file does not have.
LEMMA AloneCollects ==
  ASSUME SessionsNext, LogInv, AloneInv, NEW s \in Savers, NEW old \in Nat, Collect(s, old),
         save[s].pc \in {"idle", "read"}, old = IF total[dir] = NoMeta THEN 0 ELSE total[dir],
         UNCHANGED <<messages, lines, total, dir, up, faults>>
  PROVE  AloneInv'
<1>1. /\ save \in [Savers -> SaveStates] /\ messages \in Seq(MessageIds) /\ Len(messages) \in Nat
      /\ messages' = messages /\ lines' = lines /\ dir' = dir /\ dir \in Dirs /\ total' = total
      /\ up' = up /\ faults' = faults
  BY LenProperties DEF SessionsNext, IInv, TypeOK
<1>2. ~Writes(s)
  BY DEF Writes
<1>3. \A t \in Savers : t # s => save'[t] = save[t]
  BY <1>1 DEF Collect
<1>4. CASE Unsaved(old) # <<>> /\ dir \in made'
  <2> DEFINE new == [pc |-> "append", batch |-> Unsaved(old), to |-> dir,
                     seen |-> messages, meta |-> dir]
  <2>1. save'[s] = new
    BY <1>1, <1>4 DEF Collect
  <2>2. new.seen = messages /\ new.batch = Unsaved(old) /\ new.pc = "append"
    OBVIOUS
  <2> HIDE DEF new
  <2>3. ASSUME NEW t \in Savers, t # s PROVE ~Writes(t) /\ ~Writes(t)'
    <3>1. save'[s] # Idle
      BY <2>1, <2>2 DEF Idle
    <3>2. save'[t] = Idle
      BY <2>3, <3>1 DEF SessionsNext, OneSave
    <3> QED
      BY <1>3, <2>3, <3>2 DEF Writes, Idle
  <2>4. Len(Unsaved(old)) = Len(messages) - old
    <3>1. /\ ~(Len(messages) <= old)
          /\ Len(Unsaved(old)) = IF old < Len(messages) THEN Len(messages) - old ELSE 0
      BY <1>1, <1>4, UnsavedType
    <3>2. old < Len(messages)
      BY <1>1, <3>1
    <3> QED
      BY <3>1, <3>2
  <2>5. Written(s)' = old
    <3>1. Written(s)' = Len(messages) - Len(Unsaved(old))
      BY <2>1, <2>2 DEF Written
    <3>2. Len(messages) - (Len(messages) - old) = old
      BY <1>1
    <3> QED
      BY <2>4, <3>1, <3>2, Zenon
  <2>6. Writes(s)'
    BY <2>1, <2>2 DEF Writes
  <2>7. \A d \in Dirs : Whole(d)' <=> Whole(d)
    BY <1>1 DEF Whole
  <2> SUFFICES ASSUME faults = 0 PROVE AloneInv'
    BY <1>1 DEF AloneInv
  <2>8. \A t \in Savers : ~Writes(t)
    BY <1>2, <2>3
  <2>9. Len(lines[dir]) = old
    BY <1>1, <2>8 DEF AloneInv, Whole
  <2> QED
    BY <1>1, <2>3, <2>5, <2>6, <2>7, <2>9 DEF AloneInv
<1>5. CASE ~(Unsaved(old) # <<>> /\ dir \in made')
  <2>1. save'[s] = Idle
    BY <1>1, <1>5 DEF Collect
  <2>2. ASSUME NEW t \in Savers
        PROVE  (Writes(t)' <=> Writes(t)) /\ (Writes(t) => Written(t)' = Written(t))
    <3>1. CASE t = s
      BY <1>2, <2>1, <3>1 DEF Writes, Idle
    <3>2. CASE t # s
      BY <1>3, <3>2 DEF Writes, Written
    <3> QED
      BY <3>1, <3>2
  <2> QED
    BY <1>1, <2>2, AloneStays
<1> QED
  BY <1>4, <1>5

\* A save ends at the file, all of which its metadata count.
LEMMA AloneWrites ==
  ASSUME SessionsNext, LogInv, AloneInv, NEW s \in Savers, WriteMeta(s)
  PROVE  AloneInv'
<1>1. /\ SaveOK(s) /\ SaveAt(s) /\ save[s].pc = "meta" /\ dir \in Dirs
      /\ save \in [Savers -> SaveStates] /\ total \in [Dirs -> Nat \union {NoMeta}]
      /\ save[s].seen \in Seq(MessageIds)
  BY DEF WriteMeta, SessionsNext, LogInv, IInv, TypeOK, SaveStates
<1>2. save[s].meta = dir /\ save[s].batch = <<>> /\ dir \in made /\ Writes(s)
  BY <1>1 DEF SaveOK, SaveAt, Writes
<1>3. /\ total' = [total EXCEPT ![dir] = Len(save[s].seen)] /\ save' = [save EXCEPT ![s] = Idle]
      /\ messages' = messages /\ lines' = lines /\ dir' = dir /\ up' = up /\ faults' = faults
  BY <1>2 DEF WriteMeta, memVars, sessionVars
<1>4. ASSUME NEW t \in Savers PROVE ~Writes(t)'
  <2>1. save'[t] = Idle
    <3>1. save[s] # Idle
      BY <1>1 DEF Idle
    <3> QED
      BY <1>1, <1>3, <3>1, OthersIdle
  <2> QED
    BY <2>1 DEF Writes, Idle
<1>5. SUFFICES ASSUME faults = 0 PROVE AloneInv'
  BY <1>3 DEF AloneInv
<1>6. Len(save[s].seen) \in Nat /\ Len(<<>>) = 0
  BY <1>1, LenProperties
<1>7. Len(lines[dir]) = Len(save[s].seen)
  <2>1. Len(lines[dir]) = Written(s) /\ Written(s) = Len(save[s].seen) - 0
    BY <1>2, <1>5, <1>6 DEF AloneInv, Written
  <2> QED
    BY <1>6, <2>1
<1>8. ASSUME NEW d \in Dirs PROVE Whole(d)'
  <2>1. CASE d = dir
    <3>1. total'[d] = Len(save[s].seen) /\ total'[d] # NoMeta
      BY <1>1, <1>3, <1>6, <2>1 DEF NoMeta
    <3> QED
      BY <1>3, <1>7, <2>1, <3>1 DEF Whole
  <2>2. CASE d # dir
    <3>1. total'[d] = total[d] /\ Whole(d)
      BY <1>1, <1>3, <1>5, <2>2 DEF AloneInv
    <3> QED
      BY <1>3, <3>1 DEF Whole
  <2> QED
    BY <2>1, <2>2
<1> QED
  BY <1>3, <1>4, <1>5, <1>8 DEF AloneInv

\* A line is the message behind those that the file has.
LEMMA AloneLine ==
  ASSUME SessionsNext, LogInv, AloneInv, NEW s \in Savers, AppendLine(s)
  PROVE  AloneInv'
<1>1. PICK k \in 1..Len(messages) :
        /\ k = Written(s) + 1 /\ messages[k] \in MessageIds
        /\ lines' = [lines EXCEPT ![dir] = Append(@, messages[k])]
  BY NextLine
<1>2. /\ save[s].pc = "append" /\ up /\ dir \in Dirs /\ save[s].batch # <<>>
      /\ save[s].batch \in Seq(MessageIds) /\ save[s].seen \in Seq(MessageIds)
      /\ save \in [Savers -> SaveStates] /\ messages \in Seq(MessageIds)
      /\ lines \in [Dirs -> Seq(MessageIds \union {Torn})] /\ Writes(s) /\ SaveAt(s)
  BY DEF AppendLine, SessionsNext, LogInv, IInv, SaveReady, DownEmpty, TypeOK, SaveStates, Writes
<1>3. /\ messages' = messages /\ total' = total /\ dir' = dir /\ up' = up /\ faults' = faults
  BY DEF AppendLine, memVars, sessionVars
<1>4. SUFFICES ASSUME faults = 0 PROVE AloneInv'
  BY <1>3 DEF AloneInv
<1>5. /\ Len(lines[dir]) \in Nat /\ Len(messages) \in Nat /\ Written(s) \in Nat /\ k \in Nat
      /\ Len(lines[dir]) = Written(s)
      /\ \A i \in 1..Len(lines[dir]) : lines[dir][i] = messages[i]
      /\ IsInjective(messages)
      /\ \A d \in Dirs : IsInjective(lines[d]) /\ Torn \notin ToSet(lines[d])
  BY <1>2, <1>4, LenProperties DEF AloneInv, SaveAt
<1>6. lines'[dir] = Append(lines[dir], messages[k]) /\ \A d \in Dirs : d # dir => lines'[d] = lines[d]
  BY <1>1, <1>2
<1>7. /\ Len(lines'[dir]) = k /\ DOMAIN lines'[dir] = 1..k
      /\ \A i \in 1..k : lines'[dir][i] = messages[i]
  <2>1. /\ Len(lines'[dir]) = Len(lines[dir]) + 1
        /\ DOMAIN lines'[dir] = 1..Len(lines[dir]) + 1
        /\ \A i \in 1..Len(lines[dir]) : lines'[dir][i] = lines[dir][i]
        /\ lines'[dir][Len(lines[dir]) + 1] = messages[k]
    BY <1>1, <1>2, <1>6, AppendProperties
  <2>2. Len(lines[dir]) + 1 = k
    BY <1>1, <1>5
  <2>3. \A i \in 1..k : i \in 1..Len(lines[dir]) \/ i = k
    BY <1>5, <2>2
  <2> QED
    BY <1>5, <2>1, <2>2, <2>3
<1>8. IsInjective(lines'[dir]) /\ Torn \notin ToSet(lines'[dir])
  <2>1. DOMAIN messages = 1..Len(messages) /\ \A i \in 1..k : i \in 1..Len(messages)
    BY <1>1, <1>2, <1>5, LenProperties
  <2>2. \A i, j \in 1..k : messages[i] = messages[j] => i = j
    BY <1>5, <2>1 DEF IsInjective
  <2>3. \A i \in 1..k : messages[i] \in MessageIds
    BY <1>2, <2>1, ElementOfSeq
  <2>4. Torn \notin MessageIds
    BY DEF Torn, MessageIds
  <2> QED
    BY <1>7, <2>2, <2>3, <2>4 DEF IsInjective, ToSet
<1>9. \A d \in Dirs : IsInjective(lines'[d]) /\ Torn \notin ToSet(lines'[d])
  BY <1>5, <1>6, <1>8
<1>10. ASSUME NEW t \in Savers, t # s PROVE ~Writes(t)'
  <2>1. save[s] # Idle
    BY <1>2 DEF Idle
  <2>2. save'[t] = Idle
    BY <1>2, <1>10, <2>1, OthersIdle DEF AppendLine
  <2> QED
    BY <2>2 DEF Writes, Idle
<1>11. Writes(s)' /\ Written(s)' = k
  <2>1. Written(s)' = Written(s) + 1
    BY WrittenGrows DEF SessionsNext
  <2>2. Writes(s)'
    BY <1>2 DEF AppendLine, Writes, SaveStates
  <2> QED
    BY <1>1, <2>1, <2>2
<1>12. ASSUME NEW d \in Dirs, d # dir PROVE Whole(d)'
  <2>1. lines'[d] = lines[d] /\ total'[d] = total[d] /\ Whole(d)
    BY <1>3, <1>4, <1>6, <1>12 DEF AloneInv
  <2> QED
    BY <2>1 DEF Whole
<1>13. Len(lines'[dir]) <= Len(messages) /\ \A i \in 1..Len(lines'[dir]) : lines'[dir][i] = messages[i]
  BY <1>1, <1>5, <1>7
<1> QED
  BY <1>3, <1>5, <1>7, <1>9, <1>10, <1>11, <1>12, <1>13 DEF AloneInv

\* Sessions begin and end when every file is counted as a whole.
LEMMA AloneBegins ==
  ASSUME AloneInv, UNCHANGED <<lines, total, faults>>, \A s \in Savers : save[s].pc = "idle",
         \A s \in Savers : save'[s].pc = "idle", Len(messages') \in Nat,
         faults = 0 => IsInjective(messages'),
         dir' \in Dirs,
         up' => lines[dir'] = <<>> \/ messages' = lines[dir']
  PROVE  AloneInv'
<1>1. lines' = lines /\ total' = total /\ faults' = faults
  OBVIOUS
<1>2. \A s \in Savers : ~Writes(s) /\ ~Writes(s)'
  BY DEF Writes
<1>3. SUFFICES ASSUME faults = 0 PROVE AloneInv'
  BY <1>1 DEF AloneInv
<1>4. \A d \in Dirs : Whole(d)'
  BY <1>1, <1>2, <1>3 DEF AloneInv, Whole
<1>5. ASSUME up'
      PROVE  /\ Len(lines[dir']) <= Len(messages')
             /\ \A i \in 1..Len(lines[dir']) : lines[dir'][i] = messages'[i]
  <2>1. CASE lines[dir'] = <<>>
    <3>1. Len(lines[dir']) = 0
      BY <2>1
    <3> QED
      BY <3>1
  <2>2. CASE messages' = lines[dir']
    BY <2>2
  <2> QED
    BY <1>5, <2>1, <2>2
<1> QED
  BY <1>1, <1>2, <1>3, <1>4, <1>5 DEF AloneInv

\* What a conversation keeps of one without repetitions has none.
LEMMA KeptOnce ==
  ASSUME TypeOK, NEW m, Kept(m), IsInjective(messages)
  PROVE  IsInjective(m)
<1>1. messages \in Seq(MessageIds)
  BY DEF TypeOK
<1>2. ASSUME NEW n \in 0..Len(messages), m = SubSeq(messages, 1, n)
      PROVE  IsInjective(m)
  <2>1. DOMAIN m = 1..n /\ \A i \in 1..n : m[i] = messages[i] /\ i \in 1..Len(messages)
    BY <1>1, <1>2, FirstPart
  <2>2. DOMAIN messages = 1..Len(messages)
    BY <1>1, LenProperties
  <2> QED
    BY <2>1, <2>2 DEF IsInjective
<1>3. ASSUME m = <<created + 1>> PROVE IsInjective(m)
  BY <1>3 DEF IsInjective
<1> QED
  BY <1>2, <1>3 DEF Kept

\* It holds in every step.
LEMMA AloneStep ==
  ASSUME SessionsNext, LogInv, AloneInv
  PROVE  AloneInv'
<1>1. /\ TypeOK /\ IInv /\ faults \in Nat /\ messages' \in Seq(MessageIds) /\ dir' \in Dirs
      /\ Len(messages') \in Nat /\ dirs \in Int
  <2>1. TypeOK /\ IInv /\ TypeOK'
    BY DEF SessionsNext, IInv
  <2>2. faults \in Nat /\ messages' \in Seq(MessageIds) /\ dir' \in Dirs /\ dirs \in Int
    BY <2>1, StoreAssumption DEF TypeOK, Dirs
  <2> QED
    BY <2>1, <2>2, LenProperties
<1>2. CASE AppendMessage
  BY <1>2, AloneAppends
<1>3. CASE InsertMessage
  <2> created + 1 \in inserted' /\ inserted' = {}
    BY <1>3 DEF InsertMessage, SessionsNext, OneSave
  <2> QED
    OBVIOUS
<1>4. ASSUME NEW s \in Savers, StartSave(s) PROVE AloneInv'
  <2>1. UNCHANGED <<messages, lines, total, dir, up, faults>> /\ save[s].pc = "idle"
    BY <1>4 DEF StartSave, memVars, sessionVars
  <2>2. CASE total[dir] = NoMeta
    <3>1. Collect(s, 0)
      BY <1>4, <2>2 DEF StartSave
    <3> QED
      BY <2>1, <2>2, <3>1, AloneCollects
  <2>3. CASE total[dir] # NoMeta
    <3>1. save' = [save EXCEPT ![s] = [Idle EXCEPT !.pc = "read", !.to = dir]]
          /\ save \in [Savers -> SaveStates]
      BY <1>1, <1>4, <2>3 DEF StartSave, TypeOK
    <3>2. ASSUME NEW t \in Savers
          PROVE  (Writes(t)' <=> Writes(t)) /\ (Writes(t) => Written(t)' = Written(t))
      <4>1. CASE t = s
        BY <2>1, <3>1, <4>1 DEF Writes, Idle
      <4>2. CASE t # s
        BY <3>1, <4>2 DEF Writes, Written
      <4> QED
        BY <4>1, <4>2
    <3> QED
      BY <2>1, <3>2, AloneStays
  <2> QED
    BY <2>2, <2>3
<1>5. ASSUME NEW s \in Savers, ReadMeta(s) PROVE AloneInv'
  <2>1. UNCHANGED <<messages, lines, total, dir, up, faults>> /\ save[s].pc = "read"
    BY <1>5 DEF ReadMeta, memVars, diskVars, sessionVars
  <2>2. SaveOK(s) /\ total[save[s].to] # NoMeta /\ dir \in Dirs
    BY <1>1, <2>1 DEF IInv, SaveReady, TypeOK
  <2>3. save[s].to = dir /\ total[dir] \in Nat /\ total[dir] # NoMeta
    BY <1>1, <2>1, <2>2 DEF SaveOK, TypeOK
  <2>4. Collect(s, total[dir])
    BY <1>5, <2>3 DEF ReadMeta
  <2> QED
    BY <2>1, <2>3, <2>4, AloneCollects
<1>6. CASE \E s \in Savers : AppendLine(s)
  BY <1>6, AloneLine
<1>7. CASE \E s \in Savers : WriteMeta(s)
  BY <1>7, AloneWrites
<1>8. CASE Crash \/ \E s \in Savers : CancelSave(s)
  <2>1. faults' = faults + 1
    BY <1>8 DEF Crash, CancelSave
  <2>2. faults' # 0
    BY <1>1, <2>1
  <2> QED
    BY <2>2 DEF AloneInv
<1>9. CASE Exit
  <2>1. /\ UNCHANGED <<lines, total, faults>> /\ up' = FALSE /\ messages' = <<>>
        /\ \A s \in Savers : save[s].pc = "idle" /\ save'[s].pc = "idle"
    BY <1>9 DEF Exit, Down, Idle
  <2>2. IsInjective(messages')
    BY <2>1 DEF IsInjective
  <2> QED
    BY <1>1, <2>1, <2>2, AloneBegins
<1>10. CASE NewSession \/ Restart
  <2>1. UNCHANGED <<lines, total, faults, save>> /\ dir' = dirs + 1
    BY <1>10 DEF NewSession, Restart, diskVars
  <2>2. dir' # dir /\ lines[dir'] = <<>>
    <3>1. dir' > dirs /\ dir <= dirs /\ \A d \in Dirs : d \in Int
      BY <1>1, <2>1, StoreAssumption DEF IInv, FreshDirs, Dirs
    <3>2. dir \in Dirs
      BY <1>1 DEF TypeOK
    <3> QED
      BY <1>1, <3>1, <3>2 DEF LogInv, Unwritten
  <2>3. \A s \in Savers : save[s].pc = "idle" /\ save'[s].pc = "idle"
    BY <2>1, <2>2 DEF SessionsNext, NoSave, Idle
  <2>4. ASSUME faults = 0 PROVE IsInjective(messages')
    <3>1. IsInjective(messages)
      BY <2>4 DEF AloneInv
    <3>2. CASE NewSession
      BY <1>1, <3>1, <3>2, KeptOnce DEF NewSession
    <3>3. CASE Restart
      BY <3>1, <3>3 DEF Restart, memVars
    <3> QED
      BY <1>10, <3>2, <3>3
  <2> QED
    BY <1>1, <2>1, <2>2, <2>3, <2>4, AloneBegins
<1>11. ASSUME NEW d \in Dirs, Resume(d) PROVE AloneInv'
  <2>1. UNCHANGED <<lines, total, faults, save>> /\ dir' = d /\ messages' = lines[d]
        /\ resumes' = resumes + 1
    BY <1>11 DEF Resume, diskVars
  <2>2. \A s \in Savers : save[s].pc = "idle" /\ save'[s].pc = "idle"
    <3>1. resumes' # resumes
      BY <1>1, <2>1 DEF TypeOK
    <3> QED
      BY <2>1, <3>1 DEF SessionsNext, NoSave, Idle
  <2>3. faults = 0 => IsInjective(messages')
    BY <2>1 DEF AloneInv
  <2> QED
    BY <1>1, <2>1, <2>2, <2>3, AloneBegins
<1> QED
  BY <1>2, <1>3, <1>4, <1>5, <1>6, <1>7, <1>8, <1>9, <1>10, <1>11 DEF SessionsNext, Next

\* What holds in the part with one save at a time.
SessionsInv == part = "sessions" => LogInv /\ AloneInv

\* It holds at first.
LEMMA SessionsInit == MCInit => SessionsInv
<1> SUFFICES ASSUME Init PROVE LogInv /\ AloneInv
  BY DEF MCInit, SessionsInv
<1>1. /\ \A s \in Savers : save[s] = Idle
      /\ messages = <<>> /\ created = 0 /\ dir = 1 /\ dirs = 1 /\ 1 \in Dirs
      /\ \A d \in Dirs : lines[d] = <<>> /\ total[d] = NoMeta
      /\ inserted = {} /\ up
  BY StoreAssumption DEF Init, Dirs
<1>2. ToSet(<<>>) = {} /\ IsInjective(<<>>) /\ Len(<<>>) = 0 /\ 0 \in 0..0
  BY DEF ToSet, IsInjective
<1>3. OneSave
  BY <1>1 DEF OneSave
<1>4. Unwritten /\ Numbered
  BY <1>1, <1>2 DEF Unwritten, Numbered
<1>5. FileIsPart
  <2>1. Real(lines[dir]) = Start(messages, 0) /\ 0 \in 0..Len(messages)
    BY <1>1, <1>2 DEF Real, Start
  <2> QED
    BY <2>1 DEF FileIsPart
<1>6. \A s \in Savers : ~Writes(s)
  BY <1>1 DEF Writes, Idle
<1>7. LogInv
  BY <1>1, <1>3, <1>4, <1>5, <1>6 DEF LogInv, SaveAt
<1>8. \A d \in Dirs : Whole(d)
  BY <1>1, <1>2 DEF Whole
<1>9. AloneInv
  BY <1>1, <1>2, <1>6, <1>8 DEF AloneInv
<1> QED
  BY <1>7, <1>9

\* Every step keeps it.
LEMMA SessionsStep ==
  IInv /\ IInv' /\ SessionsInv /\ [MCNext]_<<vars, part>> => SessionsInv'
<1> SUFFICES ASSUME IInv, IInv', SessionsInv, [MCNext]_<<vars, part>> PROVE SessionsInv'
  OBVIOUS
<1>1. CASE MCNext
  <2> SUFFICES ASSUME part' = "sessions" PROVE LogInv' /\ AloneInv'
    BY DEF SessionsInv
  <2>1. part = "sessions" /\ SessionsNext /\ LogInv /\ AloneInv
    BY <1>1 DEF MCNext, SessionsNext, SessionsInv
  <2> QED
    BY <2>1, LogStep, AloneStep
<1>2. CASE UNCHANGED <<vars, part>>
  <2> SUFFICES ASSUME part' = "sessions" PROVE LogInv' /\ AloneInv'
    BY DEF SessionsInv
  <2>1. UNCHANGED vars /\ LogInv /\ AloneInv
    BY <1>2 DEF SessionsInv
  <2>2. /\ UNCHANGED <<messages, created, lines, total, dir, dirs, made, up, faults>>
        /\ save' = save /\ inserted' = inserted
    BY <2>1 DEF vars
  <2>3. \A s \in Savers : (Writes(s)' <=> Writes(s)) /\ Written(s)' = Written(s)
    BY <2>2 DEF Writes, Written
  <2>4. \A s \in Savers : SaveAt(s)'
    BY <2>1, <2>2, <2>3 DEF LogInv, SaveAt
  <2>5. LogInv'
    BY <2>1, <2>2, <2>4, PartStays DEF LogInv, OneSave
  <2>6. AloneInv'
    BY <2>1, <2>2, <2>3, AloneStays
  <2> QED
    BY <2>5, <2>6
<1> QED
  BY <1>1, <1>2

\* One save at a time leaves no message twice in a file, over resets, compactions, rewinds,
\* exits and resumed sessions, until a save is cut short (CHANGELOG 2.0.2).
THEOREM StoredOnce == MCSpec => []OnceAlone
<1>1. SessionsInv => OnceAlone
  BY DEF SessionsInv, OnceAlone, OnceUndisturbed, NoDuplicates, AloneInv
<1> QED
  BY <1>1, PartsSound, SessionsInit, SessionsStep, PTL DEF MCSpec

-----------------------------------------------------------------------------
(* The log that is implemented: numbers of a set in their order *)

\* The numbers of a set up to one.
Upto(S, k) == {j \in S : j <= k}

\* Ranks are different, and each number up to the size of the set is one.
LEMMA NthIs ==
  ASSUME NEW S \in SUBSET Nat, IsFiniteSet(S)
  PROVE  /\ Cardinality(S) \in Nat
         /\ \A k \in S : Cardinality(Upto(S, k)) \in 1..Cardinality(S)
         /\ \A k \in S : Nth(S, Cardinality(Upto(S, k))) = k
         /\ \A n \in 1..Cardinality(S) :
              Nth(S, n) \in S /\ Cardinality(Upto(S, Nth(S, n))) = n
<1> DEFINE N == Cardinality(S)
           rank == [k \in S |-> Cardinality(Upto(S, k))]
<1>0. N \in Nat
  BY FS_CardinalityType
<1>1. ASSUME NEW k \in S PROVE rank[k] \in 1..N
  <2>1. Upto(S, k) \subseteq S /\ k \in Upto(S, k)
    BY DEF Upto
  <2>2. IsFiniteSet(Upto(S, k)) /\ Cardinality(Upto(S, k)) <= N
    BY <2>1, FS_Subset
  <2>3. Cardinality(Upto(S, k)) # 0 /\ Cardinality(Upto(S, k)) \in Nat
    BY <2>1, <2>2, FS_EmptySet, FS_CardinalityType
  <2> QED BY <1>0, <2>2, <2>3
<1>2. ASSUME NEW j \in S, NEW k \in S, j < k PROVE rank[j] # rank[k]
  <2> DEFINE J == Upto(S, j)
             K == Upto(S, k)
  <2>0. j \in Nat /\ k \in Nat /\ \A i \in S : i \in Nat
    OBVIOUS
  <2>1. J \subseteq K /\ k \in K /\ k \notin J /\ K \subseteq S
    <3>1. \A i \in S : i <= j => i <= k
      BY <1>2, <2>0
    <3>2. ~(k <= j) /\ k <= k
      BY <1>2, <2>0
    <3> QED BY <3>1, <3>2 DEF Upto
  <2> HIDE DEF J, K
  <2>2. IsFiniteSet(J) /\ IsFiniteSet(K)
    BY <2>1, FS_Subset
  <2>3. Cardinality(J) # Cardinality(K)
    BY <2>1, <2>2, FS_Subset
  <2> QED BY <2>3 DEF J, K
<1> HIDE DEF rank
<1>3. \A j, k \in S : rank[j] = rank[k] => j = k
  <2> SUFFICES ASSUME NEW j \in S, NEW k \in S, rank[j] = rank[k], j # k PROVE FALSE
    OBVIOUS
  <2>1. j < k \/ k < j
    OBVIOUS
  <2> QED BY <1>2, <2>1
<1>4. rank \in Injection(S, 1..N)
  <2>1. rank = [k \in S |-> rank[k]]
    BY DEF rank
  <2>2. rank \in [S -> 1..N]
    BY <1>1, <2>1
  <2> QED BY <1>3, <2>2 DEF Injection, IsInjective
<1>5. IsFiniteSet(1..N) /\ Cardinality(1..N) = N
  BY <1>0, FS_Interval
<1>6. rank \in Surjection(S, 1..N)
  <2> HIDE DEF N
  <2>1. N = Cardinality(S)
    BY DEF N
  <2> QED BY <1>4, <1>5, <2>1, FS_Injection
<1>7. \A n \in 1..N : \E k \in S : rank[k] = n
  BY <1>6 DEF Surjection
<1>8. \A k \in S : rank[k] = Cardinality(Upto(S, k))
  BY DEF rank
<1>9. \A n \in 1..N : Nth(S, n) \in S /\ rank[Nth(S, n)] = n
  BY <1>7, <1>8 DEF Nth, Upto
<1>10. \A k \in S : Nth(S, rank[k]) = k
  BY <1>1, <1>3, <1>9
<1> QED
  BY <1>0, <1>1, <1>8, <1>9, <1>10

\* The first of them are those of the numbers up to a bound.
LEMMA NthUpto ==
  ASSUME NEW S \in SUBSET Nat, IsFiniteSet(S), NEW b \in Nat
  PROVE  /\ Cardinality(Upto(S, b)) \in 0..Cardinality(S)
         /\ \A n \in 1..Cardinality(Upto(S, b)) : Nth(Upto(S, b), n) = Nth(S, n)
<1> DEFINE T == Upto(S, b)
<1>1. T \in SUBSET Nat /\ T \subseteq S
  BY DEF Upto
<1>2. \A k \in T : Upto(T, k) = Upto(S, k)
  <2> SUFFICES ASSUME NEW k \in T, NEW j \in S, j <= k PROVE j <= b
    BY DEF Upto
  <2>1. k <= b /\ k \in Nat /\ j \in Nat
    BY <1>1 DEF Upto
  <2> QED BY <2>1
<1> HIDE DEF T
<1>3. IsFiniteSet(T) /\ Cardinality(T) <= Cardinality(S)
  BY <1>1, FS_Subset
<1>4. Cardinality(T) \in Nat /\ Cardinality(S) \in Nat
  BY <1>3, FS_CardinalityType
<1>5. ASSUME NEW n \in 1..Cardinality(T) PROVE Nth(T, n) = Nth(S, n)
  <2>1. Nth(T, n) \in T /\ Cardinality(Upto(T, Nth(T, n))) = n
    BY <1>1, <1>3, <1>5, NthIs
  <2>2. Cardinality(Upto(S, Nth(T, n))) = n /\ Nth(T, n) \in S
    BY <1>1, <1>2, <2>1
  <2> QED BY <2>2, NthIs
<1>6. Cardinality(T) \in 0..Cardinality(S)
  BY <1>3, <1>4
<1> QED BY <1>5, <1>6 DEF T

-----------------------------------------------------------------------------
(* The sequence that is left of a file *)

\* What is in a file or a conversation.
Entries == MessageIds \union {Torn}

\* Where the first lines are.
LEMMA FirstsType ==
  ASSUME NEW s \in Seq(Entries)
  PROVE  /\ Firsts(s) \in SUBSET Nat /\ IsFiniteSet(Firsts(s)) /\ Firsts(s) \subseteq 1..Len(s)
         /\ \A i \in Firsts(s) : s[i] \in MessageIds
         /\ Cardinality(Firsts(s)) \in Nat
<1>1. Firsts(s) \subseteq 1..Len(s) /\ Len(s) \in Nat
  BY LenProperties DEF Firsts
<1>2. \A i \in Firsts(s) : s[i] \in Entries /\ s[i] # Torn
  BY <1>1, ElementOfSeq DEF Firsts
<1>3. IsFiniteSet(1..Len(s))
  BY <1>1, FS_Interval
<1>4. IsFiniteSet(Firsts(s))
  BY <1>1, <1>3, FS_Subset
<1> QED
  BY <1>1, <1>2, <1>4, FS_CardinalityType DEF Entries

\* What is left is a sequence of messages.
LEMMA OnceType ==
  ASSUME NEW s \in Seq(Entries)
  PROVE  /\ Once(s) \in Seq(MessageIds) /\ Len(Once(s)) = Cardinality(Firsts(s))
         /\ \A n \in 1..Cardinality(Firsts(s)) :
              Once(s)[n] = s[Nth(Firsts(s), n)] /\ Nth(Firsts(s), n) \in Firsts(s)
<1> DEFINE F == Firsts(s)
           N == Cardinality(F)
<1>1. /\ F \in SUBSET Nat /\ IsFiniteSet(F) /\ N \in Nat
      /\ \A i \in F : s[i] \in MessageIds
  BY FirstsType
<1>2. \A n \in 1..N : Nth(F, n) \in F
  BY <1>1, NthIs
<1>3. Once(s) = [n \in 1..N |-> s[Nth(F, n)]]
  BY DEF Once
<1> HIDE DEF F, N
<1>4. Once(s) \in [1..N -> MessageIds]
  BY <1>1, <1>2, <1>3
<1>5. Once(s) \in Seq(MessageIds) /\ Len(Once(s)) = N
  BY <1>1, <1>4
<1> QED
  BY <1>2, <1>3, <1>5 DEF F, N

\* Every set of numbers has a least one.
Less == {p \in Nat \X Nat : p[1] < p[2]}

LEMMA LeastNumber ==
  ASSUME NEW T \in SUBSET Nat, T # {}
  PROVE  \E x \in T : \A y \in T : x <= y
<1>1. IsWellFoundedOn(Less, Nat)
  BY NatLessThanWellFounded DEF OpToRel, Less
<1>2. PICK x \in T : \A y \in T : ~(<<y, x>> \in Less)
  BY <1>1, WFMin
<1>3. ASSUME NEW y \in T PROVE x <= y
  <2>1. x \in Nat /\ y \in Nat /\ ~(<<y, x>> \in Less)
    BY <1>2
  <2>2. y < x => <<y, x>> \in Less
    BY <2>1 DEF Less
  <2> QED BY <2>1, <2>2
<1> QED BY <1>3

\* A message that is in a file has a first line there.
LEMMA FirstOf ==
  ASSUME NEW s \in Seq(Entries), NEW x \in Real(s)
  PROVE  \E i \in Firsts(s) : s[i] = x
<1> DEFINE T == {i \in 1..Len(s) : s[i] = x}
<1>1. Len(s) \in Nat /\ DOMAIN s = 1..Len(s)
  BY LenProperties
<1>2. T \in SUBSET Nat /\ T # {} /\ x # Torn
  BY <1>1 DEF Real, ToSet
<1>3. PICK i \in T : \A j \in T : i <= j
  BY <1>2, LeastNumber
<1>4. i \in 1..Len(s) /\ s[i] = x
  BY <1>3
<1>5. ASSUME NEW j \in 1..i - 1 PROVE s[j] # s[i]
  <2>1. j \in 1..Len(s) /\ ~(i <= j)
    BY <1>1, <1>4
  <2> QED BY <1>3, <1>4, <2>1
<1> QED
  BY <1>1, <1>2, <1>4, <1>5 DEF Firsts

\* There are as many first lines as messages.
LEMMA FirstsCount ==
  ASSUME NEW s \in Seq(Entries)
  PROVE  /\ IsFiniteSet(Real(s)) /\ Cardinality(Real(s)) = Cardinality(Firsts(s))
<1> DEFINE F == Firsts(s)
           f == [i \in F |-> s[i]]
<1>1. /\ F \in SUBSET Nat /\ IsFiniteSet(F) /\ F \subseteq 1..Len(s)
      /\ DOMAIN s = 1..Len(s) /\ Len(s) \in Nat
  BY FirstsType, LenProperties
<1>2. f \in [F -> Real(s)]
  BY <1>1 DEF Firsts, Real, ToSet
<1>3. \A i, j \in F : f[i] = f[j] => i = j
  <2> SUFFICES ASSUME NEW i \in F, NEW j \in F, s[i] = s[j], i # j PROVE FALSE
    OBVIOUS
  <2>1. i \in Nat /\ j \in Nat /\ i \in 1..Len(s) /\ j \in 1..Len(s)
    BY <1>1
  <2>2. i \in 1..j - 1 \/ j \in 1..i - 1
    BY <2>1
  <2> QED BY <2>2 DEF Firsts
<1>4. \A x \in Real(s) : \E i \in F : f[i] = x
  BY FirstOf
<1>5. f \in Bijection(F, Real(s))
  BY <1>2, <1>3, <1>4 DEF Bijection, Injection, Surjection, IsInjective
<1> HIDE DEF F, f
<1>6. ExistsBijection(F, Real(s))
  BY <1>5 DEF ExistsBijection
<1> QED
  BY <1>1, <1>6, FS_Bijection DEF F

\* What is left of a first part is a first part of what is left.
LEMMA OncePrefix ==
  ASSUME NEW s \in Seq(Entries), NEW n \in 0..Len(s)
  PROVE  LET m == Cardinality(Upto(Firsts(s), n))
         IN  /\ m \in 0..Len(Once(s)) /\ Once(SubSeq(s, 1, n)) = SubSeq(Once(s), 1, m)
             /\ Firsts(SubSeq(s, 1, n)) = Upto(Firsts(s), n)
<1> DEFINE F == Firsts(s)
           m == Cardinality(Upto(F, n))
           t == SubSeq(s, 1, n)
<1>1. /\ F \in SUBSET Nat /\ IsFiniteSet(F) /\ F \subseteq 1..Len(s) /\ n \in Nat
      /\ DOMAIN s = 1..Len(s) /\ Len(s) \in Nat
  BY FirstsType, LenProperties
<1>2. /\ t \in Seq(Entries) /\ DOMAIN t = 1..n
      /\ \A i \in 1..n : t[i] = s[i] /\ i \in 1..Len(s)
  BY FirstPart
<1>3. Firsts(t) = Upto(F, n)
  <2>1. ASSUME NEW i \in 1..n
        PROVE  i \in Firsts(t) <=> i \in F
    <3>1. \A j \in 1..i - 1 : j \in 1..n
      OBVIOUS
    <3>2. \A j \in 1..i - 1 : t[j] = s[j]
      BY <1>2, <3>1
    <3>3. t[i] = s[i] /\ i \in DOMAIN s /\ i \in DOMAIN t
      BY <1>1, <1>2
    <3> QED BY <3>2, <3>3 DEF Firsts
  <2>2. Firsts(t) \subseteq 1..n
    BY <1>2 DEF Firsts
  <2>3. \A i \in F : i <= n <=> i \in 1..n
    BY <1>1
  <2> QED BY <2>1, <2>2, <2>3 DEF Upto
<1>4. m \in 0..Cardinality(F) /\ \A j \in 1..m : Nth(Upto(F, n), j) = Nth(F, j)
  BY <1>1, NthUpto
<1>5. /\ Once(s) \in Seq(MessageIds) /\ Len(Once(s)) = Cardinality(F)
      /\ \A j \in 1..Cardinality(F) : Once(s)[j] = s[Nth(F, j)]
  BY OnceType
<1>6. /\ Once(t) \in Seq(MessageIds) /\ Len(Once(t)) = m
      /\ \A j \in 1..m : Once(t)[j] = t[Nth(Upto(F, n), j)] /\ Nth(Upto(F, n), j) \in Upto(F, n)
  BY <1>2, <1>3, OnceType
<1> HIDE DEF F, m, t
<1>7. ASSUME NEW j \in 1..m PROVE Once(t)[j] = Once(s)[j]
  <2>0. Cardinality(F) \in Nat
    BY <1>1, FS_CardinalityType
  <2>1. j \in 1..Cardinality(F)
    BY <1>4, <2>0
  <2>2. Nth(F, j) \in 1..n
    <3>1. Nth(Upto(F, n), j) \in Upto(F, n) /\ Nth(Upto(F, n), j) = Nth(F, j)
      BY <1>4, <1>6
    <3>2. \A i \in Upto(F, n) : i \in 1..Len(s) /\ i <= n
      BY <1>1 DEF Upto
    <3> QED BY <1>1, <3>1, <3>2
  <2>3. Once(t)[j] = t[Nth(F, j)] /\ t[Nth(F, j)] = s[Nth(F, j)]
    BY <1>2, <1>4, <1>6, <2>2
  <2> QED BY <1>5, <2>1, <2>3
<1>8. Once(t) = SubSeq(Once(s), 1, m)
  <2>1. m \in 0..Len(Once(s))
    BY <1>4, <1>5
  <2> DEFINE u == SubSeq(Once(s), 1, m)
  <2>2. u \in Seq(MessageIds) /\ Len(u) = m /\ \A j \in 1..m : u[j] = Once(s)[j]
    BY <1>5, <2>1, FirstPart
  <2> HIDE DEF u
  <2>3. u = Once(t)
    BY <1>6, <1>7, <2>2, SeqEqual
  <2> QED BY <2>3 DEF u
<1> QED
  BY <1>3, <1>4, <1>5, <1>8 DEF F, m, t

\* A line that is torn or not the first of its kind leaves it as it is; any other is the
\* next.
LEMMA OnceAppend ==
  ASSUME NEW s \in Seq(Entries), NEW x \in Entries
  PROVE  Once(Append(s, x)) = IF x \in Real(s) \union {Torn} THEN Once(s) ELSE Append(Once(s), x)
<1> DEFINE a == Append(s, x)
           n == Len(s)
           F == Firsts(s)
           G == Firsts(a)
<1>1. /\ a \in Seq(Entries) /\ Len(a) = n + 1 /\ n \in Nat /\ DOMAIN a = 1..n + 1
      /\ DOMAIN s = 1..n /\ \A i \in 1..n : a[i] = s[i]
      /\ a[n + 1] = x
  BY AppendProperties, LenProperties
<1>2. SubSeq(a, 1, n) = s
  <2> DEFINE u == SubSeq(a, 1, n)
  <2>1. n \in 0..Len(a)
    BY <1>1
  <2>2. u \in Seq(Entries) /\ Len(u) = n /\ \A i \in 1..n : u[i] = a[i]
    BY <1>1, <2>1, FirstPart
  <2> HIDE DEF u, a
  <2>3. u = s
    BY <1>1, <2>2, SeqEqual
  <2> QED BY <2>3 DEF u
<1> DEFINE m == Cardinality(Upto(G, n))
<1>3. m \in 0..Len(Once(a)) /\ Once(s) = SubSeq(Once(a), 1, m) /\ F = Upto(G, n)
  <2>1. n \in 0..Len(a)
    BY <1>1
  <2> HIDE DEF a
  <2> QED BY <1>1, <1>2, <2>1, OncePrefix
<1>4. /\ G \in SUBSET Nat /\ IsFiniteSet(G) /\ G \subseteq 1..n + 1
      /\ Once(a) \in Seq(MessageIds) /\ Len(Once(a)) = Cardinality(G) /\ Cardinality(G) \in Nat
      /\ \A j \in 1..Cardinality(G) : Once(a)[j] = a[Nth(G, j)]
  BY <1>1, FirstsType, OnceType
<1>5. n + 1 \in G <=> x \notin Real(s) \union {Torn}
  <2>1. x \in ToSet(s) <=> \E j \in 1..n : s[j] = x
    BY <1>1 DEF ToSet
  <2>2. n + 1 \in G <=> x # Torn /\ \A j \in 1..n : s[j] # x
    BY <1>1 DEF Firsts
  <2> QED BY <2>1, <2>2 DEF Real
<1>6. CASE x \in Real(s) \union {Torn}
  <2>1. \A i \in G : i <= n
    BY <1>1, <1>4, <1>5, <1>6
  <2>2. Upto(G, n) = G
    BY <2>1 DEF Upto
  <2>3. Once(s) = SubSeq(Once(a), 1, Len(Once(a)))
    BY <1>3, <1>4, <2>2
  <2> HIDE DEF a
  <2>4. SubSeq(Once(a), 1, Len(Once(a))) = Once(a)
    BY <1>4, SubSeqFull
  <2> QED BY <1>6, <2>3, <2>4 DEF a
<1>7. CASE x \notin Real(s) \union {Torn}
  <2>1. n + 1 \in G /\ n + 1 \notin Upto(G, n) /\ Upto(G, n + 1) = G
    BY <1>1, <1>4, <1>5, <1>7 DEF Upto
  <2>2. Upto(G, n) \union {n + 1} = G
    <3>1. \A i \in G : i <= n \/ i = n + 1
      BY <1>1, <1>4
    <3> QED BY <2>1, <3>1 DEF Upto
  <2>3. Cardinality(G) = m + 1 /\ m \in Nat
    <3>1. IsFiniteSet(Upto(G, n))
      BY <1>4, FS_Subset DEF Upto
    <3> HIDE DEF G
    <3> QED BY <2>1, <2>2, <3>1, FS_AddElement, FS_CardinalityType
  <2>4. Nth(G, Cardinality(G)) = n + 1
    <3> HIDE DEF G
    <3> QED BY <1>4, <2>1, NthIs
  <2> HIDE DEF G, a, F, m
  <2>5. Once(a)[m + 1] = x
    BY <1>1, <1>4, <2>3, <2>4
  <2>6. /\ Once(s) \in Seq(MessageIds) /\ Len(Once(s)) = m
        /\ \A j \in 1..m : Once(s)[j] = Once(a)[j]
    BY <1>3, <1>4, FirstPart
  <2>7. x \in MessageIds
    BY <1>7 DEF Entries
  <2> DEFINE u == Append(Once(s), x)
  <2>8. u \in Seq(MessageIds) /\ Len(u) = m + 1 /\ u[m + 1] = x /\ \A j \in 1..m : u[j] = Once(s)[j]
    BY <2>6, <2>7, AppendProperties
  <2> HIDE DEF u
  <2>9. \A j \in 1..m + 1 : u[j] = Once(a)[j]
    <3>1. \A j \in 1..m + 1 : j \in 1..m \/ j = m + 1
      BY <2>3
    <3> QED BY <2>5, <2>6, <2>8, <3>1
  <2>10. u = Once(a)
    BY <1>4, <2>3, <2>8, <2>9, SeqEqual
  <2> QED BY <1>7, <2>10 DEF u, a
<1> QED
  BY <1>6, <1>7

-----------------------------------------------------------------------------
(* Every step is one of the log *)

\* Types of what the log is mapped to.
LEMMA ShownTypes ==
  ASSUME TypeOK
  PROVE  /\ messages \in Seq(Entries) /\ messages \in Seq(MessageIds) /\ dir \in Dirs
         /\ \A d \in Dirs : lines[d] \in Seq(Entries)
         /\ \A i \in 1..Len(messages) : messages[i] \in MessageIds
         /\ Torn \notin ToSet(messages)
<1>1. messages \in Seq(MessageIds) /\ dir \in Dirs /\ lines \in [Dirs -> Seq(Entries)]
  BY DEF TypeOK, Entries
<1>2. \A i \in 1..Len(messages) : messages[i] \in MessageIds
  BY <1>1, ElementOfSeq
<1>3. messages \in Seq(Entries)
  BY <1>1 DEF Entries
<1>4. Torn \notin MessageIds
  BY DEF Torn, MessageIds
<1> QED
  BY <1>1, <1>2, <1>3, <1>4, LenProperties DEF ToSet

\* What is left of nothing.
LEMMA OnceNothing == Once(<<>>) = <<>> /\ <<>> \in Seq(Entries) /\ Real(<<>>) = {}
<1>1. Firsts(<<>>) = {} /\ Real(<<>>) = {} /\ <<>> \in Seq(Entries)
  BY DEF Firsts, Real, ToSet
<1>2. Once(<<>>) \in Seq(MessageIds) /\ Len(Once(<<>>)) = 0
  BY <1>1, OnceType, FS_EmptySet
<1> QED
  BY <1>1, <1>2, EmptySeq

\* A message that is appended to the conversation extends the log.
LEMMA ExtendsLog ==
  ASSUME part = "sessions", part' = part, SessionsNext, LogInv, AppendMessage
  PROVE  Log!Extend
<1>1. /\ TypeOK /\ created + 1 \in MessageIds /\ messages' = Append(messages, created + 1)
      /\ lines' = lines /\ dir' = dir /\ created \in Nat
  BY StoreAssumption
  DEF SessionsNext, IInv, TypeOK, AppendMessage, diskVars, sessionVars, MessageIds
<1>2. created + 1 \notin Real(messages) \union {Torn}
  BY <1>1 DEF LogInv, Numbered, Real, Torn
<1>3. Once(messages') = Append(Once(messages), created + 1)
  <2>1. messages \in Seq(Entries) /\ created + 1 \in Entries
    BY <1>1, ShownTypes DEF Entries
  <2> QED BY <1>1, <1>2, <2>1, OnceAppend
<1> QED
  BY <1>1, <1>3 DEF Log!Extend, Shown

\* A line that is appended is the next of the log, or leaves what is left as it is.
LEMMA PersistsLog ==
  ASSUME part = "sessions", part' = part, SessionsNext, LogInv, NEW s \in Savers, AppendLine(s)
  PROVE  Log!Persist \/ UNCHANGED Log!vars
<1>1. PICK k \in 1..Len(messages) :
        /\ messages[k] \in MessageIds
        /\ lines' = [lines EXCEPT ![dir] = Append(@, messages[k])]
        /\ Start(messages, k - 1) \subseteq ToSet(lines[dir])
        /\ messages[k] \notin ToSet(lines[dir]) =>
             Real(lines[dir]) = Start(messages, k - 1)
  BY NextLine
<1>2. /\ TypeOK /\ messages' = messages /\ dir' = dir
  BY DEF SessionsNext, IInv, AppendLine, memVars, sessionVars
<1>3. /\ messages \in Seq(Entries) /\ dir \in Dirs /\ \A d \in Dirs : lines[d] \in Seq(Entries)
      /\ Torn \notin ToSet(messages) /\ Len(messages) \in Nat /\ DOMAIN messages = 1..Len(messages)
  BY <1>2, ShownTypes, LenProperties
<1> DEFINE x == messages[k]
           file == [d \in Dirs |-> Once(lines[d])]
<1>4. x \in Entries /\ x # Torn
  BY <1>1 DEF Entries, MessageIds, Torn
<1>5. lines'[dir] = Append(lines[dir], x) /\ \A d \in Dirs : d # dir => lines'[d] = lines[d]
  BY <1>1, <1>2, <1>3 DEF TypeOK
<1>6. Once(lines'[dir]) = IF x \in Real(lines[dir]) THEN Once(lines[dir])
                          ELSE Append(Once(lines[dir]), x)
  <2> HIDE DEF x
  <2> QED BY <1>3, <1>4, <1>5, OnceAppend
<1>7. CASE x \in Real(lines[dir])
  <2>1. \A d \in Dirs : Once(lines'[d]) = Once(lines[d])
    BY <1>5, <1>6, <1>7
  <2> QED
    BY <1>2, <2>1 DEF Log!vars, Shown
<1>8. CASE x \notin Real(lines[dir])
  <2>1. Real(lines[dir]) = Start(messages, k - 1)
    BY <1>1, <1>4, <1>8 DEF Real
  <2> DEFINE F == Firsts(messages)
             n == Len(Once(lines[dir]))
             t == SubSeq(messages, 1, k - 1)
  <2>2. k - 1 \in 0..Len(messages) /\ k \in Nat
    BY <1>3
  <2>3. t \in Seq(Entries) /\ Firsts(t) = Upto(F, k - 1)
    BY <1>3, <2>2, OncePrefix, FirstPart
  <2>4. Real(t) = Start(messages, k - 1)
    <3>1. DOMAIN t = 1..k - 1 /\ \A i \in 1..k - 1 : t[i] = messages[i] /\ i \in 1..Len(messages)
      BY <1>3, <2>2, FirstPart
    <3>2. \A i \in 1..k - 1 : messages[i] # Torn
      BY <1>3, <3>1 DEF ToSet
    <3> QED BY <3>1, <3>2 DEF Real, ToSet, Start
  <2>5. n = Cardinality(Upto(F, k - 1)) /\ n \in Nat
    <3>1. n = Cardinality(Firsts(lines[dir])) /\ n \in Nat
      BY <1>3, OnceType, FirstsType
    <3>2. Cardinality(Real(lines[dir])) = Cardinality(Firsts(lines[dir]))
      BY <1>3, FirstsCount
    <3>3. Cardinality(Real(t)) = Cardinality(Firsts(t))
      BY <2>3, FirstsCount
    <3> HIDE DEF n, t, F
    <3> QED BY <2>1, <2>3, <2>4, <3>1, <3>2, <3>3
  <2>6. k \in F
    <3>1. \A j \in 1..k - 1 : messages[j] # messages[k]
      BY <1>8, <2>1 DEF Start
    <3> QED BY <1>3, <1>4, <3>1 DEF Firsts
  <2>7. /\ F \in SUBSET Nat /\ IsFiniteSet(F) /\ Len(Once(messages)) = Cardinality(F)
        /\ Cardinality(F) \in Nat
        /\ \A j \in 1..Cardinality(F) : Once(messages)[j] = messages[Nth(F, j)]
    BY <1>3, FirstsType, OnceType
  <2> HIDE DEF F, n, t
  <2>8. Cardinality(Upto(F, k)) = n + 1
    <3>1. Upto(F, k) = Upto(F, k - 1) \union {k} /\ k \notin Upto(F, k - 1)
      <4>1. \A j \in F : j <= k <=> j <= k - 1 \/ j = k
        BY <2>2, <2>7
      <4>2. ~(k <= k - 1)
        BY <2>2
      <4>3. \A j : j \in Upto(F, k) <=> j \in Upto(F, k - 1) \/ j = k
        BY <2>6, <4>1, Zenon DEF Upto
      <4> QED BY <4>2, <4>3, Zenon DEF Upto
    <3>2. IsFiniteSet(Upto(F, k - 1))
      BY <2>7, FS_Subset DEF Upto
    <3> QED BY <2>5, <3>1, <3>2, FS_AddElement
  <2>9. n + 1 \in 1..Cardinality(F) /\ Nth(F, n + 1) = k
    BY <2>6, <2>7, <2>8, NthIs
  <2>10. n < Len(Once(messages)) /\ Once(messages)[n + 1] = x
    BY <2>5, <2>7, <2>9
  <2>11. Once(lines'[dir]) = Append(Once(lines[dir]), Once(messages)[n + 1])
    BY <1>6, <1>8, <2>10
  <2>12. [d \in Dirs |-> Once(lines'[d])]
           = [file EXCEPT ![dir] = Append(@, Once(messages)[Len(@) + 1])]
    BY <1>3, <1>5, <2>11 DEF n
  <2>13. Log!Persist
    BY <1>2, <1>3, <2>10, <2>12 DEF Log!Persist, Shown, n
  <2> QED BY <2>13
<1> QED
  BY <1>7, <1>8

\* Where a session begins the log does.
LEMMA BeginsLog ==
  ASSUME part = "sessions", part' = part, SessionsNext, LogInv, NewSession \/ Restart
  PROVE  Log!Begin
<1>1. TypeOK /\ TypeOK' /\ FreshDirs /\ DownEmpty
  BY DEF SessionsNext, IInv
<1>2. dir' = dirs + 1 /\ lines' = lines
  BY DEF NewSession, Restart, diskVars
<1>3. dir' \in Dirs /\ dir \in Dirs /\ dirs \in Dirs /\ messages' \in Seq(MessageIds)
  BY <1>1 DEF TypeOK
<1>4. dir <= dirs /\ \A d \in Dirs : d \in Int
  BY <1>1, StoreAssumption DEF FreshDirs, Dirs
<1>5. Kept(messages') \/ (messages' = messages /\ messages = <<>>)
  BY <1>1 DEF DownEmpty, NewSession, Restart, memVars
<1>6. dir' \in Dirs \ {dir} /\ lines[dir'] = <<>>
  <2>1. dir' > dirs /\ dir' # dir
    BY <1>2, <1>3, <1>4
  <2> QED BY <1>3, <2>1 DEF LogInv, Unwritten
<1>7. messages \in Seq(Entries)
  BY <1>1, ShownTypes
<1>8. \/ \E n \in 0..Len(Once(messages)) : Once(messages') = SubSeq(Once(messages), 1, n)
      \/ \E x \in MessageIds : Once(messages') = <<x>>
  <2>1. ASSUME NEW n \in 0..Len(messages), messages' = SubSeq(messages, 1, n)
        PROVE  \E m \in 0..Len(Once(messages)) : Once(messages') = SubSeq(Once(messages), 1, m)
    BY <1>7, <2>1, OncePrefix
  <2>2. ASSUME messages' = <<created + 1>>, created < MaxMessages
        PROVE  \E x \in MessageIds : Once(messages') = <<x>>
    <3>1. created + 1 \in MessageIds
      BY <1>1, <2>2, StoreAssumption DEF TypeOK, MessageIds
    <3>2. created + 1 \in Entries /\ created + 1 # Torn
      BY <3>1 DEF Entries, MessageIds, Torn
    <3>3. messages' = Append(<<>>, created + 1)
      BY <2>2
    <3>4. Once(messages') = Append(<<>>, created + 1)
      BY <3>2, <3>3, OnceAppend, OnceNothing
    <3> QED BY <2>2, <3>1, <3>3, <3>4
  <2>3. CASE messages' = messages /\ messages = <<>>
    <3>1. 0 \in 0..Len(Once(messages)) /\ SubSeq(<<>>, 1, 0) = <<>>
      BY <2>3, OnceNothing
    <3> QED BY <2>3, <3>1, OnceNothing
  <2> QED
    BY <1>5, <2>1, <2>2, <2>3 DEF Kept
<1>9. Once(lines[dir']) = <<>>
  BY <1>6, OnceNothing
<1> QED
  BY <1>2, <1>6, <1>8, <1>9 DEF Log!Begin, Shown

\* The end of a process ends the conversation, and half a line is none.
LEMMA StopsLog ==
  ASSUME part = "sessions", part' = part, SessionsNext, LogInv, Exit \/ Crash
  PROVE  Log!Stop
<1>1. /\ TypeOK /\ messages' = <<>> /\ dir' = dir
  BY DEF SessionsNext, IInv, Exit, Crash, Down
<1>2. ASSUME NEW d \in Dirs PROVE Once(lines'[d]) = Once(lines[d])
  <2>1. CASE UNCHANGED lines
    BY <2>1
  <2>2. ASSUME NEW s \in Savers, lines' = [lines EXCEPT ![save[s].to] = Append(@, Torn)]
        PROVE  Once(lines'[d]) = Once(lines[d])
    <3>1. lines[d] \in Seq(Entries) /\ Torn \in Entries
      BY <1>1, ShownTypes DEF Entries
    <3>2. lines'[d] = lines[d] \/ lines'[d] = Append(lines[d], Torn)
      BY <1>1, <2>2 DEF TypeOK
    <3> QED BY <3>1, <3>2, OnceAppend
  <2> QED BY <2>1, <2>2 DEF Exit, Crash
<1>3. Once(messages') = <<>>
  BY <1>1, OnceNothing
<1> QED
  BY <1>1, <1>2, <1>3 DEF Log!Stop, Shown

\* A session that is resumed continues.
LEMMA ContinuesLog ==
  ASSUME part = "sessions", part' = part, SessionsNext, LogInv, NEW d \in Dirs, Resume(d)
  PROVE  Log!Continue
<1>1. /\ TypeOK /\ dir' = d /\ messages' = lines[d] /\ lines' = lines
      /\ lines[d] # <<>> /\ Torn \notin ToSet(lines[d])
  BY DEF SessionsNext, IInv, Resume, Loadable, Parses, diskVars
<1>2. lines[d] \in Seq(Entries)
  BY <1>1, ShownTypes
<1>3. Once(lines[d]) # <<>>
  <2>1. Len(lines[d]) \in Nat /\ Len(lines[d]) # 0 /\ DOMAIN lines[d] = 1..Len(lines[d])
    BY <1>1, <1>2, EmptySeq, LenProperties
  <2>2. 1 \in Firsts(lines[d])
    <3>1. lines[d][1] \in ToSet(lines[d]) /\ 1 \in DOMAIN lines[d]
      BY <2>1 DEF ToSet
    <3> QED BY <1>1, <3>1 DEF Firsts
  <2>3. Cardinality(Firsts(lines[d])) # 0
    BY <1>2, <2>2, FirstsType, FS_EmptySet
  <2> QED
    BY <1>2, <2>3, OnceType
<1> QED
  BY <1>1, <1>3 DEF Log!Continue, Shown

\* What a save reads, and metadata, are no part of it.
LEMMA QuietLog ==
  ASSUME part' = part, UNCHANGED <<messages, lines, dir>>
  PROVE  UNCHANGED Log!vars
BY DEF Log!vars, Shown

\* A step of the run is a step of the log or leaves it alone.
LEMMA LogImplemented ==
  ASSUME IInv, IInv', PartRuns, SessionsInv, [MCNext]_<<vars, part>>
  PROVE  [Log!Next]_Log!vars
<1>1. CASE UNCHANGED <<vars, part>>
  BY <1>1, QuietLog DEF vars
<1>2. CASE MCNext /\ part = "sessions"
  <2>1. part' = part /\ SessionsNext /\ LogInv
    BY <1>2 DEF MCNext, SessionsNext, SessionsInv
  <2>2. CASE AppendMessage
    BY <1>2, <2>1, <2>2, ExtendsLog DEF Log!Next
  <2>3. CASE InsertMessage
    <3> created + 1 \in inserted' /\ inserted' = {}
      BY <2>1, <2>3 DEF InsertMessage, SessionsNext, OneSave
    <3> QED
      OBVIOUS
  <2>4. CASE NewSession \/ Restart
    BY <1>2, <2>1, <2>4, BeginsLog DEF Log!Next
  <2>5. CASE \E s \in Savers : AppendLine(s)
    BY <1>2, <2>1, <2>5, PersistsLog DEF Log!Next
  <2>6. CASE \E s \in Savers : StartSave(s) \/ ReadMeta(s) \/ WriteMeta(s) \/ CancelSave(s)
    <3>1. UNCHANGED <<messages, lines, dir>>
      BY <2>6 DEF StartSave, ReadMeta, WriteMeta, CancelSave, memVars, diskVars, sessionVars
    <3> QED
      BY <2>1, <3>1, QuietLog
  <2>7. CASE Exit \/ Crash
    BY <1>2, <2>1, <2>7, StopsLog DEF Log!Next
  <2>8. CASE \E d \in Dirs : Resume(d)
    BY <1>2, <2>1, <2>8, ContinuesLog DEF Log!Next
  <2> QED
    BY <1>2, <2>2, <2>3, <2>4, <2>5, <2>6, <2>7, <2>8 DEF MCNext, Next
<1>3. CASE MCNext /\ part # "sessions"
  <2>1. /\ part' = part /\ part # "sessions" /\ dirs = 1 /\ dir = 1 /\ made \subseteq {1}
    BY <1>3 DEF MCNext, PartRuns
  <2>2. dir' = dir
    <3>1. PartRuns'
      BY <1>3, PartsStay
    <3> QED
      BY <2>1, <3>1 DEF PartRuns
  <2> QED
    BY <2>1, <2>2 DEF Log!vars, Shown
<1> QED
  BY <1>1, <1>2, <1>3

\* But for torn lines and repetitions, a store with one save at a time is a durable log
\* (session_logger.py): what reaches the file of a session is its conversation, message by
\* message in order and without a gap, over resets, compactions, rewinds, exits and resumed
\* sessions, and over saves that are cancelled or killed at any file operation.
THEOREM StoreIsLog == MCSpec => ImplementsLog
<1>1. MCInit => Log!Init
  <2> SUFFICES ASSUME MCInit PROVE Log!Init
    OBVIOUS
  <2>1. messages = <<>> /\ dir \in Dirs /\ \A d \in Dirs : lines[d] = <<>>
    BY StoreAssumption DEF MCInit, Init, Dirs
  <2> QED
    BY <2>1, OnceNothing DEF Log!Init, Shown
<1> QED
  BY <1>1, PartsSound, SessionsInit, SessionsStep, LogImplemented, PTL
  DEF MCSpec, ImplementsLog, Log!Spec

=============================================================================
