---------------------------- MODULE Rewind_proofs ---------------------------
(***************************************************************************)
(* Proofs about Rewind, for any files, prompts and bounds: that a rewind   *)
(* starts from the message that the selected widget shows, its type, that  *)
(* there is a checkpoint for each prompt and all of them know the same     *)
(* files, and that a rewind brings back the files of its prompt.           *)
(*                                                                         *)
(* The first argument is about widgets and the conversation (WidgetInv),   *)
(* the second about checkpoints and files (RewindInv); they share only     *)
(* what the actions do.                                                    *)
(***************************************************************************)
EXTENDS Rewind, FiniteSetTheorems, SequenceTheorems, TLAPS

-----------------------------------------------------------------------------
(* RewindsToSelected *)

\* What the argument needs of the types; the checkpoints do not matter to it.
WidgetTypes ==
  /\ messages \in Seq(Prompts \union {Reply, Context})
  /\ shown \in [Prompts -> Nat]
  /\ pc \in {"idle", "mounted", "turn", "saving"}
  /\ used \in [prompts : 0..MaxPrompts, edits : Nat, replies : Nat, commands : Nat]
  /\ shifted \in BOOLEAN
  /\ dangling \in 0..Len(messages)
  /\ pc = "saving" => choice.index \in 1..Len(messages)

\* Widgets are mounted in the order of their prompts.
Ordered ==
  /\ \A u \in Prompts : shown[u] # 0 => u <= used.prompts
  /\ \A u, v \in Prompts : u < v /\ shown[u] # 0 /\ shown[v] # 0 => shown[u] < shown[v]

\* The message of a widget is there, but for the one that is about to be sent.
Landed ==
  \A u \in Prompts : shown[u] # 0 =>
    IF pc = "mounted" /\ u = used.prompts
      THEN shown[u] = Len(messages) + 1
      ELSE shown[u] <= Len(messages) /\ messages[shown[u]] = u

\* The rewind under way is to what the widget of its prompt shows.
Chosen ==
  pc = "saving" => /\ choice.prompt \in Prompts
                   /\ choice.index = shown[choice.prompt] /\ shown[choice.prompt] # 0

WidgetInv ==
  /\ WidgetTypes
  /\ pc = "mounted" => used.prompts \in Prompts
  /\ ~shifted => Ordered /\ Landed /\ Chosen

\* Steps that change neither widgets nor the conversation.
LEMMA WidgetsStay ==
  ASSUME WidgetInv, UNCHANGED <<messages, shown, shifted>>, used'.prompts = used.prompts,
         dangling' \in 0..Len(messages),
         used' \in [prompts : 0..MaxPrompts, edits : Nat, replies : Nat, commands : Nat],
         pc' \in {"idle", "mounted", "turn", "saving"}, pc' = "mounted" <=> pc = "mounted",
         pc' = "saving" => pc = "saving" /\ UNCHANGED choice
  PROVE  WidgetInv'
BY DEF WidgetInv, WidgetTypes, Ordered, Landed, Chosen

\* The widget of a prompt is mounted where its message will be, behind all others.
LEMMA MountLands ==
  ASSUME WidgetInv, Mount
  PROVE  WidgetInv'
<1> DEFINE u0 == used.prompts + 1
<1>1. /\ u0 \in Prompts /\ used'.prompts = u0 /\ Len(messages) \in Nat
      /\ shown' = [shown EXCEPT ![u0] = Len(messages) + 1]
      /\ shown' \in [Prompts -> Nat]
  BY RewindAssumption DEF WidgetInv, WidgetTypes, Mount, Prompts
<1>2. WidgetTypes'
  BY <1>1 DEF WidgetInv, WidgetTypes, Mount, Prompts
<1>3. ASSUME ~shifted' PROVE (Ordered /\ Landed /\ Chosen)'
  <2>1. Ordered /\ Landed
    BY <1>3 DEF WidgetInv, Mount
  <2>2. \A u \in Prompts : shown[u] # 0 => u < u0 /\ shown[u] <= Len(messages) /\ messages[shown[u]] = u
    BY <2>1 DEF Ordered, Landed, Mount, WidgetInv, WidgetTypes, Prompts
  <2>3. Ordered'
    BY <1>1, <2>1, <2>2 DEF Ordered, WidgetInv, WidgetTypes, Prompts
  <2>4. Landed'
    BY <1>1, <2>2 DEF Landed, Mount, WidgetInv, WidgetTypes, Prompts
  <2> QED
    BY <2>3, <2>4 DEF Chosen, Mount
<1> QED
  BY <1>1, <1>2, <1>3 DEF WidgetInv

\* The message lands there, if nothing was filled in before it.
LEMMA ActLands ==
  ASSUME WidgetInv, Act
  PROVE  WidgetInv'
<1>1. PICK filled \in Seq(Prompts \union {Reply, Context}) :
        /\ messages' = Append(filled, used.prompts)
        /\ shifted' = (shifted \/ filled # messages)
  <2>1. CASE dangling = 0
    BY <2>1 DEF Act, WidgetInv, WidgetTypes
  <2>2. CASE dangling # 0
    <3>1. InsertAt(messages, dangling + 1, Reply) \in Seq(Prompts \union {Reply, Context})
      BY <2>2 DEF WidgetInv, WidgetTypes, InsertAt
    <3> QED
      BY <2>2, <3>1 DEF Act
  <2> QED
    BY <2>1, <2>2
<1>2. /\ used.prompts \in Prompts /\ pc = "mounted" /\ pc' = "turn"
      /\ UNCHANGED <<shown, used, choice>> /\ dangling' = 0
  BY DEF Act, WidgetInv
<1>3. WidgetTypes'
  <2>1. messages' \in Seq(Prompts \union {Reply, Context}) /\ Len(messages') \in Nat
    BY <1>1, <1>2
  <2> QED
    BY <1>1, <1>2, <2>1 DEF WidgetInv, WidgetTypes
<1>4. ASSUME ~shifted' PROVE (Ordered /\ Landed /\ Chosen)'
  <2>1. Ordered /\ Landed /\ messages' = Append(messages, used.prompts)
    BY <1>1, <1>4 DEF WidgetInv
  <2>2. Landed'
    BY <1>2, <2>1 DEF Landed, WidgetInv, WidgetTypes, Prompts
  <2> QED
    BY <1>2, <2>1, <2>2 DEF Ordered, Chosen
<1> QED
  BY <1>2, <1>3, <1>4 DEF WidgetInv

\* Messages that are appended while no widget waits for its own.
LEMMA AppendLands ==
  ASSUME WidgetInv, NEW m \in {Reply, Context}, messages' = Append(messages, m),
         UNCHANGED <<shown, pc, choice, dangling>>, shifted' = (shifted \/ pc = "mounted"),
         used'.prompts = used.prompts,
         used' \in [prompts : 0..MaxPrompts, edits : Nat, replies : Nat, commands : Nat]
  PROVE  WidgetInv'
<1>1. WidgetTypes'
  BY DEF WidgetInv, WidgetTypes
<1>2. ASSUME ~shifted' PROVE (Ordered /\ Landed /\ Chosen)'
  <2>1. Ordered /\ Landed /\ Chosen /\ pc # "mounted"
    BY <1>2 DEF WidgetInv, WidgetTypes
  <2>2. Landed'
    BY <2>1 DEF Landed, WidgetInv, WidgetTypes, Prompts
  <2> QED
    BY <2>1, <2>2 DEF Ordered, Chosen
<1> QED
  BY <1>1, <1>2 DEF WidgetInv

\* The widgets from the chosen one on go with their messages; the others keep theirs.
LEMMA TruncateLands ==
  ASSUME WidgetInv, Truncate
  PROVE  WidgetInv'
<1> DEFINE kept == [u \in Prompts |-> IF u >= choice.prompt THEN 0 ELSE shown[u]]
<1>1. /\ pc = "saving" /\ pc' = "idle" /\ UNCHANGED <<used, shifted, choice>> /\ shown' = kept
      /\ messages' = SubSeq(messages, 1, choice.index - 1)
  BY DEF Truncate
<1>2. WidgetTypes'
  <2>1. messages' \in Seq(Prompts \union {Reply, Context})
    BY <1>1 DEF WidgetInv, WidgetTypes
  <2>2. shown' \in [Prompts -> Nat]
    BY <1>1 DEF WidgetInv, WidgetTypes
  <2>3. dangling' \in 0..Len(messages')
    BY <1>1 DEF Truncate, WidgetInv, WidgetTypes
  <2> QED
    BY <1>1, <2>1, <2>2, <2>3 DEF WidgetInv, WidgetTypes
<1>3. ASSUME ~shifted' PROVE (Ordered /\ Landed /\ Chosen)'
  <2>1. Ordered /\ Landed /\ Chosen
    BY <1>1, <1>3 DEF WidgetInv
  <2>2. ASSUME NEW u \in Prompts, shown'[u] # 0
        PROVE  shown'[u] = shown[u] /\ shown[u] < choice.index /\ messages[shown[u]] = u
    BY <1>1, <2>1, <2>2 DEF Ordered, Landed, Chosen, WidgetInv, WidgetTypes, Prompts
  <2>3. choice.index \in Nat /\ choice.index <= Len(messages)
    BY <1>1, <2>1 DEF Chosen, Landed, WidgetInv, WidgetTypes
  <2>4. Landed'
    BY <1>1, <2>2, <2>3 DEF Landed, WidgetInv, WidgetTypes, Prompts
  <2>5. Ordered'
    BY <1>1, <2>1, <2>2 DEF Ordered
  <2> QED
    BY <1>1, <2>4, <2>5 DEF Chosen
<1> QED
  BY <1>1, <1>2, <1>3 DEF WidgetInv

\* Each action keeps every widget with its message.
LEMMA WidgetStep ==
  ASSUME WidgetInv, [Next]_vars
  PROVE  WidgetInv'
<1>0. used \in [prompts : 0..MaxPrompts, edits : Nat, replies : Nat, commands : Nat] /\ shifted \in BOOLEAN
  BY DEF WidgetInv, WidgetTypes
<1>1. CASE Respond
  BY <1>0, <1>1, AppendLands DEF Respond
<1>2. CASE InjectUserContext
  BY <1>0, <1>2, AppendLands DEF InjectUserContext
<1>3. CASE EndTurn \/ SaveFails
  BY <1>3, WidgetsStay DEF EndTurn, SaveFails, WidgetInv, WidgetTypes
<1>4. ASSUME NEW f \in Files, BeginWrite(f) \/ Write(f) \/ ChangeOutside(f)
      PROVE  WidgetInv'
  BY <1>4, WidgetsStay DEF BeginWrite, Write, ChangeOutside, Change, WidgetInv, WidgetTypes
<1>5. CASE Clear
  <2>1. /\ messages' = <<>> /\ Len(messages') = 0 /\ shown' = [u \in Prompts |-> 0]
        /\ shifted' = FALSE /\ dangling' = 0 /\ pc' = "idle" /\ used' = used
    BY <1>5 DEF Clear, Reset
  <2>2. messages' \in Seq(Prompts \union {Reply, Context}) /\ shown' \in [Prompts -> Nat]
    BY <2>1
  <2>3. WidgetTypes'
    <3>1. dangling' \in 0..Len(messages')
      BY <2>1
    <3> QED
      BY <1>0, <2>1, <2>2, <3>1 DEF WidgetTypes
  <2> QED
    BY <2>1, <2>3 DEF WidgetInv, Ordered, Landed, Chosen
<1>6. CASE Compact
  <2>1. /\ messages' = <<Context>> /\ Len(messages') = 1 /\ shifted' = TRUE /\ dangling' = 0
        /\ pc' = pc /\ pc \in {"idle", "turn"} /\ UNCHANGED <<shown, used>>
    BY <1>6 DEF Compact, Reset
  <2>2. messages' \in Seq(Prompts \union {Reply, Context})
    BY <2>1
  <2>3. WidgetTypes'
    BY <2>1, <2>2 DEF WidgetInv, WidgetTypes
  <2> QED
    BY <2>1, <2>3 DEF WidgetInv
<1>7. ASSUME NEW u \in Prompts, NEW restore \in BOOLEAN, Rewind(u, restore)
      PROVE  WidgetInv'
  BY <1>7 DEF Rewind, WidgetInv, WidgetTypes, Ordered, Landed, Chosen
<1>8. CASE UNCHANGED vars
  BY <1>8, WidgetsStay DEF vars, WidgetInv, WidgetTypes
<1> QED
  BY <1>1, <1>2, <1>3, <1>4, <1>5, <1>6, <1>7, <1>8, MountLands, ActLands, TruncateLands DEF Next

\* Whatever is mounted, sent, rewound and compacted, a rewind starts from the message
\* that the selected widget shows, until messages move under it (app.py,
\* _execute_rewind; manager.py, rewind_to_message).
THEOREM RewindsLand == Spec => RewindsToSelected
<1>1. Init => WidgetInv
  <2> SUFFICES ASSUME Init PROVE WidgetInv
    OBVIOUS
  <2>1. WidgetTypes
    <3>1. messages \in Seq(Prompts \union {Reply, Context}) /\ Len(messages) = 0
      BY DEF Init
    <3>2. used \in [prompts : 0..MaxPrompts, edits : Nat, replies : Nat, commands : Nat]
      BY RewindAssumption DEF Init
    <3>3. shown \in [Prompts -> Nat] /\ shifted \in BOOLEAN /\ pc = "idle" /\ dangling = 0
      BY DEF Init
    <3> QED
      BY <3>1, <3>2, <3>3 DEF WidgetTypes
  <2>2. \A u \in Prompts : shown[u] = 0
    BY DEF Init
  <2> QED
    BY <2>1, <2>2 DEF Init, WidgetInv, Ordered, Landed, Chosen
<1>2. WidgetInv /\ [Next]_vars => WidgetInv'
  BY WidgetStep
<1>3. WidgetInv /\ [Next]_vars =>
        [RewindStarts /\ ~shifted => messages[choice'.index] = choice'.prompt]_vars
  <2> SUFFICES ASSUME WidgetInv, Next, RewindStarts, ~shifted
               PROVE  messages[choice'.index] = choice'.prompt
    BY DEF vars, RewindStarts
  <2>1. PICK u \in Prompts, restore \in BOOLEAN : Rewind(u, restore)
    BY DEF Next, RewindStarts, Mount, Act, Respond, EndTurn, InjectUserContext, BeginWrite, Write,
           ChangeOutside, Change, Clear, Compact, SaveFails, Truncate
  <2> QED
    BY <2>1 DEF Rewind, WidgetInv, WidgetTypes, Landed
<1> QED
  BY <1>1, <1>2, <1>3, PTL DEF Spec, RewindsToSelected

-----------------------------------------------------------------------------
(* TypeOK, CheckpointsSound and RestoreExact: numbers of a set in their order *)

\* The numbers of a set up to one.
Upto(S, k) == {j \in S : j <= k}

\* The nth numbers of a finite set are its members, each once and in their order.
LEMMA NthIs ==
  ASSUME NEW S \in SUBSET Nat, IsFiniteSet(S)
  PROVE  /\ Cardinality(S) \in Nat
         /\ \A n \in 1..Cardinality(S) : Nth(S, n) \in S
         /\ \A m, n \in 1..Cardinality(S) : m < n => Nth(S, m) < Nth(S, n)
         /\ \A k \in S : \E n \in 1..Cardinality(S) : Nth(S, n) = k
<1> DEFINE N == Cardinality(S)
           rank == [k \in S |-> Cardinality(Upto(S, k))]
<1>0. N \in Nat
  BY FS_CardinalityType
<1>1. ASSUME NEW k \in S PROVE rank[k] \in 1..N
  <2>1. Upto(S, k) \subseteq S /\ k \in Upto(S, k)
    BY DEF Upto
  <2>2. IsFiniteSet(Upto(S, k)) /\ Cardinality(Upto(S, k)) <= N
    BY <2>1, FS_Subset
  <2>3. Cardinality(Upto(S, k)) # 0 /\ Cardinality(Upto(S, k)) \in Nat
    BY <2>1, <2>2, FS_EmptySet, FS_CardinalityType
  <2> QED BY <1>0, <2>2, <2>3
<1>2. ASSUME NEW j \in S, NEW k \in S, j < k PROVE rank[j] < rank[k]
  <2> DEFINE J == Upto(S, j)
             K == Upto(S, k)
  <2>0. j \in Nat /\ k \in Nat /\ \A i \in S : i \in Nat
    OBVIOUS
  <2>1. J \subseteq K /\ k \in K /\ k \notin J /\ K \subseteq S
    <3>1. \A i \in S : i <= j => i <= k
      BY <1>2, <2>0
    <3>2. ~(k <= j) /\ k <= k
      BY <1>2, <2>0
    <3> QED BY <3>1, <3>2 DEF Upto
  <2> HIDE DEF J, K
  <2>2. IsFiniteSet(J) /\ IsFiniteSet(K)
    BY <2>1, FS_Subset
  <2>3. Cardinality(J) <= Cardinality(K) /\ Cardinality(J) # Cardinality(K)
    BY <2>1, <2>2, FS_Subset
  <2>4. Cardinality(J) \in Nat /\ Cardinality(K) \in Nat
    BY <2>2, FS_CardinalityType
  <2>5. Cardinality(J) < Cardinality(K)
    BY <2>3, <2>4
  <2> QED BY <2>5 DEF J, K
<1> HIDE DEF rank
<1>3. \A j, k \in S : rank[j] < rank[k] => j < k
  <2> SUFFICES ASSUME NEW j \in S, NEW k \in S, rank[j] < rank[k], ~(j < k) PROVE FALSE
    OBVIOUS
  <2>1. j \in Nat /\ k \in Nat /\ rank[j] \in Nat /\ rank[k] \in Nat
    BY <1>0, <1>1
  <2>2. j = k \/ k < j
    BY <2>1
  <2> QED BY <1>2, <2>1, <2>2
<1>4. rank \in Injection(S, 1..N)
  <2>1. rank = [k \in S |-> rank[k]]
    BY DEF rank
  <2>2. rank \in [S -> 1..N]
    BY <1>1, <2>1
  <2>3. \A j, k \in S : rank[j] = rank[k] => j = k
    <3> SUFFICES ASSUME NEW j \in S, NEW k \in S, rank[j] = rank[k], j # k PROVE FALSE
      OBVIOUS
    <3>1. j \in Nat /\ k \in Nat /\ rank[j] \in Nat /\ rank[k] \in Nat
      BY <1>0, <1>1
    <3>2. j < k \/ k < j
      BY <3>1
    <3> QED BY <1>2, <3>1, <3>2
  <2> QED BY <2>2, <2>3 DEF Injection, IsInjective
<1>5. IsFiniteSet(1..N) /\ Cardinality(1..N) = N
  BY <1>0, FS_Interval
<1>6. rank \in Surjection(S, 1..N)
  <2> HIDE DEF N
  <2>1. N = Cardinality(S)
    BY DEF N
  <2> QED BY <1>4, <1>5, <2>1, FS_Injection
<1>7. \A n \in 1..N : \E k \in S : rank[k] = n
  BY <1>6 DEF Surjection
<1>8. \A n \in 1..N : Nth(S, n) \in S /\ rank[Nth(S, n)] = n
  BY <1>7 DEF Nth, rank, Upto
<1>9. ASSUME NEW m \in 1..N, NEW n \in 1..N, m < n PROVE Nth(S, m) < Nth(S, n)
  <2>1. rank[Nth(S, m)] < rank[Nth(S, n)]
    BY <1>8, <1>9
  <2> QED BY <1>3, <1>8, <2>1
<1>10. \A k \in S : Nth(S, rank[k]) = k
  <2> SUFFICES ASSUME NEW k \in S PROVE Nth(S, rank[k]) = k
    OBVIOUS
  <2>1. Nth(S, rank[k]) \in S /\ rank[Nth(S, rank[k])] = rank[k]
    BY <1>1, <1>8
  <2> QED BY <2>1, <1>4 DEF Injection, IsInjective
<1> QED
  BY <1>0, <1>1, <1>8, <1>9, <1>10

-----------------------------------------------------------------------------
(* Checkpoints *)

\* An index, and the contents of files.
Checkpoint == [index : Nat, files : UNION {[d -> Contents] : d \in SUBSET Files}]

\* A checkpoint is an index and the contents of some files.
LEMMA CheckpointIs ==
  /\ \A cp \in Checkpoint :
       /\ cp = [index |-> cp.index, files |-> cp.files]
       /\ cp.index \in Nat /\ DOMAIN cp.files \subseteq Files
       /\ cp.files \in [DOMAIN cp.files -> Contents]
  /\ \A i \in Nat : \A d \in SUBSET Files : \A s \in [d -> Contents] :
       [index |-> i, files |-> s] \in Checkpoint
<1>1. ASSUME NEW cp \in Checkpoint
      PROVE  /\ cp = [index |-> cp.index, files |-> cp.files]
             /\ cp.index \in Nat /\ DOMAIN cp.files \subseteq Files
             /\ cp.files \in [DOMAIN cp.files -> Contents]
  <2>1. cp = [index |-> cp.index, files |-> cp.files] /\ cp.index \in Nat
    BY DEF Checkpoint
  <2>2. PICK d \in SUBSET Files : cp.files \in [d -> Contents]
    BY DEF Checkpoint
  <2>3. DOMAIN cp.files = d
    BY <2>2
  <2> QED BY <2>1, <2>2, <2>3
<1>2. ASSUME NEW i \in Nat, NEW d \in SUBSET Files, NEW s \in [d -> Contents]
      PROVE  [index |-> i, files |-> s] \in Checkpoint
  <2>1. s \in UNION {[e -> Contents] : e \in SUBSET Files}
    OBVIOUS
  <2> QED BY <2>1 DEF Checkpoint
<1> QED BY <1>1, <1>2

\* What the checkpoints are once every one of them knows a file.
LEMMA SnapshotAdded ==
  ASSUME checkpoints \in Seq(Checkpoint), NEW f \in Files, NEW content \in Contents, AddSnapshot(f, content)
  PROVE  /\ checkpoints' \in Seq(Checkpoint) /\ Len(checkpoints') = Len(checkpoints)
         /\ \A k \in 1..Len(checkpoints) :
              /\ checkpoints'[k].index = checkpoints[k].index
              /\ DOMAIN checkpoints'[k].files = DOMAIN checkpoints[k].files \union {f}
              /\ \A g \in DOMAIN checkpoints[k].files : checkpoints'[k].files[g] = checkpoints[k].files[g]
              /\ f \notin DOMAIN checkpoints[k].files => checkpoints'[k].files[f] = content
<1> DEFINE added(cp) == [cp EXCEPT !.files = [g \in DOMAIN cp.files \union {f} |->
                                               IF g = f THEN content ELSE cp.files[g]]]
<1>1. ASSUME NEW cp \in Checkpoint
      PROVE  /\ added(cp) \in Checkpoint /\ added(cp).index = cp.index
             /\ DOMAIN added(cp).files = DOMAIN cp.files \union {f}
             /\ added(cp).files[f] = content
             /\ \A g \in DOMAIN cp.files : g # f => added(cp).files[g] = cp.files[g]
  <2> DEFINE s == [g \in DOMAIN cp.files \union {f} |-> IF g = f THEN content ELSE cp.files[g]]
  <2>1. DOMAIN cp.files \subseteq Files /\ cp.files \in [DOMAIN cp.files -> Contents] /\ cp.index \in Nat
        /\ cp = [index |-> cp.index, files |-> cp.files]
    BY CheckpointIs
  <2>2. added(cp) = [index |-> cp.index, files |-> s]
    BY <2>1
  <2>3. s \in [DOMAIN cp.files \union {f} -> Contents]
    BY <2>1
  <2>4. DOMAIN s = DOMAIN cp.files \union {f} /\ s[f] = content
        /\ \A g \in DOMAIN cp.files : g # f => s[g] = cp.files[g]
    OBVIOUS
  <2>5. DOMAIN cp.files \union {f} \in SUBSET Files
    BY <2>1
  <2> HIDE DEF s
  <2>6. [index |-> cp.index, files |-> s] \in Checkpoint
    BY <2>1, <2>3, <2>5, CheckpointIs
  <2> HIDE DEF added
  <2> QED BY <2>2, <2>4, <2>6
<1>2. checkpoints' = [k \in 1..Len(checkpoints) |->
        IF f \in DOMAIN checkpoints[k].files THEN checkpoints[k] ELSE added(checkpoints[k])]
  BY DEF AddSnapshot
<1> HIDE DEF added
<1>3. \A k \in 1..Len(checkpoints) : checkpoints[k] \in Checkpoint
  OBVIOUS
<1>4. \A k \in 1..Len(checkpoints) : checkpoints'[k] \in Checkpoint
  BY <1>1, <1>2, <1>3
<1>5. checkpoints' \in Seq(Checkpoint) /\ Len(checkpoints') = Len(checkpoints)
  <2>1. checkpoints' = [k \in 1..Len(checkpoints) |-> checkpoints'[k]] /\ Len(checkpoints) \in Nat
    BY <1>2
  <2> QED BY <1>4, <2>1
<1>6. ASSUME NEW k \in 1..Len(checkpoints)
      PROVE  /\ checkpoints'[k].index = checkpoints[k].index
             /\ DOMAIN checkpoints'[k].files = DOMAIN checkpoints[k].files \union {f}
             /\ \A g \in DOMAIN checkpoints[k].files : checkpoints'[k].files[g] = checkpoints[k].files[g]
             /\ f \notin DOMAIN checkpoints[k].files => checkpoints'[k].files[f] = content
  <2>1. CASE f \in DOMAIN checkpoints[k].files
    <3>1. checkpoints'[k] = checkpoints[k]
      BY <1>2, <2>1
    <3> QED BY <2>1, <3>1
  <2>2. CASE f \notin DOMAIN checkpoints[k].files
    <3>1. checkpoints'[k] = added(checkpoints[k])
      BY <1>2, <2>2
    <3> QED BY <1>1, <1>3, <2>2, <3>1
  <2> QED BY <2>1, <2>2
<1> QED BY <1>5, <1>6

\* The checkpoints that are kept when the conversation is cut off before a message.
LEMMA KeptBefore ==
  ASSUME checkpoints \in Seq(Checkpoint), NEW i \in Nat
  PROVE  /\ Before(i) \in Seq(Checkpoint) /\ Len(Before(i)) \in Nat
         /\ \E at \in [1..Len(Before(i)) -> 1..Len(checkpoints)] :
              /\ \A n \in 1..Len(Before(i)) :
                   Before(i)[n] = checkpoints[at[n]] /\ checkpoints[at[n]].index < i
              /\ \A m, n \in 1..Len(Before(i)) : m < n => at[m] < at[n]
              /\ \A k \in 1..Len(checkpoints) : checkpoints[k].index < i =>
                   \E n \in 1..Len(Before(i)) : at[n] = k
<1> DEFINE S == {k \in DOMAIN checkpoints : checkpoints[k].index < i}
           N == Cardinality(S)
           at == [n \in 1..N |-> Nth(S, n)]
<1>1. S \subseteq 1..Len(checkpoints) /\ Len(checkpoints) \in Nat
  OBVIOUS
<1>2. IsFiniteSet(S) /\ S \in SUBSET Nat
  <2> HIDE DEF S
  <2>1. IsFiniteSet(1..Len(checkpoints))
    BY <1>1, FS_Interval
  <2>2. IsFiniteSet(S)
    BY <1>1, <2>1, FS_Subset
  <2>3. 1..Len(checkpoints) \subseteq Nat
    BY <1>1
  <2> QED BY <1>1, <2>2, <2>3
<1>3. Before(i) = [n \in 1..N |-> checkpoints[Nth(S, n)]]
  BY DEF Before
<1>4. \A k \in 1..Len(checkpoints) : k \in S <=> checkpoints[k].index < i
  OBVIOUS
<1> HIDE DEF S
<1>5. /\ N \in Nat
      /\ \A n \in 1..N : Nth(S, n) \in S
      /\ \A m, n \in 1..N : m < n => Nth(S, m) < Nth(S, n)
      /\ \A k \in S : \E n \in 1..N : Nth(S, n) = k
  BY <1>2, NthIs
<1> HIDE DEF N
<1>6. at \in [1..N -> 1..Len(checkpoints)] /\ \A n \in 1..N : at[n] = Nth(S, n)
  BY <1>1, <1>5
<1> HIDE DEF at
<1>7. Before(i) \in Seq(Checkpoint) /\ Len(Before(i)) = N
  <2>0. \A k \in 1..Len(checkpoints) : checkpoints[k] \in Checkpoint
    OBVIOUS
  <2>1. \A n \in 1..N : checkpoints[Nth(S, n)] \in Checkpoint
    BY <1>1, <1>5, <2>0
  <2> QED BY <1>3, <1>5, <2>1
<1>8. \A n \in 1..N : Before(i)[n] = checkpoints[at[n]] /\ checkpoints[at[n]].index < i
  BY <1>1, <1>3, <1>4, <1>5, <1>6
<1>9. \A m, n \in 1..N : m < n => at[m] < at[n]
  BY <1>5, <1>6
<1>10. \A k \in 1..Len(checkpoints) : checkpoints[k].index < i => \E n \in 1..N : at[n] = k
  BY <1>4, <1>5, <1>6
<1> QED BY <1>5, <1>6, <1>7, <1>8, <1>9, <1>10

-----------------------------------------------------------------------------
(* The inductive invariant *)

\* Messages of the conversation.
Said == Prompts \union {Reply, Context}

\* Where its prompts are.
PromptsAt(ms) == {i \in 1..Len(ms) : ms[i] \in Prompts}

\* Checkpoints are in the order of their messages.
Rising ==
  \A j, k \in 1..Len(checkpoints) : j < k => checkpoints[j].index < checkpoints[k].index

\* No prompt is behind the place where a response is missing.
NoneBehind ==
  dangling > 0 => \A i \in (dangling + 1)..Len(messages) : messages[i] \notin Prompts

\* The prompt that is about to be sent is not in the conversation.
SentOnce ==
  \A i \in PromptsAt(messages) :
    messages[i] <= used.prompts /\ (pc = "mounted" => messages[i] # used.prompts)

\* A checkpoint has the files as they were when its prompt was sent; those that it does
\* not know still are as they were.
FilesKnown ==
  \A k \in 1..Len(checkpoints) : \A f \in Files \ missed :
    (IF f \in DOMAIN checkpoints[k].files THEN checkpoints[k].files[f] ELSE disk[f])
      = original[messages[checkpoints[k].index]][f]

\* The type, and where a prompt and an index must be.
RewindType ==
  /\ TypeOK
  /\ checkpoints \in Seq(Checkpoint)
  /\ pc = "mounted" => used.prompts \in Prompts
  /\ pc = "saving" => choice.index \in 1..Len(messages)

\* The inductive invariant.
RewindInv == RewindType /\ Rising /\ CheckpointsSound /\ NoneBehind /\ SentOnce /\ FilesKnown

-----------------------------------------------------------------------------
(* Types *)

\* What can be in a conversation; responses and context are no prompts.
LEMMA SaidFacts ==
  /\ Reply \in Said /\ Context \in Said /\ Prompts \subseteq Said
  /\ Reply \notin Prompts /\ Context \notin Prompts
  /\ <<>> \in Seq(Said) /\ <<Context>> \in Seq(Said)
  /\ MaxPrompts \in Nat /\ MaxEdits \in Nat /\ MaxReplies \in Nat /\ MaxCommands \in Nat
BY RewindAssumption DEF Said, Reply, Context, Prompts

\* The parts of the type that most steps need.
LEMMA TypeFacts ==
  ASSUME RewindType
  PROVE  /\ messages \in Seq(Said) /\ Len(messages) \in Nat /\ checkpoints \in Seq(Checkpoint)
         /\ Len(checkpoints) \in Nat
         /\ used \in [prompts : 0..MaxPrompts, edits : 0..MaxEdits, replies : 0..MaxReplies,
                      commands : 0..MaxCommands]
         /\ used.prompts \in 0..MaxPrompts /\ used.edits \in 0..MaxEdits
         /\ used.replies \in 0..MaxReplies /\ used.commands \in 0..MaxCommands
         /\ disk \in [Files -> Contents] /\ missed \subseteq Files
         /\ original \in [Prompts -> [Files -> Contents]]
         /\ dangling \in Nat /\ dangling <= Len(messages)
BY DEF RewindType, TypeOK, Said

\* The types of the checkpoints, as TypeOK has them.
LEMMA CheckpointsTyped ==
  ASSUME NEW cps \in Seq(Checkpoint)
  PROVE  \A k \in DOMAIN cps : /\ DOMAIN cps[k].files \subseteq Files
                               /\ cps[k].files \in [DOMAIN cps[k].files -> Contents]
<1>1. \A k \in DOMAIN cps : cps[k] \in Checkpoint
  OBVIOUS
<1> QED BY <1>1, CheckpointIs

\* Inserting a response moves what is behind it.
LEMMA Inserted ==
  ASSUME NEW ms \in Seq(Said), NEW d \in 1..Len(ms)
  PROVE  LET fs == InsertAt(ms, d + 1, Reply) IN
         /\ fs \in Seq(Said) /\ Len(fs) = Len(ms) + 1
         /\ \A i \in 1..d : fs[i] = ms[i]
         /\ fs[d + 1] = Reply
         /\ \A i \in (d + 2)..(Len(ms) + 1) : fs[i] = ms[i - 1]
<1> DEFINE as == SubSeq(ms, 1, d)
           bs == SubSeq(ms, d + 1, Len(ms))
           rs == <<Reply>>
           fs == (as \o rs) \o bs
<1>0. Len(ms) \in Nat /\ d \in Nat /\ d <= Len(ms) /\ 1 <= d
  OBVIOUS
<1>1. InsertAt(ms, d + 1, Reply) = fs
  <2>1. (d + 1) - 1 = d
    BY <1>0
  <2> QED BY <2>1, Zenon DEF InsertAt
<1>2. as \in Seq(Said) /\ Len(as) = d /\ \A i \in 1..d : as[i] = ms[i]
  BY <1>0
<1>3. bs \in Seq(Said) /\ Len(bs) = Len(ms) - d /\ \A i \in 1..(Len(ms) - d) : bs[i] = ms[d + i]
  BY <1>0
<1>4. rs \in Seq(Said) /\ Len(rs) = 1 /\ rs[1] = Reply
  <2>1. Reply \in Said
    BY SaidFacts
  <2> HIDE DEF Said
  <2> QED BY <2>1
<1> HIDE DEF as, bs, rs, Said
<1> DEFINE cs == as \o rs
<1>5. cs \in Seq(Said) /\ Len(cs) = d + 1 /\ (\A i \in 1..d : cs[i] = ms[i]) /\ cs[d + 1] = Reply
  <2>1. /\ cs \in Seq(Said) /\ Len(cs) = Len(as) + Len(rs)
        /\ \A i \in 1..(Len(as) + Len(rs)) : cs[i] = IF i <= Len(as) THEN as[i] ELSE rs[i - Len(as)]
    BY <1>2, <1>4, ConcatProperties
  <2> HIDE DEF cs
  <2>5. Len(as) + Len(rs) = d + 1
    BY <1>2, <1>4
  <2>6. \A i \in 1..(d + 1) : cs[i] = IF i <= d THEN as[i] ELSE rs[i - d]
    BY <1>2, <2>1, <2>5, Zenon
  <2>7. \A i \in 1..d : i \in 1..(d + 1) /\ i <= d
    BY <1>0
  <2>8. d + 1 \in 1..(d + 1) /\ ~(d + 1 <= d)
    BY <1>0
  <2>2. Len(cs) = d + 1 /\ \A i \in 1..d : cs[i] = ms[i]
    BY <1>2, <2>1, <2>5, <2>6, <2>7, Zenon
  <2>3. cs[d + 1] = rs[(d + 1) - d]
    BY <2>6, <2>8, Zenon
  <2>4. (d + 1) - d = 1
    BY <1>0
  <2> QED BY <1>4, <2>1, <2>2, <2>3, <2>4
<1> HIDE DEF cs
<1>6. fs = cs \o bs
  BY DEF cs
<1> HIDE DEF fs
<1>11. /\ fs \in Seq(Said) /\ Len(fs) = Len(cs) + Len(bs)
        /\ \A i \in 1..(Len(cs) + Len(bs)) : fs[i] = IF i <= Len(cs) THEN cs[i] ELSE bs[i - Len(cs)]
  BY <1>3, <1>5, <1>6, ConcatProperties
<1>7. fs \in Seq(Said) /\ Len(fs) = Len(ms) + 1
  BY <1>0, <1>3, <1>5, <1>11
<1>8. \A i \in 1..(d + 1) : fs[i] = cs[i]
  <2>1. \A i \in 1..(d + 1) : i \in 1..(Len(cs) + Len(bs)) /\ i <= Len(cs)
    BY <1>0, <1>3, <1>5
  <2> QED BY <1>11, <2>1, Zenon
<1>9. ASSUME NEW i \in (d + 2)..(Len(ms) + 1) PROVE fs[i] = ms[i - 1]
  <2>1. i - (d + 1) \in 1..(Len(ms) - d) /\ i \in (Len(cs) + 1)..(Len(cs) + Len(bs))
    BY <1>0, <1>3, <1>5
  <2>2. fs[i] = bs[i - (d + 1)]
    BY <1>0, <1>3, <1>5, <1>11, <2>1
  <2>3. d + (i - (d + 1)) = i - 1
    BY <1>0
  <2> QED BY <1>3, <2>1, <2>2, <2>3
<1>10. (\A i \in 1..d : fs[i] = ms[i]) /\ fs[d + 1] = Reply
  <2>1. d + 1 \in 1..(d + 1) /\ \A i \in 1..d : i \in 1..(d + 1)
    BY <1>0
  <2> QED BY <1>5, <1>8, <2>1
<1> QED BY <1>1, <1>7, <1>9, <1>10

\* What Act makes of the conversation before it appends the prompt.
LEMMA FilledIn ==
  ASSUME RewindType, NoneBehind
  PROVE  LET fs == IF dangling = 0 THEN messages ELSE InsertAt(messages, dangling + 1, Reply) IN
         /\ fs \in Seq(Said) /\ Len(fs) \in Nat /\ Len(fs) >= Len(messages)
         /\ PromptsAt(fs) = PromptsAt(messages)
         /\ \A i \in PromptsAt(messages) : fs[i] = messages[i]
<1> DEFINE fs == IF dangling = 0 THEN messages ELSE InsertAt(messages, dangling + 1, Reply)
<1>0. messages \in Seq(Said) /\ Len(messages) \in Nat /\ dangling \in Nat /\ dangling <= Len(messages)
  BY TypeFacts
<1>1. CASE dangling = 0
  BY <1>0, <1>1
<1>2. CASE dangling # 0
  <2>1. dangling \in 1..Len(messages) /\ fs = InsertAt(messages, dangling + 1, Reply)
    BY <1>0, <1>2
  <2> HIDE DEF fs
  <2>2. /\ fs \in Seq(Said) /\ Len(fs) = Len(messages) + 1
        /\ \A i \in 1..dangling : fs[i] = messages[i]
        /\ fs[dangling + 1] = Reply
        /\ \A i \in (dangling + 2)..(Len(messages) + 1) : fs[i] = messages[i - 1]
    BY <1>0, <2>1, Inserted
  <2>3. \A i \in (dangling + 1)..Len(messages) : messages[i] \notin Prompts
    BY <1>2, <1>0 DEF NoneBehind
  <2>4. \A i \in 1..Len(messages) : messages[i] \in Prompts => i \in 1..dangling
    BY <1>0, <2>3
  <2>5. \A i \in 1..Len(fs) : fs[i] \in Prompts => i \in 1..dangling
    <3> SUFFICES ASSUME NEW i \in 1..Len(fs), i \notin 1..dangling PROVE fs[i] \notin Prompts
      OBVIOUS
    <3>1. i = dangling + 1 \/ i \in (dangling + 2)..(Len(messages) + 1)
      BY <1>0, <2>2
    <3>2. CASE i = dangling + 1
      BY <2>2, <3>2, SaidFacts
    <3>3. CASE i \in (dangling + 2)..(Len(messages) + 1)
      <4>1. i - 1 \in (dangling + 1)..Len(messages)
        BY <1>0, <3>3
      <4> QED BY <2>2, <2>3, <3>3, <4>1
    <3> QED BY <3>1, <3>2, <3>3
  <2>6. \A i \in 1..dangling : i \in 1..Len(messages) /\ i \in 1..Len(fs)
    BY <1>0, <2>2
  <2>7. PromptsAt(fs) = PromptsAt(messages) /\ \A i \in PromptsAt(messages) : fs[i] = messages[i]
    BY <2>2, <2>4, <2>5, <2>6 DEF PromptsAt
  <2>8. Len(fs) \in Nat /\ Len(fs) >= Len(messages)
    BY <1>0, <2>2
  <2> QED BY <2>2, <2>7, <2>8 DEF fs
<1> QED BY <1>1, <1>2

\* A message that is no prompt leaves the prompts where they are.
LEMMA PlainAppended ==
  ASSUME NEW ms \in Seq(Said), NEW m \in Said, m \notin Prompts
  PROVE  LET ns == Append(ms, m) IN
         /\ ns \in Seq(Said) /\ Len(ns) = Len(ms) + 1
         /\ PromptsAt(ns) = PromptsAt(ms) /\ \A i \in PromptsAt(ms) : ns[i] = ms[i]
<1> DEFINE ns == Append(ms, m)
<1> HIDE DEF Said
<1>1. ns \in Seq(Said) /\ Len(ns) = Len(ms) + 1 /\ Len(ms) \in Nat /\ ns[Len(ms) + 1] = m
      /\ \A i \in 1..Len(ms) : ns[i] = ms[i]
  OBVIOUS
<1> HIDE DEF ns
<1>2. \A i \in 1..Len(ns) : i \in 1..Len(ms) \/ i = Len(ms) + 1
  BY <1>1
<1>3. \A i \in 1..Len(ms) : i \in 1..Len(ns)
  BY <1>1
<1>4. PromptsAt(ns) = PromptsAt(ms) /\ \A i \in PromptsAt(ms) : ns[i] = ms[i]
  BY <1>1, <1>2, <1>3 DEF PromptsAt
<1> QED BY <1>1, <1>4 DEF ns

-----------------------------------------------------------------------------
(* What the steps do to prompts, checkpoints and files *)

\* Each checkpoint is one of a prompt, and each prompt has one.
PerPrompt(cps, ms) ==
  /\ \A k \in 1..Len(cps) : cps[k].index \in PromptsAt(ms)
  /\ \A i \in PromptsAt(ms) : \E k \in 1..Len(cps) : cps[k].index = i

\* CheckpointPerPrompt without sets.
LEMMA PerPromptIs ==
  ASSUME NEW cps \in Seq(Checkpoint), NEW ms \in Seq(Said)
  PROVE  {cps[k].index : k \in DOMAIN cps} = {i \in DOMAIN ms : ms[i] \in Prompts} <=> PerPrompt(cps, ms)
<1>1. DOMAIN cps = 1..Len(cps) /\ DOMAIN ms = 1..Len(ms)
  OBVIOUS
<1> QED BY <1>1 DEF PerPrompt, PromptsAt

\* All but where responses are missing.
FilesSound == Rising /\ CheckpointsSound /\ SentOnce /\ FilesKnown

\* Steps that leave the prompts of the conversation, the checkpoints and the files.
LEMMA PromptsStay ==
  ASSUME RewindInv, RewindType', UNCHANGED <<checkpoints, original, missed, disk>>,
         PromptsAt(messages') = PromptsAt(messages),
         \A i \in PromptsAt(messages) : messages'[i] = messages[i],
         \/ used'.prompts = used.prompts /\ (pc' = "mounted" => pc = "mounted")
         \/ used'.prompts = used.prompts + 1
  PROVE  FilesSound'
<1>0. /\ messages \in Seq(Said) /\ messages' \in Seq(Said) /\ checkpoints \in Seq(Checkpoint)
      /\ used.prompts \in Nat /\ \A i \in PromptsAt(messages) : messages[i] \in Nat
  <2>1. RewindType /\ messages' \in Seq(Said)
    BY DEF RewindInv, RewindType, TypeOK, Said
  <2> QED BY <2>1, TypeFacts DEF PromptsAt, Prompts
<1>1. PerPrompt(checkpoints, messages)
  BY <1>0, PerPromptIs DEF RewindInv, CheckpointsSound, CheckpointPerPrompt
<1>2. (Rising /\ SameFiles)'
  BY DEF RewindInv, Rising, CheckpointsSound, SameFiles
<1>3. PerPrompt(checkpoints, messages')
  BY <1>1 DEF PerPrompt
<1>4. CheckpointPerPrompt'
  <2>1. {checkpoints[k].index : k \in DOMAIN checkpoints} = {i \in DOMAIN messages' : messages'[i] \in Prompts}
    BY <1>0, <1>3, PerPromptIs
  <2> QED BY <2>1 DEF CheckpointPerPrompt
<1>5. SentOnce'
  <2>1. \A i \in PromptsAt(messages) : messages[i] <= used'.prompts /\ (pc' = "mounted" => messages[i] # used'.prompts)
    BY <1>0 DEF RewindInv, SentOnce
  <2> QED BY <2>1 DEF SentOnce
<1>6. FilesKnown'
  <2>1. \A k \in 1..Len(checkpoints) : messages'[checkpoints[k].index] = messages[checkpoints[k].index]
    BY <1>1 DEF PerPrompt
  <2> QED BY <2>1 DEF RewindInv, FilesKnown
<1> QED BY <1>2, <1>4, <1>5, <1>6 DEF FilesSound, CheckpointsSound

\* Steps after which there is no checkpoint and no prompt.
LEMMA PromptsGo ==
  ASSUME RewindType', checkpoints' = <<>>, PromptsAt(messages') = {}
  PROVE  FilesSound'
<1>0. messages' \in Seq(Said)
  BY DEF RewindType, TypeOK, Said
<1>1. checkpoints' \in Seq(Checkpoint) /\ Len(checkpoints') = 0 /\ DOMAIN checkpoints' = {}
  OBVIOUS
<1>2. CheckpointPerPrompt'
  <2>1. PerPrompt(checkpoints', messages')
    BY <1>1 DEF PerPrompt
  <2>2. {checkpoints'[k].index : k \in DOMAIN checkpoints'} = {i \in DOMAIN messages' : messages'[i] \in Prompts}
    BY <1>0, <1>1, <2>1, PerPromptIs
  <2> QED BY <2>2 DEF CheckpointPerPrompt
<1>3. (Rising /\ SameFiles /\ FilesKnown)'
  BY <1>1 DEF Rising, SameFiles, FilesKnown
<1>4. SentOnce'
  BY DEF SentOnce
<1> QED BY <1>2, <1>3, <1>4 DEF FilesSound, CheckpointsSound

\* A file changes: tools know it, or it counts as missed.
LEMMA FileChanges ==
  ASSUME RewindInv, RewindType', NEW f \in Files, NEW content, Change(f, content)
  PROVE  FilesSound'
<1>0. /\ disk' = [disk EXCEPT ![f] = content] /\ used'.prompts = used.prompts
      /\ UNCHANGED <<messages, checkpoints, original, pc>>
      /\ missed' = IF checkpoints # <<>> /\ f \notin Known THEN missed \union {f} ELSE missed
  BY TypeFacts DEF Change, RewindInv
<1>1. (Rising /\ CheckpointsSound /\ SentOnce)'
  BY <1>0 DEF RewindInv, Rising, CheckpointsSound, CheckpointPerPrompt, SameFiles, SentOnce
<1>2. FilesKnown'
  <2> SUFFICES ASSUME NEW k \in 1..Len(checkpoints), NEW g \in Files \ missed'
               PROVE  (IF g \in DOMAIN checkpoints[k].files THEN checkpoints[k].files[g] ELSE disk'[g])
                        = original[messages[checkpoints[k].index]][g]
    BY <1>0 DEF FilesKnown
  <2>1. g \in Files \ missed
    BY <1>0
  <2>2. (IF g \in DOMAIN checkpoints[k].files THEN checkpoints[k].files[g] ELSE disk[g])
          = original[messages[checkpoints[k].index]][g]
    BY <2>1 DEF RewindInv, FilesKnown
  <2>3. CASE g # f
    <3>1. disk'[g] = disk[g]
      BY <1>0, <2>1, <2>3, TypeFacts DEF RewindInv
    <3> QED BY <2>2, <3>1
  <2>4. CASE g = f
    <3>1. DOMAIN checkpoints = 1..Len(checkpoints) /\ checkpoints # <<>>
      BY TypeFacts DEF RewindInv
    <3>2. f \in Known
      BY <1>0, <2>4, <3>1
    <3>3. f \in DOMAIN checkpoints[k].files
      BY <3>1, <3>2 DEF Known, RewindInv, CheckpointsSound, SameFiles
    <3> QED BY <2>2, <2>4, <3>3
  <2> QED BY <2>3, <2>4
<1> QED BY <1>1, <1>2 DEF FilesSound

\* A tool's snapshot is what every checkpoint lacks, if the file could be read.
LEMMA SnapshotSound ==
  ASSUME RewindInv, RewindType', NEW f \in Files, BeginWrite(f)
  PROVE  FilesSound'
<1>1. PICK content \in Reading(f) :
        /\ AddSnapshot(f, content)
        /\ missed' = IF content # disk[f] THEN missed \union {f} ELSE missed
  BY DEF BeginWrite
<1>2. UNCHANGED <<messages, disk, original, used, pc>>
  BY DEF BeginWrite
<1>3. /\ checkpoints \in Seq(Checkpoint) /\ messages \in Seq(Said) /\ content \in Contents
      /\ Len(checkpoints) \in Nat
  BY TypeFacts, SaidFacts DEF RewindInv, Reading, Contents, Torn, Absent
<1>4. /\ checkpoints' \in Seq(Checkpoint) /\ Len(checkpoints') = Len(checkpoints)
      /\ \A k \in 1..Len(checkpoints) :
           /\ checkpoints'[k].index = checkpoints[k].index
           /\ DOMAIN checkpoints'[k].files = DOMAIN checkpoints[k].files \union {f}
           /\ \A g \in DOMAIN checkpoints[k].files : checkpoints'[k].files[g] = checkpoints[k].files[g]
           /\ f \notin DOMAIN checkpoints[k].files => checkpoints'[k].files[f] = content
  BY <1>1, <1>3, SnapshotAdded
<1>5. (Rising /\ SentOnce)'
  BY <1>2, <1>4 DEF RewindInv, Rising, SentOnce
<1>6. CheckpointPerPrompt'
  <2>1. PerPrompt(checkpoints, messages)
    BY <1>3, PerPromptIs DEF RewindInv, CheckpointsSound, CheckpointPerPrompt
  <2>2. PerPrompt(checkpoints', messages)
    BY <1>4, <2>1 DEF PerPrompt
  <2>3. {checkpoints'[k].index : k \in DOMAIN checkpoints'} = {i \in DOMAIN messages : messages[i] \in Prompts}
    BY <1>3, <1>4, <2>2, PerPromptIs
  <2> QED BY <1>2, <2>3 DEF CheckpointPerPrompt
<1>7. SameFiles'
  <2>1. DOMAIN checkpoints = 1..Len(checkpoints) /\ DOMAIN checkpoints' = 1..Len(checkpoints)
    BY <1>3, <1>4
  <2> QED BY <1>4, <2>1 DEF RewindInv, CheckpointsSound, SameFiles
<1>8. FilesKnown'
  <2> SUFFICES ASSUME NEW k \in 1..Len(checkpoints), NEW g \in Files \ missed'
               PROVE  (IF g \in DOMAIN checkpoints'[k].files THEN checkpoints'[k].files[g] ELSE disk[g])
                        = original[messages[checkpoints[k].index]][g]
    BY <1>2, <1>4 DEF FilesKnown
  <2>1. g \in Files \ missed
    BY <1>1
  <2>2. (IF g \in DOMAIN checkpoints[k].files THEN checkpoints[k].files[g] ELSE disk[g])
          = original[messages[checkpoints[k].index]][g]
    BY <2>1 DEF RewindInv, FilesKnown
  <2>3. CASE g \in DOMAIN checkpoints[k].files
    BY <1>4, <2>2, <2>3
  <2>4. CASE g \notin DOMAIN checkpoints[k].files /\ g # f
    BY <1>4, <2>2, <2>4
  <2>5. CASE g \notin DOMAIN checkpoints[k].files /\ g = f
    <3>1. content = disk[f]
      BY <1>1, <2>5
    <3> QED BY <1>4, <2>2, <2>5, <3>1
  <2> QED BY <2>3, <2>4, <2>5
<1> QED BY <1>5, <1>6, <1>7, <1>8 DEF FilesSound, CheckpointsSound

\* The prompts of a conversation that is cut off.
LEMMA CutOff ==
  ASSUME NEW ms \in Seq(Said), NEW i \in 1..Len(ms)
  PROVE  LET ns == SubSeq(ms, 1, i - 1) IN
         /\ ns \in Seq(Said) /\ Len(ns) = i - 1
         /\ \A p \in 1..(i - 1) : ns[p] = ms[p]
         /\ PromptsAt(ns) = {p \in PromptsAt(ms) : p < i}
<1> DEFINE ns == SubSeq(ms, 1, i - 1)
<1> HIDE DEF Said
<1>1. ns \in Seq(Said) /\ Len(ns) = i - 1 /\ \A p \in 1..(i - 1) : ns[p] = ms[p]
  OBVIOUS
<1> HIDE DEF ns
<1>2. \A p \in 1..Len(ns) : p \in 1..Len(ms) /\ p < i /\ p \in 1..(i - 1)
  BY <1>1
<1>3. \A p \in 1..Len(ms) : p < i => p \in 1..Len(ns)
  BY <1>1
<1>4. PromptsAt(ns) = {p \in PromptsAt(ms) : p < i}
  BY <1>1, <1>2, <1>3 DEF PromptsAt
<1> QED BY <1>1, <1>4 DEF ns

\* A prompt that is appended is the last one.
LEMMA PromptAppended ==
  ASSUME NEW ms \in Seq(Said), NEW u \in Prompts
  PROVE  LET ns == Append(ms, u) IN
         /\ ns \in Seq(Said) /\ Len(ns) = Len(ms) + 1 /\ ns[Len(ms) + 1] = u
         /\ PromptsAt(ns) = PromptsAt(ms) \union {Len(ms) + 1}
         /\ \A i \in PromptsAt(ms) : ns[i] = ms[i] /\ i < Len(ms) + 1
<1> DEFINE ns == Append(ms, u)
<1>0. u \in Said
  BY SaidFacts
<1> HIDE DEF Said
<1>1. ns \in Seq(Said) /\ Len(ns) = Len(ms) + 1 /\ Len(ms) \in Nat /\ ns[Len(ms) + 1] = u
      /\ \A i \in 1..Len(ms) : ns[i] = ms[i]
  BY <1>0
<1> HIDE DEF ns
<1>2. \A i \in 1..Len(ns) : i \in 1..Len(ms) \/ i = Len(ms) + 1
  BY <1>1
<1>3. (\A i \in 1..Len(ms) : i \in 1..Len(ns) /\ i < Len(ms) + 1) /\ Len(ms) + 1 \in 1..Len(ns)
  BY <1>1
<1>4. PromptsAt(ns) = PromptsAt(ms) \union {Len(ms) + 1}
  BY <1>1, <1>2, <1>3 DEF PromptsAt
<1>5. \A i \in PromptsAt(ms) : ns[i] = ms[i] /\ i < Len(ms) + 1
  BY <1>1, <1>3 DEF PromptsAt
<1> QED BY <1>1, <1>4, <1>5 DEF ns

\* What Act does, with what is filled in named.
LEMMA ActIs ==
  ASSUME RewindInv, Act
  PROVE  \E fs \in Seq(Said), s \in UNION {[d -> Contents] : d \in SUBSET Files} :
           /\ Len(fs) \in Nat /\ Len(fs) >= Len(messages)
           /\ PromptsAt(fs) = PromptsAt(messages)
           /\ \A i \in PromptsAt(messages) : fs[i] = messages[i]
           /\ messages' = Append(fs, used.prompts)
           /\ checkpoints' = Append(checkpoints, [index |-> Len(fs) + 1, files |-> s])
           /\ DOMAIN s = IF checkpoints = <<>> THEN {} ELSE DOMAIN checkpoints[Len(checkpoints)].files
           /\ DOMAIN s \subseteq Files /\ s \in [DOMAIN s -> Contents]
           /\ missed' = missed \union Misread(s)
<1> DEFINE fs == IF dangling = 0 THEN messages ELSE InsertAt(messages, dangling + 1, Reply)
           known == IF checkpoints = <<>> THEN {} ELSE DOMAIN Last(checkpoints).files
<1>1. messages' = Append(fs, used.prompts) /\ CreateCheckpoint(Len(fs) + 1)
  BY DEF Act
<1>2. /\ fs \in Seq(Said) /\ Len(fs) \in Nat /\ Len(fs) >= Len(messages)
      /\ PromptsAt(fs) = PromptsAt(messages)
      /\ \A i \in PromptsAt(messages) : fs[i] = messages[i]
  BY FilledIn DEF RewindInv
<1> HIDE DEF fs
<1>3. PICK s \in Readings(known) :
        /\ checkpoints' = Append(checkpoints, [index |-> Len(fs) + 1, files |-> s])
        /\ missed' = missed \union Misread(s)
  BY <1>1 DEF CreateCheckpoint
<1>4. s \in [known -> Contents] /\ DOMAIN s = known
  BY DEF Readings
<1>5. known = (IF checkpoints = <<>> THEN {} ELSE DOMAIN checkpoints[Len(checkpoints)].files)
  BY DEF Last
<1>6. known \in SUBSET Files
  <2>1. checkpoints \in Seq(Checkpoint)
    BY TypeFacts DEF RewindInv
  <2>2. CASE checkpoints = <<>>
    BY <2>2
  <2>3. CASE checkpoints # <<>>
    <3>1. Len(checkpoints) \in DOMAIN checkpoints
      BY <2>1, <2>3
    <3> QED BY <1>5, <2>1, <2>3, <3>1, CheckpointsTyped
  <2> QED BY <2>2, <2>3
<1> HIDE DEF known
<1>7. s \in UNION {[d -> Contents] : d \in SUBSET Files} /\ DOMAIN s \subseteq Files /\ s \in [DOMAIN s -> Contents]
  BY <1>4, <1>6
<1>8. DOMAIN s = IF checkpoints = <<>> THEN {} ELSE DOMAIN checkpoints[Len(checkpoints)].files
  BY <1>4, <1>5
<1> QED BY <1>1, <1>2, <1>3, <1>7, <1>8

\* A prompt is sent: its checkpoint has the files that tools know, as they are.
LEMMA ActSound ==
  ASSUME RewindInv, RewindType', Act
  PROVE  FilesSound'
<1>0. PICK fs \in Seq(Said), s \in UNION {[d -> Contents] : d \in SUBSET Files} :
           /\ Len(fs) \in Nat /\ Len(fs) >= Len(messages)
           /\ PromptsAt(fs) = PromptsAt(messages)
           /\ \A i \in PromptsAt(messages) : fs[i] = messages[i]
           /\ messages' = Append(fs, used.prompts)
           /\ checkpoints' = Append(checkpoints, [index |-> Len(fs) + 1, files |-> s])
           /\ DOMAIN s = IF checkpoints = <<>> THEN {} ELSE DOMAIN checkpoints[Len(checkpoints)].files
           /\ DOMAIN s \subseteq Files /\ s \in [DOMAIN s -> Contents]
           /\ missed' = missed \union Misread(s)
  BY ActIs
<1> DEFINE u == used.prompts
           n == Len(fs) + 1
           N == Len(checkpoints)
           cp == [index |-> n, files |-> s]
<1>1. /\ pc = "mounted" /\ pc' = "turn" /\ UNCHANGED <<disk, used>>
      /\ original' = [original EXCEPT ![u] = disk]
  BY DEF Act
<1>2. /\ checkpoints \in Seq(Checkpoint) /\ messages \in Seq(Said) /\ N \in Nat /\ n \in Nat
      /\ u \in Prompts /\ original \in [Prompts -> [Files -> Contents]]
  BY <1>0, <1>1, TypeFacts DEF RewindInv, RewindType
<1>3. cp \in Checkpoint
  BY <1>0, <1>2, CheckpointIs
<1>4. /\ messages' \in Seq(Said) /\ messages'[n] = u
      /\ PromptsAt(messages') = PromptsAt(messages) \union {n}
      /\ \A i \in PromptsAt(messages) : messages'[i] = messages[i] /\ i < n
  <2> DEFINE ns == Append(fs, u)
  <2>1. /\ ns \in Seq(Said) /\ Len(ns) = Len(fs) + 1 /\ ns[Len(fs) + 1] = u
        /\ PromptsAt(ns) = PromptsAt(fs) \union {Len(fs) + 1}
        /\ \A i \in PromptsAt(fs) : ns[i] = fs[i] /\ i < Len(fs) + 1
    BY <1>2, PromptAppended
  <2>2. messages' = ns
    BY <1>0
  <2> HIDE DEF ns
  <2> QED BY <1>0, <2>1, <2>2
<1>5. /\ checkpoints' \in Seq(Checkpoint) /\ Len(checkpoints') = N + 1
      /\ \A k \in 1..N : checkpoints'[k] = checkpoints[k]
      /\ checkpoints'[N + 1] = cp
  BY <1>0, <1>2, <1>3
<1>6. cp.index = n /\ cp.files = s
  OBVIOUS
<1>11. (\A k \in 1..(N + 1) : k \in 1..N \/ k = N + 1) /\ (\A k \in 1..N : k \in 1..(N + 1) /\ k < N + 1)
       /\ N + 1 \in 1..(N + 1)
  BY <1>2
<1> HIDE DEF u, n, N, cp
<1>7. PerPrompt(checkpoints, messages) /\ SameFiles /\ Rising /\ SentOnce /\ FilesKnown
  BY <1>2, PerPromptIs DEF RewindInv, CheckpointsSound, CheckpointPerPrompt
<1>8. CheckpointPerPrompt'
  <2>1. \A k \in 1..(N + 1) : checkpoints'[k].index \in PromptsAt(messages')
    BY <1>4, <1>5, <1>6, <1>7, <1>11 DEF PerPrompt, N
  <2>2. \A i \in PromptsAt(messages') : \E k \in 1..(N + 1) : checkpoints'[k].index = i
    BY <1>4, <1>5, <1>6, <1>7, <1>11 DEF PerPrompt, N
  <2>3. PerPrompt(checkpoints', messages')
    BY <1>5, <2>1, <2>2 DEF PerPrompt
  <2>4. {checkpoints'[k].index : k \in DOMAIN checkpoints'} = {i \in DOMAIN messages' : messages'[i] \in Prompts}
    BY <1>4, <1>5, <2>3, PerPromptIs
  <2> QED BY <2>4 DEF CheckpointPerPrompt
<1>9. Rising'
  <2> SUFFICES ASSUME NEW j \in 1..(N + 1), NEW k \in 1..(N + 1), j < k
               PROVE  checkpoints'[j].index < checkpoints'[k].index
    BY <1>5 DEF Rising
  <2>1. j \in 1..N
    BY <1>2
  <2>2. checkpoints'[j] = checkpoints[j] /\ checkpoints[j].index \in PromptsAt(messages)
    BY <1>5, <1>7, <2>1 DEF PerPrompt, N
  <2>3. CASE k = N + 1
    BY <1>4, <1>5, <1>6, <2>2, <2>3
  <2>4. CASE k \in 1..N
    BY <1>5, <1>7, <2>1, <2>4 DEF Rising, N
  <2> QED BY <1>11, <2>3, <2>4
<1>10. SameFiles'
  <2>1. DOMAIN checkpoints = 1..N /\ DOMAIN checkpoints' = 1..(N + 1)
    BY <1>2, <1>5 DEF N
  <2>2. \A k \in 1..N : DOMAIN checkpoints[k].files = DOMAIN s
    <3> SUFFICES ASSUME NEW k \in 1..N PROVE DOMAIN checkpoints[k].files = DOMAIN s
      OBVIOUS
    <3>1. checkpoints # <<>> /\ N \in 1..N
      BY <1>2, <2>1
    <3> QED BY <1>0, <1>7, <2>1, <3>1 DEF SameFiles, N
  <2>3. \A k \in 1..(N + 1) : DOMAIN checkpoints'[k].files = DOMAIN s
    BY <1>5, <1>6, <1>11, <2>2
  <2> QED BY <2>1, <2>3 DEF SameFiles
<1>12. SentOnce'
  <2>1. u \in Nat
    BY <1>2 DEF Prompts
  <2>2. \A i \in PromptsAt(messages) : messages[i] <= u
    BY <1>7 DEF SentOnce, u
  <2>3. \A i \in PromptsAt(messages') : messages'[i] <= u
    BY <1>4, <2>1, <2>2
  <2> QED BY <1>1, <2>3 DEF SentOnce, u
<1>13. FilesKnown'
  <2> SUFFICES ASSUME NEW k \in 1..(N + 1), NEW g \in Files \ missed'
               PROVE  (IF g \in DOMAIN checkpoints'[k].files THEN checkpoints'[k].files[g] ELSE disk[g])
                        = original'[messages'[checkpoints'[k].index]][g]
    BY <1>1, <1>5 DEF FilesKnown
  <2>1. g \in Files \ missed /\ g \notin Misread(s)
    BY <1>0
  <2>2. CASE k \in 1..N
    <3>1. checkpoints'[k] = checkpoints[k] /\ checkpoints[k].index \in PromptsAt(messages)
      BY <1>5, <1>7, <2>2 DEF PerPrompt, N
    <3>2. messages'[checkpoints[k].index] = messages[checkpoints[k].index]
      BY <1>4, <3>1
    <3>3. messages[checkpoints[k].index] # u /\ messages[checkpoints[k].index] \in Prompts
      BY <1>1, <1>7, <3>1 DEF SentOnce, u, PromptsAt
    <3>4. original'[messages[checkpoints[k].index]] = original[messages[checkpoints[k].index]]
      BY <1>1, <1>2, <3>3
    <3> QED BY <1>7, <2>1, <2>2, <3>1, <3>2, <3>4 DEF FilesKnown, N
  <2>3. CASE k = N + 1
    <3>1. checkpoints'[k].files = s /\ messages'[checkpoints'[k].index] = u
      BY <1>4, <1>5, <1>6, <2>3
    <3>2. original'[u] = disk
      BY <1>1, <1>2
    <3>3. g \in DOMAIN s => s[g] = disk[g]
      BY <2>1 DEF Misread
    <3> QED BY <3>1, <3>2, <3>3
  <2> QED BY <1>11, <2>2, <2>3
<1> QED BY <1>8, <1>9, <1>10, <1>12, <1>13 DEF FilesSound, CheckpointsSound

\* The checkpoint that a rewind finds is one of that message.
LEMMA CheckpointFound ==
  ASSUME Rising, checkpoints \in Seq(Checkpoint), NEW i, HasCheckpoint(i)
  PROVE  \E k \in 1..Len(checkpoints) : CheckpointAt(i) = checkpoints[k] /\ checkpoints[k].index = i
<1>1. PICK k \in 1..Len(checkpoints) : checkpoints[k].index = i
  BY DEF HasCheckpoint
<1>2. \A j \in 1..(k - 1) : checkpoints[j].index # i
  <2> SUFFICES ASSUME NEW j \in 1..(k - 1), checkpoints[j].index = i PROVE FALSE
    OBVIOUS
  <2>1. j \in 1..Len(checkpoints) /\ j < k
    OBVIOUS
  <2>2. checkpoints[j].index < checkpoints[k].index
    BY <2>1 DEF Rising
  <2>3. checkpoints[k].index \in Nat
    BY CheckpointIs
  <2> QED BY <1>1, <2>2, <2>3
<1>3. \E j \in DOMAIN checkpoints : checkpoints[j].index = i /\ \A l \in 1..(j - 1) : checkpoints[l].index # i
  BY <1>1, <1>2
<1> DEFINE Found(j) == checkpoints[j].index = i /\ \A l \in 1..(j - 1) : checkpoints[l].index # i
           found == CHOOSE j \in DOMAIN checkpoints : Found(j)
<1>4. CheckpointAt(i) = checkpoints[found]
  BY Zenon DEF CheckpointAt
<1> HIDE DEF Found
<1>5. found \in DOMAIN checkpoints /\ Found(found)
  <2>1. \E j \in DOMAIN checkpoints : Found(j)
    BY <1>3 DEF Found
  <2> QED BY <2>1, Zenon
<1> HIDE DEF found
<1> QED BY <1>4, <1>5 DEF Found

\* What a rewind does to the files: those of the checkpoint that are not errors are restored.
LEMMA RewindFiles ==
  ASSUME RewindInv, NEW u \in Prompts, NEW restore \in BOOLEAN, Rewind(u, restore)
  PROVE  /\ restore /\ HasCheckpoint(shown[u]) =>
              \E k \in 1..Len(checkpoints) :
                /\ checkpoints[k].index = shown[u]
                /\ \A f \in Files \ DOMAIN checkpoints[k].files : disk'[f] = disk[f]
                /\ \A f \in DOMAIN checkpoints[k].files \ choice'.errors :
                     disk'[f] = checkpoints[k].files[f]
         /\ ~(restore /\ HasCheckpoint(shown[u])) => disk' = disk
         /\ disk' \in [Files -> Contents] /\ choice'.errors \subseteq Files
<1> DEFINE s == IF restore /\ HasCheckpoint(shown[u]) THEN CheckpointAt(shown[u]).files
                ELSE [f \in {} |-> Absent]
<1>0. /\ checkpoints \in Seq(Checkpoint) /\ disk \in [Files -> Contents] /\ Rising
      /\ Torn \in Contents
  BY TypeFacts, SaidFacts DEF RewindInv, Torn, Contents
<1>1. PICK errors \in SUBSET MayFail(s) :
        /\ choice' = [prompt |-> u, index |-> shown[u], restore |-> restore, errors |-> errors]
        /\ RestoreCheckpoint(s, errors)
  BY Zenon DEF Rewind
<1>2. PICK cut \in SUBSET {f \in errors : s[f] # Absent} :
        disk' = [f \in Files |-> IF f \in cut THEN Torn
                                 ELSE IF f \in DOMAIN s \ errors THEN s[f] ELSE disk[f]]
  BY <1>1, Zenon DEF RestoreCheckpoint
<1>3. errors \subseteq DOMAIN s /\ cut \subseteq errors /\ choice'.errors = errors
  BY <1>1, <1>2 DEF MayFail
<1>4. CASE restore /\ HasCheckpoint(shown[u])
  <2>1. PICK k \in 1..Len(checkpoints) :
          CheckpointAt(shown[u]) = checkpoints[k] /\ checkpoints[k].index = shown[u]
    BY <1>0, <1>4, CheckpointFound
  <2>2. k \in DOMAIN checkpoints /\ s = checkpoints[k].files
    BY <1>0, <1>4, <2>1
  <2>3. s \in [DOMAIN s -> Contents] /\ DOMAIN s \subseteq Files
    BY <1>0, <2>2, CheckpointsTyped
  <2> HIDE DEF s
  <2>4. disk' \in [Files -> Contents] /\ choice'.errors \subseteq Files
    BY <1>0, <1>2, <1>3, <2>3
  <2>5. /\ \A f \in Files \ DOMAIN s : disk'[f] = disk[f]
        /\ \A f \in DOMAIN s \ choice'.errors : disk'[f] = s[f]
    BY <1>2, <1>3, <2>3
  <2> QED BY <1>4, <2>1, <2>2, <2>4, <2>5
<1>5. CASE ~(restore /\ HasCheckpoint(shown[u]))
  <2>1. DOMAIN s = {}
    BY <1>5
  <2> HIDE DEF s
  <2>2. choice'.errors = {} /\ disk' = [f \in Files |-> disk[f]]
    BY <1>2, <1>3, <2>1
  <2>3. disk' = disk
    BY <1>0, <2>2
  <2> QED BY <1>0, <1>5, <2>2, <2>3
<1> QED BY <1>4, <1>5

\* A rewind changes only files that every checkpoint knows.
LEMMA RewindSound ==
  ASSUME RewindInv, RewindType', NEW u \in Prompts, NEW restore \in BOOLEAN, Rewind(u, restore)
  PROVE  FilesSound'
<1>0. /\ UNCHANGED <<messages, checkpoints, used, original, missed>> /\ pc' = "saving"
      /\ checkpoints \in Seq(Checkpoint)
  BY TypeFacts DEF Rewind, RewindInv
<1>1. (Rising /\ CheckpointsSound /\ SentOnce)'
  BY <1>0 DEF RewindInv, Rising, CheckpointsSound, CheckpointPerPrompt, SameFiles, SentOnce
<1>2. FilesKnown'
  <2> SUFFICES ASSUME NEW k \in 1..Len(checkpoints), NEW g \in Files \ missed
               PROVE  (IF g \in DOMAIN checkpoints[k].files THEN checkpoints[k].files[g] ELSE disk'[g])
                        = original[messages[checkpoints[k].index]][g]
    BY <1>0 DEF FilesKnown
  <2>1. (IF g \in DOMAIN checkpoints[k].files THEN checkpoints[k].files[g] ELSE disk[g])
          = original[messages[checkpoints[k].index]][g]
    BY DEF RewindInv, FilesKnown
  <2>2. CASE restore /\ HasCheckpoint(shown[u])
    <3>1. PICK j \in 1..Len(checkpoints) :
            \A f \in Files \ DOMAIN checkpoints[j].files : disk'[f] = disk[f]
      BY <2>2, RewindFiles
    <3>2. DOMAIN checkpoints[j].files = DOMAIN checkpoints[k].files
      <4>1. DOMAIN checkpoints = 1..Len(checkpoints)
        BY <1>0
      <4> QED BY <4>1 DEF RewindInv, CheckpointsSound, SameFiles
    <3> QED BY <2>1, <3>1, <3>2
  <2>3. CASE ~(restore /\ HasCheckpoint(shown[u]))
    <3>1. disk' = disk
      BY <2>3, RewindFiles
    <3> QED BY <2>1, <3>1
  <2> QED BY <2>2, <2>3
<1> QED BY <1>1, <1>2 DEF FilesSound

\* The prompts from the chosen one on go, with their checkpoints.
LEMMA TruncateSound ==
  ASSUME RewindInv, RewindType', Truncate
  PROVE  FilesSound'
<1> DEFINE i == choice.index
           M == Len(checkpoints')
<1>0. /\ pc = "saving" /\ pc' = "idle" /\ UNCHANGED <<disk, used, original, missed>>
      /\ checkpoints' = Before(i) /\ messages' = SubSeq(messages, 1, i - 1)
  BY DEF Truncate
<1>1. /\ messages \in Seq(Said) /\ Len(messages) \in Nat /\ i \in 1..Len(messages) /\ i \in Nat
      /\ checkpoints \in Seq(Checkpoint)
  BY <1>0, TypeFacts DEF RewindInv, RewindType
<1> HIDE DEF i
<1>2. /\ messages' \in Seq(Said)
      /\ \A p \in 1..(i - 1) : messages'[p] = messages[p]
      /\ \A p : p \in PromptsAt(messages') <=> p \in PromptsAt(messages) /\ p < i
  <2> DEFINE ns == SubSeq(messages, 1, i - 1)
  <2>1. /\ ns \in Seq(Said) /\ Len(ns) = i - 1
        /\ \A p \in 1..(i - 1) : ns[p] = messages[p]
        /\ PromptsAt(ns) = {p \in PromptsAt(messages) : p < i}
    BY <1>1, CutOff
  <2>2. messages' = ns
    BY <1>0
  <2> HIDE DEF ns
  <2>3. messages' \in Seq(Said) /\ \A p \in 1..(i - 1) : messages'[p] = messages[p]
    BY <2>1, <2>2
  <2>4. \A p : p \in PromptsAt(ns) <=> p \in PromptsAt(messages) /\ p < i
    BY <2>1
  <2> QED BY <2>2, <2>3, <2>4
<1>3. \A p \in PromptsAt(messages') : p \in PromptsAt(messages) /\ messages'[p] = messages[p]
  <2>1. \A p \in PromptsAt(messages') : p \in PromptsAt(messages) /\ p < i
    BY <1>2
  <2>2. \A p \in PromptsAt(messages) : p < i => p \in 1..(i - 1)
    BY <1>1 DEF PromptsAt
  <2> QED BY <1>2, <2>1, <2>2
<1>4. checkpoints' \in Seq(Checkpoint) /\ M \in Nat
  BY <1>0, <1>1, KeptBefore
<1>5. PICK at \in [1..M -> 1..Len(checkpoints)] :
        /\ \A n \in 1..M : checkpoints'[n] = checkpoints[at[n]] /\ checkpoints[at[n]].index < i
        /\ \A m, n \in 1..M : m < n => at[m] < at[n]
        /\ \A k \in 1..Len(checkpoints) : checkpoints[k].index < i => \E n \in 1..M : at[n] = k
  BY <1>0, <1>1, KeptBefore
<1>6. PerPrompt(checkpoints, messages) /\ SameFiles /\ Rising /\ SentOnce /\ FilesKnown
  BY <1>1, PerPromptIs DEF RewindInv, CheckpointsSound, CheckpointPerPrompt
<1>7. \A n \in 1..M : at[n] \in 1..Len(checkpoints)
  BY <1>5
<1>8. DOMAIN checkpoints = 1..Len(checkpoints) /\ DOMAIN checkpoints' = 1..M
  BY <1>1, <1>4
<1>9. Len(checkpoints') = M
  OBVIOUS
<1> HIDE DEF M
<1>10. PerPrompt(checkpoints', messages')
  <2>1. \A n \in 1..M : checkpoints'[n].index \in PromptsAt(messages')
    BY <1>2, <1>5, <1>6, <1>7 DEF PerPrompt
  <2>2. \A p \in PromptsAt(messages') : \E n \in 1..M : checkpoints'[n].index = p
    BY <1>2, <1>5, <1>6 DEF PerPrompt
  <2> QED BY <1>9, <2>1, <2>2 DEF PerPrompt
<1>11. CheckpointPerPrompt'
  <2>1. {checkpoints'[k].index : k \in DOMAIN checkpoints'} = {p \in DOMAIN messages' : messages'[p] \in Prompts}
    BY <1>2, <1>4, <1>10, PerPromptIs
  <2> QED BY <2>1 DEF CheckpointPerPrompt
<1>12. Rising'
  BY <1>5, <1>6, <1>7, <1>9 DEF Rising
<1>13. SameFiles'
  BY <1>5, <1>6, <1>7, <1>8 DEF SameFiles
<1>14. SentOnce'
  BY <1>0, <1>3, <1>6 DEF SentOnce
<1>15. FilesKnown'
  <2> SUFFICES ASSUME NEW n \in 1..Len(checkpoints'), NEW g \in Files \ missed'
               PROVE  (IF g \in DOMAIN checkpoints'[n].files THEN checkpoints'[n].files[g] ELSE disk'[g])
                        = original'[messages'[checkpoints'[n].index]][g]
    BY DEF FilesKnown
  <2>5. n \in 1..M /\ g \in Files \ missed /\ disk' = disk /\ original' = original
    BY <1>0, <1>9
  <2>1. checkpoints'[n] = checkpoints[at[n]] /\ at[n] \in 1..Len(checkpoints)
    BY <1>5, <1>7, <2>5
  <2>2. checkpoints'[n].index \in PromptsAt(messages')
    BY <1>10 DEF PerPrompt
  <2>3. messages'[checkpoints'[n].index] = messages[checkpoints[at[n]].index]
    BY <1>3, <2>1, <2>2
  <2>4. (IF g \in DOMAIN checkpoints[at[n]].files THEN checkpoints[at[n]].files[g] ELSE disk[g])
          = original[messages[checkpoints[at[n]].index]][g]
    BY <1>6, <2>1, <2>5 DEF FilesKnown
  <2> QED BY <2>1, <2>3, <2>4, <2>5, Zenon
<1> QED BY <1>11, <1>12, <1>13, <1>14, <1>15 DEF FilesSound, CheckpointsSound

-----------------------------------------------------------------------------
(* Types of the next state *)

\* What is used up, what a rewind is about, and the phases.
Uses == [prompts : 0..MaxPrompts, edits : 0..MaxEdits, replies : 0..MaxReplies,
         commands : 0..MaxCommands]
ChoiceTypes == [prompt : 0..MaxPrompts, index : Nat, restore : BOOLEAN, errors : SUBSET Files]
Phases == {"idle", "mounted", "turn", "saving"}

\* The types of the files.
FileTypes ==
  /\ disk \in [Files -> Contents] /\ original \in [Prompts -> [Files -> Contents]]
  /\ missed \subseteq Files /\ writing \subseteq Files

\* The types of the conversation.
TalkTypes == messages \in Seq(Said) /\ dangling \in 0..Len(messages) /\ shifted \in BOOLEAN

\* The types of what the user does.
UserTypes ==
  /\ pc \in Phases /\ shown \in [Prompts -> Nat] /\ choice \in ChoiceTypes /\ used \in Uses
  /\ pc = "mounted" => used.prompts \in Prompts

\* The type of the state, by what it is about.
LEMMA TypeParts ==
  RewindType <=> /\ FileTypes /\ TalkTypes /\ UserTypes /\ checkpoints \in Seq(Checkpoint)
                 /\ pc = "saving" => choice.index \in 1..Len(messages)
<1>1. ASSUME RewindType PROVE /\ FileTypes /\ TalkTypes /\ UserTypes /\ checkpoints \in Seq(Checkpoint)
                              /\ pc = "saving" => choice.index \in 1..Len(messages)
  BY <1>1 DEF RewindType, TypeOK, FileTypes, TalkTypes, UserTypes, Said, Uses, ChoiceTypes, Phases
<1>2. ASSUME FileTypes, TalkTypes, UserTypes, checkpoints \in Seq(Checkpoint),
             pc = "saving" => choice.index \in 1..Len(messages)
      PROVE  RewindType
  <2>1. \A k \in DOMAIN checkpoints :
          /\ DOMAIN checkpoints[k].files \subseteq Files
          /\ checkpoints[k].files \in [DOMAIN checkpoints[k].files -> Contents]
    BY <1>2, CheckpointsTyped
  <2>2. TypeOK
    BY <1>2, <2>1 DEF TypeOK, FileTypes, TalkTypes, UserTypes, Said, Uses, ChoiceTypes, Phases
  <2> QED BY <1>2, <2>2 DEF RewindType, UserTypes
<1> QED BY <1>1, <1>2

\* The same of the next state.
LEMMA TypePartsNext ==
  ASSUME FileTypes', TalkTypes', UserTypes', checkpoints' \in Seq(Checkpoint),
         pc' = "saving" => choice'.index \in 1..Len(messages')
  PROVE  RewindType'
<1>1. \A k \in DOMAIN checkpoints' :
        /\ DOMAIN checkpoints'[k].files \subseteq Files
        /\ checkpoints'[k].files \in [DOMAIN checkpoints'[k].files -> Contents]
  BY CheckpointsTyped
<1>2. TypeOK'
  BY <1>1 DEF TypeOK, FileTypes, TalkTypes, UserTypes, Said, Uses, ChoiceTypes, Phases
<1> QED BY <1>2 DEF RewindType, UserTypes

\* Counting what is used up.
LEMMA UsedUp ==
  ASSUME used \in Uses
  PROVE  /\ used.prompts < MaxPrompts => [used EXCEPT !.prompts = @ + 1] \in Uses
         /\ used.edits < MaxEdits => /\ [used EXCEPT !.edits = @ + 1] \in Uses
                                     /\ used.edits + 1 \in Contents
         /\ used.replies < MaxReplies => [used EXCEPT !.replies = @ + 1] \in Uses
         /\ used.commands < MaxCommands => [used EXCEPT !.commands = @ + 1] \in Uses
<1>0. /\ used.prompts \in 0..MaxPrompts /\ used.edits \in 0..MaxEdits
      /\ used.replies \in 0..MaxReplies /\ used.commands \in 0..MaxCommands
  BY DEF Uses
<1>1. used.prompts < MaxPrompts => used.prompts + 1 \in 0..MaxPrompts
  BY <1>0, SaidFacts
<1>2. used.edits < MaxEdits => used.edits + 1 \in 0..MaxEdits
  BY <1>0, SaidFacts
<1>3. used.replies < MaxReplies => used.replies + 1 \in 0..MaxReplies
  BY <1>0, SaidFacts
<1>4. used.commands < MaxCommands => used.commands + 1 \in 0..MaxCommands
  BY <1>0, SaidFacts
<1>5. used.edits < MaxEdits => used.edits + 1 \in Contents
  BY <1>0, <1>2, SaidFacts DEF Contents, Torn
<1> QED BY <1>1, <1>2, <1>3, <1>4, <1>5 DEF Uses

\* The types, action by action: a widget is mounted.
LEMMA MountTypes ==
  ASSUME RewindType, Mount
  PROVE  RewindType'
<1>1. /\ FileTypes /\ TalkTypes /\ UserTypes /\ checkpoints \in Seq(Checkpoint)
      /\ used.prompts < MaxPrompts
      /\ used' = [used EXCEPT !.prompts = @ + 1]
      /\ shown' = [shown EXCEPT ![used.prompts + 1] = Len(messages) + 1]
      /\ pc' = "mounted"
      /\ UNCHANGED <<messages, checkpoints, disk, dangling, writing, choice, original, missed, shifted>>
  BY TypeParts DEF Mount
<1>2. FileTypes' /\ TalkTypes' /\ checkpoints' \in Seq(Checkpoint)
  BY <1>1 DEF FileTypes, TalkTypes
<1>3. used' \in Uses
  BY <1>1, UsedUp DEF UserTypes
<1>4. used'.prompts \in Prompts
  BY <1>1, SaidFacts DEF UserTypes, Uses, Prompts
<1>5. shown' \in [Prompts -> Nat]
  <2>1. Len(messages) + 1 \in Nat
    BY <1>1 DEF TalkTypes
  <2> QED BY <1>1, <2>1 DEF UserTypes
<1>6. UserTypes'
  BY <1>1, <1>3, <1>4, <1>5 DEF UserTypes, Phases
<1> QED BY <1>1, <1>2, <1>6, TypePartsNext

\* A prompt is sent.
LEMMA ActTypes ==
  ASSUME RewindInv, Act
  PROVE  RewindType'
<1>0. PICK fs \in Seq(Said), s \in UNION {[d -> Contents] : d \in SUBSET Files} :
           /\ Len(fs) \in Nat
           /\ messages' = Append(fs, used.prompts)
           /\ checkpoints' = Append(checkpoints, [index |-> Len(fs) + 1, files |-> s])
           /\ DOMAIN s \subseteq Files /\ s \in [DOMAIN s -> Contents]
           /\ missed' = missed \union Misread(s)
  BY ActIs
<1>1. /\ FileTypes /\ TalkTypes /\ UserTypes /\ checkpoints \in Seq(Checkpoint)
      /\ pc = "mounted" /\ pc' = "turn" /\ dangling' = 0
      /\ UNCHANGED <<disk, shown, writing, choice, used>>
      /\ original' = [original EXCEPT ![used.prompts] = disk]
      /\ used.prompts \in Prompts
  BY TypeParts DEF Act, RewindInv, UserTypes
<1>2. shifted' \in BOOLEAN
  BY DEF Act
<1>3. messages' \in Seq(Said) /\ Len(messages') \in Nat
  <2>1. used.prompts \in Said
    BY <1>1, SaidFacts
  <2> HIDE DEF Said
  <2> QED BY <1>0, <2>1
<1>4. TalkTypes'
  BY <1>1, <1>2, <1>3 DEF TalkTypes
<1>5. checkpoints' \in Seq(Checkpoint)
  <2>2. Len(fs) + 1 \in Nat /\ DOMAIN s \in SUBSET Files
    BY <1>0
  <2>1. [index |-> Len(fs) + 1, files |-> s] \in Checkpoint
    BY <1>0, <2>2, CheckpointIs
  <2> QED BY <1>0, <1>1, <2>1
<1>6. FileTypes'
  BY <1>0, <1>1 DEF FileTypes, Misread
<1>7. UserTypes'
  BY <1>1 DEF UserTypes, Phases
<1> QED BY <1>1, <1>4, <1>5, <1>6, <1>7, TypePartsNext

\* A message that is no prompt is appended.
LEMMA AppendTypes ==
  ASSUME RewindType, NEW m \in {Reply, Context}, messages' = Append(messages, m),
         used' \in Uses, used'.prompts = used.prompts, shifted' \in BOOLEAN,
         UNCHANGED <<checkpoints, disk, shown, pc, dangling, writing, choice, original, missed>>
  PROVE  RewindType'
<1>1. /\ FileTypes /\ TalkTypes /\ UserTypes /\ checkpoints \in Seq(Checkpoint)
      /\ pc = "saving" => choice.index \in 1..Len(messages)
  BY TypeParts
<1>2. messages' \in Seq(Said) /\ Len(messages') = Len(messages) + 1 /\ Len(messages) \in Nat
  <2>1. m \in Said /\ messages \in Seq(Said)
    BY <1>1, SaidFacts DEF TalkTypes
  <2> HIDE DEF Said
  <2> QED BY <2>1
<1>3. TalkTypes'
  BY <1>1, <1>2 DEF TalkTypes
<1>4. FileTypes' /\ UserTypes' /\ checkpoints' \in Seq(Checkpoint)
  BY <1>1 DEF FileTypes, UserTypes
<1>5. pc' = "saving" => choice'.index \in 1..Len(messages')
  BY <1>1, <1>2
<1> QED BY <1>3, <1>4, <1>5, TypePartsNext

\* A file changes.
LEMMA ChangeTypes ==
  ASSUME RewindType, NEW f \in Files, NEW content \in Contents, Change(f, content), writing' \subseteq Files
  PROVE  RewindType'
<1>1. /\ FileTypes /\ TalkTypes /\ UserTypes /\ checkpoints \in Seq(Checkpoint)
      /\ pc = "saving" => choice.index \in 1..Len(messages)
      /\ used.edits < MaxEdits /\ used' = [used EXCEPT !.edits = @ + 1]
      /\ disk' = [disk EXCEPT ![f] = content]
      /\ missed' \in {missed, missed \union {f}}
      /\ UNCHANGED <<messages, checkpoints, shown, pc, dangling, choice, original, shifted>>
  BY TypeParts DEF Change
<1>2. used' \in Uses /\ used'.prompts = used.prompts
  BY <1>1, UsedUp DEF UserTypes, Uses
<1>3. FileTypes' /\ TalkTypes'
  BY <1>1 DEF FileTypes, TalkTypes
<1>4. UserTypes'
  BY <1>1, <1>2 DEF UserTypes
<1> QED BY <1>1, <1>3, <1>4, TypePartsNext

\* A tool takes its snapshot.
LEMMA SnapshotTypes ==
  ASSUME RewindType, NEW f \in Files, BeginWrite(f)
  PROVE  RewindType'
<1>1. /\ FileTypes /\ TalkTypes /\ UserTypes /\ checkpoints \in Seq(Checkpoint)
      /\ pc = "saving" => choice.index \in 1..Len(messages)
      /\ UNCHANGED <<messages, disk, shown, pc, dangling, choice, used, original, shifted>>
      /\ writing' = writing \union {f}
  BY TypeParts DEF BeginWrite
<1>2. PICK content \in Reading(f) :
        /\ AddSnapshot(f, content)
        /\ missed' = IF content # disk[f] THEN missed \union {f} ELSE missed
  BY DEF BeginWrite
<1>3. content \in Contents
  BY <1>1, SaidFacts DEF FileTypes, Reading, Contents, Torn, Absent
<1>4. checkpoints' \in Seq(Checkpoint)
  BY <1>1, <1>2, <1>3, SnapshotAdded
<1>5. FileTypes'
  BY <1>1, <1>2 DEF FileTypes
<1>6. TalkTypes' /\ UserTypes'
  BY <1>1 DEF TalkTypes, UserTypes
<1> QED BY <1>1, <1>4, <1>5, <1>6, TypePartsNext

\* A rewind starts.
LEMMA RewindTypes ==
  ASSUME RewindInv, NEW u \in Prompts, NEW restore \in BOOLEAN, Rewind(u, restore)
  PROVE  RewindType'
<1>1. /\ FileTypes /\ TalkTypes /\ UserTypes /\ checkpoints \in Seq(Checkpoint)
      /\ shown[u] \in 1..Len(messages)
      /\ \E errors : choice' = [prompt |-> u, index |-> shown[u], restore |-> restore, errors |-> errors]
      /\ pc' = "saving"
      /\ UNCHANGED <<messages, checkpoints, shown, dangling, writing, used, original, missed, shifted>>
      /\ disk' \in [Files -> Contents] /\ choice'.errors \subseteq Files
  BY TypeParts, RewindFiles DEF Rewind, RewindInv
<1>2. choice' \in ChoiceTypes
  BY <1>1, SaidFacts DEF ChoiceTypes, Prompts
<1>3. FileTypes' /\ TalkTypes' /\ UserTypes'
  BY <1>1, <1>2 DEF FileTypes, TalkTypes, UserTypes, Phases
<1>4. choice'.index \in 1..Len(messages')
  BY <1>1
<1> QED BY <1>1, <1>3, <1>4, TypePartsNext

\* A rewind ends.
LEMMA TruncateTypes ==
  ASSUME RewindType, Truncate
  PROVE  RewindType'
<1> DEFINE i == choice.index
<1>1. /\ FileTypes /\ TalkTypes /\ UserTypes /\ checkpoints \in Seq(Checkpoint)
      /\ i \in 1..Len(messages) /\ pc' = "idle"
      /\ checkpoints' = Before(i) /\ messages' = SubSeq(messages, 1, i - 1)
      /\ dangling' = (IF dangling < i THEN dangling ELSE 0)
      /\ shown' = [u \in Prompts |-> IF u >= choice.prompt THEN 0 ELSE shown[u]]
      /\ UNCHANGED <<disk, writing, choice, used, original, missed, shifted>>
  BY TypeParts DEF Truncate
<1>2. checkpoints' \in Seq(Checkpoint)
  <2>1. i \in Nat
    BY <1>1 DEF UserTypes, ChoiceTypes
  <2> QED BY <1>1, <2>1, KeptBefore
<1>3. messages' \in Seq(Said) /\ Len(messages') = i - 1
  <2>1. messages \in Seq(Said)
    BY <1>1 DEF TalkTypes
  <2> HIDE DEF i
  <2> QED BY <1>1, <2>1, CutOff
<1>4. TalkTypes'
  <2>1. dangling \in 0..Len(messages) /\ Len(messages) \in Nat
    BY <1>1 DEF TalkTypes
  <2> HIDE DEF i
  <2>2. dangling' \in 0..(i - 1)
    BY <1>1, <2>1
  <2> QED BY <1>1, <1>3, <2>2 DEF TalkTypes
<1>5. FileTypes'
  BY <1>1 DEF FileTypes
<1>6. UserTypes'
  <2>1. shown' \in [Prompts -> Nat]
    BY <1>1 DEF UserTypes
  <2> QED BY <1>1, <2>1 DEF UserTypes, Phases
<1> QED BY <1>1, <1>2, <1>4, <1>5, <1>6, TypePartsNext

\* Steps that leave the types of all but the phase, the dangling response and the writers alone.
LEMMA OtherTypes ==
  ASSUME RewindType, EndTurn \/ SaveFails \/ Clear \/ Compact \/ UNCHANGED vars
  PROVE  RewindType'
<1>1. /\ FileTypes /\ TalkTypes /\ UserTypes /\ checkpoints \in Seq(Checkpoint)
      /\ pc = "saving" => choice.index \in 1..Len(messages)
      /\ Len(messages) \in Nat
  BY TypeParts DEF TalkTypes
<1>2. CASE EndTurn
  <2>1. FileTypes' /\ UserTypes' /\ checkpoints' \in Seq(Checkpoint) /\ pc' = "idle"
    BY <1>1, <1>2 DEF EndTurn, FileTypes, UserTypes, Phases
  <2>2. TalkTypes'
    BY <1>1, <1>2 DEF EndTurn, TalkTypes
  <2> QED BY <2>1, <2>2, TypePartsNext
<1>3. CASE SaveFails
  <2>1. FileTypes' /\ TalkTypes' /\ UserTypes' /\ checkpoints' \in Seq(Checkpoint) /\ pc' = "idle"
    BY <1>1, <1>3 DEF SaveFails, FileTypes, TalkTypes, UserTypes, Phases
  <2> QED BY <2>1, TypePartsNext
<1>4. CASE Clear
  <2>1. FileTypes' /\ UserTypes' /\ checkpoints' \in Seq(Checkpoint) /\ pc' = "idle"
    BY <1>1, <1>4 DEF Clear, Reset, FileTypes, UserTypes, Phases
  <2>2. messages' = <<>> /\ dangling' = 0 /\ shifted' = FALSE /\ Len(messages') = 0
    BY <1>4 DEF Clear, Reset
  <2>3. messages' \in Seq(Said)
    BY <2>2, SaidFacts
  <2>4. 0 \in 0..Len(messages')
    BY <2>2
  <2>5. dangling' \in 0..Len(messages') /\ shifted' \in BOOLEAN
    BY <2>2, <2>4, Zenon
  <2> QED BY <2>1, <2>3, <2>5, TypePartsNext DEF TalkTypes
<1>5. CASE Compact
  <2>1. FileTypes' /\ UserTypes' /\ checkpoints' \in Seq(Checkpoint) /\ pc' # "saving"
    BY <1>1, <1>5 DEF Compact, Reset, FileTypes, UserTypes, Phases
  <2>2. messages' = <<Context>> /\ dangling' = 0 /\ shifted' = TRUE
    BY <1>5 DEF Compact, Reset
  <2>3. TalkTypes'
    BY <2>2, SaidFacts DEF TalkTypes
  <2> QED BY <2>1, <2>3, TypePartsNext
<1>6. CASE UNCHANGED vars
  <2>1. FileTypes' /\ TalkTypes' /\ UserTypes' /\ checkpoints' \in Seq(Checkpoint)
        /\ (pc' = "saving" => choice'.index \in 1..Len(messages'))
    BY <1>1, <1>6 DEF vars, FileTypes, TalkTypes, UserTypes
  <2> QED BY <2>1, TypePartsNext
<1> QED BY <1>2, <1>3, <1>4, <1>5, <1>6

-----------------------------------------------------------------------------
(* The steps *)

\* Steps that leave the conversation, the checkpoints and what was sent alone.
LEMMA StayStep ==
  ASSUME RewindInv, Mount \/ EndTurn \/ SaveFails \/ UNCHANGED vars
  PROVE  RewindInv'
<1>1. RewindType'
  BY MountTypes, OtherTypes DEF RewindInv
<1>2. FilesSound'
  <2>1. UNCHANGED <<messages, checkpoints, original, missed, disk>>
    BY DEF Mount, EndTurn, SaveFails, vars
  <2>2. \/ used'.prompts = used.prompts /\ (pc' = "mounted" => pc = "mounted")
        \/ used'.prompts = used.prompts + 1
    <3>1. CASE Mount
      BY <3>1, TypeFacts DEF Mount, RewindInv
    <3>2. CASE EndTurn \/ SaveFails \/ UNCHANGED vars
      BY <3>2 DEF EndTurn, SaveFails, vars
    <3> QED BY <3>1, <3>2
  <2>3. PromptsAt(messages') = PromptsAt(messages) /\ \A i \in PromptsAt(messages) : messages'[i] = messages[i]
    BY <2>1 DEF PromptsAt
  <2> QED BY <1>1, <2>1, <2>2, <2>3, PromptsStay
<1>3. NoneBehind'
  <2>1. CASE EndTurn
    <3>1. messages' = messages /\ (dangling' = 0 \/ dangling' = Len(messages)) /\ Len(messages) \in Nat
      BY <2>1, TypeFacts DEF EndTurn, RewindInv
    <3> QED BY <3>1 DEF NoneBehind
  <2>2. CASE Mount \/ SaveFails \/ UNCHANGED vars
    BY <2>2 DEF Mount, SaveFails, vars, RewindInv, NoneBehind
  <2> QED BY <2>1, <2>2
<1> QED BY <1>1, <1>2, <1>3 DEF RewindInv, FilesSound

\* Messages that are no prompts come behind all prompts.
LEMMA AppendStep ==
  ASSUME RewindInv, Respond \/ InjectUserContext
  PROVE  RewindInv'
<1>0. PICK m \in {Reply, Context} : messages' = Append(messages, m)
  BY DEF Respond, InjectUserContext
<1>1. /\ UNCHANGED <<checkpoints, disk, shown, pc, dangling, writing, choice, original, missed>>
      /\ used' \in Uses /\ used'.prompts = used.prompts
  BY UsedUp, TypeParts DEF Respond, InjectUserContext, RewindInv, UserTypes, Uses
<1>2. shifted' \in BOOLEAN
  <2>1. shifted \in BOOLEAN
    BY TypeParts DEF RewindInv, TalkTypes
  <2> QED BY <2>1 DEF Respond, InjectUserContext
<1>3. RewindType'
  BY <1>0, <1>1, <1>2, AppendTypes DEF RewindInv
<1>4. /\ Len(messages') = Len(messages) + 1
      /\ PromptsAt(messages') = PromptsAt(messages)
      /\ \A i \in PromptsAt(messages) : messages'[i] = messages[i]
      /\ Len(messages) \in Nat /\ dangling \in Nat
  <2> DEFINE ns == Append(messages, m)
  <2>1. messages \in Seq(Said) /\ m \in Said /\ m \notin Prompts
    BY TypeFacts, SaidFacts DEF RewindInv
  <2>2. /\ ns \in Seq(Said) /\ Len(ns) = Len(messages) + 1
        /\ PromptsAt(ns) = PromptsAt(messages) /\ \A i \in PromptsAt(messages) : ns[i] = messages[i]
    BY <2>1, PlainAppended
  <2>3. messages' = ns
    BY <1>0
  <2> HIDE DEF ns
  <2> QED BY <2>2, <2>3, TypeFacts DEF RewindInv
<1>5. FilesSound'
  BY <1>1, <1>3, <1>4, PromptsStay
<1>6. NoneBehind'
  <2> SUFFICES ASSUME dangling > 0, NEW i \in (dangling + 1)..(Len(messages) + 1)
               PROVE  messages'[i] \notin Prompts
    BY <1>1, <1>4 DEF NoneBehind
  <2> SUFFICES ASSUME messages'[i] \in Prompts PROVE FALSE
    OBVIOUS
  <2>1. i \in PromptsAt(messages)
    <3>1. i \in 1..Len(messages')
      BY <1>4
    <3> QED BY <1>4, <3>1 DEF PromptsAt
  <2>2. i \in (dangling + 1)..Len(messages) /\ messages[i] \in Prompts
    BY <1>4, <2>1 DEF PromptsAt
  <2> QED BY <2>2 DEF RewindInv, NoneBehind
<1> QED BY <1>3, <1>5, <1>6 DEF RewindInv, FilesSound

\* Files change, or a tool says that it will change one.
LEMMA FileStep ==
  ASSUME RewindInv, NEW f \in Files, BeginWrite(f) \/ Write(f) \/ ChangeOutside(f)
  PROVE  RewindInv'
<1>0. NoneBehind'
  BY DEF BeginWrite, Write, ChangeOutside, Change, RewindInv, NoneBehind
<1>1. CASE BeginWrite(f)
  <2>1. RewindType'
    BY <1>1, SnapshotTypes DEF RewindInv
  <2> QED BY <1>0, <1>1, <2>1, SnapshotSound DEF RewindInv, FilesSound
<1>2. CASE Write(f) \/ ChangeOutside(f)
  <2>1. PICK content \in Contents : Change(f, content) /\ writing' \subseteq Files
    <3>1. FileTypes /\ used.edits + 1 \in Contents /\ Absent \in Contents
      <4>1. used.edits < MaxEdits
        BY <1>2 DEF Write, ChangeOutside, Change
      <4>2. FileTypes /\ used \in Uses
        BY TypeParts DEF RewindInv, UserTypes
      <4> QED BY <4>1, <4>2, UsedUp, SaidFacts DEF Contents, Torn, Absent
    <3> QED BY <1>2, <3>1 DEF Write, ChangeOutside, FileTypes
  <2>2. RewindType'
    BY <2>1, ChangeTypes DEF RewindInv
  <2> QED BY <1>0, <2>1, <2>2, FileChanges DEF RewindInv, FilesSound
<1> QED BY <1>1, <1>2

\* The conversation starts over.
LEMMA ResetStep ==
  ASSUME RewindInv, Clear \/ Compact
  PROVE  RewindInv'
<1>1. RewindType'
  BY OtherTypes DEF RewindInv
<1>2. (messages' = <<>> \/ messages' = <<Context>>) /\ checkpoints' = <<>> /\ dangling' = 0
  BY DEF Clear, Compact, Reset
<1>3. PromptsAt(messages') = {}
  <2>1. \A i \in 1..Len(messages') : messages'[i] = Context
    BY <1>2
  <2> QED BY <2>1, SaidFacts DEF PromptsAt
<1>4. NoneBehind'
  BY <1>2 DEF NoneBehind
<1> QED BY <1>1, <1>2, <1>3, <1>4, PromptsGo DEF RewindInv, FilesSound

\* The invariant is inductive.
LEMMA RewindStep ==
  ASSUME RewindInv, [Next]_vars
  PROVE  RewindInv'
<1>1. CASE Mount \/ EndTurn \/ SaveFails \/ UNCHANGED vars
  BY <1>1, StayStep
<1>2. CASE Respond \/ InjectUserContext
  BY <1>2, AppendStep
<1>3. ASSUME NEW f \in Files, BeginWrite(f) \/ Write(f) \/ ChangeOutside(f)
      PROVE  RewindInv'
  BY <1>3, FileStep
<1>4. CASE Clear \/ Compact
  BY <1>4, ResetStep
<1>5. CASE Act
  <2>1. RewindType'
    BY <1>5, ActTypes
  <2>2. NoneBehind'
    BY <1>5 DEF Act, NoneBehind
  <2> QED BY <1>5, <2>1, <2>2, ActSound DEF RewindInv, FilesSound
<1>6. ASSUME NEW u \in Prompts, NEW restore \in BOOLEAN, Rewind(u, restore)
      PROVE  RewindInv'
  <2>1. RewindType'
    BY <1>6, RewindTypes
  <2>2. NoneBehind'
    BY <1>6 DEF Rewind, RewindInv, NoneBehind
  <2> QED BY <1>6, <2>1, <2>2, RewindSound DEF RewindInv, FilesSound
<1>7. CASE Truncate
  <2>1. RewindType'
    BY <1>7, TruncateTypes DEF RewindInv
  <2>2. NoneBehind'
    <3> DEFINE c == choice.index
    <3>1. /\ c \in 1..Len(messages) /\ messages \in Seq(Said) /\ dangling \in Nat
          /\ messages' = SubSeq(messages, 1, c - 1)
          /\ dangling' = (IF dangling < c THEN dangling ELSE 0)
      BY <1>7, TypeFacts DEF Truncate, RewindInv, RewindType
    <3> HIDE DEF c
    <3>2. Len(messages') = c - 1 /\ \A p \in 1..(c - 1) : messages'[p] = messages[p]
      BY <3>1, CutOff
    <3> SUFFICES ASSUME dangling' > 0, NEW i \in (dangling' + 1)..(c - 1)
                 PROVE  messages'[i] \notin Prompts
      BY <3>2 DEF NoneBehind
    <3>3. dangling > 0 /\ i \in (dangling + 1)..Len(messages) /\ i \in 1..(c - 1)
      BY <3>1
    <3>4. messages[i] \notin Prompts
      BY <3>3 DEF RewindInv, NoneBehind
    <3> QED BY <3>2, <3>3, <3>4
  <2> QED BY <1>7, <2>1, <2>2, TruncateSound DEF RewindInv, FilesSound
<1> QED BY <1>1, <1>2, <1>3, <1>4, <1>5, <1>6, <1>7 DEF Next

\* It holds before anything is said.
LEMMA RewindStarted ==
  ASSUME Init
  PROVE  RewindInv
<1>1. /\ messages = <<>> /\ checkpoints = <<>> /\ dangling = 0 /\ pc = "idle"
      /\ missed = {} /\ writing = {} /\ Len(messages) = 0 /\ Len(checkpoints) = 0
  BY DEF Init
<1>2. disk \in [Files -> Contents] /\ original \in [Prompts -> [Files -> Contents]]
  <2>1. Absent \in Contents
    BY SaidFacts DEF Absent, Contents, Torn
  <2>2. disk \in [Files -> Contents]
    BY <2>1 DEF Init
  <2> QED BY <2>2 DEF Init
<1>3. FileTypes
  BY <1>1, <1>2 DEF FileTypes
<1>4. TalkTypes
  <2>1. messages \in Seq(Said) /\ shifted \in BOOLEAN
    BY <1>1, SaidFacts DEF Init
  <2>2. dangling \in 0..Len(messages)
    BY <1>1
  <2> QED BY <2>1, <2>2 DEF TalkTypes
<1>5. UserTypes
  <2>1. choice \in ChoiceTypes
    BY SaidFacts DEF Init, NoChoice, ChoiceTypes
  <2>2. used \in Uses
    BY SaidFacts DEF Init, Uses
  <2>3. shown \in [Prompts -> Nat]
    BY DEF Init
  <2> QED BY <1>1, <2>1, <2>2, <2>3 DEF UserTypes, Phases
<1>6. checkpoints \in Seq(Checkpoint) /\ DOMAIN checkpoints = {}
  BY <1>1
<1>7. RewindType
  BY <1>1, <1>3, <1>4, <1>5, <1>6, TypeParts
<1>8. PromptsAt(messages) = {}
  BY <1>1 DEF PromptsAt
<1>9. CheckpointPerPrompt
  BY <1>1, <1>6 DEF CheckpointPerPrompt
<1> QED BY <1>1, <1>6, <1>7, <1>8, <1>9
        DEF RewindInv, Rising, CheckpointsSound, SameFiles, NoneBehind, SentOnce, FilesKnown

\* What a rewind with its files does, from the invariant.
LEMMA Restored ==
  ASSUME RewindInv, Next, RewindStarts, choice'.restore, HasCheckpoint(choice'.index),
         NEW f \in Files \ (missed \union choice'.errors)
  PROVE  disk'[f] = original[messages[choice'.index]][f]
<1>1. PICK u \in Prompts, restore \in BOOLEAN : Rewind(u, restore)
  BY DEF Next, RewindStarts, Mount, Act, Respond, EndTurn, InjectUserContext, BeginWrite, Write,
         ChangeOutside, Change, Clear, Compact, SaveFails, Truncate
<1>2. choice'.index = shown[u] /\ choice'.restore = restore
  BY <1>1 DEF Rewind
<1>3. PICK k \in 1..Len(checkpoints) :
        /\ checkpoints[k].index = shown[u]
        /\ \A g \in Files \ DOMAIN checkpoints[k].files : disk'[g] = disk[g]
        /\ \A g \in DOMAIN checkpoints[k].files \ choice'.errors :
             disk'[g] = checkpoints[k].files[g]
  BY <1>1, <1>2, RewindFiles
<1>4. (IF f \in DOMAIN checkpoints[k].files THEN checkpoints[k].files[f] ELSE disk[f])
        = original[messages[checkpoints[k].index]][f]
  BY DEF RewindInv, FilesKnown
<1> QED BY <1>2, <1>3, <1>4

\* The state has its type at all times.
THEOREM TypeCorrect == Spec => []TypeOK
<1>1. RewindInv => TypeOK
  BY DEF RewindInv, RewindType
<1> QED BY <1>1, RewindStarted, RewindStep, PTL DEF Spec

\* Each prompt of the conversation has its checkpoint and no other message has one, and
\* all checkpoints know the same files (RewindManager), for any number of prompts, files
\* and rewinds.
THEOREM CheckpointsKept == Spec => []CheckpointsSound
<1>1. RewindInv => CheckpointsSound
  BY DEF RewindInv
<1> QED BY <1>1, RewindStarted, RewindStep, PTL DEF Spec

\* A rewind with its files brings every file back to what it was when the prompt was sent,
\* but those that it reports as errors and those that changed unseen (rewind_to_message),
\* for any files and changes: a file that fails keeps no other from being restored.
THEOREM FilesRestored == Spec => RestoreExact
<1>1. RewindInv /\ [Next]_vars =>
        [RewindStarts /\ choice'.restore /\ HasCheckpoint(choice'.index) =>
           \A f \in Files \ (missed \union choice'.errors) :
             disk'[f] = original[messages[choice'.index]][f]]_vars
  BY Restored DEF RewindStarts, vars
<1> QED BY <1>1, RewindStarted, RewindStep, PTL DEF Spec, RestoreExact
=============================================================================
