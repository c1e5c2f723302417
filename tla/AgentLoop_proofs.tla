--------------------------- MODULE AgentLoop_proofs ---------------------------
(***************************************************************************)
(* Proofs about AgentLoop, for any number of prompts, calls, requests,     *)
(* interrupts, commands, clears and compactions: its types, that a turn    *)
(* leaves no tool behind, that a call is answered once, and that every     *)
(* conversation sent to the model has the form that models accept.         *)
(*                                                                         *)
(* First what _fill_missing_tool_responses makes of a conversation; then   *)
(* what appending makes of it; then the steps of the loop.                 *)
(***************************************************************************)
EXTENDS AgentLoop, SequenceTheorems, FiniteSetTheorems, WellFoundedInduction, TLAPS

-----------------------------------------------------------------------------
(* The order of the places of the filled conversation *)

\* The position of a place among the places, in the order in which the code inserts.
Rank(places, p) == Cardinality(Upto(places, p))

\* Places are ordered by message, and behind a message by call.
Before(p, q) == p[1] < q[1] \/ (p[1] = q[1] /\ p[2] < q[2])

\* The places are in a total order.
LEMMA BeforeTotal ==
  ASSUME NEW p \in Nat \X Nat, NEW q \in Nat \X Nat, p # q
  PROVE  Before(p, q) \/ Before(q, p)
<1>1. p = <<p[1], p[2]>> /\ q = <<q[1], q[2]>>
  OBVIOUS
<1>2. p[1] \in Nat /\ p[2] \in Nat /\ q[1] \in Nat /\ q[2] \in Nat
  OBVIOUS
<1>3. p[1] # q[1] \/ p[2] # q[2]
  BY <1>1
<1> QED
  BY <1>2, <1>3 DEF Before

\* A later place has a higher rank.
LEMMA RankIncreases ==
  ASSUME NEW places \in SUBSET (Nat \X Nat), IsFiniteSet(places),
         NEW p \in places, NEW q \in places, Before(p, q)
  PROVE  Rank(places, p) < Rank(places, q)
<1> DEFINE P == Upto(places, p)
           Q == Upto(places, q)
<1>1. P \subseteq places /\ Q \subseteq places
  BY DEF Upto
<1>2. IsFiniteSet(P) /\ IsFiniteSet(Q)
  BY <1>1, FS_Subset
<1>3. p[1] \in Nat /\ p[2] \in Nat /\ q[1] \in Nat /\ q[2] \in Nat
  OBVIOUS
<1>4. P \subseteq Q
  <2> SUFFICES ASSUME NEW r \in P PROVE r \in Q
    OBVIOUS
  <2>1. r \in places /\ r[1] \in Nat /\ r[2] \in Nat
    BY <1>1
  <2>2. r[1] < p[1] \/ (r[1] = p[1] /\ r[2] <= p[2])
    BY DEF Upto
  <2>3. r[1] < q[1] \/ (r[1] = q[1] /\ r[2] <= q[2])
    BY <1>3, <2>1, <2>2 DEF Before
  <2> QED
    BY <2>1, <2>3 DEF Upto
<1>5. q \in Q
  BY <1>3 DEF Upto
<1>6. q \notin P
  <2>1. ~(q[1] < p[1] \/ (q[1] = p[1] /\ q[2] <= p[2]))
    BY <1>3 DEF Before
  <2> QED
    BY <2>1 DEF Upto
<1>7. Cardinality(P) <= Cardinality(Q) /\ Cardinality(P) # Cardinality(Q)
  <2> HIDE DEF P, Q
  <2> QED BY <1>2, <1>4, <1>5, <1>6, FS_Subset
<1>8. Cardinality(P) \in Nat /\ Cardinality(Q) \in Nat
  BY <1>2, FS_CardinalityType
<1> QED
  BY <1>7, <1>8 DEF Rank

\* A rank is one of the numbers up to the count of places.
LEMMA RankRange ==
  ASSUME NEW places \in SUBSET (Nat \X Nat), IsFiniteSet(places), NEW p \in places
  PROVE  Rank(places, p) \in 1..Cardinality(places)
<1> DEFINE P == Upto(places, p)
<1>1. P \subseteq places
  BY DEF Upto
<1>2. p \in P
  <2>1. p[1] \in Nat /\ p[2] \in Nat
    OBVIOUS
  <2> QED BY <2>1 DEF Upto
<1> HIDE DEF P
<1>3. IsFiniteSet(P) /\ Cardinality(P) <= Cardinality(places)
  BY <1>1, FS_Subset
<1>4. Cardinality(P) # 0
  BY <1>2, <1>3, FS_EmptySet
<1>5. Cardinality(P) \in Nat /\ Cardinality(places) \in Nat
  BY <1>3, FS_CardinalityType
<1>6. Cardinality(P) \in 1..Cardinality(places)
  BY <1>3, <1>4, <1>5
<1> QED
  BY <1>6 DEF Rank, P

\* The ranks of the places are the numbers 1 to their count.
LEMMA PlaceOfRank ==
  ASSUME NEW places \in SUBSET (Nat \X Nat), IsFiniteSet(places)
  PROVE  /\ Cardinality(places) \in Nat
         /\ \A n \in 1..Cardinality(places) :
              Place(places, n) \in places /\ Rank(places, Place(places, n)) = n
         /\ \A p \in places :
              Rank(places, p) \in 1..Cardinality(places) /\ Place(places, Rank(places, p)) = p
<1> DEFINE N == Cardinality(places)
           f == [p \in places |-> Rank(places, p)]
<1>0. N \in Nat
  BY FS_CardinalityType
<1>1. \A p \in places : Rank(places, p) \in 1..N
  BY RankRange
<1>2. \A p, q \in places : Rank(places, p) = Rank(places, q) => p = q
  <2> SUFFICES ASSUME NEW p \in places, NEW q \in places, Rank(places, p) = Rank(places, q), p # q
               PROVE  FALSE
    OBVIOUS
  <2>1. Before(p, q) \/ Before(q, p)
    BY BeforeTotal
  <2>2. Rank(places, p) < Rank(places, q) \/ Rank(places, q) < Rank(places, p)
    BY <2>1, RankIncreases
  <2>3. Rank(places, p) \in Int /\ Rank(places, q) \in Int
    BY <1>1, <1>0
  <2> QED BY <2>2, <2>3
<1>3. f \in Injection(places, 1..N)
  BY <1>1, <1>2 DEF Injection, IsInjective
<1>4. IsFiniteSet(1..N) /\ Cardinality(1..N) = N
  BY <1>0, FS_Interval
<1>5. f \in Surjection(places, 1..N)
  <2> HIDE DEF f, N
  <2>1. N = Cardinality(places) BY DEF N
  <2> QED BY <1>3, <1>4, <2>1, FS_Injection
<1>6. \A n \in 1..N : \E p \in places : Rank(places, p) = n
  BY <1>5 DEF Surjection
<1>7. \A n \in 1..N : Place(places, n) \in places /\ Rank(places, Place(places, n)) = n
  BY <1>6 DEF Place, Rank
<1> QED
  BY <1>0, <1>1, <1>2, <1>7

\* What Filled does: it keeps the messages in their order and puts a placeholder
\* for each missing response behind the block that lacks it.
Shape(ms, fs, src, new) ==
  /\ \A n \in 1..Len(fs) :
       /\ src[n] \in 1..Len(ms)
       /\ new[n] \in CallIds \union {None}
       /\ new[n] = None => fs[n] = ms[src[n]]
       /\ new[n] # None => fs[n] = Placeholder(new[n]) /\ new[n] \in MissingBehind(ms, src[n])
  /\ \A m, n \in 1..Len(fs) :
       m < n <=> src[m] < src[n] \/ (src[m] = src[n] /\ new[m] < new[n])
  /\ \A k \in 1..Len(ms) : \E n \in 1..Len(fs) : src[n] = k /\ new[n] = None
  /\ \A k \in 1..Len(ms), c \in CallIds :
       c \in MissingBehind(ms, k) => \E n \in 1..Len(fs) : src[n] = k /\ new[n] = c

\* Calls are numbers, finitely many, and None is not one of them.
LEMMA CallIdsFinite ==
  /\ CallIds \subseteq Nat \ {0} /\ IsFiniteSet(CallIds)
  /\ IsFiniteSet(CallIds \union {None}) /\ CallIds \union {None} \subseteq Nat
<1>1. MaxCalls \in Nat
  BY LoopAssumption
<1>2. IsFiniteSet(1..MaxCalls)
  BY <1>1, FS_Interval
<1>3. IsFiniteSet((1..MaxCalls) \union {None})
  BY <1>2, FS_AddElement
<1> QED
  BY <1>1, <1>2, <1>3 DEF CallIds, None

\* Only calls get a placeholder.
LEMMA MissingType ==
  ASSUME NEW ms \in Seq(Message), NEW k \in 1..Len(ms)
  PROVE  MissingBehind(ms, k) \subseteq CallIds
<1>1. \A i \in 1..k : ms[i] \in Message
  OBVIOUS
<1>2. \A i \in 1..k : Missing(ms, i) \subseteq CallIds
  BY <1>1 DEF Missing, Message
<1> QED
  BY <1>2 DEF MissingBehind

\* There are finitely many places.
LEMMA PlacesFinite ==
  ASSUME NEW ms \in Seq(Message)
  PROVE  /\ Places(ms) \subseteq (1..Len(ms)) \X (CallIds \union {None})
         /\ Places(ms) \in SUBSET (Nat \X Nat)
         /\ IsFiniteSet(Places(ms))
<1> DEFINE All == (1..Len(ms)) \X (CallIds \union {None})
<1>1. Places(ms) \subseteq All
  <2> SUFFICES ASSUME NEW p \in Places(ms) PROVE p \in All
    OBVIOUS
  <2>1. CASE p \in (1..Len(ms)) \X {None}
    BY <2>1
  <2>2. CASE p \in UNION {{k} \X MissingBehind(ms, k) : k \in 1..Len(ms)}
    <3>1. PICK k \in 1..Len(ms) : p \in {k} \X MissingBehind(ms, k)
      BY <2>2
    <3> QED BY <3>1, MissingType
  <2> QED BY <2>1, <2>2 DEF Places
<1>2. IsFiniteSet(1..Len(ms))
  BY FS_Interval
<1>3. IsFiniteSet(All)
  BY <1>2, CallIdsFinite, FS_Product
<1>4. All \subseteq Nat \X Nat
  <2>1. 1..Len(ms) \subseteq Nat OBVIOUS
  <2> QED BY <2>1, CallIdsFinite
<1> HIDE DEF All
<1>5. IsFiniteSet(Places(ms))
  BY <1>1, <1>3, FS_Subset
<1> QED
  BY <1>1, <1>4, <1>5 DEF All

\* Which places there are.
LEMMA PlaceFacts ==
  ASSUME NEW ms \in Seq(Message)
  PROVE  /\ \A k \in 1..Len(ms) : <<k, None>> \in Places(ms)
         /\ \A k \in 1..Len(ms), c \in CallIds :
              c \in MissingBehind(ms, k) => <<k, c>> \in Places(ms)
         /\ \A p \in Places(ms) :
              p[2] # None => p[2] \in MissingBehind(ms, p[1])
<1>1. \A k \in 1..Len(ms) : <<k, None>> \in Places(ms)
  BY DEF Places
<1>2. ASSUME NEW k \in 1..Len(ms), NEW c \in MissingBehind(ms, k)
      PROVE  <<k, c>> \in Places(ms)
  <2>1. <<k, c>> \in {k} \X MissingBehind(ms, k)
    OBVIOUS
  <2> QED BY <2>1 DEF Places
<1>3. ASSUME NEW p \in Places(ms), p[2] # None
      PROVE  p[2] \in MissingBehind(ms, p[1])
  <2>1. p \notin (1..Len(ms)) \X {None}
    BY <1>3
  <2>2. PICK k \in 1..Len(ms) : p \in {k} \X MissingBehind(ms, k)
    BY <2>1 DEF Places
  <2> QED BY <2>2
<1> QED
  BY <1>1, <1>2, <1>3

\* The filled conversation is a conversation of that shape.
LEMMA FilledShape ==
  ASSUME NEW ms \in Seq(Message)
  PROVE  /\ Filled(ms) \in Seq(Message)
         /\ \E src, new : Shape(ms, Filled(ms), src, new)
<1> DEFINE ps == Places(ms)
           N == Cardinality(ps)
           fs == Filled(ms)
           at(n) == Place(ps, n)
           src == [n \in 1..N |-> at(n)[1]]
           new == [n \in 1..N |-> at(n)[2]]
<1>1. /\ N \in Nat
      /\ \A n \in 1..N : at(n) \in ps /\ Rank(ps, at(n)) = n
      /\ \A p \in ps : Rank(ps, p) \in 1..N /\ at(Rank(ps, p)) = p
  BY PlacesFinite, PlaceOfRank
<1>2. fs = [n \in 1..N |-> Content(ms, at(n))]
  BY DEF Filled
<1>3. \A n \in 1..N : /\ at(n)[1] \in 1..Len(ms) /\ at(n)[2] \in CallIds \union {None}
                      /\ at(n)[2] # None => at(n)[2] \in MissingBehind(ms, at(n)[1])
  BY <1>1, PlacesFinite, PlaceFacts
<1>4. \A n \in 1..N : Content(ms, at(n)) \in Message
  <2> SUFFICES ASSUME NEW n \in 1..N PROVE Content(ms, at(n)) \in Message
    OBVIOUS
  <2>1. CASE at(n)[2] = None
    <3>1. ms[at(n)[1]] \in Message
      BY <1>3
    <3> QED BY <2>1, <3>1 DEF Content
  <2>2. CASE at(n)[2] # None
    BY <1>3, <2>2 DEF Content, Placeholder, Message
  <2> QED BY <2>1, <2>2
<1> HIDE DEF N, ps
<1>5. fs \in Seq(Message) /\ Len(fs) = N
  <2> HIDE DEF at, fs
  <2>1. fs \in [1..N -> Message]
    BY <1>2, <1>4
  <2> QED BY <1>1, <2>1
<1> HIDE DEF fs
<1>6. ASSUME NEW n \in 1..N
      PROVE  /\ src[n] \in 1..Len(ms)
             /\ new[n] \in CallIds \union {None}
             /\ new[n] = None => fs[n] = ms[src[n]]
             /\ new[n] # None => fs[n] = Placeholder(new[n]) /\ new[n] \in MissingBehind(ms, src[n])
  BY <1>2, <1>3 DEF Content
<1>7. ASSUME NEW m \in 1..N, NEW n \in 1..N
      PROVE  m < n <=> src[m] < src[n] \/ (src[m] = src[n] /\ new[m] < new[n])
  <2>1. at(m) \in ps /\ at(n) \in ps /\ Rank(ps, at(m)) = m /\ Rank(ps, at(n)) = n
    BY <1>1
  <2>2. ps \in SUBSET (Nat \X Nat) /\ IsFiniteSet(ps)
    BY PlacesFinite DEF ps
  <2>3. Before(at(m), at(n)) => m < n
    BY <2>1, <2>2, RankIncreases
  <2>4. Before(at(n), at(m)) => n < m
    BY <2>1, <2>2, RankIncreases
  <2>5. at(m) = at(n) => m = n
    BY <2>1
  <2>6. at(m) # at(n) => Before(at(m), at(n)) \/ Before(at(n), at(m))
    BY <2>1, <2>2, BeforeTotal
  <2>7. m < n <=> Before(at(m), at(n))
    <3>1. m < n => at(m) # at(n)
      BY <2>1
    <3>2. m \in Int /\ n \in Int
      BY <1>1
    <3> QED BY <2>3, <2>4, <2>6, <3>1, <3>2
  <2> QED BY <2>7 DEF Before
<1>8. ASSUME NEW k \in 1..Len(ms)
      PROVE  \E n \in 1..N : src[n] = k /\ new[n] = None
  <2>1. <<k, None>> \in ps
    BY PlaceFacts DEF ps
  <2>2. Rank(ps, <<k, None>>) \in 1..N /\ at(Rank(ps, <<k, None>>)) = <<k, None>>
    BY <1>1, <2>1
  <2> QED BY <2>2
<1>9. ASSUME NEW k \in 1..Len(ms), NEW c \in CallIds, c \in MissingBehind(ms, k)
      PROVE  \E n \in 1..N : src[n] = k /\ new[n] = c
  <2>1. <<k, c>> \in ps
    BY <1>9, PlaceFacts DEF ps
  <2>2. Rank(ps, <<k, c>>) \in 1..N /\ at(Rank(ps, <<k, c>>)) = <<k, c>>
    BY <1>1, <2>1
  <2> QED BY <2>2
<1>10. Shape(ms, fs, src, new)
  <2> HIDE DEF src, new
  <2> QED BY <1>5, <1>6, <1>7, <1>8, <1>9 DEF Shape
<1> HIDE DEF src, new
<1> QED
  BY <1>5, <1>10 DEF fs

Less == {p \in Nat \X Nat : p[1] < p[2]}

\* Every set of numbers has a least one: what the proofs use for an induction.
LEMMA LeastNumber ==
  ASSUME NEW T \in SUBSET Nat, T # {}
  PROVE  \E x \in T : \A y \in T : x <= y
<1>1. IsWellFoundedOn(Less, Nat)
  BY NatLessThanWellFounded DEF OpToRel, Less
<1>2. PICK x \in T : \A y \in T : ~(<<y, x>> \in Less)
  BY <1>1, WFMin
<1>3. ASSUME NEW y \in T PROVE x <= y
  <2>1. x \in Nat /\ y \in Nat /\ ~(<<y, x>> \in Less)
    BY <1>2
  <2>2. y < x => <<y, x>> \in Less
    BY <2>1 DEF Less
  <2> QED BY <2>1, <2>2
<1> QED BY <1>3

\* The block of responses behind a message ends somewhere.
LEMMA BlockEnds ==
  ASSUME NEW ms \in Seq(Message), NEW i \in 1..Len(ms)
  PROVE  \E k \in i..Len(ms) : Ends(ms, i, k)
<1> DEFINE T == {k \in i..Len(ms) : k < Len(ms) => ~IsResponse(ms[k + 1])}
<1>1. Len(ms) \in T /\ T \in SUBSET Nat
  OBVIOUS
<1>2. PICK k \in T : \A y \in T : k <= y
  <2> HIDE DEF T
  <2> QED BY <1>1, LeastNumber
<1>3. \A j \in (i + 1)..k : IsResponse(ms[j])
  <2> SUFFICES ASSUME NEW j \in (i + 1)..k, ~IsResponse(ms[j]) PROVE FALSE
    OBVIOUS
  <2>1. j - 1 \in i..Len(ms) /\ (j - 1) + 1 = j /\ ~(k <= j - 1)
    OBVIOUS
  <2>2. j - 1 \in T
    BY <2>1
  <2> QED BY <1>2, <2>1, <2>2
<1> QED
  BY <1>2, <1>3 DEF Ends

Asks(ms, i) == ms[i].role = "assistant"

\* The responses behind an assistant message answer its calls, each of them once.
Neat(ms, i) ==
  /\ Responded(ms, i) \subseteq ms[i].calls
  /\ \A j, k \in Block(ms, i) : ms[j].call = ms[k].call => j = k

\* Every response belongs to an assistant message.
Owned(ms) ==
  \A j \in 1..Len(ms) :
    IsResponse(ms[j]) => \E i \in 1..(j - 1) : Asks(ms, i) /\ j \in Block(ms, i)

Tidy(ms) == Owned(ms) /\ \A i \in 1..Len(ms) : Asks(ms, i) => Neat(ms, i)

Complete(ms) == Tidy(ms) /\ \A i \in 1..Len(ms) : Asks(ms, i) => ms[i].calls \subseteq Responded(ms, i)

\* A conversation that is complete has the form that models accept.
LEMMA CompleteIsWellFormed ==
  ASSUME NEW ms \in Seq(Message), Complete(ms)
  PROVE  WellFormed(ms)
<1>1. ASSUME NEW i \in 1..Len(ms), ms[i].role = "assistant"
      PROVE  /\ ms[i].calls = Responded(ms, i)
             /\ Cardinality(Block(ms, i)) = Cardinality(ms[i].calls)
  <2>1. Neat(ms, i) /\ ms[i].calls = Responded(ms, i)
    BY <1>1 DEF Complete, Tidy, Neat, Asks
  <2> DEFINE B == Block(ms, i)
             f == [j \in B |-> ms[j].call]
  <2>2. B \subseteq 1..Len(ms) /\ IsFiniteSet(B)
    <3>1. B \subseteq 1..Len(ms)
      BY DEF Block
    <3>2. IsFiniteSet(1..Len(ms))
      BY FS_Interval
    <3> HIDE DEF B
    <3> QED BY <3>1, <3>2, FS_Subset
  <2>3. f \in Injection(B, ms[i].calls)
    BY <2>1 DEF Injection, IsInjective, Neat, Responded
  <2>4. f \in Surjection(B, ms[i].calls)
    BY <2>1 DEF Surjection, Responded
  <2>5. ExistsBijection(B, ms[i].calls)
    <3> HIDE DEF f, B
    <3> QED BY <2>3, <2>4 DEF ExistsBijection, Bijection
  <2>6. Cardinality(B) = Cardinality(ms[i].calls)
    <3> HIDE DEF f, B
    <3> QED BY <2>2, <2>5, FS_Bijection
  <2> QED BY <2>1, <2>6
<1>2. \A j \in 1..Len(ms) : IsResponse(ms[j]) =>
        \E i \in 1..(j - 1) : ms[i].role = "assistant" /\ j \in Block(ms, i)
  BY DEF Complete, Tidy, Owned, Asks
<1> QED
  BY <1>1, <1>2 DEF WellFormed

-----------------------------------------------------------------------------
(* What the blocks become when the conversation is filled in. *)

\* A placeholder counts as a response.
LEMMA PlaceholderAnswers == \A c : IsResponse(Placeholder(c))
BY DEF IsResponse, Placeholder

\* The assistant messages of the filled conversation are those of the conversation.
LEMMA FilledAsks ==
  ASSUME NEW ms \in Seq(Message), NEW fs \in Seq(Message), NEW src, NEW new, Shape(ms, fs, src, new),
         NEW n \in 1..Len(fs), Asks(fs, n)
  PROVE  new[n] = None /\ src[n] \in 1..Len(ms) /\ Asks(ms, src[n]) /\ fs[n] = ms[src[n]]
<1>1. src[n] \in 1..Len(ms) /\ (new[n] = None => fs[n] = ms[src[n]])
  BY DEF Shape
<1>2. new[n] # None => fs[n] = Placeholder(new[n])
  BY DEF Shape
<1>3. new[n] = None
  BY <1>2, PlaceholderAnswers DEF Asks, IsResponse
<1> QED BY <1>1, <1>3 DEF Asks

\* Responses stay behind the message that they followed.
LEMMA FilledBlockKept ==
  ASSUME NEW ms \in Seq(Message), NEW fs \in Seq(Message), NEW src, NEW new, Shape(ms, fs, src, new),
         NEW n \in 1..Len(fs), new[n] = None, NEW m \in 1..Len(fs),
         \/ new[m] = None /\ src[m] \in Block(ms, src[n])
         \/ new[m] # None /\ Ends(ms, src[n], src[m])
  PROVE  m \in Block(fs, n)
<1>0. \A k \in 1..Len(fs) : new[k] \in Nat /\ src[k] \in 1..Len(ms)
  BY CallIdsFinite DEF Shape
<1>1. n < m
  <2>1. src[n] < src[m] \/ (src[n] = src[m] /\ new[n] < new[m])
    <3>1. CASE new[m] = None /\ src[m] \in Block(ms, src[n])
      BY <3>1, <1>0 DEF Block
    <3>2. CASE new[m] # None /\ Ends(ms, src[n], src[m])
      BY <3>2, <1>0 DEF Ends, None
    <3> QED BY <3>1, <3>2
  <2> QED BY <2>1 DEF Shape
<1>2. \A j \in (src[n] + 1)..src[m] : IsResponse(ms[j])
  BY DEF Block, Ends
<1>3. ASSUME NEW q \in (n + 1)..m
      PROVE  IsResponse(fs[q])
  <2>0. q \in 1..Len(fs)
    OBVIOUS
  <2>1. CASE new[q] # None
    <3>1. fs[q] = Placeholder(new[q])
      BY <2>0, <2>1 DEF Shape
    <3> QED BY <3>1, PlaceholderAnswers
  <2>2. CASE new[q] = None
    <3>1. n < q /\ (q = m \/ q < m)
      OBVIOUS
    <3>2. src[n] < src[q]
      BY <2>0, <2>2, <3>1, <1>0 DEF Shape
    <3>3. src[q] <= src[m]
      BY <2>0, <3>1, <1>0 DEF Shape
    <3>4. src[q] \in (src[n] + 1)..src[m]
      BY <3>2, <3>3, <2>0, <1>0
    <3> QED BY <3>4, <1>2, <2>0, <2>2 DEF Shape
  <2> QED BY <2>1, <2>2
<1> QED
  BY <1>1, <1>3 DEF Block

\* What follows a message in the filled conversation: what followed it, and its placeholders.
LEMMA FilledBlock ==
  ASSUME NEW ms \in Seq(Message), NEW fs \in Seq(Message), NEW src, NEW new, Shape(ms, fs, src, new),
         NEW n \in 1..Len(fs), Asks(fs, n), NEW m \in Block(fs, n)
  PROVE  /\ m \in 1..Len(fs)
         /\ \/ new[m] = None /\ src[m] \in Block(ms, src[n])
            \/ new[m] # None /\ new[m] \in Missing(ms, src[n]) /\ Ends(ms, src[n], src[m])
<1> DEFINE i == src[n]
           k == src[m]
<1>0. \A p \in 1..Len(fs) : new[p] \in Nat /\ src[p] \in 1..Len(ms)
  BY CallIdsFinite DEF Shape
<1>1. m \in 1..Len(fs) /\ n < m /\ \A q \in (n + 1)..m : IsResponse(fs[q])
  BY DEF Block
<1>2. new[n] = None /\ Asks(ms, i) /\ fs[n] = ms[i]
  BY FilledAsks
<1>3. i < k \/ (i = k /\ None < new[m])
  BY <1>1, <1>2 DEF Shape
<1>4. ASSUME NEW j \in (i + 1)..k
      PROVE  IsResponse(ms[j])
  <2>1. j \in 1..Len(ms)
    BY <1>0, <1>1
  <2>2. PICK q \in 1..Len(fs) : src[q] = j /\ new[q] = None
    BY <2>1 DEF Shape
  <2>3. n < q
    BY <2>2, <1>0, <1>1 DEF Shape
  <2>4. q <= m
    <3>1. ~(m < q)
      <4>1. src[m] \in Nat /\ src[q] \in Nat /\ src[q] <= src[m] /\ new[m] \in Nat /\ new[q] = 0
        BY <2>2, <1>0, <1>1 DEF None
      <4>2. ~(src[m] < src[q] \/ (src[m] = src[q] /\ new[m] < new[q]))
        BY <4>1
      <4> QED BY <4>2, <1>1 DEF Shape
    <3> QED BY <3>1, <1>1
  <2>5. IsResponse(fs[q])
    BY <2>3, <2>4, <1>1
  <2> QED BY <2>5, <2>2 DEF Shape
<1>5. CASE new[m] = None
  <2>1. i < k
    BY <1>3, <1>5 DEF None
  <2> QED BY <2>1, <1>0, <1>1, <1>4, <1>5 DEF Block
<1>6. CASE new[m] # None
  <2>1. new[m] \in MissingBehind(ms, k) /\ k \in 1..Len(ms)
    BY <1>1, <1>6 DEF Shape
  <2>2. PICK h \in 1..k : Asks(ms, h) /\ Ends(ms, h, k) /\ new[m] \in Missing(ms, h)
    BY <2>1 DEF MissingBehind, Asks
  <2>3. i \in 1..k
    BY <1>0, <1>1, <1>3
  <2>4. ~(h < i)
    <3>1. h < i => IsResponse(ms[i])
      BY <2>2, <2>3 DEF Ends
    <3> QED BY <3>1, <1>2 DEF Asks, IsResponse
  <2>5. ~(i < h)
    <3>1. i < h => IsResponse(ms[h])
      BY <2>2, <2>3, <1>4
    <3> QED BY <3>1, <2>2 DEF Asks, IsResponse
  <2>6. h = i
    BY <2>2, <2>3, <2>4, <2>5, <2>1
  <2> QED BY <1>1, <1>6, <2>2, <2>6
<1> QED
  BY <1>1, <1>5, <1>6

\* No place occurs twice in the filled conversation.
LEMMA OnePlace ==
  ASSUME NEW ms \in Seq(Message), NEW fs \in Seq(Message), NEW src, NEW new, Shape(ms, fs, src, new),
         NEW j \in 1..Len(fs), NEW k \in 1..Len(fs), src[j] = src[k], new[j] = new[k]
  PROVE  j = k
<1>1. src[j] \in Nat /\ new[j] \in Nat
  BY CallIdsFinite DEF Shape
<1>2. /\ j < k => src[j] < src[k] \/ (src[j] = src[k] /\ new[j] < new[k])
      /\ k < j => src[k] < src[j] \/ (src[k] = src[j] /\ new[k] < new[j])
  BY DEF Shape
<1>3. ~(j < k) /\ ~(k < j)
  BY <1>1, <1>2
<1> QED BY <1>3

\* A block of responses has one end.
LEMMA OneEnd ==
  ASSUME NEW ms \in Seq(Message), NEW i \in 1..Len(ms), NEW j, NEW k, Ends(ms, i, j), Ends(ms, i, k)
  PROVE  j = k
<1>1. j \in i..Len(ms) /\ k \in i..Len(ms)
  BY DEF Ends
<1>2. ~(j < k)
  <2>1. j < k => j + 1 \in (i + 1)..k /\ j < Len(ms)
    BY <1>1
  <2> QED BY <2>1 DEF Ends
<1>3. ~(k < j)
  <2>1. k < j => k + 1 \in (i + 1)..j /\ k < Len(ms)
    BY <1>1
  <2> QED BY <2>1 DEF Ends
<1> QED BY <1>1, <1>2, <1>3

\* A placeholder belongs to an assistant message whose block ends there.
LEMMA NewOwner ==
  ASSUME NEW ms \in Seq(Message), NEW fs \in Seq(Message), NEW src, NEW new, Shape(ms, fs, src, new),
         NEW m \in 1..Len(fs), new[m] # None
  PROVE  /\ fs[m] = Placeholder(new[m])
         /\ \E h \in 1..Len(ms) : /\ h <= src[m] /\ Asks(ms, h) /\ Ends(ms, h, src[m])
                                  /\ new[m] \in Missing(ms, h)
<1>1. fs[m] = Placeholder(new[m]) /\ new[m] \in MissingBehind(ms, src[m]) /\ src[m] \in 1..Len(ms)
  BY DEF Shape
<1>2. PICK h \in 1..src[m] : Asks(ms, h) /\ Ends(ms, h, src[m]) /\ new[m] \in Missing(ms, h)
  BY <1>1 DEF MissingBehind, Asks
<1>3. h \in 1..Len(ms) /\ h <= src[m]
  BY <1>1
<1> QED BY <1>1, <1>2, <1>3

\* In a tidy conversation the count that the code looks at first decides nothing.
LEMMA MissingIs ==
  ASSUME NEW ms \in Seq(Message), NEW i \in 1..Len(ms)
  PROVE  /\ Missing(ms, i) \subseteq ms[i].calls \ Responded(ms, i)
         /\ Neat(ms, i) => Missing(ms, i) = ms[i].calls \ Responded(ms, i)
<1>1. Missing(ms, i) \subseteq ms[i].calls \ Responded(ms, i)
  BY DEF Missing
<1>2. ASSUME Neat(ms, i) PROVE Missing(ms, i) = ms[i].calls \ Responded(ms, i)
  <2> DEFINE R == Responded(ms, i)
             C == ms[i].calls
  <2>1. R \subseteq C /\ IsFiniteSet(C)
    <3>1. ms[i] \in Message
      OBVIOUS
    <3>2. C \subseteq CallIds
      BY <3>1 DEF Message
    <3>3. R \subseteq C
      BY <1>2 DEF Neat
    <3> HIDE DEF C, R
    <3> QED BY <3>2, <3>3, CallIdsFinite, FS_Subset
  <2>2. Cardinality(R) <= Cardinality(C) /\ (Cardinality(C) = Cardinality(R) => C = R)
    <3> HIDE DEF C, R
    <3> QED BY <2>1, FS_Subset
  <2>3. Cardinality(R) \in Nat /\ Cardinality(C) \in Nat
    <3> HIDE DEF C, R
    <3> QED BY <2>1, FS_Subset, FS_CardinalityType
  <2>4. ~(Cardinality(R) < Cardinality(C)) => C = R
    <3> HIDE DEF C, R
    <3> QED BY <2>2, <2>3
  <2> QED BY <2>4 DEF Missing
<1> QED BY <1>1, <1>2

\* A tidy conversation is complete once it is filled in.
LEMMA FilledComplete ==
  ASSUME NEW ms \in Seq(Message), Tidy(ms)
  PROVE  Complete(Filled(ms))
<1> DEFINE fs == Filled(ms)
<1>0. fs \in Seq(Message)
  BY FilledShape
<1>1. PICK src, new : Shape(ms, fs, src, new)
  BY FilledShape
<1> HIDE DEF fs
<1>2. ASSUME NEW n \in 1..Len(fs), Asks(fs, n)
      PROVE  Neat(fs, n) /\ fs[n].calls \subseteq Responded(fs, n)
  <2> DEFINE i == src[n]
  <2>1. new[n] = None /\ i \in 1..Len(ms) /\ Asks(ms, i) /\ fs[n] = ms[i]
    BY <1>0, <1>1, <1>2, FilledAsks
  <2>2. Neat(ms, i) /\ Missing(ms, i) = ms[i].calls \ Responded(ms, i)
    BY <2>1, MissingIs DEF Tidy
  <2> HIDE DEF i
  <2>3. ASSUME NEW m \in Block(fs, n)
        PROVE  /\ m \in 1..Len(fs)
               /\ \/ new[m] = None /\ src[m] \in Block(ms, i) /\ fs[m].call = ms[src[m]].call
                     /\ fs[m].call \in Responded(ms, i)
                  \/ new[m] # None /\ fs[m].call = new[m] /\ Ends(ms, i, src[m])
                     /\ fs[m].call \in ms[i].calls /\ fs[m].call \notin Responded(ms, i)
    <3>1. /\ m \in 1..Len(fs)
          /\ \/ new[m] = None /\ src[m] \in Block(ms, i)
             \/ new[m] # None /\ new[m] \in Missing(ms, i) /\ Ends(ms, i, src[m])
      BY <1>0, <1>1, <1>2, FilledBlock DEF i
    <3>2. CASE new[m] = None
      <4>1. fs[m] = ms[src[m]]
        BY <3>1, <3>2, <1>1 DEF Shape
      <4> QED BY <3>1, <3>2, <4>1 DEF Responded
    <3>3. CASE new[m] # None
      <4>1. fs[m] = Placeholder(new[m])
        BY <3>1, <3>3, <1>1 DEF Shape
      <4>2. fs[m].call = new[m]
        BY <4>1 DEF Placeholder
      <4> QED BY <3>1, <3>3, <4>2, <2>2
    <3> QED BY <3>2, <3>3
  <2>4. Responded(fs, n) \subseteq fs[n].calls
    BY <2>1, <2>2, <2>3 DEF Responded, Neat
  <2>5. ASSUME NEW j \in Block(fs, n), NEW k \in Block(fs, n), fs[j].call = fs[k].call
        PROVE  j = k
    <3>1. src[j] = src[k] /\ new[j] = new[k]
      <4>1. CASE new[j] = None /\ new[k] = None
        <5>1. src[j] \in Block(ms, i) /\ src[k] \in Block(ms, i) /\ ms[src[j]].call = ms[src[k]].call
          BY <2>3, <2>5, <4>1
        <5> QED BY <5>1, <4>1, <2>2 DEF Neat
      <4>2. CASE new[j] # None /\ new[k] # None
        <5>1. Ends(ms, i, src[j]) /\ Ends(ms, i, src[k]) /\ new[j] = new[k]
          BY <2>3, <2>5, <4>2
        <5> QED BY <5>1, <2>1, OneEnd
      <4>3. (new[j] = None) = (new[k] = None)
        BY <2>3, <2>5
      <4> QED BY <4>1, <4>2, <4>3
    <3> QED BY <3>1, <2>3, <1>0, <1>1, OnePlace
  <2>6. ASSUME NEW c \in fs[n].calls
        PROVE  c \in Responded(fs, n)
    <3>1. CASE c \in Responded(ms, i)
      <4>1. PICK k \in Block(ms, i) : ms[k].call = c
        BY <3>1 DEF Responded
      <4>2. k \in 1..Len(ms)
        BY <2>1 DEF Block
      <4>3. PICK m \in 1..Len(fs) : src[m] = k /\ new[m] = None
        BY <4>2, <1>1 DEF Shape
      <4>4. m \in Block(fs, n)
        BY <4>1, <4>3, <1>0, <1>1, <2>1, FilledBlockKept DEF i
      <4>5. fs[m].call = c
        BY <4>1, <4>3, <1>1 DEF Shape
      <4> QED BY <4>4, <4>5 DEF Responded
    <3>2. CASE c \notin Responded(ms, i)
      <4>1. c \in Missing(ms, i)
        BY <3>2, <2>1, <2>2
      <4>2. PICK k \in i..Len(ms) : Ends(ms, i, k)
        BY <2>1, BlockEnds
      <4>3. k \in 1..Len(ms) /\ i \in 1..k
        BY <2>1
      <4>4. c \in MissingBehind(ms, k)
        BY <4>1, <4>2, <4>3, <2>1 DEF MissingBehind, Asks
      <4>5. c \in CallIds
        BY <4>4, <4>3, MissingType
      <4>6. PICK m \in 1..Len(fs) : src[m] = k /\ new[m] = c
        BY <4>3, <4>4, <4>5, <1>1 DEF Shape
      <4>7. c # None
        BY <4>5, CallIdsFinite DEF None
      <4>8. m \in Block(fs, n)
        BY <4>2, <4>6, <4>7, <1>0, <1>1, <2>1, FilledBlockKept DEF i
      <4>9. fs[m] = Placeholder(c)
        BY <4>6, <4>7, <1>1 DEF Shape
      <4>10. fs[m].call = c
        BY <4>9 DEF Placeholder
      <4> QED BY <4>8, <4>10 DEF Responded
    <3> QED BY <3>1, <3>2
  <2> QED BY <2>4, <2>5, <2>6 DEF Neat
<1>3. ASSUME NEW j \in 1..Len(fs), IsResponse(fs[j])
      PROVE  \E n \in 1..(j - 1) : Asks(fs, n) /\ j \in Block(fs, n)
  <2>1. \E i \in 1..Len(ms) : /\ Asks(ms, i)
                              /\ \/ new[j] = None /\ src[j] \in Block(ms, i)
                                 \/ new[j] # None /\ Ends(ms, i, src[j])
    <3>1. CASE new[j] = None
      <4>1. src[j] \in 1..Len(ms) /\ IsResponse(ms[src[j]])
        BY <3>1, <1>1, <1>3 DEF Shape
      <4>2. PICK i \in 1..(src[j] - 1) : Asks(ms, i) /\ src[j] \in Block(ms, i)
        BY <4>1 DEF Tidy, Owned
      <4>3. i \in 1..Len(ms)
        BY <4>1
      <4> QED BY <3>1, <4>2, <4>3
    <3>2. CASE new[j] # None
      BY <3>2, <1>0, <1>1, NewOwner
    <3> QED BY <3>1, <3>2
  <2>2. PICK i \in 1..Len(ms) : /\ Asks(ms, i)
                                /\ \/ new[j] = None /\ src[j] \in Block(ms, i)
                                   \/ new[j] # None /\ Ends(ms, i, src[j])
    BY <2>1
  <2>3. PICK n \in 1..Len(fs) : src[n] = i /\ new[n] = None
    BY <1>1 DEF Shape
  <2>4. j \in Block(fs, n)
    BY <2>2, <2>3, <1>0, <1>1, FilledBlockKept
  <2>5. Asks(fs, n)
    BY <2>2, <2>3, <1>1 DEF Shape, Asks
  <2>6. n \in 1..(j - 1)
    BY <2>4 DEF Block
  <2> QED BY <2>4, <2>5, <2>6
<1> QED
  BY <1>2, <1>3 DEF Complete, Tidy, Owned, fs

-----------------------------------------------------------------------------
(* At most one answer of each kind. *)

OneEach(ms) ==
  \A j, k \in 1..Len(ms) :
    IsResponse(ms[j]) /\ ms[j].role = ms[k].role /\ ms[j].call = ms[k].call => j = k

\* No call is in two assistant messages.
Apart(ms) ==
  \A i, k \in 1..Len(ms) :
    Asks(ms, i) /\ Asks(ms, k) /\ i # k => ms[i].calls \intersect ms[k].calls = {}

\* A placeholder is among the responses to the assistant message that has its call.
Placed(ms) ==
  \A j \in 1..Len(ms) : ms[j].role = "placeholder" =>
    \E i \in 1..Len(ms) : Asks(ms, i) /\ j \in Block(ms, i) /\ ms[j].call \in ms[i].calls

\* Filling in keeps calls and responses apart, and adds nothing but placeholders.
LEMMA FilledAnswers ==
  ASSUME NEW ms \in Seq(Message), OneEach(ms), Apart(ms), Placed(ms)
  PROVE  /\ OneEach(Filled(ms)) /\ Apart(Filled(ms)) /\ Placed(Filled(ms))
         /\ \A m \in 1..Len(Filled(ms)) : Filled(ms)[m].role # "placeholder" =>
              \E k \in 1..Len(ms) : Filled(ms)[m] = ms[k]
<1> DEFINE fs == Filled(ms)
<1>0. fs \in Seq(Message)
  BY FilledShape
<1>1. PICK src, new : Shape(ms, fs, src, new)
  BY FilledShape
<1> HIDE DEF fs
<1>2. \A m \in 1..Len(fs) : new[m] = None => src[m] \in 1..Len(ms) /\ fs[m] = ms[src[m]]
  BY <1>1 DEF Shape
<1>3. ASSUME NEW m \in 1..Len(fs), new[m] # None
      PROVE  /\ fs[m].role = "placeholder" /\ fs[m].call = new[m]
             /\ \E h \in 1..Len(ms) : /\ Asks(ms, h) /\ Ends(ms, h, src[m])
                                      /\ new[m] \in ms[h].calls /\ new[m] \notin Responded(ms, h)
  <2>1. fs[m] = Placeholder(new[m])
    BY <1>0, <1>1, <1>3, NewOwner
  <2>2. fs[m].role = "placeholder" /\ fs[m].call = new[m]
    BY <2>1 DEF Placeholder
  <2>3. PICK h \in 1..Len(ms) : Asks(ms, h) /\ Ends(ms, h, src[m]) /\ new[m] \in Missing(ms, h)
    BY <1>0, <1>1, <1>3, NewOwner
  <2> QED BY <2>2, <2>3, MissingIs
\* A placeholder that was there has an answered call, a new one has a missing call.
<1>4. ASSUME NEW j \in 1..Len(fs), NEW k \in 1..Len(fs), new[j] = None, new[k] # None,
             fs[j].role = fs[k].role, fs[j].call = fs[k].call
      PROVE  FALSE
  <2>1. src[j] \in 1..Len(ms) /\ ms[src[j]].role = "placeholder" /\ ms[src[j]].call = new[k]
    BY <1>2, <1>3, <1>4
  <2>2. PICK i \in 1..Len(ms) : Asks(ms, i) /\ src[j] \in Block(ms, i) /\ new[k] \in ms[i].calls
    BY <2>1 DEF Placed
  <2>3. PICK h \in 1..Len(ms) : Asks(ms, h) /\ new[k] \in ms[h].calls /\ new[k] \notin Responded(ms, h)
    BY <1>3, <1>4
  <2>4. i = h
    BY <2>2, <2>3 DEF Apart
  <2>5. new[k] \in Responded(ms, i)
    BY <2>1, <2>2 DEF Responded
  <2> QED BY <2>3, <2>4, <2>5
<1>5. ASSUME NEW j \in 1..Len(fs), NEW k \in 1..Len(fs), IsResponse(fs[j]),
             fs[j].role = fs[k].role, fs[j].call = fs[k].call
      PROVE  j = k
  <2>1. CASE new[j] = None /\ new[k] = None
    <3>1. src[j] = src[k]
      BY <1>2, <1>5, <2>1 DEF OneEach
    <3> QED BY <3>1, <2>1, <1>0, <1>1, OnePlace
  <2>2. CASE new[j] # None /\ new[k] # None
    <3>1. PICK h \in 1..Len(ms) : Asks(ms, h) /\ Ends(ms, h, src[j]) /\ new[j] \in ms[h].calls
      BY <1>3, <2>2
    <3>2. PICK i \in 1..Len(ms) : Asks(ms, i) /\ Ends(ms, i, src[k]) /\ new[k] \in ms[i].calls
      BY <1>3, <2>2
    <3>3. new[j] = new[k]
      BY <1>3, <1>5, <2>2
    <3>4. h = i
      BY <3>1, <3>2, <3>3 DEF Apart
    <3>5. src[j] = src[k]
      BY <3>1, <3>2, <3>4, OneEnd
    <3> QED BY <3>3, <3>5, <1>0, <1>1, OnePlace
  <2> QED BY <2>1, <2>2, <1>4, <1>5
<1>6. ASSUME NEW n \in 1..Len(fs), Asks(fs, n)
      PROVE  new[n] = None /\ src[n] \in 1..Len(ms) /\ Asks(ms, src[n]) /\ fs[n] = ms[src[n]]
  BY <1>0, <1>1, <1>6, FilledAsks
<1>7. Apart(fs)
  <2> SUFFICES ASSUME NEW i \in 1..Len(fs), NEW k \in 1..Len(fs), Asks(fs, i), Asks(fs, k), i # k
               PROVE  fs[i].calls \intersect fs[k].calls = {}
    BY DEF Apart
  <2>1. src[i] # src[k]
    BY <1>0, <1>1, <1>6, OnePlace
  <2> QED BY <2>1, <1>6 DEF Apart
<1>8. ASSUME NEW j \in 1..Len(fs), fs[j].role = "placeholder"
      PROVE  \E n \in 1..Len(fs) : Asks(fs, n) /\ j \in Block(fs, n) /\ fs[j].call \in fs[n].calls
  <2>1. \E i \in 1..Len(ms) : /\ Asks(ms, i) /\ fs[j].call \in ms[i].calls
                              /\ \/ new[j] = None /\ src[j] \in Block(ms, i)
                                 \/ new[j] # None /\ Ends(ms, i, src[j])
    <3>1. CASE new[j] = None
      <4>1. src[j] \in 1..Len(ms) /\ fs[j] = ms[src[j]]
        BY <1>2, <3>1
      <4> QED BY <4>1, <1>8, <3>1 DEF Placed
    <3>2. CASE new[j] # None
      BY <1>3, <3>2
    <3> QED BY <3>1, <3>2
  <2>2. PICK i \in 1..Len(ms) : /\ Asks(ms, i) /\ fs[j].call \in ms[i].calls
                                /\ \/ new[j] = None /\ src[j] \in Block(ms, i)
                                   \/ new[j] # None /\ Ends(ms, i, src[j])
    BY <2>1
  <2>3. PICK n \in 1..Len(fs) : src[n] = i /\ new[n] = None
    BY <1>1 DEF Shape
  <2>4. fs[n] = ms[i]
    BY <2>3, <1>2
  <2>5. j \in Block(fs, n)
    BY <2>2, <2>3, <1>0, <1>1, FilledBlockKept
  <2> QED BY <2>2, <2>4, <2>5 DEF Asks
<1>9. ASSUME NEW m \in 1..Len(fs), fs[m].role # "placeholder"
      PROVE  \E k \in 1..Len(ms) : fs[m] = ms[k]
  BY <1>2, <1>3, <1>9
<1> QED
  BY <1>5, <1>7, <1>8, <1>9 DEF OneEach, Placed, fs

\* A block is a set of indices of the conversation.
LEMMA BlockRange ==
  ASSUME NEW ms \in Seq(Message), NEW i \in 1..Len(ms)
  PROVE  Block(ms, i) \subseteq 1..Len(ms)
<1>1. (i + 1)..Len(ms) \subseteq 1..Len(ms)
  OBVIOUS
<1>2. Block(ms, i) \subseteq (i + 1)..Len(ms)
  BY DEF Block
<1> QED BY <1>1, <1>2

\* What a conversation is after a message was appended.
LEMMA AppendFacts ==
  ASSUME NEW ms \in Seq(Message), NEW m \in Message
  PROVE  /\ Append(ms, m) \in Seq(Message) /\ Len(ms) \in Nat
         /\ Len(Append(ms, m)) = Len(ms) + 1
         /\ \A i \in 1..Len(ms) : Append(ms, m)[i] = ms[i]
         /\ Append(ms, m)[Len(ms) + 1] = m
OBVIOUS

\* A response that is appended may be part of a block; blocks lose nothing.
LEMMA AppendBlock ==
  ASSUME NEW ms \in Seq(Message), NEW m \in Message
  PROVE  /\ \A i \in 1..Len(ms) : Block(ms, i) \subseteq Block(Append(ms, m), i)
         /\ \A i \in 1..(Len(ms) + 1) : \A j \in Block(Append(ms, m), i) :
              /\ i \in 1..Len(ms)
              /\ \/ j \in Block(ms, i)
                 \/ /\ j = Len(ms) + 1 /\ IsResponse(m)
                    /\ \A k \in (i + 1)..Len(ms) : IsResponse(ms[k])
         /\ \A i \in 1..Len(ms) :
              IsResponse(m) /\ (\A k \in (i + 1)..Len(ms) : IsResponse(ms[k]))
                => Len(ms) + 1 \in Block(Append(ms, m), i)
<1> DEFINE as == Append(ms, m)
<1>1. /\ Len(ms) \in Nat /\ Len(as) = Len(ms) + 1
      /\ \A i \in 1..Len(ms) : as[i] = ms[i]
      /\ as[Len(ms) + 1] = m
  BY AppendFacts
<1> HIDE DEF as
<1>2. ASSUME NEW i \in 1..Len(ms), NEW j \in Block(ms, i)
      PROVE  j \in Block(as, i)
  <2>1. j \in (i + 1)..Len(ms) /\ \A k \in (i + 1)..j : IsResponse(ms[k])
    BY DEF Block
  <2>2. \A k \in (i + 1)..j : k \in 1..Len(ms)
    BY <2>1, <1>1
  <2>3. \A k \in (i + 1)..j : IsResponse(as[k])
    BY <2>1, <2>2, <1>1
  <2>4. j \in (i + 1)..Len(as)
    BY <2>1, <1>1
  <2> QED BY <2>3, <2>4 DEF Block
<1>3. ASSUME NEW i \in 1..(Len(ms) + 1), NEW j \in Block(as, i)
      PROVE  /\ i \in 1..Len(ms)
             /\ \/ j \in Block(ms, i)
                \/ /\ j = Len(ms) + 1 /\ IsResponse(m)
                   /\ \A k \in (i + 1)..Len(ms) : IsResponse(ms[k])
  <2>1. j \in (i + 1)..(Len(ms) + 1) /\ \A k \in (i + 1)..j : IsResponse(as[k])
    BY <1>1 DEF Block
  <2>2. i \in 1..Len(ms)
    BY <2>1, <1>1
  <2>3. CASE j \in (i + 1)..Len(ms)
    <3>1. \A k \in (i + 1)..j : k \in 1..Len(ms)
      BY <2>2, <2>3, <1>1
    <3>2. \A k \in (i + 1)..j : IsResponse(ms[k])
      BY <2>1, <3>1, <1>1
    <3> QED BY <2>2, <2>3, <3>2 DEF Block
  <2>4. CASE j = Len(ms) + 1
    <3>1. \A k \in (i + 1)..Len(ms) : k \in 1..Len(ms) /\ k \in (i + 1)..j
      BY <2>2, <2>4, <1>1
    <3>2. \A k \in (i + 1)..Len(ms) : IsResponse(ms[k])
      BY <2>1, <3>1, <1>1
    <3>3. j \in (i + 1)..j
      BY <2>2, <2>4, <1>1
    <3>4. IsResponse(m)
      BY <2>1, <3>3, <2>4, <1>1
    <3> QED BY <2>2, <2>4, <3>2, <3>4
  <2> QED BY <2>1, <2>3, <2>4, <1>1
<1>4. ASSUME NEW i \in 1..Len(ms), IsResponse(m), \A k \in (i + 1)..Len(ms) : IsResponse(ms[k])
      PROVE  Len(ms) + 1 \in Block(as, i)
  <2>1. \A k \in (i + 1)..(Len(ms) + 1) : (k \in (i + 1)..Len(ms) /\ k \in 1..Len(ms)) \/ k = Len(ms) + 1
    BY <1>1
  <2>2. \A k \in (i + 1)..(Len(ms) + 1) : IsResponse(as[k])
    BY <2>1, <1>1, <1>4
  <2>3. Len(ms) + 1 \in (i + 1)..Len(as)
    BY <1>1
  <2> QED BY <2>2, <2>3 DEF Block
<1> QED
  BY <1>2, <1>3, <1>4 DEF as

\* A message that is no response leaves the blocks as they are.
LEMMA AppendOther ==
  ASSUME NEW ms \in Seq(Message), NEW m \in Message, ~IsResponse(m)
  PROVE  /\ \A i \in 1..Len(ms) : Block(Append(ms, m), i) = Block(ms, i)
                               /\ Responded(Append(ms, m), i) = Responded(ms, i)
         /\ Block(Append(ms, m), Len(ms) + 1) = {}
<1> DEFINE as == Append(ms, m)
<1>1. \A i \in 1..Len(ms) : Block(as, i) = Block(ms, i)
  <2> SUFFICES ASSUME NEW i \in 1..Len(ms) PROVE Block(as, i) = Block(ms, i)
    OBVIOUS
  <2>1. i \in 1..(Len(ms) + 1)
    OBVIOUS
  <2>2. Block(ms, i) \subseteq Block(as, i)
    BY AppendBlock
  <2>3. \A j \in Block(as, i) : j \in Block(ms, i)
    BY <2>1, AppendBlock
  <2> QED BY <2>2, <2>3
<1>2. Block(as, Len(ms) + 1) = {}
  <2>1. Len(ms) \in Nat /\ Len(ms) + 1 \in 1..(Len(ms) + 1) /\ Len(ms) + 1 \notin 1..Len(ms)
    OBVIOUS
  <2> QED BY <2>1, AppendBlock
<1>3. ASSUME NEW i \in 1..Len(ms) PROVE Responded(as, i) = Responded(ms, i)
  <2>1. \A j \in Block(ms, i) : j \in 1..Len(ms)
    BY DEF Block
  <2>2. \A j \in Block(ms, i) : as[j] = ms[j]
    BY <2>1, AppendFacts
  <2> HIDE DEF as
  <2> QED BY <1>1, <2>2 DEF Responded
<1> QED BY <1>1, <1>2, <1>3

\* A message that is no response keeps the conversation tidy.
LEMMA TidyOther ==
  ASSUME NEW ms \in Seq(Message), NEW m \in Message, ~IsResponse(m), Tidy(ms)
  PROVE  /\ Tidy(Append(ms, m))
         /\ Complete(ms) /\ (m.role = "assistant" => m.calls = {}) => Complete(Append(ms, m))
<1> DEFINE as == Append(ms, m)
<1>1. /\ Len(ms) \in Nat /\ Len(as) = Len(ms) + 1
      /\ \A i \in 1..Len(ms) : as[i] = ms[i]
      /\ as[Len(ms) + 1] = m
  BY AppendFacts
<1>2. /\ \A i \in 1..Len(ms) : Block(as, i) = Block(ms, i) /\ Responded(as, i) = Responded(ms, i)
      /\ Block(as, Len(ms) + 1) = {}
  BY AppendOther
<1> HIDE DEF as
<1>3. \A i \in 1..Len(as) : i \in 1..Len(ms) \/ i = Len(ms) + 1
  BY <1>1
<1>4. Owned(as)
  <2> SUFFICES ASSUME NEW j \in 1..Len(as), IsResponse(as[j])
               PROVE  \E i \in 1..(j - 1) : Asks(as, i) /\ j \in Block(as, i)
    BY DEF Owned
  <2>1. j \in 1..Len(ms) /\ IsResponse(ms[j])
    BY <1>1, <1>3
  <2>2. PICK i \in 1..(j - 1) : Asks(ms, i) /\ j \in Block(ms, i)
    BY <2>1 DEF Tidy, Owned
  <2>3. i \in 1..Len(ms)
    BY <2>1, <2>2
  <2> QED BY <2>2, <2>3, <1>1, <1>2 DEF Asks
<1>5. ASSUME NEW i \in 1..Len(as), Asks(as, i)
      PROVE  Neat(as, i)
  <2>1. CASE i \in 1..Len(ms)
    <3>1. Neat(ms, i)
      BY <1>1, <1>5, <2>1 DEF Tidy, Asks
    <3>2. \A j \in Block(ms, i) : as[j] = ms[j]
      BY <2>1, <1>1, BlockRange
    <3> QED BY <3>1, <3>2, <2>1, <1>1, <1>2 DEF Neat
  <2>2. CASE i = Len(ms) + 1
    BY <2>2, <1>2 DEF Neat, Responded
  <2> QED BY <1>3, <2>1, <2>2
<1>6. ASSUME Complete(ms), m.role = "assistant" => m.calls = {}, NEW i \in 1..Len(as), Asks(as, i)
      PROVE  as[i].calls \subseteq Responded(as, i)
  BY <1>1, <1>2, <1>3, <1>6 DEF Complete, Asks
<1> QED
  BY <1>4, <1>5, <1>6 DEF Tidy, Complete, as

-----------------------------------------------------------------------------
(* An answer whose calls P have no response yet. *)

Open(ms, P) ==
  /\ Tidy(ms)
  /\ \E a \in 1..Len(ms) :
       /\ Asks(ms, a)
       /\ \A k \in (a + 1)..Len(ms) : IsResponse(ms[k])
       /\ ms[a].calls = Responded(ms, a) \union P
       /\ P \intersect Responded(ms, a) = {}
       /\ \A i \in 1..Len(ms) : Asks(ms, i) /\ i # a => ms[i].calls \subseteq Responded(ms, i)

\* An answer without pending calls is complete.
LEMMA OpenNothing ==
  ASSUME NEW ms \in Seq(Message), Open(ms, {})
  PROVE  Complete(ms)
BY DEF Open, Complete

\* An answer that calls tools opens with all of its calls pending.
LEMMA OpenAnswer ==
  ASSUME NEW ms \in Seq(Message), Complete(ms), NEW S \in SUBSET CallIds
  PROVE  Open(Append(ms, Assistant(S)), S)
<1> DEFINE m == Assistant(S)
           as == Append(ms, m)
<1>0. m \in Message /\ m.role = "assistant" /\ m.calls = S /\ ~IsResponse(m)
  BY DEF Assistant, Message, IsResponse
<1> HIDE DEF m
<1>1. /\ Len(ms) \in Nat /\ Len(as) = Len(ms) + 1
      /\ \A i \in 1..Len(ms) : as[i] = ms[i]
      /\ as[Len(ms) + 1] = m
  BY <1>0, AppendFacts
<1>2. /\ \A i \in 1..Len(ms) : Block(as, i) = Block(ms, i) /\ Responded(as, i) = Responded(ms, i)
      /\ Block(as, Len(ms) + 1) = {}
  BY <1>0, AppendOther
<1>3. Tidy(as)
  BY <1>0, TidyOther DEF Complete
<1> DEFINE a == Len(ms) + 1
<1> HIDE DEF as
<1>4. a \in 1..Len(as) /\ Asks(as, a) /\ as[a].calls = S /\ Responded(as, a) = {}
  <2>1. a \in 1..Len(as)
    BY <1>1
  <2>2. as[a] = m
    BY <1>1
  <2> QED BY <2>1, <2>2, <1>0, <1>2 DEF Asks, Responded
<1>5. \A k \in (a + 1)..Len(as) : IsResponse(as[k])
  BY <1>1
<1>6. ASSUME NEW i \in 1..Len(as), Asks(as, i), i # a
      PROVE  as[i].calls \subseteq Responded(as, i)
  <2>1. i \in 1..Len(ms)
    BY <1>1, <1>6
  <2> QED BY <2>1, <1>1, <1>2, <1>6 DEF Complete, Asks
<1>7. Open(as, S)
  BY <1>3, <1>4, <1>5, <1>6 DEF Open
<1> QED BY <1>7 DEF as, m

\* A response takes its call from those that are pending.
LEMMA OpenResponse ==
  ASSUME NEW ms \in Seq(Message), NEW P \in SUBSET CallIds, Open(ms, P), NEW c \in P
  PROVE  Open(Append(ms, Response(c)), P \ {c})
<1> DEFINE m == Response(c)
           as == Append(ms, m)
<1>0. m \in Message /\ IsResponse(m) /\ m.call = c /\ m.role # "assistant"
  BY DEF Response, Message, IsResponse
<1> HIDE DEF m
<1>1. /\ Len(ms) \in Nat /\ Len(as) = Len(ms) + 1
      /\ \A i \in 1..Len(ms) : as[i] = ms[i]
      /\ as[Len(ms) + 1] = m
  BY <1>0, AppendFacts
<1>2. /\ \A i \in 1..Len(ms) : Block(ms, i) \subseteq Block(as, i)
      /\ \A i \in 1..(Len(ms) + 1) : \A j \in Block(as, i) :
              /\ i \in 1..Len(ms)
              /\ \/ j \in Block(ms, i)
                 \/ j = Len(ms) + 1 /\ \A k \in (i + 1)..Len(ms) : IsResponse(ms[k])
      /\ \A i \in 1..Len(ms) : (\A k \in (i + 1)..Len(ms) : IsResponse(ms[k]))
                => Len(ms) + 1 \in Block(as, i)
  BY <1>0, AppendBlock
<1> HIDE DEF as
<1>range. \A i \in 1..Len(as) : i \in 1..Len(ms) \/ i = Len(ms) + 1
  BY <1>1
<1>3. PICK a \in 1..Len(ms) :
       /\ Asks(ms, a)
       /\ \A k \in (a + 1)..Len(ms) : IsResponse(ms[k])
       /\ ms[a].calls = Responded(ms, a) \union P
       /\ P \intersect Responded(ms, a) = {}
       /\ \A i \in 1..Len(ms) : Asks(ms, i) /\ i # a => ms[i].calls \subseteq Responded(ms, i)
  BY DEF Open
<1>4. \A i \in 1..Len(as) : Asks(as, i) <=> i \in 1..Len(ms) /\ Asks(ms, i)
  <2> SUFFICES ASSUME NEW i \in 1..Len(as)
               PROVE  Asks(as, i) <=> i \in 1..Len(ms) /\ Asks(ms, i)
    OBVIOUS
  <2>1. CASE i \in 1..Len(ms)
    BY <2>1, <1>1 DEF Asks
  <2>2. CASE i \notin 1..Len(ms)
    <3>1. as[i] = m
      BY <2>2, <1>1, <1>range
    <3> QED BY <2>2, <3>1, <1>0 DEF Asks
  <2> QED BY <2>1, <2>2
\* Only the block of the open answer grows.
<1>5. ASSUME NEW i \in 1..Len(ms), Asks(ms, i), i # a
      PROVE  Block(as, i) = Block(ms, i) /\ Responded(as, i) = Responded(ms, i)
  <2>1. ~\A k \in (i + 1)..Len(ms) : IsResponse(ms[k])
    <3>1. CASE i < a
      BY <1>3, <3>1 DEF Asks, IsResponse
    <3>2. CASE a < i
      BY <1>3, <1>5, <3>2 DEF Asks, IsResponse
    <3> QED BY <3>1, <3>2, <1>5
  <2>2. Block(as, i) = Block(ms, i)
    <3>1. i \in 1..(Len(ms) + 1)
      BY <1>1
    <3>2. \A j \in Block(as, i) : j \in Block(ms, i)
      BY <3>1, <2>1, <1>2
    <3> QED BY <3>2, <1>2
  <2>3. \A j \in Block(ms, i) : as[j] = ms[j]
    BY <1>1, BlockRange
  <2> QED BY <2>2, <2>3 DEF Responded
<1>6. Block(as, a) = Block(ms, a) \union {Len(ms) + 1}
  <2>1. a \in 1..(Len(ms) + 1)
    BY <1>1
  <2>2. Block(ms, a) \subseteq Block(as, a) /\ Len(ms) + 1 \in Block(as, a)
    BY <1>2, <1>3
  <2>3. \A j \in Block(as, a) : j \in Block(ms, a) \/ j = Len(ms) + 1
    BY <2>1, <1>2
  <2> QED BY <2>2, <2>3
<1>7. \A j \in Block(ms, a) : j \in 1..Len(ms) /\ as[j] = ms[j]
  BY <1>1, BlockRange
<1>8. Responded(as, a) = Responded(ms, a) \union {c}
  <2>1. Responded(as, a) = {as[j].call : j \in Block(ms, a)} \union {as[Len(ms) + 1].call}
    BY <1>6 DEF Responded
  <2>2. {as[j].call : j \in Block(ms, a)} = Responded(ms, a)
    BY <1>7 DEF Responded
  <2> QED BY <2>1, <2>2, <1>0, <1>1
<1>9. Owned(as)
  <2> SUFFICES ASSUME NEW j \in 1..Len(as), IsResponse(as[j])
               PROVE  \E i \in 1..(j - 1) : Asks(as, i) /\ j \in Block(as, i)
    BY DEF Owned
  <2>1. CASE j \in 1..Len(ms)
    <3>0. IsResponse(ms[j])
      BY <2>1, <1>1
    <3>1. PICK i \in 1..(j - 1) : Asks(ms, i) /\ j \in Block(ms, i)
      BY <3>0, <2>1 DEF Open, Tidy, Owned
    <3>2. i \in 1..Len(ms) /\ i \in 1..Len(as)
      BY <2>1, <3>1, <1>1
    <3> QED BY <3>1, <3>2, <1>2, <1>4
  <2>2. CASE j = Len(ms) + 1
    <3>1. a \in 1..(j - 1) /\ a \in 1..Len(as)
      BY <2>2, <1>1
    <3> QED BY <3>1, <2>2, <1>3, <1>4, <1>6
  <2> QED BY <2>1, <2>2, <1>range
<1>10. ASSUME NEW i \in 1..Len(as), Asks(as, i)
      PROVE  Neat(as, i)
  <2>0. i \in 1..Len(ms) /\ Asks(ms, i) /\ Neat(ms, i)
    BY <1>4, <1>10 DEF Open, Tidy
  <2>1. CASE i # a
    <3>1. \A j \in Block(ms, i) : as[j] = ms[j]
      BY <2>0, <1>1, BlockRange
    <3> QED BY <2>0, <2>1, <3>1, <1>1, <1>5 DEF Neat
  <2>2. CASE i = a
    <3>1. Responded(as, a) \subseteq as[a].calls
      BY <1>1, <1>3, <1>8
    <3>2. ASSUME NEW j \in Block(as, a), NEW k \in Block(as, a), as[j].call = as[k].call
          PROVE  j = k
      <4>1. \A h \in Block(ms, a) : as[h].call = ms[h].call /\ as[h].call # c
        BY <1>3, <1>7 DEF Responded
      <4>2. as[Len(ms) + 1].call = c
        BY <1>0, <1>1
      <4> QED BY <4>1, <4>2, <3>2, <1>6, <2>0, <2>2 DEF Neat
    <3> QED BY <3>1, <3>2, <2>2 DEF Neat
  <2> QED BY <2>1, <2>2
<1>11. /\ a \in 1..Len(as) /\ Asks(as, a)
       /\ \A k \in (a + 1)..Len(as) : IsResponse(as[k])
       /\ as[a].calls = Responded(as, a) \union (P \ {c})
       /\ (P \ {c}) \intersect Responded(as, a) = {}
       /\ \A i \in 1..Len(as) : Asks(as, i) /\ i # a => as[i].calls \subseteq Responded(as, i)
  <2>0. a \in 1..Len(as)
    BY <1>1
  <2>1. a \in 1..Len(as) /\ Asks(as, a)
    BY <2>0, <1>3, <1>4
  <2>2. \A k \in (a + 1)..Len(as) : IsResponse(as[k])
    <3> SUFFICES ASSUME NEW k \in (a + 1)..Len(as) PROVE IsResponse(as[k])
      OBVIOUS
    <3>1. (k \in (a + 1)..Len(ms) /\ k \in 1..Len(ms)) \/ k = Len(ms) + 1
      BY <1>1
    <3> QED BY <3>1, <1>0, <1>1, <1>3
  <2>3. as[a].calls = Responded(as, a) \union (P \ {c}) /\ (P \ {c}) \intersect Responded(as, a) = {}
    BY <1>1, <1>3, <1>8
  <2>4. \A i \in 1..Len(as) : Asks(as, i) /\ i # a => as[i].calls \subseteq Responded(as, i)
    BY <1>1, <1>3, <1>4, <1>5
  <2> QED BY <2>1, <2>2, <2>3, <2>4
<1>12. Open(as, P \ {c})
  BY <1>9, <1>10, <1>11 DEF Open, Tidy
<1> QED BY <1>12 DEF as, m

-----------------------------------------------------------------------------

Quiet(c) == task[c] \in {"none", "done"}

\* Until a tool is abandoned, tools are at work only while the turn is at its tools or
\* waits for those it has cancelled, and only those of the current answer.
BatchOwnsTasks ==
  ~disturbed => \A c \in CallIds : Quiet(c) \/ (pc \in {"tools", "gather"} /\ c \in batch)

\* Calls are numbered as they are issued, and none is issued twice.
Issued == 1..used.calls

CallsIssued ==
  /\ Apart(messages)
  /\ \A i \in 1..Len(messages) : Asks(messages, i) => messages[i].calls \subseteq Issued
  /\ batch \subseteq Issued /\ failed \subseteq Issued
  /\ \A c \in CallIds \ Issued : task[c] = "none"
  /\ failed # {} => pc = "failed"
  /\ pc = "failed" => failed \intersect batch = {} /\ \A c \in failed \union batch : task[c] = "none"

\* A call that its tool has answered is not going to be answered again.
Finished(c) ==
  /\ c \in Issued /\ c \notin failed /\ (pc = "failed" => c \notin batch)
  /\ Quiet(c)

AnswersFinal ==
  /\ OneEach(messages) /\ Placed(messages)
  /\ \A j \in 1..Len(messages) : messages[j].role = "tool" => Finished(messages[j].call)

\* The calls of the current answer that have no response yet.
Pending ==
  CASE pc = "failed" -> failed \union batch
    [] pc \in {"tools", "gather"} -> {c \in batch : task[c] # "done"}
    [] OTHER -> {}

\* Until tools are disturbed: an answer is open while its tools are at work, and else
\* every call has a response, but for a turn that is over.
InOrder ==
  ~disturbed =>
    IF pc \in {"failed", "tools", "gather"} THEN Open(messages, Pending)
    ELSE Tidy(messages) /\ (pc # "idle" => Complete(messages))

-----------------------------------------------------------------------------
(* Types *)

\* The count of commands that have not reported is bounded by those started.
TypeInv == TypeOK /\ commands <= used.commands

\* The messages that the loop appends.
LEMMA MessageTypes ==
  /\ User \in Message
  /\ \A S \in SUBSET CallIds : Assistant(S) \in Message
  /\ \A c \in CallIds : Response(c) \in Message
  /\ <<>> \in Seq(Message) /\ <<User>> \in Seq(Message)
<1>1. User \in Message
  BY DEF User, Message
<1>2. \A S \in SUBSET CallIds : Assistant(S) \in Message
  BY DEF Assistant, Message
<1>3. \A c \in CallIds : Response(c) \in Message
  BY DEF Response, Message
<1>4. <<>> \in Seq(Message) /\ <<User>> \in Seq(Message)
  <2> HIDE DEF Message, User
  <2> QED BY <1>1
<1> QED BY <1>1, <1>2, <1>3, <1>4

\* The bounds are natural numbers.
LEMMA BoundsAreNumbers ==
  /\ MaxInterrupts \in Nat /\ MaxCalls \in Nat /\ MaxPrompts \in Nat
  /\ MaxRequests \in Nat /\ MaxCommands \in Nat /\ MaxClears \in Nat /\ MaxCompacts \in Nat
  /\ MaxPerAnswer \in Nat
BY LoopAssumption

\* The initial state has its type.
LEMMA InitType == Init => TypeInv
<1> SUFFICES ASSUME Init PROVE TypeInv
  OBVIOUS
<1>1. used \in Bounds /\ commands <= used.commands /\ commands \in 0..MaxCommands
  BY BoundsAreNumbers DEF Init, Bounds
<1>2. messages \in Seq(Message)
  BY MessageTypes DEF Init
<1> QED BY <1>1, <1>2 DEF Init, TypeInv, TypeOK

\* What a step that counts one more use of a bound does to the counts.
LEMMA Counted ==
  ASSUME used \in Bounds
  PROVE  /\ used.calls \in 0..MaxCalls /\ used.requests \in 0..MaxRequests
         /\ used.prompts \in 0..MaxPrompts /\ used.interrupts \in 0..MaxInterrupts
         /\ used.commands \in 0..MaxCommands /\ used.clears \in 0..MaxClears
         /\ used.compacts \in 0..MaxCompacts
         /\ used.prompts < MaxPrompts =>
              LET u == [used EXCEPT !.prompts = @ + 1] IN
              u \in Bounds /\ u.calls = used.calls /\ u.requests = used.requests /\ u.commands = used.commands
         /\ used.requests < MaxRequests =>
              LET u == [used EXCEPT !.requests = @ + 1] IN
              u \in Bounds /\ u.calls = used.calls /\ u.commands = used.commands
         /\ used.requests < MaxRequests /\ used.compacts < MaxCompacts =>
              LET u == [used EXCEPT !.requests = @ + 1, !.compacts = @ + 1] IN
              u \in Bounds /\ u.calls = used.calls /\ u.commands = used.commands
         /\ used.clears < MaxClears =>
              LET u == [used EXCEPT !.clears = @ + 1] IN
              u \in Bounds /\ u.calls = used.calls /\ u.requests = used.requests /\ u.commands = used.commands
         /\ used.interrupts < MaxInterrupts =>
              LET u == [used EXCEPT !.interrupts = @ + 1] IN
              u \in Bounds /\ u.calls = used.calls /\ u.requests = used.requests /\ u.commands = used.commands
         /\ used.commands < MaxCommands =>
              LET u == [used EXCEPT !.commands = @ + 1] IN
              u \in Bounds /\ u.calls = used.calls /\ u.requests = used.requests
              /\ u.commands = used.commands + 1
         /\ \A n \in Nat : used.calls + n <= MaxCalls =>
              LET u == [used EXCEPT !.calls = @ + n] IN
              u \in Bounds /\ u.calls = used.calls + n /\ u.requests = used.requests
              /\ u.commands = used.commands
<1>1. /\ used.calls \in 0..MaxCalls /\ used.requests \in 0..MaxRequests
      /\ used.prompts \in 0..MaxPrompts /\ used.interrupts \in 0..MaxInterrupts
      /\ used.commands \in 0..MaxCommands /\ used.clears \in 0..MaxClears
      /\ used.compacts \in 0..MaxCompacts
  BY DEF Bounds
<1>2. /\ \A n \in 0..MaxPrompts : [used EXCEPT !.prompts = n] \in Bounds
      /\ \A n \in 0..MaxRequests : [used EXCEPT !.requests = n] \in Bounds
      /\ \A n \in 0..MaxRequests, k \in 0..MaxCompacts : [used EXCEPT !.requests = n, !.compacts = k] \in Bounds
      /\ \A n \in 0..MaxClears : [used EXCEPT !.clears = n] \in Bounds
      /\ \A n \in 0..MaxInterrupts : [used EXCEPT !.interrupts = n] \in Bounds
      /\ \A n \in 0..MaxCommands : [used EXCEPT !.commands = n] \in Bounds
      /\ \A n \in 0..MaxCalls : [used EXCEPT !.calls = n] \in Bounds
  BY DEF Bounds
<1>3. ASSUME used.prompts < MaxPrompts
     PROVE  LET u == [used EXCEPT !.prompts = @ + 1] IN
            u \in Bounds /\ u.calls = used.calls /\ u.requests = used.requests /\ u.commands = used.commands
  <2>1. used.prompts + 1 \in 0..MaxPrompts
    BY <1>1, <1>3, BoundsAreNumbers
  <2> QED BY <1>2, <2>1 DEF Bounds
<1>4. ASSUME used.requests < MaxRequests
     PROVE  LET u == [used EXCEPT !.requests = @ + 1] IN
            u \in Bounds /\ u.calls = used.calls /\ u.commands = used.commands
  <2>1. used.requests + 1 \in 0..MaxRequests
    BY <1>1, <1>4, BoundsAreNumbers
  <2> QED BY <1>2, <2>1 DEF Bounds
<1>6. ASSUME used.clears < MaxClears
     PROVE  LET u == [used EXCEPT !.clears = @ + 1] IN
            u \in Bounds /\ u.calls = used.calls /\ u.requests = used.requests /\ u.commands = used.commands
  <2>1. used.clears + 1 \in 0..MaxClears
    BY <1>1, <1>6, BoundsAreNumbers
  <2> QED BY <1>2, <2>1 DEF Bounds
<1>7. ASSUME used.interrupts < MaxInterrupts
     PROVE  LET u == [used EXCEPT !.interrupts = @ + 1] IN
            u \in Bounds /\ u.calls = used.calls /\ u.requests = used.requests /\ u.commands = used.commands
  <2>1. used.interrupts + 1 \in 0..MaxInterrupts
    BY <1>1, <1>7, BoundsAreNumbers
  <2> QED BY <1>2, <2>1 DEF Bounds
<1>8. ASSUME used.commands < MaxCommands
     PROVE  LET u == [used EXCEPT !.commands = @ + 1] IN
            u \in Bounds /\ u.calls = used.calls /\ u.requests = used.requests /\ u.commands = used.commands + 1
  <2>1. used.commands + 1 \in 0..MaxCommands
    BY <1>1, <1>8, BoundsAreNumbers
  <2> QED BY <1>2, <2>1 DEF Bounds
<1>5. ASSUME used.requests < MaxRequests, used.compacts < MaxCompacts
     PROVE  LET u == [used EXCEPT !.requests = @ + 1, !.compacts = @ + 1] IN
            u \in Bounds /\ u.calls = used.calls /\ u.commands = used.commands
  <2>1. used.requests + 1 \in 0..MaxRequests /\ used.compacts + 1 \in 0..MaxCompacts
    BY <1>1, <1>5, BoundsAreNumbers
  <2> QED BY <1>2, <2>1 DEF Bounds
<1>9. ASSUME NEW n \in Nat, used.calls + n <= MaxCalls
     PROVE  LET u == [used EXCEPT !.calls = @ + n] IN
            u \in Bounds /\ u.calls = used.calls + n /\ u.requests = used.requests
            /\ u.commands = used.commands
  <2>1. used.calls + n \in 0..MaxCalls
    BY <1>1, <1>9, BoundsAreNumbers
  <2> QED BY <1>2, <2>1 DEF Bounds
<1> QED
  BY <1>1, <1>3, <1>4, <1>5, <1>6, <1>7, <1>8, <1>9

\* The conversation stays a sequence of messages.
LEMMA AppendTyped ==
  ASSUME messages \in Seq(Message)
  PROVE  /\ \A m \in Message : Append(messages, m) \in Seq(Message)
         /\ Append(Filled(messages), User) \in Seq(Message)
<1>1. Filled(messages) \in Seq(Message) /\ User \in Message
  BY FilledShape, MessageTypes
<1> HIDE DEF Message, User
<1> QED BY <1>1

\* Steps of a turn keep the types.
LEMMA TurnStepType ==
  ASSUME TypeInv, TurnStep
  PROVE  TypeInv'
<1> USE DEF TypeInv, TypeOK
<1>1. CASE BeforeTurn
  BY <1>1, Counted, AppendTyped, MessageTypes DEF BeforeTurn, Send, Say
<1>2. CASE Answer
  <2>1. PICK n \in 0..MaxPerAnswer :
          LET S == (used.calls + 1)..(used.calls + n) IN
           /\ S \subseteq CallIds
           /\ used' = [used EXCEPT !.calls = @ + n]
           /\ Say(Assistant(S))
           /\ failed' \in SUBSET S
           /\ batch' = S \ failed'
           /\ pc' = IF S = {} THEN "last" ELSE "failed"
    BY <1>2 DEF Answer
  <2> DEFINE S == (used.calls + 1)..(used.calls + n)
  <2>2. n \in Nat /\ used.calls \in 0..MaxCalls
    BY Counted, BoundsAreNumbers
  <2>3. used.calls + n <= MaxCalls
    <3>1. CASE n = 0
      BY <2>2, <3>1
    <3>2. CASE n # 0
      <4>1. used.calls + n \in S
        BY <2>2, <3>2
      <4>2. used.calls + n \in CallIds
        BY <2>1, <4>1
      <4> QED BY <4>2 DEF CallIds
    <3> QED BY <3>1, <3>2
  <2>4. used' \in Bounds /\ used'.commands = used.commands
    BY <2>1, <2>2, <2>3, Counted
  <2>5. messages' \in Seq(Message)
    BY <2>1, AppendTyped, MessageTypes DEF Say
  <2> QED BY <1>2, <2>1, <2>4, <2>5 DEF Answer
<1>3. CASE ChatFails
  BY <1>3 DEF ChatFails
<1>4. CASE ReportFailed
  <2>1. messages' \in Seq(Message) /\ failed' \subseteq CallIds
    BY <1>4, AppendTyped, MessageTypes DEF ReportFailed, Say
  <2> QED BY <1>4, <2>1 DEF ReportFailed
<1>5. CASE StartTools
  BY <1>5 DEF StartTools
<1>6. CASE EndLLMTurn
  BY <1>6 DEF EndLLMTurn
<1>7. CASE AfterTurn
  BY <1>7, AppendTyped, MessageTypes DEF AfterTurn, Say
<1>8. CASE Summarised
  BY <1>8, MessageTypes DEF Summarised
<1>9. CASE EndCompact
  BY <1>9, Counted DEF EndCompact, Send
<1>10. CASE CompactFails
  BY <1>10 DEF CompactFails
<1>11. CASE Gathered
  BY <1>11 DEF Gathered
<1> QED
  BY <1>1, <1>2, <1>3, <1>4, <1>5, <1>6, <1>7, <1>8, <1>9, <1>10, <1>11 DEF TurnStep

\* Every step keeps the types.
LEMMA NextType ==
  ASSUME TypeInv, [Next]_vars
  PROVE  TypeInv'
<1> USE DEF TypeInv, TypeOK
<1>1. CASE Submit
  BY <1>1, Counted, AppendTyped DEF Submit
<1>2. CASE TurnStep
  BY <1>2, TurnStepType
<1>3. CASE StartCompact
  BY <1>3, Counted, AppendTyped DEF StartCompact
<1>4. CASE Clear
  BY <1>4, Counted, MessageTypes DEF Clear
<1>5. ASSUME NEW c \in CallIds, EndTask(c)
      PROVE  TypeInv'
  <2>1. messages' \in Seq(Message)
    BY <1>5, AppendTyped, MessageTypes DEF EndTask, Say
  <2>2. task' \in [CallIds -> {"none", "running", "left", "cancelled", "done"}]
    BY <1>5 DEF EndTask
  <2> QED BY <1>5, <2>1, <2>2 DEF EndTask
<1>6. CASE InterruptModel
  BY <1>6, Counted DEF InterruptModel, Interrupt
<1>7. CASE InterruptEvent
  BY <1>7, Counted DEF InterruptEvent, Interrupt
<1>8. CASE InterruptQueue
  BY <1>8, Counted DEF InterruptQueue, Interrupt
<1>9. CASE InterruptToolEvent
  BY <1>9, Counted DEF InterruptToolEvent, Interrupt
<1>10. CASE Finalise
  BY <1>10 DEF Finalise
<1>11. CASE StartCommand
  <2>1. used' \in Bounds /\ used'.commands = used.commands + 1 /\ used.commands \in 0..MaxCommands
    BY <1>11, Counted DEF StartCommand
  <2>2. commands' \in 0..MaxCommands /\ commands' <= used'.commands
    BY <1>11, <2>1, BoundsAreNumbers DEF StartCommand
  <2> QED BY <1>11, <2>1, <2>2 DEF StartCommand
<1>12. CASE InjectUserContext
  <2>1. messages' \in Seq(Message)
    BY <1>12, AppendTyped, MessageTypes DEF InjectUserContext, Say
  <2>2. commands' \in 0..MaxCommands /\ commands' <= used'.commands
    <3>1. used.commands \in Nat /\ used' = used /\ MaxCommands \in Nat
      BY <1>12, Counted, BoundsAreNumbers DEF InjectUserContext
    <3> QED BY <1>12, <3>1 DEF InjectUserContext
  <2>3. disturbed' \in BOOLEAN
    BY <1>12 DEF InjectUserContext
  <2> QED BY <1>12, <2>1, <2>2, <2>3 DEF InjectUserContext
<1>13. CASE UNCHANGED vars
  BY <1>13 DEF vars
<1> QED
  BY <1>1, <1>2, <1>3, <1>4, <1>5, <1>6, <1>7, <1>8, <1>9, <1>10, <1>11, <1>12, <1>13 DEF Next

\* Every variable has its type at all times, for any bounds.
THEOREM TypeCorrect == Spec => []TypeOK
<1>1. TypeInv => TypeOK
  BY DEF TypeInv
<1> QED
  BY <1>1, InitType, NextType, PTL DEF Spec

-----------------------------------------------------------------------------
(* Tasks belong to the current answer. *)

\* Steps that leave the tasks and the answer as they are, and that stay at their place in
\* the turn or lead from a place without tools to another.
LEMMA TasksKept ==
  ASSUME TypeOK, BatchOwnsTasks, UNCHANGED <<batch, task>>, disturbed => disturbed',
         \/ pc' = pc
         \/ pc \notin {"tools", "gather"}
         \/ BatchDone
  PROVE  BatchOwnsTasks'
BY DEF TypeOK, BatchOwnsTasks, Quiet, BatchDone

\* An answer brings a new batch, of calls that are all new; none is at work then.
LEMMA TasksMoved ==
  ASSUME TypeOK, BatchOwnsTasks,
         \/ Answer \/ StartTools \/ InterruptQueue \/ InterruptToolEvent \/ Finalise
         \/ \E c \in CallIds : EndTask(c)
  PROVE  BatchOwnsTasks'
<1>1. CASE Answer
  BY <1>1 DEF TypeOK, BatchOwnsTasks, Quiet, Answer
<1>2. CASE StartTools
  BY <1>2 DEF TypeOK, BatchOwnsTasks, Quiet, StartTools
<1>3. CASE InterruptQueue
  BY <1>3 DEF TypeOK, BatchOwnsTasks, Quiet, InterruptQueue, Interrupt
<1>4. CASE InterruptToolEvent
  BY <1>4 DEF TypeOK, BatchOwnsTasks, Quiet, InterruptToolEvent, Interrupt, BatchDone
<1>5. CASE Finalise
  BY <1>5 DEF TypeOK, BatchOwnsTasks, Quiet, Finalise
<1>6. ASSUME NEW c \in CallIds, EndTask(c)
      PROVE  BatchOwnsTasks'
  BY <1>6 DEF TypeOK, BatchOwnsTasks, Quiet, EndTask
<1> QED BY <1>1, <1>2, <1>3, <1>4, <1>5, <1>6

\* Every step leaves the tasks to the current answer.
LEMMA TasksNext ==
  ASSUME TypeOK, BatchOwnsTasks, [Next]_vars
  PROVE  BatchOwnsTasks'
<1>1. CASE Submit
  BY <1>1, TasksKept DEF Submit
<1>2. CASE BeforeTurn
  BY <1>2, TasksKept DEF BeforeTurn
<1>3. CASE ChatFails
  BY <1>3, TasksKept DEF ChatFails
<1>4. CASE ReportFailed
  BY <1>4, TasksKept DEF ReportFailed
<1>5. CASE EndLLMTurn
  BY <1>5, TasksKept DEF EndLLMTurn
<1>6. CASE AfterTurn
  BY <1>6, TasksKept DEF AfterTurn
<1>7. CASE Summarised
  BY <1>7, TasksKept DEF Summarised
<1>8. CASE EndCompact
  BY <1>8, TasksKept DEF EndCompact
<1>9. CASE CompactFails
  BY <1>9, TasksKept DEF CompactFails
<1>10. CASE Gathered
  BY <1>10, TasksKept DEF Gathered
<1>11. CASE StartCompact
  BY <1>11, TasksKept DEF StartCompact
<1>12. CASE Clear
  BY <1>12, TasksKept DEF Clear
<1>13. CASE InterruptModel
  BY <1>13, TasksKept DEF InterruptModel, Interrupt
<1>14. CASE InterruptEvent
  BY <1>14, TasksKept DEF InterruptEvent, Interrupt
<1>15. CASE StartCommand
  BY <1>15, TasksKept DEF StartCommand
<1>16. CASE InjectUserContext
  BY <1>16, TasksKept DEF InjectUserContext
<1>17. CASE UNCHANGED vars
  BY <1>17, TasksKept DEF vars
<1> QED
  BY <1>1, <1>2, <1>3, <1>4, <1>5, <1>6, <1>7, <1>8, <1>9, <1>10, <1>11, <1>12, <1>13, <1>14, <1>15,
     <1>16, <1>17, TasksMoved DEF Next, TurnStep

\* No task is at work at first.
LEMMA TasksInit == Init => BatchOwnsTasks
BY DEF Init, BatchOwnsTasks, Quiet

\* A turn that is over, whether it ended, failed or was interrupted, has no tool that
\* still runs, but for those that were abandoned (agent_loop.py, _run_tools_concurrently).
THEOREM NothingLeftRunning == Spec => []NothingRunsOn
<1>1. TypeInv => TypeOK
  BY DEF TypeInv
<1>2. TypeInv /\ BatchOwnsTasks => NothingRunsOn
  BY DEF BatchOwnsTasks, Quiet, NothingRunsOn
<1> QED
  BY <1>1, <1>2, InitType, NextType, TasksInit, TasksNext, PTL DEF Spec

-----------------------------------------------------------------------------
(* Calls and their answers *)

\* What appending a message does to the uniqueness of calls and of responses.
LEMMA AppendApart ==
  ASSUME NEW ms \in Seq(Message), NEW m \in Message, Apart(ms),
         m.role = "assistant" =>
           \A i \in 1..Len(ms) : Asks(ms, i) => ms[i].calls \intersect m.calls = {}
  PROVE  Apart(Append(ms, m))
<1> DEFINE as == Append(ms, m)
<1>1. /\ Len(ms) \in Nat /\ Len(as) = Len(ms) + 1
      /\ \A i \in 1..Len(ms) : as[i] = ms[i]
      /\ as[Len(ms) + 1] = m
  BY AppendFacts
<1> HIDE DEF as
<1>2. \A i \in 1..Len(as) : i \in 1..Len(ms) \/ i = Len(ms) + 1
  BY <1>1
<1> SUFFICES ASSUME NEW i \in 1..Len(as), NEW k \in 1..Len(as), Asks(as, i), Asks(as, k), i # k
             PROVE  as[i].calls \intersect as[k].calls = {}
  BY DEF Apart, as
<1>3. CASE i \in 1..Len(ms) /\ k \in 1..Len(ms)
  BY <1>1, <1>3 DEF Apart, Asks
<1>4. CASE i = Len(ms) + 1 /\ k \in 1..Len(ms)
  BY <1>1, <1>4 DEF Asks
<1>5. CASE i \in 1..Len(ms) /\ k = Len(ms) + 1
  BY <1>1, <1>5 DEF Asks
<1> QED BY <1>2, <1>3, <1>4, <1>5

\* A response to a call that had none of its kind keeps responses unique.
LEMMA AppendOneEach ==
  ASSUME NEW ms \in Seq(Message), NEW m \in Message, OneEach(ms),
         IsResponse(m) => \A j \in 1..Len(ms) : ~(ms[j].role = m.role /\ ms[j].call = m.call)
  PROVE  OneEach(Append(ms, m))
<1> DEFINE as == Append(ms, m)
<1>1. /\ Len(ms) \in Nat /\ Len(as) = Len(ms) + 1
      /\ \A i \in 1..Len(ms) : as[i] = ms[i]
      /\ as[Len(ms) + 1] = m
  BY AppendFacts
<1> HIDE DEF as
<1>2. \A i \in 1..Len(as) : i \in 1..Len(ms) \/ i = Len(ms) + 1
  BY <1>1
<1> SUFFICES ASSUME NEW j \in 1..Len(as), NEW k \in 1..Len(as),
                    IsResponse(as[j]), as[j].role = as[k].role, as[j].call = as[k].call
             PROVE  j = k
  BY DEF OneEach, as
<1>3. CASE j \in 1..Len(ms) /\ k \in 1..Len(ms)
  BY <1>1, <1>3 DEF OneEach
<1>4. CASE j = Len(ms) + 1 /\ k \in 1..Len(ms)
  BY <1>1, <1>4
<1>5. CASE j \in 1..Len(ms) /\ k = Len(ms) + 1
  <2>1. IsResponse(m) /\ ms[j].role = m.role /\ ms[j].call = m.call
    BY <1>1, <1>5 DEF IsResponse
  <2> QED BY <2>1, <1>5
<1> QED BY <1>2, <1>3, <1>4, <1>5

\* Placeholders stay where they are.
LEMMA AppendPlaced ==
  ASSUME NEW ms \in Seq(Message), NEW m \in Message, Placed(ms), m.role # "placeholder"
  PROVE  Placed(Append(ms, m))
<1> DEFINE as == Append(ms, m)
<1>1. /\ Len(ms) \in Nat /\ Len(as) = Len(ms) + 1
      /\ \A i \in 1..Len(ms) : as[i] = ms[i]
      /\ as[Len(ms) + 1] = m
  BY AppendFacts
<1>2. \A i \in 1..Len(ms) : Block(ms, i) \subseteq Block(as, i)
  BY AppendBlock
<1> HIDE DEF as
<1>3. \A i \in 1..Len(as) : i \in 1..Len(ms) \/ i = Len(ms) + 1
  BY <1>1
<1>4. \A i \in 1..Len(ms) : i \in 1..Len(as)
  BY <1>1
<1> SUFFICES ASSUME NEW j \in 1..Len(as), as[j].role = "placeholder"
             PROVE  \E i \in 1..Len(as) : Asks(as, i) /\ j \in Block(as, i) /\ as[j].call \in as[i].calls
  BY DEF Placed, as
<1>5. j \in 1..Len(ms) /\ as[j] = ms[j]
  BY <1>1, <1>3
<1>6. PICK i \in 1..Len(ms) : Asks(ms, i) /\ j \in Block(ms, i) /\ ms[j].call \in ms[i].calls
  BY <1>5 DEF Placed
<1> QED BY <1>1, <1>2, <1>4, <1>5, <1>6 DEF Asks

\* The conversations that a step leads to which issues and answers no call.
Continued(ms, ns) ==
  ns \in {ms, Append(ms, User), Append(Filled(ms), User), <<>>, <<User>>}

\* A message of the user neither calls nor responds.
LEMMA UserSays == User.role = "user" /\ User.calls = {} /\ ~IsResponse(User)
BY DEF User, IsResponse

\* Such a conversation has no calls and responses but those it had, and placeholders.
LEMMA ContinuedKeeps ==
  ASSUME NEW ms \in Seq(Message), NEW ns, Continued(ms, ns), OneEach(ms), Apart(ms), Placed(ms)
  PROVE  /\ ns \in Seq(Message) /\ OneEach(ns) /\ Apart(ns) /\ Placed(ns)
         /\ \A j \in 1..Len(ns) : ns[j].role \in {"assistant", "tool"} => \E k \in 1..Len(ms) : ns[j] = ms[k]
<1> HIDE DEF Message, User
<1>0. User \in Message
  BY MessageTypes
<1>1. ASSUME NEW xs \in Seq(Message), OneEach(xs), Apart(xs), Placed(xs),
             \A j \in 1..Len(xs) : xs[j].role \in {"assistant", "tool"} => \E k \in 1..Len(ms) : xs[j] = ms[k]
      PROVE  LET ys == Append(xs, User)
             IN  /\ ys \in Seq(Message) /\ OneEach(ys) /\ Apart(ys) /\ Placed(ys)
                 /\ \A j \in 1..Len(ys) : ys[j].role \in {"assistant", "tool"} => \E k \in 1..Len(ms) : ys[j] = ms[k]
  <2> DEFINE ys == Append(xs, User)
  <2>1. /\ ys \in Seq(Message) /\ Len(xs) \in Nat /\ Len(ys) = Len(xs) + 1
        /\ \A i \in 1..Len(xs) : ys[i] = xs[i]
        /\ ys[Len(xs) + 1] = User
    BY <1>0, AppendFacts
  <2>2. OneEach(ys) /\ Apart(ys) /\ Placed(ys)
    BY <1>0, <1>1, UserSays, AppendOneEach, AppendApart, AppendPlaced
  <2> HIDE DEF ys
  <2>3. \A i \in 1..Len(ys) : i \in 1..Len(xs) \/ i = Len(xs) + 1
    BY <2>1
  <2>4. \A j \in 1..Len(ys) : ys[j].role \in {"assistant", "tool"} => \E k \in 1..Len(ms) : ys[j] = ms[k]
    BY <1>1, <2>1, <2>3, UserSays
  <2> QED BY <2>1, <2>2, <2>4 DEF ys
<1>2. /\ <<>> \in Seq(Message) /\ OneEach(<<>>) /\ Apart(<<>>) /\ Placed(<<>>) /\ Len(<<>>) = 0
  BY MessageTypes DEF OneEach, Apart, Placed
<1>3. \A j \in 1..Len(<<>>) : <<>>[j].role \in {"assistant", "tool"} => \E k \in 1..Len(ms) : <<>>[j] = ms[k]
  BY <1>2
<1>4. CASE ns = ms
  BY <1>4
<1>5. CASE ns = Append(ms, User)
  BY <1>1, <1>5
<1>6. CASE ns = Append(Filled(ms), User)
  <2> DEFINE fs == Filled(ms)
  <2>1. fs \in Seq(Message) /\ OneEach(fs) /\ Apart(fs) /\ Placed(fs)
    BY FilledShape, FilledAnswers
  <2>2. \A j \in 1..Len(fs) : fs[j].role \in {"assistant", "tool"} => \E k \in 1..Len(ms) : fs[j] = ms[k]
    BY FilledAnswers
  <2>3. ns = Append(fs, User)
    BY <1>6
  <2> HIDE DEF fs
  <2> DEFINE gs == Append(fs, User)
  <2>4. /\ gs \in Seq(Message) /\ OneEach(gs) /\ Apart(gs) /\ Placed(gs)
        /\ \A j \in 1..Len(gs) : gs[j].role \in {"assistant", "tool"} => \E k \in 1..Len(ms) : gs[j] = ms[k]
    BY <1>1, <2>1, <2>2
  <2> HIDE DEF gs
  <2>5. ns = gs
    BY <2>3 DEF gs
  <2> QED BY <2>4, <2>5
<1>7. CASE ns = <<>>
  BY <1>2, <1>3, <1>7
<1>8. CASE ns = <<User>>
  <2> DEFINE es == <<>>
             gs == Append(es, User)
  <2>1. ns = gs
    BY <1>8
  <2>2. /\ es \in Seq(Message) /\ OneEach(es) /\ Apart(es) /\ Placed(es)
        /\ \A j \in 1..Len(es) : es[j].role \in {"assistant", "tool"} => \E k \in 1..Len(ms) : es[j] = ms[k]
    BY <1>2, <1>3
  <2> HIDE DEF es
  <2>3. /\ gs \in Seq(Message) /\ OneEach(gs) /\ Apart(gs) /\ Placed(gs)
        /\ \A j \in 1..Len(gs) : gs[j].role \in {"assistant", "tool"} => \E k \in 1..Len(ms) : gs[j] = ms[k]
    BY <1>1, <2>2
  <2> HIDE DEF gs
  <2> QED BY <2>1, <2>3
<1> QED BY <1>4, <1>5, <1>6, <1>7, <1>8 DEF Continued

\* Steps that issue no call, answer none and start no tool.
LEMMA CallsKept ==
  ASSUME TypeInv, CallsIssued, AnswersFinal, Continued(messages, messages'),
         batch' = batch, used'.calls = used.calls,
         failed' = failed \/ failed' = {},
         \A c \in CallIds : Quiet(c) => task'[c] = task[c],
         pc' = pc \/ (pc' # "failed" /\ (pc # "failed" \/ failed' = {}))
  PROVE  CallsIssued' /\ AnswersFinal'
<1>0. messages \in Seq(Message) /\ Apart(messages) /\ OneEach(messages) /\ Placed(messages)
  BY DEF TypeInv, TypeOK, CallsIssued, AnswersFinal
<1>1. /\ Apart(messages') /\ OneEach(messages') /\ Placed(messages')
      /\ \A j \in 1..Len(messages') : messages'[j].role \in {"assistant", "tool"} =>
           \E k \in 1..Len(messages) : messages'[j] = messages[k]
  BY <1>0, ContinuedKeeps
<1>2. CallsIssued'
  <2>1. Issued' = Issued
    BY DEF Issued
  <2>2. Apart(messages)'
    BY <1>1
  <2>3. (\A i \in 1..Len(messages) : Asks(messages, i) => messages[i].calls \subseteq Issued)'
    BY <1>1, <2>1 DEF CallsIssued, Asks
  <2>4. (batch \subseteq Issued /\ failed \subseteq Issued /\ \A c \in CallIds \ Issued : task[c] = "none")'
    BY <2>1 DEF CallsIssued, Quiet
  <2>5. (failed # {} => pc = "failed")'
    BY DEF CallsIssued
  <2>6. (pc = "failed" => failed \intersect batch = {} /\ \A c \in failed \union batch : task[c] = "none")'
    BY DEF CallsIssued, Quiet, TypeInv, TypeOK
  <2> QED BY <2>2, <2>3, <2>4, <2>5, <2>6 DEF CallsIssued
<1>3. AnswersFinal'
  <2>1. \A c \in CallIds : Finished(c) => Finished(c)'
    BY DEF Finished, Quiet, Issued
  <2>2. OneEach(messages)' /\ Placed(messages)'
    BY <1>1
  <2>3. \A c : Finished(c) => c \in CallIds
    BY BoundsAreNumbers, Counted DEF Finished, Issued, CallIds, TypeInv, TypeOK
  <2>4. (\A j \in 1..Len(messages) : messages[j].role = "tool" => Finished(messages[j].call))'
    <3>1. \A j \in 1..Len(messages') : messages'[j].role = "tool" => Finished(messages'[j].call)
      BY <1>1 DEF AnswersFinal
    <3>2. \A c : Finished(c) => Finished(c)'
      BY <2>1, <2>3
    <3> QED BY <3>1, <3>2
  <2> QED BY <2>2, <2>4 DEF AnswersFinal
<1> QED BY <1>2, <1>3

\* The calls of an answer are new.
LEMMA AnswerCalls ==
  ASSUME TypeInv, TypeInv', CallsIssued, AnswersFinal, Answer
  PROVE  CallsIssued' /\ AnswersFinal'
<1>1. PICK n \in 0..MaxPerAnswer :
        LET S == (used.calls + 1)..(used.calls + n) IN
         /\ S \subseteq CallIds
         /\ used' = [used EXCEPT !.calls = @ + n]
         /\ Say(Assistant(S))
         /\ failed' \in SUBSET S
         /\ batch' = S \ failed'
         /\ pc' = IF S = {} THEN "last" ELSE "failed"
  BY DEF Answer
<1> DEFINE S == (used.calls + 1)..(used.calls + n)
           m == Assistant(S)
<1>2. used.calls \in Nat /\ n \in Nat /\ used'.calls = used.calls + n
  BY <1>1, Counted, BoundsAreNumbers DEF TypeInv, TypeOK, Bounds
<1>3. Issued \union S = Issued' /\ Issued \intersect S = {} /\ S \subseteq CallIds
  BY <1>1, <1>2 DEF Issued
<1>4. /\ messages' = Append(messages, m) /\ failed' \subseteq S /\ batch' = S \ failed'
      /\ (S # {} => pc' = "failed") /\ task' = task /\ pc = "chat"
  BY <1>1 DEF Answer, Say
<1>5. m \in Message /\ m.role = "assistant" /\ m.calls = S
  BY <1>3, MessageTypes DEF Assistant
<1> HIDE DEF S, m
<1>6. messages \in Seq(Message)
  BY DEF TypeInv, TypeOK
<1>7. /\ Len(messages) \in Nat /\ Len(messages') = Len(messages) + 1
      /\ \A i \in 1..Len(messages) : messages'[i] = messages[i]
      /\ messages'[Len(messages) + 1] = m
  BY <1>4, <1>5, <1>6, AppendFacts
<1>8. \A i \in 1..Len(messages') : i \in 1..Len(messages) \/ i = Len(messages) + 1
  BY <1>7
<1>9. CallsIssued'
  <2>1. Apart(messages)'
    <3>1. \A i \in 1..Len(messages) : Asks(messages, i) => messages[i].calls \intersect m.calls = {}
      BY <1>3, <1>5 DEF CallsIssued
    <3>2. Apart(Append(messages, m))
      BY <3>1, <1>5, <1>6, AppendApart DEF CallsIssued
    <3> QED BY <3>2, <1>4
  <2>2. (\A i \in 1..Len(messages) : Asks(messages, i) => messages[i].calls \subseteq Issued)'
    BY <1>3, <1>5, <1>7, <1>8 DEF CallsIssued, Asks
  <2>3. (batch \subseteq Issued /\ failed \subseteq Issued /\ \A c \in CallIds \ Issued : task[c] = "none")'
    BY <1>3, <1>4 DEF CallsIssued
  <2>4. (failed # {} => pc = "failed")'
    BY <1>4
  <2>5. (failed \intersect batch = {} /\ \A c \in failed \union batch : task[c] = "none")'
    BY <1>3, <1>4 DEF CallsIssued
  <2> QED BY <2>1, <2>2, <2>3, <2>4, <2>5 DEF CallsIssued
<1>10. AnswersFinal'
  <2>1. ~IsResponse(m)
    BY <1>5 DEF IsResponse
  <2>2. OneEach(messages)' /\ Placed(messages)'
    BY <1>4, <1>5, <1>6, <2>1, AppendOneEach, AppendPlaced DEF AnswersFinal
  <2>3. \A c : Finished(c) => Finished(c)'
    BY <1>3, <1>4 DEF Finished, Quiet
  <2>4. (\A j \in 1..Len(messages) : messages[j].role = "tool" => Finished(messages[j].call))'
    BY <1>5, <1>7, <1>8, <2>3 DEF AnswersFinal
  <2> QED BY <2>2, <2>4 DEF AnswersFinal
<1> QED BY <1>9, <1>10

\* A response is stored that is not among the messages.
LEMMA ResponseStored ==
  ASSUME TypeInv, CallsIssued, AnswersFinal, NEW c \in CallIds, ~Finished(c),
         messages' = Append(messages, Response(c))
  PROVE  /\ Apart(messages') /\ OneEach(messages') /\ Placed(messages')
         /\ \A i \in 1..Len(messages') : Asks(messages', i) =>
              \E k \in 1..Len(messages) : Asks(messages, k) /\ messages'[i] = messages[k]
         /\ \A j \in 1..Len(messages') : messages'[j].role = "tool" =>
              messages'[j].call = c \/ Finished(messages'[j].call)
<1> DEFINE m == Response(c)
<1>1. m \in Message /\ m.role = "tool" /\ m.call = c
  BY MessageTypes DEF Response
<1>2. messages' = Append(messages, m)
  OBVIOUS
<1> HIDE DEF m
<1>3. messages \in Seq(Message)
  BY DEF TypeInv, TypeOK
<1>4. /\ Len(messages) \in Nat /\ Len(messages') = Len(messages) + 1
      /\ \A i \in 1..Len(messages) : messages'[i] = messages[i]
      /\ messages'[Len(messages) + 1] = m
  BY <1>1, <1>2, <1>3, AppendFacts
<1>5. \A i \in 1..Len(messages') : i \in 1..Len(messages) \/ i = Len(messages) + 1
  BY <1>4
<1>6. Apart(messages') /\ Placed(messages')
  BY <1>1, <1>2, <1>3, AppendApart, AppendPlaced DEF CallsIssued, AnswersFinal
<1>7. OneEach(messages')
  <2>1. \A j \in 1..Len(messages) : ~(messages[j].role = m.role /\ messages[j].call = m.call)
    BY <1>1 DEF AnswersFinal
  <2> QED BY <1>1, <1>2, <1>3, <2>1, AppendOneEach DEF AnswersFinal
<1>8. \A i \in 1..Len(messages') : Asks(messages', i) =>
        \E k \in 1..Len(messages) : Asks(messages, k) /\ messages'[i] = messages[k]
  BY <1>1, <1>4, <1>5 DEF Asks
<1>9. \A j \in 1..Len(messages') : messages'[j].role = "tool" =>
        messages'[j].call = c \/ Finished(messages'[j].call)
  BY <1>1, <1>4, <1>5 DEF AnswersFinal
<1> QED BY <1>6, <1>7, <1>8, <1>9

\* An invalid call is answered once, and is not in the batch.
LEMMA ReportCalls ==
  ASSUME TypeInv, CallsIssued, AnswersFinal, ReportFailed
  PROVE  CallsIssued' /\ AnswersFinal'
<1>1. PICK c \in failed : messages' = Append(messages, Response(c)) /\ failed' = failed \ {c}
  BY DEF ReportFailed, Say
<1>2. UNCHANGED <<pc, batch, task, used>> /\ pc = "failed" /\ Issued' = Issued
  BY DEF ReportFailed, Issued
<1>3. c \in CallIds /\ ~Finished(c)
  BY DEF Finished, TypeInv, TypeOK
<1>4. CallsIssued'
  BY <1>1, <1>2, <1>3, ResponseStored DEF CallsIssued
<1>5. AnswersFinal'
  <2>1. Finished(c)'
    BY <1>1, <1>2 DEF Finished, CallsIssued, Quiet
  <2>2. \A d : Finished(d) => Finished(d)'
    BY <1>1, <1>2 DEF Finished, Quiet
  <2>3. OneEach(messages)' /\ Placed(messages)'
    BY <1>1, <1>3, ResponseStored
  <2>4. \A j \in 1..Len(messages') : messages'[j].role = "tool" =>
          messages'[j].call = c \/ Finished(messages'[j].call)
    BY <1>1, <1>3, ResponseStored
  <2>5. (\A j \in 1..Len(messages) : messages[j].role = "tool" => Finished(messages[j].call))'
    BY <2>1, <2>2, <2>4
  <2> QED BY <2>3, <2>5 DEF AnswersFinal
<1> QED BY <1>4, <1>5

\* The task of a call ends once.
LEMMA EndTaskCalls ==
  ASSUME TypeInv, CallsIssued, AnswersFinal, NEW c \in CallIds, EndTask(c)
  PROVE  CallsIssued' /\ AnswersFinal'
<1>1. /\ messages' = Append(messages, Response(c)) /\ task[c] \in {"running", "left", "cancelled"}
      /\ UNCHANGED <<pc, failed, batch, used>> /\ Issued' = Issued
  BY DEF EndTask, Say, Issued
<1>2. task'[c] = "done" /\ \A d \in CallIds \ {c} : task'[d] = task[d]
  BY DEF EndTask, TypeInv, TypeOK
<1>3. ~Finished(c) /\ c \in Issued /\ c \notin failed /\ (pc = "failed" => c \notin batch)
  BY <1>1 DEF Finished, Quiet, CallsIssued
<1>4. CallsIssued'
  <2>1. Apart(messages)'
    BY <1>1, <1>3, ResponseStored
  <2>2. (\A i \in 1..Len(messages) : Asks(messages, i) => messages[i].calls \subseteq Issued)'
    BY <1>1, <1>3, ResponseStored DEF CallsIssued
  <2> QED BY <1>1, <1>2, <1>3, <2>1, <2>2 DEF CallsIssued, TypeInv, TypeOK
<1>5. AnswersFinal'
  <2>1. Finished(c)'
    BY <1>1, <1>2, <1>3 DEF Finished, Quiet
  <2>2. \A d : Finished(d) => d \in CallIds
    BY BoundsAreNumbers, Counted DEF Finished, Issued, CallIds, TypeInv, TypeOK
  <2>3. \A d : Finished(d) => Finished(d)'
    BY <1>1, <1>2, <1>3, <2>2 DEF Finished, Quiet
  <2>4. OneEach(messages)' /\ Placed(messages)'
    BY <1>1, <1>3, ResponseStored
  <2>5. \A j \in 1..Len(messages') : messages'[j].role = "tool" =>
          messages'[j].call = c \/ Finished(messages'[j].call)
    BY <1>1, <1>3, ResponseStored
  <2>6. (\A j \in 1..Len(messages) : messages[j].role = "tool" => Finished(messages[j].call))'
    BY <2>1, <2>3, <2>5
  <2> QED BY <2>4, <2>6 DEF AnswersFinal
<1> QED BY <1>4, <1>5

\* Only calls without a response get a task.
LEMMA StartToolsCalls ==
  ASSUME TypeInv, CallsIssued, AnswersFinal, StartTools
  PROVE  CallsIssued' /\ AnswersFinal'
<1>1. /\ UNCHANGED <<messages, failed, batch, used>> /\ Issued' = Issued
      /\ pc = "failed" /\ pc' = "tools" /\ failed = {}
      /\ \A c \in CallIds : c \notin batch => task'[c] = task[c]
  BY DEF StartTools, Issued
<1>2. CallsIssued'
  BY <1>1 DEF CallsIssued
<1>3. \A c : Finished(c) => c \in CallIds
  BY BoundsAreNumbers, Counted DEF Finished, Issued, CallIds, TypeInv, TypeOK
<1>4. \A c : Finished(c) => Finished(c)'
  BY <1>1, <1>3 DEF Finished, Quiet
<1>5. AnswersFinal'
  BY <1>1, <1>4 DEF AnswersFinal
<1> QED BY <1>2, <1>5

\* Calls are issued once and answered once.
CallsInv == CallsIssued /\ AnswersFinal

\* Steps of a turn answer no call again.
LEMMA CallsTurnStep ==
  ASSUME TypeInv, TypeInv', CallsInv, TurnStep
  PROVE  CallsInv'
<1> USE DEF CallsInv
<1>1. CASE BeforeTurn
  <2>1. used'.calls = used.calls /\ pc' # "failed" /\ pc = "ready"
    BY <1>1, Counted DEF BeforeTurn, Send, TypeInv, TypeOK
  <2> QED BY <1>1, <2>1, CallsKept DEF BeforeTurn, Say, Continued
<1>2. CASE Answer
  BY <1>2, AnswerCalls
<1>3. CASE ChatFails
  BY <1>3, CallsKept DEF ChatFails, Continued
<1>4. CASE ReportFailed
  BY <1>4, ReportCalls
<1>5. CASE StartTools
  BY <1>5, StartToolsCalls
<1>6. CASE EndLLMTurn
  BY <1>6, CallsKept DEF EndLLMTurn, Continued
<1>7. CASE AfterTurn
  BY <1>7, CallsKept DEF AfterTurn, Say, Continued
<1>8. CASE Summarised
  BY <1>8, CallsKept DEF Summarised, Continued
<1>9. CASE EndCompact
  <2>1. used'.calls = used.calls
    BY <1>9, Counted DEF EndCompact, Send, TypeInv, TypeOK
  <2> QED BY <1>9, <2>1, CallsKept DEF EndCompact, Send, Continued
<1>10. CASE CompactFails
  BY <1>10, CallsKept DEF CompactFails, Continued
<1>11. CASE Gathered
  BY <1>11, CallsKept DEF Gathered, Continued
<1> QED
  BY <1>1, <1>2, <1>3, <1>4, <1>5, <1>6, <1>7, <1>8, <1>9, <1>10, <1>11 DEF TurnStep

\* No step answers a call again.
LEMMA CallsNext ==
  ASSUME TypeInv, TypeInv', CallsInv, [Next]_vars
  PROVE  CallsInv'
<1> USE DEF CallsInv
<1> DEFINE SameCalls == used'.calls = used.calls
<1>0. used \in Bounds /\ task \in [CallIds -> {"none", "running", "left", "cancelled", "done"}]
  BY DEF TypeInv, TypeOK
<1>1. CASE Submit
  <2>1. SameCalls
    BY <1>0, <1>1, Counted DEF Submit
  <2> QED BY <1>1, <2>1, CallsKept DEF Submit, Continued
<1>2. CASE TurnStep
  BY <1>2, CallsTurnStep
<1>3. CASE StartCompact
  <2>1. SameCalls
    BY <1>0, <1>3, Counted DEF StartCompact
  <2>2. pc' # "failed" /\ pc # "failed"
    BY <1>3 DEF StartCompact
  <2> QED BY <1>3, <2>1, <2>2, CallsKept DEF StartCompact, Continued
<1>4. CASE Clear
  <2>1. SameCalls
    BY <1>0, <1>4, Counted DEF Clear
  <2> QED BY <1>4, <2>1, CallsKept DEF Clear, Continued
<1>5. ASSUME NEW c \in CallIds, EndTask(c)
      PROVE  CallsInv'
  BY <1>5, EndTaskCalls
<1>6. CASE InterruptModel \/ InterruptEvent
  <2>1. SameCalls
    BY <1>0, <1>6, Counted DEF InterruptModel, InterruptEvent, Interrupt
  <2> QED BY <1>6, <2>1, CallsKept DEF InterruptModel, InterruptEvent, Interrupt, Continued
<1>7. CASE InterruptQueue
  <2>1. SameCalls
    BY <1>0, <1>7, Counted DEF InterruptQueue, Interrupt
  <2>2. \A c \in CallIds : Quiet(c) => task'[c] = task[c]
    BY <1>0, <1>7 DEF InterruptQueue, Quiet
  <2> QED BY <1>7, <2>1, <2>2, CallsKept DEF InterruptQueue, Interrupt, Continued
<1>8. CASE InterruptToolEvent
  <2>1. SameCalls
    BY <1>0, <1>8, Counted DEF InterruptToolEvent, Interrupt
  <2>2. \A c \in CallIds : Quiet(c) => task'[c] = task[c]
    BY <1>0, <1>8 DEF InterruptToolEvent, Quiet
  <2> QED BY <1>8, <2>1, <2>2, CallsKept DEF InterruptToolEvent, Interrupt, Continued
<1>9. CASE Finalise
  <2>1. \A c \in CallIds : Quiet(c) => task'[c] = task[c]
    BY <1>0, <1>9 DEF Finalise, Quiet
  <2> QED BY <1>9, <2>1, CallsKept DEF Finalise, Continued
<1>10. CASE StartCommand
  <2>1. SameCalls
    BY <1>0, <1>10, Counted DEF StartCommand
  <2> QED BY <1>10, <2>1, CallsKept DEF StartCommand, Continued
<1>11. CASE InjectUserContext
  BY <1>11, CallsKept DEF InjectUserContext, Say, Continued
<1>12. CASE UNCHANGED vars
  BY <1>12, CallsKept DEF vars, Continued
<1> QED
  BY <1>1, <1>2, <1>3, <1>4, <1>5, <1>6, <1>7, <1>8, <1>9, <1>10, <1>11, <1>12 DEF Next

\* At first there is no call.
LEMMA CallsInit == Init => CallsInv
BY DEF Init, CallsInv, CallsIssued, AnswersFinal, Apart, OneEach, Placed

\* A set whose elements are equal has at most one.
LEMMA AtMostOne ==
  ASSUME NEW T, \A x, y \in T : x = y
  PROVE  Cardinality(T) <= 1
<1>1. CASE T = {}
  <2>1. Cardinality({}) = 0
    BY FS_EmptySet
  <2> QED BY <1>1, <2>1
<1>2. CASE T # {}
  <2>1. PICK x : x \in T
    BY <1>2
  <2>2. T = {x}
    BY <2>1
  <2>3. Cardinality({x}) = 1
    BY FS_Singleton
  <2> QED BY <2>2, <2>3
<1> QED BY <1>1, <1>2

\* However many interrupts, commands and compactions come between a call and its
\* response, its tool answers it once, and at most one placeholder stands for it
\* (agent_loop.py, _execute_tool_call and _fill_missing_tool_responses).
THEOREM CallsAnsweredOnce == Spec => []AnsweredOnce
<1>1. TypeInv /\ CallsInv => AnsweredOnce
  <2> SUFFICES ASSUME CallsInv, NEW c \in CallIds
               PROVE  /\ Cardinality(Occurrences("tool", c)) <= 1
                      /\ Cardinality(Occurrences("placeholder", c)) <= 1
    BY DEF AnsweredOnce
  <2>1. \A r \in {"tool", "placeholder"} : \A x, y \in Occurrences(r, c) : x = y
    BY DEF CallsInv, AnswersFinal, OneEach, Occurrences, IsResponse
  <2> QED BY <2>1, AtMostOne
<1> QED
  BY <1>1, InitType, NextType, CallsInit, CallsNext, PTL DEF Spec

-----------------------------------------------------------------------------
(* The order of calls and responses *)

\* Where an answer may be open.
AtTools == pc \in {"failed", "tools", "gather"}

\* What InOrder says at each place of a turn.
LEMMA InOrderCases ==
  /\ InOrder /\ ~disturbed /\ AtTools => Open(messages, Pending) /\ Tidy(messages)
  /\ InOrder /\ ~disturbed /\ ~AtTools => Tidy(messages)
  /\ InOrder /\ ~disturbed /\ ~AtTools /\ pc # "idle" => Complete(messages)
  /\ Open(messages, Pending) /\ AtTools => InOrder
  /\ Tidy(messages) /\ pc = "idle" => InOrder
  /\ Complete(messages) /\ ~AtTools => InOrder
BY DEF InOrder, AtTools, Complete, Open

\* A message of the user keeps the order, and a filled conversation is complete with it.
LEMMA UserAppended ==
  ASSUME NEW ms \in Seq(Message), Tidy(ms)
  PROVE  /\ Tidy(Append(ms, User))
         /\ Complete(ms) => Complete(Append(ms, User))
         /\ Complete(Append(Filled(ms), User))
<1>1. User \in Message /\ ~IsResponse(User) /\ User.role = "user"
  BY MessageTypes, UserSays
<1>2. Tidy(Append(ms, User)) /\ (Complete(ms) => Complete(Append(ms, User)))
  BY <1>1, TidyOther
<1>3. Filled(ms) \in Seq(Message) /\ Complete(Filled(ms)) /\ Tidy(Filled(ms))
  BY FilledShape, FilledComplete DEF Complete
<1>4. Complete(Append(Filled(ms), User))
  BY <1>1, <1>3, TidyOther
<1> QED BY <1>2, <1>4

\* The conversations of Clear and of a compaction are complete.
LEMMA NothingIsComplete == Complete(<<>>) /\ Tidy(<<>>) /\ Complete(<<User>>)
<1>1. Complete(<<>>) /\ Tidy(<<>>)
  BY DEF Complete, Tidy, Owned
<1>2. <<>> \in Seq(Message) /\ <<User>> = Append(<<>>, User)
  BY MessageTypes
<1>3. Complete(Append(<<>>, User))
  BY <1>1, <1>2, UserAppended
<1> QED BY <1>1, <1>2, <1>3

\* An answer opens, unless it calls no tool.
LEMMA OrderAnswer ==
  ASSUME TypeInv, TypeInv', InOrder, Answer
  PROVE  InOrder'
<1> SUFFICES ASSUME ~disturbed PROVE InOrder'
  BY DEF InOrder, Answer
<1>1. PICK n \in 0..MaxPerAnswer :
        LET S == (used.calls + 1)..(used.calls + n) IN
         /\ S \subseteq CallIds
         /\ Say(Assistant(S))
         /\ failed' \in SUBSET S
         /\ batch' = S \ failed'
         /\ pc' = IF S = {} THEN "last" ELSE "failed"
  BY DEF Answer
<1> DEFINE S == (used.calls + 1)..(used.calls + n)
           m == Assistant(S)
<1>2. /\ messages' = Append(messages, m) /\ failed' \subseteq S /\ batch' = S \ failed' /\ S \subseteq CallIds
      /\ (S # {} => pc' = "failed") /\ (S = {} => pc' = "last") /\ pc = "chat"
  BY <1>1 DEF Answer, Say
<1>3. m \in Message /\ m.role = "assistant" /\ m.calls = S /\ ~IsResponse(m)
  BY <1>2, MessageTypes DEF Assistant, IsResponse
<1>4. messages \in Seq(Message) /\ Complete(messages) /\ Tidy(messages)
  BY <1>2, InOrderCases DEF TypeInv, TypeOK, AtTools, Complete
<1>5. CASE S = {}
  <2>1. Complete(messages')
    BY <1>2, <1>3, <1>4, <1>5, TidyOther
  <2> QED BY <2>1, <1>2, <1>5 DEF InOrder, Complete
<1>6. CASE S # {}
  <2>1. Open(messages', S)
    BY <1>2, <1>4, OpenAnswer
  <2>2. Pending' = S
    BY <1>2, <1>6 DEF Pending
  <2> QED BY <2>1, <2>2, <1>2, <1>6 DEF InOrder
<1> QED BY <1>5, <1>6

\* What is pending are calls.
LEMMA PendingCalls ==
  TypeInv => Pending \in SUBSET CallIds
BY DEF TypeInv, TypeOK, Pending

\* While tools are at work, each response goes to the open answer.
LEMMA OrderTools ==
  ASSUME TypeInv, TypeInv', BatchOwnsTasks, CallsInv, InOrder,
         \/ ReportFailed \/ StartTools \/ InterruptQueue \/ Finalise
         \/ \E c \in CallIds : EndTask(c)
  PROVE  InOrder'
<1>0. messages \in Seq(Message) /\ Pending \in SUBSET CallIds
  BY PendingCalls DEF TypeInv, TypeOK
<1>1. CASE ReportFailed
  <2> SUFFICES ASSUME ~disturbed PROVE InOrder'
    BY <1>1 DEF InOrder, ReportFailed
  <2>1. PICK c \in failed : messages' = Append(messages, Response(c)) /\ failed' = failed \ {c}
    BY <1>1 DEF ReportFailed, Say
  <2>2. pc = "failed" /\ pc' = "failed" /\ batch' = batch
    BY <1>1 DEF ReportFailed
  <2>3. c \in Pending /\ Pending' = Pending \ {c}
    BY <2>1, <2>2 DEF Pending, CallsInv, CallsIssued
  <2>4. Open(messages, Pending)
    BY <2>2, InOrderCases DEF AtTools
  <2>5. Open(messages', Pending')
    BY <1>0, <2>1, <2>3, <2>4, OpenResponse
  <2> QED BY <2>2, <2>5 DEF InOrder
<1>2. CASE StartTools
  <2> SUFFICES ASSUME ~disturbed PROVE InOrder'
    BY <1>2 DEF InOrder, StartTools
  <2>1. pc = "failed" /\ pc' = "tools" /\ batch' = batch /\ failed = {} /\ messages' = messages
    BY <1>2 DEF StartTools
  <2>2. \A c \in batch : task'[c] = "running"
    BY <1>2 DEF StartTools, TypeInv, TypeOK
  <2>3. Pending' = Pending
    BY <2>1, <2>2 DEF Pending
  <2>4. Open(messages, Pending)
    BY <2>1, InOrderCases DEF AtTools
  <2> QED BY <2>1, <2>3, <2>4 DEF InOrder
<1>3. CASE InterruptQueue
  <2> SUFFICES ASSUME ~disturbed PROVE InOrder'
    BY <1>3 DEF InOrder, InterruptQueue
  <2>1. pc = "tools" /\ pc' = "gather" /\ batch' = batch /\ messages' = messages
    BY <1>3 DEF InterruptQueue, Interrupt
  <2>2. \A c \in batch : task'[c] = "done" <=> task[c] = "done"
    BY <1>3 DEF InterruptQueue, TypeInv, TypeOK
  <2>3. Pending' = Pending
    BY <2>1, <2>2 DEF Pending
  <2>4. Open(messages, Pending)
    BY <2>1, InOrderCases DEF AtTools
  <2> QED BY <2>1, <2>3, <2>4 DEF InOrder
<1>4. CASE Finalise
  <2>1. pc' = pc /\ batch' = batch /\ failed' = failed /\ messages' = messages /\ disturbed' = disturbed
    BY <1>4 DEF Finalise
  <2>2. \A c \in batch : task'[c] = "done" <=> task[c] = "done"
    BY <1>4 DEF Finalise, TypeInv, TypeOK
  <2>3. Pending' = Pending
    BY <2>1, <2>2 DEF Pending
  <2> HIDE DEF Pending
  <2>4. CASE AtTools
    <3>1. disturbed \/ Open(messages', Pending')
      BY <2>1, <2>3, <2>4, InOrderCases
    <3> QED BY <2>1, <2>4, <3>1 DEF InOrder, AtTools
  <2>5. CASE ~AtTools
    BY <2>1, <2>5 DEF InOrder, AtTools
  <2> QED BY <2>4, <2>5
<1>5. ASSUME NEW c \in CallIds, EndTask(c)
      PROVE  InOrder'
  <2> SUFFICES ASSUME ~disturbed PROVE InOrder'
    BY <1>5 DEF InOrder, EndTask
  <2>1. /\ messages' = Append(messages, Response(c)) /\ task[c] \in {"running", "left", "cancelled"}
        /\ pc' = pc /\ batch' = batch /\ failed' = failed
    BY <1>5 DEF EndTask, Say
  <2>2. task'[c] = "done" /\ \A d \in CallIds \ {c} : task'[d] = task[d]
    BY <1>5 DEF EndTask, TypeInv, TypeOK
  <2>3. pc \in {"tools", "gather"} /\ c \in batch /\ batch \subseteq CallIds
    BY <2>1 DEF BatchOwnsTasks, Quiet, TypeInv, TypeOK
  <2>4. c \in Pending /\ Pending' = Pending \ {c}
    BY <2>1, <2>2, <2>3 DEF Pending
  <2>5. Open(messages, Pending)
    BY <2>3, InOrderCases DEF AtTools
  <2>6. Open(messages', Pending')
    BY <1>0, <2>1, <2>4, <2>5, OpenResponse
  <2> QED BY <2>1, <2>3, <2>6 DEF InOrder
<1> QED BY <1>1, <1>2, <1>3, <1>4, <1>5

\* The turn leaves its tools when all of them are done.
LEMMA OrderLeave ==
  ASSUME TypeInv, InOrder, EndLLMTurn \/ Gathered \/ InterruptToolEvent
  PROVE  InOrder'
<1>0. disturbed => disturbed'
  <2>1. disturbed' = disturbed \/ disturbed' = (disturbed \/ ~BatchDone)
    BY DEF EndLLMTurn, Gathered, InterruptToolEvent
  <2> QED BY <2>1
<1> SUFFICES ASSUME ~disturbed, ~disturbed' PROVE InOrder'
  BY <1>0 DEF InOrder
<1>1. AtTools /\ Pending = {} /\ messages' = messages /\ pc' \in {"ready", "last", "idle"}
  <2>1. CASE EndLLMTurn
    BY <2>1 DEF EndLLMTurn, AtTools, Pending, BatchDone
  <2>2. CASE Gathered
    BY <2>2 DEF Gathered, AtTools, Pending, BatchDone
  <2>3. CASE InterruptToolEvent
    BY <2>3 DEF InterruptToolEvent, Interrupt, AtTools, Pending, BatchDone
  <2> QED BY <2>1, <2>2, <2>3
<1>2. Open(messages, {})
  BY <1>1, InOrderCases
<1>3. Complete(messages)
  BY <1>2, OpenNothing DEF TypeInv, TypeOK
<1> QED BY <1>1, <1>3 DEF InOrder, Complete

\* The other steps leave no answer open.
LEMMA OrderOther ==
  ASSUME TypeInv, InOrder, disturbed => disturbed',
         \/ pc' = "idle" /\ messages' = messages
         \/ pc' \in {"ready", "summary", "autosummary"} /\ messages' = Append(Filled(messages), User)
         \/ messages' \in {<<>>, <<User>>} /\ pc' \notin {"failed", "tools", "gather"}
         \/ /\ ~AtTools /\ pc' \notin {"failed", "tools", "gather"} /\ (pc = "idle" => pc' = "idle")
            /\ messages' \in {messages, Append(messages, User)}
  PROVE  InOrder'
<1> SUFFICES ASSUME ~disturbed, ~disturbed' PROVE InOrder'
  BY DEF InOrder
<1>1. messages \in Seq(Message) /\ Tidy(messages)
  BY InOrderCases DEF TypeInv, TypeOK
<1>2. CASE pc' = "idle" /\ messages' = messages
  BY <1>1, <1>2 DEF InOrder
<1>3. CASE pc' \in {"ready", "summary", "autosummary"} /\ messages' = Append(Filled(messages), User)
  <2>1. Complete(messages')
    BY <1>1, <1>3, UserAppended
  <2> QED BY <1>3, <2>1 DEF InOrder, Complete
<1>4. CASE messages' \in {<<>>, <<User>>} /\ pc' \notin {"failed", "tools", "gather"}
  <2>1. Complete(messages')
    BY <1>4, NothingIsComplete
  <2> QED BY <1>4, <2>1 DEF InOrder, Complete
<1>5. CASE /\ ~AtTools /\ pc' \notin {"failed", "tools", "gather"} /\ (pc = "idle" => pc' = "idle")
           /\ messages' \in {messages, Append(messages, User)}
  <2>1. Tidy(messages') /\ (pc # "idle" => Complete(messages'))
    BY <1>1, <1>5, InOrderCases, UserAppended
  <2> QED BY <1>5, <2>1 DEF InOrder
<1> QED BY <1>2, <1>3, <1>4, <1>5

\* Steps of a turn keep the order.
LEMMA OrderTurnStep ==
  ASSUME TypeInv, TypeInv', BatchOwnsTasks, CallsInv, InOrder, TurnStep
  PROVE  InOrder'
<1> USE DEF AtTools
<1>1. CASE BeforeTurn
  BY <1>1, OrderOther DEF BeforeTurn, Send, Say
<1>2. CASE Answer
  BY <1>2, OrderAnswer
<1>3. CASE ChatFails
  BY <1>3, OrderOther DEF ChatFails
<1>4. CASE ReportFailed
  BY <1>4, OrderTools
<1>5. CASE StartTools
  BY <1>5, OrderTools
<1>6. CASE EndLLMTurn
  BY <1>6, OrderLeave
<1>7. CASE AfterTurn
  BY <1>7, OrderOther DEF AfterTurn, Say
<1>8. CASE Summarised
  BY <1>8, OrderOther DEF Summarised
<1>9. CASE EndCompact
  BY <1>9, OrderOther DEF EndCompact, Send
<1>10. CASE CompactFails
  BY <1>10, OrderOther DEF CompactFails
<1>11. CASE Gathered
  BY <1>11, OrderLeave
<1> QED
  BY <1>1, <1>2, <1>3, <1>4, <1>5, <1>6, <1>7, <1>8, <1>9, <1>10, <1>11 DEF TurnStep

\* Every step keeps the order.
LEMMA OrderNext ==
  ASSUME TypeInv, TypeInv', BatchOwnsTasks, CallsInv, InOrder, [Next]_vars
  PROVE  InOrder'
<1>1. CASE Submit
  BY <1>1, OrderOther DEF Submit
<1>2. CASE TurnStep
  BY <1>2, OrderTurnStep
<1>3. CASE StartCompact
  BY <1>3, OrderOther DEF StartCompact
<1>4. CASE Clear
  BY <1>4, OrderOther DEF Clear
<1>5. ASSUME NEW c \in CallIds, EndTask(c)
      PROVE  InOrder'
  BY <1>5, OrderTools
<1>6. CASE InterruptModel
  BY <1>6, OrderOther DEF InterruptModel, Interrupt
<1>7. CASE InterruptEvent
  BY <1>7, OrderOther DEF InterruptEvent, Interrupt
<1>8. CASE InterruptQueue
  BY <1>8, OrderTools
<1>9. CASE InterruptToolEvent
  BY <1>9, OrderLeave
<1>10. CASE Finalise
  BY <1>10, OrderTools
<1>11. CASE StartCommand
  BY <1>11, OrderOther DEF StartCommand
<1>12. CASE InjectUserContext
  <2>1. CASE AtTools
    BY <1>12, <2>1 DEF InjectUserContext, AtTools, InOrder
  <2>2. CASE ~AtTools
    BY <1>12, <2>2, OrderOther DEF InjectUserContext, AtTools, Say
  <2> QED BY <2>1, <2>2
<1>13. CASE UNCHANGED vars
  <2>1. Pending' = Pending
    BY <1>13 DEF vars, Pending
  <2> QED BY <1>13, <2>1 DEF vars, InOrder
<1> QED
  BY <1>1, <1>2, <1>3, <1>4, <1>5, <1>6, <1>7, <1>8, <1>9, <1>10, <1>11, <1>12, <1>13 DEF Next

\* The empty conversation is in order.
LEMMA OrderInit == Init => InOrder
BY NothingIsComplete DEF Init, InOrder

\* A request takes the conversation as the step leaves it, outside of tools.
LEMMA RequestStep ==
  ASSUME TypeInv, [Next]_vars, Requested
  PROVE  disturbed' = disturbed /\ pc' \in {"chat", "summary", "autosummary"}
<1>0. used \in Bounds /\ used.requests \in Nat
  BY Counted, BoundsAreNumbers DEF TypeInv, TypeOK
<1>1. BeforeTurn \/ StartCompact \/ EndCompact
  <2>1. used'.requests # used.requests
    BY <1>0 DEF Requested
  <2>2. ~Submit /\ ~Clear /\ ~InterruptModel /\ ~InterruptEvent /\ ~InterruptQueue
        /\ ~InterruptToolEvent /\ ~StartCommand
    BY <1>0, <2>1, Counted DEF Submit, Clear, InterruptModel, InterruptEvent, InterruptQueue,
       InterruptToolEvent, StartCommand, Interrupt
  <2>3. ~Answer
    BY <1>0, <2>1 DEF Answer, Bounds
  <2>4. used' # used
    BY <2>1
  <2>5. ~ChatFails /\ ~ReportFailed /\ ~StartTools /\ ~EndLLMTurn /\ ~AfterTurn /\ ~Summarised
        /\ ~CompactFails /\ ~Gathered /\ ~Finalise /\ ~InjectUserContext /\ ~UNCHANGED vars
        /\ \A c \in CallIds : ~EndTask(c)
    BY <2>4 DEF ChatFails, ReportFailed, StartTools, EndLLMTurn, AfterTurn, Summarised, CompactFails,
       Gathered, Finalise, InjectUserContext, EndTask, vars
  <2> QED BY <2>2, <2>3, <2>5 DEF Next, TurnStep
<1>2. used' # used
  BY <1>0 DEF Requested
<1> QED BY <1>1, <1>2 DEF BeforeTurn, StartCompact, EndCompact, Send

\* The inductive invariant of the loop.
IInv == TypeInv /\ BatchOwnsTasks /\ CallsInv /\ InOrder

\* Every conversation that is sent to the model has each answer followed by one response
\* to each of its calls, and no other response, until a tool is abandoned or the result of
\* a `!` command comes between a call and its response (agent_loop.py, _chat and compact).
THEOREM RequestsAreWellFormed == Spec => RequestsWellFormed
<1>1. Init => IInv
  BY InitType, TasksInit, CallsInit, OrderInit DEF IInv
<1>2. IInv /\ [Next]_vars => IInv'
  BY NextType, TasksNext, CallsNext, OrderNext DEF IInv, TypeInv
<1>3. IInv /\ IInv' /\ [Next]_vars => [Requested /\ ~disturbed => WellFormed(messages')]_vars
  <2> SUFFICES ASSUME IInv, IInv', [Next]_vars, Requested, ~disturbed
               PROVE  WellFormed(messages')
    OBVIOUS
  <2>1. ~disturbed' /\ pc' \in {"chat", "summary", "autosummary"}
    BY RequestStep DEF IInv
  <2>2. messages' \in Seq(Message)
    BY DEF IInv, TypeInv, TypeOK
  <2>3. Complete(messages')
    BY <2>1 DEF IInv, InOrder
  <2> QED BY <2>2, <2>3, CompleteIsWellFormed
<1> QED
  BY <1>1, <1>2, <1>3, PTL DEF Spec, RequestsWellFormed

=============================================================================
