-------------------------- MODULE Interface_proofs --------------------------
(***************************************************************************)
(* Proof that the components of MCInterface are safe, for any values of    *)
(* their constants.  Each has an inductive invariant of its own:           *)
(* CompletionInv for the completion of paths, IndexInv for the index of    *)
(* files, VoiceInv for dictation, AloudInv for the narrator and TurnInv    *)
(* for the turns of the application.                                       *)
(***************************************************************************)
EXTENDS MCInterface, FiniteSetTheorems, TLAPS

-----------------------------------------------------------------------------
(* The completion of paths: CompletionInv says what a handler relies on,   *)
(* where each future stands, and from where an answer is still to come.    *)

\* Who holds the lock, and what a handler that has begun relies on.
Handling ==
  /\ lock = "ui" <=> ui.at \in {"callback", "stuck"}
  /\ lock = "worker" <=> worker.at = "assigned"
  /\ ui.at \in {"query", "submit"} => text \in Completion!PathTexts /\ active
  /\ ui.at = "submit" => last = text \/ failed
  /\ ui.at \in {"callback", "stuck"} => pending = Len(futures) /\ pending # 0
  /\ ui.at = "apply" => typed < MaxTyped
  /\ ui.at = "move" => ui.count # 0

\* Which future is queued, computed, watched or shown.
Jobs ==
  /\ worker.at # "idle" => worker.job # 0
  /\ \A f \in DOMAIN futures :
       /\ futures[f].state = "running" <=> worker.at = "computing" /\ worker.job = f
       /\ futures[f].state = "queued" => (f = pending /\ ui.at # "submit") \/ failed
       /\ ~futures[f].watched => f = Len(futures) /\ ui.at \in {"callback", "stuck"}
       /\ f \in cleared \/ f = list => futures[f].state = "done"
  /\ list # 0 => Found[futures[list].text] # 0
  /\ worker.at = "callback" => worker.job # list /\ worker.job \notin cleared /\
       futures[worker.job].state = "done"
  /\ worker.at = "assigned" => worker.job = list /\ list \notin cleared

\* The last query is that of the text, or there is a change of it to be handled.
Asked ==
  last # None => /\ active \/ ui.at = "reset"
                 /\ last = text \/ changes # 0 \/ ui.at \in {"query", "reset"}

Renders(i) == posted[i].call = "render"

\* The list is shown last.
Showing ==
  /\ \A i \in DOMAIN posted : posted[i].list <= Len(futures)
  /\ worker.at # "assigned" =>
       /\ \A i \in DOMAIN posted :
            Renders(i) /\ (\A j \in DOMAIN posted : j > i => ~Renders(j)) => posted[i].list = list
       /\ (\A i \in DOMAIN posted : ~Renders(i)) =>
            IF Completion!Size(list) = 0 THEN popup = Completion!Hidden ELSE popup.list = list

\* An answer is still to come, or the query is about to be given up.
Coming ==
  \/ ui.at \in {"submit", "callback", "reset", "stuck"}
  \/ pending # 0 /\ futures[pending].text = last /\ futures[pending].state \in {"queued", "running"}
  \/ worker.at = "callback" /\ futures[worker.job].text = last
  \/ \E i \in DOMAIN posted : posted[i].call = "reset"

\* The list answers the last query, or an answer is still to come.
Answered ==
  ~failed =>
    /\ ui.at = "callback" => futures[pending].text = last /\ futures[pending].state # "cancelled"
    /\ last = None => Completion!Size(list) = 0
    /\ last # None => Coming \/ (Completion!Size(list) # 0 /\ futures[list].text = last)

Selecting ==
  ~raced => /\ worker.at # "assigned" /\ Completion!Size(list) # 0 => selected < Completion!Size(list)
            /\ ui.at = "move" => ui.count = Completion!Size(list) /\ worker.at # "assigned"

CompletionInv == Completion!TypeOK /\ Handling /\ Jobs /\ Asked /\ Showing /\ Answered /\ Selecting

-----------------------------------------------------------------------------
States == {"queued", "running", "done", "cancelled"}

LEMMA OneChanged ==
  ASSUME NEW S, NEW q \in Seq(S), NEW f \in 1..Len(q), NEW r \in S
  PROVE  [q EXCEPT ![f] = r] \in Seq(S)
OBVIOUS

\* A future gets another state: its text stays.
LEMMA StateSet ==
  ASSUME futures \in Seq(Completion!Future), NEW f \in DOMAIN futures, NEW s \in States,
         futures' = [futures EXCEPT ![f].state = s]
  PROVE  /\ futures' \in Seq(Completion!Future) /\ Len(futures') = Len(futures) /\
              DOMAIN futures' = DOMAIN futures
         /\ \A g \in DOMAIN futures :
              /\ futures'[g].text = futures[g].text /\ futures'[g].watched = futures[g].watched
              /\ futures'[g].state = IF g = f THEN s ELSE futures[g].state
<1>1. futures[f] \in Completion!Future /\ f \in 1..Len(futures)
  OBVIOUS
<1> DEFINE r == [futures[f] EXCEPT !.state = s]
<1>2. r \in Completion!Future /\ r.text = futures[f].text /\ r.watched = futures[f].watched /\ r.state = s
  BY <1>1 DEF Completion!Future, States
<1>3. futures' = [futures EXCEPT ![f] = r]
  OBVIOUS
<1> HIDE DEF r
<1>4. futures' \in Seq(Completion!Future) /\ Len(futures') = Len(futures) /\
        DOMAIN futures' = DOMAIN futures
  BY <1>1, <1>2, <1>3
<1>5. \A g \in DOMAIN futures : futures'[g] = IF g = f THEN r ELSE futures[g]
  BY <1>1, <1>2, <1>3
<1> QED
  BY <1>2, <1>4, <1>5

LEMMA CancelledSet ==
  ASSUME futures \in Seq(Completion!Future), pending \in 0..Len(futures),
           futures' = Completion!Cancelled(futures)
  PROVE  /\ futures' \in Seq(Completion!Future) /\ Len(futures') = Len(futures) /\
              DOMAIN futures' = DOMAIN futures
         /\ \A g \in DOMAIN futures :
              /\ futures'[g].text = futures[g].text /\ futures'[g].watched = futures[g].watched
              /\ futures'[g].state = IF g = pending /\ futures[g].state = "queued" THEN "cancelled"
                                     ELSE futures[g].state
<1>1. CASE pending # 0 /\ futures[pending].state = "queued"
  <2>1. pending \in DOMAIN futures
    BY <1>1
  <2>2. futures' = [futures EXCEPT ![pending].state = "cancelled"]
    BY <1>1 DEF Completion!Cancelled
  <2>3. "cancelled" \in States
    BY DEF States
  <2>4. /\ futures' \in Seq(Completion!Future) /\ Len(futures') = Len(futures) /\
             DOMAIN futures' = DOMAIN futures
        /\ \A g \in DOMAIN futures :
             /\ futures'[g].text = futures[g].text /\ futures'[g].watched = futures[g].watched
             /\ futures'[g].state = IF g = pending THEN "cancelled" ELSE futures[g].state
    BY <2>1, <2>2, <2>3, StateSet
  <2> QED
    BY <1>1, <2>4
<1>2. CASE ~(pending # 0 /\ futures[pending].state = "queued")
  BY <1>2 DEF Completion!Cancelled
<1> QED
  BY <1>1, <1>2

LEMMA WatchedSet ==
  ASSUME futures \in Seq(Completion!Future), NEW f \in DOMAIN futures,
           futures' = [futures EXCEPT ![f].watched = TRUE]
  PROVE  /\ futures' \in Seq(Completion!Future) /\ Len(futures') = Len(futures) /\
              DOMAIN futures' = DOMAIN futures
         /\ \A g \in DOMAIN futures :
              /\ futures'[g].text = futures[g].text /\ futures'[g].state = futures[g].state
              /\ futures'[g].watched = (g = f \/ futures[g].watched)
<1>1. futures[f] \in Completion!Future /\ f \in 1..Len(futures)
  OBVIOUS
<1> DEFINE r == [futures[f] EXCEPT !.watched = TRUE]
<1>2. r \in Completion!Future /\ r.text = futures[f].text /\ r.watched = TRUE /\ r.state = futures[f].state
  BY <1>1 DEF Completion!Future
<1>3. futures' = [futures EXCEPT ![f] = r]
  OBVIOUS
<1> HIDE DEF r
<1>4. futures' \in Seq(Completion!Future)
  <2>1. f \in 1..Len(futures) /\ r \in Completion!Future
    BY <1>1, <1>2
  <2>2. [futures EXCEPT ![f] = r] \in Seq(Completion!Future)
    BY <2>1, OneChanged
  <2> QED
    BY <1>3, <2>2
<1>7. Len(futures') = Len(futures) /\ DOMAIN futures' = DOMAIN futures
  BY <1>1, <1>3
<1>5. \A g \in DOMAIN futures : futures'[g] = IF g = f THEN r ELSE futures[g]
  BY <1>1, <1>2, <1>3
<1>6. \A g \in DOMAIN futures : futures'[g].watched = (g = f \/ futures[g].watched)
  <2> TAKE g \in DOMAIN futures
  <2>1. futures[g] \in Completion!Future
    OBVIOUS
  <2>2. futures[g].watched \in BOOLEAN
    BY <2>1 DEF Completion!Future
  <2> QED
    BY <1>2, <1>5, <2>2
<1>8. \A g \in DOMAIN futures : futures'[g].text = futures[g].text /\ futures'[g].state = futures[g].state
  BY <1>2, <1>5
<1> QED
  BY <1>4, <1>6, <1>7, <1>8

LEMMA Submitted ==
  ASSUME futures \in Seq(Completion!Future), text \in Completion!PathTexts,
         futures' = Append(futures, [text |-> text, state |-> "queued", watched |-> FALSE])
  PROVE  /\ futures' \in Seq(Completion!Future) /\ Len(futures') = Len(futures) + 1
         /\ DOMAIN futures' = DOMAIN futures \union {Len(futures) + 1} /\
              Len(futures) + 1 \notin DOMAIN futures
         /\ \A g \in DOMAIN futures : futures'[g] = futures[g]
         /\ futures'[Len(futures')] = [text |-> text, state |-> "queued", watched |-> FALSE]
<1> DEFINE r == [text |-> text, state |-> "queued", watched |-> FALSE]
<1>1. r \in Completion!Future
  BY DEF Completion!Future
<1>2. futures' = Append(futures, r)
  OBVIOUS
<1> HIDE DEF r
<1>3. futures' \in Seq(Completion!Future) /\ Len(futures') = Len(futures) + 1 /\
        futures'[Len(futures) + 1] = r
      /\ \A g \in 1..Len(futures) : futures'[g] = futures[g]
  BY <1>1, <1>2
<1>4. DOMAIN futures = 1..Len(futures) /\ DOMAIN futures' = 1..Len(futures) + 1 /\ Len(futures) \in Nat
  BY <1>3
<1> QED
  BY <1>3, <1>4 DEF r

\* Futures keep their texts, and stay.
LEMMA FuturesKept ==
  ASSUME Completion!PathAssumption, CompletionInv, Completion!Next
  PROVE  /\ futures' \in Seq(Completion!Future) /\ DOMAIN futures \subseteq DOMAIN futures'
         /\ 0..Len(futures) \subseteq 0..Len(futures')
         /\ \A f \in DOMAIN futures : futures'[f].text = futures[f].text
<1>1. futures \in Seq(Completion!Future) /\ pending \in 0..Len(futures) /\ worker.job \in 0..Len(futures)
      /\ DOMAIN futures = 1..Len(futures)
  BY DEF CompletionInv, Completion!TypeOK
<1>2. CASE futures' = futures
  BY <1>1, <1>2
<1>3. CASE futures' = Completion!Cancelled(futures)
  BY <1>1, <1>3, CancelledSet
<1>4. CASE Completion!SubmitQuery
  BY <1>1, <1>4, Submitted DEF Completion!SubmitQuery, CompletionInv, Handling
<1>5. CASE Completion!AddCallback /\ futures' # futures
  BY <1>1, <1>5, WatchedSet DEF Completion!AddCallback, CompletionInv, Handling
<1>6. CASE \E f \in DOMAIN futures : Completion!TakeJob(f)
  BY <1>1, <1>6, StateSet DEF Completion!TakeJob, States
<1>7. CASE Completion!Computed
  <2>1. worker.job \in DOMAIN futures /\ futures' = [futures EXCEPT ![worker.job].state = "done"]
    BY <1>1, <1>7 DEF Completion!Computed, CompletionInv, Jobs
  <2>2. "done" \in States
    BY DEF States
  <2> QED
    BY <1>1, <2>1, <2>2, StateSet
<1>8. Completion!Query => futures' = futures \/ futures' = Completion!Cancelled(futures)
  BY DEF Completion!Query, Completion!queryVars
<1>9. Completion!Reset => futures' = Completion!Cancelled(futures)
  BY DEF Completion!Reset
<1>10. Completion!Move \/ (\E t \in InputTexts : Completion!Apply(t)) \/ Completion!ComputeFails \/
         Completion!Deliver \/ Completion!Assigned => futures' = futures
  BY DEF Completion!Move, Completion!Apply, Completion!ComputeFails, Completion!Deliver,
         Completion!Assigned, Completion!queryVars
<1>11. (\E t \in InputTexts : Completion!Type(t) \/ Completion!Recall(t)) \/ Completion!Submit \/
         Completion!Dismiss \/ Completion!Changed \/ Completion!Arrow \/ Completion!Choose \/
           Completion!RunPosted =>
       futures' = futures
  BY DEF Completion!Type, Completion!Recall, Completion!Submit, Completion!Dismiss,
         Completion!Changed, Completion!Arrow, Completion!Choose, Completion!RunPosted,
         Completion!queryVars
<1> QED
  BY <1>2, <1>3, <1>4, <1>5, <1>6, <1>7, <1>8, <1>9, <1>10, <1>11
    DEF Completion!Next, Completion!Handler, Completion!Pool

\* The size of a list is that of its answer, until it is cleared.
LEMMA SizeKept ==
  ASSUME Completion!PathAssumption, CompletionInv, Completion!Next, NEW l \in 0..Len(futures),
           cleared' = cleared
  PROVE  Completion!Size(l)' = Completion!Size(l)
<1>1. \A f \in DOMAIN futures : futures'[f].text = futures[f].text
  BY FuturesKept
<1>2. l # 0 => l \in DOMAIN futures
  BY DEF CompletionInv, Completion!TypeOK
<1> QED
  BY <1>1, <1>2 DEF Completion!Size

LEMMA SizeNat ==
  ASSUME Completion!PathAssumption, Completion!TypeOK, NEW l \in 0..Len(futures)
  PROVE  Completion!Size(l) \in Nat
<1>1. l # 0 => futures[l] \in Completion!Future
  BY DEF Completion!TypeOK
<1> QED
  BY <1>1 DEF Completion!Size, Completion!PathAssumption, Completion!Future

LEMMA CompletionTypes ==
  ASSUME Completion!PathAssumption, CompletionInv, Completion!Next
  PROVE  Completion!TypeOK'
<1>1. /\ futures' \in Seq(Completion!Future) /\ DOMAIN futures \subseteq DOMAIN futures'
      /\ 0..Len(futures) \subseteq 0..Len(futures')
  BY FuturesKept
<1>2. /\ ui.at \in {"free", "query", "submit", "callback", "reset", "move", "apply", "stuck", "crashed"}
      /\ ui.count \in Nat /\ ui.list \in 0..Len(futures)
      /\ text \in InputTexts /\ changes \in Nat /\ active \in BOOLEAN
      /\ pending \in 0..Len(futures) /\ last \in Completion!PathTexts \union {None}
      /\ list \in 0..Len(futures) /\ cleared \subseteq 1..Len(futures)
      /\ selected \in Nat
      /\ popup \in [list : 0..Len(futures), index : Nat]
      /\ worker \in [at : {"idle", "computing", "callback", "assigned"}, job : 0..Len(futures)]
      /\ lock \in {"free", "ui", "worker"}
      /\ typed \in 0..MaxTyped /\ raced \in BOOLEAN /\ failed \in BOOLEAN /\ MaxTyped \in Nat
  BY DEF CompletionInv, Completion!TypeOK, Completion!PathAssumption
<1>3. posted \in Seq(Completion!Posted)
  BY DEF CompletionInv, Completion!TypeOK
<1>4. Len(futures) \in Nat /\ Len(futures') \in Nat /\ 1..Len(futures) \subseteq 1..Len(futures')
  BY <1>1 DEF CompletionInv, Completion!TypeOK
<1> DEFINE Others ==
      /\ text' \in InputTexts /\ changes' \in Nat /\ active' \in BOOLEAN
      /\ pending' \in 0..Len(futures') /\ last' \in Completion!PathTexts \union {None}
      /\ list' \in 0..Len(futures') /\ cleared' \subseteq 1..Len(futures')
      /\ selected' \in Nat
      /\ popup' \in [list : 0..Len(futures'), index : Nat]
      /\ worker' \in [at : {"idle", "computing", "callback", "assigned"}, job : 0..Len(futures')]
      /\ lock' \in {"free", "ui", "worker"}
      /\ typed' \in 0..MaxTyped /\ raced' \in BOOLEAN /\ failed' \in BOOLEAN
    UI ==
      /\ ui'.at \in {"free", "query", "submit", "callback", "reset", "move", "apply", "stuck", "crashed"}
      /\ ui'.count \in Nat /\ ui'.list \in 0..Len(futures')
<1>5. ASSUME UI, Others, posted' \in Seq(Completion!Posted) PROVE Completion!TypeOK'
  BY <1>1, <1>5 DEF Completion!TypeOK
<1>6. \A x : ui' = ui \/ ui' = Completion!Free \/ ui' = Completion!At(x) => ui'.count \in Nat /\
        ui'.list \in 0..Len(futures')
  BY <1>1, <1>2, <1>4 DEF Completion!At, Completion!Free
<1>7. Completion!Free.at = "free" /\ \A x : Completion!At(x).at = x
  BY DEF Completion!Free, Completion!At
<1>8. \A l \in 0..Len(futures), i \in Nat : Completion!Shown(l, i) \in [list : 0..Len(futures'),
        index : Nat]
  BY <1>1, <1>4 DEF Completion!Shown, Completion!Hidden
<1>9. popup \in [list : 0..Len(futures'), index : Nat]
      /\ worker \in [at : {"idle", "computing", "callback", "assigned"}, job : 0..Len(futures')]
      /\ pending \in 0..Len(futures') /\ list \in 0..Len(futures') /\ cleared \subseteq 1..Len(futures')
      /\ Completion!Hidden \in [list : 0..Len(futures'), index : Nat]
      /\ Completion!Resting \in [at : {"idle", "computing", "callback", "assigned"}, job : 0..Len(futures')]
  BY <1>1, <1>2, <1>4 DEF Completion!Hidden, Completion!Resting
<1> HIDE DEF UI, Others
<1>10. ASSUME NEW t \in InputTexts, Completion!Type(t) PROVE Completion!TypeOK'
  <2>1. UI
    BY <1>2, <1>6, <1>10 DEF Completion!Type, UI
  <2>2. Others
    BY <1>2, <1>9, <1>10 DEF Completion!Type, Completion!Typing, Others, Completion!queryVars,
                             Completion!listVars
  <2> QED
    BY <1>3, <1>5, <1>10, <2>1, <2>2 DEF Completion!Type
<1>11. ASSUME Completion!Dropping PROVE UI /\ active' = FALSE
  BY <1>6, <1>7, <1>11 DEF Completion!Dropping, UI
<1>12. ASSUME NEW t \in InputTexts, Completion!Recall(t) PROVE Completion!TypeOK'
  <2>1. UI /\ active' = FALSE
    BY <1>11, <1>12 DEF Completion!Recall
  <2>3. typed' \in 0..MaxTyped
    BY <1>2, <1>12 DEF Completion!Recall, Completion!Typing
  <2>2. Others
    BY <1>2, <1>9, <1>12, <2>1, <2>3 DEF Completion!Recall, Others, Completion!queryVars,
                                         Completion!listVars
  <2> QED
    BY <1>3, <1>5, <1>12, <2>1, <2>2 DEF Completion!Recall
<1>13. ASSUME Completion!Submit PROVE Completion!TypeOK'
  <2>1. UI /\ active' = FALSE
    BY <1>11, <1>13 DEF Completion!Submit
  <2>3. typed' \in 0..MaxTyped
    BY <1>2, <1>13 DEF Completion!Submit, Completion!Typing
  <2>4. text' \in InputTexts /\ changes' \in Nat
    BY <1>2, <1>13 DEF Completion!Submit, Completion!PathAssumption
  <2>2. Others
    BY <1>2, <1>9, <1>13, <2>1, <2>3, <2>4 DEF Completion!Submit, Others, Completion!queryVars,
                                               Completion!listVars
  <2> QED
    BY <1>3, <1>5, <1>13, <2>1, <2>2 DEF Completion!Submit
<1>14. ASSUME Completion!Dismiss PROVE Completion!TypeOK'
  <2>1. UI /\ active' = FALSE
    BY <1>11, <1>14 DEF Completion!Dismiss
  <2>2. Others
    BY <1>2, <1>9, <1>14, <2>1 DEF Completion!Dismiss, Others, Completion!queryVars, Completion!listVars
  <2> QED
    BY <1>3, <1>5, <1>14, <2>1, <2>2 DEF Completion!Dismiss
<1>15. ASSUME Completion!Changed PROVE Completion!TypeOK'
  <2>1. UI /\ active' \in BOOLEAN
    BY <1>6, <1>7, <1>11, <1>15 DEF Completion!Changed, UI
  <2>2. Others
    BY <1>2, <1>9, <1>15, <2>1 DEF Completion!Changed, Others, Completion!queryVars, Completion!listVars
  <2> QED
    BY <1>3, <1>5, <1>15, <2>1, <2>2 DEF Completion!Changed
<1>16. ASSUME Completion!Arrow \/ Completion!Choose PROVE Completion!TypeOK'
  <2>1. UI
    <3>1. CASE Completion!Arrow
      BY <1>2, <1>4, <3>1, SizeNat DEF Completion!Arrow, CompletionInv, Completion!At,
                                       Completion!Free, UI
    <3>2. CASE Completion!Choose
      BY <1>9, <3>2 DEF Completion!Choose, Completion!At, Completion!Free, UI
    <3> QED
      BY <1>16, <3>1, <3>2
  <2>2. Others
    BY <1>2, <1>9, <1>16 DEF Completion!Arrow, Completion!Choose, Others, Completion!uiVars,
                             Completion!queryVars, Completion!listVars
  <2> QED
    BY <1>3, <1>5, <1>16, <2>1, <2>2 DEF Completion!Arrow, Completion!Choose
<1>17. ASSUME Completion!RunPosted PROVE Completion!TypeOK'
  <2>1. posted # <<>> /\ posted' = Tail(posted)
    BY <1>17 DEF Completion!RunPosted
  <2>2. Head(posted) \in Completion!Posted /\ posted' \in Seq(Completion!Posted)
    BY <1>3, <2>1
  <2>3. Head(posted).index \in Nat /\ Head(posted).list \in 0..Len(futures)
    BY <1>3, <1>4, <2>1, <2>2 DEF CompletionInv, Showing, Completion!Posted
  <2>4. UI
    BY <1>2, <1>6, <1>7, <1>17 DEF Completion!RunPosted, UI
  <2>5. popup' \in [list : 0..Len(futures'), index : Nat]
    BY <1>8, <1>9, <1>17, <2>3 DEF Completion!RunPosted
  <2>6. Others
    BY <1>2, <1>9, <1>17, <2>5 DEF Completion!RunPosted, Others, Completion!uiVars,
                                   Completion!queryVars, Completion!listVars
  <2> QED
    BY <1>5, <2>2, <2>4, <2>6
<1>18. ASSUME Completion!Query PROVE Completion!TypeOK'
  <2>1. UI
    BY <1>6, <1>7, <1>18 DEF Completion!Query, UI
  <2>2. Others
    BY <1>2, <1>9, <1>18 DEF Completion!Query, Others, Completion!uiVars, Completion!queryVars,
                             Completion!listVars, CompletionInv, Handling
  <2> QED
    BY <1>3, <1>5, <1>18, <2>1, <2>2 DEF Completion!Query
<1>19. ASSUME Completion!SubmitQuery PROVE Completion!TypeOK'
  <2>1. UI
    BY <1>6, <1>7, <1>19 DEF Completion!SubmitQuery, UI
  <2>2. pending' \in 0..Len(futures')
    BY <1>4, <1>19 DEF Completion!SubmitQuery
  <2>3. Others
    BY <1>2, <1>9, <1>19, <2>2 DEF Completion!SubmitQuery, Others, Completion!uiVars, Completion!listVars
  <2> QED
    BY <1>3, <1>5, <1>19, <2>1, <2>3 DEF Completion!SubmitQuery
<1>20. ASSUME Completion!AddCallback PROVE Completion!TypeOK'
  <2>1. UI
    BY <1>6, <1>7, <1>20 DEF Completion!AddCallback, UI
  <2>2. Others
    BY <1>2, <1>9, <1>20 DEF Completion!AddCallback, Others, Completion!uiVars, Completion!listVars
  <2> QED
    BY <1>3, <1>5, <1>20, <2>1, <2>2 DEF Completion!AddCallback
<1>21. ASSUME Completion!Reset PROVE Completion!TypeOK'
  <2>1. UI
    BY <1>6, <1>7, <1>21 DEF Completion!Reset, UI
  <2>2. cleared' \subseteq 1..Len(futures') /\ selected' \in Nat
    <3>1. CASE Completion!Size(list) > 0
      <4>1. list # 0
        BY <1>2, <3>1 DEF Completion!Size
      <4>2. list \in 1..Len(futures)
        BY <1>2, <1>4, <4>1
      <4>3. cleared' = cleared \union {list} /\ selected' = 0
        BY <1>21, <3>1 DEF Completion!Reset
      <4> QED
        BY <1>4, <1>9, <4>2, <4>3
    <3>2. CASE ~(Completion!Size(list) > 0)
      BY <1>2, <1>9, <1>21, <3>2 DEF Completion!Reset
    <3> QED
      BY <3>1, <3>2
  <2>3. popup' \in [list : 0..Len(futures'), index : Nat]
    BY <1>9, <1>21 DEF Completion!Reset
  <2>4. pending' \in 0..Len(futures') /\ last' = None
    BY <1>4, <1>21 DEF Completion!Reset
  <2>5. Others
    BY <1>2, <1>9, <1>21, <2>2, <2>3, <2>4 DEF Completion!Reset, Others, Completion!uiVars
  <2> QED
    BY <1>3, <1>5, <1>21, <2>1, <2>5 DEF Completion!Reset
<1>22. ASSUME Completion!Move PROVE Completion!TypeOK'
  <2>1. UI
    BY <1>6, <1>7, <1>22 DEF Completion!Move, UI
  <2>2. PICK step \in {1, ui.count - 1} : selected' = (selected + step) % ui.count
    BY <1>22 DEF Completion!Move
  <2>3. ui.count > 0 /\ selected + step \in Nat
    BY <1>2, <1>22 DEF Completion!Move, CompletionInv, Handling
  <2>4. selected' \in Nat
    BY <1>2, <2>2, <2>3
  <2>5. popup' \in [list : 0..Len(futures'), index : Nat]
    BY <1>2, <1>8, <1>22, <2>4 DEF Completion!Move
  <2>6. Others
    BY <1>2, <1>9, <1>22, <2>4, <2>5 DEF Completion!Move, Others, Completion!uiVars, Completion!queryVars
  <2> QED
    BY <1>3, <1>5, <1>22, <2>1, <2>6 DEF Completion!Move
<1>23. ASSUME NEW t \in InputTexts, Completion!Apply(t) PROVE Completion!TypeOK'
  <2>1. UI
    BY <1>6, <1>7, <1>23 DEF Completion!Apply, UI
  <2>2. typed' \in 0..MaxTyped /\ changes' \in Nat /\ text' \in InputTexts
    BY <1>2, <1>23 DEF Completion!Apply, CompletionInv, Handling
  <2>3. Others
    BY <1>2, <1>9, <1>23, <2>2 DEF Completion!Apply, Others, Completion!queryVars, Completion!listVars
  <2> QED
    BY <1>3, <1>5, <1>23, <2>1, <2>3 DEF Completion!Apply
<1>24. ASSUME NEW f \in DOMAIN futures, Completion!TakeJob(f) PROVE Completion!TypeOK'
  <2>1. UI
    BY <1>2, <1>6, <1>24 DEF Completion!TakeJob, UI
  <2>2. worker' \in [at : {"idle", "computing", "callback", "assigned"}, job : 0..Len(futures')]
    BY <1>4, <1>24 DEF Completion!TakeJob
  <2>3. Others
    BY <1>2, <1>9, <1>24, <2>2 DEF Completion!TakeJob, Others, Completion!uiVars, Completion!listVars
  <2> QED
    BY <1>3, <1>5, <1>24, <2>1, <2>3 DEF Completion!TakeJob
<1>25. ASSUME Completion!Computed PROVE Completion!TypeOK'
  <2>1. UI
    BY <1>2, <1>6, <1>25 DEF Completion!Computed, UI
  <2>2. worker' \in [at : {"idle", "computing", "callback", "assigned"}, job : 0..Len(futures')]
    BY <1>9, <1>25 DEF Completion!Computed
  <2>3. Others
    BY <1>2, <1>9, <1>25, <2>2 DEF Completion!Computed, Others, Completion!uiVars, Completion!listVars
  <2> QED
    BY <1>3, <1>5, <1>25, <2>1, <2>3 DEF Completion!Computed
<1>26. ASSUME Completion!ComputeFails PROVE Completion!TypeOK'
  <2>1. UI
    BY <1>2, <1>6, <1>26 DEF Completion!ComputeFails, UI
  <2>2. pending' \in 0..Len(futures') /\ last' = None
    BY <1>4, <1>26 DEF Completion!ComputeFails
  <2>3. Others
    BY <1>2, <1>9, <1>26, <2>2 DEF Completion!ComputeFails, Others, Completion!uiVars, Completion!listVars
  <2> QED
    BY <1>3, <1>5, <1>26, <2>1, <2>3 DEF Completion!ComputeFails
<1>27. ASSUME Completion!Deliver PROVE Completion!TypeOK'
  <2>1. UI
    BY <1>2, <1>6, <1>27 DEF Completion!Deliver, UI
  <2>2. worker' \in [at : {"idle", "computing", "callback", "assigned"}, job : 0..Len(futures')]
        /\ list' \in 0..Len(futures') /\ lock' \in {"free", "ui", "worker"} /\ raced' \in BOOLEAN
    BY <1>2, <1>9, <1>27 DEF Completion!Deliver
  <2>3. Others
    BY <1>2, <1>9, <1>27, <2>2 DEF Completion!Deliver, Others, Completion!uiVars, Completion!queryVars
  <2>4. [call |-> "reset", list |-> 0, index |-> 0] \in Completion!Posted
    BY DEF Completion!Posted
  <2>5. posted' \in Seq(Completion!Posted)
    BY <1>3, <1>27, <2>4 DEF Completion!Deliver
  <2> QED
    BY <1>5, <2>1, <2>3, <2>5
<1>28. ASSUME Completion!Assigned PROVE Completion!TypeOK'
  <2>1. UI
    BY <1>2, <1>6, <1>28 DEF Completion!Assigned, UI
  <2>2. Others
    BY <1>2, <1>9, <1>28 DEF Completion!Assigned, Others, Completion!uiVars, Completion!queryVars
  <2>3. [call |-> "render", list |-> list, index |-> 0] \in Completion!Posted
    BY <1>2, <1>4 DEF Completion!Posted
  <2>4. posted' \in Seq(Completion!Posted)
    BY <1>3, <1>28, <2>3 DEF Completion!Assigned
  <2> QED
    BY <1>5, <2>1, <2>2, <2>4
<1> QED
  BY <1>10, <1>12, <1>13, <1>14, <1>15, <1>16, <1>17, <1>18, <1>19, <1>20, <1>21, <1>22, <1>23, <1>24, <1>25,
     <1>26, <1>27, <1>28 DEF Completion!Next, Completion!Handler, Completion!Pool

\* A handler goes on as it has begun, whatever the pool's thread does meanwhile.
LEMMA CompletionHandling ==
  ASSUME Completion!PathAssumption, CompletionInv, Completion!Next
  PROVE  Handling'
<1>1. futures \in Seq(Completion!Future) /\ pending \in 0..Len(futures) /\ worker.job \in 0..Len(futures)
      /\ DOMAIN futures = 1..Len(futures) /\ Len(futures) \in Nat
  BY DEF CompletionInv, Completion!TypeOK
<1>2. Handling /\ MaxTyped \in Nat /\ typed \in 0..MaxTyped
  BY DEF CompletionInv, Completion!TypeOK, Completion!PathAssumption
<1>3. /\ Completion!Free.at = "free" /\ \A x : Completion!At(x).at = x
      /\ Completion!Resting.at = "idle"
  BY DEF Completion!Free, Completion!At, Completion!Resting
<1>4. ASSUME Completion!Dropping PROVE ui'.at \in {"free", "reset"}
  BY <1>3, <1>4 DEF Completion!Dropping
<1>5. ASSUME ui = Completion!Free, ui'.at \in {"free", "reset"}, lock' = lock, worker' = worker
      PROVE  Handling'
  BY <1>2, <1>3, <1>5 DEF Handling
<1>6. ASSUME NEW t \in InputTexts, Completion!Type(t) \/ Completion!Recall(t) PROVE Handling'
  BY <1>3, <1>4, <1>5, <1>6 DEF Completion!Type, Completion!Recall, Completion!Typing
<1>7. ASSUME Completion!Submit \/ Completion!Dismiss \/ Completion!RunPosted PROVE Handling'
  BY <1>3, <1>4, <1>5, <1>7 DEF Completion!Submit, Completion!Dismiss, Completion!RunPosted,
                                Completion!Typing
<1>8. ASSUME Completion!Changed PROVE Handling'
  BY <1>2, <1>3, <1>4, <1>5, <1>8 DEF Completion!Changed, Handling
<1>9. ASSUME Completion!Arrow PROVE Handling'
  <2>1. ui' = [Completion!At("move") EXCEPT !.count = Completion!Size(list)] /\
          Completion!Size(list) > 0 /\ Completion!Size(list) \in Nat
    BY <1>9, SizeNat DEF Completion!Arrow, CompletionInv, Completion!TypeOK
  <2>2. ui'.at = "move" /\ ui'.count # 0
    BY <2>1 DEF Completion!At, Completion!Free
  <2> QED
    BY <1>2, <1>3, <1>9, <2>2 DEF Completion!Arrow, Handling
<1>10. ASSUME Completion!Choose PROVE Handling'
  BY <1>2, <1>3, <1>10 DEF Completion!Choose, Completion!At, Completion!Free, Handling,
                           Completion!uiVars
<1>11. ASSUME Completion!Query PROVE Handling'
  BY <1>2, <1>3, <1>11 DEF Completion!Query, Handling, Completion!uiVars, Completion!queryVars
<1>12. ASSUME Completion!SubmitQuery PROVE Handling'
  BY <1>1, <1>2, <1>3, <1>12 DEF Completion!SubmitQuery, Handling, Completion!uiVars
<1>13. ASSUME Completion!AddCallback PROVE Handling'
  BY <1>2, <1>3, <1>13 DEF Completion!AddCallback, Handling, Completion!uiVars
<1>14. ASSUME Completion!Reset \/ Completion!Move PROVE Handling'
  BY <1>2, <1>3, <1>14 DEF Completion!Reset, Completion!Move, Handling, Completion!uiVars,
                           Completion!queryVars
<1>15. ASSUME NEW t \in InputTexts, Completion!Apply(t) PROVE Handling'
  BY <1>2, <1>3, <1>15 DEF Completion!Apply, Handling, Completion!queryVars
<1>16. ASSUME Len(futures') = Len(futures), ui' = ui, text' = text, active' = active, typed' = typed,
                lock' = lock,
              worker.at # "assigned", worker'.at # "assigned",
              \/ pending' = pending /\ last' = last /\ failed' = failed
              \/ lock = "free" /\ failed' = TRUE
       PROVE  Handling'
  BY <1>2, <1>16 DEF Handling
<1>17. ASSUME NEW f \in DOMAIN futures, Completion!TakeJob(f) PROVE Handling'
  BY <1>1, <1>3, <1>16, <1>17 DEF Completion!TakeJob, Completion!uiVars
<1>18. ASSUME Completion!Computed PROVE Handling'
  BY <1>1, <1>3, <1>16, <1>18 DEF Completion!Computed, CompletionInv, Completion!TypeOK,
                                  Completion!uiVars
<1>19. ASSUME Completion!ComputeFails PROVE Handling'
  BY <1>3, <1>16, <1>19 DEF Completion!ComputeFails, Completion!uiVars
<1>20. ASSUME Completion!Deliver PROVE Handling'
  <2>1. CASE lock' = "worker"
    BY <1>2, <1>20, <2>1 DEF Completion!Deliver, CompletionInv, Completion!TypeOK, Handling,
                             Completion!uiVars, Completion!queryVars
  <2>2. CASE lock' # "worker"
    BY <1>2, <1>3, <1>20, <2>2 DEF Completion!Deliver, Handling, Completion!uiVars,
                                   Completion!queryVars
  <2> QED
    BY <2>1, <2>2
<1>21. ASSUME Completion!Assigned PROVE Handling'
  BY <1>2, <1>3, <1>21 DEF Completion!Assigned, Handling, Completion!uiVars, Completion!queryVars
<1> QED
  BY <1>6, <1>7, <1>8, <1>9, <1>10, <1>11, <1>12, <1>13, <1>14, <1>15, <1>17, <1>18, <1>19, <1>20, <1>21
     DEF Completion!Next, Completion!Handler, Completion!Pool

LEMMA CompletionAsked ==
  ASSUME Completion!PathAssumption, CompletionInv, Completion!Next
  PROVE  Asked'
<1>1. Asked /\ Handling /\ changes \in Nat /\ active \in BOOLEAN
  BY DEF CompletionInv, Completion!TypeOK
<1>3. Completion!Free.at = "free" /\ \A x : Completion!At(x).at = x
  BY DEF Completion!Free, Completion!At
<1>6. ASSUME NEW t \in InputTexts, Completion!Type(t) \/ Completion!Recall(t) PROVE Asked'
  BY <1>1, <1>3, <1>6 DEF Completion!Type, Completion!Recall, Completion!Typing, Asked,
                          Completion!Dropping, Completion!queryVars
<1>7. ASSUME Completion!Submit \/ Completion!Dismiss PROVE Asked'
  BY <1>1, <1>3, <1>7 DEF Completion!Submit, Completion!Dismiss, Completion!Typing, Asked,
                          Completion!Dropping, Completion!queryVars
<1>8. ASSUME Completion!Changed PROVE Asked'
  BY <1>1, <1>3, <1>8 DEF Completion!Changed, Asked, Completion!Dropping, Completion!queryVars
<1>9. ASSUME Completion!RunPosted PROVE Asked'
  BY <1>1, <1>3, <1>9 DEF Completion!RunPosted, Asked, Completion!uiVars, Completion!queryVars
<1>10. ASSUME Completion!Arrow \/ Completion!Choose PROVE Asked'
  BY <1>1, <1>3, <1>10 DEF Completion!Arrow, Completion!Choose, Asked, Completion!uiVars,
                           Completion!queryVars
<1>11. ASSUME Completion!Query PROVE Asked'
  BY <1>1, <1>3, <1>11 DEF Completion!Query, Asked, Completion!uiVars, Completion!queryVars, Handling
<1>12. ASSUME Completion!SubmitQuery PROVE Asked'
  BY <1>1, <1>3, <1>12 DEF Completion!SubmitQuery, Asked, Completion!uiVars, Completion!queryVars, Handling
<1>13. ASSUME Completion!AddCallback \/ Completion!Move PROVE Asked'
  BY <1>1, <1>3, <1>13 DEF Completion!AddCallback, Completion!Move, Asked, Completion!uiVars,
                           Completion!queryVars
<1>14. ASSUME Completion!Reset PROVE Asked'
  BY <1>14 DEF Completion!Reset, Asked
<1>15. ASSUME NEW t \in InputTexts, Completion!Apply(t) PROVE Asked'
  BY <1>1, <1>3, <1>15 DEF Completion!Apply, Asked, Completion!queryVars
<1>16. ASSUME Completion!Pool PROVE Asked'
  BY <1>1, <1>16 DEF Completion!Pool, Completion!TakeJob, Completion!Computed,
                     Completion!ComputeFails, Completion!Deliver, Completion!Assigned, Asked,
                     Completion!uiVars, Completion!queryVars
<1> QED
  BY <1>6, <1>7, <1>8, <1>9, <1>10, <1>11, <1>12, <1>13, <1>14, <1>15, <1>16
    DEF Completion!Next, Completion!Handler

LEMMA CompletionJobs ==
  ASSUME Completion!PathAssumption, CompletionInv, Completion!Next
  PROVE  Jobs'
<1>1. futures \in Seq(Completion!Future) /\ pending \in 0..Len(futures) /\ worker.job \in 0..Len(futures)
      /\ DOMAIN futures = 1..Len(futures) /\ Len(futures) \in Nat /\ list \in 0..Len(futures)
      /\ cleared \subseteq 1..Len(futures)
  BY DEF CompletionInv, Completion!TypeOK
<1>2. Jobs /\ Handling /\ Completion!Size(list) \in Nat
  BY <1>1, SizeNat DEF CompletionInv
<1>3. /\ Completion!Free.at = "free" /\ \A x : Completion!At(x).at = x
      /\ Completion!Resting.at = "idle" /\ Completion!Resting.job = 0
  BY DEF Completion!Free, Completion!At, Completion!Resting
<1>4. worker \in [at : {"idle", "computing", "callback", "assigned"}, job : 0..Len(futures)]
  BY DEF CompletionInv, Completion!TypeOK
<1>5. ASSUME futures' = futures, pending' = pending, list' = list, cleared' = cleared, worker' = worker,
             failed' = failed, ui'.at # "submit",
             ui.at \in {"callback", "stuck"} => ui'.at \in {"callback", "stuck"}
      PROVE  Jobs'
  BY <1>2, <1>5 DEF Jobs
<1>6. ASSUME NEW t \in InputTexts, Completion!Type(t) \/ Completion!Recall(t) PROVE Jobs'
  BY <1>3, <1>5, <1>6 DEF Completion!Type, Completion!Recall, Completion!Typing, Completion!Dropping,
                          Completion!queryVars, Completion!listVars
<1>7. ASSUME Completion!Submit \/ Completion!Dismiss \/ Completion!Changed \/ Completion!RunPosted
      PROVE Jobs'
  BY <1>3, <1>5, <1>7 DEF Completion!Submit, Completion!Dismiss, Completion!Changed,
                          Completion!RunPosted, Completion!Typing, Completion!Dropping,
                          Completion!queryVars, Completion!listVars
<1>8. ASSUME Completion!Arrow \/ Completion!Choose PROVE Jobs'
  BY <1>3, <1>5, <1>8 DEF Completion!At, Completion!Free, Completion!Arrow, Completion!Choose,
                          Completion!queryVars, Completion!listVars
<1>9. ASSUME Completion!Move \/ \E t \in InputTexts : Completion!Apply(t) PROVE Jobs'
  BY <1>3, <1>5, <1>9 DEF Completion!Move, Completion!Apply, Completion!queryVars, Completion!listVars
<1>10. ASSUME futures' = Completion!Cancelled(futures), worker' = worker, list' = list, failed' = failed,
              cleared' = cleared \/ (list # 0 /\ cleared' = cleared \union {list} /\
                                     worker.at # "assigned"),
              ui.at \notin {"callback", "stuck"}
       PROVE  Jobs'
  BY <1>1, <1>2, <1>10, CancelledSet DEF Jobs
<1>11. ASSUME Completion!Query PROVE Jobs'
  BY <1>3, <1>5, <1>10, <1>11 DEF Completion!Query, Completion!queryVars, Completion!listVars
<1>12. ASSUME Completion!Reset PROVE Jobs'
  BY <1>2, <1>10, <1>12 DEF Completion!Reset, Handling, Completion!Size
<1>13. ASSUME Completion!SubmitQuery PROVE Jobs'
  <2>1. text \in Completion!PathTexts /\
          futures' = Append(futures, [text |-> text, state |-> "queued", watched |-> FALSE])
    BY <1>2, <1>13 DEF Completion!SubmitQuery, Handling
  <2>2. /\ futures' \in Seq(Completion!Future) /\ Len(futures') = Len(futures) + 1
        /\ DOMAIN futures' = DOMAIN futures \union {Len(futures) + 1} /\
             Len(futures) + 1 \notin DOMAIN futures
        /\ \A g \in DOMAIN futures : futures'[g] = futures[g]
        /\ futures'[Len(futures')] = [text |-> text, state |-> "queued", watched |-> FALSE]
    BY <1>1, <2>1, Submitted
  <2>3. list' = list /\ cleared' = cleared /\ worker' = worker /\ failed' = failed /\
          pending' = Len(futures')
        /\ ui' = Completion!At("callback") /\ ui.at = "submit"
    BY <1>13 DEF Completion!SubmitQuery, Completion!listVars
  <2>4. /\ worker.at # "idle" => worker.job \in DOMAIN futures
        /\ list # 0 => list \in DOMAIN futures
        /\ cleared \subseteq DOMAIN futures
        /\ worker.job # Len(futures) + 1 /\ list # Len(futures) + 1
    BY <1>1, <1>2 DEF Jobs
  <2>5. \A f \in DOMAIN futures :
          /\ futures[f].state = "running" <=> worker.at = "computing" /\ worker.job = f
          /\ futures[f].state = "queued" => failed
          /\ futures[f].watched
          /\ f \in cleared \/ f = list => futures[f].state = "done"
    BY <1>2, <2>3 DEF Jobs
  <2>6. \A f \in DOMAIN futures' :
       /\ futures'[f].state = "running" <=> worker'.at = "computing" /\ worker'.job = f
       /\ futures'[f].state = "queued" => (f = pending' /\ ui'.at # "submit") \/ failed'
       /\ ~futures'[f].watched => f = Len(futures') /\ ui'.at \in {"callback", "stuck"}
       /\ f \in cleared' \/ f = list' => futures'[f].state = "done"
    <3> SUFFICES ASSUME NEW f \in DOMAIN futures'
                 PROVE  /\ futures'[f].state = "running" <=> worker'.at = "computing" /\ worker'.job = f
                        /\ futures'[f].state = "queued" => (f = pending' /\ ui'.at # "submit") \/ failed'
                        /\ ~futures'[f].watched => f = Len(futures') /\ ui'.at \in {"callback", "stuck"}
                        /\ f \in cleared' \/ f = list' => futures'[f].state = "done"
      OBVIOUS
    <3>1. CASE f \in DOMAIN futures
      BY <2>2, <2>3, <2>5, <3>1
    <3>2. CASE f = Len(futures')
      BY <1>3, <2>2, <2>3, <2>4, <3>2
    <3> QED
      BY <2>2, <3>1, <3>2
  <2>7. /\ worker'.at # "idle" => worker'.job # 0
        /\ list' # 0 => Found[futures'[list'].text] # 0
        /\ worker'.at = "callback" => worker'.job # list' /\ worker'.job \notin cleared' /\
             futures'[worker'.job].state = "done"
        /\ worker'.at = "assigned" => worker'.job = list' /\ list' \notin cleared'
    BY <1>2, <2>2, <2>3, <2>4 DEF Jobs
  <2> QED
    BY <2>6, <2>7 DEF Jobs
<1>14. ASSUME Completion!AddCallback PROVE Jobs'
  <2>1. CASE futures[pending].state = "done"
    BY <1>3, <1>5, <1>14, <2>1 DEF Completion!AddCallback, Completion!listVars
  <2>2. CASE futures[pending].state # "done"
    <3>1. pending \in DOMAIN futures /\ pending = Len(futures)
      BY <1>1, <1>2, <1>14 DEF Completion!AddCallback, Handling
    <3>2. futures' = [futures EXCEPT ![pending].watched = TRUE]
      BY <1>14, <2>2 DEF Completion!AddCallback
    <3>3. /\ futures' \in Seq(Completion!Future) /\ Len(futures') = Len(futures) /\
               DOMAIN futures' = DOMAIN futures
          /\ \A g \in DOMAIN futures :
               /\ futures'[g].text = futures[g].text /\ futures'[g].state = futures[g].state
               /\ futures'[g].watched = (g = pending \/ futures[g].watched)
      BY <1>1, <3>1, <3>2, WatchedSet
    <3>4. /\ worker.at # "idle" => worker.job \in DOMAIN futures
          /\ list # 0 => list \in DOMAIN futures
      BY <1>1, <1>2 DEF Jobs
    <3>5. \A f \in DOMAIN futures : futures'[f].watched
      BY <1>2, <3>1, <3>3 DEF Jobs
    <3>6. list' = list /\ cleared' = cleared /\ worker' = worker /\ failed' = failed /\ pending' = pending
          /\ ui'.at = "free" /\ ui.at = "callback"
      BY <1>3, <1>14, <2>2 DEF Completion!AddCallback, Completion!listVars
    <3>7. \A f \in DOMAIN futures' :
            /\ futures'[f].state = "running" <=> worker'.at = "computing" /\ worker'.job = f
            /\ futures'[f].state = "queued" => (f = pending' /\ ui'.at # "submit") \/ failed'
            /\ f \in cleared' \/ f = list' => futures'[f].state = "done"
      BY <1>2, <3>3, <3>6 DEF Jobs
    <3>8. /\ worker'.at # "idle" => worker'.job # 0
          /\ list' # 0 => Found[futures'[list'].text] # 0
          /\ worker'.at = "assigned" => worker'.job = list' /\ list' \notin cleared'
      BY <1>2, <3>3, <3>4, <3>6 DEF Jobs
    <3>9. worker'.at = "callback" => worker'.job # list' /\ worker'.job \notin cleared' /\
            futures'[worker'.job].state = "done"
      BY <1>2, <3>3, <3>4, <3>6 DEF Jobs
    <3> QED
      BY <3>3, <3>5, <3>7, <3>8, <3>9 DEF Jobs
  <2> QED
    BY <2>1, <2>2
<1>15. ASSUME NEW f \in DOMAIN futures, Completion!TakeJob(f) PROVE Jobs'
  BY <1>1, <1>2, <1>3, <1>15, StateSet DEF Completion!TakeJob, States, Jobs, Completion!listVars
<1>16. ASSUME Completion!Computed PROVE Jobs'
  <2> DEFINE w == worker.job
  <2>1. worker.at = "computing" /\ w \in DOMAIN futures
    BY <1>1, <1>2, <1>16 DEF Completion!Computed, Jobs
  <2>2. futures' = [futures EXCEPT ![w].state = "done"] /\ "done" \in States
    BY <1>16 DEF Completion!Computed, States
  <2>3. worker' = [worker EXCEPT !.at = "callback"] \/ worker' = Completion!Resting
    BY <1>16 DEF Completion!Computed
  <2>4. /\ futures' \in Seq(Completion!Future) /\ Len(futures') = Len(futures) /\
             DOMAIN futures' = DOMAIN futures
        /\ \A g \in DOMAIN futures :
             /\ futures'[g].text = futures[g].text /\ futures'[g].watched = futures[g].watched
             /\ futures'[g].state = IF g = w THEN "done" ELSE futures[g].state
    <3> HIDE DEF w
    <3> QED
      BY <1>1, <2>1, <2>2, StateSet
  <2>5. /\ worker'.at \in {"callback", "idle"} /\ w # 0
        /\ worker'.at = "callback" => worker'.job = w
    BY <1>1, <1>3, <1>4, <2>1, <2>3
  <2>6. futures[w].state = "running" /\ \A g \in DOMAIN futures : g # w => futures[g].state # "running"
    BY <1>2, <2>1 DEF Jobs
  <2>7. w \notin cleared /\ w # list
    BY <1>2, <2>1, <2>6 DEF Jobs
  <2>8. list # 0 => list \in DOMAIN futures
    BY <1>1
  <2> HIDE DEF w
  <2> QED
    BY <1>2, <1>16, <2>1, <2>4, <2>5, <2>6, <2>7, <2>8 DEF Completion!Computed, Completion!listVars, Jobs
<1>17. ASSUME Completion!ComputeFails PROVE Jobs'
  BY <1>2, <1>3, <1>17 DEF Completion!ComputeFails, Completion!listVars, Jobs
<1>18. ASSUME Completion!Deliver PROVE Jobs'
  <2>1. futures' = futures /\ pending' = pending /\ cleared' = cleared /\ failed' = failed /\ ui' = ui
        /\ worker.at = "callback"
    BY <1>18 DEF Completion!Deliver, Completion!queryVars
  <2>2. CASE worker' = Completion!Resting /\ list' = list
    BY <1>2, <1>3, <2>1, <2>2 DEF Jobs
  <2>3. CASE worker' = [worker EXCEPT !.at = "assigned"] /\ list' = worker.job /\
               Found[futures[worker.job].text] > 0
    BY <1>1, <1>2, <1>4, <2>1, <2>3 DEF Jobs
  <2> QED
    BY <1>18, <2>2, <2>3 DEF Completion!Deliver
<1>19. ASSUME Completion!Assigned PROVE Jobs'
  BY <1>2, <1>3, <1>19 DEF Completion!Assigned, Completion!queryVars, Jobs
<1> QED
  BY <1>6, <1>7, <1>8, <1>9, <1>11, <1>12, <1>13, <1>14, <1>15, <1>16, <1>17, <1>18, <1>19
    DEF Completion!Next, Completion!Handler, Completion!Pool

\* What is posted goes to the end of the queue.
LEMMA PostedLast ==
  ASSUME posted \in Seq(Completion!Posted), NEW m \in Completion!Posted, posted' = Append(posted, m)
  PROVE  /\ Len(posted) \in Nat /\ DOMAIN posted = 1..Len(posted)
         /\ DOMAIN posted' = 1..(Len(posted) + 1)
         /\ posted'[Len(posted) + 1] = m
         /\ \A i \in DOMAIN posted : i \in DOMAIN posted' /\ posted'[i] = posted[i]
OBVIOUS

LEMMA PostedFirst ==
  ASSUME posted \in Seq(Completion!Posted), posted # <<>>, posted' = Tail(posted)
  PROVE  /\ Len(posted) \in Nat /\ Len(posted) > 0 /\ DOMAIN posted = 1..Len(posted)
         /\ DOMAIN posted' = 1..(Len(posted) - 1)
         /\ Head(posted) = posted[1] /\ posted[1] \in Completion!Posted
         /\ \A i \in DOMAIN posted' : i + 1 \in DOMAIN posted /\ posted'[i] = posted[i + 1]
OBVIOUS

LEMMA CompletionShowing ==
  ASSUME Completion!PathAssumption, CompletionInv, Completion!Next
  PROVE  Showing'
<1>1. posted \in Seq(Completion!Posted) /\ DOMAIN posted = 1..Len(posted) /\ Len(posted) \in Nat /\
        list \in 0..Len(futures) /\ Len(futures) \in Nat
      /\ worker.at \in {"idle", "computing", "callback", "assigned"}
  BY DEF CompletionInv, Completion!TypeOK
<1>2. Showing /\ Handling /\ Jobs
  BY DEF CompletionInv
<1>3. Len(futures') \in Nat /\ Len(futures) <= Len(futures')
  BY <1>1, FuturesKept
<1>4. Completion!Size(list) \in Nat
  BY <1>1, SizeNat DEF CompletionInv
<1>5. \A i \in DOMAIN posted : posted[i].list \in Nat /\ posted[i].list <= Len(futures')
  <2> TAKE i \in DOMAIN posted
  <2>1. posted[i] \in Completion!Posted
    BY <1>1
  <2>2. posted[i].list \in Nat /\ posted[i].list <= Len(futures)
    BY <1>2, <2>1 DEF Completion!Posted, Showing
  <2> QED
    BY <1>1, <1>3, <2>2
<1> DEFINE Popup == IF Completion!Size(list) = 0 THEN popup = Completion!Hidden ELSE popup.list = list
    ShownLast == \A i \in DOMAIN posted :
                   Renders(i) /\ (\A j \in DOMAIN posted : j > i => ~Renders(j)) => posted[i].list = list
    NoneLeft == (\A i \in DOMAIN posted : ~Renders(i)) => Popup
<1>6. worker.at # "assigned" => ShownLast /\ NoneLeft
  BY <1>2 DEF Showing
\* Neither the queue nor the list changes.
<1>7. ASSUME posted' = posted, list' = list, Popup => Popup', worker'.at # "assigned" =>
               worker.at # "assigned"
      PROVE  Showing'
  <2>1. \A i \in DOMAIN posted' : posted'[i].list <= Len(futures')
    BY <1>5, <1>7
  <2>2. \A i \in DOMAIN posted : Renders(i)' = Renders(i)
    BY <1>7 DEF Renders
  <2>3. CASE worker'.at # "assigned"
    <3>1. ShownLast /\ NoneLeft
      BY <1>6, <1>7, <2>3
    <3>2. ShownLast'
      BY <1>7, <2>2, <3>1
    <3>3. NoneLeft'
      <4> HIDE DEF Popup
      <4> QED
        BY <1>7, <2>2, <3>1
    <3> QED
      BY <2>1, <3>2, <3>3 DEF Showing
  <2> QED
    BY <2>1, <2>3 DEF Showing
<1>8. ASSUME cleared' = cleared, list' = list, popup' = popup PROVE Popup => Popup'
  BY <1>1, <1>8, SizeKept
<1>9. \A l, i : Completion!Shown(l,
                                 i) = IF Completion!Size(l) = 0 THEN Completion!Hidden ELSE [list |-> l, index |-> i]
  BY DEF Completion!Shown
<1> HIDE DEF Popup, ShownLast, NoneLeft
<1>10. ASSUME NEW t \in InputTexts, Completion!Type(t) \/ Completion!Recall(t) \/ Completion!Apply(t)
       PROVE Showing'
  BY <1>7, <1>8, <1>10 DEF Completion!Type, Completion!Recall, Completion!Apply, Completion!listVars
<1>11. ASSUME Completion!Submit \/ Completion!Dismiss \/ Completion!Changed \/ Completion!Arrow \/ Completion!Choose \/ Completion!Query \/ Completion!SubmitQuery \/ Completion!AddCallback
       PROVE Showing'
  BY <1>7, <1>8, <1>11 DEF Completion!Submit, Completion!Dismiss, Completion!Changed,
                           Completion!Arrow, Completion!Choose, Completion!Query,
                           Completion!SubmitQuery, Completion!AddCallback, Completion!listVars
<1>12. ASSUME Completion!Reset PROVE Showing'
  <2>1. posted' = posted /\ list' = list /\ worker' = worker
    BY <1>12 DEF Completion!Reset
  <2>2. CASE Completion!Size(list) > 0
    BY <1>7, <1>12, <2>1, <2>2 DEF Completion!Reset, Completion!Size, Popup, Completion!Hidden
  <2>3. CASE ~(Completion!Size(list) > 0)
    BY <1>7, <1>8, <1>12, <2>1, <2>3 DEF Completion!Reset
  <2> QED
    BY <2>2, <2>3
<1>13. ASSUME Completion!Move PROVE Showing'
  BY <1>1, <1>7, <1>9, <1>13, SizeKept DEF Completion!Move, Popup, Completion!Hidden
<1>14. ASSUME Completion!RunPosted PROVE Showing'
  <2>1. posted # <<>> /\ posted' = Tail(posted) /\ list' = list /\ cleared' = cleared /\ worker' = worker
    BY <1>14 DEF Completion!RunPosted, Completion!listVars
  <2>2. Completion!Size(list)' = Completion!Size(list)
    BY <1>1, <2>1, SizeKept
  <2>3. /\ Len(posted) \in Nat /\ Len(posted) > 0 /\ DOMAIN posted = 1..Len(posted)
        /\ DOMAIN posted' = 1..(Len(posted) - 1)
        /\ Head(posted) = posted[1] /\ posted[1] \in Completion!Posted
        /\ \A i \in DOMAIN posted' : i + 1 \in DOMAIN posted /\ posted'[i] = posted[i + 1]
    BY <1>1, <2>1, PostedFirst
  <2>4. \A i \in DOMAIN posted' : posted'[i].list <= Len(futures')
    BY <1>5, <2>3
  <2>5. \A i \in DOMAIN posted' : Renders(i)' = Renders(i + 1)
    BY <2>3 DEF Renders
  <2>6. CASE worker.at # "assigned"
    <3>1. ShownLast'
      <4> SUFFICES ASSUME NEW i \in DOMAIN posted', Renders(i)', \A j \in DOMAIN posted' : j > i =>
        ~Renders(j)'
                   PROVE  posted'[i].list = list'
        BY DEF ShownLast
      <4>1. i + 1 \in DOMAIN posted /\ Renders(i + 1)
        BY <2>3, <2>5
      <4>2. ASSUME NEW j \in DOMAIN posted, j > i + 1 PROVE ~Renders(j)
        <5>1. j - 1 \in DOMAIN posted' /\ j - 1 > i /\ (j - 1) + 1 = j
          BY <2>3, <4>2
        <5> QED
          BY <2>5, <5>1
      <4>3. posted[i + 1].list = list
        BY <1>6, <2>6, <4>1, <4>2 DEF ShownLast
      <4> QED
        BY <2>1, <2>3, <4>3
    <3>2. NoneLeft'
      <4> SUFFICES ASSUME \A i \in DOMAIN posted' : ~Renders(i)'
                   PROVE  Popup'
        BY DEF NoneLeft
      <4>1. \A j \in DOMAIN posted : j > 1 => ~Renders(j)
        <5> SUFFICES ASSUME NEW j \in DOMAIN posted, j > 1 PROVE ~Renders(j)
          OBVIOUS
        <5>1. j - 1 \in DOMAIN posted' /\ (j - 1) + 1 = j
          BY <2>3
        <5> QED
          BY <2>5, <5>1
      <4>2. CASE Renders(1)
        <5>1. 1 \in DOMAIN posted
          BY <2>3
        <5>2. posted[1].list = list
          BY <1>6, <2>6, <4>1, <4>2, <5>1 DEF ShownLast
        <5>3. popup' = Completion!Shown(list, posted[1].index)
          BY <1>14, <2>3, <4>2, <5>2 DEF Completion!RunPosted, Renders
        <5> QED
          BY <1>9, <2>1, <2>2, <5>3 DEF Popup, Completion!Hidden
      <4>3. CASE ~Renders(1)
        <5>1. \A j \in DOMAIN posted : ~Renders(j)
          BY <2>3, <4>1, <4>3
        <5>2. Popup
          BY <1>6, <2>6, <5>1 DEF NoneLeft
        <5>3. popup' = popup
          BY <1>14, <2>3, <4>3 DEF Completion!RunPosted, Renders
        <5> QED
          BY <2>1, <2>2, <5>2, <5>3 DEF Popup
      <4> QED
        BY <4>2, <4>3
    <3> QED
      BY <2>4, <3>1, <3>2 DEF Showing, ShownLast, NoneLeft, Popup
  <2> QED
    BY <2>1, <2>4, <2>6 DEF Showing
<1>15. ASSUME NEW f \in DOMAIN futures, Completion!TakeJob(f) PROVE Showing'
  BY <1>7, <1>8, <1>15 DEF Completion!TakeJob, Completion!Resting, Completion!listVars
<1>16. ASSUME Completion!Computed \/ Completion!ComputeFails PROVE Showing'
  BY <1>7, <1>8, <1>16 DEF Completion!Computed, Completion!ComputeFails, Completion!listVars
<1>17. ASSUME Completion!Deliver PROVE Showing'
  <2>1. worker.at = "callback" /\ cleared' = cleared /\ popup' = popup
    BY <1>17 DEF Completion!Deliver
  <2>2. CASE worker' = [worker EXCEPT !.at = "assigned"] /\ posted' = posted
    BY <1>5, <2>2 DEF CompletionInv, Completion!TypeOK, Showing
  <2>3. CASE list' = list /\ posted' = posted
    BY <1>7, <1>8, <2>1, <2>3
  <2>4. CASE list' = list /\ posted' = Append(posted, [call |-> "reset", list |-> 0, index |-> 0])
    <3> DEFINE m == [call |-> "reset", list |-> 0, index |-> 0]
    <3>1. m \in Completion!Posted /\ m.call # "render" /\ m.list = 0
      BY DEF Completion!Posted
    <3>2. posted' = Append(posted, m)
      BY <2>4
    <3> HIDE DEF m
    <3>3. PICK n \in Nat : n = Len(posted) + 1
      BY <1>1
    <3>4. /\ DOMAIN posted' = 1..n /\ posted'[n] = m
          /\ \A i \in DOMAIN posted : i \in DOMAIN posted' /\ posted'[i] = posted[i]
          /\ \A i \in DOMAIN posted' : i \in DOMAIN posted \/ i = n
      BY <1>1, <3>1, <3>2, <3>3, PostedLast
    <3>5. /\ \A i \in DOMAIN posted : Renders(i)' = Renders(i)
          /\ ~Renders(n)' /\ n \in DOMAIN posted'
      BY <3>1, <3>3, <3>4 DEF Renders
    <3>7. \A i \in DOMAIN posted' : posted'[i].list <= Len(futures')
      BY <1>3, <1>5, <3>1, <3>4
    <3>8. ShownLast /\ NoneLeft /\ (Popup => Popup')
      BY <1>6, <1>8, <2>1, <2>4
    <3>9. ShownLast'
      BY <2>4, <3>4, <3>5, <3>8 DEF ShownLast
    <3>10. NoneLeft'
      BY <3>4, <3>5, <3>8 DEF NoneLeft
    <3> QED
      BY <3>7, <3>9, <3>10 DEF Showing, ShownLast, NoneLeft, Popup
  <2> QED
    BY <1>17, <2>2, <2>3, <2>4 DEF Completion!Deliver
<1>18. ASSUME Completion!Assigned PROVE Showing'
  <2> DEFINE m == [call |-> "render", list |-> list, index |-> 0]
  <2>1. posted' = Append(posted, m) /\ list' = list
    BY <1>18 DEF Completion!Assigned
  <2>2. m \in Completion!Posted /\ m.call = "render" /\ m.list = list
    BY <1>1 DEF Completion!Posted
  <2> HIDE DEF m
  <2>3. PICK n \in Nat : n = Len(posted) + 1
    BY <1>1
  <2>4. /\ DOMAIN posted' = 1..n /\ posted'[n] = m
        /\ \A i \in DOMAIN posted : posted'[i] = posted[i]
        /\ \A i \in DOMAIN posted' : i \in DOMAIN posted \/ i = n
        /\ \A i \in DOMAIN posted : i < n
    BY <1>1, <2>1, <2>2, <2>3, PostedLast
  <2>5. Renders(n)' /\ n \in DOMAIN posted'
    BY <2>2, <2>3, <2>4 DEF Renders
  <2>6. \A i \in DOMAIN posted' : posted'[i].list <= Len(futures')
    BY <1>1, <1>3, <1>5, <2>2, <2>4
  <2>7. ShownLast'
    BY <2>1, <2>2, <2>4, <2>5 DEF ShownLast
  <2>8. NoneLeft'
    BY <2>5 DEF NoneLeft
  <2> QED
    BY <2>6, <2>7, <2>8 DEF Showing, ShownLast, NoneLeft, Popup
<1> QED
  BY <1>10, <1>11, <1>12, <1>13, <1>14, <1>15, <1>16, <1>17, <1>18
    DEF Completion!Next, Completion!Handler, Completion!Pool

LEMMA CompletionSelecting ==
  ASSUME Completion!PathAssumption, CompletionInv, Completion!Next
  PROVE  Selecting'
<1>1. /\ list \in 0..Len(futures) /\ Completion!Size(list) \in Nat /\ selected \in Nat /\ raced \in BOOLEAN
      /\ worker \in [at : {"idle", "computing", "callback", "assigned"}, job : 0..Len(futures)]
      /\ worker.at \in {"idle", "computing", "callback", "assigned"}
  BY SizeNat DEF CompletionInv, Completion!TypeOK
<1>2. Selecting /\ Handling /\ Jobs
  BY DEF CompletionInv
<1>3. /\ Completion!Free.at = "free" /\ \A x : Completion!At(x).at = x
      /\ Completion!Resting.at = "idle"
  BY DEF Completion!Free, Completion!At, Completion!Resting
<1>4. cleared' = cleared /\ list' = list => Completion!Size(list)' = Completion!Size(list)
  BY <1>1, SizeKept DEF Completion!Size
<1>5. ASSUME ui' = ui \/ ui'.at # "move", cleared' = cleared, list' = list, selected' = selected,
             raced' = raced, worker'.at # "assigned", worker.at # "assigned" \/ worker' = worker
      PROVE  Selecting'
  BY <1>1, <1>2, <1>4, <1>5 DEF Selecting
<1>6. ASSUME ui' = ui \/ ui'.at # "move", cleared' = cleared, list' = list, selected' = selected,
             raced' = raced, worker' = worker
      PROVE  Selecting'
  BY <1>1, <1>2, <1>4, <1>6 DEF Selecting
<1>7. ASSUME NEW t \in InputTexts, Completion!Type(t) \/ Completion!Recall(t) \/ Completion!Apply(t)
      PROVE Selecting'
  BY <1>3, <1>6, <1>7 DEF Completion!Type, Completion!Recall, Completion!Apply, Completion!Dropping,
                          Completion!listVars
<1>8. ASSUME Completion!Submit \/ Completion!Dismiss \/ Completion!Changed \/ Completion!RunPosted
      PROVE Selecting'
  BY <1>3, <1>6, <1>8 DEF Completion!Submit, Completion!Dismiss, Completion!Changed,
                          Completion!RunPosted, Completion!Dropping, Completion!listVars
<1>9. ASSUME Completion!Query \/ Completion!SubmitQuery \/ Completion!AddCallback PROVE Selecting'
  BY <1>3, <1>6, <1>9 DEF Completion!Query, Completion!SubmitQuery, Completion!AddCallback,
                          Completion!listVars
<1>10. ASSUME Completion!Arrow PROVE Selecting'
  BY <1>2, <1>4, <1>10 DEF Completion!Arrow, Completion!At, Completion!Free, Completion!listVars,
                           Selecting, Handling
<1>11. ASSUME Completion!Choose PROVE Selecting'
  BY <1>2, <1>4, <1>11 DEF Completion!Choose, Completion!At, Completion!Free, Completion!listVars,
                           Selecting
<1>12. ASSUME Completion!Reset PROVE Selecting'
  <2>1. list' = list /\ ui' = Completion!Free /\ raced' = raced /\ worker' = worker
    BY <1>12 DEF Completion!Reset
  <2>2. CASE Completion!Size(list) > 0
    BY <1>3, <1>12, <2>1, <2>2 DEF Completion!Reset, Completion!Size, Selecting
  <2>3. CASE ~(Completion!Size(list) > 0)
    BY <1>3, <1>6, <1>12, <2>1, <2>3 DEF Completion!Reset
  <2> QED
    BY <2>2, <2>3
<1>13. ASSUME Completion!Move PROVE Selecting'
  <2>1. list' = list /\ cleared' = cleared /\ ui' = Completion!Free /\ raced' = raced /\
          worker' = worker /\ ui.at = "move"
    BY <1>13 DEF Completion!Move
  <2>2. PICK step \in {1, ui.count - 1} : selected' = (selected + step) % ui.count
    BY <1>13 DEF Completion!Move
  <2>3. ~raced => ui.count = Completion!Size(list) /\ ui.count # 0
    BY <1>2, <2>1 DEF Selecting, Handling
  <2>4. ASSUME ~raced PROVE selected' < Completion!Size(list)
    BY <1>1, <2>2, <2>3, <2>4
  <2> QED
    BY <1>3, <1>4, <2>1, <2>4 DEF Selecting
<1>14. ASSUME NEW f \in DOMAIN futures, Completion!TakeJob(f) PROVE Selecting'
  BY <1>3, <1>5, <1>14 DEF Completion!TakeJob, Completion!listVars
<1>15. ASSUME Completion!Computed PROVE Selecting'
  BY <1>1, <1>3, <1>5, <1>15 DEF Completion!Computed, Completion!listVars
<1>16. ASSUME Completion!ComputeFails PROVE Selecting'
  BY <1>3, <1>5, <1>16 DEF Completion!ComputeFails, Completion!listVars
<1>17. ASSUME Completion!Deliver PROVE Selecting'
  <2>1. ui' = ui /\ cleared' = cleared /\ selected' = selected /\ worker.at = "callback"
    BY <1>17 DEF Completion!Deliver
  <2>2. CASE list' = list /\ worker' = Completion!Resting /\ raced' = raced
    BY <1>3, <1>5, <2>1, <2>2
  <2>3. CASE worker' = [worker EXCEPT !.at = "assigned"] /\ raced' = (raced \/ ui.at \in {"move", "apply"})
    BY <1>1, <2>1, <2>3 DEF Selecting
  <2> QED
    BY <1>17, <2>2, <2>3 DEF Completion!Deliver
<1>18. ASSUME Completion!Assigned PROVE Selecting'
  BY <1>1, <1>2, <1>4, <1>18 DEF Completion!Assigned, Selecting
<1> QED
  BY <1>7, <1>8, <1>9, <1>10, <1>11, <1>12, <1>13, <1>14, <1>15, <1>16, <1>17, <1>18
    DEF Completion!Next, Completion!Handler, Completion!Pool

LEMMA CompletionAnswered ==
  ASSUME Completion!PathAssumption, CompletionInv, Completion!Next
  PROVE  Answered'
<1>1. /\ futures \in Seq(Completion!Future) /\ list \in 0..Len(futures) /\
           pending \in 0..Len(futures) /\ Completion!Size(list) \in Nat
      /\ DOMAIN futures = 1..Len(futures) /\ Len(futures) \in Nat
      /\ worker \in [at : {"idle", "computing", "callback", "assigned"}, job : 0..Len(futures)]
      /\ worker.at \in {"idle", "computing", "callback", "assigned"}
      /\ posted \in Seq(Completion!Posted) /\ last \in Completion!PathTexts \union {None}
  BY SizeNat DEF CompletionInv, Completion!TypeOK
<1>2. Answered /\ Handling /\ Jobs
  BY DEF CompletionInv
<1>3. /\ Completion!Free.at = "free" /\ \A x : Completion!At(x).at = x
      /\ Completion!Resting.at = "idle"
  BY DEF Completion!Free, Completion!At, Completion!Resting
<1>4. /\ DOMAIN futures \subseteq DOMAIN futures' /\
           \A f \in DOMAIN futures : futures'[f].text = futures[f].text
  BY FuturesKept
<1>5. ASSUME cleared' = cleared, list' = list
      PROVE  Completion!Size(list)' = Completion!Size(list) /\ (Completion!Size(list) # 0 =>
                                                                futures'[list].text = futures[list].text)
  BY <1>1, <1>4, <1>5, SizeKept DEF Completion!Size
<1> DEFINE Given == Completion!Size(list) # 0 /\ futures[list].text = last
    Reporting == \E i \in DOMAIN posted : posted[i].call = "reset"
\* The query stays, and what is to come still comes.
<1>6. ASSUME cleared' = cleared, list' = list, last' = last, failed' = failed,
             ui'.at = "callback" => (~failed => futures'[pending'].text = last /\
                                     futures'[pending'].state # "cancelled"),
             ~failed => (Coming => Coming')
      PROVE  Answered'
  <2>1. Given' = Given
    BY <1>5, <1>6
  <2> QED
    BY <1>2, <1>5, <1>6, <2>1 DEF Answered
<1>7. ASSUME futures' = futures, pending' = pending, worker' = worker, Reporting => Reporting' \/
               ui'.at = "reset", last' = last,
             ui.at \in {"submit", "callback", "reset", "stuck"} =>
               ui'.at \in {"submit", "callback", "reset", "stuck"}
      PROVE  Coming => Coming'
  BY <1>7 DEF Coming
<1>8. posted' = posted => (Reporting => Reporting')
  OBVIOUS
<1> HIDE DEF Given, Reporting
<1>9. ASSUME NEW t \in InputTexts, Completion!Type(t) \/ Completion!Recall(t) \/ Completion!Apply(t)
      PROVE Answered'
  BY <1>3, <1>6, <1>7, <1>8, <1>9 DEF Completion!Type, Completion!Recall, Completion!Apply,
                                      Completion!Typing, Completion!Dropping, Completion!queryVars,
                                      Completion!listVars
<1>10. ASSUME Completion!Submit \/ Completion!Dismiss \/ Completion!Changed PROVE Answered'
  BY <1>3, <1>6, <1>7, <1>8, <1>10 DEF Completion!Submit, Completion!Dismiss, Completion!Changed,
                                       Completion!Typing, Completion!Dropping, Completion!queryVars,
                                       Completion!listVars
<1>11. ASSUME Completion!Arrow \/ Completion!Choose PROVE Answered'
  <2>1. ui = Completion!Free /\ ui'.at \in {"move", "apply"}
    BY <1>11 DEF Completion!Arrow, Completion!Choose, Completion!At, Completion!Free
  <2> QED
    BY <1>3, <1>6, <1>7, <1>8, <1>11, <2>1 DEF Completion!Arrow, Completion!Choose,
                                               Completion!queryVars, Completion!listVars
<1>12. ASSUME Completion!Move PROVE Answered'
  BY <1>3, <1>6, <1>7, <1>8, <1>12 DEF Completion!Move, Completion!queryVars
<1>13. ASSUME Completion!RunPosted PROVE Answered'
  <2>1. posted # <<>> /\ posted' = Tail(posted)
    BY <1>13 DEF Completion!RunPosted
  <2>2. /\ Len(posted) \in Nat /\ Len(posted) > 0 /\ DOMAIN posted = 1..Len(posted)
        /\ DOMAIN posted' = 1..(Len(posted) - 1)
        /\ Head(posted) = posted[1] /\ posted[1] \in Completion!Posted
        /\ \A i \in DOMAIN posted' : i + 1 \in DOMAIN posted /\ posted'[i] = posted[i + 1]
    BY <1>1, <2>1, PostedFirst
  <2>3. ASSUME Reporting PROVE Reporting' \/ ui'.at = "reset"
    <3>1. PICK i \in DOMAIN posted : posted[i].call = "reset"
      BY <2>3 DEF Reporting
    <3>2. CASE i = 1
      BY <1>3, <1>13, <2>2, <3>1, <3>2 DEF Completion!RunPosted
    <3>3. CASE i # 1
      <4>1. i - 1 \in DOMAIN posted' /\ (i - 1) + 1 = i
        BY <2>2, <3>3
      <4>2. posted'[i - 1].call = "reset"
        BY <2>2, <3>1, <4>1
      <4> QED
        BY <4>1, <4>2 DEF Reporting
    <3> QED
      BY <3>2, <3>3
  <2>4. ui = Completion!Free /\ ui'.at \in {"free", "reset"}
    BY <1>3, <1>13 DEF Completion!RunPosted
  <2> QED
    BY <1>3, <1>6, <1>7, <1>13, <2>3, <2>4 DEF Completion!RunPosted, Completion!queryVars,
                                               Completion!listVars
<1>14. ASSUME Completion!Query PROVE Answered'
  <2>1. CASE text = last
    BY <1>3, <1>6, <1>7, <1>8, <1>14, <2>1 DEF Completion!Query, Completion!queryVars, Completion!listVars
  <2>2. CASE text # last
    BY <1>2, <1>3, <1>14, <2>2 DEF Completion!Query, Handling, Completion!PathAssumption, Coming,
                                   Answered
  <2> QED
    BY <2>1, <2>2
<1>15. ASSUME Completion!SubmitQuery PROVE Answered'
  <2>1. text \in Completion!PathTexts /\
          futures' = Append(futures, [text |-> text, state |-> "queued", watched |-> FALSE])
    BY <1>2, <1>15 DEF Completion!SubmitQuery, Handling
  <2>2. futures'[Len(futures')] = [text |-> text, state |-> "queued", watched |-> FALSE]
    BY <1>1, <2>1, Submitted
  <2>3. ui.at = "submit" /\ ui'.at = "callback" /\ pending' = Len(futures') /\ last' = last /\
          failed' = failed
        /\ cleared' = cleared /\ list' = list
    BY <1>3, <1>15 DEF Completion!SubmitQuery, Completion!listVars
  <2>4. ~failed => futures'[pending'].text = last /\ futures'[pending'].state # "cancelled"
    BY <1>2, <2>2, <2>3 DEF Handling
  <2>5. Coming'
    BY <2>3 DEF Coming
  <2> QED
    BY <1>6, <2>3, <2>4, <2>5
<1>16. ASSUME Completion!AddCallback PROVE Answered'
  <2>1. ui.at = "callback" /\ pending' = pending /\ last' = last /\ failed' = failed /\
          cleared' = cleared /\ list' = list
        /\ ui'.at # "callback"
    BY <1>3, <1>16 DEF Completion!AddCallback, Completion!listVars
  <2>2. CASE futures[pending].state = "done"
    BY <1>3, <1>6, <1>16, <2>1, <2>2 DEF Completion!AddCallback, Coming
  <2>3. CASE futures[pending].state # "done"
    <3>1. pending \in DOMAIN futures /\ pending # 0 /\ futures[pending] \in Completion!Future
      BY <1>1, <1>2, <2>1 DEF Handling
    <3>2. futures' = [futures EXCEPT ![pending].watched = TRUE]
      BY <1>16, <2>3 DEF Completion!AddCallback
    <3>3. futures'[pending].text = futures[pending].text /\ futures'[pending].state = futures[pending].state
      BY <1>1, <3>1, <3>2, WatchedSet
    <3>4. ~failed => Coming'
      BY <1>2, <2>1, <2>3, <3>1, <3>3 DEF Answered, Coming, Completion!Future
    <3> QED
      BY <1>6, <2>1, <3>4
  <2> QED
    BY <2>2, <2>3
<1>17. ASSUME Completion!Reset PROVE Answered'
  <2>1. last' = None /\ ui' = Completion!Free /\ list' = list
    BY <1>17 DEF Completion!Reset
  <2>2. Completion!Size(list)' = 0
    <3>1. CASE Completion!Size(list) > 0
      BY <1>17, <2>1, <3>1 DEF Completion!Reset, Completion!Size
    <3>2. CASE ~(Completion!Size(list) > 0)
      BY <1>1, <1>5, <1>17, <2>1, <3>2 DEF Completion!Reset
    <3> QED
      BY <3>1, <3>2
  <2> QED
    BY <1>3, <2>1, <2>2 DEF Answered
<1>18. ASSUME NEW f \in DOMAIN futures, Completion!TakeJob(f) PROVE Answered'
  <2>1. futures' = [futures EXCEPT ![f].state = "running"] /\ "running" \in States
    BY <1>18 DEF Completion!TakeJob, States
  <2>2. \A g \in DOMAIN futures :
          futures'[g].state = IF g = f THEN "running" ELSE futures[g].state
    BY <1>1, <2>1, StateSet
  <2>3. ui' = ui /\ pending' = pending /\ last' = last /\ failed' = failed /\ cleared' = cleared /\
          list' = list /\ posted' = posted
        /\ worker.at = "idle"
    BY <1>3, <1>18 DEF Completion!TakeJob, Completion!listVars
  <2>4. pending # 0 => pending \in DOMAIN futures
    BY <1>1
  <2>5. Coming => Coming'
    BY <1>4, <2>2, <2>3, <2>4 DEF Coming
  <2>6. ui'.at = "callback" => (~failed => futures'[pending'].text = last /\
                                futures'[pending'].state # "cancelled")
    BY <1>2, <1>4, <2>2, <2>3, <2>4 DEF Answered, Handling
  <2> QED
    BY <1>6, <2>3, <2>5, <2>6
<1>19. ASSUME Completion!Computed PROVE Answered'
  <2>1. PICK w \in DOMAIN futures : w = worker.job
    BY <1>1, <1>2, <1>19 DEF Completion!Computed, Jobs
  <2>2. futures' = [futures EXCEPT ![w].state = "done"] /\ "done" \in States
    BY <1>19, <2>1 DEF Completion!Computed, States
  <2>3. \A g \in DOMAIN futures :
          futures'[g].state = IF g = w THEN "done" ELSE futures[g].state
    BY <1>1, <2>2, StateSet
  <2>4. ui' = ui /\ pending' = pending /\ last' = last /\ failed' = failed /\ cleared' = cleared /\
          list' = list /\ posted' = posted
        /\ worker.at = "computing"
    BY <1>19 DEF Completion!Computed, Completion!listVars
  <2>5. pending # 0 => pending \in DOMAIN futures
    BY <1>1
  <2>6. futures[w].watched => worker'.at = "callback" /\ worker'.job = w
    BY <1>1, <1>19, <2>1 DEF Completion!Computed
  <2>7. ~futures[w].watched => ui.at \in {"callback", "stuck"}
    BY <1>2 DEF Jobs
  <2>8. \A g \in DOMAIN futures : futures[g].state = "running" => g = w
    BY <1>2, <2>1 DEF Jobs
  <2>9. ASSUME Coming PROVE Coming'
    <3>1. CASE ui.at \in {"submit", "callback", "reset", "stuck"}
      BY <2>4, <3>1 DEF Coming
    <3>2. CASE \E i \in DOMAIN posted : posted[i].call = "reset"
      BY <2>4, <3>2 DEF Coming
    <3>3. CASE pending # 0 /\ futures[pending].text = last /\
                 futures[pending].state \in {"queued", "running"}
      BY <1>4, <2>3, <2>4, <2>5, <2>6, <2>7, <3>3 DEF Coming
    <3> QED
      BY <2>4, <2>9, <3>1, <3>2, <3>3 DEF Coming
  <2>10. ui'.at = "callback" => (~failed => futures'[pending'].text = last /\
                                 futures'[pending'].state # "cancelled")
    BY <1>2, <1>4, <2>3, <2>4, <2>5 DEF Answered, Handling
  <2> QED
    BY <1>6, <2>4, <2>9, <2>10
<1>20. ASSUME Completion!ComputeFails PROVE Answered'
  BY <1>20 DEF Completion!ComputeFails, Answered
<1>21. ASSUME Completion!Deliver PROVE Answered'
  <2>1. /\ worker.at = "callback" /\ lock = "free" /\ ui' = ui /\ cleared' = cleared /\ last' = last /\
             failed' = failed
        /\ futures' = futures /\ pending' = pending
    BY <1>21 DEF Completion!Deliver, Completion!queryVars
  <2>2. ui.at \notin {"callback", "stuck"}
    BY <1>2, <2>1 DEF Handling
  <2>3. worker.job \in DOMAIN futures /\ worker.job \notin cleared /\ worker.job # 0
    BY <1>1, <1>2, <2>1 DEF Jobs
  <2>4. futures[worker.job].text \in Completion!PathTexts /\ None \notin Completion!PathTexts
    <3>1. futures[worker.job] \in Completion!Future
      BY <1>1, <2>3
    <3> QED
      BY <3>1 DEF Completion!Future, Completion!PathAssumption
  <2>5. CASE futures[worker.job].text = last /\ Found[futures[worker.job].text] > 0 /\ list' = worker.job
    BY <2>1, <2>2, <2>3, <2>4, <2>5 DEF Completion!Size, Answered
  <2>6. CASE futures[worker.job].text = last /\ list' = list
             /\ posted' = Append(posted, [call |-> "reset", list |-> 0, index |-> 0])
    <3> DEFINE m == [call |-> "reset", list |-> 0, index |-> 0]
    <3>1. m \in Completion!Posted /\ m.call = "reset" /\ posted' = Append(posted, m)
      BY <2>6 DEF Completion!Posted
    <3> HIDE DEF m
    <3>2. PICK n \in Nat : n = Len(posted) + 1
      BY <1>1
    <3>3. n \in DOMAIN posted' /\ posted'[n] = m
      BY <1>1, <3>1, <3>2, PostedLast
    <3>4. Coming'
      BY <3>1, <3>3 DEF Coming
    <3> QED
      BY <1>6, <2>1, <2>2, <2>6, <3>4
  <2>7. CASE futures[worker.job].text # last /\ list' = list /\ posted' = posted
    BY <1>6, <2>1, <2>2, <2>7 DEF Coming
  <2> QED
    BY <1>21, <2>5, <2>6, <2>7 DEF Completion!Deliver
<1>22. ASSUME Completion!Assigned PROVE Answered'
  <2>1. /\ worker.at = "assigned" /\ ui' = ui /\ cleared' = cleared /\ last' = last /\ failed' = failed
        /\ futures' = futures /\ pending' = pending /\ list' = list
    BY <1>22 DEF Completion!Assigned, Completion!queryVars
  <2> DEFINE m == [call |-> "render", list |-> list, index |-> 0]
  <2>2. m \in Completion!Posted /\ posted' = Append(posted, m)
    BY <1>1, <1>22 DEF Completion!Posted, Completion!Assigned
  <2> HIDE DEF m
  <2>3. \A i \in DOMAIN posted : i \in DOMAIN posted' /\ posted'[i] = posted[i]
    BY <1>1, <2>2, PostedLast
  <2>4. Coming => Coming'
    BY <2>1, <2>3 DEF Coming
  <2>5. ui.at # "callback"
    BY <1>2, <2>1 DEF Handling
  <2> QED
    BY <1>6, <2>1, <2>4, <2>5
<1> QED
  BY <1>9, <1>10, <1>11, <1>12, <1>13, <1>14, <1>15, <1>16, <1>17, <1>18, <1>19, <1>20, <1>21, <1>22
     DEF Completion!Next, Completion!Handler, Completion!Pool

LEMMA CompletionInit ==
  ASSUME Completion!PathAssumption, Completion!Init
  PROVE  CompletionInv
<1>1. Completion!TypeOK
  <2>1. futures \in Seq(Completion!Future) /\ Len(futures) = 0 /\ posted \in Seq(Completion!Posted)
    BY DEF Completion!Init
  <2>2. /\ text \in InputTexts /\ typed \in 0..MaxTyped /\ worker.at = "idle" /\ worker.job = 0
        /\ worker \in [at : {"idle", "computing", "callback", "assigned"}, job : 0..Len(futures)]
        /\ popup \in [list : 0..Len(futures), index : Nat]
        /\ ui.at = "free" /\ ui.count \in Nat /\ ui.list \in 0..Len(futures)
    BY <2>1 DEF Completion!Init, Completion!PathAssumption, Completion!Resting, Completion!Hidden,
                Completion!Free
  <2>3. /\ pending \in 0..Len(futures) /\ list \in 0..Len(futures) /\ cleared \subseteq 1..Len(futures)
        /\ changes \in Nat /\ selected \in Nat /\ last \in Completion!PathTexts \union {None}
    BY <2>1 DEF Completion!Init
  <2> QED
    BY <2>1, <2>2, <2>3 DEF Completion!Init, Completion!TypeOK
<1>2. Handling /\ Asked
  BY DEF Completion!Init, Handling, Asked, Completion!Free, Completion!Resting
<1>3. DOMAIN futures = {} /\ DOMAIN posted = {}
  BY DEF Completion!Init
<1>4. Jobs
  BY <1>3 DEF Completion!Init, Jobs, Completion!Resting
<1>5. Completion!Size(list) = 0
  BY DEF Completion!Init, Completion!Size
<1>6. Showing
  BY <1>3, <1>5 DEF Completion!Init, Showing, Renders
<1>7. Answered /\ Selecting
  BY <1>5 DEF Completion!Init, Answered, Selecting, Completion!Free
<1> QED
  BY <1>1, <1>2, <1>4, <1>6, <1>7 DEF CompletionInv

LEMMA CompletionStep ==
  ASSUME Completion!PathAssumption, CompletionInv, [Completion!Next]_Completion!vars
  PROVE  CompletionInv'
<1>1. CASE Completion!Next
  BY <1>1, CompletionTypes, CompletionHandling, CompletionJobs, CompletionAsked, CompletionShowing,
     CompletionAnswered, CompletionSelecting DEF CompletionInv
<1>2. CASE UNCHANGED Completion!vars
  <2>1. futures' = futures /\ list' = list /\ cleared' = cleared /\ posted' = posted /\
          popup' = popup /\ ui' = ui
        /\ worker' = worker /\ lock' = lock /\ text' = text /\ changes' = changes /\
             active' = active /\ typed' = typed
        /\ pending' = pending /\ last' = last /\ selected' = selected /\ raced' = raced /\ failed' = failed
    BY <1>2 DEF Completion!vars, Completion!uiVars, Completion!queryVars, Completion!listVars
  <2>2. Completion!TypeOK' /\ Handling' /\ Jobs' /\ Asked'
    BY <2>1 DEF CompletionInv, Completion!TypeOK, Handling, Jobs, Asked
  <2>3. Completion!Size(list)' = Completion!Size(list)
    BY <2>1 DEF Completion!Size
  <2>4. Showing' /\ Answered' /\ Selecting'
    BY <2>1, <2>3 DEF CompletionInv, Showing, Renders, Answered, Coming, Selecting
  <2> QED
    BY <2>2, <2>4 DEF CompletionInv
<1> QED
  BY <1>1, <1>2

LEMMA CompletionImplies ==
  ASSUME Completion!PathAssumption, CompletionInv
  PROVE  Completion!TypeOK /\ Completion!QuietShowsAnswer /\ Completion!SelectionInRange
<1>1. Completion!TypeOK
  BY DEF CompletionInv
<1>2. /\ futures \in Seq(Completion!Future) /\ list \in 0..Len(futures) /\
           pending \in 0..Len(futures) /\ Completion!Size(list) \in Nat
      /\ DOMAIN futures = 1..Len(futures)
      /\ last \in Completion!PathTexts \union {None}
  BY <1>1, SizeNat DEF Completion!TypeOK
<1>3. Completion!SelectionInRange
  <2> SUFFICES ASSUME ~raced, ui = Completion!Free, lock = "free", Completion!Size(list) > 0
               PROVE  selected < Completion!Size(list)
    BY DEF Completion!SelectionInRange
  <2>1. worker.at # "assigned"
    BY DEF CompletionInv, Handling
  <2> QED
    BY <1>2, <2>1 DEF CompletionInv, Selecting
<1>4. Completion!QuietShowsAnswer
  <2> SUFFICES ASSUME Completion!Settled, ~failed
               PROVE  /\ last # None => last = text
                      /\ IF last = None \/ Found[last] = 0 THEN popup = Completion!Hidden
                         ELSE popup.list # 0 /\ futures[popup.list].text = text
    BY DEF Completion!QuietShowsAnswer
  <2>1. /\ ui.at \in {"free", "move"} /\ changes = 0 /\ DOMAIN posted = {} /\ worker.at = "idle" /\
             worker.job = 0
        /\ \A f \in DOMAIN futures : futures[f].state # "queued"
    BY DEF Completion!Settled, Completion!Resting
  <2>2. last # None => last = text
    BY <2>1 DEF CompletionInv, Asked
  <2>3. IF Completion!Size(list) = 0 THEN popup = Completion!Hidden ELSE popup.list = list
    BY <2>1 DEF CompletionInv, Showing
  <2>4. ~Coming
    BY <1>2, <2>1 DEF CompletionInv, Jobs, Coming
  <2>5. CASE last = None
    BY <2>3, <2>5 DEF CompletionInv, Answered
  <2>6. CASE last # None
    BY <2>2, <2>3, <2>4, <2>6 DEF CompletionInv, Answered, Completion!Size
  <2> QED
    BY <2>2, <2>5, <2>6
<1> QED
  BY <1>1, <1>3, <1>4

-----------------------------------------------------------------------------
(* The index of files: IndexInv says who writes to it, and, while the order *)
(* of the changes is known, what is still to be added or taken out.        *)

\* What the index is, or the walk makes of it.
View == IF walk = Index!NoWalk THEN index ELSE walk.found

Current == batch \union lateChanges

Deletions(cs) == {c \in cs : c.kind = "deleted"}
Additions(cs) == {c \in cs : c.kind # "deleted"}
Covered(p, cs) == \E c \in cs : p \in Index!Below(c.path)

\* A deletion is to come that takes p out of the index.
Leaves(p) == \E c \in Deletions(events \union Current) : c.path \in View /\ p \in Index!Below(c.path)

\* The directories of what exists do exist.
TreeClosed == \A p \in disk : Parent[p] \in disk \union {Root}

\* Who walks, watches and applies changes, and when.
OneWrites ==
  /\ walk # Index!NoWalk => walk.by # "none" /\ walk.todo # {} /\ Current = {} /\
       walk.todo \subseteq walk.found \union {Root}
  /\ walk.by = "none" => walk = Index!NoWalk
  /\ batch = {} \/ lateChanges = {}
  /\ watcher # "on" => events = {}
  /\ caller = "watching" => built
  /\ ~built => watcher = "off" /\ Current = {} /\ walk.by # "watcher"
  /\ walk.by = "indexer" => ~built

\* What exists is in the index, is still to be walked, or was reported.
NothingLost ==
  \A p \in disk \ View :
    \/ \E t \in walk.todo : t = Root \/ p \in Index!Below(t)
    \/ Covered(p, Additions(events \union Current))

\* What exists again after a deletion was reported to be added since, and a directory
\* that went after something in it was reported as well.
AddedLater ==
  /\ \A c \in Deletions(events) : \A d \in Paths :
       c.path \in Index!Below(d) /\ d \notin disk => Covered(d, Deletions(events))
  /\ \A c \in Deletions(events) : c.path \notin disk
  /\ \A c \in Deletions(Current) : c.path \in disk => Covered(c.path, Additions(events))

\* What is being added has its directories, or they are being added too, unless
\* they went in the meantime.
AddedWhole ==
  /\ \A a \in Additions(events) : a.path \in disk
  /\ \A a \in Additions(Current) : \A d \in Paths : a.path \in Index!Below(d) =>
       /\ d \in View \/ Covered(d, Additions(Current)) \/ Covered(d, Deletions(events))
       /\ d \notin disk => Covered(d, Deletions(events))

\* What does not exist any more is going to be taken out, and so is what is in the
\* index without its directories, unless they are to be added.
NothingStale ==
  /\ \A p \in View \ disk : Leaves(p)
  /\ \A p \in View : \A d \in Paths :
       p \in Index!Below(d) /\ d \notin View => Leaves(p) \/ Covered(d, Additions(Current))

\* No change went unseen, and the order of those that are under way is known.
InOrder == (built \/ walk # Index!NoWalk) /\ ~missed /\ ~unordered /\ ~Index!Clash(events)

Settling == NothingLost /\ AddedLater /\ AddedWhole /\ NothingStale

IndexInv ==
  /\ Index!TypeOK /\ TreeClosed /\ OneWrites
  /\ (~unordered => ~Index!Clash(Current)) /\ (InOrder => Settling)

-----------------------------------------------------------------------------
\* What is below a path: the path itself, and what lies in a directory below it.
LEMMA BelowSelf ==
  ASSUME NEW p \in Paths
  PROVE  p \in Index!Below(p) /\ Index!Below(p) \subseteq Paths
BY DEF Index!Below

LEMMA BelowClosed ==
  ASSUME NEW p, NEW r \in Paths, Parent[r] \in Index!Below(p)
  PROVE  r \in Index!Below(p)
BY DEF Index!Below

LEMMA BelowLeast ==
  ASSUME NEW p, NEW S \in SUBSET Paths, p \in S, \A r \in Paths : Parent[r] \in S => r \in S
  PROVE  Index!Below(p) \subseteq S
BY DEF Index!Below

LEMMA BelowTrans ==
  ASSUME NEW p, NEW q \in Index!Below(p)
  PROVE  Index!Below(q) \subseteq Index!Below(p)
<1>1. Index!Below(p) \in SUBSET Paths
  BY DEF Index!Below
<1>2. \A r \in Paths : Parent[r] \in Index!Below(p) => r \in Index!Below(p)
  BY BelowClosed
<1> QED
  BY <1>1, <1>2, BelowLeast

\* It is reached from above only through directories that are below as well.
LEMMA BelowParent ==
  ASSUME NEW p \in Paths, NEW q \in Index!Below(p), q # p
  PROVE  Parent[q] \in Index!Below(p)
<1> SUFFICES ASSUME Parent[q] \notin Index!Below(p) PROVE FALSE
  OBVIOUS
<1> DEFINE S == Index!Below(p) \ {q}
<1>1. S \in SUBSET Paths /\ p \in S
  BY BelowSelf
<1>2. \A r \in Paths : Parent[r] \in S => r \in S
  BY BelowClosed
<1> HIDE DEF S
<1>3. Index!Below(p) \subseteq S
  BY <1>1, <1>2, BelowLeast
<1> QED
  BY <1>3 DEF S

LEMMA BelowChild ==
  ASSUME NEW d \in Paths, NEW p \in Index!Below(d), p # d
  PROVE  \E q \in Paths : Parent[q] = d /\ p \in Index!Below(q)
<1> DEFINE S == {r \in Paths : r = d \/ \E q \in Paths : Parent[q] = d /\ r \in Index!Below(q)}
<1>1. S \in SUBSET Paths /\ d \in S
  OBVIOUS
<1>2. ASSUME NEW r \in Paths, Parent[r] \in S PROVE r \in S
  BY <1>2, BelowSelf, BelowClosed
<1> HIDE DEF S
<1>3. Index!Below(d) \subseteq S
  BY <1>1, <1>2, BelowLeast
<1> QED
  BY <1>3 DEF S

\* Of two directories of a path, one is below the other.
LEMMA BelowLine ==
  ASSUME NEW d \in Paths, NEW e \in Paths, NEW p \in Index!Below(d), p \in Index!Below(e),
           e \notin Index!Below(d)
  PROVE  d \in Index!Below(e)
<1> DEFINE S == {q \in Index!Below(d) : q \in Index!Below(e) => d \in Index!Below(e)}
<1>1. S \in SUBSET Paths /\ d \in S
  BY BelowSelf
<1>2. ASSUME NEW r \in Paths, Parent[r] \in S PROVE r \in S
  BY <1>2, BelowClosed, BelowParent
<1> HIDE DEF S
<1>3. Index!Below(d) \subseteq S
  BY <1>1, <1>2, BelowLeast
<1> QED
  BY <1>3 DEF S

\* Every path is below one in the root.
LEMMA TopLevel ==
  ASSUME Index!IndexAssumption, NEW p \in Paths
  PROVE  \E q \in Paths : Parent[q] = Root /\ p \in Index!Below(q)
<1> DEFINE S == {r \in Paths : \E q \in Paths : Parent[q] = Root /\ r \in Index!Below(q)}
<1>1. S \in SUBSET Paths
  OBVIOUS
<1>2. ASSUME NEW r \in Paths, Parent[r] \in S \union {Root} PROVE r \in S
  BY <1>2, BelowSelf, BelowClosed
<1> HIDE DEF S
<1>3. S = Paths
  BY <1>1, <1>2 DEF Index!IndexAssumption
<1> QED
  BY <1>3 DEF S

\* What has something below it is a directory.
LEMMA HoldsIsDir ==
  ASSUME Index!IndexAssumption, NEW q \in Paths, NEW p \in Index!Below(q), p # q
  PROVE  q \in Dirs
<1>1. PICK r \in Paths : Parent[r] = q
  BY BelowChild
<1> QED
  BY <1>1 DEF Index!IndexAssumption

\* What is above something that exists, exists.
LEMMA ExistsAbove ==
  ASSUME Index!IndexAssumption, TreeClosed, NEW d \in Paths, NEW p \in Index!Below(d), p \in disk
  PROVE  d \in disk
<1> SUFFICES ASSUME d \notin disk PROVE FALSE
  OBVIOUS
<1> DEFINE S == Paths \ disk
<1>1. S \in SUBSET Paths /\ d \in S
  OBVIOUS
<1>2. \A r \in Paths : Parent[r] \in S => r \in S
  BY DEF TreeClosed, Index!IndexAssumption
<1> HIDE DEF S
<1>3. Index!Below(d) \subseteq S
  BY <1>1, <1>2, BelowLeast
<1> QED
  BY <1>3 DEF S

-----------------------------------------------------------------------------
\* More changes cover more.
LEMMA CoveredMore ==
  ASSUME NEW cs, NEW ds, cs \subseteq ds, NEW p
  PROVE  Covered(p, Additions(cs)) => Covered(p, Additions(ds))
BY DEF Covered, Additions

LEMMA LeavesMore ==
  ASSUME events \subseteq events', Current' = Current, View' = View, NEW p
  PROVE  Leaves(p) => Leaves(p)'
BY DEF Leaves, Deletions

LEMMA Clashes ==
  ASSUME NEW cs, NEW c \in cs, NEW e \in cs, c.kind = "deleted", e.kind # "deleted",
           e.path \in Index!Below(c.path)
  PROVE  Index!Clash(cs)
BY DEF Index!Clash

\* A change on disk that counts was seen by the library: it is an event more.
LEMMA ChangeSeen ==
  ASSUME IndexInv, NEW after, NEW seen, Index!Changing(after, seen), unordered => unordered', InOrder'
  PROVE  /\ InOrder /\ watcher = "on" /\ events' = events \union seen
         /\ View' = View /\ Current' = Current /\ walk' = walk
<1>1. UNCHANGED <<index, built, walk, batch, lateChanges>> /\ missed' = (missed \/ watcher # "on" \/
        ~(built \/ walk # Index!NoWalk))
      /\ events' = IF watcher = "on" THEN events \union seen ELSE events
  BY DEF Index!Changing, Index!storeVars, InOrder
<1>2. Index!Clash(events) => Index!Clash(events \union seen)
  BY DEF Index!Clash
<1> QED
  BY <1>1, <1>2 DEF InOrder, View, Current

\* Paths appear, below one that is reported to be added.
LEMMA PathsAppear ==
  ASSUME Index!IndexAssumption, IndexInv, NEW d \in Paths, NEW ps \in SUBSET Index!Below(d), ps # {} =>
           d \notin disk, d \in disk \union ps,
         NEW k \in {"added", "modified"}, Index!Changing(disk \union ps, {[kind |-> k, path |-> d]}),
         UNCHANGED unordered, InOrder'
  PROVE  Settling'
<1> DEFINE a == [kind |-> k, path |-> d]
<1>1. /\ InOrder /\ watcher = "on" /\ events' = events \union {a}
      /\ View' = View /\ Current' = Current /\ walk' = walk
  BY ChangeSeen
<1>2. disk' = disk \union ps
  BY DEF Index!Changing
<1>3. NothingLost /\ AddedLater /\ AddedWhole /\ NothingStale
  BY <1>1 DEF IndexInv, Settling
<1>4. events \subseteq events' /\ a \in Additions(events') /\ a.path = d /\ a.kind # "deleted"
  BY <1>1 DEF Additions
<1> HIDE DEF a
<1>5. ~Index!Clash(events')
  BY DEF InOrder
<1>6. NothingLost'
  <2> SUFFICES ASSUME NEW p \in disk' \ View'
               PROVE  \/ \E t \in walk'.todo : t = Root \/ p \in Index!Below(t)
                      \/ Covered(p, Additions(events' \union Current'))
    BY DEF NothingLost
  <2>1. CASE p \in ps
    BY <1>4, <2>1 DEF Covered, Additions
  <2>2. CASE p \in disk
    BY <1>1, <1>3, <1>4, <2>2 DEF NothingLost, Covered, Additions
  <2> QED
    BY <1>2, <2>1, <2>2
<1>7. AddedLater'
  <2>1. Deletions(events') = Deletions(events)
    BY <1>1, <1>4 DEF Deletions
  <2>3. ASSUME NEW c \in Deletions(events'), c.path \in ps PROVE FALSE
    <3>1. PICK e \in Deletions(events) : d \in Index!Below(e.path)
      BY <1>3, <2>1, <2>3 DEF AddedLater, Covered
    <3>2. e \in events' /\ a \in events' /\ a.kind # "deleted" /\ e.kind = "deleted" /\
            a.path \in Index!Below(e.path)
      BY <1>4, <2>1, <3>1 DEF Deletions, Additions
    <3> QED
      BY <1>5, <3>2, Clashes
  <2>2. ASSUME NEW c \in Deletions(Current'), c.path \in disk' PROVE Covered(c.path, Additions(events'))
    BY <1>1, <1>2, <1>3, <1>4, <2>2, CoveredMore DEF Covered, AddedLater
  <2> QED
    BY <1>2, <1>3, <2>1, <2>2, <2>3 DEF AddedLater
<1>8. NothingStale'
  <2>1. ASSUME NEW p \in View' \ disk' PROVE Leaves(p)'
    BY <1>1, <1>2, <1>3, <1>4, <2>1, LeavesMore DEF NothingStale
  <2>2. ASSUME NEW p \in View', NEW e \in Paths, p \in Index!Below(e), e \notin View'
        PROVE  Leaves(p)' \/ Covered(e, Additions(Current'))
    BY <1>1, <1>3, <1>4, <2>2, LeavesMore DEF NothingStale
  <2> QED
    BY <2>1, <2>2 DEF NothingStale
<1>9. AddedWhole'
  <2>1. ASSUME NEW e \in Additions(events') PROVE e.path \in disk'
    BY <1>1, <1>2, <1>3, <1>4, <2>1 DEF AddedWhole, Additions
  <2>2. Deletions(events') = Deletions(events)
    BY <1>1, <1>4 DEF Deletions
  <2> QED
    BY <1>1, <1>2, <1>3, <2>1, <2>2 DEF AddedWhole
<1> QED
  BY <1>6, <1>7, <1>8, <1>9 DEF Settling

\* Paths disappear, and what the index has of them is going to be taken out.
LEMMA PathsGo ==
  ASSUME Index!IndexAssumption, IndexInv, NEW d \in Paths, NEW seen \in SUBSET [kind : {"deleted"},
           path : Index!Below(d) \intersect disk],
         [kind |-> "deleted", path |-> d] \in seen, Index!Changing(disk \ Index!Below(d), seen),
           unordered => unordered', InOrder',
         \A p \in View \intersect disk : p \in Index!Below(d) => Leaves(p)'
  PROVE  Settling'
<1>1. /\ InOrder /\ events' = events \union seen /\ View' = View /\ Current' = Current /\ walk' = walk
  BY ChangeSeen
<1>2. disk' = disk \ Index!Below(d)
  BY DEF Index!Changing
<1>3. NothingLost /\ AddedLater /\ AddedWhole /\ NothingStale
  BY <1>1 DEF IndexInv, Settling
<1>4. events \subseteq events' /\ \A c \in seen : c.kind = "deleted" /\ c.path \in Index!Below(d) /\
        c.path \in disk
  BY <1>1
<1>5. \A p : Covered(p, Additions(events \union Current)) => Covered(p, Additions(events' \union Current'))
  BY <1>1, <1>4 DEF Covered, Additions
<1>6. NothingLost'
  BY <1>1, <1>2, <1>3, <1>5 DEF NothingLost
<1>7. AddedLater'
  <2>1. ASSUME NEW c \in Deletions(events') PROVE c.path \notin disk'
    BY <1>1, <1>2, <1>3, <1>4, <2>1 DEF AddedLater, Deletions
  <2>2. ASSUME NEW c \in Deletions(Current'), c.path \in disk' PROVE Covered(c.path, Additions(events'))
    BY <1>1, <1>2, <1>3, <1>4, <2>2, CoveredMore DEF AddedLater
  <2>3. ASSUME NEW c \in Deletions(events'), NEW e \in Paths, c.path \in Index!Below(e), e \notin disk'
        PROVE  Covered(e, Deletions(events'))
    <3>1. CASE e \in Index!Below(d)
      BY <1>1, <3>1 DEF Covered, Deletions
    <3>2. CASE e \notin disk
      <4>1. CASE c \in seen
        BY <1>4, <2>3, <3>2, <4>1, ExistsAbove DEF IndexInv
      <4>2. CASE c \in events
        BY <1>1, <1>3, <2>3, <3>2, <4>2 DEF AddedLater, Covered, Deletions
      <4> QED
        BY <1>1, <2>3, <4>1, <4>2 DEF Deletions
    <3> QED
      BY <1>2, <2>3, <3>1, <3>2
  <2> QED
    BY <2>1, <2>2, <2>3 DEF AddedLater
<1>8. NothingStale'
  BY <1>1, <1>2, <1>3, <1>4, LeavesMore DEF NothingStale
<1>9. AddedWhole'
  <2> DEFINE g == [kind |-> "deleted", path |-> d]
  <2>1. g \in Deletions(events') /\ g.path = d /\ g.kind = "deleted"
    BY <1>1 DEF Deletions
  <2> HIDE DEF g
  <2>2. ASSUME NEW a \in Additions(events') PROVE a.path \in disk'
    <3>1. a \in Additions(events) /\ a \in events' /\ a.kind # "deleted"
      BY <1>1, <1>4, <2>2 DEF Additions
    <3>2. a.path \in disk
      BY <1>3, <3>1 DEF AddedWhole
    <3>3. g \in events' /\ ~Index!Clash(events')
      BY <2>1 DEF Deletions, InOrder
    <3>4. a.path \notin Index!Below(g.path)
      BY <2>1, <3>1, <3>3, Clashes
    <3> QED
      BY <1>2, <2>1, <3>2, <3>4
  <2>3. ASSUME NEW a \in Additions(Current'), NEW e \in Paths, a.path \in Index!Below(e)
        PROVE  /\ e \in View' \/ Covered(e, Additions(Current')) \/ Covered(e, Deletions(events'))
               /\ e \notin disk' => Covered(e, Deletions(events'))
    BY <1>1, <1>2, <1>3, <1>4, <2>1, <2>3 DEF Covered, Deletions, AddedWhole
  <2> QED
    BY <2>2, <2>3 DEF AddedWhole
<1> QED
  BY <1>6, <1>7, <1>8, <1>9 DEF Settling

\* What is not touched stays as it is.
LEMMA NothingTouched ==
  ASSUME IndexInv, InOrder, View' = View, walk'.todo = walk.todo, disk' = disk, events' = events,
           Current' = Current
  PROVE  Settling'
<1>1. NothingLost /\ AddedLater /\ AddedWhole /\ NothingStale
  BY DEF IndexInv, Settling
<1>2. NothingLost' /\ AddedLater' /\ AddedWhole'
  BY <1>1 DEF NothingLost, AddedLater, AddedWhole
<1>3. \A p : Leaves(p) => Leaves(p)'
  BY DEF Leaves
<1>4. NothingStale'
  BY <1>1, <1>3 DEF NothingStale
<1> QED
  BY <1>2, <1>4 DEF Settling

\* The events become the batch.
LEMMA BatchTaken ==
  ASSUME Index!IndexAssumption, IndexInv, InOrder, View' = View, walk = Index!NoWalk, walk' = walk,
           disk' = disk,
         Current = {}, Current' = events, events' = {}
  PROVE  Settling'
<1>1. NothingLost /\ AddedLater /\ AddedWhole /\ NothingStale /\ TreeClosed
  BY DEF IndexInv, Settling
<1>2. events' \union Current' = events \union Current /\ walk.todo = {} /\ events \union Current = events
  BY DEF Index!NoWalk
<1>3. NothingLost' /\ AddedLater'
  BY <1>1, <1>2 DEF NothingLost, AddedLater, Deletions
<1>4. \A p : Leaves(p) => Leaves(p)'
  BY <1>2 DEF Leaves
<1>5. NothingStale'
  BY <1>1, <1>2, <1>4 DEF NothingStale, Covered, Additions
<1>6. AddedWhole'
  BY <1>1, <1>2, ExistsAbove DEF AddedWhole, Additions, NothingLost
<1> QED
  BY <1>3, <1>5, <1>6 DEF Settling

\* A change is applied, of a batch or lateChanges.
LEMMA ChangeApplied ==
  ASSUME Index!IndexAssumption, IndexInv, InOrder, walk = Index!NoWalk, ~Index!Clash(Current),
           NEW c \in Current, index' = Index!Applied(c),
         Current' = Current \ {c}, events' = events, disk' = disk, walk' = walk
  PROVE  Settling'
<1>1. View = index /\ View' = index' /\ walk.todo = {} /\ walk'.todo = {}
  BY DEF View, Index!NoWalk
<1>2. NothingLost /\ AddedLater /\ AddedWhole /\ NothingStale /\ TreeClosed
  BY DEF IndexInv, Settling
<1>3. /\ c.path \in Paths /\ index \subseteq Paths /\ disk \subseteq Paths
      /\ \A e \in events \union Current : e.path \in Paths
  BY DEF IndexInv, Index!TypeOK, Index!Change, Current
<1>4. Deletions(Current') \subseteq Deletions(Current)
  BY DEF Deletions
<1>5. AddedLater'
  BY <1>2, <1>4 DEF AddedLater
<1>6. CASE c.kind = "deleted" /\ c.path \notin index
  <2>1. View' = View
    BY <1>1, <1>6 DEF Index!Applied
  <2>2. /\ Additions(events' \union Current') = Additions(events \union Current)
        /\ Additions(Current') = Additions(Current)
    BY <1>6 DEF Additions
  <2>3. NothingLost'
    BY <1>1, <1>2, <2>1, <2>2 DEF NothingLost
  <2>4. \A p : Leaves(p) => Leaves(p)'
    BY <1>1, <1>6, <2>1 DEF Leaves, Deletions
  <2>5. NothingStale'
    BY <1>2, <2>1, <2>2, <2>4 DEF NothingStale
  <2>6. AddedWhole'
    BY <1>2, <2>1, <2>2 DEF AddedWhole
  <2> QED
    BY <1>5, <2>3, <2>5, <2>6 DEF Settling
<1>7. CASE c.kind = "deleted" /\ c.path \in index
  <2>1. View' = View \ Index!Below(c.path)
    BY <1>1, <1>7 DEF Index!Applied
  <2>2. /\ Additions(events' \union Current') = Additions(events \union Current)
        /\ Additions(Current') = Additions(Current)
    BY <1>7 DEF Additions
  <2>3. NothingLost'
    <3> SUFFICES ASSUME NEW p \in disk \ View' PROVE Covered(p, Additions(events' \union Current'))
      BY DEF NothingLost
    <3>1. CASE p \notin View
      BY <1>1, <1>2, <2>2, <3>1 DEF NothingLost
    <3>2. CASE p \in Index!Below(c.path)
      <4>1. c.path \in disk
        BY <1>2, <1>3, <3>2, ExistsAbove
      <4>2. PICK a \in Additions(events) : c.path \in Index!Below(a.path)
        BY <1>2, <1>7, <4>1 DEF AddedLater, Deletions, Covered
      <4>3. p \in Index!Below(a.path)
        BY <3>2, <4>2, BelowTrans
      <4> QED
        BY <4>3 DEF Covered, Additions
    <3> QED
      BY <2>1, <3>1, <3>2
  <2>4. ASSUME NEW p \in View', Leaves(p) PROVE Leaves(p)'
    BY <1>3, <2>1, <2>4, BelowTrans, BelowSelf DEF Leaves, Deletions
  <2>5. NothingStale'
    <3>1. ASSUME NEW p \in View' \ disk' PROVE Leaves(p)'
      BY <1>2, <2>1, <2>4, <3>1 DEF NothingStale
    <3>2. ASSUME NEW p \in View', NEW d \in Paths, p \in Index!Below(d), d \notin View'
          PROVE  Leaves(p)' \/ Covered(d, Additions(Current'))
      BY <1>2, <2>1, <2>2, <2>4, <3>2, BelowTrans DEF NothingStale
    <3> QED
      BY <3>1, <3>2 DEF NothingStale
  <2>6. AddedWhole'
    <3>1. ASSUME NEW a \in Additions(Current), NEW d \in Paths, a.path \in Index!Below(d), d \in View
          PROVE d \in View'
      BY <1>7, <2>1, <3>1, Clashes, BelowTrans DEF Additions
    <3> QED
      BY <1>2, <2>2, <3>1 DEF AddedWhole
  <2> QED
    BY <1>5, <2>3, <2>5, <2>6 DEF Settling
<1>8. CASE c.kind # "deleted"
  <2>1. View' = IF c.path \in disk THEN View \union (Index!Below(c.path) \intersect disk) ELSE View
    BY <1>1, <1>8 DEF Index!Applied
  <2>2. View \subseteq View' /\ Deletions(events' \union Current') = Deletions(events \union Current)
    BY <1>8, <2>1 DEF Deletions
  <2>3. \A p : Leaves(p) => Leaves(p)'
    BY <2>2 DEF Leaves
  <2>4. ASSUME NEW p \in disk \ View', Covered(p, Additions(events \union Current))
        PROVE  Covered(p, Additions(events' \union Current'))
    <3>1. PICK a \in Additions(events \union Current) : p \in Index!Below(a.path)
      BY <2>4 DEF Covered
    <3>2. a # c
      BY <1>2, <1>3, <2>1, <3>1, ExistsAbove
    <3> QED
      BY <3>1, <3>2 DEF Covered, Additions
  <2>9. ASSUME NEW p \in disk \ View', Covered(p, Additions(Current)) PROVE Covered(p, Additions(Current'))
    <3>1. PICK a \in Additions(Current) : p \in Index!Below(a.path)
      BY <2>9 DEF Covered
    <3>2. a # c
      BY <1>2, <1>3, <2>1, <2>9, <3>1, ExistsAbove
    <3> QED
      BY <3>1, <3>2 DEF Covered, Additions
  <2>10. ASSUME NEW p \in disk PROVE ~Covered(p, Deletions(events))
    BY <1>2, <1>3, <2>10, ExistsAbove DEF Covered, AddedLater, Deletions
  <2>5. NothingLost'
    BY <1>1, <1>2, <2>2, <2>4 DEF NothingLost
  <2>6. ASSUME NEW p \in View' \ disk' PROVE Leaves(p)'
    BY <1>2, <2>1, <2>3, <2>6 DEF NothingStale
  <2>7. ASSUME NEW p \in View', NEW d \in Paths, p \in Index!Below(d), d \notin View'
        PROVE  Leaves(p)' \/ Covered(d, Additions(Current'))
    <3>1. CASE p \notin disk
      BY <2>6, <2>7, <3>1
    <3>2. CASE p \in disk
      <4>1. d \in disk \ View'
        BY <1>2, <2>7, <3>2, ExistsAbove
      <4>2. CASE p \in View
        BY <1>2, <2>2, <2>3, <2>7, <2>9, <4>1, <4>2 DEF NothingStale
      <4>3. CASE p \in Index!Below(c.path)
        <5>1. c \in Additions(Current)
          BY <1>8 DEF Additions
        <5>2. CASE c.path \in Index!Below(d)
          <6>1. Covered(d, Additions(Current))
            BY <1>2, <2>2, <2>10, <4>1, <5>1, <5>2 DEF AddedWhole
          <6> QED
            BY <2>9, <4>1, <6>1
        <5>3. CASE c.path \notin Index!Below(d)
          BY <1>2, <1>3, <2>1, <2>7, <4>1, <4>3, <5>3, BelowLine, ExistsAbove
        <5> QED
          BY <5>2, <5>3
      <4> QED
        BY <2>1, <2>7, <4>2, <4>3
    <3> QED
      BY <3>1, <3>2
  <2>8. NothingStale'
    BY <2>6, <2>7 DEF NothingStale
  <2>11. AddedWhole'
    <3>1. ASSUME NEW a \in Additions(Current'), NEW d \in Paths, a.path \in Index!Below(d)
          PROVE  /\ d \in View' \/ Covered(d, Additions(Current')) \/ Covered(d, Deletions(events'))
                 /\ d \notin disk' => Covered(d, Deletions(events'))
      BY <1>2, <2>2, <2>9, <3>1 DEF Additions, AddedWhole
    <3> QED
      BY <1>2, <3>1 DEF AddedWhole
  <2> QED
    BY <1>5, <2>5, <2>8, <2>11 DEF Settling
<1> QED
  BY <1>6, <1>7, <1>8

\* A directory is read: what lies in it is found, and what lies below is still to be.
LEMMA DirScanned ==
  ASSUME Index!IndexAssumption, IndexInv, InOrder, NEW d \in walk.todo, walk # Index!NoWalk,
         events' = events, Current' = Current, disk' = disk, View' = View \union Index!Children(d),
         walk'.todo = (walk.todo \ {d}) \union (Index!Children(d) \intersect Dirs)
  PROVE  Settling'
<1>1. NothingLost /\ AddedLater /\ AddedWhole /\ NothingStale /\ TreeClosed
  BY DEF IndexInv, Settling
<1>2. disk \subseteq Paths /\ View \subseteq Paths /\ d \in Dirs \union {Root} /\ Dirs \subseteq Paths
      /\ View = walk.found /\ d \in View \union {Root} /\ walk.todo \subseteq Dirs \union {Root}
  BY DEF IndexInv, Index!TypeOK, OneWrites, View, Index!IndexAssumption
<1>3. AddedLater'
  BY <1>1 DEF AddedLater
<1>4. \A p : Leaves(p) => Leaves(p)'
  BY DEF Leaves
<1>5. NothingLost'
  <2> SUFFICES ASSUME NEW p \in disk \ View', ~Covered(p, Additions(events \union Current))
               PROVE  \E t \in walk'.todo : t = Root \/ p \in Index!Below(t)
    BY DEF NothingLost
  <2>1. PICK t \in walk.todo : t = Root \/ p \in Index!Below(t)
    BY <1>1 DEF NothingLost
  <2>2. CASE t # d
    BY <2>1, <2>2
  <2>3. CASE t = d
    <3>1. \E q \in Paths : Parent[q] = d /\ p \in Index!Below(q)
      <4>1. CASE d = Root
        BY <1>2, <4>1, TopLevel
      <4>2. CASE d # Root
        BY <1>2, <2>1, <2>3, <4>2, BelowChild
      <4> QED
        BY <4>1, <4>2
    <3>2. PICK q \in Paths : Parent[q] = d /\ p \in Index!Below(q)
      BY <3>1
    <3>3. q \in disk
      BY <1>1, <3>2, ExistsAbove
    <3>4. q \in Index!Children(d) /\ p # q
      BY <3>2, <3>3 DEF Index!Children
    <3>5. q \in Dirs
      BY <3>2, <3>4, HoldsIsDir
    <3> QED
      BY <3>2, <3>4, <3>5
  <2> QED
    BY <2>2, <2>3
<1>6. NothingStale'
  <2>1. ASSUME NEW p \in View' \ disk' PROVE Leaves(p)'
    BY <1>1, <1>4, <2>1 DEF NothingStale, Index!Children
  <2>2. ASSUME NEW p \in View', NEW e \in Paths, p \in Index!Below(e), e \notin View'
        PROVE  Leaves(p)' \/ Covered(e, Additions(Current'))
    <3>1. CASE p \in View
      BY <1>1, <1>4, <2>2, <3>1 DEF NothingStale
    <3>2. CASE p \in Index!Children(d)
      <4>1. Parent[p] = d /\ p # e /\ p \in Paths
        BY <1>2, <2>2, <3>2 DEF Index!Children
      <4>2. d \in Index!Below(e)
        BY <2>2, <4>1, BelowParent
      <4>3. d \in View
        BY <1>2, <4>2 DEF Index!IndexAssumption, Index!Below
      <4>4. Leaves(d) \/ Covered(e, Additions(Current))
        BY <1>1, <2>2, <4>2, <4>3 DEF NothingStale
      <4>5. Leaves(d) => Leaves(p)
        BY <1>2, <4>1, <4>3, BelowSelf, BelowClosed, BelowTrans DEF Leaves
      <4> QED
        BY <1>4, <4>4, <4>5
    <3> QED
      BY <2>2, <3>1, <3>2
  <2> QED
    BY <2>1, <2>2 DEF NothingStale
<1>7. AddedWhole'
  BY <1>1 DEF AddedWhole
<1> QED
  BY <1>3, <1>5, <1>6, <1>7 DEF Settling

LEMMA IndexInit ==
  ASSUME Index!IndexAssumption, Index!Init
  PROVE  IndexInv
<1>1. Index!TypeOK
  <2>1. 0 \in 0..MaxChanges /\ 0 \in 0..MaxToggles
    BY DEF Index!IndexAssumption
  <2>2. used \in [changes : 0..MaxChanges, toggles : 0..MaxToggles]
    BY <2>1 DEF Index!Init
  <2>3. walk \in [by : {"none", "indexer", "watcher"}, todo : SUBSET (Dirs \union {Root}),
                  found : SUBSET Paths]
    BY DEF Index!Init, Index!NoWalk
  <2> QED
    BY <2>2, <2>3 DEF Index!Init, Index!TypeOK
<1>2. TreeClosed /\ OneWrites
  BY DEF Index!Init, TreeClosed, OneWrites, Current, Index!NoWalk
<1>3. ~InOrder /\ ~Index!Clash(Current)
  BY DEF Index!Init, InOrder, Index!Clash, Current
<1> QED
  BY <1>1, <1>2, <1>3 DEF IndexInv

LEMMA IndexImplies ==
  ASSUME IndexInv
  PROVE  Index!TypeOK /\ Index!Converges
<1>1. ASSUME built, watcher = "on", walk = Index!NoWalk, events = {}, batch = {}, lateChanges = {},
               ~missed, ~unordered
      PROVE  index = disk
  <2>1. InOrder /\ View = index /\ walk.todo = {} /\ Current = {}
    BY <1>1 DEF InOrder, Index!Clash, View, Index!NoWalk, Current
  <2>2. NothingLost /\ NothingStale
    BY <2>1 DEF IndexInv, Settling
  <2>3. Additions(events \union Current) = {} /\ Deletions(events \union Current) = {}
    BY <1>1, <2>1 DEF Additions, Deletions
  <2>4. disk \subseteq index
    BY <2>1, <2>2, <2>3 DEF NothingLost, Covered
  <2>5. index \subseteq disk
    BY <2>1, <2>2, <2>3 DEF NothingStale, Leaves
  <2> QED
    BY <2>4, <2>5
<1> QED
  BY <1>1 DEF Index!Converges, IndexInv

\* Who writes, and what the types are, by action.
LEMMA IndexTypes ==
  ASSUME Index!IndexAssumption, IndexInv, Index!Next
  PROVE  Index!TypeOK'
<1> USE DEF IndexInv
<1>1. \A p : Index!Below(p) \subseteq Paths
  BY DEF Index!Below
<1>2. used.changes \in Nat /\ used.toggles \in Nat /\
        used \in [changes : 0..MaxChanges, toggles : 0..MaxToggles]
      /\ MaxChanges \in Nat /\ MaxToggles \in Nat
  BY DEF Index!TypeOK, Index!IndexAssumption
<1>3. ASSUME NEW after \in SUBSET Paths, NEW seen \in SUBSET Index!Change, Index!Changing(after, seen),
               unordered' \in BOOLEAN
      PROVE  Index!TypeOK'
  <2>1. used' \in [changes : 0..MaxChanges, toggles : 0..MaxToggles]
    BY <1>2, <1>3 DEF Index!Changing
  <2>2. disk' = after /\ events' \subseteq Index!Change /\ missed' \in BOOLEAN
    BY <1>3 DEF Index!Changing, Index!TypeOK
  <2> QED
    BY <1>3, <2>1, <2>2 DEF Index!Changing, Index!TypeOK, Index!storeVars
<1>4. ASSUME NEW p \in Paths, Index!Create(p) \/ Index!MoveIn(p) \/ Index!Modify(p) \/ Index!Delete(p) \/ Index!MoveOut(p)
      PROVE Index!TypeOK'
  <2>1. /\ [kind |-> "added", path |-> p] \in Index!Change /\
             [kind |-> "modified", path |-> p] \in Index!Change
        /\ [kind |-> "deleted", path |-> p] \in Index!Change
        /\ [kind : {"deleted"}, path : Index!Below(p) \intersect disk] \subseteq Index!Change
    BY <1>1 DEF Index!Change, Index!Kinds
  <2>2. /\ disk \union {p} \subseteq Paths /\ disk \union Index!Below(p) \subseteq Paths /\
             disk \ Index!Below(p) \subseteq Paths
        /\ disk \subseteq Paths /\ unordered \in BOOLEAN
    BY <1>1 DEF Index!TypeOK
  <2>3. CASE Index!Create(p)
    BY <1>3, <2>1, <2>2, <2>3 DEF Index!Create
  <2>4. CASE Index!MoveIn(p)
    BY <1>3, <2>1, <2>2, <2>4 DEF Index!MoveIn
  <2>5. CASE Index!Modify(p)
    BY <1>3, <2>1, <2>2, <2>5 DEF Index!Modify
  <2>6. CASE Index!Delete(p)
    BY <1>3, <2>1, <2>2, <2>6 DEF Index!Delete
  <2>7. CASE Index!MoveOut(p)
    BY <1>3, <2>1, <2>2, <2>7 DEF Index!MoveOut
  <2> QED
    BY <1>4, <2>3, <2>4, <2>5, <2>6, <2>7
<1>5. ASSUME used.toggles < MaxToggles, used' = [used EXCEPT !.toggles = @ + 1]
      PROVE  used' \in [changes : 0..MaxChanges, toggles : 0..MaxToggles]
  BY <1>2, <1>5
<1>6. ASSUME Index!Toggle PROVE Index!TypeOK'
  BY <1>5, <1>6 DEF Index!Toggle, Index!TypeOK, Index!storeVars, Index!watchVars
<1>7. ASSUME Index!GetIndex PROVE Index!TypeOK'
  BY <1>7 DEF Index!GetIndex, Index!TypeOK, Index!watchVars
<1>8. ASSUME NEW d \in Dirs \union {Root}, Index!ScanDir(d) PROVE Index!TypeOK'
  <2> DEFINE next == [walk EXCEPT !.todo = (@ \ {d}) \union (Index!Children(d) \intersect Dirs),
                                  !.found = @ \union Index!Children(d)]
  <2>1. /\ \/ walk' = next /\ UNCHANGED <<index, built, caller>>
           \/ walk' = Index!NoWalk /\ index' = next.found /\ built' = TRUE /\
                caller' \in {"watching", caller}
        /\ UNCHANGED <<disk, Index!watchVars, wanted, missed, unordered, used>>
    BY <1>8 DEF Index!ScanDir
  <2>2. next \in [by : {"none", "indexer", "watcher"}, todo : SUBSET (Dirs \union {Root}),
                  found : SUBSET Paths]
    BY DEF Index!TypeOK, Index!Children
  <2>3. next.found \in SUBSET Paths
    BY <2>2
  <2>4. Index!NoWalk \in [by : {"none", "indexer", "watcher"}, todo : SUBSET (Dirs \union {Root}),
                          found : SUBSET Paths]
    BY DEF Index!NoWalk
  <2> HIDE DEF next
  <2> QED
    BY <2>1, <2>2, <2>3, <2>4 DEF Index!TypeOK, Index!watchVars
<1>9. ASSUME Index!StartOrStop PROVE Index!TypeOK'
  BY <1>9 DEF Index!StartOrStop, Index!Stopped, Index!TypeOK, Index!storeVars, Index!watchVars
<1>10. ASSUME Index!Watch PROVE Index!TypeOK'
  BY <1>10 DEF Index!Watch, Index!TypeOK, Index!storeVars
<1>11. ASSUME Index!WatchFails PROVE Index!TypeOK'
  BY <1>5, <1>11 DEF Index!WatchFails, Index!TypeOK, Index!storeVars
<1>12. ASSUME Index!Report PROVE Index!TypeOK'
  <2>1. walk' \in [by : {"none", "indexer", "watcher"}, todo : SUBSET (Dirs \union {Root}),
                   found : SUBSET Paths]
    BY <1>12 DEF Index!Report, Index!TypeOK
  <2>2. events' = {} /\ batch' \subseteq Index!Change /\ missed' \in BOOLEAN /\ unordered' \in BOOLEAN
        /\ UNCHANGED <<disk, index, built, watcher, lateChanges, caller, wanted, used>>
    BY <1>12 DEF Index!Report, Index!TypeOK, Index!Clash
  <2> QED
    BY <2>1, <2>2 DEF Index!TypeOK
<1>13. ASSUME NEW c \in Index!Change, index' = Index!Applied(c) PROVE index' \subseteq Paths
  BY <1>1, <1>13 DEF Index!Applied, Index!TypeOK
<1>14. ASSUME Index!ApplyChange \/ Index!ApplyLate PROVE Index!TypeOK'
  BY <1>13, <1>14 DEF Index!ApplyChange, Index!ApplyLate, Current, Index!TypeOK
<1> QED
  BY <1>4, <1>6, <1>7, <1>8, <1>9, <1>10, <1>11, <1>12, <1>14 DEF Index!Next

LEMMA IndexControl ==
  ASSUME Index!IndexAssumption, IndexInv, Index!Next
  PROVE  TreeClosed' /\ OneWrites'
<1> USE DEF IndexInv
<1>1. ASSUME NEW p \in Paths, Index!Create(p) \/ Index!MoveIn(p) \/ Index!Modify(p) \/
               Index!Delete(p) \/ Index!MoveOut(p)
      PROVE  TreeClosed' /\ OneWrites'
  <2>1. TreeClosed'
    <3>1. CASE Index!Create(p)
      BY <3>1 DEF Index!Create, Index!Changing, TreeClosed
    <3>2. CASE Index!MoveIn(p)
      BY <3>2, BelowParent DEF Index!MoveIn, Index!Changing, TreeClosed
    <3>3. CASE Index!Delete(p) \/ Index!MoveOut(p)
      BY <3>3, BelowClosed DEF Index!Delete, Index!MoveOut, Index!Changing, Index!TypeOK, TreeClosed
    <3>4. CASE Index!Modify(p)
      BY <3>4 DEF Index!Modify, Index!Changing, TreeClosed
    <3> QED
      BY <1>1, <3>1, <3>2, <3>3, <3>4
  <2>2. /\ UNCHANGED <<Index!storeVars, watcher, batch, lateChanges, caller, wanted>>
        /\ watcher # "on" => events' = events
    BY <1>1 DEF Index!Create, Index!MoveIn, Index!Modify, Index!Delete, Index!MoveOut, Index!Changing
  <2> QED
    BY <2>1, <2>2 DEF OneWrites, Current, Index!storeVars
<1>2. ASSUME Index!Toggle PROVE TreeClosed' /\ OneWrites'
  BY <1>2 DEF Index!Toggle, Index!storeVars, Index!watchVars, TreeClosed, OneWrites, Current
<1>3. ASSUME Index!GetIndex PROVE TreeClosed' /\ OneWrites'
  BY <1>3 DEF Index!GetIndex, Index!Unlocked, TreeClosed, OneWrites, Current, Index!watchVars,
              Index!NoWalk
<1>4. ASSUME NEW d \in Dirs \union {Root}, Index!ScanDir(d) PROVE TreeClosed' /\ OneWrites'
  <2> DEFINE next == [walk EXCEPT !.todo = (@ \ {d}) \union (Index!Children(d) \intersect Dirs),
                                  !.found = @ \union Index!Children(d)]
  <2>1. /\ d \in walk.todo
        /\ \/ next.todo # {} /\ walk' = next /\ UNCHANGED <<index, built, caller>>
           \/ /\ next.todo = {} /\ walk' = Index!NoWalk /\ built' = TRUE
              /\ caller' = IF walk.by = "indexer" THEN "watching" ELSE caller
        /\ UNCHANGED <<disk, Index!watchVars, wanted, missed, unordered, used>>
    BY <1>4 DEF Index!ScanDir
  <2>2. walk # Index!NoWalk /\ Current = {} /\ walk.by # "none"
    BY <2>1 DEF Index!NoWalk, OneWrites
  <2>3. next.by = walk.by /\ next.todo \subseteq next.found \union {Root}
    BY <2>2 DEF Index!TypeOK, OneWrites
  <2>4. TreeClosed' /\ Current' = Current
    BY <2>1 DEF TreeClosed, Current, Index!watchVars
  <2>5. CASE next.todo # {}
    <3> HIDE DEF next
    <3>1. walk' # Index!NoWalk
      BY <2>1, <2>5 DEF Index!NoWalk
    <3> QED
      BY <2>1, <2>2, <2>3, <2>4, <2>5, <3>1 DEF OneWrites, Index!watchVars
  <2>6. CASE next.todo = {}
    BY <2>1, <2>2, <2>4, <2>6 DEF OneWrites, Index!watchVars, Index!NoWalk
  <2> QED
    BY <2>5, <2>6
<1>5. ASSUME Index!StartOrStop PROVE TreeClosed' /\ OneWrites'
  BY <1>5 DEF Index!StartOrStop, Index!Stopped, OneWrites, Current, Index!watchVars, TreeClosed,
              Index!storeVars
<1>6. ASSUME Index!Watch PROVE TreeClosed' /\ OneWrites'
  BY <1>6 DEF Index!Watch, Index!storeVars, TreeClosed, OneWrites, Current
<1>7. ASSUME Index!WatchFails PROVE TreeClosed' /\ OneWrites'
  BY <1>7 DEF Index!WatchFails, Index!storeVars, TreeClosed, OneWrites, Current
<1>8. ASSUME Index!Report PROVE TreeClosed' /\ OneWrites'
  BY <1>8 DEF Index!Report, Index!Unlocked, TreeClosed, OneWrites, Current, Index!NoWalk
<1>9. ASSUME Index!ApplyChange \/ Index!ApplyLate PROVE TreeClosed' /\ OneWrites'
  BY <1>9 DEF Index!ApplyChange, Index!ApplyLate, Current, OneWrites, TreeClosed
<1> QED
  BY <1>1, <1>2, <1>3, <1>4, <1>5, <1>6, <1>7, <1>8, <1>9 DEF Index!Next

\* While the order is known, what is under way makes up for what the index lacks.
LEMMA IndexOrder ==
  ASSUME Index!IndexAssumption, IndexInv, Index!Next, InOrder'
  PROVE  Settling'
<1>1. Index!TypeOK /\ TreeClosed /\ OneWrites
  BY DEF IndexInv
<1>2. ASSUME NEW p \in Paths, Index!Create(p) PROVE Settling'
  BY <1>2, BelowSelf, PathsAppear DEF Index!Create
<1>3. ASSUME NEW p \in Paths, Index!MoveIn(p) PROVE Settling'
  BY <1>3, BelowSelf, PathsAppear DEF Index!MoveIn
<1>4. ASSUME NEW p \in Paths, Index!Modify(p) PROVE Settling'
  <2>1. Index!Changing(disk \union {}, {[kind |-> "modified", path |-> p]}) /\ UNCHANGED unordered
    BY <1>4 DEF Index!Modify
  <2>2. {} \in SUBSET Index!Below(p) /\ p \in disk \union {}
    BY <1>4 DEF Index!Modify
  <2>3. "modified" \in {"added", "modified"}
    OBVIOUS
  <2> QED
    BY <2>1, <2>2, <2>3, PathsAppear
<1>5. ASSUME NEW p \in Paths, Index!Delete(p) PROVE Settling'
  <2> DEFINE seen == [kind : {"deleted"}, path : Index!Below(p) \intersect disk]
  <2>1. p \in disk /\ Index!Changing(disk \ Index!Below(p), seen) /\ UNCHANGED unordered
    BY <1>5 DEF Index!Delete
  <2>2. seen \in SUBSET seen /\ [kind |-> "deleted", path |-> p] \in seen
    BY <2>1, BelowSelf
  <2>3. InOrder /\ events' = events \union seen /\ View' = View
    BY <2>1, ChangeSeen
  <2>4. ASSUME NEW q \in View \intersect disk, q \in Index!Below(p) PROVE Leaves(q)'
    <3> DEFINE c == [kind |-> "deleted", path |-> q]
    <3>1. c \in Deletions(events') /\ c.path = q
      BY <2>3, <2>4 DEF Deletions
    <3>2. q \in Index!Below(q)
      BY <1>1, BelowSelf DEF Index!TypeOK
    <3> HIDE DEF c
    <3> QED
      BY <2>3, <3>1, <3>2 DEF Leaves, Deletions
  <2> HIDE DEF seen
  <2>5. unordered => unordered'
    BY <2>1
  <2> QED
    BY <2>1, <2>2, <2>4, <2>5, PathsGo DEF seen
<1>6. ASSUME NEW p \in Paths, Index!MoveOut(p) PROVE Settling'
  <2> DEFINE c == [kind |-> "deleted", path |-> p]
  <2>1. /\ p \in disk /\ Index!Changing(disk \ Index!Below(p), {c})
        /\ unordered' = (unordered \/ \E e \in Current : e.kind # "deleted" /\ p \in Index!Below(e.path))
    BY <1>6 DEF Index!MoveOut, Current
  <2>2. {c} \in SUBSET [kind : {"deleted"}, path : Index!Below(p) \intersect disk] /\ c \in {c}
    BY <2>1, BelowSelf
  <2>3. unordered => unordered'
    BY <2>1
  <2>4. InOrder /\ events' = events \union {c} /\ View' = View /\ Current' = Current
    BY <2>1, <2>3, ChangeSeen
  <2>5. ~Covered(p, Additions(Current))
    BY <2>1 DEF InOrder, Covered, Additions
  <2>6. c.path = p /\ c.kind = "deleted" /\ p \in Paths
    BY DEF InOrder
  <2> HIDE DEF c
  <2>7. NothingStale
    BY <2>4 DEF IndexInv, Settling
  <2>8. ASSUME NEW q \in View \intersect disk, q \in Index!Below(p) PROVE Leaves(q)'
    <3>1. CASE p \in View
      BY <2>4, <2>6, <2>8, <3>1 DEF Leaves, Deletions
    <3>2. CASE p \notin View
      <4>1. Leaves(q)
        BY <2>5, <2>7, <2>8, <3>2 DEF NothingStale
      <4> QED
        BY <2>4, <4>1, LeavesMore
    <3> QED
      BY <3>1, <3>2
  <2> QED
    BY <2>1, <2>2, <2>3, <2>8, PathsGo DEF c
<1>7. ASSUME UNCHANGED <<disk, index, built, walk, events, missed, unordered>>, Current' = Current
      PROVE Settling'
  BY <1>7, NothingTouched DEF InOrder, View
<1>8. ASSUME Index!Toggle \/ Index!Watch PROVE Settling'
  BY <1>7, <1>8 DEF Index!Toggle, Index!Watch, Index!storeVars, Index!watchVars, Current
<1>9. ASSUME Index!GetIndex PROVE Settling'
  <2>1. CASE built
    BY <1>7, <1>9, <2>1 DEF Index!GetIndex, Index!watchVars, Current
  <2>2. CASE ~built
    <3>1. /\ walk' = [by |-> "indexer", todo |-> {Root}, found |-> {}] /\ events = {} /\ Current = {}
          /\ UNCHANGED <<disk, index, built, Index!watchVars, missed, unordered>>
      BY <1>1, <1>9, <2>2 DEF Index!GetIndex, OneWrites
    <3>2. walk' # Index!NoWalk /\ View' = {} /\ Root \in walk'.todo
      BY <3>1 DEF View, Index!NoWalk
    <3>3. events' = {} /\ Current' = {}
      BY <3>1 DEF Index!watchVars, Current
    <3> QED
      BY <3>2, <3>3 DEF Settling, NothingLost, AddedLater, AddedWhole, NothingStale, Deletions, Additions
  <2> QED
    BY <2>1, <2>2
<1>10. ASSUME NEW d \in Dirs \union {Root}, Index!ScanDir(d) PROVE Settling'
  <2> DEFINE next == [walk EXCEPT !.todo = (@ \ {d}) \union (Index!Children(d) \intersect Dirs),
                                  !.found = @ \union Index!Children(d)]
  <2>1. /\ d \in walk.todo
        /\ \/ next.todo # {} /\ walk' = next /\ UNCHANGED <<index, built, caller>>
           \/ next.todo = {} /\ walk' = Index!NoWalk /\ index' = next.found /\ built' = TRUE
        /\ UNCHANGED <<disk, Index!watchVars, wanted, missed, unordered, used>>
    BY <1>10 DEF Index!ScanDir
  <2>2. walk # Index!NoWalk
    BY <2>1 DEF Index!NoWalk
  <2>3. /\ next.todo = (walk.todo \ {d}) \union (Index!Children(d) \intersect Dirs)
        /\ next.found = walk.found \union Index!Children(d)
    BY <1>1 DEF Index!TypeOK
  <2> HIDE DEF next
  <2>4. walk'.todo = next.todo /\ View' = next.found /\ View = walk.found
    BY <2>1, <2>2 DEF View, Index!NoWalk
  <2>5. InOrder /\ events' = events /\ Current' = Current /\ disk' = disk
    BY <2>1, <2>2 DEF InOrder, Index!watchVars, Current
  <2> QED
    BY <2>1, <2>2, <2>3, <2>4, <2>5, DirScanned
<1>11. ASSUME Index!StartOrStop PROVE Settling'
  <2>1. UNCHANGED <<disk, index, built, walk, unordered>> /\ Current' = Current
    BY <1>1, <1>11 DEF Index!StartOrStop, Index!Stopped, OneWrites, Current, Index!storeVars,
                       Index!watchVars
  <2>2. events' = events /\ missed' = missed
    BY <1>11 DEF Index!StartOrStop, Index!Stopped, InOrder, IndexInv, Index!TypeOK, Index!watchVars
  <2> QED
    BY <1>7, <2>1, <2>2
<1>12. ASSUME Index!WatchFails PROVE Settling'
  BY <1>1, <1>7, <1>12 DEF Index!WatchFails, InOrder, Index!storeVars, Index!TypeOK, Current
<1>13. ASSUME Index!Report PROVE Settling'
  <2>1. /\ watcher = "on" /\ walk = Index!NoWalk /\ Current = {} /\ events' = {}
        /\ UNCHANGED <<disk, index, built, watcher, lateChanges, caller, wanted, used>>
        /\ \/ walk' = [by |-> "watcher", todo |-> {Root}, found |-> {}] /\ Current' = {}
           \/ Current' = events /\ UNCHANGED <<walk, missed>> /\ unordered' = (unordered \/
                Index!Clash(events))
    BY <1>13 DEF Index!Report, Index!Unlocked, Current
  <2>2. CASE walk' = [by |-> "watcher", todo |-> {Root}, found |-> {}] /\ Current' = {}
    <3>1. walk' # Index!NoWalk /\ View' = {} /\ Root \in walk'.todo
      BY <2>2 DEF View, Index!NoWalk
    <3> QED
      BY <2>1, <2>2, <3>1
         DEF Settling, NothingLost, AddedLater, AddedWhole, NothingStale, Deletions, Additions
  <2>3. CASE Current' = events /\ UNCHANGED <<walk, missed>> /\ unordered' = (unordered \/
               Index!Clash(events))
    BY <2>1, <2>3, BatchTaken DEF InOrder, View
  <2> QED
    BY <2>1, <2>2, <2>3
<1>14. ASSUME Index!ApplyChange \/ Index!ApplyLate PROVE Settling'
  BY <1>1, <1>14, ChangeApplied DEF Index!ApplyChange, Index!ApplyLate, Current, OneWrites, InOrder,
                                    IndexInv
<1> QED
  BY <1>2, <1>3, <1>4, <1>5, <1>6, <1>8, <1>9, <1>10, <1>11, <1>12, <1>13, <1>14 DEF Index!Next

\* A batch is in order when it is taken, and what is left of it stays so.
LEMMA BatchInOrder ==
  ASSUME Index!IndexAssumption, IndexInv, Index!Next, ~unordered'
  PROVE  ~Index!Clash(Current')
<1>1. OneWrites /\ (~unordered => ~Index!Clash(Current))
  BY DEF IndexInv
<1>2. ASSUME Current' \subseteq Current, unordered => unordered' PROVE ~Index!Clash(Current')
  BY <1>1, <1>2 DEF Index!Clash
<1>3. ASSUME NEW p \in Paths, Index!Create(p) \/ Index!MoveIn(p) \/ Index!Modify(p) \/
               Index!Delete(p) \/ Index!MoveOut(p)
      PROVE  ~Index!Clash(Current')
  BY <1>2, <1>3 DEF Index!Create, Index!MoveIn, Index!Modify, Index!Delete, Index!MoveOut,
                    Index!Changing, Current
<1>4. ASSUME Index!Report PROVE ~Index!Clash(Current')
  BY <1>4 DEF Index!Clash, Index!Report, Index!Unlocked, Current
<1>5. ASSUME Index!Toggle \/ Index!GetIndex \/ Index!Watch \/ Index!WatchFails \/
               \E d \in Dirs \union {Root} : Index!ScanDir(d)
      PROVE  ~Index!Clash(Current')
  BY <1>2, <1>5 DEF Index!Toggle, Index!GetIndex, Index!Watch, Index!WatchFails, Index!ScanDir,
                    Index!watchVars, Current
<1>6. ASSUME Index!StartOrStop \/ Index!ApplyChange \/ Index!ApplyLate PROVE ~Index!Clash(Current')
  BY <1>2, <1>6 DEF Index!StartOrStop, Index!Stopped, Index!ApplyChange, Index!ApplyLate,
                    Index!watchVars, Current
<1> QED
  BY <1>3, <1>4, <1>5, <1>6 DEF Index!Next

LEMMA IndexStep ==
  ASSUME Index!IndexAssumption, IndexInv, [Index!Next]_Index!vars
  PROVE  IndexInv'
<1>1. CASE Index!Next
  BY <1>1, IndexTypes, IndexControl, IndexOrder, BatchInOrder DEF IndexInv
<1>2. CASE UNCHANGED Index!vars
  BY <1>2 DEF Index!vars, Index!storeVars, Index!watchVars, IndexInv, Index!TypeOK, TreeClosed,
              OneWrites, InOrder, Settling, View,
              Current, NothingLost, AddedLater, AddedWhole, NothingStale, Leaves, Index!Children
<1> QED
  BY <1>1, <1>2

-----------------------------------------------------------------------------
(* Dictation: VoiceInv says who has the microphone, and whose words come.  *)

TaskStates == [step : Voice!Alive \cup {"over"}, from : 0..MaxRecordings, taken : 0..MaxChunks]
AudioStates == [chunks : 0..MaxChunks, ended : BOOLEAN]

VoiceTypes ==
  /\ enabled \in BOOLEAN /\ late \in BOOLEAN /\ crashed \in BOOLEAN
  /\ state \in {"idle", "recording", "flushing"}
  /\ mic \in 0..Voice!Begun /\ current \in 0..Voice!Begun /\ Voice!Begun <= MaxRecordings
  /\ task \in Seq(TaskStates)
  /\ audio \in Seq(AudioStates) /\ Len(audio) = Voice!Begun
  /\ stopping \in [of : 0..Voice!Begun, timedOut : BOOLEAN]

\* The microphone is on for the last recording only, while it runs.
MicOpen == mic # 0 => mic = Voice!Begun /\ state = "recording" /\ ~audio[mic].ended

\* What is stopped is the last recording, and a recording can be stopped.
LastStops ==
  /\ stopping.of # 0 => stopping.of = Voice!Begun /\ state # "recording"
  /\ state = "recording" => current = Voice!Begun /\ current # 0

\* What is heard, or will be, belongs to the last recording.
LastHeard ==
  \A n \in 1..Voice!Begun :
    /\ task[n].step \in {"new", "listening"} => n = Voice!Begun /\ state # "idle" /\ current = n
    /\ task[n].step = "listening" /\ task[n].from = 0 => mic = 0

LateKnown == stopping.timedOut /\ current = 0 => late

VoiceInv ==
  VoiceTypes /\ MicOpen /\ LastStops /\ LastHeard /\ LateKnown /\ Voice!OwnAudio /\ Voice!Survives


\* A transcription goes on: one record of the sequence changes.
LEMMA TaskGoesOn ==
  ASSUME task \in Seq(TaskStates), NEW n \in 1..Voice!Begun, NEW r \in TaskStates,
           task' = [task EXCEPT ![n] = r]
  PROVE  /\ task' \in Seq(TaskStates) /\ Voice!Begun' = Voice!Begun /\
              1..Voice!Begun' = 1..Voice!Begun /\ task'[n] = r
         /\ \A x \in 1..Voice!Begun : x # n => task'[x] = task[x]
BY DEF Voice!Begun

\* One that is cancelled is heard no more.
LEMMA TaskCancelled ==
  ASSUME task \in Seq(TaskStates), NEW n \in 0..Voice!Begun, task' = Voice!CancelTask(n)
  PROVE  /\ task' \in Seq(TaskStates) /\ Voice!Begun' = Voice!Begun
         /\ \A x \in 1..Voice!Begun : /\ task'[x].from = task[x].from
                                      /\ task'[x].step \in {"new", "listening"} =>
                                           x # n /\ task'[x].step = task[x].step
<1>1. CASE n # 0 /\ task[n].step # "over"
  <2>1. n \in 1..Voice!Begun /\ task[n] \in TaskStates
    BY <1>1 DEF Voice!Begun
  <2> DEFINE r == [task[n] EXCEPT !.step = "cancelled"]
  <2>2. r \in TaskStates /\ r.from = task[n].from /\ r.step = "cancelled"
    BY <2>1 DEF TaskStates, Voice!Alive
  <2>3. task' = [task EXCEPT ![n] = r]
    BY <1>1 DEF Voice!CancelTask
  <2> HIDE DEF r
  <2>4. /\ task' \in Seq(TaskStates) /\ Voice!Begun' = Voice!Begun /\ task'[n] = r
        /\ \A x \in 1..Voice!Begun : x # n => task'[x] = task[x]
    BY <2>1, <2>2, <2>3, TaskGoesOn
  <2> QED
    BY <2>2, <2>4
<1>2. CASE ~(n # 0 /\ task[n].step # "over")
  BY <1>2 DEF Voice!CancelTask, Voice!Begun
<1> QED
  BY <1>1, <1>2

\* The microphone is switched off, if it was on: what it heard has an end.
LEMMA Silenced ==
  ASSUME VoiceTypes, Voice!MicOff(audio)
  PROVE  /\ mic' = 0 /\ audio' \in Seq(AudioStates) /\ Len(audio') = Len(audio)
<1>1. CASE mic = 0
  BY <1>1 DEF Voice!MicOff, VoiceTypes
<1>2. CASE mic # 0
  <2>1. audio \in Seq(AudioStates) /\ Len(audio) = Voice!Begun /\ mic \in 0..Voice!Begun /\
          Voice!Begun \in Nat
    BY DEF VoiceTypes, Voice!Begun
  <2>2. mic \in 1..Len(audio) /\ audio[mic] \in AudioStates
    BY <1>2, <2>1
  <2> DEFINE r == [audio[mic] EXCEPT !.ended = TRUE]
  <2>3. r \in AudioStates
    BY <2>2 DEF AudioStates
  <2>4. audio' = [audio EXCEPT ![mic] = r]
    BY <1>2 DEF Voice!MicOff
  <2> HIDE DEF r
  <2>5. audio' \in Seq(AudioStates) /\ Len(audio') = Len(audio)
    BY <2>1, <2>2, <2>3, <2>4
  <2>6. mic' = 0
    BY DEF Voice!MicOff
  <2> QED
    BY <2>5, <2>6
<1> QED
  BY <1>1, <1>2

LEMMA VoiceInit ==
  ASSUME Voice!VoiceAssumption, Voice!Init
  PROVE  VoiceInv
<1>1. task = <<>> /\ audio = <<>> /\ Len(task) = 0 /\ Len(audio) = 0
  BY DEF Voice!Init
<1>2. VoiceTypes
  <2>1. 0 <= MaxRecordings /\ 0 \in 0..Voice!Begun /\ task \in Seq(TaskStates) /\
          audio \in Seq(AudioStates) /\ Voice!Begun = 0
    BY <1>1 DEF Voice!VoiceAssumption, Voice!Begun
  <2> QED
    BY <1>1, <2>1 DEF VoiceTypes, Voice!Init
<1> QED
  BY <1>1, <1>2 DEF Voice!Init, VoiceInv, MicOpen, LastStops, LastHeard, LateKnown, Voice!OwnAudio,
                    Voice!Survives, Voice!Begun

\* Recordings, by action.
LEMMA VoiceNextStep ==
  ASSUME Voice!VoiceAssumption, VoiceInv, Voice!VoiceNext
  PROVE  VoiceInv'
<1> USE DEF VoiceInv
<1>1. /\ task \in Seq(TaskStates) /\ audio \in Seq(AudioStates) /\ Len(audio) = Voice!Begun /\
           Len(task) = Voice!Begun
      /\ Voice!Begun \in Nat /\ mic \in 0..Voice!Begun /\ current \in 0..Voice!Begun /\
           Voice!Begun <= MaxRecordings
      /\ stopping.of \in 0..Voice!Begun /\ stopping.timedOut \in BOOLEAN
  BY DEF VoiceTypes, Voice!Begun
<1>2. \A n \in 1..Voice!Begun : task[n] \in TaskStates /\ audio[n] \in AudioStates
  BY <1>1
<1>3. ASSUME NEW n \in 1..Voice!Begun, NEW s \in {"listening", "over"}
      PROVE [task[n] EXCEPT !.step = s] \in TaskStates
  BY <1>2 DEF TaskStates, Voice!Alive
<1>4. ASSUME Voice!Sound PROVE VoiceInv'
  <2>1. /\ mic \in 1..Voice!Begun /\
             UNCHANGED <<enabled, state, mic, task, current, stopping, late, crashed>>
        /\ audio' = [audio EXCEPT ![mic].chunks = @ + 1] /\ audio[mic].chunks < MaxChunks
    BY <1>1, <1>4 DEF Voice!Sound
  <2> DEFINE r == [audio[mic] EXCEPT !.chunks = @ + 1]
  <2>2. r \in AudioStates /\ r.ended = audio[mic].ended
    BY <1>2, <2>1 DEF AudioStates, Voice!VoiceAssumption
  <2>3. audio' = [audio EXCEPT ![mic] = r]
    BY <2>1
  <2> HIDE DEF r
  <2>4. audio' \in Seq(AudioStates) /\ Len(audio') = Len(audio) /\
          audio'[mic].ended = audio[mic].ended /\ Voice!Begun' = Voice!Begun
    BY <1>1, <2>1, <2>2, <2>3 DEF Voice!Begun
  <2>5. VoiceTypes'
    BY <2>1, <2>4 DEF VoiceTypes
  <2> QED
    BY <2>1, <2>4, <2>5 DEF MicOpen, LastStops, LastHeard, LateKnown, Voice!OwnAudio, Voice!Survives
<1>5. ASSUME Voice!Expires PROVE VoiceInv'
  <2>1. UNCHANGED <<enabled, state, task, current, stopping, late, crashed>> /\ Voice!MicOff(audio) /\
          Voice!Begun' = Voice!Begun
    BY <1>5 DEF Voice!Expires, Voice!Begun
  <2>2. mic' = 0 /\ audio' \in Seq(AudioStates) /\ Len(audio') = Len(audio)
    BY <2>1, Silenced
  <2>3. VoiceTypes'
    BY <1>1, <2>1, <2>2 DEF VoiceTypes
  <2> QED
    BY <2>1, <2>2, <2>3 DEF MicOpen, LastStops, LastHeard, LateKnown, Voice!OwnAudio, Voice!Survives
<1>6. ASSUME Voice!Start PROVE VoiceInv'
  <2>1. /\ stopping.of = 0 /\ state = "idle" /\ mic = 0 /\ Voice!Begun < MaxRecordings /\
             state' = "recording"
        /\ mic' = Voice!Begun + 1 /\ current' = Voice!Begun + 1 /\
             UNCHANGED <<enabled, stopping, late, crashed>>
        /\ audio' = Append(audio, [chunks |-> 0, ended |-> FALSE])
        /\ task' = Append(task, [step |-> "new", from |-> 0, taken |-> 0])
    BY <1>6 DEF Voice!Start, Voice!Free
  <2> DEFINE a == [chunks |-> 0, ended |-> FALSE]
             t == [step |-> "new", from |-> 0, taken |-> 0]
  <2>2. a \in AudioStates /\ ~a.ended
    BY DEF AudioStates, Voice!VoiceAssumption
  <2>3. t \in TaskStates /\ t.step = "new" /\ t.from = 0
    BY DEF TaskStates, Voice!Alive, Voice!VoiceAssumption
  <2> HIDE DEF a, t
  <2>4. audio' \in Seq(AudioStates) /\ Len(audio') = Voice!Begun + 1 /\ audio'[Voice!Begun + 1] = a
    BY <1>1, <2>1, <2>2 DEF a
  <2>5. task' \in Seq(TaskStates) /\ Len(task') = Voice!Begun + 1 /\ task'[Voice!Begun + 1] = t
        /\ \A x \in 1..Voice!Begun : task'[x] = task[x]
    BY <1>1, <2>1, <2>3 DEF t
  <2>6. Voice!Begun' = Voice!Begun + 1 /\ Voice!Begun + 1 <= MaxRecordings /\
          1..Voice!Begun + 1 = 1..Voice!Begun \cup {Voice!Begun + 1}
    BY <1>1, <2>1, <2>5 DEF Voice!Begun, Voice!VoiceAssumption
  <2>7. VoiceTypes'
    BY <1>1, <2>1, <2>4, <2>5, <2>6 DEF VoiceTypes
  <2>8. \A n \in 1..Voice!Begun : task[n].step \notin {"new", "listening"}
    BY <2>1 DEF LastHeard
  <2>9. LastHeard' /\ Voice!OwnAudio'
    BY <1>1, <2>1, <2>3, <2>5, <2>6, <2>8 DEF LastHeard, Voice!OwnAudio
  <2>10. MicOpen' /\ LastStops' /\ LateKnown'
    BY <1>1, <2>1, <2>2, <2>4, <2>6 DEF MicOpen, LastStops, LateKnown
  <2> QED
    BY <2>1, <2>7, <2>9, <2>10 DEF Voice!Survives
<1>7. ASSUME NEW n \in 1..Voice!Begun, Voice!Connect(n) PROVE VoiceInv'
  <2>1. /\ task[n].step = "new" /\ task' = [task EXCEPT ![n].step = "listening", ![n].from = mic]
        /\ UNCHANGED <<enabled, state, mic, audio, current, stopping, late, crashed>>
    BY <1>7 DEF Voice!Connect
  <2> DEFINE r == [task[n] EXCEPT !.step = "listening", !.from = mic]
  <2>2. r \in TaskStates /\ r.step = "listening" /\ r.from = mic
    <3>1. mic \in 0..MaxRecordings
      BY <1>1 DEF Voice!VoiceAssumption
    <3> QED
      BY <1>2, <3>1 DEF TaskStates, Voice!Alive
  <2>3. task' = [task EXCEPT ![n] = r]
    BY <1>1, <2>1
  <2> HIDE DEF r
  <2>4. /\ task' \in Seq(TaskStates) /\ Voice!Begun' = Voice!Begun /\
             1..Voice!Begun' = 1..Voice!Begun /\ task'[n] = r
        /\ \A x \in 1..Voice!Begun : x # n => task'[x] = task[x]
    BY <1>1, <2>2, <2>3, TaskGoesOn
  <2>5. n = Voice!Begun /\ state # "idle" /\ current = n
    BY <2>1 DEF LastHeard
  <2>6. mic \in {0, n}
    BY <2>5 DEF MicOpen
  <2>7. VoiceTypes'
    BY <1>1, <2>1, <2>4 DEF VoiceTypes
  <2>8. LastHeard' /\ Voice!OwnAudio'
    BY <2>1, <2>2, <2>4, <2>5, <2>6 DEF LastHeard, Voice!OwnAudio
  <2> QED
    BY <2>1, <2>4, <2>7, <2>8 DEF MicOpen, LastStops, LateKnown, Voice!Survives
<1>8. ASSUME NEW n \in 1..Voice!Begun, Voice!Hear(n) PROVE VoiceInv'
  <2>1. /\ task[n].from # 0 /\ task[n].taken < audio[task[n].from].chunks
        /\ task' = [task EXCEPT ![n].taken = @ + 1]
        /\ UNCHANGED <<enabled, state, mic, audio, current, stopping, late, crashed>>
    BY <1>8 DEF Voice!Hear
  <2> DEFINE r == [task[n] EXCEPT !.taken = @ + 1]
  <2>2. r \in TaskStates /\ r.step = task[n].step /\ r.from = task[n].from
    BY <1>2, <2>1 DEF Voice!OwnAudio, TaskStates, AudioStates, Voice!VoiceAssumption
  <2>3. task' = [task EXCEPT ![n] = r]
    BY <2>1
  <2> HIDE DEF r
  <2>4. /\ task' \in Seq(TaskStates) /\ Voice!Begun' = Voice!Begun /\
             1..Voice!Begun' = 1..Voice!Begun /\ task'[n] = r
        /\ \A x \in 1..Voice!Begun : x # n => task'[x] = task[x]
    BY <1>1, <2>2, <2>3, TaskGoesOn
  <2>7. VoiceTypes'
    BY <1>1, <2>1, <2>4 DEF VoiceTypes
  <2>8. LastHeard' /\ Voice!OwnAudio'
    BY <2>1, <2>2, <2>4 DEF LastHeard, Voice!OwnAudio
  <2> QED
    BY <2>1, <2>4, <2>7, <2>8 DEF MicOpen, LastStops, LateKnown, Voice!Survives
<1>9. ASSUME NEW n \in 1..Voice!Begun, Voice!Transcribed(n) \/ Voice!Fails(n) PROVE VoiceInv'
  <2>1. /\ task[n].step = "listening" /\ task' = [task EXCEPT ![n].step = "over"] /\ state' = "idle"
        /\ UNCHANGED <<enabled, current, stopping, late, crashed>>
        /\ \/ Voice!MicOff(audio)
           \/ UNCHANGED <<mic, audio>> /\ (task[n].from # 0 => audio[task[n].from].ended)
    BY <1>9 DEF Voice!Transcribed, Voice!Fails
  <2> DEFINE r == [task[n] EXCEPT !.step = "over"]
  <2>2. r \in TaskStates /\ r.step = "over" /\ r.from = task[n].from
    BY <1>2 DEF TaskStates
  <2>3. task' = [task EXCEPT ![n] = r]
    BY <2>1
  <2> HIDE DEF r
  <2>4. /\ task' \in Seq(TaskStates) /\ Voice!Begun' = Voice!Begun /\
             1..Voice!Begun' = 1..Voice!Begun /\ task'[n] = r
        /\ \A x \in 1..Voice!Begun : x # n => task'[x] = task[x]
    BY <1>1, <2>2, <2>3, TaskGoesOn
  <2>5. n = Voice!Begun
    BY <2>1 DEF LastHeard
  <2>6. mic' = 0 /\ audio' \in Seq(AudioStates) /\ Len(audio') = Len(audio)
    <3>1. CASE Voice!MicOff(audio)
      BY <3>1, Silenced
    <3>2. CASE UNCHANGED <<mic, audio>> /\ (task[n].from # 0 => audio[task[n].from].ended)
      BY <1>1, <2>1, <2>5, <3>2 DEF MicOpen, LastHeard, Voice!OwnAudio
    <3> QED
      BY <2>1, <3>1, <3>2
  <2>7. VoiceTypes'
    BY <1>1, <2>1, <2>4, <2>6 DEF VoiceTypes
  <2>8. LastHeard' /\ Voice!OwnAudio'
    BY <2>1, <2>2, <2>4, <2>5 DEF LastHeard, Voice!OwnAudio
  <2> QED
    BY <2>1, <2>4, <2>6, <2>7, <2>8 DEF MicOpen, LastStops, LateKnown, Voice!Survives
<1>10. ASSUME NEW n \in 1..Voice!Begun, Voice!Cancelled(n) PROVE VoiceInv'
  <2>1. /\ task' = [task EXCEPT ![n].step = "over"]
        /\ UNCHANGED <<enabled, state, mic, audio, current, stopping, late, crashed>>
    BY <1>10 DEF Voice!Cancelled
  <2> DEFINE r == [task[n] EXCEPT !.step = "over"]
  <2>2. r \in TaskStates /\ r.step = "over" /\ r.from = task[n].from
    BY <1>2 DEF TaskStates
  <2>3. task' = [task EXCEPT ![n] = r]
    BY <2>1
  <2> HIDE DEF r
  <2>4. /\ task' \in Seq(TaskStates) /\ Voice!Begun' = Voice!Begun /\
             1..Voice!Begun' = 1..Voice!Begun /\ task'[n] = r
        /\ \A x \in 1..Voice!Begun : x # n => task'[x] = task[x]
    BY <1>1, <2>2, <2>3, TaskGoesOn
  <2>7. VoiceTypes'
    BY <1>1, <2>1, <2>4 DEF VoiceTypes
  <2>8. LastHeard' /\ Voice!OwnAudio'
    BY <2>1, <2>2, <2>4 DEF LastHeard, Voice!OwnAudio
  <2> QED
    BY <2>1, <2>4, <2>7, <2>8 DEF MicOpen, LastStops, LateKnown, Voice!Survives
<1>11. ASSUME Voice!Stop PROVE VoiceInv'
  <2>1. /\ stopping.of = 0 /\ state = "recording" /\ Voice!MicOff(audio) /\ state' = "flushing"
        /\ stopping' = [of |-> current, timedOut |-> FALSE] /\ current = Voice!Begun
        /\ UNCHANGED <<enabled, task, current, late, crashed>> /\ Voice!Begun' = Voice!Begun
    BY <1>11 DEF Voice!Stop, Voice!Free, Voice!Begun, LastStops
  <2>2. mic' = 0 /\ audio' \in Seq(AudioStates) /\ Len(audio') = Len(audio)
    BY <2>1, Silenced
  <2>3. VoiceTypes'
    BY <1>1, <2>1, <2>2 DEF VoiceTypes
  <2> QED
    BY <2>1, <2>2, <2>3 DEF MicOpen, LastStops, LastHeard, LateKnown, Voice!OwnAudio, Voice!Survives
<1>12. ASSUME Voice!TimesOut PROVE VoiceInv'
  <2>1. /\ stopping.of # 0 /\ stopping' = [stopping EXCEPT !.timedOut = TRUE] /\
             task' = Voice!CancelTask(stopping.of)
        /\ late' = (late \/ current = 0) /\ UNCHANGED <<enabled, state, mic, audio, current, crashed>>
    BY <1>12 DEF Voice!TimesOut
  <2>2. stopping'.of = stopping.of /\ stopping'.timedOut = TRUE /\
          stopping' \in [of : 0..Voice!Begun, timedOut : BOOLEAN]
    BY <2>1 DEF VoiceTypes
  <2>3. /\ task' \in Seq(TaskStates) /\ Voice!Begun' = Voice!Begun
        /\ \A x \in 1..Voice!Begun : /\ task'[x].from = task[x].from
                                     /\ task'[x].step \in {"new", "listening"} =>
                                          task'[x].step = task[x].step
    BY <1>1, <2>1, TaskCancelled
  <2>4. VoiceTypes'
    BY <1>1, <2>1, <2>2, <2>3 DEF VoiceTypes
  <2>5. LastHeard' /\ Voice!OwnAudio'
    BY <2>1, <2>3 DEF LastHeard, Voice!OwnAudio
  <2> QED
    BY <2>1, <2>2, <2>3, <2>4, <2>5 DEF MicOpen, LastStops, LateKnown, Voice!Survives
<1>13. ASSUME Voice!Stopped PROVE VoiceInv'
  <2>1. /\ stopping.of # 0 /\ task[stopping.of].step = "over" /\ crashed' = (stopping.timedOut /\
             current = 0)
        /\ state' \in {state, "idle"} /\ current' = 0 /\ stopping' = [of |-> 0, timedOut |-> FALSE]
        /\ UNCHANGED <<enabled, mic, audio, task, late>> /\ Voice!Begun' = Voice!Begun
    BY <1>13 DEF Voice!Stopped, Voice!Begun
  <2>2. stopping.of = Voice!Begun /\ state # "recording"
    BY <2>1 DEF LastStops
  <2>3. mic = 0
    BY <2>2 DEF MicOpen
  <2>4. VoiceTypes'
    BY <1>1, <2>1, <2>2 DEF VoiceTypes
  <2>5. \A n \in 1..Voice!Begun : task[n].step \notin {"new", "listening"}
    BY <2>1, <2>2 DEF LastHeard
  <2>6. LastHeard' /\ Voice!OwnAudio'
    BY <2>1, <2>5 DEF LastHeard, Voice!OwnAudio
  <2> QED
    BY <2>1, <2>2, <2>3, <2>4, <2>6 DEF MicOpen, LastStops, LateKnown, Voice!Survives
<1>14. ASSUME NEW to \in BOOLEAN, Voice!CancelRecording(to) PROVE VoiceInv'
  <2>1. /\ ~crashed /\ Voice!MicOff(audio) /\ task' = Voice!CancelTask(current) /\ current' = 0 /\
             state' = "idle" /\ enabled' = to
        /\ late' = (late \/ stopping.timedOut) /\ UNCHANGED <<stopping, crashed>>
    BY <1>14 DEF Voice!CancelRecording
  <2>2. mic' = 0 /\ audio' \in Seq(AudioStates) /\ Len(audio') = Len(audio)
    BY <2>1, Silenced
  <2>3. /\ task' \in Seq(TaskStates) /\ Voice!Begun' = Voice!Begun
        /\ \A x \in 1..Voice!Begun : /\ task'[x].from = task[x].from
                                     /\ task'[x].step \in {"new", "listening"} => x # current /\
                                          task'[x].step = task[x].step
    BY <1>1, <2>1, TaskCancelled
  <2>4. VoiceTypes'
    BY <1>1, <2>1, <2>2, <2>3 DEF VoiceTypes
  <2>5. \A x \in 1..Voice!Begun : task'[x].step \notin {"new", "listening"}
    BY <2>3 DEF LastHeard
  <2>6. LastHeard' /\ Voice!OwnAudio'
    BY <2>1, <2>3, <2>5 DEF LastHeard, Voice!OwnAudio
  <2> QED
    BY <2>1, <2>2, <2>3, <2>4, <2>6 DEF MicOpen, LastStops, LateKnown, Voice!Survives
<1>15. ASSUME Voice!Toggle PROVE VoiceInv'
  <2>1. enabled' \in BOOLEAN /\
          UNCHANGED <<state, mic, audio, task, current, stopping, late, crashed>> /\
            Voice!Begun' = Voice!Begun
    BY <1>15 DEF Voice!Toggle, Voice!Begun
  <2> QED
    BY <2>1 DEF VoiceTypes, MicOpen, LastStops, LastHeard, LateKnown, Voice!OwnAudio, Voice!Survives
<1>16. enabled \in BOOLEAN
  BY DEF VoiceTypes
<1> QED
  BY <1>4, <1>5, <1>6, <1>7, <1>8, <1>9, <1>10, <1>11, <1>12, <1>13, <1>14, <1>15, <1>16 DEF Voice!VoiceNext

LEMMA VoiceStep ==
  ASSUME Voice!VoiceAssumption, VoiceInv, [Voice!VoiceNext]_Voice!voiceVars
  PROVE  VoiceInv'
<1>1. CASE UNCHANGED Voice!voiceVars
  BY <1>1 DEF Voice!voiceVars, VoiceInv, VoiceTypes, MicOpen, LastStops, LastHeard, LateKnown,
              Voice!OwnAudio, Voice!Survives, Voice!Begun
<1> QED
  BY <1>1, VoiceNextStep

LEMMA VoiceImplies ==
  ASSUME VoiceInv
  PROVE  Voice!TypeOK /\ Voice!DictationSafe
<1>1. Voice!TypeOK
  BY DEF VoiceInv, VoiceTypes, Voice!TypeOK, TaskStates, AudioStates
<1>2. Voice!MicSeen /\ Voice!TextInTime
  BY DEF VoiceInv, MicOpen, LastHeard, Voice!MicSeen, Voice!TextInTime
<1> QED
  BY <1>1, <1>2 DEF VoiceInv, Voice!DictationSafe

-----------------------------------------------------------------------------
(* The narrator: AloudInv says which summary is awaited, and which spoken. *)

\* Something of the last turn is still to be played, or is.
Awaited == turn.runs \/ cancelable # 0 \/ speaking.step = "asking" \/ player # 0

\* The tracker knows of the turn that runs only.
TracksTurn ==
  /\ tracker.generation <= turn.n
  /\ tracker.data # 0 => turn.runs /\ tracker.data = turn.n

\* With a client, the summary that is asked for can be cancelled: it is that of the
\* last turn, and nothing is asked for or played meanwhile.
OneAsked ==
  /\ \A n \in Aloud!Turn : tts => (summaries[n].step = "asking" <=> n = cancelable)
  /\ cancelable # 0 => tts /\ cancelable = turn.n /\ ~turn.runs /\ speaking.step # "asking" /\ player = 0

OneSpoken == speaking.step = "asking" => tts /\ speaking.turn = turn.n /\ ~turn.runs /\ player = 0

\* Without a client nothing is said, and while something is, no report is left.
Reported ==
  /\ ~tts => narrator = "idle" /\ player = 0
  /\ player # 0 => reported = 0
  /\ reported <= turn.n /\ (Awaited => reported + 1 <= turn.n)

AloudInv == Aloud!TypeOK /\ TracksTurn /\ OneAsked /\ OneSpoken /\ Reported /\ Aloud!AloudSafe

SummaryStates == [step : Aloud!Step, generation : 0..MaxTurns]

\* A task that was cancelled is over, and nothing is reported but what played.
LEMMA CancelledAll ==
  ASSUME Aloud!AloudAssumption, AloudInv, Aloud!Cancelled
  PROVE  /\ summaries' \in [Aloud!Turn -> SummaryStates] /\ cancelable' = 0 /\ player' = 0 /\
              narrator' = "idle"
         /\ speaking' = [turn |-> 0, step |-> "none"]
         /\ \A n \in Aloud!Turn : tts => summaries'[n].step # "asking"
         /\ reported' \in 0..turn.n /\ (turn.runs => reported' + 1 <= turn.n)
<1>1. summaries \in [Aloud!Turn -> SummaryStates] /\ reported \in 0..MaxTurns /\
        turn.n \in 0..MaxTurns /\ player \in 0..MaxTurns
  BY DEF AloudInv, Aloud!TypeOK, SummaryStates
<1>2. \A n \in Aloud!Turn : [summaries[n] EXCEPT !.step = "over"] \in SummaryStates
  BY <1>1 DEF SummaryStates, Aloud!Step
<1>3. \A n \in Aloud!Turn : summaries'[n] = IF n = cancelable THEN [summaries[n] EXCEPT !.step = "over"] ELSE summaries[n]
  BY DEF Aloud!Cancelled
<1>4. summaries' \in [Aloud!Turn -> SummaryStates]
  BY <1>1, <1>2 DEF Aloud!Cancelled
<1>5. \A n \in Aloud!Turn : tts => summaries'[n].step # "asking"
  <2> TAKE n \in Aloud!Turn
  <2>1. tts => (summaries[n].step = "asking" <=> n = cancelable)
    BY DEF AloudInv, OneAsked
  <2>2. summaries[n] \in SummaryStates
    BY <1>1
  <2> QED
    BY <1>3, <2>1, <2>2 DEF SummaryStates
<1>6. reported' = reported + (IF player # 0 THEN 1 ELSE 0)
  BY DEF Aloud!Cancelled, Aloud!Silent
<1>7. reported' \in 0..turn.n
  BY <1>1, <1>6, AloudInv DEF AloudInv, Reported, Awaited, Aloud!AloudAssumption
<1>8. turn.runs => reported' + 1 <= turn.n
  BY <1>1, <1>6 DEF AloudInv, Aloud!AloudSafe, Aloud!LastTurnOnly, Reported, Awaited
<1> QED
  BY <1>4, <1>5, <1>7, <1>8 DEF Aloud!Cancelled, Aloud!Silent

LEMMA AloudInit ==
  ASSUME Aloud!AloudAssumption, Aloud!Init
  PROVE  AloudInv
<1>1. Aloud!TypeOK
  BY DEF Aloud!AloudAssumption, Aloud!Init, Aloud!TypeOK, Aloud!Turn, Aloud!Step
<1>2. turn.n = 0 /\ ~turn.runs /\ tracker.generation = 0 /\ tracker.data = 0 /\ tts /\ narrator = "idle"
      /\ cancelable = 0 /\ player = 0 /\ reported = 0 /\ speaking.step = "none"
      /\ \A n \in Aloud!Turn : n # 0 /\ summaries[n].step = "none"
  BY DEF Aloud!Init, Aloud!Turn
<1> QED
  BY <1>1, <1>2 DEF AloudInv, TracksTurn, OneAsked, OneSpoken, Reported, Awaited, Aloud!AloudSafe,
                    Aloud!LastTurnOnly, Aloud!StateTrue

\* Turns and their summaries, by action.
LEMMA AloudNextStep ==
  ASSUME Aloud!AloudAssumption, AloudInv, Aloud!AloudNext
  PROVE  AloudInv'
<1> USE DEF AloudInv, Aloud!AloudSafe
<1>1. /\ turn \in [n : 0..MaxTurns, runs : BOOLEAN] /\ turn.n \in 0..MaxTurns /\ turn.runs \in BOOLEAN
      /\ tracker \in [on : BOOLEAN, data : 0..MaxTurns, generation : 0..MaxTurns]
      /\ tracker.data \in 0..MaxTurns /\ tracker.generation \in 0..MaxTurns /\ tracker.on \in BOOLEAN
      /\ summaries \in [Aloud!Turn -> SummaryStates] /\ cancelable \in 0..MaxTurns /\ player \in 0..MaxTurns
      /\ reported \in 0..MaxTurns /\ speaking.turn \in 0..MaxTurns /\
           speaking \in [turn : 0..MaxTurns, step : Aloud!Step]
      /\ tts \in BOOLEAN /\ narrator \in {"idle", "summarizing", "speaking"} /\ syncs \in 0..MaxSyncs
      /\ MaxTurns \in Nat /\ MaxSyncs \in Nat
  BY DEF Aloud!TypeOK, Aloud!AloudAssumption, SummaryStates
<1>2. ASSUME Aloud!TurnStarts PROVE AloudInv'
  <2> DEFINE t == [n |-> turn.n + 1, runs |-> TRUE]
             k == [tracker EXCEPT !.data = turn.n + 1, !.generation = @ + 1]
  <2>1. /\ ~turn.runs /\ turn.n < MaxTurns /\ turn' = t /\ (tracker' = k \/ tracker' = tracker)
        /\ Aloud!Cancelled /\ UNCHANGED <<tts, syncs>>
    BY <1>2 DEF Aloud!TurnStarts
  <2>2. /\ summaries' \in [Aloud!Turn -> SummaryStates] /\ cancelable' = 0 /\ player' = 0 /\
             narrator' = "idle"
        /\ speaking' = [turn |-> 0, step |-> "none"]
        /\ \A n \in Aloud!Turn : tts => summaries'[n].step # "asking"
        /\ reported' \in 0..turn.n
    BY <2>1, CancelledAll
  <2>3. t \in [n : 0..MaxTurns, runs : BOOLEAN] /\ t.n = turn.n + 1 /\ t.runs
    BY <1>1, <2>1
  <2>4. k \in [on : BOOLEAN, data : 0..MaxTurns, generation : 0..MaxTurns]
        /\ k.data = turn.n + 1 /\ k.generation <= turn.n + 1
    <3>1. tracker.generation <= turn.n /\ turn.n + 1 \in 0..MaxTurns
      BY <1>1, <2>1 DEF TracksTurn
    <3>2. tracker.generation + 1 \in 0..MaxTurns /\ tracker.generation + 1 <= turn.n + 1
      BY <1>1, <3>1
    <3>3. k.data = turn.n + 1 /\ k.generation = tracker.generation + 1 /\ k.on = tracker.on
          /\ k \in [on : {k.on}, data : {k.data}, generation : {k.generation}]
      BY <1>1
    <3> QED
      BY <1>1, <3>1, <3>2, <3>3
  <2> HIDE DEF t, k
  <2>5. speaking' \in [turn : 0..MaxTurns, step : Aloud!Step] /\ speaking'.step = "none"
    BY <1>1, <2>2 DEF Aloud!Step
  <2>6. Aloud!TypeOK'
    BY <1>1, <2>1, <2>2, <2>3, <2>4, <2>5 DEF Aloud!TypeOK, SummaryStates
  <2>7. TracksTurn'
    BY <1>1, <2>1, <2>3, <2>4 DEF TracksTurn
  <2>8. OneAsked'
    BY <2>1, <2>2 DEF OneAsked, Aloud!Turn
  <2>9. Reported'
    BY <1>1, <2>1, <2>2, <2>3 DEF Reported
  <2> QED
    BY <2>2, <2>5, <2>6, <2>7, <2>8, <2>9 DEF OneSpoken, Aloud!LastTurnOnly, Aloud!StateTrue
<1>3. ASSUME Aloud!TurnEnds PROVE AloudInv'
  <2>1. /\ turn.runs /\ turn' = [turn EXCEPT !.runs = FALSE] /\ tracker' = [tracker EXCEPT !.data = 0]
        /\ \/ tracker.data = 0 /\ UNCHANGED <<summaries, cancelable, narrator>>
           \/ /\ tracker.data # 0
              /\ summaries' = [summaries EXCEPT ![tracker.data] = [step |-> "asking",
                                                                   generation |-> tracker.generation]]
              /\ cancelable' = IF tts THEN tracker.data ELSE cancelable
              /\ narrator' = IF tts THEN "summarizing" ELSE narrator
        /\ UNCHANGED <<tts, speaking, player, reported, syncs>>
    BY <1>3 DEF Aloud!TurnEnds
  <2>2. turn' \in [n : 0..MaxTurns, runs : BOOLEAN] /\ turn'.n = turn.n /\ turn'.runs = FALSE
    BY <1>1, <2>1
  <2>3. tracker' \in [on : BOOLEAN, data : 0..MaxTurns, generation : 0..MaxTurns] /\ tracker'.data = 0
        /\ tracker'.generation = tracker.generation
    BY <1>1, <2>1
  <2>4. cancelable = 0 /\ player = 0 /\ speaking.step # "asking" /\ reported + 1 <= turn.n
    BY <1>1, <2>1 DEF OneAsked, OneSpoken, Aloud!LastTurnOnly, Reported, Awaited
  <2>5. CASE tracker.data = 0
    <3>1. UNCHANGED <<summaries, cancelable, narrator>>
      BY <2>1, <2>5
    <3>2. Aloud!TypeOK'
      BY <1>1, <2>1, <2>2, <2>3, <3>1 DEF Aloud!TypeOK, SummaryStates
    <3> QED
      BY <1>1, <2>1, <2>2, <2>3, <2>4, <3>1, <3>2
         DEF TracksTurn, OneAsked, OneSpoken, Reported, Awaited, Aloud!LastTurnOnly, Aloud!StateTrue
  <2>6. CASE tracker.data # 0
    <3> DEFINE r == [step |-> "asking", generation |-> tracker.generation]
    <3>1. /\ summaries' = [summaries EXCEPT ![tracker.data] = r]
          /\ cancelable' = IF tts THEN tracker.data ELSE cancelable
          /\ narrator' = IF tts THEN "summarizing" ELSE narrator
      BY <2>1, <2>6
    <3>2. r \in SummaryStates /\ r.step = "asking"
      BY <1>1 DEF SummaryStates, Aloud!Step
    <3>3. tracker.data \in Aloud!Turn /\ tracker.data = turn.n
      BY <1>1, <2>6 DEF TracksTurn, Aloud!Turn
    <3> HIDE DEF r
    <3>4. summaries' \in [Aloud!Turn -> SummaryStates]
          /\ \A n \in Aloud!Turn : summaries'[n] = IF n = tracker.data THEN r ELSE summaries[n]
      BY <1>1, <3>1, <3>2, <3>3
    <3>5. Aloud!TypeOK'
      BY <1>1, <2>1, <2>2, <2>3, <3>1, <3>4 DEF Aloud!TypeOK, SummaryStates
    <3>6. OneAsked'
      <4>1. ASSUME NEW n \in Aloud!Turn, tts PROVE summaries'[n].step = "asking" <=> n = cancelable'
        BY <2>4, <3>1, <3>2, <3>4, <4>1 DEF OneAsked, Aloud!Turn
      <4> QED
        BY <2>1, <2>2, <2>4, <3>1, <3>3, <4>1 DEF OneAsked
    <3>7. TracksTurn' /\ OneSpoken' /\ Reported'
      BY <1>1, <2>1, <2>2, <2>3, <2>4, <3>1 DEF TracksTurn, OneSpoken, Reported, Awaited
    <3> QED
      BY <2>1, <2>4, <2>6, <3>1, <3>5, <3>6, <3>7 DEF Aloud!LastTurnOnly, Aloud!StateTrue
  <2> QED
    BY <2>5, <2>6
<1>4. ASSUME Aloud!TurnCancelled PROVE AloudInv'
  <2>1. /\ turn.runs /\ turn' = [turn EXCEPT !.runs = FALSE] /\ tracker' = [tracker EXCEPT !.data = 0]
        /\ UNCHANGED <<tts, narrator, summaries, cancelable, speaking, player, reported, syncs>>
    BY <1>4 DEF Aloud!TurnCancelled
  <2>2. turn' \in [n : 0..MaxTurns, runs : BOOLEAN] /\ turn'.n = turn.n /\ turn'.runs = FALSE
    BY <1>1, <2>1
  <2>3. tracker' \in [on : BOOLEAN, data : 0..MaxTurns, generation : 0..MaxTurns] /\ tracker'.data = 0
        /\ tracker'.generation = tracker.generation
    BY <1>1, <2>1
  <2>4. Aloud!TypeOK'
    BY <1>1, <2>1, <2>2, <2>3 DEF Aloud!TypeOK, SummaryStates
  <2>5. OneAsked'
    BY <2>1, <2>2 DEF OneAsked
  <2> QED
    BY <1>1, <2>1, <2>2, <2>3, <2>4, <2>5
       DEF TracksTurn, OneSpoken, Reported, Awaited, Aloud!LastTurnOnly, Aloud!StateTrue
<1>5. ASSUME NEW n \in Aloud!Turn, NEW ok \in BOOLEAN, Aloud!SummaryComes(n, ok) PROVE AloudInv'
  <2> DEFINE r == [summaries[n] EXCEPT !.step = "over"]
             s == [turn |-> n, step |-> "asking"]
  <2>1. /\ summaries[n].step = "asking" /\ summaries' = [summaries EXCEPT ![n] = r] /\ cancelable' = 0
        /\ \/ tts /\ speaking' = s /\ narrator' = narrator
           \/ narrator' = "idle" /\ speaking' = speaking
        /\ UNCHANGED <<turn, tracker, tts, player, reported, syncs>>
    BY <1>5 DEF Aloud!SummaryComes
  <2>2. r \in SummaryStates /\ r.step = "over"
    BY <1>1 DEF SummaryStates, Aloud!Step
  <2>3. s \in [turn : 0..MaxTurns, step : Aloud!Step] /\ s.step = "asking" /\ s.turn = n /\ n # 0
    BY DEF Aloud!Step, Aloud!Turn
  <2> HIDE DEF r, s
  <2>4. summaries' \in [Aloud!Turn -> SummaryStates]
        /\ \A m \in Aloud!Turn : summaries'[m] = IF m = n THEN r ELSE summaries[m]
    BY <1>1, <2>1, <2>2
  <2>5. Aloud!TypeOK'
    BY <1>1, <2>1, <2>3, <2>4 DEF Aloud!TypeOK, SummaryStates
  <2>6. tts => n = cancelable /\ n = turn.n /\ ~turn.runs /\ speaking.step # "asking" /\ player = 0
    BY <2>1, <2>3 DEF OneAsked
  <2>7. OneAsked'
    BY <2>1, <2>2, <2>4, <2>6 DEF OneAsked, Aloud!Turn
  <2>8. reported + 1 <= turn.n \/ ~tts
    BY <2>3, <2>6 DEF Reported, Awaited
  <2>9. OneSpoken' /\ Aloud!LastTurnOnly'
    BY <2>1, <2>3, <2>6 DEF OneSpoken, Aloud!LastTurnOnly
  <2>10. Aloud!StateTrue'
    BY <2>1, <2>3, <2>6 DEF Aloud!StateTrue, Reported
  <2>11. Reported'
    BY <1>1, <2>1, <2>3, <2>6, <2>8 DEF Reported, Awaited
  <2> QED
    BY <2>1, <2>5, <2>7, <2>9, <2>10, <2>11 DEF TracksTurn
<1>6. ASSUME Aloud!Spoken \/ Aloud!SpeechFails PROVE AloudInv'
  <2>1. /\ speaking.step = "asking" /\ speaking' = [speaking EXCEPT !.step = "over"]
        /\ \/ reported = 0 /\ player = 0 /\ player' = speaking.turn /\ narrator' = "speaking"
           \/ player' = player /\ narrator' = "idle"
        /\ UNCHANGED <<turn, tracker, tts, summaries, cancelable, reported, syncs>>
    BY <1>6 DEF Aloud!Spoken, Aloud!SpeechFails
  <2>2. speaking' \in [turn : 0..MaxTurns, step : Aloud!Step] /\ speaking'.step = "over"
    BY <1>1, <2>1 DEF Aloud!Step
  <2>3. tts /\ speaking.turn = turn.n /\ ~turn.runs /\ player = 0 /\ cancelable = 0 /\
          reported + 1 <= turn.n
    BY <2>1 DEF OneSpoken, OneAsked, Reported, Awaited
  <2>4. turn.n # 0
    BY <1>1, <2>3
  <2>5. Aloud!TypeOK'
    BY <1>1, <2>1, <2>2 DEF Aloud!TypeOK, SummaryStates
  <2>6. OneAsked' /\ OneSpoken' /\ TracksTurn'
    BY <2>1, <2>2, <2>3 DEF OneAsked, OneSpoken, TracksTurn
  <2>7. Aloud!LastTurnOnly' /\ Aloud!StateTrue'
    BY <2>1, <2>3, <2>4 DEF Aloud!LastTurnOnly, Aloud!StateTrue
  <2>8. Reported'
    BY <1>1, <2>1, <2>3 DEF Reported, Awaited
  <2> QED
    BY <2>5, <2>6, <2>7, <2>8
<1>7. ASSUME Aloud!PlayEnds PROVE AloudInv'
  <2>1. /\ player # 0 /\ player' = 0 /\ reported' = reported + 1
        /\ UNCHANGED <<turn, tracker, tts, narrator, summaries, cancelable, speaking, syncs>>
    BY <1>7 DEF Aloud!PlayEnds, Aloud!Silent
  <2>2. ~turn.runs /\ cancelable = 0 /\ speaking.step # "asking" /\ reported = 0 /\ reported + 1 <= turn.n
    BY <2>1 DEF Aloud!LastTurnOnly, OneAsked, OneSpoken, Reported, Awaited
  <2>3. Aloud!TypeOK'
    BY <1>1, <2>1, <2>2 DEF Aloud!TypeOK, SummaryStates
  <2>4. Reported' /\ Aloud!StateTrue'
    BY <1>1, <2>1, <2>2 DEF Reported, Awaited, Aloud!StateTrue
  <2>5. OneAsked' /\ OneSpoken' /\ TracksTurn'
    BY <2>1, <2>2 DEF OneAsked, OneSpoken, TracksTurn
  <2> QED
    BY <2>1, <2>3, <2>4, <2>5 DEF Aloud!LastTurnOnly
<1>8. ASSUME Aloud!PlaybackFinished PROVE AloudInv'
  <2>1. /\ reported # 0 /\ reported' = reported - 1 /\
             narrator' = IF narrator = "speaking" THEN "idle" ELSE narrator
        /\ UNCHANGED <<turn, tracker, tts, summaries, cancelable, speaking, player, syncs>>
    BY <1>8 DEF Aloud!PlaybackFinished
  <2>2. player = 0 /\ reported' \in 0..MaxTurns /\ reported' <= reported
    BY <1>1, <2>1 DEF Reported
  <2>3. Aloud!TypeOK'
    BY <1>1, <2>1, <2>2 DEF Aloud!TypeOK, SummaryStates
  <2>4. OneAsked' /\ OneSpoken' /\ TracksTurn' /\ Aloud!LastTurnOnly' /\ Aloud!StateTrue'
    BY <2>1, <2>2 DEF OneAsked, OneSpoken, TracksTurn, Aloud!LastTurnOnly, Aloud!StateTrue
  <2>5. Reported'
    BY <1>1, <2>1, <2>2 DEF Reported, Awaited
  <2> QED
    BY <2>3, <2>4, <2>5
<1>9. ASSUME Aloud!Escape PROVE AloudInv'
  <2>1. Aloud!Cancelled /\ UNCHANGED <<turn, tracker, tts, syncs>>
    BY <1>9 DEF Aloud!Escape
  <2>2. /\ summaries' \in [Aloud!Turn -> SummaryStates] /\ cancelable' = 0 /\ player' = 0 /\
             narrator' = "idle"
        /\ speaking' = [turn |-> 0, step |-> "none"]
        /\ \A n \in Aloud!Turn : tts => summaries'[n].step # "asking"
        /\ reported' \in 0..turn.n /\ (turn.runs => reported' + 1 <= turn.n)
    BY <2>1, CancelledAll
  <2>3. speaking' \in [turn : 0..MaxTurns, step : Aloud!Step] /\ speaking'.step = "none"
    BY <1>1, <2>2 DEF Aloud!Step
  <2>4. Aloud!TypeOK'
    BY <1>1, <2>1, <2>2, <2>3 DEF Aloud!TypeOK, SummaryStates
  <2>5. OneAsked'
    BY <2>1, <2>2 DEF OneAsked, Aloud!Turn
  <2>6. Reported'
    BY <1>1, <2>1, <2>2, <2>3 DEF Reported, Awaited
  <2> QED
    BY <2>1, <2>2, <2>3, <2>4, <2>5, <2>6 DEF TracksTurn, OneSpoken, Aloud!LastTurnOnly, Aloud!StateTrue
<1>10. ASSUME NEW on \in BOOLEAN, NEW client \in BOOLEAN, Aloud!Sync(on, client) PROVE AloudInv'
  <2> DEFINE k == [on |-> on, data |-> 0, generation |-> 0]
  <2>1. /\ ~turn.runs /\ syncs < MaxSyncs /\ syncs' = syncs + 1 /\ tracker' = k /\ tts' \in BOOLEAN
        /\ summaries' = [n \in Aloud!Turn |-> IF summaries[n].step = "asking" THEN [summaries[n] EXCEPT !.step = "over"]
                                        ELSE summaries[n]]
        /\ cancelable' = 0 /\ speaking' = [turn |-> 0, step |-> "none"] /\ Aloud!Silent /\
             narrator' = "idle" /\ turn' = turn
    BY <1>10 DEF Aloud!Sync
  <2>2. \A n \in Aloud!Turn : summaries'[n] \in SummaryStates /\ summaries'[n].step # "asking"
    <3> TAKE n \in Aloud!Turn
    <3>1. summaries[n] \in SummaryStates
      BY <1>1
    <3>2. [summaries[n] EXCEPT !.step = "over"] \in SummaryStates /\
            [summaries[n] EXCEPT !.step = "over"].step = "over"
      BY <3>1 DEF SummaryStates, Aloud!Step
    <3> QED
      BY <2>1, <3>1, <3>2
  <2>3. summaries' \in [Aloud!Turn -> SummaryStates]
    BY <2>1, <2>2
  <2>4. k \in [on : BOOLEAN, data : 0..MaxTurns, generation : 0..MaxTurns] /\ k.data = 0 /\ k.generation = 0
    BY <1>1
  <2> HIDE DEF k
  <2>5. speaking' \in [turn : 0..MaxTurns, step : Aloud!Step] /\ speaking'.step = "none"
    BY <1>1, <2>1 DEF Aloud!Step
  <2>6. player' = 0 /\ reported' \in 0..turn.n
    BY <1>1, <2>1 DEF Aloud!Silent, Reported, Awaited
  <2>7. Aloud!TypeOK'
    BY <1>1, <2>1, <2>3, <2>4, <2>5, <2>6 DEF Aloud!TypeOK, SummaryStates
  <2>8. OneAsked'
    BY <2>1, <2>2 DEF OneAsked, Aloud!Turn
  <2>9. Reported' /\ TracksTurn'
    BY <1>1, <2>1, <2>4, <2>5, <2>6 DEF Reported, Awaited, TracksTurn
  <2> QED
    BY <2>1, <2>5, <2>6, <2>7, <2>8, <2>9 DEF OneSpoken, Aloud!LastTurnOnly, Aloud!StateTrue
<1> QED
  BY <1>2, <1>3, <1>4, <1>5, <1>6, <1>7, <1>8, <1>9, <1>10 DEF Aloud!AloudNext

LEMMA AloudStep ==
  ASSUME Aloud!AloudAssumption, AloudInv, [Aloud!AloudNext]_Aloud!aloudVars
  PROVE  AloudInv'
<1>1. CASE Aloud!AloudNext
  BY <1>1, AloudNextStep
<1>2. CASE UNCHANGED Aloud!aloudVars
  BY <1>2 DEF Aloud!aloudVars, AloudInv, Aloud!TypeOK, TracksTurn, OneAsked, OneSpoken, Reported, Awaited,
              Aloud!AloudSafe, Aloud!LastTurnOnly, Aloud!StateTrue
<1> QED
  BY <1>1, <1>2

-----------------------------------------------------------------------------
(* Turns of the application: TurnInv says which task can be reached, and    *)
(* what a prompt and an interrupt under way rely on.                       *)

\* AppTurns counts as the library does.
LEMMA SameSize == \A S : Turns!Cardinality(S) = Cardinality(S)
BY DEF Turns!Cardinality, Cardinality

TurnStates == [step : Turns!Steps, kind : {"turn", "compact"}, by : Turns!Submitters,
               cut : Turns!Steps \cup {"no"}]
BashStates == [step : {"created", "running", "saving", "done"}, cut : Turns!Steps \cup {"no",
  "running", "saving"},
               reports : Nat]
SubmitStates ==
  [at : {"off", "interrupt", "dispatch", "mounting", "creating", "compacting"}, of : 0..Len(sentPrompts)]
InterruptStates == [at : {"off", "called", "waiting", "closing", "over"}, of : 0..Len(turns)]
PromptStates == [now : {"sent", "ran", "lost"}, hasty : BOOLEAN]

TurnTypes ==
  /\ running \in BOOLEAN /\ interrupting \in BOOLEAN /\ racedTurns \in BOOLEAN
  /\ turns \in Seq(TurnStates) /\ agentTask \in 0..Len(turns)
  /\ bash \in Seq(BashStates) /\ bashTask \in 0..Len(bash)
  /\ sentPrompts \in Seq(PromptStates)
  /\ submits \in [Turns!Submitters -> SubmitStates]
  /\ interrupts \in [Turns!Interrupters -> InterruptStates]
  /\ \A s \in Turns!Submitters : submits[s].at # "off" => submits[s].of # 0

\* Of the tasks that work on the conversation the one that can be reached is the only
\* one, and nothing else is said of which runs.
OneWorks ==
  ~racedTurns => /\ \A t \in DOMAIN turns : turns[t].step \in Turns!Working => agentTask = t
                 /\ running <=> \E t \in DOMAIN turns : turns[t].step \in {"acting", "unwinding"}

\* Whoever is about to begin a turn has none that works.
NoneOfIts ==
  ~racedTurns => \A s \in Turns!Submitters : submits[s].at \in {"creating", "compacting"} =>
              \A t \in DOMAIN turns : turns[t].step \in Turns!Working => turns[t].by # s

\* The handler of a prompt waits for its own interrupt.
OwnInterrupt ==
  /\ interrupts[0].at \in {"off", "waiting", "closing"}
  /\ submits["app"].at = "interrupt" <=> interrupts[0].at # "off"

\* While a prompt that was not hasty is handled, no turn is about to begin; none runs
\* once the one that ran is stopped.
QuietForIt ==
  ~racedTurns /\ submits["app"].at # "off" /\ ~sentPrompts[submits["app"].of].hasty =>
    /\ Turns!Begun
    /\ submits["startup"].at \notin {"mounting", "creating"}
    /\ submits["app"].at # "interrupt" \/ interrupts[0].at = "closing" => ~running

\* The first prompt is the only one until another overtakes it.
FirstAlone ==
  /\ sentPrompts = <<>> => turns = <<>> /\ ~running /\ submits["app"].at = "off"
  /\ submits["startup"].at \in {"off", "mounting", "creating"}
  /\ submits["startup"].at = "mounting" /\ ~sentPrompts[submits["startup"].of].hasty =>
       turns = <<>> /\ ~running /\ submits["app"].at = "off"

Counted(r) ==
  /\ r.step \in {"created", "running"} => r.reports = 0
  /\ r.step = "created" => r.cut = "no"
  /\ r.step = "saving" => r.reports = 1
  /\ r.step = "done" \/ r.cut \in {"no", r.step}
  /\ r.step = "done" /\ r.cut \notin {"created", "saving"} => r.reports = 1

\* Who is stopped was not stopped before.
BashCounted ==
  /\ bashTask # 0 => bash[bashTask].cut = "no"
  /\ \A b \in DOMAIN bash : Counted(bash[b])

TurnInv ==
  /\ TurnTypes /\ OneWorks /\ NoneOfIts /\ OwnInterrupt /\ QuietForIt /\ FirstAlone /\ BashCounted
  /\ Turns!PromptsRun


-----------------------------------------------------------------------------
(* One task of a sequence of them goes on. *)

\* What appending to a sequence makes of it.
LEMMA Appended ==
  ASSUME NEW S, NEW q \in Seq(S), NEW x \in S
  PROVE  /\ Append(q, x) \in Seq(S) /\ Len(Append(q, x)) = Len(q) + 1
         /\ DOMAIN q = 1..Len(q) /\ Len(q) \in Nat /\ DOMAIN Append(q, x) = 1..Len(q) + 1
         /\ Append(q, x)[Len(q) + 1] = x
         /\ \A n \in DOMAIN q : Append(q, x)[n] = q[n]
OBVIOUS

\* A task takes a step: it keeps what it is.
LEMMA TurnGoesOn ==
  ASSUME turns \in Seq(TurnStates), NEW t \in DOMAIN turns, NEW s \in Turns!Steps,
         turns' = [turns EXCEPT ![t].step = s]
  PROVE  /\ turns' \in Seq(TurnStates) /\ Len(turns') = Len(turns)
         /\ turns'[t].step = s
         /\ \A x \in DOMAIN turns : /\ turns'[x].kind = turns[x].kind
                                    /\ turns'[x].by = turns[x].by
                                    /\ turns'[x].cut = turns[x].cut
                                    /\ x # t => turns'[x] = turns[x]
<1>1. DOMAIN turns = 1..Len(turns) /\ Len(turns) \in Nat /\ \A x \in DOMAIN turns : turns[x] \in TurnStates
  OBVIOUS
<1>2. [turns[t] EXCEPT !.step = s] \in TurnStates
  BY <1>1 DEF TurnStates
<1>3. turns' \in Seq(TurnStates) /\ Len(turns') = Len(turns)
  BY <1>1, <1>2
<1> QED
  BY <1>1, <1>3 DEF TurnStates

LEMMA BashGoesOn ==
  ASSUME bash \in Seq(BashStates), NEW b \in DOMAIN bash,
         NEW s \in {"created", "running", "saving", "done"}, NEW n \in Nat,
         bash' = [bash EXCEPT ![b] = [@ EXCEPT !.step = s, !.reports = n]]
  PROVE  /\ bash' \in Seq(BashStates) /\ Len(bash') = Len(bash)
         /\ bash'[b].step = s /\ bash'[b].reports = n /\ bash'[b].cut = bash[b].cut
         /\ \A x \in DOMAIN bash \ {b} : bash'[x] = bash[x]
<1>1. DOMAIN bash = 1..Len(bash) /\ Len(bash) \in Nat /\ \A x \in DOMAIN bash : bash[x] \in BashStates
  OBVIOUS
<1>2. [bash[b] EXCEPT !.step = s, !.reports = n] \in BashStates
  BY <1>1 DEF BashStates
<1>3. bash' \in Seq(BashStates) /\ Len(bash') = Len(bash)
  BY <1>1, <1>2
<1> QED
  BY <1>1, <1>3 DEF BashStates

\* A task that is cancelled ends if it had not begun.
LEMMA CancelledTurn ==
  ASSUME turns \in Seq(TurnStates), agentTask \in 0..Len(turns), turns' = Turns!Cancelled(turns, agentTask)
  PROVE  /\ turns' \in Seq(TurnStates) /\ Len(turns') = Len(turns)
         /\ \A x \in DOMAIN turns :
              /\ turns'[x].kind = turns[x].kind /\ turns'[x].by = turns[x].by
              /\ turns'[x].step = IF x = agentTask /\
                   turns[x].step = "created" THEN "done" ELSE turns[x].step
<1>1. DOMAIN turns = 1..Len(turns) /\ Len(turns) \in Nat /\ \A x \in DOMAIN turns : turns[x] \in TurnStates
  OBVIOUS
<1>2. CASE agentTask = 0
  BY <1>1, <1>2 DEF Turns!Cancelled
<1>3. CASE agentTask # 0
  <2> DEFINE step == IF turns[agentTask].step = "created" THEN "done" ELSE turns[agentTask].step
             next == [turns[agentTask] EXCEPT !.cut = turns[agentTask].step, !.step = step]
  <2>1. agentTask \in DOMAIN turns
    BY <1>1, <1>3
  <2>2. turns' = [turns EXCEPT ![agentTask] = next]
    BY <1>3, <2>1 DEF Turns!Cancelled
  <2>3. next \in TurnStates /\ next.kind = turns[agentTask].kind /\ next.by = turns[agentTask].by /\
          next.step = step
    BY <1>1, <2>1 DEF TurnStates, Turns!Steps
  <2> HIDE DEF next
  <2>4. turns' \in Seq(TurnStates) /\ Len(turns') = Len(turns)
    BY <1>1, <2>1, <2>2, <2>3
  <2> QED
    BY <1>1, <2>1, <2>2, <2>3, <2>4
<1> QED
  BY <1>2, <1>3

LEMMA CancelledBash ==
  ASSUME bash \in Seq(BashStates), bashTask \in 0..Len(bash), bash' = Turns!Cancelled(bash, bashTask)
  PROVE  /\ bash' \in Seq(BashStates) /\ Len(bash') = Len(bash)
         /\ \A x \in DOMAIN bash : x # bashTask => bash'[x] = bash[x]
         /\ bashTask # 0 => /\ bash'[bashTask].cut = bash[bashTask].step
                            /\ bash'[bashTask].reports = bash[bashTask].reports
                            /\ bash'[bashTask].step =
                                 IF bash[bashTask].step = "created" THEN "done" ELSE bash[bashTask].step
<1>1. DOMAIN bash = 1..Len(bash) /\ Len(bash) \in Nat /\ \A x \in DOMAIN bash : bash[x] \in BashStates
  OBVIOUS
<1>2. CASE bashTask = 0
  BY <1>1, <1>2 DEF Turns!Cancelled
<1>3. CASE bashTask # 0
  <2> DEFINE step == IF bash[bashTask].step = "created" THEN "done" ELSE bash[bashTask].step
             next == [bash[bashTask] EXCEPT !.cut = bash[bashTask].step, !.step = step]
  <2>1. bashTask \in DOMAIN bash
    BY <1>1, <1>3
  <2>2. bash' = [bash EXCEPT ![bashTask] = next]
    BY <1>3, <2>1 DEF Turns!Cancelled
  <2>3. next \in BashStates /\ next.cut = bash[bashTask].step /\
          next.reports = bash[bashTask].reports /\ next.step = step
    BY <1>1, <2>1 DEF BashStates, Turns!Steps
  <2> HIDE DEF next
  <2>4. bash' \in Seq(BashStates) /\ Len(bash') = Len(bash)
    BY <1>1, <2>1, <2>2, <2>3
  <2> QED
    BY <1>1, <2>1, <2>2, <2>3, <2>4
<1> QED
  BY <1>2, <1>3

LEMMA TurnBegun ==
  ASSUME turns \in Seq(TurnStates), NEW s \in Turns!Submitters, NEW kind \in {"turn", "compact"},
           Turns!CreateTask(s, kind)
  PROVE  /\ turns' \in Seq(TurnStates) /\ Len(turns') = Len(turns) + 1
         /\ agentTask' = Len(turns) + 1 /\ Len(turns) \in Nat
         /\ turns'[Len(turns) + 1].step = "created" /\ turns'[Len(turns) + 1].by = s
         /\ \A x \in DOMAIN turns : turns'[x] = turns[x]
<1> DEFINE new == [step |-> "created", kind |-> kind, by |-> s, cut |-> "no"]
<1>1. new \in TurnStates /\ new.step = "created" /\ new.by = s
  BY DEF TurnStates, Turns!Steps
<1>2. turns' = Append(turns, new) /\ agentTask' = Len(turns')
  BY DEF Turns!CreateTask
<1> HIDE DEF new
<1> QED
  BY <1>1, <1>2, Appended

LEMMA BashBegun ==
  ASSUME bash \in Seq(BashStates), Turns!RunBash
  PROVE  /\ bash' \in Seq(BashStates) /\ Len(bash') = Len(bash) + 1 /\ Len(bash) \in Nat
         /\ bashTask' = Len(bash) + 1
         /\ bash'[Len(bash) + 1].step = "created" /\ bash'[Len(bash) + 1].cut = "no"
         /\ bash'[Len(bash) + 1].reports = 0
         /\ \A x \in DOMAIN bash : bash'[x] = bash[x]
<1> DEFINE new == [step |-> "created", cut |-> "no", reports |-> 0]
<1>1. new.step = "created" /\ new.cut = "no" /\ new.reports = 0
  OBVIOUS
<1>4. new \in BashStates
  BY DEF BashStates
<1>2. bash' = Append(bash, new) /\ bashTask' = Len(bash')
  BY DEF Turns!RunBash
<1> HIDE DEF new
<1>3. /\ Append(bash, new) \in Seq(BashStates) /\ Len(Append(bash, new)) = Len(bash) + 1
      /\ Len(bash) \in Nat /\ Append(bash, new)[Len(bash) + 1] = new
      /\ \A x \in DOMAIN bash : Append(bash, new)[x] = bash[x]
  BY <1>4, Appended
<1> QED
  BY <1>1, <1>2, <1>3


\* What became of a prompt is noted.
LEMMA PromptNoted ==
  ASSUME sentPrompts \in Seq(PromptStates), NEW p \in DOMAIN sentPrompts, NEW w \in {"ran", "lost"},
           Turns!Prompting(p, w)
  PROVE  /\ sentPrompts' \in Seq(PromptStates) /\ Len(sentPrompts') = Len(sentPrompts)
         /\ sentPrompts'[p].now = w
         /\ \A x \in DOMAIN sentPrompts : /\ sentPrompts'[x].hasty = sentPrompts[x].hasty
                                          /\ x # p => sentPrompts'[x] = sentPrompts[x]
<1>1. DOMAIN sentPrompts = 1..Len(sentPrompts) /\ Len(sentPrompts) \in Nat /\
        \A x \in DOMAIN sentPrompts : sentPrompts[x] \in PromptStates
  OBVIOUS
<1>2. [sentPrompts[p] EXCEPT !.now = w] \in PromptStates
  BY <1>1 DEF PromptStates
<1>3. sentPrompts' = [sentPrompts EXCEPT ![p].now = w]
  BY DEF Turns!Prompting
<1>4. sentPrompts' \in Seq(PromptStates) /\ Len(sentPrompts') = Len(sentPrompts)
  BY <1>1, <1>2, <1>3
<1> QED
  BY <1>1, <1>3, <1>4 DEF PromptStates

\* A prompt that is sent overtakes the first one, if that waits to be shown.
LEMMA PromptSent ==
  ASSUME TurnTypes, NEW h \in BOOLEAN, sentPrompts' = Append(Turns!Overtaken, [now |-> "sent", hasty |-> h])
  PROVE  /\ sentPrompts' \in Seq(PromptStates) /\ Len(sentPrompts') = Len(sentPrompts) + 1
         /\ sentPrompts'[Len(sentPrompts')] = [now |-> "sent", hasty |-> h]
         /\ \A x \in DOMAIN sentPrompts :
              /\ sentPrompts'[x].now = sentPrompts[x].now
              /\ sentPrompts'[x].hasty = (sentPrompts[x].hasty \/
                                          (submits["startup"].at = "mounting" /\ x = submits["startup"].of))
<1>1. DOMAIN sentPrompts = 1..Len(sentPrompts) /\ Len(sentPrompts) \in Nat /\
        \A x \in DOMAIN sentPrompts : sentPrompts[x] \in PromptStates
  BY DEF TurnTypes
<1> DEFINE over(x) == [sentPrompts[x] EXCEPT !.hasty = @ \/ (submits["startup"].at = "mounting" /\
                                                             x = submits["startup"].of)]
<1>2. \A x \in DOMAIN sentPrompts :
        /\ over(x) \in PromptStates /\ over(x).now = sentPrompts[x].now
        /\ over(x).hasty = (sentPrompts[x].hasty \/ (submits["startup"].at = "mounting" /\
                                                     x = submits["startup"].of))
  BY <1>1 DEF PromptStates
<1>3. Turns!Overtaken = [x \in 1..Len(sentPrompts) |-> over(x)]
  BY <1>1 DEF Turns!Overtaken
<1> HIDE DEF over
<1>4. Turns!Overtaken \in Seq(PromptStates) /\ Len(Turns!Overtaken) = Len(sentPrompts) /\
        \A x \in DOMAIN sentPrompts : Turns!Overtaken[x] = over(x)
  BY <1>1, <1>2, <1>3
<1>5. [now |-> "sent", hasty |-> h] \in PromptStates
  BY DEF PromptStates
<1> HIDE DEF Turns!Overtaken
<1>6. sentPrompts' \in Seq(PromptStates) /\ Len(sentPrompts') = Len(sentPrompts) + 1
      /\ sentPrompts'[Len(sentPrompts) + 1] = [now |-> "sent", hasty |-> h] /\
           \A x \in DOMAIN sentPrompts : sentPrompts'[x] = Turns!Overtaken[x]
  BY <1>1, <1>4, <1>5
<1> QED
  BY <1>1, <1>2, <1>4, <1>6

\* What the variables hold, by action.
LEMMA TurnTypesStep ==
  ASSUME Turns!TurnAssumption, TurnTypes, OwnInterrupt, Turns!TurnNext
  PROVE  TurnTypes'
<1> USE DEF TurnTypes
<1>1. /\ DOMAIN turns = 1..Len(turns) /\ Len(turns) \in Nat /\
           \A x \in DOMAIN turns : turns[x] \in TurnStates
      /\ DOMAIN bash = 1..Len(bash) /\ Len(bash) \in Nat /\ \A x \in DOMAIN bash : bash[x] \in BashStates
      /\ DOMAIN sentPrompts = 1..Len(sentPrompts) /\ Len(sentPrompts) \in Nat
      /\ "app" \in Turns!Submitters /\ "startup" \in Turns!Submitters /\ 0 \in Turns!Interrupters
      /\ \A n \in 1..MaxEscapes : n \in Turns!Interrupters
      /\ Turns!Off \in SubmitStates /\ Turns!Off \in InterruptStates
  BY DEF Turns!Submitters, Turns!Interrupters, Turns!TurnAssumption, Turns!Off, SubmitStates,
         InterruptStates
<1>2. ASSUME NEW w \in Turns!Interrupters, Turns!Interrupt(w), UNCHANGED agentTask
      PROVE  /\ interrupting' \in BOOLEAN /\ turns' \in Seq(TurnStates) /\ Len(turns') = Len(turns)
             /\ interrupts' \in [Turns!Interrupters -> InterruptStates']
  BY <1>2, CancelledTurn DEF Turns!Interrupt, InterruptStates
<1>3. ASSUME Turns!Submit PROVE TurnTypes'
  <2>1. PICK h \in BOOLEAN : sentPrompts' = Append(Turns!Overtaken, [now |-> "sent", hasty |-> h])
    BY <1>1, <1>3 DEF Turns!Submit, Turns!Busy
  <2>2. sentPrompts' \in Seq(PromptStates) /\ Len(sentPrompts') = Len(sentPrompts) + 1
    BY <2>1, PromptSent
  <2>3. bash' \in Seq(BashStates) /\ Len(bash') = Len(bash) /\ bashTask' = 0
    BY <1>3, CancelledBash DEF Turns!Submit
  <2>4. \A a \in {"interrupt", "dispatch"} : [at |-> a, of |-> Len(sentPrompts')] \in SubmitStates'
    BY <1>1, <2>2 DEF SubmitStates
  <2>5. SubmitStates \subseteq SubmitStates'
    BY <1>1, <2>2 DEF SubmitStates
  <2>6. PICK a \in {"interrupt", "dispatch"} : submits' = [submits EXCEPT !["app"] = [at |-> a,
          of |-> Len(sentPrompts')]]
    BY <1>3 DEF Turns!Submit
  <2>7. submits' \in [Turns!Submitters -> SubmitStates']
    BY <1>1, <2>4, <2>5, <2>6
  <2>8. \A s \in Turns!Submitters : submits'[s].at # "off" => submits'[s].of # 0
    BY <1>1, <2>2, <2>6
  <2>9. interrupting' \in BOOLEAN /\ turns' \in Seq(TurnStates) /\ Len(turns') = Len(turns)
        /\ interrupts' \in [Turns!Interrupters -> InterruptStates']
    BY <1>1, <1>2, <1>3 DEF Turns!Submit, Turns!NoInterrupt, InterruptStates
  <2> QED
    BY <1>1, <1>3, <2>2, <2>3, <2>7, <2>8, <2>9 DEF Turns!Submit
<1>4. ASSUME Turns!SubmitInitial PROVE TurnTypes'
  BY <1>1, <1>4 DEF Turns!SubmitInitial, PromptStates, SubmitStates, InterruptStates
<1>5. ASSUME NEW s \in Turns!Submitters, submits[s].at # "off", NEW w \in {"ran", "lost"},
               Turns!Prompting(submits[s].of, w)
      PROVE  /\ sentPrompts' \in Seq(PromptStates) /\ SubmitStates' = SubmitStates
  <2>1. submits[s].of \in DOMAIN sentPrompts
    BY <1>1, <1>5 DEF SubmitStates
  <2> QED
    BY <1>5, <2>1, PromptNoted DEF SubmitStates
<1>6. ASSUME NEW s \in Turns!Submitters, submits[s].at # "off", NEW a \in {"off", "dispatch",
               "mounting", "creating", "compacting"}
      PROVE  /\ [submits[s] EXCEPT !.at = a] \in SubmitStates /\ [submits[s] EXCEPT !.at = a].of # 0
             /\ [submits EXCEPT ![s].at = a] \in [Turns!Submitters -> SubmitStates]
             /\ \A x \in Turns!Submitters : [submits EXCEPT ![s].at = a][x].at # "off" =>
                  [submits EXCEPT ![s].at = a][x].of # 0
  BY <1>6 DEF SubmitStates
<1>7. ASSUME NEW s \in Turns!Submitters
      PROVE  /\ [submits EXCEPT ![s] = Turns!Off] \in [Turns!Submitters -> SubmitStates]
             /\ \A x \in Turns!Submitters : [submits EXCEPT ![s] = Turns!Off][x].at # "off" =>
                  [submits EXCEPT ![s] = Turns!Off][x].of # 0
  BY <1>1 DEF Turns!Off
<1>8. ASSUME Turns!RunBash PROVE TurnTypes'
  <2>4. bash' \in Seq(BashStates) /\ Len(bash') = Len(bash) + 1 /\ bashTask' = Len(bash) + 1
    BY <1>8, BashBegun
  <2>5. bashTask' \in 0..Len(bash')
    BY <1>1, <2>4
  <2>3. sentPrompts' \in Seq(PromptStates) /\ SubmitStates' = SubmitStates
    BY <1>1, <1>5, <1>8 DEF Turns!RunBash
  <2> QED
    BY <1>1, <1>7, <1>8, <2>3, <2>4, <2>5 DEF Turns!RunBash, InterruptStates
<1>9. ASSUME NEW compacts \in BOOLEAN, Turns!RunCommand(compacts) PROVE TurnTypes'
  BY <1>1, <1>5, <1>6, <1>7, <1>9 DEF Turns!RunCommand, InterruptStates
<1>10. ASSUME Turns!ShowMessage PROVE TurnTypes'
  BY <1>1, <1>6, <1>10 DEF Turns!ShowMessage, InterruptStates, SubmitStates
<1>11. ASSUME NEW s \in Turns!Submitters, Turns!Mounted(s) PROVE TurnTypes'
  <2>1. sentPrompts' \in Seq(PromptStates) /\ SubmitStates' = SubmitStates
    BY <1>5, <1>11 DEF Turns!Mounted, SubmitStates
  <2>2. submits' = [submits EXCEPT ![s] = Turns!Off] \/ submits' = [submits EXCEPT ![s].at = "creating"]
    BY <1>11 DEF Turns!Mounted
  <2>3. submits' \in [Turns!Submitters -> SubmitStates] /\
          \A x \in Turns!Submitters : submits'[x].at # "off" => submits'[x].of # 0
    <3>1. submits[s].at # "off"
      BY <1>11 DEF Turns!Mounted
    <3>2. CASE submits' = [submits EXCEPT ![s] = Turns!Off]
      BY <1>7, <3>2
    <3>3. CASE submits' = [submits EXCEPT ![s].at = "creating"]
      BY <1>6, <3>1, <3>3
    <3> QED
      BY <2>2, <3>2, <3>3
  <2> QED
    BY <1>1, <1>11, <2>1, <2>3 DEF Turns!Mounted, InterruptStates
<1>12. ASSUME NEW s \in Turns!Submitters, NEW kind \in {"turn", "compact"}, Turns!CreateTask(s, kind)
       PROVE TurnTypes'
  <2>7. /\ turns' \in Seq(TurnStates) /\ Len(turns') = Len(turns) + 1
        /\ agentTask' = Len(turns) + 1
    BY <1>12, TurnBegun
  <2>8. agentTask' \in 0..Len(turns')
    BY <1>1, <2>7
  <2>3. sentPrompts' \in Seq(PromptStates) /\ SubmitStates' = SubmitStates
    BY <1>5, <1>12 DEF Turns!CreateTask
  <2>4. InterruptStates \subseteq InterruptStates'
    BY <1>1, <2>7 DEF InterruptStates
  <2>5. submits' \in [Turns!Submitters -> SubmitStates] /\
          \A x \in Turns!Submitters : submits'[x].at # "off" => submits'[x].of # 0
    BY <1>7, <1>12 DEF Turns!CreateTask
  <2>6. racedTurns' \in BOOLEAN
    BY <1>12 DEF Turns!CreateTask
  <2> QED
    BY <1>1, <1>12, <2>3, <2>4, <2>5, <2>6, <2>7, <2>8 DEF Turns!CreateTask
<1>13. ASSUME NEW t \in DOMAIN turns, Turns!Starts(t) \/ Turns!Unwinds(t) \/ Turns!Over(t) \/ Turns!Finished(t)
       PROVE TurnTypes'
  <2>1. PICK s \in Turns!Steps : turns' = [turns EXCEPT ![t].step = s]
    BY <1>13 DEF Turns!Starts, Turns!Unwinds, Turns!Over, Turns!Finished, Turns!Steps
  <2>2. turns' \in Seq(TurnStates) /\ Len(turns') = Len(turns)
    BY <2>1, TurnGoesOn
  <2>3. running' \in BOOLEAN /\ interrupting' \in BOOLEAN /\ agentTask' \in {agentTask, 0}
        /\ UNCHANGED <<bashTask, bash, submits, interrupts, sentPrompts, racedTurns>>
    BY <1>13 DEF Turns!Starts, Turns!Unwinds, Turns!Over, Turns!Finished
  <2> QED
    BY <1>1, <2>2, <2>3 DEF InterruptStates, SubmitStates
<1>14. ASSUME NEW n \in Turns!Interrupters, NEW a \in {"off", "called", "waiting", "closing", "over"}
      PROVE  [interrupts EXCEPT ![n].at = a] \in [Turns!Interrupters -> InterruptStates]
  BY <1>14 DEF InterruptStates
<1>15. ASSUME NEW n \in 1..MaxEscapes, Turns!Escape(n) PROVE TurnTypes'
  BY <1>1, <1>14, <1>15 DEF Turns!Escape, SubmitStates, InterruptStates
<1>16. ASSUME NEW n \in 1..MaxEscapes, Turns!Called(n) PROVE TurnTypes'
  <2>1. interrupting' \in BOOLEAN /\ turns' \in Seq(TurnStates) /\ Len(turns') = Len(turns)
        /\ interrupts' \in [Turns!Interrupters -> InterruptStates']
    <3>1. CASE Turns!Interrupt(n)
      BY <1>1, <1>2, <1>16, <3>1 DEF Turns!Called
    <3>2. CASE Turns!NoInterrupt /\ interrupts' = [interrupts EXCEPT ![n].at = "over"]
      BY <1>1, <1>14, <3>2 DEF Turns!NoInterrupt, InterruptStates
    <3> QED
      BY <1>16, <3>1, <3>2 DEF Turns!Called
  <2> QED
    BY <1>1, <1>16, <2>1 DEF Turns!Called, SubmitStates
<1>17. ASSUME NEW w \in Turns!Interrupters, Turns!TaskGone(w) PROVE TurnTypes'
  BY <1>1, <1>14, <1>17 DEF Turns!TaskGone, SubmitStates, InterruptStates
<1>18. ASSUME NEW w \in Turns!Interrupters, Turns!InterruptEnds(w) PROVE TurnTypes'
  <2>1. interrupts' \in [Turns!Interrupters -> InterruptStates]
    BY <1>1, <1>14, <1>18 DEF Turns!InterruptEnds
  <2>2. submits' \in [Turns!Submitters -> SubmitStates] /\
          \A x \in Turns!Submitters : submits'[x].at # "off" => submits'[x].of # 0
    BY <1>1, <1>6, <1>18 DEF Turns!InterruptEnds, OwnInterrupt
  <2> QED
    BY <1>1, <1>18, <2>1, <2>2 DEF Turns!InterruptEnds, SubmitStates, InterruptStates
<1>19. ASSUME NEW b \in DOMAIN bash, Turns!BashStarts(b) \/ Turns!BashReports(b) \/ Turns!BashKilled(b) \/ Turns!BashSaved(b)
       PROVE TurnTypes'
  <2>0. bash[b].reports \in Nat
    BY <1>1 DEF BashStates
  <2>1. PICK s \in {"created", "running", "saving", "done"},
          n \in Nat : bash' = [bash EXCEPT ![b] = [@ EXCEPT !.step = s, !.reports = n]]
    <3>1. bash[b].reports + 1 \in Nat /\ bash[b] \in BashStates /\ DOMAIN bash = 1..Len(bash)
      BY <1>1, <2>0
    <3>2. CASE Turns!BashStarts(b)
      BY <2>0, <3>1, <3>2 DEF BashStates, Turns!BashStarts
    <3>3. CASE Turns!BashSaved(b)
      BY <2>0, <3>1, <3>3 DEF BashStates, Turns!BashSaved
    <3>4. CASE Turns!BashReports(b)
      BY <3>1, <3>4 DEF Turns!BashReports
    <3>5. CASE Turns!BashKilled(b)
      BY <3>1, <3>5 DEF Turns!BashKilled
    <3> QED
      BY <1>19, <3>2, <3>3, <3>4, <3>5
  <2>2. bash' \in Seq(BashStates) /\ Len(bash') = Len(bash)
    BY <2>1, BashGoesOn
  <2>3. UNCHANGED <<running, interrupting, agentTask, turns, bashTask, submits, interrupts,
          sentPrompts, racedTurns>>
    BY <1>19 DEF Turns!BashStarts, Turns!BashReports, Turns!BashKilled, Turns!BashSaved
  <2> QED
    BY <2>2, <2>3 DEF SubmitStates, InterruptStates
<1> QED
  BY <1>3, <1>4, <1>8, <1>9, <1>10, <1>11, <1>12, <1>13, <1>15, <1>16, <1>17, <1>18, <1>19
    DEF Turns!TurnNext, Turns!Handlers, Turns!Tasks


\* A command goes on, and is counted when it has reported.
LEMMA CountedOn ==
  ASSUME NEW r \in BashStates, NEW q \in BashStates, Counted(r), q.cut = r.cut,
         \/ r.step = "created" /\ q.step = "running" /\ q.reports = r.reports
         \/ r.step = "running" /\ r.cut = "no" /\ q.step = "saving" /\ q.reports = r.reports + 1
         \/ r.step \in {"running", "saving"} /\ r.cut # "no" /\ q.step = "done" /\ q.reports = r.reports + 1
         \/ r.step = "saving" /\ r.cut = "no" /\ q.step = "done" /\ q.reports = r.reports
  PROVE  Counted(q)
<1>1. r.reports \in Nat /\ q.reports \in Nat
  BY DEF BashStates
<1>2. CASE r.step = "created" /\ q.step = "running" /\ q.reports = r.reports
  BY <1>1, <1>2 DEF Counted
<1>3. CASE r.step = "running" /\ r.cut = "no" /\ q.step = "saving" /\ q.reports = r.reports + 1
  BY <1>1, <1>3 DEF Counted
<1>4. CASE r.step \in {"running", "saving"} /\ r.cut # "no" /\ q.step = "done" /\ q.reports = r.reports + 1
  BY <1>1, <1>4 DEF Counted
<1>5. CASE r.step = "saving" /\ r.cut = "no" /\ q.step = "done" /\ q.reports = r.reports
  BY <1>1, <1>5 DEF Counted
<1> QED
  BY <1>2, <1>3, <1>4, <1>5

\* A report is counted once, whenever the command is stopped.
LEMMA BashCountedStep ==
  ASSUME TurnTypes, BashCounted, Turns!TurnNext
  PROVE  BashCounted'
<1>0. bash \in Seq(BashStates) /\ bashTask \in 0..Len(bash)
  BY DEF TurnTypes
<1>1. /\ Len(bash) \in Nat /\ DOMAIN bash = 1..Len(bash) /\ \A x \in DOMAIN bash : bash[x] \in BashStates
      /\ bashTask # 0 => bashTask \in DOMAIN bash
  BY <1>0
<1>2. ASSUME Turns!Submit PROVE BashCounted'
  <2>1. bash' = Turns!Cancelled(bash, bashTask) /\ bashTask' = 0
    BY <1>2 DEF Turns!Submit
  <2>2. /\ Len(bash') = Len(bash) /\ bash' \in Seq(BashStates)
        /\ \A x \in DOMAIN bash : x # bashTask => bash'[x] = bash[x]
        /\ bashTask # 0 => /\ bash'[bashTask].cut = bash[bashTask].step
                           /\ bash'[bashTask].reports = bash[bashTask].reports
                           /\ bash'[bashTask].step = IF bash[bashTask].step = "created" THEN "done" ELSE bash[bashTask].step
    BY <1>0, <2>1, CancelledBash
  <2>3. DOMAIN bash' = DOMAIN bash
    BY <1>1, <2>2
  <2>4. bashTask # 0 => Counted(bash'[bashTask])
    BY <1>1, <2>2 DEF BashStates, BashCounted, Counted
  <2>5. \A x \in DOMAIN bash' : Counted(bash'[x])
    <3>1. ASSUME NEW x \in DOMAIN bash, x # bashTask PROVE Counted(bash'[x])
      BY <2>2, <3>1 DEF BashCounted
    <3>2. bashTask \in DOMAIN bash => bashTask # 0
      BY <1>1
    <3> QED
      BY <2>3, <2>4, <3>1, <3>2
  <2> QED
    BY <2>1, <2>5 DEF BashCounted
<1>3. ASSUME Turns!RunBash PROVE BashCounted'
  <2>1. /\ bashTask' = Len(bash) + 1 /\ Len(bash') = Len(bash) + 1 /\ bash' \in Seq(BashStates)
        /\ bash'[Len(bash) + 1].step = "created" /\ bash'[Len(bash) + 1].cut = "no"
        /\ bash'[Len(bash) + 1].reports = 0
        /\ \A x \in DOMAIN bash : bash'[x] = bash[x]
    BY <1>0, <1>3, BashBegun
  <2>2. Counted(bash'[Len(bash) + 1])
    BY <2>1 DEF Counted
  <2>3. DOMAIN bash' = DOMAIN bash \cup {Len(bash) + 1}
    BY <1>1, <2>1
  <2>4. \A x \in DOMAIN bash' : Counted(bash'[x])
    BY <2>1, <2>2, <2>3 DEF BashCounted
  <2> QED
    BY <2>1, <2>4 DEF BashCounted
<1>4. ASSUME NEW b \in DOMAIN bash, Turns!BashStarts(b) \/ Turns!BashReports(b) \/
               Turns!BashKilled(b) \/ Turns!BashSaved(b)
      PROVE  BashCounted'
  <2>0. bash[b].reports \in Nat
    BY <1>1 DEF BashStates
  <2>1. bash[b] = [step |-> bash[b].step, cut |-> bash[b].cut, reports |-> bash[b].reports]
    BY <1>1 DEF BashStates
  <2>2. PICK s \in {"running", "saving", "done"}, n \in {bash[b].reports, bash[b].reports + 1} :
          /\ bash' = [bash EXCEPT ![b] = [@ EXCEPT !.step = s, !.reports = n]]
          /\ \/ bash[b].step = "created" /\ s = "running" /\ n = bash[b].reports
             \/ bash[b].step = "running" /\ bash[b].cut = "no" /\ s = "saving" /\ n = bash[b].reports + 1
             \/ bash[b].step \in {"running", "saving"} /\ bash[b].cut # "no" /\ s = "done" /\
                  n = bash[b].reports + 1
             \/ bash[b].step = "saving" /\ bash[b].cut = "no" /\ s = "done" /\ n = bash[b].reports
    <3>1. CASE Turns!BashStarts(b)
      BY <1>1, <2>1, <3>1 DEF Turns!BashStarts
    <3>2. CASE Turns!BashReports(b)
      BY <1>1, <3>2 DEF Turns!BashReports
    <3>3. CASE Turns!BashKilled(b)
      BY <1>1, <3>3 DEF Turns!BashKilled
    <3>4. CASE Turns!BashSaved(b)
      BY <1>1, <2>1, <3>4 DEF Turns!BashSaved
    <3> QED
      BY <1>4, <3>1, <3>2, <3>3, <3>4
  <2>3. /\ Len(bash') = Len(bash) /\ bash' \in Seq(BashStates) /\ bash'[b].step = s /\
             bash'[b].reports = n /\ bash'[b].cut = bash[b].cut
        /\ \A x \in DOMAIN bash \ {b} : bash'[x] = bash[x]
    <3>1. n \in Nat /\ s \in {"created", "running", "saving", "done"}
      BY <2>0
    <3> QED
      BY <1>0, <2>2, <3>1, BashGoesOn
  <2>4. DOMAIN bash' = DOMAIN bash
    BY <2>2
  <2>5. bashTask' = bashTask
    BY <1>4 DEF Turns!BashStarts, Turns!BashReports, Turns!BashKilled, Turns!BashSaved
  <2>6. Counted(bash'[b])
    <3>1. Counted(bash[b])
      BY DEF BashCounted
    <3> QED
      <4>1. bash[b] \in BashStates /\ bash'[b] \in BashStates
        BY <1>0, <2>3
      <4> QED
        BY <2>2, <2>3, <3>1, <4>1, CountedOn
  <2>7. bashTask # 0 => bashTask \in DOMAIN bash
    BY <1>1
  <2> QED
    BY <2>3, <2>4, <2>5, <2>6, <2>7 DEF BashCounted
<1>5. ASSUME UNCHANGED <<bash, bashTask>> PROVE BashCounted'
  BY <1>5 DEF BashCounted
<1>6. \/ Turns!Submit \/ Turns!RunBash \/ UNCHANGED <<bash, bashTask>>
      \/ \E b \in DOMAIN bash : Turns!BashStarts(b) \/ Turns!BashReports(b) \/ Turns!BashKilled(b) \/
           Turns!BashSaved(b)
  BY DEF Turns!TurnNext, Turns!Handlers, Turns!Tasks, Turns!SubmitInitial, Turns!Escape,
         Turns!ShowMessage, Turns!RunCommand, Turns!Mounted, Turns!CreateTask,
         Turns!Called, Turns!TaskGone, Turns!InterruptEnds, Turns!Starts, Turns!Unwinds,
           Turns!Finished, Turns!Over
<1> QED
  BY <1>2, <1>3, <1>4, <1>5, <1>6


TurnControl ==
  OneWorks /\ NoneOfIts /\ OwnInterrupt /\ QuietForIt /\ FirstAlone /\ Turns!PromptsRun

\* A turn is told to stop: fewer are about to begin, and those that run run on.
LEMMA Interrupted ==
  ASSUME TurnTypes, NEW w \in Turns!Interrupters, Turns!Interrupt(w)
  PROVE  /\ running /\ ~interrupting /\ Len(turns') = Len(turns) /\ DOMAIN turns' = DOMAIN turns
         /\ interrupts' = [interrupts EXCEPT ![w] = [at |-> "waiting", of |-> agentTask]]
         /\ \A x \in DOMAIN turns :
              /\ turns'[x].by = turns[x].by
              /\ turns'[x].step \in {"acting", "unwinding"} <=> turns[x].step \in {"acting", "unwinding"}
              /\ turns'[x].step \in Turns!Working => turns[x].step \in Turns!Working
              /\ turns'[x].step = "created" => turns[x].step = "created"
<1>1. turns \in Seq(TurnStates) /\ agentTask \in 0..Len(turns) /\ turns' = Turns!Cancelled(turns, agentTask)
  BY DEF TurnTypes, Turns!Interrupt
<1>2. DOMAIN turns = 1..Len(turns) /\ DOMAIN turns' = 1..Len(turns')
  BY <1>1, CancelledTurn
<1> QED
  BY <1>1, <1>2, CancelledTurn DEF Turns!Interrupt, Turns!Working

\* Turns, interrupts and what becomes of sentPrompts, by action.
LEMMA TurnControlStep ==
  ASSUME Turns!TurnAssumption, TurnTypes, TurnTypes', TurnControl, Turns!TurnNext
  PROVE  TurnControl'
<1> USE DEF TurnControl
<1>0. turns \in Seq(TurnStates) /\ sentPrompts \in Seq(PromptStates)
  BY DEF TurnTypes
<1>1. /\ DOMAIN turns = 1..Len(turns) /\ Len(turns) \in Nat
      /\ DOMAIN sentPrompts = 1..Len(sentPrompts) /\ Len(sentPrompts) \in Nat
      /\ "app" \in Turns!Submitters /\ "startup" \in Turns!Submitters /\ 0 \in Turns!Interrupters
      /\ \A s \in Turns!Submitters : submits[s] \in SubmitStates
      /\ \A s \in Turns!Submitters : submits[s].at # "off" => submits[s].of \in DOMAIN sentPrompts
      /\ Turns!Submitters = {"app", "startup"}
  BY DEF Turns!Submitters, Turns!Interrupters, Turns!TurnAssumption, TurnTypes, SubmitStates
<1>2. ASSUME Turns!Submit PROVE TurnControl'
  <2>1. sentPrompts' = Append(Turns!Overtaken, [now |-> "sent", hasty |-> Turns!Busy]) /\
          Turns!Busy \in BOOLEAN
    BY <1>2 DEF Turns!Submit, Turns!Busy, TurnTypes
  <2> DEFINE n == Len(sentPrompts) + 1
  <2>2. /\ Len(sentPrompts') = n /\ sentPrompts'[n] = [now |-> "sent", hasty |-> Turns!Busy]
        /\ \A x \in DOMAIN sentPrompts :
              /\ sentPrompts'[x].now = sentPrompts[x].now
              /\ sentPrompts'[x].hasty = (sentPrompts[x].hasty \/
                                          (submits["startup"].at = "mounting" /\ x = submits["startup"].of))
        /\ sentPrompts' \in Seq(PromptStates)
    BY <2>1, PromptSent
  <2>8. DOMAIN sentPrompts' = DOMAIN sentPrompts \cup {n} /\ n \notin DOMAIN sentPrompts /\
          sentPrompts' # <<>>
    BY <1>1, <2>2
  <2>3. sentPrompts'[n].now = "sent" /\ sentPrompts'[n].hasty = Turns!Busy
    BY <2>2
  <2>4. /\ submits["app"].at = "off" /\ racedTurns' = racedTurns /\ running' = running /\
             agentTask' = agentTask
        /\ \/ Turns!Interrupt(0) /\ submits'["app"] = [at |-> "interrupt", of |-> n]
           \/ Turns!NoInterrupt /\ UNCHANGED interrupts /\ submits'["app"] = [at |-> "dispatch", of |-> n]
        /\ submits'["startup"] = submits["startup"]
    BY <1>1, <1>2, <2>2 DEF Turns!Submit, Turns!Off, TurnTypes
  <2>5. Turns!PromptsRun'
    BY <2>2, <2>3, <2>4, <2>8 DEF Turns!PromptsRun
  <2>6. CASE Turns!Interrupt(0)
    <3>1. /\ submits'["app"].at = "interrupt" /\ submits'["app"].of = n
          /\ interrupts'[0].at = "waiting"
      BY <1>1, <2>4, <2>6, Interrupted DEF Turns!NoInterrupt, TurnTypes
    <3>2. OneWorks' /\ NoneOfIts'
      BY <1>1, <2>4, <2>6, <3>1, Interrupted DEF OneWorks, NoneOfIts
    <3>3. OwnInterrupt'
      BY <3>1 DEF OwnInterrupt
    <3>4. QuietForIt'
      BY <1>1, <2>3, <2>4, <2>6, <3>1, Interrupted DEF QuietForIt, Turns!Begun, Turns!Busy
    <3>5. FirstAlone'
      BY <1>1, <2>2, <2>4, <2>8 DEF FirstAlone
    <3> QED
      BY <2>5, <3>2, <3>3, <3>4, <3>5
  <2>7. CASE Turns!NoInterrupt /\ UNCHANGED interrupts
    <3>1. submits'["app"].at = "dispatch" /\ submits'["app"].of = n /\ turns' = turns /\
            interrupting' = interrupting
      BY <2>4, <2>7 DEF Turns!NoInterrupt, Turns!Interrupt
    <3>2. OneWorks' /\ NoneOfIts'
      BY <1>1, <2>4, <3>1 DEF OneWorks, NoneOfIts
    <3>3. OwnInterrupt'
      BY <2>4, <2>7, <3>1 DEF OwnInterrupt
    <3>4. QuietForIt'
      BY <1>1, <2>3, <2>4, <2>7, <3>1 DEF QuietForIt, Turns!Begun, Turns!Busy, Turns!NoInterrupt
    <3>5. FirstAlone'
      BY <1>1, <2>2, <2>4, <2>8 DEF FirstAlone
    <3> QED
      BY <2>5, <3>2, <3>3, <3>4, <3>5
  <2> QED
    BY <2>4, <2>6, <2>7
<1>3. ASSUME Turns!SubmitInitial PROVE TurnControl'
  <2>1. /\ sentPrompts = <<>> /\ sentPrompts' = <<[now |-> "sent", hasty |-> FALSE]>>
        /\ turns' = turns /\ running' = running /\ racedTurns' = racedTurns /\
             agentTask' = agentTask /\ interrupts' = interrupts
        /\ submits'["app"] = submits["app"] /\ submits'["startup"] = [at |-> "mounting", of |-> 1]
    BY <1>1, <1>3 DEF Turns!SubmitInitial, TurnTypes
  <2>2. DOMAIN sentPrompts' = {1} /\ sentPrompts'[1].now = "sent"
    BY <2>1
  <2> QED
    BY <1>1, <2>1, <2>2 DEF OneWorks, NoneOfIts, OwnInterrupt, QuietForIt, FirstAlone, Turns!PromptsRun
<1>4. ASSUME NEW s \in Turns!Submitters, submits[s].at # "off", NEW w \in {"ran", "lost"},
               Turns!Prompting(submits[s].of, w)
      PROVE  /\ DOMAIN sentPrompts' = DOMAIN sentPrompts /\ sentPrompts'[submits[s].of].now = w
             /\ \A x \in DOMAIN sentPrompts : sentPrompts'[x].hasty = sentPrompts[x].hasty
             /\ \A x \in DOMAIN sentPrompts : x # submits[s].of => sentPrompts'[x] = sentPrompts[x]
             /\ sentPrompts # <<>> /\ sentPrompts' # <<>>
  BY <1>0, <1>1, <1>4, PromptNoted
<1>5. ASSUME Turns!RunBash \/ \E compacts \in BOOLEAN : Turns!RunCommand(compacts) PROVE TurnControl'
  <2>1. /\ submits["app"].at = "dispatch" /\ Turns!Prompting(submits["app"].of, "ran")
        /\ turns' = turns /\ running' = running /\ racedTurns' = racedTurns /\
             agentTask' = agentTask /\ interrupts' = interrupts
        /\ submits'["startup"] = submits["startup"]
        /\ \/ submits'["app"].at = "off"
           \/ submits'["app"].at = "compacting" /\ submits'["app"].of = submits["app"].of /\
                Turns!Begun /\ ~running
    <3>1. submits \in [Turns!Submitters -> SubmitStates]
      BY DEF TurnTypes
    <3>2. CASE Turns!RunBash
      BY <1>1, <3>1, <3>2 DEF Turns!RunBash, Turns!Off
    <3>3. ASSUME NEW compacts \in BOOLEAN, Turns!RunCommand(compacts)
          PROVE  /\ submits["app"].at = "dispatch" /\ Turns!Prompting(submits["app"].of, "ran")
                 /\ turns' = turns /\ running' = running /\ racedTurns' = racedTurns /\
                      agentTask' = agentTask /\ interrupts' = interrupts
                 /\ submits'["startup"] = submits["startup"]
                 /\ \/ submits'["app"].at = "off"
                    \/ submits'["app"].at = "compacting" /\ submits'["app"].of = submits["app"].of /\
                         Turns!Begun /\ ~running
      BY <1>1, <3>1, <3>3 DEF Turns!RunCommand, Turns!Off, SubmitStates
    <3> QED
      BY <1>5, <3>2, <3>3
  <2>2. NoneOfIts' /\ OneWorks'
    BY <1>1, <2>1 DEF NoneOfIts, OneWorks, Turns!Begun, Turns!Working
  <2>3. Turns!PromptsRun'
    BY <1>1, <1>4, <2>1 DEF Turns!PromptsRun
  <2>4. QuietForIt'
    BY <1>1, <1>4, <2>1 DEF QuietForIt, Turns!Begun, OwnInterrupt
  <2> QED
    BY <1>1, <1>4, <2>1, <2>2, <2>3, <2>4 DEF OwnInterrupt, FirstAlone
<1>6. ASSUME Turns!ShowMessage PROVE TurnControl'
  <2>1. /\ submits["app"].at = "dispatch"
        /\ turns' = turns /\ running' = running /\ racedTurns' = racedTurns /\
             agentTask' = agentTask /\ interrupts' = interrupts
        /\ submits'["startup"] = submits["startup"] /\ sentPrompts' = sentPrompts
        /\ submits'["app"].at = "mounting" /\ submits'["app"].of = submits["app"].of
    BY <1>1, <1>6 DEF Turns!ShowMessage, TurnTypes, SubmitStates
  <2> QED
    BY <1>1, <2>1 DEF OneWorks, NoneOfIts, OwnInterrupt, QuietForIt, FirstAlone, Turns!PromptsRun,
                      Turns!Begun
<1>7. ASSUME NEW s \in Turns!Submitters, Turns!Mounted(s) PROVE TurnControl'
  <2>1. /\ submits[s].at = "mounting" /\ Turns!Begun
        /\ turns' = turns /\ running' = running /\ racedTurns' = racedTurns /\
             agentTask' = agentTask /\ interrupts' = interrupts
        /\ \A x \in Turns!Submitters \ {s} : submits'[x] = submits[x]
        /\ \/ running /\ submits'[s].at = "off" /\ Turns!Prompting(submits[s].of, "lost")
           \/ ~running /\ submits'[s].at = "creating" /\ submits'[s].of = submits[s].of /\
                sentPrompts' = sentPrompts
    BY <1>1, <1>7 DEF Turns!Mounted, Turns!Off, TurnTypes, SubmitStates
  <2>2. OneWorks' /\ NoneOfIts' /\ OwnInterrupt'
    BY <1>1, <2>1 DEF OneWorks, NoneOfIts, OwnInterrupt, Turns!Begun, Turns!Working
  <2>3. CASE running
    <3>1. sentPrompts[submits[s].of].hasty \/ racedTurns
      BY <1>1, <2>1, <2>3 DEF QuietForIt, FirstAlone
    <3>2. Turns!Prompting(submits[s].of, "lost") /\ submits'[s].at = "off"
      BY <2>1, <2>3
    <3>3. Turns!PromptsRun'
      BY <1>1, <1>4, <2>1, <3>1, <3>2 DEF Turns!PromptsRun
    <3>4. QuietForIt'
      BY <1>1, <1>4, <2>1, <3>2 DEF QuietForIt, Turns!Begun
    <3>5. FirstAlone'
      BY <1>1, <1>4, <2>1, <3>2 DEF FirstAlone
    <3> QED
      BY <2>2, <3>3, <3>4, <3>5
  <2>4. CASE ~running
    BY <1>1, <2>1, <2>2, <2>4 DEF QuietForIt, Turns!Begun, FirstAlone, Turns!PromptsRun
  <2> QED
    BY <2>3, <2>4
<1>8. ASSUME NEW s \in Turns!Submitters, NEW kind \in {"turn", "compact"}, Turns!CreateTask(s, kind)
      PROVE TurnControl'
  <2>1. /\ submits[s].at \in {"creating", "compacting"} /\ Turns!Prompting(submits[s].of, "ran")
        /\ running' = running /\ interrupts' = interrupts /\ submits'[s].at = "off"
        /\ \A x \in Turns!Submitters \ {s} : submits'[x] = submits[x]
        /\ racedTurns' = (racedTurns \/ \E t \in DOMAIN turns : turns[t].step \in Turns!Working /\
                          turns[t].by # s)
    BY <1>1, <1>8 DEF Turns!CreateTask, Turns!Off, TurnTypes
  <2> DEFINE n == Len(turns) + 1
  <2>2. /\ DOMAIN turns' = 1..n /\ agentTask' = n /\ turns'[n].step = "created" /\ turns'[n].by = s
        /\ \A x \in DOMAIN turns : turns'[x] = turns[x]
    BY <1>0, <1>1, <1>8, TurnBegun
  <2>3. ~racedTurns' => ~racedTurns /\ \A t \in DOMAIN turns : turns[t].step \notin Turns!Working
    BY <1>1, <2>1 DEF NoneOfIts
  <2>4. OneWorks'
    BY <1>1, <2>1, <2>2, <2>3 DEF OneWorks, Turns!Working
  <2>5. NoneOfIts'
    BY <1>1, <2>1, <2>2, <2>3 DEF NoneOfIts
  <2>6. OwnInterrupt'
    BY <1>1, <2>1 DEF OwnInterrupt
  <2>7. QuietForIt'
    BY <1>1, <1>4, <2>1, <2>2, <2>3 DEF FirstAlone, QuietForIt
  <2>8. FirstAlone'
    BY <1>1, <1>4, <2>1, <2>2 DEF FirstAlone
  <2>9. Turns!PromptsRun'
    BY <1>1, <1>4, <2>1 DEF Turns!PromptsRun
  <2> QED
    BY <2>4, <2>5, <2>6, <2>7, <2>8, <2>9
<1>9. ASSUME NEW t \in DOMAIN turns, NEW s \in Turns!Steps, turns' = [turns EXCEPT ![t].step = s]
      PROVE  /\ DOMAIN turns' = DOMAIN turns /\ turns'[t].step = s /\ turns # <<>> /\ turns' # <<>>
             /\ \A x \in DOMAIN turns : turns'[x].by = turns[x].by /\ (x # t => turns'[x] = turns[x])
  BY <1>0, <1>1, <1>9, TurnGoesOn
<1>10. ASSUME NEW t \in DOMAIN turns, Turns!Starts(t) PROVE TurnControl'
  <2>1. /\ turns[t].step = "created" /\ turns' = [turns EXCEPT ![t].step = "acting"] /\
             running' = TRUE /\ "acting" \in Turns!Steps
        /\ UNCHANGED <<agentTask, submits, interrupts, sentPrompts, racedTurns>>
    BY <1>10 DEF Turns!Starts, Turns!Steps
  <2>2. /\ DOMAIN turns' = DOMAIN turns /\ turns'[t].step = "acting" /\ turns # <<>> /\ turns' # <<>>
        /\ \A x \in DOMAIN turns : turns'[x].by = turns[x].by /\ (x # t => turns'[x] = turns[x])
    BY <1>9, <2>1
  <2>3. OneWorks' /\ NoneOfIts'
    BY <2>1, <2>2 DEF OneWorks, NoneOfIts, Turns!Working
  <2>4. QuietForIt'
    BY <2>1, <2>2 DEF QuietForIt, Turns!Begun
  <2> QED
    BY <2>1, <2>2, <2>3, <2>4 DEF OwnInterrupt, FirstAlone, Turns!PromptsRun
<1>11. ASSUME NEW t \in DOMAIN turns, Turns!Unwinds(t) \/ Turns!Finished(t) PROVE TurnControl'
  <2>1. PICK s \in {"unwinding", "done"} :
          /\ turns[t].step = IF s = "done" THEN "ending" ELSE "acting"
          /\ turns' = [turns EXCEPT ![t].step = s]
    BY <1>11 DEF Turns!Unwinds, Turns!Finished
  <2>2. s \in Turns!Steps /\ UNCHANGED <<running, agentTask, submits, interrupts, sentPrompts, racedTurns>>
    BY <1>11 DEF Turns!Unwinds, Turns!Finished, Turns!Steps
  <2>3. /\ DOMAIN turns' = DOMAIN turns /\ turns'[t].step = s /\ turns # <<>> /\ turns' # <<>>
        /\ \A x \in DOMAIN turns : turns'[x].by = turns[x].by /\ (x # t => turns'[x] = turns[x])
    BY <1>9, <2>1, <2>2
  <2>4. OneWorks' /\ NoneOfIts'
    BY <2>1, <2>2, <2>3 DEF OneWorks, NoneOfIts, Turns!Working
  <2>5. QuietForIt'
    BY <2>1, <2>2, <2>3 DEF QuietForIt, Turns!Begun
  <2> QED
    BY <2>2, <2>3, <2>4, <2>5 DEF OwnInterrupt, FirstAlone, Turns!PromptsRun
<1>12. ASSUME NEW t \in DOMAIN turns, Turns!Over(t) PROVE TurnControl'
  <2>1. PICK s \in {"ending", "done"} : turns' = [turns EXCEPT ![t].step = s]
    BY <1>12 DEF Turns!Over
  <2>2. /\ s \in Turns!Steps /\ turns[t].step \in {"acting", "unwinding"} /\ running' = FALSE /\
             agentTask' = 0
        /\ UNCHANGED <<submits, interrupts, sentPrompts, racedTurns>>
    BY <1>12, <2>1 DEF Turns!Over, Turns!Steps
  <2>3. /\ DOMAIN turns' = DOMAIN turns /\ turns'[t].step = s /\ turns # <<>> /\ turns' # <<>>
        /\ \A x \in DOMAIN turns : turns'[x].by = turns[x].by /\ (x # t => turns'[x] = turns[x])
    BY <1>9, <2>1, <2>2
  <2>4. ~racedTurns => \A x \in DOMAIN turns : turns'[x].step \notin Turns!Working
    BY <2>1, <2>2, <2>3 DEF OneWorks, Turns!Working
  <2>5. OneWorks' /\ NoneOfIts'
    BY <2>2, <2>3, <2>4 DEF OneWorks, NoneOfIts, Turns!Working
  <2>6. QuietForIt'
    BY <2>1, <2>2, <2>3 DEF QuietForIt, Turns!Begun
  <2> QED
    BY <2>2, <2>3, <2>5, <2>6 DEF OwnInterrupt, FirstAlone, Turns!PromptsRun
<1>13. ASSUME NEW n \in 1..MaxEscapes PROVE n \in Turns!Interrupters /\ n # 0
  BY DEF Turns!Interrupters, Turns!TurnAssumption
<1>14. ASSUME NEW n \in 1..MaxEscapes, Turns!Escape(n) PROVE TurnControl'
  <2>1. interrupts'[0] = interrupts[0] /\
          UNCHANGED <<running, agentTask, turns, submits, sentPrompts, racedTurns>>
    BY <1>13, <1>14 DEF Turns!Escape, TurnTypes
  <2> QED
    BY <2>1 DEF OneWorks, NoneOfIts, OwnInterrupt, QuietForIt, FirstAlone, Turns!PromptsRun, Turns!Begun
<1>15. ASSUME NEW n \in 1..MaxEscapes, Turns!Called(n) PROVE TurnControl'
  <2>1. UNCHANGED <<running, agentTask, submits, sentPrompts, racedTurns>>
    BY <1>15 DEF Turns!Called
  <2>2. interrupts'[0] = interrupts[0]
    BY <1>1, <1>13, <1>15 DEF TurnTypes, Turns!Called, Turns!Interrupt
  <2>3. CASE Turns!Interrupt(n)
    <3>1. OneWorks' /\ NoneOfIts'
      BY <1>1, <1>13, <2>1, <2>3, Interrupted DEF OneWorks, NoneOfIts
    <3>2. QuietForIt'
      BY <1>1, <1>13, <2>1, <2>2, <2>3, Interrupted DEF QuietForIt, Turns!Begun
    <3>3. FirstAlone'
      BY <1>1, <1>13, <2>1, <2>3, Interrupted DEF FirstAlone
    <3> QED
      BY <2>1, <2>2, <3>1, <3>2, <3>3 DEF OwnInterrupt, Turns!PromptsRun
  <2>4. CASE turns' = turns
    BY <2>1, <2>2, <2>4 DEF OneWorks, NoneOfIts, OwnInterrupt, QuietForIt, FirstAlone,
                            Turns!PromptsRun, Turns!Begun
  <2> QED
    BY <1>15, <2>3, <2>4 DEF Turns!Called, Turns!NoInterrupt
<1>16. ASSUME NEW w \in Turns!Interrupters, Turns!TaskGone(w) PROVE TurnControl'
  <2>1. /\ running' = FALSE /\ racedTurns' = (racedTurns \/ running) /\
             UNCHANGED <<agentTask, turns, submits, sentPrompts>>
        /\ interrupts[w].at = "waiting" /\ interrupts'[w].at = "closing" /\ (w # 0 =>
             interrupts'[0] = interrupts[0])
    BY <1>1, <1>16 DEF Turns!TaskGone, TurnTypes, InterruptStates
  <2> QED
    BY <1>1, <2>1 DEF OneWorks, NoneOfIts, OwnInterrupt, QuietForIt, FirstAlone, Turns!PromptsRun,
                      Turns!Begun
<1>17. ASSUME NEW w \in Turns!Interrupters, Turns!InterruptEnds(w) PROVE TurnControl'
  <2>1. /\ UNCHANGED <<running, agentTask, turns, sentPrompts, racedTurns>> /\ interrupts[w].at = "closing"
        /\ submits'["startup"] = submits["startup"] /\ submits'["app"].of = submits["app"].of
        /\ w = 0 => interrupts'[0].at = "off" /\ submits'["app"].at = "dispatch"
        /\ w # 0 => interrupts'[0] = interrupts[0] /\ submits' = submits
    BY <1>1, <1>17 DEF Turns!InterruptEnds, TurnTypes, SubmitStates, InterruptStates, Turns!Off
  <2>2. w = 0 => submits["app"].at = "interrupt"
    BY <2>1 DEF OwnInterrupt
  <2>3. QuietForIt'
    BY <1>1, <2>1, <2>2 DEF QuietForIt, Turns!Begun
  <2> QED
    BY <1>1, <2>1, <2>2, <2>3 DEF OneWorks, NoneOfIts, OwnInterrupt, FirstAlone, Turns!PromptsRun
<1>18. ASSUME NEW b \in DOMAIN bash, Turns!BashStarts(b) \/ Turns!BashReports(b) \/
                Turns!BashKilled(b) \/ Turns!BashSaved(b)
       PROVE  TurnControl'
  <2>1. UNCHANGED <<running, agentTask, turns, submits, interrupts, sentPrompts, racedTurns>>
    BY <1>18 DEF Turns!BashStarts, Turns!BashReports, Turns!BashKilled, Turns!BashSaved
  <2> QED
    BY <2>1 DEF OneWorks, NoneOfIts, OwnInterrupt, QuietForIt, FirstAlone, Turns!PromptsRun, Turns!Begun
<1> QED
  BY <1>2, <1>3, <1>5, <1>6, <1>7, <1>8, <1>10, <1>11, <1>12, <1>14, <1>15, <1>16, <1>17, <1>18
     DEF Turns!TurnNext, Turns!Handlers, Turns!Tasks

LEMMA TurnInit ==
  ASSUME Turns!TurnAssumption, Turns!Init
  PROVE  TurnInv
<1>1. turns \in Seq(TurnStates) /\ bash \in Seq(BashStates) /\ sentPrompts \in Seq(PromptStates)
      /\ Len(turns) = 0 /\ Len(bash) = 0 /\ Len(sentPrompts) = 0 /\ DOMAIN turns = {} /\
           DOMAIN bash = {} /\ DOMAIN sentPrompts = {}
  BY DEF Turns!Init
<1>2. submits = [s \in Turns!Submitters |-> Turns!Off] /\ "app" \in Turns!Submitters /\
        "startup" \in Turns!Submitters /\ 0 \in Turns!Interrupters
  BY DEF Turns!Init, Turns!Submitters, Turns!Interrupters, Turns!TurnAssumption
<1>3. TurnTypes
  <2>1. 0 \in 0..Len(turns) /\ 0 \in 0..Len(bash) /\ 0 \in 0..Len(sentPrompts)
    BY <1>1
  <2>2. Turns!Off \in SubmitStates /\ Turns!Off \in InterruptStates /\ Turns!Off.at = "off"
    BY <2>1 DEF SubmitStates, InterruptStates, Turns!Off
  <2> QED
    BY <1>1, <1>2, <2>1, <2>2 DEF Turns!Init, TurnTypes
<1> QED
  BY <1>1, <1>2, <1>3 DEF Turns!Init, TurnInv, OneWorks, NoneOfIts, OwnInterrupt, QuietForIt,
                          FirstAlone, BashCounted,
                          Turns!PromptsRun, Turns!Off, Turns!Begun

LEMMA TurnStep ==
  ASSUME Turns!TurnAssumption, TurnInv, [Turns!TurnNext]_Turns!turnVars
  PROVE  TurnInv'
<1>1. CASE Turns!TurnNext
  BY <1>1, TurnTypesStep, BashCountedStep, TurnControlStep DEF TurnInv, TurnControl
<1>2. CASE UNCHANGED Turns!turnVars
  BY <1>2 DEF Turns!turnVars, TurnInv, TurnTypes, OneWorks, NoneOfIts, OwnInterrupt, QuietForIt,
              FirstAlone, BashCounted,
              Turns!PromptsRun, Turns!Begun, SubmitStates, InterruptStates
<1> QED
  BY <1>1, <1>2

LEMMA TurnImplies ==
  ASSUME Turns!TurnAssumption, TurnInv
  PROVE  Turns!TypeOK /\ Turns!TurnsSafe
<1>1. /\ DOMAIN turns = 1..Len(turns) /\ \A x \in DOMAIN turns : turns[x] \in TurnStates
      /\ DOMAIN bash = 1..Len(bash) /\ \A x \in DOMAIN bash : bash[x] \in BashStates
  BY DEF TurnInv, TurnTypes
<1>2. Turns!TypeOK
  BY <1>1 DEF TurnInv, TurnTypes, Turns!TypeOK, TurnStates, BashStates, SubmitStates, InterruptStates
<1>3. Turns!OneTurn
  <2>1. SUFFICES ASSUME ~racedTurns
                 PROVE  Cardinality(Turns!Live) <= 1 /\ (running <=> Turns!Live # {}) /\
                          \A t \in Turns!Live : agentTask = t
    BY SameSize DEF Turns!OneTurn
  <2>2. \A t \in Turns!Live : agentTask = t
    BY <2>1 DEF TurnInv, OneWorks, Turns!Live, Turns!Working
  <2>3. Turns!Live = {} \/ Turns!Live = {agentTask}
    BY <2>2
  <2>4. Cardinality(Turns!Live) <= 1
    <3>1. CASE Turns!Live = {}
      BY <3>1, FS_EmptySet
    <3>2. CASE Turns!Live = {agentTask}
      BY <3>2, FS_Singleton
    <3> QED
      BY <2>3, <3>1, <3>2
  <2> QED
    BY <2>1, <2>2, <2>4 DEF TurnInv, OneWorks, Turns!Live
<1> QED
  BY <1>2, <1>3 DEF TurnInv, Turns!TurnsSafe, Turns!ReportedOnce, BashCounted, Counted

-----------------------------------------------------------------------------
\* A step is one of the component that runs.
LEMMA OneRuns ==
  ASSUME [Next]_vars
  PROVE  /\ part' = part
         /\ part = "completion" => [Completion!Next]_Completion!vars
         /\ part = "index" => [Index!Next]_Index!vars
         /\ part = "voice" => [Voice!VoiceNext]_Voice!voiceVars
         /\ part = "aloud" => [Aloud!AloudNext]_Aloud!aloudVars
         /\ part = "turns" => [Turns!TurnNext]_Turns!turnVars
BY DEF Next, vars, completionVars, indexVars, voiceVars, aloudVars, turnVars, Completion!vars,
       Completion!uiVars, Completion!queryVars, Completion!listVars, Index!vars, Index!storeVars,
       Index!watchVars, Voice!voiceVars,
       Aloud!aloudVars, Turns!turnVars

\* For any texts, matches, files, directories and changes: once nothing is under way the popup
\* shows the matches of the text in the input, and what is selected is one of them, unless they
\* changed in the middle of a key's handler; and once nothing is under way in the indexer the
\* index holds the files that exist, unless changes went unseen or their order is not known
\* (path_completion.py, file_indexer/).
THEOREM CompletionIsSafe == Spec => []CompletionSafe
<1> DEFINE Inv == (part = "completion" => CompletionInv) /\ (part = "index" => IndexInv)
<1>1. Init => Inv
  BY Assumptions, CompletionInit, IndexInit DEF Init
<1>2. Inv /\ [Next]_vars => Inv'
  BY Assumptions, OneRuns, CompletionStep, IndexStep
<1>3. Inv => CompletionSafe
  BY Assumptions, CompletionImplies, IndexImplies DEF CompletionSafe
<1> QED
  BY <1>1, <1>2, <1>3, PTL DEF Spec

\* For any recordings, chunks, turns and synchronisations: what is heard belongs to the one
\* recording that is under way, and a microphone is not left open; a summary is asked for,
\* and spoken, of the last turn only, and what is spoken was asked for
\* (voice_manager.py, narrator_manager.py).
THEOREM VoiceIsSafe == Spec => []VoiceSafe
<1> DEFINE Inv == (part = "voice" => VoiceInv) /\ (part = "aloud" => AloudInv)
<1>1. Init => Inv
  BY Assumptions, VoiceInit, AloudInit DEF Init
<1>2. Inv /\ [Next]_vars => Inv'
  BY Assumptions, OneRuns, VoiceStep, AloudStep
<1>3. Inv => VoiceSafe
  BY Assumptions, VoiceImplies DEF VoiceSafe, AloudInv
<1> QED
  BY <1>1, <1>2, <1>3, PTL DEF Spec

\* For any number of prompts and interrupts: the application runs one turn at a time, a
\* prompt gets its turn or is lost only by haste, and an interrupt reports a command once
\* (app.py).
THEOREM ApplicationIsSafe == Spec => []ApplicationSafe
<1> DEFINE Inv == part = "turns" => TurnInv
<1>1. Init => Inv
  BY Assumptions, TurnInit DEF Init
<1>2. Inv /\ [Next]_vars => Inv'
  BY Assumptions, OneRuns, TurnStep
<1>3. Inv => ApplicationSafe
  BY Assumptions, TurnImplies DEF ApplicationSafe
<1> QED
  BY <1>1, <1>2, <1>3, PTL DEF Spec
=============================================================================
