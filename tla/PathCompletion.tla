--------------------------- MODULE PathCompletion ---------------------------
(* Completion of "@" paths while the user types.                            *)
(*                                                                          *)
(* Two threads share a PathCompletionController: the thread of the UI, on   *)
(* which all handlers run, and the only thread of the controller's pool,    *)
(* which computes matches and delivers them from the done-callback of their *)
(* future.  A third kind of step is what the pool's thread posts to the UI  *)
(* with call_after_refresh.  A handler that runs without awaiting is cut    *)
(* only where it takes _query_lock and where the other thread can see the   *)
(* difference.                                                              *)
(*                                                                          *)
(* A future is its place in the order of submission; a list of suggestions  *)
(* is the future that computed it, and a list that has been cleared stays   *)
(* cleared wherever it is referred to.                                      *)
EXTENDS Integers, Sequences, FiniteSets

CONSTANTS
  Texts,        \* what the input may hold
  Blank,        \* the empty input
  Found,        \* number of matches of each text with a path fragment
  None,         \* no query
  MaxTyped      \* bound: changes of the text by the user

PathTexts == DOMAIN Found

PathAssumption ==
  /\ Blank \in Texts \ PathTexts /\ PathTexts \subseteq Texts
  /\ None \notin Texts
  /\ Found \in [PathTexts -> Nat]
  /\ MaxTyped \in Nat

VARIABLES
  ui,           \* where the UI's thread is: [at, count, list]
  text,         \* the input
  changes,      \* TextArea.Changed messages not yet handled
  active,       \* MultiCompletionManager._active is the path controller
  futures,      \* the futures: [text, state, watched]
  pending,      \* _pending_future, 0 for None
  last,         \* _last_query
  list,         \* _suggestions: the future they come from, 0 for []
  cleared,      \* lists that were cleared
  selected,     \* _selected_index
  posted,       \* calls posted to the UI, in order: [call, list, index]
  popup,        \* what the popup shows: [list, index]
  worker,       \* the pool's thread: [at, job]
  lock,         \* holder of _query_lock
  typed,        \* changes of the text so far
  raced,        \* history: suggestions changed in the middle of a key's handler
  failed        \* history: computing matches has failed

uiVars == <<text, changes, active, typed>>
queryVars == <<futures, pending, last>>
listVars == <<list, cleared, selected>>
vars == <<ui, uiVars, queryVars, listVars, posted, popup, worker, lock, raced, failed>>

Free == [at |-> "free", count |-> 0, list |-> 0]
At(label) == [Free EXCEPT !.at = label]
Hidden == [list |-> 0, index |-> 0]
Resting == [at |-> "idle", job |-> 0]

Future == [text : PathTexts, state : {"queued", "running", "done", "cancelled"}, watched : BOOLEAN]
Posted == [call : {"render", "reset"}, list : Nat, index : Nat]

TypeOK ==
  /\ ui.at \in {"free", "query", "submit", "callback", "reset", "move", "apply",
                "stuck", "crashed"}
  /\ ui.count \in Nat /\ ui.list \in 0..Len(futures)
  /\ text \in Texts /\ changes \in Nat /\ active \in BOOLEAN
  /\ futures \in Seq(Future)
  /\ pending \in 0..Len(futures) /\ last \in PathTexts \union {None}
  /\ list \in 0..Len(futures) /\ cleared \subseteq 1..Len(futures)
  /\ selected \in Nat
  /\ posted \in Seq(Posted)
  /\ popup \in [list : 0..Len(futures), index : Nat]
  /\ worker \in [at : {"idle", "computing", "callback", "assigned"}, job : 0..Len(futures)]
  /\ lock \in {"free", "ui", "worker"}
  /\ typed \in 0..MaxTyped /\ raced \in BOOLEAN /\ failed \in BOOLEAN

Init ==
  /\ ui = Free /\ text = Blank /\ changes = 0 /\ active = FALSE
  /\ futures = <<>> /\ pending = 0 /\ last = None
  /\ list = 0 /\ cleared = {} /\ selected = 0
  /\ posted = <<>> /\ popup = Hidden
  /\ worker = Resting /\ lock = "free"
  /\ typed = 0 /\ raced = FALSE /\ failed = FALSE

\* Number of suggestions in a list.
Size(l) == IF l = 0 \/ l \in cleared THEN 0 ELSE Found[futures[l].text]

\* What showing a list leaves in the popup.
Shown(l, i) == IF Size(l) = 0 THEN Hidden ELSE [list |-> l, index |-> i]

Cancelled(fs) ==
  IF pending # 0 /\ fs[pending].state = "queued"
  THEN [fs EXCEPT ![pending].state = "cancelled"] ELSE fs

-----------------------------------------------------------------------------
(* The user changes the text *)

Typing == ui = Free /\ typed < MaxTyped /\ typed' = typed + 1

\* A key, a paste, dictation.
Type(t) ==
  /\ Typing /\ t # text
  /\ text' = t /\ changes' = changes + 1
  /\ UNCHANGED <<ui, active, queryVars, listVars, posted, popup, worker, lock, raced, failed>>

\* The handler resets the completion, if one is active.
Dropping ==
  /\ active' = FALSE
  /\ ui' = IF active THEN At("reset") ELSE Free

\* An entry of the history is loaded: the Changed message is not acted on.
Recall(t) ==
  /\ Typing /\ t # text
  /\ text' = t
  /\ Dropping
  /\ UNCHANGED <<changes, queryVars, listVars, posted, popup, worker, lock, raced, failed>>

Submit ==
  /\ Typing /\ text # Blank
  /\ text' = Blank /\ changes' = changes + 1
  /\ Dropping
  /\ UNCHANGED <<queryVars, listVars, posted, popup, worker, lock, raced, failed>>

\* Escape.
Dismiss ==
  /\ ui = Free /\ active
  /\ Dropping
  /\ UNCHANGED <<text, changes, typed, queryVars, listVars, posted, popup, worker, lock,
                 raced, failed>>

\* MultiCompletionManager.on_text_changed, with the text as it is by now.
Changed ==
  /\ ui = Free /\ changes > 0
  /\ changes' = changes - 1
  /\ IF text \in PathTexts THEN active' = TRUE /\ ui' = At("query") ELSE Dropping
  /\ UNCHANGED <<text, typed, queryVars, listVars, posted, popup, worker, lock, raced, failed>>

-----------------------------------------------------------------------------
(* PathCompletionController on the UI's thread *)

Query ==
  /\ ui.at = "query" /\ lock = "free"
  /\ IF text = last
     THEN ui' = Free /\ UNCHANGED queryVars
     ELSE /\ ui' = At("submit")
          /\ futures' = Cancelled(futures)
          /\ last' = text
          /\ UNCHANGED pending
  /\ UNCHANGED <<uiVars, listVars, posted, popup, worker, lock, raced, failed>>

SubmitQuery ==
  /\ ui.at = "submit" /\ lock = "free"
  /\ futures' = Append(futures, [text |-> text, state |-> "queued", watched |-> FALSE])
  /\ pending' = Len(futures')
  /\ lock' = "ui"
  /\ ui' = At("callback")
  /\ UNCHANGED <<last, uiVars, listVars, posted, popup, worker, raced, failed>>

\* Still under the lock.  The callback of a future that is done already is called
\* at once, by this thread, and asks for the lock again, which is not reentrant.
AddCallback ==
  /\ ui.at = "callback"
  /\ IF futures[pending].state = "done"
     THEN ui' = At("stuck") /\ UNCHANGED <<futures, lock>>
     ELSE /\ ui' = Free
          /\ futures' = [futures EXCEPT ![pending].watched = TRUE]
          /\ lock' = "free"
  /\ UNCHANGED <<pending, last, uiVars, listVars, posted, popup, worker, raced, failed>>

Reset ==
  /\ ui.at = "reset" /\ lock = "free"
  /\ ui' = Free
  /\ futures' = Cancelled(futures)
  /\ pending' = 0 /\ last' = None
  /\ IF Size(list) > 0
     THEN cleared' = cleared \union {list} /\ selected' = 0 /\ popup' = Hidden
     ELSE UNCHANGED <<cleared, selected, popup>>
  /\ UNCHANGED <<list, uiVars, posted, worker, lock, raced, failed>>

\* A key that moves the selection: the suggestions are counted ...
Arrow ==
  /\ ui = Free /\ active /\ Size(list) > 0
  /\ ui' = [At("move") EXCEPT !.count = Size(list)]
  /\ raced' = (raced \/ lock = "worker")
  /\ UNCHANGED <<uiVars, queryVars, listVars, posted, popup, worker, lock, failed>>

\* ... and the selection is moved, up or down, and shown.
Move ==
  /\ ui.at = "move"
  /\ \E step \in {1, ui.count - 1} : selected' = (selected + step) % ui.count
  /\ popup' = Shown(list, selected')
  /\ ui' = Free
  /\ UNCHANGED <<uiVars, queryVars, list, cleared, posted, worker, lock, raced, failed>>

\* Tab or Enter while there are suggestions: the list is read ...
Choose ==
  /\ ui = Free /\ active /\ Size(list) > 0 /\ typed < MaxTyped
  /\ ui' = [At("apply") EXCEPT !.list = list]
  /\ raced' = (raced \/ lock = "worker")
  /\ UNCHANGED <<uiVars, queryVars, listVars, posted, popup, worker, lock, failed>>

\* ... and indexed, and the completion replaces the fragment of the text.
Apply(t) ==
  /\ ui.at = "apply"
  /\ IF selected < Size(ui.list)
     THEN /\ text' = t /\ changes' = changes + 1 /\ typed' = typed + 1
          /\ ui' = At("reset")
     ELSE ui' = At("crashed") /\ UNCHANGED <<text, changes, typed>>
  /\ UNCHANGED <<active, queryVars, listVars, posted, popup, worker, lock, raced, failed>>

\* What the pool's thread has posted.
RunPosted ==
  /\ ui = Free /\ posted # <<>>
  /\ posted' = Tail(posted)
  /\ LET p == Head(posted) IN
     IF p.call = "render"
     THEN popup' = Shown(p.list, p.index) /\ UNCHANGED ui
     ELSE ui' = At("reset") /\ UNCHANGED popup
  /\ UNCHANGED <<uiVars, queryVars, listVars, worker, lock, raced, failed>>

-----------------------------------------------------------------------------
(* The pool's thread *)

TakeJob(f) ==
  /\ worker = Resting
  /\ futures[f].state = "queued" /\ \A g \in 1..f - 1 : futures[g].state # "queued"
  /\ worker' = [at |-> "computing", job |-> f]
  /\ futures' = [futures EXCEPT ![f].state = "running"]
  /\ UNCHANGED <<ui, uiVars, pending, last, listVars, posted, popup, lock, raced, failed>>

\* The result is set.  If its callback is registered, this thread calls it.
Computed ==
  /\ worker.at = "computing"
  /\ futures' = [futures EXCEPT ![worker.job].state = "done"]
  /\ worker' = IF futures[worker.job].watched THEN [worker EXCEPT !.at = "callback"]
               ELSE Resting
  /\ UNCHANGED <<ui, uiVars, pending, last, listVars, posted, popup, lock, raced, failed>>

\* The callback of a job that failed.
ComputeFails ==
  /\ worker.at = "callback" /\ lock = "free"
  /\ pending' = 0 /\ last' = None
  /\ worker' = Resting
  /\ failed' = TRUE
  /\ UNCHANGED <<ui, uiVars, futures, listVars, posted, popup, lock, raced>>

\* Mutant of Deliver: an answer is not checked against the last query.
DeliverAny ==
  /\ worker.at = "callback" /\ lock = "free"
  /\ \/ /\ Found[futures[worker.job].text] > 0
        /\ list' = worker.job
        /\ lock' = "worker"
        /\ worker' = [worker EXCEPT !.at = "assigned"]
        /\ raced' = (raced \/ ui.at \in {"move", "apply"})
        /\ UNCHANGED posted
     \/ /\ Found[futures[worker.job].text] = 0
        /\ posted' = Append(posted, [call |-> "reset", list |-> 0, index |-> 0])
        /\ worker' = Resting
        /\ UNCHANGED <<list, lock, raced>>
  /\ UNCHANGED <<ui, uiVars, queryVars, cleared, selected, popup, failed>>

\* The callback of a job that succeeded: under the lock, an answer to the last
\* query becomes the suggestions ...
Deliver ==
  /\ worker.at = "callback" /\ lock = "free"
  /\ LET query == futures[worker.job].text IN
     \/ /\ query = last /\ Found[query] > 0
        /\ list' = worker.job
        /\ lock' = "worker"
        /\ worker' = [worker EXCEPT !.at = "assigned"]
        /\ raced' = (raced \/ ui.at \in {"move", "apply"})
        /\ UNCHANGED posted
     \/ /\ query = last /\ Found[query] = 0
        /\ posted' = Append(posted, [call |-> "reset", list |-> 0, index |-> 0])
        /\ worker' = Resting
        /\ UNCHANGED <<list, lock, raced>>
     \/ /\ query # last
        /\ worker' = Resting
        /\ UNCHANGED <<list, lock, raced, posted>>
  /\ UNCHANGED <<ui, uiVars, queryVars, cleared, selected, popup, failed>>

\* ... and the first of them is selected, to be shown by the UI.
Assigned ==
  /\ worker.at = "assigned"
  /\ selected' = 0
  /\ posted' = Append(posted, [call |-> "render", list |-> list, index |-> 0])
  /\ lock' = "free"
  /\ worker' = Resting
  /\ UNCHANGED <<ui, uiVars, queryVars, list, cleared, popup, raced, failed>>

-----------------------------------------------------------------------------
\* The rest of a handler that has begun.
Handler == Query \/ SubmitQuery \/ AddCallback \/ Reset \/ Move \/ \E t \in Texts : Apply(t)
Pool == (\E f \in DOMAIN futures : TakeJob(f)) \/ Computed \/ ComputeFails \/ Deliver \/ Assigned

Next ==
  \/ \E t \in Texts : Type(t) \/ Recall(t)
  \/ Submit \/ Dismiss \/ Changed \/ Arrow \/ Choose \/ RunPosted
  \/ Handler \/ Pool

Spec == Init /\ [][Next]_vars

\* Handlers run to their end and so does the pool's thread.  Messages and posted
\* calls wait in queues, so that keys which keep coming do not hold them off.
Fairness ==
  /\ WF_vars(Handler) /\ WF_vars(Pool)
  /\ SF_vars(Changed) /\ SF_vars(RunPosted)

-----------------------------------------------------------------------------
(* Properties. *)

\* No query is under way, whatever keys move the selection.
Settled ==
  /\ ui.at \in {"free", "move"} /\ changes = 0 /\ posted = <<>> /\ worker = Resting
  /\ \A f \in DOMAIN futures : futures[f].state # "queued"

\* Once nothing is under way the popup shows the matches of the text that was
\* asked for last, which is the text in the input, and it shows nothing if that
\* query was given up or has no matches: no answer to an older text stays, and no
\* answer is lost without the query being forgotten with it.  (A computation that
\* raised leaves the popup as it was.)
QuietShowsAnswer ==
  Settled /\ ~failed =>
    /\ last # None => last = text
    /\ IF last = None \/ Found[last] = 0 THEN popup = Hidden
       ELSE popup.list # 0 /\ futures[popup.list].text = text

\* The selection is one of the suggestions whenever a key is handled, or Tab would
\* raise IndexError; a result that arrives in the middle of a key's handler is the
\* exception, the handlers read the suggestions without the lock.
SelectionInRange ==
  ~raced /\ ui = Free /\ lock = "free" /\ Size(list) > 0 => selected < Size(list)

\* Typing settles: however the threads interleave, and whatever keys keep coming
\* after the text has stopped changing, every query comes to its end, unless the
\* UI's thread has locked itself out or has raised.
Settles == <>[](Settled \/ ui.at \in {"stuck", "crashed"})

\* "await pilot.press(*"@s") ... assert "src/" in popup_content" (the UI's test):
\* the handler of a text that has changed returns.
NeverStuck == ui.at # "stuck"

=============================================================================
