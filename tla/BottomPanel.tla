---------------------------- MODULE BottomPanel ----------------------------
(***************************************************************************)
(* The panel below the conversation: VibeApp shows the input, a menu that  *)
(* a command opened, the panel of rewinding, or a prompt that somebody     *)
(* waits for.  Handlers of messages run one after the other, but the turn, *)
(* the worker of /teleport, the stream of a remote session and the workers *)
(* of rewinding open and close panels beside them.                         *)
(*                                                                         *)
(* Showing a panel is one step.  Going back to the input is not: all the   *)
(* panels there are get removed, one after the other, whoever opened them. *)
(* "config" stands for every menu that opens and closes and "picker" for   *)
(* the one it leads to.  Abstracted: what the panels show and what is      *)
(* chosen in them (QuestionForm, Configuration, RemoteTools, Rewind).      *)
(***************************************************************************)
EXTENDS Integers, Sequences, FiniteSets

CONSTANTS
  MaxPanels,  \* panels shown
  MaxPosted   \* messages that wait for the application

VARIABLES
  current,    \* _current_bottom_app
  mounted,    \* panels in the bottom container
  removing,   \* _switch_to_input_app under way: the panel it is at, for each task
  asking,     \* the callback that holds the UI lock: [who, now]
  remoteAsks, \* a remote session waits for an answer
  rewinding,  \* _rewind_mode
  chosen,     \* _rewind_highlighted_widget is set
  selecting,  \* the worker of _select_rewind_widget
  inbox,      \* messages for the application
  next,       \* the menu that its handler is about to show
  shown,      \* count: panels shown
  overlapped, \* history: a panel was shown beside another, or while one was being closed
  swept       \* history: a panel was shown while panels were being taken away

panelVars == <<current, mounted, removing, asking, remoteAsks, rewinding, chosen, selecting,
               inbox, next, shown, overlapped, swept>>

PanelAssumption == MaxPanels \in Nat /\ MaxPosted \in Nat

\* In the order in which they are removed.
Order == <<"prompt", "config", "picker", "remote", "rewind">>
Panels == {Order[i] : i \in DOMAIN Order}
Tasks == {"app", "asker", "stream", "worker"}
Nobody == [who |-> "nobody", now |-> "idle"]

Init ==
  /\ current = "input" /\ mounted = {}
  /\ removing = [t \in Tasks |-> 0]
  /\ asking = Nobody /\ remoteAsks = FALSE
  /\ rewinding = FALSE /\ chosen = FALSE /\ selecting = "no"
  /\ inbox = <<>> /\ next = "none" /\ shown = 0 /\ overlapped = FALSE /\ swept = FALSE

-----------------------------------------------------------------------------
(* Switching. *)

Closing == \E t \in Tasks : removing[t] # 0

\* _switch_from_input: the input is hidden, whatever is there stays.
SwitchFromInput(panel) ==
  /\ shown < MaxPanels /\ panel \notin mounted
  /\ current' = panel /\ mounted' = mounted \cup {panel} /\ shown' = shown + 1
  /\ overlapped' = (overlapped \/ mounted # {} \/ Closing \/ inbox # <<>> \/ selecting # "no")
  /\ swept' = (swept \/ Closing)

\* _switch_to_input_app: the input is shown, the panels are still there.
SwitchToInput(task) ==
  /\ removing[task] = 0
  /\ current' = "input"
  /\ removing' = [removing EXCEPT ![task] = 1]

\* Each panel is looked for when it has its turn, and its removal is awaited.
Remove(task) ==
  LET left == {i \in removing[task]..Len(Order) : Order[i] \in mounted}
      first == CHOOSE i \in left : \A j \in left : i <= j
  IN
  /\ removing[task] # 0
  /\ IF left = {}
     THEN removing' = [removing EXCEPT ![task] = 0] /\ UNCHANGED mounted
     ELSE /\ mounted' = mounted \ {Order[first]}
          /\ removing' = [removing EXCEPT ![task] = IF first = Len(Order) THEN 0 ELSE first + 1]
  /\ UNCHANGED <<current, asking, remoteAsks, rewinding, chosen, selecting, inbox, next, shown,
                 overlapped, swept>>

\* The handler of the application is done with a message and waits for the next one.
Idle == removing["app"] = 0 /\ next = "none"

\* A key in a panel, or escape: the panel posts what was chosen.
Posts(panel, what) ==
  /\ panel \in mounted /\ Len(inbox) < MaxPosted
  /\ inbox' = Append(inbox, what)
  /\ UNCHANGED <<current, mounted, removing, asking, remoteAsks, rewinding, chosen, selecting,
                 next, shown, overlapped, swept>>

-----------------------------------------------------------------------------
(* Menus. *)

\* A command was typed into the input; it says so in the conversation, or lists the
\* sessions, before its menu is shown.
Show(menu) ==
  /\ Idle /\ inbox = <<>> /\ current = "input"
  /\ next' = menu
  /\ UNCHANGED <<current, mounted, removing, asking, remoteAsks, rewinding, chosen, selecting, inbox,
                 shown, overlapped, swept>>

Close(menu) == Posts(menu, "closed")
OpenPicker == Posts("config", "opened")

\* The settings are saved, and the input is back; or the picker follows.
Closed ==
  /\ Idle /\ inbox # <<>> /\ Head(inbox) \in {"closed", "opened"}
  /\ SwitchToInput("app")
  /\ next' = IF Head(inbox) = "opened" THEN "picker" ELSE "none"
  /\ inbox' = Tail(inbox)
  /\ UNCHANGED <<mounted, asking, remoteAsks, rewinding, chosen, selecting, shown, overlapped, swept>>

\* Unless it is shown.
Follow ==
  /\ next # "none" /\ removing["app"] = 0
  /\ next' = "none"
  /\ \/ current # next /\ SwitchFromInput(next)
     \/ current = next /\ UNCHANGED <<current, mounted, shown, overlapped, swept>>
  /\ UNCHANGED <<removing, asking, remoteAsks, rewinding, chosen, selecting, inbox>>

-----------------------------------------------------------------------------
(* Prompts: _approval_callback and _user_input_callback, one at a time. *)

Ask(who) ==
  /\ asking = Nobody
  /\ asking' = [who |-> who, now |-> "asked"]
  /\ SwitchFromInput("prompt")
  /\ UNCHANGED <<removing, remoteAsks, rewinding, chosen, selecting, inbox, next>>

Answer == Posts("prompt", "answered")

\* Only a prompt that still waits takes the answer.
Answered ==
  /\ Idle /\ inbox # <<>> /\ Head(inbox) = "answered"
  /\ inbox' = Tail(inbox)
  /\ asking' = IF asking.now = "asked" THEN [asking EXCEPT !.now = "answered"] ELSE asking
  /\ UNCHANGED <<current, mounted, removing, remoteAsks, rewinding, chosen, selecting, next, shown,
                 overlapped, swept>>

\* Mutant: the panel is left to whoever is next.
ReturnsWithoutPanel ==
  /\ asking.now = "answered" /\ removing["asker"] = 0
  /\ current' = "input" /\ asking' = Nobody
  /\ UNCHANGED <<mounted, removing, remoteAsks, rewinding, chosen, selecting, inbox, next, shown,
                 overlapped, swept>>

\* The lock is held until the input is back.
Returns ==
  /\ asking.now = "answered" /\ SwitchToInput("asker")
  /\ asking' = [asking EXCEPT !.now = "closing"]
  /\ UNCHANGED <<mounted, remoteAsks, rewinding, chosen, selecting, inbox, next, shown, overlapped, swept>>

Unlocks ==
  /\ asking.now = "closing" /\ removing["asker"] = 0
  /\ asking' = Nobody
  /\ UNCHANGED <<current, mounted, removing, remoteAsks, rewinding, chosen, selecting, inbox, next,
                 shown, overlapped, swept>>

\* Escape in the input interrupts the turn, which answers what the turn has asked.
Interrupt ==
  /\ Idle /\ inbox = <<>> /\ current = "input"
  /\ asking = [who |-> "turn", now |-> "asked"]
  /\ asking' = [asking EXCEPT !.now = "answered"]
  /\ UNCHANGED <<current, mounted, removing, remoteAsks, rewinding, chosen, selecting, inbox, next,
                 shown, overlapped, swept>>

-----------------------------------------------------------------------------
(* A remote session waits for input: with a question, or for the input. *)

RemoteWaits ==
  /\ ~remoteAsks /\ removing["stream"] = 0
  /\ remoteAsks' = TRUE
  /\ SwitchFromInput("remote")
  /\ UNCHANGED <<removing, asking, rewinding, chosen, selecting, inbox, next>>

RemoteTakesInput ==
  /\ ~remoteAsks /\ shown < MaxPanels /\ SwitchToInput("stream")
  /\ shown' = shown + 1
  /\ overlapped' = (overlapped \/ mounted # {} \/ Closing) /\ UNCHANGED swept
  /\ UNCHANGED <<mounted, asking, remoteAsks, rewinding, chosen, selecting, inbox, next>>

AnswerRemote == Posts("remote", "remote")

\* Sent or cancelled; the input is back.
RemoteAnswered ==
  /\ Idle /\ inbox # <<>> /\ Head(inbox) = "remote"
  /\ inbox' = Tail(inbox)
  /\ \/ remoteAsks /\ remoteAsks' = FALSE /\ SwitchToInput("app")
     \/ ~remoteAsks /\ UNCHANGED <<remoteAsks, current, removing>>
  /\ UNCHANGED <<mounted, asking, rewinding, chosen, selecting, next, shown, overlapped, swept>>

-----------------------------------------------------------------------------
(* Rewinding, unless a turn runs. *)

\* Ctrl+P and Ctrl+N, in any panel: a message is chosen by a worker.
Rewind ==
  /\ Idle /\ inbox = <<>> /\ selecting = "no" /\ shown < MaxPanels
  /\ asking.who # "turn"
  /\ rewinding' = TRUE /\ selecting' = "called"
  /\ UNCHANGED <<current, mounted, removing, asking, remoteAsks, chosen, inbox, next, shown,
                 overlapped, swept>>

\* Its panel is shown, kept, or replaced by one with other options.
Select ==
  /\ selecting = "called"
  /\ chosen' = TRUE
  /\ \/ current = "rewind" /\ selecting' = "no" /\ UNCHANGED <<current, mounted, shown, overlapped, swept>>
     \/ /\ current = "rewind" /\ selecting' = "replacing" /\ mounted' = mounted \ {"rewind"}
        /\ UNCHANGED <<current, shown, overlapped, swept>>
     \/ /\ current # "rewind" /\ selecting' = "no"
        /\ shown < MaxPanels /\ "rewind" \notin mounted
        /\ current' = "rewind" /\ mounted' = mounted \cup {"rewind"} /\ shown' = shown + 1
        /\ overlapped' = (overlapped \/ mounted # {} \/ Closing \/ inbox # <<>>)
        /\ swept' = (swept \/ Closing)
  /\ UNCHANGED <<removing, asking, remoteAsks, rewinding, inbox, next>>

Replaced ==
  /\ selecting = "replacing" /\ selecting' = "no"
  /\ current' = "rewind" /\ mounted' = mounted \cup {"rewind"}
  /\ overlapped' = (overlapped \/ mounted # {} \/ Closing \/ inbox # <<>> \/ current # "rewind")
  /\ swept' = (swept \/ Closing)
  /\ UNCHANGED <<removing, asking, remoteAsks, rewinding, chosen, inbox, next, shown>>

\* Escape in its panel.
ExitRewind ==
  /\ Idle /\ inbox = <<>> /\ current = "rewind" /\ SwitchToInput("worker")
  /\ rewinding' = FALSE /\ chosen' = FALSE
  /\ overlapped' = (overlapped \/ selecting # "no") /\ UNCHANGED swept
  /\ UNCHANGED <<mounted, asking, remoteAsks, selecting, inbox, next, shown>>

PickRewind == Posts("rewind", "rewind")

\* _execute_rewind; if it fails the panel stays.
ExecuteRewind ==
  /\ Idle /\ inbox # <<>> /\ Head(inbox) = "rewind"
  /\ inbox' = Tail(inbox)
  /\ \/ /\ rewinding /\ chosen /\ SwitchToInput("app")
        /\ rewinding' = FALSE /\ chosen' = FALSE
        /\ overlapped' = (overlapped \/ selecting # "no") /\ UNCHANGED swept
     \/ UNCHANGED <<rewinding, chosen, current, removing, overlapped, swept>>
  /\ UNCHANGED <<mounted, asking, remoteAsks, selecting, next, shown>>

-----------------------------------------------------------------------------
PanelNext ==
  \/ \E menu \in {"config", "picker"} : Show(menu) \/ Close(menu)
  \/ OpenPicker \/ Closed \/ Follow
  \/ (\E who \in {"turn", "teleport"} : Ask(who)) \/ Answer \/ Answered \/ Returns \/ Unlocks
  \/ Interrupt
  \/ RemoteWaits \/ RemoteTakesInput \/ AnswerRemote \/ RemoteAnswered
  \/ Rewind \/ Select \/ Replaced \/ ExitRewind \/ PickRewind \/ ExecuteRewind
  \/ \E t \in Tasks : Remove(t)

Spec == Init /\ [][PanelNext]_panelVars

-----------------------------------------------------------------------------
(* Properties. *)

TypeOK ==
  /\ current \in Panels \cup {"input"} /\ mounted \subseteq Panels
  /\ removing \in [Tasks -> 0..Len(Order)]
  /\ asking.now \in {"idle", "asked", "answered", "closing"}
  /\ {remoteAsks, rewinding, chosen, overlapped, swept} \subseteq BOOLEAN
  /\ selecting \in {"no", "called", "replacing"} /\ next \in {"none", "config", "picker"}
  /\ shown \in 0..MaxPanels /\ Len(inbox) <= MaxPosted

AtRest == ~Closing /\ inbox = <<>> /\ next = "none" /\ selecting = "no" /\ asking.now # "answered"

\* With the input no panel is left, whatever was opened and closed meanwhile.
InputAlone == AtRest /\ current = "input" => mounted = {}

\* As long as no panel was opened over another: what is current is what is there, who
\* asks has the panel, and rewinding goes on exactly while its panel is there.
PanelsAgree ==
  AtRest /\ ~overlapped =>
    /\ mounted = {current} \ {"input"}
    /\ asking.now = "asked" <=> current = "prompt"
    /\ remoteAsks => current = "remote"
    /\ rewinding <=> current = "rewind"

\* A turn never waits for an answer that can neither be given nor refused, unless its
\* panel was opened while another was being taken away.
TurnAnswerable ==
  AtRest /\ ~swept /\ asking = [who |-> "turn", now |-> "asked"] => current \in mounted \cup {"input"}

PanelsSafe == InputAlone /\ PanelsAgree /\ TurnAnswerable
=============================================================================
