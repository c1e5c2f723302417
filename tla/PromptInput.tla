---------------------------- MODULE PromptInput ----------------------------
(***************************************************************************)
(* The line in which the user writes a prompt: ChatTextArea, ChatInputBody  *)
(* and ChatInputContainer (vibe/cli/textual_ui/widgets/chat_input), the     *)
(* history of prompts (vibe/cli/history_manager.py) and the suggestions of  *)
(* commands (vibe/cli/autocompletion/slash_command.py).                     *)
(*                                                                         *)
(* The text area, the body and the application each work through a queue,  *)
(* so that keys can come before what earlier ones caused has happened.     *)
(***************************************************************************)
EXTENDS Naturals, Sequences, FiniteSets

CONSTANTS
  MaxKeys,      \* keys the user presses
  MaxEntries    \* entries the history keeps

VARIABLES
  area,         \* the text area
  menu,         \* the commands that are suggested: which one is selected, or 0
  history,      \* the entries, the position in them and the draft that was left
  changed,      \* Changed events on their way to the text area
  toBody,       \* messages on their way to the body
  toApp,        \* prompts on their way to the application
  switching,    \* the agent is being switched
  keys,         \* keys pressed
  draft         \* history variable: what was written when the navigation began

promptVars == <<area, menu, history, changed, toBody, toApp, switching, keys, draft>>

InputAssumption == MaxKeys \in Nat /\ MaxEntries \in Nat \ {0}

(* The line is a mode, which stands before the text, and the text.  "/ab"  *)
(* and "/ac" are the commands.                                             *)
Modes == {">", "!", "/"}
NoText == "none"
Texts == {NoText, "a", "ab", "ac"}
Value(mode, text) == <<mode, text>>
Blank == Value(">", NoText)
Commands == <<"ab", "ac">>
Off == 0                                \* the position outside of the history

Init ==
  /\ area = [mode |-> ">", text |-> NoText, last |-> NoText, original |-> NoText, loaded |-> FALSE, moved |-> FALSE,
             navigating |-> FALSE]
  /\ menu = 0
  /\ history \in [entries: {<<>>, <<Value("!", "a")>>, <<Value(">", "ab"), Value("/", "ac")>>},
                  index: {Off}, temp: {NoText}]
  /\ Len(history.entries) <= MaxEntries
  /\ changed = 0 /\ toBody = <<>> /\ toApp = <<>>
  /\ switching = FALSE /\ keys = 0 /\ draft = Blank

\* What an instance that does not run begins with.
StartsEmpty == history.entries = <<>>

(* on_text_changed of the command suggestions: none for a whole command.   *)
Suggested(mode, text) == IF mode = "/" /\ text \in {NoText, "a"} THEN 1 ELSE 0

Fresh(a) == [a EXCEPT !.original = NoText, !.loaded = FALSE, !.moved = FALSE]

(* Every change of the text announces itself to the text area.             *)
Replace(text) == IF text = area.text THEN UNCHANGED changed ELSE changed' = changed + 1

Pressed == keys < MaxKeys /\ keys' = keys + 1

-----------------------------------------------------------------------------
(* Keys that change the line.                                              *)

(* A character, also one that was dictated or pasted.                      *)
Type(text) ==
  /\ Pressed
  /\ \/ area.text = NoText /\ text = "a"
     \/ area.text = "a" /\ text \in {"ab", "ac", NoText}
     \/ area.text \in {"ab", "ac"} /\ text = "a"
  /\ area' = [area EXCEPT !.text = text, !.moved = @ \/ area.loaded]
  /\ Replace(text)
  /\ UNCHANGED <<menu, history, toBody, toApp, switching, draft>>

(* "!" and "/" in an empty line, and backspace there, change the mode.     *)
SetMode(mode) ==
  /\ Pressed /\ area.text = NoText /\ area.mode # mode
  /\ area.mode = ">" \/ mode = ">"
  /\ area' = [area EXCEPT !.mode = mode]
  /\ menu' = Suggested(mode, NoText)
  /\ UNCHANGED <<history, changed, toBody, toApp, switching, draft>>

(* The cursor leaves the place where an entry was loaded.                  *)
MoveCursor ==
  /\ Pressed /\ area.loaded /\ ~area.moved
  /\ area' = [area EXCEPT !.moved = TRUE]
  /\ UNCHANGED <<menu, history, changed, toBody, toApp, switching, draft>>

(* The external editor clears the line and inserts its result.             *)
Edit(text) ==
  /\ Pressed
  /\ area' = [area EXCEPT !.text = text, !.moved = @ \/ area.loaded]
  /\ Replace(text)
  /\ UNCHANGED <<menu, history, toBody, toApp, switching, draft>>

(* on_text_area_changed: a change that is not the navigation's ends it.    *)
Changed ==
  /\ changed > 0 /\ changed' = changed - 1
  /\ LET edited == ~area.navigating /\ area.text # area.last
         a == IF edited THEN Fresh(area) ELSE area
     IN /\ area' = [a EXCEPT !.last = area.text, !.navigating = FALSE]
        /\ toBody' = IF edited THEN Append(toBody, [kind |-> "reset", value |-> Blank]) ELSE toBody
        /\ menu' = IF area.navigating THEN menu ELSE Suggested(area.mode, area.text)
  /\ UNCHANGED <<history, toApp, switching, keys, draft>>

-----------------------------------------------------------------------------
(* Suggestions.                                                            *)

MoveSelection == Pressed /\ menu # 0 /\ menu' = 3 - menu
              /\ UNCHANGED <<area, history, changed, toBody, toApp, switching, draft>>

(* _apply_selected_completion: the line is the command.                    *)
Completed(a) == [Fresh(a) EXCEPT !.text = Commands[menu], !.last = Commands[menu]]

Tab ==
  /\ Pressed /\ menu # 0 /\ area.mode = "/"
  /\ area' = Completed(area) /\ Replace(Commands[menu]) /\ menu' = 0
  /\ UNCHANGED <<history, toBody, toApp, switching, draft>>

(* Enter sends the line, after it was completed.                           *)
Send(a) ==
  toBody' = IF a.text = NoText /\ a.mode = ">" THEN toBody
            ELSE Append(toBody, [kind |-> "submitted", value |-> Value(a.mode, a.text)])

Enter ==
  /\ Pressed
  /\ IF menu # 0 /\ area.mode = "/"
     THEN /\ area' = Completed(area) /\ Replace(Commands[menu]) /\ menu' = 0 /\ Send(Completed(area))
     ELSE Send(area) /\ UNCHANGED <<area, menu, changed>>
  /\ UNCHANGED <<history, toApp, switching, draft>>

-----------------------------------------------------------------------------
(* Navigation in the history.                                              *)

Navigate(kind) ==
  /\ Pressed /\ menu = 0
  /\ area' = [area EXCEPT !.navigating = TRUE]
  /\ toBody' = Append(toBody, [kind |-> kind, value |-> Blank])
  /\ UNCHANGED <<menu, history, changed, toApp, switching, draft>>

Up == Navigate("previous")
Down == area.loaded /\ Navigate("next")

(* _load_history_entry; its mode is read off the entry.                    *)
Load(value) ==
  /\ area' = [area EXCEPT !.mode = value[1], !.text = value[2], !.loaded = TRUE, !.moved = FALSE, !.navigating = TRUE,
                          !.original = IF history.index = Off THEN area.text ELSE @]
  /\ Replace(value[2])
  /\ menu' = 0

Arrives(kind) == toBody # <<>> /\ Head(toBody).kind = kind /\ toBody' = Tail(toBody)

(* get_previous: the draft is kept when the navigation begins.             *)
PreviousKeepingLast ==
  LET at == IF history.index = Off THEN Len(history.entries) + 1 ELSE history.index IN
  /\ Arrives("previous")
  /\ history' = [history EXCEPT !.temp = area.text, !.index = IF history.entries = <<>> THEN Off ELSE IF at > 1 THEN at - 1 ELSE at]
  /\ draft' = IF history.index = Off THEN Value(area.mode, area.text) ELSE draft
  /\ IF at > 1 THEN Load(history.entries[at - 1])
     ELSE UNCHANGED <<menu, changed>> /\ area' = [area EXCEPT !.original = IF history.index = Off THEN area.text ELSE @]
  /\ UNCHANGED <<toApp, switching, keys>>

Previous ==
  LET at == IF history.index = Off THEN Len(history.entries) + 1 ELSE history.index
      original == IF history.index = Off THEN area.text ELSE area.original
  IN
  /\ Arrives("previous")
  /\ history' = IF history.entries = <<>> THEN history
                ELSE [history EXCEPT !.temp = IF history.index = Off THEN original ELSE @,
                                     !.index = IF at > 1 THEN at - 1 ELSE at]
  /\ draft' = IF history.index = Off THEN Value(area.mode, area.text) ELSE draft
  /\ IF at > 1 THEN Load(history.entries[at - 1])
     ELSE UNCHANGED <<menu, changed>> /\ area' = [area EXCEPT !.original = original]
  /\ UNCHANGED <<toApp, switching, keys>>

(* get_next: past the last entry comes the draft, in the mode ">".         *)
Next ==
  /\ Arrives("next")
  /\ IF history.index = Off THEN UNCHANGED <<area, menu, changed, history>>
     ELSE IF history.index < Len(history.entries)
     THEN history' = [history EXCEPT !.index = @ + 1] /\ Load(history.entries[history.index + 1])
     ELSE history' = [history EXCEPT !.index = Off, !.temp = NoText] /\ Load(Value(">", history.temp))
  /\ UNCHANGED <<toApp, switching, keys, draft>>

ResetKeepsPlace ==
  /\ Arrives("reset")
  /\ area' = Fresh(area)
  /\ UNCHANGED <<menu, history, changed, toApp, switching, keys, draft>>

Reset ==
  /\ Arrives("reset")
  /\ history' = [history EXCEPT !.index = Off, !.temp = NoText] /\ area' = Fresh(area)
  /\ UNCHANGED <<menu, changed, toApp, switching, keys, draft>>

-----------------------------------------------------------------------------
(* Submission.                                                             *)

(* HistoryManager.add: no entry twice in a row, and only the newest.       *)
Added(entries, value) ==
  IF entries # <<>> /\ entries[Len(entries)] = value THEN entries
  ELSE LET all == Append(entries, value) IN
       IF Len(all) > MaxEntries THEN Tail(all) ELSE all

(* The body takes it, unless the agent is being switched, and clears the   *)
(* line.                                                                   *)
Submit ==
  /\ Arrives("submitted")
  /\ IF switching THEN UNCHANGED <<area, menu, changed, history, toApp>>
     ELSE LET value == Head(toBody).value IN
          /\ history' = [entries |-> Added(history.entries, value), index |-> Off, temp |-> NoText]
          /\ area' = [Fresh(area) EXCEPT !.text = NoText, !.last = NoText, !.mode = ">"]
          /\ Replace(NoText) /\ menu' = 0
          /\ toApp' = Append(toApp, value)
  /\ UNCHANGED <<switching, keys, draft>>

(* The application takes it, and clears the line again.                    *)
Take ==
  /\ toApp # <<>> /\ toApp' = Tail(toApp)
  /\ area' = [area EXCEPT !.mode = ">", !.text = NoText]
  /\ Replace(NoText) /\ menu' = 0
  /\ UNCHANGED <<history, toBody, switching, keys, draft>>

Switching ==
  /\ switching \/ keys < MaxKeys
  /\ switching' = ~switching
  /\ UNCHANGED <<area, menu, history, changed, toBody, toApp, keys, draft>>

PromptNext ==
  \/ \E text \in Texts: Type(text) \/ (text \in {NoText, "ab"} /\ Edit(text))
  \/ \E mode \in Modes: SetMode(mode)
  \/ MoveCursor \/ MoveSelection \/ Tab \/ Enter \/ Up \/ Down
  \/ Changed \/ Previous \/ Next \/ Reset \/ Submit \/ Take \/ Switching

Spec == Init /\ [][PromptNext]_promptVars

-----------------------------------------------------------------------------
Kinds == {"previous", "next", "reset", "submitted"}

\* Every variable has its type (the fields of ChatTextArea and HistoryManager).
TypeOK ==
  /\ area.mode \in Modes /\ area.text \in Texts /\ area.last \in Texts /\ area.original \in Texts
  /\ menu \in 0..2 /\ changed \in Nat /\ keys \in 0..MaxKeys
  /\ history.entries \in Seq(Modes \X Texts) /\ Len(history.entries) <= MaxEntries
  /\ history.index \in 0..Len(history.entries) /\ history.temp \in Texts
  /\ \A i \in 1..Len(toBody): toBody[i].kind \in Kinds

(* While the history is shown, the draft that waits is what was written    *)
(* when the navigation began, however many entries were looked at, and     *)
(* whatever was typed, completed or sent before it arrived.                *)
DraftWaits == history.index # Off => history.temp = draft[2]

(* Commands are suggested only while one is written.  (Not always the ones *)
(* that fit: "up" where the history has nothing more to show leaves        *)
(* `navigating` set, and the next change is not looked at.)                *)
MenuFits == menu # 0 => area.mode = "/"

\* The line, the history and the menu agree (text_area.py, body.py,
\* history_manager.py, slash_command.py).
PromptSafe == DraftWaits /\ MenuFits

(* Who goes up in the history and down again finds what was written.       *)
DraftRestored ==
  [][history.index # Off /\ history'.index = Off /\ toBody # <<>> /\ Head(toBody).kind = "next"
       => Value(area'.mode, area'.text) = draft]_promptVars
=============================================================================
