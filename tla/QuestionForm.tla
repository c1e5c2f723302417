---------------------------- MODULE QuestionForm ----------------------------
(***************************************************************************)
(* The form in which the user answers the questions of a tool: QuestionApp  *)
(* (vibe/cli/textual_ui/widgets/question_app.py), for the questions of      *)
(* ask_user_question.py.                                                   *)
(*                                                                         *)
(* The form and its text field are two widgets with a queue each.  What the *)
(* field reports ("changed", "submitted") waits in `inbox`, and a change of *)
(* the focus waits in `wanted`, while the user presses further keys.       *)
(***************************************************************************)
EXTENDS Integers, Sequences, FiniteSets

CONSTANTS
  Count,        \* how many questions
  Multi,        \* those that take several answers
  Hidden,       \* those without the option "other"
  MaxKeys       \* keys the user presses

VARIABLES
  form,         \* the widget QuestionApp
  field,        \* its text field
  posted,       \* what was sent to the application: "none", "cancelled" or "answers"
  keys,         \* keys pressed
  confirmed     \* history: what the user confirmed for each question, and where a tick was misread

questionVars == <<form, field, posted, keys, confirmed>>

QuestionAssumption == Count \in Nat \ {0} /\ Multi \subseteq 1..Count /\ Hidden \subseteq 1..Count /\ MaxKeys \in Nat

Questions == 1..Count
Options == 0..1                         \* every question has two options
OtherOf(q) == IF q \in Hidden THEN -1 ELSE 2
SubmitOf(q) == IF q \notin Multi THEN -1 ELSE IF q \in Hidden THEN 2 ELSE 3
Total(q) == 2 + (IF q \in Hidden THEN 0 ELSE 1) + (IF q \in Multi THEN 1 ELSE 0)

\* An answer: the options, and whether the text is part of it.
Unanswered == [options |-> {}, other |-> FALSE]
Answer == [options: SUBSET Options, other: BOOLEAN]

OnOther(f) == f.index \notin Hidden /\ f.cursor = OtherOf(f.index)
OnSubmit(f) == f.index \in Multi /\ f.cursor = SubmitOf(f.index)

Init ==
  /\ form = [index |-> 1, cursor |-> 0, answers |-> [q \in Questions |-> Unanswered],
             picked |-> [q \in Questions |-> {}], texts |-> [q \in Questions |-> FALSE]]
  /\ field = [text |-> FALSE, focus |-> FALSE, wanted |-> FALSE, inbox |-> <<>>]
  /\ posted = "none" /\ keys = 0
  /\ confirmed = [shown |-> [q \in Questions |-> {}], misread |-> {}]

(* _update_display: the field shows the text kept for the question, which  *)
(* reports a change if it is another; the focus goes to the field or back. *)
Displayed(f, d) ==
  LET kept == f.texts[f.index]
      shows == f.index \notin Hidden
  IN [d EXCEPT !.text = IF shows THEN kept ELSE @,
               !.inbox = IF shows /\ d.text # kept THEN Append(@, "changed") ELSE @,
               !.wanted = shows /\ OnOther(f)]

Show(f) == form' = f /\ field' = Displayed(f, field)

(* _restore_cursor and _switch_question.                                   *)
Smallest(S) == CHOOSE i \in S: \A j \in S: i <= j
Cursor(f, q) ==
  IF q \in Multi THEN IF f.picked[q] = {} THEN 0 ELSE Smallest(f.picked[q])
  ELSE IF f.answers[q].other THEN 2
  ELSE IF f.answers[q].options = {} THEN 0 ELSE Smallest(f.answers[q].options)

Switched(f, q) == [f EXCEPT !.index = q, !.cursor = Cursor(f, q)]

(* _save_current_answer.  Index -1 of a list is its last element.          *)
Chosen(f) ==
  LET q == f.index IN
  IF q \in Multi
  THEN [options |-> {IF i = -1 THEN 1 ELSE i: i \in f.picked[q] \cap -1..1}, other |-> 2 \in f.picked[q] /\ f.texts[q]]
  ELSE [options |-> IF OnOther(f) THEN {} ELSE {f.cursor}, other |-> OnOther(f) /\ f.texts[q]]

(* What the form shows of that: not the tick at -1.                        *)
Misread(f) == -1 \in f.picked[f.index]
Visible(f) == IF Misread(f) THEN [Chosen(f) EXCEPT !.options = f.picked[f.index] \cap Options] ELSE Chosen(f)

Saved(f) == IF Chosen(f) = Unanswered THEN f ELSE [f EXCEPT !.answers[f.index] = Chosen(f)]

(* _advance_or_submit: the next question without an answer, in a circle.   *)
Open(f) == {q \in Questions: f.answers[q] = Unanswered}
NextOpenAhead(f) ==
  LET after == {q \in Open(f): q > f.index} IN Smallest(IF after # {} THEN after ELSE Open(f))

AdvanceUnasked(f) ==
  IF f.answers[Count] # Unanswered
  THEN posted' = "answers" /\ form' = f /\ UNCHANGED field
  ELSE UNCHANGED posted /\ Show(Switched(f, NextOpenAhead(f)))

Advance(f) ==
  IF Open(f) = {}
  THEN posted' = "answers" /\ form' = f /\ UNCHANGED field
  ELSE UNCHANGED posted /\ Show(Switched(f, NextOpenAhead(f)))

Confirmed(f) ==
  confirmed' = [shown |-> [confirmed.shown EXCEPT ![f.index] = @ \cup ({Visible(f)} \ {Unanswered})],
                misread |-> confirmed.misread \cup (IF Misread(f) THEN {f.index} ELSE {})]

Confirm(f) == Advance(Saved(f)) /\ Confirmed(f)

-----------------------------------------------------------------------------
(* Keys.  They stop once the answers are on their way: the application     *)
(* takes the first ones (on_question_app_answered).                        *)
Pressed == posted = "none" /\ keys < MaxKeys /\ keys' = keys + 1

Toggled(f, i) ==
  [f EXCEPT !.picked[f.index] = IF i \in @ THEN @ \ {i} ELSE @ \cup {i}]

(* Enter on the form: action_select.                                       *)
Select(f) ==
  IF OnOther(f) /\ ~(f.index \notin Multi /\ f.texts[f.index])
  THEN form' = f /\ field' = [Displayed(f, field) EXCEPT !.wanted = TRUE] /\ UNCHANGED <<posted, confirmed>>
  ELSE IF f.index \in Multi /\ ~OnSubmit(f)
  THEN Show(Toggled(f, f.cursor)) /\ UNCHANGED <<posted, confirmed>>
  ELSE Confirm(f)

Enter == Pressed /\ ~field.focus /\ Select(form)

(* A number selects its option, unless the field takes it as text.         *)
Number(i) ==
  /\ Pressed /\ ~field.focus /\ i \in 0..(IF form.index \in Hidden THEN 1 ELSE 2)
  /\ LET f == [form EXCEPT !.cursor = i] IN
     IF OnOther(f) THEN Show(f) /\ UNCHANGED <<posted, confirmed>> ELSE Select(f)

(* Up and down work in the field, too.                                     *)
MoveCursor(step) ==
  /\ Pressed
  /\ Show([form EXCEPT !.cursor = (@ + step) % Total(form.index)])
  /\ UNCHANGED <<posted, confirmed>>

(* Left and right, on the form only; right does not leave an empty text.   *)
Turn(step) ==
  /\ Pressed /\ Count > 1 /\ ~field.focus
  /\ step = 1 => ~(OnOther(form) /\ ~form.texts[form.index])
  /\ Show(Switched(form, ((form.index - 1 + step) % Count) + 1))
  /\ UNCHANGED <<posted, confirmed>>

(* The user fills or empties the field, or presses Enter in it.            *)
Type ==
  /\ Pressed /\ field.focus
  /\ field' = [field EXCEPT !.text = ~@, !.inbox = Append(@, "changed")]
  /\ UNCHANGED <<form, posted, confirmed>>

EnterText ==
  /\ Pressed /\ field.focus
  /\ field' = [field EXCEPT !.inbox = Append(@, "submitted")]
  /\ UNCHANGED <<form, posted, confirmed>>

Escape ==
  /\ Pressed
  /\ posted' = "cancelled"
  /\ UNCHANGED <<form, field, confirmed>>

-----------------------------------------------------------------------------
(* What the field reported arrives.                                        *)
Arrives(what) == posted = "none" /\ field.inbox # <<>> /\ Head(field.inbox) = what
Rest == [field EXCEPT !.inbox = Tail(@)]

(* on_input_changed: the text is kept, and "other" follows it.             *)
Synced(f) ==
  IF f.index \notin Multi THEN f
  ELSE [f EXCEPT !.picked[f.index] =
          IF field.text THEN @ \cup {OtherOf(f.index)} ELSE @ \ {OtherOf(f.index)}]

Changed ==
  /\ Arrives("changed")
  /\ LET f == Synced([form EXCEPT !.texts[form.index] = field.text]) IN
     form' = f /\ field' = Displayed(f, Rest)
  /\ UNCHANGED <<posted, keys, confirmed>>

(* on_input_submitted, for a text that is not blank.                       *)
Submitted ==
  /\ Arrives("submitted")
  /\ IF ~field.text THEN field' = Rest /\ UNCHANGED <<form, posted, confirmed>>
     ELSE IF form.index \in Multi
     THEN LET f == [form EXCEPT !.cursor = SubmitOf(form.index)] IN
          form' = f /\ field' = Displayed(f, Rest) /\ UNCHANGED <<posted, confirmed>>
     ELSE LET f == Saved(form) IN
          /\ Confirmed(form)
          /\ IF Open(f) = {} THEN posted' = "answers" /\ form' = f /\ field' = Rest
             ELSE LET g == Switched(f, NextOpenAhead(f)) IN
                  UNCHANGED posted /\ form' = g /\ field' = Displayed(g, Rest)
  /\ UNCHANGED keys

(* The focus moves (Widget.focus is called later).                         *)
Focus ==
  /\ posted = "none" /\ field.focus # field.wanted
  /\ field' = [field EXCEPT !.focus = field.wanted]
  /\ UNCHANGED <<form, posted, keys, confirmed>>

QuestionNext ==
  \/ Enter \/ Type \/ EnterText \/ Escape \/ Changed \/ Submitted \/ Focus
  \/ \E i \in 0..2: Number(i)
  \/ \E step \in {1, -1}: MoveCursor(step) \/ Turn(step)

Spec == Init /\ [][QuestionNext]_questionVars

-----------------------------------------------------------------------------
\* Every variable has its type (the fields of QuestionApp).
TypeOK ==
  /\ form.index \in Questions /\ form.cursor \in -1..3
  /\ form.answers \in [Questions -> Answer]
  /\ form.picked \in [Questions -> SUBSET (-1..2)] /\ form.texts \in [Questions -> BOOLEAN]
  /\ field.inbox \in Seq({"changed", "submitted"})
  /\ keys \in 0..MaxKeys

(* What is sent answers every question, each with what the form showed for *)
(* it when the user confirmed it.  (Not always what it shows at the end: an *)
(* answer is not changed by ticks that are not submitted.  And a text that *)
(* arrives when a question without "other" is shown ticks option -1: if    *)
(* that is confirmed, it is sent as the last option.)                      *)
QuestionSafe ==
  posted = "answers" =>
    \A q \in Questions:
      /\ form.answers[q] # Unanswered
      /\ form.answers[q] \in confirmed.shown[q] \/ q \in confirmed.misread \cap Multi \cap Hidden
=============================================================================
