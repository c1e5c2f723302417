------------------------------- MODULE Rewind -------------------------------
(***************************************************************************)
(* Rewinding the conversation, and the files with it (RewindManager).      *)
(*                                                                         *)
(* Every user message starts a checkpoint: the index the message gets and  *)
(* the contents of the files that tools are known to have changed.  A tool *)
(* that is about to write a file records it in every checkpoint that does  *)
(* not know it yet.  The user picks a message on the screen; the widget    *)
(* remembers an index in the conversation, taken when it was mounted.      *)
(*                                                                         *)
(* Meanwhile files change behind the manager's back (shell, user, a tool   *)
(* that was interrupted), placeholders for missing tool responses and      *)
(* results of `!` commands shift the conversation, and compaction replaces *)
(* it.                                                                     *)
(*                                                                         *)
(* Abstracted: all that is not a user message is one kind of message.      *)
(***************************************************************************)
EXTENDS Integers, Sequences, SequencesExt, FiniteSets

CONSTANTS
  Files,
  MaxPrompts,   \* bound: messages the user writes
  MaxEdits,     \* bound: changes of files
  MaxReplies,   \* bound: other messages
  MaxCommands   \* bound: `!` commands

ASSUME RewindAssumption ==
  {MaxPrompts, MaxEdits, MaxReplies, MaxCommands} \subseteq Nat

VARIABLES
  messages,     \* the conversation without the system message
  checkpoints,  \* _checkpoints
  disk,         \* the content of each file
  shown,        \* the message_index of each prompt's widget, 0 without widget
  pc,           \* "idle", "mounted", "turn" or "saving"
  dangling,     \* where a response is missing: after this message, 0 for none
  writing,      \* files whose tool has taken its snapshot and not written yet
  choice,       \* the rewind under way: its prompt, its index, restore_files, restore_errors
  used,         \* how much of each bound is used up
  original,     \* history: the files when each prompt was sent
  missed,       \* history: files changed while unknown to the checkpoints, or unreadable
  shifted       \* history: messages moved, or were replaced, under a widget

vars == <<messages, checkpoints, disk, shown, pc, dangling, writing, choice, used,
          original, missed, shifted>>

Prompts == 1..MaxPrompts
Reply == 0        \* an assistant or tool message
Context == -1     \* a user message without a widget: a summary, a `!` result
Absent == 0
Torn == MaxEdits + 1   \* what a write that failed half-way leaves
Contents == 0..Torn
NoChoice == [prompt |-> 0, index |-> 0, restore |-> FALSE, errors |-> {}]

TypeOK ==
  /\ messages \in Seq(Prompts \union {Reply, Context})
  /\ \A k \in DOMAIN checkpoints :
       /\ DOMAIN checkpoints[k].files \subseteq Files
       /\ checkpoints[k].files \in [DOMAIN checkpoints[k].files -> Contents]
  /\ disk \in [Files -> Contents]
  /\ shown \in [Prompts -> Nat]
  /\ pc \in {"idle", "mounted", "turn", "saving"}
  /\ dangling \in 0..Len(messages)
  /\ writing \subseteq Files
  /\ choice \in [prompt : 0..MaxPrompts, index : Nat, restore : BOOLEAN, errors : SUBSET Files]
  /\ used \in [prompts : 0..MaxPrompts, edits : 0..MaxEdits, replies : 0..MaxReplies,
               commands : 0..MaxCommands]
  /\ original \in [Prompts -> [Files -> Contents]]
  /\ missed \subseteq Files /\ shifted \in BOOLEAN

Init ==
  /\ messages = <<>> /\ checkpoints = <<>>
  /\ disk = [f \in Files |-> Absent]
  /\ shown = [u \in Prompts |-> 0]
  /\ pc = "idle" /\ dangling = 0 /\ writing = {} /\ choice = NoChoice
  /\ used = [prompts |-> 0, edits |-> 0, replies |-> 0, commands |-> 0]
  /\ original = [u \in Prompts |-> disk]
  /\ missed = {} /\ shifted = FALSE

-----------------------------------------------------------------------------
(* Checkpoints *)

Known == UNION {DOMAIN checkpoints[k].files : k \in DOMAIN checkpoints}

\* What reading a file for a snapshot returns; one that cannot be read counts as absent.
Reading(f) == {disk[f], Absent}

Readings(d) == {s \in [d -> Contents] : \A f \in d : s[f] \in Reading(f)}

Misread(s) == {f \in DOMAIN s : s[f] # disk[f]}

\* Mutant of CreateCheckpoint: the files are copied from the last checkpoint.
CreateCheckpointCopies(index) ==
  /\ checkpoints' = Append(checkpoints,
       [index |-> index,
        files |-> IF checkpoints = <<>> THEN <<>> ELSE Last(checkpoints).files])
  /\ UNCHANGED missed

CreateCheckpoint(index) ==
  LET known == IF checkpoints = <<>> THEN {} ELSE DOMAIN Last(checkpoints).files IN
  \E s \in Readings(known) :
    /\ checkpoints' = Append(checkpoints, [index |-> index, files |-> s])
    /\ missed' = missed \union Misread(s)

\* Mutant of AddSnapshot: only the current checkpoint gets the snapshot.
AddSnapshotToLast(f, content) ==
  checkpoints' = [k \in DOMAIN checkpoints |->
    IF k < Len(checkpoints) \/ f \in DOMAIN checkpoints[k].files THEN checkpoints[k]
    ELSE [checkpoints[k] EXCEPT !.files =
           [g \in DOMAIN @ \union {f} |-> IF g = f THEN content ELSE @[g]]]]

AddSnapshot(f, content) ==
  checkpoints' = [k \in DOMAIN checkpoints |->
    IF f \in DOMAIN checkpoints[k].files THEN checkpoints[k]
    ELSE [checkpoints[k] EXCEPT !.files =
           [g \in DOMAIN @ \union {f} |-> IF g = f THEN content ELSE @[g]]]]

-----------------------------------------------------------------------------
(* A turn *)

\* Mutant of Mount: the system message is not counted.
MountShort ==
  /\ pc = "idle" /\ used.prompts < MaxPrompts
  /\ used' = [used EXCEPT !.prompts = @ + 1]
  /\ shown' = [shown EXCEPT ![used.prompts + 1] = Len(messages)]
  /\ pc' = "mounted"
  /\ UNCHANGED <<messages, checkpoints, disk, dangling, writing, choice, original, missed, shifted>>

\* _handle_user_message shows the message before the turn starts.
Mount ==
  /\ pc = "idle" /\ used.prompts < MaxPrompts
  /\ used' = [used EXCEPT !.prompts = @ + 1]
  /\ shown' = [shown EXCEPT ![used.prompts + 1] = Len(messages) + 1]
  /\ pc' = "mounted"
  /\ UNCHANGED <<messages, checkpoints, disk, dangling, writing, choice, original, missed, shifted>>

\* act: fill in the missing response, start a checkpoint, append the message.
Act ==
  /\ pc = "mounted"
  /\ LET filled == IF dangling = 0 THEN messages
                   ELSE InsertAt(messages, dangling + 1, Reply)
     IN  /\ messages' = Append(filled, used.prompts)
         /\ CreateCheckpoint(Len(filled) + 1)
         /\ shifted' = (shifted \/ filled # messages)
  /\ original' = [original EXCEPT ![used.prompts] = disk]
  /\ dangling' = 0
  /\ pc' = "turn"
  /\ UNCHANGED <<disk, shown, writing, choice, used>>

Respond ==
  /\ pc = "turn" /\ used.replies < MaxReplies
  /\ used' = [used EXCEPT !.replies = @ + 1]
  /\ messages' = Append(messages, Reply)
  /\ UNCHANGED <<checkpoints, disk, shown, pc, dangling, writing, choice, original, missed, shifted>>

\* write_file or search_replace: the snapshot, before the tool runs.
BeginWrite(f) ==
  /\ pc = "turn" /\ f \notin writing
  /\ writing' = writing \union {f}
  /\ \E content \in Reading(f) :
       /\ AddSnapshot(f, content)
       /\ missed' = IF content # disk[f] THEN missed \union {f} ELSE missed
  /\ UNCHANGED <<messages, disk, shown, pc, dangling, choice, used, original, shifted>>

Change(f, content) ==
  /\ used.edits < MaxEdits
  /\ used' = [used EXCEPT !.edits = @ + 1]
  /\ disk' = [disk EXCEPT ![f] = content]
  /\ missed' = IF checkpoints # <<>> /\ f \notin Known THEN missed \union {f} ELSE missed
  /\ UNCHANGED <<messages, checkpoints, shown, pc, dangling, choice, original, shifted>>

\* The tool writes; it may have been interrupted long ago.
Write(f) ==
  /\ f \in writing
  /\ writing' = writing \ {f}
  /\ Change(f, used.edits + 1)

\* The user, or a command that the shell tool runs.
ChangeOutside(f) ==
  /\ Change(f, used.edits + 1) \/ Change(f, Absent)
  /\ UNCHANGED writing

\* The turn is over; after an interrupt a call may have no response yet, and a
\* thread may still write a file.
EndTurn ==
  /\ pc = "turn"
  /\ pc' = "idle"
  /\ writing' = {} \/ UNCHANGED writing
  /\ dangling' = 0 \/ (Last(messages) = Reply /\ dangling' = Len(messages))
  /\ UNCHANGED <<messages, checkpoints, disk, shown, choice, used, original, missed, shifted>>

InjectUserContext ==
  /\ used.commands < MaxCommands
  /\ used' = [used EXCEPT !.commands = @ + 1]
  /\ messages' = Append(messages, Context)
  /\ shifted' = (shifted \/ pc = "mounted")
  /\ UNCHANGED <<checkpoints, disk, shown, pc, dangling, writing, choice, original, missed>>

-----------------------------------------------------------------------------
(* Resets of the conversation clear the checkpoints. *)

Reset(ms) ==
  /\ messages' = ms
  /\ checkpoints' = <<>>
  /\ missed' = {}
  /\ dangling' = 0

Clear ==
  /\ pc = "idle" /\ messages # <<>>
  /\ Reset(<<>>)
  /\ shown' = [u \in Prompts |-> 0]
  /\ shifted' = FALSE
  /\ UNCHANGED <<disk, pc, writing, choice, used, original>>

\* By the user or, between two requests of a turn, by the middleware.
Compact ==
  /\ pc \in {"idle", "turn"} /\ Len(messages) > 1
  /\ Reset(<<Context>>)
  /\ shifted' = TRUE
  /\ UNCHANGED <<disk, shown, pc, writing, choice, used, original>>

-----------------------------------------------------------------------------
(* rewind_to_message *)

HasCheckpoint(i) == \E k \in DOMAIN checkpoints : checkpoints[k].index = i

CheckpointAt(i) ==
  checkpoints[CHOOSE k \in DOMAIN checkpoints :
    /\ checkpoints[k].index = i
    /\ \A j \in 1..(k - 1) : checkpoints[j].index # i]

\* _restore_checkpoint: what fails for one file is an error, and the others are restored.
\* A file that cannot be deleted stays; one that cannot be written stays, or is cut short.
RestoreCheckpoint(s, errors) ==
  \E cut \in SUBSET {f \in errors : s[f] # Absent} :
    disk' = [f \in Files |->
               IF f \in cut THEN Torn
               ELSE IF f \in DOMAIN s \ errors THEN s[f] ELSE disk[f]]

\* Only what is there is deleted.
MayFail(s) == {f \in DOMAIN s : s[f] # Absent \/ disk[f] # Absent}

\* The prompt's widget gives the index.  An index without a user message is an error.
Rewind(u, restore) ==
  /\ pc = "idle"
  /\ shown[u] \in 1..Len(messages)
  /\ messages[shown[u]] # Reply
  /\ LET s == IF restore /\ HasCheckpoint(shown[u]) THEN CheckpointAt(shown[u]).files
              ELSE [f \in {} |-> Absent]
     IN  \E errors \in SUBSET MayFail(s) :
           /\ choice' = [prompt |-> u, index |-> shown[u], restore |-> restore, errors |-> errors]
           /\ RestoreCheckpoint(s, errors)
  /\ pc' = "saving"
  /\ UNCHANGED <<messages, checkpoints, shown, dangling, writing, used, original, missed, shifted>>

\* The session cannot be saved: the files are restored, the conversation is not cut.
SaveFails ==
  /\ pc = "saving"
  /\ pc' = "idle"
  /\ UNCHANGED <<messages, checkpoints, disk, shown, dangling, writing, choice, used,
                 original, missed, shifted>>

\* The nth number of a set.
Nth(S, n) == CHOOSE k \in S : Cardinality({j \in S : j <= k}) = n

\* The checkpoints of the messages before one, in their order.
Before(i) ==
  LET S == {k \in DOMAIN checkpoints : checkpoints[k].index < i}
  IN  [n \in 1..Cardinality(S) |-> checkpoints[Nth(S, n)]]

\* Mutant of Truncate: a missing response that is cut off is still looked for.
TruncateKeepsDangling ==
  /\ pc = "saving"
  /\ pc' = "idle"
  /\ checkpoints' = Before(choice.index)
  /\ messages' = SubSeq(messages, 1, choice.index - 1)
  /\ shown' = [u \in Prompts |-> IF u >= choice.prompt THEN 0 ELSE shown[u]]
  /\ UNCHANGED <<disk, dangling, writing, choice, used, original, missed, shifted>>

Truncate ==
  /\ pc = "saving"
  /\ pc' = "idle"
  /\ checkpoints' = Before(choice.index)
  /\ messages' = SubSeq(messages, 1, choice.index - 1)
  /\ dangling' = IF dangling < choice.index THEN dangling ELSE 0
  /\ shown' = [u \in Prompts |-> IF u >= choice.prompt THEN 0 ELSE shown[u]]
  /\ UNCHANGED <<disk, writing, choice, used, original, missed, shifted>>

-----------------------------------------------------------------------------
Next ==
  \/ Mount \/ Act \/ Respond \/ EndTurn \/ InjectUserContext
  \/ \E f \in Files : BeginWrite(f) \/ Write(f) \/ ChangeOutside(f)
  \/ Clear \/ Compact
  \/ \E u \in Prompts, restore \in BOOLEAN : Rewind(u, restore)
  \/ SaveFails \/ Truncate

Spec == Init /\ [][Next]_vars

-----------------------------------------------------------------------------
(* Properties. *)

\* There is a checkpoint for each prompt of the conversation and no other, at
\* its index, over fills, rewinds and compactions: a rewind that is offered for
\* a prompt finds its files.
CheckpointPerPrompt ==
  {checkpoints[k].index : k \in DOMAIN checkpoints} =
    {i \in DOMAIN messages : messages[i] \in Prompts}

\* All checkpoints know the same files, so that a rewind to any of them restores
\* whatever tools have changed since.
SameFiles ==
  \A j, k \in DOMAIN checkpoints : DOMAIN checkpoints[j].files = DOMAIN checkpoints[k].files

\* Both, whatever tools, prompts, rewinds and compactions come between.
CheckpointsSound == CheckpointPerPrompt /\ SameFiles

RewindStarts == pc = "idle" /\ pc' = "saving"

\* Rewinding to a prompt with its files brings back every file as it was when
\* the prompt was sent, except for those that the rewind reports as not restored, files
\* that changed before any tool touched them and files that could not be read: later
\* edits, deletions, rewinds and earlier rewinds that restored only a part do not matter.
RestoreExact ==
  [][RewindStarts /\ choice'.restore /\ HasCheckpoint(choice'.index) =>
       \A f \in Files \ (missed \union choice'.errors) :
         disk'[f] = original[messages[choice'.index]][f]]_vars

\* "message_index is where the user message will land" (_handle_user_message).
LandsWhereShown ==
  [][pc = "mounted" /\ pc' = "turn" =>
       messages'[shown[used.prompts]] = used.prompts]_vars

\* "Fork the session at the selected user message" (_execute_rewind): the index
\* that a widget holds is the index of the message that it shows, until a
\* placeholder, a compaction or the result of a `!` command that comes between the
\* two moves the messages.
RewindsToSelected ==
  [][RewindStarts /\ ~shifted => messages[choice'.index] = choice'.prompt]_vars
=============================================================================
