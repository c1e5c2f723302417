---------------------------- MODULE SessionStore ----------------------------
(***************************************************************************)
(* The session log on disk (SessionLogger, SessionLoader).                 *)
(*                                                                         *)
(* A session is a directory with messages.jsonl, to which messages are     *)
(* appended line by line, and meta.json, replaced as a whole, whose        *)
(* total_messages says how many messages of the conversation are saved.    *)
(* save_interaction reads the metadata, appends what lies beyond           *)
(* total_messages and then writes new metadata; it suspends at each file   *)
(* operation.  Several saves may be under way: the turn's own, and the one *)
(* of switch_agent, which the UI runs in a thread.  A save is abandoned    *)
(* when its task is cancelled, and everything in memory is lost when the   *)
(* process ends; a later process may resume the session from its           *)
(* directory.                                                              *)
(*                                                                         *)
(* Abstracted: a message is a number, never used twice; the rest of the    *)
(* metadata, the file names and the removal of stale temporary files are   *)
(* left out.                                                               *)
(***************************************************************************)
EXTENDS Integers, Sequences, SequencesExt, FiniteSets

CONSTANTS
  Savers,       \* tasks that may be inside save_interaction
  MaxMessages,  \* bound: messages ever created
  MaxDirs,      \* bound: sessions ever created
  MaxFaults,    \* bound: cancellations and crashes
  MaxResumes,   \* bound: sessions resumed
  Inserts       \* responses may be filled in (insert) amid the conversation

ASSUME StoreAssumption ==
  /\ MaxMessages \in Nat /\ MaxDirs \in Nat \ {0} /\ MaxFaults \in Nat /\ MaxResumes \in Nat
  /\ Inserts \in BOOLEAN

VARIABLES
  messages,  \* the non-system messages in memory
  created,   \* number of messages created so far
  dir,       \* session_logger.session_dir
  dirs,      \* number of session directories named so far
  lines,     \* messages.jsonl of each session
  total,     \* meta.json's total_messages of each session, or NoMeta
  made,      \* the session directories that exist
  save,      \* the state of every save under way
  up,        \* the process runs
  faults,    \* number of cancellations and crashes so far
  resumes,   \* number of sessions resumed so far
  inserted,  \* history: the messages that were inserted, not appended
  saved      \* history: the messages that completed saves covered, by session

vars == <<messages, created, dir, dirs, lines, total, made, save, up, faults, resumes,
          inserted, saved>>
memVars == <<messages, created, inserted>>
diskVars == <<lines, total, made>>
sessionVars == <<dir, dirs, up, faults, resumes>>

Dirs == 1..MaxDirs
NoMeta == -1
Torn == 0            \* a line that is not valid JSON
MessageIds == 1..MaxMessages

\* A save: where it stands, the messages it still has to append and the
\* directory it appends them to, the conversation it has seen and the
\* directory that receives its metadata.
Idle == [pc |-> "idle", batch |-> <<>>, to |-> 1, seen |-> <<>>, meta |-> 1]

SaveStates ==
  [pc : {"idle", "read", "append", "meta"}, batch : Seq(MessageIds), to : Dirs,
   seen : Seq(MessageIds), meta : Dirs]

TypeOK ==
  /\ messages \in Seq(MessageIds)
  /\ created \in 0..MaxMessages
  /\ dir \in Dirs /\ dirs \in Dirs
  /\ lines \in [Dirs -> Seq(MessageIds \union {Torn})]
  /\ total \in [Dirs -> Nat \union {NoMeta}]
  /\ made \subseteq Dirs
  /\ save \in [Savers -> SaveStates]
  /\ up \in BOOLEAN
  /\ faults \in 0..MaxFaults /\ resumes \in 0..MaxResumes
  /\ inserted \subseteq MessageIds
  /\ saved \in [Dirs -> SUBSET MessageIds]

Init ==
  /\ messages = <<>>
  /\ created = 0
  /\ dir = 1 /\ dirs = 1
  /\ lines = [d \in Dirs |-> <<>>]
  /\ total = [d \in Dirs |-> NoMeta]
  /\ made = {}
  /\ save = [s \in Savers |-> Idle]
  /\ up = TRUE
  /\ faults = 0 /\ resumes = 0
  /\ inserted = {}
  /\ saved = [d \in Dirs |-> {}]

-----------------------------------------------------------------------------
(* The conversation in memory. *)

AppendMessage ==
  /\ up /\ created < MaxMessages
  /\ created' = created + 1
  /\ messages' = Append(messages, created + 1)
  /\ UNCHANGED <<inserted, diskVars, sessionVars, save, saved>>

\* _fill_missing_tool_responses: somewhere before the end of the conversation.
InsertMessage ==
  /\ Inserts
  /\ up /\ created < MaxMessages
  /\ created' = created + 1
  /\ \E i \in 1..Len(messages) : messages' = InsertAt(messages, i, created + 1)
  /\ inserted' = inserted \union {created + 1}
  /\ UNCHANGED <<diskVars, sessionVars, save, saved>>

\* What a new session starts from: nothing (clear), a prefix (rewind) or a
\* summary (compact).
Kept(m) ==
  \/ created' = created /\ \E n \in 0..Len(messages) : m = SubSeq(messages, 1, n)
  \/ created < MaxMessages /\ created' = created + 1 /\ m = <<created + 1>>

\* Mutant of NewSession: the logger keeps its session.
NewSessionKeepsDir ==
  /\ up /\ dirs < MaxDirs
  /\ \E s \in Savers : save[s].pc = "idle"
  /\ Kept(messages')
  /\ UNCHANGED <<inserted, diskVars, sessionVars, save, saved>>

\* The caller, which has awaited a save of its own, resets the conversation and
\* the logger without suspending.
NewSession ==
  /\ up /\ dirs < MaxDirs
  /\ \E s \in Savers : save[s].pc = "idle"
  /\ Kept(messages')
  /\ dir' = dirs + 1 /\ dirs' = dirs + 1
  /\ UNCHANGED <<inserted, diskVars, up, faults, resumes, save, saved>>

-----------------------------------------------------------------------------
(* save_interaction *)

\* Mutants of Unsaved: off by one, in either direction.
UnsavedAgain(old) == SubSeq(messages, IF old = 0 THEN 1 ELSE old, Len(messages))
UnsavedSkips(old) == SubSeq(messages, old + 2, Len(messages))

Unsaved(old) == SubSeq(messages, old + 1, Len(messages))

Cover(d, ms) == saved' = [saved EXCEPT ![d] = @ \union ToSet(ms)]

\* Once the metadata is read: take what is new, or return.  The session may have
\* changed by now; its directory may not exist yet, and then the save fails.
Collect(s, old) ==
  CASE Unsaved(old) = <<>> ->
         /\ save' = [save EXCEPT ![s] = Idle]
         /\ Cover(dir, messages)
    [] Unsaved(old) # <<>> /\ dir \in made' ->
         /\ save' = [save EXCEPT ![s] =
              [pc |-> "append", batch |-> Unsaved(old), to |-> dir,
               seen |-> messages, meta |-> dir]]
         /\ UNCHANGED saved
    [] OTHER ->
         /\ save' = [save EXCEPT ![s] = Idle]
         /\ UNCHANGED saved

StartSave(s) ==
  /\ up /\ save[s].pc = "idle"
  /\ messages # <<>>
  /\ made' = made \union {dir}
  /\ IF total[dir] = NoMeta
       THEN Collect(s, 0)
       ELSE /\ save' = [save EXCEPT ![s] = [Idle EXCEPT !.pc = "read", !.to = dir]]
            /\ UNCHANGED saved
  /\ UNCHANGED <<memVars, lines, total, sessionVars>>

ReadMeta(s) ==
  /\ save[s].pc = "read"
  /\ UNCHANGED <<memVars, diskVars, sessionVars>>
  /\ Collect(s, total[save[s].to])

\* Mutant of AppendLine: the loop ends after its first line.
AppendFirstLine(s) ==
  /\ save[s].pc = "append"
  /\ lines' = [lines EXCEPT ![save[s].to] = Append(@, Head(save[s].batch))]
  /\ save' = [save EXCEPT ![s].batch = <<>>, ![s].pc = "meta", ![s].meta = dir]
  /\ UNCHANGED <<memVars, total, made, sessionVars, saved>>

\* One line of persist_messages.  After the last one the metadata are built,
\* for the directory that is the session's by then.
AppendLine(s) ==
  /\ save[s].pc = "append"
  /\ lines' = [lines EXCEPT ![save[s].to] = Append(@, Head(save[s].batch))]
  /\ save' = [save EXCEPT ![s].batch = Tail(@),
                          ![s].pc = IF Len(save[s].batch) = 1 THEN "meta" ELSE "append",
                          ![s].meta = dir]
  /\ UNCHANGED <<memVars, total, made, sessionVars, saved>>

\* persist_metadata: os.replace, or an error when the directory is missing.
WriteMeta(s) ==
  /\ save[s].pc = "meta"
  /\ save' = [save EXCEPT ![s] = Idle]
  /\ IF save[s].meta \in made
       THEN /\ total' = [total EXCEPT ![save[s].meta] = Len(save[s].seen)]
            /\ Cover(save[s].meta, save[s].seen)
       ELSE UNCHANGED <<total, saved>>
  /\ UNCHANGED <<memVars, lines, made, sessionVars>>

\* CancelledError at a file operation: nothing is undone.
CancelSave(s) ==
  /\ faults < MaxFaults
  /\ save[s].pc # "idle"
  /\ save' = [save EXCEPT ![s] = Idle]
  /\ faults' = faults + 1
  /\ UNCHANGED <<memVars, diskVars, dir, dirs, up, resumes, saved>>

-----------------------------------------------------------------------------
(* The end of a process, and the sessions it left. *)

\* The process ends while no save is under way, or is killed, which may leave
\* half a line.
Down ==
  /\ up
  /\ up' = FALSE
  /\ messages' = <<>>
  /\ save' = [s \in Savers |-> Idle]
  /\ UNCHANGED <<created, inserted, total, made, dir, dirs, resumes, saved>>

Exit ==
  /\ \A s \in Savers : save[s].pc = "idle"
  /\ Down
  /\ UNCHANGED <<lines, faults>>

Crash ==
  /\ faults < MaxFaults
  /\ faults' = faults + 1
  /\ Down
  /\ \/ UNCHANGED lines
     \/ \E s \in Savers :
          /\ save[s].pc = "append"
          /\ lines' = [lines EXCEPT ![save[s].to] = Append(@, Torn)]

Parses(d) == Torn \notin ToSet(lines[d])

\* _is_valid_session: both files are there and every line is a JSON object.
ValidSession(d) ==
  /\ d \in made /\ total[d] # NoMeta
  /\ lines[d] # <<>> /\ Parses(d)

\* load_session
Loadable(d) == lines[d] # <<>> /\ Parses(d)

\* Resume a session, in a new process or in the running one.
Resume(d) ==
  /\ resumes < MaxResumes
  /\ resumes' = resumes + 1
  /\ ValidSession(d) /\ Loadable(d)
  /\ \E s \in Savers : save[s].pc = "idle"
  /\ up => d # dir
  /\ up' = TRUE
  /\ messages' = lines[d]
  /\ dir' = d
  /\ UNCHANGED <<created, inserted, dirs, diskVars, faults, save, saved>>

\* A new process with a session of its own.
Restart ==
  /\ ~up /\ dirs < MaxDirs
  /\ up' = TRUE
  /\ dir' = dirs + 1 /\ dirs' = dirs + 1
  /\ UNCHANGED <<memVars, diskVars, faults, resumes, save, saved>>

-----------------------------------------------------------------------------
Next ==
  \/ AppendMessage \/ InsertMessage \/ NewSession
  \/ \E s \in Savers :
       StartSave(s) \/ ReadMeta(s) \/ AppendLine(s) \/ WriteMeta(s) \/ CancelSave(s)
  \/ Exit \/ Crash \/ Restart
  \/ \E d \in Dirs : Resume(d)

Spec == Init /\ [][Next]_vars

-----------------------------------------------------------------------------
(* Properties. *)

\* The metadata never count messages that are not in the file, whatever saves
\* were cancelled or cut short: messages.jsonl is written first.
MetaNeverAhead == \A d \in Dirs : total[d] <= Len(lines[d])

\* A save that returns has made the conversation it saw durable: every message
\* is in the session's file, those aside that were inserted behind the part
\* already saved.
NothingLost == \A d \in Dirs : saved[d] \ inserted \subseteq ToSet(lines[d])

\* No message is in a session's file twice (CHANGELOG 2.0.2).
NoDuplicates == \A d \in Dirs : IsInjective(lines[d])

\* With one saver, and until a save is cut short or a response filled in behind
\* the part already saved, it is so.
OnceUndisturbed == faults = 0 /\ inserted = {} => NoDuplicates

=============================================================================
