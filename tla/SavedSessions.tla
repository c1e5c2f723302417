---------------------------- MODULE SavedSessions ----------------------------
(***************************************************************************)
(* The sessions on disk with their names: who is listed, found again and   *)
(* continued (SessionLoader), and what becomes of a name that is given to  *)
(* a session while it is saved.  A rename reads meta.json and replaces it  *)
(* as a whole (saved_sessions.py); so does a save (SessionLogger), which   *)
(* takes the name from the session in memory.  Both suspend in between:    *)
(* the ACP server handles session/set_title while a prompt runs, and the   *)
(* terminal renames while a thread saves.                                  *)
(*                                                                         *)
(* SessionStore has the steps of a save in detail.  Abstracted here: its   *)
(* lines are appended at once; identifiers do not collide in the eight     *)
(* characters that a directory is named by; a temporary file of a write    *)
(* that was cut short is removed some day.                                 *)
(***************************************************************************)
EXTENDS Integers, Sequences, FiniteSets, Functions

CONSTANTS
  Renames,      \* requests to name a session, which may overlap
  Names,        \* names that are given
  Places,       \* working directories
  MaxSessions,  \* bound: sessions ever begun
  MaxSaid,      \* bound: messages of a session
  MaxLines,     \* bound: lines of a file
  MaxCuts       \* bound: sessions of which a save is cut short

VARIABLES
  disk,    \* disk[d]: [lines, total, title, source, place] of the session in directory d
  order,   \* the directories, those with the latest messages last
  live,    \* the session in memory: [dir, messages, title, source, place]
  save,    \* save_interaction: [step, dir, old, said, title, source]
  rename,  \* rename[r]: [step, dir, name, total, live]
  begun,   \* count of sessions begun
  told,    \* history: the name that a session was last given, by directory
  raced,   \* history: sessions of which a name was written while something else was
  cut      \* history: sessions of which a save was cut short

sessionsVars == <<disk, order, live, save, rename, begun, told, raced, cut>>
diskVars == <<disk, order>>
historyVars == <<told, raced, cut>>

SessionsAssumption == MaxSessions \in Nat \ {0} /\ MaxSaid \in Nat /\ MaxLines \in Nat /\ MaxCuts \in Nat
  /\ Places # {} /\ "none" \notin Names

Sessions == 1..MaxSessions
Messages == 1..MaxSaid
NoMeta == -1
Nothing == [step |-> "idle", dir |-> 1, old |-> 0, said |-> <<>>, title |-> "none", source |-> "auto"]
NotAsked == [step |-> "idle", dir |-> 1, name |-> "none", total |-> 0, live |-> FALSE]

\* _initialize_session_metadata
Begun(d, p) == [dir |-> d, messages |-> <<>>, title |-> "none", source |-> "auto", place |-> p]

Init ==
  /\ \E p \in Places :
       /\ disk = [d \in Sessions |-> [lines |-> <<>>, total |-> NoMeta, title |-> "none",
                                      source |-> "auto", place |-> p]]
       /\ live = Begun(1, p)
  /\ order = <<>> /\ begun = 1
  /\ save = Nothing /\ rename = [r \in Renames |-> NotAsked]
  /\ told = [d \in Sessions |-> "none"] /\ raced = {} /\ cut = {}

Saved(d) == disk[d].total # NoMeta
Saving(d) == save.step # "idle" /\ save.dir = d
Renaming(d) == \E r \in Renames : rename[r].step # "idle" /\ rename[r].dir = d

-----------------------------------------------------------------------------
(* The session in memory. *)

\* A message is new: the first number that none of the others has.
Say(message) ==
  /\ save.step = "idle" /\ Len(live.messages) < MaxSaid
  /\ message \notin Range(live.messages) /\ 1..(message - 1) \subseteq Range(live.messages)
  /\ live' = [live EXCEPT !.messages = Append(@, message)]
  /\ UNCHANGED <<diskVars, save, rename, begun, historyVars>>

\* Mutant: the title always follows the first message.
ResolveTitleAuto(l) == [title |-> "first", source |-> "auto"]

\* _resolve_title: a name that was given stays, else the first message says it.
ResolveTitle(l) ==
  IF l.source = "manual" THEN [title |-> l.title, source |-> l.source]
  ELSE [title |-> "first", source |-> "auto"]

SaveBegin ==
  /\ save.step = "idle" /\ live.messages # <<>>
  /\ save' = [Nothing EXCEPT !.step = "append", !.dir = live.dir,
                             !.old = IF Saved(live.dir) THEN disk[live.dir].total ELSE 0]
  /\ raced' = IF Renaming(live.dir) THEN raced \cup {live.dir} ELSE raced
  /\ UNCHANGED <<diskVars, live, rename, begun, told, cut>>

\* What is new is appended, and the metadata are composed.
SaveAppend ==
  LET new == SubSeq(live.messages, save.old + 1, Len(live.messages))
      t == ResolveTitle(live)
      d == save.dir
  IN /\ save.step = "append"
     /\ IF new = <<>>
        THEN save' = Nothing /\ UNCHANGED <<diskVars, live>>
        ELSE /\ Len(disk[d].lines) + Len(new) <= MaxLines
             /\ disk' = [disk EXCEPT ![d].lines = @ \o new]
             /\ order' = Append(SelectSeq(order, LAMBDA o : o # d), d)
             /\ live' = [live EXCEPT !.title = t.title, !.source = t.source]
             /\ save' = [save EXCEPT !.step = "meta", !.said = live.messages, !.title = t.title, !.source = t.source]
     /\ UNCHANGED <<rename, begun, historyVars>>

SaveMeta ==
  /\ save.step = "meta"
  /\ disk' = [disk EXCEPT ![save.dir] = [lines |-> @.lines, total |-> Len(save.said), title |-> save.title,
                                         source |-> save.source, place |-> live.place]]
  /\ save' = Nothing
  /\ UNCHANGED <<order, live, rename, begun, historyVars>>

\* The turn is interrupted while it saves.
SaveCut ==
  /\ save.step # "idle" /\ save' = Nothing
  /\ cut' = cut \cup {save.dir} /\ Cardinality(cut') <= MaxCuts
  /\ UNCHANGED <<diskVars, live, rename, begun, told, raced>>

\* reset_session, after /clear, by a compaction amid a turn, or in a rewind: a session of
\* its own, with what is left of the messages.
ResetSession(n) ==
  /\ save.step = "idle" /\ begun < MaxSessions /\ begun' = begun + 1
  /\ live' = [Begun(begun + 1, live.place) EXCEPT !.messages = SubSeq(live.messages, 1, n)]
  /\ cut' = IF live.dir \in raced \cup cut THEN cut \cup {begun + 1} ELSE cut
  /\ UNCHANGED <<diskVars, save, rename, told, raced>>

-----------------------------------------------------------------------------
(* A name is given: /rename, or session/set_title for a live or a saved session. *)

\* A session that was not saved yet has its name in memory only.
RenameBegin(r, d, name) ==
  /\ rename[r].step = "idle" /\ (d = live.dir \/ Saved(d))
  /\ raced' = IF Saving(d) \/ Renaming(d) THEN raced \cup {d} ELSE raced
  /\ IF Saved(d)
     THEN /\ rename' = [rename EXCEPT ![r] = [step |-> "writing", dir |-> d, name |-> name,
                                              total |-> disk[d].total, live |-> d = live.dir]]
          /\ UNCHANGED <<live, told>>
     ELSE /\ live' = [live EXCEPT !.title = name, !.source = "manual"]
          /\ told' = [told EXCEPT ![d] = name]
          /\ UNCHANGED rename
  /\ UNCHANGED <<diskVars, save, begun, cut>>

\* The metadata that were read are replaced, with the name; then the logger learns the
\* name, whatever session it has by now.
RenameWrite(r) ==
  LET q == rename[r] IN
  /\ q.step = "writing" /\ rename' = [rename EXCEPT ![r] = NotAsked]
  /\ disk' = [disk EXCEPT ![q.dir].total = q.total, ![q.dir].title = q.name, ![q.dir].source = "manual"]
  /\ live' = IF q.live THEN [live EXCEPT !.title = q.name, !.source = "manual"] ELSE live
  /\ told' = [told EXCEPT ![q.dir] = q.name]
  /\ raced' = IF q.live /\ live.dir # q.dir THEN raced \cup {live.dir} ELSE raced
  /\ UNCHANGED <<order, save, begun, cut>>

-----------------------------------------------------------------------------
(* Sessions are found again. *)

\* _is_valid_session: metadata and at least one message, all of which can be read.
IsValid(d) == Saved(d) /\ disk[d].lines # <<>>
Listed(p) == {d \in Sessions : IsValid(d) /\ disk[d].place = p}

\* Of the sessions of a directory the one with the latest messages.
Latest(d, p) ==
  /\ d \in Listed(p)
  /\ \E i \in DOMAIN order : order[i] = d /\ \A j \in DOMAIN order : j > i => order[j] \notin Listed(p)

\* resume_existing_session; a rename that is under way knows the logger from before.
Resumed(d, p) ==
  /\ live' = [dir |-> d, messages |-> disk[d].lines, title |-> disk[d].title,
              source |-> disk[d].source, place |-> disk[d].place]
  /\ rename' = [r \in Renames |-> [rename[r] EXCEPT !.live = FALSE]]
  /\ raced' = IF Renaming(d) THEN raced \cup {d} ELSE raced

\* One that is listed is chosen, or named by its identifier.
Resume(d) ==
  /\ save.step = "idle" /\ d # live.dir /\ IsValid(d)
  /\ Resumed(d, live.place)
  /\ UNCHANGED <<diskVars, save, begun, told, cut>>

\* The process ends, whatever is under way, and another one starts with a session of its
\* own or with --continue.
Restart(p, continues) ==
  /\ cut' = (IF save.step # "idle" THEN cut \cup {save.dir} ELSE cut) /\ Cardinality(cut') <= MaxCuts
  /\ save' = Nothing
  /\ IF continues
     THEN /\ \E d \in Sessions :
               /\ Latest(d, p)
               /\ live' = [dir |-> d, messages |-> disk[d].lines, title |-> disk[d].title,
                           source |-> disk[d].source, place |-> p]
          /\ UNCHANGED begun
     ELSE /\ begun < MaxSessions /\ begun' = begun + 1
          /\ live' = Begun(begun + 1, p)
  /\ rename' = [r \in Renames |-> NotAsked]
  /\ UNCHANGED <<diskVars, told, raced>>

-----------------------------------------------------------------------------
SessionsNext ==
  \/ \E message \in Messages : Say(message)
  \/ SaveBegin \/ SaveAppend \/ SaveMeta \/ SaveCut
  \/ \E n \in 0..Len(live.messages) : ResetSession(n)
  \/ \E r \in Renames : RenameWrite(r) \/ \E d \in Sessions, name \in Names : RenameBegin(r, d, name)
  \/ \E d \in Sessions : Resume(d)
  \/ \E p \in Places, continues \in BOOLEAN : Restart(p, continues)

Spec == Init /\ [][SessionsNext]_sessionsVars

-----------------------------------------------------------------------------
(* Properties. *)

Titles == Names \cup {"none", "first"}

TypeOK ==
  /\ \A d \in Sessions : disk[d].total \in Nat \cup {NoMeta} /\ disk[d].title \in Titles
  /\ live.dir \in 1..begun /\ live.title \in Titles /\ live.source \in {"auto", "manual"}
  /\ raced \subseteq Sessions /\ cut \subseteq Sessions

\* The name that was given last is the session's, on disk as in memory, through saves,
\* compactions, resumptions and restarts, and nobody else's; unless it was written while
\* a save or another rename was under way.
NameKept ==
  \A d \in Sessions \ raced :
    /\ Saved(d) /\ told[d] # "none" => disk[d].title = told[d] /\ disk[d].source = "manual"
    /\ Saved(d) /\ told[d] = "none" => disk[d].title = "first" /\ disk[d].source = "auto"
    /\ live.dir = d => live.source = IF told[d] = "none" THEN "auto" ELSE "manual"
    /\ live.dir = d /\ told[d] # "none" => live.title = told[d]

\* Also when it was: metadata that a rename writes back never count a message that the
\* file does not have, so that a later save leaves none out.
CountedAreThere == \A d \in Sessions : disk[d].total <= Len(disk[d].lines)

\* A message is saved once, unless a rename wrote back what a save had replaced, or a
\* save was cut short.
SavedOnce ==
  \A d \in Sessions \ (raced \cup cut) : IsInjective(disk[d].lines)

SessionsSafe == NameKept /\ CountedAreThere /\ SavedOnce
=============================================================================
