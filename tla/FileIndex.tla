------------------------------ MODULE FileIndex ------------------------------
(* The index of the files below the working directory, which completion of  *)
(* paths reads (FileIndexer, FileIndexStore, WatchController).               *)
(*                                                                          *)
(* The caller is the one thread of the completion's pool.  The first call   *)
(* builds the index on the indexer's own thread and waits for it; after     *)
(* that only the watcher's thread changes the index, while the setting      *)
(* file_watcher_for_autocomplete is on.  The directory does not change      *)
(* while the program runs, and the end of the program is left out.          *)
(* External: the file system, and the library that watches it and reports   *)
(* changes in sets, without an order.                                       *)
EXTENDS Naturals, FiniteSets

CONSTANTS
  Paths,        \* paths below the root that no rule ignores
  Dirs,         \* those that are directories
  Root,
  Parent,       \* Parent[p]: the directory of p
  Threshold,    \* _mass_change_threshold
  MaxChanges,   \* bound: changes of the files
  MaxToggles    \* bound: changes of the setting, and failures of the watcher

IndexAssumption ==
  /\ Dirs \subseteq Paths /\ Root \notin Paths
  /\ Parent \in [Paths -> Dirs \union {Root}]
  /\ \A S \in SUBSET Paths : (\A p \in Paths : Parent[p] \in S \union {Root} => p \in S) => S = Paths
  /\ {Threshold, MaxChanges, MaxToggles} \subseteq Nat

VARIABLES
  disk,         \* paths that exist
  index,        \* _entries_by_rel
  built,        \* the store has a root
  caller,       \* get_index: where it is
  walk,         \* _walk_directory under way: [by, todo, found]
  watcher,      \* the current watcher thread
  wanted,       \* the setting
  events,       \* changes seen by the watching library, not yet reported
  batch,        \* changes the watcher's thread is applying, under the lock
  late,         \* changes a stopped thread is still to apply
  missed,       \* history: a file has changed unseen since the last walk
  unordered,    \* history: a batch had a deletion and another change of its path
  used          \* bounds: [changes, toggles]

storeVars == <<index, built, walk>>
watchVars == <<watcher, events, batch, late>>
vars == <<disk, storeVars, watchVars, caller, wanted, missed, unordered, used>>

Kinds == {"added", "modified", "deleted"}
Change == [kind : Kinds, path : Paths]
NoWalk == [by |-> "none", todo |-> {}, found |-> {}]

\* p and what is below it: the least set with p that has the paths of its directories.
Below(p) == {q \in Paths : \A S \in SUBSET Paths :
  p \in S /\ (\A r \in Paths : Parent[r] \in S => r \in S) => q \in S}

Children(d) == {p \in disk : Parent[p] = d}

TypeOK ==
  /\ disk \subseteq Paths /\ index \subseteq Paths /\ built \in BOOLEAN
  /\ caller \in {"idle", "building", "watching"}
  /\ walk \in [by : {"none", "indexer", "watcher"}, todo : SUBSET (Dirs \union {Root}),
               found : SUBSET Paths]
  /\ watcher \in {"off", "starting", "on"} /\ wanted \in BOOLEAN
  /\ events \subseteq Change /\ batch \subseteq Change /\ late \subseteq Change
  /\ missed \in BOOLEAN /\ unordered \in BOOLEAN
  /\ used \in [changes : 0..MaxChanges, toggles : 0..MaxToggles]

Init ==
  /\ disk \in {d \in SUBSET Paths : \A p \in d : Parent[p] \in d \union {Root}}
  /\ index = {} /\ built = FALSE /\ walk = NoWalk
  /\ caller = "idle" /\ watcher = "off" /\ wanted \in BOOLEAN
  /\ events = {} /\ batch = {} /\ late = {}
  /\ missed = FALSE /\ unordered = FALSE
  /\ used = [changes |-> 0, toggles |-> 0]

\* What an instance that does not run begins with.
StartsEmpty == disk = {} /\ wanted

-----------------------------------------------------------------------------
(* External: the files change, and the library sees it while it watches. *)

Changing(after, seen) ==
  /\ used.changes < MaxChanges
  /\ used' = [used EXCEPT !.changes = @ + 1]
  /\ disk' = after
  /\ events' = IF watcher = "on" THEN events \union seen ELSE events
  /\ missed' = (missed \/ (watcher # "on" /\ (built \/ walk # NoWalk)))
  /\ UNCHANGED <<storeVars, watcher, batch, late, caller, wanted>>

Create(p) ==
  /\ p \notin disk /\ Parent[p] \in disk \union {Root}
  /\ Changing(disk \union {p}, {[kind |-> "added", path |-> p]})
  /\ UNCHANGED unordered

\* A directory is moved here with what it holds: only the directory is reported.
MoveIn(d) ==
  /\ d \in Dirs \ disk /\ Parent[d] \in disk \union {Root}
  /\ Changing(disk \union Below(d), {[kind |-> "added", path |-> d]})
  /\ UNCHANGED unordered

Modify(p) ==
  /\ p \in disk \ Dirs
  /\ Changing(disk, {[kind |-> "modified", path |-> p]})
  /\ UNCHANGED unordered

Delete(p) ==
  /\ p \in disk
  /\ Changing(disk \ Below(p), [kind : {"deleted"}, path : Below(p) \intersect disk])
  /\ UNCHANGED unordered

\* A directory is moved away: only the directory is reported.
MoveOut(d) ==
  /\ d \in Dirs \intersect disk
  /\ Changing(disk \ Below(d), {[kind |-> "deleted", path |-> d]})
  /\ unordered' = (unordered \/ \E c \in batch \union late : c.kind # "deleted" /\ d \in Below(c.path))

Toggle ==
  /\ used.toggles < MaxToggles
  /\ used' = [used EXCEPT !.toggles = @ + 1]
  /\ wanted' = ~wanted
  /\ UNCHANGED <<disk, storeVars, watchVars, caller, missed, unordered>>

-----------------------------------------------------------------------------
(* FileIndexer.get_index *)

Unlocked == walk = NoWalk /\ batch = {}

GetIndex ==
  /\ caller = "idle" /\ Unlocked
  /\ IF built
     THEN caller' = "watching" /\ UNCHANGED walk
     ELSE /\ caller' = "building"
          /\ walk' = [by |-> "indexer", todo |-> {Root}, found |-> {}]
  /\ UNCHANGED <<disk, index, built, watchVars, wanted, missed, unordered, used>>

\* A directory is read: the walk goes on in the directories it holds by now.
ScanDir(d) ==
  /\ d \in walk.todo
  /\ LET next == [walk EXCEPT !.todo = (@ \ {d}) \union (Children(d) \intersect Dirs),
                              !.found = @ \union Children(d)]
     IN IF next.todo # {}
        THEN walk' = next /\ UNCHANGED <<index, built, caller>>
        ELSE /\ walk' = NoWalk
             /\ index' = next.found
             /\ built' = TRUE
             /\ caller' = IF walk.by = "indexer" THEN "watching" ELSE caller
  /\ UNCHANGED <<disk, watchVars, wanted, missed, unordered, used>>

\* WatchController.stop: the thread is told to stop, and waited for, but not for ever.
\* What it has not been given is dropped.
Stopped ==
  /\ events' = {} /\ missed' = (missed \/ events # {})
  /\ \/ batch = {} /\ UNCHANGED <<batch, late>>
     \/ batch # {} /\ late = {} /\ late' = batch /\ batch' = {}

\* WatchController.start does nothing while its thread runs.
StartOrStop ==
  /\ caller = "watching"
  /\ caller' = "idle"
  /\ \/ wanted /\ watcher # "off" /\ UNCHANGED <<watchVars, missed>>
     \/ wanted /\ watcher = "off" /\ watcher' = "starting" /\ Stopped
     \/ ~wanted /\ watcher' = "off" /\ Stopped
  /\ UNCHANGED <<disk, storeVars, wanted, unordered, used>>

-----------------------------------------------------------------------------
(* The watcher's thread *)

\* The library watches from the first step of its generator on, which comes after
\* the thread has reported that it is ready.
Watch ==
  /\ watcher = "starting"
  /\ watcher' = "on"
  /\ UNCHANGED <<disk, storeVars, events, batch, late, caller, wanted, missed, unordered, used>>

\* The loop ends with an exception; the next call starts another thread.
WatchFails ==
  /\ watcher # "off" /\ batch = {} /\ walk.by # "watcher"
  /\ used.toggles < MaxToggles
  /\ used' = [used EXCEPT !.toggles = @ + 1]
  /\ watcher' = "off" /\ events' = {}
  /\ missed' = (missed \/ events # {})
  /\ UNCHANGED <<disk, storeVars, batch, late, caller, wanted, unordered>>

Clash(changes) ==
  \E c, d \in changes : c.kind = "deleted" /\ d.kind # "deleted" /\ d.path \in Below(c.path)

\* Changes are reported: a batch is applied change by change, a large one is not,
\* the directory is walked again.
Report ==
  /\ watcher = "on" /\ events # {} /\ Unlocked /\ late = {}
  /\ events' = {}
  /\ IF Cardinality(events) > Threshold
     THEN /\ walk' = [by |-> "watcher", todo |-> {Root}, found |-> {}]
          /\ missed' = FALSE /\ unordered' = FALSE
          /\ UNCHANGED batch
     ELSE /\ batch' = events
          /\ unordered' = (unordered \/ Clash(events))
          /\ UNCHANGED <<walk, missed>>
  /\ UNCHANGED <<disk, index, built, watcher, late, caller, wanted, used>>

\* What applying a change to the index makes of it: a deletion takes out the
\* entry and, if there was one and it is a directory, what is below it.
Applied(c) ==
  IF c.kind = "deleted"
  THEN IF c.path \in index THEN index \ Below(c.path) ELSE index
  ELSE IF c.path \in disk THEN index \union (Below(c.path) \intersect disk) ELSE index

\* The changes of a batch come in no order.
ApplyChange ==
  \E c \in batch :
    /\ batch' = batch \ {c}
    /\ index' = Applied(c)
    /\ UNCHANGED <<disk, built, walk, watcher, events, late, caller, wanted, missed,
                   unordered, used>>

\* By a thread that was stopped and not waited for to its end.
ApplyLate ==
  /\ walk = NoWalk
  /\ \E c \in late :
       /\ late' = late \ {c}
       /\ index' = Applied(c)
  /\ UNCHANGED <<disk, built, walk, watcher, events, batch, caller, wanted, missed, unordered, used>>

-----------------------------------------------------------------------------
Next ==
  \/ \E p \in Paths : Create(p) \/ MoveIn(p) \/ Modify(p) \/ Delete(p) \/ MoveOut(p)
  \/ Toggle
  \/ GetIndex \/ StartOrStop \/ \E d \in Dirs \union {Root} : ScanDir(d)
  \/ Watch \/ WatchFails \/ Report \/ ApplyChange \/ ApplyLate

Spec == Init /\ [][Next]_vars

-----------------------------------------------------------------------------
(* Properties. *)

\* While a watcher runs and nothing is under way, the index holds the files that
\* exist: through walks that are overtaken by changes, directories that come and
\* go with what they hold, and mass changes, which make good for what was missed
\* before.  Exempt are changes made before the watcher was watching or while it was
\* off, which nobody catches up with; batches that hold a deletion and another
\* change of the same path or of one below it, whose order is lost; and a directory
\* that is moved away while it, or one above it, is being added.
Converges ==
  /\ built /\ watcher = "on" /\ walk = NoWalk
  /\ events = {} /\ batch = {} /\ late = {}
  /\ ~missed /\ ~unordered
  => index = disk

=============================================================================
