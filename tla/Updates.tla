------------------------------- MODULE Updates -------------------------------
(***************************************************************************)
(* What programs of one user remember in cache.toml: which version the     *)
(* last check for updates found and when, of which version the news were   *)
(* shown, and when the user was asked for feedback.  A write reads the     *)
(* file, merges its section and writes all of it (write_cache), in a       *)
(* thread, while the interface and other programs do the same.             *)
(*                                                                         *)
(* Abstracted: a version is a number; time passes in steps.                *)
(***************************************************************************)
EXTENDS Integers, FiniteSets

CONSTANTS
  Programs,
  TTL,         \* UPDATE_CACHE_TTL_SECONDS, in steps
  MaxVersion,  \* bound: versions
  MaxTime,     \* bound: steps of time
  MaxStarts    \* bound: starts of a program

VARIABLES
  file,      \* cache.toml: [torn, filled, data]: not to be read; written to since it was emptied
  released,  \* the latest release
  installed, \* the version that starts
  prog,      \* of each program: [at, version, found]: what it does
  write,     \* of each program and writer: [at, data, whole], the latter is what will be written
  now,
  starts,
  shown,     \* history: how often the news of a version were shown
  told,      \* history: when users were told of a version: of [version, time]
  disturbed, \* history: a write overlapped with what another reads, news were not noted, or
             \* a program that was slow to start showed those of an older version than another
  cut        \* history: a program ended while it wrote, or wrote over what another had written
             \* after both had opened the file

updateVars == <<file, released, installed, prog, write, now, starts, shown, told, disturbed, cut>>

UpdateAssumption ==
  IsFiniteSet(Programs) /\ TTL \in Nat \ {0} /\ MaxVersion \in Nat \ {0} /\ MaxTime \in Nat /\ MaxStarts \in Nat

\* Zero is none; a time is one more than it is.
Empty == [latest |-> 0, at |-> 0, seen |-> 0, asked |-> 0]
Writers == Programs \X {"task", "interface"}
Off == [at |-> "off", version |-> 0, found |-> 0]
NoWrite == [at |-> "none", data |-> Empty, whole |-> Empty]

Init ==
  /\ file = [torn |-> FALSE, filled |-> FALSE, data |-> Empty]
  /\ released = 1 /\ installed = 1
  /\ prog = [p \in Programs |-> Off] /\ write = [w \in Writers |-> NoWrite]
  /\ now = 1 /\ starts = 0
  /\ shown = [v \in 1..MaxVersion |-> 0] /\ told = {} /\ disturbed = FALSE /\ cut = FALSE

-----------------------------------------------------------------------------
(* cache.toml *)

\* read_cache: what is being written reads as if there was nothing.
Cached == IF file.torn THEN Empty ELSE file.data

\* Mutant: a section takes the place of the one before.
MergedWhole(base, data) ==
  IF data.asked # 0 THEN [base EXCEPT !.asked = data.asked]
  ELSE [data EXCEPT !.asked = base.asked]

\* write_cache: the keys of the section that are given replace those of the file.
Merged(base, data) ==
  [k \in DOMAIN base |-> IF data[k] # 0 THEN data[k] ELSE base[k]]

Busy(w) == write[w].at # "none" \/ (w[2] = "task" /\ prog[w[1]].at \in {"marks", "fetches"})
Alone(w) == \A v \in Writers \ {w} : ~Busy(v)

\* A writer begins with what it will write.
Writes(w, data) == write' = [write EXCEPT ![w] = [at |-> "begins", data |-> data, whole |-> Empty]]

ReadToWrite(w) ==
  /\ write[w].at = "begins"
  /\ write' = [write EXCEPT ![w].at = "opens", ![w].whole = Merged(Cached, write[w].data)]
  /\ disturbed' = (disturbed \/ ~Alone(w))
  /\ UNCHANGED <<file, released, installed, prog, now, starts, shown, told, cut>>

\* To open the file empties it.
Truncate(w) ==
  /\ write[w].at = "opens" /\ write' = [write EXCEPT ![w].at = "writes"]
  /\ file' = [file EXCEPT !.torn = TRUE, !.filled = FALSE]
  /\ UNCHANGED <<released, installed, prog, now, starts, shown, told, disturbed, cut>>

Holds(data) == [torn |-> FALSE, filled |-> TRUE, data |-> data]

\* A writer writes from the start of the file: what another has written since it was
\* emptied stays where it is longer, as keys that the new text lacks or as text that
\* cannot be read.
Laid(w) ==
  {Holds(write[w].whole)} \union
    (IF ~file.filled THEN {}
     ELSE {Holds(Merged(Cached, write[w].whole)), [Holds(Empty) EXCEPT !.torn = TRUE]})

\* After the write a check tells the user what it found, if that is newer.
Written(w) ==
  LET p == w[1]
      done == w[2] = "task"
      news == done /\ prog[p].found > prog[p].version
  IN /\ write[w].at = "writes" /\ write' = [write EXCEPT ![w] = NoWrite]
     /\ file' \in Laid(w) /\ cut' = (cut \/ file.filled)
     /\ prog' = IF ~done THEN prog
                ELSE [prog EXCEPT ![p].at = IF @ = "marks" THEN "checks" ELSE "runs", ![p].found = 0]
     /\ told' = IF news THEN told \union {[version |-> prog[p].found, time |-> write[w].data.at]} ELSE told
     /\ installed' \in {installed} \union (IF news THEN {released} ELSE {})
     /\ UNCHANGED <<released, now, starts, shown, disturbed>>

-----------------------------------------------------------------------------
(* A program. *)

Start(p) ==
  /\ prog[p].at = "off" /\ starts < MaxStarts /\ starts' = starts + 1
  /\ prog' = [prog EXCEPT ![p] = [at |-> "starts", version |-> installed, found |-> 0]]
  /\ UNCHANGED <<file, released, installed, write, now, shown, told, disturbed, cut>>

Goes(p, at) == prog' = [prog EXCEPT ![p].at = at]

\* should_show_whats_new, _check_and_show_whats_new: not without a cache, as after the
\* first installation.
News(p) ==
  LET show == Cached.latest # 0 /\ Cached.seen # prog[p].version IN
  /\ prog[p].at = "starts"
  /\ Goes(p, IF show THEN "marks" ELSE "checks")
  /\ shown' = IF show THEN [shown EXCEPT ![prog[p].version] = @ + 1] ELSE shown
  /\ disturbed' = (disturbed \/ ~Alone(<<p, "task">>) \/ (show /\ Cached.seen > prog[p].version))
  /\ UNCHANGED <<file, released, installed, write, now, starts, told, cut>>

\* mark_version_as_seen reads the cache again.
Mark(p) ==
  /\ prog[p].at = "marks" /\ write[<<p, "task">>].at = "none"
  /\ Writes(<<p, "task">>,
            [latest |-> IF Cached.latest = 0 THEN prog[p].version ELSE Cached.latest,
             at |-> IF Cached.latest = 0 THEN now ELSE Cached.at,
             seen |-> prog[p].version, asked |-> 0])
  /\ disturbed' = (disturbed \/ ~Alone(<<p, "task">>))
  /\ UNCHANGED <<file, released, installed, prog, now, starts, shown, told, cut>>

\* _is_cache_fresh, get_update_if_available
Fresh == Cached.latest # 0 /\ Cached.at > now - TTL

Check(p) ==
  /\ prog[p].at = "checks"
  /\ Goes(p, IF Fresh THEN "runs" ELSE "fetches")
  /\ disturbed' = (disturbed \/ ~Alone(<<p, "task">>))
  /\ UNCHANGED <<file, released, installed, write, now, starts, shown, told, cut>>

\* fetch_update; without an answer, or a newer version, the own one is written.
Fetch(p) ==
  /\ prog[p].at = "fetches" /\ write[<<p, "task">>].at = "none"
  /\ \E latest \in {0, released} :
       LET found == IF latest > prog[p].version THEN latest ELSE prog[p].version IN
       /\ Writes(<<p, "task">>, [latest |-> found, at |-> now, seen |-> 0, asked |-> 0])
       /\ prog' = [prog EXCEPT ![p].found = found]
  /\ UNCHANGED <<file, released, installed, now, starts, shown, told, disturbed, cut>>

\* FeedbackBarManager: the user is asked, at most once in a while, and it is noted.
Ask(p) ==
  /\ prog[p].at \in {"checks", "fetches", "runs"} /\ write[<<p, "interface">>].at = "none"
  /\ Cached.asked + TTL <= now
  /\ Writes(<<p, "interface">>, [Empty EXCEPT !.asked = now])
  /\ disturbed' = (disturbed \/ ~Alone(<<p, "interface">>))
  /\ UNCHANGED <<file, released, installed, prog, now, starts, shown, told, cut>>

\* A program ends whenever it likes, and its writes with it.
End(p) ==
  /\ prog[p].at # "off" /\ prog' = [prog EXCEPT ![p] = Off]
  /\ write' = [w \in Writers |-> IF w[1] = p THEN NoWrite ELSE write[w]]
  /\ disturbed' = (disturbed \/ prog[p].at = "marks")
  /\ cut' = (cut \/ \E w \in Writers : w[1] = p /\ write[w].at # "none")
  /\ UNCHANGED <<file, released, installed, now, starts, shown, told>>

Release ==
  /\ released < MaxVersion /\ released' = released + 1
  /\ installed' \in {installed, released'}
  /\ UNCHANGED <<file, prog, write, now, starts, shown, told, disturbed, cut>>

Tick ==
  /\ now < MaxTime /\ now' = now + 1
  /\ UNCHANGED <<file, released, installed, prog, write, starts, shown, told, disturbed, cut>>

UpdateNext ==
  \/ \E w \in Writers : ReadToWrite(w) \/ Truncate(w) \/ Written(w)
  \/ \E p \in Programs : Start(p) \/ News(p) \/ Mark(p) \/ Check(p) \/ Fetch(p) \/ Ask(p) \/ End(p)
  \/ Release \/ Tick

Spec == Init /\ [][UpdateNext]_updateVars

-----------------------------------------------------------------------------
(* Properties. *)

TypeOK ==
  /\ file.torn \in BOOLEAN /\ released \in 1..MaxVersion /\ installed \in 1..MaxVersion
  /\ \A p \in Programs : prog[p].at \in {"off", "starts", "marks", "checks", "fetches", "runs"} /\ prog[p].version \in 0..MaxVersion
  /\ \A w \in Writers : write[w].at \in {"none", "begins", "opens", "writes"}

\* The news of a version are shown once, however often programs start, check and ask, as
\* long as their writes do not overlap and are not cut short: a check, which does not
\* know what was shown, does not make it forgotten.
NewsOnce == ~disturbed /\ ~cut => \A v \in 1..MaxVersion : shown[v] <= 1

\* Nobody is told of a version that is no news, nor twice of one within the time in which
\* the answer counts as fresh.
ToldOnce ==
  ~disturbed /\ ~cut => \A t, u \in told : t.version = u.version => t = u \/ t.time - u.time \notin 0..TTL - 1

\* The file is whole unless it is being written, or a write was cut short or went over what
\* another had written: writes that overlap in any other way leave it whole.
WholeAgain ==
  file.torn => cut \/ \E w \in Writers : write[w].at = "writes"

UpdatesSafe == NewsOnce /\ ToldOnce /\ WholeAgain
=============================================================================
