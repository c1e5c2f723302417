--------------------------- MODULE Configuration ---------------------------
(***************************************************************************)
(* The settings of the program and the processes that share them: VibeConfig *)
(* (vibe/core/config/_settings.py), the cache of discovered models          *)
(* (vibe/core/llm/model_discovery.py).                                      *)
(*                                                                         *)
(* A save reads the file, merges, empties the file and writes it again:    *)
(* every one of these is a step, so that another process, or a crash, can  *)
(* come between them.  No lock is held.                                    *)
(***************************************************************************)
EXTENDS Naturals, FiniteSets

CONSTANTS
  Procs,        \* processes of the program
  MaxSaves,     \* settings changed, or models discovered, by all of them together
  MaxStarts,    \* starts of a process
  MaxTrouble    \* crashes and losses of the cache

VARIABLES
  file,         \* config.toml
  cache,        \* what models-cache.json says of the discovered provider
  proc,         \* the processes
  said,         \* history: what was last set
  lost,         \* history: a save was cut short, or overwrote what it had not seen
  budget        \* what is left of the bounds

configVars == <<file, cache, proc, said, lost, budget>>

ConfigAssumption == MaxSaves \in Nat /\ MaxStarts \in Nat /\ MaxTrouble \in Nat

(* Models: "base" and "local" come with the program, "base" first; "old" was  *)
(* renamed to "new"; "disc" is served by a provider that was discovered.   *)
Aliases == {"base", "local", "old", "new", "disc"}
Default == "base"
Same(aliases, level) == [a \in aliases |-> level]
BuiltIn == Same({"base", "local"}, "off")

(* Two maps, of which the first has priority.                              *)
Joined(m, n) == [a \in DOMAIN m \cup DOMAIN n |-> IF a \in DOMAIN m THEN m[a] ELSE n[a]]
Levels == {"off", "high"}
Patterns == {"find", "ls"}

(* A configuration file: what it does not hold is "unset", or empty.  Models *)
(* map an alias to its thinking level.                                     *)
Config == [active: Aliases \cup {"unset"},
           models: UNION {[S -> Levels]: S \in SUBSET Aliases},
           allow: SUBSET Patterns, permission: {"unset", "always"}, torn: BOOLEAN]
NoModels == Same({}, "off")
Nothing == [active |-> "unset", models |-> NoModels, allow |-> {}, permission |-> "unset", torn |-> FALSE]

\* What bootstrap_config_files writes, and a file of an older version.
Created == [Nothing EXCEPT !.active = Default, !.models = BuiltIn, !.allow = {"find"}]
Older == [Nothing EXCEPT !.active = "old", !.models = Same(DOMAIN BuiltIn \cup {"old"}, "off"), !.allow = {"ls"}]

NoLive == [active |-> Default, models |-> BuiltIn, allow |-> {}, provided |-> FALSE]
Down == [phase |-> "down", live |-> NoLive, update |-> Nothing, buffer |-> Nothing, next |-> "ready",
         behind |-> FALSE, late |-> FALSE]

(* deep_update: tables are merged, lists replaced.                         *)
MergeFlat(c, u) ==
  [c EXCEPT !.active = IF u.active = "unset" THEN @ ELSE u.active,
            !.models = IF u.models = NoModels THEN @ ELSE u.models,
            !.allow = IF u.allow = {} /\ u.permission = "unset" THEN @ ELSE u.allow,
            !.permission = IF u.allow = {} /\ u.permission = "unset" THEN @ ELSE u.permission]

Merge(c, u) ==
  [active |-> IF u.active = "unset" THEN c.active ELSE u.active,
   models |-> IF u.models = NoModels THEN c.models ELSE u.models,
   allow |-> IF u.allow = {} THEN c.allow ELSE u.allow,
   permission |-> IF u.permission = "unset" THEN c.permission ELSE u.permission,
   torn |-> c.torn]

(* _migrate adds "find" to a list of allowed commands and renames "old".   *)
Renamed(models) ==
  IF "old" \in DOMAIN models
  THEN [a \in (DOMAIN models \ {"old"}) \cup {"new"} |-> IF a = "new" THEN "high" ELSE models[a]]
  ELSE models

Migrated(c) ==
  [active |-> IF c.active = "old" THEN "new" ELSE c.active,
   models |-> Renamed(c.models),
   allow |-> IF c.allow = {} THEN {} ELSE c.allow \cup {"find"},
   permission |-> c.permission, torn |-> c.torn]

(* merge_into_config: cached models are added to those of the file.        *)
WithCache(models) ==
  IF cache = "serves" /\ "disc" \notin DOMAIN models THEN Joined(models, Same({"disc"}, "off")) ELSE models

(* VibeConfig.load, after the migration: an active model that is not there *)
(* is replaced by the default.                                             *)
LoadedAsIs(c) ==
  [active |-> IF c.active = "unset" THEN Default ELSE c.active,
   models |-> WithCache(IF c.models = NoModels THEN BuiltIn ELSE c.models),
   allow |-> c.allow, provided |-> cache # "none"]

Loaded(c) ==
  LET live == LoadedAsIs(c) IN
  [live EXCEPT !.active = IF live.active \in DOMAIN live.models THEN live.active ELSE Default]

Init ==
  /\ file \in {Created, Older}
  /\ cache = "none"
  /\ proc = [p \in Procs |-> Down]
  /\ said = Migrated(file) /\ lost = FALSE
  /\ budget = [saves |-> MaxSaves, starts |-> MaxStarts, trouble |-> MaxTrouble]

\* What an instance that does not run begins with.
StartsNew == file = Created

-----------------------------------------------------------------------------
(* Starting.                                                               *)

Start(p) ==
  /\ proc[p].phase = "down" /\ budget.starts > 0
  /\ budget' = [budget EXCEPT !.starts = @ - 1]
  /\ proc' = [proc EXCEPT ![p] = [Down EXCEPT !.phase = "loading", !.next = "start"]]
  /\ UNCHANGED <<file, cache, said, lost>>

(* _migrate writes the file only when that changes it, and ignores a file  *)
(* it cannot read.                                                         *)
Migrate(p) ==
  /\ proc[p].phase = "loading" /\ ~file.torn /\ Migrated(file) # file
  /\ proc' = [proc EXCEPT ![p] = [@ EXCEPT !.phase = "emptying", !.buffer = Migrated(file), !.late = FALSE]]
  /\ UNCHANGED <<file, cache, said, lost, budget>>

(* A file that is no TOML ends a program that starts; one that runs keeps  *)
(* the settings it has.                                                    *)
Load(p) ==
  /\ proc[p].phase = "loading" /\ (file.torn \/ Migrated(file) = file)
  /\ proc' = [proc EXCEPT ![p] =
       IF ~file.torn THEN [@ EXCEPT !.phase = "ready", !.live = Loaded(file), !.behind = FALSE]
       ELSE IF @.next = "reload" THEN [@ EXCEPT !.phase = "ready"] ELSE Down]
  /\ UNCHANGED <<file, cache, said, lost, budget>>

-----------------------------------------------------------------------------
(* Changing a setting.                                                     *)

(* save_updates merges into the file as it is now; of a list or the models *)
(* the update holds all, as they were read when the program loaded them.   *)
SaveUpdates(p, update, live, next) ==
  /\ proc[p].phase = "ready" /\ budget.saves > 0
  /\ budget' = [budget EXCEPT !.saves = @ - 1]
  /\ proc' = [proc EXCEPT ![p] = IF file.torn THEN Down
       ELSE [@ EXCEPT !.phase = "emptying", !.update = update, !.live = live, !.next = next,
                      !.buffer = Merge(file, update),
                      !.late = proc[p].behind /\ (update.allow # {} \/ update.models # NoModels)]]
  /\ UNCHANGED <<file, cache, said, lost>>

Select(p, a) ==
  /\ a \in DOMAIN proc[p].live.models
  /\ SaveUpdates(p, [Nothing EXCEPT !.active = a], proc[p].live, "reload")

(* set_thinking: the models of the file with the new level, or, when the   *)
(* active model is not among them, all that this process knows.            *)
SetThinking(p, level) ==
  LET live == proc[p].live
      mine == [live EXCEPT !.models[live.active] = level]
      stored == file.models
      models == IF live.active \in DOMAIN stored THEN [stored EXCEPT ![live.active] = level] ELSE mine.models
  IN
  /\ live.active \in DOMAIN live.models
  /\ SaveUpdates(p, [Nothing EXCEPT !.models = models], mine, "reload")

(* "Always" with a pattern: the list of this process, with the pattern.    *)
Allow(p, pattern) ==
  LET merged == proc[p].live.allow \cup {pattern} IN
  /\ pattern \notin proc[p].live.allow
  /\ SaveUpdates(p, [Nothing EXCEPT !.allow = merged], [proc[p].live EXCEPT !.allow = merged], "ready")

(* "Always" without a pattern.                                             *)
SetPermission(p) == SaveUpdates(p, [Nothing EXCEPT !.permission = "always"], proc[p].live, "ready")

(* dump_config opens the file, which empties it, and writes.               *)
Open(p) ==
  /\ proc[p].phase = "emptying"
  /\ file' = Nothing
  /\ proc' = [proc EXCEPT ![p] = [@ EXCEPT !.phase = "writing"]]
  /\ UNCHANGED <<cache, said, lost, budget>>

(* What was set before and is set by this.                                 *)
Told(set, update) ==
  LET merged == Merge(set, update) IN
  [active |-> merged.active, models |-> Joined(merged.models, set.models),
   allow |-> merged.allow \cup set.allow, permission |-> merged.permission, torn |-> set.torn]

(* The others have read what is no longer there, or read while it was      *)
(* empty.                                                                  *)
Write(p) ==
  /\ proc[p].phase = "writing"
  /\ file' = proc[p].buffer
  /\ lost' = (lost \/ proc[p].late)
  /\ said' = Told(said, proc[p].update)
  /\ proc' = [q \in Procs |->
       IF q = p THEN [proc[p] EXCEPT !.phase = IF proc[p].next = "ready" THEN "ready" ELSE "loading",
                                     !.update = Nothing, !.buffer = Nothing, !.late = FALSE]
       ELSE IF proc[q].phase = "down" THEN Down
       ELSE [proc[q] EXCEPT !.behind = TRUE, !.late = @ \/ proc[q].phase \in {"emptying", "writing"}]]
  /\ UNCHANGED <<cache, budget>>

-----------------------------------------------------------------------------
(* Everything else that happens to a process and to the files.             *)

(* The model picker asks the providers, writes the cache and reloads.      *)
RefreshModels(p, found) ==
  /\ proc[p].phase = "ready" /\ found # cache /\ budget.saves > 0
  /\ found = "known" => cache # "none"      \* only a provider that answered is added
  /\ cache' = found
  /\ budget' = [budget EXCEPT !.saves = @ - 1]
  /\ proc' = [proc EXCEPT ![p] = [@ EXCEPT !.phase = "loading", !.next = "reload"]]
  /\ UNCHANGED <<file, said, lost>>

(* The cache file goes, or cannot be read: nothing is served.              *)
CacheGoes ==
  /\ cache # "none" /\ budget.trouble > 0
  /\ cache' = "none" /\ budget' = [budget EXCEPT !.trouble = @ - 1]
  /\ UNCHANGED <<file, proc, said, lost>>

Exit(p) ==
  /\ proc[p].phase = "ready"
  /\ proc' = [proc EXCEPT ![p] = Down]
  /\ UNCHANGED <<file, cache, said, lost, budget>>

(* A process is killed; while it writes, the file stays empty or in part.  *)
Crash(p) ==
  /\ proc[p].phase # "down" /\ budget.trouble > 0
  /\ budget' = [budget EXCEPT !.trouble = @ - 1]
  /\ proc' = [proc EXCEPT ![p] = Down]
  /\ IF proc[p].phase = "writing"
     THEN /\ \E torn \in BOOLEAN: file' = [Nothing EXCEPT !.torn = torn]
          /\ lost' = TRUE
     ELSE UNCHANGED <<file, lost>>
  /\ UNCHANGED <<cache, said>>

ConfigNext ==
  \/ \E p \in Procs:
       \/ Start(p) \/ Migrate(p) \/ Load(p)
       \/ \E a \in Aliases: Select(p, a)
       \/ \E level \in Levels: SetThinking(p, level)
       \/ \E pattern \in Patterns: Allow(p, pattern)
       \/ SetPermission(p) \/ Open(p) \/ Write(p)
       \/ \E found \in {"known", "serves"}: RefreshModels(p, found)
       \/ Exit(p) \/ Crash(p)
  \/ CacheGoes

Spec == Init /\ [][ConfigNext]_configVars

-----------------------------------------------------------------------------
Phases == {"down", "loading", "ready", "emptying", "writing"}

\* Every variable has its type (the settings file, the cache and the state
\* of each process).
TypeOK ==
  /\ file \in Config /\ said \in Config
  /\ cache \in {"none", "known", "serves"} /\ lost \in BOOLEAN
  /\ DOMAIN proc = Procs
  /\ \A p \in Procs: proc[p].phase \in Phases /\ proc[p].buffer \in Config /\ proc[p].update \in Config

(* While nobody writes, and unless a save was cut short or overwrote what  *)
(* it had not seen, the file holds all that was set: by an earlier run of  *)
(* the program, by another process, through the migration and beside the   *)
(* settings that were changed since.                                       *)
SettingsKept ==
  ~lost /\ ~(\E p \in Procs: proc[p].phase = "writing") =>
    LET c == Migrated(file) IN
    /\ ~c.torn /\ c.active = said.active /\ c.permission = said.permission
    /\ said.allow \subseteq c.allow
    /\ \A a \in DOMAIN said.models: a \in DOMAIN c.models /\ c.models[a] = said.models[a]

(* A running program can use its active model: it is in the list, and its  *)
(* provider is known.  The exception is a discovered model that            *)
(* set_thinking wrote to the file without its provider.                    *)
ModelUsable ==
  \A p \in Procs: proc[p].phase = "ready" =>
    LET live == proc[p].live IN
    /\ live.active \in DOMAIN live.models
    /\ live.active = "disc" /\ ~live.provided => "disc" \in DOMAIN said.models

\* What was set stays set and can be used (save_updates, deep_update,
\* _migrate, set_thinking, load).
ConfigSafe == SettingsKept /\ ModelUsable
=============================================================================
