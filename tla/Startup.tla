------------------------------- MODULE Startup ------------------------------
(***************************************************************************)
(* What the program asks as it starts, and what depends on the answer.     *)
(*                                                                         *)
(* Which directories the user trusts, and which files of a project count   *)
(* therefore: TrustedFoldersManager with the file that the processes share,*)
(* the dialog at the start of the program, and HarnessFilesManager.        *)
(* Abstracted: what the files of a project say (a directory has an         *)
(* AGENTS.md, or a directory of settings, or not), and the bound of the    *)
(* walk that looks for them.                                               *)
(*                                                                         *)
(* The first start without an API key: VibeConfig refuses to load, the     *)
(* onboarding asks for the key of the provider that it finds in the same   *)
(* settings by a way of its own (OnboardingContext reads them unvalidated),*)
(* and the settings are loaded again.  Abstracted: what a key is, and the  *)
(* screens before the one that asks.                                       *)
(***************************************************************************)
EXTENDS Naturals, Sequences, FiniteSets

CONSTANTS
  Dirs,       \* directories
  Parent,     \* Parent[d]: the directory that d is in, Top for the topmost
  Top,        \* above every directory
  Home,       \* the home directory of the user
  Configured, \* directories with settings, tools, skills or agents of a project
  Documented, \* directories with an AGENTS.md
  Programs,   \* processes
  MaxRuns,    \* bound: starts of a process
  MaxKills,   \* bound: processes killed while they write
  MaxModels,  \* bound: models of the settings
  MaxLaunches \* bound: starts with or without a key

VARIABLES
  record,   \* trusted_folders.toml: [trusted, untrusted, torn]
  program,  \* program[p]: [step, cwd, trusted, untrusted, session, result]
  decided,  \* history: what the user last decided, and the directories ever trusted
  outdated,    \* history: a process wrote without what another had written, or was killed
  runs,     \* count of starts
  killed,   \* count of processes killed while they write
  settings, \* [active, models, keys]; models: [alias, provider] in order
  keys,     \* providers with a key: [set: in this process, saved: in the .env file]
  launch,   \* the process that needs a key: [step, asked, result]
  launches  \* count of its starts

trustVars == <<record, program, decided, outdated, runs, killed>>
onboardingVars == <<settings, keys, launch, launches>>

\* A directory and those that it is in: what every set has that has d, and with a directory
\* the one it is in.
HasParents(S) == \A d \in S : Parent[d] # Top => Parent[d] \in S
Above == [d \in Dirs |-> {a \in Dirs : \A S \in SUBSET Dirs : d \in S /\ HasParents(S) => a \in S}]

\* No directory is in itself.
TrustAssumption ==
  /\ Parent \in [Dirs -> Dirs \cup {Top}] /\ Top \notin Dirs
  /\ \A d \in Dirs : Parent[d] # Top => d \notin Above[Parent[d]]
  /\ Home \in Dirs /\ Configured \subseteq Dirs /\ Documented \subseteq Dirs
  /\ MaxRuns \in Nat /\ MaxKills \in Nat

OnboardingAssumption == MaxModels \in Nat /\ MaxLaunches \in Nat

Whole(trusted, untrusted) == [trusted |-> trusted, untrusted |-> untrusted, torn |-> FALSE]
Off == [step |-> "off", cwd |-> Home, trusted |-> {}, untrusted |-> {}, session |-> {},
        result |-> "none"]

Init ==
  /\ record = Whole({}, {})
  /\ program = [p \in Programs |-> Off]
  /\ decided = [last |-> [d \in Dirs |-> "none"], once |-> {}] /\ outdated = FALSE
  /\ runs = 0 /\ killed = 0

-----------------------------------------------------------------------------
(* TrustedFoldersManager *)

\* The directory closest to d, upwards, that satisfies P; Top where there is none.
Nearest(d, S) ==
  IF Above[d] \cap S = {} THEN Top
  ELSE CHOOSE a \in Above[d] \cap S : \A b \in Above[d] \cap S : b \in Above[a]

\* Of a directory in two lists, trust comes first.
IsTrusted(q, d) ==
  LET yes == q.trusted \cup q.session
      a == Nearest(d, yes \cup q.untrusted)
  IN IF a = Top THEN "unknown" ELSE IF a \in yes THEN "trusted" ELSE "untrusted"

\* Mutant: the outermost of the directories that are trusted.
FindTrustRootOutermost(q, d) ==
  LET yes == (q.trusted \cup q.session) \cap Above[d] IN
  IF yes = {} THEN Top ELSE CHOOSE a \in yes : yes \cap Above[a] = {a}

FindTrustRoot(q, d) == Nearest(d, q.trusted \cup q.session)

\* What could change the behaviour of the agent: its own AGENTS.md, and settings in d
\* and in the directories below it.
FindTrustableFiles(d) ==
  ({d} \cap Documented) \cup {c \in Configured : d \in Above[c]}

AddTrusted(q, d) == [q EXCEPT !.trusted = @ \cup {d}, !.untrusted = @ \ {d}]
AddUntrusted(q, d) == [q EXCEPT !.untrusted = @ \cup {d}, !.trusted = @ \ {d}]

-----------------------------------------------------------------------------
(* HarnessFilesManager: what a process takes from the project that it runs in. *)

TrustedWorkdir(q) == IsTrusted(q, q.cwd) = "trusted"

\* The settings that are read, and written, are the project's or the user's.
ConfigFile(q) == IF TrustedWorkdir(q) /\ q.cwd \in Configured THEN q.cwd ELSE Top

\* The AGENTS.md files from the root of the trust down to the working directory.
LoadProjectDocs(q) ==
  LET root == FindTrustRoot(q, q.cwd) IN
  IF TrustedWorkdir(q) /\ root # Top
  THEN {d \in Documented \cap Above[q.cwd] : root \in Above[d]}
  ELSE {}

\* The ones between the working directory and a file that is read in d.
FindSubdirectoryDocs(q, d) ==
  IF TrustedWorkdir(q) /\ q.cwd \in Above[d]
  THEN {e \in Documented \cap Above[d] : q.cwd \in Above[e] /\ e # q.cwd}
  ELSE {}

-----------------------------------------------------------------------------
(* The program starts: main(), and the dialog that asks for trust. *)

Loaded == IF record.torn THEN Whole({}, {}) ELSE record

\* --trust counts for this process; without a terminal nobody is asked.
Start(p, d, mode) ==
  LET q == [Off EXCEPT !.cwd = d, !.trusted = Loaded.trusted, !.untrusted = Loaded.untrusted,
                       !.session = IF mode = "trust" THEN {d} ELSE {}]
      asks == /\ mode # "script" /\ d # Home
              /\ FindTrustableFiles(d) # {} /\ IsTrusted(q, d) = "unknown"
  IN /\ program[p].step = "off" /\ runs < MaxRuns
     /\ record' = Loaded
     /\ program' = [program EXCEPT ![p] = [q EXCEPT !.step = IF asks THEN "asking" ELSE "running"]]
     /\ runs' = runs + 1
     /\ outdated' = (outdated \/ record.torn \/ \E o \in Programs : program[o].step = "writing")
     /\ UNCHANGED <<decided, killed>>

\* A choice, with its key or with the arrows and Enter, is posted to the application,
\* which ends; what a second key chooses until then takes its place.
Select(p, choice) ==
  /\ program[p].step = "asking" /\ program' = [program EXCEPT ![p].result = choice]
  /\ UNCHANGED <<record, decided, outdated, runs, killed>>

\* The dialog ends with a result: it enters the lists that this process has read, and
\* the file is opened for them, which empties it.
Close(p) ==
  LET q == program[p] IN
  /\ q.step = "asking" /\ q.result # "none"
  /\ program' = [program EXCEPT ![p] =
       [(IF q.result = "trusted" THEN AddTrusted(q, q.cwd) ELSE AddUntrusted(q, q.cwd))
          EXCEPT !.step = "writing"]]
  /\ decided' = [last |-> [decided.last EXCEPT ![q.cwd] = q.result],
                 once |-> IF q.result = "trusted" THEN decided.once \cup {q.cwd} ELSE decided.once]
  /\ outdated' = (outdated \/ record.trusted # q.trusted \/ record.untrusted # q.untrusted
                     \/ \E o \in Programs \ {p} : program[o].step = "writing")
  /\ record' = Whole({}, {})
  /\ UNCHANGED <<runs, killed>>

Save(p) ==
  /\ program[p].step = "writing"
  /\ record' = Whole(program[p].trusted, program[p].untrusted)
  /\ program' = [program EXCEPT ![p].step = "running"]
  /\ UNCHANGED <<decided, outdated, runs, killed>>

\* The dialog cannot be shown, and nothing is decided.
DialogFails(p) ==
  /\ program[p].step = "asking" /\ program' = [program EXCEPT ![p].step = "running"]
  /\ UNCHANGED <<record, decided, outdated, runs, killed>>

\* Quit, whatever was chosen before, ends the program without a decision.
Quit(p) ==
  /\ program[p].step \in {"asking", "running"}
  /\ program' = [program EXCEPT ![p] = Off]
  /\ UNCHANGED <<record, decided, outdated, runs, killed>>

\* Killed while it writes: the file stays empty, or ends within an entry.
Kill(p) ==
  /\ program[p].step = "writing" /\ killed < MaxKills
  /\ program' = [program EXCEPT ![p] = Off]
  /\ \E torn \in BOOLEAN : record' = [record EXCEPT !.torn = torn]
  /\ killed' = killed + 1 /\ outdated' = TRUE
  /\ UNCHANGED <<decided, runs>>

-----------------------------------------------------------------------------
TrustNext ==
  \E p \in Programs :
    \/ \E d \in Dirs, mode \in {"ask", "trust", "script"} : Start(p, d, mode)
    \/ \E choice \in {"trusted", "untrusted"} : Select(p, choice)
    \/ Close(p) \/ Save(p) \/ DialogFails(p) \/ Quit(p) \/ Kill(p)

Spec == Init /\ [][TrustNext]_trustVars

-----------------------------------------------------------------------------
(* Properties. *)

TypeOK ==
  /\ record.trusted \subseteq Dirs /\ record.untrusted \subseteq Dirs /\ record.torn \in BOOLEAN
  /\ \A p \in Programs : program[p].step \in {"off", "asking", "writing", "running"}
  /\ decided.last \in [Dirs -> {"none", "trusted", "untrusted"}] /\ decided.once \subseteq Dirs

Writing == \E p \in Programs : program[p].step = "writing"

\* What was decided is what the file says, as long as processes come one after the other.
DecisionsKept ==
  ~outdated /\ ~Writing =>
    \A d \in Dirs : /\ d \in record.trusted <=> decided.last[d] = "trusted"
                    /\ d \in record.untrusted <=> decided.last[d] = "untrusted"

\* A question is asked about what is open: unless another process has decided meanwhile,
\* nothing was decided about the directory or one above it.
AskedOnce ==
  \A p \in Programs :
    program[p].step = "asking" /\ ~outdated /\ ~Writing /\ Whole(program[p].trusted, program[p].untrusted) = record =>
      \A d \in Above[program[p].cwd] : decided.last[d] = "none"

\* Whatever was lost between processes, a project counts only if the user trusts its
\* directory, or one above it, or said so for this process.
UsedIfTrusted ==
  \A p \in Programs : LET q == program[p] IN
    q.step = "running" /\ TrustedWorkdir(q) =>
      q.session # {} \/ Above[q.cwd] \cap decided.once # {}

\* A file that the agent is instructed by comes from a directory that is trusted, and it
\* comes once: with the project, or with a file below the working directory.
DocsTrusted ==
  \A p \in Programs : LET q == program[p] IN
    q.step = "running" =>
      /\ \A d \in LoadProjectDocs(q) : IsTrusted(q, d) = "trusted"
      /\ \A d \in Dirs : FindSubdirectoryDocs(q, d) \cap LoadProjectDocs(q) = {}
      /\ ConfigFile(q) # Top => IsTrusted(q, ConfigFile(q)) = "trusted"

FoldersSafe == DecisionsKept /\ AskedOnce /\ UsedIfTrusted /\ DocsTrusted

-----------------------------------------------------------------------------
(* The key of the active model. *)

Providers == {"own", "other"}
Aliases == {"default", "mine"}
DefaultModel == "default"
DefaultProvider == "own"  \* DEFAULT_PROVIDERS[0]; its key is asked for when none else is

\* How a provider is set up: with the name of its key, with none (a local one), or not at
\* all; a name that is no name of an environment variable cannot be set.
Settings ==
  [active: Aliases \cup {"gone"},
   models: UNION {[1..n -> [alias: Aliases, provider: Providers]] : n \in 0..MaxModels},
   keys: [Providers -> {"key", "local", "missing", "invalid"}]]

OnboardingInit ==
  /\ settings \in Settings /\ settings.keys["own"] = "key"
  /\ keys = [set |-> {}, saved |-> {}]
  /\ launch = [step |-> "off", asked |-> "none", result |-> "none"] /\ launches = 0

StartsUnset == settings.models = <<>> /\ settings.active = "gone" /\ settings.keys["other"] = "key"

-----------------------------------------------------------------------------
Provided(name) == settings.keys[name] # "missing"

\* The provider of the first of these models.
FirstOf(S) == settings.models[CHOOSE i \in S : \A j \in S : i <= j].provider

\* get_active_provider: of the first model with the alias; "none" is an error.
ActiveProvider ==
  LET of == {i \in DOMAIN settings.models : settings.models[i].alias = settings.active} IN
  IF of # {} /\ Provided(FirstOf(of)) THEN FirstOf(of) ELSE "none"

\* _check_api_key; a model or provider that is not there is no missing key.
MissingKey ==
  ActiveProvider # "none" /\ settings.keys[ActiveProvider] # "local" /\ ActiveProvider \notin keys.set

Usable == {i \in DOMAIN settings.models : Provided(settings.models[i].provider)}

\* Mutant: the first model that has a provider.
ResolveProviderFirst == IF Usable = {} THEN DefaultProvider ELSE FirstOf(Usable)

\* _resolve_provider: the active model, else the default model, else any model that has
\* a provider, else the only provider.
ResolveProvider ==
  LET With(alias) == {i \in Usable : settings.models[i].alias = alias}
      present == {name \in Providers : Provided(name)}
  IN IF With(settings.active) # {} THEN FirstOf(With(settings.active))
     ELSE IF With(DefaultModel) # {} THEN FirstOf(With(DefaultModel))
     ELSE IF Usable # {} THEN FirstOf(Usable)
     ELSE IF \E name \in Providers : present = {name} THEN CHOOSE name \in Providers : present = {name}
     ELSE DefaultProvider

\* A provider without a key is not asked about, but the default one.
Asked == IF settings.keys[ResolveProvider] = "local" THEN DefaultProvider ELSE ResolveProvider

-----------------------------------------------------------------------------
\* load_dotenv_values, then load_config_or_exit: without a key the onboarding runs, or
\* the program ends where nobody can be asked.
Launch(mode) ==
  LET known == [keys EXCEPT !.set = keys.saved] IN
  /\ launch.step = "off" /\ launches < MaxLaunches /\ launches' = launches + 1
  /\ keys' = known
  /\ launch' =
       IF mode = "setup" THEN [step |-> "setup", asked |-> Asked, result |-> "none"]
       ELSE IF ActiveProvider = "none" \/ settings.keys[ActiveProvider] = "local" \/ ActiveProvider \in known.set
       THEN [step |-> "running", asked |-> "none", result |-> "none"]
       ELSE IF mode = "ask" THEN [step |-> "asking", asked |-> Asked, result |-> "none"]
       ELSE [step |-> "off", asked |-> "none", result |-> "none"]
  /\ UNCHANGED settings

\* persist_api_key: the environment of this process first, then the file.
PersistKey(saves) ==
  /\ launch.step \in {"asking", "setup"} /\ launch.result = "none"
  /\ IF settings.keys[launch.asked] = "invalid"
     THEN launch' = [launch EXCEPT !.result = "env_var_error"] /\ UNCHANGED keys
     ELSE /\ keys' = [set |-> keys.set \cup {launch.asked},
                      saved |-> IF saves THEN keys.saved \cup {launch.asked} ELSE keys.saved]
          /\ launch' = [launch EXCEPT !.result = IF saves THEN "completed" ELSE "save_error"]
  /\ UNCHANGED <<settings, launches>>

Cancel ==
  /\ launch.step \in {"asking", "setup"} /\ launch.result = "none"
  /\ launch' = [launch EXCEPT !.step = "off"]
  /\ UNCHANGED <<settings, keys, launches>>

\* run_onboarding ends: a name that cannot be set ends the program, and so does --setup.
\* Then the settings are loaded a second time, where a missing key is not caught.
Reload ==
  /\ launch.result # "none" /\ launch.step \in {"asking", "setup"}
  /\ launch' = [launch EXCEPT
       !.step = IF @ = "setup" \/ launch.result = "env_var_error" THEN "off"
                ELSE IF MissingKey THEN "failed" ELSE "running"]
  /\ UNCHANGED <<settings, keys, launches>>

Exit ==
  /\ launch.step \in {"running", "failed"} /\ launch' = [launch EXCEPT !.step = "off"]
  /\ UNCHANGED <<settings, keys, launches>>

-----------------------------------------------------------------------------
OnboardingNext ==
  \/ \E mode \in {"ask", "script", "setup"} : Launch(mode)
  \/ \E saves \in BOOLEAN : PersistKey(saves)
  \/ Cancel \/ Reload \/ Exit

-----------------------------------------------------------------------------
(* Properties. *)

OnboardingTypeOK ==
  /\ keys.set \subseteq Providers /\ keys.saved \subseteq keys.set
  /\ launch.step \in {"off", "setup", "asking", "running", "failed"}
  /\ launch.result \in {"none", "env_var_error", "save_error", "completed"}

\* The key that is asked for is the one that was missing, however the settings were
\* written: after it was given the program runs and does not fail a second time.
KeyAskedFor ==
  /\ launch.step = "asking" /\ launch.result = "none" => launch.asked = ActiveProvider
  /\ launch.step # "failed"

\* A key that was saved is not asked for again.
SavedOnce == launch.step = "asking" /\ launch.result = "none" => launch.asked \notin keys.saved

OnboardingSafe == KeyAskedFor /\ SavedOnce

=============================================================================
