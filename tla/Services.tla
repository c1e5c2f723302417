------------------------------ MODULE Services ------------------------------
(***************************************************************************)
(* Components about which theorems are proved (Services_proofs): what a    *)
(* start asks and finds, where tools and settings come from, the shell     *)
(* tool, the sessions that are saved, and the rows, forms and panels of    *)
(* the terminal with the session behind them.  They share no state: `part` *)
(* says which of them runs, the others stay in their initial states.       *)
(* MCServices checks them beside the components that it adds.              *)
(***************************************************************************)
EXTENDS Integers, Sequences, FiniteSets, TLC

CONSTANTS
  Servers, Connectors, MaxChanges,            \* RemoteTools
  MaxShells, MaxWritten, Cap, MaxParts,       \* Shells
  Count, Multi, WithoutOther, MaxFormKeys,    \* QuestionForm
  MaxKeys, MaxEntries,                        \* PromptInput
  MaxPanels, MaxPosted,                       \* BottomPanel
  Locals, Remotes, NoSession, MaxFollowed, MaxHandled,                       \* SessionSwitch
  Callers, NoCaller, MaxLayerCalls, MaxEdits, \* ConfigLayers
  Keys, Values, MaxLayers, MaxLayerItems,
  Dirs, Parent, Top, Home, Configured, Documented, Programs, MaxRuns,        \* Startup
  MaxKills, MaxModels, MaxLaunches,
  UpdatingPrograms, TTL, MaxVersion, MaxTime, MaxLaunched,                   \* Updates
  Procs, MaxSaves, MaxStarts, MaxTrouble,     \* Configuration
  Renames, Names, Places, MaxSavedSessions, MaxSessionSaid, MaxLines,        \* SavedSessions
  MaxCuts,
  ShownCalls, NoCall, MaxShown, MaxLooks      \* EventDisplay

VARIABLES
  part,
  served, mcpCache, conns, lock, available, instances, integrated, tasks, init, screen,
  disabled, since, disturbed,
  shells, shellCalls, buffers, kills,
  command, always, grantedRules, permissionAnswer,
  form, field, sentForm, formKeys, confirmed,
  area, menu, pastPrompts, changed, toBody, toApp, switching, promptKeys, draft,
  currentPanel, mounted, removing, asking, remoteAsks, rewinding, chosen, selecting, inbox,
  next, shown, overlapped, swept,
  workflows, savedSessions, ownSession, attached, followed, waitingInput, onScreen, panels,
  handling, handled, happened,
  layer, holder, waiting, job, store, permitted, answers, toldTrust, decision, floor, broken,
  count, strategy, layers, merged, failed,
  record, program, decided, outdated, runs, killed,
  settings, keys, launch, launches,
  cacheFile, released, installed, prog, write, now, starts, shownNews, toldVersions,
  disturbedCache, cutWrites,
  file, cache, proc, said, lost, budget,
  disk, order, liveSession, savingSession, renaming, begun, toldName, raced, cutSave,
  rows, currentRows, tracked, atBottom, feed, shownEvents, looks, brokenRows

Tools == INSTANCE RemoteTools
Shell == INSTANCE Shells WITH calls <- shellCalls, granted <- grantedRules, answer <-
  permissionAnswer
Question == INSTANCE QuestionForm WITH posted <- sentForm, MaxKeys <- MaxFormKeys, Hidden <-
  WithoutOther, keys <- formKeys
Prompt == INSTANCE PromptInput WITH history <- pastPrompts, keys <- promptKeys
Panel == INSTANCE BottomPanel WITH current <- currentPanel
Switch == INSTANCE SessionSwitch WITH screen <- onScreen, stream <- followed, source <-
  attached, waits <- waitingInput, handler <- handling, agent <- ownSession, saved <-
  savedSessions, None <- NoSession, MaxEvents <- MaxFollowed
Layer == INSTANCE ConfigLayers WITH MaxCalls <- MaxLayerCalls, MaxItems <- MaxLayerItems, told <-
  toldTrust, Nobody <- NoCaller
Start == INSTANCE Startup
Update == INSTANCE Updates WITH disturbed <- disturbedCache, file <- cacheFile, MaxStarts <-
  MaxLaunched, Programs <- UpdatingPrograms, shown <- shownNews, told <- toldVersions, cut <-
  cutWrites
Config == INSTANCE Configuration
Session == INSTANCE SavedSessions WITH MaxSaid <- MaxSessionSaid, told <- toldName, cut <-
  cutSave, live <- liveSession, save <- savingSession, rename <- renaming, MaxSessions <-
  MaxSavedSessions
Display == INSTANCE EventDisplay WITH Calls <- ShownCalls, current <- currentRows, shown <-
  shownEvents, failed <- brokenRows, None <- NoCall, bottom <- atBottom

ASSUME ServicesAssumptions ==
  /\ Tools!ToolsAssumption
  /\ Shell!ShellAssumption
  /\ Shell!PermissionAssumption
  /\ Question!QuestionAssumption
  /\ Prompt!InputAssumption
  /\ Panel!PanelAssumption
  /\ Switch!SwitchAssumption
  /\ Layer!LayerAssumption
  /\ Layer!MergeAssumption
  /\ Start!TrustAssumption
  /\ Start!OnboardingAssumption
  /\ Update!UpdateAssumption
  /\ Config!ConfigAssumption
  /\ Session!SessionsAssumption
  /\ Display!DisplayAssumption

toolVars == <<served, mcpCache, conns, lock, available, instances, integrated, tasks, init,
              screen, disabled, since, disturbed>>
commandVars == <<command, always, grantedRules, permissionAnswer>>
shellVars == <<shells, shellCalls, buffers, kills>>
questionVars == <<form, field, sentForm, formKeys, confirmed>>
promptVars == <<area, menu, pastPrompts, changed, toBody, toApp, switching, promptKeys, draft>>
panelVars == <<currentPanel, mounted, removing, asking, remoteAsks, rewinding, chosen,
               selecting, inbox, next, shown, overlapped, swept>>
switchVars == <<workflows, savedSessions, ownSession, attached, followed, waitingInput,
                onScreen, panels, handling, handled, happened>>
layerVars == <<layer, holder, waiting, job, store, permitted, answers, toldTrust, decision,
               floor, broken, count>>
mergeVars == <<strategy, layers, merged, failed>>
trustVars == <<record, program, decided, outdated, runs, killed>>
onboardingVars == <<settings, keys, launch, launches>>
updateVars == <<cacheFile, released, installed, prog, write, now, starts, shownNews,
                toldVersions, disturbedCache, cutWrites>>
configVars == <<file, cache, proc, said, lost, budget>>
sessionsVars == <<disk, order, liveSession, savingSession, renaming, begun, toldName, raced,
                  cutSave>>
displayVars == <<rows, currentRows, tracked, atBottom, feed, shownEvents, looks, brokenRows>>
servicesVars == <<part, toolVars, commandVars, shellVars, questionVars, promptVars, panelVars,
                  switchVars, layerVars, mergeVars, trustVars, onboardingVars, updateVars,
                  configVars, sessionsVars, displayVars>>

\* The components of MCServices.
Parts == {"llm", "formats", "tools", "config", "permission", "shell", "folders", "setup", "file",
          "question", "prompt", "panel", "window", "switch", "display", "saved", "console",
          "update", "layer", "mention", "merging"}

ServicesInit ==
  /\ part \in Parts
  /\ Tools!Init
  /\ Shell!PermissionInit /\ (part # "permission" => Shell!StartsPlain)
  /\ Shell!Init
  /\ Question!Init
  /\ Prompt!Init /\ (part # "prompt" => Prompt!StartsEmpty)
  /\ Panel!Init
  /\ Switch!Init /\ (part # "switch" => Switch!StartsAlone)
  /\ Layer!Init /\ (part # "layer" => Layer!StartsForbidden)
  /\ Layer!MergeInit /\ (part # "merging" => Layer!StartsReplacing)
  /\ Start!Init
  /\ Start!OnboardingInit /\ (part # "setup" => Start!StartsUnset)
  /\ Update!Init
  /\ Config!Init /\ (part # "config" => Config!StartsNew)
  /\ Session!Init
  /\ Display!Init

ServicesNext ==
  \/ /\ part = "tools" /\ Tools!Next
     /\ UNCHANGED <<part, commandVars, shellVars, questionVars, promptVars, panelVars,
                    switchVars, layerVars, mergeVars, trustVars, onboardingVars, updateVars,
                    configVars, sessionsVars, displayVars>>
  \/ /\ part = "permission" /\ Shell!PermissionNext
     /\ UNCHANGED <<part, toolVars, shellVars, questionVars, promptVars, panelVars, switchVars,
                    layerVars, mergeVars, trustVars, onboardingVars, updateVars, configVars,
                    sessionsVars, displayVars>>
  \/ /\ part = "shell" /\ Shell!ShellNext
     /\ UNCHANGED <<part, toolVars, commandVars, questionVars, promptVars, panelVars,
                    switchVars, layerVars, mergeVars, trustVars, onboardingVars, updateVars,
                    configVars, sessionsVars, displayVars>>
  \/ /\ part = "question" /\ Question!QuestionNext
     /\ UNCHANGED <<part, toolVars, commandVars, shellVars, promptVars, panelVars, switchVars,
                    layerVars, mergeVars, trustVars, onboardingVars, updateVars, configVars,
                    sessionsVars, displayVars>>
  \/ /\ part = "prompt" /\ Prompt!PromptNext
     /\ UNCHANGED <<part, toolVars, commandVars, shellVars, questionVars, panelVars,
                    switchVars, layerVars, mergeVars, trustVars, onboardingVars, updateVars,
                    configVars, sessionsVars, displayVars>>
  \/ /\ part = "panel" /\ Panel!PanelNext
     /\ UNCHANGED <<part, toolVars, commandVars, shellVars, questionVars, promptVars,
                    switchVars, layerVars, mergeVars, trustVars, onboardingVars, updateVars,
                    configVars, sessionsVars, displayVars>>
  \/ /\ part = "switch" /\ Switch!SwitchNext
     /\ UNCHANGED <<part, toolVars, commandVars, shellVars, questionVars, promptVars,
                    panelVars, layerVars, mergeVars, trustVars, onboardingVars, updateVars,
                    configVars, sessionsVars, displayVars>>
  \/ /\ part = "layer" /\ Layer!LayerNext
     /\ UNCHANGED <<part, toolVars, commandVars, shellVars, questionVars, promptVars,
                    panelVars, switchVars, mergeVars, trustVars, onboardingVars, updateVars,
                    configVars, sessionsVars, displayVars>>
  \/ /\ part = "merging" /\ Layer!MergeNext
     /\ UNCHANGED <<part, toolVars, commandVars, shellVars, questionVars, promptVars,
                    panelVars, switchVars, layerVars, trustVars, onboardingVars, updateVars,
                    configVars, sessionsVars, displayVars>>
  \/ /\ part = "folders" /\ Start!TrustNext
     /\ UNCHANGED <<part, toolVars, commandVars, shellVars, questionVars, promptVars,
                    panelVars, switchVars, layerVars, mergeVars, onboardingVars, updateVars,
                    configVars, sessionsVars, displayVars>>
  \/ /\ part = "setup" /\ Start!OnboardingNext
     /\ UNCHANGED <<part, toolVars, commandVars, shellVars, questionVars, promptVars,
                    panelVars, switchVars, layerVars, mergeVars, trustVars, updateVars,
                    configVars, sessionsVars, displayVars>>
  \/ /\ part = "update" /\ Update!UpdateNext
     /\ UNCHANGED <<part, toolVars, commandVars, shellVars, questionVars, promptVars,
                    panelVars, switchVars, layerVars, mergeVars, trustVars, onboardingVars,
                    configVars, sessionsVars, displayVars>>
  \/ /\ part = "config" /\ Config!ConfigNext
     /\ UNCHANGED <<part, toolVars, commandVars, shellVars, questionVars, promptVars,
                    panelVars, switchVars, layerVars, mergeVars, trustVars, onboardingVars,
                    updateVars, sessionsVars, displayVars>>
  \/ /\ part = "saved" /\ Session!SessionsNext
     /\ UNCHANGED <<part, toolVars, commandVars, shellVars, questionVars, promptVars,
                    panelVars, switchVars, layerVars, mergeVars, trustVars, onboardingVars,
                    updateVars, configVars, displayVars>>
  \/ /\ part = "display" /\ Display!DisplayNext
     /\ UNCHANGED <<part, toolVars, commandVars, shellVars, questionVars, promptVars,
                    panelVars, switchVars, layerVars, mergeVars, trustVars, onboardingVars,
                    updateVars, configVars, sessionsVars>>

\* What the behaviours of MCServices are for these components.
ServicesSpec == ServicesInit /\ [][ServicesNext]_servicesVars

-----------------------------------------------------------------------------
(* Properties. *)

\* See ToolsSafe in RemoteTools: the tools that the agent has are those of the
\* servers and connectors of the last refresh (manager.py, mcp_app.py).
ToolsSafe == part = "tools" => Tools!TypeOK /\ Tools!ToolsSafe

\* See PermissionSafe and ShellSafe: what a command needs is asked for and a grant counts
\* later, and a call of the shell tool returns what its command wrote (bash.py,
\* background.py).
CommandsSafe ==
  /\ part = "permission" => Shell!PermissionTypeOK /\ Shell!PermissionSafe
  /\ part = "shell" => Shell!TypeOK /\ Shell!ShellSafe

\* See LayersSafe in ConfigLayers: a layer of settings is read if it is trusted, and what is
\* read is what it holds (layer.py).
LayerSafe == part = "layer" => Layer!TypeOK /\ Layer!LayersSafe

\* See ConfigSafe in Configuration: a setting stays as it was last set, and the active model
\* can be used (_settings.py, model_discovery.py).
ConfigSafe == part = "config" => Config!TypeOK /\ Config!ConfigSafe

\* See SessionsSafe in SavedSessions and DisplaySafe: a session keeps its name and its
\* messages whoever saves it, and what is shown of its events is what they say
\* (saved_sessions.py, session_logger.py, event_handler.py).
SessionsSafe ==
  /\ part = "saved" => Session!TypeOK /\ Session!SessionsSafe
  /\ part = "display" => Display!TypeOK /\ Display!DisplaySafe

\* See QuestionSafe, PromptSafe, PanelsSafe and SwitchSafe: the answers that are sent are
\* what the user confirmed, a draft waits while the history is shown, what is shown below
\* the conversation is what the application waits for, and prompts and answers go to the
\* session on the screen (question_app.py, history_manager.py, text_area.py, app.py,
\* remote_session_manager.py).
FormsSafe ==
  /\ part = "question" => Question!TypeOK /\ Question!QuestionSafe
  /\ part = "prompt" => Prompt!TypeOK /\ Prompt!PromptSafe
  /\ part = "panel" => Panel!TypeOK /\ Panel!PanelsSafe
  /\ part = "switch" => Switch!TypeOK /\ Switch!SwitchSafe

\* See FoldersSafe, OnboardingSafe, UpdatesSafe and LayersSafe: a project counts if the user
\* trusts its directory and the decision is kept, a layer of settings is read if it is
\* trusted, the key that is missing is the one that is asked for, and news are told once
\* (trusted_folders.py, _harness_manager.py, layer.py, onboarding/context.py,
\* update_notifier/).
SetupSafe ==
  /\ part = "folders" => Start!TypeOK /\ Start!FoldersSafe
  /\ part = "setup" => Start!OnboardingTypeOK /\ Start!OnboardingSafe
  /\ part = "update" => Update!TypeOK /\ Update!UpdatesSafe
  /\ LayerSafe
===============================================================================
