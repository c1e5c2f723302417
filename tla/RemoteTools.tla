----------------------------- MODULE RemoteTools -----------------------------
(***************************************************************************)
(* Tools of MCP servers and connectors: MCPRegistry and ConnectorRegistry  *)
(* cache what they discover, ToolManager takes it over, and the /mcp       *)
(* screen (MCPApp, ConnectorAuthApp) shows and refreshes it, while the     *)
(* thread of deferred initialisation discovers for the first time.         *)
(*                                                                         *)
(* Abstracted: the tools of a source are one version of it, 0 for none; a  *)
(* source that fails or is not ready serves 0.  A bootstrap lists every    *)
(* connector.                                                              *)
(***************************************************************************)
EXTENDS Integers, FiniteSets

CONSTANTS
  Servers,     \* MCP servers of the configuration
  Connectors,  \* connectors of the workspace
  MaxChanges   \* bound: changes of what is served, and of what is disabled

VARIABLES
  served,     \* what a source serves now, and how often that, or disabled, changed
  mcpCache,   \* MCPRegistry._cache
  conns,      \* ConnectorRegistry: _cache, and whether _alias_to_id is filled
  lock,       \* the task that holds _discover_lock
  available,  \* ToolManager._available
  instances,  \* ToolManager._instances
  integrated, \* _mcp_integrated
  tasks,      \* discoveries: their step, and what they got so far
  init,       \* the thread of deferred initialisation: "running", "ready", "failed"
  screen,     \* what the user has open, and what it shows
  disabled,   \* sources that the configuration disables
  since,      \* versions served when the last undisturbed refresh began
  disturbed   \* a refresh met another one or initialisation, or was cancelled

toolVars == <<served, mcpCache, conns, lock, available, instances, integrated, tasks, init,
              screen, disabled, since, disturbed>>

ToolsAssumption ==
  /\ IsFiniteSet(Servers) /\ IsFiniteSet(Connectors) /\ Servers \intersect Connectors = {}
  /\ MaxChanges \in Nat

Sources == Servers \union Connectors
Tasks == {"init mcp", "init connectors", "refresh mcp", "refresh connectors", "auth"}
Version == 0..MaxChanges + 1
Pending == -1
Nothing(S) == [s \in S |-> 0]
Over(f, g) == [s \in DOMAIN f |-> IF s \in DOMAIN g /\ g[s] # 0 THEN g[s] ELSE f[s]]

TypeOK ==
  /\ served \in [now : [Sources -> Version], changes : 0..MaxChanges]
  /\ mcpCache \in [Servers -> Version]
  /\ conns \in [cached : BOOLEAN, known : BOOLEAN, tools : [Connectors -> Version]]
  /\ lock \in Tasks \union {"free"}
  /\ available \in [Sources -> Version] /\ instances \in [Sources -> Version]
  /\ integrated \in BOOLEAN /\ disturbed \in BOOLEAN
  /\ \A t \in Tasks : /\ tasks[t].step \in {"off", "wait", "ask", "publish", "integrate"}
                      /\ \A s \in DOMAIN tasks[t].got : tasks[t].got[s] \in Version \union {Pending}
  /\ init \in {"running", "ready", "failed"}
  /\ screen.app \in {"input", "mcp", "auth"} /\ screen.refreshing \in BOOLEAN
  /\ screen.listed \in [Sources -> Version] /\ screen.enabled \subseteq Sources /\ screen.named \in BOOLEAN /\ screen.worker \in BOOLEAN
  /\ disabled \subseteq Sources /\ since \in [Sources -> Version]

Off == [step |-> "off", got |-> Nothing({})]
Ask(S) == [step |-> "ask", got |-> [s \in S |-> Pending]]
Running(t) == tasks[t].step # "off"
Refreshing == Running("refresh mcp") \/ Running("refresh connectors")

Init ==
  /\ served = [now |-> [s \in Sources |-> 1], changes |-> 0]
  /\ mcpCache = Nothing(Servers)
  /\ conns = [cached |-> FALSE, known |-> FALSE, tools |-> Nothing(Connectors)]
  /\ lock = "free"
  /\ available = Nothing(Sources) /\ instances = Nothing(Sources) /\ integrated = FALSE
  /\ tasks = [[t \in Tasks |-> Off] EXCEPT !["init mcp"] = Ask(Servers),
                                           !["init connectors"] = [Off EXCEPT !.step = "wait"]]
  /\ init = "running"
  /\ screen = [app |-> "input", refreshing |-> FALSE, worker |-> FALSE, listed |-> Nothing(Sources),
             enabled |-> {}, named |-> FALSE]
  /\ disabled = {} /\ since = Nothing(Sources) /\ disturbed = FALSE

\* A server is changed, fails or comes back; a connector is authorised.
Serves(s, v) ==
  /\ served.changes < MaxChanges
  /\ v \in {0, served.changes + 2} /\ v # served.now[s]
  /\ served' = [now |-> [served.now EXCEPT ![s] = v], changes |-> served.changes + 1]
  /\ UNCHANGED <<mcpCache, conns, lock, available, instances, integrated, tasks, init, screen,
                 disabled, since, disturbed>>

-----------------------------------------------------------------------------
(* Discovery and integration. *)

\* list_tools_http, list_tools_stdio, _fetch_bootstrap: what a source serves when it is asked.
Reply(t, S) ==
  /\ tasks[t].step = "ask" /\ S \subseteq {s \in DOMAIN tasks[t].got : tasks[t].got[s] = Pending}
  /\ LET got == [s \in DOMAIN tasks[t].got |-> IF s \in S THEN served.now[s] ELSE tasks[t].got[s]]
     IN  tasks' = [tasks EXCEPT ![t] = [step |-> IF Pending \in {got[s] : s \in DOMAIN got}
                                                 THEN "ask" ELSE "publish", got |-> got]]
  /\ UNCHANGED <<served, mcpCache, conns, lock, available, instances, integrated, init, screen,
                 disabled, since, disturbed>>

\* MCPRegistry._discover_all: servers that failed are not cached.
StoreServers(t) ==
  /\ t \in {"init mcp", "refresh mcp"} /\ tasks[t].step = "publish"
  /\ mcpCache' = Over(mcpCache, tasks[t].got)
  /\ tasks' = [tasks EXCEPT ![t].step = "integrate"]
  /\ UNCHANGED <<served, conns, lock, available, instances, integrated, init, screen, disabled,
                 since, disturbed>>

\* _integrate_mcp_async: classes are added, instances stay.
IntegrateServers(t) ==
  /\ t \in {"init mcp", "refresh mcp"} /\ tasks[t].step = "integrate"
  /\ available' = Over(available, tasks[t].got)
  /\ integrated' = TRUE
  /\ tasks' = [tasks EXCEPT ![t] = Off]
  /\ UNCHANGED <<served, mcpCache, conns, lock, instances, init, screen, disabled, since, disturbed>>

\* ConnectorRegistry.get_tools_async, and _discover_all once it has the lock.
AskConnectors(t) ==
  /\ tasks[t].step = "wait"
  /\ \/ /\ conns.cached
        /\ tasks' = [tasks EXCEPT ![t] = [step |-> "integrate", got |-> conns.tools]]
        /\ lock' = lock
     \/ /\ ~conns.cached /\ lock = "free"
        /\ lock' = t
        /\ tasks' = [tasks EXCEPT ![t] = Ask(Connectors)]
  /\ UNCHANGED <<served, mcpCache, conns, available, instances, integrated, init, screen, disabled,
                 since, disturbed>>

\* The bootstrap fails: nothing is known, and nothing is asked again.
BootstrapFails(t) ==
  /\ lock = t /\ tasks[t].step = "ask"
  /\ conns' = [cached |-> TRUE, known |-> FALSE, tools |-> Nothing(Connectors)]
  /\ lock' = "free"
  /\ tasks' = [tasks EXCEPT ![t] = [step |-> "integrate", got |-> Nothing(Connectors)]]
  /\ UNCHANGED <<served, mcpCache, available, instances, integrated, init, screen, disabled,
                 since, disturbed>>

PublishConnectors(t) ==
  /\ lock = t /\ tasks[t].step = "publish"
  /\ conns' = [cached |-> TRUE, known |-> TRUE, tools |-> tasks[t].got]
  /\ lock' = "free"
  /\ tasks' = [tasks EXCEPT ![t].step = "integrate"]
  /\ UNCHANGED <<served, mcpCache, available, instances, integrated, init, screen, disabled,
                 since, disturbed>>

\* _purge_mcp_state, _purge_connector_state: the classes, and their instances.
Purged(f, S) == [s \in Sources |-> IF s \in S /\ available[s] # 0 THEN 0 ELSE f[s]]

\* integrate_connectors_async.
IntegrateConnectors(t) ==
  /\ t \notin {"init mcp", "refresh mcp"} /\ tasks[t].step = "integrate"
  /\ available' = Over(Purged(available, Connectors), tasks[t].got)
  /\ instances' = Purged(instances, Connectors)
  /\ tasks' = [tasks EXCEPT ![t] = Off]
  /\ UNCHANGED <<served, mcpCache, conns, lock, integrated, init, screen, disabled, since, disturbed>>

Enabled == {s \in Sources : available[s] # 0} \ disabled

\* collect_mcp_tool_index.
Shown == [screen EXCEPT !.listed = available, !.enabled = Enabled, !.named = conns.known]

\* _complete_init ends: the system prompt is built, or cannot be; the screen is
\* brought up to date (_watch_init_completion).
InitEnds(result) ==
  /\ init = "running" /\ ~Running("init mcp") /\ ~Running("init connectors")
  /\ init' = result
  /\ screen' = Shown
  /\ UNCHANGED <<served, mcpCache, conns, lock, available, instances, integrated, tasks, disabled,
                 since, disturbed>>

-----------------------------------------------------------------------------
(* The user. *)

\* ToolManager.get, when a call of the model is run.
Use(s) ==
  /\ init = "ready" /\ screen.app = "input"
  /\ available[s] # 0 /\ instances[s] = 0
  /\ instances' = [instances EXCEPT ![s] = available[s]]
  /\ UNCHANGED <<served, mcpCache, conns, lock, available, integrated, tasks, init, screen, disabled,
                 since, disturbed>>

\* _show_mcp.
OpenMCP ==
  /\ screen.app = "input" /\ init # "failed"
  /\ Servers # {} \/ conns.known
  /\ screen' = [Shown EXCEPT !.app = "mcp"]
  /\ UNCHANGED <<served, mcpCache, conns, lock, available, instances, integrated, tasks, init,
                 disabled, since, disturbed>>

\* action_refresh, refresh_remote_tools_async: all is purged, then discovered.  A
\* refresh under way is cancelled, and its end is taken for the end of this one.
\* Messages come in order: the end of one that is over comes first.
Refresh ==
  /\ screen.app = "mcp" /\ (screen.worker => Refreshing)
  /\ mcpCache' = Nothing(Servers)
  /\ conns' = [cached |-> FALSE, known |-> FALSE, tools |-> Nothing(Connectors)]
  /\ lock' = IF lock = "refresh connectors" THEN "free" ELSE lock
  /\ available' = Purged(available, Sources) /\ instances' = Purged(instances, Sources)
  /\ integrated' = FALSE
  /\ tasks' = [tasks EXCEPT !["refresh mcp"] = Ask(Servers),
                            !["refresh connectors"] = [Off EXCEPT !.step = "wait"]]
  /\ screen' = IF Refreshing
               THEN [screen EXCEPT !.refreshing = FALSE, !.worker = TRUE, !.named = FALSE,
                                   !.listed = available', !.enabled = {}]
               ELSE [screen EXCEPT !.refreshing = TRUE, !.worker = TRUE]
  /\ disturbed' = (init = "running" \/ Refreshing)
  /\ since' = IF disturbed' THEN Nothing(Sources) ELSE served.now
  /\ UNCHANGED <<served, init, disabled>>

\* on_worker_state_changed.
RefreshEnds ==
  /\ screen.worker /\ ~Refreshing
  /\ screen' = [Shown EXCEPT !.refreshing = FALSE, !.worker = FALSE]
  /\ UNCHANGED <<served, mcpCache, conns, lock, available, instances, integrated, tasks, init,
                 disabled, since, disturbed>>

\* persist_mcp_toggle, updated_tool_list.
Toggled(s) == IF s \in disabled THEN disabled \ {s} ELSE disabled \union {s}

\* _set_highlighted_disabled, on_mcpapp_mcptoggled: the choice is saved, the
\* configuration read again.
Toggle(s) ==
  /\ screen.app = "mcp" /\ (s \in Servers \/ screen.named)
  /\ served.changes < MaxChanges /\ served' = [served EXCEPT !.changes = @ + 1]
  /\ disabled' = Toggled(s)
  /\ screen' = [screen EXCEPT !.listed = available, !.enabled = {x \in Sources : available[x] # 0} \ disabled']
  /\ UNCHANGED <<mcpCache, conns, lock, available, instances, integrated, tasks, init,
                 since, disturbed>>

\* _show_detail_view of a connector without tools asks to authorise it; the list
\* is removed, and a refresh of it is cancelled.
OpenAuth ==
  /\ screen.app = "mcp" /\ screen.named
  /\ \E c \in Connectors : screen.listed[c] = 0 /\ conns.tools[c] = 0
  /\ screen' = [screen EXCEPT !.app = "auth", !.refreshing = FALSE, !.worker = FALSE]
  /\ tasks' = [tasks EXCEPT !["refresh mcp"] = Off, !["refresh connectors"] = Off]
  /\ lock' = IF lock = "refresh connectors" THEN "free" ELSE lock
  /\ disturbed' = (disturbed \/ Refreshing)
  /\ UNCHANGED <<served, mcpCache, conns, available, instances, integrated, init, disabled, since>>

\* refresh_connector_async of ConnectorAuthApp begins, in place of one under way;
\* if no connector is known, all are discovered.
AskConnector(c) ==
  /\ screen.app = "auth"
  /\ tasks' = [tasks EXCEPT !["auth"] = IF conns.known THEN Ask({c}) ELSE [Off EXCEPT !.step = "wait"]]
  /\ lock' = IF lock = "auth" THEN "free" ELSE lock
  /\ UNCHANGED <<served, mcpCache, conns, available, instances, integrated, init, screen,
                 disabled, since, disturbed>>

\* _show_mcp(name) when the connector's screen closes: not if its name is unknown.
Reopened(classes, registry) ==
  [app |-> IF registry.known THEN "mcp" ELSE "input", refreshing |-> FALSE,
   worker |-> FALSE, listed |-> classes, enabled |-> {s \in Sources : classes[s] # 0} \ disabled,
   named |-> registry.known]

\* The answer, or none: it is cached for this connector only, then integrated
\* with what is cached for the others; with tools the screen opens again.
ConnectorRefreshed(ok) ==
  /\ tasks["auth"].step = "publish" /\ lock # "auth"
  /\ LET got == IF ok THEN tasks["auth"].got ELSE Nothing(DOMAIN tasks["auth"].got)
         tools == [c \in Connectors |-> IF c \in DOMAIN got THEN got[c] ELSE conns.tools[c]]
     IN  /\ conns' = [conns EXCEPT !.cached = TRUE, !.tools = tools]
         /\ available' = Over(Purged(available, Connectors), tools)
         /\ instances' = Purged(instances, Connectors)
         /\ tasks' = [tasks EXCEPT !["auth"] = Off]
         /\ screen' = IF \A c \in DOMAIN got : got[c] = 0 THEN screen
                      ELSE Reopened(available', conns')
         /\ disturbed' = (disturbed \/ init = "running")
  /\ UNCHANGED <<served, mcpCache, lock, integrated, init, disabled, since>>

\* Mutant of CloseMCP: also during a refresh.
CloseMCPAnyway ==
  /\ screen.app = "mcp"
  /\ screen' = [screen EXCEPT !.app = "input", !.worker = FALSE]
  /\ tasks' = [tasks EXCEPT !["refresh mcp"] = Off, !["refresh connectors"] = Off]
  /\ lock' = IF lock = "refresh connectors" THEN "free" ELSE lock
  /\ UNCHANGED <<served, mcpCache, conns, available, instances, integrated, init, disabled, since, disturbed>>

\* action_close: the screen is removed, and its workers are cancelled with it.
CloseMCP ==
  /\ screen.app = "mcp" /\ ~screen.refreshing
  /\ screen' = [screen EXCEPT !.app = "input", !.worker = FALSE]
  /\ tasks' = [tasks EXCEPT !["refresh mcp"] = Off, !["refresh connectors"] = Off]
  /\ lock' = IF lock = "refresh connectors" THEN "free" ELSE lock
  /\ UNCHANGED <<served, mcpCache, conns, available, instances, integrated, init, disabled, since, disturbed>>

\* ConnectorAuthApp.action_close: its worker is cancelled, the list opens again.
CloseAuth ==
  /\ screen.app = "auth"
  /\ screen' = Reopened(available, conns)
  /\ tasks' = [tasks EXCEPT !["auth"] = Off]
  /\ lock' = IF lock = "auth" THEN "free" ELSE lock
  /\ UNCHANGED <<served, mcpCache, conns, available, instances, integrated, init, disabled,
                 since, disturbed>>

\* reload_with_initial_messages: a new manager over the same registries, filled
\* before anything else runs.
Reload ==
  /\ init = "ready" /\ screen.app = "input"
  /\ mcpCache' = [s \in Servers |-> IF mcpCache[s] # 0 THEN mcpCache[s] ELSE served.now[s]]
  /\ conns' = IF conns.cached THEN conns
              ELSE [cached |-> TRUE, known |-> TRUE, tools |-> [c \in Connectors |-> served.now[c]]]
  /\ available' = [s \in Sources |-> IF s \in Servers THEN mcpCache'[s] ELSE conns'.tools[s]]
  /\ instances' = Nothing(Sources) /\ integrated' = TRUE
  /\ UNCHANGED <<served, lock, tasks, init, screen, disabled, since, disturbed>>

Discover(t) ==
  \/ StoreServers(t) \/ IntegrateServers(t) \/ AskConnectors(t) \/ PublishConnectors(t)
  \/ IntegrateConnectors(t)
  \/ IF t \in {"init mcp", "refresh mcp"} THEN \E s \in DOMAIN tasks[t].got : Reply(t, {s})
     ELSE DOMAIN tasks[t].got # {} /\ Reply(t, DOMAIN tasks[t].got)

Next ==
  \/ \E s \in Sources, v \in Version : Serves(s, v)
  \/ \E t \in Tasks : Discover(t) \/ BootstrapFails(t)
  \/ InitEnds("ready") \/ InitEnds("failed") \/ \E s \in Sources : Use(s) \/ Toggle(s)
  \/ OpenMCP \/ Refresh \/ RefreshEnds \/ OpenAuth \/ \E c \in Connectors : AskConnector(c)
  \/ ConnectorRefreshed(TRUE) \/ ConnectorRefreshed(FALSE) \/ CloseMCP \/ CloseAuth \/ Reload

Spec == Init /\ [][Next]_toolVars

-----------------------------------------------------------------------------
(* Properties. *)

Quiet == init = "ready" /\ ~\E t \in Tasks : Running(t)

\* What the manager offers is what the registries cached, once both were filled
\* and nothing is under way.
Agree ==
  Quiet => /\ integrated /\ conns.cached
           /\ \A s \in Servers : available[s] = mcpCache[s]
           /\ \A c \in Connectors : available[c] = conns.tools[c]

\* A tool that is used is the one that is offered; nothing is offered that is
\* older than the last refresh.
Current ==
  \A s \in Sources : /\ instances[s] \in {0, available[s]}
                     /\ available[s] # 0 => available[s] >= since[s]

\* The screen shows what the manager offers.
ScreenCurrent ==
  (Quiet /\ screen.app = "mcp" /\ ~screen.worker) =>
    screen.listed = available /\ screen.enabled = Enabled

\* The lock is held by who asks, so that nobody waits for a discovery that was cancelled.
LockHeld == lock # "free" => tasks[lock].step \in {"ask", "publish"}

\* Tools of servers and connectors are those that were discovered last, wherever
\* they are kept, unless a refresh was disturbed.
ToolsSafe == (~disturbed => Agree /\ Current) /\ ScreenCurrent /\ LockHeld

\* A screen is closed only when its refresh is over, so that its tools are there
\* (test_close_blocked_while_refreshing).
RefreshCompletes == screen.app = "input" => integrated \/ init = "running"
=============================================================================
