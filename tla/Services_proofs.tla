--------------------------- MODULE Services_proofs --------------------------
(***************************************************************************)
(* Proof that components of Services are safe, for any values of their     *)
(* constants. Each has an inductive invariant of its own: ToolsInv for the *)
(* tools of servers and connectors, LayerInv for a layer of settings,      *)
(* PermissionInv and ShellInv for the shell tool, QuestionInv, InputInv    *)
(* and PanelInv for the forms of the terminal, SwitchInv for the session   *)
(* behind them, TrustInv, KeyInv and UpdateInv for what a start asks and   *)
(* finds. The theorems are at the end. The settings, the saved sessions    *)
(* and the rows of the conversation are in Turn_proofs.                    *)
(***************************************************************************)
EXTENDS Services, FiniteSetTheorems, WellFoundedInduction, TLAPS

-----------------------------------------------------------------------------
(* The tools of servers and connectors: ToolsInv says what a task knows,   *)
(* whose the lock and the screen are, and, unless something disturbed it,  *)
(* that what is offered follows what is served.                            *)

McpTasks == {"init mcp", "refresh mcp"}
ConnectorTasks == {"init connectors", "refresh connectors"}
Steps == {"off", "wait", "ask", "publish", "integrate"}
Gotten(S) == [S -> Tools!Version \union {Tools!Pending}]
Started(t) == tasks[t].step \notin {"off", "wait"}

\* What a task asks for, and that it has it once it is past asking.
TaskTypes ==
  /\ tasks \in [Tools!Tasks -> [step : Steps, got : UNION {Gotten(S) : S \in SUBSET Tools!Sources}]]
  /\ \A t \in Tools!Tasks :
       /\ ~Started(t) => tasks[t].got = Tools!Nothing({})
       /\ tasks[t].step \in {"publish", "integrate"} =>
            \A s \in DOMAIN tasks[t].got : tasks[t].got[s] \in Tools!Version
  /\ \A t \in McpTasks : tasks[t].step # "wait" /\ (Started(t) => tasks[t].got \in Gotten(Servers))
  /\ \A t \in ConnectorTasks : Started(t) => tasks[t].got \in Gotten(Connectors)
  /\ DOMAIN tasks["auth"].got \subseteq Connectors
  /\ lock = "auth" \/ tasks["auth"].step = "integrate" => tasks["auth"].got \in Gotten(Connectors)

ToolTypes ==
  /\ served \in [now : [Tools!Sources -> Tools!Version], changes : 0..MaxChanges]
  /\ \A s \in Tools!Sources : served.now[s] <= served.changes + 1
  /\ mcpCache \in [Servers -> Tools!Version]
  /\ conns \in [cached : BOOLEAN, known : BOOLEAN, tools : [Connectors -> Tools!Version]]
  /\ lock \in (Tools!Tasks \ McpTasks) \union {"free"}
  /\ available \in [Tools!Sources -> Tools!Version] /\ instances \in [Tools!Sources -> Tools!Version]
  /\ integrated \in BOOLEAN /\ disturbed \in BOOLEAN
  /\ TaskTypes
  /\ init \in {"running", "ready", "failed"}
  /\ screen \in [app : {"input", "mcp", "auth"}, refreshing : BOOLEAN, worker : BOOLEAN,
                 listed : [Tools!Sources -> Tools!Version], enabled : SUBSET Tools!Sources, named : BOOLEAN]
  /\ disabled \subseteq Tools!Sources /\ since \in [Tools!Sources -> Tools!Version]
  /\ \A s \in Tools!Sources : since[s] <= served.changes + 1

\* Which tasks run when, and what the screen shows then.
TasksScreen ==
  /\ lock # "free" => tasks[lock].step \in {"ask", "publish"}
  /\ Tools!Refreshing => screen.app = "mcp" /\ screen.worker
  /\ Tools!Running("auth") => screen.app = "auth"
  /\ Tools!Running("init mcp") \/ Tools!Running("init connectors") => init = "running"
  /\ screen.app # "mcp" => ~screen.refreshing /\ ~screen.worker
  /\ init # "running" /\ screen.app = "mcp" /\ ~screen.worker =>
       screen.listed = available /\ screen.enabled = Tools!Enabled

\* Only what is offered has an instance.
UsedIsOffered == \A s \in Tools!Sources : available[s] = 0 => instances[s] = 0

Calm ==
  /\ Tools!Refreshing => screen.refreshing
  /\ init = "running" => ~Tools!Refreshing
  /\ init = "running" /\ (screen.named \/ screen.app = "auth") => conns.known

\* The tools of servers are on their way from the servers to the manager.
ServersFollow ==
  /\ \A t \in McpTasks : Tools!Running(t) => \A s \in Servers :
       /\ available[s] = 0
       /\ tasks[t].step = "integrate" => mcpCache[s] = tasks[t].got[s]
       /\ tasks[t].step # "integrate" => mcpCache[s] = 0
  /\ (\A t \in McpTasks : ~Tools!Running(t)) =>
       integrated /\ \A s \in Servers : available[s] = mcpCache[s]

ConnectorsFollow ==
  /\ \A t \in ConnectorTasks : Tools!Running(t) =>
       /\ conns.cached <=> tasks[t].step = "integrate"
       /\ tasks[t].step = "integrate" => conns.tools = tasks[t].got
       /\ tasks[t].step \in {"ask", "publish"} => lock = t
       /\ conns.known => tasks[t].step = "integrate"
  /\ (\A t \in ConnectorTasks : ~Tools!Running(t)) =>
       conns.cached /\ \A c \in Connectors : available[c] = conns.tools[c]
  /\ lock # "auth"
  /\ tasks["auth"].step = "wait" => conns.cached
  /\ tasks["auth"].step = "integrate" => conns.tools = tasks["auth"].got

UsedIsCurrent == \A s \in Tools!Sources : instances[s] \in {0, available[s]}

\* Nothing is older than the last refresh.
NoneOlder ==
  /\ \A s \in Tools!Sources : served.now[s] # 0 => served.now[s] >= since[s]
  /\ \A s \in Tools!Sources : available[s] # 0 => available[s] >= since[s]
  /\ \A s \in Servers : mcpCache[s] # 0 => mcpCache[s] >= since[s]
  /\ \A s \in Connectors : conns.tools[s] # 0 => conns.tools[s] >= since[s]
  /\ \A t \in Tools!Tasks : \A s \in DOMAIN tasks[t].got : tasks[t].got[s] \notin {0, Tools!Pending} =>
       tasks[t].got[s] >= since[s]

\* What holds until a refresh meets another one, or the start.
Undisturbed == Calm /\ ServersFollow /\ ConnectorsFollow /\ UsedIsCurrent /\ NoneOlder

ToolsInv == ToolTypes /\ TasksScreen /\ UsedIsOffered /\ (~disturbed => Undisturbed)

-----------------------------------------------------------------------------
LEMMA OverIs ==
  ASSUME NEW S, NEW f \in [S -> Tools!Version], NEW g, \A s \in DOMAIN g : g[s] \in Tools!Version
  PROVE  /\ Tools!Over(f, g) \in [S -> Tools!Version]
         /\ \A s \in S : Tools!Over(f, g)[s] = IF s \in DOMAIN g /\ g[s] # 0 THEN g[s] ELSE f[s]
BY DEF Tools!Over

LEMMA PurgedIs ==
  ASSUME available \in [Tools!Sources -> Tools!Version], NEW f \in [Tools!Sources -> Tools!Version],
           NEW S, Tools!ToolsAssumption
  PROVE  /\ Tools!Purged(f, S) \in [Tools!Sources -> Tools!Version]
         /\ \A s \in Tools!Sources : Tools!Purged(f, S)[s] = IF s \in S /\ available[s] # 0 THEN 0 ELSE f[s]
BY DEF Tools!Purged, Tools!Version, Tools!ToolsAssumption

LEMMA NothingIs ==
  ASSUME Tools!ToolsAssumption, NEW S
  PROVE  Tools!Nothing(S) \in [S -> Tools!Version] /\ DOMAIN Tools!Nothing(S) = S /\
           \A s \in S : Tools!Nothing(S)[s] = 0
BY DEF Tools!Nothing, Tools!Version, Tools!ToolsAssumption

TaskStates == [step : Steps, got : UNION {Gotten(S) : S \in SUBSET Tools!Sources}]

LEMMA OffIs ==
  ASSUME Tools!ToolsAssumption
  PROVE  /\ Tools!Off \in TaskStates /\ Tools!Off.step = "off" /\ Tools!Off.got = Tools!Nothing({})
         /\ [Tools!Off EXCEPT !.step = "wait"] \in TaskStates /\
              [Tools!Off EXCEPT !.step = "wait"].step = "wait"
         /\ [Tools!Off EXCEPT !.step = "wait"].got = Tools!Nothing({})
<1>1. Tools!Nothing({}) \in Gotten({})
  BY NothingIs DEF Gotten, Tools!Nothing
<1> QED
  BY <1>1 DEF Tools!Off, TaskStates, Steps

LEMMA AskIs ==
  ASSUME Tools!ToolsAssumption, NEW S \in SUBSET Tools!Sources
  PROVE  Tools!Ask(S) \in TaskStates /\ Tools!Ask(S).step = "ask" /\ Tools!Ask(S).got \in Gotten(S)
<1>1. [s \in S |-> Tools!Pending] \in Gotten(S)
  BY DEF Gotten
<1> QED
  BY <1>1 DEF Tools!Ask, TaskStates, Steps

LEMMA ShownIs ==
  ASSUME Tools!ToolsAssumption, ToolTypes
  PROVE  /\ Tools!Enabled \subseteq Tools!Sources
         /\ Tools!Shown \in [app : {"input", "mcp", "auth"}, refreshing : BOOLEAN, worker : BOOLEAN,
                 listed : [Tools!Sources -> Tools!Version], enabled : SUBSET Tools!Sources, named : BOOLEAN]
         /\ Tools!Shown.app = screen.app /\ Tools!Shown.refreshing = screen.refreshing /\
              Tools!Shown.worker = screen.worker
         /\ Tools!Shown.listed = available /\ Tools!Shown.enabled = Tools!Enabled /\
              Tools!Shown.named = conns.known
<1>1. Tools!Enabled \subseteq Tools!Sources
  BY DEF Tools!Enabled
<1> HIDE DEF Tools!Enabled
<1> QED
  BY <1>1 DEF Tools!Shown, ToolTypes

LEMMA InitTypes ==
  ASSUME Tools!ToolsAssumption, Tools!Init
  PROVE  ToolTypes
<1>1. served \in [now : [Tools!Sources -> Tools!Version], changes : 0..MaxChanges] /\
      \A s \in Tools!Sources : served.now[s] <= served.changes + 1
  <2>1. 1 \in Tools!Version /\ 0 \in 0..MaxChanges
    BY DEF Tools!Version, Tools!ToolsAssumption
  <2>2. served = [now |-> [s \in Tools!Sources |-> 1], changes |-> 0]
    BY DEF Tools!Init
  <2> QED
    BY <2>1, <2>2
<1>2. tasks \in [Tools!Tasks -> TaskStates] /\ \A t \in Tools!Tasks :
        /\ t = "init mcp" => tasks[t] = Tools!Ask(Servers)
        /\ t = "init connectors" => tasks[t] = [Tools!Off EXCEPT !.step = "wait"]
        /\ t \notin {"init mcp", "init connectors"} => tasks[t] = Tools!Off
  BY OffIs, AskIs DEF Tools!Init, Tools!Sources, Tools!Tasks
<1>3. TaskTypes
  <2>1. \A t \in Tools!Tasks : t # "init mcp" => ~Started(t) /\ tasks[t].got = Tools!Nothing({}) /\
          tasks[t].step \in {"off", "wait"}
    BY <1>2, OffIs DEF Started
  <2>2. "init mcp" \in Tools!Tasks /\ tasks["init mcp"].step = "ask" /\
          tasks["init mcp"].got \in Gotten(Servers)
    BY <1>2, AskIs DEF Tools!Tasks, Tools!Sources
  <2>3. DOMAIN Tools!Nothing({}) = {} /\ lock # "auth"
    BY DEF Tools!Nothing, Tools!Init
  <2>4. \A t \in McpTasks : tasks[t].step # "wait"
    BY <1>2, <2>2, OffIs DEF McpTasks, Tools!Tasks
  <2> QED
    BY <1>2, <2>1, <2>2, <2>3, <2>4 DEF TaskTypes, TaskStates, Started, McpTasks, ConnectorTasks,
                                        Tools!Tasks
<1>4. screen \in [app : {"input", "mcp", "auth"}, refreshing : BOOLEAN, worker : BOOLEAN,
                 listed : [Tools!Sources -> Tools!Version], enabled : SUBSET Tools!Sources, named : BOOLEAN]
  BY NothingIs DEF Tools!Init
<1>5. \A s \in Tools!Sources : since[s] <= served.changes + 1
  <2>1. served.changes \in Nat
    BY <1>1 DEF Tools!ToolsAssumption
  <2>2. since = Tools!Nothing(Tools!Sources)
    BY DEF Tools!Init
  <2> QED
    BY <2>1, <2>2, NothingIs
<1> QED
  BY <1>1, <1>3, <1>4, <1>5, NothingIs DEF ToolTypes, Tools!Init

\* One task goes on.
LEMMA TaskGoes ==
  ASSUME Tools!ToolsAssumption, TaskTypes, NEW t \in Tools!Tasks, NEW r \in TaskStates,
         tasks' = [tasks EXCEPT ![t] = r],
         r.step \in {"off", "wait"} => r.got = Tools!Nothing({}),
         r.step \in {"publish", "integrate"} => \A s \in DOMAIN r.got : r.got[s] \in Tools!Version,
         t \in McpTasks => r.step # "wait",
         r.step \notin {"off", "wait"} => /\ t \in McpTasks => r.got \in Gotten(Servers)
                                          /\ t \in ConnectorTasks => r.got \in Gotten(Connectors),
         t = "auth" => DOMAIN r.got \subseteq Connectors,
         t = "auth" /\ (lock' = "auth" \/ r.step = "integrate") => r.got \in Gotten(Connectors),
         t # "auth" => (lock' = "auth" => lock = "auth")
  PROVE  TaskTypes' /\ tasks'[t] = r /\ \A u \in Tools!Tasks : u # t => tasks'[u] = tasks[u]
<1>1. tasks' \in [Tools!Tasks -> TaskStates] /\ tasks'[t] = r /\ \A u \in Tools!Tasks : u # t =>
        tasks'[u] = tasks[u]
  BY DEF TaskTypes, TaskStates
<1>2. "auth" \in Tools!Tasks /\ McpTasks \subseteq Tools!Tasks /\ ConnectorTasks \subseteq Tools!Tasks
  BY DEF Tools!Tasks, McpTasks, ConnectorTasks
<1>3. \A u \in Tools!Tasks :
       /\ ~Started(u)' => tasks'[u].got = Tools!Nothing({})
       /\ tasks'[u].step \in {"publish", "integrate"} =>
            \A s \in DOMAIN tasks'[u].got : tasks'[u].got[s] \in Tools!Version
  BY <1>1 DEF TaskTypes, Started
<1>4. \A u \in McpTasks : tasks'[u].step # "wait" /\ (Started(u)' => tasks'[u].got \in Gotten(Servers))
  BY <1>1, <1>2 DEF TaskTypes, Started
<1>5. \A u \in ConnectorTasks : Started(u)' => tasks'[u].got \in Gotten(Connectors)
  BY <1>1, <1>2 DEF TaskTypes, Started
<1>6. DOMAIN tasks'["auth"].got \subseteq Connectors /\
      (lock' = "auth" \/ tasks'["auth"].step = "integrate" => tasks'["auth"].got \in Gotten(Connectors))
  BY <1>1, <1>2 DEF TaskTypes
<1> QED
  BY <1>1, <1>3, <1>4, <1>5, <1>6 DEF TaskTypes, TaskStates

\* Both tasks of a refresh begin, or are cancelled.
LEMMA RefreshTasks ==
  ASSUME Tools!ToolsAssumption, TaskTypes, NEW a, NEW b,
         \/ a = Tools!Off /\ b = Tools!Off
         \/ a = Tools!Ask(Servers) /\ b = [Tools!Off EXCEPT !.step = "wait"],
         tasks' = [tasks EXCEPT !["refresh mcp"] = a, !["refresh connectors"] = b],
         lock' = "auth" => lock = "auth"
  PROVE  /\ TaskTypes'
         /\ tasks'["refresh mcp"] = a /\ tasks'["refresh connectors"] = b
         /\ \A u \in Tools!Tasks : u \notin {"refresh mcp", "refresh connectors"} => tasks'[u] = tasks[u]
<1>1. a \in TaskStates /\ b \in TaskStates
  BY OffIs, AskIs DEF Tools!Sources
<1>2. "auth" \in Tools!Tasks /\ McpTasks \subseteq Tools!Tasks /\
        ConnectorTasks \subseteq Tools!Tasks /\ "refresh mcp" \in Tools!Tasks /\
      "refresh connectors" \in Tools!Tasks
  BY DEF Tools!Tasks, McpTasks, ConnectorTasks
<1>3. /\ tasks' \in [Tools!Tasks -> TaskStates]
      /\ tasks'["refresh mcp"] = a /\ tasks'["refresh connectors"] = b
      /\ \A u \in Tools!Tasks : u \notin {"refresh mcp", "refresh connectors"} => tasks'[u] = tasks[u]
  BY <1>1, <1>2 DEF TaskTypes, TaskStates
<1>4. /\ a.step \in {"off", "ask"} /\ (a.step = "off" => a.got = Tools!Nothing({})) /\
         (a.step = "ask" => a.got \in Gotten(Servers))
      /\ b.step \in {"off", "wait"} /\ b.got = Tools!Nothing({})
  BY OffIs, AskIs DEF Tools!Sources
<1>5. \A u \in Tools!Tasks :
       /\ ~Started(u)' => tasks'[u].got = Tools!Nothing({})
       /\ tasks'[u].step \in {"publish", "integrate"} =>
            \A s \in DOMAIN tasks'[u].got : tasks'[u].got[s] \in Tools!Version
  BY <1>3, <1>4 DEF TaskTypes, Started
<1>6. \A u \in McpTasks : tasks'[u].step # "wait" /\ (Started(u)' => tasks'[u].got \in Gotten(Servers))
  BY <1>2, <1>3, <1>4 DEF TaskTypes, Started, McpTasks
<1>7. \A u \in ConnectorTasks : Started(u)' => tasks'[u].got \in Gotten(Connectors)
  BY <1>2, <1>3, <1>4 DEF TaskTypes, Started, ConnectorTasks
<1>8. DOMAIN tasks'["auth"].got \subseteq Connectors /\
      (lock' = "auth" \/ tasks'["auth"].step = "integrate" => tasks'["auth"].got \in Gotten(Connectors))
  BY <1>2, <1>3 DEF TaskTypes
<1> QED
  BY <1>3, <1>5, <1>6, <1>7, <1>8 DEF TaskTypes, TaskStates


LEMMA ReopenedIs ==
  ASSUME Tools!ToolsAssumption, NEW f \in [Tools!Sources -> Tools!Version], NEW r, r.known \in BOOLEAN
  PROVE  /\ Tools!Reopened(f, r) \in [app : {"input", "mcp", "auth"}, refreshing : BOOLEAN,
                                      worker : BOOLEAN,
                 listed : [Tools!Sources -> Tools!Version], enabled : SUBSET Tools!Sources, named : BOOLEAN]
         /\ Tools!Reopened(f, r).app = IF r.known THEN "mcp" ELSE "input"
         /\ ~Tools!Reopened(f, r).refreshing /\ ~Tools!Reopened(f, r).worker /\
              Tools!Reopened(f, r).named = r.known
         /\ Tools!Reopened(f, r).listed = f /\
              Tools!Reopened(f, r).enabled = {s \in Tools!Sources : f[s] # 0} \ disabled
<1>1. {s \in Tools!Sources : f[s] # 0} \ disabled \in SUBSET Tools!Sources
  OBVIOUS
<1> QED
  BY <1>1 DEF Tools!Reopened

LEMMA TypesKept ==
  ASSUME Tools!ToolsAssumption, ToolTypes, Tools!LockHeld, Tools!Next
  PROVE  ToolTypes'
<1> USE DEF ToolTypes
<1>0. available \in [Tools!Sources -> Tools!Version] /\
        instances \in [Tools!Sources -> Tools!Version] /\ Servers \subseteq Tools!Sources /\
      Connectors \subseteq Tools!Sources /\ TaskTypes
  BY DEF Tools!Sources
<1>1. ASSUME NEW s \in Tools!Sources, NEW v \in Tools!Version, Tools!Serves(s, v) PROVE ToolTypes'
  BY <1>1 DEF Tools!Serves, Tools!ToolsAssumption, Tools!Version, TaskTypes, Started
<1>2. ASSUME NEW t \in Tools!Tasks, NEW S, Tools!Reply(t, S),
             t \notin McpTasks => S = DOMAIN tasks[t].got
      PROVE ToolTypes'
  <2> DEFINE got == [s \in DOMAIN tasks[t].got |-> IF s \in S THEN served.now[s] ELSE tasks[t].got[s]]
             r == [step |-> IF Tools!Pending \in {got[s] : s \in DOMAIN got} THEN "ask" ELSE "publish",
                   got |-> got]
  <2>1. tasks[t].step = "ask" /\ tasks' = [tasks EXCEPT ![t] = r]
    BY <1>2 DEF Tools!Reply
  <2>2. PICK D \in SUBSET Tools!Sources : tasks[t].got \in Gotten(D)
    BY DEF TaskTypes
  <2>3. \A X \in SUBSET Tools!Sources : tasks[t].got \in Gotten(X) => got \in Gotten(X)
    BY DEF Gotten
  <2>4. r \in TaskStates /\ DOMAIN got = DOMAIN tasks[t].got
    BY <2>2, <2>3 DEF TaskStates, Steps
  <2>5. r.step \in {"ask", "publish"} /\ r.got = got
    OBVIOUS
  <2>6. r.step = "publish" => \A s \in DOMAIN got : got[s] \in Tools!Version
    BY <2>2, <2>3 DEF Gotten
  <2>7. \A u \in Tools!Tasks : Started(u) <=> tasks[u].step \notin {"off", "wait"}
    BY DEF Started
  <2>8. /\ t \in McpTasks => tasks[t].got \in Gotten(Servers)
        /\ t \in ConnectorTasks => tasks[t].got \in Gotten(Connectors)
        /\ t = "auth" => DOMAIN tasks[t].got \subseteq Connectors /\ (lock = "auth" =>
                                                                      tasks[t].got \in Gotten(Connectors))
        /\ lock' = lock
    BY <1>2, <2>1, <2>7 DEF TaskTypes, Tools!Reply
  <2> HIDE DEF got, r
  <2>9. TaskTypes'
    BY <1>0, <2>1, <2>3, <2>4, <2>5, <2>6, <2>8, TaskGoes
  <2> QED
    BY <1>2, <2>9 DEF Tools!Reply
<1>3. ASSUME NEW t \in Tools!Tasks, Tools!StoreServers(t) PROVE ToolTypes'
  <2> DEFINE r == [tasks[t] EXCEPT !.step = "integrate"]
  <2>1. tasks' = [tasks EXCEPT ![t] = r] /\ t \in McpTasks /\ tasks[t].step = "publish" /\ lock' = lock
    BY <1>3 DEF Tools!StoreServers, McpTasks, TaskTypes
  <2>2. r \in TaskStates /\ r.step = "integrate" /\ r.got = tasks[t].got
    BY DEF TaskTypes, TaskStates, Steps
  <2>3. tasks[t].got \in Gotten(Servers) /\ \A s \in DOMAIN tasks[t].got : tasks[t].got[s] \in Tools!Version
    BY <2>1 DEF TaskTypes, Started
  <2>4. t \notin ConnectorTasks /\ t # "auth"
    BY <2>1 DEF McpTasks, ConnectorTasks
  <2> HIDE DEF r
  <2>5. TaskTypes'
    BY <1>0, <2>1, <2>2, <2>3, <2>4, TaskGoes
  <2>6. Tools!Over(mcpCache, tasks[t].got) \in [Servers -> Tools!Version]
    BY <2>3, OverIs
  <2> QED
    BY <1>3, <2>5, <2>6 DEF Tools!StoreServers
<1>4. ASSUME NEW t \in Tools!Tasks, Tools!IntegrateServers(t) PROVE ToolTypes'
  <2>1. tasks' = [tasks EXCEPT ![t] = Tools!Off] /\ t \in McpTasks /\ tasks[t].step = "integrate" /\
          lock' = lock
    BY <1>4 DEF Tools!IntegrateServers, McpTasks
  <2>3. \A s \in DOMAIN tasks[t].got : tasks[t].got[s] \in Tools!Version
    BY <2>1 DEF TaskTypes
  <2>4. t \notin ConnectorTasks /\ t # "auth"
    BY <2>1 DEF McpTasks, ConnectorTasks
  <2>5. TaskTypes'
    BY <1>0, <2>1, <2>4, OffIs, TaskGoes
  <2>6. Tools!Over(available, tasks[t].got) \in [Tools!Sources -> Tools!Version]
    BY <1>0, <2>3, OverIs
  <2> QED
    BY <1>4, <2>5, <2>6 DEF Tools!IntegrateServers
<1>5. ASSUME NEW t \in Tools!Tasks, Tools!AskConnectors(t) PROVE ToolTypes'
  <2>1. tasks[t].step = "wait" /\ t \notin McpTasks
    BY <1>5 DEF Tools!AskConnectors, TaskTypes
  <2>2. CASE conns.cached
    <3> DEFINE r == [step |-> "integrate", got |-> conns.tools]
    <3>1. tasks' = [tasks EXCEPT ![t] = r] /\ lock' = lock
      BY <1>5, <2>2 DEF Tools!AskConnectors
    <3>2. conns.tools \in Gotten(Connectors) /\
            \A s \in DOMAIN conns.tools : conns.tools[s] \in Tools!Version
      BY DEF Gotten
    <3>3. r \in TaskStates /\ r.step = "integrate" /\ r.got = conns.tools /\ DOMAIN r.got = Connectors
      BY <1>0, <3>2 DEF TaskStates, Steps, Gotten
    <3> HIDE DEF r
    <3>4. TaskTypes'
      BY <1>0, <2>1, <3>1, <3>2, <3>3, TaskGoes
    <3> QED
      BY <1>5, <3>1, <3>4 DEF Tools!AskConnectors
  <2>3. CASE ~conns.cached
    <3>1. tasks' = [tasks EXCEPT ![t] = Tools!Ask(Connectors)] /\ lock' = t
      BY <1>5, <2>3 DEF Tools!AskConnectors
    <3>2. Tools!Ask(Connectors) \in TaskStates /\ Tools!Ask(Connectors).step = "ask" /\
            Tools!Ask(Connectors).got \in Gotten(Connectors) /\
          DOMAIN Tools!Ask(Connectors).got = Connectors
      BY <1>0, AskIs DEF Gotten
    <3>4. TaskTypes'
      BY <1>0, <2>1, <3>1, <3>2, TaskGoes
    <3>5. lock' \in (Tools!Tasks \ McpTasks) \union {"free"}
      BY <2>1, <3>1
    <3> QED
      BY <1>5, <3>4, <3>5 DEF Tools!AskConnectors
  <2> QED
    BY <2>2, <2>3
<1>6. ASSUME NEW t \in Tools!Tasks, Tools!BootstrapFails(t) PROVE ToolTypes'
  <2> DEFINE r == [step |-> "integrate", got |-> Tools!Nothing(Connectors)]
  <2>1. t \notin McpTasks /\ tasks' = [tasks EXCEPT ![t] = r] /\ lock' = "free"
    BY <1>6 DEF Tools!BootstrapFails, Tools!Tasks, McpTasks
  <2>2. Tools!Nothing(Connectors) \in [Connectors -> Tools!Version] /\
          DOMAIN Tools!Nothing(Connectors) = Connectors
    BY NothingIs
  <2>3. r \in TaskStates /\ r.step = "integrate" /\ r.got = Tools!Nothing(Connectors) /\
          r.got \in Gotten(Connectors) /\
        \A s \in DOMAIN r.got : r.got[s] \in Tools!Version
    BY <1>0, <2>2 DEF TaskStates, Steps, Gotten
  <2> HIDE DEF r
  <2>4. TaskTypes'
    BY <1>0, <2>1, <2>2, <2>3, TaskGoes
  <2> QED
    BY <1>6, <2>2, <2>4 DEF Tools!BootstrapFails
<1>7. ASSUME NEW t \in Tools!Tasks, Tools!PublishConnectors(t) PROVE ToolTypes'
  <2> DEFINE r == [tasks[t] EXCEPT !.step = "integrate"]
  <2>1. tasks' = [tasks EXCEPT ![t] = r] /\ t \notin McpTasks /\ tasks[t].step = "publish" /\
          lock' = "free" /\ lock = t
    BY <1>7 DEF Tools!PublishConnectors, TaskTypes, Tools!Tasks, McpTasks
  <2>2. r \in TaskStates /\ r.step = "integrate" /\ r.got = tasks[t].got
    BY DEF TaskTypes, TaskStates, Steps
  <2>3. tasks[t].got \in Gotten(Connectors) /\
          \A s \in DOMAIN tasks[t].got : tasks[t].got[s] \in Tools!Version
    BY <2>1 DEF TaskTypes, Started, Tools!Tasks, McpTasks, ConnectorTasks
  <2>4. tasks[t].got \in [Connectors -> Tools!Version]
    BY <2>3 DEF Gotten
  <2> HIDE DEF r
  <2>5. TaskTypes'
    BY <1>0, <2>1, <2>2, <2>3, <2>4, TaskGoes
  <2> QED
    BY <1>7, <2>4, <2>5 DEF Tools!PublishConnectors
<1>8. ASSUME NEW t \in Tools!Tasks, Tools!IntegrateConnectors(t) PROVE ToolTypes'
  <2>1. tasks' = [tasks EXCEPT ![t] = Tools!Off] /\ tasks[t].step = "integrate" /\ lock' = lock
    BY <1>8 DEF Tools!IntegrateConnectors
  <2>2. \A s \in DOMAIN tasks[t].got : tasks[t].got[s] \in Tools!Version
    BY <2>1 DEF TaskTypes
  <2>3. Tools!Off.got = Tools!Nothing({}) /\ DOMAIN Tools!Off.got = {}
    BY OffIs DEF Tools!Nothing
  <2>4. lock = "auth" => t # "auth"
    BY <2>1 DEF Tools!LockHeld
  <2>5. TaskTypes'
    BY <1>0, <2>1, <2>3, <2>4, OffIs, TaskGoes
  <2>6. Tools!Purged(available, Connectors) \in [Tools!Sources -> Tools!Version] /\
          Tools!Purged(instances, Connectors) \in [Tools!Sources -> Tools!Version]
    BY <1>0, PurgedIs
  <2>7. Tools!Over(Tools!Purged(available, Connectors), tasks[t].got) \in [Tools!Sources -> Tools!Version]
    BY <2>2, <2>6, OverIs
  <2> QED
    BY <1>8, <2>5, <2>6, <2>7 DEF Tools!IntegrateConnectors
<1>9. ASSUME NEW result \in {"ready", "failed"}, Tools!InitEnds(result) PROVE ToolTypes'
  <2>1. TaskTypes'
    BY <1>9 DEF Tools!InitEnds, TaskTypes, Started
  <2> QED
    BY <1>9, <2>1, ShownIs DEF Tools!InitEnds
<1>10. ASSUME NEW s \in Tools!Sources, Tools!Use(s) PROVE ToolTypes'
  BY <1>10 DEF Tools!Use, TaskTypes, Started
<1>11. ASSUME NEW s \in Tools!Sources, Tools!Toggle(s) PROVE ToolTypes'
  <2>1. TaskTypes'
    BY <1>11 DEF Tools!Toggle, TaskTypes, Started
  <2>2. disabled' \subseteq Tools!Sources
    BY <1>11 DEF Tools!Toggle, Tools!Toggled
  <2>3. screen' \in [app : {"input", "mcp", "auth"}, refreshing : BOOLEAN, worker : BOOLEAN,
                 listed : [Tools!Sources -> Tools!Version], enabled : SUBSET Tools!Sources, named : BOOLEAN]
    BY <1>0, <1>11 DEF Tools!Toggle
  <2>4. served' \in [now : [Tools!Sources -> Tools!Version], changes : 0..MaxChanges] /\
          served'.now = served.now /\
        served'.changes = served.changes + 1
    BY <1>11 DEF Tools!Toggle, Tools!ToolsAssumption
  <2>5. \A x \in Tools!Sources : served'.now[x] <= served'.changes + 1
    BY <2>4 DEF Tools!Version, Tools!ToolsAssumption
  <2>6. \A x \in Tools!Sources : since'[x] <= served'.changes + 1
    BY <1>11, <2>4 DEF Tools!Toggle, Tools!Version, Tools!ToolsAssumption
  <2> QED
    BY <1>11, <2>1, <2>2, <2>3, <2>4, <2>5, <2>6 DEF Tools!Toggle
<1>12. ASSUME Tools!OpenMCP PROVE ToolTypes'
  BY <1>12, ShownIs DEF Tools!OpenMCP, TaskTypes, Started
<1>13. ASSUME Tools!RefreshEnds PROVE ToolTypes'
  BY <1>13, ShownIs DEF Tools!RefreshEnds, TaskTypes, Started
<1>14. ASSUME Tools!Refresh PROVE ToolTypes'
  <2>1. TaskTypes'
    BY <1>0, <1>14, RefreshTasks DEF Tools!Refresh
  <2>2. Tools!Purged(available, Tools!Sources) \in [Tools!Sources -> Tools!Version] /\
          Tools!Purged(instances, Tools!Sources) \in [Tools!Sources -> Tools!Version]
    BY <1>0, PurgedIs
  <2>3. Tools!Nothing(Servers) \in [Servers -> Tools!Version] /\
          Tools!Nothing(Connectors) \in [Connectors -> Tools!Version] /\
        Tools!Nothing(Tools!Sources) \in [Tools!Sources -> Tools!Version]
    BY NothingIs
  <2>4. screen' \in [app : {"input", "mcp", "auth"}, refreshing : BOOLEAN, worker : BOOLEAN,
                 listed : [Tools!Sources -> Tools!Version], enabled : SUBSET Tools!Sources, named : BOOLEAN]
    BY <1>14, <2>2 DEF Tools!Refresh
  <2>5. lock' \in (Tools!Tasks \ McpTasks) \union {"free"}
    BY <1>14 DEF Tools!Refresh
  <2>6. disturbed' \in BOOLEAN
    BY <1>14 DEF Tools!Refresh, Tools!Refreshing
  <2>7. since' \in [Tools!Sources -> Tools!Version]
    BY <1>14, <2>3 DEF Tools!Refresh
  <2>8. \A x \in Tools!Sources : since'[x] <= served'.changes + 1
    <3>1. since' = Tools!Nothing(Tools!Sources) \/ since' = served.now
      BY <1>14 DEF Tools!Refresh
    <3>2. served' = served
      BY <1>14 DEF Tools!Refresh
    <3>3. served.changes \in Nat
      BY DEF Tools!ToolsAssumption
    <3> QED
      BY <3>1, <3>2, <3>3, NothingIs
  <2> QED
    BY <1>14, <2>1, <2>2, <2>3, <2>4, <2>5, <2>6, <2>7, <2>8 DEF Tools!Refresh
<1>15. ASSUME Tools!OpenAuth PROVE ToolTypes'
  BY <1>0, <1>15, RefreshTasks DEF Tools!OpenAuth, Tools!Refreshing
<1>16. ASSUME Tools!CloseMCP PROVE ToolTypes'
  BY <1>0, <1>16, RefreshTasks DEF Tools!CloseMCP
<1>17. ASSUME NEW c \in Connectors, Tools!AskConnector(c) PROVE ToolTypes'
  <2> DEFINE r == IF conns.known THEN Tools!Ask({c}) ELSE [Tools!Off EXCEPT !.step = "wait"]
  <2>1. tasks' = [tasks EXCEPT !["auth"] = r] /\ lock' # "auth" /\ "auth" \in Tools!Tasks /\
          "auth" \notin McpTasks /\
        "auth" \notin ConnectorTasks
    BY <1>17 DEF Tools!AskConnector, Tools!Tasks, McpTasks, ConnectorTasks
  <2>2. {c} \in SUBSET Tools!Sources /\ DOMAIN Tools!Nothing({}) = {}
    BY <1>0 DEF Tools!Nothing
  <2>3. Tools!Ask({c}) \in TaskStates /\ Tools!Ask({c}).step = "ask" /\ DOMAIN Tools!Ask({c}).got = {c}
    BY <2>2, AskIs DEF Gotten
  <2>4. r \in TaskStates /\ r.step \in {"ask", "wait"} /\ DOMAIN r.got \subseteq Connectors /\
        (r.step = "wait" => r.got = Tools!Nothing({}))
    BY <2>2, <2>3, OffIs
  <2> HIDE DEF r
  <2>5. TaskTypes'
    BY <1>0, <2>1, <2>4, TaskGoes
  <2>6. lock' \in (Tools!Tasks \ McpTasks) \union {"free"}
    BY <1>17 DEF Tools!AskConnector
  <2> QED
    BY <1>17, <2>5, <2>6 DEF Tools!AskConnector
<1>18. ASSUME NEW ok \in BOOLEAN, Tools!ConnectorRefreshed(ok) PROVE ToolTypes'
  <2> DEFINE got == IF ok THEN tasks["auth"].got ELSE Tools!Nothing(DOMAIN tasks["auth"].got)
             tools == [c \in Connectors |-> IF c \in DOMAIN got THEN got[c] ELSE conns.tools[c]]
  <2>1. /\ tasks["auth"].step = "publish" /\ lock' = lock /\ lock # "auth"
        /\ conns' = [conns EXCEPT !.cached = TRUE, !.tools = tools]
        /\ available' = Tools!Over(Tools!Purged(available, Connectors), tools)
        /\ instances' = Tools!Purged(instances, Connectors)
        /\ tasks' = [tasks EXCEPT !["auth"] = Tools!Off]
        /\ screen' = screen \/ screen' = Tools!Reopened(available', conns')
        /\ disturbed' = (disturbed \/ init = "running")
    BY <1>18 DEF Tools!ConnectorRefreshed
  <2>2. "auth" \in Tools!Tasks /\ "auth" \notin McpTasks /\ "auth" \notin ConnectorTasks /\
          DOMAIN Tools!Nothing({}) = {}
    BY DEF Tools!Tasks, McpTasks, ConnectorTasks, Tools!Nothing
  <2>3. \A s \in DOMAIN tasks["auth"].got : tasks["auth"].got[s] \in Tools!Version
    BY <2>1, <2>2 DEF TaskTypes
  <2>4. \A s \in DOMAIN got : got[s] \in Tools!Version
    BY <2>3, NothingIs
  <2> HIDE DEF got
  <2>5. tools \in [Connectors -> Tools!Version] /\ DOMAIN tools = Connectors
    BY <2>4
  <2> HIDE DEF tools
  <2>6. TaskTypes'
    BY <1>0, <2>1, <2>2, OffIs, TaskGoes
  <2>7. Tools!Purged(available, Connectors) \in [Tools!Sources -> Tools!Version] /\
          Tools!Purged(instances, Connectors) \in [Tools!Sources -> Tools!Version]
    BY <1>0, PurgedIs
  <2>8. available' \in [Tools!Sources -> Tools!Version]
    BY <2>1, <2>5, <2>7, OverIs
  <2>9. conns' \in [cached : BOOLEAN, known : BOOLEAN, tools : [Connectors -> Tools!Version]]
    BY <2>1, <2>5
  <2>10. conns'.known \in BOOLEAN
    BY <2>9
  <2>11. screen' \in [app : {"input", "mcp", "auth"}, refreshing : BOOLEAN, worker : BOOLEAN,
                 listed : [Tools!Sources -> Tools!Version], enabled : SUBSET Tools!Sources, named : BOOLEAN]
    <3>1. Tools!Reopened(available', conns') \in [app : {"input", "mcp", "auth"}, refreshing : BOOLEAN,
            worker : BOOLEAN, listed : [Tools!Sources -> Tools!Version],
              enabled : SUBSET Tools!Sources, named : BOOLEAN]
      BY <2>8, <2>10, ReopenedIs
    <3> QED
      BY <2>1, <3>1
  <2> QED
    BY <1>18, <2>1, <2>6, <2>7, <2>8, <2>9, <2>11 DEF Tools!ConnectorRefreshed
<1>19. ASSUME Tools!CloseAuth PROVE ToolTypes'
  <2>1. tasks' = [tasks EXCEPT !["auth"] = Tools!Off] /\ lock' # "auth" /\ "auth" \in Tools!Tasks /\
          "auth" \notin McpTasks /\
        "auth" \notin ConnectorTasks /\ DOMAIN Tools!Nothing({}) = {}
    BY <1>19 DEF Tools!CloseAuth, Tools!Tasks, McpTasks, ConnectorTasks, Tools!Nothing
  <2>2. TaskTypes'
    BY <1>0, <2>1, OffIs, TaskGoes
  <2>3. lock' \in (Tools!Tasks \ McpTasks) \union {"free"}
    BY <1>19 DEF Tools!CloseAuth
  <2>4. conns.known \in BOOLEAN
    OBVIOUS
  <2> QED
    BY <1>0, <1>19, <2>2, <2>3, <2>4, ReopenedIs DEF Tools!CloseAuth
<1>20. ASSUME Tools!Reload PROVE ToolTypes'
  <2>1. TaskTypes'
    BY <1>20 DEF Tools!Reload, TaskTypes, Started
  <2>2. mcpCache' \in [Servers -> Tools!Version]
    BY <1>0, <1>20 DEF Tools!Reload
  <2>3. conns' \in [cached : BOOLEAN, known : BOOLEAN, tools : [Connectors -> Tools!Version]]
    BY <1>0, <1>20 DEF Tools!Reload
  <2>4. conns'.tools \in [Connectors -> Tools!Version]
    BY <2>3
  <2>5. available' \in [Tools!Sources -> Tools!Version]
    BY <1>0, <1>20, <2>2, <2>4 DEF Tools!Reload, Tools!Sources
  <2> QED
    BY <1>20, <2>1, <2>2, <2>3, <2>5, NothingIs DEF Tools!Reload
<1> QED
  <2>1. ASSUME NEW t \in Tools!Tasks, Tools!Discover(t) PROVE ToolTypes'
    BY <1>2, <1>3, <1>4, <1>5, <1>7, <1>8, <2>1 DEF Tools!Discover, McpTasks
  <2> HIDE DEF ToolTypes
  <2> QED
    BY <1>1, <1>6, <1>9, <1>10, <1>11, <1>12, <1>13, <1>14, <1>15, <1>16, <1>17, <1>18, <1>19, <1>20, <2>1
      DEF Tools!Next

LEMMA OneTask ==
  ASSUME TaskTypes, NEW t \in Tools!Tasks, NEW r, tasks' = [tasks EXCEPT ![t] = r]
  PROVE  tasks'[t] = r /\ \A u \in Tools!Tasks : u # t => tasks'[u] = tasks[u]
BY DEF TaskTypes

LEMMA AllTasks ==
  /\ "auth" \in Tools!Tasks /\ McpTasks \subseteq Tools!Tasks /\ ConnectorTasks \subseteq Tools!Tasks
  /\ "refresh mcp" \in McpTasks /\ "init mcp" \in McpTasks
  /\ "refresh connectors" \in ConnectorTasks /\ "init connectors" \in ConnectorTasks
  /\ "auth" \notin McpTasks /\ "auth" \notin ConnectorTasks
  /\ McpTasks \intersect ConnectorTasks = {} /\ Tools!Tasks = McpTasks \union ConnectorTasks \union {"auth"}
BY DEF Tools!Tasks, McpTasks, ConnectorTasks

-----------------------------------------------------------------------------
(* Steps that change no task and no tools. *)

CalmStep ==
  \/ \E s \in Tools!Sources, v \in Tools!Version : Tools!Serves(s, v)
  \/ \E s \in Tools!Sources : Tools!Toggle(s)
  \/ Tools!InitEnds("ready") \/ Tools!InitEnds("failed") \/ Tools!OpenMCP \/ Tools!RefreshEnds

LEMMA CalmKept ==
  ASSUME Tools!ToolsAssumption, ToolsInv, CalmStep
  PROVE  /\ TasksScreen' /\ UsedIsOffered'
         /\ disturbed' = disturbed
         /\ ~disturbed => Undisturbed'
<1>0. ToolTypes /\ TasksScreen /\ UsedIsOffered /\ Servers \subseteq Tools!Sources /\
        Connectors \subseteq Tools!Sources
  BY DEF ToolsInv, Undisturbed, Tools!Sources
<1>1. UNCHANGED <<mcpCache, conns, lock, available, instances, integrated, tasks, since, disturbed>>
  BY DEF CalmStep, Tools!Serves, Tools!Toggle, Tools!InitEnds, Tools!OpenMCP, Tools!RefreshEnds
<1>2. UsedIsOffered'
  BY <1>0, <1>1 DEF UsedIsOffered
<1>3. TasksScreen' /\ (~disturbed => Calm')
  <2>1. ASSUME NEW s \in Tools!Sources, NEW v \in Tools!Version, Tools!Serves(s, v)
        PROVE TasksScreen' /\ (~disturbed => Calm')
    BY <1>0, <2>1 DEF Tools!Serves, TasksScreen, Calm, ToolsInv, Undisturbed, Tools!Refreshing,
                      Tools!Running, Tools!Enabled
  <2>2. ASSUME NEW s \in Tools!Sources, Tools!Toggle(s) PROVE TasksScreen' /\ (~disturbed => Calm')
    <3>1. /\ screen'.app = screen.app /\ screen'.refreshing = screen.refreshing /\
               screen'.worker = screen.worker
          /\ screen'.named = screen.named
          /\ screen'.listed = available' /\ screen'.enabled = Tools!Enabled'
      BY <1>0, <1>1, <2>2 DEF Tools!Toggle, ToolTypes, Tools!Enabled
    <3> QED
      BY <1>0, <1>1, <2>2, <3>1 DEF Tools!Toggle, TasksScreen, Calm, ToolsInv, Undisturbed,
                                    Tools!Refreshing, Tools!Running
  <2>3. ASSUME NEW result \in {"ready", "failed"}, Tools!InitEnds(result)
        PROVE TasksScreen' /\ (~disturbed => Calm')
    <3>1. /\ screen'.app = screen.app /\ screen'.refreshing = screen.refreshing /\
               screen'.worker = screen.worker
          /\ screen'.named = conns.known
          /\ screen'.listed = available' /\ screen'.enabled = Tools!Enabled'
      BY <1>0, <1>1, <2>3, ShownIs DEF Tools!InitEnds, Tools!Enabled
    <3> QED
      BY <1>0, <1>1, <2>3, <3>1 DEF Tools!InitEnds, TasksScreen, Calm, ToolsInv, Undisturbed,
                                    Tools!Refreshing, Tools!Running
  <2>4. ASSUME Tools!OpenMCP PROVE TasksScreen' /\ (~disturbed => Calm')
    <3>1. /\ screen'.app = "mcp" /\ screen'.refreshing = screen.refreshing /\ screen'.worker = screen.worker
          /\ screen'.named = conns.known
          /\ screen'.listed = available' /\ screen'.enabled = Tools!Enabled'
      BY <1>0, <1>1, <2>4, ShownIs DEF Tools!OpenMCP, Tools!Enabled
    <3> QED
      BY <1>0, <1>1, <2>4, <3>1 DEF Tools!OpenMCP, TasksScreen, Calm, ToolsInv, Undisturbed,
                                    Tools!Refreshing, Tools!Running
  <2>5. ASSUME Tools!RefreshEnds PROVE TasksScreen' /\ (~disturbed => Calm')
    <3>1. /\ screen'.app = screen.app /\ ~screen'.refreshing /\ ~screen'.worker
          /\ screen'.named = conns.known
          /\ screen'.listed = available' /\ screen'.enabled = Tools!Enabled'
      BY <1>0, <1>1, <2>5, ShownIs DEF Tools!RefreshEnds, Tools!Enabled
    <3> QED
      BY <1>0, <1>1, <2>5, <3>1 DEF Tools!RefreshEnds, TasksScreen, Calm, ToolsInv, Undisturbed,
                                    Tools!Refreshing, Tools!Running
  <2> QED
    BY <2>1, <2>2, <2>3, <2>4, <2>5 DEF CalmStep
<1>4. ~disturbed => ServersFollow' /\ ConnectorsFollow' /\ UsedIsCurrent'
  BY <1>1 DEF ToolsInv, Undisturbed, ServersFollow, ConnectorsFollow, UsedIsCurrent, Tools!Running
<1>5. ~disturbed => NoneOlder'
  <2>1. served'.now = served.now \/ \E s \in Tools!Sources, v \in Tools!Version : Tools!Serves(s, v)
    BY <1>0 DEF CalmStep, Tools!Toggle, Tools!InitEnds, Tools!OpenMCP, Tools!RefreshEnds, ToolTypes
  <2>2. ~disturbed => \A s \in Tools!Sources : served'.now[s] # 0 => served'.now[s] >= since[s]
    <3>1. CASE served'.now = served.now
      BY <3>1 DEF ToolsInv, Undisturbed, NoneOlder
    <3>2. ASSUME ~disturbed, NEW s \in Tools!Sources, NEW v \in Tools!Version, Tools!Serves(s, v),
                 NEW x \in Tools!Sources, served'.now[x] # 0
          PROVE served'.now[x] >= since[x]
      <4>1. served'.now = [served.now EXCEPT ![s] = v] /\ v \in {0, served.changes + 2}
        BY <3>2 DEF Tools!Serves
      <4>2. CASE x # s
        BY <1>0, <3>2, <4>1, <4>2 DEF ToolsInv, Undisturbed, NoneOlder, ToolTypes
      <4>3. CASE x = s
        BY <1>0, <3>2, <4>1, <4>3 DEF ToolTypes, Tools!ToolsAssumption, ToolsInv, Undisturbed,
                                      Tools!Version
      <4> QED
        BY <4>2, <4>3
    <3> QED
      BY <2>1, <3>1, <3>2
  <2> QED
    BY <1>1, <2>2 DEF ToolsInv, Undisturbed, NoneOlder
<1> QED
  BY <1>1, <1>2, <1>3, <1>4, <1>5 DEF Undisturbed

-----------------------------------------------------------------------------
(* Discoveries. *)

\* A task that runs goes on or ends.
LEMMA TaskScreen ==
  ASSUME ToolTypes, TasksScreen, NEW t \in Tools!Tasks, NEW r, Tools!Running(t),
           tasks' = [tasks EXCEPT ![t] = r],
         UNCHANGED <<screen, init, disabled>>,
         lock' # "free" => tasks'[lock'].step \in {"ask", "publish"},
         available' # available => \/ t = "auth"
                                   \/ t \in {"init mcp", "init connectors"}
                                   \/ t \in {"refresh mcp", "refresh connectors"}
  PROVE  TasksScreen' /\ (Calm /\ (conns.known => conns'.known) => Calm') /\
         (t \in ConnectorTasks \/ t = "auth" => \A u \in McpTasks : tasks'[u] = tasks[u]) /\
         (t \in McpTasks => \A u \in ConnectorTasks \union {"auth"} : tasks'[u] = tasks[u])
<1>1. tasks'[t] = r /\ \A u \in Tools!Tasks : u # t => tasks'[u] = tasks[u]
  BY OneTask DEF ToolTypes
<1>2. \A u \in Tools!Tasks : Tools!Running(u)' => Tools!Running(u)
  BY <1>1 DEF Tools!Running
<1>3. (Tools!Refreshing' => Tools!Refreshing) /\ (Tools!Running("auth")' => Tools!Running("auth")) /\
      (Tools!Running("init mcp")' => Tools!Running("init mcp")) /\
        (Tools!Running("init connectors")' => Tools!Running("init connectors"))
  BY <1>2 DEF Tools!Refreshing, Tools!Tasks
<1>4. init # "running" /\ screen.app = "mcp" /\ ~screen.worker => available' = available
  BY DEF TasksScreen, Tools!Refreshing
<1>5. TasksScreen'
  BY <1>3, <1>4 DEF TasksScreen, Tools!Enabled
<1>6. Calm /\ (conns.known => conns'.known) => Calm'
  BY <1>3 DEF Calm
<1> QED
  BY <1>1, <1>5, <1>6, AllTasks

\* The task of a server's tools is the only one of its kind.
LEMMA OneMcp ==
  ASSUME TasksScreen, Calm
  PROVE  ~(Tools!Running("init mcp") /\ Tools!Running("refresh mcp")) /\
         ~(Tools!Running("init connectors") /\ Tools!Running("refresh connectors"))
BY DEF TasksScreen, Calm, Tools!Refreshing

LEMMA StoreKept ==
  ASSUME Tools!ToolsAssumption, ToolsInv, NEW t \in Tools!Tasks, Tools!StoreServers(t)
  PROVE  TasksScreen' /\ UsedIsOffered' /\ (~disturbed => Undisturbed')
<1> DEFINE r == [tasks[t] EXCEPT !.step = "integrate"]
<1>0. ToolTypes /\ TaskTypes /\ TasksScreen /\ UsedIsOffered
  BY DEF ToolsInv, Undisturbed, ToolTypes
<1>1. /\ t \in McpTasks /\ tasks[t].step = "publish" /\ Tools!Running(t) /\ tasks' = [tasks EXCEPT ![t] = r]
      /\ r.step = "integrate" /\ r.got = tasks[t].got
      /\ mcpCache' = Tools!Over(mcpCache, tasks[t].got)
      /\ UNCHANGED <<served, conns, lock, available, instances, integrated, init, screen, disabled,
           since, disturbed>>
  BY <1>0 DEF Tools!StoreServers, McpTasks, Tools!Running, TaskTypes
<1> HIDE DEF r
<1>2. tasks'[t] = r /\ \A u \in Tools!Tasks : u # t => tasks'[u] = tasks[u]
  BY <1>0, <1>1, OneTask
<1>3. lock' # "free" => tasks'[lock'].step \in {"ask", "publish"}
  BY <1>0, <1>1, <1>2 DEF ToolTypes, TasksScreen
<1>4. TasksScreen' /\ (Calm => Calm') /\ \A u \in ConnectorTasks \union {"auth"} : tasks'[u] = tasks[u]
  BY <1>0, <1>1, <1>3, TaskScreen
<1>5. UsedIsOffered' /\ (UsedIsCurrent => UsedIsCurrent') /\ (ConnectorsFollow => ConnectorsFollow')
  BY <1>0, <1>1, <1>4 DEF UsedIsOffered, UsedIsCurrent, ConnectorsFollow, Tools!Running
<1>6. tasks[t].got \in [Servers -> Tools!Version] /\ mcpCache \in [Servers -> Tools!Version]
  BY <1>0, <1>1 DEF ToolTypes, TaskTypes, Started, Gotten
<1>7. mcpCache' \in [Servers -> Tools!Version] /\
      \A s \in Servers : mcpCache'[s] = IF tasks[t].got[s] # 0 THEN tasks[t].got[s] ELSE mcpCache[s]
  BY <1>1, <1>6, OverIs
<1>8. Undisturbed => ServersFollow'
  <2> SUFFICES ASSUME Undisturbed PROVE ServersFollow'
    OBVIOUS
  <2>1. \A s \in Servers : available[s] = 0 /\ mcpCache[s] = 0
    BY <1>1 DEF Undisturbed, ServersFollow
  <2>2. \A u \in McpTasks : u # t => ~Tools!Running(u)'
    BY <1>0, <1>1, <1>2, OneMcp DEF Undisturbed, McpTasks, Tools!Tasks, Tools!Running
  <2>3. \A s \in Servers : mcpCache'[s] = tasks[t].got[s]
    BY <1>7, <2>1
  <2>4. Tools!Running(t)' /\ tasks'[t].step = "integrate" /\ tasks'[t].got = tasks[t].got
    BY <1>1, <1>2 DEF Tools!Running
  <2> QED
    BY <1>1, <2>1, <2>2, <2>3, <2>4 DEF ServersFollow
<1>9. NoneOlder => NoneOlder'
  BY <1>1, <1>2, <1>6, <1>7 DEF NoneOlder, Tools!Version, Tools!Pending
<1> QED
  BY <1>0, <1>4, <1>5, <1>8, <1>9 DEF Undisturbed, ToolsInv

LEMMA IntegrateKept ==
  ASSUME Tools!ToolsAssumption, ToolsInv, NEW t \in Tools!Tasks, Tools!IntegrateServers(t)
  PROVE  TasksScreen' /\ UsedIsOffered' /\ (~disturbed => Undisturbed')
<1>0. ToolTypes /\ TaskTypes /\ TasksScreen /\ UsedIsOffered
  BY DEF ToolsInv, Undisturbed, ToolTypes
<1>1. /\ t \in McpTasks /\ tasks[t].step = "integrate" /\ Tools!Running(t) /\
           tasks' = [tasks EXCEPT ![t] = Tools!Off]
      /\ available' = Tools!Over(available, tasks[t].got) /\ integrated'
      /\ UNCHANGED <<served, mcpCache, conns, lock, instances, init, screen, disabled, since, disturbed>>
  BY <1>0 DEF Tools!IntegrateServers, McpTasks, Tools!Running
<1>2. tasks'[t] = Tools!Off /\ \A u \in Tools!Tasks : u # t => tasks'[u] = tasks[u]
  BY <1>0, <1>1, OneTask
<1>3. lock' # "free" => tasks'[lock'].step \in {"ask", "publish"}
  BY <1>0, <1>1, <1>2 DEF ToolTypes, TasksScreen
<1>4. TasksScreen' /\ (Calm => Calm') /\ \A u \in ConnectorTasks \union {"auth"} : tasks'[u] = tasks[u]
  BY <1>0, <1>1, <1>3, TaskScreen DEF McpTasks
<1>6. tasks[t].got \in [Servers -> Tools!Version] /\ available \in [Tools!Sources -> Tools!Version] /\
        Servers \subseteq Tools!Sources /\
      Connectors \subseteq Tools!Sources \ Servers /\ instances \in [Tools!Sources -> Tools!Version]
  BY <1>0, <1>1 DEF ToolTypes, TaskTypes, Started, Gotten, Tools!Sources, Tools!ToolsAssumption
<1>7. available' \in [Tools!Sources -> Tools!Version] /\
      \A s \in Tools!Sources : available'[s] = IF s \in Servers /\
        tasks[t].got[s] # 0 THEN tasks[t].got[s] ELSE available[s]
  BY <1>1, <1>6, OverIs
<1>8. UsedIsOffered'
  BY <1>0, <1>1, <1>7 DEF UsedIsOffered
<1>9. ConnectorsFollow => ConnectorsFollow'
  BY <1>1, <1>4, <1>6, <1>7 DEF ConnectorsFollow, Tools!Running
<1>10. Undisturbed => ServersFollow' /\ UsedIsCurrent'
  <2> SUFFICES ASSUME Undisturbed PROVE ServersFollow' /\ UsedIsCurrent'
    OBVIOUS
  <2>1. \A s \in Servers : available[s] = 0 /\ mcpCache[s] = tasks[t].got[s]
    BY <1>1 DEF Undisturbed, ServersFollow
  <2>2. \A u \in McpTasks : ~Tools!Running(u)'
    BY <1>0, <1>1, <1>2, OneMcp, OffIs DEF Undisturbed, McpTasks, Tools!Tasks, Tools!Running
  <2>3. \A s \in Servers : available'[s] = mcpCache'[s]
    BY <1>1, <1>6, <1>7, <2>1
  <2>4. \A s \in Servers : instances[s] = 0
    BY <1>0, <1>6, <2>1 DEF UsedIsOffered
  <2>5. UsedIsCurrent'
    BY <1>1, <1>7, <2>4 DEF Undisturbed, UsedIsCurrent
  <2> QED
    BY <1>1, <2>2, <2>3, <2>5 DEF ServersFollow
<1>11. NoneOlder => NoneOlder'
  BY <1>1, <1>2, <1>6, <1>7, OffIs DEF NoneOlder, Tools!Version, Tools!Pending, Tools!Nothing
<1> QED
  BY <1>0, <1>4, <1>8, <1>9, <1>10, <1>11 DEF Undisturbed, ToolsInv

\* While connectors are being asked for, nobody waits for one of them.
LEMMA AuthAlone ==
  ASSUME TasksScreen, Calm, ConnectorsFollow, NEW t \in ConnectorTasks, Tools!Running(t),
           tasks[t].step # "integrate"
  PROVE  /\ ~Tools!Running("auth") /\ ~conns.cached /\ ~conns.known
         /\ \A u \in ConnectorTasks : u # t => ~Tools!Running(u)
<1>1. ~conns.cached /\ ~conns.known
  BY DEF ConnectorsFollow
<1>2. \A u \in ConnectorTasks : u # t => ~Tools!Running(u)
  BY OneMcp DEF ConnectorTasks, Tools!Running
<1>3. CASE t = "init connectors"
  BY <1>1, <1>2, <1>3 DEF TasksScreen, Calm
<1>4. CASE t = "refresh connectors"
  BY <1>1, <1>2, <1>4 DEF TasksScreen, Tools!Refreshing
<1> QED
  BY <1>1, <1>2, <1>3, <1>4 DEF ConnectorTasks

LEMMA AskKept ==
  ASSUME Tools!ToolsAssumption, ToolsInv, NEW t \in Tools!Tasks, Tools!AskConnectors(t)
  PROVE  TasksScreen' /\ UsedIsOffered' /\ (~disturbed => Undisturbed')
<1>0. ToolTypes /\ TaskTypes /\ TasksScreen /\ UsedIsOffered
  BY DEF ToolsInv, Undisturbed, ToolTypes
<1> DEFINE r == IF conns.cached THEN [step |-> "integrate", got |-> conns.tools] ELSE Tools!Ask(Connectors)
<1>1. /\ tasks[t].step = "wait" /\ t \notin McpTasks /\ Tools!Running(t) /\ tasks' = [tasks EXCEPT ![t] = r]
      /\ conns.cached => lock' = lock
      /\ ~conns.cached => lock' = t
      /\ UNCHANGED <<served, mcpCache, conns, available, instances, integrated, init, screen, disabled,
           since, disturbed>>
  BY <1>0 DEF Tools!AskConnectors, Tools!Running, TaskTypes
<1>2. tasks'[t] = r /\ \A u \in Tools!Tasks : u # t => tasks'[u] = tasks[u]
  BY <1>0, <1>1, OneTask
<1>3. /\ conns.cached => r.step = "integrate" /\ r.got = conns.tools
      /\ ~conns.cached => r.step = "ask" /\ r.got \in Gotten(Connectors) /\
           \A s \in DOMAIN r.got : r.got[s] = Tools!Pending
  BY <1>0, AskIs DEF Tools!Sources, Tools!Ask
<1> HIDE DEF r
<1>4. lock' # "free" => tasks'[lock'].step \in {"ask", "publish"}
  BY <1>0, <1>1, <1>2, <1>3 DEF ToolTypes, TasksScreen
<1>5. TasksScreen' /\ (Calm => Calm') /\ \A u \in McpTasks : tasks'[u] = tasks[u]
  BY <1>0, <1>1, <1>4, TaskScreen, AllTasks
<1>6. UsedIsOffered' /\ (UsedIsCurrent => UsedIsCurrent') /\ (ServersFollow => ServersFollow')
  BY <1>0, <1>1, <1>5 DEF UsedIsOffered, UsedIsCurrent, ServersFollow, Tools!Running
<1>7. Undisturbed => ConnectorsFollow'
  <2> SUFFICES ASSUME Calm, ConnectorsFollow PROVE ConnectorsFollow'
    BY DEF Undisturbed
  <2>1. CASE t = "auth"
    <3>1. conns.cached /\ r.step = "integrate" /\ r.got = conns.tools
      BY <1>1, <1>3, <2>1 DEF ConnectorsFollow
    <3>2. \A u \in ConnectorTasks : tasks'[u] = tasks[u]
      BY <1>2, <2>1, AllTasks
    <3> QED
      BY <1>1, <1>2, <2>1, <3>1, <3>2 DEF ConnectorsFollow, Tools!Running
  <2>2. CASE t \in ConnectorTasks
    BY <1>0, <1>1, <1>2, <1>3, <2>2, AuthAlone, AllTasks DEF Tools!Running, ConnectorsFollow
  <2> QED
    BY <1>1, <2>1, <2>2, AllTasks
<1>8. NoneOlder => NoneOlder'
  <2> SUFFICES ASSUME NoneOlder PROVE NoneOlder'
    OBVIOUS
  <2>1. conns.tools \in [Connectors -> Tools!Version]
    BY <1>0 DEF ToolTypes
  <2>2. \A u \in Tools!Tasks : \A s \in DOMAIN tasks'[u].got : tasks'[u].got[s] \notin {0,
          Tools!Pending} => tasks'[u].got[s] >= since[s]
    BY <1>2, <1>3, <2>1 DEF NoneOlder
  <2> QED
    BY <1>1, <2>2 DEF NoneOlder, Tools!Pending
<1> QED
  BY <1>0, <1>5, <1>6, <1>7, <1>8 DEF Undisturbed, ToolsInv

\* What is listed becomes what is cached, whether it was had or not.
LEMMA ListedKept ==
  ASSUME Tools!ToolsAssumption, ToolsInv, NEW t \in Tools!Tasks, Tools!BootstrapFails(t) \/
           Tools!PublishConnectors(t)
  PROVE  TasksScreen' /\ UsedIsOffered' /\ (~disturbed => Undisturbed')
<1>0. ToolTypes /\ TaskTypes /\ TasksScreen /\ UsedIsOffered
  BY DEF ToolsInv, Undisturbed, ToolTypes
<1> DEFINE r == IF Tools!BootstrapFails(t) THEN [step |-> "integrate", got |-> Tools!Nothing(Connectors)]
                ELSE [tasks[t] EXCEPT !.step = "integrate"]
<1>1. /\ tasks[t].step \in {"ask", "publish"} /\ t \notin McpTasks /\ Tools!Running(t) /\ lock = t /\
           lock' = "free"
      /\ tasks' = [tasks EXCEPT ![t] = r] /\ r.step = "integrate"
      /\ conns'.cached /\ conns'.tools = r.got
      /\ UNCHANGED <<served, mcpCache, available, instances, integrated, init, screen, disabled, since,
           disturbed>>
  <2>1. lock = t /\ tasks[t].step \in {"ask", "publish"}
    BY DEF Tools!BootstrapFails, Tools!PublishConnectors
  <2>2. t \notin McpTasks /\ Tools!Running(t)
    BY <1>0, <2>1 DEF ToolTypes, Tools!Tasks, McpTasks, Tools!Running
  <2>3. CASE Tools!BootstrapFails(t)
    BY <2>1, <2>2, <2>3 DEF Tools!BootstrapFails
  <2>4. CASE ~Tools!BootstrapFails(t)
    BY <1>0, <2>1, <2>2, <2>4 DEF TaskTypes, TaskStates, Tools!PublishConnectors
  <2> QED
    BY <2>3, <2>4
<1>3. r.got = Tools!Nothing(Connectors) \/ r.got = tasks[t].got
  BY <1>0 DEF TaskTypes, TaskStates
<1> HIDE DEF r
<1>2. tasks'[t] = r /\ \A u \in Tools!Tasks : u # t => tasks'[u] = tasks[u]
  BY <1>0, <1>1, OneTask
<1>5. TasksScreen' /\ (Calm /\ ~conns.known => Calm') /\ \A u \in McpTasks : tasks'[u] = tasks[u]
  BY <1>0, <1>1, TaskScreen, AllTasks
<1>6. UsedIsOffered' /\ (UsedIsCurrent => UsedIsCurrent') /\ (ServersFollow => ServersFollow')
  BY <1>0, <1>1, <1>5 DEF UsedIsOffered, UsedIsCurrent, ServersFollow, Tools!Running
<1>7. Undisturbed => ~conns.known /\ ConnectorsFollow'
  <2> SUFFICES ASSUME Calm, ConnectorsFollow PROVE ~conns.known /\ ConnectorsFollow'
    BY DEF Undisturbed
  <2>1. t \in ConnectorTasks /\ t # "auth"
    BY <1>1, AllTasks DEF ConnectorsFollow
  <2>2. ~conns.known /\ ~Tools!Running("auth") /\ \A u \in ConnectorTasks : u # t => ~Tools!Running(u)
    BY <1>0, <1>1, <2>1, AuthAlone
  <2>3. tasks'["auth"] = tasks["auth"] /\ \A u \in ConnectorTasks : u # t => ~Tools!Running(u)'
    BY <1>2, <2>1, <2>2, AllTasks DEF Tools!Running
  <2>4. tasks'["auth"].step = "off" /\ Tools!Running(t)' /\ tasks'[t].step = "integrate" /\
          tasks'[t].got = conns'.tools
    BY <1>1, <1>2, <2>2, <2>3 DEF Tools!Running
  <2> QED
    BY <1>1, <2>1, <2>2, <2>3, <2>4 DEF ConnectorsFollow
<1>8. NoneOlder => NoneOlder'
  <2> SUFFICES ASSUME NoneOlder PROVE NoneOlder'
    OBVIOUS
  <2>1. \A s \in DOMAIN r.got : r.got[s] \notin {0, Tools!Pending} => r.got[s] >= since[s]
    BY <1>3, NothingIs DEF NoneOlder
  <2>2. \A u \in Tools!Tasks : \A s \in DOMAIN tasks'[u].got : tasks'[u].got[s] \notin {0,
          Tools!Pending} => tasks'[u].got[s] >= since[s]
    BY <1>2, <2>1 DEF NoneOlder
  <2>3. conns'.tools \in [Connectors -> Tools!Version]
    BY <1>0, TypesKept DEF Tools!Next, Tools!Discover, TasksScreen, Tools!LockHeld, ToolTypes
  <2>4. \A s \in Connectors : conns'.tools[s] # 0 => conns'.tools[s] >= since[s]
    BY <1>1, <2>1, <2>3 DEF Tools!Version, Tools!Pending
  <2> QED
    BY <1>1, <2>2, <2>4 DEF NoneOlder, Tools!Pending
<1> QED
  BY <1>0, <1>5, <1>6, <1>7, <1>8 DEF Undisturbed, ToolsInv

LEMMA IntegrateConnectorsKept ==
  ASSUME Tools!ToolsAssumption, ToolsInv, NEW t \in Tools!Tasks, Tools!IntegrateConnectors(t)
  PROVE  TasksScreen' /\ UsedIsOffered' /\ (~disturbed => Undisturbed')
<1>0. ToolTypes /\ TaskTypes /\ TasksScreen /\ UsedIsOffered
  BY DEF ToolsInv, Undisturbed, ToolTypes
<1>1. /\ t \notin McpTasks /\ tasks[t].step = "integrate" /\ Tools!Running(t) /\
           tasks' = [tasks EXCEPT ![t] = Tools!Off]
      /\ available' = Tools!Over(Tools!Purged(available, Connectors), tasks[t].got)
      /\ instances' = Tools!Purged(instances, Connectors)
      /\ UNCHANGED <<served, mcpCache, conns, lock, integrated, init, screen, disabled, since, disturbed>>
  BY <1>0 DEF Tools!IntegrateConnectors, McpTasks, Tools!Running
<1>2. tasks'[t] = Tools!Off /\ Tools!Off.step = "off" /\ \A u \in Tools!Tasks : u # t =>
        tasks'[u] = tasks[u]
  BY <1>0, <1>1, OneTask, OffIs
<1>3. lock' # "free" => tasks'[lock'].step \in {"ask", "publish"}
  BY <1>0, <1>1, <1>2 DEF ToolTypes, TasksScreen
<1>4. t \in {"init connectors", "refresh connectors", "auth"}
  BY <1>1 DEF Tools!Tasks, McpTasks
<1>5. TasksScreen' /\ (Calm => Calm') /\ \A u \in McpTasks : tasks'[u] = tasks[u]
  BY <1>0, <1>1, <1>3, <1>4, TaskScreen, AllTasks
<1>6. tasks[t].got \in [Connectors -> Tools!Version] /\
        available \in [Tools!Sources -> Tools!Version] /\ Servers \subseteq Tools!Sources \ Connectors /\
      Connectors \subseteq Tools!Sources /\ instances \in [Tools!Sources -> Tools!Version]
  <2>1. tasks[t].got \in Gotten(Connectors) /\
          \A s \in DOMAIN tasks[t].got : tasks[t].got[s] \in Tools!Version
    BY <1>0, <1>1, <1>4 DEF TaskTypes, Started, ConnectorTasks
  <2>2. tasks[t].got \in [Connectors -> Tools!Version]
    BY <2>1 DEF Gotten
  <2> QED
    BY <1>0, <2>2 DEF ToolTypes, Tools!Sources, Tools!ToolsAssumption
<1>7. Tools!Purged(available, Connectors) \in [Tools!Sources -> Tools!Version] /\
        Tools!Purged(instances, Connectors) \in [Tools!Sources -> Tools!Version] /\
      \A s \in Tools!Sources : /\ Tools!Purged(available, Connectors)[s] = IF s \in Connectors /\
                                    available[s] # 0 THEN 0 ELSE available[s]
                               /\ Tools!Purged(instances, Connectors)[s] = IF s \in Connectors /\
                                    available[s] # 0 THEN 0 ELSE instances[s]
  BY <1>6, PurgedIs
<1>8. available' \in [Tools!Sources -> Tools!Version] /\
      \A s \in Tools!Sources : /\ s \in Connectors => available'[s] = tasks[t].got[s] /\ instances'[s] = 0
                               /\ s \in Servers => available'[s] = available[s] /\
                                    instances'[s] = instances[s]
  BY <1>0, <1>1, <1>6, <1>7, OverIs DEF UsedIsOffered
<1>9. UsedIsOffered'
  BY <1>0, <1>6, <1>8 DEF UsedIsOffered, Tools!Sources
<1>10. UsedIsCurrent => UsedIsCurrent'
  BY <1>6, <1>8 DEF UsedIsCurrent, Tools!Sources
<1>11. ServersFollow => ServersFollow'
  BY <1>1, <1>5, <1>6, <1>8 DEF ServersFollow, Tools!Running
<1>12. Undisturbed => ConnectorsFollow'
  <2> SUFFICES ASSUME Calm, ConnectorsFollow PROVE ConnectorsFollow'
    BY DEF Undisturbed
  <2>1. conns.tools = tasks[t].got
    BY <1>1, <1>4 DEF ConnectorsFollow, ConnectorTasks
  <2>2. \A s \in Connectors : available'[s] = conns'.tools[s]
    BY <1>1, <1>6, <1>8, <2>1
  <2>3. CASE t = "auth"
    <3>1. \A u \in ConnectorTasks : tasks'[u] = tasks[u]
      BY <1>2, <2>3, AllTasks
    <3>2. tasks'["auth"].step = "off"
      BY <1>2, <2>3
    <3> QED
      BY <1>1, <2>2, <3>1, <3>2 DEF ConnectorsFollow, Tools!Running
  <2>4. CASE t \in ConnectorTasks
    <3>1. conns.cached
      BY <1>1, <2>4 DEF ConnectorsFollow
    <3>2. \A u \in ConnectorTasks : u # t => ~Tools!Running(u)
      BY <1>0, <1>1, <2>4, OneMcp DEF ConnectorTasks, Tools!Running
    <3>3. \A u \in ConnectorTasks : ~Tools!Running(u)'
      BY <1>2, <3>2, AllTasks DEF Tools!Running
    <3>4. tasks'["auth"] = tasks["auth"]
      BY <1>2, <2>4, AllTasks
    <3> QED
      BY <1>1, <2>2, <3>1, <3>3, <3>4 DEF ConnectorsFollow
  <2> QED
    BY <1>4, <2>3, <2>4 DEF ConnectorTasks
<1>13. NoneOlder => NoneOlder'
  <2> SUFFICES ASSUME NoneOlder PROVE NoneOlder'
    OBVIOUS
  <2>1. \A s \in Tools!Sources : available'[s] # 0 => available'[s] >= since[s]
    BY <1>6, <1>8 DEF NoneOlder, Tools!Version, Tools!Pending, Tools!Sources
  <2>2. Tools!Off.got = Tools!Nothing({}) /\ DOMAIN Tools!Off.got = {}
    BY OffIs DEF Tools!Nothing
  <2>3. \A u \in Tools!Tasks : \A s \in DOMAIN tasks'[u].got : tasks'[u].got[s] \notin {0,
          Tools!Pending} => tasks'[u].got[s] >= since[s]
    BY <1>2, <2>2 DEF NoneOlder
  <2> QED
    BY <1>1, <2>1, <2>3 DEF NoneOlder, Tools!Pending
<1> QED
  BY <1>0, <1>5, <1>9, <1>10, <1>11, <1>12, <1>13 DEF Undisturbed, ToolsInv

LEMMA ReplyKept ==
  ASSUME Tools!ToolsAssumption, ToolsInv, NEW t \in Tools!Tasks, NEW S, Tools!Reply(t, S)
  PROVE  TasksScreen' /\ UsedIsOffered' /\ (~disturbed => Undisturbed')
<1>0. ToolTypes /\ TaskTypes /\ TasksScreen /\ UsedIsOffered
  BY DEF ToolsInv, Undisturbed, ToolTypes
<1> DEFINE got == [s \in DOMAIN tasks[t].got |-> IF s \in S THEN served.now[s] ELSE tasks[t].got[s]]
           r == [step |-> IF Tools!Pending \in {got[s] : s \in DOMAIN got} THEN "ask" ELSE "publish",
                 got |-> got]
<1>1. /\ tasks[t].step = "ask" /\ Tools!Running(t) /\ tasks' = [tasks EXCEPT ![t] = r]
      /\ UNCHANGED <<served, mcpCache, conns, lock, available, instances, integrated, init, screen,
           disabled, since, disturbed>>
  BY DEF Tools!Reply, Tools!Running
<1>2. r.step \in {"ask", "publish"} /\ r.got = got
  OBVIOUS
<1>3. DOMAIN got \subseteq Tools!Sources /\ \A s \in DOMAIN got : s \in DOMAIN tasks[t].got /\
        got[s] \in {served.now[s], tasks[t].got[s]}
  BY <1>0 DEF TaskTypes, Gotten
<1> HIDE DEF got, r
<1>4. tasks'[t] = r /\ \A u \in Tools!Tasks : u # t => tasks'[u] = tasks[u]
  BY <1>0, <1>1, OneTask
<1>5. lock' # "free" => tasks'[lock'].step \in {"ask", "publish"}
  BY <1>0, <1>1, <1>2, <1>4 DEF ToolTypes, TasksScreen
<1>6. TasksScreen' /\ (Calm => Calm')
  BY <1>0, <1>1, <1>5, TaskScreen
<1>7. UsedIsOffered' /\ (UsedIsCurrent => UsedIsCurrent')
  BY <1>0, <1>1 DEF UsedIsOffered, UsedIsCurrent
<1>8. \A u \in Tools!Tasks : /\ Tools!Running(u)' <=> Tools!Running(u)
                             /\ tasks[u].step = "ask" => tasks'[u].step \in {"ask", "publish"}
                             /\ tasks[u].step # "ask" => tasks'[u] = tasks[u]
  BY <1>1, <1>2, <1>4 DEF Tools!Running
<1>9. ServersFollow => ServersFollow'
  <2> SUFFICES ASSUME ServersFollow PROVE ServersFollow'
    OBVIOUS
  <2>1. \A u \in McpTasks : Tools!Running(u)' => \A s \in Servers :
       /\ available'[s] = 0
       /\ tasks'[u].step = "integrate" => mcpCache'[s] = tasks'[u].got[s]
       /\ tasks'[u].step # "integrate" => mcpCache'[s] = 0
    <3> SUFFICES ASSUME NEW u \in McpTasks, Tools!Running(u)', NEW s \in Servers
                 PROVE  /\ available'[s] = 0
                        /\ tasks'[u].step = "integrate" => mcpCache'[s] = tasks'[u].got[s]
                        /\ tasks'[u].step # "integrate" => mcpCache'[s] = 0
      OBVIOUS
    <3>1. u \in Tools!Tasks /\ Tools!Running(u)
      BY <1>8, AllTasks
    <3>2. /\ available[s] = 0
          /\ tasks[u].step = "integrate" => mcpCache[s] = tasks[u].got[s]
          /\ tasks[u].step # "integrate" => mcpCache[s] = 0
      BY <3>1 DEF ServersFollow
    <3>3. tasks[u].step = "integrate" => tasks'[u] = tasks[u]
      BY <1>8, <3>1
    <3>4. tasks[u].step # "integrate" => tasks'[u].step # "integrate"
      BY <1>8, <3>1
    <3> QED
      BY <1>1, <3>2, <3>3, <3>4
  <2>2. (\A u \in McpTasks : ~Tools!Running(u)') => \A u \in McpTasks : ~Tools!Running(u)
    BY <1>8, AllTasks
  <2> QED
    BY <1>1, <2>1, <2>2 DEF ServersFollow
<1>10. ConnectorsFollow => ConnectorsFollow'
  <2> SUFFICES ASSUME ConnectorsFollow PROVE ConnectorsFollow'
    OBVIOUS
  <2>1. \A u \in ConnectorTasks : Tools!Running(u)' =>
       /\ conns'.cached <=> tasks'[u].step = "integrate"
       /\ tasks'[u].step = "integrate" => conns'.tools = tasks'[u].got
       /\ tasks'[u].step \in {"ask", "publish"} => lock' = u
       /\ conns'.known => tasks'[u].step = "integrate"
    <3> SUFFICES ASSUME NEW u \in ConnectorTasks, Tools!Running(u)'
                 PROVE  /\ conns'.cached <=> tasks'[u].step = "integrate"
                        /\ tasks'[u].step = "integrate" => conns'.tools = tasks'[u].got
                        /\ tasks'[u].step \in {"ask", "publish"} => lock' = u
                        /\ conns'.known => tasks'[u].step = "integrate"
      OBVIOUS
    <3>1. Tools!Running(u)
      BY <1>8, AllTasks
    <3>2. CASE tasks[u].step = "ask"
      BY <1>1, <1>8, <3>1, <3>2, AllTasks DEF ConnectorsFollow
    <3>3. CASE tasks[u].step # "ask"
      <4>1. tasks'[u] = tasks[u]
        BY <1>8, <3>3, AllTasks
      <4> QED
        BY <1>1, <3>1, <4>1 DEF ConnectorsFollow
    <3> QED
      BY <3>2, <3>3
  <2>2. tasks["auth"].step # "ask" => tasks'["auth"] = tasks["auth"]
    BY <1>8, AllTasks
  <2>3. tasks["auth"].step = "ask" => tasks'["auth"].step \in {"ask", "publish"}
    BY <1>8, AllTasks
  <2>4. (\A u \in ConnectorTasks : ~Tools!Running(u)') => \A u \in ConnectorTasks : ~Tools!Running(u)
    BY <1>8, AllTasks
  <2> QED
    BY <1>1, <2>1, <2>2, <2>3, <2>4 DEF ConnectorsFollow
<1>11. NoneOlder => NoneOlder'
  BY <1>1, <1>2, <1>3, <1>4 DEF NoneOlder, Tools!Pending
<1> QED
  BY <1>0, <1>6, <1>7, <1>9, <1>10, <1>11 DEF Undisturbed, ToolsInv

-----------------------------------------------------------------------------
(* The user. *)

\* No task that runs is touched, nor what they bring.
LEMMA SameTasks ==
  ASSUME \A u \in Tools!Tasks : tasks'[u].step = tasks[u].step /\ (tasks[u].step # "off" =>
                                                                   tasks'[u] = tasks[u]),
         UNCHANGED <<mcpCache, conns, lock, available, integrated>>
  PROVE  (ServersFollow => ServersFollow') /\ (ConnectorsFollow => ConnectorsFollow')
<1>1. \A u \in Tools!Tasks : Tools!Running(u)' <=> Tools!Running(u)
  BY DEF Tools!Running
<1>2. \A u \in Tools!Tasks : Tools!Running(u) => tasks'[u] = tasks[u]
  BY DEF Tools!Running
<1>3. ServersFollow => ServersFollow'
  <2> SUFFICES ASSUME ServersFollow PROVE ServersFollow'
    OBVIOUS
  <2>1. ASSUME NEW u \in McpTasks, Tools!Running(u)', NEW s \in Servers
        PROVE  /\ available'[s] = 0
               /\ tasks'[u].step = "integrate" => mcpCache'[s] = tasks'[u].got[s]
               /\ tasks'[u].step # "integrate" => mcpCache'[s] = 0
    <3>1. Tools!Running(u) /\ tasks'[u] = tasks[u]
      BY <1>1, <1>2, <2>1, AllTasks
    <3> QED
      BY <2>1, <3>1 DEF ServersFollow
  <2>2. (\A u \in McpTasks : ~Tools!Running(u)') => \A u \in McpTasks : ~Tools!Running(u)
    BY <1>1, AllTasks
  <2> QED
    BY <2>1, <2>2 DEF ServersFollow
<1>4. ConnectorsFollow => ConnectorsFollow'
  <2> SUFFICES ASSUME ConnectorsFollow PROVE ConnectorsFollow'
    OBVIOUS
  <2>1. ASSUME NEW u \in ConnectorTasks, Tools!Running(u)'
        PROVE  /\ conns'.cached <=> tasks'[u].step = "integrate"
               /\ tasks'[u].step = "integrate" => conns'.tools = tasks'[u].got
               /\ tasks'[u].step \in {"ask", "publish"} => lock' = u
               /\ conns'.known => tasks'[u].step = "integrate"
    BY <1>1, <1>2, <2>1, AllTasks DEF ConnectorsFollow
  <2>2. (\A u \in ConnectorTasks : ~Tools!Running(u)') => \A u \in ConnectorTasks : ~Tools!Running(u)
    BY <1>1, AllTasks
  <2>3. tasks'["auth"].step = tasks["auth"].step /\ (tasks["auth"].step # "off" =>
                                                     tasks'["auth"] = tasks["auth"])
    BY AllTasks
  <2> QED
    BY <2>1, <2>2, <2>3 DEF ConnectorsFollow
<1> QED
  BY <1>3, <1>4

LEMMA UseKept ==
  ASSUME Tools!ToolsAssumption, ToolsInv, NEW s \in Tools!Sources, Tools!Use(s)
  PROVE  TasksScreen' /\ UsedIsOffered' /\ (~disturbed' => Undisturbed')
<1>0. ToolTypes /\ TasksScreen /\ UsedIsOffered
  BY DEF ToolsInv, Undisturbed
<1>1. /\ available[s] # 0 /\ instances' = [instances EXCEPT ![s] = available[s]]
      /\ UNCHANGED <<served, mcpCache, conns, lock, available, integrated, tasks, init, screen,
           disabled, since, disturbed>>
  BY DEF Tools!Use
<1>2. TasksScreen'
  BY <1>0, <1>1 DEF TasksScreen, Tools!Refreshing, Tools!Running, Tools!Enabled
<1>3. UsedIsOffered' /\ (UsedIsCurrent => UsedIsCurrent')
  BY <1>0, <1>1 DEF UsedIsOffered, UsedIsCurrent, ToolTypes
<1>4. Calm /\ ServersFollow /\ ConnectorsFollow /\ NoneOlder =>
        Calm' /\ ServersFollow' /\ ConnectorsFollow' /\ NoneOlder'
  BY <1>1 DEF Calm, ServersFollow, ConnectorsFollow, NoneOlder, Tools!Refreshing, Tools!Running
<1> QED
  BY <1>1, <1>2, <1>3, <1>4 DEF ToolsInv, Undisturbed

LEMMA RefreshKept ==
  ASSUME Tools!ToolsAssumption, ToolsInv, Tools!Refresh
  PROVE  TasksScreen' /\ UsedIsOffered' /\ (~disturbed' => Undisturbed')
<1>0. ToolTypes /\ TaskTypes /\ TasksScreen /\ UsedIsOffered /\ Servers \subseteq Tools!Sources /\
        Connectors \subseteq Tools!Sources
  BY DEF ToolsInv, Undisturbed, ToolTypes, Tools!Sources
<1>1. /\ screen.app = "mcp"
      /\ mcpCache' = Tools!Nothing(Servers) /\ ~conns'.cached /\ ~conns'.known /\
           conns'.tools = Tools!Nothing(Connectors)
      /\ lock' = IF lock = "refresh connectors" THEN "free" ELSE lock
      /\ available' = Tools!Purged(available, Tools!Sources) /\
           instances' = Tools!Purged(instances, Tools!Sources)
      /\ disturbed' = (init = "running" \/ Tools!Refreshing)
      /\ since' = IF disturbed' THEN Tools!Nothing(Tools!Sources) ELSE served.now
      /\ UNCHANGED <<served, init, disabled>>
  BY DEF Tools!Refresh
<1>2. /\ tasks'["refresh mcp"] = Tools!Ask(Servers) /\
           tasks'["refresh connectors"] = [Tools!Off EXCEPT !.step = "wait"]
      /\ \A u \in Tools!Tasks : u \notin {"refresh mcp", "refresh connectors"} => tasks'[u] = tasks[u]
  BY <1>0, <1>1, RefreshTasks DEF Tools!Refresh
<1>3. /\ tasks'["refresh mcp"].step = "ask" /\ tasks'["refresh mcp"].got = [s \in Servers |-> Tools!Pending]
      /\ tasks'["refresh connectors"].step = "wait" /\ tasks'["refresh connectors"].got = Tools!Nothing({})
  <2>1. Tools!Ask(Servers).step = "ask" /\ Tools!Ask(Servers).got = [s \in Servers |-> Tools!Pending]
    BY DEF Tools!Ask
  <2> QED
    BY <1>2, <2>1, OffIs
<1>4. tasks'["auth"] = tasks["auth"] /\ tasks'["init mcp"] = tasks["init mcp"] /\
      tasks'["init connectors"] = tasks["init connectors"]
  BY <1>2 DEF Tools!Tasks
<1>5. lock' # "free" => tasks'[lock'].step \in {"ask", "publish"}
  BY <1>0, <1>1, <1>4 DEF ToolTypes, TasksScreen, Tools!Tasks, McpTasks
<1>6. screen'.app = "mcp" /\ screen'.worker /\ (~Tools!Refreshing => screen'.refreshing)
  BY <1>0, <1>1 DEF Tools!Refresh, ToolTypes
<1>7. ~Tools!Running("auth")' /\ (Tools!Running("init mcp")' \/ Tools!Running("init connectors")' =>
                                  init = "running")
  BY <1>0, <1>1, <1>4 DEF TasksScreen, Tools!Running
<1>8. TasksScreen'
  BY <1>1, <1>5, <1>6, <1>7 DEF TasksScreen
<1>9. \A s \in Tools!Sources : available'[s] = 0 /\ instances'[s] = 0
  <2>1. \A s \in Tools!Sources : available'[s] = 0 /\
          instances'[s] = IF available[s] # 0 THEN 0 ELSE instances[s]
    <3>1. available \in [Tools!Sources -> Tools!Version] /\ instances \in [Tools!Sources -> Tools!Version]
      BY <1>0 DEF ToolTypes
    <3>2. \A s \in Tools!Sources : Tools!Purged(available,
                                                Tools!Sources)[s] = IF available[s] # 0 THEN 0 ELSE available[s]
      BY <3>1, PurgedIs
    <3>3. \A s \in Tools!Sources : Tools!Purged(instances,
                                                Tools!Sources)[s] = IF available[s] # 0 THEN 0 ELSE instances[s]
      BY <3>1, PurgedIs
    <3> QED
      BY <1>1, <3>2, <3>3
  <2> QED
    BY <1>0, <2>1 DEF UsedIsOffered
<1>10. UsedIsOffered' /\ UsedIsCurrent'
  BY <1>9 DEF UsedIsOffered, UsedIsCurrent
<1>11. ASSUME ~disturbed' PROVE Undisturbed'
  <2>1. init # "running" /\ ~Tools!Refreshing /\ since' = served.now
    BY <1>1, <1>11
  <2>2. tasks'["auth"].step = "off" /\ tasks'["init mcp"].step = "off" /\
          tasks'["init connectors"].step = "off"
    BY <1>1, <1>7, <2>1 DEF Tools!Running
  <2>3. Calm'
    BY <1>1, <1>6, <2>1 DEF Calm
  <2>4. ServersFollow'
    BY <1>0, <1>1, <1>3, <1>9, <2>2, NothingIs DEF ServersFollow, McpTasks, Tools!Running
  <2>5. lock' # "auth"
    BY <1>0, <1>1, <1>5, <2>2
  <2>6. ConnectorsFollow'
    BY <1>1, <1>3, <2>2, <2>5 DEF ConnectorsFollow, ConnectorTasks, Tools!Running
  <2>7. \A u \in Tools!Tasks : \A s \in DOMAIN tasks'[u].got : tasks'[u].got[s] \in {0, Tools!Pending}
    <3>1. DOMAIN Tools!Nothing({}) = {}
      BY DEF Tools!Nothing
    <3>2. \A u \in Tools!Tasks : tasks[u].step = "off" => tasks[u].got = Tools!Nothing({})
      BY <1>0 DEF TaskTypes, Started
    <3>3. \A u \in {"auth", "init mcp", "init connectors"} : tasks'[u].got = Tools!Nothing({})
      BY <1>4, <2>2, <3>2 DEF Tools!Tasks
    <3> QED
      BY <1>3, <3>1, <3>3 DEF Tools!Tasks
  <2>8. NoneOlder'
    <3>1. \A s \in Tools!Sources : served'.now[s] # 0 => served'.now[s] >= since'[s]
      <4>1. served'.now = served.now /\ since' = served.now
        BY <1>1, <2>1
      <4>2. \A s \in Tools!Sources : served.now[s] \in Nat
        BY <1>0 DEF ToolTypes, Tools!Version, Tools!ToolsAssumption
      <4> QED
        BY <4>1, <4>2
    <3>2. (\A s \in Servers : mcpCache'[s] = 0) /\ (\A s \in Connectors : conns'.tools[s] = 0)
      BY <1>1, NothingIs
    <3> QED
      BY <1>9, <2>7, <3>1, <3>2 DEF NoneOlder, Tools!Pending
  <2> QED
    BY <1>10, <2>3, <2>4, <2>6, <2>8 DEF Undisturbed
<1> QED
  BY <1>8, <1>10, <1>11

\* The list is left.
LEMMA LeaveKept ==
  ASSUME Tools!ToolsAssumption, ToolsInv, Tools!OpenAuth \/ Tools!CloseMCP
  PROVE  TasksScreen' /\ UsedIsOffered' /\ (~disturbed' => Undisturbed')
<1>0. ToolTypes /\ TaskTypes /\ TasksScreen /\ UsedIsOffered
  BY DEF ToolsInv, Undisturbed, ToolTypes
<1>1. /\ screen.app = "mcp"
      /\ screen'.app \in {"auth", "input"} /\ ~screen'.refreshing /\ ~screen'.worker /\
           screen'.named = screen.named
      /\ screen'.app = "auth" => screen.named
      /\ lock' = IF lock = "refresh connectors" THEN "free" ELSE lock
      /\ ~disturbed' => ~disturbed /\ (Calm => ~Tools!Refreshing)
      /\ UNCHANGED <<served, mcpCache, conns, available, instances, integrated, init, disabled, since>>
  BY <1>0 DEF Tools!OpenAuth, Tools!CloseMCP, ToolTypes, Calm
<1>2. /\ tasks'["refresh mcp"] = Tools!Off /\ tasks'["refresh connectors"] = Tools!Off
      /\ \A u \in Tools!Tasks : u \notin {"refresh mcp", "refresh connectors"} => tasks'[u] = tasks[u]
  <2>1. lock' = "auth" => lock = "auth"
    BY <1>1
  <2>2. tasks' = [tasks EXCEPT !["refresh mcp"] = Tools!Off, !["refresh connectors"] = Tools!Off]
    BY DEF Tools!OpenAuth, Tools!CloseMCP
  <2> QED
    BY <1>0, <2>1, <2>2, RefreshTasks
<1>3. tasks'["refresh mcp"].step = "off" /\ tasks'["refresh connectors"].step = "off"
  BY <1>2, OffIs
<1>4. tasks'["auth"] = tasks["auth"] /\ tasks'["init mcp"] = tasks["init mcp"] /\
      tasks'["init connectors"] = tasks["init connectors"]
  BY <1>2 DEF Tools!Tasks
<1>5. lock' # "free" => tasks'[lock'].step \in {"ask", "publish"}
  BY <1>0, <1>1, <1>4 DEF ToolTypes, TasksScreen, Tools!Tasks, McpTasks
<1>6. ~Tools!Running("auth")' /\ ~Tools!Refreshing' /\ (Tools!Running("init mcp")' \/
                                                        Tools!Running("init connectors")' =>
                                                          init = "running")
  BY <1>0, <1>1, <1>3, <1>4 DEF TasksScreen, Tools!Running, Tools!Refreshing
<1>7. TasksScreen'
  BY <1>1, <1>5, <1>6 DEF TasksScreen
<1>8. UsedIsOffered'
  BY <1>0, <1>1 DEF UsedIsOffered
<1>9. ASSUME ~disturbed' PROVE Undisturbed'
  <2>1. Undisturbed /\ ~Tools!Refreshing
    BY <1>1, <1>9 DEF ToolsInv, Undisturbed
  <2>2. \A u \in Tools!Tasks : tasks'[u].step = tasks[u].step /\ (tasks[u].step # "off" =>
                                                                  tasks'[u] = tasks[u])
    BY <1>2, <1>3, <2>1 DEF Tools!Refreshing, Tools!Running, Tools!Tasks
  <2>3. Calm'
    BY <1>1, <1>6, <2>1 DEF Calm, Undisturbed
  <2>4. lock' = lock
    BY <1>0, <1>1, <2>1 DEF TasksScreen, Tools!Refreshing, Tools!Running
  <2>5. UsedIsCurrent'
    BY <1>1, <2>1 DEF Undisturbed, UsedIsCurrent
  <2>6. ServersFollow' /\ ConnectorsFollow'
    BY <1>1, <2>1, <2>2, <2>4, SameTasks DEF Undisturbed
  <2>7. DOMAIN Tools!Off.got = {}
    BY OffIs DEF Tools!Nothing
  <2>8. \A u \in Tools!Tasks : \A s \in DOMAIN tasks'[u].got : tasks'[u].got[s] \notin {0,
          Tools!Pending} => tasks'[u].got[s] >= since[s]
    BY <1>2, <2>1, <2>7 DEF Undisturbed, NoneOlder
  <2>9. NoneOlder'
    BY <1>1, <2>1, <2>8 DEF Undisturbed, NoneOlder, Tools!Pending
  <2> QED
    BY <2>3, <2>5, <2>6, <2>9 DEF Undisturbed
<1> QED
  BY <1>7, <1>8, <1>9

\* On the screen of a connector only its task can be under way, but for those of the start.
LEMMA AuthScreen ==
  ASSUME TasksScreen, screen.app = "auth"
  PROVE  ~Tools!Refreshing /\ (init # "running" =>
                               \A u \in McpTasks \union ConnectorTasks : ~Tools!Running(u)) /\
         \A u \in {"refresh mcp", "refresh connectors"} : ~Tools!Running(u)
BY DEF TasksScreen, Tools!Refreshing, McpTasks, ConnectorTasks

LEMMA AskConnectorKept ==
  ASSUME Tools!ToolsAssumption, ToolsInv, NEW c \in Connectors, Tools!AskConnector(c)
  PROVE  TasksScreen' /\ UsedIsOffered' /\ (~disturbed' => Undisturbed')
<1>0. ToolTypes /\ TaskTypes /\ TasksScreen /\ UsedIsOffered
  BY DEF ToolsInv, Undisturbed, ToolTypes
<1> DEFINE r == IF conns.known THEN Tools!Ask({c}) ELSE [Tools!Off EXCEPT !.step = "wait"]
<1>1. /\ screen.app = "auth" /\ tasks' = [tasks EXCEPT !["auth"] = r]
      /\ lock' = IF lock = "auth" THEN "free" ELSE lock
      /\ UNCHANGED <<served, mcpCache, conns, available, instances, integrated, init, screen, disabled,
           since, disturbed>>
  BY DEF Tools!AskConnector
<1>2. /\ r.step \in {"ask", "wait"} /\ (r.step = "wait" => ~conns.known)
      /\ \A s \in DOMAIN r.got : r.got[s] \in {0, Tools!Pending}
  BY OffIs DEF Tools!Ask, Tools!Nothing
<1> HIDE DEF r
<1>3. tasks'["auth"] = r /\ \A u \in Tools!Tasks : u # "auth" => tasks'[u] = tasks[u]
  BY <1>0, <1>1, OneTask, AllTasks
<1>4. \A u \in McpTasks \union ConnectorTasks : tasks'[u] = tasks[u]
  BY <1>3, AllTasks
<1>5. lock' # "free" => tasks'[lock'].step \in {"ask", "publish"}
  BY <1>0, <1>1, <1>3 DEF ToolTypes, TasksScreen
<1>6. TasksScreen'
  <2>1. ~Tools!Refreshing' /\ (Tools!Running("init mcp")' \/ Tools!Running("init connectors")' =>
                               init = "running")
    BY <1>0, <1>1, <1>4, AuthScreen DEF TasksScreen, Tools!Running, Tools!Refreshing, McpTasks,
                                        ConnectorTasks
  <2> QED
    BY <1>0, <1>1, <1>5, <2>1 DEF TasksScreen
<1>7. UsedIsOffered' /\ (UsedIsCurrent => UsedIsCurrent')
  BY <1>0, <1>1 DEF UsedIsOffered, UsedIsCurrent
<1>8. Undisturbed => Calm' /\ ServersFollow' /\ ConnectorsFollow' /\ NoneOlder'
  <2> SUFFICES ASSUME Calm, ServersFollow, ConnectorsFollow, NoneOlder
               PROVE  Calm' /\ ServersFollow' /\ ConnectorsFollow' /\ NoneOlder'
    BY DEF Undisturbed
  <2>1. Calm'
    BY <1>1, <1>4 DEF Calm, Tools!Refreshing, Tools!Running, McpTasks, ConnectorTasks
  <2>2. ServersFollow'
    BY <1>1, <1>4 DEF ServersFollow, Tools!Running
  <2>3. r.step = "wait" => conns.cached
    BY <1>0, <1>1, <1>2, AuthScreen DEF Calm, ConnectorsFollow
  <2>4. lock' = lock
    BY <1>1 DEF ConnectorsFollow
  <2>5. ConnectorsFollow'
    BY <1>1, <1>2, <1>3, <1>4, <2>3, <2>4 DEF ConnectorsFollow, Tools!Running
  <2>6. \A u \in Tools!Tasks : \A s \in DOMAIN tasks'[u].got : tasks'[u].got[s] \notin {0,
          Tools!Pending} => tasks'[u].got[s] >= since[s]
    BY <1>2, <1>3 DEF NoneOlder
  <2>7. NoneOlder'
    BY <1>1, <2>6 DEF NoneOlder, Tools!Pending
  <2> QED
    BY <2>1, <2>2, <2>5, <2>7
<1> QED
  BY <1>1, <1>6, <1>7, <1>8 DEF Undisturbed, ToolsInv

LEMMA CloseAuthKept ==
  ASSUME Tools!ToolsAssumption, ToolsInv, Tools!CloseAuth
  PROVE  TasksScreen' /\ UsedIsOffered' /\ (~disturbed' => Undisturbed')
<1>0. ToolTypes /\ TaskTypes /\ TasksScreen /\ UsedIsOffered
  BY DEF ToolsInv, Undisturbed, ToolTypes
<1>1. /\ screen.app = "auth" /\ tasks' = [tasks EXCEPT !["auth"] = Tools!Off]
      /\ screen' = Tools!Reopened(available, conns)
      /\ lock' = IF lock = "auth" THEN "free" ELSE lock
      /\ UNCHANGED <<served, mcpCache, conns, available, instances, integrated, init, disabled, since,
           disturbed>>
  BY DEF Tools!CloseAuth
<1>2. tasks'["auth"] = Tools!Off /\ Tools!Off.step = "off" /\ DOMAIN Tools!Off.got = {} /\
        \A u \in Tools!Tasks : u # "auth" => tasks'[u] = tasks[u]
  BY <1>0, <1>1, OneTask, AllTasks, OffIs DEF Tools!Nothing
<1>3. /\ screen'.app = IF conns.known THEN "mcp" ELSE "input"
      /\ ~screen'.refreshing /\ ~screen'.worker /\ screen'.named = conns.known
      /\ screen'.listed = available /\ screen'.enabled = {s \in Tools!Sources : available[s] # 0} \ disabled
  BY <1>0, <1>1, ReopenedIs DEF ToolTypes
<1>4. \A u \in McpTasks \union ConnectorTasks : tasks'[u] = tasks[u]
  BY <1>2, AllTasks
<1>5. lock' # "free" => tasks'[lock'].step \in {"ask", "publish"}
  BY <1>0, <1>1, <1>2 DEF ToolTypes, TasksScreen
<1>6. TasksScreen'
  <2>1. ~Tools!Refreshing' /\ (Tools!Running("init mcp")' \/ Tools!Running("init connectors")' =>
                               init = "running")
    BY <1>0, <1>1, <1>4, AuthScreen DEF TasksScreen, Tools!Running, Tools!Refreshing, McpTasks,
                                        ConnectorTasks
  <2>2. ~Tools!Running("auth")'
    BY <1>2 DEF Tools!Running
  <2>3. screen'.listed = available' /\ screen'.enabled = Tools!Enabled'
    BY <1>1, <1>3 DEF Tools!Enabled
  <2> QED
    BY <1>1, <1>3, <1>5, <2>1, <2>2, <2>3 DEF TasksScreen
<1>7. UsedIsOffered' /\ (UsedIsCurrent => UsedIsCurrent')
  BY <1>0, <1>1 DEF UsedIsOffered, UsedIsCurrent
<1>8. Undisturbed => Calm' /\ ServersFollow' /\ ConnectorsFollow' /\ NoneOlder'
  <2> SUFFICES ASSUME Calm, ServersFollow, ConnectorsFollow, NoneOlder
               PROVE  Calm' /\ ServersFollow' /\ ConnectorsFollow' /\ NoneOlder'
    BY DEF Undisturbed
  <2>1. ~Tools!Refreshing'
    BY <1>0, <1>1, <1>4, AuthScreen DEF Tools!Running, Tools!Refreshing, McpTasks, ConnectorTasks
  <2>2. Calm'
    BY <1>1, <1>3, <2>1 DEF Calm
  <2>3. ServersFollow'
    BY <1>1, <1>4 DEF ServersFollow, Tools!Running
  <2>4. lock' = lock
    BY <1>1 DEF ConnectorsFollow
  <2>5. ConnectorsFollow'
    BY <1>1, <1>2, <1>4, <2>4 DEF ConnectorsFollow, Tools!Running
  <2>6. \A u \in Tools!Tasks : \A s \in DOMAIN tasks'[u].got : tasks'[u].got[s] \notin {0,
          Tools!Pending} => tasks'[u].got[s] >= since[s]
    BY <1>2 DEF NoneOlder
  <2>7. NoneOlder'
    BY <1>1, <2>6 DEF NoneOlder, Tools!Pending
  <2> QED
    BY <2>2, <2>3, <2>5, <2>7
<1> QED
  BY <1>1, <1>6, <1>7, <1>8 DEF Undisturbed, ToolsInv

LEMMA ConnectorRefreshedKept ==
  ASSUME Tools!ToolsAssumption, ToolsInv, NEW ok \in BOOLEAN, Tools!ConnectorRefreshed(ok)
  PROVE  TasksScreen' /\ UsedIsOffered' /\ (~disturbed' => Undisturbed')
<1>0. ToolTypes /\ TaskTypes /\ TasksScreen /\ UsedIsOffered
  BY DEF ToolsInv, Undisturbed, ToolTypes
<1> DEFINE got == IF ok THEN tasks["auth"].got ELSE Tools!Nothing(DOMAIN tasks["auth"].got)
           tools == [c \in Connectors |-> IF c \in DOMAIN got THEN got[c] ELSE conns.tools[c]]
<1>1. /\ tasks["auth"].step = "publish" /\ Tools!Running("auth") /\ screen.app = "auth"
      /\ conns'.cached /\ conns'.tools = tools /\ conns'.known = conns.known
      /\ available' = Tools!Over(Tools!Purged(available, Connectors), tools)
      /\ instances' = Tools!Purged(instances, Connectors)
      /\ tasks' = [tasks EXCEPT !["auth"] = Tools!Off]
      /\ screen' = screen \/ screen' = Tools!Reopened(available', conns')
      /\ disturbed' = (disturbed \/ init = "running") /\ lock # "auth"
      /\ UNCHANGED <<served, mcpCache, lock, integrated, init, disabled, since>>
  BY <1>0 DEF Tools!ConnectorRefreshed, Tools!Running, TasksScreen, ToolTypes
<1>2. /\ \A s \in DOMAIN got : got[s] \in Tools!Version
      /\ DOMAIN got \subseteq Connectors
      /\ NoneOlder => \A s \in DOMAIN got : got[s] # 0 => got[s] >= since[s]
  <2>1. \A s \in DOMAIN tasks["auth"].got : tasks["auth"].got[s] \in Tools!Version
    BY <1>0, <1>1, AllTasks DEF TaskTypes
  <2>2. DOMAIN tasks["auth"].got \subseteq Connectors
    BY <1>0 DEF TaskTypes
  <2>3. NoneOlder => \A s \in DOMAIN tasks["auth"].got : tasks["auth"].got[s] # 0 =>
          tasks["auth"].got[s] >= since[s]
    <3>1. \A s \in DOMAIN tasks["auth"].got : tasks["auth"].got[s] # Tools!Pending
      BY <2>1 DEF Tools!Version, Tools!Pending
    <3> QED
      BY <3>1, AllTasks DEF NoneOlder
  <2> QED
    BY <2>1, <2>2, <2>3, NothingIs
<1> HIDE DEF got
<1>3. /\ tools \in [Connectors -> Tools!Version]
      /\ NoneOlder => \A s \in Connectors : tools[s] # 0 => tools[s] >= since[s]
  BY <1>0, <1>2 DEF ToolTypes, NoneOlder
<1> HIDE DEF tools
<1>4. tasks'["auth"] = Tools!Off /\ Tools!Off.step = "off" /\ DOMAIN Tools!Off.got = {} /\
        \A u \in Tools!Tasks : u # "auth" => tasks'[u] = tasks[u]
  BY <1>0, <1>1, OneTask, AllTasks, OffIs DEF Tools!Nothing
<1>5. available \in [Tools!Sources -> Tools!Version] /\ instances \in [Tools!Sources -> Tools!Version] /\
      Servers \subseteq Tools!Sources \ Connectors /\ Connectors \subseteq Tools!Sources
  BY <1>0 DEF ToolTypes, Tools!Sources, Tools!ToolsAssumption
<1>6. /\ Tools!Purged(available, Connectors) \in [Tools!Sources -> Tools!Version]
      /\ \A s \in Tools!Sources : Tools!Purged(available, Connectors)[s] = IF s \in Connectors /\
           available[s] # 0 THEN 0 ELSE available[s]
      /\ \A s \in Tools!Sources : Tools!Purged(instances, Connectors)[s] = IF s \in Connectors /\
           available[s] # 0 THEN 0 ELSE instances[s]
  BY <1>5, PurgedIs
<1>7. available' \in [Tools!Sources -> Tools!Version] /\
      \A s \in Tools!Sources : /\ s \in Connectors => available'[s] = tools[s] /\ instances'[s] = 0
                               /\ s \in Servers => available'[s] = available[s] /\
                                    instances'[s] = instances[s]
  BY <1>0, <1>1, <1>3, <1>5, <1>6, OverIs DEF UsedIsOffered
<1>8. /\ \/ screen' = screen /\ screen'.app = "auth"
         \/ /\ screen'.app = IF conns.known THEN "mcp" ELSE "input"
            /\ screen'.listed = available' /\
                 screen'.enabled = {s \in Tools!Sources : available'[s] # 0} \ disabled
            /\ ~screen'.refreshing /\ ~screen'.worker
      /\ screen'.app # "mcp" => ~screen'.refreshing /\ ~screen'.worker
  <2>1. CASE screen' = screen
    BY <1>0, <1>1, <2>1 DEF TasksScreen
  <2>2. CASE screen' = Tools!Reopened(available', conns')
    BY <1>0, <1>1, <1>7, <2>2, ReopenedIs DEF ToolTypes
  <2> QED
    BY <1>1, <2>1, <2>2
<1>9. \A u \in McpTasks \union ConnectorTasks : tasks'[u] = tasks[u]
  BY <1>4, AllTasks
<1>10. lock' # "free" => tasks'[lock'].step \in {"ask", "publish"}
  BY <1>0, <1>1, <1>4 DEF ToolTypes, TasksScreen
<1>11. TasksScreen'
  <2>1. ~Tools!Refreshing' /\ (Tools!Running("init mcp")' \/ Tools!Running("init connectors")' =>
                               init = "running")
    BY <1>0, <1>1, <1>9, AuthScreen DEF TasksScreen, Tools!Running, Tools!Refreshing, McpTasks,
                                        ConnectorTasks
  <2>2. ~Tools!Running("auth")'
    BY <1>4 DEF Tools!Running
  <2>3. screen'.app = "mcp" => screen'.listed = available' /\ screen'.enabled = Tools!Enabled'
    BY <1>1, <1>8 DEF Tools!Enabled
  <2> QED
    BY <1>1, <1>8, <1>10, <2>1, <2>2, <2>3 DEF TasksScreen
<1>12. UsedIsOffered' /\ (UsedIsCurrent => UsedIsCurrent')
  BY <1>0, <1>5, <1>7 DEF UsedIsOffered, UsedIsCurrent, Tools!Sources
<1>13. ASSUME ~disturbed' PROVE Undisturbed'
  <2>1. Undisturbed /\ init # "running"
    BY <1>1, <1>13 DEF ToolsInv, Undisturbed
  <2>2. \A u \in McpTasks \union ConnectorTasks : ~Tools!Running(u) /\ ~Tools!Running(u)'
    BY <1>0, <1>1, <1>9, <2>1, AuthScreen DEF Tools!Running
  <2>3. Calm'
    BY <1>1, <2>1, <2>2 DEF Calm, Tools!Refreshing, McpTasks, ConnectorTasks
  <2>4. ServersFollow'
    BY <1>1, <1>5, <1>7, <2>1, <2>2 DEF Undisturbed, ServersFollow
  <2>5. ConnectorsFollow'
    BY <1>1, <1>4, <1>5, <1>7, <2>2 DEF ConnectorsFollow
  <2>6. \A u \in Tools!Tasks : \A s \in DOMAIN tasks'[u].got : tasks'[u].got[s] \notin {0,
          Tools!Pending} => tasks'[u].got[s] >= since[s]
    BY <1>4, <2>1 DEF Undisturbed, NoneOlder
  <2>7. \A s \in Tools!Sources : available'[s] # 0 => available'[s] >= since[s]
    BY <1>3, <1>5, <1>7, <2>1 DEF Undisturbed, NoneOlder, Tools!Sources
  <2>8. NoneOlder'
    BY <1>1, <1>3, <2>1, <2>6, <2>7 DEF Undisturbed, NoneOlder, Tools!Pending
  <2> QED
    BY <1>12, <2>1, <2>3, <2>4, <2>5, <2>8 DEF Undisturbed
<1> QED
  BY <1>11, <1>12, <1>13

LEMMA ReloadKept ==
  ASSUME Tools!ToolsAssumption, ToolsInv, Tools!Reload
  PROVE  TasksScreen' /\ UsedIsOffered' /\ (~disturbed' => Undisturbed')
<1>0. ToolTypes /\ TaskTypes /\ TasksScreen /\ UsedIsOffered
  BY DEF ToolsInv, Undisturbed, ToolTypes
<1>1. /\ init = "ready" /\ screen.app = "input"
      /\ mcpCache' = [s \in Servers |-> IF mcpCache[s] # 0 THEN mcpCache[s] ELSE served.now[s]]
      /\ conns' = IF conns.cached THEN conns
              ELSE [cached |-> TRUE, known |-> TRUE, tools |-> [c \in Connectors |-> served.now[c]]]
      /\ available' = [s \in Tools!Sources |-> IF s \in Servers THEN mcpCache'[s] ELSE conns'.tools[s]]
      /\ instances' = Tools!Nothing(Tools!Sources) /\ integrated'
      /\ UNCHANGED <<served, lock, tasks, init, screen, disabled, since, disturbed>>
  BY DEF Tools!Reload
<1>2. Servers \subseteq Tools!Sources \ Connectors /\ Connectors \subseteq Tools!Sources
  BY DEF Tools!Sources, Tools!ToolsAssumption
<1>3. \A u \in Tools!Tasks : ~Tools!Running(u) /\ ~Tools!Running(u)'
  BY <1>0, <1>1 DEF TasksScreen, Tools!Running, Tools!Refreshing, Tools!Tasks
<1>4. lock = "free"
  BY <1>0, <1>3 DEF ToolTypes, TasksScreen, Tools!Running
<1>5. TasksScreen'
  BY <1>1, <1>3, <1>4, <1>0 DEF TasksScreen, Tools!Running, Tools!Refreshing
<1>6. UsedIsOffered' /\ UsedIsCurrent'
  BY <1>1, NothingIs DEF UsedIsOffered, UsedIsCurrent
<1>7. conns'.cached /\ (conns.known => conns'.known) /\
      \A c \in Connectors : conns'.tools[c] \in {conns.tools[c], served.now[c]}
  BY <1>1
<1>8. Undisturbed => Undisturbed'
  <2> SUFFICES ASSUME Undisturbed PROVE Undisturbed'
    OBVIOUS
  <2>1. Calm'
    BY <1>1, <1>3, <1>7 DEF Undisturbed, Calm, Tools!Refreshing, Tools!Tasks
  <2>2. ServersFollow'
    BY <1>1, <1>2, <1>3, AllTasks DEF ServersFollow
  <2>3. \A c \in Connectors : available'[c] = conns'.tools[c]
    BY <1>1, <1>2
  <2>4. tasks'["auth"].step = "off"
    BY <1>3, AllTasks DEF Tools!Running
  <2>5. ConnectorsFollow'
    BY <1>1, <1>3, <1>4, <1>7, <2>3, <2>4, AllTasks DEF ConnectorsFollow
  <2>6. NoneOlder'
    BY <1>1, <1>2, <1>7 DEF Undisturbed, NoneOlder, Tools!Sources, Tools!Pending
  <2> QED
    BY <1>6, <2>1, <2>2, <2>5, <2>6 DEF Undisturbed
<1> QED
  BY <1>1, <1>5, <1>6, <1>8 DEF ToolsInv, Undisturbed

-----------------------------------------------------------------------------
LEMMA ToolsInit ==
  ASSUME Tools!ToolsAssumption, Tools!Init
  PROVE  ToolsInv
<1>1. ToolTypes
  BY InitTypes
<1>2. tasks \in [Tools!Tasks -> TaskStates] /\ tasks["init mcp"] = Tools!Ask(Servers) /\
      tasks["init connectors"] = [Tools!Off EXCEPT !.step = "wait"] /\
      \A u \in {"refresh mcp", "refresh connectors", "auth"} : tasks[u] = Tools!Off
  BY <1>1 DEF Tools!Init, Tools!Tasks, ToolTypes, TaskTypes, TaskStates
<1>3. /\ tasks["init mcp"].step = "ask" /\ tasks["init mcp"].got = [s \in Servers |-> Tools!Pending]
      /\ tasks["init connectors"].step = "wait" /\ tasks["init connectors"].got = Tools!Nothing({})
      /\ \A u \in {"refresh mcp", "refresh connectors", "auth"} : tasks[u].step = "off" /\
           tasks[u].got = Tools!Nothing({})
  <2>1. Tools!Ask(Servers).step = "ask" /\ Tools!Ask(Servers).got = [s \in Servers |-> Tools!Pending]
    BY DEF Tools!Ask
  <2> QED
    BY <1>2, <2>1, OffIs
<1>4. /\ init = "running" /\ lock = "free" /\ ~conns.cached /\ ~conns.known /\ screen.app = "input" /\
           ~screen.refreshing
      /\ ~screen.worker /\ ~screen.named
      /\ served.now = [s \in Tools!Sources |-> 1]
      /\ available = Tools!Nothing(Tools!Sources) /\ instances = Tools!Nothing(Tools!Sources) /\
           mcpCache = Tools!Nothing(Servers)
      /\ conns.tools = Tools!Nothing(Connectors) /\ since = Tools!Nothing(Tools!Sources)
  BY DEF Tools!Init
<1>5. TasksScreen /\ Calm
  BY <1>3, <1>4 DEF TasksScreen, Calm, Tools!Refreshing, Tools!Running
<1>6. UsedIsOffered /\ UsedIsCurrent
  BY <1>4, NothingIs DEF UsedIsOffered, UsedIsCurrent
<1>7. ServersFollow
  <2>1. \A s \in Servers : available[s] = 0 /\ mcpCache[s] = 0
    BY <1>4, NothingIs DEF Tools!Sources
  <2> QED
    BY <1>3, <2>1 DEF ServersFollow, McpTasks, Tools!Running
<1>8. ConnectorsFollow
  BY <1>3, <1>4 DEF ConnectorsFollow, ConnectorTasks, Tools!Running
<1>9. NoneOlder
  <2>1. \A u \in Tools!Tasks : \A s \in DOMAIN tasks[u].got : tasks[u].got[s] \in {0, Tools!Pending}
    <3>1. DOMAIN Tools!Nothing({}) = {}
      BY DEF Tools!Nothing
    <3> QED
      BY <1>3, <3>1 DEF Tools!Tasks
  <2>2. \A s \in Tools!Sources : served.now[s] = 1 /\ since[s] = 0
    BY <1>4, NothingIs
  <2> QED
    BY <1>4, <2>1, <2>2, NothingIs DEF NoneOlder
<1> QED
  BY <1>1, <1>5, <1>6, <1>7, <1>8, <1>9 DEF ToolsInv, Undisturbed

LEMMA ToolsStep ==
  ASSUME Tools!ToolsAssumption, ToolsInv, [Tools!Next]_Tools!toolVars
  PROVE  ToolsInv'
<1>1. CASE UNCHANGED Tools!toolVars
  <2>1. ToolTypes'
    BY <1>1 DEF Tools!toolVars, ToolsInv, Undisturbed, ToolTypes, TaskTypes, Started
  <2>2. TasksScreen' /\ UsedIsOffered'
    BY <1>1 DEF Tools!toolVars, ToolsInv, Undisturbed, TasksScreen, UsedIsOffered, Tools!Refreshing,
                Tools!Running, Tools!Enabled
  <2>3. ~disturbed' => Undisturbed'
    BY <1>1 DEF Tools!toolVars, ToolsInv, Undisturbed, Calm, ServersFollow, ConnectorsFollow,
                UsedIsCurrent, NoneOlder,
                Tools!Refreshing, Tools!Running
  <2> QED
    BY <2>1, <2>2, <2>3 DEF ToolsInv, Undisturbed
<1>2. CASE Tools!Next
  <2>1. ToolTypes'
    BY <1>2, TypesKept DEF ToolsInv, Undisturbed, TasksScreen, Tools!LockHeld
  <2>2. TasksScreen' /\ UsedIsOffered' /\ (~disturbed' => Undisturbed')
    <3>1. ASSUME CalmStep PROVE TasksScreen' /\ UsedIsOffered' /\ (~disturbed' => Undisturbed')
      BY <3>1, CalmKept
    <3>2. ASSUME NEW t \in Tools!Tasks, Tools!Discover(t) \/ Tools!BootstrapFails(t)
          PROVE  TasksScreen' /\ UsedIsOffered' /\ (~disturbed' => Undisturbed')
      <4>1. disturbed' = disturbed
        BY <3>2 DEF Tools!Discover, Tools!BootstrapFails, Tools!StoreServers, Tools!IntegrateServers,
                    Tools!AskConnectors, Tools!PublishConnectors,
                    Tools!IntegrateConnectors, Tools!Reply
      <4>2. TasksScreen' /\ UsedIsOffered' /\ (~disturbed => Undisturbed')
        BY <3>2, StoreKept, IntegrateKept, AskKept, ListedKept, IntegrateConnectorsKept, ReplyKept
          DEF Tools!Discover
      <4> QED
        BY <4>1, <4>2
    <3> QED
      BY <1>2, <3>1, <3>2, UseKept, RefreshKept, LeaveKept, AskConnectorKept, CloseAuthKept, ConnectorRefreshedKept,
         ReloadKept DEF Tools!Next, CalmStep
  <2> QED
    BY <2>1, <2>2 DEF ToolsInv, Undisturbed
<1> QED
  BY <1>1, <1>2

LEMMA ToolsImplies ==
  ASSUME Tools!ToolsAssumption, ToolsInv
  PROVE  Tools!TypeOK /\ Tools!ToolsSafe
<1>0. ToolTypes /\ TaskTypes /\ TasksScreen /\ UsedIsOffered
  BY DEF ToolsInv, Undisturbed, ToolTypes
<1>1. Tools!TypeOK
  BY <1>0 DEF TaskTypes, Steps, Gotten, Tools!TypeOK, ToolTypes
<1>2. Tools!LockHeld /\ Tools!ScreenCurrent
  BY <1>0 DEF TasksScreen, Tools!LockHeld, Tools!ScreenCurrent, Tools!Quiet
<1>3. ~disturbed => Tools!Agree /\ Tools!Current
  <2> SUFFICES ASSUME ~disturbed PROVE Tools!Agree /\ Tools!Current
    OBVIOUS
  <2>1. Tools!Agree
    BY AllTasks DEF ToolsInv, Undisturbed, Tools!Agree, Tools!Quiet, ServersFollow, ConnectorsFollow
  <2>2. Tools!Current
    BY DEF ToolsInv, Undisturbed, Tools!Current, UsedIsCurrent, NoneOlder
  <2> QED
    BY <2>1, <2>2
<1> QED
  BY <1>1, <1>2, <1>3 DEF Tools!ToolsSafe

-----------------------------------------------------------------------------
(* A layer of settings: LayerInv says what a call that holds the lock is   *)
(* about to commit, and what was told of its trust.                        *)

Trusts == {"unknown", "yes", "no"}
AtWork == {"checks", "tells", "reads"}
LayerSteps == {"none", "waits"} \union AtWork

\* What a call that holds the lock is about to commit: data of the layer, if any, and a
\* trust that, if a load brings it, is the one the layer has or the first it gets.
JobSound(c) ==
  /\ job[c].at = "none" => job[c].op = "none"
  /\ job[c].floor <= store /\ (job[c].op # "force" => job[c].floor <= floor)
  /\ job[c].at \in AtWork =>
       /\ holder = c /\ job[c].data \in {0, layer.data}
       /\ job[c].op \in Layer!Loads => job[c].trusted = layer.trusted \/ layer.trusted = "unknown"
  /\ job[c].at = "checks" =>
       /\ job[c].op \in {"resolve"} \union Layer!Loads
       /\ job[c].op \in Layer!Loads => layer.trusted = "unknown"
  /\ job[c].at = "tells" =>
       /\ job[c].op \in {"grant", "revoke", "resolve"} \union Layer!Loads
       /\ job[c].op \in Layer!Loads => layer.trusted = "unknown"
       /\ job[c].data # 0 => job[c].trusted = "yes"
       /\ job[c].op = "grant" => job[c].trusted = "yes"
       /\ job[c].op = "revoke" => job[c].trusted = "no"
  /\ job[c].at = "reads" => job[c].op \in Layer!Loads /\ job[c].trusted = "yes"

\* What has been told is what counts, or what the call that has told is about to commit.
ToldSound ==
  ~broken =>
    /\ holder = NoCaller => toldTrust = layer.trusted
    /\ \A c \in Callers :
         /\ job[c].at \in {"checks", "tells"} => toldTrust = layer.trusted
         /\ job[c].at = "reads" => toldTrust = job[c].trusted

LayerType ==
  /\ job \in [Callers -> [op : Layer!Ops \union {"none"}, at : LayerSteps, trusted : Trusts,
                          data : Nat, floor : Nat]]
  /\ layer \in [trusted : Trusts, data : Nat]
  /\ holder \in Callers \union {NoCaller} /\ broken \in BOOLEAN /\ permitted \in {"yes", "no"}
  /\ store \in Nat \ {0} /\ floor \in Nat

\* What is cached is not older than the last time that the cache was dropped.
CacheFresh == floor <= store /\ (layer.data # 0 => floor <= layer.data)

LayerInv ==
  /\ LayerType /\ CacheFresh /\ Layer!LastDecisionCounts /\ Layer!LoadsAreFresh
  /\ (\A c \in Callers : JobSound(c)) /\ ToldSound

-----------------------------------------------------------------------------

LEMMA LayerInit ==
  ASSUME Layer!LayerAssumption, Layer!Init
  PROVE  LayerInv
<1> USE DEF Layer!LayerAssumption, Layer!Init, Layer!NoJob
<1>1. LayerType
  <2>1. job \in [Callers -> [op : Layer!Ops \union {"none"}, at : LayerSteps, trusted : Trusts,
                             data : Nat, floor : Nat]]
    BY DEF Layer!Ops, Trusts, LayerSteps, AtWork
  <2>2. layer \in [trusted : Trusts, data : Nat]
    BY DEF Trusts
  <2>3. /\ holder \in Callers \union {NoCaller} /\ permitted \in {"yes", "no"}
        /\ store \in Nat \ {0} /\ floor \in Nat
    OBVIOUS
  <2>4. broken \in BOOLEAN
    OBVIOUS
  <2> HIDE DEF Layer!Init, Layer!NoJob
  <2> QED
    BY <2>1, <2>2, <2>3, <2>4 DEF LayerType
<1>2. CacheFresh /\ Layer!LastDecisionCounts /\ Layer!LoadsAreFresh
  BY DEF CacheFresh, Layer!LastDecisionCounts, Layer!LoadsAreFresh
<1>3. (\A c \in Callers : JobSound(c)) /\ ToldSound
  BY DEF JobSound, ToldSound, AtWork
<1> QED
  BY <1>1, <1>2, <1>3 DEF LayerInv

\* The steps, by the action; a call that fails, or is cancelled, and one that commits.
LEMMA CallSound ==
  ASSUME Layer!LayerAssumption, LayerInv, NEW c \in Callers, NEW op \in Layer!Ops, Layer!Call(c, op)
  PROVE  LayerInv'
<1> USE DEF Layer!LayerAssumption, Layer!Call, LayerInv, Layer!NoJob
<1>1. LayerType' /\ CacheFresh' /\ Layer!LastDecisionCounts' /\ Layer!LoadsAreFresh'
  BY DEF LayerType, CacheFresh, Layer!LastDecisionCounts, Layer!LoadsAreFresh, Layer!Ops,
         Layer!Loads, Trusts, LayerSteps, AtWork
<1>2. ASSUME NEW d \in Callers PROVE JobSound(d)'
  BY DEF LayerType, CacheFresh, JobSound, LayerSteps, AtWork
<1>3. ToldSound'
  BY DEF LayerType, ToldSound
<1> QED
  BY <1>1, <1>2, <1>3

LEMMA FailsSound ==
  ASSUME Layer!LayerAssumption, LayerInv, NEW c \in Callers, Layer!Fails(c),
         UNCHANGED <<store, permitted>>, broken' \in BOOLEAN,
         broken => broken', ~broken' => (toldTrust' = toldTrust \/ holder = c) /\ (holder = c =>
           toldTrust' = layer.trusted)
  PROVE  LayerInv'
BY DEF Layer!LayerAssumption, Layer!Fails, Layer!Keeps, LayerInv, LayerType, CacheFresh,
       Layer!LastDecisionCounts, Layer!LoadsAreFresh,
       JobSound, ToldSound, Layer!NoJob, Layer!Ops, Layer!Loads, Trusts, LayerSteps, AtWork

\* The lock is with this call, or free, so that no other is at work.
LEMMA CommitsSound ==
  ASSUME Layer!LayerAssumption, LayerInv, NEW c \in Callers, holder \in {c, NoCaller},
         NEW trusted \in Trusts, NEW data \in Nat, Layer!Commits(c, trusted, data),
         UNCHANGED <<store, permitted, broken>>, ~broken => toldTrust' = trusted,
         data \in {0, layer.data} \/ data = store, data # 0 => trusted = "yes",
         job[c].op = "grant" => trusted = "yes", job[c].op = "revoke" => trusted = "no",
         job[c].op \in {"revoke", "invalidate"} /\ ~(job[c].op = "revoke" /\ layer.trusted = "no") =>
           data = 0,
         job[c].op \in Layer!Loads \union {"invalidate"} => trusted = layer.trusted \/
           layer.trusted = "unknown",
         job[c].op \in Layer!Ops,
         job[c].op \in Layer!Loads /\ trusted = "yes" => data = store \/ (job[c].op = "load" /\
           data = layer.data /\ data # 0)
  PROVE  LayerInv'
<1> USE DEF Layer!LayerAssumption, LayerInv
<1>1. LayerType'
  BY DEF Layer!Commits, Layer!Keeps, LayerType, Layer!NoJob, Layer!Ops, Layer!Loads, Trusts,
         LayerSteps, AtWork
<1>2. CacheFresh'
  BY DEF Layer!Commits, LayerType, CacheFresh, Layer!LastDecisionCounts, Layer!Ops, Layer!Loads, Trusts
<1>3. Layer!LastDecisionCounts'
  BY DEF Layer!Commits, LayerType, Layer!LastDecisionCounts, Layer!Ops, Layer!Loads, Trusts
<1>4. Layer!LoadsAreFresh'
  BY DEF Layer!Commits, LayerType, CacheFresh, Layer!LoadsAreFresh, JobSound, Layer!Ops, Layer!Loads, Trusts
<1>5. ASSUME NEW d \in Callers PROVE JobSound(d)'
  BY <1>2 DEF Layer!Commits, Layer!Keeps, LayerType, CacheFresh, JobSound, Layer!NoJob, Layer!Ops,
              Layer!Loads, Trusts, LayerSteps, AtWork
<1>6. ToldSound'
  BY DEF Layer!Commits, Layer!Keeps, LayerType, JobSound, ToldSound, Layer!NoJob, Trusts, LayerSteps, AtWork
<1> QED
  BY <1>1, <1>2, <1>3, <1>4, <1>5, <1>6

LEMMA DispatchSound ==
  ASSUME Layer!LayerAssumption, LayerInv, NEW c \in Callers, Layer!Dispatch(c)
  PROVE  LayerInv'
<1> DEFINE op == job[c].op
           Goes(at, trusted, data) ==
             /\ job' = [job EXCEPT ![c].at = at, ![c].trusted = trusted, ![c].data = data]
             /\ holder' = c
             /\ UNCHANGED <<layer, answers, floor, decision>>
<1>1. /\ holder = NoCaller /\ op \in Layer!Ops \union {"none"}
      /\ layer.trusted \in Trusts /\ layer.data \in Nat
      /\ UNCHANGED <<store, permitted, toldTrust, broken, count>>
  BY DEF Layer!Dispatch, Layer!Free, LayerInv, LayerType
<1>2. \A d \in Callers : job[d].at \notin AtWork
  BY <1>1 DEF Layer!LayerAssumption, LayerInv, JobSound
<1>3. ~broken => toldTrust = layer.trusted
  BY <1>1 DEF LayerInv, ToldSound
<1>4. CASE \/ op = "grant" /\ layer.trusted = "yes" /\ Layer!Commits(c, "yes", layer.data)
           \/ op = "revoke" /\ layer.trusted = "no" /\ Layer!Commits(c, "no", layer.data)
           \/ op \in Layer!Loads /\ layer.trusted = "no" /\ Layer!Commits(c, "no", 0)
           \/ op = "load" /\ layer.trusted = "yes" /\ layer.data # 0 /\ Layer!Commits(c, "yes", layer.data)
           \/ op = "invalidate" /\ Layer!Commits(c, layer.trusted, 0)
  BY <1>1, <1>3, <1>4, CommitsSound DEF LayerInv, LayerType, Layer!LastDecisionCounts, Layer!Ops,
                                        Layer!Loads, Trusts
<1>5. CASE \/ op = "grant" /\ layer.trusted # "yes" /\ Goes("tells", "yes", layer.data)
           \/ op = "revoke" /\ layer.trusted # "no" /\ Goes("tells", "no", 0)
           \/ op = "resolve" /\ Goes("checks", layer.trusted, layer.data)
           \/ op \in Layer!Loads /\ layer.trusted = "unknown" /\ Goes("checks", layer.trusted, layer.data)
           \/ /\ op \in Layer!Loads /\ layer.trusted = "yes" /\ (layer.data = 0 \/ op = "force")
              /\ Goes("reads", "yes", layer.data)
  <2>1. LayerType' /\ CacheFresh' /\ Layer!LastDecisionCounts' /\ Layer!LoadsAreFresh'
    BY <1>1, <1>5 DEF LayerInv, LayerType, CacheFresh, Layer!LastDecisionCounts, Layer!LoadsAreFresh,
                      Layer!Ops, Layer!Loads, Trusts, LayerSteps, AtWork
  <2>2. ASSUME NEW d \in Callers PROVE JobSound(d)'
    BY <1>1, <1>2, <1>5 DEF LayerInv, LayerType, Layer!LastDecisionCounts, JobSound, Layer!Ops,
                            Layer!Loads, Trusts, LayerSteps, AtWork
  <2>3. ToldSound'
    BY <1>1, <1>2, <1>3, <1>5 DEF Layer!LayerAssumption, LayerInv, LayerType, ToldSound, Layer!Ops,
                                  Layer!Loads, Trusts, LayerSteps, AtWork
  <2> QED
    BY <2>1, <2>2, <2>3 DEF LayerInv
<1> QED
  BY <1>4, <1>5 DEF Layer!Dispatch

LEMMA CheckTrustSound ==
  ASSUME Layer!LayerAssumption, LayerInv, NEW c \in Callers, Layer!CheckTrust(c)
  PROVE  LayerInv'
<1>1. holder = c /\ (~broken => toldTrust = layer.trusted) /\ \A d \in Callers : d # c =>
        job[d].at \notin AtWork
  BY DEF Layer!CheckTrust, Layer!LayerAssumption, LayerInv, JobSound, ToldSound, AtWork
<1>2. CASE Layer!Fails(c)
  BY <1>1, <1>2, FailsSound DEF Layer!CheckTrust, LayerInv, LayerType
<1>3. CASE /\ job' = [job EXCEPT ![c].at = "tells", ![c].trusted = permitted,
                                 ![c].data = IF permitted = "yes" THEN @ ELSE 0]
           /\ UNCHANGED <<layer, holder, answers, floor, decision>>
  <2> USE <1>1, <1>3 DEF Layer!CheckTrust, LayerInv
  <2>1. LayerType'
    <3>1. /\ permitted \in Trusts /\ "tells" \in LayerSteps
          /\ (IF permitted = "yes" THEN job[c].data ELSE 0) \in Nat
      BY DEF LayerType, Trusts, LayerSteps, AtWork
    <3> QED
      BY ZenonT(60), <3>1 DEF LayerType
  <2>4. CacheFresh' /\ Layer!LastDecisionCounts' /\ Layer!LoadsAreFresh'
    BY DEF CacheFresh, Layer!LastDecisionCounts, Layer!LoadsAreFresh
  <2>2. ASSUME NEW d \in Callers PROVE JobSound(d)'
    BY DEF LayerType, JobSound, Layer!Loads, LayerSteps, AtWork
  <2>3. ToldSound'
    BY DEF Layer!LayerAssumption, LayerType, ToldSound, AtWork
  <2> QED
    BY <2>1, <2>2, <2>3, <2>4
<1> QED
  BY <1>2, <1>3 DEF Layer!CheckTrust

LEMMA NotifyTrustChangeSound ==
  ASSUME Layer!LayerAssumption, LayerInv, NEW c \in Callers, Layer!NotifyTrustChange(c)
  PROVE  LayerInv'
<1> DEFINE same == job[c].trusted = layer.trusted
           reads == job[c].op \in Layer!Loads /\ job[c].trusted = "yes" /\ (job[c].data = 0 \/
             job[c].op = "force")
<1>1. /\ holder = c /\ (~broken => toldTrust = layer.trusted)
      /\ job[c].trusted \in Trusts /\ job[c].data \in Nat /\ JobSound(c) /\ job[c].at = "tells"
      /\ \A d \in Callers : d # c => job[d].at \notin AtWork
  BY DEF Layer!NotifyTrustChange, Layer!LayerAssumption, LayerInv, LayerType, JobSound, ToldSound, AtWork
<1>2. CASE ~same /\ Layer!Fails(c) /\ UNCHANGED toldTrust
  BY <1>1, <1>2, FailsSound DEF Layer!NotifyTrustChange, LayerInv, LayerType
<1>3. CASE /\ toldTrust' = IF same THEN toldTrust ELSE job[c].trusted
           /\ reads /\ job' = [job EXCEPT ![c].at = "reads"]
           /\ UNCHANGED <<layer, holder, answers, floor, decision>>
  <2> USE <1>1, <1>3 DEF Layer!NotifyTrustChange, LayerInv
  <2>1. LayerType'
    BY DEF LayerType, LayerSteps, AtWork
  <2>4. CacheFresh' /\ Layer!LastDecisionCounts' /\ Layer!LoadsAreFresh'
    BY DEF CacheFresh, Layer!LastDecisionCounts, Layer!LoadsAreFresh
  <2>2. ASSUME NEW d \in Callers PROVE JobSound(d)'
    BY DEF LayerType, JobSound, Layer!Loads, LayerSteps, AtWork
  <2>3. ToldSound'
    BY DEF Layer!LayerAssumption, LayerType, ToldSound, AtWork
  <2> QED
    BY <2>1, <2>2, <2>3, <2>4
<1>4. CASE /\ toldTrust' = IF same THEN toldTrust ELSE job[c].trusted
           /\ ~reads /\ Layer!Commits(c, job[c].trusted, job[c].data)
  <2>1. job[c].op \in {"grant", "revoke", "resolve"} \union Layer!Loads /\ job[c].data \in {0, layer.data}
    BY <1>1 DEF JobSound, AtWork
  <2>2. job[c].op \in Layer!Loads => job[c].trusted # "yes"
    BY <1>1, <1>4, <2>1 DEF JobSound, LayerInv, LayerType, Layer!LastDecisionCounts, AtWork
  <2> QED
    BY <1>1, <1>4, <2>1, <2>2, CommitsSound DEF Layer!NotifyTrustChange, JobSound, Layer!Ops,
                                                Layer!Loads, AtWork
<1> QED
  BY <1>2, <1>3, <1>4 DEF Layer!NotifyTrustChange

LEMMA ReadConfigSound ==
  ASSUME Layer!LayerAssumption, LayerInv, NEW c \in Callers, Layer!ReadConfig(c)
  PROVE  LayerInv'
<1>1. /\ holder = c /\ (~broken => toldTrust = job[c].trusted) /\ store \in Nat /\ broken \in BOOLEAN
      /\ job[c].trusted = "yes" /\ job[c].op \in Layer!Loads
      /\ job[c].trusted = layer.trusted \/ layer.trusted = "unknown"
  BY DEF Layer!ReadConfig, Layer!LayerAssumption, LayerInv, LayerType, JobSound, ToldSound, AtWork
<1>2. CASE Layer!Commits(c, job[c].trusted, store) /\ UNCHANGED broken
  BY <1>1, <1>2, CommitsSound DEF Layer!ReadConfig, Layer!Ops, Layer!Loads, Trusts
<1>3. CASE Layer!Fails(c) /\ broken' = (broken \/ toldTrust # layer.trusted)
  BY <1>1, <1>3, FailsSound DEF Layer!ReadConfig
<1> QED
  BY <1>2, <1>3 DEF Layer!ReadConfig

LEMMA CancelSound ==
  ASSUME Layer!LayerAssumption, LayerInv, NEW c \in Callers, Layer!Cancel(c)
  PROVE  LayerInv'
<1>1. broken \in BOOLEAN /\ (job[c].at \in AtWork => holder = c)
  BY DEF LayerInv, LayerType, JobSound
<1> QED
  BY <1>1, FailsSound DEF Layer!Cancel, AtWork

LEMMA EditSound ==
  ASSUME Layer!LayerAssumption, LayerInv, Layer!Edit
  PROVE  LayerInv'
<1> USE DEF Layer!Edit, LayerInv
<1>1. LayerType' /\ CacheFresh' /\ Layer!LastDecisionCounts' /\ Layer!LoadsAreFresh'
  BY DEF LayerType, CacheFresh, Layer!LastDecisionCounts, Layer!LoadsAreFresh
<1>2. ASSUME NEW d \in Callers PROVE JobSound(d)'
  BY DEF LayerType, JobSound
<1>3. ToldSound'
  BY DEF ToldSound
<1> QED
  BY <1>1, <1>2, <1>3

\* What is cached was read, from a store that was changed a limited number of times.
LayerBound == count.edits \in 0..MaxEdits /\ store <= count.edits + 1 /\ layer.data <= store

LEMMA LayerBoundedFirst ==
  ASSUME Layer!LayerAssumption, Layer!Init
  PROVE  LayerBound
BY DEF Layer!LayerAssumption, Layer!Init, LayerBound

LEMMA LayerBounded ==
  ASSUME Layer!LayerAssumption, LayerInv, LayerBound, [Layer!LayerNext]_Layer!layerVars
  PROVE  LayerBound'
<1> USE DEF Layer!LayerAssumption, LayerBound
<1>1. layer.data \in Nat /\ store \in Nat /\ \A c \in Callers : job[c].at \in AtWork =>
        job[c].data \in {0, layer.data}
  BY DEF LayerInv, LayerType, JobSound
<1>2. ASSUME NEW c \in Callers, NEW op \in Layer!Ops, Layer!Call(c, op) PROVE LayerBound'
  BY <1>1, <1>2 DEF Layer!Call
<1>3. ASSUME NEW c \in Callers, Layer!Dispatch(c) PROVE LayerBound'
  BY <1>1, <1>3 DEF Layer!Dispatch, Layer!Commits
<1>4. ASSUME NEW c \in Callers, Layer!CheckTrust(c) \/ Layer!NotifyTrustChange(c) \/ Layer!ReadConfig(c) \/ Layer!Cancel(c)
      PROVE LayerBound'
  BY <1>1, <1>4 DEF Layer!CheckTrust, Layer!NotifyTrustChange, Layer!ReadConfig, Layer!Cancel,
                    Layer!Commits, Layer!Fails, AtWork
<1>5. CASE Layer!Edit
  BY <1>1, <1>5 DEF Layer!Edit
<1>6. CASE UNCHANGED Layer!layerVars
  BY <1>6 DEF Layer!layerVars
<1> QED
  BY <1>2, <1>3, <1>4, <1>5, <1>6 DEF Layer!LayerNext

LEMMA LayerStep ==
  ASSUME Layer!LayerAssumption, LayerInv, [Layer!LayerNext]_Layer!layerVars
  PROVE  LayerInv'
<1>1. ASSUME NEW c \in Callers, NEW op \in Layer!Ops, Layer!Call(c, op) PROVE LayerInv'
  BY <1>1, CallSound
<1>2. ASSUME NEW c \in Callers, Layer!Dispatch(c) PROVE LayerInv'
  BY <1>2, DispatchSound
<1>3. ASSUME NEW c \in Callers, Layer!CheckTrust(c) PROVE LayerInv'
  BY <1>3, CheckTrustSound
<1>4. ASSUME NEW c \in Callers, Layer!NotifyTrustChange(c) PROVE LayerInv'
  BY <1>4, NotifyTrustChangeSound
<1>5. ASSUME NEW c \in Callers, Layer!ReadConfig(c) PROVE LayerInv'
  BY <1>5, ReadConfigSound
<1>6. ASSUME NEW c \in Callers, Layer!Cancel(c) PROVE LayerInv'
  BY <1>6, CancelSound
<1>7. CASE Layer!Edit
  BY <1>7, EditSound
<1>8. CASE UNCHANGED Layer!layerVars
  BY <1>8 DEF Layer!layerVars, LayerInv, LayerType, CacheFresh, Layer!LastDecisionCounts,
              Layer!LoadsAreFresh, JobSound, ToldSound
<1> QED
  BY <1>1, <1>2, <1>3, <1>4, <1>5, <1>6, <1>7, <1>8 DEF Layer!LayerNext

LEMMA LayerImplies ==
  ASSUME Layer!LayerAssumption, LayerInv, LayerBound
  PROVE  Layer!TypeOK /\ Layer!LayersSafe
<1>1. Layer!LayersSafe
  BY DEF LayerInv, Layer!LayersSafe, Layer!ToldWhatCounts, ToldSound
<1>2. layer.data \in 0..MaxEdits + 1
  BY DEF Layer!LayerAssumption, LayerInv, LayerType, LayerBound
<1>3. layer.trusted \in {"unknown", "yes", "no"} /\ holder \in Callers \union {NoCaller}
  BY DEF LayerInv, LayerType, Trusts
<1>4. \A c \in Callers : job[c].at \in {"none", "waits", "checks", "tells", "reads"}
  BY DEF LayerInv, LayerType, LayerSteps, AtWork
<1>5. \A c \in Callers : job[c].at \in {"checks", "tells", "reads"} => holder = c
  BY DEF LayerInv, JobSound, AtWork
<1> QED
  BY <1>1, <1>2, <1>3, <1>4, <1>5 DEF Layer!TypeOK

-----------------------------------------------------------------------------
(* The shell tool. ShellInv: what holds of a command, of the call that     *)
(* waits for it, of the output that is kept of it, and of its kill_bash.   *)
(* PermissionInv: an answer is what the parts of the command call for, and *)
(* what is granted is what was asked.                                      *)

\* A set of numbers that is not empty has a least one.
LEMMA NatLeast ==
  ASSUME NEW S, S \subseteq Nat, S # {}
  PROVE  \E n \in S : \A m \in S : n <= m
<1> DEFINE R == OpToRel(<, Nat)
<1>1. IsWellFoundedOn(R, Nat)
  BY NatLessThanWellFounded, Zenon
<1>2. \A n, m \in Nat : n < m => <<n, m>> \in R
  BY SMT DEF OpToRel
<1> HIDE DEF R
<1>3. PICK n \in S : \A m \in S : ~(<<m, n>> \in R)
  BY <1>1, WFMin
<1>4. ASSUME NEW m \in S PROVE n <= m
  <2>1. n \in Nat /\ m \in Nat /\ ~(<<m, n>> \in R)
    BY <1>3
  <2>2. ~(m < n)
    BY <1>2, <2>1
  <2> QED
    BY <2>1, <2>2
<1> QED
  BY <1>4

Commanded == [kind : {"front", "back"}, shell : BOOLEAN, child : BOOLEAN, left : BOOLEAN, pipe : Nat,
              written : Nat]
Called == [step : {"waiting", "ending", "over"}, result : {"none", "started", "output", "timeout",
                                                           "cancelled"},
           got : Nat]
Drained == [buf : Nat, read : Nat, drains : BOOLEAN, told : Nat, cut : Nat]
Kept(s) == s \in {"no", "killing", "killed"}

\* What holds of a command, of its call, of what was read of it, and of its kill_bash.
Behind(s) == ~s.shell /\ s.child => s.left
Over(s) == ~s.shell /\ ~s.child
CallFits(s, c) ==
  /\ s.kind = "back" => c.step = "over" /\ c.result = "started"
  /\ s.kind = "front" /\ c.step = "over" => ~s.shell
  /\ c.step = "waiting" => c.result # "output"
  /\ c.result = "output" => Over(s) /\ (c.got = s.written \/ (c.got = Cap /\ s.written > Cap))
BufferFits(s, b, k) ==
  /\ s.pipe <= s.written
  /\ b.read <= b.buf /\ b.told + b.cut = b.read
  /\ s.kind = "front" => ~b.drains
  /\ s.kind = "back" => s.written = b.buf + s.pipe /\ (~b.drains => k = "killed" \/ (s.pipe = 0 /\ Over(s)))
KillFits(s, k) == k = "killed" => ~s.shell

CommandOK(s, c, b, k) ==
  /\ s \in Commanded /\ c \in Called /\ b \in Drained /\ Kept(k)
  /\ Behind(s) /\ CallFits(s, c) /\ BufferFits(s, b, k) /\ KillFits(s, k)

SameCommands ==
  /\ shells \in Seq(Commanded) /\ shellCalls \in Seq(Called) /\ buffers \in Seq(Drained)
  /\ kills \in Seq({"no", "killing", "killed"})
  /\ Len(shellCalls) = Len(shells) /\ Len(buffers) = Len(shells) /\ Len(kills) = Len(shells)
ShellInv == SameCommands /\ \A n \in Shell!Ids : CommandOK(shells[n], shellCalls[n], buffers[n], kills[n])

LEMMA ShellInit ==
  ASSUME Shell!Init
  PROVE  ShellInv
BY DEF Shell!Init, ShellInv, SameCommands, Shell!Ids

LEMMA ShellImplies ==
  ASSUME ShellInv
  PROVE  Shell!TypeOK /\ Shell!ShellSafe
<1>0. \A n \in Shell!Ids : CommandOK(shells[n], shellCalls[n], buffers[n], kills[n])
  BY DEF ShellInv
<1>1. Shell!TypeOK
  BY <1>0 DEF Shell!TypeOK, CommandOK, Commanded, Called, Drained, Kept, BufferFits
<1>2. Shell!FrontEnds
  BY <1>0 DEF Shell!FrontEnds, Shell!Gone, Shell!Back, CommandOK, Commanded, CallFits, Behind
<1>3. Shell!ResultWhole
  BY <1>0 DEF Shell!ResultWhole, Shell!AtEnd, CommandOK, CallFits, Over
<1>4. Shell!OutputOnce
  BY <1>0 DEF Shell!OutputOnce, Shell!Back, CommandOK, BufferFits, Commanded, Drained
<1>5. Shell!KilledIsGone
  BY <1>0 DEF Shell!KilledIsGone, Shell!Gone, CommandOK, KillFits, Behind
<1> QED
  BY <1>1, <1>2, <1>3, <1>4, <1>5 DEF Shell!ShellSafe

\* A step that changes one command leaves the others as they were.
LEMMA OneCommand ==
  ASSUME ShellInv, NEW n \in Shell!Ids, NEW s, NEW c, NEW b, NEW k, CommandOK(s, c, b, k),
         shells' = [shells EXCEPT ![n] = s], shellCalls' = [shellCalls EXCEPT ![n] = c],
         buffers' = [buffers EXCEPT ![n] = b], kills' = [kills EXCEPT ![n] = k]
  PROVE  ShellInv'
<1>1. /\ s \in Commanded /\ c \in Called /\ b \in Drained /\ k \in {"no", "killing", "killed"}
  BY DEF CommandOK, Kept
<1>0. Shell!Ids = 1..Len(shells) /\ Len(shells) \in Nat
  BY DEF Shell!Ids, ShellInv, SameCommands
<1>2. SameCommands' /\ Shell!Ids' = Shell!Ids
  BY <1>1, <1>0 DEF ShellInv, SameCommands, Shell!Ids
<1>3. ASSUME NEW m \in Shell!Ids
      PROVE  CommandOK(shells'[m], shellCalls'[m], buffers'[m], kills'[m])
  <2>1. m \in DOMAIN shells /\ m \in DOMAIN shellCalls /\ m \in DOMAIN buffers /\ m \in DOMAIN kills
    BY <1>0 DEF ShellInv, SameCommands
  <2>2. CASE m = n
    BY <2>1, <2>2
  <2>3. CASE m # n
    BY <2>1, <2>3 DEF ShellInv
  <2> QED
    BY <2>2, <2>3
<1> QED
  BY <1>2, <1>3 DEF ShellInv

LEMMA CommandStarts ==
  ASSUME Shell!ShellAssumption, ShellInv, NEW kind \in {"front", "back"}, Shell!Start(kind)
  PROVE  ShellInv'
<1> DEFINE s == [kind |-> kind, shell |-> TRUE, child |-> FALSE, left |-> FALSE, pipe |-> 0, written |-> 0]
           c == [step |-> IF kind = "back" THEN "over" ELSE "waiting",
                 result |-> IF kind = "back" THEN "started" ELSE "none", got |-> 0]
           b == [buf |-> 0, read |-> 0, drains |-> kind = "back", told |-> 0, cut |-> 0]
<1>2. s \in Commanded /\ c \in Called /\ b \in Drained
  BY DEF Commanded, Called, Drained
<1>6. CallFits(s, c)
  BY DEF CallFits
<1>7. BufferFits(s, b, "no")
  <2>1. b.buf = 0 /\ b.read = 0 /\ b.told = 0 /\ b.cut = 0 /\ (b.drains <=> kind = "back")
    OBVIOUS
  <2>2. s.kind = kind /\ s.pipe = 0 /\ s.written = 0
    OBVIOUS
  <2> HIDE DEF s, b
  <2> QED
    BY <2>1, <2>2 DEF BufferFits
<1>1. CommandOK(s, c, b, "no")
  BY <1>2, <1>6, <1>7 DEF CommandOK, Kept, Behind, KillFits
<1>3. shells' = Append(shells, s) /\ shellCalls' = Append(shellCalls, c) /\ buffers' = Append(buffers, b)
      /\ kills' = Append(kills, "no")
  BY DEF Shell!Start
<1> HIDE DEF s, c, b
<1>4. SameCommands' /\ Shell!Ids = 1..Len(shells) /\ Shell!Ids' = 1..Len(shells) + 1 /\ Len(shells) \in Nat
  BY <1>2, <1>3 DEF ShellInv, SameCommands, Shell!Ids
<1>5. ASSUME NEW m \in Shell!Ids'
      PROVE  CommandOK(shells'[m], shellCalls'[m], buffers'[m], kills'[m])
  <2>1. CASE m \in Shell!Ids
    BY <1>3, <1>4, <2>1 DEF ShellInv, SameCommands
  <2>2. CASE m = Len(shells) + 1
    BY <1>1, <1>3, <1>4, <2>2 DEF ShellInv, SameCommands
  <2> QED
    BY <1>4, <2>1, <2>2
<1> QED
  BY <1>4, <1>5 DEF ShellInv

\* What a command and what belongs to it are before a step, and how a step leaves some of it.
LEMMA CommandNow ==
  ASSUME ShellInv, NEW n \in Shell!Ids
  PROVE  /\ CommandOK(shells[n], shellCalls[n], buffers[n], kills[n])
         /\ shells = [shells EXCEPT ![n] = shells[n]]
         /\ shellCalls = [shellCalls EXCEPT ![n] = shellCalls[n]]
         /\ buffers = [buffers EXCEPT ![n] = buffers[n]]
         /\ kills = [kills EXCEPT ![n] = kills[n]]
<1>1. n \in DOMAIN shells /\ n \in DOMAIN shellCalls /\ n \in DOMAIN buffers /\ n \in DOMAIN kills
  BY DEF ShellInv, SameCommands, Shell!Ids
<1> QED
  BY <1>1 DEF ShellInv, SameCommands

LEMMA GroupKilled ==
  ASSUME ShellInv, NEW n \in Shell!Ids
  PROVE  \E s \in Commanded :
           /\ Shell!KillGroup(n) = [shells EXCEPT ![n] = s]
           /\ ~s.shell /\ Behind(s) /\ s.kind = shells[n].kind
           /\ s.pipe = shells[n].pipe /\ s.written = shells[n].written
           /\ (Over(shells[n]) => Over(s))
<1>1. shells[n] \in Commanded /\ Behind(shells[n]) /\ shells = [shells EXCEPT ![n] = shells[n]]
  BY CommandNow DEF CommandOK
<1>2. CASE shells[n].shell
  <2> DEFINE s == [shells[n] EXCEPT !.shell = FALSE, !.child = FALSE]
  <2>1. Shell!KillGroup(n) = [shells EXCEPT ![n] = s]
    BY <1>1, <1>2 DEF Shell!KillGroup
  <2>2. s \in Commanded /\ s.shell = FALSE /\ s.child = FALSE /\ s.kind = shells[n].kind
        /\ s.pipe = shells[n].pipe /\ s.written = shells[n].written
    BY <1>1 DEF Commanded
  <2> QED
    BY <2>1, <2>2 DEF Behind, Over
<1>3. CASE ~shells[n].shell
  BY <1>1, <1>3 DEF Shell!KillGroup
<1> QED
  BY <1>2, <1>3

LEMMA CommandRuns ==
  ASSUME Shell!ShellAssumption, ShellInv, NEW n \in Shell!Ids, Shell!Spawn(n) \/ Shell!Write(n) \/
           Shell!Exit(n)
  PROVE  ShellInv'
<1>0. /\ CommandOK(shells[n], shellCalls[n], buffers[n], kills[n])
      /\ shellCalls = [shellCalls EXCEPT ![n] = shellCalls[n]] /\
           buffers = [buffers EXCEPT ![n] = buffers[n]]
      /\ kills = [kills EXCEPT ![n] = kills[n]]
  BY CommandNow
<1>1. shellCalls' = [shellCalls EXCEPT ![n] = shellCalls[n]] /\
        buffers' = [buffers EXCEPT ![n] = buffers[n]]
      /\ kills' = [kills EXCEPT ![n] = kills[n]]
  BY <1>0 DEF Shell!Spawn, Shell!Write, Shell!Exit
<1>2. CASE Shell!Spawn(n)
  <2> DEFINE s == [shells[n] EXCEPT !.child = TRUE]
  <2>1. shells' = [shells EXCEPT ![n] = s] /\ shells[n].shell
    BY <1>2 DEF Shell!Spawn
  <2>2. CommandOK(s, shellCalls[n], buffers[n], kills[n])
    BY <1>0, <2>1 DEF CommandOK, Commanded, Called, Drained, Kept, Behind, CallFits, BufferFits,
                      KillFits, Over
  <2> HIDE DEF s
  <2> QED
    BY <1>1, <2>1, <2>2, OneCommand
<1>3. CASE Shell!Write(n)
  <2> DEFINE s == [shells[n] EXCEPT !.written = @ + 1, !.pipe = @ + 1]
  <2>1. shells' = [shells EXCEPT ![n] = s] /\ (shells[n].shell \/ shells[n].child)
    BY <1>3 DEF Shell!Write, Shell!AtEnd
  <2>3. /\ shells[n] \in Commanded /\ shells[n].written \in Nat /\ shells[n].pipe \in Nat
        /\ shells[n].written + 1 \in Nat /\ shells[n].pipe + 1 \in Nat
    BY <1>0 DEF CommandOK, Commanded
  <2>4. s \in Commanded /\ s.kind = shells[n].kind /\ s.shell = shells[n].shell /\ s.child = shells[n].child
        /\ s.left = shells[n].left /\ s.written = shells[n].written + 1 /\ s.pipe = shells[n].pipe + 1
    BY <2>3 DEF Commanded
  <2> HIDE DEF s
  <2>2. CommandOK(s, shellCalls[n], buffers[n], kills[n])
    BY <1>0, <2>1, <2>3, <2>4 DEF CommandOK, Commanded, Called, Drained, Kept, Behind, CallFits,
                                  BufferFits, KillFits, Over
  <2> HIDE DEF s
  <2> QED
    BY <1>1, <2>1, <2>2, OneCommand
<1>4. CASE Shell!Exit(n) /\ shells[n].shell /\
             shells' = [shells EXCEPT ![n].shell = FALSE, ![n].left = shells[n].child]
  <2> DEFINE s == [shells[n] EXCEPT !.shell = FALSE, !.left = shells[n].child]
  <2>1. shells' = [shells EXCEPT ![n] = s]
    BY <1>4
  <2>2. CommandOK(s, shellCalls[n], buffers[n], kills[n])
    BY <1>0, <1>4 DEF CommandOK, Commanded, Called, Drained, Kept, Behind, CallFits, BufferFits,
                      KillFits, Over
  <2> HIDE DEF s
  <2> QED
    BY <1>1, <2>1, <2>2, OneCommand
<1>5. CASE Shell!Exit(n) /\ shells[n].child /\ shells' = [shells EXCEPT ![n].child = FALSE]
  <2> DEFINE s == [shells[n] EXCEPT !.child = FALSE]
  <2>1. shells' = [shells EXCEPT ![n] = s]
    BY <1>5
  <2>2. CommandOK(s, shellCalls[n], buffers[n], kills[n])
    BY <1>0, <1>5 DEF CommandOK, Commanded, Called, Drained, Kept, Behind, CallFits, BufferFits,
                      KillFits, Over
  <2> HIDE DEF s
  <2> QED
    BY <1>1, <2>1, <2>2, OneCommand
<1> QED
  BY <1>2, <1>3, <1>4, <1>5 DEF Shell!Exit

LEMMA CallRuns ==
  ASSUME Shell!ShellAssumption, ShellInv, NEW n \in Shell!Ids, NEW result \in {"timeout", "cancelled"},
         Shell!Communicates(n) \/ Shell!GivesUp(n, result) \/ Shell!Ends(n)
  PROVE  ShellInv'
<1>0. /\ CommandOK(shells[n], shellCalls[n], buffers[n], kills[n])
      /\ shells = [shells EXCEPT ![n] = shells[n]]
      /\ buffers = [buffers EXCEPT ![n] = buffers[n]] /\ kills = [kills EXCEPT ![n] = kills[n]]
  BY CommandNow
<1>1. buffers' = [buffers EXCEPT ![n] = buffers[n]] /\ kills' = [kills EXCEPT ![n] = kills[n]]
  BY <1>0 DEF Shell!Communicates, Shell!GivesUp, Shell!Ends
<1>6. /\ shells[n] \in Commanded /\ shells[n].written \in Nat /\ shellCalls[n] \in Called /\ Cap \in Nat
      /\ shellCalls[n].step \in {"waiting", "ending", "over"} /\ shells[n].kind \in {"front", "back"}
  BY <1>0 DEF CommandOK, Commanded, Called, Shell!ShellAssumption
<1>2. CASE Shell!Communicates(n)
  <2> DEFINE s == [shells[n] EXCEPT !.pipe = 0]
             got == IF shells[n].written <= Cap THEN shells[n].written ELSE Cap
             c == [step |-> "ending", result |-> "output", got |-> got]
  <2>1. shells' = [shells EXCEPT ![n] = s] /\ shellCalls' = [shellCalls EXCEPT ![n] = c]
    BY <1>2 DEF Shell!Communicates
  <2>2. Over(shells[n]) /\ shellCalls[n].step = "waiting"
    BY <1>2 DEF Shell!Communicates, Shell!AtEnd, Over
  <2>3. got \in Nat /\ (got = shells[n].written \/ (got = Cap /\ shells[n].written > Cap))
    BY <1>6
  <2> HIDE DEF got
  <2>4. c \in Called /\ c.step = "ending" /\ c.result = "output" /\ c.got = got
    BY <2>3 DEF Called
  <2>5. s \in Commanded /\ s.kind = shells[n].kind /\ s.shell = shells[n].shell /\ s.child = shells[n].child
        /\ s.left = shells[n].left /\ s.written = shells[n].written /\ s.pipe = 0
    BY <1>6 DEF Commanded
  <2> HIDE DEF s, c
  <2>6. shells[n].kind = "front"
    BY <1>0, <1>6, <2>2 DEF CommandOK, CallFits
  <2>7. CallFits(s, c)
    BY <2>2, <2>3, <2>4, <2>5, <2>6 DEF CallFits, Over
  <2>8. BufferFits(s, buffers[n], kills[n])
    BY <1>0, <1>6, <2>5, <2>6 DEF CommandOK, BufferFits
  <2>9. CommandOK(s, c, buffers[n], kills[n])
    BY <1>0, <2>4, <2>5, <2>7, <2>8 DEF CommandOK, Behind, KillFits
  <2> QED
    BY <1>1, <2>1, <2>9, OneCommand
<1>3. CASE Shell!GivesUp(n, result)
  <2> DEFINE c == [shellCalls[n] EXCEPT !.step = "ending", !.result = result]
  <2>1. shells' = [shells EXCEPT ![n] = shells[n]] /\ shellCalls' = [shellCalls EXCEPT ![n] = c] /\
          shellCalls[n].step = "waiting"
    BY <1>0, <1>3 DEF Shell!GivesUp
  <2>2. c \in Called /\ c.step = "ending" /\ c.result = result
    BY <1>6 DEF Called
  <2> HIDE DEF c
  <2>3. CommandOK(shells[n], c, buffers[n], kills[n])
    BY <1>0, <1>6, <2>1, <2>2 DEF CommandOK, CallFits
  <2> QED
    BY <1>1, <2>1, <2>3, OneCommand
<1>4. CASE Shell!Ends(n)
  <2> DEFINE c == [shellCalls[n] EXCEPT !.step = "over"]
  <2>1. PICK s \in Commanded :
          /\ Shell!KillGroup(n) = [shells EXCEPT ![n] = s]
          /\ ~s.shell /\ Behind(s) /\ s.kind = shells[n].kind
          /\ s.pipe = shells[n].pipe /\ s.written = shells[n].written
          /\ (Over(shells[n]) => Over(s))
    BY GroupKilled
  <2>2. shells' = [shells EXCEPT ![n] = s] /\ shellCalls' = [shellCalls EXCEPT ![n] = c] /\
          shellCalls[n].step = "ending"
    BY <1>4, <2>1 DEF Shell!Ends
  <2>3. c \in Called /\ c.step = "over" /\ c.result = shellCalls[n].result /\ c.got = shellCalls[n].got
    BY <1>6 DEF Called
  <2> HIDE DEF c
  <2>4. CallFits(s, c)
    BY <1>0, <1>6, <2>1, <2>2, <2>3 DEF CommandOK, CallFits
  <2>5. BufferFits(s, buffers[n], kills[n])
    BY <1>0, <2>1 DEF CommandOK, BufferFits
  <2>6. CommandOK(s, c, buffers[n], kills[n])
    BY <1>0, <2>1, <2>3, <2>4, <2>5 DEF CommandOK, KillFits
  <2> QED
    BY <1>1, <2>2, <2>6, OneCommand
<1> QED
  BY <1>2, <1>3, <1>4

LEMMA BackgroundRuns ==
  ASSUME Shell!ShellAssumption, ShellInv, NEW n \in Shell!Ids, Shell!Drain(n) \/ Shell!ReadOutput(n) \/
           Shell!Kill(n) \/ Shell!Killed(n)
  PROVE  ShellInv'
<1>0. /\ CommandOK(shells[n], shellCalls[n], buffers[n], kills[n])
      /\ shells = [shells EXCEPT ![n] = shells[n]] /\ shellCalls = [shellCalls EXCEPT ![n] = shellCalls[n]]
      /\ buffers = [buffers EXCEPT ![n] = buffers[n]] /\ kills = [kills EXCEPT ![n] = kills[n]]
  BY CommandNow
<1>1. shellCalls' = [shellCalls EXCEPT ![n] = shellCalls[n]]
  BY <1>0 DEF Shell!Drain, Shell!ReadOutput, Shell!Kill, Shell!Killed
<1>2. /\ shells[n] \in Commanded /\ shells[n].written \in Nat /\ shells[n].pipe \in Nat
      /\ shells[n].kind \in {"front", "back"} /\ buffers[n] \in Drained /\ buffers[n].buf \in Nat
      /\ buffers[n].read \in Nat /\ buffers[n].told \in Nat /\ buffers[n].cut \in Nat /\ Cap \in Nat
      /\ shellCalls[n] \in Called
  BY <1>0 DEF CommandOK, Commanded, Drained, Shell!ShellAssumption
<1>3. CASE Shell!Drain(n) /\ shells[n].pipe > 0 /\ shells' = [shells EXCEPT ![n].pipe = 0]
           /\ buffers' = [buffers EXCEPT ![n].buf = @ + shells[n].pipe]
  <2> DEFINE s == [shells[n] EXCEPT !.pipe = 0]
             b == [buffers[n] EXCEPT !.buf = @ + shells[n].pipe]
  <2>1. shells' = [shells EXCEPT ![n] = s] /\ buffers' = [buffers EXCEPT ![n] = b]
        /\ kills' = [kills EXCEPT ![n] = kills[n]] /\ buffers[n].drains
    BY <1>0, <1>3 DEF Shell!Drain
  <2>2. s \in Commanded /\ s.kind = shells[n].kind /\ s.shell = shells[n].shell /\ s.child = shells[n].child
        /\ s.left = shells[n].left /\ s.written = shells[n].written /\ s.pipe = 0
    BY <1>2 DEF Commanded
  <2>3. buffers[n].buf + shells[n].pipe \in Nat
    BY <1>2
  <2>4. b \in Drained /\ b.buf = buffers[n].buf + shells[n].pipe /\ b.read = buffers[n].read
        /\ b.told = buffers[n].told /\ b.cut = buffers[n].cut /\ b.drains = buffers[n].drains
    BY <1>2, <2>3 DEF Drained
  <2> HIDE DEF s, b
  <2>5. CallFits(s, shellCalls[n]) /\ Behind(s) /\ KillFits(s, kills[n])
    BY <1>0, <2>2 DEF CommandOK, CallFits, Behind, KillFits, Over
  <2>6. BufferFits(s, b, kills[n])
    BY <1>0, <1>2, <2>1, <2>2, <2>4 DEF CommandOK, BufferFits
  <2>7. CommandOK(s, shellCalls[n], b, kills[n])
    BY <1>0, <2>2, <2>4, <2>5, <2>6 DEF CommandOK
  <2> QED
    BY <1>1, <2>1, <2>7, OneCommand
<1>4. CASE Shell!Drain(n) /\ shells[n].pipe = 0 /\ Shell!AtEnd(n) /\
             buffers' = [buffers EXCEPT ![n].drains = FALSE]
           /\ UNCHANGED shells
  <2> DEFINE b == [buffers[n] EXCEPT !.drains = FALSE]
  <2>1. shells' = [shells EXCEPT ![n] = shells[n]] /\ buffers' = [buffers EXCEPT ![n] = b]
        /\ kills' = [kills EXCEPT ![n] = kills[n]]
    BY <1>0, <1>4 DEF Shell!Drain
  <2>2. b \in Drained /\ b.buf = buffers[n].buf /\ b.read = buffers[n].read
        /\ b.told = buffers[n].told /\ b.cut = buffers[n].cut /\ b.drains = FALSE
    BY <1>2 DEF Drained
  <2> HIDE DEF b
  <2>3. BufferFits(shells[n], b, kills[n])
    BY <1>0, <1>2, <1>4, <2>2 DEF CommandOK, BufferFits, Shell!AtEnd, Over
  <2>4. CommandOK(shells[n], shellCalls[n], b, kills[n])
    BY <1>0, <2>2, <2>3 DEF CommandOK
  <2> QED
    BY <1>1, <2>1, <2>4, OneCommand
<1>5. CASE Shell!ReadOutput(n)
  <2> DEFINE new == buffers[n].buf - buffers[n].read
             seen == IF new <= Cap THEN new ELSE Cap
             b == [buffers[n] EXCEPT !.read = buffers[n].buf, !.told = @ + seen, !.cut = @ + new - seen]
  <2>1. shells' = [shells EXCEPT ![n] = shells[n]] /\ buffers' = [buffers EXCEPT ![n] = b]
        /\ kills' = [kills EXCEPT ![n] = kills[n]]
    BY <1>0, <1>5 DEF Shell!ReadOutput
  <2>2. new \in Nat /\ seen \in Nat /\ seen <= new
    BY <1>0, <1>2 DEF CommandOK, BufferFits
  <2>3. buffers[n].read + new = buffers[n].buf
    BY <1>2
  <2> HIDE DEF new, seen
  <2>4. buffers[n].told + seen \in Nat /\ buffers[n].cut + new - seen \in Nat
    BY <1>2, <2>2
  <2>5. b \in Drained /\ b.buf = buffers[n].buf /\ b.read = buffers[n].buf
        /\ b.told = buffers[n].told + seen /\ b.cut = buffers[n].cut + new - seen
        /\ b.drains = buffers[n].drains
    BY <1>2, <2>4 DEF Drained
  <2> HIDE DEF b
  <2>6. BufferFits(shells[n], b, kills[n])
    BY <1>0, <1>2, <2>2, <2>3, <2>5 DEF CommandOK, BufferFits
  <2>7. CommandOK(shells[n], shellCalls[n], b, kills[n])
    BY <1>0, <2>5, <2>6 DEF CommandOK
  <2> QED
    BY <1>1, <2>1, <2>7, OneCommand
<1>6. CASE Shell!Kill(n)
  <2>1. PICK s \in Commanded :
          /\ Shell!KillGroup(n) = [shells EXCEPT ![n] = s]
          /\ ~s.shell /\ Behind(s) /\ s.kind = shells[n].kind
          /\ s.pipe = shells[n].pipe /\ s.written = shells[n].written
          /\ (Over(shells[n]) => Over(s))
    BY GroupKilled
  <2>2. shells' = [shells EXCEPT ![n] = s] /\ buffers' = [buffers EXCEPT ![n] = buffers[n]]
        /\ kills' = [kills EXCEPT ![n] = "killing"] /\ kills[n] = "no"
    BY <1>0, <1>6, <2>1 DEF Shell!Kill
  <2>3. CallFits(s, shellCalls[n])
    BY <1>0, <2>1 DEF CommandOK, CallFits
  <2>4. BufferFits(s, buffers[n], "killing")
    BY <1>0, <2>1, <2>2 DEF CommandOK, BufferFits
  <2>5. CommandOK(s, shellCalls[n], buffers[n], "killing")
    BY <1>0, <2>1, <2>3, <2>4 DEF CommandOK, KillFits, Kept
  <2> QED
    BY <1>1, <2>2, <2>5, OneCommand
<1>7. CASE Shell!Killed(n)
  <2> DEFINE b == [buffers[n] EXCEPT !.drains = FALSE]
  <2>1. shells' = [shells EXCEPT ![n] = shells[n]] /\ buffers' = [buffers EXCEPT ![n] = b]
        /\ kills' = [kills EXCEPT ![n] = "killed"] /\ ~shells[n].shell
    BY <1>0, <1>7 DEF Shell!Killed
  <2>2. b \in Drained /\ b.buf = buffers[n].buf /\ b.read = buffers[n].read
        /\ b.told = buffers[n].told /\ b.cut = buffers[n].cut /\ b.drains = FALSE
    BY <1>2 DEF Drained
  <2> HIDE DEF b
  <2>3. BufferFits(shells[n], b, "killed")
    BY <1>0, <1>2, <2>2 DEF CommandOK, BufferFits
  <2>4. CommandOK(shells[n], shellCalls[n], b, "killed")
    BY <1>0, <2>1, <2>2, <2>3 DEF CommandOK, KillFits, Kept
  <2> QED
    BY <1>1, <2>1, <2>4, OneCommand
<1> QED
  BY <1>3, <1>4, <1>5, <1>6, <1>7 DEF Shell!Drain

LEMMA ShellStep ==
  ASSUME Shell!ShellAssumption, ShellInv, [Shell!ShellNext]_Shell!shellVars
  PROVE  ShellInv'
<1>1. CASE UNCHANGED Shell!shellVars
  BY <1>1 DEF Shell!shellVars, ShellInv, SameCommands, Shell!Ids
<1>2. CASE Shell!ShellNext
  BY <1>2, CommandStarts, CommandRuns, CallRuns, BackgroundRuns DEF Shell!ShellNext
<1> QED
  BY <1>1, <1>2

\* Each part that is of no list, and has to be asked about, has one with the same prefix among
\* those that are first.
LEMMA FirstIsAsked ==
  ASSUME NEW cmd \in Shell!Commands, NEW p \in Shell!PartsOf(cmd), ~p.listed, p.kind # "sensitive"
  PROVE  \E r \in Shell!Required(cmd) : r[1] = "prefix" /\ r[2] = p.pattern
<1>1. PICK n \in 1..MaxParts : cmd \in [1..n -> Shell!Parts]
  BY DEF Shell!Commands
<1>2. DOMAIN cmd = 1..n
  BY <1>1
<1>3. PICK i \in DOMAIN cmd : p = cmd[i]
  BY DEF Shell!PartsOf
<1> DEFINE S == {j \in 1..n : ~cmd[j].listed /\ cmd[j].kind # "sensitive" /\ cmd[j].pattern = p.pattern}
<1>4. S \subseteq Nat /\ S # {}
  BY <1>2, <1>3
<1> HIDE DEF S
<1>5. PICK j \in S : \A k \in S : j <= k
  BY <1>4, NatLeast
<1> USE DEF S
<1>6. j \in DOMAIN cmd /\ ~cmd[j].listed /\ cmd[j].kind # "sensitive" /\ cmd[j].pattern = p.pattern
  BY <1>2, <1>5
<1>7. ASSUME NEW k \in 1..j - 1
      PROVE  cmd[k].kind = "sensitive" \/ cmd[k].listed \/ cmd[k].pattern # cmd[j].pattern
  BY <1>2, <1>5, <1>6
<1>8. Shell!AsPrefix(cmd[j]) \in Shell!Required(cmd)
  BY <1>6, <1>7 DEF Shell!FirstOf, Shell!Required
<1>9. Shell!AsPrefix(cmd[j])[1] = "prefix" /\ Shell!AsPrefix(cmd[j])[2] = cmd[j].pattern
  BY DEF Shell!AsPrefix
<1> QED
  BY <1>6, <1>8, <1>9

\* What is asked for has the form of a rule and of what it is about.
Formed(r) ==
  \/ r[1] = "exact" /\ r[2] = r[3]
  \/ r[1] = "prefix" /\ r[2] = r[3].pattern
  \/ r[1] = "outside" /\ r[2] = r[3]

LEMMA AskedIsFormed ==
  ASSUME NEW cmd
  PROVE  \A r \in Shell!ResolvePermission(cmd).required : Formed(r)
<1>1. \A p : Formed(Shell!Exactly(p)) /\ Formed(Shell!AsPrefix(p)) /\ Formed(Shell!Outside(p))
  BY DEF Formed, Shell!Exactly, Shell!AsPrefix, Shell!Outside
<1>2. \A r \in Shell!Required(cmd) \cup Shell!Guarded(cmd) : Formed(r)
  BY <1>1 DEF Shell!Required, Shell!Guarded
<1>3. Shell!Said("never", {}).required = {} /\ Shell!Said("always", {}).required = {} /\
        Shell!Said("none", {}).required = {}
      /\ Shell!Said("ask", Shell!Required(cmd) \cup Shell!Guarded(cmd)).required = Shell!Required(cmd) \cup Shell!Guarded(cmd)
  BY DEF Shell!Said
<1> QED
  BY <1>2, <1>3 DEF Shell!ResolvePermission

\* The four answers, and when each is given.
LEMMA AnswerGiven ==
  ASSUME NEW cmd
  PROVE  /\ Shell!ResolvePermission(cmd).permission \in {"none", "never", "always", "ask"}
         /\ Shell!ResolvePermission(cmd).permission = "never" <=> Shell!Denied(cmd)
         /\ Shell!ResolvePermission(cmd).permission = "always" => Shell!UnconditionallyAllowed(cmd) /\
              Shell!Guarded(cmd) = {}
         /\ Shell!ResolvePermission(cmd).permission = "ask" =>
              Shell!ResolvePermission(cmd).required = Shell!Required(cmd) \cup Shell!Guarded(cmd)
         /\ Shell!ResolvePermission(cmd).permission = "none" =>
              /\ ~(Shell!UnconditionallyAllowed(cmd) /\ Shell!Guarded(cmd) = {})
              /\ Shell!Required(cmd) \cup Shell!Guarded(cmd) = {}
<1>1. \A x, y : Shell!Said(x, y).permission = x /\ Shell!Said(x, y).required = y
  BY DEF Shell!Said
<1> QED
  BY <1>1 DEF Shell!ResolvePermission

LEMMA PartsCovered ==
  ASSUME command \in Shell!Commands, permissionAnswer = Shell!ResolvePermission(command)
  PROVE  Shell!EveryPartCovered
<1> DEFINE cmd == command
<1>1. \A p : Shell!PartsOf(<<p>>) = {p}
  BY DEF Shell!PartsOf
<1>2. permissionAnswer.permission = "never" <=> \E p \in Shell!PartsOf(cmd) : Shell!ResolvePermission(<<p>>).permission = "never"
  <2>1. \A p : Shell!Denied(<<p>>) <=> p.kind \in {"denied", "alone"}
    BY <1>1 DEF Shell!Denied
  <2>2. \A p : Shell!ResolvePermission(<<p>>).permission = "never" <=> Shell!Denied(<<p>>)
    BY AnswerGiven
  <2>3. permissionAnswer.permission = "never" <=> Shell!Denied(cmd)
    BY AnswerGiven
  <2> QED
    BY <2>1, <2>2, <2>3 DEF Shell!Denied
<1>3. ASSUME permissionAnswer.permission = "ask", NEW p \in Shell!PartsOf(cmd), NEW need \in Shell!Needs(p)
      PROVE  \E r \in permissionAnswer.required : r[1] = need[1] /\ r[2] = need[2]
  <2>1. permissionAnswer.required = Shell!Required(cmd) \cup Shell!Guarded(cmd)
    BY <1>3, AnswerGiven
  <2>2. CASE p.kind = "sensitive" /\ need = Shell!Exactly(p)
    BY <2>1, <2>2 DEF Shell!Required, Shell!PartsOf
  <2>3. CASE p.kind = "find" /\ need = Shell!Exactly(p)
    BY <2>1, <2>3 DEF Shell!Guarded
  <2>4. CASE p.kind # "sensitive" /\ ~p.listed /\ need = Shell!AsPrefix(p)
    BY <2>1, <2>4, FirstIsAsked DEF Shell!AsPrefix
  <2>5. CASE p.dir # "inside" /\ need = Shell!Outside(p.dir)
    BY <2>1, <2>5 DEF Shell!Required, Shell!OutsideDirs
  <2> QED
    BY <1>3, <2>2, <2>3, <2>4, <2>5 DEF Shell!Needs
<1>4. ASSUME permissionAnswer.permission = "always", ~always, NEW p \in Shell!PartsOf(cmd)
      PROVE  Shell!Needs(p) = {}
  BY <1>4, AnswerGiven DEF Shell!UnconditionallyAllowed, Shell!OutsideDirs, Shell!Guarded,
                           Shell!Needs
<1>5. permissionAnswer.permission # "none"
  <2>1. ASSUME permissionAnswer.permission = "none" PROVE FALSE
    <3>1. ~Shell!UnconditionallyAllowed(cmd) /\ Shell!Required(cmd) = {}
      BY <2>1, AnswerGiven
    <3>2. \A p \in Shell!PartsOf(cmd) : p.kind # "sensitive"
      BY <3>1 DEF Shell!Required, Shell!PartsOf
    <3>3. \A p \in Shell!PartsOf(cmd) : p.listed
      BY <3>1, <3>2, FirstIsAsked
    <3>4. Shell!OutsideDirs(cmd) = {}
      BY <3>1 DEF Shell!Required
    <3> QED
      BY <3>1, <3>2, <3>3, <3>4 DEF Shell!UnconditionallyAllowed
  <2> QED
    BY <2>1
<1> QED
  BY <1>2, <1>3, <1>4, <1>5 DEF Shell!EveryPartCovered

RulesOf(required) == {<<r[1], r[2]>> : r \in required}

PermissionInv ==
  /\ command \in Shell!Commands /\ always \in BOOLEAN
  /\ permissionAnswer = Shell!NotYet \/ permissionAnswer = Shell!ResolvePermission(command)
  /\ grantedRules = {} \/ grantedRules = RulesOf(permissionAnswer.required)

LEMMA PermissionStarts ==
  ASSUME Shell!PermissionInit
  PROVE  PermissionInv
BY DEF Shell!PermissionInit, PermissionInv

LEMMA PermissionStep ==
  ASSUME PermissionInv, [Shell!PermissionNext]_Shell!commandVars
  PROVE  PermissionInv'
<1>1. CASE UNCHANGED Shell!commandVars
  <2>1. Shell!ResolvePermission(command)' = Shell!ResolvePermission(command) /\ UNCHANGED Shell!commandVars
    BY <1>1 DEF Shell!commandVars, Shell!ResolvePermission, Shell!Denied, Shell!PartsOf,
                Shell!UnconditionallyAllowed, Shell!Guarded, Shell!OutsideDirs,
                Shell!Required, Shell!FirstOf
  <2> QED
    BY <2>1 DEF Shell!commandVars, PermissionInv
<1>2. CASE Shell!Resolve
  <2>1. Shell!ResolvePermission(command)' = Shell!ResolvePermission(command)
    BY <1>2 DEF Shell!Resolve, Shell!ResolvePermission, Shell!Denied, Shell!PartsOf,
                Shell!UnconditionallyAllowed, Shell!Guarded, Shell!OutsideDirs,
                Shell!Required, Shell!FirstOf
  <2>2. Shell!NotYet.required = {}
    BY DEF Shell!NotYet, Shell!Said
  <2>3. grantedRules = {}
    BY <1>2, <2>2 DEF Shell!Resolve, PermissionInv, RulesOf
  <2> QED
    BY <1>2, <2>1, <2>3 DEF Shell!Resolve, PermissionInv
<1>3. CASE Shell!Grant
  <2>1. Shell!ResolvePermission(command)' = Shell!ResolvePermission(command)
    BY <1>3 DEF Shell!Grant, Shell!ResolvePermission, Shell!Denied, Shell!PartsOf,
                Shell!UnconditionallyAllowed, Shell!Guarded, Shell!OutsideDirs,
                Shell!Required, Shell!FirstOf
  <2>2. grantedRules' = grantedRules \cup RulesOf(Shell!Uncovered) /\
          Shell!Uncovered \subseteq permissionAnswer.required
    BY <1>3 DEF Shell!Grant, RulesOf, Shell!Uncovered
  <2>3. grantedRules' = RulesOf(permissionAnswer.required)
    BY <2>2 DEF Shell!Uncovered, RulesOf, PermissionInv
  <2> QED
    BY <1>3, <2>1, <2>3 DEF Shell!Grant, PermissionInv
<1> QED
  BY <1>1, <1>2, <1>3 DEF Shell!PermissionNext

LEMMA PermissionImplies ==
  ASSUME PermissionInv
  PROVE  Shell!PermissionTypeOK /\ Shell!PermissionSafe
<1>1. \A r \in permissionAnswer.required : Formed(r)
  BY AskedIsFormed DEF Shell!NotYet, Shell!Said, PermissionInv
<1>2. Shell!PermissionTypeOK
  BY AnswerGiven DEF PermissionInv, Shell!PermissionTypeOK, Shell!NotYet, Shell!Said
<1>3. Shell!EveryPartCovered
  BY PartsCovered DEF Shell!EveryPartCovered, PermissionInv
<1>4. Shell!GrantsMatch
  <2>1. ASSUME grantedRules # {}, NEW r \in Shell!Uncovered
        PROVE  r[1] = "exact" /\ ~r[3].literal
    <3> DEFINE rule == <<r[1], r[2]>>
    <3>1. r \in permissionAnswer.required /\ rule \in grantedRules /\ rule[1] = r[1] /\ rule[2] = r[2]
      BY <2>1 DEF PermissionInv, RulesOf, Shell!Uncovered
    <3> HIDE DEF rule
    <3>2. ~Shell!Matches(rule, r) /\ Formed(r)
      BY <1>1, <2>1, <3>1 DEF Shell!Uncovered
    <3> QED
      BY <3>1, <3>2 DEF Shell!Matches, Formed
  <2> QED
    BY <2>1 DEF Shell!GrantsMatch
<1>5. Shell!FilesResolved
  BY DEF Shell!FilesResolved, Shell!Files, Shell!ResolveFile
<1> QED
  BY <1>2, <1>3, <1>4, <1>5 DEF Shell!PermissionSafe

-----------------------------------------------------------------------------
(* A form of questions. QuestionInv: the cursor is on an option, what is   *)
(* answered was confirmed, and what is on the screen is the question that  *)
(* is asked.                                                               *)

\* Where the cursor of a question can be, and what can be ticked there.
CursorPlaces(q) == IF q \in Multi THEN IF q \in WithoutOther THEN -1..2 ELSE 0..3 ELSE IF q \in WithoutOther THEN 0..1 ELSE 0..2
Ticks(q) == IF q \in Multi THEN IF q \in WithoutOther THEN -1..1 ELSE 0..2 ELSE {}

Forms == [index : Question!Questions, cursor : -1..3, answers : [Question!Questions -> Question!Answer],
          picked : [Question!Questions -> SUBSET (-1..2)], texts : [Question!Questions -> BOOLEAN]]
Fields == [text : BOOLEAN, focus : BOOLEAN, wanted : BOOLEAN, inbox : Seq({"changed", "submitted"})]

\* The cursor is at an option of its question, ticks are options, and only a question that
\* has "other" is answered with a text.
FormOK(f) ==
  /\ f \in Forms /\ f.cursor \in CursorPlaces(f.index)
  /\ \A q \in Question!Questions : f.picked[q] \subseteq Ticks(q) /\ (f.answers[q].other =>
                                                                      q \notin WithoutOther)

AnswersKnown(f, c) ==
  \A q \in Question!Questions :
    f.answers[q] # Question!Unanswered => f.answers[q] \in c.shown[q] \/
      q \in c.misread \intersect Multi \intersect WithoutOther

Confirmations == [shown : [Question!Questions -> SUBSET Question!Answer],
                  misread : SUBSET Question!Questions]

QuestionInv ==
  /\ FormOK(form) /\ field \in Fields /\ sentForm \in {"none", "cancelled", "answers"} /\
       formKeys \in 0..MaxFormKeys
  /\ confirmed \in Confirmations /\ AnswersKnown(form, confirmed)
  /\ sentForm = "answers" => \A q \in Question!Questions : form.answers[q] # Question!Unanswered

LEMMA QuestionImplies ==
  ASSUME Question!QuestionAssumption, QuestionInv
  PROVE  Question!TypeOK /\ Question!QuestionSafe
<1>1. Question!TypeOK
  BY DEF QuestionInv, FormOK, Forms, Fields, Question!TypeOK
<1>2. Question!QuestionSafe
  BY DEF QuestionInv, AnswersKnown, Question!QuestionSafe
<1> QED
  BY <1>1, <1>2

LEMMA QuestionInit ==
  ASSUME Question!QuestionAssumption, Question!Init
  PROVE  QuestionInv
<1> USE DEF Question!QuestionAssumption, Question!Init
<1>1. 1 \in Question!Questions /\ Question!Unanswered \in Question!Answer
  BY DEF Question!Questions, Question!Unanswered, Question!Answer
<1>2. /\ [q \in Question!Questions |-> Question!Unanswered] \in [Question!Questions -> Question!Answer]
      /\ [q \in Question!Questions |-> {}] \in [Question!Questions -> SUBSET (-1..2)]
      /\ [q \in Question!Questions |-> FALSE] \in [Question!Questions -> BOOLEAN]
      /\ [q \in Question!Questions |-> {}] \in [Question!Questions -> SUBSET Question!Answer]
  BY <1>1
<1>3. form \in Forms /\ confirmed \in Confirmations
  BY <1>1, <1>2 DEF Forms, Confirmations
<1>4. form.cursor \in CursorPlaces(form.index)
  BY DEF CursorPlaces
<1>5. \A q \in Question!Questions : form.picked[q] = {} /\ form.answers[q] = Question!Unanswered
  OBVIOUS
<1>6. FormOK(form)
  BY <1>3, <1>4, <1>5 DEF FormOK, Question!Unanswered
<1>7. AnswersKnown(form, confirmed)
  BY <1>5 DEF AnswersKnown
<1>8. field \in Fields /\ sentForm = "none" /\ formKeys \in 0..MaxFormKeys
  BY DEF Fields
<1> QED
  BY <1>3, <1>6, <1>7, <1>8 DEF QuestionInv

LEMMA SmallestIn ==
  ASSUME NEW S, S \subseteq -1..2, S # {}
  PROVE  Question!Smallest(S) \in S
<1>1. \E i \in S : \A j \in S : i <= j
  <2>1. CASE -1 \in S
    BY <2>1
  <2>2. CASE -1 \notin S /\ 0 \in S
    BY <2>2
  <2>3. CASE -1 \notin S /\ 0 \notin S /\ 1 \in S
    BY <2>3
  <2>4. CASE -1 \notin S /\ 0 \notin S /\ 1 \notin S
    <3>1. \A j \in S : j = 2
      BY <2>4
    <3>2. 2 \in S
      BY <3>1
    <3> QED
      BY <3>1, <3>2
  <2> QED
    BY <2>1, <2>2, <2>3, <2>4
<1> QED
  BY <1>1 DEF Question!Smallest

LEMMA SmallestQuestion ==
  ASSUME Question!QuestionAssumption, NEW S, S \subseteq Question!Questions, S # {}
  PROVE  Question!Smallest(S) \in S
<1>1. S \subseteq Nat
  BY DEF Question!Questions, Question!QuestionAssumption
<1>2. \E n \in S : \A m \in S : n <= m
  BY <1>1, NatLeast
<1> QED
  BY <1>2 DEF Question!Smallest

\* The question that is switched to.
LEMMA SwitchedOK ==
  ASSUME Question!QuestionAssumption, NEW f, FormOK(f), NEW q \in Question!Questions
  PROVE  FormOK(Question!Switched(f, q)) /\ Question!Switched(f, q).answers = f.answers
<1> DEFINE c == Question!Cursor(f, q)
<1>1. c \in CursorPlaces(q)
  <2>1. f.picked[q] \subseteq Ticks(q) /\ f.answers[q] \in Question!Answer
    BY DEF FormOK, Forms
  <2>2. CASE q \in Multi
    <3>1. f.picked[q] # {} => Question!Smallest(f.picked[q]) \in f.picked[q]
      BY <2>1, SmallestIn DEF Ticks
    <3> QED
      BY <2>1, <2>2, <3>1 DEF Question!Cursor, CursorPlaces, Ticks
  <2>3. CASE q \notin Multi
    <3>1. f.answers[q].options # {} => Question!Smallest(f.answers[q].options) \in f.answers[q].options
      BY <2>1, SmallestIn DEF Question!Answer, Question!Options
    <3>2. f.answers[q].options \subseteq 0..1 /\ (f.answers[q].other => q \notin WithoutOther)
      BY <2>1 DEF FormOK, Question!Answer, Question!Options
    <3> QED
      BY <2>3, <3>1, <3>2 DEF Question!Cursor, CursorPlaces
  <2> QED
    BY <2>2, <2>3
<1>2. c \in -1..3
  BY <1>1 DEF CursorPlaces
<1> HIDE DEF c
<1> DEFINE g == [f EXCEPT !.index = q, !.cursor = c]
<1>3. g \in Forms /\ g.index = q /\ g.cursor = c /\ g.answers = f.answers /\ g.picked = f.picked
  BY <1>2 DEF FormOK, Forms
<1>4. Question!Switched(f, q) = g
  BY DEF Question!Switched, c
<1> HIDE DEF g
<1> QED
  BY <1>1, <1>3, <1>4 DEF FormOK

\* The answer that the form would save.
LEMMA ChosenOK ==
  ASSUME Question!QuestionAssumption, NEW f, FormOK(f)
  PROVE  Question!Chosen(f) \in Question!Answer /\ (Question!Chosen(f).other => f.index \notin WithoutOther)
<1> DEFINE q == f.index
<1>1. q \in Question!Questions /\ f.cursor \in CursorPlaces(q) /\ f.picked[q] \subseteq Ticks(q) /\
        f.texts[q] \in BOOLEAN
  BY DEF FormOK, Forms
<1>2. CASE q \in Multi
  <2> DEFINE o == {IF i = -1 THEN 1 ELSE i : i \in f.picked[q] \intersect -1..1}
  <2>1. o \subseteq 0..1
    OBVIOUS
  <2> HIDE DEF o
  <2>2. Question!Chosen(f) = [options |-> o, other |-> 2 \in f.picked[q] /\ f.texts[q]]
    BY <1>2 DEF Question!Chosen, o
  <2>3. 2 \in f.picked[q] => q \notin WithoutOther
    BY <1>1, <1>2 DEF Ticks
  <2> DEFINE b == 2 \in f.picked[q] /\ f.texts[q]
  <2>4. b \in BOOLEAN /\ (b => q \notin WithoutOther)
    BY <2>3
  <2>5. Question!Chosen(f) = [options |-> o, other |-> b]
    BY <2>2
  <2> HIDE DEF b
  <2> QED
    BY <2>1, <2>4, <2>5 DEF Question!Answer, Question!Options
<1>3. CASE q \notin Multi
  <2>1. Question!Chosen(f) = [options |-> IF Question!OnOther(f) THEN {} ELSE {f.cursor},
                              other |-> Question!OnOther(f) /\ f.texts[q]]
    BY <1>3 DEF Question!Chosen
  <2>2. Question!OnOther(f) \in BOOLEAN /\ (Question!OnOther(f) => q \notin WithoutOther)
    BY DEF Question!OnOther
  <2>3. ~Question!OnOther(f) => f.cursor \in 0..1
    BY <1>1, <1>3 DEF Question!OnOther, Question!OtherOf, CursorPlaces
  <2> HIDE DEF q
  <2>4. (IF Question!OnOther(f) THEN {} ELSE {f.cursor}) \subseteq Question!Options
    BY <2>3 DEF Question!Options
  <2> QED
    BY <2>1, <2>2, <2>4 DEF Question!Answer, q
<1> QED
  BY <1>2, <1>3

LEMMA SavedOK ==
  ASSUME Question!QuestionAssumption, NEW f, FormOK(f)
  PROVE  /\ FormOK(Question!Saved(f)) /\ Question!Saved(f).index = f.index
         /\ \A q \in Question!Questions : Question!Saved(f).answers[q] =
              IF q = f.index /\ Question!Chosen(f) # Question!Unanswered THEN Question!Chosen(f) ELSE f.answers[q]
<1>1. Question!Chosen(f) \in Question!Answer /\ (Question!Chosen(f).other =>
                                                 f.index \notin WithoutOther) /\ f \in Forms /\
                                                   f.index \in Question!Questions
  BY ChosenOK DEF FormOK, Forms
<1>2. CASE Question!Chosen(f) = Question!Unanswered
  BY <1>2 DEF Question!Saved
<1>3. CASE Question!Chosen(f) # Question!Unanswered
  <2> DEFINE g == [f EXCEPT !.answers[f.index] = Question!Chosen(f)]
  <2>1. /\ g.index = f.index /\ g.cursor = f.cursor /\ g.picked = f.picked /\ g.texts = f.texts
        /\ g.answers = [f.answers EXCEPT ![f.index] = Question!Chosen(f)] /\ g \in Forms
    BY <1>1 DEF Forms
  <2>2. Question!Saved(f) = g
    BY <1>3 DEF Question!Saved
  <2> HIDE DEF g
  <2>3. \A q \in Question!Questions : g.answers[q] = IF q = f.index THEN Question!Chosen(f) ELSE f.answers[q]
    BY <1>1, <2>1 DEF Forms
  <2>4. FormOK(g)
    BY <1>1, <2>1, <2>3 DEF FormOK
  <2> QED
    BY <1>3, <2>1, <2>2, <2>3, <2>4
<1> QED
  BY <1>2, <1>3

\* An option is ticked.
LEMMA ToggledOK ==
  ASSUME Question!QuestionAssumption, NEW f, FormOK(f), f.index \in Multi, ~Question!OnSubmit(f)
  PROVE  FormOK(Question!Toggled(f, f.cursor)) /\ Question!Toggled(f, f.cursor).answers = f.answers
<1> DEFINE p == IF f.cursor \in f.picked[f.index] THEN f.picked[f.index] \ {f.cursor}
                ELSE f.picked[f.index] \union {f.cursor}
           g == [f EXCEPT !.picked[f.index] = p]
<1>1. f \in Forms /\ f.index \in Question!Questions /\ f.cursor \in CursorPlaces(f.index) /\
        f.picked[f.index] \subseteq Ticks(f.index)
  BY DEF FormOK, Forms
<1>2. f.cursor \in Ticks(f.index)
  BY <1>1 DEF Question!OnSubmit, Question!SubmitOf, CursorPlaces, Ticks
<1>3. p \subseteq Ticks(f.index) /\ p \subseteq -1..2
  BY <1>1, <1>2 DEF Ticks
<1>4. Question!Toggled(f, f.cursor) = g
  BY <1>1 DEF Question!Toggled, Forms
<1> HIDE DEF p
<1>5. /\ g.index = f.index /\ g.cursor = f.cursor /\ g.answers = f.answers /\ g.texts = f.texts
      /\ g.picked = [f.picked EXCEPT ![f.index] = p] /\ g \in Forms
  BY <1>1, <1>3 DEF Forms
<1> HIDE DEF g
<1>6. \A q \in Question!Questions : g.picked[q] = IF q = f.index THEN p ELSE f.picked[q]
  BY <1>1, <1>5 DEF Forms
<1>7. FormOK(g)
  BY <1>3, <1>5, <1>6 DEF FormOK
<1> QED
  BY <1>4, <1>5, <1>7

LEMMA MovedOK ==
  ASSUME Question!QuestionAssumption, NEW f, FormOK(f), NEW i \in CursorPlaces(f.index)
  PROVE  FormOK([f EXCEPT !.cursor = i]) /\ [f EXCEPT !.cursor = i].answers = f.answers
<1> DEFINE g == [f EXCEPT !.cursor = i]
<1>1. f \in Forms /\ i \in -1..3
  BY DEF FormOK, Forms, CursorPlaces
<1>2. g \in Forms /\ g.index = f.index /\ g.cursor = i /\ g.answers = f.answers /\ g.picked = f.picked
  BY <1>1 DEF Forms
<1> HIDE DEF g
<1>3. FormOK(g)
  BY <1>2 DEF FormOK
<1> QED
  BY <1>2, <1>3 DEF g

\* What the field reports is added to what it has reported.
LEMMA DisplayedOK ==
  ASSUME Question!QuestionAssumption, NEW f, FormOK(f), NEW d \in Fields
  PROVE  Question!Displayed(f, d) \in Fields /\ [Question!Displayed(f, d) EXCEPT !.wanted = TRUE] \in Fields
<1> DEFINE kept == f.texts[f.index]
           shows == f.index \notin WithoutOther
           t == IF shows THEN kept ELSE d.text
           b == IF shows /\ d.text # kept THEN Append(d.inbox, "changed") ELSE d.inbox
           w == shows /\ Question!OnOther(f)
           g == [d EXCEPT !.text = t, !.inbox = b, !.wanted = w]
<1>1. kept \in BOOLEAN
  BY DEF FormOK, Forms
<1>2. t \in BOOLEAN /\ w \in BOOLEAN
  BY <1>1 DEF Fields, Question!OnOther
<1>3. b \in Seq({"changed", "submitted"})
  BY DEF Fields
<1>4. Question!Displayed(f, d) = g
  BY DEF Question!Displayed, Fields
<1> HIDE DEF t, b, w
<1>6. g \in Fields
  BY <1>2, <1>3 DEF Fields
<1>7. [g EXCEPT !.wanted = TRUE] \in Fields
  <2> HIDE DEF g
  <2> QED
    BY <1>6 DEF Fields
<1> QED
  BY <1>4, <1>6, <1>7

\* What is confirmed is what the form showed, unless a tick was misread.
LEMMA ConfirmedOK ==
  ASSUME Question!QuestionAssumption, NEW f, FormOK(f), confirmed \in Confirmations, AnswersKnown(f,
           confirmed), Question!Confirmed(f)
  PROVE  confirmed' \in Confirmations /\ AnswersKnown(Question!Saved(f), confirmed')
<1> DEFINE v == Question!Visible(f)
           m == IF Question!Misread(f) THEN {f.index} ELSE {}
<1>1. f \in Forms /\ f.index \in Question!Questions /\ Question!Chosen(f) \in Question!Answer
  BY ChosenOK DEF FormOK, Forms
<1>2. v \in Question!Answer
  <2>1. f.picked[f.index] \intersect Question!Options \subseteq Question!Options
    OBVIOUS
  <2> DEFINE c == Question!Chosen(f)
  <2>2. v = c \/ v = [c EXCEPT !.options = f.picked[f.index] \intersect Question!Options]
    BY DEF Question!Visible
  <2> HIDE DEF c, v
  <2>3. c \in Question!Answer
    BY <1>1 DEF c
  <2> QED
    BY <2>1, <2>2, <2>3 DEF Question!Answer
<1>3. /\ confirmed'.shown = [confirmed.shown EXCEPT ![f.index] = @ \union ({v} \ {Question!Unanswered})]
      /\ confirmed'.misread = confirmed.misread \union m
      /\ confirmed' = [shown |-> confirmed'.shown, misread |-> confirmed'.misread]
  BY DEF Question!Confirmed
<1>4. m \subseteq Question!Questions
  BY <1>1
<1>5. Question!Misread(f) => f.index \in Multi \intersect WithoutOther
  BY <1>1 DEF Question!Misread, FormOK, Ticks
<1>6. ~Question!Misread(f) => v = Question!Chosen(f)
  BY DEF Question!Visible
<1> HIDE DEF v
<1>7. confirmed'.shown \in [Question!Questions -> SUBSET Question!Answer]
      /\ \A q \in Question!Questions : confirmed.shown[q] \subseteq confirmed'.shown[q]
  BY <1>1, <1>2, <1>3 DEF Confirmations
<1>10. v # Question!Unanswered => v \in confirmed'.shown[f.index]
  BY <1>1, <1>2, <1>3 DEF Confirmations
<1>8. confirmed' \in Confirmations
  BY <1>3, <1>4, <1>7 DEF Confirmations
<1>9. AnswersKnown(Question!Saved(f), confirmed')
  <2> SUFFICES ASSUME NEW q \in Question!Questions, Question!Saved(f).answers[q] # Question!Unanswered
               PROVE  \/ Question!Saved(f).answers[q] \in confirmed'.shown[q]
                      \/ q \in confirmed'.misread \intersect Multi \intersect WithoutOther
    BY DEF AnswersKnown
  <2>1. CASE q = f.index /\ Question!Chosen(f) # Question!Unanswered
    <3>1. Question!Saved(f).answers[q] = Question!Chosen(f)
      BY <2>1, SavedOK
    <3>2. CASE Question!Misread(f)
      BY <1>3, <1>5, <2>1, <3>2
    <3>3. CASE ~Question!Misread(f)
      BY <1>6, <1>10, <2>1, <3>1, <3>3
    <3> QED
      BY <3>2, <3>3
  <2>2. CASE ~(q = f.index /\ Question!Chosen(f) # Question!Unanswered)
    BY <1>3, <1>7, <2>2, SavedOK DEF AnswersKnown
  <2> QED
    BY <2>1, <2>2
<1> QED
  BY <1>8, <1>9


LEMMA ShownKept ==
  ASSUME Question!QuestionAssumption, QuestionInv, NEW f, FormOK(f), f.answers = form.answers,
           form' = f, field' \in Fields,
         sentForm = "none", sentForm' \in {"none", "cancelled"}, formKeys' \in 0..MaxFormKeys,
           confirmed' = confirmed
  PROVE  QuestionInv'
<1>1. AnswersKnown(f, confirmed)
  BY DEF QuestionInv, AnswersKnown
<1> QED
  BY <1>1 DEF QuestionInv

\* An answer is confirmed: the next question without one is shown, or the answers are sent.
LEMMA NextOpenOK ==
  ASSUME Question!QuestionAssumption, NEW f, FormOK(f), Question!Open(f) # {}
  PROVE  Question!NextOpenAhead(f) \in Question!Questions
<1> DEFINE after == {q \in Question!Open(f) : q > f.index}
           S == IF after # {} THEN after ELSE Question!Open(f)
<1>1. S \subseteq Question!Questions /\ S # {}
  BY DEF Question!Open
<1>2. Question!NextOpenAhead(f) = Question!Smallest(S)
  BY DEF Question!NextOpenAhead
<1> HIDE DEF S
<1> QED
  BY <1>1, <1>2, SmallestQuestion

LEMMA AdvancedKept ==
  ASSUME Question!QuestionAssumption, QuestionInv, NEW f, FormOK(f), f.answers = form.answers,
           Question!Confirmed(f),
         sentForm = "none", formKeys' \in 0..MaxFormKeys, field' \in Fields,
         \/ Question!Open(Question!Saved(f)) = {} /\ sentForm' = "answers" /\ form' = Question!Saved(f)
         \/ /\ Question!Open(Question!Saved(f)) # {} /\ sentForm' = sentForm
            /\ form' = Question!Switched(Question!Saved(f), Question!NextOpenAhead(Question!Saved(f)))
  PROVE  QuestionInv'
<1> DEFINE g == Question!Saved(f)
<1>1. FormOK(g)
  BY SavedOK
<1>2. confirmed' \in Confirmations /\ AnswersKnown(g, confirmed')
  BY ConfirmedOK DEF QuestionInv, AnswersKnown
<1> HIDE DEF g
<1>3. CASE Question!Open(g) = {} /\ sentForm' = "answers" /\ form' = g
  BY <1>1, <1>2, <1>3 DEF Question!Open, QuestionInv
<1>4. CASE Question!Open(g) # {} /\ sentForm' = sentForm /\
             form' = Question!Switched(g, Question!NextOpenAhead(g))
  BY <1>1, <1>2, <1>4, NextOpenOK, SwitchedOK DEF AnswersKnown, QuestionInv
<1> QED
  BY <1>3, <1>4 DEF g

\* The keys.
LEMMA SelectKept ==
  ASSUME Question!QuestionAssumption, QuestionInv, NEW f, FormOK(f), f.answers = form.answers,
           Question!Pressed, Question!Select(f)
  PROVE  QuestionInv'
<1>1. sentForm = "none" /\ formKeys' \in 0..MaxFormKeys /\ field \in Fields
  BY DEF Question!Pressed, QuestionInv, Question!QuestionAssumption
<1>2. CASE Question!OnOther(f) /\ ~(f.index \notin Multi /\ f.texts[f.index])
  BY <1>1, <1>2, DisplayedOK, ShownKept DEF Question!Select
<1>3. CASE ~(Question!OnOther(f) /\ ~(f.index \notin Multi /\ f.texts[f.index])) /\
             f.index \in Multi /\ ~Question!OnSubmit(f)
  <2> DEFINE g == Question!Toggled(f, f.cursor)
  <2>1. form' = g /\ field' = Question!Displayed(g, field) /\ UNCHANGED <<sentForm, confirmed>>
    BY <1>3 DEF Question!Select, Question!Show
  <2>2. FormOK(g) /\ g.answers = f.answers
    BY <1>3, ToggledOK
  <2> HIDE DEF g
  <2>3. field' \in Fields
    BY <1>1, <2>1, <2>2, DisplayedOK
  <2>4. g.answers = form.answers /\ sentForm' \in {"none", "cancelled"}
    BY <1>1, <2>1, <2>2
  <2> QED
    BY <1>1, <2>1, <2>2, <2>3, <2>4, ShownKept
<1>4. CASE ~(Question!OnOther(f) /\ ~(f.index \notin Multi /\ f.texts[f.index])) /\
             ~(f.index \in Multi /\ ~Question!OnSubmit(f))
  <2>1. Question!Advance(Question!Saved(f)) /\ Question!Confirmed(f)
    BY <1>4 DEF Question!Select, Question!Confirm
  <2>2. FormOK(Question!Saved(f))
    BY SavedOK
  <2> DEFINE g == Question!Saved(f)
             h == Question!Switched(g, Question!NextOpenAhead(g))
  <2>3. CASE Question!Open(g) = {}
    BY <1>1, <2>1, <2>3, AdvancedKept DEF Question!Advance
  <2>4. CASE Question!Open(g) # {}
    <3>1. sentForm' = sentForm /\ form' = h /\ field' = Question!Displayed(h, field)
      BY <2>1, <2>4 DEF Question!Advance, Question!Show
    <3>2. Question!NextOpenAhead(g) \in Question!Questions
      BY <2>2, <2>4, NextOpenOK
    <3>3. FormOK(h)
      BY <2>2, <3>2, SwitchedOK
    <3>4. field' \in Fields
      BY <1>1, <3>1, <3>3, DisplayedOK
    <3> QED
      BY <1>1, <2>1, <2>4, <3>1, <3>4, AdvancedKept
  <2> QED
    BY <2>3, <2>4
<1> QED
  BY <1>2, <1>3, <1>4

LEMMA KeysKept ==
  ASSUME Question!QuestionAssumption, QuestionInv,
         \/ Question!Enter \/ Question!Type \/ Question!EnterText \/ Question!Escape
         \/ \E i \in 0..2 : Question!Number(i)
         \/ \E step \in {1, -1} : Question!MoveCursor(step) \/ Question!Turn(step)
  PROVE  QuestionInv'
<1>1. /\ FormOK(form) /\ form \in Forms /\ form.index \in Question!Questions /\
           form.cursor \in CursorPlaces(form.index)
      /\ field \in Fields /\ form.answers = form.answers
  BY DEF QuestionInv, FormOK, Forms
<1>2. Question!Pressed => sentForm = "none" /\ formKeys' \in 0..MaxFormKeys
  BY DEF Question!Pressed, QuestionInv, Question!QuestionAssumption
<1>3. CASE Question!Enter
  BY <1>1, <1>3, SelectKept DEF Question!Enter
<1>4. CASE Question!Type \/ Question!EnterText
  <2>1. form' = form /\ sentForm' = sentForm /\ confirmed' = confirmed /\ Question!Pressed
    BY <1>4 DEF Question!Type, Question!EnterText
  <2>2. field' \in Fields
    <3>1. CASE Question!Type
      <4> DEFINE b == Append(field.inbox, "changed")
      <4>1. field' = [field EXCEPT !.text = ~field.text, !.inbox = b] /\ b \in Seq({"changed", "submitted"})
        BY <1>1, <3>1 DEF Question!Type, Fields
      <4>2. (~field.text) \in BOOLEAN
        BY <1>1 DEF Fields
      <4> HIDE DEF b
      <4> QED
        BY <1>1, <4>1, <4>2 DEF Fields
    <3>2. CASE Question!EnterText
      <4> DEFINE b == Append(field.inbox, "submitted")
      <4>1. field' = [field EXCEPT !.inbox = b] /\ b \in Seq({"changed", "submitted"})
        BY <1>1, <3>2 DEF Question!EnterText, Fields
      <4> HIDE DEF b
      <4> QED
        BY <1>1, <4>1 DEF Fields
    <3> QED
      BY <1>4, <3>1, <3>2
  <2> QED
    BY <1>1, <1>2, <2>1, <2>2, ShownKept
<1>5. CASE Question!Escape
  BY <1>1, <1>2, <1>5, ShownKept DEF Question!Escape
<1>6. ASSUME NEW i \in 0..2, Question!Number(i) PROVE QuestionInv'
  <2> DEFINE f == [form EXCEPT !.cursor = i]
  <2>1. i \in CursorPlaces(form.index)
    BY <1>6 DEF Question!Number, CursorPlaces
  <2>2. FormOK(f) /\ f.answers = form.answers
    BY <1>1, <2>1, MovedOK
  <2>3. Question!Pressed /\ IF Question!OnOther(f) THEN Question!Show(f) /\
          UNCHANGED <<sentForm, confirmed>> ELSE Question!Select(f)
    BY <1>6 DEF Question!Number
  <2> HIDE DEF f
  <2>4. CASE Question!Select(f)
    BY <2>2, <2>3, <2>4, SelectKept
  <2>5. CASE Question!Show(f) /\ UNCHANGED <<sentForm, confirmed>>
    BY <1>1, <1>2, <2>2, <2>3, <2>5, DisplayedOK, ShownKept DEF Question!Show
  <2> QED
    BY <2>3, <2>4, <2>5
<1>7. ASSUME NEW step \in {1, -1}, Question!MoveCursor(step) PROVE QuestionInv'
  <2> DEFINE i == (form.cursor + step) % Question!Total(form.index)
             f == [form EXCEPT !.cursor = i]
  <2>1. i \in CursorPlaces(form.index)
    BY <1>1 DEF Question!Total, CursorPlaces, Forms
  <2> HIDE DEF i
  <2>2. FormOK(f) /\ f.answers = form.answers
    BY <1>1, <2>1, MovedOK
  <2>3. Question!Pressed /\ Question!Show(f) /\ UNCHANGED <<sentForm, confirmed>>
    BY <1>1, <1>7 DEF Question!MoveCursor, i, Forms
  <2> HIDE DEF f
  <2>4. form' = f /\ field' = Question!Displayed(f, field)
    BY <2>3 DEF Question!Show
  <2>5. field' \in Fields
    BY <1>1, <2>2, <2>4, DisplayedOK
  <2> QED
    BY <1>2, <2>2, <2>3, <2>4, <2>5, ShownKept
<1>8. ASSUME NEW step \in {1, -1}, Question!Turn(step) PROVE QuestionInv'
  <2> DEFINE n == ((form.index - 1 + step) % Count) + 1
             f == Question!Switched(form, n)
  <2>1. n \in Question!Questions
    BY <1>1 DEF Question!Questions, Question!QuestionAssumption
  <2>2. Question!Pressed /\ form' = f /\ field' = Question!Displayed(f, field) /\
          UNCHANGED <<sentForm, confirmed>>
    BY <1>8 DEF Question!Turn, Question!Show
  <2> HIDE DEF n
  <2>3. FormOK(f) /\ f.answers = form.answers
    BY <1>1, <2>1, SwitchedOK
  <2> HIDE DEF f
  <2>4. field' \in Fields
    BY <1>1, <2>2, <2>3, DisplayedOK
  <2> QED
    BY <1>2, <2>2, <2>3, <2>4, ShownKept
<1> QED
  BY <1>3, <1>4, <1>5, <1>6, <1>7, <1>8

\* What the field reported.
LEMMA SyncedOK ==
  ASSUME Question!QuestionAssumption, NEW f, FormOK(f), field \in Fields
  PROVE  FormOK(Question!Synced(f)) /\ Question!Synced(f).answers = f.answers
<1>1. f \in Forms /\ f.index \in Question!Questions /\ f.picked[f.index] \subseteq Ticks(f.index)
  BY DEF FormOK, Forms
<1>2. CASE f.index \notin Multi
  BY <1>2 DEF Question!Synced
<1>3. CASE f.index \in Multi
  <2> DEFINE o == Question!OtherOf(f.index)
             p == IF field.text THEN f.picked[f.index] \union {o} ELSE f.picked[f.index] \ {o}
             g == [f EXCEPT !.picked[f.index] = p]
  <2>1. o \in Ticks(f.index) /\ Ticks(f.index) \subseteq -1..2
    BY <1>3 DEF Question!OtherOf, Ticks
  <2>2. Question!Synced(f) = g
    BY <1>1, <1>3 DEF Question!Synced, Forms
  <2> HIDE DEF o
  <2>3. p \subseteq Ticks(f.index) /\ p \subseteq -1..2
    BY <1>1, <2>1
  <2> HIDE DEF p
  <2>4. /\ g.index = f.index /\ g.cursor = f.cursor /\ g.answers = f.answers /\ g.texts = f.texts
        /\ g.picked = [f.picked EXCEPT ![f.index] = p] /\ g \in Forms
    BY <1>1, <2>3 DEF Forms
  <2> HIDE DEF g
  <2>5. \A q \in Question!Questions : g.picked[q] = IF q = f.index THEN p ELSE f.picked[q]
    BY <1>1, <2>4 DEF Forms
  <2>6. FormOK(g)
    BY <2>3, <2>4, <2>5 DEF FormOK
  <2> QED
    BY <2>2, <2>4, <2>6
<1> QED
  BY <1>2, <1>3

LEMMA ReportsKept ==
  ASSUME Question!QuestionAssumption, QuestionInv, Question!Changed \/ Question!Submitted \/ Question!Focus
  PROVE  QuestionInv'
<1>1. /\ FormOK(form) /\ form \in Forms /\ form.index \in Question!Questions /\
           form.cursor \in CursorPlaces(form.index)
      /\ field \in Fields /\ formKeys \in 0..MaxFormKeys
  BY DEF QuestionInv, FormOK, Forms
<1>2. field.inbox # <<>> => Question!Rest \in Fields
  <2> DEFINE b == Tail(field.inbox)
  <2>1. field.inbox # <<>> => b \in Seq({"changed", "submitted"})
    BY <1>1 DEF Fields
  <2>2. Question!Rest = [field EXCEPT !.inbox = b]
    BY <1>1 DEF Question!Rest, Fields
  <2> HIDE DEF b
  <2> QED
    BY <1>1, <2>1, <2>2 DEF Fields
<1>3. CASE Question!Changed
  <2> DEFINE e == [form EXCEPT !.texts[form.index] = field.text]
             f == Question!Synced(e)
  <2>1. FormOK(e) /\ e.answers = form.answers
    <3>1. field.text \in BOOLEAN
      BY <1>1 DEF Fields
    <3>2. /\ e.index = form.index /\ e.cursor = form.cursor /\ e.answers = form.answers /\
               e.picked = form.picked
          /\ e \in Forms
      BY <1>1, <3>1 DEF Forms
    <3> HIDE DEF e
    <3>3. FormOK(e)
      BY <1>1, <3>2 DEF FormOK
    <3> QED
      BY <3>2, <3>3
  <2> HIDE DEF e
  <2>2. FormOK(f) /\ f.answers = form.answers
    BY <1>1, <2>1, SyncedOK
  <2>3. sentForm = "none" /\ form' = f /\ field' = Question!Displayed(f, Question!Rest) /\
          field.inbox # <<>>
        /\ UNCHANGED <<sentForm, formKeys, confirmed>>
    BY <1>3 DEF Question!Changed, Question!Arrives, e
  <2> HIDE DEF f
  <2>4. field' \in Fields
    BY <1>2, <2>2, <2>3, DisplayedOK
  <2> QED
    BY <1>1, <2>2, <2>3, <2>4, ShownKept
<1>4. CASE Question!Submitted
  <2>1. sentForm = "none" /\ field.inbox # <<>> /\ formKeys' = formKeys /\ Question!Rest \in Fields /\
                                                     formKeys' \in 0..MaxFormKeys
    BY <1>1, <1>2, <1>4 DEF Question!Submitted, Question!Arrives
  <2>2. CASE ~field.text
    BY <1>1, <1>4, <2>1, <2>2, ShownKept DEF Question!Submitted
  <2>3. CASE field.text /\ form.index \in Multi
    <3> DEFINE s == Question!SubmitOf(form.index)
               f == [form EXCEPT !.cursor = s]
    <3>1. form' = f /\ field' = Question!Displayed(f, Question!Rest) /\ UNCHANGED <<sentForm, confirmed>>
      BY <1>4, <2>3 DEF Question!Submitted
    <3>2. s \in CursorPlaces(form.index)
      BY <2>3 DEF Question!SubmitOf, CursorPlaces
    <3> HIDE DEF s
    <3>3. FormOK(f) /\ f.answers = form.answers
      BY <1>1, <3>2, MovedOK
    <3> HIDE DEF f
    <3>4. field' \in Fields
      BY <2>1, <3>1, <3>3, DisplayedOK
    <3> QED
      BY <2>1, <3>1, <3>3, <3>4, ShownKept
  <2>4. CASE field.text /\ form.index \notin Multi
    <3> DEFINE f == Question!Saved(form)
               g == Question!Switched(f, Question!NextOpenAhead(f))
    <3>1. /\ Question!Confirmed(form)
          /\ IF Question!Open(f) = {} THEN sentForm' = "answers" /\ form' = f /\ field' = Question!Rest
             ELSE sentForm' = sentForm /\ form' = g /\ field' = Question!Displayed(g, Question!Rest)
      BY <1>4, <2>4 DEF Question!Submitted, Question!Confirmed
    <3>2. FormOK(f)
      BY <1>1, SavedOK
    <3>3. Question!Open(f) # {} => FormOK(g)
      BY <3>2, NextOpenOK, SwitchedOK
    <3>4. field' \in Fields
      BY <2>1, <3>1, <3>3, DisplayedOK
    <3>5. \/ Question!Open(f) = {} /\ sentForm' = "answers" /\ form' = f
          \/ Question!Open(f) # {} /\ sentForm' = sentForm /\ form' = g
      BY <3>1
    <3> QED
      BY <1>1, <2>1, <3>1, <3>4, <3>5, AdvancedKept
  <2> QED
    BY <2>2, <2>3, <2>4
<1>5. CASE Question!Focus
  BY <1>1, <1>5, ShownKept DEF Question!Focus, Fields
<1> QED
  BY <1>3, <1>4, <1>5

LEMMA QuestionStep ==
  ASSUME Question!QuestionAssumption, QuestionInv, [Question!QuestionNext]_Question!questionVars
  PROVE  QuestionInv'
<1>1. CASE UNCHANGED Question!questionVars
  BY <1>1 DEF Question!questionVars, QuestionInv, FormOK, AnswersKnown
<1>2. CASE Question!QuestionNext
  BY <1>2, KeysKept, ReportsKept DEF Question!QuestionNext
<1> QED
  BY <1>1, <1>2

-----------------------------------------------------------------------------
(* The prompt and its history. InputInv: a draft waits in the history      *)
(* while another entry is shown, and a menu of commands is one of a line   *)
(* that is a command.                                                      *)

Lines == Prompt!Modes \X Prompt!Texts
Areas == [mode : Prompt!Modes, text : Prompt!Texts, last : Prompt!Texts, original : Prompt!Texts,
          loaded : BOOLEAN, moved : BOOLEAN,
          navigating : BOOLEAN]
ToBody == [kind : Prompt!Kinds, value : Lines]
Pasts == [entries : Seq(Lines), index : Nat, temp : Prompt!Texts]

PastOK ==
  /\ pastPrompts \in Pasts /\ Len(pastPrompts.entries) <= MaxEntries /\
       pastPrompts.index \in 0..Len(pastPrompts.entries)

InputInv ==
  /\ area \in Areas /\ menu \in 0..2 /\ changed \in Nat /\ promptKeys \in 0..MaxKeys
  /\ PastOK /\ toBody \in Seq(ToBody) /\ toApp \in Seq(Lines) /\ draft \in Lines
  /\ Prompt!DraftWaits /\ Prompt!MenuFits

LEMMA InputInit ==
  ASSUME Prompt!InputAssumption, Prompt!Init
  PROVE  InputInv
<1> USE DEF Prompt!InputAssumption, Prompt!Init
<1>1. area \in Areas /\ draft \in Lines /\ Prompt!Value("!", "a") \in Lines /\
        Prompt!Value(">", "ab") \in Lines
      /\ Prompt!Value("/", "ac") \in Lines
  BY DEF Areas, Prompt!Modes, Prompt!Texts, Prompt!NoText, Prompt!Blank, Prompt!Value, Lines
<1>2. <<>> \in Seq(Lines) /\ <<Prompt!Value("!", "a")>> \in Seq(Lines) /\
        <<Prompt!Value(">", "ab"), Prompt!Value("/", "ac")>> \in Seq(Lines)
  BY <1>1
<1>3. pastPrompts.entries \in Seq(Lines) /\ pastPrompts.index = Prompt!Off /\
        pastPrompts.temp = Prompt!NoText
      /\ pastPrompts = [entries |-> pastPrompts.entries, index |-> pastPrompts.index,
                        temp |-> pastPrompts.temp]
  BY <1>2
<1>4. PastOK
  BY <1>3 DEF Prompt!Texts, Prompt!NoText, PastOK, Pasts, Prompt!Off
<1>5. Prompt!DraftWaits /\ Prompt!MenuFits
  BY <1>3 DEF Prompt!DraftWaits, Prompt!MenuFits
<1>6. menu \in 0..2 /\ changed \in Nat /\ promptKeys \in 0..MaxKeys /\ toBody \in Seq(ToBody) /\
        toApp \in Seq(Lines)
  OBVIOUS
<1> QED
  BY <1>1, <1>4, <1>5, <1>6 DEF InputInv

LEMMA InputImplies ==
  ASSUME Prompt!InputAssumption, InputInv
  PROVE  Prompt!TypeOK /\ Prompt!PromptSafe
<1>1. area.mode \in Prompt!Modes /\ area.text \in Prompt!Texts /\ area.last \in Prompt!Texts /\
        area.original \in Prompt!Texts
  BY DEF InputInv, Areas
<1>2. /\ pastPrompts.entries \in Seq(Prompt!Modes \X Prompt!Texts) /\ Len(pastPrompts.entries) <= MaxEntries
      /\ pastPrompts.index \in 0..Len(pastPrompts.entries) /\ pastPrompts.temp \in Prompt!Texts
  BY DEF InputInv, PastOK, Pasts, Lines
<1>3. \A i \in 1..Len(toBody) : toBody[i].kind \in Prompt!Kinds
  <2>1. \A i \in 1..Len(toBody) : toBody[i] \in ToBody
    BY DEF InputInv
  <2> QED
    BY <2>1 DEF ToBody
<1>4. Prompt!TypeOK
  BY <1>1, <1>2, <1>3 DEF InputInv, Prompt!TypeOK
<1> QED
  BY <1>4 DEF InputInv, Prompt!PromptSafe

LEMMA LineSuggested ==
  ASSUME NEW mode, NEW text
  PROVE  Prompt!Suggested(mode, text) \in 0..2 /\ (Prompt!Suggested(mode, text) # 0 => mode = "/")
BY DEF Prompt!Suggested

LEMMA Counted ==
  ASSUME InputInv, NEW text, Prompt!Replace(text)
  PROVE  changed' \in Nat
BY DEF InputInv, Prompt!Replace

\* Keys that change the line, or send it: the history waits.
LEMMA LineKept ==
  ASSUME Prompt!InputAssumption, InputInv, area' \in Areas, menu' \in 0..2, menu' # 0 =>
           area'.mode = "/", changed' \in Nat,
         promptKeys' \in 0..MaxKeys, toBody' \in Seq(ToBody), toApp' \in Seq(Lines),
           UNCHANGED <<pastPrompts, draft>>
  PROVE  InputInv'
BY DEF InputInv, PastOK, Prompt!DraftWaits, Prompt!MenuFits

LEMMA AreaTypes ==
  ASSUME area \in Areas, NEW text \in Prompt!Texts, NEW mode \in Prompt!Modes, NEW a \in Areas,
           NEW b \in BOOLEAN
  PROVE  /\ [area EXCEPT !.text = text, !.moved = @ \/ area.loaded] \in Areas
         /\ [area EXCEPT !.text = text, !.moved = @ \/ area.loaded].mode = area.mode
         /\ [area EXCEPT !.mode = mode] \in Areas /\ [area EXCEPT !.mode = mode].mode = mode
         /\ [area EXCEPT !.moved = TRUE] \in Areas /\ [area EXCEPT !.moved = TRUE].mode = area.mode
         /\ [area EXCEPT !.navigating = TRUE] \in Areas /\
              [area EXCEPT !.navigating = TRUE].mode = area.mode
         /\ [area EXCEPT !.original = text] \in Areas /\ [area EXCEPT !.original = text].mode = area.mode
         /\ [area EXCEPT !.mode = ">", !.text = Prompt!NoText] \in Areas
         /\ Prompt!Fresh(a) \in Areas /\ Prompt!Fresh(a).mode = a.mode
         /\ [a EXCEPT !.text = text, !.last = text] \in Areas /\
              [a EXCEPT !.text = text, !.last = text].mode = a.mode
         /\ [a EXCEPT !.last = text, !.navigating = FALSE] \in Areas
         /\ [a EXCEPT !.last = text, !.navigating = FALSE].mode = a.mode
         /\ [a EXCEPT !.text = Prompt!NoText, !.last = Prompt!NoText, !.mode = ">"] \in Areas
         /\ [area EXCEPT !.mode = mode, !.text = text, !.loaded = TRUE, !.moved = FALSE,
             !.navigating = TRUE,
                         !.original = a.original] \in Areas
<1>1. Prompt!NoText \in Prompt!Texts /\ ">" \in Prompt!Modes
  BY DEF Prompt!NoText, Prompt!Texts, Prompt!Modes
<1>2. [area EXCEPT !.text = text, !.moved = @ \/ area.loaded] \in Areas
      /\ [area EXCEPT !.text = text, !.moved = @ \/ area.loaded].mode = area.mode
  BY DEF Areas
<1>3. [area EXCEPT !.mode = mode] \in Areas /\ [area EXCEPT !.mode = mode].mode = mode
  BY DEF Areas
<1>4. [area EXCEPT !.moved = TRUE] \in Areas /\ [area EXCEPT !.moved = TRUE].mode = area.mode
  BY DEF Areas
<1>5. [area EXCEPT !.navigating = TRUE] \in Areas /\ [area EXCEPT !.navigating = TRUE].mode = area.mode
  BY DEF Areas
<1>6. [area EXCEPT !.original = text] \in Areas /\ [area EXCEPT !.original = text].mode = area.mode
  BY DEF Areas
<1>7. [area EXCEPT !.mode = ">", !.text = Prompt!NoText] \in Areas
  BY <1>1 DEF Areas
<1>8. Prompt!Fresh(a) \in Areas /\ Prompt!Fresh(a).mode = a.mode
  BY <1>1 DEF Areas, Prompt!Fresh
<1>9. [a EXCEPT !.text = text, !.last = text] \in Areas /\
        [a EXCEPT !.text = text, !.last = text].mode = a.mode
  BY DEF Areas
<1>10. [a EXCEPT !.last = text, !.navigating = FALSE] \in Areas
       /\ [a EXCEPT !.last = text, !.navigating = FALSE].mode = a.mode
  BY DEF Areas
<1>11. [a EXCEPT !.text = Prompt!NoText, !.last = Prompt!NoText, !.mode = ">"] \in Areas
  BY <1>1 DEF Areas
<1>12. [area EXCEPT !.mode = mode, !.text = text, !.loaded = TRUE, !.moved = FALSE, !.navigating = TRUE,
                    !.original = a.original] \in Areas
  BY DEF Areas
<1> QED
  BY <1>2, <1>3, <1>4, <1>5, <1>6, <1>7, <1>8, <1>9, <1>10, <1>11, <1>12


LEMMA TypingKept ==
  ASSUME Prompt!InputAssumption, InputInv,
         \/ \E text \in Prompt!Texts : Prompt!Type(text) \/ (text \in {Prompt!NoText, "ab"} /\
                                                             Prompt!Edit(text))
         \/ \E mode \in Prompt!Modes : Prompt!SetMode(mode)
         \/ Prompt!MoveCursor \/ Prompt!MoveSelection \/ Prompt!Switching
  PROVE  InputInv'
<1>0. /\ area \in Areas /\ area.mode \in Prompt!Modes /\ area.loaded \in BOOLEAN /\ menu \in 0..2 /\
           changed \in Nat /\ promptKeys \in 0..MaxKeys
      /\ toBody \in Seq(ToBody) /\ toApp \in Seq(Lines) /\ (menu # 0 => area.mode = "/")
      /\ area.text \in Prompt!Texts /\ TRUE \in BOOLEAN
  BY DEF InputInv, Prompt!MenuFits, Areas
<1>1. Prompt!Pressed => promptKeys' \in 0..MaxKeys
  BY <1>0 DEF Prompt!Pressed, Prompt!InputAssumption
<1>2. ASSUME NEW text \in Prompt!Texts, Prompt!Type(text) \/ Prompt!Edit(text) PROVE InputInv'
  <2>1. /\ Prompt!Pressed /\ area' = [area EXCEPT !.text = text, !.moved = @ \/ area.loaded] /\
             Prompt!Replace(text)
        /\ UNCHANGED <<menu, pastPrompts, toBody, toApp, switching, draft>>
    BY <1>2 DEF Prompt!Type, Prompt!Edit
  <2>2. area' \in Areas /\ area'.mode = area.mode
    BY <1>0, <2>1, AreaTypes
  <2>3. changed' \in Nat
    BY <2>1, Counted
  <2> QED
    BY <1>0, <1>1, <2>1, <2>2, <2>3, LineKept
<1>3. ASSUME NEW mode \in Prompt!Modes, Prompt!SetMode(mode) PROVE InputInv'
  <2>1. /\ Prompt!Pressed /\ area' = [area EXCEPT !.mode = mode] /\
             menu' = Prompt!Suggested(mode, Prompt!NoText)
        /\ UNCHANGED <<pastPrompts, changed, toBody, toApp, switching, draft>>
    BY <1>3 DEF Prompt!SetMode
  <2>2. area' \in Areas /\ area'.mode = mode
    BY <1>0, <2>1, AreaTypes
  <2>3. menu' \in 0..2 /\ (menu' # 0 => mode = "/")
    BY <2>1, LineSuggested
  <2> QED
    BY <1>0, <1>1, <2>1, <2>2, <2>3, LineKept
<1>4. CASE Prompt!MoveCursor
  BY <1>0, <1>1, <1>4, AreaTypes, LineKept DEF Prompt!MoveCursor
<1>5. CASE Prompt!MoveSelection
  BY <1>0, <1>1, <1>5, LineKept DEF Prompt!MoveSelection
<1>6. CASE Prompt!Switching
  BY <1>0, <1>6, LineKept DEF Prompt!Switching
<1> QED
  BY <1>2, <1>3, <1>4, <1>5, <1>6

LEMMA CompletedOK ==
  ASSUME InputInv, menu # 0
  PROVE  Prompt!Completed(area) \in Areas /\ Prompt!Commands[menu] \in Prompt!Texts
<1>1. area \in Areas /\ menu \in {1, 2} /\ area.text \in Prompt!Texts /\ area.mode \in Prompt!Modes
  BY DEF InputInv, Areas
<1>2. Prompt!Commands[menu] \in Prompt!Texts
  BY <1>1 DEF Prompt!Commands, Prompt!Texts
<1> DEFINE a == Prompt!Fresh(area)
<1>3. a \in Areas
  BY <1>1, AreaTypes
<1>4. Prompt!Completed(area) = [a EXCEPT !.text = Prompt!Commands[menu], !.last = Prompt!Commands[menu]]
  BY DEF Prompt!Completed
<1> HIDE DEF a
<1> DEFINE c == Prompt!Commands[menu]
<1>5. c \in Prompt!Texts /\ Prompt!Completed(area) = [a EXCEPT !.text = c, !.last = c]
  BY <1>2, <1>4
<1> HIDE DEF c
<1>6. [a EXCEPT !.text = c, !.last = c] \in Areas
  BY <1>3, <1>5 DEF Areas
<1> QED
  BY <1>2, <1>5, <1>6

LEMMA SendOK ==
  ASSUME InputInv, NEW a \in Areas, Prompt!Send(a)
  PROVE  toBody' \in Seq(ToBody)
<1> DEFINE m == [kind |-> "submitted", value |-> Prompt!Value(a.mode, a.text)]
<1>1. m \in ToBody
  BY DEF ToBody, Prompt!Kinds, Prompt!Value, Lines, Areas
<1>2. toBody' = toBody \/ toBody' = Append(toBody, m)
  BY DEF Prompt!Send
<1> HIDE DEF m
<1> QED
  BY <1>1, <1>2 DEF InputInv

LEMMA CommandsKept ==
  ASSUME Prompt!InputAssumption, InputInv, Prompt!Tab \/ Prompt!Enter \/ Prompt!Up \/ Prompt!Down
  PROVE  InputInv'
<1>0. /\ area \in Areas /\ area.mode \in Prompt!Modes /\ menu \in 0..2 /\ changed \in Nat /\
           promptKeys \in 0..MaxKeys
      /\ toBody \in Seq(ToBody) /\ toApp \in Seq(Lines) /\ (menu # 0 => area.mode = "/") /\
           area.text \in Prompt!Texts
  BY DEF InputInv, Prompt!MenuFits, Areas
<1>1. Prompt!Pressed => promptKeys' \in 0..MaxKeys
  BY <1>0 DEF Prompt!Pressed, Prompt!InputAssumption
<1>2. CASE Prompt!Tab
  BY <1>0, <1>1, <1>2, CompletedOK, Counted, LineKept DEF Prompt!Tab
<1>3. CASE Prompt!Enter /\ menu # 0 /\ area.mode = "/"
  BY <1>0, <1>1, <1>3, CompletedOK, Counted, SendOK, LineKept DEF Prompt!Enter
<1>4. CASE Prompt!Enter /\ ~(menu # 0 /\ area.mode = "/")
  BY <1>0, <1>1, <1>4, SendOK, LineKept DEF Prompt!Enter
<1>5. ASSUME NEW kind \in {"previous", "next"}, Prompt!Navigate(kind) PROVE InputInv'
  <2> DEFINE m == [kind |-> kind, value |-> Prompt!Blank]
  <2>1. m \in ToBody
    BY DEF ToBody, Prompt!Kinds, Prompt!Blank, Prompt!Value, Lines, Prompt!Modes, Prompt!Texts
  <2>2. area' = [area EXCEPT !.navigating = TRUE] /\ toBody' = Append(toBody, m) /\ Prompt!Pressed
        /\ UNCHANGED <<menu, pastPrompts, changed, toApp, switching, draft>>
    BY <1>5 DEF Prompt!Navigate
  <2> HIDE DEF m
  <2>3. toBody' \in Seq(ToBody)
    BY <1>0, <2>1, <2>2
  <2>4. area' \in Areas /\ area'.mode = area.mode
    BY <1>0, <2>2, AreaTypes
  <2> QED
    BY <1>0, <1>1, <2>2, <2>3, <2>4, LineKept
<1> QED
  BY <1>2, <1>3, <1>4, <1>5 DEF Prompt!Up, Prompt!Down

LEMMA ChangedKept ==
  ASSUME Prompt!InputAssumption, InputInv, Prompt!Changed
  PROVE  InputInv'
<1> DEFINE edited == ~area.navigating /\ area.text # area.last
           a == IF edited THEN Prompt!Fresh(area) ELSE area
<1>0. /\ area \in Areas /\ area.mode \in Prompt!Modes /\ menu \in 0..2 /\ changed \in Nat /\
           promptKeys \in 0..MaxKeys
      /\ toBody \in Seq(ToBody) /\ toApp \in Seq(Lines) /\ (menu # 0 => area.mode = "/") /\
           area.text \in Prompt!Texts
  BY DEF InputInv, Prompt!MenuFits, Areas
<1>1. a \in Areas /\ a.mode = area.mode
  BY <1>0, AreaTypes
<1>2. area' = [a EXCEPT !.last = area.text, !.navigating = FALSE]
      /\ toBody' \in {toBody, Append(toBody, [kind |-> "reset", value |-> Prompt!Blank])}
      /\ menu' \in {menu, Prompt!Suggested(area.mode, area.text)} /\ changed > 0 /\ changed' = changed - 1
      /\ UNCHANGED <<pastPrompts, toApp, switching, promptKeys, draft>>
  BY DEF Prompt!Changed
<1> HIDE DEF a
<1>3. area' \in Areas /\ area'.mode = area.mode
  BY <1>0, <1>1, <1>2, AreaTypes
<1>4. menu' \in 0..2 /\ (menu' # 0 => area.mode = "/")
  BY <1>0, <1>2, LineSuggested
<1>5. toBody' \in Seq(ToBody)
  <2> DEFINE m == [kind |-> "reset", value |-> Prompt!Blank]
  <2>1. m \in ToBody
    BY DEF ToBody, Prompt!Kinds, Prompt!Blank, Prompt!Value, Lines, Prompt!Modes, Prompt!Texts
  <2>2. toBody' = toBody \/ toBody' = Append(toBody, m)
    BY <1>2
  <2> HIDE DEF m
  <2> QED
    BY <1>0, <2>1, <2>2
<1> QED
  BY <1>0, <1>2, <1>3, <1>4, <1>5, LineKept

\* The first message for the body.
LEMMA BodyFirst ==
  ASSUME InputInv, NEW kind, Prompt!Arrives(kind)
  PROVE  toBody' \in Seq(ToBody) /\ Head(toBody).value \in Lines
<1>1. Head(toBody) \in ToBody /\ toBody' \in Seq(ToBody)
  BY DEF InputInv, Prompt!Arrives
<1> QED
  BY <1>1 DEF ToBody

LEMMA LoadOK ==
  ASSUME InputInv, NEW value \in Lines, Prompt!Load(value)
  PROVE  area' \in Areas /\ menu' = 0 /\ changed' \in Nat
<1> DEFINE o == IF pastPrompts.index = Prompt!Off THEN area.text ELSE area.original
           m == value[1]
           t == value[2]
<1>1. area \in Areas /\ o \in Prompt!Texts /\ m \in Prompt!Modes /\ t \in Prompt!Texts
  BY DEF InputInv, Areas, Lines
<1>2. area' = [area EXCEPT !.mode = m, !.text = t, !.loaded = TRUE, !.moved = FALSE, !.navigating = TRUE,
                           !.original = o] /\ menu' = 0
  BY <1>1 DEF Prompt!Load, Areas
<1>3. changed' \in Nat
  BY Counted DEF Prompt!Load
<1> HIDE DEF o, m, t
<1>4. area' \in Areas
  BY <1>1, <1>2 DEF Areas
<1> QED
  BY <1>2, <1>3, <1>4

\* A state after which the history waits as before, or is left.
LEMMA PastKept ==
  ASSUME Prompt!InputAssumption, InputInv, area' \in Areas, menu' \in 0..2, menu' # 0 =>
           area'.mode = "/", changed' \in Nat,
         promptKeys' = promptKeys, toBody' \in Seq(ToBody), toApp' \in Seq(Lines), draft' \in Lines,
           PastOK', Prompt!DraftWaits'
  PROVE  InputInv'
BY DEF InputInv, Prompt!MenuFits

LEMMA PreviousKept ==
  ASSUME Prompt!InputAssumption, InputInv, Prompt!Previous
  PROVE  InputInv'
<1> DEFINE at == IF pastPrompts.index = Prompt!Off THEN Len(pastPrompts.entries) + 1 ELSE pastPrompts.index
           original == IF pastPrompts.index = Prompt!Off THEN area.text ELSE area.original
<1>0. /\ area \in Areas /\ area.mode \in Prompt!Modes /\ area.text \in Prompt!Texts /\ menu \in 0..2 /\
           changed \in Nat
      /\ toApp \in Seq(Lines) /\ (menu # 0 => area.mode = "/") /\ draft \in Lines
      /\ pastPrompts \in Pasts /\ pastPrompts.entries \in Seq(Lines) /\
           pastPrompts.index \in 0..Len(pastPrompts.entries)
      /\ Len(pastPrompts.entries) <= MaxEntries /\ Len(pastPrompts.entries) \in Nat /\
           pastPrompts.temp \in Prompt!Texts
      /\ (pastPrompts.index # Prompt!Off => pastPrompts.temp = draft[2])
  BY DEF InputInv, Prompt!MenuFits, Areas, PastOK, Pasts, Prompt!DraftWaits
<1>1. toBody' \in Seq(ToBody) /\ UNCHANGED <<toApp, switching, promptKeys>>
  BY BodyFirst DEF Prompt!Previous
<1>2. original \in Prompt!Texts /\ at \in Nat /\ (at > 1 => at - 1 \in 1..Len(pastPrompts.entries))
  BY <1>0 DEF Areas, Prompt!Off
<1>3. area' \in Areas /\ menu' \in 0..2 /\ (menu' # 0 => area'.mode = "/") /\ changed' \in Nat
  <2>1. CASE at > 1
    BY <1>0, <1>2, <2>1, LoadOK DEF Prompt!Previous
  <2>2. CASE ~(at > 1)
    <3>1. UNCHANGED <<menu, changed>> /\ area' = [area EXCEPT !.original = original]
      BY <2>2 DEF Prompt!Previous
    <3> HIDE DEF original
    <3>2. area' \in Areas /\ area'.mode = area.mode
      BY <1>0, <1>2, <3>1, AreaTypes
    <3> QED
      BY <1>0, <3>1, <3>2
  <2> QED
    BY <2>1, <2>2
<1>4. draft' \in Lines /\ (pastPrompts.index = Prompt!Off => draft'[2] = area.text) /\
        (pastPrompts.index # Prompt!Off => draft' = draft)
  BY <1>0 DEF Prompt!Previous, Prompt!Value, Lines
<1>5. PastOK' /\ Prompt!DraftWaits'
  <2>1. CASE pastPrompts.entries = <<>>
    BY <1>0, <2>1 DEF Prompt!Previous, Prompt!Off, InputInv, PastOK, Prompt!DraftWaits
  <2>2. CASE pastPrompts.entries # <<>>
    <3> DEFINE t == IF pastPrompts.index = Prompt!Off THEN original ELSE pastPrompts.temp
               n == IF at > 1 THEN at - 1 ELSE at
    <3>1. pastPrompts' = [pastPrompts EXCEPT !.temp = t, !.index = n]
      BY <1>0, <2>2 DEF Prompt!Previous, Pasts
    <3>2. t \in Prompt!Texts /\ n \in 1..Len(pastPrompts.entries)
      BY <1>0, <1>2, <2>2 DEF Prompt!Off
    <3>3. t = draft'[2]
      BY <1>0, <1>4
    <3> HIDE DEF t, n
    <3>5. n \in Nat
      BY <1>0, <3>2
    <3>4. pastPrompts' \in Pasts /\ pastPrompts'.entries = pastPrompts.entries /\
            pastPrompts'.temp = t /\ pastPrompts'.index = n
      BY <1>0, <3>1, <3>2, <3>5 DEF Pasts
    <3> QED
      BY <1>0, <3>2, <3>3, <3>4 DEF PastOK, Prompt!DraftWaits
  <2> QED
    BY <2>1, <2>2
<1> QED
  BY <1>0, <1>1, <1>3, <1>4, <1>5, PastKept

LEMMA NextKept ==
  ASSUME Prompt!InputAssumption, InputInv, Prompt!Next
  PROVE  InputInv'
<1>0. /\ area \in Areas /\ menu \in 0..2 /\ changed \in Nat
      /\ toApp \in Seq(Lines) /\ (menu # 0 => area.mode = "/") /\ draft \in Lines
      /\ pastPrompts \in Pasts /\ pastPrompts.entries \in Seq(Lines) /\
           pastPrompts.index \in 0..Len(pastPrompts.entries)
      /\ Len(pastPrompts.entries) <= MaxEntries /\ Len(pastPrompts.entries) \in Nat /\
           pastPrompts.temp \in Prompt!Texts
      /\ (pastPrompts.index # Prompt!Off => pastPrompts.temp = draft[2])
  BY DEF InputInv, Prompt!MenuFits, PastOK, Pasts, Prompt!DraftWaits
<1>1. toBody' \in Seq(ToBody) /\ UNCHANGED <<toApp, switching, promptKeys, draft>>
  BY BodyFirst DEF Prompt!Next
<1>2. CASE pastPrompts.index = Prompt!Off
  BY <1>0, <1>1, <1>2, PastKept DEF Prompt!Next, InputInv, PastOK, Prompt!DraftWaits
<1>3. CASE pastPrompts.index # Prompt!Off /\ pastPrompts.index < Len(pastPrompts.entries)
  <2> DEFINE n == pastPrompts.index + 1
  <2>1. pastPrompts' = [pastPrompts EXCEPT !.index = n] /\ Prompt!Load(pastPrompts.entries[n]) /\
          n \in 1..Len(pastPrompts.entries)
    BY <1>0, <1>3 DEF Prompt!Next, Pasts
  <2>2. pastPrompts.entries[n] \in Lines
    BY <1>0, <2>1
  <2>3. area' \in Areas /\ menu' = 0 /\ changed' \in Nat
    BY <2>1, <2>2, LoadOK
  <2> HIDE DEF n
  <2>4. pastPrompts' \in Pasts /\ pastPrompts'.entries = pastPrompts.entries /\
          pastPrompts'.temp = pastPrompts.temp /\ pastPrompts'.index = n
    BY <1>0, <2>1 DEF Pasts
  <2>5. PastOK' /\ Prompt!DraftWaits'
    BY <1>0, <1>1, <1>3, <2>1, <2>4 DEF PastOK, Prompt!DraftWaits
  <2> QED
    BY <1>0, <1>1, <2>3, <2>5, PastKept
<1>4. CASE pastPrompts.index # Prompt!Off /\ ~(pastPrompts.index < Len(pastPrompts.entries))
  <2>1. pastPrompts' = [pastPrompts EXCEPT !.index = Prompt!Off, !.temp = Prompt!NoText] /\
          Prompt!Load(Prompt!Value(">", pastPrompts.temp))
    BY <1>4 DEF Prompt!Next
  <2>2. Prompt!Value(">", pastPrompts.temp) \in Lines /\ Prompt!NoText \in Prompt!Texts
    BY <1>0 DEF Prompt!Value, Lines, Prompt!Modes, Prompt!Texts, Prompt!NoText
  <2>3. area' \in Areas /\ menu' = 0 /\ changed' \in Nat
    BY <2>1, <2>2, LoadOK
  <2>4. pastPrompts' \in Pasts /\ pastPrompts'.entries = pastPrompts.entries /\
          pastPrompts'.index = Prompt!Off
    BY <1>0, <2>1, <2>2 DEF Pasts, Prompt!Off
  <2>5. PastOK' /\ Prompt!DraftWaits'
    BY <1>0, <2>4 DEF PastOK, Prompt!DraftWaits, Prompt!Off
  <2> QED
    BY <1>0, <1>1, <2>3, <2>5, PastKept
<1> QED
  BY <1>2, <1>3, <1>4

LEMMA AddedOK ==
  ASSUME Prompt!InputAssumption, NEW e \in Seq(Lines), Len(e) <= MaxEntries, NEW v \in Lines
  PROVE  Prompt!Added(e, v) \in Seq(Lines) /\ Len(Prompt!Added(e, v)) <= MaxEntries /\
           Len(Prompt!Added(e, v)) \in Nat
<1> DEFINE all == Append(e, v)
<1>1. all \in Seq(Lines) /\ Len(all) = Len(e) + 1 /\ Len(e) \in Nat /\ all # <<>>
  OBVIOUS
<1>2. Tail(all) \in Seq(Lines) /\ Len(Tail(all)) = Len(e)
  <2> HIDE DEF all
  <2> QED
    BY <1>1
<1>3. Prompt!Added(e, v) = e \/ (Prompt!Added(e, v) = Tail(all)) \/ (Prompt!Added(e, v) = all /\
                                                                     ~(Len(all) > MaxEntries))
  BY DEF Prompt!Added
<1> HIDE DEF all
<1> QED
  BY <1>1, <1>2, <1>3 DEF Prompt!InputAssumption

LEMMA BodyKept ==
  ASSUME Prompt!InputAssumption, InputInv, Prompt!Reset \/ Prompt!Submit \/ Prompt!Take
  PROVE  InputInv'
<1>0. /\ area \in Areas /\ menu \in 0..2 /\ changed \in Nat /\ area.mode \in Prompt!Modes /\
           area.text \in Prompt!Texts
      /\ toBody \in Seq(ToBody) /\ toApp \in Seq(Lines) /\ (menu # 0 => area.mode = "/") /\ draft \in Lines
      /\ pastPrompts \in Pasts /\ pastPrompts.entries \in Seq(Lines) /\
           Len(pastPrompts.entries) <= MaxEntries
      /\ Len(pastPrompts.entries) \in Nat /\ Prompt!NoText \in Prompt!Texts /\ promptKeys \in 0..MaxKeys
  BY DEF InputInv, Prompt!MenuFits, PastOK, Pasts, Areas, Prompt!Texts, Prompt!NoText
<1>1. CASE Prompt!Reset
  <2>1. pastPrompts' = [pastPrompts EXCEPT !.index = Prompt!Off, !.temp = Prompt!NoText] /\
          area' = Prompt!Fresh(area) /\ Prompt!Arrives("reset")
        /\ UNCHANGED <<menu, changed, toApp, switching, promptKeys, draft>>
    BY <1>1 DEF Prompt!Reset
  <2>2. area' \in Areas /\ area'.mode = area.mode /\ toBody' \in Seq(ToBody)
    BY <1>0, <2>1, AreaTypes, BodyFirst
  <2>3. pastPrompts' \in Pasts /\ pastPrompts'.entries = pastPrompts.entries /\
          pastPrompts'.index = Prompt!Off
    BY <1>0, <2>1 DEF Pasts, Prompt!Off
  <2>4. PastOK' /\ Prompt!DraftWaits'
    BY <1>0, <2>3 DEF PastOK, Prompt!DraftWaits, Prompt!Off
  <2> QED
    BY <1>0, <2>1, <2>2, <2>4, PastKept
<1>2. CASE Prompt!Submit /\ switching
  BY <1>0, <1>2, BodyFirst, LineKept DEF Prompt!Submit
<1>3. CASE Prompt!Submit /\ ~switching
  <2> DEFINE v == Head(toBody).value
             e == Prompt!Added(pastPrompts.entries, v)
             a == Prompt!Fresh(area)
  <2>1. v \in Lines /\ toBody' \in Seq(ToBody)
    BY <1>3, BodyFirst DEF Prompt!Submit
  <2>2. /\ pastPrompts' = [entries |-> e, index |-> Prompt!Off, temp |-> Prompt!NoText]
        /\ area' = [a EXCEPT !.text = Prompt!NoText, !.last = Prompt!NoText, !.mode = ">"]
        /\ Prompt!Replace(Prompt!NoText) /\ menu' = 0 /\ toApp' = Append(toApp, v) /\
             UNCHANGED <<switching, promptKeys, draft>>
    BY <1>3 DEF Prompt!Submit
  <2>3. e \in Seq(Lines) /\ Len(e) <= MaxEntries /\ Len(e) \in Nat
    BY <1>0, <2>1, AddedOK
  <2>4. a \in Areas
    BY <1>0, AreaTypes
  <2> HIDE DEF v, e, a
  <2>5. area' \in Areas
    BY <1>0, <2>2, <2>4, AreaTypes
  <2>6. changed' \in Nat /\ toApp' \in Seq(Lines)
    BY <1>0, <2>1, <2>2, Counted
  <2>7. PastOK' /\ Prompt!DraftWaits'
    BY <1>0, <2>2, <2>3 DEF PastOK, Pasts, Prompt!DraftWaits, Prompt!Off
  <2> QED
    BY <1>0, <2>1, <2>2, <2>5, <2>6, <2>7, PastKept
<1>4. CASE Prompt!Take
  <2>1. /\ toApp # <<>> /\ toApp' = Tail(toApp) /\
                             area' = [area EXCEPT !.mode = ">", !.text = Prompt!NoText]
        /\ Prompt!Replace(Prompt!NoText) /\ menu' = 0 /\
             UNCHANGED <<pastPrompts, toBody, switching, promptKeys, draft>>
    BY <1>4 DEF Prompt!Take
  <2>2. area' \in Areas
    BY <1>0, <2>1, AreaTypes
  <2>3. changed' \in Nat /\ toApp' \in Seq(Lines)
    BY <1>0, <2>1, Counted
  <2> QED
    BY <1>0, <2>1, <2>2, <2>3, LineKept
<1> QED
  BY <1>1, <1>2, <1>3, <1>4

LEMMA InputStep ==
  ASSUME Prompt!InputAssumption, InputInv, [Prompt!PromptNext]_Prompt!promptVars
  PROVE  InputInv'
<1>1. CASE UNCHANGED Prompt!promptVars
  BY <1>1 DEF Prompt!promptVars, InputInv, PastOK, Prompt!DraftWaits, Prompt!MenuFits
<1>2. CASE Prompt!PromptNext
  BY <1>2, TypingKept, CommandsKept, ChangedKept, PreviousKept, NextKept, BodyKept DEF Prompt!PromptNext
<1> QED
  BY <1>1, <1>2

-----------------------------------------------------------------------------
(* The panel below the conversation. PanelInv: what is mounted, which      *)
(* panels are on their way out, and who waits for the one that is shown.   *)

Posted == {"closed", "opened", "answered", "remote", "rewind"}

PanelTypes ==
  /\ currentPanel \in Panel!Panels \union {"input"} /\ mounted \subseteq Panel!Panels
  /\ removing \in [Panel!Tasks -> 0..5]
  /\ asking \in [who : {"nobody", "turn", "teleport"}, now : {"idle", "asked", "answered", "closing"}]
  /\ remoteAsks \in BOOLEAN /\ rewinding \in BOOLEAN /\ chosen \in BOOLEAN
  /\ selecting \in {"no", "called", "replacing"}
  /\ inbox \in Seq(Posted) /\ Len(inbox) <= MaxPosted
  /\ next \in {"none", "config", "picker"} /\ shown \in 0..MaxPanels
  /\ overlapped \in BOOLEAN /\ swept \in BOOLEAN

\* With the input, each panel that is left is one that a removal comes to.
Leaving ==
  currentPanel = "input" =>
    \A p \in mounted : \E t \in Panel!Tasks : removing[t] # 0 /\
      \E i \in removing[t]..5 : Panel!Order[i] = p

\* As long as no panel was shown while others were taken away, what is current is there, but
\* for the panel of rewinding while it is replaced.
Current ==
  ~swept =>
    /\ Panel!Closing => currentPanel = "input"
    /\ currentPanel # "input" => currentPanel \in mounted \/ (selecting = "replacing" /\
                                                              currentPanel = "rewind")

\* As long as no panel was shown over another: it is there alone, and what waits for the
\* application is its; the prompt is there until it is answered, and rewinding goes on.
Sends(panel, what) ==
  \/ panel = "prompt" /\ what = "answered"
  \/ panel = "config" /\ what \in {"closed", "opened"}
  \/ panel = "picker" /\ what = "closed"
  \/ panel = "remote" /\ what = "remote"
  \/ panel = "rewind" /\ what = "rewind"

Alone ==
  ~overlapped =>
    /\ ~swept
    /\ currentPanel # "input" =>
         /\ mounted = {currentPanel} \/ (mounted = {} /\ selecting = "replacing" /\ currentPanel = "rewind")
         /\ \A i \in 1..Len(inbox) : Sends(currentPanel, inbox[i])
    /\ asking.now \in {"asked", "answered"} <=> currentPanel = "prompt"
    /\ remoteAsks => currentPanel = "remote"
    /\ rewinding <=> currentPanel = "rewind" \/ selecting # "no"

PanelInv == PanelTypes /\ Leaving /\ Current /\ Alone

LEMMA PanelOrder ==
  /\ Panel!Panels = {"prompt", "config", "picker", "remote", "rewind"} /\ Len(Panel!Order) = 5
  /\ Panel!Order[1] = "prompt" /\ Panel!Order[2] = "config" /\ Panel!Order[3] = "picker" /\
       Panel!Order[4] = "remote" /\ Panel!Order[5] = "rewind"
  /\ \A p \in Panel!Panels : \E i \in 1..5 : Panel!Order[i] = p
<1>1. DOMAIN Panel!Order = 1..5 /\ Len(Panel!Order) = 5
  BY DEF Panel!Order
<1>2. Panel!Order[1] = "prompt" /\ Panel!Order[2] = "config" /\ Panel!Order[3] = "picker" /\
        Panel!Order[4] = "remote" /\ Panel!Order[5] = "rewind"
  BY DEF Panel!Order
<1>3. Panel!Panels = {"prompt", "config", "picker", "remote", "rewind"}
  BY <1>1, <1>2 DEF Panel!Panels
<1> QED
  BY <1>1, <1>2, <1>3 DEF Panel!Panels

LEMMA LeastOfFive ==
  ASSUME NEW S, S \subseteq 1..5, S # {}
  PROVE  \E i \in S : \A j \in S : i <= j
<1>1. CASE 1 \in S
  BY <1>1
<1>2. CASE 1 \notin S /\ 2 \in S
  BY <1>2
<1>3. CASE 1 \notin S /\ 2 \notin S /\ 3 \in S
  BY <1>3
<1>4. CASE 1 \notin S /\ 2 \notin S /\ 3 \notin S /\ 4 \in S
  BY <1>4
<1>5. CASE 1 \notin S /\ 2 \notin S /\ 3 \notin S /\ 4 \notin S
  <2>1. \A j \in S : j = 5
    BY <1>5
  <2>2. 5 \in S
    BY <2>1
  <2> QED
    BY <2>1, <2>2
<1> QED
  BY <1>1, <1>2, <1>3, <1>4, <1>5

LEMMA PanelInit ==
  ASSUME Panel!PanelAssumption, Panel!Init
  PROVE  PanelInv
<1> USE DEF Panel!PanelAssumption, Panel!Init
<1>1. removing \in [Panel!Tasks -> 0..5] /\ ~Panel!Closing
  BY DEF Panel!Closing
<1>2. asking \in [who : {"nobody", "turn", "teleport"}, now : {"idle", "asked", "answered", "closing"}]
      /\ asking.now = "idle"
  BY DEF Panel!Nobody
<1>5. inbox \in Seq(Posted) /\ Len(inbox) <= MaxPosted
  OBVIOUS
<1>6. shown \in 0..MaxPanels
  OBVIOUS
<1>3. PanelTypes
  BY <1>1, <1>2, <1>5, <1>6 DEF PanelTypes
<1>4. Leaving /\ Current /\ Alone
  BY <1>1, <1>2 DEF Leaving, Current, Alone
<1> QED
  BY <1>3, <1>4 DEF PanelInv

LEMMA PanelImplies ==
  ASSUME Panel!PanelAssumption, PanelInv
  PROVE  Panel!TypeOK /\ Panel!PanelsSafe
<1>1. asking.now \in {"idle", "asked", "answered", "closing"}
  BY DEF PanelInv, PanelTypes
<1>2. Panel!TypeOK
  BY <1>1, PanelOrder DEF PanelInv, PanelTypes, Panel!TypeOK
<1>3. Panel!InputAlone
  BY DEF PanelInv, Leaving, Panel!InputAlone, Panel!AtRest, Panel!Closing
<1>4. Panel!PanelsAgree
  BY <1>1, <1>3, PanelOrder DEF PanelInv, PanelTypes, Alone, Panel!InputAlone, Panel!PanelsAgree,
                                Panel!AtRest
<1>5. Panel!TurnAnswerable
  BY DEF PanelInv, PanelTypes, Current, Panel!TurnAnswerable, Panel!AtRest
<1> QED
  BY <1>2, <1>3, <1>4, <1>5 DEF Panel!PanelsSafe

\* What a panel sends for the application is put behind what waits.
LEMMA PostKept ==
  ASSUME Panel!PanelAssumption, PanelInv, NEW panel \in Panel!Panels, NEW what \in Posted, Sends(panel,
           what), Panel!Posts(panel, what)
  PROVE  PanelInv'
<1> USE DEF Panel!PanelAssumption, PanelInv, Panel!Posts
<1>1. inbox' \in Seq(Posted) /\ Len(inbox') = Len(inbox) + 1 /\ inbox'[Len(inbox) + 1] = what
      /\ \A i \in 1..Len(inbox) : inbox'[i] = inbox[i]
  BY DEF PanelTypes
<1>2. Len(inbox) \in Nat
  BY DEF PanelTypes
<1>3. PanelTypes'
  BY <1>1, <1>2 DEF PanelTypes
<1>4. Leaving' /\ Current'
  BY DEF Leaving, Current, Panel!Closing
<1>5. Alone'
  <2>1. ASSUME ~overlapped, currentPanel # "input"
        PROVE \A i \in 1..Len(inbox') : Sends(currentPanel, inbox'[i])
    BY <1>1, <1>2, <2>1 DEF Alone
  <2>2. UNCHANGED <<currentPanel, mounted, removing, asking, remoteAsks, rewinding, selecting,
          overlapped, swept>>
    OBVIOUS
  <2> QED
    BY <2>1, <2>2 DEF Alone, Sends
<1> QED
  BY <1>3, <1>4, <1>5

\* The first of what waits is taken.
LEMMA TakenFirst ==
  ASSUME Panel!PanelAssumption, PanelInv, inbox # <<>>, inbox' = Tail(inbox)
  PROVE  /\ inbox' \in Seq(Posted) /\ Len(inbox') <= MaxPosted
         /\ \A i \in 1..Len(inbox') : inbox'[i] = inbox[i + 1] /\ i + 1 \in 1..Len(inbox)
         /\ Head(inbox) = inbox[1] /\ 1 \in 1..Len(inbox)
<1>1. inbox \in Seq(Posted) /\ Len(inbox) <= MaxPosted
  BY DEF PanelInv, PanelTypes
<1>2. Tail(inbox) \in Seq(Posted) /\ Len(Tail(inbox)) = Len(inbox) - 1
      /\ \A i \in 1..Len(inbox) - 1 : Tail(inbox)[i] = inbox[i + 1]
  BY <1>1
<1>3. Len(inbox) \in Nat \ {0} /\ Head(inbox) = inbox[1]
  BY <1>1
<1>4. Len(inbox') = Len(inbox) - 1 /\ \A i \in 1..Len(inbox) - 1 : inbox'[i] = inbox[i + 1]
  BY <1>2
<1>5. Len(inbox') <= MaxPosted
  BY <1>1, <1>3, <1>4 DEF Panel!PanelAssumption
<1>6. \A i \in 1..Len(inbox') : inbox'[i] = inbox[i + 1] /\ i + 1 \in 1..Len(inbox)
  BY <1>3, <1>4
<1> QED
  BY <1>2, <1>3, <1>5, <1>6

LEMMA HeadSent ==
  ASSUME PanelInv, inbox # <<>>, ~overlapped, currentPanel # "input"
  PROVE  Sends(currentPanel, Head(inbox))
<1>1. Head(inbox) = inbox[1] /\ 1 \in 1..Len(inbox)
  BY DEF PanelInv, PanelTypes
<1> QED
  BY <1>1 DEF PanelInv, Alone

\* The input is shown: a removal that begins with the first panel comes to each.
LEMMA InputShown ==
  ASSUME PanelInv, NEW task \in Panel!Tasks, Panel!SwitchToInput(task), mounted' = mounted, swept' = swept
  PROVE  Leaving' /\ Current' /\ removing' \in [Panel!Tasks -> 0..5] /\ currentPanel' = "input"
<1>1. removing' \in [Panel!Tasks -> 0..5] /\ currentPanel' = "input" /\ removing'[task] = 1
  BY DEF PanelInv, PanelTypes, Panel!SwitchToInput
<1>2. Leaving'
  BY <1>1, PanelOrder DEF PanelInv, PanelTypes, Leaving
<1>3. Current'
  BY <1>1 DEF Current
<1> QED
  BY <1>1, <1>2, <1>3

\* A panel is shown.
LEMMA PanelShown ==
  ASSUME Panel!PanelAssumption, PanelInv, NEW panel \in Panel!Panels, Panel!SwitchFromInput(panel),
           removing' = removing
  PROVE  /\ Leaving' /\ Current' /\ currentPanel' \in Panel!Panels /\
              mounted' \subseteq Panel!Panels /\ shown' \in 0..MaxPanels
         /\ overlapped' \in BOOLEAN /\ swept' \in BOOLEAN /\ currentPanel' = panel /\
              mounted' = mounted \union {panel}
         /\ ~overlapped' => /\ ~overlapped /\ ~swept' /\ mounted = {} /\ ~Panel!Closing
                            /\ inbox = <<>> /\ selecting = "no"
                            /\ mounted' = {panel} /\ Len(inbox) = 0
                            /\ ~remoteAsks /\ ~rewinding /\ asking.now \notin {"asked", "answered"}
<1> USE DEF PanelInv, Panel!SwitchFromInput
<1>1. currentPanel' = panel /\ mounted' = mounted \union {panel} /\ panel # "input" /\
        mounted' \subseteq Panel!Panels
  BY PanelOrder DEF PanelTypes
<1>2. shown' \in 0..MaxPanels
  BY DEF PanelTypes, Panel!PanelAssumption
<1>8. overlapped' \in BOOLEAN /\ swept' \in BOOLEAN
  OBVIOUS
<1>3. Panel!Closing' <=> Panel!Closing
  BY DEF Panel!Closing
<1>4. Leaving'
  BY <1>1 DEF Leaving
<1>5. Current'
  BY <1>1, <1>3 DEF Current
<1>6. ~overlapped' => ~overlapped /\ ~swept' /\ mounted = {} /\ ~Panel!Closing /\ inbox = <<>> /\
        selecting = "no"
  BY DEF PanelTypes, Alone
<1>9. ~overlapped' => currentPanel = "input"
  BY <1>6 DEF Alone
<1>7. ~overlapped' => /\ mounted' = {panel} /\ Len(inbox) = 0
                      /\ ~remoteAsks /\ ~rewinding /\ asking.now \notin {"asked", "answered"}
  BY <1>1, <1>6, <1>9 DEF Alone
<1> QED
  BY <1>1, <1>2, <1>4, <1>5, <1>6, <1>7, <1>8


\* One panel after the other is removed.
LEMMA RemoveKept ==
  ASSUME Panel!PanelAssumption, PanelInv, NEW task \in Panel!Tasks, Panel!Remove(task)
  PROVE  PanelInv'
<1> DEFINE left == {i \in removing[task]..5 : Panel!Order[i] \in mounted}
<1> DEFINE first == CHOOSE i \in left : \A j \in left : i <= j
<1>1. removing[task] \in 1..5
  BY DEF PanelInv, PanelTypes, Panel!Remove
<1>2. UNCHANGED <<currentPanel, asking, remoteAsks, rewinding, chosen, selecting, inbox, next, shown,
        overlapped, swept>>
  BY DEF Panel!Remove
<1>3. Panel!Closing
  BY <1>1 DEF Panel!Closing
<1>4. left # {} => first \in left /\ \A j \in left : first <= j
  <2>1. left \subseteq 1..5
    BY <1>1
  <2> HIDE DEF left
  <2> QED
    BY <2>1, LeastOfFive
<1>5. IF left = {}
      THEN removing' = [removing EXCEPT ![task] = 0] /\ mounted' = mounted
      ELSE /\ mounted' = mounted \ {Panel!Order[first]}
           /\ removing' = [removing EXCEPT ![task] = IF first = 5 THEN 0 ELSE first + 1]
  BY PanelOrder DEF Panel!Remove
<1>6. removing' \in [Panel!Tasks -> 0..5] /\ mounted' \subseteq mounted
      /\ \A t \in Panel!Tasks : t # task => removing'[t] = removing[t]
  <2>1. left # {} => first \in 1..5
    BY <1>1, <1>4
  <2>2. \E n \in 0..5 : removing' = [removing EXCEPT ![task] = n]
    <3> HIDE DEF first, left
    <3>1. CASE left = {}
      BY <1>5, <3>1
    <3>2. CASE left # {}
      BY <1>5, <2>1, <3>2
    <3> QED
      BY <3>1, <3>2
  <2>3. mounted' \subseteq mounted
    <3> HIDE DEF first, left
    <3> QED
      BY <1>5
  <2> QED
    BY <2>2, <2>3 DEF PanelInv, PanelTypes
<1>7. PanelTypes'
  BY <1>2, <1>6 DEF PanelInv, PanelTypes
<1>8. Leaving'
  <2> SUFFICES ASSUME currentPanel = "input", NEW p \in mounted'
               PROVE  \E t \in Panel!Tasks : removing'[t] # 0 /\
                        \E i \in removing'[t]..5 : Panel!Order[i] = p
    BY <1>2 DEF Leaving
  <2>1. PICK t \in Panel!Tasks : removing[t] # 0 /\ \E i \in removing[t]..5 : Panel!Order[i] = p
    BY <1>6 DEF PanelInv, Leaving
  <2>2. CASE t # task
    BY <1>6, <2>1, <2>2
  <2>3. CASE t = task
    <3>1. PICK i \in removing[task]..5 : Panel!Order[i] = p
      BY <2>1, <2>3
    <3>2. i \in left /\ p \in mounted
      BY <1>6, <3>1
    <3>3. first \in left /\ first <= i /\ mounted' = mounted \ {Panel!Order[first]}
          /\ removing' = [removing EXCEPT ![task] = IF first = 5 THEN 0 ELSE first + 1]
      BY <1>4, <1>5, <3>2
    <3>4. first # i
      BY <3>1, <3>3
    <3>5. first \in 1..5 /\ i \in 1..5
      BY <1>1, <3>3
    <3> HIDE DEF first, left
    <3>6. removing'[task] = first + 1 /\ i \in (first + 1)..5 /\ first + 1 # 0
      BY <3>3, <3>4, <3>5 DEF PanelInv, PanelTypes
    <3> QED
      BY <3>1, <3>6
  <2> QED
    BY <2>2, <2>3
<1>9. Current'
  BY <1>2, <1>3 DEF PanelInv, Current
<1>10. Alone'
  BY <1>2, <1>3 DEF PanelInv, Alone, Current
<1> QED
  BY <1>7, <1>8, <1>9, <1>10 DEF PanelInv

\* Menus.
LEMMA MenuKept ==
  ASSUME Panel!PanelAssumption, PanelInv, (\E offer \in {"config", "picker"} : Panel!Show(offer)) \/
           Panel!Closed \/ Panel!Follow
  PROVE  PanelInv'
<1> USE DEF Panel!PanelAssumption
<1>1. CASE \E offer \in {"config", "picker"} : Panel!Show(offer)
  BY <1>1 DEF Panel!Show, PanelInv, PanelTypes, Leaving, Current, Alone, Panel!Closing
<1>2. CASE Panel!Closed
  <2>1. /\ inbox # <<>> /\ Head(inbox) \in {"closed", "opened"} /\ inbox' = Tail(inbox) /\
                             Panel!SwitchToInput("app")
        /\ next' \in {"none", "picker"} /\ "app" \in Panel!Tasks
        /\ UNCHANGED <<mounted, asking, remoteAsks, rewinding, chosen, selecting, shown, overlapped, swept>>
    BY <1>2 DEF Panel!Closed, Panel!Tasks
  <2>2. Leaving' /\ Current' /\ removing' \in [Panel!Tasks -> 0..5] /\ currentPanel' = "input"
    BY <2>1, InputShown
  <2>3. inbox' \in Seq(Posted) /\ Len(inbox') <= MaxPosted
    BY <2>1, TakenFirst
  <2>4. PanelTypes'
    BY <2>1, <2>2, <2>3 DEF PanelInv, PanelTypes
  <2>5. ~overlapped => currentPanel \in {"input", "config", "picker"}
    BY <2>1, HeadSent DEF Sends
  <2>6. Alone'
    BY <2>1, <2>2, <2>5 DEF PanelInv, Alone
  <2> QED
    BY <2>2, <2>4, <2>6 DEF PanelInv
<1>3. CASE Panel!Follow
  <2>1. next' = "none" /\ next \in Panel!Panels
        /\ UNCHANGED <<removing, asking, remoteAsks, rewinding, chosen, selecting, inbox>>
    BY <1>3, PanelOrder DEF Panel!Follow, PanelInv, PanelTypes
  <2>2. CASE UNCHANGED <<currentPanel, mounted, shown, overlapped, swept>>
    BY <2>1, <2>2 DEF PanelInv, PanelTypes, Leaving, Current, Alone, Panel!Closing
  <2>3. CASE Panel!SwitchFromInput(next)
    BY <1>3, <2>1, <2>3, PanelShown DEF PanelInv, PanelTypes, Panel!Follow, Alone
  <2> QED
    BY <1>3, <2>2, <2>3 DEF Panel!Follow
<1> QED
  BY <1>1, <1>2, <1>3

\* Prompts.
LEMMA PanelAskKept ==
  ASSUME Panel!PanelAssumption, PanelInv, NEW who \in {"turn", "teleport"}, Panel!Ask(who)
  PROVE  PanelInv'
<1> USE DEF Panel!PanelAssumption
<1>1. asking = Panel!Nobody /\ asking' = [who |-> who, now |-> "asked"] /\
        Panel!SwitchFromInput("prompt") /\ "prompt" \in Panel!Panels
      /\ UNCHANGED <<removing, remoteAsks, rewinding, chosen, selecting, inbox, next>>
  BY PanelOrder DEF Panel!Ask
<1>2. /\ Leaving' /\ Current' /\ currentPanel' \in Panel!Panels /\ mounted' \subseteq Panel!Panels /\
           shown' \in 0..MaxPanels
      /\ overlapped' \in BOOLEAN /\ swept' \in BOOLEAN /\ currentPanel' = "prompt" /\
           mounted' = mounted \union {"prompt"}
      /\ ~overlapped' => /\ ~overlapped /\ ~swept' /\ mounted = {} /\ ~Panel!Closing
                         /\ inbox = <<>> /\ selecting = "no"
                         /\ mounted' = {"prompt"} /\ Len(inbox) = 0
                         /\ ~remoteAsks /\ ~rewinding /\ asking.now \notin {"asked", "answered"}
  BY <1>1, PanelShown
<1>3. asking' \in [who : {"nobody", "turn", "teleport"}, now : {"idle", "asked", "answered", "closing"}]
      /\ asking'.now = "asked"
  BY <1>1
<1>4. PanelTypes'
  BY <1>1, <1>2, <1>3 DEF PanelInv, PanelTypes
<1>5. Alone'
  BY <1>1, <1>2, <1>3 DEF Alone
<1> QED
  BY <1>2, <1>4, <1>5 DEF PanelInv

LEMMA AnsweredKept ==
  ASSUME Panel!PanelAssumption, PanelInv, Panel!Answered \/ Panel!Interrupt \/ Panel!Unlocks
  PROVE  PanelInv'
<1> USE DEF Panel!PanelAssumption
<1>1. UNCHANGED <<currentPanel, mounted, removing, remoteAsks, rewinding, chosen, selecting, next,
        shown, overlapped, swept>>
  BY DEF Panel!Answered, Panel!Interrupt, Panel!Unlocks
<1>2. asking' \in [who : {"nobody", "turn", "teleport"}, now : {"idle", "asked", "answered", "closing"}]
  BY DEF Panel!Answered, Panel!Interrupt, Panel!Unlocks, Panel!Nobody, PanelInv, PanelTypes
<1>3. asking'.now \in {"asked", "answered"} <=> asking.now \in {"asked", "answered"}
  BY DEF Panel!Answered, Panel!Interrupt, Panel!Unlocks, Panel!Nobody, PanelInv, PanelTypes
<1>4. inbox' \in Seq(Posted) /\ Len(inbox') <= MaxPosted
      /\ (~overlapped /\ currentPanel # "input" => \A i \in 1..Len(inbox') : Sends(currentPanel, inbox'[i]))
  BY TakenFirst DEF PanelInv, Alone, PanelTypes, Panel!Answered, Panel!Interrupt, Panel!Unlocks
<1>5. PanelTypes'
  BY <1>1, <1>2, <1>4 DEF PanelInv, PanelTypes
<1>6. Leaving' /\ Current'
  BY <1>1 DEF PanelInv, Leaving, Current, Panel!Closing
<1>7. Alone'
  BY <1>1, <1>3, <1>4 DEF PanelInv, Alone, Sends
<1> QED
  BY <1>5, <1>6, <1>7 DEF PanelInv

LEMMA PromptReturnsKept ==
  ASSUME Panel!PanelAssumption, PanelInv, Panel!Returns
  PROVE  PanelInv'
<1> USE DEF Panel!PanelAssumption
<1>1. /\ asking.now = "answered" /\ Panel!SwitchToInput("asker") /\
           asking' = [asking EXCEPT !.now = "closing"]
      /\ "asker" \in Panel!Tasks
      /\ UNCHANGED <<mounted, remoteAsks, rewinding, chosen, selecting, inbox, next, shown, overlapped,
           swept>>
  BY DEF Panel!Returns, Panel!Tasks
<1>2. Leaving' /\ Current' /\ removing' \in [Panel!Tasks -> 0..5] /\ currentPanel' = "input"
  BY <1>1, InputShown
<1>3. asking' \in [who : {"nobody", "turn", "teleport"}, now : {"idle", "asked", "answered", "closing"}]
      /\ asking'.now = "closing"
  BY <1>1 DEF PanelInv, PanelTypes
<1>4. PanelTypes'
  BY <1>1, <1>2, <1>3 DEF PanelInv, PanelTypes
<1>5. Alone'
  BY <1>1, <1>2, <1>3 DEF PanelInv, Alone
<1> QED
  BY <1>2, <1>4, <1>5 DEF PanelInv

\* A remote session waits for input.
LEMMA RemoteKept ==
  ASSUME Panel!PanelAssumption, PanelInv, Panel!RemoteWaits \/ Panel!RemoteTakesInput \/
           Panel!RemoteAnswered
  PROVE  PanelInv'
<1> USE DEF Panel!PanelAssumption
<1>1. CASE Panel!RemoteWaits
  BY <1>1, PanelOrder, PanelShown DEF Panel!RemoteWaits, PanelInv, PanelTypes, Alone
<1>2. CASE Panel!RemoteTakesInput
  <2>1. /\ ~remoteAsks /\ shown < MaxPanels /\ Panel!SwitchToInput("stream") /\ shown' = shown + 1 /\
             swept' = swept
        /\ "stream" \in Panel!Tasks
        /\ UNCHANGED <<mounted, asking, remoteAsks, rewinding, chosen, selecting, inbox, next>>
    BY <1>2 DEF Panel!RemoteTakesInput, Panel!Tasks
  <2>2. overlapped' = (overlapped \/ mounted # {} \/ Panel!Closing)
    BY <1>2 DEF Panel!RemoteTakesInput
  <2>3. Leaving' /\ Current' /\ removing' \in [Panel!Tasks -> 0..5] /\ currentPanel' = "input"
    BY <2>1, InputShown
  <2>4. overlapped' \in BOOLEAN /\ shown' \in 0..MaxPanels
    BY <2>1, <2>2 DEF PanelInv, PanelTypes
  <2>5. PanelTypes'
    BY <2>1, <2>3, <2>4 DEF PanelInv, PanelTypes
  <2>6. ~overlapped' => ~overlapped /\ mounted = {} /\ currentPanel \notin {"prompt", "remote"}
    BY <2>2 DEF PanelInv, Alone
  <2>7. ~overlapped' => (rewinding <=> selecting # "no")
    BY <2>6 DEF PanelInv, Alone
  <2>8. Alone'
    BY <2>1, <2>3, <2>6, <2>7 DEF PanelInv, Alone
  <2> QED
    BY <2>3, <2>5, <2>8 DEF PanelInv
<1>3. CASE Panel!RemoteAnswered
  <2>1. /\ inbox # <<>> /\ Head(inbox) = "remote" /\ inbox' = Tail(inbox)
        /\ UNCHANGED <<mounted, asking, rewinding, chosen, selecting, next, shown, overlapped, swept>>
    BY <1>3 DEF Panel!RemoteAnswered
  <2>2. inbox' \in Seq(Posted) /\ Len(inbox') <= MaxPosted
        /\ \A i \in 1..Len(inbox') : inbox'[i] = inbox[i + 1] /\ i + 1 \in 1..Len(inbox)
    BY <2>1, TakenFirst
  <2>3. ~overlapped => currentPanel \in {"input", "remote"}
    BY <2>1, HeadSent DEF Sends
  <2>4. CASE remoteAsks' = FALSE /\ Panel!SwitchToInput("app")
    <3>1. Leaving' /\ Current' /\ removing' \in [Panel!Tasks -> 0..5] /\ currentPanel' = "input"
      BY <2>1, <2>4, InputShown DEF Panel!Tasks
    <3>2. PanelTypes'
      BY <2>1, <2>2, <2>4, <3>1 DEF PanelInv, PanelTypes
    <3>3. Alone'
      BY <2>1, <2>3, <2>4, <3>1 DEF PanelInv, Alone
    <3> QED
      BY <3>1, <3>2, <3>3 DEF PanelInv
  <2>5. CASE UNCHANGED <<remoteAsks, currentPanel, removing>>
    <3>1. PanelTypes'
      BY <2>1, <2>2, <2>5 DEF PanelInv, PanelTypes
    <3>2. Leaving' /\ Current'
      BY <2>1, <2>5 DEF PanelInv, Leaving, Current, Panel!Closing
    <3>3. ~overlapped /\ currentPanel # "input" => \A i \in 1..Len(inbox') : Sends(currentPanel, inbox'[i])
      BY <2>2 DEF PanelInv, Alone
    <3>4. Alone'
      BY <2>1, <2>5, <3>3 DEF PanelInv, Alone, Sends
    <3> QED
      BY <3>1, <3>2, <3>4 DEF PanelInv
  <2> QED
    BY <1>3, <2>4, <2>5 DEF Panel!RemoteAnswered
<1> QED
  BY <1>1, <1>2, <1>3


\* Rewinding.
LEMMA RewindingKept ==
  ASSUME Panel!PanelAssumption, PanelInv, Panel!Rewind \/ Panel!Select \/ Panel!Replaced
  PROVE  PanelInv'
<1> USE DEF Panel!PanelAssumption
<1>1. CASE Panel!Rewind
  BY <1>1 DEF Panel!Rewind, PanelInv, PanelTypes, Leaving, Current, Alone, Panel!Closing, Sends
<1>2. CASE Panel!Select /\ UNCHANGED <<currentPanel, shown, overlapped, swept>>
  <2>1. /\ chosen' = TRUE /\ selecting = "called" /\ currentPanel = "rewind"
        /\ (selecting' = "no" /\ mounted' = mounted) \/ (selecting' = "replacing" /\
                                                         mounted' = mounted \ {"rewind"})
        /\ UNCHANGED <<removing, asking, remoteAsks, rewinding, inbox, next>>
    BY <1>2 DEF Panel!Select
  <2>2. PanelTypes'
    BY <1>2, <2>1 DEF PanelInv, PanelTypes
  <2>3. Leaving'
    BY <1>2, <2>1 DEF Leaving
  <2>4. Current'
    BY <1>2, <2>1 DEF PanelInv, Current, Panel!Closing
  <2>5. ~overlapped => mounted = {"rewind"}
    BY <2>1 DEF PanelInv, Alone
  <2>6. Alone'
    BY <1>2, <2>1, <2>5 DEF PanelInv, Alone, Sends
  <2> QED
    BY <2>2, <2>3, <2>4, <2>6 DEF PanelInv
<1>3. CASE Panel!Select /\ currentPanel' # currentPanel
  <2>1. /\ chosen' = TRUE /\ selecting = "called" /\ selecting' = "no" /\ currentPanel' = "rewind"
        /\ shown < MaxPanels /\ mounted' = mounted \union {"rewind"} /\ shown' = shown + 1
        /\ UNCHANGED <<removing, asking, remoteAsks, rewinding, inbox, next>>
    BY <1>3 DEF Panel!Select
  <2>2. /\ overlapped' = (overlapped \/ mounted # {} \/ Panel!Closing \/ inbox # <<>>)
        /\ swept' = (swept \/ Panel!Closing)
    BY <1>3 DEF Panel!Select
  <2>3. PanelTypes'
    BY <2>1, <2>2, PanelOrder DEF PanelInv, PanelTypes
  <2>4. Leaving' /\ Current'
    BY <2>1, <2>2 DEF PanelInv, Leaving, Current, Panel!Closing
  <2>5. ~overlapped' => /\ ~overlapped /\ ~swept' /\ mounted' = {"rewind"} /\ Len(inbox) = 0
                          /\ currentPanel = "input"
    BY <2>1, <2>2 DEF PanelInv, Alone
  <2>6. Alone'
    BY <2>1, <2>5 DEF PanelInv, Alone, Sends
  <2> QED
    BY <2>3, <2>4, <2>6 DEF PanelInv
<1>4. CASE Panel!Replaced
  <2>1. /\ selecting = "replacing" /\ selecting' = "no" /\ currentPanel' = "rewind" /\
             mounted' = mounted \union {"rewind"}
        /\ UNCHANGED <<removing, asking, remoteAsks, rewinding, chosen, inbox, next, shown>>
    BY <1>4 DEF Panel!Replaced
  <2>2. /\ overlapped' = (overlapped \/ mounted # {} \/ Panel!Closing \/ inbox # <<>> \/
                          currentPanel # "rewind")
        /\ swept' = (swept \/ Panel!Closing)
    BY <1>4 DEF Panel!Replaced
  <2>3. PanelTypes'
    BY <2>1, <2>2, PanelOrder DEF PanelInv, PanelTypes
  <2>4. Leaving' /\ Current'
    BY <2>1, <2>2 DEF PanelInv, Leaving, Current, Panel!Closing
  <2>5. ~overlapped' => /\ ~overlapped /\ ~swept' /\ mounted' = {"rewind"} /\ Len(inbox) = 0
                          /\ currentPanel = "rewind"
    BY <2>1, <2>2 DEF PanelInv, Alone
  <2>6. Alone'
    BY <2>1, <2>5 DEF PanelInv, Alone, Sends
  <2> QED
    BY <2>3, <2>4, <2>6 DEF PanelInv
<1>5. Panel!Select => UNCHANGED <<currentPanel, shown, overlapped, swept>> \/ currentPanel' # currentPanel
  BY DEF Panel!Select
<1> QED
  BY <1>1, <1>2, <1>3, <1>4, <1>5

LEMMA RewoundKept ==
  ASSUME Panel!PanelAssumption, PanelInv, Panel!ExitRewind \/ Panel!ExecuteRewind
  PROVE  PanelInv'
<1> USE DEF Panel!PanelAssumption
<1>1. ASSUME NEW task \in Panel!Tasks, Panel!SwitchToInput(task), rewinding' = FALSE, chosen' = FALSE,
               swept' = swept,
             overlapped' = (overlapped \/ selecting # "no"), ~overlapped =>
               currentPanel \in {"input", "rewind"},
             inbox' \in Seq(Posted), Len(inbox') <= MaxPosted,
             UNCHANGED <<mounted, asking, remoteAsks, selecting, next, shown>>
      PROVE  PanelInv'
  BY <1>1, InputShown DEF PanelInv, PanelTypes, Alone
<1>2. CASE Panel!ExitRewind
  BY <1>1, <1>2 DEF Panel!ExitRewind, PanelInv, PanelTypes, Panel!Tasks
<1>3. CASE Panel!ExecuteRewind
  <2>1. inbox # <<>> /\ Head(inbox) = "rewind" /\ inbox' = Tail(inbox)
    BY <1>3 DEF Panel!ExecuteRewind
  <2>2. inbox' \in Seq(Posted) /\ Len(inbox') <= MaxPosted
        /\ \A i \in 1..Len(inbox') : inbox'[i] = inbox[i + 1] /\ i + 1 \in 1..Len(inbox)
    BY <2>1, TakenFirst
  <2>3. ~overlapped => currentPanel \in {"input", "rewind"}
    BY <2>1, HeadSent DEF Sends
  <2>4. CASE Panel!SwitchToInput("app")
    <3>1. "app" \in Panel!Tasks /\ currentPanel' = "input" /\ removing' # removing
      BY <2>4 DEF Panel!SwitchToInput, Panel!Tasks, PanelInv, PanelTypes
    <3> QED
      BY <1>1, <1>3, <2>2, <2>3, <2>4, <3>1 DEF Panel!ExecuteRewind
  <2>5. CASE UNCHANGED <<rewinding, chosen, currentPanel, removing, overlapped, swept>>
    <3>1. UNCHANGED <<mounted, asking, remoteAsks, selecting, next, shown>>
      BY <1>3 DEF Panel!ExecuteRewind
    <3>2. PanelTypes'
      BY <2>2, <2>5, <3>1 DEF PanelInv, PanelTypes
    <3>3. Leaving' /\ Current'
      BY <2>5, <3>1 DEF PanelInv, Leaving, Current, Panel!Closing
    <3>4. ~overlapped /\ currentPanel # "input" => \A i \in 1..Len(inbox') : Sends(currentPanel, inbox'[i])
      BY <2>2 DEF PanelInv, Alone
    <3>5. Alone'
      BY <2>5, <3>1, <3>4 DEF PanelInv, Alone, Sends
    <3> QED
      BY <3>2, <3>3, <3>5 DEF PanelInv
  <2> QED
    BY <1>3, <2>4, <2>5 DEF Panel!ExecuteRewind
<1> QED
  BY <1>2, <1>3

LEMMA PanelStep ==
  ASSUME Panel!PanelAssumption, PanelInv, [Panel!PanelNext]_Panel!panelVars
  PROVE  PanelInv'
<1>1. CASE \E offer \in {"config", "picker"} : Panel!Show(offer) \/ Panel!Close(offer)
  <2>1. ASSUME NEW offer \in {"config", "picker"}, Panel!Close(offer) PROVE PanelInv'
    BY <2>1, PanelOrder, PostKept DEF Posted, Sends, Panel!Close
  <2> QED
    BY <1>1, <2>1, MenuKept
<1>2. CASE Panel!OpenPicker \/ Panel!Answer \/ Panel!AnswerRemote \/ Panel!PickRewind
  BY <1>2, PanelOrder, PostKept DEF Posted, Sends, Panel!OpenPicker, Panel!Answer,
                                    Panel!AnswerRemote, Panel!PickRewind
<1>3. CASE Panel!Closed \/ Panel!Follow
  BY <1>3, MenuKept
<1>4. CASE \E who \in {"turn", "teleport"} : Panel!Ask(who)
  BY <1>4, PanelAskKept
<1>5. CASE Panel!Answered \/ Panel!Interrupt \/ Panel!Unlocks \/ Panel!Returns
  BY <1>5, AnsweredKept, PromptReturnsKept
<1>6. CASE Panel!RemoteWaits \/ Panel!RemoteTakesInput \/ Panel!RemoteAnswered
  BY <1>6, RemoteKept
<1>7. CASE Panel!Rewind \/ Panel!Select \/ Panel!Replaced \/ Panel!ExitRewind \/ Panel!ExecuteRewind
  BY <1>7, RewindingKept, RewoundKept
<1>8. CASE \E t \in Panel!Tasks : Panel!Remove(t)
  BY <1>8, RemoveKept
<1>9. CASE UNCHANGED Panel!panelVars
  BY <1>9 DEF Panel!panelVars, PanelInv, PanelTypes, Leaving, Current, Alone, Panel!Closing, Sends
<1> QED
  BY <1>1, <1>2, <1>3, <1>4, <1>5, <1>6, <1>7, <1>8, <1>9 DEF Panel!PanelNext

-----------------------------------------------------------------------------
(* The session on the screen. SwitchInv: whose events are read, what was   *)
(* asked for input and was answered, and for whom a prompt or an answer    *)
(* that is typed is meant.                                                 *)

Events == Switch!Asks \union {"answered", "end"}
Log == workflows[attached.id]
Whats == {"idle", "listing", "sends"}

Sources == [id : Remotes \union {NoSession}, seen : 0..MaxFollowed, pending : 0..MaxFollowed,
            over : BOOLEAN]
Streams == [now : {"none", "reads", "shows"}, event : Nat]
Screens == [of : Switch!Sessions \union {NoSession}, remote : BOOLEAN]
OpenPanels == [question : 0..MaxFollowed, picker : SUBSET Switch!Sessions]
Handlers == [what : Whats, text : {"typed", "answer"}, ask : 0..MaxFollowed, sent : BOOLEAN]
Happenings == [strayed : BOOLEAN, orphaned : BOOLEAN, dropped : BOOLEAN, crashed : BOOLEAN]

SwitchTypes ==
  /\ workflows \in [Remotes -> Seq(Events)] /\ \A r \in Remotes : Len(workflows[r]) <= MaxFollowed
  /\ savedSessions \subseteq Locals /\ ownSession \in Locals \union {NoSession}
  /\ attached \in Sources /\ followed \in Streams /\ waitingInput \in 0..MaxFollowed
  /\ onScreen \in Screens /\ panels \in OpenPanels /\ handling \in Handlers
  /\ happened \in Happenings

\* A workflow that asks goes on when it is answered.
AsksAnswered ==
  \A r \in Remotes : \A i \in 1..Len(workflows[r]) :
    workflows[r][i] \in Switch!Asks /\ i < Len(workflows[r]) => workflows[r][i + 1] = "answered"

\* What the source has read, and that a request it knows of is the last that it has read.
\* An answer that was delivered is in the log.
Attached ==
  /\ attached.id = NoSession =>
       attached.seen = 0 /\ attached.pending = 0 /\ followed.now = "none" /\ waitingInput = 0 /\
         handling.what # "sends"
  /\ followed.now = "shows" => followed.event = attached.seen /\ attached.seen > 0
  /\ attached.id # NoSession =>
       /\ attached.seen <= Len(Log) /\ attached.pending \in {0, attached.seen}
       /\ attached.pending # 0 => Log[attached.seen] \in Switch!Asks
       /\ handling.what = "sends" /\ handling.sent => handling.ask < Len(Log)

\* The last request is known, or it has been answered.
RequestKnown ==
  ~happened.dropped /\ attached.id # NoSession /\ attached.seen > 0 /\ Log[attached.seen] \in Switch!Asks =>
    attached.pending = attached.seen \/ attached.seen < Len(Log)

\* An open question is the last that was shown, unless its answer is on its way.
Answering == handling.what = "sends" /\ handling.text = "answer"
ShownTo == IF followed.now = "shows" THEN attached.seen - 1 ELSE attached.seen
QuestionShown ==
  ~happened.orphaned /\ ~happened.crashed /\ panels.question # 0 =>
    /\ followed.now # "none" /\ (waitingInput # 0 \/ Answering)
    /\ ~Answering => panels.question = ShownTo /\ Log[panels.question] = "choose"

SwitchInv ==
  /\ SwitchTypes /\ AsksAnswered /\ Attached /\ RequestKnown /\ QuestionShown /\ Switch!ScreenIsSession

LEMMA SwitchRecords ==
  ASSUME Switch!SwitchAssumption
  PROVE  /\ Switch!Idle \in Handlers /\ Switch!Detached \in Sources /\ Switch!NoPanel \in OpenPanels /\
              Switch!NoStream \in Streams
         /\ \A w \in Whats : [Switch!Idle EXCEPT !.what = w] \in Handlers
         /\ \A r \in Remotes : [Switch!Detached EXCEPT !.id = r] \in Sources
         /\ Switch!Idle.what = "idle" /\ Switch!NoPanel.question = 0 /\ Switch!NoStream.now = "none" /\
              Switch!Detached.id = NoSession
         /\ [now |-> "reads", event |-> 0] \in Streams
<1> USE DEF Switch!SwitchAssumption
<1>0. 0 \in 0..MaxFollowed
  OBVIOUS
<1>1. Switch!Idle \in Handlers
  BY <1>0 DEF Handlers, Switch!Idle, Whats
<1>2. Switch!Detached \in Sources
  BY <1>0 DEF Sources, Switch!Detached
<1>5. ASSUME NEW w \in Whats PROVE [Switch!Idle EXCEPT !.what = w] \in Handlers
  BY <1>1 DEF Handlers
<1>6. ASSUME NEW r \in Remotes PROVE [Switch!Detached EXCEPT !.id = r] \in Sources
  BY <1>2 DEF Sources
<1>3. Switch!NoPanel \in OpenPanels
  BY DEF Switch!NoPanel, OpenPanels
<1>4. Switch!NoStream \in Streams /\ [now |-> "reads", event |-> 0] \in Streams
  BY DEF Switch!NoStream, Streams
<1> QED
  BY <1>1, <1>2, <1>3, <1>4, <1>5, <1>6 DEF Switch!Idle, Switch!Detached, Switch!NoPanel, Switch!NoStream

LEMMA SwitchFields ==
  ASSUME Switch!SwitchAssumption, SwitchTypes
  PROVE  /\ attached.id \in Remotes \union {NoSession} /\ attached.seen \in 0..MaxFollowed /\
              attached.pending \in 0..MaxFollowed
         /\ followed.now \in {"none", "reads", "shows"} /\ followed.event \in Nat
         /\ onScreen.of \in Switch!Sessions \union {NoSession} /\ onScreen.remote \in BOOLEAN
         /\ panels.question \in 0..MaxFollowed /\ panels.picker \subseteq Switch!Sessions
         /\ handling.what \in Whats /\ handling.ask \in 0..MaxFollowed
         /\ \A r \in Remotes : Len(workflows[r]) \in 0..MaxFollowed /\ workflows[r] \in Seq(Events)
<1>1. /\ attached.id \in Remotes \union {NoSession} /\ attached.seen \in 0..MaxFollowed /\
           attached.pending \in 0..MaxFollowed
      /\ followed.now \in {"none", "reads", "shows"} /\ followed.event \in Nat
  BY DEF SwitchTypes, Sources, Streams
<1>2. /\ onScreen.of \in Switch!Sessions \union {NoSession} /\ onScreen.remote \in BOOLEAN
      /\ panels.question \in 0..MaxFollowed /\ panels.picker \subseteq Switch!Sessions
  BY DEF SwitchTypes, Screens, OpenPanels
<1>3. handling.what \in Whats /\ handling.ask \in 0..MaxFollowed
  BY DEF SwitchTypes, Handlers
<1>4. \A r \in Remotes : Len(workflows[r]) \in 0..MaxFollowed /\ workflows[r] \in Seq(Events)
  BY DEF SwitchTypes, Switch!SwitchAssumption
<1> QED
  BY <1>1, <1>2, <1>3, <1>4

\* What happened is a set of marks, of which a step sets or clears one.
LEMMA MarksTyped ==
  ASSUME happened \in Happenings, NEW b \in BOOLEAN
  PROVE  /\ [happened EXCEPT !.strayed = b] \in Happenings /\
              [happened EXCEPT !.orphaned = b] \in Happenings
         /\ [happened EXCEPT !.dropped = b] \in Happenings /\ [happened EXCEPT !.crashed = b] \in Happenings
BY DEF Happenings

LEMMA SwitchInit ==
  ASSUME Switch!SwitchAssumption, Switch!Init
  PROVE  SwitchInv
<1> USE DEF Switch!SwitchAssumption, Switch!Init, Switch!Detached, Switch!NoStream, Switch!NoPanel,
            Switch!Idle
<1>1. \A r \in Remotes : workflows[r] = <<>> /\ Len(workflows[r]) = 0
  OBVIOUS
<1>2. workflows \in [Remotes -> Seq(Events)]
  OBVIOUS
<1>3. onScreen \in Screens /\ happened \in Happenings
  BY DEF Screens, Happenings
<1>4. SwitchTypes
  <2> HIDE DEF Switch!Detached, Switch!NoStream, Switch!NoPanel, Switch!Idle
  <2> QED
    BY <1>1, <1>2, <1>3, SwitchRecords DEF SwitchTypes
<1>5. AsksAnswered /\ RequestKnown
  BY <1>1 DEF AsksAnswered, RequestKnown
<1>6. Attached
  BY DEF Attached
<1>7. QuestionShown /\ Switch!ScreenIsSession
  BY DEF QuestionShown, Switch!ScreenIsSession
<1> QED
  BY <1>4, <1>5, <1>6, <1>7 DEF SwitchInv

LEMMA SwitchImplies ==
  ASSUME Switch!SwitchAssumption, SwitchInv
  PROVE  Switch!TypeOK /\ Switch!SwitchSafe
<1> USE DEF Switch!SwitchAssumption, SwitchInv
<1>1. Switch!TypeOK
  BY SwitchFields DEF SwitchTypes, Switch!TypeOK
<1>2. Switch!OneStream
  BY DEF Attached, Switch!OneStream
<1>3. Switch!RequestIsKept
  BY SwitchFields DEF SwitchTypes, Attached, RequestKnown, Switch!RequestIsKept, Switch!Quiet,
                      Switch!Waiting, Switch!Latest, Log
<1>4. Switch!QuestionIsAsked
  <2> SUFFICES ASSUME panels.question # 0, handling.what = "idle", ~happened.orphaned, ~happened.crashed
               PROVE  /\ waitingInput # 0 /\ attached.id # NoSession
                      /\ Switch!Quiet /\ ~happened.dropped => attached.pending = panels.question
    BY DEF Switch!QuestionIsAsked
  <2>1. waitingInput # 0 /\ attached.id # NoSession /\ panels.question = ShownTo /\
          Log[panels.question] = "choose"
    BY DEF QuestionShown, Answering, Attached
  <2>2. ASSUME Switch!Quiet, ~happened.dropped PROVE attached.pending = panels.question
    BY <2>1, <2>2, SwitchFields DEF Attached, RequestKnown, Switch!Quiet, ShownTo, Log, Switch!Asks
  <2> QED
    BY <2>1, <2>2
<1> QED
  BY <1>1, <1>2, <1>3, <1>4 DEF Switch!SwitchSafe

\* The workflows.
LEMMA EmitKept ==
  ASSUME Switch!SwitchAssumption, SwitchInv, NEW r \in Remotes,
           NEW event \in Switch!Asks \union {"end"}, Switch!Emit(r, event)
  PROVE  SwitchInv'
<1> USE DEF Switch!SwitchAssumption, SwitchInv, Switch!Emit
<1>1. /\ workflows[r] \in Seq(Events) /\ workflows'[r] = Append(workflows[r], event) /\ event \in Events
      /\ \A q \in Remotes : q # r => workflows'[q] = workflows[q]
  BY DEF SwitchTypes, Events
<1>2. SwitchTypes'
  BY <1>1 DEF SwitchTypes
<1>3. AsksAnswered'
  BY <1>1 DEF SwitchTypes, AsksAnswered, Switch!Waiting, Switch!Latest
<1>4. attached.id \in Remotes => /\ Log \in Seq(Events) /\ Len(Log) <= Len(Log')
                                 /\ \A i \in 1..Len(Log) : Log'[i] = Log[i]
  BY <1>1, SwitchFields DEF Log
<1>5. Attached'
  BY <1>4, SwitchFields DEF Attached
<1>6. RequestKnown' /\ Switch!ScreenIsSession'
  BY <1>4, SwitchFields DEF Attached, RequestKnown, Switch!ScreenIsSession
<1>7. QuestionShown'
  BY <1>4, SwitchFields DEF Attached, QuestionShown, ShownTo, Answering
<1> QED
  BY <1>2, <1>3, <1>5, <1>6, <1>7

LEMMA DeliveredKept ==
  ASSUME Switch!SwitchAssumption, SwitchInv, Switch!Delivered
  PROVE  SwitchInv'
<1> USE DEF Switch!SwitchAssumption, SwitchInv, Switch!Delivered
<1>1. attached.id \in Remotes /\ attached.id # NoSession
  BY SwitchFields DEF Attached
<1>2. /\ Log \in Seq(Events) /\ Log' = Append(Log, "answered")
      /\ \A q \in Remotes : q # attached.id => workflows'[q] = workflows[q]
      /\ workflows'[attached.id] = Append(Log, "answered")
  BY <1>1 DEF SwitchTypes, Log
<1>3. SwitchTypes'
  <2>1. workflows' \in [Remotes -> Seq(Events)]
    BY <1>1, <1>2 DEF SwitchTypes, Events
  <2>2. \A r \in Remotes : Len(workflows'[r]) <= MaxFollowed
    BY <1>1, <1>2 DEF SwitchTypes, Log
  <2>3. handling' \in Handlers
    BY DEF SwitchTypes, Handlers
  <2> QED
    BY <2>1, <2>2, <2>3 DEF SwitchTypes
<1>4. AsksAnswered'
  BY <1>1, <1>2 DEF SwitchTypes, AsksAnswered, Switch!Waiting, Switch!Latest, Log
<1>0. handling' = [handling EXCEPT !.sent = TRUE] /\ handling'.what = "sends" /\
        handling'.text = handling.text /\ handling'.ask = handling.ask
  BY DEF SwitchTypes, Handlers
<1>5. Attached'
  BY <1>0, <1>1, <1>2, SwitchFields DEF SwitchTypes, Attached, Log
<1>6. RequestKnown' /\ QuestionShown' /\ Switch!ScreenIsSession'
  BY <1>0, <1>1, <1>2, SwitchFields DEF SwitchTypes, Attached, RequestKnown, QuestionShown,
                                        Switch!ScreenIsSession, ShownTo, Answering
<1> QED
  BY <1>3, <1>4, <1>5, <1>6

\* The stream.
LEMMA ReadKept ==
  ASSUME Switch!SwitchAssumption, SwitchInv, Switch!Read
  PROVE  SwitchInv'
<1> DEFINE n == attached.seen + 1
<1>1. /\ attached.id \in Remotes /\ Log \in Seq(Events) /\ Len(Log) <= MaxFollowed /\ n \in 1..Len(Log)
      /\ Log' = Log /\ Log[n] \in Events
  BY SwitchFields DEF SwitchInv, Switch!Read, Log
<1>2. /\ attached' = [id |-> attached.id, seen |-> n, over |-> Log[n] = "end",
                    pending |-> IF Log[n] \in Switch!Asks THEN n ELSE IF Log[n] = "answered" THEN 0 ELSE attached.pending]
      /\ followed' = [now |-> "shows", event |-> n] /\ followed.now = "reads"
      /\ UNCHANGED <<workflows, savedSessions, ownSession, waitingInput, onScreen, panels, handling,
           happened>>
  BY DEF SwitchInv, SwitchTypes, Switch!Read, Log, Sources
<1>3. Log[n] = "end" => attached.pending = 0
  BY <1>1, SwitchFields DEF SwitchInv, Attached, AsksAnswered, Log
<1> USE DEF Switch!SwitchAssumption, SwitchInv
<1>4. SwitchTypes'
  BY <1>1, <1>2, SwitchFields DEF Sources, Streams, SwitchTypes
<1>5. AsksAnswered' /\ Switch!ScreenIsSession'
  BY <1>2 DEF AsksAnswered, Switch!ScreenIsSession
<1>6. Attached'
  BY <1>1, <1>2, <1>3, SwitchFields DEF Attached, Events
<1>7. RequestKnown' /\ QuestionShown'
  BY <1>1, <1>2, <1>3, SwitchFields DEF Attached, RequestKnown, QuestionShown, ShownTo, Answering, Events
<1> QED
  BY <1>4, <1>5, <1>6, <1>7

LEMMA ShowsKept ==
  ASSUME Switch!SwitchAssumption, SwitchInv, Switch!Shows
  PROVE  SwitchInv'
<1> DEFINE event == Log[attached.seen]
<1>1. /\ attached.id \in Remotes /\ Log \in Seq(Events) /\ Len(Log) <= MaxFollowed /\
           attached.seen \in 1..Len(Log)
      /\ Log' = Log /\ event \in Events /\ followed.event = attached.seen /\ followed.now = "shows"
  BY SwitchFields DEF SwitchInv, Attached, Switch!Shows, Log
<1>2. /\ followed' = IF event = "end" THEN Switch!NoStream ELSE [now |-> "reads", event |-> 0]
      /\ waitingInput' = IF event \in Switch!Asks THEN attached.seen ELSE 0
      /\ UNCHANGED <<workflows, savedSessions, ownSession, attached, onScreen, handling>>
  BY <1>1 DEF Switch!Shows, Log
<1>3. /\ event = "choose" => panels' = [panels EXCEPT !.question = attached.seen]
      /\ event = "ask" \/ (event = "answered" /\ waitingInput # 0) => panels' = Switch!NoPanel
      /\ event = "end" \/ (event = "answered" /\ waitingInput = 0) => panels' = panels
  BY <1>1 DEF Switch!Shows, Log
<1>4. happened' = [happened EXCEPT !.orphaned = @ \/ (event = "end" /\ panels.question # 0)]
  BY <1>1 DEF Switch!Shows, Log
<1>5. event \in {"ask", "choose", "answered", "end"}
  BY <1>1 DEF Events, Switch!Asks
<1> HIDE DEF event
<1> USE DEF Switch!SwitchAssumption, SwitchInv
<1>6. SwitchTypes'
  <2>1. followed' \in Streams
    BY <1>2, SwitchRecords
  <2>2. waitingInput' \in 0..MaxFollowed
    BY <1>2, SwitchFields
  <2>3. panels' \in OpenPanels
    BY <1>1, <1>3, <1>5, SwitchRecords, SwitchFields DEF SwitchTypes, OpenPanels, Switch!Asks
  <2>4. happened' \in Happenings
    BY <1>4, MarksTyped DEF SwitchTypes, Happenings
  <2> QED
    BY <1>2, <2>1, <2>2, <2>3, <2>4 DEF SwitchTypes
<1>10. /\ happened'.strayed = happened.strayed /\ happened'.dropped = happened.dropped
       /\ happened'.crashed = happened.crashed
       /\ ~happened'.orphaned => ~happened.orphaned /\ ~(event = "end" /\ panels.question # 0)
  BY <1>4 DEF SwitchTypes, Happenings
<1>7. AsksAnswered' /\ Switch!ScreenIsSession'
  BY <1>2, <1>10 DEF AsksAnswered, Switch!ScreenIsSession
<1>8. Attached' /\ RequestKnown'
  BY <1>1, <1>2, <1>10, SwitchFields DEF Attached, RequestKnown, Switch!NoStream
<1>9. QuestionShown'
  <2> SUFFICES ASSUME ~happened'.orphaned, ~happened'.crashed, panels'.question # 0
               PROVE  /\ followed'.now # "none" /\ (waitingInput' # 0 \/ Answering')
                      /\ ~Answering' => panels'.question = ShownTo' /\ Log'[panels'.question] = "choose"
    BY DEF QuestionShown
  <2>1. Answering' <=> Answering
    BY <1>2 DEF Answering
  <2>2. CASE event = "choose"
    BY <1>1, <1>2, <1>3, <2>2 DEF SwitchTypes, OpenPanels, Switch!Asks, ShownTo, event
  <2>3. CASE event = "ask"
    BY <1>3, <2>3, SwitchRecords
  <2>4. CASE event = "end"
    BY <1>3, <1>10, <2>4
  <2>5. CASE event = "answered"
    BY <1>1, <1>2, <1>3, <1>10, <2>1, <2>5, SwitchRecords, SwitchFields
      DEF QuestionShown, ShownTo, Switch!Asks
  <2> QED
    BY <1>5, <2>2, <2>3, <2>4, <2>5
<1> QED
  BY <1>6, <1>7, <1>8, <1>9

LEMMA StreamFailsKept ==
  ASSUME Switch!SwitchAssumption, SwitchInv, Switch!StreamFails
  PROVE  SwitchInv'
<1> USE DEF Switch!SwitchAssumption, SwitchInv, Switch!StreamFails
<1>1. /\ happened'.strayed = happened.strayed /\ happened'.dropped = happened.dropped
      /\ ~happened'.orphaned => panels.question = 0
      /\ Log' = Log
  BY DEF SwitchTypes, Happenings, Log
<1>2. SwitchTypes'
  <2>1. happened' \in Happenings
    BY MarksTyped DEF SwitchTypes, Happenings
  <2>2. 0 \in 0..MaxFollowed
    OBVIOUS
  <2> QED
    BY <2>1, <2>2, SwitchRecords DEF SwitchTypes
<1>3. AsksAnswered' /\ Switch!ScreenIsSession'
  BY <1>1 DEF AsksAnswered, Switch!ScreenIsSession
<1>4. Attached' /\ RequestKnown' /\ QuestionShown'
  BY <1>1, SwitchRecords DEF Attached, RequestKnown, QuestionShown
<1> QED
  BY <1>2, <1>3, <1>4

\* Panels, and sessions that are picked.
LEMMA PickerKept ==
  ASSUME Switch!SwitchAssumption, SwitchInv, Switch!ShowPicker \/ Switch!Listed \/ Switch!Cancelled \/
           \E l \in Locals : Switch!Delete(l)
  PROVE  SwitchInv'
<1> USE DEF Switch!SwitchAssumption, SwitchInv
<1>1. Log' = Log /\ UNCHANGED <<workflows, ownSession, attached, followed, waitingInput, onScreen,
        happened>>
  BY DEF Log, Switch!ShowPicker, Switch!Listed, Switch!Cancelled, Switch!Delete
<1>2. handling' \in Handlers /\ ((handling.what # "sends" /\ handling'.what # "sends") \/
                                 handling' = handling)
  <2>1. CASE Switch!ShowPicker \/ Switch!Cancelled
    BY <2>1, SwitchRecords DEF Switch!ShowPicker, Switch!Cancelled, Switch!Handles, Whats, Handlers
  <2>2. CASE Switch!Listed
    BY <2>2, SwitchRecords DEF Switch!Listed
  <2>3. CASE \E l \in Locals : Switch!Delete(l)
    BY <2>3 DEF Switch!Delete, SwitchTypes
  <2> QED
    BY <2>1, <2>2, <2>3
<1>3. panels' \in OpenPanels /\ panels'.question \in {0, panels.question}
  <2>1. CASE Switch!Listed
    BY <2>1 DEF Switch!Listed, Switch!Offered, Switch!Running, Switch!Sessions, SwitchTypes,
                OpenPanels
  <2>2. CASE ~Switch!Listed
    BY <2>2, SwitchRecords DEF Switch!ShowPicker, Switch!Cancelled, Switch!Delete, SwitchTypes
  <2> QED
    BY <2>1, <2>2
<1>4. savedSessions' \subseteq Locals
  BY DEF SwitchTypes, Switch!ShowPicker, Switch!Listed, Switch!Cancelled, Switch!Delete
<1>5. SwitchTypes' /\ AsksAnswered' /\ Switch!ScreenIsSession'
  BY <1>1, <1>2, <1>3, <1>4 DEF SwitchTypes, AsksAnswered, Switch!ScreenIsSession
<1>6. Attached' /\ RequestKnown'
  BY <1>1, <1>2 DEF Attached, RequestKnown
<1>7. QuestionShown'
  BY <1>1, <1>2, <1>3 DEF QuestionShown, ShownTo, Answering
<1> QED
  BY <1>5, <1>6, <1>7

LEMMA LeftKept ==
  ASSUME Switch!SwitchAssumption, SwitchInv, Switch!ClearHistory \/ \E l \in Locals : Switch!ResumeLocal(l)
  PROVE  SwitchInv'
<1> USE DEF Switch!SwitchAssumption, SwitchInv
<1>1. /\ attached' = Switch!Detached /\ followed' = Switch!NoStream /\ waitingInput' = 0 /\
           handling' = [Switch!Idle EXCEPT !.what = "idle"]
      /\ panels' = Switch!NoPanel /\ UNCHANGED <<workflows, savedSessions>>
  BY DEF Switch!ClearHistory, Switch!ResumeLocal, Switch!Picked, Switch!Handles, Switch!Detach
<1>2. handling' \in Handlers /\ handling'.what = "idle"
  BY <1>1, SwitchRecords DEF Handlers, Whats
<1>3. /\ ownSession' \in Locals \union {NoSession} /\ onScreen' \in Screens /\ happened' \in Happenings
      /\ Switch!ScreenIsSession'
  <2>1. CASE Switch!ClearHistory
    BY <1>1, <2>1, SwitchFields, SwitchRecords DEF Switch!ClearHistory, Screens,
                                                   Switch!ScreenIsSession, SwitchTypes
  <2>2. ASSUME NEW l \in Locals, Switch!ResumeLocal(l), l \in savedSessions
        PROVE  /\ ownSession' \in Locals \union {NoSession} /\ onScreen' \in Screens /\
                    happened' \in Happenings
               /\ Switch!ScreenIsSession'
    <3>1. /\ ownSession' = l /\ onScreen' = [of |-> l, remote |-> FALSE]
          /\ happened' = [happened EXCEPT !.strayed = FALSE]
      BY <2>2 DEF Switch!ResumeLocal
    <3>2. onScreen' \in Screens
      BY <3>1 DEF Screens, Switch!Sessions
    <3>3. happened' \in Happenings
      BY <3>1, MarksTyped DEF SwitchTypes
    <3>4. Switch!ScreenIsSession'
      BY <1>1, <3>1, SwitchRecords DEF Switch!ScreenIsSession
    <3> QED
      BY <3>1, <3>2, <3>3, <3>4
  <2>3. ASSUME NEW l \in Locals, Switch!ResumeLocal(l), l \notin savedSessions
        PROVE  /\ ownSession' \in Locals \union {NoSession} /\ onScreen' \in Screens /\
                    happened' \in Happenings
               /\ Switch!ScreenIsSession'
    <3>1. /\ happened' = [happened EXCEPT !.strayed = @ \/ attached.id # NoSession]
          /\ UNCHANGED <<ownSession, onScreen>>
      BY <2>3 DEF Switch!ResumeLocal
    <3>2. happened' \in Happenings /\ (~happened'.strayed => ~happened.strayed /\ attached.id = NoSession)
      BY <3>1, MarksTyped DEF SwitchTypes, Happenings
    <3>3. Switch!ScreenIsSession'
      BY <1>1, <3>1, <3>2, SwitchRecords DEF Switch!ScreenIsSession
    <3> QED
      BY <3>1, <3>2, <3>3 DEF SwitchTypes
  <2> QED
    BY <2>1, <2>2, <2>3
<1>4. SwitchTypes'
  <2>1. 0 \in 0..MaxFollowed
    OBVIOUS
  <2> QED
    BY <1>1, <1>2, <1>3, <2>1, SwitchRecords DEF SwitchTypes
<1>5. AsksAnswered'
  BY <1>1 DEF AsksAnswered
<1>6. Attached' /\ RequestKnown' /\ QuestionShown'
  BY <1>1, <1>2, SwitchRecords DEF Attached, RequestKnown, QuestionShown, Switch!Detached
<1> QED
  BY <1>3, <1>4, <1>5, <1>6

LEMMA ResumeRemoteKept ==
  ASSUME Switch!SwitchAssumption, SwitchInv, NEW r \in Remotes, Switch!ResumeRemote(r)
  PROVE  SwitchInv'
<1> USE DEF Switch!SwitchAssumption, SwitchInv
<1>1. /\ attached' = [Switch!Detached EXCEPT !.id = r] /\ followed' = [now |-> "reads", event |-> 0] /\
           waitingInput' = 0
      /\ handling' = [Switch!Idle EXCEPT !.what = "idle"] /\ panels' = Switch!NoPanel
      /\ onScreen' = [of |-> r, remote |-> TRUE] /\ happened' = [happened EXCEPT !.strayed = FALSE]
      /\ UNCHANGED <<workflows, savedSessions, ownSession>>
  BY DEF Switch!ResumeRemote, Switch!Picked, Switch!Handles
<1>2. handling' \in Handlers /\ handling'.what = "idle"
  BY <1>1, SwitchRecords DEF Handlers, Whats
<1>3. attached' \in Sources /\ attached'.id = r /\ attached'.seen = 0 /\ attached'.pending = 0
  BY <1>1, SwitchRecords DEF Switch!Detached, Sources
<1>4. SwitchTypes'
  <2>1. onScreen' \in Screens
    BY <1>1 DEF Screens, Switch!Sessions
  <2>2. happened' \in Happenings
    BY <1>1, MarksTyped DEF SwitchTypes
  <2>3. 0 \in 0..MaxFollowed
    OBVIOUS
  <2> QED
    BY <1>1, <1>2, <1>3, <2>1, <2>2, <2>3, SwitchRecords DEF SwitchTypes
<1>5. AsksAnswered'
  BY <1>1 DEF AsksAnswered
<1>6. Len(workflows[r]) \in Nat /\ r # NoSession
  BY SwitchFields
<1>7. Attached' /\ RequestKnown' /\ QuestionShown'
  BY <1>1, <1>2, <1>3, <1>6, SwitchRecords DEF Attached, RequestKnown, QuestionShown, Log
<1>8. Switch!ScreenIsSession'
  BY <1>1, <1>3, <1>6 DEF Switch!ScreenIsSession
<1> QED
  BY <1>4, <1>5, <1>7, <1>8

\* Prompts and answers.
LEMMA SendKept ==
  ASSUME Switch!SwitchAssumption, SwitchInv, Switch!TypePrompt \/ Switch!AnswerQuestion
  PROVE  SwitchInv'
<1> USE DEF Switch!SwitchAssumption, SwitchInv
<1>1. /\ Log' = Log /\ attached.id # NoSession /\ waitingInput' = 0
      /\ UNCHANGED <<workflows, savedSessions, ownSession, attached, followed, onScreen, panels, happened>>
  BY DEF Log, Switch!TypePrompt, Switch!AnswerQuestion, Switch!MayPrompt
<1>2. /\ handling'.what = "sends" /\ ~handling'.sent
      /\ panels.question = 0 \/ handling'.text = "answer"
  BY DEF Switch!NoPanel, Switch!TypePrompt, Switch!AnswerQuestion
<1>3. SwitchTypes'
  <2>1. handling' \in Handlers
    <3>1. PICK t \in {"typed", "answer"} :
            handling' = [what |-> "sends", text |-> t, ask |-> attached.pending, sent |-> FALSE]
      BY DEF Switch!TypePrompt, Switch!AnswerQuestion
    <3> QED
      BY <3>1, SwitchFields DEF Handlers, Whats
  <2>2. 0 \in 0..MaxFollowed
    OBVIOUS
  <2> QED
    BY <1>1, <2>1, <2>2 DEF SwitchTypes
<1>4. AsksAnswered' /\ Switch!ScreenIsSession'
  BY <1>1 DEF AsksAnswered, Switch!ScreenIsSession
<1>5. Attached' /\ RequestKnown'
  BY <1>1, <1>2 DEF Attached, RequestKnown
<1>6. QuestionShown'
  BY <1>1, <1>2 DEF QuestionShown, Answering
<1> QED
  BY <1>3, <1>4, <1>5, <1>6

LEMMA CancelQuestionKept ==
  ASSUME Switch!SwitchAssumption, SwitchInv, Switch!CancelQuestion
  PROVE  SwitchInv'
<1> USE DEF Switch!SwitchAssumption, SwitchInv
<1>1. /\ Log' = Log /\ handling' = [Switch!Idle EXCEPT !.what = "idle"] /\ waitingInput' = 0 /\
           panels' = Switch!NoPanel
      /\ UNCHANGED <<workflows, savedSessions, ownSession, attached, followed, onScreen, happened>>
  BY DEF Log, Switch!CancelQuestion, Switch!Handles
<1>2. handling' \in Handlers /\ handling'.what = "idle"
  BY <1>1, SwitchRecords DEF Handlers, Whats
<1>3. SwitchTypes'
  <2>1. 0 \in 0..MaxFollowed
    OBVIOUS
  <2> QED
    BY <1>1, <1>2, <2>1, SwitchRecords DEF SwitchTypes
<1>4. AsksAnswered' /\ Switch!ScreenIsSession'
  BY <1>1 DEF AsksAnswered, Switch!ScreenIsSession
<1>5. Attached' /\ RequestKnown' /\ QuestionShown'
  BY <1>1, <1>2, SwitchRecords DEF Attached, RequestKnown, QuestionShown
<1> QED
  BY <1>3, <1>4, <1>5

LEMMA ReturnsKept ==
  ASSUME Switch!SwitchAssumption, SwitchInv, Switch!Returns
  PROVE  SwitchInv'
<1> USE DEF Switch!SwitchAssumption, SwitchInv
<1>1. /\ attached.id # NoSession /\ handling' = Switch!Idle
      /\ attached' = [attached EXCEPT !.pending = IF handling.ask = 0 THEN @ ELSE 0]
      /\ panels' = IF handling.text = "answer" THEN Switch!NoPanel ELSE panels
      /\ UNCHANGED <<workflows, savedSessions, ownSession, followed, waitingInput, onScreen>>
  BY DEF Attached, Switch!Returns
<1>2. /\ happened' \in Happenings /\ happened'.strayed = happened.strayed
      /\ happened'.orphaned = happened.orphaned /\ happened'.crashed = happened.crashed
      /\ ~happened'.dropped => ~happened.dropped /\ (handling.ask = 0 \/
                                                     attached.pending \in {0, handling.ask})
  BY MarksTyped DEF SwitchTypes, Switch!Returns, Happenings
<1>3. /\ attached' \in Sources /\ attached'.id = attached.id /\ attached'.seen = attached.seen
      /\ attached'.pending = IF handling.ask = 0 THEN attached.pending ELSE 0
      /\ Log' = Log
  <2>1. 0 \in 0..MaxFollowed
    OBVIOUS
  <2> QED
    BY <1>1, <2>1 DEF Log, SwitchTypes, Sources
<1>4. SwitchTypes'
  BY <1>1, <1>2, <1>3, SwitchRecords DEF SwitchTypes
<1>5. AsksAnswered' /\ Switch!ScreenIsSession'
  BY <1>1, <1>2, <1>3 DEF AsksAnswered, Switch!ScreenIsSession
<1>6. Attached'
  BY <1>1, <1>3, SwitchRecords DEF Attached
<1>7. RequestKnown'
  BY <1>1, <1>2, <1>3, SwitchFields DEF Switch!Returns, Attached, RequestKnown
<1>8. QuestionShown'
  BY <1>1, <1>2, <1>3, SwitchRecords DEF QuestionShown, ShownTo, Answering, Switch!Returns
<1> QED
  BY <1>4, <1>5, <1>6, <1>7, <1>8

LEMMA SendFailsKept ==
  ASSUME Switch!SwitchAssumption, SwitchInv, Switch!SendFails
  PROVE  SwitchInv'
<1> USE DEF Switch!SwitchAssumption, SwitchInv
<1>1. /\ Log' = Log /\ attached.id # NoSession /\ handling' = Switch!Idle /\
           waitingInput' = handling.ask /\ handling.ask # 0
      /\ UNCHANGED <<workflows, savedSessions, ownSession, attached, followed, onScreen, panels>>
  BY DEF Log, Attached, Switch!SendFails
<1>2. /\ happened' \in Happenings /\ happened'.strayed = happened.strayed
      /\ happened'.orphaned = happened.orphaned /\ happened'.dropped = happened.dropped
      /\ ~happened'.crashed => ~happened.crashed /\ handling.text # "answer"
  BY MarksTyped DEF SwitchTypes, Switch!SendFails, Happenings
<1>3. SwitchTypes'
  BY <1>1, <1>2, SwitchRecords, SwitchFields DEF SwitchTypes
<1>4. AsksAnswered' /\ Switch!ScreenIsSession'
  BY <1>1, <1>2 DEF AsksAnswered, Switch!ScreenIsSession
<1>5. Attached' /\ RequestKnown'
  BY <1>1, <1>2, SwitchRecords DEF Attached, RequestKnown
<1>6. QuestionShown'
  BY <1>1, <1>2, SwitchRecords DEF QuestionShown, ShownTo, Answering
<1> QED
  BY <1>3, <1>4, <1>5, <1>6

LEMMA SwitchStep ==
  ASSUME Switch!SwitchAssumption, SwitchInv, [Switch!SwitchNext]_Switch!switchVars
  PROVE  SwitchInv'
<1>1. ASSUME NEW r \in Remotes, NEW event \in Switch!Asks \union {"end"}, Switch!Emit(r, event)
      PROVE SwitchInv'
  BY <1>1, EmitKept
<1>2. ASSUME NEW l \in Locals, Switch!ResumeLocal(l) PROVE SwitchInv'
  BY <1>2, LeftKept
<1>3. ASSUME NEW r \in Remotes, Switch!ResumeRemote(r) PROVE SwitchInv'
  BY <1>3, ResumeRemoteKept
<1>4. CASE Switch!Read \/ Switch!Shows \/ Switch!StreamFails
  BY <1>4, ReadKept, ShowsKept, StreamFailsKept
<1>5. CASE Switch!ShowPicker \/ Switch!Listed \/ Switch!Cancelled \/ \E l \in Locals : Switch!Delete(l)
  BY <1>5, PickerKept
<1>6. CASE Switch!ClearHistory
  BY <1>6, LeftKept
<1>7. CASE Switch!TypePrompt \/ Switch!AnswerQuestion \/ Switch!CancelQuestion
  BY <1>7, SendKept, CancelQuestionKept
<1>8. CASE Switch!Delivered \/ Switch!Returns \/ Switch!SendFails
  BY <1>8, DeliveredKept, ReturnsKept, SendFailsKept
<1>9. CASE UNCHANGED Switch!switchVars
  BY <1>9 DEF Switch!switchVars, SwitchInv, SwitchTypes, AsksAnswered, Attached, RequestKnown,
              QuestionShown,
              Switch!ScreenIsSession, Log, ShownTo, Answering
<1> QED
  BY <1>1, <1>2, <1>3, <1>4, <1>5, <1>6, <1>7, <1>8, <1>9 DEF Switch!SwitchNext

-----------------------------------------------------------------------------
(* The folders that are trusted. TrustInv: what a program trusts was       *)
(* decided or is its own for this run, a dialog is open only where nothing *)
(* is decided, and, unless decisions of programs overlapped or one was     *)
(* killed, what was decided is what the file has, or what the program that *)
(* writes it has.                                                          *)

\* What is above a directory: it is itself, they are one above the other, and no two are
\* above each other.
LEMMA AboveIs ==
  ASSUME Start!TrustAssumption, NEW d \in Dirs
  PROVE  d \in Start!Above[d] /\ Start!Above[d] \subseteq Dirs /\ Start!HasParents(Start!Above[d])
<1> USE DEF Start!TrustAssumption
<1>1. Start!Above[d] = {a \in Dirs : \A S \in SUBSET Dirs : d \in S /\ Start!HasParents(S) => a \in S}
  BY DEF Start!Above
<1>2. ASSUME NEW x \in Start!Above[d], Parent[x] # Top PROVE Parent[x] \in Start!Above[d]
  BY <1>1, <1>2 DEF Start!HasParents
<1> QED
  BY <1>1, <1>2 DEF Start!HasParents

LEMMA AboveLeast ==
  ASSUME Start!TrustAssumption, NEW d \in Dirs, NEW S, S \subseteq Dirs, d \in S, Start!HasParents(S)
  PROVE  Start!Above[d] \subseteq S
BY DEF Start!Above

LEMMA AboveAbove ==
  ASSUME Start!TrustAssumption, NEW d \in Dirs, NEW a \in Start!Above[d]
  PROVE  a \in Dirs /\ Start!Above[a] \subseteq Start!Above[d]
BY AboveIs, AboveLeast

LEMMA NextAbove ==
  ASSUME Start!TrustAssumption, NEW d \in Dirs, NEW a \in Start!Above[d], a # d
  PROVE  Parent[d] \in Dirs /\ a \in Start!Above[Parent[d]]
<1> USE DEF Start!TrustAssumption
<1>1. CASE Parent[d] = Top
  <2>1. Start!HasParents({d})
    BY <1>1 DEF Start!HasParents
  <2> QED
    BY <2>1, AboveLeast
<1>2. CASE Parent[d] # Top
  <2>1. Parent[d] \in Dirs
    BY <1>2
  <2>2. Parent[d] \in Start!Above[Parent[d]] /\ Start!Above[Parent[d]] \subseteq Dirs /\
          Start!HasParents(Start!Above[Parent[d]])
    BY <2>1, AboveIs
  <2>3. Start!HasParents({d} \cup Start!Above[Parent[d]])
    BY <2>2 DEF Start!HasParents
  <2>4. Start!Above[d] \subseteq {d} \cup Start!Above[Parent[d]]
    BY <2>2, <2>3, AboveLeast
  <2> QED
    BY <2>1, <2>4
<1> QED
  BY <1>1, <1>2

LEMMA AboveOrdered ==
  ASSUME Start!TrustAssumption, NEW a \in Dirs, NEW b \in Dirs, a \in Start!Above[b], b \in Start!Above[a]
  PROVE  a = b
<1> SUFFICES ASSUME a # b PROVE FALSE
  OBVIOUS
<1>1. Parent[b] \in Dirs /\ a \in Start!Above[Parent[b]]
  BY NextAbove
<1>2. b \in Start!Above[Parent[b]]
  BY <1>1, AboveAbove
<1> QED
  BY <1>1, <1>2 DEF Start!TrustAssumption

LEMMA NearestIs ==
  ASSUME Start!TrustAssumption, NEW d \in Dirs, NEW S, Start!Above[d] \cap S # {}
  PROVE  /\ Start!Nearest(d, S) \in Start!Above[d] \cap S /\ Start!Nearest(d, S) \in Dirs
         /\ \A b \in Start!Above[d] \cap S : b \in Start!Above[Start!Nearest(d, S)]
<1> DEFINE T == Start!Above[d] \cap S
<1>1. \E a \in T : \A b \in T : b \in Start!Above[a]
  <2> SUFFICES ASSUME \A a \in T : ~(T \subseteq Start!Above[a]) PROVE FALSE
    OBVIOUS
  <2> DEFINE U == {x \in Start!Above[d] : T \subseteq Start!Above[x]}
  <2>1. d \in U /\ U \subseteq Dirs
    BY AboveIs
  <2>2. ASSUME NEW x \in U, Parent[x] # Top PROVE Parent[x] \in U
    <3>1. x \in Dirs /\ x \notin T /\ x \in Start!Above[d]
      BY <2>1, <2>2
    <3>2. Parent[x] \in Start!Above[d]
      BY <2>2, <3>1, AboveIs DEF Start!HasParents
    <3>3. T \subseteq Start!Above[Parent[x]]
      BY <2>2, <3>1, NextAbove
    <3> QED
      BY <3>2, <3>3
  <2>3. Start!HasParents(U)
    BY <2>2 DEF Start!HasParents
  <2> HIDE DEF U
  <2>4. Start!Above[d] \subseteq U
    BY <2>1, <2>3, AboveLeast
  <2>5. PICK a \in T : TRUE
    OBVIOUS
  <2> QED
    BY <2>4, <2>5 DEF U
<1>2. Start!Nearest(d, S) = CHOOSE a \in T : \A b \in T : b \in Start!Above[a]
  BY DEF Start!Nearest
<1>3. Start!Nearest(d, S) \in T /\ \A b \in T : b \in Start!Above[Start!Nearest(d, S)]
  BY <1>1, <1>2
<1> QED
  BY <1>3, AboveIs

LEMMA TrustIs ==
  ASSUME Start!TrustAssumption, NEW q, q.cwd \in Dirs, NEW d \in Dirs
  PROVE  /\ Start!IsTrusted(q, d) = "unknown" =>
              Start!Above[d] \cap (q.trusted \cup q.session \cup q.untrusted) = {}
         /\ Start!IsTrusted(q, d) = "trusted" =>
              /\ Start!Above[d] \cap (q.trusted \cup q.session) # {}
              /\ Start!Nearest(d, q.trusted \cup q.session \cup q.untrusted) \in q.trusted \cup q.session
         /\ Start!Above[d] \cap (q.trusted \cup q.session) # {} /\
              Start!Nearest(d, q.trusted \cup q.session \cup q.untrusted) \in q.trusted \cup q.session =>
              Start!IsTrusted(q, d) = "trusted"
<1> DEFINE yes == q.trusted \cup q.session
           all == yes \cup q.untrusted
           a == Start!Nearest(d, all)
<1>1. Top \notin Dirs
  BY DEF Start!TrustAssumption
<1>2. Start!Above[d] \cap all # {} => a \in Start!Above[d] \cap all /\ a \in Dirs
  BY NearestIs
<1>3. Start!Above[d] \cap all = {} => a = Top
  BY DEF Start!Nearest
<1>4. Start!IsTrusted(q, d) = IF a = Top THEN "unknown" ELSE IF a \in yes THEN "trusted" ELSE "untrusted"
  BY DEF Start!IsTrusted
<1> HIDE DEF a
<1>5. yes \subseteq all
  OBVIOUS
<1>6. Start!Above[d] \cap yes # {} => Start!Above[d] \cap all # {}
  OBVIOUS
<1>7. Start!IsTrusted(q, d) = "unknown" => Start!Above[d] \cap all = {}
  BY <1>1, <1>2, <1>4
<1>8. Start!IsTrusted(q, d) = "trusted" => a \in yes /\ a # Top
  BY <1>4
<1>9. a # Top => a \in Start!Above[d]
  BY <1>2, <1>3
<1>10. Start!Above[d] \cap yes # {} /\ a \in yes => Start!IsTrusted(q, d) = "trusted"
  BY <1>1, <1>2, <1>4, <1>6
<1> QED
  BY <1>7, <1>8, <1>9, <1>10 DEF a

LEMMA DocsAreTrusted ==
  ASSUME Start!TrustAssumption, NEW q, q.cwd \in Dirs
  PROVE  /\ \A d \in Start!LoadProjectDocs(q) : Start!IsTrusted(q, d) = "trusted"
         /\ \A d \in Dirs : Start!FindSubdirectoryDocs(q, d) \cap Start!LoadProjectDocs(q) = {}
         /\ Start!ConfigFile(q) # Top => Start!IsTrusted(q, Start!ConfigFile(q)) = "trusted"
<1> DEFINE yes == q.trusted \cup q.session
           all == yes \cup q.untrusted
           root == Start!Nearest(q.cwd, yes)
<1>1. ASSUME NEW d \in Start!LoadProjectDocs(q) PROVE Start!IsTrusted(q, d) = "trusted"
  <2>1. Start!TrustedWorkdir(q) /\ d \in Documented /\ d \in Start!Above[q.cwd] /\ root \in Start!Above[d]
    BY <1>1 DEF Start!LoadProjectDocs, Start!FindTrustRoot
  <2> DEFINE n == Start!Nearest(q.cwd, all)
             m == Start!Nearest(d, all)
  <2>2. Start!Above[q.cwd] \cap yes # {} /\ n \in yes
    BY <2>1, TrustIs DEF Start!TrustedWorkdir
  <2>3. /\ root \in Start!Above[q.cwd] \cap yes /\ root \in Dirs
        /\ \A b \in Start!Above[q.cwd] \cap yes : b \in Start!Above[root]
    BY <2>2, NearestIs
  <2>4. /\ n \in Start!Above[q.cwd] \cap all /\ n \in Dirs
        /\ \A b \in Start!Above[q.cwd] \cap all : b \in Start!Above[n]
    BY <2>2, NearestIs
  <2>5. d \in Dirs /\ Start!Above[d] \subseteq Start!Above[q.cwd]
    BY <2>1, AboveAbove
  <2>6. root \in Start!Above[d] \cap all
    BY <2>1, <2>3
  <2>7. /\ m \in Start!Above[d] \cap all /\ m \in Dirs
        /\ \A b \in Start!Above[d] \cap all : b \in Start!Above[m]
    BY <2>5, <2>6, NearestIs
  <2> HIDE DEF root, n, m
  <2>8. root = n
    BY <2>2, <2>3, <2>4, AboveOrdered
  <2>9. m \in Start!Above[n] /\ root \in Start!Above[m]
    BY <2>4, <2>5, <2>6, <2>7
  <2>10. m = root
    BY <2>3, <2>7, <2>8, <2>9, AboveOrdered
  <2>11. m \in yes /\ Start!Above[d] \cap yes # {}
    BY <2>3, <2>6, <2>10
  <2> QED
    BY <2>5, <2>11, TrustIs DEF m
<1>2. ASSUME NEW d \in Dirs, NEW e \in Start!FindSubdirectoryDocs(q, d) \cap Start!LoadProjectDocs(q)
      PROVE FALSE
  BY <1>2, AboveIs, AboveOrdered DEF Start!FindSubdirectoryDocs, Start!LoadProjectDocs
<1>3. Start!ConfigFile(q) # Top => Start!IsTrusted(q, Start!ConfigFile(q)) = "trusted"
  BY DEF Start!ConfigFile, Start!TrustedWorkdir
<1> QED
  BY <1>1, <1>2, <1>3

-----------------------------------------------------------------------------
Decisions == {"none", "trusted", "untrusted"}
Runs == [step : {"off", "asking", "writing", "running"}, cwd : Dirs, trusted : SUBSET Dirs,
         untrusted : SUBSET Dirs, session : SUBSET Dirs, result : Decisions]
Records == [trusted : SUBSET Dirs, untrusted : SUBSET Dirs, torn : BOOLEAN]

TrustTypes ==
  /\ record \in Records /\ program \in [Programs -> Runs] /\ outdated \in BOOLEAN
  /\ decided \in [last : [Dirs -> Decisions], once : SUBSET Dirs]

\* Two lists that say what was decided.
AsDecided(trusted, untrusted) ==
  \A d \in Dirs : /\ d \in trusted <=> decided.last[d] = "trusted"
                  /\ d \in untrusted <=> decided.last[d] = "untrusted"

\* A list is of directories that were trusted; a question is asked about an open one.
OnlyTrusted ==
  /\ record.trusted \subseteq decided.once
  /\ \A p \in Programs : program[p].trusted \subseteq decided.once
AskedIsOpen ==
  \A p \in Programs : program[p].step = "asking" =>
    Start!Above[program[p].cwd] \cap (program[p].trusted \cup program[p].untrusted) = {}

\* As long as no process writes without what another has written: what was decided is in
\* the file, or in the lists of the one that writes.
NotStale ==
  /\ ~record.torn
  /\ ~Start!Writing => AsDecided(record.trusted, record.untrusted)
  /\ \A p \in Programs : program[p].step = "writing" =>
       /\ AsDecided(program[p].trusted, program[p].untrusted)
       /\ \A o \in Programs : program[o].step = "writing" => o = p

TrustInv == TrustTypes /\ OnlyTrusted /\ AskedIsOpen /\ (~outdated => NotStale)

LEMMA TrustRecords ==
  ASSUME Start!TrustAssumption
  PROVE  /\ Start!Off \in Runs /\ Start!Off.step = "off" /\ Start!Off.trusted = {} /\
              Start!Off.untrusted = {} /\ Start!Off.cwd = Home
         /\ Start!Off.session = {} /\ Start!Off.result = "none"
         /\ \A t, u \in SUBSET Dirs : /\ Start!Whole(t, u) \in Records /\
                                           Start!Whole(t, u).trusted = t /\ Start!Whole(t, u).untrusted = u
                                      /\ Start!Whole(t, u).torn = FALSE
BY DEF Start!TrustAssumption, Start!Off, Runs, Decisions, Start!Whole, Records

LEMMA TrustInit ==
  ASSUME Start!TrustAssumption, Start!Init
  PROVE  TrustInv
<1>1. record = Start!Whole({}, {}) /\ program = [p \in Programs |-> Start!Off] /\ outdated = FALSE
      /\ decided = [last |-> [d \in Dirs |-> "none"], once |-> {}]
  BY DEF Start!Init
<1>2. record \in Records /\ record.trusted = {} /\ record.untrusted = {} /\ ~record.torn
  BY <1>1, TrustRecords
<1>3. program \in [Programs -> Runs] /\ \A p \in Programs : program[p].step = "off" /\
        program[p].trusted = {}
  BY <1>1, TrustRecords
<1>4. decided \in [last : [Dirs -> Decisions], once : SUBSET Dirs] /\
        \A d \in Dirs : decided.last[d] = "none"
  BY <1>1 DEF Decisions
<1>5. TrustTypes
  BY <1>1, <1>2, <1>3, <1>4 DEF TrustTypes
<1>6. OnlyTrusted /\ AskedIsOpen /\ NotStale
  BY <1>2, <1>3, <1>4 DEF OnlyTrusted, AskedIsOpen, NotStale, AsDecided
<1> QED
  BY <1>5, <1>6 DEF TrustInv

LEMMA TrustImplies ==
  ASSUME Start!TrustAssumption, TrustInv
  PROVE  Start!TypeOK /\ Start!FoldersSafe
<1>1. Start!TypeOK
  BY DEF TrustInv, TrustTypes, Records, Runs, Decisions, Start!TypeOK
<1>2. \A p \in Programs : program[p] \in Runs /\ program[p].cwd \in Dirs
  BY DEF TrustInv, TrustTypes, Runs
<1>3. Start!DecisionsKept
  BY DEF TrustInv, NotStale, AsDecided, Start!DecisionsKept
<1>4. Start!AskedOnce
  <2> SUFFICES ASSUME NEW p \in Programs, program[p].step = "asking", ~outdated, ~Start!Writing,
                      Start!Whole(program[p].trusted, program[p].untrusted) = record,
                        NEW d \in Start!Above[program[p].cwd]
               PROVE  decided.last[d] = "none"
    BY DEF Start!AskedOnce
  <2>1. d \in Dirs
    BY <1>2, AboveIs
  <2>2. d \notin program[p].trusted /\ d \notin program[p].untrusted
    BY DEF TrustInv, AskedIsOpen
  <2>3. program[p].trusted = record.trusted /\ program[p].untrusted = record.untrusted
    BY DEF Start!Whole
  <2>4. decided.last[d] \notin {"trusted", "untrusted"}
    BY <2>1, <2>2, <2>3 DEF TrustInv, NotStale, AsDecided
  <2>5. decided.last[d] \in Decisions
    BY <2>1 DEF TrustInv, TrustTypes
  <2> QED
    BY <2>4, <2>5 DEF Decisions
<1>5. Start!UsedIfTrusted
  <2> SUFFICES ASSUME NEW p \in Programs, Start!TrustedWorkdir(program[p]), program[p].session = {}
               PROVE  Start!Above[program[p].cwd] \cap decided.once # {}
    BY DEF Start!UsedIfTrusted
  <2>1. Start!Above[program[p].cwd] \cap (program[p].trusted \cup program[p].session) # {}
    BY <1>2, TrustIs DEF Start!TrustedWorkdir
  <2> QED
    BY <2>1 DEF TrustInv, OnlyTrusted
<1>6. Start!DocsTrusted
  BY <1>2, DocsAreTrusted DEF Start!DocsTrusted
<1> QED
  BY <1>1, <1>3, <1>4, <1>5, <1>6 DEF Start!FoldersSafe

\* A process changes to q, and no other.
LEMMA OneChanges ==
  ASSUME program \in [Programs -> Runs], NEW p \in Programs, NEW q \in Runs,
           program' = [program EXCEPT ![p] = q]
  PROVE  program' \in [Programs -> Runs] /\ program'[p] = q /\
           \A o \in Programs \ {p} : program'[o] = program[o]
OBVIOUS

LEMMA StartsTrusted ==
  ASSUME Start!TrustAssumption, TrustInv, NEW p \in Programs, NEW d \in Dirs, NEW mode, Start!Start(p,
           d, mode)
  PROVE  TrustInv'
<1> DEFINE q == [Start!Off EXCEPT !.cwd = d, !.trusted = Start!Loaded.trusted,
                 !.untrusted = Start!Loaded.untrusted,
                            !.session = IF mode = "trust" THEN {d} ELSE {}]
           asks == /\ mode # "script" /\ d # Home
                   /\ Start!FindTrustableFiles(d) # {} /\ Start!IsTrusted(q, d) = "unknown"
           r == [q EXCEPT !.step = IF asks THEN "asking" ELSE "running"]
<1>0. TrustTypes
  BY DEF TrustInv
<1>1. /\ program[p].step = "off" /\ record' = Start!Loaded /\ program' = [program EXCEPT ![p] = r]
      /\ outdated' = (outdated \/ record.torn \/ \E o \in Programs : program[o].step = "writing")
      /\ UNCHANGED <<decided, killed>>
  BY DEF Start!Start
<1>2. /\ Start!Loaded \in Records /\ ~Start!Loaded.torn /\ Start!Loaded.trusted \subseteq record.trusted
      /\ Start!Loaded.trusted \subseteq Dirs /\ Start!Loaded.untrusted \subseteq Dirs
      /\ ~record.torn => Start!Loaded = record
  BY <1>0, TrustRecords DEF TrustTypes, Start!Loaded, Records
<1>3. /\ q \in Runs /\ q.cwd = d /\ q.trusted = Start!Loaded.trusted /\ q.untrusted = Start!Loaded.untrusted
  <2> DEFINE session == IF mode = "trust" THEN {d} ELSE {}
  <2>1. session \subseteq Dirs
    OBVIOUS
  <2> HIDE DEF session
  <2> QED
    BY <1>2, <2>1, TrustRecords DEF Runs
<1> HIDE DEF q
<1>4. /\ r \in Runs /\ r.cwd = d /\ r.trusted = Start!Loaded.trusted /\ r.untrusted = Start!Loaded.untrusted
      /\ r.step \in {"asking", "running"} /\ (r.step = "asking" => Start!IsTrusted(q, d) = "unknown")
  <2> DEFINE step == IF asks THEN "asking" ELSE "running"
  <2>1. step \in {"asking", "running"} /\ (step = "asking" => asks)
    OBVIOUS
  <2>2. asks => Start!IsTrusted(q, d) = "unknown"
    OBVIOUS
  <2> HIDE DEF step, asks
  <2> QED
    BY <1>3, <2>1, <2>2 DEF Runs
<1> HIDE DEF r
<1>5. program' \in [Programs -> Runs] /\ program'[p] = r /\
        \A o \in Programs \ {p} : program'[o] = program[o]
  BY <1>0, <1>1, <1>4, OneChanges DEF TrustTypes
<1>6. TrustTypes'
  BY <1>0, <1>1, <1>2, <1>5 DEF TrustTypes
<1>7. OnlyTrusted'
  BY <1>1, <1>2, <1>4, <1>5 DEF TrustInv, OnlyTrusted
<1>8. AskedIsOpen'
  <2>1. r.step = "asking" => Start!Above[d] \cap (r.trusted \cup r.untrusted) = {}
    BY <1>3, <1>4, TrustIs
  <2> QED
    BY <1>4, <1>5, <2>1 DEF TrustInv, AskedIsOpen
<1>9. ~outdated' => NotStale'
  BY <1>1, <1>2, <1>4, <1>5 DEF TrustInv, Start!Writing, NotStale, AsDecided
<1> QED
  BY <1>6, <1>7, <1>8, <1>9 DEF TrustInv

\* A process that neither begins nor ends writing, and keeps its lists or drops them.
LEMMA CalmTrust ==
  ASSUME Start!TrustAssumption, TrustInv, NEW p \in Programs, NEW q \in Runs,
           program' = [program EXCEPT ![p] = q],
         program[p].step # "writing", q.step # "writing",
         q = Start!Off \/ (q.cwd = program[p].cwd /\ q.trusted = program[p].trusted /\
                           q.untrusted = program[p].untrusted),
         q.step = "asking" => program[p].step = "asking",
         UNCHANGED <<record, decided, outdated>>
  PROVE  TrustInv'
<1>1. program' \in [Programs -> Runs] /\ program'[p] = q /\
        \A o \in Programs \ {p} : program'[o] = program[o]
  BY OneChanges DEF TrustInv, TrustTypes
<1>2. TrustTypes'
  BY <1>1 DEF TrustInv, TrustTypes
<1>3. OnlyTrusted'
  BY <1>1, TrustRecords DEF TrustInv, OnlyTrusted
<1>4. AskedIsOpen'
  BY <1>1, TrustRecords DEF TrustInv, AskedIsOpen
<1>5. \A o \in Programs : /\ program'[o].step = "writing" <=> program[o].step = "writing"
                          /\ program[o].step = "writing" => program'[o] = program[o]
  BY <1>1
<1>6. NotStale => NotStale'
  BY <1>5 DEF NotStale, Start!Writing, AsDecided
<1> QED
  BY <1>2, <1>3, <1>4, <1>6 DEF TrustInv

LEMMA AnswersTrusted ==
  ASSUME Start!TrustAssumption, TrustInv, NEW p \in Programs,
         (\E choice \in {"trusted", "untrusted"} : Start!Select(p, choice)) \/ Start!DialogFails(p) \/
           Start!Quit(p)
  PROVE  TrustInv'
<1>1. program[p] \in Runs
  BY DEF TrustInv, TrustTypes
<1>2. ASSUME NEW choice \in {"trusted", "untrusted"}, Start!Select(p, choice) PROVE TrustInv'
  <2> DEFINE q == [program[p] EXCEPT !.result = choice]
  <2>1. program[p].step = "asking" /\ program' = [program EXCEPT ![p] = q] /\
          UNCHANGED <<record, decided, outdated>>
    BY <1>2 DEF Start!Select, TrustInv, TrustTypes
  <2>2. /\ q \in Runs /\ q.step = "asking" /\ q.cwd = program[p].cwd /\ q.trusted = program[p].trusted
        /\ q.untrusted = program[p].untrusted
    BY <1>1, <2>1 DEF Runs, Decisions
  <2> HIDE DEF q
  <2> QED
    BY <2>1, <2>2, CalmTrust
<1>3. CASE Start!DialogFails(p)
  <2> DEFINE q == [program[p] EXCEPT !.step = "running"]
  <2>1. program[p].step = "asking" /\ program' = [program EXCEPT ![p] = q] /\
          UNCHANGED <<record, decided, outdated>>
    BY <1>3 DEF Start!DialogFails, TrustInv, TrustTypes
  <2>2. /\ q \in Runs /\ q.step = "running" /\ q.cwd = program[p].cwd /\ q.trusted = program[p].trusted
        /\ q.untrusted = program[p].untrusted
    BY <1>1, <2>1 DEF Runs, Decisions
  <2> HIDE DEF q
  <2> QED
    BY <2>1, <2>2, CalmTrust
<1>4. CASE Start!Quit(p)
  BY <1>4, TrustRecords, CalmTrust DEF Start!Quit
<1> QED
  BY <1>2, <1>3, <1>4

LEMMA ClosesTrusted ==
  ASSUME Start!TrustAssumption, TrustInv, NEW p \in Programs, Start!Close(p)
  PROVE  TrustInv'
<1> DEFINE o == program[p]
           q == [(IF o.result = "trusted" THEN Start!AddTrusted(o, o.cwd) ELSE Start!AddUntrusted(o,
             o.cwd)) EXCEPT !.step = "writing"]
<1>0. TrustTypes /\ o \in Runs
  BY DEF TrustInv, TrustTypes
<1>1. /\ o.step = "asking" /\ o.result # "none" /\ program' = [program EXCEPT ![p] = q]
      /\ decided' = [last |-> [decided.last EXCEPT ![o.cwd] = o.result],
                     once |-> IF o.result = "trusted" THEN decided.once \cup {o.cwd} ELSE decided.once]
      /\ outdated' = (outdated \/ record.trusted # o.trusted \/ record.untrusted # o.untrusted
                         \/ \E x \in Programs \ {p} : program[x].step = "writing")
      /\ record' = Start!Whole({}, {})
  BY DEF Start!Close
<1>2. /\ o.cwd \in Dirs /\ o.trusted \subseteq Dirs /\ o.untrusted \subseteq Dirs /\
           o.result \in {"trusted", "untrusted"}
  BY <1>0, <1>1 DEF Runs, Decisions
<1>3. /\ q \in Runs /\ q.step = "writing"
      /\ q.trusted = IF o.result = "trusted" THEN o.trusted \cup {o.cwd} ELSE o.trusted \ {o.cwd}
      /\ q.untrusted = IF o.result = "trusted" THEN o.untrusted \ {o.cwd} ELSE o.untrusted \cup {o.cwd}
  <2> DEFINE yes == Start!AddTrusted(o, o.cwd)
             no == Start!AddUntrusted(o, o.cwd)
  <2>1. yes \in Runs /\ yes.trusted = o.trusted \cup {o.cwd} /\ yes.untrusted = o.untrusted \ {o.cwd}
    <3> DEFINE T == o.trusted \cup {o.cwd}
               U == o.untrusted \ {o.cwd}
    <3>1. yes = [o EXCEPT !.trusted = T, !.untrusted = U] /\ T \subseteq Dirs /\ U \subseteq Dirs
      BY <1>2 DEF Start!AddTrusted
    <3> HIDE DEF T, U, yes
    <3>2. yes \in Runs /\ yes.trusted = T /\ yes.untrusted = U
      BY <1>0, <3>1 DEF Runs
    <3> QED
      BY <3>2 DEF T, U
  <2>2. no \in Runs /\ no.trusted = o.trusted \ {o.cwd} /\ no.untrusted = o.untrusted \cup {o.cwd}
    <3> DEFINE T == o.trusted \ {o.cwd}
               U == o.untrusted \cup {o.cwd}
    <3>1. no = [o EXCEPT !.untrusted = U, !.trusted = T] /\ T \subseteq Dirs /\ U \subseteq Dirs
      BY <1>2 DEF Start!AddUntrusted
    <3> HIDE DEF T, U, no
    <3>2. no \in Runs /\ no.trusted = T /\ no.untrusted = U
      BY <1>0, <3>1 DEF Runs
    <3> QED
      BY <3>2 DEF T, U
  <2> HIDE DEF yes, no
  <2>3. CASE o.result = "trusted"
    <3>1. q = [yes EXCEPT !.step = "writing"]
      BY <2>3 DEF yes
    <3> HIDE DEF q
    <3> QED
      BY <2>1, <2>3, <3>1 DEF Runs
  <2>4. CASE o.result # "trusted"
    <3>1. q = [no EXCEPT !.step = "writing"]
      BY <2>4 DEF no
    <3> HIDE DEF q
    <3> QED
      BY <2>2, <2>4, <3>1 DEF Runs
  <2> QED
    BY <2>3, <2>4
<1> HIDE DEF q
<1>4. program' \in [Programs -> Runs] /\ program'[p] = q /\
        \A x \in Programs \ {p} : program'[x] = program[x]
  BY <1>0, <1>1, <1>3, OneChanges DEF TrustTypes
<1>5. /\ decided' \in [last : [Dirs -> Decisions], once : SUBSET Dirs] /\
           decided.once \subseteq decided'.once
      /\ o.result = "trusted" => o.cwd \in decided'.once
      /\ \A d \in Dirs : decided'.last[d] = IF d = o.cwd THEN o.result ELSE decided.last[d]
  <2> DEFINE last == [decided.last EXCEPT ![o.cwd] = o.result]
             once == IF o.result = "trusted" THEN decided.once \cup {o.cwd} ELSE decided.once
  <2>1. decided.last \in [Dirs -> Decisions] /\ decided.once \subseteq Dirs
    BY <1>0 DEF TrustTypes
  <2>2. last \in [Dirs -> Decisions] /\
          \A d \in Dirs : last[d] = IF d = o.cwd THEN o.result ELSE decided.last[d]
    BY <1>2, <2>1 DEF Decisions
  <2>3. once \subseteq Dirs /\ decided.once \subseteq once /\ (o.result = "trusted" => o.cwd \in once)
    BY <1>2, <2>1
  <2>4. decided' = [last |-> last, once |-> once]
    BY <1>1
  <2> HIDE DEF last, once
  <2> QED
    BY <2>2, <2>3, <2>4
<1>6. record' \in Records /\ record'.trusted = {} /\ ~record'.torn
  BY <1>1, TrustRecords
<1>7. outdated' \in BOOLEAN
  BY <1>1
<1>8. TrustTypes'
  BY <1>4, <1>5, <1>6, <1>7 DEF TrustTypes
<1>9. OnlyTrusted'
  BY <1>1, <1>2, <1>3, <1>4, <1>5, <1>6 DEF TrustInv, OnlyTrusted
<1>10. AskedIsOpen'
  BY <1>3, <1>4 DEF TrustInv, AskedIsOpen
<1>11. ~outdated' => NotStale'
  <2> SUFFICES ASSUME ~outdated' PROVE NotStale'
    OBVIOUS
  <2>1. /\ NotStale /\ record.trusted = o.trusted /\ record.untrusted = o.untrusted
        /\ \A x \in Programs : program[x].step # "writing"
    BY <1>1 DEF TrustInv
  <2>2. AsDecided(o.trusted, o.untrusted)
    BY <2>1 DEF NotStale, Start!Writing
  <2>3. \A d \in Dirs : /\ d \in q.trusted <=> decided'.last[d] = "trusted"
                        /\ d \in q.untrusted <=> decided'.last[d] = "untrusted"
    BY <1>2, <1>3, <1>5, <2>2 DEF AsDecided
  <2>4. \A x \in Programs : program'[x].step = "writing" <=> x = p
    BY <1>3, <1>4, <2>1
  <2>5. Start!Writing'
    BY <2>4 DEF Start!Writing
  <2>6. AsDecided(program[p].trusted, program[p].untrusted)'
    BY <1>4, <2>3 DEF AsDecided
  <2> QED
    BY <1>6, <2>4, <2>5, <2>6 DEF NotStale
<1> QED
  BY <1>8, <1>9, <1>10, <1>11 DEF TrustInv

LEMMA SavesTrusted ==
  ASSUME Start!TrustAssumption, TrustInv, NEW p \in Programs, Start!Save(p)
  PROVE  TrustInv'
<1> DEFINE q == [program[p] EXCEPT !.step = "running"]
<1>0. TrustTypes /\ program[p] \in Runs
  BY DEF TrustInv, TrustTypes
<1>1. /\ program[p].step = "writing" /\ record' = Start!Whole(program[p].trusted, program[p].untrusted)
      /\ program' = [program EXCEPT ![p] = q] /\ UNCHANGED <<decided, outdated>>
  BY <1>0 DEF Start!Save, TrustTypes
<1>2. /\ q \in Runs /\ q.step = "running" /\ q.trusted = program[p].trusted
  BY <1>0 DEF Runs
<1> HIDE DEF q
<1>3. program' \in [Programs -> Runs] /\ program'[p] = q /\
        \A x \in Programs \ {p} : program'[x] = program[x]
  BY <1>0, <1>1, <1>2, OneChanges DEF TrustTypes
<1>4. /\ record' \in Records /\ record'.trusted = program[p].trusted /\
           record'.untrusted = program[p].untrusted
      /\ ~record'.torn
  BY <1>0, <1>1, TrustRecords DEF Runs
<1>5. TrustTypes'
  BY <1>0, <1>1, <1>3, <1>4 DEF TrustTypes
<1>6. OnlyTrusted' /\ AskedIsOpen'
  BY <1>1, <1>2, <1>3, <1>4 DEF TrustInv, OnlyTrusted, AskedIsOpen
<1>7. ~outdated' => NotStale'
  BY <1>1, <1>2, <1>3, <1>4 DEF TrustInv, NotStale, AsDecided
<1> QED
  BY <1>5, <1>6, <1>7 DEF TrustInv

LEMMA KillsTrusted ==
  ASSUME Start!TrustAssumption, TrustInv, NEW p \in Programs, Start!Kill(p)
  PROVE  TrustInv'
<1>0. TrustTypes
  BY DEF TrustInv
<1>1. PICK torn \in BOOLEAN : record' = [record EXCEPT !.torn = torn]
  BY DEF Start!Kill
<1>2. program' = [program EXCEPT ![p] = Start!Off] /\ outdated' = TRUE /\ UNCHANGED decided
  BY DEF Start!Kill
<1>3. program' \in [Programs -> Runs] /\ program'[p] = Start!Off /\
        \A x \in Programs \ {p} : program'[x] = program[x]
  BY <1>0, <1>2, TrustRecords, OneChanges DEF TrustTypes
<1>4. record' \in Records /\ record'.trusted = record.trusted
  BY <1>0, <1>1 DEF TrustTypes, Records
<1>5. TrustTypes'
  BY <1>0, <1>2, <1>3, <1>4 DEF TrustTypes
<1>6. OnlyTrusted' /\ AskedIsOpen'
  BY <1>2, <1>3, <1>4, TrustRecords DEF TrustInv, OnlyTrusted, AskedIsOpen
<1> QED
  BY <1>2, <1>5, <1>6 DEF TrustInv

LEMMA TrustStep ==
  ASSUME Start!TrustAssumption, TrustInv, [Start!TrustNext]_Start!trustVars
  PROVE  TrustInv'
<1>1. CASE UNCHANGED Start!trustVars
  BY <1>1 DEF Start!trustVars, TrustInv, TrustTypes, OnlyTrusted, AskedIsOpen, NotStale,
              Start!Writing, AsDecided
<1>2. CASE Start!TrustNext
  BY <1>2, StartsTrusted, AnswersTrusted, ClosesTrusted, SavesTrusted, KillsTrusted DEF Start!TrustNext
<1> QED
  BY <1>1, <1>2

-----------------------------------------------------------------------------
(* The key that is missing. KeyInv: the key that a dialog asks for is the  *)
(* one that the active model needs and that is missing.                    *)

-----------------------------------------------------------------------------
KeyTypes ==
  /\ settings \in [active : Start!Aliases \cup {"gone"}, models : Seq([alias : Start!Aliases,
       provider : Start!Providers]),
                   keys : [Start!Providers -> {"key", "local", "missing", "invalid"}]]
  /\ keys \in [set : SUBSET Start!Providers, saved : SUBSET Start!Providers] /\
       keys.saved \subseteq keys.set
  /\ launch \in [step : {"off", "setup", "asking", "running"}, asked : Start!Providers \cup {"none"},
                 result : {"none", "env_var_error", "save_error", "completed"}]
  /\ launch.step \in {"setup", "asking"} => launch.asked \in Start!Providers

\* The key that is asked for is that of the active model; a key that was given is known.
AsksTheMissing ==
  launch.step = "asking" =>
    /\ launch.asked = Start!ActiveProvider
    /\ launch.result = "none" => launch.asked \notin keys.saved
    /\ launch.result \in {"save_error", "completed"} => launch.asked \in keys.set

KeyInv == KeyTypes /\ AsksTheMissing

LEMMA FirstIs ==
  ASSUME settings.models \in Seq([alias : Start!Aliases, provider : Start!Providers]),
         NEW S, S \subseteq DOMAIN settings.models, S # {}
  PROVE  \E i \in S : /\ \A j \in S : i <= j
                      /\ Start!FirstOf(S) = settings.models[i].provider /\
                           Start!FirstOf(S) \in Start!Providers
<1> DEFINE i == CHOOSE i \in S : \A j \in S : i <= j
<1>1. DOMAIN settings.models \subseteq Nat /\
        \A k \in DOMAIN settings.models : settings.models[k].provider \in Start!Providers
  <2> DEFINE M == [alias : Start!Aliases, provider : Start!Providers]
  <2>1. settings.models \in Seq(M)
    OBVIOUS
  <2>2. \A m \in M : m.provider \in Start!Providers
    OBVIOUS
  <2> HIDE DEF M
  <2>3. \A k \in DOMAIN settings.models : settings.models[k] \in M
    BY <2>1
  <2> QED
    BY <2>1, <2>2, <2>3
<1>2. \E k \in S : \A j \in S : k <= j
  BY <1>1, NatLeast
<1>3. i \in S /\ \A j \in S : i <= j
  BY <1>2
<1>4. Start!FirstOf(S) = settings.models[i].provider
  BY DEF Start!FirstOf
<1> HIDE DEF i
<1> QED
  BY <1>1, <1>3, <1>4

LEMMA ResolvedIs ==
  ASSUME KeyTypes
  PROVE  Start!Asked \in Start!Providers /\ Start!ActiveProvider \in Start!Providers \cup {"none"}
<1> DEFINE With(alias) == {i \in Start!Usable : settings.models[i].alias = alias}
           of == {i \in DOMAIN settings.models : settings.models[i].alias = settings.active}
<1>1. settings.models \in Seq([alias : Start!Aliases, provider : Start!Providers])
  BY DEF KeyTypes
<1>2. \A S \in SUBSET DOMAIN settings.models : S # {} => Start!FirstOf(S) \in Start!Providers
  BY <1>1, FirstIs
<1>3. Start!Usable \subseteq DOMAIN settings.models /\
        With(settings.active) \subseteq DOMAIN settings.models
      /\ With(Start!DefaultModel) \subseteq DOMAIN settings.models /\ of \subseteq DOMAIN settings.models
  BY DEF Start!Usable
<1>4. Start!DefaultProvider \in Start!Providers
  BY DEF Start!DefaultProvider, Start!Providers
<1>5. Start!ResolveProvider \in Start!Providers
  <2> DEFINE present == {name \in Start!Providers : Start!Provided(name)}
             only == CHOOSE name \in Start!Providers : present = {name}
  <2>1. (\E name \in Start!Providers : present = {name}) => only \in Start!Providers
    OBVIOUS
  <2>2. Start!ResolveProvider = IF With(settings.active) # {} THEN Start!FirstOf(With(settings.active))
                          ELSE IF With(Start!DefaultModel) # {} THEN Start!FirstOf(With(Start!DefaultModel))
                          ELSE IF Start!Usable # {} THEN Start!FirstOf(Start!Usable)
                          ELSE IF \E name \in Start!Providers : present = {name} THEN only
                          ELSE Start!DefaultProvider
    BY DEF Start!ResolveProvider
  <2> HIDE DEF With, only, present
  <2> QED
    BY <1>2, <1>3, <1>4, <2>1, <2>2
<1>6. Start!Asked \in Start!Providers
  BY <1>4, <1>5 DEF Start!Asked
<1>7. Start!ActiveProvider = IF of # {} /\
        Start!Provided(Start!FirstOf(of)) THEN Start!FirstOf(of) ELSE "none"
  BY DEF Start!ActiveProvider
<1> HIDE DEF of
<1> QED
  BY <1>2, <1>3, <1>6, <1>7

\* Where the active model has a provider, that is the one that is found.
LEMMA MissingIsAsked ==
  ASSUME KeyTypes, Start!ActiveProvider # "none", settings.keys[Start!ActiveProvider] # "local"
  PROVE  Start!Asked = Start!ActiveProvider
<1> DEFINE With == {i \in Start!Usable : settings.models[i].alias = settings.active}
           of == {i \in DOMAIN settings.models : settings.models[i].alias = settings.active}
<1>1. settings.models \in Seq([alias : Start!Aliases, provider : Start!Providers])
  BY DEF KeyTypes
<1>2. of # {} /\ Start!Provided(Start!FirstOf(of)) /\ Start!ActiveProvider = Start!FirstOf(of)
  BY DEF Start!ActiveProvider
<1>3. With \subseteq of /\ of \subseteq DOMAIN settings.models
  BY DEF Start!Usable
<1>4. PICK i \in of : (\A j \in of : i <= j) /\ Start!FirstOf(of) = settings.models[i].provider
  BY <1>1, <1>2, <1>3, FirstIs
<1>5. i \in With
  BY <1>2, <1>4 DEF Start!Usable
<1>6. PICK k \in With : (\A j \in With : k <= j) /\ Start!FirstOf(With) = settings.models[k].provider
  BY <1>1, <1>3, <1>5, FirstIs
<1>7. DOMAIN settings.models \subseteq Nat
  BY <1>1
<1>8. i = k
  BY <1>3, <1>4, <1>5, <1>6, <1>7
<1>9. Start!ResolveProvider = Start!ActiveProvider
  BY <1>2, <1>4, <1>5, <1>6, <1>8 DEF Start!ResolveProvider
<1> QED
  BY <1>9 DEF Start!Asked

LEMMA SameActive ==
  ASSUME settings' = settings
  PROVE  Start!ActiveProvider' = Start!ActiveProvider
<1> DEFINE of == {i \in DOMAIN settings.models : settings.models[i].alias = settings.active}
           f == settings.models[CHOOSE i \in of : \A j \in of : i <= j].provider
<1>1. Start!ActiveProvider = IF of # {} /\ settings.keys[f] # "missing" THEN f ELSE "none"
  BY DEF Start!ActiveProvider, Start!FirstOf, Start!Provided
<1>2. Start!ActiveProvider' = IF of' # {} /\ settings'.keys[f'] # "missing" THEN f' ELSE "none"
  BY DEF Start!ActiveProvider, Start!FirstOf, Start!Provided
<1>3. of' = of
  OBVIOUS
<1> HIDE DEF of
<1>4. f' = f
  BY <1>3
<1> QED
  BY <1>1, <1>2, <1>3, <1>4

LEMMA KeyInit ==
  ASSUME Start!OnboardingAssumption, Start!OnboardingInit
  PROVE  KeyInv
<1>1. settings \in Start!Settings /\ keys = [set |-> {}, saved |-> {}]
      /\ launch = [step |-> "off", asked |-> "none", result |-> "none"]
  BY DEF Start!OnboardingInit
<1> DEFINE M == [alias : Start!Aliases, provider : Start!Providers]
<1>2. UNION {[1..n -> M] : n \in 0..MaxModels} \subseteq Seq(M)
  <2> HIDE DEF M
  <2> SUFFICES ASSUME NEW n \in 0..MaxModels, NEW s \in [1..n -> M] PROVE s \in Seq(M)
    OBVIOUS
  <2>1. n \in Nat
    BY DEF Start!OnboardingAssumption
  <2> QED
    BY <2>1
<1>3. settings \in [active : Start!Aliases \cup {"gone"}, models : Seq(M),
                    keys : [Start!Providers -> {"key", "local", "missing", "invalid"}]]
  <2>1. settings \in [active : Start!Aliases \cup {"gone"},
                      models : UNION {[1..n -> M] : n \in 0..MaxModels},
                      keys : [Start!Providers -> {"key", "local", "missing", "invalid"}]]
    BY <1>1 DEF Start!Settings
  <2> HIDE DEF M
  <2> QED
    BY <1>2, <2>1
<1> QED
  BY <1>1, <1>3 DEF KeyInv, KeyTypes, AsksTheMissing

LEMMA KeyImplies ==
  ASSUME KeyInv
  PROVE  Start!OnboardingTypeOK /\ Start!OnboardingSafe
BY DEF KeyInv, KeyTypes, AsksTheMissing, Start!OnboardingTypeOK, Start!OnboardingSafe,
       Start!KeyAskedFor, Start!SavedOnce

LEMMA LaunchKept ==
  ASSUME KeyInv, NEW mode, Start!Launch(mode)
  PROVE  KeyInv'
<1> DEFINE known == [keys EXCEPT !.set = keys.saved]
           fits == Start!ActiveProvider = "none" \/ settings.keys[Start!ActiveProvider] = "local" \/
             Start!ActiveProvider \in keys.saved
<1>0. KeyTypes /\ Start!Asked \in Start!Providers
  BY ResolvedIs DEF KeyInv
<1>1. known \in [set : SUBSET Start!Providers, saved : SUBSET Start!Providers] /\
        known.set = keys.saved /\ known.saved = keys.saved
  BY <1>0 DEF KeyTypes
<1>2. /\ keys' = known /\ settings' = settings
      /\ launch' =
           IF mode = "setup" THEN [step |-> "setup", asked |-> Start!Asked, result |-> "none"]
           ELSE IF fits THEN [step |-> "running", asked |-> "none", result |-> "none"]
           ELSE IF mode = "ask" THEN [step |-> "asking", asked |-> Start!Asked, result |-> "none"]
           ELSE [step |-> "off", asked |-> "none", result |-> "none"]
  BY <1>1 DEF Start!Launch
<1>3. ~fits => Start!Asked = Start!ActiveProvider /\ Start!Asked \notin keys.saved
  BY <1>0, MissingIsAsked
<1>4. Start!ActiveProvider' = Start!ActiveProvider
  BY <1>2, SameActive
<1> HIDE DEF known, fits
<1>5. CASE launch' = [step |-> "asking", asked |-> Start!Asked, result |-> "none"] /\ ~fits
  BY <1>0, <1>1, <1>2, <1>3, <1>4, <1>5 DEF KeyInv, KeyTypes, AsksTheMissing
<1>6. CASE launch' = [step |-> "setup", asked |-> Start!Asked, result |-> "none"]
  BY <1>0, <1>1, <1>2, <1>6 DEF KeyInv, KeyTypes, AsksTheMissing
<1>7. ASSUME NEW step \in {"off", "running"}, launch' = [step |-> step, asked |-> "none", result |-> "none"]
      PROVE  KeyInv'
  BY <1>0, <1>1, <1>2, <1>7 DEF KeyInv, KeyTypes, AsksTheMissing
<1> QED
  BY <1>2, <1>5, <1>6, <1>7

LEMMA GivenKept ==
  ASSUME KeyInv, (\E saves \in BOOLEAN : Start!PersistKey(saves)) \/ Start!Cancel \/ Start!Reload \/
           Start!Exit
  PROVE  KeyInv'
<1>0. KeyTypes /\ Start!ActiveProvider \in Start!Providers \cup {"none"}
  BY ResolvedIs DEF KeyInv
<1>1. settings' = settings /\ Start!ActiveProvider' = Start!ActiveProvider
  BY SameActive DEF Start!PersistKey, Start!Cancel, Start!Reload, Start!Exit
<1>2. ASSUME NEW saves \in BOOLEAN, Start!PersistKey(saves) PROVE KeyInv'
  <2>1. launch.step \in {"asking", "setup"} /\ launch.asked \in Start!Providers
    BY <1>0, <1>2 DEF Start!PersistKey, KeyTypes
  <2>2. CASE launch' = [launch EXCEPT !.result = "env_var_error"] /\ keys' = keys
    BY <1>0, <1>1, <2>1, <2>2 DEF KeyTypes, KeyInv, AsksTheMissing
  <2>3. ASSUME keys' = [set |-> keys.set \cup {launch.asked},
                        saved |-> IF saves THEN keys.saved \cup {launch.asked} ELSE keys.saved],
               launch' = [launch EXCEPT !.result = IF saves THEN "completed" ELSE "save_error"]
        PROVE  KeyInv'
    <3> DEFINE result == IF saves THEN "completed" ELSE "save_error"
               saved == IF saves THEN keys.saved \cup {launch.asked} ELSE keys.saved
    <3>1. result \in {"completed", "save_error"}
      OBVIOUS
    <3>2. keys.set \subseteq Start!Providers /\ saved \subseteq keys.set \cup {launch.asked}
      BY <1>0 DEF KeyTypes
    <3>3. keys' = [set |-> keys.set \cup {launch.asked}, saved |-> saved] /\
            launch' = [launch EXCEPT !.result = result]
      BY <2>3
    <3> HIDE DEF result, saved
    <3>4. /\ launch'.step = launch.step /\ launch'.asked = launch.asked /\ launch'.result = result
          /\ launch' \in [step : {"off", "setup", "asking", "running"},
                          asked : Start!Providers \cup {"none"},
                          result : {"none", "env_var_error", "save_error", "completed"}]
      BY <1>0, <3>1, <3>3 DEF KeyTypes
    <3>5. /\ keys' \in [set : SUBSET Start!Providers, saved : SUBSET Start!Providers] /\
               keys'.saved \subseteq keys'.set
          /\ launch.asked \in keys'.set
      BY <2>1, <3>2, <3>3
    <3> QED
      BY <1>0, <1>1, <2>1, <3>1, <3>4, <3>5 DEF KeyInv, KeyTypes, AsksTheMissing
  <2> QED
    BY <1>2, <2>2, <2>3 DEF Start!PersistKey
<1>3. ASSUME NEW step \in {"off", "running"}, launch' = [launch EXCEPT !.step = step], keys' = keys
      PROVE KeyInv'
  BY <1>0, <1>1, <1>3 DEF KeyTypes, KeyInv, AsksTheMissing
<1>4. CASE Start!Cancel \/ Start!Exit
  BY <1>3, <1>4 DEF Start!Cancel, Start!Exit
<1>5. CASE Start!Reload
  <2> DEFINE step == IF launch.step = "setup" \/ launch.result = "env_var_error" THEN "off"
                     ELSE IF Start!MissingKey THEN "failed" ELSE "running"
  <2>1. launch' = [launch EXCEPT !.step = step] /\ keys' = keys /\
          launch.step \in {"asking", "setup"} /\ launch.result # "none"
    BY <1>5 DEF Start!Reload
  <2>2. launch.step = "asking" /\ launch.result # "env_var_error" => ~Start!MissingKey
    BY <1>0, <2>1 DEF KeyInv, KeyTypes, AsksTheMissing, Start!MissingKey
  <2>3. step \in {"off", "running"}
    BY <2>1, <2>2
  <2> HIDE DEF step
  <2> QED
    BY <1>3, <2>1, <2>3
<1> QED
  BY <1>2, <1>4, <1>5

LEMMA KeyStep ==
  ASSUME KeyInv, [Start!OnboardingNext]_Start!onboardingVars
  PROVE  KeyInv'
<1>1. CASE UNCHANGED Start!onboardingVars
  BY <1>1, SameActive DEF Start!onboardingVars, KeyInv, KeyTypes, AsksTheMissing
<1>2. CASE Start!OnboardingNext
  BY <1>2, LaunchKept, GivenKept DEF Start!OnboardingNext
<1> QED
  BY <1>1, <1>2

-----------------------------------------------------------------------------
(* Updates and their news. UpdateInv: one program writes at a time, what   *)
(* it writes is what it read and what it adds, and, unless writes          *)
(* overlapped, versions that are shown as news, or told, are those that    *)
(* the cache knows.                                                        *)

NewsSteps == {"off", "starts", "marks", "checks", "fetches", "runs"}
Caches == [latest : Nat, at : Nat, seen : Nat, asked : Nat]
Files == [torn : BOOLEAN, filled : BOOLEAN, data : Caches]

UpdateTypes ==
  /\ cacheFile \in Files
  /\ released \in 1..MaxVersion /\ installed \in 1..MaxVersion
  /\ prog \in [UpdatingPrograms -> [at : NewsSteps, version : 0..MaxVersion, found : Nat]]
  /\ \A p \in UpdatingPrograms : prog[p].at # "off" => prog[p].version # 0
  /\ \A p \in UpdatingPrograms : prog[p].at = "starts" => prog[p].found = 0
  /\ write \in [Update!Writers -> [at : {"none", "begins", "opens", "writes"}, data : Caches,
                                   whole : Caches]]
  /\ \A p \in UpdatingPrograms :
       prog[p].at \notin {"marks", "fetches"} => write[<<p, "task">>].at = "none"
  /\ now \in Nat \ {0} /\ shownNews \in [1..MaxVersion -> Nat] /\
       toldVersions \subseteq [version : Nat, time : Nat]
  /\ disturbedCache \in BOOLEAN /\ cutWrites \in BOOLEAN

\* What holds while writes neither overlap nor are cut short: one writer is at work, and it
\* knows what is in the file.
OneWriter == \A v, w \in Update!Writers : Update!Busy(v) /\ Update!Busy(w) => v = w

KnowsTheFile ==
  /\ \A w \in Update!Writers : write[w].at \in {"opens", "writes"} =>
       write[w].whole = Update!Merged(cacheFile.data, write[w].data)
  /\ \A p \in UpdatingPrograms : LET d == write[<<p, "interface">>] IN
       d.at # "none" => d.data.seen = 0 /\ d.data.latest = 0 /\ d.data.at = 0

\* A mark is of the latest version that was shown, and keeps when the last check was.
MarkIsLast ==
  \A p \in UpdatingPrograms : prog[p].at = "marks" =>
    LET d == write[<<p, "task">>] IN
    /\ prog[p].found = 0 /\ \A v \in 1..MaxVersion : shownNews[v] # 0 => v <= prog[p].version
    /\ d.at # "none" =>
         /\ d.data.seen = prog[p].version /\ d.data.latest # 0
         /\ cacheFile.data.latest # 0 => d.data.at = cacheFile.data.at

\* A check is one that was due.
FetchIsDue ==
  \A p \in UpdatingPrograms : prog[p].at = "fetches" =>
    LET d == write[<<p, "task">>] IN
    /\ \A u \in toldVersions : u.time + TTL <= now
    /\ d.at # "none" =>
         /\ d.data.seen = 0 /\ d.data.latest # 0 /\ d.data.at # 0 /\ d.data.at <= now
         /\ \A u \in toldVersions : u.time + TTL <= d.data.at

\* What was shown is marked, or about to be; what was told was found by a check that is known.
ShownIsSeen ==
  \A v \in 1..MaxVersion :
    /\ shownNews[v] \in {0, 1}
    /\ shownNews[v] # 0 => v <= cacheFile.data.seen \/ \E p \in UpdatingPrograms : prog[p].at = "marks"
ToldIsKnown == \A u \in toldVersions : cacheFile.data.latest # 0 /\ u.time <= cacheFile.data.at

InOrder ==
  OneWriter /\ KnowsTheFile /\ MarkIsLast /\ FetchIsDue /\ ShownIsSeen /\ ToldIsKnown /\ Update!ToldOnce

UpdateInv == UpdateTypes /\ Update!WholeAgain /\ (~disturbedCache /\ ~cutWrites => InOrder)

-----------------------------------------------------------------------------
LEMMA CachesAre ==
  /\ Update!Empty \in Caches
  /\ Update!Empty.latest = 0 /\ Update!Empty.at = 0 /\ Update!Empty.seen = 0 /\ Update!Empty.asked = 0
BY DEF Update!Empty, Caches

LEMMA MergedIs ==
  ASSUME NEW base \in Caches, NEW data \in Caches
  PROVE  /\ Update!Merged(base, data) \in Caches
         /\ Update!Merged(base, data).latest = IF data.latest # 0 THEN data.latest ELSE base.latest
         /\ Update!Merged(base, data).at = IF data.at # 0 THEN data.at ELSE base.at
         /\ Update!Merged(base, data).seen = IF data.seen # 0 THEN data.seen ELSE base.seen
<1>1. DOMAIN base = {"latest", "at", "seen", "asked"}
  BY DEF Caches
<1>2. \A k \in {"latest", "at", "seen", "asked"} : base[k] \in Nat /\ data[k] \in Nat
  BY DEF Caches
<1> DEFINE m == [k \in {"latest", "at", "seen", "asked"} |-> IF data[k] # 0 THEN data[k] ELSE base[k]]
<1>3. Update!Merged(base, data) = m
  BY <1>1 DEF Update!Merged
<1>4. m = [latest |-> m.latest, at |-> m.at, seen |-> m.seen, asked |-> m.asked]
  OBVIOUS
<1>5. m.latest \in Nat /\ m.at \in Nat /\ m.seen \in Nat /\ m.asked \in Nat
  BY <1>2
<1>6. m \in Caches
  BY <1>4, <1>5 DEF Caches
<1> QED
  BY <1>3, <1>6

LEMMA CachedIs ==
  ASSUME UpdateTypes
  PROVE  Update!Cached \in Caches /\ (~cacheFile.torn => Update!Cached = cacheFile.data)
BY CachesAre DEF Update!Cached, UpdateTypes, Files

LEMMA WritersAre ==
  /\ \A p \in UpdatingPrograms : <<p, "task">> \in Update!Writers /\ <<p, "interface">> \in Update!Writers
  /\ \A p, q \in UpdatingPrograms : <<p, "task">> # <<q, "interface">> /\
       (<<p, "task">> = <<q, "task">> => p = q)
                            /\ (<<p, "interface">> = <<q, "interface">> => p = q)
  /\ \A w \in Update!Writers : w[1] \in UpdatingPrograms /\ (w = <<w[1], "task">> \/
                                                             w = <<w[1], "interface">>)
                        /\ w[2] \in {"task", "interface"}
BY DEF Update!Writers

LEMMA UpdateInit ==
  ASSUME Update!UpdateAssumption, Update!Init
  PROVE  UpdateInv
<1> USE DEF Update!UpdateAssumption, Update!Init
<1>1. UpdateTypes
  <2>1. Update!Off \in [at : NewsSteps, version : 0..MaxVersion, found : Nat] /\ Update!Off.at = "off"
    BY DEF Update!Off, NewsSteps
  <2>2. Update!NoWrite \in [at : {"none", "begins", "opens", "writes"}, data : Caches,
                            whole : Caches] /\ Update!NoWrite.at = "none"
    BY CachesAre DEF Update!NoWrite
  <2>3. cacheFile \in Files
    BY CachesAre DEF Files
  <2>4. \A p \in UpdatingPrograms : prog[p] = Update!Off
    OBVIOUS
  <2>5. \A w \in Update!Writers : write[w] = Update!NoWrite
    OBVIOUS
  <2>6. prog \in [UpdatingPrograms -> [at : NewsSteps, version : 0..MaxVersion, found : Nat]]
    BY <2>1
  <2>7. write \in [Update!Writers -> [at : {"none", "begins", "opens", "writes"}, data : Caches,
                                      whole : Caches]]
    BY <2>2
  <2>8. /\ released \in 1..MaxVersion /\ installed \in 1..MaxVersion /\ now \in Nat \ {0}
    OBVIOUS
  <2>10. toldVersions \subseteq [version : Nat, time : Nat]
    OBVIOUS
  <2>11. disturbedCache \in BOOLEAN /\ cutWrites \in BOOLEAN
    OBVIOUS
  <2>9. shownNews \in [1..MaxVersion -> Nat]
    OBVIOUS
  <2> QED
    BY <2>1, <2>2, <2>3, <2>4, <2>5, <2>6, <2>7, <2>8, <2>9, <2>10, <2>11, WritersAre DEF UpdateTypes
<1>2. Update!WholeAgain
  BY DEF Update!WholeAgain
<1>3. \A w \in Update!Writers : ~Update!Busy(w)
  BY WritersAre DEF Update!Busy, Update!NoWrite, Update!Off
<1>4. InOrder
  BY <1>3, CachesAre, WritersAre DEF InOrder, OneWriter, KnowsTheFile, MarkIsLast, FetchIsDue, ShownIsSeen,
                         ToldIsKnown, Update!ToldOnce, Update!NoWrite, Update!Off
<1> QED
  BY <1>1, <1>2, <1>4 DEF UpdateInv

LEMMA UpdateImplies ==
  ASSUME UpdateInv
  PROVE  Update!TypeOK /\ Update!UpdatesSafe
<1>1. Update!TypeOK
  BY DEF UpdateInv, UpdateTypes, Update!TypeOK, NewsSteps, Files
<1>2. Update!NewsOnce
  BY DEF UpdateInv, InOrder, ShownIsSeen, Update!NewsOnce
<1>3. Update!ToldOnce
  BY DEF UpdateInv, InOrder, Update!ToldOnce
<1> QED
  BY <1>1, <1>2, <1>3 DEF UpdateInv, Update!UpdatesSafe

-----------------------------------------------------------------------------
LEMMA CacheReadKept ==
  ASSUME Update!UpdateAssumption, UpdateInv, NEW w \in Update!Writers, Update!ReadToWrite(w)
  PROVE  UpdateInv'
<1> DEFINE whole == Update!Merged(Update!Cached, write[w].data)
<1>0. UpdateTypes /\ write[w].at = "begins" /\ write[w].data \in Caches
  BY DEF UpdateInv, UpdateTypes, Update!ReadToWrite
<1>1. whole \in Caches /\ (~cacheFile.torn => whole = Update!Merged(cacheFile.data, write[w].data))
  BY <1>0, CachedIs, MergedIs
<1>2. /\ write' = [write EXCEPT ![w].at = "opens", ![w].whole = whole]
      /\ disturbedCache' = (disturbedCache \/ ~Update!Alone(w))
      /\ UNCHANGED <<cacheFile, released, installed, prog, now, starts, shownNews, toldVersions, cutWrites>>
  BY DEF Update!ReadToWrite
<1> HIDE DEF whole
<1>3. /\ \A v \in Update!Writers \ {w} : write'[v] = write[v]
      /\ write'[w] = [at |-> "opens", data |-> write[w].data, whole |-> whole]
      /\ write' \in [Update!Writers -> [at : {"none", "begins", "opens", "writes"}, data : Caches,
                                        whole : Caches]]
  BY <1>0, <1>1, <1>2 DEF UpdateTypes
<1>4. \A v \in Update!Writers : write'[v].data = write[v].data /\
        (write'[v].at = "none" <=> write[v].at = "none")
                         /\ (write'[v].at = "writes" <=> write[v].at = "writes")
  BY <1>0, <1>3
<1>5. UpdateTypes'
  BY <1>0, <1>2, <1>3, <1>4, WritersAre DEF UpdateTypes, Update!Alone
<1>6. Update!WholeAgain'
  BY <1>2, <1>4 DEF UpdateInv, Update!WholeAgain
<1>7. ASSUME ~disturbedCache', ~cutWrites' PROVE InOrder'
  <2>1. InOrder /\ Update!Alone(w) /\ ~cutWrites
    BY <1>0, <1>2, <1>7 DEF UpdateInv, UpdateTypes
  <2>2. ~cacheFile.torn
    BY <1>0, <2>1 DEF UpdateInv, Update!WholeAgain, Update!Alone, Update!Busy
  <2>3. \A v \in Update!Writers : Update!Busy(v)' <=> Update!Busy(v)
    BY <1>2, <1>4 DEF Update!Busy
  <2>7. OneWriter'
    BY <2>1, <2>3 DEF InOrder, OneWriter
  <2>8. \A p \in UpdatingPrograms : LET v == <<p, "task">> IN write'[v].data = write[v].data /\
          (write'[v].at = "none" <=> write[v].at = "none")
    BY <1>4, WritersAre
  <2>4. MarkIsLast'
    BY <1>2, <2>1, <2>8 DEF InOrder, MarkIsLast
  <2>6. FetchIsDue'
    BY <1>2, <2>1, <2>8 DEF InOrder, FetchIsDue
  <2>5. KnowsTheFile'
    <3>1. \A v \in Update!Writers : write'[v].at \in {"opens", "writes"} =>
            write'[v].whole = Update!Merged(cacheFile.data, write'[v].data)
      BY <1>1, <1>3, <2>1, <2>2 DEF InOrder, KnowsTheFile
    <3> QED
      BY <1>2, <1>4, <2>1, <3>1, WritersAre DEF InOrder, KnowsTheFile
  <2> QED
    BY <1>2, <2>1, <2>4, <2>5, <2>6, <2>7 DEF InOrder, ShownIsSeen, ToldIsKnown, Update!ToldOnce
<1> QED
  BY <1>5, <1>6, <1>7 DEF UpdateInv

LEMMA TruncateKept ==
  ASSUME Update!UpdateAssumption, UpdateInv, NEW w \in Update!Writers, Update!Truncate(w)
  PROVE  UpdateInv'
<1>0. UpdateTypes /\ write[w].at = "opens"
  BY DEF UpdateInv, Update!Truncate
<1>2. /\ write' = [write EXCEPT ![w].at = "writes"] /\ cacheFile' = [cacheFile EXCEPT !.torn = TRUE, !.filled = FALSE]
      /\ UNCHANGED <<released, installed, prog, now, starts, shownNews, toldVersions, disturbedCache,
           cutWrites>>
  BY DEF Update!Truncate
<1>3. /\ \A v \in Update!Writers \ {w} : write'[v] = write[v]
      /\ write'[w] = [at |-> "writes", data |-> write[w].data, whole |-> write[w].whole]
      /\ write' \in [Update!Writers -> [at : {"none", "begins", "opens", "writes"}, data : Caches,
                                        whole : Caches]]
      /\ cacheFile'.data = cacheFile.data /\ cacheFile' \in Files
  BY <1>0, <1>2 DEF UpdateTypes, Files
<1>4. \A v \in Update!Writers : write'[v].data = write[v].data /\ write'[v].whole = write[v].whole
                         /\ (write'[v].at = "none" <=> write[v].at = "none")
                         /\ (write'[v].at \in {"opens", "writes"} <=> write[v].at \in {"opens", "writes"})
  BY <1>0, <1>3
<1>5. UpdateTypes'
  BY <1>0, <1>2, <1>3, <1>4, WritersAre DEF UpdateTypes
<1>6. Update!WholeAgain'
  BY <1>3 DEF Update!WholeAgain
<1>7. ASSUME ~disturbedCache', ~cutWrites' PROVE InOrder'
  <2>1. InOrder
    BY <1>2, <1>7 DEF UpdateInv
  <2>3. \A v \in Update!Writers : Update!Busy(v)' <=> Update!Busy(v)
    BY <1>2, <1>4 DEF Update!Busy
  <2>4. OneWriter' /\ FetchIsDue' /\ MarkIsLast'
    BY <1>2, <1>3, <1>4, <2>1, <2>3, WritersAre DEF InOrder, OneWriter, MarkIsLast, FetchIsDue
  <2>5. KnowsTheFile'
    BY <1>2, <1>3, <1>4, <2>1, WritersAre DEF InOrder, KnowsTheFile
  <2> QED
    BY <1>2, <1>3, <2>1, <2>4, <2>5 DEF InOrder, ShownIsSeen, ToldIsKnown, Update!ToldOnce
<1> QED
  BY <1>5, <1>6, <1>7 DEF UpdateInv

LEMMA WrittenKept ==
  ASSUME Update!UpdateAssumption, UpdateInv, NEW w \in Update!Writers, Update!Written(w)
  PROVE  UpdateInv'
<1> USE DEF Update!UpdateAssumption
<1> DEFINE p == w[1]
           done == w[2] = "task"
           news == done /\ prog[p].found > prog[p].version
<1>0. UpdateTypes /\ write[w].at = "writes" /\ p \in UpdatingPrograms /\
        (done <=> w = <<p, "task">>) /\ (~done <=> w = <<p, "interface">>)
  BY WritersAre DEF UpdateInv, Update!Written
<1>1. /\ write' = [write EXCEPT ![w] = Update!NoWrite]
      /\ cacheFile' \in Update!Laid(w) /\ cutWrites' = (cutWrites \/ cacheFile.filled)
      /\ prog' = IF ~done THEN prog
                 ELSE [prog EXCEPT ![p].at = IF @ = "marks" THEN "checks" ELSE "runs", ![p].found = 0]
      /\ toldVersions' = IF news THEN toldVersions \union {[version |-> prog[p].found,
                                                            time |-> write[w].data.at]} ELSE toldVersions
      /\ installed' \in {installed} \union (IF news THEN {released} ELSE {})
      /\ UNCHANGED <<released, now, starts, shownNews, disturbedCache>>
  BY DEF Update!Written
<1> HIDE DEF p, news, done
<1>2. /\ \A v \in Update!Writers \ {w} : write'[v] = write[v]
      /\ write'[w] = Update!NoWrite /\ Update!NoWrite.at = "none"
      /\ write' \in [Update!Writers -> [at : {"none", "begins", "opens", "writes"}, data : Caches,
                                        whole : Caches]]
  BY <1>0, <1>1, CachesAre DEF Update!NoWrite, UpdateTypes
<1>3. /\ \A q \in UpdatingPrograms : prog'[q].version = prog[q].version
      /\ \A q \in UpdatingPrograms \ {p} : prog'[q] = prog[q]
      /\ ~done => prog' = prog
      /\ done => prog'[p].at = (IF prog[p].at = "marks" THEN "checks" ELSE "runs") /\ prog'[p].found = 0
      /\ prog' \in [UpdatingPrograms -> [at : NewsSteps, version : 0..MaxVersion, found : Nat]]
  <2>0. prog \in [UpdatingPrograms -> [at : NewsSteps, version : 0..MaxVersion, found : Nat]]
    BY <1>0 DEF UpdateTypes
  <2>1. CASE ~done
    BY <1>1, <2>0, <2>1
  <2>2. CASE done
    <3> DEFINE at == IF prog[p].at = "marks" THEN "checks" ELSE "runs"
    <3>1. prog' = [prog EXCEPT ![p].at = at, ![p].found = 0] /\ at \in NewsSteps
      BY <1>1, <2>2 DEF NewsSteps
    <3> HIDE DEF at
    <3>2. /\ \A q \in UpdatingPrograms \ {p} : prog'[q] = prog[q]
          /\ prog'[p] = [at |-> at, version |-> prog[p].version, found |-> 0]
          /\ prog' \in [UpdatingPrograms -> [at : NewsSteps, version : 0..MaxVersion, found : Nat]]
      BY <1>0, <2>0, <3>1
    <3> QED
      BY <1>0, <2>2, <3>2 DEF at
  <2> QED
    BY <2>1, <2>2
<1>4. /\ cacheFile' \in Files /\ cutWrites' \in BOOLEAN
      /\ ~cutWrites' => ~cacheFile'.torn /\ cacheFile'.data = write[w].whole
  <2>1. write[w].whole \in Caches /\ cacheFile.filled \in BOOLEAN /\ cutWrites \in BOOLEAN
    BY <1>0 DEF UpdateTypes, Files
  <2>2. Update!Merged(Update!Cached, write[w].whole) \in Caches
    BY <1>0, <2>1, CachedIs, MergedIs
  <2>3. \A data \in Caches : Update!Holds(data) \in Files /\ ~Update!Holds(data).torn
                         /\ Update!Holds(data).data = data
                         /\ [Update!Holds(data) EXCEPT !.torn = TRUE] \in Files
    BY DEF Update!Holds, Files
  <2>4. CASE ~cacheFile.filled
    BY <1>1, <2>1, <2>3, <2>4 DEF Update!Laid
  <2>5. CASE cacheFile.filled
    BY <1>1, <2>1, <2>2, <2>3, <2>5, CachesAre DEF Update!Laid
  <2> QED
    BY <2>4, <2>5
<1>5. toldVersions' \subseteq [version : Nat, time : Nat]
  <2>1. prog[p].found \in Nat /\ write[w].data.at \in Nat /\
          toldVersions \subseteq [version : Nat, time : Nat]
    BY <1>0 DEF UpdateTypes, Caches
  <2> QED
    BY <1>1, <2>1
<1>6. done => prog[p].at \in {"marks", "fetches"}
  BY <1>0 DEF UpdateTypes
<1>7. UpdateTypes'
  <2>1. \A q \in UpdatingPrograms : prog'[q].at # "off" => prog'[q].version # 0
    BY <1>0, <1>3, <1>6 DEF UpdateTypes
  <2>2. \A q \in UpdatingPrograms : prog'[q].at \notin {"marks", "fetches"} =>
          write'[<<q, "task">>].at = "none"
    <3> SUFFICES ASSUME NEW q \in UpdatingPrograms, prog'[q].at \notin {"marks", "fetches"}
                 PROVE  write'[<<q, "task">>].at = "none"
      OBVIOUS
    <3>1. CASE <<q, "task">> = w
      BY <1>2, <3>1
    <3>2. CASE <<q, "task">> # w
      <4>1. prog'[q] = prog[q]
        BY <1>0, <1>3, <3>2
      <4> QED
        BY <1>0, <1>2, <3>2, <4>1, WritersAre DEF UpdateTypes
    <3> QED
      BY <3>1, <3>2
  <2>3. installed' \in 1..MaxVersion
    BY <1>0, <1>1 DEF UpdateTypes
  <2>4. \A q \in UpdatingPrograms : prog'[q].at = "starts" => prog'[q].found = 0
    BY <1>0, <1>3, <1>6 DEF UpdateTypes
  <2> QED
    BY <1>0, <1>1, <1>2, <1>3, <1>4, <1>5, <2>1, <2>2, <2>3, <2>4 DEF UpdateTypes
<1>8. Update!WholeAgain'
  BY <1>4 DEF Update!WholeAgain
<1>9. ASSUME ~disturbedCache', ~cutWrites' PROVE InOrder'
  <2>1. InOrder /\ ~disturbedCache /\ ~cutWrites
    BY <1>1, <1>9 DEF UpdateInv
  <2>13. cacheFile'.data = write[w].whole
    BY <1>4, <1>9
  <2>2. Update!Busy(w) /\ \A v \in Update!Writers : Update!Busy(v)' => Update!Busy(v)
    BY <1>0, <1>1, <1>2, <1>3, WritersAre DEF Update!Busy
  <2>3. \A v \in Update!Writers : v # w => ~Update!Busy(v)
    BY <2>1, <2>2 DEF InOrder, OneWriter
  <2>4. \A v \in Update!Writers : write'[v].at = "none"
    BY <1>2, <2>3 DEF Update!Busy
  <2>5. \A q \in UpdatingPrograms : prog[q].at \in {"marks", "fetches"} => q = p /\ done
    <3> SUFFICES ASSUME NEW q \in UpdatingPrograms, prog[q].at \in {"marks", "fetches"} PROVE q = p /\ done
      OBVIOUS
    <3>1. <<q, "task">> \in Update!Writers /\ <<q, "task">>[2] = "task" /\ <<q, "task">>[1] = q
      BY WritersAre
    <3>2. Update!Busy(<<q, "task">>)
      BY <3>1 DEF Update!Busy
    <3> QED
      BY <1>0, <2>3, <3>1, <3>2, WritersAre
  <2>6. \A q \in UpdatingPrograms : prog'[q].at \notin {"marks", "fetches"}
    BY <1>0, <1>3, <1>6, <2>5
  <2>7. OneWriter' /\ KnowsTheFile' /\ MarkIsLast' /\ FetchIsDue'
    BY <2>4, <2>6, WritersAre DEF OneWriter, KnowsTheFile, MarkIsLast, FetchIsDue, Update!Busy
  <2>8. /\ cacheFile.data \in Caches /\ write[w].data \in Caches
        /\ cacheFile'.data = Update!Merged(cacheFile.data, write[w].data)
    BY <1>0, <2>1, <2>13 DEF InOrder, KnowsTheFile, UpdateTypes, Files
  <2>9. /\ cacheFile'.data.latest = IF write[w].data.latest # 0 THEN write[w].data.latest ELSE cacheFile.data.latest
        /\ cacheFile'.data.at = IF write[w].data.at # 0 THEN write[w].data.at ELSE cacheFile.data.at
        /\ cacheFile'.data.seen = IF write[w].data.seen # 0 THEN write[w].data.seen ELSE cacheFile.data.seen
        /\ cacheFile.data.at \in Nat /\ cacheFile.data.seen \in Nat /\ write[w].data.at \in Nat /\
             write[w].data.seen \in Nat
        /\ cacheFile.data.latest \in Nat /\ write[w].data.latest \in Nat
    BY <2>8, MergedIs DEF Caches
  <2>10. CASE ~done
    <3>1. cacheFile'.data.latest = cacheFile.data.latest /\ cacheFile'.data.at = cacheFile.data.at /\
            cacheFile'.data.seen = cacheFile.data.seen
      BY <1>0, <2>1, <2>9, <2>10 DEF InOrder, KnowsTheFile
    <3>2. toldVersions' = toldVersions /\ shownNews' = shownNews
      BY <1>1, <2>10 DEF news
    <3>3. ShownIsSeen' /\ ToldIsKnown' /\ Update!ToldOnce'
      BY <1>1, <1>3, <2>1, <2>5, <2>10, <3>1, <3>2 DEF InOrder, ShownIsSeen, ToldIsKnown, Update!ToldOnce
    <3> QED
      BY <2>7, <3>3 DEF InOrder
  <2>11. CASE done /\ prog[p].at = "marks"
    <3>1. /\ prog[p].found = 0 /\ write[w].data.seen = prog[p].version /\ write[w].data.latest # 0
          /\ cacheFile.data.latest # 0 => write[w].data.at = cacheFile.data.at
          /\ \A v \in 1..MaxVersion : shownNews[v] # 0 => v <= prog[p].version
      BY <1>0, <2>1, <2>11 DEF InOrder, MarkIsLast
    <3>2. prog[p].version \in 1..MaxVersion
      BY <1>0, <2>11 DEF UpdateTypes
    <3>3. toldVersions' = toldVersions /\ shownNews' = shownNews
      BY <1>1, <3>1, <3>2 DEF news
    <3>4. ShownIsSeen'
      BY <1>0, <2>1, <2>9, <3>1, <3>2, <3>3 DEF InOrder, ShownIsSeen
    <3>5. ToldIsKnown' /\ Update!ToldOnce'
      BY <1>1, <2>1, <2>9, <3>1, <3>3 DEF InOrder, ToldIsKnown, Update!ToldOnce
    <3> QED
      BY <2>7, <3>4, <3>5 DEF InOrder
  <2>12. CASE done /\ prog[p].at = "fetches"
    <3> DEFINE d == write[w].data
    <3>1. /\ d.seen = 0 /\ d.latest # 0 /\ d.at # 0 /\ d.at <= now
          /\ \A u \in toldVersions : u.time + TTL <= d.at
      BY <1>0, <2>1, <2>12 DEF InOrder, FetchIsDue
    <3>2. cacheFile'.data.latest # 0 /\ cacheFile'.data.at = d.at /\
            cacheFile'.data.seen = cacheFile.data.seen /\ d.at \in Nat
      BY <2>9, <3>1
    <3> HIDE DEF d
    <3>3. ShownIsSeen'
      BY <1>0, <1>1, <2>1, <2>5, <2>12, <3>2 DEF InOrder, ShownIsSeen
    <3>4. \A u \in toldVersions : u.time + TTL <= d.at /\ u.time \in Nat
      BY <1>0, <3>1 DEF UpdateTypes
    <3>5. \A u \in toldVersions' : u \in toldVersions \/ (news /\
                                                          u = [version |-> prog[p].found, time |-> d.at])
      BY <1>1 DEF d
    <3>6. ToldIsKnown'
      BY <3>2, <3>4, <3>5 DEF ToldIsKnown
    <3>7. Update!ToldOnce'
      <4>1. ASSUME NEW t \in toldVersions', NEW u \in toldVersions', t.version = u.version
            PROVE  t = u \/ t.time - u.time \notin 0..TTL - 1
        BY <2>1, <3>2, <3>4, <3>5, <4>1 DEF InOrder, Update!ToldOnce
      <4> QED
        BY <4>1 DEF Update!ToldOnce
    <3> QED
      BY <2>7, <3>3, <3>6, <3>7 DEF InOrder
  <2> QED
    BY <1>6, <2>10, <2>11, <2>12
<1> QED
  BY <1>7, <1>8, <1>9 DEF UpdateInv

-----------------------------------------------------------------------------
\* A program goes on, and only that.
LEMMA GoesOn ==
  ASSUME UpdateTypes, NEW p \in UpdatingPrograms, NEW at \in NewsSteps, Update!Goes(p, at)
  PROVE  /\ \A q \in UpdatingPrograms \ {p} : prog'[q] = prog[q]
         /\ prog'[p].at = at /\ prog'[p].version = prog[p].version /\ prog'[p].found = prog[p].found
         /\ prog' \in [UpdatingPrograms -> [at : NewsSteps, version : 0..MaxVersion, found : Nat]]
<1>1. prog' = [prog EXCEPT ![p].at = at]
  BY DEF Update!Goes
<1>2. prog \in [UpdatingPrograms -> [at : NewsSteps, version : 0..MaxVersion, found : Nat]]
  BY DEF UpdateTypes
<1> QED
  BY <1>1, <1>2

LEMMA Begins ==
  ASSUME UpdateTypes, NEW w \in Update!Writers, NEW data \in Caches, Update!Writes(w, data)
  PROVE  /\ \A v \in Update!Writers \ {w} : write'[v] = write[v]
         /\ write'[w].at = "begins" /\ write'[w].data = data
         /\ write' \in [Update!Writers -> [at : {"none", "begins", "opens", "writes"}, data : Caches,
                                           whole : Caches]]
<1>1. write' = [write EXCEPT ![w] = [at |-> "begins", data |-> data, whole |-> Update!Empty]]
  BY DEF Update!Writes
<1>2. [at |-> "begins", data |-> data, whole |-> Update!Empty] \in [at : {"none", "begins", "opens",
        "writes"}, data : Caches, whole : Caches]
  BY CachesAre
<1> QED
  BY <1>1, <1>2 DEF UpdateTypes

\* Nobody writes: the file is whole.
LEMMA AloneReads ==
  ASSUME UpdateInv, ~cutWrites, \A w \in Update!Writers : write[w].at # "writes"
  PROVE  Update!Cached = cacheFile.data
BY CachedIs DEF UpdateInv, Update!WholeAgain

LEMMA NoneBusy ==
  ASSUME UpdateTypes, NEW p \in UpdatingPrograms, prog[p].at \notin {"marks", "fetches"},
           Update!Alone(<<p, "task">>)
  PROVE  /\ \A w \in Update!Writers : ~Update!Busy(w) /\ write[w].at = "none"
         /\ \A q \in UpdatingPrograms : prog[q].at \notin {"marks", "fetches"}
<1>1. ~Update!Busy(<<p, "task">>)
  BY WritersAre DEF UpdateTypes, Update!Busy
<1>2. \A w \in Update!Writers : ~Update!Busy(w)
  BY <1>1 DEF Update!Alone
<1>3. ASSUME NEW q \in UpdatingPrograms PROVE prog[q].at \notin {"marks", "fetches"}
  BY <1>2, WritersAre DEF Update!Busy
<1> QED
  BY <1>2, <1>3 DEF Update!Busy

LEMMA StartKept ==
  ASSUME Update!UpdateAssumption, UpdateInv, NEW p \in UpdatingPrograms, Update!Start(p)
  PROVE  UpdateInv'
<1> USE DEF Update!UpdateAssumption
<1> DEFINE r == [at |-> "starts", version |-> installed, found |-> 0]
<1>1. /\ prog[p].at = "off" /\ prog' = [prog EXCEPT ![p] = r]
      /\ UNCHANGED <<cacheFile, released, installed, write, now, shownNews, toldVersions,
           disturbedCache, cutWrites>>
  BY DEF Update!Start
<1>2. UpdateTypes /\ r \in [at : NewsSteps, version : 0..MaxVersion, found : Nat] /\ r.at = "starts" /\
        r.version # 0 /\ r.found = 0
  BY DEF UpdateInv, UpdateTypes, NewsSteps
<1> HIDE DEF r
<1>3. /\ \A q \in UpdatingPrograms \ {p} : prog'[q] = prog[q]
      /\ prog'[p] = r
      /\ prog' \in [UpdatingPrograms -> [at : NewsSteps, version : 0..MaxVersion, found : Nat]]
  BY <1>1, <1>2 DEF UpdateTypes
<1>4. UpdateTypes'
  BY <1>1, <1>2, <1>3 DEF UpdateTypes
<1>5. Update!WholeAgain'
  BY <1>1 DEF UpdateInv, Update!WholeAgain
<1>6. ASSUME ~disturbedCache', ~cutWrites' PROVE InOrder'
  <2>1. InOrder
    BY <1>1, <1>6 DEF UpdateInv
  <2>2. \A q \in UpdatingPrograms : prog'[q].at \in {"marks", "fetches"} => prog'[q] = prog[q]
    BY <1>2, <1>3
  <2>3. \A q \in UpdatingPrograms : prog[q].at \in {"marks", "fetches"} => prog'[q] = prog[q]
    BY <1>1, <1>3
  <2>4. \A w \in Update!Writers : Update!Busy(w)' <=> Update!Busy(w)
    BY <1>1, <2>2, <2>3, WritersAre DEF Update!Busy
  <2>5. OneWriter' /\ KnowsTheFile'
    BY <1>1, <2>1, <2>4 DEF InOrder, OneWriter, KnowsTheFile
  <2>6. MarkIsLast'
    BY <1>1, <2>1, <2>2 DEF InOrder, MarkIsLast
  <2>7. FetchIsDue'
    BY <1>1, <2>1, <2>2 DEF InOrder, FetchIsDue
  <2>8. ShownIsSeen' /\ ToldIsKnown' /\ Update!ToldOnce'
    BY <1>1, <1>6, <2>1, <2>3 DEF InOrder, ShownIsSeen, ToldIsKnown, Update!ToldOnce
  <2> QED
    BY <2>5, <2>6, <2>7, <2>8 DEF InOrder
<1> QED
  BY <1>4, <1>5, <1>6 DEF UpdateInv

LEMMA NewsKept ==
  ASSUME Update!UpdateAssumption, UpdateInv, NEW p \in UpdatingPrograms, Update!News(p)
  PROVE  UpdateInv'
<1> USE DEF Update!UpdateAssumption
<1> DEFINE show == Update!Cached.latest # 0 /\ Update!Cached.seen # prog[p].version
           ver == prog[p].version
<1>1. /\ prog[p].at = "starts" /\ Update!Goes(p, IF show THEN "marks" ELSE "checks")
      /\ shownNews' = IF show THEN [shownNews EXCEPT ![ver] = @ + 1] ELSE shownNews
      /\ disturbedCache' = (disturbedCache \/ ~Update!Alone(<<p, "task">>) \/ (show /\
           Update!Cached.seen > ver))
      /\ UNCHANGED <<cacheFile, released, installed, write, now, starts, toldVersions, cutWrites>>
  BY DEF Update!News
<1>2. UpdateTypes /\ Update!Cached \in Caches /\ ver \in 1..MaxVersion /\ prog[p].found = 0 /\
        write[<<p, "task">>].at = "none"
  <2>1. UpdateTypes
    BY DEF UpdateInv
  <2>2. prog[p] \in [at : NewsSteps, version : 0..MaxVersion, found : Nat]
    BY <2>1 DEF UpdateTypes
  <2>3. prog[p].version # 0 /\ prog[p].found = 0 /\ write[<<p, "task">>].at = "none"
    BY <1>1, <2>1 DEF UpdateTypes
  <2> QED
    BY <2>1, <2>2, <2>3, CachedIs
<1>3. /\ \A q \in UpdatingPrograms \ {p} : prog'[q] = prog[q]
      /\ prog'[p].at = (IF show THEN "marks" ELSE "checks") /\ prog'[p].version = ver /\ prog'[p].found = 0
      /\ prog' \in [UpdatingPrograms -> [at : NewsSteps, version : 0..MaxVersion, found : Nat]]
  BY <1>1, <1>2, GoesOn DEF NewsSteps
<1> HIDE DEF show, ver
<1>4. shownNews' \in [1..MaxVersion -> Nat] /\ disturbedCache' \in BOOLEAN
  BY <1>1, <1>2 DEF UpdateTypes
<1>5. UpdateTypes'
  <2>1. \A q \in UpdatingPrograms :
          /\ prog'[q].at # "off" => prog'[q].version # 0
          /\ prog'[q].at = "starts" => prog'[q].found = 0
          /\ prog'[q].at \notin {"marks", "fetches"} => write[<<q, "task">>].at = "none"
    <3> SUFFICES ASSUME NEW q \in UpdatingPrograms
                 PROVE  /\ prog'[q].at # "off" => prog'[q].version # 0
                        /\ prog'[q].at = "starts" => prog'[q].found = 0
                        /\ prog'[q].at \notin {"marks", "fetches"} => write[<<q, "task">>].at = "none"
      OBVIOUS
    <3>1. CASE q = p
      BY <1>2, <1>3, <3>1
    <3>2. CASE q # p
      BY <1>2, <1>3, <3>2 DEF UpdateTypes
    <3> QED
      BY <3>1, <3>2
  <2> QED
    BY <1>1, <1>2, <1>3, <1>4, <2>1 DEF UpdateTypes
<1>6. Update!WholeAgain'
  BY <1>1 DEF UpdateInv, Update!WholeAgain
<1>7. ASSUME ~disturbedCache', ~cutWrites' PROVE InOrder'
  <2>1. InOrder /\ ~cutWrites /\ Update!Alone(<<p, "task">>) /\ ~(show /\ Update!Cached.seen > ver)
    BY <1>1, <1>2, <1>7 DEF UpdateInv, UpdateTypes
  <2>2. /\ \A w \in Update!Writers : ~Update!Busy(w) /\ write[w].at = "none"
        /\ \A q \in UpdatingPrograms : prog[q].at \notin {"marks", "fetches"}
    BY <1>1, <1>2, <2>1, NoneBusy
  <2>3. Update!Cached = cacheFile.data
    BY <2>1, <2>2, AloneReads
  <2>4. \A w \in Update!Writers : Update!Busy(w)' => w = <<p, "task">>
    BY <1>1, <1>3, <2>2, WritersAre DEF Update!Busy
  <2>5. OneWriter' /\ KnowsTheFile'
    BY <1>1, <2>2, <2>4, WritersAre DEF OneWriter, KnowsTheFile
  <2>6. FetchIsDue'
    BY <1>3, <2>2 DEF FetchIsDue
  <2>7. ToldIsKnown' /\ Update!ToldOnce'
    BY <1>1, <1>7, <2>1 DEF InOrder, ToldIsKnown, Update!ToldOnce
  <2>8. \A v \in 1..MaxVersion : shownNews[v] \in {0, 1} /\ (shownNews[v] # 0 => v <= cacheFile.data.seen)
    BY <2>1, <2>2 DEF InOrder, ShownIsSeen
  <2>9. CASE ~show
    BY <1>1, <1>3, <2>2, <2>5, <2>6, <2>7, <2>8, <2>9 DEF InOrder, MarkIsLast, ShownIsSeen
  <2>10. CASE show
    <3>1. Update!Cached.seen < ver /\ Update!Cached.seen \in Nat
      BY <1>2, <2>1, <2>10 DEF show, ver, Caches
    <3>2. shownNews[ver] = 0
      BY <1>2, <2>3, <2>8, <3>1
    <3>3. \A v \in 1..MaxVersion : shownNews'[v] = IF v = ver THEN 1 ELSE shownNews[v]
      BY <1>1, <1>2, <2>10, <3>2 DEF UpdateTypes
    <3>4. \A v \in 1..MaxVersion : shownNews'[v] # 0 => v <= ver
      BY <1>2, <2>3, <2>8, <3>1, <3>3
    <3>5. MarkIsLast'
      BY <1>1, <1>2, <1>3, <2>2, <3>4 DEF MarkIsLast
    <3>6. ShownIsSeen'
      BY <1>3, <2>8, <2>10, <3>3 DEF ShownIsSeen
    <3> QED
      BY <2>5, <2>6, <2>7, <3>5, <3>6 DEF InOrder
  <2> QED
    BY <2>9, <2>10
<1> QED
  BY <1>5, <1>6, <1>7 DEF UpdateInv

LEMMA MarkKept ==
  ASSUME Update!UpdateAssumption, UpdateInv, NEW p \in UpdatingPrograms, Update!Mark(p)
  PROVE  UpdateInv'
<1> USE DEF Update!UpdateAssumption
<1> DEFINE w == <<p, "task">>
           d == [latest |-> IF Update!Cached.latest = 0 THEN prog[p].version ELSE Update!Cached.latest,
                 at |-> IF Update!Cached.latest = 0 THEN now ELSE Update!Cached.at,
                 seen |-> prog[p].version, asked |-> 0]
<1>1. /\ prog[p].at = "marks" /\ write[w].at = "none" /\ Update!Writes(w, d)
      /\ disturbedCache' = (disturbedCache \/ ~Update!Alone(w))
      /\ UNCHANGED <<cacheFile, released, installed, prog, now, starts, shownNews, toldVersions, cutWrites>>
  BY DEF Update!Mark
<1>2. UpdateTypes /\ Update!Cached \in Caches /\ prog[p].version \in 1..MaxVersion /\ now \in Nat /\
        w \in Update!Writers
  <2>1. UpdateTypes
    BY DEF UpdateInv
  <2>2. prog[p] \in [at : NewsSteps, version : 0..MaxVersion, found : Nat] /\ prog[p].version # 0 /\
          now \in Nat
    BY <1>1, <2>1 DEF UpdateTypes
  <2>3. prog[p].version \in 1..MaxVersion
    BY <2>2
  <2> QED
    BY <2>1, <2>2, <2>3, CachedIs, WritersAre
<1>3. d \in Caches
  BY <1>2 DEF Caches
<1>4. /\ d.seen = prog[p].version /\ d.latest # 0
      /\ Update!Cached.latest # 0 => d.at = Update!Cached.at
  BY <1>2
<1> HIDE DEF d
<1>5. /\ \A v \in Update!Writers \ {w} : write'[v] = write[v]
      /\ write'[w].at = "begins" /\ write'[w].data = d
      /\ write' \in [Update!Writers -> [at : {"none", "begins", "opens", "writes"}, data : Caches,
                                        whole : Caches]]
  BY <1>1, <1>2, <1>3, Begins
<1>6. \A q \in UpdatingPrograms : /\ q # p => write'[<<q, "task">>] = write[<<q, "task">>]
                                  /\ write'[<<q, "interface">>] = write[<<q, "interface">>]
  BY <1>5, WritersAre
<1>7. UpdateTypes'
  BY <1>1, <1>2, <1>5, <1>6 DEF UpdateTypes
<1>8. Update!WholeAgain'
  BY <1>1, <1>5 DEF UpdateInv, Update!WholeAgain
<1>9. ASSUME ~disturbedCache', ~cutWrites' PROVE InOrder'
  <2>1. InOrder /\ ~cutWrites /\ Update!Alone(w)
    BY <1>1, <1>2, <1>9 DEF UpdateInv, UpdateTypes
  <2>2. \A v \in Update!Writers : v # w => ~Update!Busy(v) /\ write[v].at = "none"
    BY <2>1 DEF Update!Alone, Update!Busy
  <2>3. Update!Cached = cacheFile.data
    BY <1>1, <2>1, <2>2, AloneReads
  <2>4. Update!Busy(w) /\ Update!Busy(w)'
    BY <1>1, <1>5 DEF Update!Busy
  <2>5. \A v \in Update!Writers : Update!Busy(v)' => v = w
    BY <1>1, <1>5, <2>2 DEF Update!Busy
  <2>6. OneWriter'
    BY <2>5 DEF OneWriter
  <2>7. KnowsTheFile'
    BY <1>1, <1>5, <1>6, <2>1 DEF InOrder, KnowsTheFile
  <2>8. FetchIsDue'
    BY <1>1, <1>6, <2>1 DEF InOrder, FetchIsDue
  <2>9. MarkIsLast'
    BY <1>1, <1>4, <1>5, <1>6, <2>1, <2>3 DEF InOrder, MarkIsLast
  <2> QED
    BY <1>1, <1>9, <2>1, <2>6, <2>7, <2>8, <2>9 DEF InOrder, ShownIsSeen, ToldIsKnown, Update!ToldOnce
<1> QED
  BY <1>7, <1>8, <1>9 DEF UpdateInv

LEMMA CheckKept ==
  ASSUME Update!UpdateAssumption, UpdateInv, NEW p \in UpdatingPrograms, Update!Check(p)
  PROVE  UpdateInv'
<1> USE DEF Update!UpdateAssumption
<1>1. /\ prog[p].at = "checks" /\ Update!Goes(p, IF Update!Fresh THEN "runs" ELSE "fetches")
      /\ disturbedCache' = (disturbedCache \/ ~Update!Alone(<<p, "task">>))
      /\ UNCHANGED <<cacheFile, released, installed, write, now, starts, shownNews, toldVersions,
           cutWrites>>
  BY DEF Update!Check
<1>2. UpdateTypes /\ Update!Cached \in Caches /\ prog[p].version # 0 /\
        write[<<p, "task">>].at = "none" /\ now \in Nat
  <2>1. UpdateTypes
    BY DEF UpdateInv
  <2> QED
    BY <1>1, <2>1, CachedIs DEF UpdateTypes
<1>3. /\ \A q \in UpdatingPrograms \ {p} : prog'[q] = prog[q]
      /\ prog'[p].at = (IF Update!Fresh THEN "runs" ELSE "fetches") /\ prog'[p].version = prog[p].version
      /\ prog' \in [UpdatingPrograms -> [at : NewsSteps, version : 0..MaxVersion, found : Nat]]
  BY <1>1, <1>2, GoesOn DEF NewsSteps
<1>5. UpdateTypes'
  <2>1. \A q \in UpdatingPrograms :
          /\ prog'[q].at # "off" => prog'[q].version # 0
          /\ prog'[q].at = "starts" => prog'[q].found = 0
          /\ prog'[q].at \notin {"marks", "fetches"} => write[<<q, "task">>].at = "none"
    BY <1>2, <1>3 DEF UpdateTypes
  <2>2. disturbedCache' \in BOOLEAN
    BY <1>1
  <2> QED
    BY <1>1, <1>2, <1>3, <2>1, <2>2 DEF UpdateTypes
<1>6. Update!WholeAgain'
  BY <1>1 DEF UpdateInv, Update!WholeAgain
<1>7. ASSUME ~disturbedCache', ~cutWrites' PROVE InOrder'
  <2>1. InOrder /\ ~cutWrites /\ Update!Alone(<<p, "task">>)
    BY <1>1, <1>2, <1>7 DEF UpdateInv, UpdateTypes
  <2>2. /\ \A w \in Update!Writers : ~Update!Busy(w) /\ write[w].at = "none"
        /\ \A q \in UpdatingPrograms : prog[q].at \notin {"marks", "fetches"}
    BY <1>1, <1>2, <2>1, NoneBusy
  <2>3. Update!Cached = cacheFile.data
    BY <2>1, <2>2, AloneReads
  <2>4. \A w \in Update!Writers : Update!Busy(w)' => w = <<p, "task">>
    BY <1>1, <1>3, <2>2, WritersAre DEF Update!Busy
  <2>5. OneWriter' /\ KnowsTheFile'
    BY <1>1, <2>2, <2>4, WritersAre DEF OneWriter, KnowsTheFile
  <2>6. \A q \in UpdatingPrograms : prog'[q].at # "marks" /\ (prog'[q].at = "fetches" => q = p /\
                                                              ~Update!Fresh)
    BY <1>3, <2>2
  <2>7. ~Update!Fresh => \A u \in toldVersions : u.time + TTL <= now
    BY <1>2, <2>1, <2>3 DEF InOrder, ToldIsKnown, UpdateTypes, Caches, Update!Fresh
  <2>8. FetchIsDue' /\ MarkIsLast'
    BY <1>1, <1>2, <2>6, <2>7 DEF FetchIsDue, MarkIsLast
  <2>9. ShownIsSeen'
    BY <1>1, <2>1, <2>2 DEF InOrder, ShownIsSeen
  <2> QED
    BY <1>1, <1>7, <2>1, <2>5, <2>8, <2>9 DEF InOrder, ToldIsKnown, Update!ToldOnce
<1> QED
  BY <1>5, <1>6, <1>7 DEF UpdateInv

LEMMA FetchKept ==
  ASSUME Update!UpdateAssumption, UpdateInv, NEW p \in UpdatingPrograms, Update!Fetch(p)
  PROVE  UpdateInv'
<1> USE DEF Update!UpdateAssumption
<1>0. PICK latest \in {0, released} :
        LET found == IF latest > prog[p].version THEN latest ELSE prog[p].version IN
        /\ prog[p].at = "fetches" /\ write[<<p, "task">>].at = "none"
        /\ Update!Writes(<<p, "task">>, [latest |-> found, at |-> now, seen |-> 0, asked |-> 0])
        /\ prog' = [prog EXCEPT ![p].found = found]
        /\ UNCHANGED <<cacheFile, released, installed, now, starts, shownNews, toldVersions,
             disturbedCache, cutWrites>>
  BY DEF Update!Fetch
<1> DEFINE w == <<p, "task">>
           found == IF latest > prog[p].version THEN latest ELSE prog[p].version
           d == [latest |-> found, at |-> now, seen |-> 0, asked |-> 0]
<1>1. /\ prog[p].at = "fetches" /\ write[w].at = "none" /\ Update!Writes(w, d)
      /\ prog' = [prog EXCEPT ![p].found = found]
      /\ UNCHANGED <<cacheFile, released, installed, now, starts, shownNews, toldVersions,
           disturbedCache, cutWrites>>
  BY <1>0
<1>2. UpdateTypes /\ found \in Nat \ {0} /\ now \in Nat \ {0} /\ w \in Update!Writers
  <2>1. UpdateTypes
    BY DEF UpdateInv
  <2>2. prog[p] \in [at : NewsSteps, version : 0..MaxVersion, found : Nat] /\ prog[p].version # 0 /\
          now \in Nat \ {0}
        /\ released \in Nat
    BY <1>1, <2>1 DEF UpdateTypes
  <2>3. prog[p].version \in Nat \ {0} /\ latest \in Nat
    BY <2>2
  <2>4. found \in Nat \ {0}
    BY <2>3
  <2> QED
    BY <2>1, <2>2, <2>4, WritersAre
<1> HIDE DEF found
<1>3. d \in Caches
  BY <1>2 DEF Caches
<1>4. d.seen = 0 /\ d.latest # 0 /\ d.at = now
  BY <1>2
<1> HIDE DEF d
<1>5. /\ \A v \in Update!Writers \ {w} : write'[v] = write[v]
      /\ write'[w].at = "begins" /\ write'[w].data = d
      /\ write' \in [Update!Writers -> [at : {"none", "begins", "opens", "writes"}, data : Caches,
                                        whole : Caches]]
  BY <1>1, <1>2, <1>3, Begins
<1>6. \A q \in UpdatingPrograms : /\ q # p => write'[<<q, "task">>] = write[<<q, "task">>]
                                  /\ write'[<<q, "interface">>] = write[<<q, "interface">>]
  BY <1>5, WritersAre
<1>7. /\ \A q \in UpdatingPrograms : prog'[q].at = prog[q].at /\ prog'[q].version = prog[q].version
      /\ \A q \in UpdatingPrograms \ {p} : prog'[q] = prog[q]
      /\ prog' \in [UpdatingPrograms -> [at : NewsSteps, version : 0..MaxVersion, found : Nat]]
  BY <1>1, <1>2 DEF UpdateTypes
<1>8. UpdateTypes'
  <2>1. \A q \in UpdatingPrograms :
          /\ prog'[q].at # "off" => prog'[q].version # 0
          /\ prog'[q].at = "starts" => prog'[q].found = 0
          /\ prog'[q].at \notin {"marks", "fetches"} => write'[<<q, "task">>].at = "none"
    <3>1. \A q \in UpdatingPrograms :
            /\ prog[q].at # "off" => prog[q].version # 0
            /\ prog[q].at = "starts" => prog[q].found = 0
            /\ prog[q].at \notin {"marks", "fetches"} => write[<<q, "task">>].at = "none"
      BY <1>2 DEF UpdateTypes
    <3> QED
      BY <1>1, <1>6, <1>7, <3>1
  <2> QED
    BY <1>1, <1>2, <1>5, <1>7, <2>1 DEF UpdateTypes
<1>9. Update!WholeAgain'
  BY <1>1, <1>5 DEF UpdateInv, Update!WholeAgain
<1>10. ASSUME ~disturbedCache', ~cutWrites' PROVE InOrder'
  <2>1. InOrder
    BY <1>1, <1>10 DEF UpdateInv
  <2>2. \A v \in Update!Writers : Update!Busy(v)' => Update!Busy(v)
    BY <1>1, <1>5, <1>7, WritersAre DEF Update!Busy
  <2>3. OneWriter'
    BY <2>1, <2>2 DEF InOrder, OneWriter
  <2>4. KnowsTheFile'
    BY <1>1, <1>5, <1>6, <2>1 DEF InOrder, KnowsTheFile
  <2>5. MarkIsLast'
    <3>1. \A q \in UpdatingPrograms : prog'[q].at = "marks" => prog[q].at = "marks" /\
            prog'[q] = prog[q] /\ write'[<<q, "task">>] = write[<<q, "task">>]
      BY <1>1, <1>6, <1>7
    <3> QED
      BY <1>1, <2>1, <3>1 DEF InOrder, MarkIsLast
  <2>6. FetchIsDue'
    <3>1. \A q \in UpdatingPrograms : prog'[q].at = "fetches" => prog[q].at = "fetches"
      BY <1>7
    <3>2. \A u \in toldVersions : u.time + TTL <= now
      BY <1>1, <2>1 DEF InOrder, FetchIsDue
    <3>3. \A q \in UpdatingPrograms : q # p => write'[<<q, "task">>] = write[<<q, "task">>]
      BY <1>6
    <3>4. d.at <= now /\ d.at # 0
      BY <1>2, <1>4
    <3>5. ASSUME NEW q \in UpdatingPrograms, prog'[q].at = "fetches", write'[<<q, "task">>].at # "none"
          PROVE  LET e == write'[<<q, "task">>].data IN
                 e.seen = 0 /\ e.latest # 0 /\ e.at # 0 /\ e.at <= now /\
                   \A u \in toldVersions : u.time + TTL <= e.at
      <4>1. CASE q = p
        BY <1>4, <1>5, <3>2, <3>4, <4>1
      <4>2. CASE q # p
        BY <2>1, <3>1, <3>3, <3>5, <4>2 DEF InOrder, FetchIsDue
      <4> QED
        BY <4>1, <4>2
    <3> QED
      BY <1>1, <3>2, <3>5 DEF FetchIsDue
  <2>7. ShownIsSeen'
    BY <1>1, <1>7, <2>1 DEF InOrder, ShownIsSeen
  <2> QED
    BY <1>1, <1>10, <2>1, <2>3, <2>4, <2>5, <2>6, <2>7 DEF InOrder, ToldIsKnown, Update!ToldOnce
<1> QED
  BY <1>8, <1>9, <1>10 DEF UpdateInv

LEMMA FeedbackKept ==
  ASSUME Update!UpdateAssumption, UpdateInv, NEW p \in UpdatingPrograms, Update!Ask(p)
  PROVE  UpdateInv'
<1> USE DEF Update!UpdateAssumption
<1> DEFINE w == <<p, "interface">>
           d == [Update!Empty EXCEPT !.asked = now]
<1>1. /\ write[w].at = "none" /\ Update!Writes(w, d) /\ disturbedCache' = (disturbedCache \/
           ~Update!Alone(w))
      /\ UNCHANGED <<cacheFile, released, installed, prog, now, starts, shownNews, toldVersions, cutWrites>>
  BY DEF Update!Ask
<1>2. UpdateTypes /\ now \in Nat /\ w \in Update!Writers
  BY WritersAre DEF UpdateInv, UpdateTypes
<1>3. d \in Caches /\ d.seen = 0 /\ d.latest = 0 /\ d.at = 0
  BY <1>2 DEF Caches, Update!Empty
<1> HIDE DEF d
<1>4. /\ \A v \in Update!Writers \ {w} : write'[v] = write[v]
      /\ write'[w].at = "begins" /\ write'[w].data = d
      /\ write' \in [Update!Writers -> [at : {"none", "begins", "opens", "writes"}, data : Caches,
                                        whole : Caches]]
  BY <1>1, <1>2, <1>3, Begins
<1>5. \A q \in UpdatingPrograms : /\ q # p => write'[<<q, "interface">>] = write[<<q, "interface">>]
                                  /\ write'[<<q, "task">>] = write[<<q, "task">>]
  BY <1>4, WritersAre
<1>6. UpdateTypes'
  BY <1>1, <1>2, <1>4, <1>5 DEF UpdateTypes
<1>7. Update!WholeAgain'
  BY <1>1, <1>4 DEF UpdateInv, Update!WholeAgain
<1>8. ASSUME ~disturbedCache', ~cutWrites' PROVE InOrder'
  <2>1. InOrder /\ Update!Alone(w)
    BY <1>1, <1>2, <1>8 DEF UpdateInv, UpdateTypes
  <2>2. \A v \in Update!Writers : v # w => ~Update!Busy(v)
    BY <2>1 DEF Update!Alone
  <2>3. \A v \in Update!Writers : Update!Busy(v)' => v = w
    BY <1>1, <1>4, <2>2 DEF Update!Busy
  <2>4. OneWriter'
    BY <2>3 DEF OneWriter
  <2>5. KnowsTheFile'
    <3>1. \A q \in UpdatingPrograms : LET e == write'[<<q, "interface">>] IN
            e.at # "none" => e.data.seen = 0 /\ e.data.latest = 0 /\ e.data.at = 0
      BY <1>3, <1>4, <1>5, <2>1 DEF InOrder, KnowsTheFile
    <3>2. \A v \in Update!Writers : write'[v].at \in {"opens", "writes"} => write'[v] = write[v]
      BY <1>4
    <3> QED
      BY <1>1, <2>1, <3>1, <3>2 DEF InOrder, KnowsTheFile
  <2>6. MarkIsLast'
    BY <1>1, <1>5, <2>1 DEF InOrder, MarkIsLast
  <2>7. FetchIsDue'
    BY <1>1, <1>5, <2>1 DEF InOrder, FetchIsDue
  <2> QED
    BY <1>1, <1>8, <2>1, <2>4, <2>5, <2>6, <2>7 DEF InOrder, ShownIsSeen, ToldIsKnown, Update!ToldOnce
<1> QED
  BY <1>6, <1>7, <1>8 DEF UpdateInv

LEMMA EndKept ==
  ASSUME Update!UpdateAssumption, UpdateInv, NEW p \in UpdatingPrograms, Update!End(p)
  PROVE  UpdateInv'
<1> USE DEF Update!UpdateAssumption
<1>1. /\ prog[p].at # "off" /\ prog' = [prog EXCEPT ![p] = Update!Off]
      /\ write' = [w \in Update!Writers |-> IF w[1] = p THEN Update!NoWrite ELSE write[w]]
      /\ disturbedCache' = (disturbedCache \/ prog[p].at = "marks")
      /\ cutWrites' = (cutWrites \/ \E w \in Update!Writers : w[1] = p /\ write[w].at # "none")
      /\ UNCHANGED <<cacheFile, released, installed, now, starts, shownNews, toldVersions>>
  BY DEF Update!End
<1>2. UpdateTypes
  BY DEF UpdateInv
<1>3. Update!Off \in [at : NewsSteps, version : 0..MaxVersion, found : Nat] /\ Update!Off.at = "off"
  BY DEF Update!Off, NewsSteps
<1>4. Update!NoWrite \in [at : {"none", "begins", "opens", "writes"}, data : Caches, whole : Caches] /\
        Update!NoWrite.at = "none"
  BY CachesAre DEF Update!NoWrite
<1>5. /\ \A q \in UpdatingPrograms \ {p} : prog'[q] = prog[q]
      /\ prog'[p] = Update!Off
      /\ prog' \in [UpdatingPrograms -> [at : NewsSteps, version : 0..MaxVersion, found : Nat]]
  BY <1>1, <1>2, <1>3 DEF UpdateTypes
<1>6. /\ \A w \in Update!Writers : write'[w] = IF w[1] = p THEN Update!NoWrite ELSE write[w]
      /\ write' \in [Update!Writers -> [at : {"none", "begins", "opens", "writes"}, data : Caches,
                                        whole : Caches]]
  BY <1>1, <1>2, <1>4 DEF UpdateTypes
<1>7. UpdateTypes'
  <2>1. \A q \in UpdatingPrograms :
          /\ prog'[q].at # "off" => prog'[q].version # 0
          /\ prog'[q].at = "starts" => prog'[q].found = 0
          /\ prog'[q].at \notin {"marks", "fetches"} => write'[<<q, "task">>].at = "none"
    BY <1>2, <1>3, <1>4, <1>5, <1>6, WritersAre DEF UpdateTypes
  <2>2. disturbedCache' \in BOOLEAN /\ cutWrites' \in BOOLEAN
    BY <1>1
  <2> QED
    BY <1>1, <1>2, <1>5, <1>6, <2>1, <2>2 DEF UpdateTypes
<1>8. Update!WholeAgain'
  BY <1>1, <1>6 DEF UpdateInv, Update!WholeAgain
<1>9. ASSUME ~disturbedCache', ~cutWrites' PROVE InOrder'
  <2>1. /\ InOrder /\ prog[p].at # "marks"
        /\ \A w \in Update!Writers : w[1] = p => write[w].at = "none"
    BY <1>1, <1>9 DEF UpdateInv
  <2>2. \A w \in Update!Writers : write'[w].at # "none" => write'[w] = write[w]
    BY <1>4, <1>6
  <2>3. \A q \in UpdatingPrograms : prog'[q].at # "off" => prog'[q] = prog[q]
    BY <1>3, <1>5
  <2>4. \A w \in Update!Writers : Update!Busy(w)' => Update!Busy(w)
    BY <2>2, <2>3, WritersAre DEF Update!Busy
  <2>5. OneWriter'
    BY <2>1, <2>4 DEF InOrder, OneWriter
  <2>6. \A q \in UpdatingPrograms : /\ write'[<<q, "task">>].at # "none" =>
                                         write'[<<q, "task">>] = write[<<q, "task">>]
                                    /\ write'[<<q, "interface">>].at # "none" =>
                                         write'[<<q, "interface">>] = write[<<q, "interface">>]
    BY <2>2, WritersAre
  <2>7. KnowsTheFile'
    BY <1>1, <2>1, <2>2, <2>6 DEF InOrder, KnowsTheFile
  <2>8. MarkIsLast'
    <3>1. \A q \in UpdatingPrograms : prog'[q].at = "marks" => prog[q].at = "marks" /\ prog'[q] = prog[q]
      BY <2>3
    <3>2. \A q \in UpdatingPrograms : write'[<<q, "task">>].at # "none" =>
            write'[<<q, "task">>] = write[<<q, "task">>]
      BY <2>6
    <3> QED
      BY <1>1, <2>1, <3>1, <3>2 DEF InOrder, MarkIsLast
  <2>9. FetchIsDue'
    BY ZenonT(60), <1>1, <2>1, <2>3, <2>6 DEF InOrder, FetchIsDue
  <2>10. ShownIsSeen'
    BY <1>1, <1>5, <2>1 DEF InOrder, ShownIsSeen
  <2>11. ToldIsKnown' /\ Update!ToldOnce'
    BY <1>1, <1>9, <2>1 DEF InOrder, ToldIsKnown, Update!ToldOnce, UpdateInv
  <2> QED
    BY <2>5, <2>7, <2>8, <2>9, <2>10, <2>11 DEF InOrder
<1> QED
  BY <1>7, <1>8, <1>9 DEF UpdateInv

LEMMA TimeKept ==
  ASSUME Update!UpdateAssumption, UpdateInv, Update!Release \/ Update!Tick
  PROVE  UpdateInv'
<1> USE DEF Update!UpdateAssumption
<1>1. /\ released' \in 1..MaxVersion /\ installed' \in 1..MaxVersion /\ now' \in Nat \ {0} /\ now <= now'
      /\ UNCHANGED <<cacheFile, prog, write, starts, shownNews, toldVersions, disturbedCache, cutWrites>>
  BY DEF UpdateInv, UpdateTypes, Update!Release, Update!Tick
<1>2. UpdateTypes'
  BY <1>1 DEF UpdateInv, UpdateTypes
<1>3. Update!WholeAgain'
  BY <1>1 DEF UpdateInv, Update!WholeAgain
<1>4. ASSUME ~disturbedCache', ~cutWrites' PROVE InOrder'
  <2>1. InOrder
    BY <1>1, <1>4 DEF UpdateInv
  <2>2. \A w \in Update!Writers : Update!Busy(w)' <=> Update!Busy(w)
    BY <1>1 DEF Update!Busy
  <2>3. OneWriter'
    BY <2>1, <2>2 DEF InOrder, OneWriter
  <2>4. KnowsTheFile' /\ MarkIsLast' /\ ShownIsSeen' /\ ToldIsKnown'
    BY <1>1, <2>1 DEF InOrder, KnowsTheFile, MarkIsLast, ShownIsSeen, ToldIsKnown
  <2>5. Update!ToldOnce'
    BY <1>1, <1>4, <2>1 DEF InOrder, Update!ToldOnce
  <2>6. FetchIsDue'
    <3>1. \A u \in toldVersions : u.time \in Nat
      BY DEF UpdateInv, UpdateTypes
    <3>2. \A q \in UpdatingPrograms : write[<<q, "task">>].data.at \in Nat
      BY WritersAre DEF UpdateInv, UpdateTypes, Caches
    <3>3. now \in Nat /\ now' \in Nat
      BY <1>1 DEF UpdateInv, UpdateTypes
    <3>4. ASSUME NEW q \in UpdatingPrograms, prog'[q].at = "fetches"
          PROVE \A u \in toldVersions' : u.time + TTL <= now'
      <4>1. \A u \in toldVersions : u.time + TTL <= now
        BY <1>1, <2>1, <3>4 DEF InOrder, FetchIsDue
      <4> QED
        BY <1>1, <3>1, <3>3, <4>1
    <3>5. ASSUME NEW q \in UpdatingPrograms, prog'[q].at = "fetches", write'[<<q, "task">>].at # "none"
          PROVE  LET e == write'[<<q, "task">>].data IN
                 e.seen = 0 /\ e.latest # 0 /\ e.at # 0 /\ e.at <= now' /\
                   \A u \in toldVersions' : u.time + TTL <= e.at
      BY <1>1, <2>1, <3>2, <3>3, <3>5 DEF InOrder, FetchIsDue
    <3> QED
      BY <3>4, <3>5 DEF FetchIsDue
  <2> QED
    BY <2>3, <2>4, <2>5, <2>6 DEF InOrder
<1> QED
  BY <1>2, <1>3, <1>4 DEF UpdateInv

LEMMA UpdateStep ==
  ASSUME Update!UpdateAssumption, UpdateInv, [Update!UpdateNext]_Update!updateVars
  PROVE  UpdateInv'
<1>1. CASE UNCHANGED Update!updateVars
  <2>1. \A w \in Update!Writers : Update!Busy(w)' <=> Update!Busy(w)
    BY <1>1 DEF Update!updateVars, Update!Busy
  <2>2. UpdateTypes' /\ Update!WholeAgain'
    BY <1>1 DEF Update!updateVars, UpdateInv, UpdateTypes, Update!WholeAgain
  <2>3. ~disturbedCache /\ ~cutWrites => InOrder'
    BY <1>1, <2>1 DEF Update!updateVars, UpdateInv, InOrder, OneWriter, KnowsTheFile, MarkIsLast,
                      FetchIsDue,
      ShownIsSeen, ToldIsKnown, Update!ToldOnce
  <2> QED
    BY <1>1, <2>2, <2>3 DEF Update!updateVars, UpdateInv
<1>2. CASE Update!UpdateNext
  BY <1>2, CacheReadKept, TruncateKept, WrittenKept, StartKept, NewsKept, MarkKept, CheckKept, FetchKept, FeedbackKept,
     EndKept, TimeKept DEF Update!UpdateNext
<1> QED
  BY <1>1, <1>2

-----------------------------------------------------------------------------
\* A step is one of the component that runs.
LEMMA OneRuns ==
  ASSUME [ServicesNext]_servicesVars
  PROVE  /\ part' = part
         /\ part = "tools" => [Tools!Next]_Tools!toolVars
         /\ part = "layer" => [Layer!LayerNext]_Layer!layerVars
         /\ part = "permission" => [Shell!PermissionNext]_Shell!commandVars
         /\ part = "shell" => [Shell!ShellNext]_Shell!shellVars
         /\ part = "question" => [Question!QuestionNext]_Question!questionVars
         /\ part = "prompt" => [Prompt!PromptNext]_Prompt!promptVars
         /\ part = "panel" => [Panel!PanelNext]_Panel!panelVars
         /\ part = "switch" => [Switch!SwitchNext]_Switch!switchVars
         /\ part = "folders" => [Start!TrustNext]_Start!trustVars
         /\ part = "setup" => [Start!OnboardingNext]_Start!onboardingVars
         /\ part = "update" => [Update!UpdateNext]_Update!updateVars
<1>1. CASE UNCHANGED servicesVars
  BY <1>1 DEF servicesVars, toolVars, layerVars, commandVars, shellVars, questionVars, promptVars,
              panelVars,
              switchVars, trustVars, onboardingVars, updateVars, Start!trustVars,
              Start!onboardingVars, Update!updateVars, Tools!toolVars, Layer!layerVars,
                Shell!commandVars, Shell!shellVars,
              Question!questionVars, Prompt!promptVars, Panel!panelVars, Switch!switchVars
<1>2. CASE ServicesNext
  BY <1>2 DEF ServicesNext
<1> QED
  BY <1>1, <1>2

\* For any servers, connectors and changes of what they serve: the tools that the agent has are
\* offered by a server or connector, and, unless something failed or was overtaken, they are
\* those of the last refresh, and the screen shows them (manager.py, mcp_app.py).
THEOREM ToolsAreSafe == ServicesSpec => []ToolsSafe
<1> DEFINE Inv == part = "tools" => ToolsInv
<1> USE ServicesAssumptions
<1>1. ServicesInit => Inv
  BY ToolsInit DEF ServicesInit
<1>2. Inv /\ [ServicesNext]_servicesVars => Inv'
  BY OneRuns, ToolsStep
<1>3. Inv => ToolsSafe
  BY ToolsImplies DEF ToolsSafe
<1> QED
  BY <1>1, <1>2, <1>3, PTL DEF ServicesSpec

\* For any number of commands, what they write and when they end: after a call of the shell
\* tool, and after kill_bash, what it started is gone, except what was left behind, and output
\* is told once, entirely or as far as the limit; and, for commands of any parts, what a part
\* needs is asked for with the whole, and what was granted is not asked again, except for a
\* command that is granted to the letter and has brackets (bash.py, background.py,
\* permissions.py).
THEOREM CommandsAreSafe == ServicesSpec => []CommandsSafe
<1> DEFINE Inv == (part = "permission" => PermissionInv) /\ (part = "shell" => ShellInv)
<1> USE ServicesAssumptions
<1>1. ServicesInit => Inv
  BY PermissionStarts, ShellInit DEF ServicesInit
<1>2. Inv /\ [ServicesNext]_servicesVars => Inv'
  BY OneRuns, PermissionStep, ShellStep
<1>3. Inv => CommandsSafe
  BY PermissionImplies, ShellImplies DEF CommandsSafe
<1> QED
  BY <1>1, <1>2, <1>3, PTL DEF ServicesSpec

\* For any questions, entries of the history, events of the agent and remote sessions: the
\* answers that are sent are what the user confirmed, a draft waits while the history is
\* shown, what is shown below the conversation is what the application waits for, and prompts
\* and answers go to the session on the screen (question_app.py, history_manager.py,
\* text_area.py, app.py, remote_session_manager.py).
THEOREM FormsAreSafe == ServicesSpec => []FormsSafe
<1> DEFINE Inv == /\ part = "question" => QuestionInv
                  /\ part = "prompt" => InputInv
                  /\ part = "panel" => PanelInv
                  /\ part = "switch" => SwitchInv
<1> USE ServicesAssumptions
<1>1. ServicesInit => Inv
  BY QuestionInit, InputInit, PanelInit, SwitchInit DEF ServicesInit
<1>2. Inv /\ [ServicesNext]_servicesVars => Inv'
  BY OneRuns, QuestionStep, InputStep, PanelStep, SwitchStep
<1>3. Inv => FormsSafe
  BY QuestionImplies, InputImplies, PanelImplies, SwitchImplies DEF FormsSafe
<1> QED
  BY <1>1, <1>2, <1>3, PTL DEF ServicesSpec

\* A layer of settings is trusted as was last decided, never serves what was read before its
\* cache was dropped, and tells of its trust, however its callers overlap, fail or are
\* cancelled (layer.py, _dispatch and its handlers).
THEOREM LayerIsSafe == ServicesSpec => []LayerSafe
<1> DEFINE Inv == part = "layer" => LayerInv /\ LayerBound
<1> USE ServicesAssumptions
<1>1. ServicesInit => Inv
  BY LayerInit, LayerBoundedFirst DEF ServicesInit
<1>2. Inv /\ [ServicesNext]_servicesVars => Inv'
  BY OneRuns, LayerStep, LayerBounded
<1>3. Inv => LayerSafe
  BY LayerImplies DEF LayerSafe
<1> QED
  BY <1>1, <1>2, <1>3, PTL DEF ServicesSpec

\* For any directories and decisions of any number of programs about them, settings, models and
\* keys, and versions, programs and times between them: what a program takes from a project it
\* takes from a directory that the user trusts, a decision is kept and counts for what is below
\* it, a layer of settings is read if it is trusted, the key that is asked for is the one that
\* is missing, and, unless writes of the cache overlapped, news are shown once and no update is
\* told twice (trusted_folders.py, _harness_manager.py, layer.py, onboarding/context.py,
\* update_notifier/).
THEOREM SetupIsSafe == ServicesSpec => []SetupSafe
<1> DEFINE Inv == /\ part = "folders" => TrustInv
                  /\ part = "setup" => KeyInv
                  /\ part = "update" => UpdateInv
<1> USE ServicesAssumptions
<1>1. ServicesInit => Inv
  BY TrustInit, KeyInit, UpdateInit DEF ServicesInit
<1>2. Inv /\ [ServicesNext]_servicesVars => Inv'
  BY OneRuns, TrustStep, KeyStep, UpdateStep
<1>3. Inv /\ LayerSafe => SetupSafe
  BY TrustImplies, KeyImplies, UpdateImplies DEF SetupSafe
<1> QED
  BY <1>1, <1>2, <1>3, LayerIsSafe, PTL DEF ServicesSpec

=============================================================================
