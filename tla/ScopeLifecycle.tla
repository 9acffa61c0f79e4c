--------------------------- MODULE ScopeLifecycle ---------------------------
(***************************************************************************)
(* The life of a Scope and of the graph that composes its work (floe-bus/  *)
(* src/store.ts, scopes/store.ts, scope-graphs.ts), together with the      *)
(* attach scan of the bridge that turns the command nodes of the graphs    *)
(* into served endpoints (floe-bridge/src/daemon.ts).                      *)
(*                                                                         *)
(* The bus tells the bridge of an edit with a message; the bridge answers  *)
(* with a scan that first fetches all graphs and then registers their      *)
(* command nodes one call at a time.  A message that arrives during a scan *)
(* starts no other one.  Actor nodes only take part in the wiring and are  *)
(* left out; a command endpoint belongs to one Scope, since whoever        *)
(* composes a graph names its endpoints afresh.                            *)
(***************************************************************************)
EXTENDS Integers, FiniteSets

CONSTANTS
    WorkScopes,
    CommandNodes,     \* endpoint ids of command nodes
    HomeScope,        \* the Scope whose graph may contain each of them
    MaxScopeEdits,    \* bound on the calls of operators
    MaxStreamCuts     \* bound on the losses of the event stream

ASSUME ScopesAssumption ==
    /\ HomeScope \in [CommandNodes -> WorkScopes]
    /\ MaxScopeEdits \in Nat /\ MaxStreamCuts \in Nat

VARIABLES
    scope,        \* scopes.status, "absent" without a row
    graph,        \* the graph of each Scope: its version (0: none) and command nodes
    wired,        \* context_subscriptions of the graph's Context
    work,         \* Scopes that hold events or pulses
    command,      \* endpoints.status of each command node, "absent" without a row
    served,       \* command nodes whose endpoint names a bridge
    commandNode,  \* daemon: the version of the command it would run, 0 if unknown
    running,      \* daemon: the version it is running, 0 if none
    scan,         \* daemon: the attach scan and the graphs it has still to register
    notice,       \* an announcement of an edit is on its way to the daemon
    stream,       \* the daemon's event stream is open
    missed,       \* an edit was announced after the scan had listed the graphs (history)
    revived,      \* nodes registered after they had left their graph (history)
    edits, cuts   \* counters for the bounds

scopeVars == <<scope, graph, wired, work, command, served, commandNode, running,
               scan, notice, stream, missed, revived, edits, cuts>>
busScopeVars == <<scope, graph, wired, work, command, served>>

NodesOf(s) == {c \in CommandNodes : HomeScope[c] = s}
NoGraph == [version |-> 0, nodes |-> {}]
ScanOff == [stage |-> "off", left |-> {}, at |-> 0]
Versions == 0..MaxScopeEdits

ScopeTypeOK ==
    /\ scope \in [WorkScopes -> {"absent", "active", "retired"}]
    /\ graph \in [WorkScopes -> [version : Versions, nodes : SUBSET CommandNodes]]
    /\ wired \in [WorkScopes -> SUBSET CommandNodes]
    /\ work \subseteq WorkScopes
    /\ command \in [CommandNodes -> {"absent", "idle", "active", "runtime_unconfigured", "retired"}]
    /\ served \subseteq CommandNodes
    /\ commandNode \in [CommandNodes -> Versions] /\ running \in [CommandNodes -> Versions]
    /\ scan \in [stage : {"off", "asking", "registering"},
                 left : SUBSET (CommandNodes \X Versions), at : Versions]
    /\ notice \in BOOLEAN /\ stream \in BOOLEAN /\ missed \in BOOLEAN
    /\ revived \subseteq CommandNodes
    /\ edits \in Versions /\ cuts \in 0..MaxStreamCuts

ScopesInit ==
    /\ scope = [s \in WorkScopes |-> "absent"]
    /\ graph = [s \in WorkScopes |-> NoGraph]
    /\ wired = [s \in WorkScopes |-> {}]
    /\ work = {}
    /\ command = [c \in CommandNodes |-> "absent"]
    /\ served = {}
    /\ commandNode = [c \in CommandNodes |-> 0] /\ running = [c \in CommandNodes |-> 0]
    /\ scan = ScanOff
    /\ notice = FALSE /\ stream = TRUE /\ missed = FALSE /\ revived = {}
    /\ edits = 0 /\ cuts = 0

-----------------------------------------------------------------------------
(* The bus                                                                 *)

Edited == edits < MaxScopeEdits /\ edits' = edits + 1
\* Mutant of Announce: an edit is not announced.
AnnounceNothing == notice' = notice
Announce == notice' = stream
BridgeUnchanged == UNCHANGED <<commandNode, running, scan, stream, missed, revived, cuts>>

\* The row of a Scope: inserted, updated, deleted.
StoreScope(s, status) == scope' = [scope EXCEPT ![s] = status]

\* insertScopeGraph or updateScopeGraph; every edit is a new version of the nodes.
StoreGraph(s, nodes) == graph' = [graph EXCEPT ![s] = [version |-> edits', nodes |-> nodes]]

CreateScope(s) ==
    /\ Edited
    /\ scope[s] = "absent"
    /\ StoreScope(s, "active")
    /\ UNCHANGED <<graph, wired, work, command, served, notice>> /\ BridgeUnchanged

\* Only a Scope without Contexts and pulses is deleted; a graph is a Context.
DeleteScope(s) ==
    /\ Edited
    /\ scope[s] # "absent"
    /\ graph[s] = NoGraph /\ s \notin work
    /\ StoreScope(s, "absent")
    /\ UNCHANGED <<graph, wired, work, command, served, notice>> /\ BridgeUnchanged

\* The command endpoints that an edit must find at rest.
AtRest(commands) == \A c \in commands : command[c] # "active"

\* removeUnusedScope: a composed Scope in which nothing ever happened goes with
\* its graph and the rows of its command endpoints.
RemoveUnusedScope(s) ==
    /\ Edited
    /\ scope[s] # "absent" /\ s \notin work
    /\ AtRest(graph[s].nodes)
    /\ StoreScope(s, "absent")
    /\ graph' = [graph EXCEPT ![s] = NoGraph]
    /\ wired' = [wired EXCEPT ![s] = {}]
    /\ command' = [c \in CommandNodes |-> IF c \in graph[s].nodes THEN "absent" ELSE command[c]]
    /\ served' = served \ graph[s].nodes
    /\ IF graph[s] = NoGraph THEN UNCHANGED notice ELSE Announce
    /\ UNCHANGED work /\ BridgeUnchanged

\* createScopeGraph on a Scope without a graph: wired, but nothing registered.
ComposeScope(s, nodes) ==
    /\ Edited
    /\ scope[s] # "absent" /\ graph[s] = NoGraph
    /\ StoreGraph(s, nodes)
    /\ wired' = [wired EXCEPT ![s] = nodes]
    /\ Announce
    /\ UNCHANGED <<scope, work, command, served>> /\ BridgeUnchanged

\* createScopeGraph on a Scope with a graph: rewired, reactivated if it was
\* stopped; the commands it keeps must be registered again, the others retire.
RecomposeScope(s, nodes) ==
    /\ Edited
    /\ scope[s] # "absent" /\ graph[s] # NoGraph
    /\ AtRest(graph[s].nodes \cup nodes)
    /\ StoreGraph(s, nodes)
    /\ wired' = [wired EXCEPT ![s] = nodes]
    /\ StoreScope(s, "active")
    /\ command' = [c \in CommandNodes |->
           CASE command[c] = "absent" -> "absent"
             [] c \in nodes -> "runtime_unconfigured"
             [] c \in graph[s].nodes \ nodes -> "retired"
             [] OTHER -> command[c]]
    /\ served' = served \ (graph[s].nodes \cup nodes)
    /\ Announce
    /\ UNCHANGED work /\ BridgeUnchanged

\* retireScope: unwired, its command endpoints retired.  The note about it is
\* an event of the Scope.
StopScope(s) ==
    /\ Edited
    /\ scope[s] = "active"
    /\ StoreScope(s, "retired")
    /\ wired' = [wired EXCEPT ![s] = {}]
    /\ command' = [c \in CommandNodes |->
           IF c \in graph[s].nodes /\ command[c] # "absent" THEN "retired" ELSE command[c]]
    /\ served' = served \ graph[s].nodes
    /\ work' = IF graph[s] = NoGraph THEN work ELSE work \cup {s}
    /\ Announce
    /\ UNCHANGED graph /\ BridgeUnchanged

\* fireScopeGraphTrigger on a Scope that is not stopped reaches the wired
\* commands; one that is idle and served, and that the daemon knows, starts.
FireTrigger(s) ==
    LET starting == {c \in wired[s] : /\ command[c] = "idle" /\ c \in served
                                      /\ commandNode[c] # 0 /\ running[c] = 0}
    IN /\ scope[s] = "active" /\ wired[s] # {}
       /\ work' = work \cup {s}
       /\ command' = [c \in CommandNodes |-> IF c \in starting THEN "active" ELSE command[c]]
       /\ running' = [c \in CommandNodes |-> IF c \in starting THEN commandNode[c] ELSE running[c]]
       /\ UNCHANGED <<scope, graph, wired, served, commandNode, scan, notice, stream,
                      missed, revived, edits, cuts>>

\* The scope.compose capability of an actor: a Scope and its graph in one call, or the graph
\* of an existing Scope; a node new to the graph gets an endpoint of its own.  A composition
\* that fails leaves no Scope behind.
ComposeOrganisation(s, nodes) ==
    /\ \A c \in nodes \ graph[s].nodes : command[c] = "absent"
    /\ IF scope[s] = "absent"
       THEN /\ Edited
            /\ StoreScope(s, "active")
            /\ StoreGraph(s, nodes)
            /\ wired' = [wired EXCEPT ![s] = nodes]
            /\ Announce
            /\ UNCHANGED <<work, command, served>> /\ BridgeUnchanged
       ELSE ComposeScope(s, nodes) \/ RecomposeScope(s, nodes)

\* scope.event.fire, scope.retire and scope.remove-unused.
OperateOrganisation(s) ==
    \/ graph[s] # NoGraph /\ FireTrigger(s)
    \/ scope[s] # "absent" /\ (StopScope(s) \/ RemoveUnusedScope(s))

\* An actor calls a capability that writes; those that inspect change nothing.
InvokeCapability(s) ==
    \/ \E nodes \in SUBSET NodesOf(s) : ComposeOrganisation(s, nodes)
    \/ OperateOrganisation(s)

-----------------------------------------------------------------------------
(* The bridge                                                              *)

\* The end of a command's turn makes its endpoint idle unless it is unconfigured.
CommandEnds(c) ==
    /\ running[c] # 0
    /\ running' = [running EXCEPT ![c] = 0]
    /\ command' = [command EXCEPT ![c] =
           IF @ \in {"absent", "runtime_unconfigured"} THEN @ ELSE "idle"]
    /\ UNCHANGED <<scope, graph, wired, work, served, commandNode, scan, notice,
                   stream, missed, revived, edits, cuts>>

\* attachKnownWorkspaces returns at once while a scan is running.
AttachKnownWorkspaces ==
    IF scan.stage = "off"
    THEN scan' = [ScanOff EXCEPT !.stage = "asking"] /\ UNCHANGED missed
    ELSE /\ UNCHANGED scan
         /\ missed' = (missed \/ (scan.stage = "registering" /\ edits # scan.at))

ReceiveNotice ==
    /\ stream /\ notice
    /\ notice' = FALSE
    /\ AttachKnownWorkspaces
    /\ UNCHANGED <<busScopeVars, commandNode, running, stream, revived, edits, cuts>>

\* The composition of every active Scope, as the bus answers.
ListScopeGraphs ==
    {x \in CommandNodes \X Versions :
        \E s \in WorkScopes : /\ scope[s] = "active"
                             /\ x[1] \in graph[s].nodes /\ x[2] = graph[s].version}

ScanLists ==
    /\ scan.stage = "asking"
    /\ scan' = [stage |-> "registering", left |-> ListScopeGraphs, at |-> edits]
    /\ missed' = FALSE
    /\ UNCHANGED <<busScopeVars, commandNode, running, notice, stream, revived, edits, cuts>>

Composed(c) == scope[HomeScope[c]] = "active" /\ c \in graph[HomeScope[c]].nodes

\* The registration is an upsert, whatever happened to the node meanwhile.
ScanRegistersNode(c, v) ==
    /\ scan.stage = "registering" /\ <<c, v>> \in scan.left
    /\ scan' = [scan EXCEPT !.left = @ \ {<<c, v>>}]
    /\ commandNode' = [commandNode EXCEPT ![c] = v]
    /\ command' = [command EXCEPT ![c] = "idle"]
    /\ served' = served \cup {c}
    /\ revived' = IF Composed(c) THEN revived \ {c} ELSE revived \cup {c}
    /\ UNCHANGED <<scope, graph, wired, work, running, notice, stream, missed, edits, cuts>>

ScanEndsHere ==
    /\ scan.stage = "registering" /\ scan.left = {}
    /\ scan' = ScanOff
    /\ UNCHANGED <<busScopeVars, commandNode, running, notice, stream, missed, revived, edits, cuts>>

CutStream ==
    /\ stream /\ cuts < MaxStreamCuts
    /\ cuts' = cuts + 1
    /\ stream' = FALSE /\ notice' = FALSE
    /\ UNCHANGED <<busScopeVars, commandNode, running, scan, missed, revived, edits>>

\* Mutant of ReopenStream: no scan is asked for.
ReopenStreamOnly ==
    /\ ~stream
    /\ stream' = TRUE
    /\ UNCHANGED <<busScopeVars, commandNode, running, scan, notice, missed, revived, edits, cuts>>

\* A reopened stream asks for a scan, as an announcement would.
ReopenStream ==
    /\ ~stream
    /\ stream' = TRUE
    /\ AttachKnownWorkspaces
    /\ UNCHANGED <<busScopeVars, commandNode, running, notice, revived, edits, cuts>>

BridgeScans ==
    \/ ReceiveNotice \/ ScanLists \/ ScanEndsHere \/ ReopenStream
    \/ \E c \in CommandNodes, v \in Versions : ScanRegistersNode(c, v)

ScopesNext ==
    \/ \E s \in WorkScopes :
          \/ CreateScope(s) \/ DeleteScope(s) \/ RemoveUnusedScope(s) \/ StopScope(s)
          \/ FireTrigger(s) \/ InvokeCapability(s)
          \/ \E nodes \in SUBSET NodesOf(s) : ComposeScope(s, nodes) \/ RecomposeScope(s, nodes)
    \/ \E c \in CommandNodes : CommandEnds(c)
    \/ BridgeScans
    \/ CutStream

ScopesSpec == ScopesInit /\ [][ScopesNext]_scopeVars /\ WF_scopeVars(BridgeScans)

-----------------------------------------------------------------------------
(* Properties                                                              *)

ServedAsComposed(c) ==
    c \in served /\ commandNode[c] = graph[HomeScope[c]].version /\ command[c] # "absent"

QuietMeansServed ==
    scan = ScanOff /\ ~notice /\ stream /\ ~missed =>
        \A c \in CommandNodes : IF Composed(c) THEN ServedAsComposed(c)
                                ELSE c \in served => c \in revived

WiringMatchesGraph ==
    \A s \in WorkScopes :
        /\ wired[s] \in {graph[s].nodes, {}}
        /\ scope[s] = "active" => wired[s] = graph[s].nodes
        /\ scope[s] = "absent" => graph[s] = NoGraph

\* The subscriptions of a Scope's graph are its current nodes while it is active, through
\* every edit, stop and reactivation, and nothing outlives the Scope.  When nothing is on its
\* way and no announcement fell into a running scan, the bridge serves exactly the command
\* nodes of the active Scopes, with their current commands: no order of edits, stops,
\* removals, stream losses and scans leaves a composed command dead or an old command line in
\* use.  A node that a scan registered from an outdated list is the exception: nothing
\* unserves it.
GraphIsWiredAndServed == WiringMatchesGraph /\ QuietMeansServed

\* A composed command node ends up served, unless it is edited away or its
\* announcement fell into a running scan.
ComposedIsServed ==
    \A c \in CommandNodes :
        []<>(Composed(c) => ServedAsComposed(c) \/ missed)
=============================================================================
