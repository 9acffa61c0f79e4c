--------------------------- MODULE WorkspaceProofs ---------------------------
(***************************************************************************)
(* Proofs about the components that keep a workspace's work going: the     *)
(* Scopes and their graphs (ScopeLifecycle), the scheduled events (Pulses) *)
(* and the attachment of the workspace with the runtimes of its actors     *)
(* (Attachment).                                                           *)
(***************************************************************************)
EXTENDS ScopeLifecycle, Pulses, Attachment, FiniteSetTheorems, SequenceTheorems, TLAPS

-----------------------------------------------------------------------------
(* Numbers                                                                 *)

\* A finite set of numbers has a least and a greatest member.
Below(S, x) == {y \in S : y < x}
Above(S, x) == {y \in S : y > x}

LEMMA NumbersHaveEnds ==
  ASSUME NEW S, S \subseteq Nat, IsFiniteSet(S), S # {}
  PROVE  /\ \E x \in S : \A y \in S : x <= y
         /\ \E x \in S : \A y \in S : y <= x
  <1>1. \A F : DOMAIN F = S /\ (\A x \in S : F[x] \in SUBSET S)
              => \E x \in S : \A y \in S : <<F[y], F[x]>> \notin StrictSubsetOrdering(S)
    <2> SUFFICES ASSUME NEW F, \A x \in S : F[x] \in SUBSET S
                 PROVE  \E x \in S : \A y \in S : <<F[y], F[x]>> \notin StrictSubsetOrdering(S)
      OBVIOUS
    <2> DEFINE T == {F[x] : x \in S}
    <2>1. T \subseteq FiniteSubsetsOf(S) /\ T # {}
      <3>1. ASSUME NEW x \in S PROVE F[x] \in SUBSET S /\ IsFiniteSet(F[x])
        BY FS_Subset
      <3> QED BY <3>1 DEF FiniteSubsetsOf
    <2>2. PICK m \in T : \A y \in T : <<y, m>> \notin StrictSubsetOrdering(S)
      <3> HIDE DEF T
      <3> QED BY <2>1, FS_StrictSubsetOrderingWellFounded, WFMin
    <2> QED BY <2>2
  <1>2. PICK x \in S : \A y \in S : <<Below(S, y), Below(S, x)>> \notin StrictSubsetOrdering(S)
    <2> DEFINE F == [v \in S |-> Below(S, v)]
    <2>1. DOMAIN F = S /\ \A v \in S : F[v] \in SUBSET S
      BY DEF Below
    <2>2. \E v \in S : \A y \in S : <<F[y], F[v]>> \notin StrictSubsetOrdering(S)
      <3> HIDE DEF F
      <3> QED BY <1>1, <2>1
    <2> QED BY <2>2
  <1>3. \A y \in S : x <= y
    <2> SUFFICES ASSUME NEW y \in S, y < x PROVE FALSE
      OBVIOUS
    <2>1. /\ Below(S, y) \subseteq Below(S, x) /\ Below(S, x) \subseteq S
          /\ y \in Below(S, x) /\ y \notin Below(S, y)
      <3>1. ASSUME NEW v \in S, v < y PROVE v < x
        BY <3>1
      <3>2. ~(y < y)
        OBVIOUS
      <3> QED BY <3>1, <3>2 DEF Below
    <2> QED BY <1>2, <2>1 DEF StrictSubsetOrdering
  <1>4. PICK z \in S : \A y \in S : <<Above(S, y), Above(S, z)>> \notin StrictSubsetOrdering(S)
    <2> DEFINE F == [v \in S |-> Above(S, v)]
    <2>1. DOMAIN F = S /\ \A v \in S : F[v] \in SUBSET S
      BY DEF Above
    <2>2. \E v \in S : \A y \in S : <<F[y], F[v]>> \notin StrictSubsetOrdering(S)
      <3> HIDE DEF F
      <3> QED BY <1>1, <2>1
    <2> QED BY <2>2
  <1>5. \A y \in S : y <= z
    <2> SUFFICES ASSUME NEW y \in S, y > z PROVE FALSE
      OBVIOUS
    <2>1. /\ Above(S, y) \subseteq Above(S, z) /\ Above(S, z) \subseteq S
          /\ y \in Above(S, z) /\ y \notin Above(S, y)
      <3>1. ASSUME NEW v \in S, v > y PROVE v > z
        BY <3>1
      <3>2. ~(y > y)
        OBVIOUS
      <3> QED BY <3>1, <3>2 DEF Above
    <2> QED BY <1>4, <2>1 DEF StrictSubsetOrdering
  <1> QED BY <1>3, <1>5

-----------------------------------------------------------------------------
(* Scopes and their graphs: the steps                                      *)

\* The branch of ComposeOrganisation that makes the Scope as well.
ComposeNew(s, nodes) ==
    /\ scope[s] = "absent" /\ Edited
    /\ StoreScope(s, "active")
    /\ StoreGraph(s, nodes)
    /\ wired' = [wired EXCEPT ![s] = nodes]
    /\ Announce
    /\ UNCHANGED <<work, command, served>> /\ BridgeUnchanged

\* Edits of an operator or an actor, one Scope at a time.
EditOf(s) ==
    \/ CreateScope(s) \/ DeleteScope(s) \/ RemoveUnusedScope(s) \/ StopScope(s)
    \/ \E nodes \in SUBSET NodesOf(s) :
          ComposeScope(s, nodes) \/ RecomposeScope(s, nodes) \/ ComposeNew(s, nodes)

LEMMA ScopeSteps ==
    ASSUME ScopesNext
    PROVE  \/ \E s \in WorkScopes : EditOf(s) \/ FireTrigger(s)
           \/ \E c \in CommandNodes : CommandEnds(c)
           \/ BridgeScans \/ CutStream
<1>1. ASSUME NEW s \in WorkScopes, InvokeCapability(s)
      PROVE  EditOf(s) \/ FireTrigger(s)
  BY <1>1 DEF InvokeCapability, ComposeOrganisation, OperateOrganisation, EditOf, ComposeNew
<1> QED  BY <1>1 DEF ScopesNext, EditOf

-----------------------------------------------------------------------------
(* Scopes and their graphs: types                                          *)

ScanStates == [stage : {"off", "asking", "registering"},
               left : SUBSET (CommandNodes \X Versions), at : Versions]
Commands == {"absent", "idle", "active", "runtime_unconfigured", "retired"}
Graphs == [version : Versions, nodes : SUBSET CommandNodes]

LEMMA ScopeBounds ==
    /\ Versions \subseteq Nat /\ 0 \in Versions /\ 0 \in 0..MaxStreamCuts
    /\ NoGraph \in Graphs
    /\ ScanOff \in ScanStates /\ [ScanOff EXCEPT !.stage = "asking"] \in ScanStates
<1>1. Versions \subseteq Nat /\ 0 \in Versions /\ 0 \in 0..MaxStreamCuts
  BY ScopesAssumption DEF Versions
<1>2. NoGraph \in Graphs
  BY <1>1 DEF NoGraph, Graphs
<1>3. ScanOff \in ScanStates /\ [ScanOff EXCEPT !.stage = "asking"] \in ScanStates
  BY <1>1 DEF ScanOff, ScanStates
<1> QED  BY <1>1, <1>2, <1>3

LEMMA ScopeTypesInit == ScopesInit => ScopeTypeOK
<1> SUFFICES ASSUME ScopesInit PROVE ScopeTypeOK
  OBVIOUS
<1>1. graph \in [WorkScopes -> Graphs] /\ scan \in ScanStates
  BY ScopeBounds DEF ScopesInit
<1>2. /\ scope \in [WorkScopes -> {"absent", "active", "retired"}]
      /\ wired \in [WorkScopes -> SUBSET CommandNodes]
      /\ command \in [CommandNodes -> Commands]
  BY DEF ScopesInit, Commands
<1>3. commandNode \in [CommandNodes -> Versions] /\ running \in [CommandNodes -> Versions]
  BY ScopeBounds DEF ScopesInit
<1>4. edits \in Versions /\ cuts \in 0..MaxStreamCuts
  BY ScopeBounds DEF ScopesInit
<1> QED  BY <1>1, <1>2, <1>3, <1>4 DEF ScopesInit, ScopeTypeOK, ScanStates, Graphs, Commands

\* An edit keeps the types.
LEMMA EditTypes ==
    ASSUME ScopeTypeOK, NEW s \in WorkScopes, EditOf(s)
    PROVE  ScopeTypeOK'
<1>0. /\ scope \in [WorkScopes -> {"absent", "active", "retired"}]
      /\ graph \in [WorkScopes -> Graphs]
      /\ wired \in [WorkScopes -> SUBSET CommandNodes]
      /\ command \in [CommandNodes -> Commands]
      /\ edits \in Versions /\ notice \in BOOLEAN /\ stream \in BOOLEAN
  BY DEF ScopeTypeOK, Graphs, Commands
<1>1. /\ UNCHANGED <<commandNode, running, scan, stream, missed, revived, cuts>>
      /\ Edited /\ (Announce \/ UNCHANGED notice)
  BY DEF EditOf, CreateScope, DeleteScope, RemoveUnusedScope, StopScope, ComposeScope,
     RecomposeScope, ComposeNew, BridgeUnchanged
<1>2. edits' \in Versions /\ notice' \in BOOLEAN
  BY <1>0, <1>1, ScopesAssumption DEF Edited, Announce, Versions
<1>3. scope' \in [WorkScopes -> {"absent", "active", "retired"}]
  BY <1>0 DEF EditOf, CreateScope, DeleteScope, RemoveUnusedScope, StopScope, ComposeScope,
     RecomposeScope, ComposeNew, StoreScope
<1>4. graph' \in [WorkScopes -> Graphs]
  <2>1. ASSUME NEW nodes \in SUBSET NodesOf(s), StoreGraph(s, nodes)
        PROVE  graph' \in [WorkScopes -> Graphs]
    <3>1. [version |-> edits', nodes |-> nodes] \in Graphs
      BY <1>2 DEF NodesOf, Graphs
    <3> QED  BY <1>0, <2>1, <3>1 DEF StoreGraph
  <2>2. CASE RemoveUnusedScope(s)
    BY <1>0, <2>2, ScopeBounds DEF RemoveUnusedScope
  <2> QED  BY <1>0, <2>1, <2>2 DEF EditOf, CreateScope, DeleteScope, StopScope,
           ComposeScope, RecomposeScope, ComposeNew
<1>5. wired' \in [WorkScopes -> SUBSET CommandNodes]
  BY <1>0 DEF EditOf, CreateScope, DeleteScope, RemoveUnusedScope, StopScope,
     ComposeScope, RecomposeScope, ComposeNew, NodesOf
<1>6. command' \in [CommandNodes -> Commands]
  <2>1. ASSUME NEW nodes \in SUBSET NodesOf(s), RecomposeScope(s, nodes)
        PROVE  command' \in [CommandNodes -> Commands]
    BY <1>0, <2>1 DEF RecomposeScope, Commands
  <2>2. CASE RemoveUnusedScope(s) \/ StopScope(s)
    BY <1>0, <2>2 DEF RemoveUnusedScope, StopScope, Commands
  <2> QED  BY <1>0, <2>1, <2>2 DEF EditOf, CreateScope, DeleteScope, ComposeScope, ComposeNew
<1>7. work' \subseteq WorkScopes /\ served' \subseteq CommandNodes
  BY DEF ScopeTypeOK, EditOf, CreateScope, DeleteScope, RemoveUnusedScope, StopScope,
     ComposeScope, RecomposeScope, ComposeNew
<1> QED  BY <1>1, <1>2, <1>3, <1>4, <1>5, <1>6, <1>7 DEF ScopeTypeOK, Graphs, Commands

LEMMA ScopeTypesStep ==
    ASSUME ScopeTypeOK, [ScopesNext]_scopeVars
    PROVE  ScopeTypeOK'
<1> USE DEF ScopeTypeOK, Versions
<1>1. CASE UNCHANGED scopeVars
  BY <1>1 DEF scopeVars
<1>2. ASSUME NEW s \in WorkScopes, EditOf(s) PROVE ScopeTypeOK'
  BY <1>2, EditTypes
<1>3. ASSUME NEW s \in WorkScopes, FireTrigger(s) PROVE ScopeTypeOK'
  <2>1. work' \subseteq WorkScopes
    BY <1>3 DEF FireTrigger
  <2>2. command' \in [CommandNodes ->
            {"absent", "idle", "active", "runtime_unconfigured", "retired"}]
    BY <1>3 DEF FireTrigger
  <2>3. running' \in [CommandNodes -> Versions]
    BY <1>3 DEF FireTrigger
  <2> QED  BY <1>3, <2>1, <2>2, <2>3 DEF FireTrigger
<1>4. ASSUME NEW c \in CommandNodes, CommandEnds(c) PROVE ScopeTypeOK'
  <2>1. running' \in [CommandNodes -> Versions]
    BY <1>4, ScopesAssumption DEF CommandEnds
  <2>2. command' \in [CommandNodes ->
            {"absent", "idle", "active", "runtime_unconfigured", "retired"}]
    BY <1>4 DEF CommandEnds
  <2> QED  BY <1>4, <2>1, <2>2 DEF CommandEnds
<1>5. CASE ReceiveNotice \/ ReopenStream
  <2>1. scan' \in ScanStates /\ missed' \in BOOLEAN
    BY <1>5, ScopeBounds DEF ReceiveNotice, ReopenStream, AttachKnownWorkspaces, ScanStates
  <2>2. /\ UNCHANGED <<busScopeVars, commandNode, running, revived, edits, cuts>>
        /\ notice' \in BOOLEAN /\ stream' \in BOOLEAN
    BY <1>5 DEF ReceiveNotice, ReopenStream
  <2> QED  BY <2>1, <2>2 DEF ScanStates, busScopeVars
<1>6. CASE ScanLists
  <2>1. ListScopeGraphs \in SUBSET (CommandNodes \X Versions)
    BY DEF ListScopeGraphs
  <2> QED  BY <1>6, <2>1 DEF ScanLists, busScopeVars
<1>7. CASE ScanEndsHere \/ CutStream
  <2>1. scan' \in ScanStates /\ cuts' \in 0..MaxStreamCuts
    BY <1>7, ScopesAssumption, ScopeBounds DEF ScanEndsHere, CutStream, ScanStates
  <2>2. /\ UNCHANGED <<busScopeVars, commandNode, running, missed, revived, edits>>
        /\ notice' \in BOOLEAN /\ stream' \in BOOLEAN
    BY <1>7 DEF ScanEndsHere, CutStream
  <2> QED  BY <2>1, <2>2 DEF ScanStates, busScopeVars
<1>8. ASSUME NEW c \in CommandNodes, NEW v \in Versions, ScanRegistersNode(c, v)
      PROVE  ScopeTypeOK'
  BY <1>8 DEF ScanRegistersNode
<1> QED  BY <1>1, <1>2, <1>3, <1>4, <1>5, <1>6, <1>7, <1>8, ScopeSteps DEF BridgeScans

\* Type correctness of the Scopes, their graphs, the command endpoints and the scan.
THEOREM ScopesTypeCorrect == ScopesSpec => []ScopeTypeOK
<1>1. ScopesInit => ScopeTypeOK
  BY ScopeTypesInit
<1>2. ScopeTypeOK /\ [ScopesNext]_scopeVars => ScopeTypeOK'
  BY ScopeTypesStep
<1> QED  BY <1>1, <1>2, PTL DEF ScopesSpec

-----------------------------------------------------------------------------
(* Scopes and their graphs: what the bridge serves                         *)

\* A graph holds nodes of its own Scope.
NodesAtHome == \A s \in WorkScopes : graph[s].nodes \subseteq NodesOf(s)

\* A node that its graph no longer holds is served only if a scan brought it back.
LeftBehind == \A c \in CommandNodes : ~Composed(c) /\ c \in served => c \in revived

\* What the scan has still to register is current, and every composed node is served as it
\* is composed or still to be registered so.
ScanIsCurrent ==
    /\ \A x \in scan.left : Composed(x[1]) /\ x[2] = graph[HomeScope[x[1]]].version
    /\ \A c \in CommandNodes :
          Composed(c) => \/ ServedAsComposed(c)
                         \/ <<c, graph[HomeScope[c]].version>> \in scan.left

\* Nothing is on its way that will make the bridge scan (again).
Undisturbed == ~notice /\ stream /\ ~missed

\* The reason why a quiet bridge serves the graphs: every edit that changes them either
\* leaves an announcement behind or the stream closed, and one that falls into a running
\* scan makes the count of edits differ from the one at which the scan listed.
ScanKnows ==
    /\ scan.stage = "off" => scan = ScanOff /\ (Undisturbed => ScanIsCurrent)
    /\ scan.stage = "registering" =>
          scan.at <= edits /\ (edits = scan.at \/ Undisturbed => ScanIsCurrent)

ScopesInv == ScopeTypeOK /\ NodesAtHome /\ WiringMatchesGraph /\ LeftBehind /\ ScanKnows

LEMMA QuietIsServed == ScopesInv => GraphIsWiredAndServed
<1> SUFFICES ASSUME ScopesInv, scan = ScanOff, ~notice, stream, ~missed
             PROVE  \A c \in CommandNodes : IF Composed(c) THEN ServedAsComposed(c)
                                            ELSE c \in served => c \in revived
  BY DEF ScopesInv, GraphIsWiredAndServed, QuietMeansServed
<1>1. scan.stage = "off" /\ scan.left = {}
  BY DEF ScanOff
<1>2. ScanIsCurrent
  BY <1>1 DEF ScopesInv, ScanKnows, Undisturbed
<1>3. ASSUME NEW c \in CommandNodes, Composed(c) PROVE ServedAsComposed(c)
  BY <1>1, <1>2, <1>3 DEF ScanIsCurrent
<1> QED  BY <1>3 DEF ScopesInv, LeftBehind

LEMMA ScopesInvInit == ScopesInit => ScopesInv
BY ScopeTypesInit, ScopesAssumption
DEF ScopesInit, ScopesInv, NodesAtHome, WiringMatchesGraph, LeftBehind, ScanKnows, ScanOff,
    ScanIsCurrent, Composed, NoGraph

\* An edit of a Scope touches neither the graph of another one nor its nodes.
LEMMA EditIsLocal ==
    ASSUME ScopesInv, NEW s \in WorkScopes, EditOf(s), NEW c \in CommandNodes, HomeScope[c] # s
    PROVE  /\ Composed(c)' <=> Composed(c)
           /\ graph'[HomeScope[c]] = graph[HomeScope[c]]
           /\ command'[c] = command[c] /\ (c \in served' <=> c \in served)
<1> DEFINE h == HomeScope[c]
<1>1. /\ h \in WorkScopes /\ scope \in [WorkScopes -> {"absent", "active", "retired"}]
      /\ graph \in [WorkScopes -> Graphs] /\ command \in [CommandNodes -> Commands]
  BY ScopesAssumption DEF ScopesInv, ScopeTypeOK, Graphs, Commands
<1>2. c \notin graph[s].nodes /\ \A nodes \in SUBSET NodesOf(s) : c \notin nodes
  BY DEF ScopesInv, NodesAtHome, NodesOf
<1>3. scope'[h] = scope[h]
  BY <1>1 DEF EditOf, CreateScope, DeleteScope, RemoveUnusedScope, StopScope, ComposeScope,
     RecomposeScope, ComposeNew, StoreScope
<1>4. graph'[h] = graph[h]
  BY <1>1 DEF EditOf, CreateScope, DeleteScope, RemoveUnusedScope, StopScope, ComposeScope,
     RecomposeScope, ComposeNew, StoreGraph
<1>5. command'[c] = command[c]
  BY <1>1, <1>2 DEF EditOf, CreateScope, DeleteScope, RemoveUnusedScope, StopScope, ComposeScope,
     RecomposeScope, ComposeNew
<1>6. c \in served' <=> c \in served
  BY <1>2 DEF EditOf, CreateScope, DeleteScope, RemoveUnusedScope, StopScope, ComposeScope,
     RecomposeScope, ComposeNew
<1> QED  BY <1>3, <1>4, <1>5, <1>6 DEF Composed

\* Wiring and homes through an edit.
LEMMA EditWires ==
    ASSUME ScopesInv, NEW s \in WorkScopes, EditOf(s)
    PROVE  NodesAtHome' /\ WiringMatchesGraph'
<1>1. /\ scope \in [WorkScopes -> {"absent", "active", "retired"}]
      /\ graph \in [WorkScopes -> Graphs] /\ wired \in [WorkScopes -> SUBSET CommandNodes]
  BY DEF ScopesInv, ScopeTypeOK, Graphs
<1>2. NodesAtHome /\ WiringMatchesGraph
  BY DEF ScopesInv
<1>3. CASE CreateScope(s) \/ DeleteScope(s)
  <2>1. /\ graph' = graph /\ wired' = wired /\ graph[s] = NoGraph
        /\ \A t \in WorkScopes \ {s} : scope'[t] = scope[t]
    BY <1>1, <1>2, <1>3 DEF CreateScope, DeleteScope, StoreScope, WiringMatchesGraph
  <2>2. graph[s].nodes = {}
    BY <2>1 DEF NoGraph
  <2> QED  BY <1>2, <2>1, <2>2 DEF NodesAtHome, WiringMatchesGraph
<1>4. CASE RemoveUnusedScope(s)
  BY <1>1, <1>2, <1>4 DEF RemoveUnusedScope, StoreScope, NodesAtHome, WiringMatchesGraph, NoGraph
<1>5. CASE StopScope(s)
  BY <1>1, <1>2, <1>5 DEF StopScope, StoreScope, NodesAtHome, WiringMatchesGraph
<1>6. ASSUME NEW nodes \in SUBSET NodesOf(s),
             ComposeScope(s, nodes) \/ RecomposeScope(s, nodes) \/ ComposeNew(s, nodes)
      PROVE  NodesAtHome' /\ WiringMatchesGraph'
  <2>1. /\ graph' = [graph EXCEPT ![s] = [version |-> edits', nodes |-> nodes]]
        /\ wired' = [wired EXCEPT ![s] = nodes]
        /\ scope'[s] # "absent" /\ \A t \in WorkScopes \ {s} : scope'[t] = scope[t]
    BY <1>1, <1>6 DEF ComposeScope, RecomposeScope, ComposeNew, StoreScope, StoreGraph
  <2>2. graph'[s].nodes = nodes /\ wired'[s] = nodes
    BY <1>1, <2>1
  <2>3. \A t \in WorkScopes \ {s} : graph'[t] = graph[t] /\ wired'[t] = wired[t]
    BY <1>1, <2>1
  <2> QED  BY <1>2, <2>1, <2>2, <2>3 DEF NodesAtHome, WiringMatchesGraph, NodesOf
<1> QED  BY <1>3, <1>4, <1>5, <1>6 DEF EditOf

\* A node that an edit takes out of its graph is served no longer.
LEMMA EditUnserves ==
    ASSUME ScopesInv, NEW s \in WorkScopes, EditOf(s)
    PROVE  LeftBehind'
<1> SUFFICES ASSUME NEW c \in CommandNodes, ~Composed(c)', c \in served'
             PROVE  c \in revived'
  BY DEF LeftBehind
<1>1. revived' = revived
  BY DEF EditOf, CreateScope, DeleteScope, RemoveUnusedScope, StopScope, ComposeScope,
     RecomposeScope, ComposeNew, BridgeUnchanged
<1>2. CASE HomeScope[c] # s
  BY <1>1, <1>2, EditIsLocal DEF ScopesInv, LeftBehind
<1>3. CASE HomeScope[c] = s
  <2>1. c \in served
    BY DEF EditOf, CreateScope, DeleteScope, RemoveUnusedScope, StopScope, ComposeScope,
       RecomposeScope, ComposeNew
  <2>2. CASE CreateScope(s) \/ ComposeNew(s, {}) \/ graph[s] = NoGraph
    BY <1>1, <1>3, <2>1, <2>2 DEF ScopesInv, LeftBehind, Composed, NoGraph, CreateScope, ComposeNew
  <2>3. CASE scope[s] = "absent"
    BY <1>1, <1>3, <2>1, <2>3 DEF ScopesInv, LeftBehind, Composed
  <2>4. CASE RemoveUnusedScope(s) \/ StopScope(s)
    BY <1>1, <1>3, <2>1, <2>4 DEF ScopesInv, LeftBehind, Composed, RemoveUnusedScope, StopScope
  <2>5. ASSUME NEW nodes \in SUBSET NodesOf(s), RecomposeScope(s, nodes) PROVE c \in revived'
    BY <1>1, <1>3, <2>1, <2>5 DEF ScopesInv, LeftBehind, Composed, RecomposeScope
  <2> QED  BY <2>2, <2>3, <2>4, <2>5 DEF EditOf, CreateScope, DeleteScope, ComposeScope, ComposeNew
<1> QED  BY <1>2, <1>3

\* What the bridge knows through an edit: it is announced, or it changes no graph.
LEMMA EditIsKnown ==
    ASSUME ScopesInv, NEW s \in WorkScopes, EditOf(s)
    PROVE  ScanKnows'
<1>1. /\ UNCHANGED <<commandNode, scan, stream, missed>> /\ edits' = edits + 1
      /\ edits \in Nat /\ scan.at \in Nat /\ stream \in BOOLEAN
  <2>1. edits \in Nat /\ scan.at \in Nat /\ stream \in BOOLEAN
    BY ScopeBounds DEF ScopesInv, ScopeTypeOK
  <2>2. UNCHANGED <<commandNode, scan, stream, missed>> /\ edits' = edits + 1
    BY DEF Edited, BridgeUnchanged, EditOf, CreateScope, DeleteScope, RemoveUnusedScope,
       StopScope, ComposeScope, RecomposeScope, ComposeNew
  <2> QED  BY <2>1, <2>2
<1>2. ScanKnows
  BY DEF ScopesInv
<1>3. CASE Announce
  <2>1. ~Undisturbed'
    BY <1>1, <1>3 DEF Undisturbed, Announce
  <2>2. scan.stage = "registering" => scan.at <= edits' /\ edits' # scan.at
    BY <1>1, <1>2 DEF ScanKnows
  <2> QED  BY <1>1, <1>2, <2>1, <2>2 DEF ScanKnows
<1>4. CASE /\ UNCHANGED notice /\ graph[s] = NoGraph
           /\ CreateScope(s) \/ DeleteScope(s) \/ RemoveUnusedScope(s)
  <2>1. ASSUME NEW c \in CommandNodes
        PROVE  /\ Composed(c)' <=> Composed(c)
               /\ graph'[HomeScope[c]] = graph[HomeScope[c]]
               /\ Composed(c) => (ServedAsComposed(c)' <=> ServedAsComposed(c))
    <3>1. CASE HomeScope[c] # s
      BY <1>1, <3>1, EditIsLocal DEF ServedAsComposed
    <3>2. CASE HomeScope[c] = s
      <4>1. graph' = graph
        BY <1>4 DEF CreateScope, DeleteScope, RemoveUnusedScope, ScopesInv, ScopeTypeOK
      <4> QED  BY <1>4, <3>2, <4>1 DEF Composed, NoGraph
    <3> QED  BY <3>1, <3>2
  <2>2. \A x \in scan.left : x[1] \in CommandNodes
    BY DEF ScopesInv, ScopeTypeOK
  <2>3. ScanIsCurrent => ScanIsCurrent'
    BY <1>1, <2>1, <2>2 DEF ScanIsCurrent
  <2>4. Undisturbed' <=> Undisturbed
    BY <1>1, <1>4 DEF Undisturbed
  <2>5. scan.stage = "registering" => scan.at <= edits' /\ edits' # scan.at
    BY <1>1, <1>2 DEF ScanKnows
  <2> QED  BY <1>1, <1>2, <2>3, <2>4, <2>5 DEF ScanKnows
<1>5. CASE CreateScope(s)
  <2>1. graph[s] = NoGraph
    BY <1>5 DEF ScopesInv, WiringMatchesGraph, CreateScope
  <2> QED  BY <1>4, <1>5, <2>1 DEF CreateScope
<1> QED  BY <1>3, <1>4, <1>5 DEF EditOf, DeleteScope, RemoveUnusedScope, StopScope, ComposeScope,
         RecomposeScope, ComposeNew

LEMMA EditKeepsScopes ==
    ASSUME ScopesInv, NEW s \in WorkScopes, EditOf(s)
    PROVE  ScopesInv'
<1>1. ScopeTypeOK
  BY DEF ScopesInv
<1> QED  BY <1>1, EditTypes, EditWires, EditUnserves, EditIsKnown DEF ScopesInv

\* What a step does not change, ScanKnows does not notice.
LEMMA TriggerAndTurn ==
    ASSUME ScopesInv,
           \/ \E s \in WorkScopes : FireTrigger(s)
           \/ \E c \in CommandNodes : CommandEnds(c)
    PROVE  NodesAtHome' /\ WiringMatchesGraph' /\ LeftBehind' /\ ScanKnows'
<1>1. UNCHANGED <<scope, graph, wired, served, commandNode, scan, notice, stream, missed,
                  revived, edits>>
  BY DEF FireTrigger, CommandEnds
<1>2. ASSUME NEW c \in CommandNodes, command[c] # "absent" PROVE command'[c] # "absent"
  <2>1. command \in [CommandNodes -> Commands]
    BY DEF ScopesInv, ScopeTypeOK, Commands
  <2> QED  BY <1>2, <2>1 DEF FireTrigger, CommandEnds
<1>3. ASSUME NEW c \in CommandNodes
      PROVE  /\ Composed(c)' <=> Composed(c)
             /\ ServedAsComposed(c) => ServedAsComposed(c)'
  BY <1>1, <1>2 DEF Composed, ServedAsComposed
<1>4. NodesAtHome' /\ WiringMatchesGraph' /\ LeftBehind'
  BY <1>1, <1>3 DEF ScopesInv, NodesAtHome, WiringMatchesGraph, LeftBehind
<1>5. ScanIsCurrent => ScanIsCurrent'
  <2>1. \A x \in scan.left : x[1] \in CommandNodes
    BY DEF ScopesInv, ScopeTypeOK
  <2> QED  BY <1>1, <1>3, <2>1 DEF ScanIsCurrent
<1>6. ScanKnows'
  BY <1>1, <1>5 DEF ScopesInv, ScanKnows, Undisturbed
<1> QED  BY <1>4, <1>6

\* The stream, and the asking for a scan: the tables and what is served stay.
LEMMA StreamAndScan ==
    ASSUME ScopesInv, ReceiveNotice \/ ReopenStream \/ CutStream \/ ScanLists \/ ScanEndsHere
    PROVE  NodesAtHome' /\ WiringMatchesGraph' /\ LeftBehind' /\ ScanKnows'
<1>1. UNCHANGED <<scope, graph, wired, command, served, commandNode, revived, edits>>
  BY DEF ReceiveNotice, ReopenStream, CutStream, ScanLists, ScanEndsHere, busScopeVars
<1>2. ASSUME NEW c \in CommandNodes
      PROVE  (Composed(c)' <=> Composed(c)) /\ (ServedAsComposed(c) <=> ServedAsComposed(c)')
  BY <1>1 DEF Composed, ServedAsComposed
<1>3. NodesAtHome' /\ WiringMatchesGraph' /\ LeftBehind'
  BY <1>1, <1>2 DEF ScopesInv, NodesAtHome, WiringMatchesGraph, LeftBehind
<1>4. scan' = scan /\ ScanIsCurrent => ScanIsCurrent'
  <2>1. \A x \in scan.left : x[1] \in CommandNodes
    BY DEF ScopesInv, ScopeTypeOK
  <2> QED  BY <1>1, <1>2, <2>1 DEF ScanIsCurrent
<1>5. ScanKnows /\ scan \in ScanStates /\ edits \in Nat
  BY ScopeBounds DEF ScopesInv, ScopeTypeOK, ScanStates
<1>6. CASE ReceiveNotice \/ ReopenStream
  <2>1. CASE scan.stage = "off"
    <3>1. scan'.stage = "asking"
      BY <1>6, <2>1 DEF ReceiveNotice, ReopenStream, AttachKnownWorkspaces, ScanOff
    <3> QED  BY <1>3, <3>1 DEF ScanKnows
  <2>2. CASE scan.stage # "off"
    <3>1. scan' = scan /\ missed' = (missed \/ (scan.stage = "registering" /\ edits # scan.at))
      BY <1>6, <2>2 DEF ReceiveNotice, ReopenStream, AttachKnownWorkspaces
    <3>2. scan.stage = "registering" /\ Undisturbed' => edits = scan.at
      BY <3>1 DEF Undisturbed
    <3> QED  BY <1>1, <1>3, <1>4, <1>5, <2>2, <3>1, <3>2 DEF ScanKnows
  <2> QED  BY <2>1, <2>2
<1>7. CASE CutStream
  BY <1>1, <1>3, <1>4, <1>5, <1>7 DEF CutStream, ScanKnows, Undisturbed
<1>8. CASE ScanLists
  <2>1. scan' = [stage |-> "registering", left |-> ListScopeGraphs, at |-> edits]
    BY <1>8 DEF ScanLists
  <2>2. ASSUME NEW x \in ListScopeGraphs
        PROVE  Composed(x[1]) /\ x[2] = graph[HomeScope[x[1]]].version
    BY DEF ListScopeGraphs, Composed, ScopesInv, NodesAtHome, NodesOf
  <2>3. ASSUME NEW c \in CommandNodes, Composed(c)
        PROVE  <<c, graph[HomeScope[c]].version>> \in ListScopeGraphs
    <3>1. HomeScope[c] \in WorkScopes
      BY ScopesAssumption
    <3>2. graph[HomeScope[c]].version \in Versions
      BY <3>1 DEF ScopesInv, ScopeTypeOK
    <3> QED  BY <2>3, <3>1, <3>2 DEF ListScopeGraphs, Composed
  <2>4. ListScopeGraphs \subseteq CommandNodes \X Versions
    BY DEF ListScopeGraphs
  <2>5. \A x \in ListScopeGraphs : x[1] \in CommandNodes
    BY <2>4
  <2>6. ScanIsCurrent'
    BY <1>1, <1>2, <2>1, <2>2, <2>3, <2>5 DEF ScanIsCurrent
  <2> QED  BY <1>1, <1>3, <1>5, <2>1, <2>6 DEF ScanKnows
<1>9. CASE ScanEndsHere
  <2>1. /\ scan.stage = "registering" /\ scan.left = {} /\ scan' = ScanOff
        /\ UNCHANGED <<notice, stream, missed>>
    BY <1>9 DEF ScanEndsHere, busScopeVars
  <2>2. scan'.left = scan.left /\ scan'.stage = "off"
    BY <2>1 DEF ScanOff
  <2>3. ScanIsCurrent => ScanIsCurrent'
    BY <1>1, <1>2, <2>1, <2>2 DEF ScanIsCurrent
  <2> QED  BY <1>3, <1>5, <2>1, <2>2, <2>3 DEF ScanKnows, Undisturbed
<1> QED  BY <1>3, <1>6, <1>7, <1>8, <1>9

\* A registration serves one node; if the scan is current, as it is composed.
LEMMA Registration ==
    ASSUME ScopesInv, NEW n \in CommandNodes, NEW v \in Versions, ScanRegistersNode(n, v)
    PROVE  NodesAtHome' /\ WiringMatchesGraph' /\ LeftBehind' /\ ScanKnows'
<1>1. /\ UNCHANGED <<scope, graph, wired, edits, notice, stream, missed>>
      /\ scan.stage = "registering" /\ <<n, v>> \in scan.left
      /\ scan' = [scan EXCEPT !.left = @ \ {<<n, v>>}]
      /\ served' = served \cup {n}
      /\ revived' = IF Composed(n) THEN revived \ {n} ELSE revived \cup {n}
  BY DEF ScanRegistersNode
<1>2. /\ commandNode \in [CommandNodes -> Versions] /\ scan \in ScanStates
      /\ command \in [CommandNodes -> Commands]
  BY DEF ScopesInv, ScopeTypeOK, ScanStates, Commands
<1>3. /\ commandNode'[n] = v /\ command'[n] = "idle"
      /\ \A c \in CommandNodes \ {n} : commandNode'[c] = commandNode[c] /\ command'[c] = command[c]
  BY <1>2 DEF ScanRegistersNode
<1>4. \A c \in CommandNodes : Composed(c)' <=> Composed(c)
  BY <1>1 DEF Composed
<1>5. NodesAtHome' /\ WiringMatchesGraph' /\ LeftBehind'
  BY <1>1, <1>4 DEF ScopesInv, NodesAtHome, WiringMatchesGraph, LeftBehind
<1>6. /\ scan'.stage = scan.stage /\ scan'.at = scan.at
      /\ scan'.left = scan.left \ {<<n, v>>}
  BY <1>1, <1>2 DEF ScanStates
<1>7. ScanIsCurrent => ScanIsCurrent'
  <2> SUFFICES ASSUME ScanIsCurrent PROVE ScanIsCurrent'
    OBVIOUS
  <2>1. v = graph[HomeScope[n]].version
    BY <1>1 DEF ScanIsCurrent
  <2>2. ServedAsComposed(n)'
    BY <1>1, <1>3, <2>1 DEF ServedAsComposed
  <2>3. ASSUME NEW c \in CommandNodes \ {n}, ServedAsComposed(c) PROVE ServedAsComposed(c)'
    BY <1>1, <1>3, <2>3 DEF ServedAsComposed
  <2>4. ASSUME NEW c \in CommandNodes, Composed(c)'
        PROVE  ServedAsComposed(c)' \/ <<c, graph[HomeScope[c]].version>>' \in scan'.left
    BY <1>1, <1>4, <1>6, <2>2, <2>3, <2>4 DEF ScanIsCurrent
  <2>5. \A x \in scan.left : x[1] \in CommandNodes
    BY <1>2 DEF ScanStates
  <2> QED  BY <1>1, <1>4, <1>6, <2>4, <2>5 DEF ScanIsCurrent
<1>8. ScanKnows'
  BY <1>1, <1>6, <1>7 DEF ScopesInv, ScanKnows, Undisturbed
<1> QED  BY <1>5, <1>8

LEMMA ScopesInvStep ==
    ASSUME ScopesInv, [ScopesNext]_scopeVars
    PROVE  ScopesInv'
<1>1. ScopeTypeOK'
  BY ScopeTypesStep DEF ScopesInv
<1>2. CASE UNCHANGED scopeVars
  BY <1>2 DEF scopeVars, ScopesInv, ScopeTypeOK, NodesAtHome, WiringMatchesGraph, LeftBehind,
     ScanKnows, Undisturbed, ScanIsCurrent, Composed, ServedAsComposed
<1>3. ASSUME NEW s \in WorkScopes, EditOf(s) PROVE ScopesInv'
  BY <1>3, EditKeepsScopes
<1>4. ASSUME NEW n \in CommandNodes, NEW v \in Versions, ScanRegistersNode(n, v)
      PROVE  ScopesInv'
  BY <1>1, <1>4, Registration DEF ScopesInv
<1> QED  BY <1>1, <1>2, <1>3, <1>4, ScopeSteps, TriggerAndTurn, StreamAndScan
         DEF BridgeScans, ScopesInv

\* However operators and actors edit, stop and remove Scopes, and however announcements,
\* losses of the stream and scans fall between the edits: the subscriptions of an active
\* Scope are the nodes of its graph, and a bridge that has nothing left to hear and was not
\* told of an edit in the midst of a scan serves exactly the composed command nodes, with
\* their current commands.
THEOREM ScopesAreServed == ScopesSpec => []GraphIsWiredAndServed
<1>1. ScopesInit => ScopesInv
  BY ScopesInvInit
<1>2. ScopesInv /\ [ScopesNext]_scopeVars => ScopesInv'
  BY ScopesInvStep
<1>3. ScopesInv => GraphIsWiredAndServed
  BY QuietIsServed
<1> QED  BY <1>1, <1>2, <1>3, PTL DEF ScopesSpec

-----------------------------------------------------------------------------
(* Pulses: types                                                           *)

Scopings == PulseScopes \cup {NoPulseScope}
PulseTriggers == [type : {"once", "cron"}, at : Times]
FireTimes == Times \cup {Never}
PulseRows == [status : {"absent", "active", "paused", "cancelled", "completed"},
              trigger : PulseTriggers, next : FireTimes, scope : Scopings]
Firings == [pulse : PulseIds \cup {"none"}, due : FireTimes, left : SUBSET Subscribers]

\* The history of the slots, with the types of the rest; what fires is a pulse.
PulseTypes ==
    /\ PulseTypeOK
    /\ firing # NoFiring => firing.pulse \in PulseIds /\ firing.due \in Times
    /\ heard \in [Slots -> [Subscribers -> Nat]] /\ armed \in [Slots -> Nat]

LEMMA PulseTimes ==
    /\ MaxTime \in Nat /\ MaxTime > 0 /\ 0 \in Times /\ 1 \in Times /\ MaxTime \in Times
    /\ Times \subseteq Nat /\ FireTimes \subseteq Int /\ Never \in Int /\ Never < 0 /\ Never \notin Times
BY PulsesAssumption DEF Times, FireTimes, Never

LEMMA OfPulseTypes ==
    ASSUME PulseTypes
    PROVE  /\ clock \in Times /\ pulse \in [PulseIds -> PulseRows]
           /\ audience \in [PulseIds -> SUBSET Subscribers]
           /\ anchor \in [Anchors -> Scopings \cup {"gone", "left"}]
           /\ agenda \in [PulseIds -> FireTimes] /\ firing \in Firings
           /\ declared \in Seq(Declarations) /\ registering \in Seq(Declarations)
           /\ busCrashes \in Nat
           /\ firing # NoFiring => firing.pulse \in PulseIds /\ firing.due \in Times
BY PulsesAssumption
DEF PulseTypes, PulseTypeOK, PulseRows, Firings, Scopings, PulseTriggers, FireTimes

\* A fire time is a time of the clock or none.
LEMMA NextFireTime ==
    ASSUME clock \in Times, NEW trigger \in PulseTriggers
    PROVE  CalculateNextFireAt(trigger) \in FireTimes
<1>1. trigger.at \in Nat /\ clock \in Nat /\ trigger.at \in Times
  BY PulseTimes DEF PulseTriggers
<1>2. CASE trigger.type # "once" /\ trigger.at # 0
  <2> DEFINE k == clock \div trigger.at + 1
             t == trigger.at * k
  <2>1. k \in Nat
    BY <1>1, <1>2
  <2>2. t \in Nat
    <3> HIDE DEF k
    <3> QED  BY <1>1, <2>1
  <2>3. CalculateNextFireAt(trigger) = IF t <= MaxTime THEN t ELSE Never
    BY <1>2 DEF CalculateNextFireAt
  <2> HIDE DEF t
  <2> QED  BY <2>2, <2>3, PulseTimes DEF FireTimes, Times
<1>3. CASE trigger.type = "once" \/ trigger.at = 0
  BY <1>1, <1>3 DEF CalculateNextFireAt, FireTimes
<1> QED  BY <1>2, <1>3

\* The Scope that a pulse is stored with.
LEMMA StoredScope ==
    ASSUME NEW home \in Scopings, NEW subscribers
    PROVE  PulseScope(home, subscribers) \in Scopings
<1>1. CASE Cardinality(AnchorScopes(subscribers)) = 1
  <2>1. AnchorScopes(subscribers) # {}
    BY <1>1, FS_EmptySet
  <2> QED  BY <2>1 DEF PulseScope, AnchorScopes, Scopings
<1> QED  BY <1>1 DEF PulseScope

\* An entry of the agenda.
LEMMA EntryTypes ==
    ASSUME PulseTypes, NEW p \in PulseIds, NEW t \in FireTimes, AddPulse(p, t)
    PROVE  /\ agenda' \in [PulseIds -> FireTimes] /\ armed' \in [Slots -> Nat]
           /\ silent' \subseteq PulseIds
<1>0. agenda \in [PulseIds -> FireTimes] /\ armed \in [Slots -> Nat] /\ silent \subseteq PulseIds
  BY OfPulseTypes DEF PulseTypes, PulseTypeOK
<1>1. CASE t \in Times
  <2>1. <<p, t>> \in Slots
    BY <1>1 DEF Slots
  <2>2. armed' = [armed EXCEPT ![<<p, t>>] = @ + 1]
    BY <1>1 DEF AddPulse
  <2>3. armed' \in [Slots -> Nat]
    BY <1>0, <2>1, <2>2
  <2> QED  BY <1>0, <2>3 DEF AddPulse
<1> QED  BY <1>0, <1>1 DEF AddPulse

\* The call POST /v1/pulses writes a row, and an entry on the agenda if it is to fire.
LEMMA PostTypes ==
    ASSUME PulseTypes, NEW p \in PulseIds, NEW trigger \in PulseTriggers, NEW home \in Scopings,
           NEW subscribers \in SUBSET Subscribers, PostPulse(p, trigger, home, subscribers)
    PROVE  /\ pulse' \in [PulseIds -> PulseRows]
           /\ audience' \in [PulseIds -> SUBSET Subscribers]
           /\ agenda' \in [PulseIds -> FireTimes] /\ armed' \in [Slots -> Nat]
           /\ silent' \subseteq PulseIds
<1> DEFINE all == audience[p] \cup subscribers
           stored == Stored(p, trigger, PulseScope(home, all))
<1>0. /\ clock \in Times /\ pulse \in [PulseIds -> PulseRows]
      /\ audience \in [PulseIds -> SUBSET Subscribers] /\ agenda \in [PulseIds -> FireTimes]
      /\ armed \in [Slots -> Nat] /\ silent \subseteq PulseIds
  BY OfPulseTypes DEF PulseTypes, PulseTypeOK
<1>1. stored \in PulseRows
  <2>1. PulseScope(home, all) \in Scopings /\ CalculateNextFireAt(trigger) \in FireTimes
    BY <1>0, StoredScope, NextFireTime
  <2> QED  BY <2>1 DEF Stored, PulseRows
<1>2. /\ pulse' = [pulse EXCEPT ![p] = stored] /\ audience' = [audience EXCEPT ![p] = all]
      /\ \/ UNCHANGED agendaVars
         \/ AddPulse(p, stored.next)
  BY DEF PostPulse
<1> HIDE DEF stored
<1>3. stored.next \in FireTimes
  BY <1>1 DEF PulseRows
<1>4. CASE AddPulse(p, stored.next)
  BY <1>0, <1>1, <1>2, <1>3, <1>4, EntryTypes
<1>5. CASE UNCHANGED agendaVars
  BY <1>0, <1>1, <1>2, <1>5 DEF agendaVars
<1> QED  BY <1>2, <1>4, <1>5

LEMMA PulseTypesInit == PulsesInit => PulseTypes
<1> SUFFICES ASSUME PulsesInit PROVE PulseTypes
  OBVIOUS
<1>1. NoPulse \in PulseRows
  <2>1. \A g \in Triggers : g \in PulseTriggers
    BY PulseTimes DEF Triggers, PulseTriggers
  <2>2. (CHOOSE g \in Triggers : TRUE) \in Triggers
    BY DEF Triggers
  <2> QED  BY <2>1, <2>2 DEF NoPulse, PulseRows, FireTimes, Scopings
<1>2. NoFiring \in Firings
  BY DEF NoFiring, Firings, FireTimes
<1>3. /\ pulse \in [PulseIds -> PulseRows] /\ audience \in [PulseIds -> SUBSET Subscribers]
      /\ agenda \in [PulseIds -> FireTimes] /\ armed \in [Slots -> Nat]
      /\ heard \in [Slots -> [Subscribers -> Nat]]
  BY <1>1 DEF PulsesInit, FireTimes
<1>4. /\ clock \in Times /\ pulseCalls \in 0..MaxPulseCalls
      /\ busCrashes \in 0..MaxOutages /\ registrations \in 0..MaxOutages
  BY PulseTimes, PulsesAssumption DEF PulsesInit
<1>5. declared \in Seq(Declarations) /\ registering \in Seq(Declarations)
  BY DEF PulsesInit
<1>6. anchor \in [Anchors -> PulseScopes \cup {NoPulseScope, "gone", "left"}]
  BY DEF PulsesInit
<1> QED  BY <1>2, <1>3, <1>4, <1>5, <1>6
         DEF PulsesInit, PulseTypes, PulseTypeOK, PulseRows, PulseTriggers, Firings, FireTimes,
             Scopings

\* What a call on a pulse may change.
TypesAfter ==
    /\ pulse' \in [PulseIds -> PulseRows] /\ audience' \in [PulseIds -> SUBSET Subscribers]
    /\ agenda' \in [PulseIds -> FireTimes] /\ armed' \in [Slots -> Nat]
    /\ silent' \subseteq PulseIds /\ declared' \in Seq(Declarations)

\* Calls of clients and agents, one pulse at a time.
LEMMA PulseCallTypes ==
    ASSUME PulseTypes, NEW p \in PulseIds,
           \/ \E trigger \in Triggers, home \in PulseScopes \cup {NoPulseScope},
                 subscribers \in SUBSET Subscribers :
                 CreatePulse(p, trigger, home, subscribers)
           \/ \E request \in Requests, current \in Anchors :
                 ToolCreatesPulse(p, request, current)
           \/ \E status \in {"paused", "cancelled"} : StopPulse(p, status)
           \/ ResumePulse(p)
           \/ \E s \in Subscribers : AddPulseSubscriber(p, s) \/ RemovePulseSubscriber(p, s)
    PROVE  PulseTypes'
<1>0. /\ clock \in Times /\ pulse \in [PulseIds -> PulseRows]
      /\ audience \in [PulseIds -> SUBSET Subscribers] /\ agenda \in [PulseIds -> FireTimes]
      /\ armed \in [Slots -> Nat] /\ silent \subseteq PulseIds
      /\ heard \in [Slots -> [Subscribers -> Nat]] /\ declared \in Seq(Declarations)
      /\ pulseCalls \in 0..MaxPulseCalls
      /\ anchor \in [Anchors -> Scopings \cup {"gone", "left"}]
  BY OfPulseTypes DEF PulseTypes, PulseTypeOK
<1>1. UNCHANGED <<clock, anchor, firing, heard, busCrashes, registering, registrations>> /\ Called
  BY DEF CreatePulse, ToolCreatesPulse, StopPulse, ResumePulse, AddPulseSubscriber,
     RemovePulseSubscriber, declarationVars
<1>2. pulseCalls' \in 0..MaxPulseCalls
  BY <1>0, <1>1, PulsesAssumption DEF Called
<1>3. SUFFICES TypesAfter
  BY <1>1, <1>2 DEF TypesAfter, PulseTypes, PulseTypeOK, PulseRows, PulseTriggers, FireTimes, Scopings
<1>4. ASSUME NEW trigger \in Triggers, NEW home \in PulseScopes \cup {NoPulseScope},
             NEW subscribers \in SUBSET Subscribers, CreatePulse(p, trigger, home, subscribers)
      PROVE  TypesAfter
  <2>1. trigger \in PulseTriggers /\ home \in Scopings
    BY PulseTimes DEF Triggers, PulseTriggers, Scopings
  <2>2. PostPulse(p, trigger, home, subscribers) /\ declared' = declared
    BY <1>4 DEF CreatePulse, declarationVars
  <2> QED  BY <1>0, <2>1, <2>2, PostTypes DEF TypesAfter
<1>5. ASSUME NEW request \in Requests, NEW current \in Anchors,
             ToolCreatesPulse(p, request, current)
      PROVE  TypesAfter
  <2> DEFINE trigger == NormalizePulseTrigger(request.trigger)
             home == ToolScope(request.scope, current)
  <2>1. trigger \in PulseTriggers
    <3>1. request.trigger.type \in {"after", "other"} /\ ToolAccepts(request.trigger)
      BY <1>5 DEF Requests, ToolCreatesPulse
    <3>2. request.trigger.type = "after" /\ trigger.at \in Times
      BY <3>1 DEF ToolAccepts
    <3> QED  BY <3>2 DEF NormalizePulseTrigger, PulseTriggers
  <2>2. home \in Scopings /\ request.subscribers \in SUBSET Subscribers
    BY DEF ToolScope, Requests, Scopings, Subscribers
  <2>3. /\ PostPulse(p, trigger, home, request.subscribers)
        /\ \/ Declare([pulse |-> p, trigger |-> trigger, scope |-> pulse'[p].scope,
                        subscribers |-> request.subscribers])
           \/ UNCHANGED declared
    BY <1>5 DEF ToolCreatesPulse
  <2> HIDE DEF trigger, home
  <2>4. /\ pulse' \in [PulseIds -> PulseRows]
        /\ audience' \in [PulseIds -> SUBSET Subscribers]
        /\ agenda' \in [PulseIds -> FireTimes] /\ armed' \in [Slots -> Nat]
        /\ silent' \subseteq PulseIds
    BY <2>1, <2>2, <2>3, PostTypes
  <2>5. declared' \in Seq(Declarations)
    <3> DEFINE entry == [pulse |-> p, trigger |-> trigger, scope |-> pulse'[p].scope,
                         subscribers |-> request.subscribers]
    <3>1. entry \in Declarations
      BY <2>1, <2>2, <2>4 DEF Declarations, PulseRows, PulseTriggers, Scopings
    <3>2. declared' = Append(declared, entry) \/ declared' = declared
      BY <2>3 DEF Declare
    <3>3. declared \in Seq(Declarations)
      BY <1>0
    <3> HIDE DEF entry
    <3>4. Append(declared, entry) \in Seq(Declarations)
      BY <3>1, <3>3, AppendProperties
    <3> QED  BY <3>2, <3>3, <3>4
  <2> QED  BY <2>4, <2>5 DEF TypesAfter
<1>6. ASSUME NEW status \in {"paused", "cancelled"}, StopPulse(p, status) PROVE TypesAfter
  <2>1. pulse' = [pulse EXCEPT ![p].status = status]
    BY <1>6 DEF StopPulse, UpdatePulseStatus
  <2>2. pulse' \in [PulseIds -> PulseRows]
    BY <1>0, <2>1 DEF PulseRows
  <2>3. agenda' \in [PulseIds -> FireTimes] /\ UNCHANGED <<armed, audience, silent, declared>>
    BY <1>0, <1>6 DEF StopPulse, RemovePulse, FireTimes, declarationVars
  <2> QED  BY <1>0, <2>2, <2>3 DEF TypesAfter
<1>7. CASE ResumePulse(p)
  <2> DEFINE next == CalculateNextFireAt(pulse[p].trigger)
  <2>1. next \in FireTimes /\ pulse[p].next \in FireTimes
    <3>1. pulse[p].trigger \in PulseTriggers /\ pulse[p].next \in FireTimes
      BY <1>0 DEF PulseRows
    <3> QED  BY <1>0, <3>1, NextFireTime
  <2>2. /\ \/ pulse' = [pulse EXCEPT ![p].status = "active", ![p].next = next]
           \/ pulse' = [pulse EXCEPT ![p].status = "active"]
        /\ \E t \in {next, pulse[p].next} : AddPulse(p, t) \/ UNCHANGED agendaVars
        /\ UNCHANGED <<audience, declared>>
    BY <1>7 DEF ResumePulse, declarationVars
  <2> HIDE DEF next
  <2>3. pulse' \in [PulseIds -> PulseRows]
    <3> DEFINE row1 == [pulse[p] EXCEPT !.status = "active", !.next = next]
               row2 == [pulse[p] EXCEPT !.status = "active"]
    <3>1. row1 \in PulseRows /\ row2 \in PulseRows
      BY <1>0, <2>1 DEF PulseRows
    <3>2. pulse' = [pulse EXCEPT ![p] = row1] \/ pulse' = [pulse EXCEPT ![p] = row2]
      BY <1>0, <2>2
    <3> HIDE DEF row1, row2
    <3> QED  BY <1>0, <3>1, <3>2
  <2>4. /\ agenda' \in [PulseIds -> FireTimes] /\ armed' \in [Slots -> Nat]
        /\ silent' \subseteq PulseIds
    BY <1>0, <2>1, <2>2, EntryTypes DEF agendaVars
  <2> QED  BY <1>0, <2>2, <2>3, <2>4 DEF TypesAfter
<1>8. ASSUME NEW s \in Subscribers, AddPulseSubscriber(p, s) \/ RemovePulseSubscriber(p, s)
      PROVE  TypesAfter
  <2>1. UNCHANGED <<pulse, agenda, armed, silent, declared>>
    BY <1>8 DEF AddPulseSubscriber, RemovePulseSubscriber, agendaVars, declarationVars
  <2>2. audience' \in [PulseIds -> SUBSET Subscribers]
    BY <1>0, <1>8 DEF AddPulseSubscriber, RemovePulseSubscriber, Subscribes
  <2> QED  BY <1>0, <2>1, <2>2 DEF TypesAfter
<1> QED  BY <1>4, <1>5, <1>6, <1>7, <1>8

\* Deleting and leaving Contexts, stopping a Scope, an attach scan.
LEMMA PulseEditTypes ==
    ASSUME PulseTypes,
           \/ \E c \in Anchors : DeleteAnchor(c) \/ LeaveAnchor(c)
           \/ \E home \in PulseScopes : CancelPulsesOf(home)
           \/ ReadDeclarations
    PROVE  PulseTypes'
<1>0. /\ pulse \in [PulseIds -> PulseRows] /\ audience \in [PulseIds -> SUBSET Subscribers]
      /\ anchor \in [Anchors -> Scopings \cup {"gone", "left"}]
      /\ declared \in Seq(Declarations) /\ registering \in Seq(Declarations)
      /\ pulseCalls \in 0..MaxPulseCalls /\ busCrashes \in 0..MaxOutages
      /\ registrations \in 0..MaxOutages
  BY OfPulseTypes DEF PulseTypes, PulseTypeOK
<1>1. ASSUME NEW c \in Anchors, DeleteAnchor(c) \/ LeaveAnchor(c) PROVE PulseTypes'
  <2>1. /\ anchor' \in [Anchors -> PulseScopes \cup {NoPulseScope, "gone", "left"}]
        /\ audience' \in [PulseIds -> SUBSET Subscribers]
    BY <1>0, <1>1 DEF DeleteAnchor, LeaveAnchor, Scopings
  <2>2. /\ UNCHANGED <<clock, pulse, agenda, armed, silent, firing, heard, busCrashes, declared,
                       registering, registrations>>
        /\ Called
    BY <1>1 DEF DeleteAnchor, LeaveAnchor, agendaVars, declarationVars
  <2>3. pulseCalls' \in 0..MaxPulseCalls
    BY <1>0, <2>2, PulsesAssumption DEF Called
  <2> QED  BY <2>1, <2>2, <2>3 DEF PulseTypes, PulseTypeOK
<1>2. ASSUME NEW home \in PulseScopes, CancelPulsesOf(home) PROVE PulseTypes'
  <2>1. pulse' \in [PulseIds -> PulseRows]
    <3>1. ASSUME NEW row \in PulseRows
          PROVE  [row EXCEPT !.status = "cancelled", !.next = Never] \in PulseRows
      BY DEF PulseRows, FireTimes
    <3>2. pulse' = [p \in PulseIds |->
              IF pulse[p].scope = home /\ pulse[p].status \in {"active", "paused"}
              THEN [pulse[p] EXCEPT !.status = "cancelled", !.next = Never] ELSE pulse[p]]
      BY <1>2 DEF CancelPulsesOf
    <3> QED  BY <1>0, <3>1, <3>2
  <2>2. /\ UNCHANGED <<clock, audience, anchor, agenda, armed, silent, firing, heard, busCrashes,
                       declared, registering, registrations>>
        /\ Called
    BY <1>2 DEF CancelPulsesOf, agendaVars, declarationVars
  <2>3. pulseCalls' \in 0..MaxPulseCalls
    BY <1>0, <2>2, PulsesAssumption DEF Called
  <2> QED  BY <2>1, <2>2, <2>3
           DEF PulseTypes, PulseTypeOK, PulseRows, PulseTriggers, FireTimes, Scopings
<1>3. CASE ReadDeclarations
  <2>1. /\ UNCHANGED <<clock, pulse, audience, anchor, agenda, armed, silent, firing, heard,
                       declared, pulseCalls, busCrashes>>
        /\ registering' = declared /\ registrations' \in 0..MaxOutages
    BY <1>0, <1>3, PulsesAssumption DEF ReadDeclarations, agendaVars
  <2> QED  BY <1>0, <2>1 DEF PulseTypes, PulseTypeOK
<1> QED  BY <1>1, <1>2, <1>3

\* The scheduler, and the registration of the declared pulses.
LEMMA PulseProceedTypes ==
    ASSUME PulseTypes, PulsesProceed \/ RestartScheduler
    PROVE  PulseTypes'
<1>0. /\ clock \in Times /\ pulse \in [PulseIds -> PulseRows]
      /\ audience \in [PulseIds -> SUBSET Subscribers]
      /\ anchor \in [Anchors -> Scopings \cup {"gone", "left"}]
      /\ agenda \in [PulseIds -> FireTimes] /\ firing \in Firings
      /\ armed \in [Slots -> Nat] /\ heard \in [Slots -> [Subscribers -> Nat]]
      /\ silent \subseteq PulseIds
      /\ declared \in Seq(Declarations) /\ registering \in Seq(Declarations)
      /\ pulseCalls \in 0..MaxPulseCalls /\ busCrashes \in 0..MaxOutages
      /\ registrations \in 0..MaxOutages
      /\ firing # NoFiring => firing.pulse \in PulseIds /\ firing.due \in Times
  BY OfPulseTypes DEF PulseTypes, PulseTypeOK
<1>1. ASSUME NEW p \in PulseIds, BeginFiring(p) PROVE PulseTypes'
  <2>1. [pulse |-> p, due |-> agenda[p], left |-> audience[p]] \in Firings
    BY <1>0 DEF Firings
  <2>2. NoFiring \in Firings
    BY DEF NoFiring, Firings, FireTimes
  <2>3. firing' \in Firings
    BY <1>1, <2>1, <2>2 DEF BeginFiring
  <2>4. agenda' \in [PulseIds -> FireTimes] /\ silent' \subseteq PulseIds
    BY <1>0, <1>1 DEF BeginFiring, RemovePulse, FireTimes
  <2>5. UNCHANGED <<clock, pulse, audience, anchor, heard, armed, pulseCalls, busCrashes,
                    declared, registering, registrations>>
    BY <1>1 DEF BeginFiring, RemovePulse, declarationVars
  <2>6. firing' # NoFiring => firing'.pulse \in PulseIds /\ firing'.due \in Times
    <3>1. agenda[p] \in Times
      BY <1>0, <1>1 DEF BeginFiring, TimerRings, FireTimes
    <3> QED  BY <1>1, <3>1 DEF BeginFiring
  <2> QED  BY <2>3, <2>4, <2>5, <2>6 DEF PulseTypes, PulseTypeOK, Firings, FireTimes
<1>2. ASSUME NEW s \in Subscribers, EmitTo(s) PROVE PulseTypes'
  <2>0. firing.pulse \in PulseIds /\ firing.due \in Times
    BY <1>0, <1>2 DEF EmitTo, NoFiring
  <2>1. /\ firing' \in Firings
        /\ firing'.pulse = firing.pulse /\ firing'.due = firing.due
    BY <1>0, <1>2 DEF EmitTo, Firings
  <2>2. heard' \in [Slots -> [Subscribers -> Nat]]
    <3> DEFINE slot == <<firing.pulse, firing.due>>
    <3>1. slot \in Slots
      BY <2>0 DEF Slots
    <3>2. heard' = [heard EXCEPT ![slot][s] = @ + 1] \/ heard' = heard
      BY <1>2 DEF EmitTo
    <3> HIDE DEF slot
    <3> DEFINE ears == [heard[slot] EXCEPT ![s] = @ + 1]
    <3>3. ears \in [Subscribers -> Nat]
      <4>1. heard[slot] \in [Subscribers -> Nat]
        BY <1>0, <3>1
      <4> QED  BY <4>1
    <3>4. [heard EXCEPT ![slot][s] = @ + 1] = [heard EXCEPT ![slot] = ears]
      BY <1>0, <3>1
    <3> HIDE DEF ears
    <3> QED  BY <1>0, <3>1, <3>2, <3>3, <3>4
  <2>3. UNCHANGED <<clock, pulse, audience, anchor, agenda, armed, silent, pulseCalls, busCrashes,
                    declared, registering, registrations>>
    BY <1>2 DEF EmitTo, agendaVars, declarationVars
  <2> QED  BY <2>0, <2>1, <2>2, <2>3 DEF PulseTypes, PulseTypeOK, Firings, FireTimes
<1>3. CASE EndFiring
  <2> DEFINE p == firing.pulse
             next == IF pulse[p].trigger.type = "cron"
                     THEN CalculateNextFireAt(pulse[p].trigger) ELSE Never
  <2>1. /\ RecordPulseFired(p, next) /\ (AddPulse(p, next) \/ UNCHANGED agendaVars)
        /\ firing' = NoFiring /\ firing # NoFiring
        /\ UNCHANGED <<clock, audience, anchor, heard, pulseCalls, busCrashes, declared,
                       registering, registrations>>
    BY <1>3 DEF EndFiring, declarationVars
  <2>2. p \in PulseIds
    BY <1>0, <2>1
  <2>3. next \in FireTimes
    <3>1. pulse[p].trigger \in PulseTriggers
      BY <1>0, <2>2 DEF PulseRows
    <3> QED  BY <1>0, <3>1, NextFireTime DEF FireTimes
  <2> HIDE DEF next, p
  <2>4. pulse' \in [PulseIds -> PulseRows]
    <3> DEFINE status == IF next = Never THEN "completed" ELSE "active"
               row == [pulse[p] EXCEPT !.next = next, !.status = status]
    <3>1. row \in PulseRows
      BY <1>0, <2>2, <2>3 DEF PulseRows
    <3>2. pulse' = [pulse EXCEPT ![p] = row]
      BY <1>0, <2>1, <2>2 DEF RecordPulseFired
    <3> HIDE DEF row
    <3> QED  BY <1>0, <2>2, <3>1, <3>2
  <2>5. /\ agenda' \in [PulseIds -> FireTimes] /\ armed' \in [Slots -> Nat]
        /\ silent' \subseteq PulseIds
    BY <1>0, <2>1, <2>2, <2>3, EntryTypes DEF agendaVars
  <2>6. firing' \in Firings
    BY <2>1 DEF NoFiring, Firings, FireTimes
  <2> QED  BY <2>1, <2>4, <2>5, <2>6
           DEF PulseTypes, PulseTypeOK, PulseRows, PulseTriggers, Firings, FireTimes, Scopings
<1>4. CASE PulseTick
  <2>1. clock' \in Times
    BY <1>0, <1>4, PulsesAssumption DEF PulseTick, Times
  <2> QED  BY <1>4, <2>1 DEF PulseTypes, PulseTypeOK, PulseTick, agendaVars, declarationVars
<1>5. CASE RegisterDeclared
  <2> DEFINE d == Head(registering)
  <2>1. d \in Declarations /\ registering' \in Seq(Declarations)
    BY <1>0, <1>5, HeadTailProperties DEF RegisterDeclared
  <2>2. /\ \/ PostPulse(d.pulse, d.trigger, d.scope, d.subscribers)
           \/ UNCHANGED <<pulse, audience, agendaVars>>
        /\ UNCHANGED <<clock, anchor, firing, heard, declared, pulseCalls, busCrashes,
                       registrations>>
    BY <1>5 DEF RegisterDeclared
  <2> HIDE DEF d
  <2>3. /\ d.pulse \in PulseIds /\ d.trigger \in PulseTriggers /\ d.scope \in Scopings
        /\ d.subscribers \in SUBSET Subscribers
    BY <2>1 DEF Declarations, PulseTriggers, Scopings
  <2>4. /\ pulse' \in [PulseIds -> PulseRows]
        /\ audience' \in [PulseIds -> SUBSET Subscribers]
        /\ agenda' \in [PulseIds -> FireTimes] /\ armed' \in [Slots -> Nat]
        /\ silent' \subseteq PulseIds
    BY <1>0, <2>2, <2>3, PostTypes DEF agendaVars
  <2> QED  BY <2>1, <2>2, <2>4
           DEF PulseTypes, PulseTypeOK, PulseRows, PulseTriggers, FireTimes, Scopings
<1>6. CASE RestartScheduler
  <2>1. agenda' \in [PulseIds -> FireTimes]
    BY <1>0, <1>6 DEF RestartScheduler, ActiveForScheduler, PulseRows, FireTimes
  <2>2. firing' \in Firings
    BY <1>6 DEF RestartScheduler, NoFiring, Firings, FireTimes
  <2>3. busCrashes' \in 0..MaxOutages
    BY <1>0, <1>6, PulsesAssumption DEF RestartScheduler
  <2>4. /\ UNCHANGED <<clock, pulse, audience, anchor, heard, armed, pulseCalls, declared,
                       registering, registrations>>
        /\ silent' = {} /\ firing' = NoFiring
    BY <1>6 DEF RestartScheduler, declarationVars
  <2> QED  BY <2>1, <2>2, <2>3, <2>4 DEF PulseTypes, PulseTypeOK, Firings, FireTimes
<1> QED  BY <1>1, <1>2, <1>3, <1>4, <1>5, <1>6 DEF PulsesProceed

-----------------------------------------------------------------------------
(* Pulses: the inductive invariant                                         *)

Appointments == [pulse : PulseIds, trigger : [type : {"once"}, at : Times],
                 scope : Scopings, subscribers : SUBSET Subscribers]

\* Agents declare times, not schedules; a schedule that cannot be read has no next time.
Schedules ==
    /\ declared \in Seq(Appointments) /\ registering \in Seq(Appointments)
    /\ \A p \in PulseIds :
          pulse[p].trigger.type = "cron" =>
              /\ pulse[p].trigger.at \in {0, 1}
              /\ pulse[p].trigger.at = 0 => pulse[p].next = Never

\* What is ahead is on the agenda, and during a firing this is so of the other pulses.
AheadOnAgenda ==
    \A p \in PulseIds :
        pulse[p].status = "active" /\ pulse[p].next > clock /\ p \notin silent /\ firing.pulse # p
            => agenda[p] = pulse[p].next

\* The subscriber is still to hear the slot that is on the agenda or that fires now.
Awaits(p, t, s) == \/ agenda[p] = t
                   \/ firing.pulse = p /\ firing.due = t /\ s \in firing.left

\* What is still to be heard counts as heard.
HeardOrAwaited ==
    \A p \in PulseIds, t \in Times, s \in Subscribers :
        /\ heard[<<p, t>>][s] <= armed[<<p, t>>] + busCrashes
        /\ Awaits(p, t, s) => heard[<<p, t>>][s] + 1 <= armed[<<p, t>>] + busCrashes

HeardOrAway(p, t, s) == heard[<<p, t>>][s] > 0 \/ (s \in Anchors /\ ~Reachable(s))

\* The pulse that fires stays active and off the agenda, it is not early, and whoever of its
\* subscribers the loop has passed has heard it or is away.
FiringUnderWay ==
    firing # NoFiring =>
        /\ firing.left \subseteq audience[firing.pulse]
        /\ agenda[firing.pulse] = Never
        /\ pulse[firing.pulse].status = "active"
        /\ firing.due - clock \notin 1..LongestDelay
        /\ \A s \in audience[firing.pulse] \ firing.left :
              HeardOrAway(firing.pulse, firing.due, s)

\* The slots are counted per arming and a firing's loop is followed from subscriber to
\* subscriber: neither bound of AgendaIsFaithful is kept by the steps of a firing alone.
PulsesInv ==
    /\ PulseTypes /\ Schedules /\ AheadOnAgenda /\ HeardOrAwaited /\ FiringUnderWay
    /\ GeneratedDeliveryHasScope

\* A cron schedule that a client may give.
Readable(trigger) == trigger.type = "cron" => trigger.at \in {0, 1}

CronSchedules ==
    \A p \in PulseIds : /\ Readable(pulse[p].trigger)
                        /\ pulse[p].trigger.type = "cron" /\ pulse[p].trigger.at = 0 =>
                              pulse[p].next = Never

LEMMA OfSchedules ==
    Schedules <=> /\ declared \in Seq(Appointments) /\ registering \in Seq(Appointments)
                  /\ CronSchedules
BY DEF Schedules, CronSchedules, Readable

LEMMA OfPulsesInv ==
    ASSUME PulsesInv
    PROVE  /\ clock \in Int /\ pulse \in [PulseIds -> PulseRows]
           /\ audience \in [PulseIds -> SUBSET Subscribers]
           /\ agenda \in [PulseIds -> FireTimes] /\ firing \in Firings
           /\ armed \in [Slots -> Nat] /\ heard \in [Slots -> [Subscribers -> Nat]]
           /\ busCrashes \in Nat
           /\ \A p \in PulseIds, t \in Times, s \in Subscribers :
                 heard[<<p, t>>][s] \in Nat /\ armed[<<p, t>>] \in Nat
<1>1. PulseTypes
  BY DEF PulsesInv
<1>2. clock \in Int
  BY <1>1, OfPulseTypes, PulseTimes DEF Times
<1>3. armed \in [Slots -> Nat] /\ heard \in [Slots -> [Subscribers -> Nat]]
  BY <1>1 DEF PulseTypes
<1>4. ASSUME NEW p \in PulseIds, NEW t \in Times, NEW s \in Subscribers
      PROVE  heard[<<p, t>>][s] \in Nat /\ armed[<<p, t>>] \in Nat
  <2>1. <<p, t>> \in Slots
    BY DEF Slots
  <2>2. heard[<<p, t>>] \in [Subscribers -> Nat]
    BY <1>3, <2>1
  <2> QED  BY <1>3, <2>1, <2>2
<1> QED  BY <1>1, <1>2, <1>3, <1>4, OfPulseTypes

\* While the slots that are waited for become fewer nobody hears too often.
LEMMA FewerAwaited ==
    ASSUME PulsesInv, UNCHANGED <<heard, armed, busCrashes>>, firing' \in {firing, NoFiring},
           \A p \in PulseIds : agenda'[p] \in {agenda[p], Never}
    PROVE  HeardOrAwaited'
<1> SUFFICES ASSUME NEW p \in PulseIds, NEW t \in Times, NEW s \in Subscribers
             PROVE  /\ heard[<<p, t>>][s] <= armed[<<p, t>>] + busCrashes
                    /\ Awaits(p, t, s)' =>
                          heard[<<p, t>>][s] + 1 <= armed[<<p, t>>] + busCrashes
  BY DEF HeardOrAwaited
<1>1. Awaits(p, t, s)' => Awaits(p, t, s)
  BY PulseTimes DEF Awaits, NoFiring
<1> QED  BY <1>1 DEF PulsesInv, HeardOrAwaited

\* Putting a slot on the agenda arms it.
LEMMA ArmedWhenAwaited ==
    ASSUME PulsesInv, UNCHANGED <<heard, busCrashes>>, firing' = NoFiring,
           NEW p \in PulseIds, NEW t \in FireTimes, AddPulse(p, t)
    PROVE  HeardOrAwaited'
<1> SUFFICES ASSUME NEW q \in PulseIds, NEW u \in Times, NEW s \in Subscribers
             PROVE  /\ heard[<<q, u>>][s] <= armed'[<<q, u>>] + busCrashes
                    /\ Awaits(q, u, s)' =>
                          heard[<<q, u>>][s] + 1 <= armed'[<<q, u>>] + busCrashes
  BY DEF HeardOrAwaited
<1>0. /\ heard[<<q, u>>][s] \in Nat /\ armed[<<q, u>>] \in Nat /\ busCrashes \in Nat
      /\ agenda \in [PulseIds -> FireTimes] /\ armed \in [Slots -> Nat]
      /\ <<q, u>> \in Slots
  BY OfPulsesInv DEF Slots
<1>1. /\ heard[<<q, u>>][s] <= armed[<<q, u>>] + busCrashes
      /\ Awaits(q, u, s) => heard[<<q, u>>][s] + 1 <= armed[<<q, u>>] + busCrashes
  BY DEF PulsesInv, HeardOrAwaited
<1>2. Awaits(q, u, s)' => agenda'[q] = u
  BY PulseTimes DEF Awaits, NoFiring
<1>3. CASE q = p /\ u = t
  <2>1. armed'[<<q, u>>] = armed[<<q, u>>] + 1
    BY <1>0, <1>3 DEF AddPulse
  <2> QED  BY <1>0, <1>1, <2>1
<1>4. CASE q # p \/ u # t
  <2>1. armed'[<<q, u>>] = armed[<<q, u>>]
    BY <1>0, <1>4 DEF AddPulse
  <2>2. agenda'[q] = u => agenda[q] = u
    BY <1>0, <1>4 DEF AddPulse
  <2>3. agenda[q] = u => Awaits(q, u, s)
    BY DEF Awaits
  <2> QED  BY <1>1, <1>2, <2>1, <2>2, <2>3
<1> QED  BY <1>3, <1>4

\* POST /v1/pulses puts the stored time on the agenda or has none to put there.
LEMMA PostKeeps ==
    ASSUME PulsesInv, firing = NoFiring, UNCHANGED <<clock, anchor, firing, heard, busCrashes>>,
           NEW p \in PulseIds, NEW trigger \in PulseTriggers, Readable(trigger),
           NEW home \in Scopings, NEW subscribers \in SUBSET Subscribers,
           AcceptsPulse(p, home, subscribers), PostPulse(p, trigger, home, subscribers)
    PROVE  /\ CronSchedules' /\ AheadOnAgenda' /\ HeardOrAwaited' /\ FiringUnderWay'
           /\ GeneratedDeliveryHasScope'
<1> DEFINE all == audience[p] \cup subscribers
           stored == Stored(p, trigger, PulseScope(home, all))
<1>0. /\ clock \in Times /\ clock \in Int /\ pulse \in [PulseIds -> PulseRows]
      /\ audience \in [PulseIds -> SUBSET Subscribers] /\ agenda \in [PulseIds -> FireTimes]
  BY OfPulseTypes, OfPulsesInv DEF PulsesInv
<1>1. /\ stored.trigger = trigger /\ stored.scope = PulseScope(home, all)
      /\ stored.next = CalculateNextFireAt(trigger) /\ stored.status \in {"active", "cancelled"}
  BY DEF Stored
<1>2. /\ pulse' = [pulse EXCEPT ![p] = stored] /\ audience' = [audience EXCEPT ![p] = all]
      /\ \/ UNCHANGED agendaVars /\ (stored.status # "active" \/ stored.next = Never)
         \/ AddPulse(p, stored.next)
  BY DEF PostPulse
<1>3. stored.next \in FireTimes
  BY <1>0, <1>1, NextFireTime
<1>4. ValidAudience(stored.scope, all)
  BY <1>1 DEF AcceptsPulse
<1> HIDE DEF stored, all
<1>5. CronSchedules'
  <2> SUFFICES ASSUME NEW q \in PulseIds
               PROVE  /\ Readable(pulse'[q].trigger)
                      /\ pulse'[q].trigger.type = "cron" /\ pulse'[q].trigger.at = 0 =>
                            pulse'[q].next = Never
    BY DEF CronSchedules, Readable
  <2>1. CASE q = p
    <3>1. pulse'[q] = stored
      BY <1>0, <1>2, <2>1
    <3>2. trigger.type = "cron" /\ trigger.at = 0 => stored.next = Never
      BY <1>1 DEF CalculateNextFireAt
    <3> QED  BY <1>1, <3>1, <3>2
  <2>2. CASE q # p
    <3>1. pulse'[q] = pulse[q]
      BY <1>0, <1>2, <2>2
    <3> QED  BY <3>1, OfSchedules DEF PulsesInv, CronSchedules
  <2> QED  BY <2>1, <2>2
<1>6. AheadOnAgenda'
  <2> SUFFICES ASSUME NEW q \in PulseIds, pulse'[q].status = "active", pulse'[q].next > clock,
                      q \notin silent', firing.pulse # q
               PROVE  agenda'[q] = pulse'[q].next
    BY DEF AheadOnAgenda
  <2>1. CASE q = p
    <3>1. pulse'[q] = stored
      BY <1>0, <1>2, <2>1
    <3>2. AddPulse(p, stored.next)
      BY <1>0, <1>2, <3>1, PulseTimes DEF Times
    <3> QED  BY <1>0, <2>1, <3>1, <3>2 DEF AddPulse
  <2>2. CASE q # p
    <3>1. pulse'[q] = pulse[q] /\ agenda'[q] = agenda[q] /\ q \notin silent
      BY <1>0, <1>2, <2>2 DEF AddPulse, agendaVars
    <3> QED  BY <3>1 DEF PulsesInv, AheadOnAgenda
  <2> QED  BY <2>1, <2>2
<1>7. HeardOrAwaited'
  <2>1. CASE AddPulse(p, stored.next)
    BY <1>3, <2>1, ArmedWhenAwaited
  <2>2. CASE UNCHANGED agendaVars
    BY <2>2, FewerAwaited DEF agendaVars
  <2> QED  BY <1>2, <2>1, <2>2
<1>8. FiringUnderWay'
  BY DEF FiringUnderWay
<1>9. GeneratedDeliveryHasScope'
  <2> SUFFICES ASSUME NEW q \in PulseIds, audience'[q] \cap Generated # {}
               PROVE  pulse'[q].scope # NoPulseScope
    BY DEF GeneratedDeliveryHasScope
  <2>1. CASE q = p
    BY <1>0, <1>2, <1>4, <2>1 DEF ValidAudience
  <2>2. CASE q # p
    BY <1>0, <1>2, <2>2 DEF PulsesInv, GeneratedDeliveryHasScope
  <2> QED  BY <2>1, <2>2
<1> QED  BY <1>5, <1>6, <1>7, <1>8, <1>9

\* What every step keeps of the invariant, its types apart.
PulsesRest ==
    /\ Schedules /\ AheadOnAgenda /\ HeardOrAwaited /\ FiringUnderWay
    /\ GeneratedDeliveryHasScope

\* The calls of clients and agents.
LEMMA PulseCallKeeps ==
    ASSUME PulsesInv, NEW p \in PulseIds,
           \/ \E trigger \in Triggers, home \in PulseScopes \cup {NoPulseScope},
                 subscribers \in SUBSET Subscribers :
                 CreatePulse(p, trigger, home, subscribers)
           \/ \E request \in Requests, current \in Anchors :
                 ToolCreatesPulse(p, request, current)
           \/ \E status \in {"paused", "cancelled"} : StopPulse(p, status)
           \/ ResumePulse(p)
           \/ \E s \in Subscribers : AddPulseSubscriber(p, s) \/ RemovePulseSubscriber(p, s)
    PROVE  PulsesRest'
<1>0. /\ clock \in Times /\ pulse \in [PulseIds -> PulseRows]
      /\ audience \in [PulseIds -> SUBSET Subscribers] /\ agenda \in [PulseIds -> FireTimes]
      /\ Schedules /\ CronSchedules /\ AheadOnAgenda /\ GeneratedDeliveryHasScope
  BY OfPulseTypes, OfSchedules DEF PulsesInv
<1>1. /\ UNCHANGED <<clock, anchor, firing, heard, busCrashes, registering>>
      /\ firing = NoFiring
  BY DEF CreatePulse, ToolCreatesPulse, StopPulse, ResumePulse, AddPulseSubscriber,
     RemovePulseSubscriber, declarationVars
<1>2. FiringUnderWay'
  BY <1>1 DEF FiringUnderWay
<1>3. ASSUME NEW trigger \in Triggers, NEW home \in PulseScopes \cup {NoPulseScope},
             NEW subscribers \in SUBSET Subscribers, CreatePulse(p, trigger, home, subscribers)
      PROVE  PulsesRest'
  <2>1. trigger \in PulseTriggers /\ Readable(trigger) /\ home \in Scopings
    BY PulseTimes DEF Triggers, PulseTriggers, Scopings, Readable
  <2>2. /\ PostPulse(p, trigger, home, subscribers) /\ AcceptsPulse(p, home, subscribers)
        /\ UNCHANGED declared
    BY <1>3 DEF CreatePulse, declarationVars
  <2>3. /\ CronSchedules' /\ AheadOnAgenda' /\ HeardOrAwaited' /\ FiringUnderWay'
        /\ GeneratedDeliveryHasScope'
    BY <1>1, <2>1, <2>2, PostKeeps
  <2>4. Schedules'
    BY <1>0, <1>1, <2>2, <2>3 DEF Schedules, CronSchedules, Readable
  <2> QED  BY <2>3, <2>4 DEF PulsesRest
<1>4. ASSUME NEW request \in Requests, NEW current \in Anchors,
             ToolCreatesPulse(p, request, current)
      PROVE  PulsesRest'
  <2> DEFINE trigger == NormalizePulseTrigger(request.trigger)
             home == ToolScope(request.scope, current)
             entry == [pulse |-> p, trigger |-> trigger, scope |-> pulse'[p].scope,
                       subscribers |-> request.subscribers]
  <2>1. trigger \in [type : {"once"}, at : Times]
    <3>1. request.trigger.type \in {"after", "other"} /\ ToolAccepts(request.trigger)
      BY <1>4 DEF Requests, ToolCreatesPulse
    <3>2. request.trigger.type = "after" /\ trigger.at \in Times
      BY <3>1 DEF ToolAccepts
    <3> QED  BY <3>2 DEF NormalizePulseTrigger
  <2>2. home \in Scopings /\ request.subscribers \in SUBSET Subscribers
    BY DEF ToolScope, Requests, Scopings, Subscribers
  <2>3. /\ PostPulse(p, trigger, home, request.subscribers)
        /\ AcceptsPulse(p, home, request.subscribers)
        /\ declared' = Append(declared, entry) \/ UNCHANGED declared
    BY <1>4 DEF ToolCreatesPulse, Declare
  <2> HIDE DEF trigger, home
  <2>4. trigger \in PulseTriggers /\ Readable(trigger)
    BY <2>1 DEF PulseTriggers, Readable
  <2>5. pulse' \in [PulseIds -> PulseRows]
    BY <2>2, <2>3, <2>4, PostTypes DEF PulsesInv
  <2>6. entry \in Appointments
    BY <2>1, <2>2, <2>5 DEF Appointments, PulseRows, Scopings
  <2> HIDE DEF entry
  <2>7. /\ CronSchedules' /\ AheadOnAgenda' /\ HeardOrAwaited' /\ FiringUnderWay'
        /\ GeneratedDeliveryHasScope'
    BY <1>1, <2>2, <2>3, <2>4, PostKeeps
  <2>8. declared' \in Seq(Appointments) /\ registering' \in Seq(Appointments)
    <3>1. declared \in Seq(Appointments) /\ registering \in Seq(Appointments)
      BY <1>0 DEF Schedules
    <3>2. Append(declared, entry) \in Seq(Appointments)
      BY <2>6, <3>1, AppendProperties
    <3>3. declared' \in Seq(Appointments)
      BY <2>3, <3>1, <3>2
    <3>4. registering' = registering
      BY <1>1
    <3> QED  BY <3>1, <3>3, <3>4
  <2>9. Schedules'
    BY <2>7, <2>8 DEF Schedules, CronSchedules, Readable
  <2> QED  BY <2>7, <2>9 DEF PulsesRest
<1>5. ASSUME NEW status \in {"paused", "cancelled"}, StopPulse(p, status) PROVE PulsesRest'
  <2>1. /\ pulse' = [pulse EXCEPT ![p].status = status]
        /\ agenda' = [agenda EXCEPT ![p] = Never]
        /\ UNCHANGED <<armed, audience, silent, declared>>
    BY <1>5 DEF StopPulse, UpdatePulseStatus, RemovePulse, declarationVars
  <2>2. \A q \in PulseIds : /\ pulse'[q].trigger = pulse[q].trigger
                            /\ pulse'[q].next = pulse[q].next /\ pulse'[q].scope = pulse[q].scope
                            /\ q # p => pulse'[q] = pulse[q] /\ agenda'[q] = agenda[q]
    BY <1>0, <2>1 DEF PulseRows
  <2>3. pulse'[p].status # "active"
    BY <1>0, <2>1 DEF PulseRows
  <2>4. Schedules'
    BY <1>0, <1>1, <2>1, <2>2 DEF Schedules
  <2>5. AheadOnAgenda'
    BY <1>0, <1>1, <2>1, <2>2, <2>3 DEF AheadOnAgenda
  <2>6. HeardOrAwaited'
    BY <1>0, <1>1, <2>1, FewerAwaited
  <2>7. GeneratedDeliveryHasScope'
    BY <1>0, <2>1, <2>2 DEF GeneratedDeliveryHasScope
  <2> QED  BY <1>2, <2>4, <2>5, <2>6, <2>7 DEF PulsesRest
<1>6. CASE ResumePulse(p)
  <2> DEFINE next == CalculateNextFireAt(pulse[p].trigger)
             cron == pulse[p].trigger.type = "cron"
             time == IF cron THEN next ELSE pulse[p].next
             kept == IF cron /\ next # Never THEN next ELSE pulse[p].next
  <2>1. /\ next \in FireTimes /\ pulse[p].next \in FireTimes /\ time \in FireTimes
        /\ pulse[p].trigger \in PulseTriggers
    <3>1. pulse[p].trigger \in PulseTriggers /\ pulse[p].next \in FireTimes
      BY <1>0 DEF PulseRows
    <3> QED  BY <1>0, <3>1, NextFireTime
  <2>2. /\ pulse' = [pulse EXCEPT ![p] = [pulse[p] EXCEPT !.status = "active", !.next = kept]]
        /\ IF time # Never THEN AddPulse(p, time) ELSE UNCHANGED agendaVars
        /\ UNCHANGED <<audience, declared>>
    <3>1. /\ \/ /\ cron /\ next # Never
                /\ pulse' = [pulse EXCEPT ![p].status = "active", ![p].next = next]
                /\ AddPulse(p, next)
             \/ /\ cron /\ next = Never /\ pulse' = [pulse EXCEPT ![p].status = "active"]
                /\ UNCHANGED agendaVars
             \/ /\ pulse[p].trigger.type = "once" /\ pulse' = [pulse EXCEPT ![p].status = "active"]
                /\ IF pulse[p].next # Never THEN AddPulse(p, pulse[p].next)
                                            ELSE UNCHANGED agendaVars
          /\ UNCHANGED <<audience, declared>>
      BY <1>6 DEF ResumePulse, declarationVars
    <3>2. [pulse EXCEPT ![p].status = "active"]
              = [pulse EXCEPT ![p] = [pulse[p] EXCEPT !.status = "active", !.next = pulse[p].next]]
      BY <1>0 DEF PulseRows
    <3> QED  BY <1>0, <3>1, <3>2 DEF PulseRows
  <2>3. cron /\ next = Never => pulse[p].next <= clock
    <3>1. ASSUME cron, next = Never, pulse[p].trigger.at = 1 PROVE pulse[p].next <= MaxTime /\ clock = MaxTime
      BY <1>0, <2>1, <3>1, PulsesAssumption DEF CalculateNextFireAt, FireTimes, Times, Never
    <3>2. cron => /\ pulse[p].trigger.at \in {0, 1}
                  /\ pulse[p].trigger.at = 0 => pulse[p].next = Never
      BY <1>0 DEF Schedules
    <3> QED  BY <1>0, <3>1, <3>2, PulseTimes DEF Times
  <2>4. pulse[p].trigger.at = 0 /\ cron => next = Never
    BY DEF CalculateNextFireAt
  <2> HIDE DEF next
  <2>5. /\ pulse'[p].trigger = pulse[p].trigger /\ pulse'[p].next = kept
        /\ pulse'[p].scope = pulse[p].scope
        /\ \A q \in PulseIds : q # p => pulse'[q] = pulse[q]
    BY <1>0, <2>2 DEF PulseRows
  <2>6. Schedules'
    <3>1. cron /\ pulse[p].trigger.at = 0 => kept = Never
      BY <1>0, <2>4 DEF Schedules
    <3> QED  BY <1>0, <1>1, <2>2, <2>5, <3>1 DEF Schedules
  <2>7. AheadOnAgenda'
    <3> SUFFICES ASSUME NEW q \in PulseIds, pulse'[q].status = "active", pulse'[q].next > clock,
                        q \notin silent', firing.pulse # q
                 PROVE  agenda'[q] = pulse'[q].next
      BY <1>1 DEF AheadOnAgenda
    <3>1. CASE q = p
      <4>1. time # Never /\ kept = time
        BY <1>0, <2>1, <2>3, <2>5, <3>1, PulseTimes DEF Times
      <4> QED  BY <1>0, <2>2, <2>5, <3>1, <4>1 DEF AddPulse
    <3>2. CASE q # p
      <4>1. pulse'[q] = pulse[q] /\ agenda'[q] = agenda[q] /\ q \notin silent
        BY <1>0, <2>2, <2>5, <3>2 DEF AddPulse, agendaVars
      <4> QED  BY <1>0, <4>1 DEF AheadOnAgenda
    <3> QED  BY <3>1, <3>2
  <2>8. HeardOrAwaited'
    <3>1. CASE AddPulse(p, time)
      BY <1>1, <2>1, <3>1, ArmedWhenAwaited
    <3>2. CASE UNCHANGED agendaVars
      BY <1>1, <3>2, FewerAwaited DEF agendaVars
    <3> QED  BY <2>2, <3>1, <3>2
  <2>9. GeneratedDeliveryHasScope'
    BY <1>0, <2>2, <2>5 DEF GeneratedDeliveryHasScope
  <2> QED  BY <1>2, <2>6, <2>7, <2>8, <2>9 DEF PulsesRest
<1>7. ASSUME NEW s \in Subscribers, AddPulseSubscriber(p, s) \/ RemovePulseSubscriber(p, s)
      PROVE  PulsesRest'
  <2>1. UNCHANGED <<pulse, agenda, armed, silent, declared>>
    BY <1>7 DEF AddPulseSubscriber, RemovePulseSubscriber, agendaVars, declarationVars
  <2>2. Schedules' /\ AheadOnAgenda'
    BY <1>0, <1>1, <2>1 DEF Schedules, AheadOnAgenda
  <2>3. HeardOrAwaited'
    BY <1>1, <2>1, FewerAwaited
  <2>4. GeneratedDeliveryHasScope'
    <3>1. \A q \in PulseIds : audience'[q] \cap Generated # {} =>
              audience[q] \cap Generated # {} \/ pulse[q].scope # NoPulseScope
      BY <1>0, <1>7 DEF AddPulseSubscriber, RemovePulseSubscriber, Subscribes, DeliveryContext
    <3> QED  BY <1>0, <2>1, <3>1 DEF GeneratedDeliveryHasScope
  <2> QED  BY <1>2, <2>2, <2>3, <2>4 DEF PulsesRest
<1> QED  BY <1>3, <1>4, <1>5, <1>6, <1>7

\* Deleting and leaving Contexts, stopping a Scope, an attach scan.
LEMMA PulseEditKeeps ==
    ASSUME PulsesInv,
           \/ \E c \in Anchors : DeleteAnchor(c) \/ LeaveAnchor(c)
           \/ \E home \in PulseScopes : CancelPulsesOf(home)
           \/ ReadDeclarations
    PROVE  PulsesRest'
<1>0. /\ pulse \in [PulseIds -> PulseRows] /\ audience \in [PulseIds -> SUBSET Subscribers]
      /\ Schedules /\ AheadOnAgenda /\ FiringUnderWay /\ GeneratedDeliveryHasScope
  BY OfPulseTypes DEF PulsesInv
<1>1. UNCHANGED <<clock, agenda, armed, silent, firing, heard, busCrashes, declared>>
  BY DEF DeleteAnchor, LeaveAnchor, CancelPulsesOf, ReadDeclarations, agendaVars, declarationVars
<1>2. HeardOrAwaited'
  BY <1>1, FewerAwaited
<1>3. ASSUME NEW c \in Anchors, DeleteAnchor(c) \/ LeaveAnchor(c) PROVE PulsesRest'
  <2>1. /\ UNCHANGED <<pulse, registering>> /\ firing = NoFiring
        /\ \A p \in PulseIds : audience'[p] \subseteq audience[p]
    BY <1>0, <1>3 DEF DeleteAnchor, LeaveAnchor, declarationVars
  <2>2. Schedules' /\ AheadOnAgenda'
    BY <1>0, <1>1, <2>1 DEF Schedules, AheadOnAgenda
  <2>3. GeneratedDeliveryHasScope'
    BY <1>0, <2>1 DEF GeneratedDeliveryHasScope
  <2>4. FiringUnderWay'
    BY <1>1, <2>1 DEF FiringUnderWay
  <2> QED  BY <1>2, <2>2, <2>3, <2>4 DEF PulsesRest
<1>4. ASSUME NEW home \in PulseScopes, CancelPulsesOf(home) PROVE PulsesRest'
  <2>1. /\ UNCHANGED <<audience, registering>> /\ firing = NoFiring
        /\ \A p \in PulseIds :
              /\ pulse'[p].trigger = pulse[p].trigger /\ pulse'[p].scope = pulse[p].scope
              /\ \/ pulse'[p] = pulse[p]
                 \/ pulse'[p].status = "cancelled" /\ pulse'[p].next = Never
    BY <1>0, <1>4 DEF CancelPulsesOf, PulseRows, declarationVars
  <2>2. Schedules'
    BY <1>0, <1>1, <2>1 DEF Schedules
  <2>3. AheadOnAgenda'
    BY <1>0, <1>1, <2>1 DEF AheadOnAgenda
  <2>4. GeneratedDeliveryHasScope'
    BY <1>0, <2>1 DEF GeneratedDeliveryHasScope
  <2>5. FiringUnderWay'
    BY <1>1, <2>1 DEF FiringUnderWay
  <2> QED  BY <1>2, <2>2, <2>3, <2>4, <2>5 DEF PulsesRest
<1>5. CASE ReadDeclarations
  <2>1. UNCHANGED <<pulse, audience, anchor>> /\ registering' = declared
    BY <1>5 DEF ReadDeclarations
  <2>2. Schedules' /\ AheadOnAgenda' /\ GeneratedDeliveryHasScope'
    BY <1>0, <1>1, <2>1 DEF Schedules, AheadOnAgenda, GeneratedDeliveryHasScope
  <2>3. FiringUnderWay'
    BY <1>0, <1>1, <2>1 DEF FiringUnderWay, HeardOrAway, Reachable
  <2> QED  BY <1>2, <2>2, <2>3 DEF PulsesRest
<1> QED  BY <1>3, <1>4, <1>5

\* A firing begins, goes from subscriber to subscriber, and ends.
LEMMA FiringKeeps ==
    ASSUME PulsesInv,
           \/ \E p \in PulseIds : BeginFiring(p)
           \/ \E s \in Subscribers : EmitTo(s)
           \/ EndFiring
    PROVE  PulsesRest'
<1>0. /\ clock \in Times /\ clock \in Int /\ pulse \in [PulseIds -> PulseRows]
      /\ audience \in [PulseIds -> SUBSET Subscribers]
      /\ agenda \in [PulseIds -> FireTimes] /\ firing \in Firings
      /\ heard \in [Slots -> [Subscribers -> Nat]]
      /\ firing # NoFiring => firing.pulse \in PulseIds /\ firing.due \in Times
      /\ Schedules /\ AheadOnAgenda /\ HeardOrAwaited /\ FiringUnderWay
      /\ GeneratedDeliveryHasScope
  BY OfPulseTypes, OfPulsesInv DEF PulsesInv
<1>1. UNCHANGED <<clock, audience, anchor, busCrashes, declared, registering>>
  BY DEF BeginFiring, EmitTo, EndFiring, declarationVars
<1>2. ASSUME NEW p \in PulseIds, BeginFiring(p) PROVE PulsesRest'
  <2>1. /\ agenda' = [agenda EXCEPT ![p] = Never] /\ UNCHANGED <<pulse, heard, armed>>
        /\ firing = NoFiring /\ TimerRings(p)
        /\ firing' = IF pulse[p].status = "active" /\ audience[p] # {}
                     THEN [pulse |-> p, due |-> agenda[p], left |-> audience[p]] ELSE NoFiring
        /\ silent' = IF audience[p] = {} THEN silent \cup {p} ELSE silent
    BY <1>2 DEF BeginFiring, RemovePulse
  <2>2. agenda[p] \in Times /\ agenda[p] - clock \notin 1..LongestDelay
    BY <1>0, <2>1, PulseTimes, PulsesAssumption DEF TimerRings, FireTimes, Times
  <2>3. Schedules' /\ GeneratedDeliveryHasScope'
    BY <1>0, <1>1, <2>1 DEF Schedules, GeneratedDeliveryHasScope
  <2>4. AheadOnAgenda'
    <3> SUFFICES ASSUME NEW q \in PulseIds, pulse[q].status = "active", pulse[q].next > clock,
                        q \notin silent', firing'.pulse # q
                 PROVE  agenda'[q] = pulse[q].next
      BY <1>1, <2>1 DEF AheadOnAgenda
    <3>1. q # p
      BY <2>1
    <3>2. q \notin silent /\ firing.pulse # q /\ agenda'[q] = agenda[q]
      BY <1>0, <2>1, <3>1, PulsesAssumption DEF NoFiring
    <3> QED  BY <1>0, <3>2 DEF AheadOnAgenda
  <2>5. HeardOrAwaited'
    <3> SUFFICES ASSUME NEW q \in PulseIds, NEW t \in Times, NEW s \in Subscribers
                 PROVE  /\ heard[<<q, t>>][s] <= armed[<<q, t>>] + busCrashes
                        /\ Awaits(q, t, s)' =>
                              heard[<<q, t>>][s] + 1 <= armed[<<q, t>>] + busCrashes
      BY <1>1, <2>1 DEF HeardOrAwaited
    <3>1. Awaits(q, t, s)' => Awaits(q, t, s)
      <4>1. agenda'[q] = t => agenda[q] = t
        BY <1>0, <2>1, PulseTimes
      <4>2. firing'.pulse = q /\ firing'.due = t => agenda[q] = t
        BY <2>1, PulsesAssumption, PulseTimes DEF NoFiring
      <4> QED  BY <4>1, <4>2 DEF Awaits
    <3> QED  BY <1>0, <3>1 DEF HeardOrAwaited
  <2>6. FiringUnderWay'
    <3> SUFFICES ASSUME firing' # NoFiring
                 PROVE  /\ firing'.left \subseteq audience[firing'.pulse]
                        /\ agenda'[firing'.pulse] = Never
                        /\ pulse[firing'.pulse].status = "active"
                        /\ firing'.due - clock \notin 1..LongestDelay
                        /\ audience[firing'.pulse] \ firing'.left = {}
      BY <1>1, <2>1 DEF FiringUnderWay
    <3>1. /\ firing' = [pulse |-> p, due |-> agenda[p], left |-> audience[p]]
          /\ pulse[p].status = "active"
      BY <2>1
    <3> QED  BY <1>0, <2>1, <2>2, <3>1
  <2> QED  BY <2>3, <2>4, <2>5, <2>6 DEF PulsesRest
<1>3. ASSUME NEW s \in Subscribers, EmitTo(s) PROVE PulsesRest'
  <2>0. PICK p \in PulseIds, t \in Times : p = firing.pulse /\ t = firing.due
    <3>1. firing # NoFiring
      BY <1>3 DEF EmitTo, NoFiring
    <3> QED  BY <1>0, <3>1
  <2> DEFINE slot == <<p, t>>
  <2>1. /\ s \in firing.left /\ firing' = [firing EXCEPT !.left = @ \ {s}]
        /\ heard' = IF DeliveryContext(p, s) THEN [heard EXCEPT ![slot][s] = @ + 1] ELSE heard
        /\ UNCHANGED <<pulse, agenda, armed, silent>>
    BY <1>3, <2>0 DEF EmitTo, agendaVars
  <2>2. /\ firing # NoFiring /\ slot \in Slots
        /\ firing'.pulse = p /\ firing'.due = t /\ firing'.left = firing.left \ {s}
    BY <1>0, <2>0, <2>1 DEF NoFiring, Firings, Slots
  <2>3. /\ firing.left \subseteq audience[p] /\ agenda[p] = Never /\ pulse[p].status = "active"
        /\ t - clock \notin 1..LongestDelay
        /\ \A r \in audience[p] \ firing.left : HeardOrAway(p, t, r)
    BY <1>0, <2>0, <2>2 DEF FiringUnderWay
  <2>4. \A x \in Slots, r \in Subscribers :
            /\ heard[x][r] \in Nat /\ heard'[x][r] \in {heard[x][r], heard[x][r] + 1}
            /\ x # slot \/ r # s => heard'[x][r] = heard[x][r]
            /\ x = slot /\ r = s /\ DeliveryContext(p, s) => heard'[x][r] = heard[x][r] + 1
    <3> HIDE DEF slot
    <3>1. heard[slot] \in [Subscribers -> Nat]
      BY <1>0, <2>2
    <3>2. ASSUME NEW x \in Slots, NEW r \in Subscribers
          PROVE  /\ heard[x][r] \in Nat /\ heard'[x][r] \in {heard[x][r], heard[x][r] + 1}
                 /\ x # slot \/ r # s => heard'[x][r] = heard[x][r]
                 /\ x = slot /\ r = s /\ DeliveryContext(p, s) => heard'[x][r] = heard[x][r] + 1
      <4>1. heard[x] \in [Subscribers -> Nat]
        BY <1>0
      <4> QED  BY <1>0, <2>1, <3>1, <4>1
    <3> QED  BY <3>2
  <2>5. Schedules' /\ GeneratedDeliveryHasScope'
    BY <1>0, <1>1, <2>1 DEF Schedules, GeneratedDeliveryHasScope
  <2>6. AheadOnAgenda'
    BY <1>0, <1>1, <2>0, <2>1, <2>2 DEF AheadOnAgenda
  <2>7. HeardOrAwaited'
    <3> SUFFICES ASSUME NEW q \in PulseIds, NEW u \in Times, NEW r \in Subscribers
                 PROVE  /\ heard'[<<q, u>>][r] <= armed[<<q, u>>] + busCrashes
                        /\ Awaits(q, u, r)' =>
                              heard'[<<q, u>>][r] + 1 <= armed[<<q, u>>] + busCrashes
      BY <1>1, <2>1 DEF HeardOrAwaited
    <3>0. <<q, u>> \in Slots /\ armed[<<q, u>>] \in Nat /\ busCrashes \in Nat
      BY OfPulsesInv DEF Slots
    <3>1. /\ heard[<<q, u>>][r] <= armed[<<q, u>>] + busCrashes
          /\ Awaits(q, u, r) => heard[<<q, u>>][r] + 1 <= armed[<<q, u>>] + busCrashes
      BY <1>0 DEF HeardOrAwaited
    <3>2. CASE q = p /\ u = t /\ r = s
      <4>1. Awaits(q, u, r)
        BY <2>0, <2>1, <3>2 DEF Awaits
      <4>2. ~Awaits(q, u, r)'
        BY <2>1, <2>2, <2>3, <3>2, PulseTimes DEF Awaits
      <4> QED  BY <2>4, <3>0, <3>1, <4>1, <4>2
    <3>3. CASE ~(q = p /\ u = t /\ r = s)
      <4>1. heard'[<<q, u>>][r] = heard[<<q, u>>][r]
        BY <2>4, <3>0, <3>3
      <4>2. Awaits(q, u, r)' => Awaits(q, u, r)
        BY <2>0, <2>1, <2>2 DEF Awaits
      <4> QED  BY <3>1, <4>1, <4>2
    <3> QED  BY <3>2, <3>3
  <2>8. FiringUnderWay'
    <3>1. ASSUME NEW r \in audience[p] \ (firing.left \ {s}) PROVE HeardOrAway(p, t, r)'
      <4>0. r \in Subscribers
        BY <1>0, <2>2
      <4>1. CASE r = s
        <5>1. CASE DeliveryContext(p, s)
          BY <2>2, <2>4, <4>0, <4>1, <5>1 DEF HeardOrAway
        <5>2. CASE ~DeliveryContext(p, s)
          <6>1. s \in audience[p]
            BY <2>1, <2>3
          <6>2. s \notin Generated
            BY <1>0, <2>2, <5>2, <6>1 DEF DeliveryContext, GeneratedDeliveryHasScope
          <6> QED  BY <1>1, <4>1, <5>2, <6>2 DEF DeliveryContext, HeardOrAway, Reachable, Subscribers
        <5> QED  BY <5>1, <5>2
      <4>2. CASE r # s
        <5>1. HeardOrAway(p, t, r)
          BY <2>3, <4>2
        <5>2. heard'[slot][r] = heard[slot][r]
          BY <2>2, <2>4, <4>0, <4>2
        <5> QED  BY <1>1, <5>1, <5>2 DEF HeardOrAway, Reachable
      <4> QED  BY <4>1, <4>2
    <3> QED  BY <1>1, <2>1, <2>2, <2>3, <3>1 DEF FiringUnderWay, HeardOrAway, Reachable
  <2> QED  BY <2>5, <2>6, <2>7, <2>8 DEF PulsesRest
<1>4. CASE EndFiring
  <2> DEFINE p == firing.pulse
             next == IF pulse[p].trigger.type = "cron"
                     THEN CalculateNextFireAt(pulse[p].trigger) ELSE Never
             status == IF next = Never THEN "completed" ELSE "active"
  <2>1. /\ pulse' = [pulse EXCEPT ![p].next = next, ![p].status = status]
        /\ IF next # Never THEN AddPulse(p, next) ELSE UNCHANGED agendaVars
        /\ firing' = NoFiring /\ firing # NoFiring /\ UNCHANGED heard
    BY <1>4 DEF EndFiring, RecordPulseFired
  <2>2. p \in PulseIds
    BY <1>0, <2>1
  <2>3. /\ next \in FireTimes
        /\ pulse[p].trigger.type = "cron" /\ pulse[p].trigger.at = 0 => next = Never
    <3>1. pulse[p].trigger \in PulseTriggers
      BY <1>0, <2>2 DEF PulseRows
    <3> QED  BY <1>0, <3>1, NextFireTime DEF FireTimes, CalculateNextFireAt
  <2>4. /\ pulse'[p].trigger = pulse[p].trigger /\ pulse'[p].next = next
        /\ pulse'[p].scope = pulse[p].scope /\ pulse'[p].status = status
        /\ \A q \in PulseIds : q # p => pulse'[q] = pulse[q]
    BY <1>0, <2>1, <2>2 DEF PulseRows
  <2> HIDE DEF next, p
  <2>5. Schedules'
    BY <1>0, <1>1, <2>3, <2>4 DEF Schedules
  <2>6. AheadOnAgenda'
    <3> SUFFICES ASSUME NEW q \in PulseIds, pulse'[q].status = "active", pulse'[q].next > clock,
                        q \notin silent'
                 PROVE  agenda'[q] = pulse'[q].next
      BY <1>1 DEF AheadOnAgenda
    <3>1. CASE q = p
      BY <1>0, <2>1, <2>2, <2>4, <3>1 DEF AddPulse
    <3>2. CASE q # p
      <4>1. pulse'[q] = pulse[q] /\ agenda'[q] = agenda[q] /\ q \notin silent /\ firing.pulse # q
        BY <1>0, <2>1, <2>4, <3>2 DEF AddPulse, agendaVars, p
      <4> QED  BY <1>0, <4>1 DEF AheadOnAgenda
    <3> QED  BY <3>1, <3>2
  <2>7. HeardOrAwaited'
    <3>1. CASE AddPulse(p, next)
      BY <1>1, <2>1, <2>2, <2>3, <3>1, ArmedWhenAwaited
    <3>2. CASE UNCHANGED agendaVars
      BY <1>1, <2>1, <3>2, FewerAwaited DEF agendaVars
    <3> QED  BY <2>1, <3>1, <3>2
  <2>8. GeneratedDeliveryHasScope'
    BY <1>0, <1>1, <2>4 DEF GeneratedDeliveryHasScope
  <2>9. FiringUnderWay'
    BY <2>1 DEF FiringUnderWay
  <2> QED  BY <2>5, <2>6, <2>7, <2>8, <2>9 DEF PulsesRest
<1> QED  BY <1>2, <1>3, <1>4

\* Time passes, an attach scan registers a declared pulse, the bus starts again.
LEMMA PulseTurnKeeps ==
    ASSUME PulsesInv, PulseTick \/ RegisterDeclared \/ RestartScheduler
    PROVE  PulsesRest'
<1>0. /\ clock \in Int /\ pulse \in [PulseIds -> PulseRows]
      /\ agenda \in [PulseIds -> FireTimes] /\ Schedules /\ CronSchedules /\ AheadOnAgenda
      /\ HeardOrAwaited /\ FiringUnderWay /\ GeneratedDeliveryHasScope
  BY OfPulseTypes, OfPulsesInv, OfSchedules DEF PulsesInv
<1>1. CASE PulseTick
  <2>1. /\ UNCHANGED <<pulse, audience, anchor, agenda, armed, silent, firing, heard, busCrashes,
                       declared, registering>>
        /\ firing = NoFiring /\ clock' = clock + 1
    BY <1>1 DEF PulseTick, agendaVars, declarationVars
  <2>2. Schedules' /\ GeneratedDeliveryHasScope'
    BY <1>0, <2>1 DEF Schedules, GeneratedDeliveryHasScope
  <2>3. AheadOnAgenda'
    <3>1. ASSUME NEW p \in PulseIds, pulse[p].next > clock + 1 PROVE pulse[p].next > clock
      <4>1. pulse[p].next \in Int
        BY <1>0, PulseTimes DEF PulseRows
      <4> QED  BY <1>0, <3>1, <4>1
    <3> QED  BY <1>0, <2>1, <3>1 DEF AheadOnAgenda
  <2>4. HeardOrAwaited' /\ FiringUnderWay'
    BY <2>1, FewerAwaited DEF FiringUnderWay
  <2> QED  BY <2>2, <2>3, <2>4 DEF PulsesRest
<1>2. CASE RegisterDeclared
  <2> DEFINE d == Head(registering)
  <2>1. d \in Appointments /\ registering' \in Seq(Appointments)
    BY <1>0, <1>2, HeadTailProperties DEF RegisterDeclared, Schedules
  <2>2. /\ \/ /\ AcceptsPulse(d.pulse, d.scope, d.subscribers)
              /\ PostPulse(d.pulse, d.trigger, d.scope, d.subscribers)
           \/ UNCHANGED <<pulse, audience, agendaVars>>
        /\ UNCHANGED <<clock, anchor, firing, heard, declared, busCrashes>> /\ firing = NoFiring
    BY <1>2 DEF RegisterDeclared
  <2> HIDE DEF d
  <2>3. /\ d.pulse \in PulseIds /\ d.trigger \in PulseTriggers /\ d.scope \in Scopings
        /\ Readable(d.trigger) /\ d.subscribers \in SUBSET Subscribers
    BY <2>1 DEF Appointments, PulseTriggers, Readable
  <2>4. /\ CronSchedules' /\ AheadOnAgenda' /\ HeardOrAwaited' /\ FiringUnderWay'
        /\ GeneratedDeliveryHasScope'
    <3>1. CASE UNCHANGED <<pulse, audience, agendaVars>>
      <4>1. CronSchedules' /\ AheadOnAgenda' /\ GeneratedDeliveryHasScope'
        BY <1>0, <2>2, <3>1
        DEF CronSchedules, AheadOnAgenda, GeneratedDeliveryHasScope, agendaVars
      <4>2. HeardOrAwaited' /\ FiringUnderWay'
        BY <2>2, <3>1, FewerAwaited DEF FiringUnderWay, agendaVars
      <4> QED  BY <4>1, <4>2
    <3>2. CASE /\ AcceptsPulse(d.pulse, d.scope, d.subscribers)
               /\ PostPulse(d.pulse, d.trigger, d.scope, d.subscribers)
      BY <2>2, <2>3, <3>2, PostKeeps
    <3> QED  BY <2>2, <3>1, <3>2
  <2>5. Schedules'
    BY <1>0, <2>1, <2>2, <2>4 DEF Schedules, CronSchedules, Readable
  <2> QED  BY <2>4, <2>5 DEF PulsesRest
<1>3. CASE RestartScheduler
  <2>1. /\ UNCHANGED <<clock, pulse, audience, anchor, heard, armed, declared, registering>>
        /\ firing' = NoFiring /\ busCrashes' = busCrashes + 1
        /\ agenda' = [p \in PulseIds |-> ActiveForScheduler(p)]
    BY <1>3 DEF RestartScheduler, declarationVars
  <2>2. Schedules' /\ GeneratedDeliveryHasScope' /\ FiringUnderWay'
    BY <1>0, <2>1 DEF Schedules, GeneratedDeliveryHasScope, FiringUnderWay
  <2>3. AheadOnAgenda'
    BY <1>0, <2>1 DEF AheadOnAgenda, ActiveForScheduler
  <2>4. HeardOrAwaited'
    <3> SUFFICES ASSUME NEW p \in PulseIds, NEW t \in Times, NEW s \in Subscribers
                 PROVE  /\ heard[<<p, t>>][s] + 1 <= armed[<<p, t>>] + (busCrashes + 1)
                        /\ heard[<<p, t>>][s] <= armed[<<p, t>>] + (busCrashes + 1)
      BY <2>1 DEF HeardOrAwaited
    <3>1. /\ heard[<<p, t>>][s] \in Nat /\ armed[<<p, t>>] \in Nat /\ busCrashes \in Nat
          /\ heard[<<p, t>>][s] <= armed[<<p, t>>] + busCrashes
      BY <1>0, OfPulsesInv DEF HeardOrAwaited
    <3> QED  BY <3>1
  <2> QED  BY <2>2, <2>3, <2>4 DEF PulsesRest
<1> QED  BY <1>1, <1>2, <1>3

LEMMA PulsesInvInit == PulsesInit => PulsesInv
<1> SUFFICES ASSUME PulsesInit PROVE PulsesInv
  OBVIOUS
<1>1. PulseTypes
  BY PulseTypesInit
<1>2. /\ pulse = [p \in PulseIds |-> NoPulse] /\ audience = [p \in PulseIds |-> {}]
      /\ agenda = [p \in PulseIds |-> Never] /\ firing = NoFiring
      /\ heard = [x \in Slots |-> [s \in Subscribers |-> 0]] /\ armed = [x \in Slots |-> 0]
      /\ declared = <<>> /\ registering = <<>> /\ busCrashes = 0 /\ clock = 0
  BY DEF PulsesInit
<1>3. /\ NoPulse.trigger \in Triggers /\ NoPulse.next = Never
      /\ NoPulse.status = "absent"
  <2>1. (CHOOSE g \in Triggers : TRUE) \in Triggers
    BY DEF Triggers
  <2> QED  BY <2>1 DEF NoPulse
<1>4. Readable(NoPulse.trigger)
  BY <1>3 DEF Triggers, Readable
<1>5. Schedules
  BY <1>2, <1>3, <1>4 DEF Schedules, Readable
<1>6. AheadOnAgenda /\ GeneratedDeliveryHasScope /\ FiringUnderWay
  BY <1>2, <1>3 DEF AheadOnAgenda, GeneratedDeliveryHasScope, FiringUnderWay
<1>7. HeardOrAwaited
  <2> SUFFICES ASSUME NEW p \in PulseIds, NEW t \in Times, NEW s \in Subscribers
               PROVE  /\ heard[<<p, t>>][s] <= armed[<<p, t>>] + busCrashes
                      /\ ~Awaits(p, t, s)
    BY DEF HeardOrAwaited
  <2>1. <<p, t>> \in Slots
    BY DEF Slots
  <2> QED  BY <1>2, <2>1, PulseTimes DEF Awaits, NoFiring
<1> QED  BY <1>1, <1>5, <1>6, <1>7 DEF PulsesInv

LEMMA PulsesInvStep == PulsesInv /\ [PulsesNext]_pulseVars => PulsesInv'
<1> SUFFICES ASSUME PulsesInv, [PulsesNext]_pulseVars PROVE PulsesInv'
  OBVIOUS
<1>0. PulseTypes
  BY DEF PulsesInv
<1>1. CASE UNCHANGED pulseVars
  <2>1. UNCHANGED <<clock, pulse, audience, anchor, agenda, armed, silent, firing, heard,
                    declared, registering, pulseCalls, busCrashes, registrations>>
    BY <1>1 DEF pulseVars
  <2>2. PulseTypes'
    BY <1>0, <2>1 DEF PulseTypes, PulseTypeOK
  <2>3. Schedules' /\ AheadOnAgenda' /\ GeneratedDeliveryHasScope'
    BY <2>1 DEF PulsesInv, Schedules, AheadOnAgenda, GeneratedDeliveryHasScope
  <2>4. HeardOrAwaited'
    BY <2>1, FewerAwaited
  <2>5. FiringUnderWay'
    BY <2>1 DEF PulsesInv, FiringUnderWay, HeardOrAway, Reachable
  <2> QED  BY <2>2, <2>3, <2>4, <2>5 DEF PulsesInv
<1>2. CASE PulsesNext
  <2>1. PulseTypes' /\ PulsesRest'
    <3>1. CASE PulsesProceed \/ RestartScheduler
      BY <1>0, <3>1, PulseProceedTypes, FiringKeeps, PulseTurnKeeps DEF PulsesProceed
    <3>2. CASE \/ ReadDeclarations
               \/ \E c \in Anchors : DeleteAnchor(c) \/ LeaveAnchor(c)
               \/ \E s \in PulseScopes : CancelPulsesOf(s)
      BY <1>0, <3>2, PulseEditTypes, PulseEditKeeps
    <3>3. ASSUME NEW p \in PulseIds,
                 \/ \E trigger \in Triggers, home \in PulseScopes \cup {NoPulseScope},
                       subscribers \in SUBSET Subscribers :
                       CreatePulse(p, trigger, home, subscribers)
                 \/ \E request \in Requests, current \in Anchors :
                       ToolCreatesPulse(p, request, current)
                 \/ \E status \in {"paused", "cancelled"} : StopPulse(p, status)
                 \/ ResumePulse(p)
                 \/ \E s \in Subscribers :
                       AddPulseSubscriber(p, s) \/ RemovePulseSubscriber(p, s)
          PROVE  PulseTypes' /\ PulsesRest'
      BY <1>0, <3>3, PulseCallTypes, PulseCallKeeps
    <3> QED  BY <1>2, <3>1, <3>2, <3>3 DEF PulsesNext
  <2> QED  BY <2>1 DEF PulsesInv, PulsesRest
<1> QED  BY <1>1, <1>2

LEMMA PulsesInvHolds == PulsesInit /\ [][PulsesNext]_pulseVars => []PulsesInv
BY PulsesInvInit, PulsesInvStep, PTL

LEMMA PulsesInvIsFaithful == PulsesInv => AgendaIsFaithful
<1> SUFFICES ASSUME PulsesInv PROVE AgendaIsFaithful
  OBVIOUS
<1>1. AheadIsScheduled
  BY PulsesAssumption DEF AheadIsScheduled, PulsesInv, AheadOnAgenda, NoFiring
<1>2. SlotHeardOncePerArming
  BY DEF SlotHeardOncePerArming, PulsesInv, HeardOrAwaited, Slots
<1> QED  BY <1>1, <1>2 DEF AgendaIsFaithful, PulsesInv

-----------------------------------------------------------------------------
(* Pulses: the theorems                                                    *)

\* Every order of the routes, firings, restarts and attach scans leaves the variables of the
\* scheduler and of the pulse tables well-typed.
THEOREM PulsesTypeCorrect == PulsesSpec => []PulseTypeOK
<1>1. PulsesInv => PulseTypeOK
  BY DEF PulsesInv, PulseTypes
<1> QED  BY <1>1, PulsesInvHolds, PTL DEF PulsesSpec

\* Through every order of edits, pauses, firings, restarts and attach scans: what an active
\* pulse has ahead of it is on the agenda, a subscriber hears a slot no more often than it was
\* armed and the bus restarted, and a generated delivery has a Scope to create its Context in.
THEOREM AgendaStaysFaithful == PulsesSpec => []AgendaIsFaithful
BY PulsesInvIsFaithful, PulsesInvHolds, PTL DEF PulsesSpec

\* A step of a firing: what FiringIsFaithful says of every one.
FiringStep ==
    /\ heard' # heard => /\ pulse[firing.pulse].status = "active"
                         /\ firing.due - clock \notin 1..LongestDelay
    /\ \A p \in PulseIds :
          firing.pulse = p /\ pulse'[p] # pulse[p] =>
              \A s \in audience[p] : \/ heard[<<p, firing.due>>][s] > 0
                                     \/ s \in Anchors /\ ~Reachable(s)

LEMMA PulseStepIsFaithful ==
    PulsesInv /\ [PulsesNext]_pulseVars => [FiringStep]_pulseVars
<1> SUFFICES ASSUME PulsesInv, PulsesNext
             PROVE  /\ heard' # heard => /\ pulse[firing.pulse].status = "active"
                                         /\ firing.due - clock \notin 1..LongestDelay
                    /\ \A p \in PulseIds :
                          firing.pulse = p /\ pulse'[p] # pulse[p] =>
                              \A s \in audience[p] : HeardOrAway(p, firing.due, s)
  BY DEF FiringStep, HeardOrAway
<1>1. /\ firing # NoFiring =>
            /\ pulse[firing.pulse].status = "active" /\ firing.due - clock \notin 1..LongestDelay
            /\ \A s \in audience[firing.pulse] \ firing.left :
                  HeardOrAway(firing.pulse, firing.due, s)
      /\ NoFiring.pulse \notin PulseIds
  BY PulsesAssumption DEF PulsesInv, FiringUnderWay, NoFiring
<1>2. CASE \E s \in Subscribers : EmitTo(s)
  <2>1. firing # NoFiring /\ UNCHANGED pulse
    BY <1>2 DEF EmitTo, NoFiring
  <2> QED  BY <1>1, <2>1
<1>3. CASE EndFiring
  <2>1. firing # NoFiring /\ firing.left = {} /\ UNCHANGED heard
    BY <1>3 DEF EndFiring
  <2> QED  BY <1>1, <2>1
<1>4. CASE ReadDeclarations \/ RestartScheduler
  BY <1>4 DEF ReadDeclarations, RestartScheduler
<1>5. CASE firing = NoFiring /\ UNCHANGED heard
  BY <1>1, <1>5
<1>6. \/ firing = NoFiring /\ UNCHANGED heard
      \/ \E s \in Subscribers : EmitTo(s)
      \/ EndFiring
      \/ ReadDeclarations \/ RestartScheduler
  BY DEF PulsesNext, PulsesProceed, BeginFiring, PulseTick, RegisterDeclared, CreatePulse,
     ToolCreatesPulse, StopPulse, ResumePulse, AddPulseSubscriber, RemovePulseSubscriber,
     DeleteAnchor, LeaveAnchor, CancelPulsesOf
<1> QED  BY <1>2, <1>3, <1>4, <1>5, <1>6

\* Nobody hears a pulse that is not active or that is early by a delay the timer can count, and
\* the firing that is recorded was heard by every subscriber that can be reached.
THEOREM FiringStaysFaithful == PulsesSpec => FiringIsFaithful
BY PulseStepIsFaithful, PulsesInvHolds, PTL DEF PulsesSpec, FiringIsFaithful, FiringStep

-----------------------------------------------------------------------------
(* The attachment of the workspace                                         *)

HasRead(j) == job[j].stage \in {"import", "resolve", "register"}

\* The scan or the application, on a workspace it has found, has yet to report or to forget
\* the last report.
Reports == \E j \in {"scan", "apply"} : AtWork(j) /\ job[j].listed

Recorded == {ws.hash, reported.hash} \cup {job[j].hash : j \in Jobs} \cup {job[j].active : j \in Jobs}

\* Which job may be at which stage; nothing has a hash that the folder did not have.
StagesInv ==
    /\ folder.made => folder.hash # 0
    /\ \A h \in Recorded : h <= folder.hash
    /\ \A j \in Jobs :
          /\ HasRead(j) => job[j].hash # 0 /\ job[j].listed
          /\ job[j].applies => j = "apply"
    /\ job["snapshot"].stage \in {"idle", "listed", "import"}

\* What an apply may still add to the folder, and the folder's being made.
One(b) == IF b THEN 1 ELSE 0
ToApply == One("apply" \in asks) + One(job["apply"].stage = "listed" /\ job["apply"].applies)
HashInv ==
    /\ folder.hash + One(~folder.made) + ToApply <= MaxFolderEdits + 1 + ownerCalls
    /\ ToApply <= ownerCalls

\* A job that nobody disturbed works with the folder and the row as they are.
LeftAlone(j) ==
    /\ AtWork(j) /\ job[j].listed => ws.there
    /\ HasRead(j) => folder.there /\ folder.made /\ job[j].hash = folder.hash
    /\ job[j].stage = "listed" /\ job[j].listed /\ ~job[j].applies /\ j # "snapshot" =>
          ws.hash = job[j].active \/ (ws.hash = folder.hash /\ folder.made /\ folder.there)
    /\ job[j].stage \in {"resolve", "register"} /\ ~job[j].applies => ws.hash \in {0, job[j].hash}
    /\ job[j].stage = "register" => job[j].auth = Resolves(job[j].at)
    /\ HasRead(j) /\ j # "snapshot" => \A a \in folder.agents :
          \/ a \in job[j].agents
          \/ job[j].stage = "register" /\ job[j].at = a
          \/ actor[a] = "runtime_unconfigured" => ~Resolves(a)

UndisturbedInv == ~overlap => \A j \in Jobs : LeftAlone(j)

\* What the row shows of the last report, and what the last report says of the folder.
RowInv ==
    /\ ~stale /\ ws.there /\ reported.status # "none" =>
          /\ ws.status \in {reported.status, "attached"}
          /\ reported.status = "attached" => ws.hash # 0
    /\ ~overlap /\ ~stale /\ ws.there /\ reported.status = "attached" =>
          \/ Reports
          \/ /\ ws.hash = reported.hash
             /\ AtWork("scan") \/ AtWork("snapshot") => reported.hash = folder.hash

\* What was bound since an actor was told that it is not is about to be found.
BoundInv ==
    ws.there /\ ~overlap /\ ~dropped /\ reported = [status |-> "attached", hash |-> folder.hash] =>
      \/ asks \cap {"attach", "snapshot"} # {} \/ Reports
      \/ \A a \in folder.agents : actor[a] = "runtime_unconfigured" => ~Resolves(a)

AttachInv ==
    /\ AttachTypeOK /\ StagesInv /\ HashInv /\ UndisturbedInv /\ RowInv /\ BoundInv

Workers == [stage : {"idle", "listed", "import", "resolve", "register"},
            applies : BOOLEAN, listed : BOOLEAN, active : Hashes, hash : Hashes,
            agents : SUBSET Agents, at : Agents, auth : BOOLEAN]

LEMMA AttachNumbers ==
    /\ Hashes \subseteq Nat /\ 0 \in Hashes
    /\ \A h \in Nat : h <= MaxFolderEdits + 1 + MaxOwnerCalls => h \in Hashes
    /\ \A h \in Hashes : \A g \in Nat : g <= h => g \in Hashes
    /\ \A n \in 0..MaxOwnerCalls : n < MaxOwnerCalls => n + 1 \in 0..MaxOwnerCalls
    /\ \A n \in 0..MaxCallFaults : n < MaxCallFaults => n + 1 \in 0..MaxCallFaults
    /\ 0 \in 0..MaxOwnerCalls /\ 0 \in 0..MaxCallFaults
    /\ 0..MaxOwnerCalls \subseteq Nat
    /\ \A b : One(b) \in {0, 1}
BY AttachmentAssumption DEF Hashes, One

LEMMA Idle ==
    /\ IdleJob \in Workers /\ IdleJob.stage = "idle" /\ ~IdleJob.applies /\ ~IdleJob.listed
    /\ IdleJob.hash = 0 /\ IdleJob.active = 0
<1>1. (CHOOSE a \in Agents : TRUE) \in Agents
  BY AttachmentAssumption
<1> QED  BY <1>1, AttachNumbers DEF IdleJob, Workers

LEMMA ListedIs ==
    ASSUME AttachTypeOK, NEW j \in Jobs
    PROVE  /\ Listed(j) \in Workers /\ Listed(j).stage = "listed"
           /\ Listed(j).applies = (j = "apply") /\ Listed(j).listed = ws.there
           /\ Listed(j).hash = 0 /\ Listed(j).active = ws.hash
<1>1. ws.hash \in Hashes /\ ws.there \in BOOLEAN
  BY DEF AttachTypeOK
<1> QED  BY <1>1, Idle DEF Listed, Workers

LEMMA JobBecomes ==
    ASSUME AttachTypeOK, NEW j \in Jobs, NEW new \in Workers, job' = [job EXCEPT ![j] = new]
    PROVE  /\ job' \in [Jobs -> Workers] /\ job'[j] = new
           /\ \A k \in Jobs : k # j => job'[k] = job[k]
BY DEF AttachTypeOK, Workers

\* A report: the row takes it over, or had it already, or is not there.
LEMMA ReportGives ==
    ASSUME AttachTypeOK, RowInv, NEW status \in Statuses, NEW hash \in Hashes,
           ReportOnce(status, hash), status = "attached" => hash # 0
    PROVE  /\ ws' \in [there : BOOLEAN, status : Statuses, hash : Hashes]
           /\ reported' = [status |-> status, hash |-> hash]
           /\ reported' \in [status : Statuses \cup {"none"}, hash : Hashes]
           /\ stale' \in BOOLEAN /\ ws'.there = ws.there /\ ws'.hash \in {ws.hash, hash}
           /\ ~stale' /\ ws.there => ws'.status \in {status, "attached"}
           /\ ~stale' /\ ws.there /\ status = "attached" =>
                 ws'.hash # 0 /\ (ws'.hash = hash \/ ws' = ws)
<1>1. ws \in [there : BOOLEAN, status : Statuses, hash : Hashes] /\ stale \in BOOLEAN
      /\ reported \in [status : Statuses \cup {"none"}, hash : Hashes]
      /\ [status |-> status, hash |-> hash] \in [status : Statuses \cup {"none"}, hash : Hashes]
      /\ "none" \notin Statuses
  BY DEF AttachTypeOK, Statuses
<1>2. CASE reported = [status |-> status, hash |-> hash]
  BY <1>1, <1>2 DEF ReportOnce, RowInv
<1>3. CASE reported # [status |-> status, hash |-> hash]
  <2>1. reported' = [status |-> status, hash |-> hash] /\ stale' = ~ws.there
        /\ ws' = IF ws.there THEN [ws EXCEPT !.status = status, !.hash = HashAfter(status, hash)]
                 ELSE ws
    BY <1>3 DEF ReportOnce
  <2>2. HashAfter(status, hash) \in {ws.hash, hash} /\ HashAfter(status, hash) \in Hashes
        /\ (status = "attached" => HashAfter(status, hash) = hash)
    BY <1>1 DEF HashAfter
  <2> QED  BY <1>1, <2>1, <2>2
<1> QED  BY <1>2, <1>3

LEMMA AttachAtFirst == AttachInit => AttachInv
<1> SUFFICES ASSUME AttachInit PROVE AttachInv
  OBVIOUS
<1>1. \A j \in Jobs : job[j] = IdleJob /\ ~AtWork(j) /\ ~HasRead(j)
  BY Idle DEF AttachInit, AtWork, HasRead
<1>2. AttachTypeOK
  BY Idle, AttachNumbers DEF AttachInit, AttachTypeOK, Workers, Unregistered, NoReport, Statuses
<1>3. StagesInv
  <2>1. Recorded = {0}
    BY <1>1, Idle DEF Recorded, AttachInit, Unregistered, NoReport, Jobs
  <2> QED  BY <1>1, <2>1, Idle DEF StagesInv, AttachInit, Jobs
<1>4. HashInv
  <2>1. ToApply = 0
    BY <1>1, Idle DEF ToApply, One, AttachInit, Jobs
  <2> QED  BY <2>1, AttachmentAssumption DEF HashInv, AttachInit, One
<1>5. UndisturbedInv
  BY <1>1, Idle DEF UndisturbedInv, LeftAlone, AtWork
<1>6. RowInv /\ BoundInv
  BY DEF RowInv, BoundInv, AttachInit, Unregistered, NoReport
<1> QED  BY <1>2, <1>3, <1>4, <1>5, <1>6 DEF AttachInv

\* What the owner and the runtimes do to actors and bindings while the bridge is idle, or
\* without a part in what it has resolved.
LEMMA ActorsChange ==
    ASSUME AttachInv, UNCHANGED <<folder, ws, job, reported, dropped, stale, callFaults>>,
           actor' \in [Agents -> {"none", "idle", "runtime_unconfigured", "running", "retired"}],
           binding' \in [agents : SUBSET Agents, workspace : BOOLEAN, global : BOOLEAN],
           asks \subseteq asks', asks' \subseteq Notices,
           OwnerCall \/ (ownerCalls' = ownerCalls /\ asks' = asks),
           Disturbs \/ /\ overlap' = overlap /\ binding' = binding
                       /\ \A a \in Agents : actor'[a] = "runtime_unconfigured" =>
                                              actor[a] = "runtime_unconfigured",
           \/ "attach" \in asks'
           \/ \A a \in Agents : /\ actor'[a] = "runtime_unconfigured" =>
                                      actor[a] = "runtime_unconfigured"
                                /\ Resolves(a)' => Resolves(a)
    PROVE  AttachInv'
<1>1. /\ overlap' \in BOOLEAN /\ (~overlap' => ~overlap)
      /\ ~overlap' => \/ \A j \in Jobs : ~AtWork(j)
                      \/ /\ binding' = binding
                         /\ \A a \in Agents : actor'[a] = "runtime_unconfigured" =>
                                                actor[a] = "runtime_unconfigured"
  <2>1. overlap \in BOOLEAN
    BY DEF AttachInv, AttachTypeOK
  <2>2. CASE Disturbs
    BY <2>2 DEF Disturbs
  <2>3. CASE ~Disturbs
    BY <2>1, <2>3
  <2> QED  BY <2>2, <2>3
<1>2. ownerCalls' \in 0..MaxOwnerCalls
  BY AttachNumbers DEF OwnerCall, AttachInv, AttachTypeOK
<1>3. AttachTypeOK'
  BY <1>1, <1>2 DEF AttachInv, AttachTypeOK
<1>4. StagesInv'
  BY DEF AttachInv, StagesInv, Recorded, HasRead
<1>5. HashInv'
  <2> DEFINE f == folder.hash + One(~folder.made)
             b == One(job["apply"].stage = "listed" /\ job["apply"].applies)
             n == One("apply" \in asks)
             m == One("apply" \in asks')
  <2>1. f \in Nat /\ b \in {0, 1} /\ n \in {0, 1} /\ m \in {0, 1} /\ ownerCalls \in Nat
        /\ (f + (n + b) <= MaxFolderEdits + 1 + ownerCalls) /\ n + b <= ownerCalls
        /\ MaxFolderEdits \in Nat
    <3>1. folder.hash \in Nat /\ ownerCalls \in Nat /\ MaxFolderEdits \in Nat
      BY AttachNumbers, AttachmentAssumption DEF AttachInv, AttachTypeOK
    <3>2. /\ One(~folder.made) \in {0, 1} /\ b \in {0, 1} /\ n \in {0, 1} /\ m \in {0, 1}
      BY AttachNumbers
    <3>3. f + (n + b) <= MaxFolderEdits + 1 + ownerCalls /\ n + b <= ownerCalls
      BY DEF AttachInv, HashInv, ToApply
    <3> HIDE DEF b, n, m
    <3> QED  BY <3>1, <3>2, <3>3
  <2>2. f' = f /\ b' = b /\ n' = m
    OBVIOUS
  <2>3. ownerCalls' = ownerCalls + 1 \/ (ownerCalls' = ownerCalls /\ m = n)
    BY DEF OwnerCall
  <2>4. (HashInv' <=> f' + (n' + b') <= MaxFolderEdits + 1 + ownerCalls' /\ n' + b' <= ownerCalls')
    BY DEF HashInv, ToApply
  <2> HIDE DEF f, b, n, m
  <2> QED  BY <2>1, <2>2, <2>3, <2>4
<1>6. UndisturbedInv'
  <2> SUFFICES ASSUME ~overlap', NEW j \in Jobs, AtWork(j)
               PROVE  /\ job[j].listed => ws.there
                      /\ HasRead(j) => folder.there /\ folder.made /\ job[j].hash = folder.hash
                      /\ job[j].stage = "listed" /\ job[j].listed /\ ~job[j].applies /\ j # "snapshot" =>
                            ws.hash = job[j].active \/ (ws.hash = folder.hash /\ folder.made /\ folder.there)
                      /\ job[j].stage \in {"resolve", "register"} /\ ~job[j].applies =>
                            ws.hash \in {0, job[j].hash}
                      /\ job[j].stage = "register" => job[j].auth = Resolves(job[j].at)'
                      /\ HasRead(j) /\ j # "snapshot" => \A a \in folder.agents :
                            \/ a \in job[j].agents
                            \/ job[j].stage = "register" /\ job[j].at = a
                            \/ actor'[a] = "runtime_unconfigured" => ~Resolves(a)'
    BY DEF UndisturbedInv, LeftAlone, AtWork, HasRead
  <2>1. binding' = binding /\ folder.agents \subseteq Agents
        /\ \A a \in Agents : actor'[a] = "runtime_unconfigured" => actor[a] = "runtime_unconfigured"
    BY <1>1 DEF AttachInv, AttachTypeOK
  <2>2. \A a : Resolves(a)' = Resolves(a)
    BY <2>1 DEF Resolves
  <2>3. Resolves(job[j].at)' = Resolves(job[j].at)
    BY <2>1 DEF Resolves
  <2>4. ~overlap
    BY <1>1
  <2>5. HasRead(j) /\ j # "snapshot" => \A a \in folder.agents :
            \/ a \in job[j].agents
            \/ job[j].stage = "register" /\ job[j].at = a
            \/ actor'[a] = "runtime_unconfigured" => ~Resolves(a)'
    BY <2>1, <2>2, <2>4 DEF AttachInv, UndisturbedInv, LeftAlone
  <2> QED  BY <2>3, <2>4, <2>5 DEF AttachInv, UndisturbedInv, LeftAlone
<1>7. RowInv'
  BY <1>1 DEF AttachInv, RowInv, Reports, AtWork
<1>8. BoundInv'
  <2>1. Reports' = Reports
    BY DEF Reports, AtWork
  <2>2. folder.agents \subseteq Agents
    BY DEF AttachInv, AttachTypeOK
  <2>3. CASE "attach" \in asks'
    BY <2>3 DEF BoundInv
  <2>4. CASE \A a \in Agents : /\ actor'[a] = "runtime_unconfigured" =>
                                     actor[a] = "runtime_unconfigured"
                               /\ Resolves(a)' => Resolves(a)
    BY <1>1, <2>1, <2>2, <2>4 DEF AttachInv, BoundInv
  <2> QED  BY <2>3, <2>4
<1> QED  BY <1>3, <1>4, <1>5, <1>6, <1>7, <1>8 DEF AttachInv

LEMMA OwnerAtTheBus ==
    ASSUME AttachInv,
           \/ SelectWorkspace \/ BindWorkspace \/ ClearWorkspace
           \/ \E bound \in BOOLEAN : SetGlobal(bound)
           \/ \E note \in Notices : AskBridge(note)
           \/ \E a \in Agents : BindAgent(a) \/ ClearAgent(a) \/ RetireActor(a) \/ ActorRuns(a)
                                 \/ ActorRests(a)
    PROVE  AttachInv'
<1>1. /\ actor \in [Agents -> {"none", "idle", "runtime_unconfigured", "running", "retired"}]
      /\ binding \in [agents : SUBSET Agents, workspace : BOOLEAN, global : BOOLEAN]
      /\ asks \subseteq Notices /\ "attach" \in Notices
  BY DEF AttachInv, AttachTypeOK, Notices
<1>2. CASE SelectWorkspace
  BY <1>1, <1>2, ActorsChange DEF SelectWorkspace
<1>3. CASE BindWorkspace
  BY <1>1, <1>3, ActorsChange DEF BindWorkspace
<1>4. CASE ClearWorkspace
  BY <1>1, <1>4, ActorsChange DEF ClearWorkspace
<1>5. ASSUME NEW bound \in BOOLEAN, SetGlobal(bound) PROVE AttachInv'
  BY <1>1, <1>5, ActorsChange DEF SetGlobal
<1>6. ASSUME NEW note \in Notices, AskBridge(note) PROVE AttachInv'
  BY <1>1, <1>6, ActorsChange DEF AskBridge, Resolves
<1>7. ASSUME NEW a \in Agents, BindAgent(a) PROVE AttachInv'
  BY <1>1, <1>7, ActorsChange DEF BindAgent
<1>8. ASSUME NEW a \in Agents, ClearAgent(a) PROVE AttachInv'
  BY <1>1, <1>8, ActorsChange DEF ClearAgent
<1>9. ASSUME NEW a \in Agents, RetireActor(a) PROVE AttachInv'
  BY <1>1, <1>9, ActorsChange DEF RetireActor, Resolves
<1>10. ASSUME NEW a \in Agents, ActorRuns(a) \/ ActorRests(a) PROVE AttachInv'
  BY <1>1, <1>10, ActorsChange DEF ActorRuns, ActorRests, Resolves
<1> QED  BY <1>2, <1>3, <1>4, <1>5, <1>6, <1>7, <1>8, <1>9, <1>10

\* The sum of the hash inequality, told apart.
LEMMA HashParts ==
    ASSUME AttachInv
    PROVE  /\ folder.hash \in Nat /\ ownerCalls \in Nat /\ MaxFolderEdits \in Nat
           /\ One(~folder.made) \in {0, 1} /\ ToApply \in {0, 1, 2}
           /\ folder.hash + One(~folder.made) + ToApply <= MaxFolderEdits + 1 + ownerCalls
           /\ ToApply <= ownerCalls /\ ownerCalls <= MaxOwnerCalls
           /\ folder.hash \in Hashes /\ ws.hash \in Nat /\ reported.hash \in Nat
<1>1. folder.hash \in Nat /\ ownerCalls \in Nat /\ MaxFolderEdits \in Nat
      /\ ownerCalls \in 0..MaxOwnerCalls /\ MaxOwnerCalls \in Nat
      /\ folder.hash \in Hashes /\ ws.hash \in Nat /\ reported.hash \in Nat
  BY AttachNumbers, AttachmentAssumption DEF AttachInv, AttachTypeOK
<1>2. One(~folder.made) \in {0, 1} /\ One("apply" \in asks) \in {0, 1}
      /\ One(job["apply"].stage = "listed" /\ job["apply"].applies) \in {0, 1}
  BY AttachNumbers
<1>3. ToApply \in {0, 1, 2}
  BY <1>2 DEF ToApply
<1> QED  BY <1>1, <1>2, <1>3 DEF AttachInv, HashInv

LEMMA FolderIsEdited ==
    ASSUME AttachInv, NEW agents \in SUBSET Agents, NEW valid \in BOOLEAN,
           EditFolder(agents, valid)
    PROVE  AttachInv'
<1>1. /\ folder.made /\ folder.hash < MaxFolderEdits
      /\ folder' = [folder EXCEPT !.hash = @ + 1, !.agents = agents, !.valid = valid]
      /\ UNCHANGED <<ws, actor, binding, asks, job, reported, dropped, stale, ownerCalls, callFaults>>
      /\ overlap' = (overlap \/ \E j \in Jobs : AtWork(j))
  BY DEF EditFolder, Disturbs
<1>2. /\ folder \in [there : BOOLEAN, made : BOOLEAN, hash : Hashes, agents : SUBSET Agents,
                     valid : BOOLEAN]
      /\ folder.hash + 1 \in Hashes
  <2>1. folder.hash + 1 <= MaxFolderEdits + 1 + MaxOwnerCalls
    BY <1>1, HashParts, AttachmentAssumption
  <2> QED  BY <2>1, HashParts, AttachNumbers DEF AttachInv, AttachTypeOK
<1>3. /\ folder'.hash = folder.hash + 1 /\ folder'.made = folder.made
      /\ folder' \in [there : BOOLEAN, made : BOOLEAN, hash : Hashes, agents : SUBSET Agents,
                      valid : BOOLEAN]
  BY <1>1, <1>2
<1>4. AttachTypeOK'
  BY <1>1, <1>3 DEF AttachInv, AttachTypeOK
<1>5. /\ Recorded' = Recorded /\ Recorded \subseteq Nat
      /\ \A h \in Recorded : h <= folder.hash
  BY <1>1, AttachNumbers DEF AttachInv, AttachTypeOK, StagesInv, Recorded
<1>6. StagesInv'
  <2>1. \A h \in Recorded' : h <= folder'.hash
    BY <1>3, <1>5, HashParts
  <2>2. folder'.hash # 0
    BY <1>3, HashParts
  <2> QED  BY <1>1, <2>1, <2>2 DEF AttachInv, StagesInv, HasRead
<1>7. HashInv'
  <2>1. ToApply' = ToApply
    BY <1>1 DEF ToApply
  <2>2. One(~folder'.made) = 0
    BY <1>1, <1>3 DEF One
  <2> QED  BY <1>1, <1>3, <2>1, <2>2, HashParts DEF HashInv
<1>8. ~overlap' => ~overlap /\ \A j \in Jobs : ~AtWork(j) /\ ~AtWork(j)' /\ ~HasRead(j)'
  BY <1>1 DEF AtWork, HasRead
<1>9. UndisturbedInv'
  BY <1>1, <1>8 DEF UndisturbedInv, LeftAlone, AtWork
<1>10. RowInv'
  BY <1>1, <1>8 DEF AttachInv, RowInv, Reports, Jobs
<1>11. BoundInv'
  <2>1. reported.hash < folder'.hash
    <3>1. reported.hash \in Recorded
      BY DEF Recorded
    <3> QED  BY <1>3, <1>5, <3>1, HashParts
  <2>2. reported' # [status |-> "attached", hash |-> folder'.hash]
    BY <1>1, <1>3, <2>1, HashParts
  <2> QED  BY <2>2 DEF BoundInv
<1> QED  BY <1>4, <1>6, <1>7, <1>9, <1>10, <1>11 DEF AttachInv

\* The folder is removed, or the workspace with it or alone.
LEMMA WorkspaceGoes ==
    ASSUME AttachInv, RemoveFolder \/ \E locator \in BOOLEAN : DeleteWorkspace(locator)
    PROVE  AttachInv'
<1>1. /\ folder' \in {folder, [folder EXCEPT !.there = FALSE]}
      /\ UNCHANGED <<asks, job, reported, dropped, stale, callFaults>>
      /\ overlap' = (overlap \/ \E j \in Jobs : AtWork(j))
      /\ ownerCalls < MaxOwnerCalls /\ ownerCalls' = ownerCalls + 1
      /\ (UNCHANGED <<ws, actor, binding>> \/ (ws' = Unregistered /\ ~ws'.there))
      /\ ws' \in {ws, Unregistered}
      /\ actor' \in {actor, [a \in Agents |-> "none"]}
      /\ binding' \in {binding, [binding EXCEPT !.agents = {}, !.workspace = FALSE]}
  BY DEF RemoveFolder, DeleteWorkspace, Disturbs, OwnerCall, Unregistered
<1>2. /\ folder' \in [there : BOOLEAN, made : BOOLEAN, hash : Hashes, agents : SUBSET Agents,
                      valid : BOOLEAN]
      /\ folder'.hash = folder.hash /\ folder'.made = folder.made /\ folder'.agents = folder.agents
  BY <1>1 DEF AttachInv, AttachTypeOK
<1>3. AttachTypeOK'
  <2>1. Unregistered \in [there : BOOLEAN, status : Statuses, hash : Hashes]
    BY AttachNumbers DEF Unregistered, Statuses
  <2>2. ownerCalls' \in 0..MaxOwnerCalls
    BY <1>1, AttachNumbers DEF AttachInv, AttachTypeOK
  <2>3. binding' \in [agents : SUBSET Agents, workspace : BOOLEAN, global : BOOLEAN]
    BY <1>1 DEF AttachInv, AttachTypeOK
  <2>4. actor' \in [Agents -> {"none", "idle", "runtime_unconfigured", "running", "retired"}]
    BY <1>1 DEF AttachInv, AttachTypeOK
  <2> QED  BY <1>1, <1>2, <2>1, <2>2, <2>3, <2>4 DEF AttachInv, AttachTypeOK
<1>4. StagesInv'
  <2>1. ws'.hash \in {ws.hash, 0}
    BY <1>1 DEF Unregistered
  <2>2. \A h \in Recorded' : h \in Recorded \/ h = 0
    BY <1>1, <2>1 DEF Recorded
  <2>3. \A h \in Recorded' : h <= folder'.hash
    BY <1>2, <2>2, HashParts DEF AttachInv, StagesInv
  <2> QED  BY <1>1, <1>2, <2>3 DEF AttachInv, StagesInv, HasRead
<1>5. HashInv'
  <2>1. ToApply' = ToApply
    BY <1>1 DEF ToApply
  <2> QED  BY <1>1, <1>2, <2>1, HashParts DEF HashInv
<1>6. ~overlap' => ~overlap /\ \A j \in Jobs : ~AtWork(j) /\ ~AtWork(j)' /\ ~HasRead(j)'
  BY <1>1 DEF AtWork, HasRead
<1>7. UndisturbedInv'
  BY <1>1, <1>6 DEF UndisturbedInv, LeftAlone, AtWork
<1>8. RowInv'
  BY <1>1, <1>6 DEF AttachInv, RowInv, Reports, Jobs
<1>9. BoundInv'
  <2>1. CASE UNCHANGED <<ws, actor, binding>>
    <3>1. \A a : Resolves(a)' = Resolves(a)
      BY <2>1 DEF Resolves
    <3>2. Reports' = Reports
      BY <1>1 DEF Reports, AtWork
    <3> QED  BY <1>1, <1>2, <1>6, <2>1, <3>1, <3>2 DEF AttachInv, BoundInv
  <2>2. CASE ~ws'.there
    BY <2>2 DEF BoundInv
  <2> QED  BY <1>1, <2>1, <2>2
<1> QED  BY <1>3, <1>4, <1>5, <1>7, <1>8, <1>9 DEF AttachInv

LEMMA WorkspaceComes ==
    ASSUME AttachInv, RegisterWorkspace
    PROVE  AttachInv'
<1>1. /\ folder' = [folder EXCEPT !.there = TRUE, !.made = @ /\ folder.there]
      /\ ws' = IF ws.there THEN ws ELSE [Unregistered EXCEPT !.there = TRUE]
      /\ stale' = (stale \/ (~ws.there /\ reported # NoReport))
      /\ asks' = asks \cup {"attach"}
      /\ ownerCalls < MaxOwnerCalls /\ ownerCalls' = ownerCalls + 1
      /\ UNCHANGED <<actor, binding, job, reported, dropped, overlap, callFaults>>
  BY DEF RegisterWorkspace, OwnerCall
<1>2. /\ folder' \in [there : BOOLEAN, made : BOOLEAN, hash : Hashes, agents : SUBSET Agents,
                      valid : BOOLEAN]
      /\ folder'.hash = folder.hash /\ folder'.agents = folder.agents
      /\ (folder'.made => folder.made) /\ (folder.there /\ folder.made => folder'.made)
      /\ folder'.there
  BY <1>1 DEF AttachInv, AttachTypeOK
<1>3. /\ ws' \in [there : BOOLEAN, status : Statuses, hash : Hashes]
      /\ ws'.hash \in {ws.hash, 0} /\ (ws.there => ws' = ws)
      /\ ~ws.there => stale' \/ reported.status = "none"
  <2>1. /\ [Unregistered EXCEPT !.there = TRUE] \in [there : BOOLEAN, status : Statuses, hash : Hashes]
        /\ [Unregistered EXCEPT !.there = TRUE].hash = 0
    BY AttachNumbers DEF Unregistered, Statuses
  <2>2. reported = NoReport => reported.status = "none"
    BY DEF NoReport
  <2> QED  BY <1>1, <2>1, <2>2 DEF AttachInv, AttachTypeOK
<1>4. AttachTypeOK'
  <2>1. ownerCalls' \in 0..MaxOwnerCalls
    BY <1>1, AttachNumbers DEF AttachInv, AttachTypeOK
  <2>2. stale' \in BOOLEAN
    BY <1>1
  <2>3. asks' \subseteq Notices
    BY <1>1 DEF AttachInv, AttachTypeOK, Notices
  <2> QED  BY <1>1, <1>2, <1>3, <2>1, <2>2, <2>3 DEF AttachInv, AttachTypeOK
<1>5. StagesInv'
  <2>1. \A h \in Recorded' : h \in Recorded \/ h = 0
    BY <1>1, <1>3 DEF Recorded
  <2>2. \A h \in Recorded' : h <= folder'.hash
    BY <1>2, <2>1, HashParts DEF AttachInv, StagesInv
  <2> QED  BY <1>1, <1>2, <2>2 DEF AttachInv, StagesInv, HasRead
<1>6. HashInv'
  <2>1. ToApply' = ToApply
    BY <1>1 DEF ToApply
  <2>2. One(~folder'.made) \in {0, 1}
    BY AttachNumbers
  <2>3. folder.hash + 1 + ToApply <= MaxFolderEdits + 1 + (ownerCalls + 1)
    BY HashParts
  <2> QED  BY <1>1, <1>2, <2>1, <2>2, <2>3, HashParts DEF HashInv
<1>7. UndisturbedInv'
  <2> SUFFICES ASSUME ~overlap, NEW j \in Jobs
               PROVE  /\ AtWork(j) /\ job[j].listed => ws'.there
                      /\ HasRead(j) => folder'.there /\ folder'.made /\ job[j].hash = folder'.hash
                      /\ job[j].stage = "listed" /\ job[j].listed /\ ~job[j].applies /\ j # "snapshot" =>
                            ws'.hash = job[j].active \/ (ws'.hash = folder'.hash /\ folder'.made /\ folder'.there)
                      /\ job[j].stage \in {"resolve", "register"} /\ ~job[j].applies =>
                            ws'.hash \in {0, job[j].hash}
                      /\ job[j].stage = "register" => job[j].auth = Resolves(job[j].at)
                      /\ HasRead(j) /\ j # "snapshot" => \A a \in folder.agents :
                            \/ a \in job[j].agents
                            \/ job[j].stage = "register" /\ job[j].at = a
                            \/ actor[a] = "runtime_unconfigured" => ~Resolves(a)
    BY <1>1, <1>2 DEF UndisturbedInv, LeftAlone, AtWork, HasRead, Resolves
  <2>1. AtWork(j) /\ job[j].listed => ws.there /\ ws' = ws
    BY <1>3 DEF AttachInv, UndisturbedInv, LeftAlone
  <2>2. HasRead(j) => AtWork(j) /\ job[j].listed
    BY DEF AttachInv, StagesInv, HasRead, AtWork
  <2>3. job[j].stage = "listed" => AtWork(j)
    BY DEF AtWork
  <2>4. HasRead(j) => folder'.there /\ folder'.made /\ job[j].hash = folder'.hash
    BY <1>2 DEF AttachInv, UndisturbedInv, LeftAlone
  <2>5. job[j].stage = "listed" /\ job[j].listed /\ ~job[j].applies /\ j # "snapshot" =>
            ws'.hash = job[j].active \/ (ws'.hash = folder'.hash /\ folder'.made /\ folder'.there)
    BY <1>2, <2>1, <2>3 DEF AttachInv, UndisturbedInv, LeftAlone
  <2>6. job[j].stage \in {"resolve", "register"} /\ ~job[j].applies => ws'.hash \in {0, job[j].hash}
    BY <2>1, <2>2 DEF AttachInv, UndisturbedInv, LeftAlone, HasRead
  <2> QED  BY <2>1, <2>4, <2>5, <2>6 DEF AttachInv, UndisturbedInv, LeftAlone
<1>8. RowInv'
  <2>1. CASE ws.there
    <3>1. ws' = ws /\ (~stale' => ~stale) /\ Reports' = Reports
      BY <1>1, <1>3, <2>1 DEF Reports, AtWork
    <3> QED  BY <1>1, <1>2, <3>1 DEF AttachInv, RowInv, AtWork
  <2>2. CASE ~ws.there
    BY <1>1, <1>3, <2>2 DEF RowInv
  <2> QED  BY <2>1, <2>2
<1>9. BoundInv'
  BY <1>1 DEF BoundInv
<1> QED  BY <1>4, <1>5, <1>6, <1>7, <1>8, <1>9 DEF AttachInv

\* A job that is idle has nothing to be wrong about.
LEMMA IdleUndisturbed ==
    ASSUME NEW j \in Jobs, job'[j].stage = "idle"
    PROVE  LeftAlone(j)'
BY DEF LeftAlone, AtWork, HasRead

\* What the other jobs do to the row and to the actors does not disturb a job.
LEMMA OthersUndisturbed ==
    ASSUME AttachInv, NEW k \in Jobs, job'[k] = job[k], LeftAlone(k),
           folder' = folder, binding' = binding, ws'.there = ws.there,
           ws'.hash = ws.hash \/ (ws'.hash = folder.hash /\ folder.there /\ folder.made),
           \A a \in Agents : actor'[a] = "runtime_unconfigured" =>
                               actor[a] = "runtime_unconfigured" \/ ~Resolves(a)
    PROVE  LeftAlone(k)'
<1>1. \A a \in folder.agents : a \in Agents /\ Resolves(a)' = Resolves(a)
  BY DEF Resolves, AttachInv, AttachTypeOK
<1>2. Resolves(job[k].at)' = Resolves(job[k].at)
  BY DEF Resolves
<1>3. (HasRead(k)' <=> HasRead(k)) /\ (AtWork(k)' <=> AtWork(k))
  BY DEF HasRead, AtWork
<1>4. HasRead(k) /\ k # "snapshot" => \A a \in folder.agents :
          \/ a \in job[k].agents
          \/ job[k].stage = "register" /\ job[k].at = a
          \/ actor'[a] = "runtime_unconfigured" => ~Resolves(a)'
  BY <1>1 DEF LeftAlone
<1>5. job[k].stage \in {"resolve", "register"} /\ ~job[k].applies => ws'.hash \in {0, job[k].hash}
  BY DEF LeftAlone, HasRead
<1>6. job[k].stage = "listed" /\ job[k].listed /\ ~job[k].applies /\ k # "snapshot" =>
          ws'.hash = job[k].active \/ (ws'.hash = folder'.hash /\ folder'.made /\ folder'.there)
  BY DEF LeftAlone
<1>7. AtWork(k) /\ job[k].listed => ws'.there
  BY DEF LeftAlone
<1>8. HasRead(k) => folder'.there /\ folder'.made /\ job[k].hash = folder'.hash
  BY DEF LeftAlone
<1>9. job[k].stage = "register" => job[k].auth = Resolves(job[k].at)'
  BY <1>2 DEF LeftAlone
<1>10. /\ AtWork(k)' /\ job'[k].listed => ws'.there
       /\ HasRead(k)' => folder'.there /\ folder'.made /\ job'[k].hash = folder'.hash
       /\ job'[k].stage = "register" => job'[k].auth = Resolves(job[k].at)'
  BY <1>3, <1>7, <1>8, <1>9
<1>11. /\ job'[k].stage = "listed" /\ job'[k].listed /\ ~job'[k].applies /\ k # "snapshot" =>
             ws'.hash = job'[k].active \/ (ws'.hash = folder'.hash /\ folder'.made /\ folder'.there)
       /\ job'[k].stage \in {"resolve", "register"} /\ ~job'[k].applies => ws'.hash \in {0, job'[k].hash}
  BY <1>5, <1>6
<1>12. HasRead(k)' /\ k # "snapshot" => \A a \in folder'.agents :
           \/ a \in job'[k].agents
           \/ job'[k].stage = "register" /\ job'[k].at = a
           \/ actor'[a] = "runtime_unconfigured" => ~Resolves(a)'
  BY <1>3, <1>4
<1> QED  BY <1>10, <1>11, <1>12 DEF LeftAlone

\* The folder only grows: what a job writes counts on.
LEMMA FolderGrows ==
    ASSUME AttachInv
    PROVE  /\ Templated \in [there : BOOLEAN, made : BOOLEAN, hash : Hashes, agents : SUBSET Agents,
                             valid : BOOLEAN]
           /\ Templated.there = folder.there /\ Templated.made /\ Templated.hash # 0
           /\ Templated = folder \/ (~folder.made /\ Templated.hash = folder.hash + 1)
           /\ Materialized.there = folder.there /\ Materialized.made
           /\ Materialized = Templated \/ Materialized.hash = Templated.hash + 1
           /\ Materialized.agents \subseteq Agents /\ Materialized.valid \in BOOLEAN
<1>1. /\ folder \in [there : BOOLEAN, made : BOOLEAN, hash : Hashes, agents : SUBSET Agents,
                     valid : BOOLEAN]
      /\ Built \subseteq Agents /\ Saved \subseteq Agents
  BY AttachmentAssumption DEF AttachInv, AttachTypeOK
<1>2. ~folder.made => folder.hash + 1 \in Hashes
  <2>1. ~folder.made => One(~folder.made) = 1
    BY DEF One
  <2>2. ~folder.made => folder.hash + 1 <= MaxFolderEdits + 1 + MaxOwnerCalls
    BY <2>1, HashParts, AttachmentAssumption
  <2> QED  BY <2>2, HashParts, AttachNumbers
<1>3. /\ Templated \in [there : BOOLEAN, made : BOOLEAN, hash : Hashes, agents : SUBSET Agents,
                        valid : BOOLEAN]
      /\ Templated.there = folder.there /\ Templated.made
      /\ Templated = folder \/ (~folder.made /\ Templated.hash = folder.hash + 1)
  BY <1>1, <1>2 DEF Templated
<1>4. Templated.hash # 0
  <2>1. folder.made => Templated = folder /\ folder.hash # 0
    BY DEF Templated, AttachInv, StagesInv
  <2> QED  BY <1>3, <2>1, HashParts
<1>5. /\ Materialized.there = folder.there /\ Materialized.made
      /\ Materialized = Templated \/ Materialized.hash = Templated.hash + 1
      /\ Materialized.agents \subseteq Agents /\ Materialized.valid \in BOOLEAN
  <2> HIDE DEF Templated
  <2> QED  BY <1>1, <1>3 DEF Materialized
<1> QED  BY <1>3, <1>4, <1>5

\* A job ends with a report.
LEMMA JobReports ==
    ASSUME AttachInv, NEW j \in {"scan", "apply"}, AtWork(j), Ends(j),
           NEW status \in Statuses, NEW hash \in Hashes, ReportOnce(status, hash),
           folder' \in {folder, Templated}, hash <= folder'.hash,
           overlap' \in BOOLEAN,
           ~overlap' => ~overlap /\ (folder' = folder \/ \A k \in Jobs \ {j} : ~AtWork(k)),
           hash = 0 \/ (~overlap => hash = folder'.hash /\ folder'.there /\ folder'.made),
           status = "attached" =>
               /\ hash # 0 /\ folder' = folder /\ job[j].stage = "resolve" /\ ~job[j].applies
               /\ job[j].agents = {} /\ hash = job[j].hash,
           UNCHANGED <<actor, binding, asks, dropped, ownerCalls>>, callFaults' \in 0..MaxCallFaults
    PROVE  AttachInv'
<1>1. j \in Jobs /\ job' \in [Jobs -> Workers] /\ job'[j] = IdleJob
      /\ \A k \in Jobs : k # j => job'[k] = job[k]
  <2>1. AttachTypeOK /\ job' = [job EXCEPT ![j] = IdleJob] /\ j \in Jobs
    BY DEF AttachInv, Ends, Jobs
  <2> QED  BY <2>1, Idle, JobBecomes
<1>2. /\ ws' \in [there : BOOLEAN, status : Statuses, hash : Hashes]
      /\ reported' = [status |-> status, hash |-> hash]
      /\ reported' \in [status : Statuses \cup {"none"}, hash : Hashes]
      /\ stale' \in BOOLEAN /\ ws'.there = ws.there /\ ws'.hash \in {ws.hash, hash}
      /\ ~stale' /\ ws.there => ws'.status \in {status, "attached"}
      /\ ~stale' /\ ws.there /\ status = "attached" =>
            ws'.hash # 0 /\ (ws'.hash = hash \/ ws' = ws)
  BY ReportGives DEF AttachInv
<1>3. /\ folder' \in [there : BOOLEAN, made : BOOLEAN, hash : Hashes, agents : SUBSET Agents,
                      valid : BOOLEAN]
      /\ folder' = folder \/ (~folder.made /\ folder'.made /\ folder'.hash = folder.hash + 1)
      /\ folder'.made => folder'.hash # 0
  <2>1. folder.made => folder.hash # 0
    BY DEF AttachInv, StagesInv
  <2>2. folder \in [there : BOOLEAN, made : BOOLEAN, hash : Hashes, agents : SUBSET Agents,
                    valid : BOOLEAN]
    BY DEF AttachInv, AttachTypeOK
  <2> HIDE DEF Templated
  <2> QED  BY <2>1, <2>2, FolderGrows
<1>4. AttachTypeOK'
  <2>1. job' \in [Jobs -> Workers]
    BY <1>1
  <2> QED  BY <1>2, <1>3, <2>1 DEF AttachInv, AttachTypeOK, Workers
<1>5. StagesInv'
  <2>1. \A h \in Recorded' : h \in Recorded \/ h \in {0, hash}
    BY <1>1, <1>2, Idle DEF Recorded
  <2>2. \A h \in Recorded : h \in Nat /\ h <= folder.hash
    BY AttachNumbers DEF AttachInv, AttachTypeOK, StagesInv, Recorded
  <2>3. hash \in Nat /\ folder.hash \in Nat
    BY HashParts, AttachNumbers
  <2>4. \A h \in Recorded' : h <= folder'.hash
    BY <1>3, <2>1, <2>2, <2>3
  <2>5. job["snapshot"].stage \in {"idle", "listed", "import"} /\ "snapshot" \in Jobs
    BY DEF AttachInv, StagesInv, Jobs
  <2>6. \A k \in Jobs : (HasRead(k)' => job'[k].hash # 0 /\ job'[k].listed)
                        /\ (job'[k].applies => k = "apply")
    BY <1>1, Idle DEF AttachInv, StagesInv, HasRead
  <2>7. job'["snapshot"].stage \in {"idle", "listed", "import"}
    BY <1>1, <2>5
  <2> QED  BY <1>3, <2>4, <2>6, <2>7 DEF StagesInv
<1>6. HashInv'
  <2>1. ToApply' <= ToApply /\ ToApply' \in Nat
    <3> DEFINE b == One(job["apply"].stage = "listed" /\ job["apply"].applies)
               c == One(job'["apply"].stage = "listed" /\ job'["apply"].applies)
               n == One("apply" \in asks)
    <3>1. c <= b
      BY <1>1, Idle DEF One, Jobs
    <3>2. b \in {0, 1} /\ c \in {0, 1} /\ n \in {0, 1}
      BY AttachNumbers
    <3>3. ToApply = n + b /\ ToApply' = n + c
      BY DEF ToApply
    <3> HIDE DEF b, c, n
    <3> QED  BY <3>1, <3>2, <3>3
  <2>2. folder'.hash + One(~folder'.made) = folder.hash + One(~folder.made)
    BY <1>3, HashParts DEF One
  <2>3. folder'.hash \in Nat /\ One(~folder'.made) \in {0, 1}
    BY <1>3, AttachNumbers
  <2> QED  BY <2>1, <2>2, <2>3, HashParts DEF HashInv
<1>7. UndisturbedInv'
  <2> SUFFICES ASSUME ~overlap', NEW k \in Jobs PROVE LeftAlone(k)'
    BY DEF UndisturbedInv
  <2>1. CASE k = j
    BY <1>1, <2>1, Idle, IdleUndisturbed
  <2>2. CASE k # j /\ folder' = folder
    <3>1. LeftAlone(k)
      BY DEF AttachInv, UndisturbedInv
    <3>2. ws'.hash = ws.hash \/ (ws'.hash = folder.hash /\ folder.there /\ folder.made) \/ ws'.hash = 0
      BY <1>2, <2>2
    <3>3. hash = 0 => ws'.hash = ws.hash
      BY DEF ReportOnce, HashAfter, AttachInv, AttachTypeOK
    <3>4. ws'.hash = ws.hash \/ (ws'.hash = folder.hash /\ folder.there /\ folder.made)
      BY <1>2, <2>2, <3>3
    <3> QED  BY <1>1, <1>2, <2>2, <3>1, <3>4, OthersUndisturbed
  <2>3. CASE k # j /\ ~AtWork(k)
    BY <1>1, <2>3, IdleUndisturbed DEF AtWork
  <2> QED  BY <2>1, <2>2, <2>3
<1>8. RowInv'
  <2>1. ASSUME ~overlap', ~stale', ws.there, status = "attached"
        PROVE  ws'.hash = hash /\ hash = folder'.hash
    <3>1. LeftAlone(j) /\ HasRead(j) /\ ws.hash \in {0, job[j].hash}
      BY <1>1, <2>1 DEF AttachInv, UndisturbedInv, LeftAlone, HasRead
    <3> QED  BY <1>2, <2>1, <3>1 DEF LeftAlone
  <2>2. ~stale' /\ ws'.there /\ reported'.status # "none" =>
            /\ ws'.status \in {reported'.status, "attached"}
            /\ reported'.status = "attached" => ws'.hash # 0
    BY <1>2
  <2> QED  BY <1>2, <2>1, <2>2 DEF RowInv
<1>9. BoundInv'
  <2> SUFFICES ASSUME ~overlap', reported' = [status |-> "attached", hash |-> folder'.hash]
               PROVE  \A a \in folder'.agents : actor'[a] = "runtime_unconfigured" => ~Resolves(a)'
    BY DEF BoundInv
  <2>1. status = "attached"
    BY <1>2
  <2>2. LeftAlone(j) /\ HasRead(j) /\ j # "snapshot"
    BY <1>1, <2>1 DEF AttachInv, UndisturbedInv, HasRead
  <2>3. \A a \in folder.agents : actor[a] = "runtime_unconfigured" => ~Resolves(a)
    BY <2>1, <2>2 DEF LeftAlone
  <2> QED  BY <2>1, <2>3 DEF Resolves
<1> QED  BY <1>4, <1>5, <1>6, <1>7, <1>8, <1>9 DEF AttachInv

\* What the application is yet to add does not grow when it does not begin.
LEMMA ApplyKeepsHash ==
    ASSUME AttachInv, asks' \subseteq asks, ownerCalls' = ownerCalls,
           One(job'["apply"].stage = "listed" /\ job'["apply"].applies)
             <= One(job["apply"].stage = "listed" /\ job["apply"].applies),
           \/ folder'.hash = folder.hash /\ folder'.made = folder.made
           \/ ~folder.made /\ folder'.hash = folder.hash + 1 /\ folder'.made
    PROVE  HashInv'
<1> DEFINE b == One(job["apply"].stage = "listed" /\ job["apply"].applies)
           c == One(job'["apply"].stage = "listed" /\ job'["apply"].applies)
           n == One("apply" \in asks)
           m == One("apply" \in asks')
           g == One(~folder'.made)
<1>1. c <= b /\ m <= n
  BY DEF One
<1>2. b \in {0, 1} /\ c \in {0, 1} /\ n \in {0, 1} /\ m \in {0, 1} /\ g \in {0, 1}
  BY AttachNumbers
<1>3. ToApply = n + b /\ ToApply' = m + c
  BY DEF ToApply
<1>4. folder'.hash + g = folder.hash + One(~folder.made) /\ folder'.hash \in Nat
  BY HashParts DEF One
<1>5. HashInv' <=> folder'.hash + g + ToApply' <= MaxFolderEdits + 1 + ownerCalls'
                   /\ ToApply' <= ownerCalls'
  BY DEF HashInv
<1> HIDE DEF b, c, n, m, g
<1> QED  BY <1>1, <1>2, <1>3, <1>4, <1>5, HashParts

\* A job that ends reports, or is the snapshot's, or never had a workspace.
LEMMA JobMoves ==
    ASSUME AttachInv, NEW j \in Jobs, NEW new \in Workers, job' = [job EXCEPT ![j] = new],
           UNCHANGED <<folder, ws, binding, asks, reported, dropped, stale, overlap, ownerCalls,
                       callFaults>>,
           actor' \in [Agents -> {"none", "idle", "runtime_unconfigured", "running", "retired"}],
           ~overlap => \A a \in Agents : actor'[a] = "runtime_unconfigured" =>
                                           actor[a] = "runtime_unconfigured" \/ ~Resolves(a),
           new.hash <= folder.hash, new.active <= folder.hash,
           new.stage \in {"import", "resolve", "register"} => new.hash # 0 /\ new.listed,
           new.applies => j = "apply",
           j = "snapshot" => new.stage \in {"idle", "listed", "import"},
           ~(new.stage = "listed" /\ new.applies),
           j # "snapshot" /\ job[j].listed => new.stage # "idle" /\ new.listed,
           AtWork(j), ~overlap => LeftAlone(j)'
    PROVE  AttachInv'
<1>1. job' \in [Jobs -> Workers] /\ job'[j] = new /\ \A k \in Jobs : k # j => job'[k] = job[k]
  BY JobBecomes DEF AttachInv
<1>2. AttachTypeOK'
  BY <1>1 DEF AttachInv, AttachTypeOK, Workers
<1>3. StagesInv'
  <2>1. \A h \in Recorded' : h \in Recorded \/ h \in {new.hash, new.active}
    BY <1>1 DEF Recorded
  <2>2. \A h \in Recorded' : h <= folder'.hash
    BY <2>1 DEF AttachInv, StagesInv
  <2>3. \A k \in Jobs : (HasRead(k)' => job'[k].hash # 0 /\ job'[k].listed)
                        /\ (job'[k].applies => k = "apply")
    BY <1>1 DEF AttachInv, StagesInv, HasRead
  <2>4. job'["snapshot"].stage \in {"idle", "listed", "import"}
    <3>1. "snapshot" \in Jobs
      BY DEF Jobs
    <3> QED  BY <1>1, <3>1 DEF AttachInv, StagesInv
  <2> QED  BY <2>2, <2>3, <2>4 DEF AttachInv, StagesInv
<1>4. HashInv'
  <2>1. One(job'["apply"].stage = "listed" /\ job'["apply"].applies)
          <= One(job["apply"].stage = "listed" /\ job["apply"].applies)
    BY <1>1 DEF One, Jobs
  <2> QED  BY <2>1, ApplyKeepsHash
<1>5. UndisturbedInv'
  <2> SUFFICES ASSUME ~overlap, NEW k \in Jobs, k # j PROVE LeftAlone(k)'
    BY DEF UndisturbedInv
  <2>1. LeftAlone(k)
    BY DEF AttachInv, UndisturbedInv
  <2> QED  BY <1>1, <2>1, OthersUndisturbed
<1>6. /\ Reports => Reports'
      /\ \A k \in Jobs : AtWork(k)' => AtWork(k)
  BY <1>1 DEF Reports, AtWork, Jobs
<1>7. RowInv'
  BY <1>6 DEF AttachInv, RowInv, Jobs
<1>8. BoundInv'
  <2>1. \A a \in folder.agents : a \in Agents /\ (Resolves(a)' <=> Resolves(a))
    BY DEF Resolves, AttachInv, AttachTypeOK
  <2> QED  BY <1>6, <2>1 DEF AttachInv, BoundInv
<1> QED  BY <1>2, <1>3, <1>4, <1>5, <1>7, <1>8 DEF AttachInv

LEMMA JobTypes ==
    ASSUME AttachInv, NEW j \in Jobs
    PROVE  /\ job[j] \in Workers /\ job[j].hash <= folder.hash /\ job[j].active <= folder.hash
           /\ HasRead(j) => job[j].hash # 0 /\ job[j].listed /\ AtWork(j)
           /\ job[j].applies => j = "apply"
           /\ job[j].stage \in {"resolve", "register"} => j # "snapshot"
<1>1. job[j] \in Workers
  BY DEF AttachInv, AttachTypeOK, Workers
<1>2. job[j].hash \in Recorded /\ job[j].active \in Recorded
  BY DEF Recorded
<1>3. HasRead(j) => AtWork(j)
  BY DEF HasRead, AtWork
<1> QED  BY <1>1, <1>2, <1>3 DEF AttachInv, StagesInv

LEMMA ActorIsResolved ==
    ASSUME AttachInv, NEW j \in Jobs, NEW a \in Agents, ResolveActor(j, a)
    PROVE  AttachInv'
<1> DEFINE new == [job[j] EXCEPT !.stage = "register", !.at = a, !.agents = @ \ {a},
                                 !.auth = Resolves(a)]
<1>1. /\ job[j].stage = "resolve" /\ a \in job[j].agents /\ HasRead(j) /\ AtWork(j)
      /\ job' = [job EXCEPT ![j] = new]
      /\ UNCHANGED <<folder, ws, actor, binding, asks, reported, dropped, stale, overlap, ownerCalls,
                     callFaults>>
  <2>1. job' = [job EXCEPT ![j] = new]
    BY DEF ResolveActor, AttachInv, AttachTypeOK
  <2>2. /\ job[j].stage = "resolve" /\ a \in job[j].agents
        /\ UNCHANGED <<folder, ws, actor, binding, asks, reported, dropped, stale, overlap, ownerCalls,
                       callFaults>>
    BY DEF ResolveActor
  <2> QED  BY <2>1, <2>2 DEF HasRead, AtWork
<1>2. Resolves(a) \in BOOLEAN
  BY DEF Resolves, AttachInv, AttachTypeOK
<1>3. /\ new \in Workers /\ new.stage = "register" /\ new.at = a /\ new.agents = job[j].agents \ {a}
      /\ new.auth = Resolves(a) /\ new.hash = job[j].hash /\ new.active = job[j].active
      /\ new.listed = job[j].listed /\ new.applies = job[j].applies
  BY <1>2, JobTypes DEF Workers
<1>4. ASSUME ~overlap PROVE LeftAlone(j)'
  <2>1. job'[j] = new /\ LeftAlone(j)
    BY <1>1, <1>3, <1>4, JobBecomes DEF AttachInv, UndisturbedInv
  <2>2. \A b : Resolves(b)' = Resolves(b)
    BY <1>1 DEF Resolves
  <2> HIDE DEF new
  <2>3. job'[j].auth = Resolves(job[j].at)'
    BY <1>1, <1>3, <2>1 DEF Resolves
  <2> QED  BY <1>1, <1>3, <2>1, <2>2, <2>3 DEF LeftAlone, HasRead, AtWork
<1>5. actor' \in [Agents -> {"none", "idle", "runtime_unconfigured", "running", "retired"}]
  BY <1>1 DEF AttachInv, AttachTypeOK
<1> HIDE DEF new
<1> QED  BY <1>1, <1>3, <1>4, <1>5, JobTypes, JobMoves

LEMMA ActorIsRegistered ==
    ASSUME AttachInv, NEW j \in Jobs, RegisterActor(j)
    PROVE  AttachInv'
<1> DEFINE new == [job[j] EXCEPT !.stage = "resolve"]
           at == job[j].at
<1>1. /\ job[j].stage = "register" /\ HasRead(j) /\ AtWork(j) /\ at \in Agents
      /\ job' = [job EXCEPT ![j] = new]
      /\ actor' = [actor EXCEPT ![at] = IF job[j].auth THEN "idle" ELSE "runtime_unconfigured"]
      /\ UNCHANGED <<folder, ws, binding, asks, reported, dropped, stale, overlap, ownerCalls,
                     callFaults>>
  BY DEF RegisterActor, StageOf, HasRead, AtWork, AttachInv, AttachTypeOK
<1>2. /\ new \in Workers /\ new.stage = "resolve" /\ new.agents = job[j].agents
      /\ new.hash = job[j].hash /\ new.active = job[j].active
      /\ new.listed = job[j].listed /\ new.applies = job[j].applies
  BY JobTypes DEF Workers
<1>3. /\ actor' \in [Agents -> {"none", "idle", "runtime_unconfigured", "running", "retired"}]
      /\ ~overlap => \A a \in Agents : actor'[a] = "runtime_unconfigured" =>
             ~Resolves(a) \/ (a # at /\ actor[a] = "runtime_unconfigured")
  <2>1. ~overlap => job[j].auth = Resolves(at)
    BY <1>1 DEF AttachInv, UndisturbedInv, LeftAlone
  <2> QED  BY <1>1, <2>1 DEF AttachInv, AttachTypeOK
<1>4. ASSUME ~overlap PROVE LeftAlone(j)'
  <2>1. job'[j] = new /\ LeftAlone(j) /\ folder.agents \subseteq Agents /\ j # "snapshot"
    BY <1>1, <1>2, <1>4, JobBecomes, JobTypes DEF AttachInv, UndisturbedInv, AttachTypeOK
  <2>2. \A a \in folder.agents : (Resolves(a)' <=> Resolves(a))
    BY <1>1 DEF Resolves
  <2>3. \A a \in folder'.agents : \/ a \in job'[j].agents
                                  \/ actor'[a] = "runtime_unconfigured" => ~Resolves(a)'
    <3> HIDE DEF new
    <3> QED  BY <1>1, <1>2, <1>3, <1>4, <2>1, <2>2 DEF LeftAlone
  <2> HIDE DEF new
  <2> QED  BY <1>1, <1>2, <2>1, <2>3 DEF LeftAlone, HasRead, AtWork
<1> HIDE DEF new
<1> QED  BY <1>1, <1>2, <1>3, <1>4, JobTypes, JobMoves

\* The workspace is gone from the list, or the snapshot has nothing to read or has read it.
LEMMA JobEndsQuietly ==
    ASSUME AttachInv, NEW j \in Jobs, AtWork(j), Ends(j), j = "snapshot" \/ ~job[j].listed,
           UNCHANGED <<folder, ws, actor, binding, asks, reported, dropped, stale, overlap,
                       ownerCalls, callFaults>>
    PROVE  AttachInv'
<1>1. job' = [job EXCEPT ![j] = IdleJob] /\ folder.hash \in Nat
  BY HashParts DEF Ends
<1>2. LeftAlone(j)'
  <2>1. job'[j] = IdleJob
    BY <1>1, Idle, JobBecomes DEF AttachInv
  <2> QED  BY <2>1, Idle, IdleUndisturbed
<1>3. actor' \in [Agents -> {"none", "idle", "runtime_unconfigured", "running", "retired"}]
  BY DEF AttachInv, AttachTypeOK
<1>4. /\ IdleJob.hash <= folder.hash /\ IdleJob.active <= folder.hash
      /\ IdleJob.stage \notin {"import", "resolve", "register", "listed"}
      /\ ~(j # "snapshot" /\ job[j].listed) /\ ~IdleJob.applies /\ IdleJob \in Workers
      /\ IdleJob.stage \in {"idle", "listed", "import"}
  BY <1>1, Idle
<1> QED  BY <1>1, <1>2, <1>3, <1>4, JobMoves

LEMMA SnapshotIsRead ==
    ASSUME AttachInv, ReadSnapshot
    PROVE  AttachInv'
<1>1. "snapshot" \in Jobs /\ AtWork("snapshot")
  BY DEF ReadSnapshot, AtWork, Jobs
<1>2. CASE Ends("snapshot")
  BY <1>1, <1>2, JobEndsQuietly DEF ReadSnapshot
<1>3. CASE ~Ends("snapshot")
  <2> DEFINE new == [job["snapshot"] EXCEPT !.stage = "import", !.hash = folder.hash]
  <2>1. /\ job["snapshot"].listed /\ folder.there /\ folder.made /\ job' = [job EXCEPT !["snapshot"] = new]
        /\ UNCHANGED <<folder, ws, actor, binding, asks, reported, dropped, stale, overlap, ownerCalls,
                       callFaults>>
    BY <1>1, <1>3 DEF ReadSnapshot, AttachInv, AttachTypeOK
  <2>2. folder.hash \in Hashes /\ folder.hash # 0 /\ folder.hash \in Nat
    BY <2>1, HashParts DEF AttachInv, StagesInv
  <2>3. /\ new \in Workers /\ new.stage = "import" /\ new.hash = folder.hash
        /\ new.active = job["snapshot"].active /\ new.listed /\ ~new.applies
    BY <1>1, <2>1, <2>2, JobTypes DEF Workers
  <2>4. ASSUME ~overlap PROVE LeftAlone("snapshot")'
    <3>1. job'["snapshot"] = new /\ LeftAlone("snapshot")
      BY <1>1, <2>1, <2>3, <2>4, JobBecomes DEF AttachInv, UndisturbedInv
    <3> HIDE DEF new
    <3> QED  BY <1>1, <2>1, <2>3, <3>1 DEF LeftAlone, HasRead, AtWork
  <2>5. actor' \in [Agents -> {"none", "idle", "runtime_unconfigured", "running", "retired"}]
    BY <2>1 DEF AttachInv, AttachTypeOK
  <2> HIDE DEF new
  <2>6. /\ new.hash <= folder.hash /\ new.active <= folder.hash
        /\ new.stage \notin {"resolve", "register", "listed", "idle"}
    BY <1>1, <2>2, <2>3, JobTypes
  <2> QED  BY <1>1, <2>1, <2>2, <2>3, <2>4, <2>5, <2>6, JobMoves
<1> QED  BY <1>2, <1>3

LEMMA RecordedNumbers == AttachInv => \A h \in Recorded : h \in Nat /\ h <= folder.hash
<1> SUFFICES ASSUME AttachInv, NEW h \in Recorded PROVE h \in Nat /\ h <= folder.hash
  OBVIOUS
<1>1. \A j \in Jobs : job[j].hash \in Nat /\ job[j].active \in Nat
  BY JobTypes, AttachNumbers DEF Workers
<1>2. ws.hash \in Nat /\ reported.hash \in Nat
  BY HashParts
<1> QED  BY <1>1, <1>2 DEF Recorded, AttachInv, StagesInv

\* A scan or an application has read the folder, and goes on with what it read.
LEMMA FolderIsRead ==
    ASSUME AttachInv, NEW j \in {"scan", "apply"}, AtWork(j), job[j].listed, NEW new \in Workers,
           job' = [job EXCEPT ![j] = new],
           \/ folder' = Templated /\ ~job[j].applies
           \/ folder' = Materialized /\ j = "apply" /\ job[j].stage = "listed" /\ job[j].applies,
           job[j].stage = "listed",
           folder.there, Rewrites(j),
           UNCHANGED <<ws, actor, binding, asks, reported, dropped, stale, ownerCalls, callFaults>>,
           new.listed, new.applies = job[j].applies, new.stage \in {"import", "resolve"},
           new.hash = folder'.hash, new.agents = folder'.agents, new.active = job[j].active,
           ~new.applies /\ new.stage = "resolve" => new.active \in {0, new.hash}
    PROVE  AttachInv'
<1>1. /\ j \in Jobs /\ job' \in [Jobs -> Workers] /\ job'[j] = new
      /\ \A k \in Jobs : k # j => job'[k] = job[k]
  <2>1. j \in Jobs
    BY DEF Jobs
  <2> QED  BY <2>1, JobBecomes DEF AttachInv
<1>2. /\ folder' \in [there : BOOLEAN, made : BOOLEAN, hash : Hashes, agents : SUBSET Agents,
                      valid : BOOLEAN]
      /\ folder'.there /\ folder'.made /\ folder'.hash # 0
      /\ \/ folder' = folder
         \/ folder'.hash > folder.hash
      /\ folder.hash + One(~folder.made) + (IF job[j].applies THEN 1 ELSE 0)
            >= folder'.hash
  <2>1. /\ Templated \in [there : BOOLEAN, made : BOOLEAN, hash : Hashes, agents : SUBSET Agents,
                          valid : BOOLEAN]
        /\ Templated.there = folder.there /\ Templated.made /\ Templated.hash # 0
        /\ Templated = folder \/ (~folder.made /\ Templated.hash = folder.hash + 1)
        /\ folder.hash \in Nat /\ Templated.hash \in Nat
    BY FolderGrows, HashParts, AttachNumbers
  <2>2. One(~folder.made) \in {0, 1} /\ (~folder.made => One(~folder.made) = 1)
    BY DEF One
  <2>3. CASE folder' = Templated /\ ~job[j].applies
    <3>1. folder' = folder \/ (~folder.made /\ folder'.hash = folder.hash + 1)
      BY <2>1, <2>3
    <3>2. folder'.hash <= folder.hash + One(~folder.made) + (IF job[j].applies THEN 1 ELSE 0)
      BY <2>1, <2>2, <2>3, <3>1
    <3>3. folder' = folder \/ folder'.hash > folder.hash
      BY <2>1, <2>3, <3>1
    <3>4. folder.hash + One(~folder.made) + (IF job[j].applies THEN 1 ELSE 0) \in Nat
      BY <2>1, <2>2, <2>3
    <3>5. folder.hash + One(~folder.made) + (IF job[j].applies THEN 1 ELSE 0) >= folder'.hash
      <4> DEFINE n == folder.hash + One(~folder.made) + (IF job[j].applies THEN 1 ELSE 0)
      <4>1. n \in Nat /\ folder'.hash \in Nat /\ folder'.hash <= n
        BY <2>1, <2>3, <3>2, <3>4
      <4> HIDE DEF n
      <4>2. n >= folder'.hash
        BY <4>1
      <4> QED  BY <4>2 DEF n
    <3> HIDE DEF Templated
    <3> QED  BY <2>1, <2>3, <3>3, <3>5
  <2>4. CASE folder' = Materialized /\ j = "apply" /\ job[j].stage = "listed" /\ job[j].applies
    <3>1. /\ folder' = Templated \/ folder'.hash = Templated.hash + 1
          /\ folder'.there = folder.there /\ folder'.made
          /\ folder'.agents \subseteq Agents /\ folder'.valid \in BOOLEAN
      BY <2>4, FolderGrows
    <3>2. folder'.hash <= folder.hash + One(~folder.made) + 1 /\ folder'.hash \in Nat
      <4> HIDE DEF Templated
      <4> QED  BY <2>1, <2>2, <3>1
    <3>3. folder'.hash \in Hashes
      <4>1. ToApply >= 1
        <5>1. One(job["apply"].stage = "listed" /\ job["apply"].applies) = 1
          BY <2>4 DEF One
        <5>2. One("apply" \in asks) \in {0, 1}
          BY AttachNumbers
        <5> QED  BY <5>1, <5>2 DEF ToApply
      <4>2. folder'.hash <= MaxFolderEdits + 1 + MaxOwnerCalls
        BY <3>2, <4>1, HashParts, AttachmentAssumption
      <4> QED  BY <3>2, <4>2, AttachNumbers
    <3>4. folder' \in [there : BOOLEAN, made : BOOLEAN, hash : Hashes, agents : SUBSET Agents,
                       valid : BOOLEAN]
      <4>1. Materialized \in [there : BOOLEAN, made : BOOLEAN, hash : Hashes, agents : SUBSET Agents,
                              valid : BOOLEAN]
        <5> HIDE DEF Templated
        <5> QED  BY <2>1, <2>4, <3>3, AttachmentAssumption DEF Materialized
      <4> QED  BY <2>4, <4>1
    <3>5. folder'.hash # 0 /\ (folder' = folder \/ folder'.hash > folder.hash)
      <4> HIDE DEF Templated
      <4> QED  BY <2>1, <3>1
    <3> QED  BY <2>4, <3>1, <3>2, <3>4, <3>5
  <2> QED  BY <2>3, <2>4
<1>3. /\ overlap' \in BOOLEAN
      /\ ~overlap' => ~overlap /\ (folder' = folder \/ \A k \in Jobs : k # j => ~AtWork(k))
  BY DEF Rewrites, AttachInv, AttachTypeOK
<1>4. AttachTypeOK'
  <2>1. {dropped, stale, overlap'} \subseteq BOOLEAN
    BY <1>3 DEF AttachInv, AttachTypeOK
  <2> QED  BY <1>1, <1>2, <2>1 DEF AttachInv, AttachTypeOK, Workers
<1>5. StagesInv'
  <2>1. \A h \in Recorded' : h \in Recorded \/ h = folder'.hash
    BY <1>1 DEF Recorded
  <2>2. \A h \in Recorded : h \in Nat /\ h <= folder.hash
    BY RecordedNumbers
  <2>3. folder'.hash \in Nat
    BY <1>2, AttachNumbers
  <2>4. \A h \in Recorded' : h <= folder'.hash
    BY <1>2, <2>1, <2>2, <2>3, HashParts
  <2>5. \A k \in Jobs : (HasRead(k)' => job'[k].hash # 0 /\ job'[k].listed)
                        /\ (job'[k].applies => k = "apply")
    BY <1>1, <1>2 DEF AttachInv, StagesInv, HasRead
  <2>6. job'["snapshot"].stage \in {"idle", "listed", "import"}
    BY <1>1 DEF Jobs, AttachInv, StagesInv
  <2> QED  BY <1>2, <2>4, <2>5, <2>6 DEF StagesInv
<1>6. HashInv'
  <2> DEFINE b == One(job["apply"].stage = "listed" /\ job["apply"].applies)
             c == One(job'["apply"].stage = "listed" /\ job'["apply"].applies)
             n == One("apply" \in asks)
  <2>1. c + (IF job[j].applies THEN 1 ELSE 0) <= b /\ b \in {0, 1} /\ c \in {0, 1} /\ n \in {0, 1}
    <3>1. CASE job[j].applies
      <4>1. j = "apply"
        BY <1>1, <3>1, JobTypes
      <4> QED  BY <1>1, <3>1, <4>1 DEF One
    <3>2. CASE ~job[j].applies
      BY <1>1, <3>2 DEF One, Jobs
    <3> QED  BY <3>1, <3>2
  <2>2. ToApply = n + b /\ ToApply' = n + c /\ One(~folder'.made) = 0
    BY <1>2 DEF ToApply, One
  <2>3. folder'.hash \in Nat
    BY <1>2, AttachNumbers
  <2>4. folder'.hash + 0 + ToApply' <= MaxFolderEdits + 1 + ownerCalls /\ ToApply' <= ownerCalls
    <3> HIDE DEF b, c, n
    <3> QED  BY <1>2, <2>1, <2>2, <2>3, HashParts
  <2> QED  BY <2>2, <2>4 DEF HashInv
<1>7. UndisturbedInv'
  <2> SUFFICES ASSUME ~overlap', NEW k \in Jobs PROVE LeftAlone(k)'
    BY DEF UndisturbedInv
  <2>1. LeftAlone(k) /\ LeftAlone(j)
    BY <1>1, <1>3 DEF AttachInv, UndisturbedInv
  <2>2. CASE k = j
    <3>1. ws.there /\ j # "snapshot" /\ (~job[j].applies =>
              ws.hash = job[j].active \/ (ws.hash = folder.hash /\ folder.made /\ folder.there))
      BY <2>1 DEF LeftAlone
    <3>2. folder.made /\ ~job[j].applies => folder' = folder
      BY DEF Templated
    <3>3. new.stage = "resolve" /\ ~new.applies => ws.hash \in {0, new.hash}
      BY <3>1, <3>2
    <3> QED  BY <1>1, <1>2, <2>2, <3>1, <3>3 DEF LeftAlone, HasRead, AtWork
  <2>3. CASE k # j /\ folder' = folder
    BY <1>1, <2>1, <2>3, OthersUndisturbed
  <2>4. CASE k # j /\ ~AtWork(k)
    BY <1>1, <2>4, IdleUndisturbed DEF AtWork
  <2> QED  BY <1>3, <2>2, <2>3, <2>4
<1>8. Reports'
  BY <1>1 DEF Reports, AtWork
<1>9. RowInv' /\ BoundInv'
  BY <1>8 DEF AttachInv, RowInv, BoundInv
<1> QED  BY <1>4, <1>5, <1>6, <1>7, <1>9 DEF AttachInv

LEMMA ReadFolderKeeps ==
    ASSUME AttachInv, NEW j \in Jobs, ReadFolder(j)
    PROVE  AttachInv'
<1>1. /\ j \in {"scan", "apply"} /\ AtWork(j) /\ job[j].stage = "listed" /\ ~job[j].applies
      /\ Rewrites(j) /\ UNCHANGED <<actor, binding, asks, dropped, ownerCalls, callFaults>>
      /\ AttachTypeOK /\ overlap \in BOOLEAN
  BY DEF ReadFolder, AtWork, Jobs, AttachInv, AttachTypeOK
<1>2. callFaults' \in 0..MaxCallFaults /\ overlap' \in BOOLEAN
      /\ (~overlap' => ~overlap /\ (folder' = folder \/ \A k \in Jobs \ {j} : ~AtWork(k)))
  <2>1. callFaults \in 0..MaxCallFaults
    BY <1>1 DEF AttachTypeOK
  <2> QED  BY <1>1, <2>1 DEF Rewrites
<1>3. CASE ~job[j].listed
  <2>1. Ends(j) /\ UNCHANGED <<folder, ws, reported, stale>>
    BY <1>1, <1>3 DEF ReadFolder
  <2>2. overlap' = overlap
    BY <1>1, <2>1 DEF Rewrites
  <2> QED  BY <1>1, <1>3, <2>1, <2>2, JobEndsQuietly
<1>4. CASE job[j].listed /\ ~folder.there
  <2>1. Ends(j) /\ ReportOnce("workspace_inaccessible", 0) /\ folder' = folder
    BY <1>1, <1>4 DEF ReadFolder
  <2>2. "workspace_inaccessible" \in Statuses /\ 0 \in Hashes /\ 0 <= folder'.hash
    BY <2>1, HashParts, AttachNumbers DEF Statuses
  <2> QED  BY <1>1, <1>2, <2>1, <2>2, JobReports
<1>5. CASE job[j].listed /\ folder.there /\ ~Templated.valid
  <2>1. Ends(j) /\ ReportOnce("config_invalid", Templated.hash) /\ folder' = Templated
    BY <1>1, <1>5 DEF ReadFolder
  <2>2. /\ "config_invalid" \in Statuses /\ Templated.hash \in Hashes
        /\ Templated.hash <= folder'.hash /\ folder'.there /\ folder'.made
    <3>1. /\ Templated \in [there : BOOLEAN, made : BOOLEAN, hash : Hashes, agents : SUBSET Agents,
                             valid : BOOLEAN]
          /\ Templated.there = folder.there /\ Templated.made
      BY FolderGrows
    <3>2. Templated.hash \in Hashes /\ Templated.hash \in Nat
      BY <3>1, AttachNumbers
    <3> QED  BY <1>5, <2>1, <3>1, <3>2 DEF Statuses
  <2> HIDE DEF Templated
  <2> QED  BY <1>1, <1>2, <2>1, <2>2, JobReports
<1>6. CASE job[j].listed /\ folder.there /\ Templated.valid
  <2> DEFINE stage == IF job[j].active \notin {0, Templated.hash} THEN "import" ELSE "resolve"
             new == [job[j] EXCEPT !.hash = Templated.hash, !.agents = Templated.agents,
                                   !.stage = stage]
  <2>1. folder' = Templated /\ job' = [job EXCEPT ![j] = new] /\ UNCHANGED <<ws, reported, stale>>
    BY <1>1, <1>6 DEF ReadFolder, AttachTypeOK
  <2>2. Templated.hash \in Hashes /\ Templated.agents \subseteq Agents
    BY FolderGrows
  <2>3. job[j] \in Workers
    BY <1>1, JobTypes DEF Jobs
  <2>4. /\ new \in Workers /\ new.stage = stage /\ new.hash = Templated.hash
        /\ new.agents = Templated.agents /\ new.active = job[j].active
        /\ new.listed = job[j].listed /\ new.applies = job[j].applies
    <3> HIDE DEF Templated
    <3> QED  BY <2>2, <2>3 DEF Workers
  <2>5. new.stage \in {"import", "resolve"} /\ (new.stage = "resolve" => new.active \in {0, new.hash})
    BY <2>4
  <2> HIDE DEF new
  <2> QED  BY <1>1, <1>6, <2>1, <2>4, <2>5, FolderIsRead
<1> QED  BY <1>3, <1>4, <1>5, <1>6

LEMMA MaterializeKeeps ==
    ASSUME AttachInv, Materialize
    PROVE  AttachInv'
<1> DEFINE j == "apply"
<1>1. /\ j \in Jobs /\ AtWork(j) /\ job[j].stage = "listed" /\ job[j].applies
      /\ Rewrites(j) /\ UNCHANGED <<actor, binding, asks, dropped, ownerCalls, callFaults>>
      /\ AttachTypeOK /\ overlap \in BOOLEAN
  BY DEF Materialize, AtWork, Jobs, AttachInv, AttachTypeOK
<1>2. callFaults' \in 0..MaxCallFaults /\ overlap' \in BOOLEAN
      /\ (~overlap' => ~overlap /\ (folder' = folder \/ \A k \in Jobs \ {j} : ~AtWork(k)))
  <2>1. callFaults \in 0..MaxCallFaults
    BY <1>1 DEF AttachTypeOK
  <2> QED  BY <1>1, <2>1 DEF Rewrites
<1>3. CASE ~job[j].listed
  <2>1. Ends(j) /\ UNCHANGED <<folder, ws, reported, stale>>
    BY <1>1, <1>3 DEF Materialize
  <2>2. overlap' = overlap
    BY <1>1, <2>1 DEF Rewrites
  <2> QED  BY <1>1, <1>3, <2>1, <2>2, JobEndsQuietly
<1>4. CASE job[j].listed /\ ~folder.there
  <2>1. Ends(j) /\ ReportOnce("workspace_inaccessible", 0) /\ folder' = folder
    BY <1>1, <1>4 DEF Materialize
  <2>2. "workspace_inaccessible" \in Statuses /\ 0 \in Hashes /\ 0 <= folder'.hash
    BY <2>1, HashParts, AttachNumbers DEF Statuses
  <2> QED  BY <1>1, <1>2, <2>1, <2>2, JobReports
<1>5. CASE /\ Ends(j) /\ ReportOnce("config_apply_failed", 0)
           /\ UNCHANGED folder
  <2>1. "config_apply_failed" \in Statuses /\ 0 \in Hashes /\ 0 <= folder'.hash
    BY <1>5, HashParts, AttachNumbers DEF Statuses
  <2> QED  BY <1>1, <1>2, <1>5, <2>1, JobReports
<1>6. CASE /\ job[j].listed /\ folder.there
           /\ folder' = Materialized
           /\ job' = [job EXCEPT !["apply"] =
                [@ EXCEPT !.stage = "resolve", !.hash = Materialized.hash,
                          !.agents = Materialized.agents]]
           /\ UNCHANGED <<ws, reported, stale>>
  <2> DEFINE new == [job[j] EXCEPT !.stage = "resolve", !.hash = Materialized.hash,
                                   !.agents = Materialized.agents]
  <2>1. folder' = Materialized /\ job' = [job EXCEPT ![j] = new] /\ UNCHANGED <<ws, reported, stale>>
    BY <1>6 DEF AttachTypeOK
  <2>2. Materialized.hash \in Hashes /\ Materialized.agents \subseteq Agents
    <3>1. /\ Templated.hash \in Nat
          /\ Templated = folder \/ (~folder.made /\ Templated.hash = folder.hash + 1)
          /\ Materialized = Templated \/ Materialized.hash = Templated.hash + 1
          /\ Materialized.agents \subseteq Agents
      BY FolderGrows, AttachNumbers
    <3>2. ToApply >= 1
      <4>1. One(job["apply"].stage = "listed" /\ job["apply"].applies) = 1
        BY <1>1 DEF One
      <4>2. One("apply" \in asks) \in {0, 1}
        BY AttachNumbers
      <4> QED  BY <4>1, <4>2 DEF ToApply
    <3>3. ~folder.made => One(~folder.made) = 1
      BY DEF One
    <3>4. Materialized.hash \in Nat /\ Materialized.hash <= folder.hash + One(~folder.made) + 1
      <4> HIDE DEF Templated, Materialized
      <4> QED  BY <3>1, <3>3, HashParts
    <3>5. Materialized.hash <= MaxFolderEdits + 1 + MaxOwnerCalls
      <4> HIDE DEF Materialized
      <4> QED  BY <3>2, <3>4, HashParts, AttachmentAssumption
    <3> QED  BY <3>1, <3>4, <3>5, AttachNumbers
  <2>3. job[j] \in Workers
    BY <1>1, JobTypes
  <2>4. /\ new \in Workers /\ new.stage = "resolve" /\ new.hash = Materialized.hash
        /\ new.agents = Materialized.agents /\ new.active = job[j].active
        /\ new.listed = job[j].listed /\ new.applies = job[j].applies
    <3> HIDE DEF Materialized
    <3> QED  BY <2>2, <2>3 DEF Workers
  <2> HIDE DEF new
  <2> QED  BY <1>1, <1>6, <2>1, <2>4, FolderIsRead
<1> QED  BY <1>3, <1>4, <1>5, <1>6 DEF Materialize

LEMMA ActorsAreFinished ==
    ASSUME AttachInv, NEW j \in Jobs, FinishActors(j)
    PROVE  AttachInv'
<1>1. /\ job[j].stage = "resolve" /\ job[j].agents = {} /\ HasRead(j) /\ AtWork(j)
      /\ j \in {"scan", "apply"}
      /\ UNCHANGED <<folder, actor, binding, asks, dropped, overlap, ownerCalls, callFaults>>
  BY JobTypes DEF FinishActors, HasRead, AtWork, Jobs
<1>2. CASE job[j].applies
  <2> DEFINE new == [job[j] EXCEPT !.stage = "import"]
  <2>1. job' = [job EXCEPT ![j] = new] /\ UNCHANGED <<ws, reported, stale>>
    BY <1>1, <1>2 DEF FinishActors, StageOf, AttachInv, AttachTypeOK
  <2>2. /\ new \in Workers /\ new.stage = "import" /\ new.agents = job[j].agents
        /\ new.hash = job[j].hash /\ new.active = job[j].active
        /\ new.listed = job[j].listed /\ new.applies = job[j].applies
    BY JobTypes DEF Workers
  <2> HIDE DEF new
  <2>3. ASSUME ~overlap PROVE LeftAlone(j)'
    <3>1. job'[j] = new /\ LeftAlone(j)
      BY <2>1, <2>2, <2>3, JobBecomes DEF AttachInv, UndisturbedInv
    <3>2. \A a : Resolves(a)' = Resolves(a)
      BY <1>1 DEF Resolves
    <3> QED  BY <1>1, <2>1, <2>2, <3>1, <3>2 DEF LeftAlone, HasRead, AtWork
  <2>4. actor' \in [Agents -> {"none", "idle", "runtime_unconfigured", "running", "retired"}]
    BY <1>1 DEF AttachInv, AttachTypeOK
  <2> QED  BY <1>1, <2>1, <2>2, <2>3, <2>4, JobTypes, JobMoves
<1>3. CASE ~job[j].applies
  <2>1. Ends(j) /\ ReportOnce("attached", job[j].hash)
    BY <1>1, <1>3 DEF FinishActors
  <2>2. /\ job[j].hash \in Hashes /\ job[j].hash <= folder.hash /\ job[j].hash # 0
        /\ overlap \in BOOLEAN /\ callFaults \in 0..MaxCallFaults /\ "attached" \in Statuses
    BY <1>1, JobTypes DEF Workers, AttachInv, AttachTypeOK, Statuses
  <2>3. ~overlap => job[j].hash = folder.hash /\ folder.there /\ folder.made
    BY <1>1 DEF AttachInv, UndisturbedInv, LeftAlone
  <2> QED  BY <1>1, <1>3, <2>1, <2>2, <2>3, JobReports
<1> QED  BY <1>2, <1>3

LEMMA AttachmentFails ==
    ASSUME AttachInv, NEW j \in Jobs, AttachFails(j)
    PROVE  AttachInv'
<1>1. /\ job[j].stage \in {"import", "register"} /\ HasRead(j) /\ AtWork(j)
      /\ j \in {"scan", "apply"} /\ Failing /\ Ends(j)
      /\ UNCHANGED <<folder, actor, binding, asks, dropped, overlap, ownerCalls>>
  BY DEF AttachFails, HasRead, AtWork, Jobs
<1>2. /\ job[j].hash \in Hashes /\ job[j].hash <= folder.hash /\ overlap \in BOOLEAN
      /\ callFaults' \in 0..MaxCallFaults /\ folder.hash \in Nat
  BY <1>1, JobTypes, HashParts, AttachNumbers DEF Workers, AttachInv, AttachTypeOK, Failing
<1>3. ~overlap => job[j].hash = folder.hash /\ folder.there /\ folder.made
  BY <1>1 DEF AttachInv, UndisturbedInv, LeftAlone
<1>4. CASE job[j].stage = "import"
  <2>1. ReportOnce("config_drift", job[j].hash) /\ "config_drift" \in Statuses
    BY <1>4 DEF AttachFails, Statuses
  <2> QED  BY <1>1, <1>2, <1>3, <2>1, JobReports
<1>5. CASE job[j].stage = "register"
  <2>1. ReportOnce("attach_failed", 0) /\ "attach_failed" \in Statuses /\ 0 \in Hashes
    BY <1>5, AttachNumbers DEF AttachFails, Statuses
  <2>2. 0 <= folder'.hash
    BY <1>1, <1>2
  <2> QED  BY <1>1, <1>2, <2>1, <2>2, JobReports
<1> QED  BY <1>1, <1>4, <1>5

\* What the bridge takes for reported the row does not show: the report was lost.
LEMMA ReportIsLost ==
    ASSUME AttachInv, NEW j \in Jobs, ReportFails(j)
    PROVE  AttachInv'
<1>1. /\ job[j].stage = "resolve" /\ job[j].agents = {} /\ HasRead(j) /\ AtWork(j)
      /\ j # "snapshot" /\ Failing /\ Ends(j) /\ stale' = TRUE
      /\ reported' = [status |-> "attached", hash |-> job[j].hash]
      /\ UNCHANGED <<folder, ws, actor, binding, asks, dropped, overlap, ownerCalls>>
  BY JobTypes DEF ReportFails, HasRead, AtWork
<1>2. /\ job[j].hash \in Hashes /\ job[j].hash <= folder.hash
      /\ callFaults' \in 0..MaxCallFaults /\ folder.hash \in Nat
  BY <1>1, JobTypes, HashParts, AttachNumbers DEF Workers, AttachInv, AttachTypeOK, Failing
<1>3. job' \in [Jobs -> Workers] /\ job'[j] = IdleJob /\ \A k \in Jobs : k # j => job'[k] = job[k]
  BY <1>1, Idle, JobBecomes DEF AttachInv, Ends
<1>4. AttachTypeOK'
  <2>1. reported' \in [status : Statuses \cup {"none"}, hash : Hashes]
    BY <1>1, <1>2 DEF Statuses
  <2> QED  BY <1>1, <1>2, <1>3, <2>1 DEF AttachInv, AttachTypeOK, Workers
<1>5. StagesInv'
  <2>1. \A h \in Recorded' : h \in Recorded \/ h \in {0, job[j].hash}
    BY <1>1, <1>3, Idle DEF Recorded
  <2>2. \A h \in Recorded' : h <= folder.hash
    BY <1>2, <2>1 DEF AttachInv, StagesInv
  <2>3. \A k \in Jobs : (HasRead(k)' => job'[k].hash # 0 /\ job'[k].listed)
                        /\ (job'[k].applies => k = "apply")
    BY <1>3, Idle DEF AttachInv, StagesInv, HasRead
  <2>4. job'["snapshot"].stage \in {"idle", "listed", "import"}
    BY <1>1, <1>3 DEF AttachInv, StagesInv, Jobs
  <2> QED  BY <1>1, <2>2, <2>3, <2>4 DEF AttachInv, StagesInv
<1>6. HashInv'
  <2>1. One(job'["apply"].stage = "listed" /\ job'["apply"].applies)
          <= One(job["apply"].stage = "listed" /\ job["apply"].applies)
    BY <1>3, Idle DEF One, Jobs
  <2> QED  BY <1>1, <2>1, ApplyKeepsHash
<1>7. UndisturbedInv'
  <2> SUFFICES ASSUME ~overlap, NEW k \in Jobs PROVE LeftAlone(k)'
    BY <1>1 DEF UndisturbedInv
  <2>1. CASE k = j
    BY <1>3, <2>1, Idle, IdleUndisturbed
  <2>2. CASE k # j
    <3>1. LeftAlone(k)
      BY DEF AttachInv, UndisturbedInv
    <3> QED  BY <1>1, <1>3, <2>2, <3>1, OthersUndisturbed
  <2> QED  BY <2>1, <2>2
<1>8. RowInv'
  BY <1>1 DEF RowInv
<1>9. BoundInv'
  <2>1. CASE overlap
    BY <1>1, <2>1 DEF BoundInv
  <2>2. CASE ~overlap
    <3>1. \A a \in folder.agents : actor[a] = "runtime_unconfigured" => ~Resolves(a)
      BY <1>1, <2>2 DEF AttachInv, UndisturbedInv, LeftAlone
    <3>2. \A a : Resolves(a)' = Resolves(a)
      BY <1>1 DEF Resolves
    <3> QED  BY <1>1, <3>1, <3>2 DEF BoundInv
  <2> QED  BY <2>1, <2>2
<1> QED  BY <1>4, <1>5, <1>6, <1>7, <1>8, <1>9 DEF AttachInv

LEMMA BridgeComesBack ==
    ASSUME AttachInv, BridgeRestarts
    PROVE  AttachInv'
<1>1. /\ Failing /\ job' = [j \in Jobs |-> IF j = "scan" THEN Listed(j) ELSE IdleJob]
      /\ reported' = NoReport /\ asks' = {} /\ dropped' = FALSE /\ overlap' = FALSE
      /\ stale' = FALSE /\ UNCHANGED <<folder, ws, actor, binding, ownerCalls>>
  BY DEF BridgeRestarts
<1>2. /\ job' \in [Jobs -> Workers] /\ job'["scan"] = Listed("scan")
      /\ \A j \in Jobs : j # "scan" => job'[j] = IdleJob
  BY <1>1, Idle, ListedIs DEF AttachInv, Jobs
<1>3. /\ Listed("scan").stage = "listed" /\ ~Listed("scan").applies
      /\ Listed("scan").listed = ws.there /\ Listed("scan").hash = 0
      /\ Listed("scan").active = ws.hash
  BY ListedIs DEF AttachInv, Jobs
<1>4. callFaults' \in 0..MaxCallFaults /\ ws.hash \in Nat /\ folder.hash \in Nat
      /\ ownerCalls \in Nat /\ ws.hash <= folder.hash
  BY <1>1, HashParts, AttachNumbers DEF AttachInv, AttachTypeOK, Failing, StagesInv, Recorded
<1>5. AttachTypeOK'
  BY <1>1, <1>2, <1>4, AttachNumbers DEF AttachInv, AttachTypeOK, Workers, NoReport
<1>6. StagesInv'
  <2>1. \A h \in Recorded' : h \in {0, ws.hash}
    BY <1>1, <1>2, <1>3, Idle DEF Recorded, NoReport
  <2>2. \A h \in Recorded' : h <= folder'.hash
    BY <1>1, <1>4, <2>1
  <2>3. \A k \in Jobs : ~HasRead(k)' /\ ~job'[k].applies
    BY <1>2, <1>3, Idle DEF HasRead
  <2>4. job'["snapshot"].stage = "idle"
    BY <1>2, Idle DEF Jobs
  <2> QED  BY <1>1, <2>2, <2>3, <2>4 DEF AttachInv, StagesInv
<1>7. HashInv'
  <2>1. job'["apply"].stage = "idle"
    BY <1>2, Idle DEF Jobs
  <2>2. One(job'["apply"].stage = "listed" /\ job'["apply"].applies) = 0
    BY <2>1 DEF One
  <2> QED  BY <1>1, <2>2, ApplyKeepsHash, AttachNumbers DEF One
<1>8. UndisturbedInv'
  <2> SUFFICES ASSUME NEW k \in Jobs PROVE LeftAlone(k)'
    BY DEF UndisturbedInv
  <2>1. CASE k = "scan"
    BY <1>1, <1>2, <1>3, <2>1 DEF LeftAlone, AtWork, HasRead
  <2>2. CASE k # "scan"
    BY <1>2, <2>2, Idle, IdleUndisturbed
  <2> QED  BY <2>1, <2>2
<1>9. RowInv' /\ BoundInv'
  BY <1>1 DEF RowInv, BoundInv, NoReport
<1> QED  BY <1>5, <1>6, <1>7, <1>8, <1>9 DEF AttachInv

\* The bridge hears of something to do: what it starts will report, or is the snapshot beside
\* a scan under way.
LEMMA AskIsHeard ==
    ASSUME AttachInv, NEW note \in Notices, HearAsk(note)
    PROVE  AttachInv'
<1> DEFINE starts == ({note} \cap {"apply", "snapshot"})
                       \cup (IF note # "apply" /\ ~AtWork("scan") THEN {"scan"} ELSE {})
<1>1. /\ note \in asks /\ (note # "attach" => ~AtWork(note)) /\ asks' = asks \ {note}
      /\ job' = [j \in Jobs |-> IF j \in starts THEN Listed(j) ELSE job[j]]
      /\ dropped' = IF note # "apply" THEN AtWork("scan") ELSE dropped
      /\ overlap' = (overlap /\ \E j \in Jobs : AtWork(j))
      /\ UNCHANGED <<folder, ws, actor, binding, reported, stale, ownerCalls, callFaults>>
  BY DEF HearAsk
<1>2. /\ starts \subseteq Jobs /\ \A j \in starts : ~AtWork(j)
      /\ ("apply" \in starts <=> note = "apply")
      /\ ("scan" \in starts \/ "apply" \in starts \/ AtWork("scan"))
      /\ (note # "apply" /\ ~AtWork("scan") => "scan" \in starts)
  BY <1>1 DEF Jobs, Notices
<1> HIDE DEF starts
<1>3. /\ \A j \in starts : job'[j] = Listed(j)
      /\ \A j \in Jobs \ starts : job'[j] = job[j]
      /\ job' \in [Jobs -> Workers]
  <2>1. \A j \in Jobs : job[j] \in Workers /\ Listed(j) \in Workers
    BY JobTypes, ListedIs DEF AttachInv
  <2> QED  BY <1>1, <1>2, <2>1
<1>4. \A j \in starts : /\ job'[j].stage = "listed" /\ job'[j].applies = (j = "apply")
                        /\ job'[j].listed = ws.there /\ job'[j].hash = 0
                        /\ job'[j].active = ws.hash
  BY <1>2, <1>3, ListedIs DEF AttachInv
<1>5. AttachTypeOK'
  <2>1. dropped' \in BOOLEAN /\ overlap' \in BOOLEAN
    BY <1>1 DEF AttachInv, AttachTypeOK, AtWork
  <2> QED  BY <1>1, <1>3, <2>1 DEF AttachInv, AttachTypeOK, Workers
<1>6. StagesInv'
  <2>1. \A h \in Recorded' : h \in Recorded \/ h = 0
    BY <1>1, <1>3, <1>4 DEF Recorded
  <2>2. \A h \in Recorded' : h <= folder'.hash
    BY <1>1, <2>1, HashParts DEF AttachInv, StagesInv
  <2>3. \A k \in Jobs : (HasRead(k)' => job'[k].hash # 0 /\ job'[k].listed)
                        /\ (job'[k].applies => k = "apply")
    <3> SUFFICES ASSUME NEW k \in Jobs
                 PROVE  (HasRead(k)' => job'[k].hash # 0 /\ job'[k].listed)
                        /\ (job'[k].applies => k = "apply")
      OBVIOUS
    <3>1. CASE k \in starts
      BY <1>4, <3>1 DEF HasRead
    <3>2. CASE k \notin starts
      BY <1>3, <3>2 DEF AttachInv, StagesInv, HasRead
    <3> QED  BY <3>1, <3>2
  <2>4. job'["snapshot"].stage \in {"idle", "listed", "import"}
    BY <1>3, <1>4 DEF AttachInv, StagesInv, Jobs
  <2> QED  BY <1>1, <2>2, <2>3, <2>4 DEF AttachInv, StagesInv
<1>7. HashInv'
  <2> DEFINE b == One(job["apply"].stage = "listed" /\ job["apply"].applies)
             c == One(job'["apply"].stage = "listed" /\ job'["apply"].applies)
             n == One("apply" \in asks)
             m == One("apply" \in asks')
  <2>1. CASE note = "apply"
    <3>1. n = 1 /\ m = 0 /\ b = 0 /\ c = 1
      BY <1>1, <1>2, <1>4, <2>1 DEF One, AtWork
    <3>2. ToApply = n + b /\ ToApply' = m + c
      BY DEF ToApply
    <3>3. ToApply' = ToApply
      BY <3>1, <3>2
    <3> QED  BY <1>1, <3>3 DEF AttachInv, HashInv
  <2>2. CASE note # "apply"
    <3>1. job'["apply"] = job["apply"] /\ ("apply" \in asks' <=> "apply" \in asks)
      BY <1>1, <1>2, <1>3, <2>2 DEF Jobs
    <3>2. ToApply' = ToApply
      BY <3>1 DEF ToApply, One
    <3> QED  BY <1>1, <3>2 DEF AttachInv, HashInv
  <2> QED  BY <2>1, <2>2
<1>8. UndisturbedInv'
  <2> SUFFICES ASSUME ~overlap', NEW k \in Jobs PROVE LeftAlone(k)'
    BY DEF UndisturbedInv
  <2>1. CASE k \in starts
    BY <1>1, <1>4, <2>1 DEF LeftAlone, AtWork, HasRead
  <2>2. CASE k \notin starts /\ AtWork(k)
    <3>1. LeftAlone(k)
      BY <1>1, <2>2 DEF AttachInv, UndisturbedInv
    <3> QED  BY <1>1, <1>3, <2>2, <3>1, OthersUndisturbed
  <2>3. CASE k \notin starts /\ ~AtWork(k)
    BY <1>3, <2>3, IdleUndisturbed DEF AtWork
  <2> QED  BY <2>1, <2>2, <2>3
<1>9. ws.there => \/ Reports'
                  \/ /\ AtWork("scan") /\ (note # "apply") /\ (Reports' <=> Reports)
                     /\ "scan" \notin starts /\ "apply" \notin starts
  <2>1. CASE "scan" \in starts \/ "apply" \in starts
    BY <1>4, <2>1 DEF Reports, AtWork
  <2>2. CASE "scan" \notin starts /\ "apply" \notin starts
    BY <1>2, <1>3, <2>2 DEF Reports, AtWork, Jobs
  <2> QED  BY <2>1, <2>2
<1>10. RowInv'
  <2>1. AtWork("scan") => overlap' = overlap
    BY <1>1 DEF Jobs, AttachInv, AttachTypeOK
  <2> QED  BY <1>1, <1>9, <2>1 DEF AttachInv, RowInv
<1>11. BoundInv'
  BY <1>1, <1>9 DEF BoundInv
<1> QED  BY <1>5, <1>6, <1>7, <1>8, <1>10, <1>11 DEF AttachInv

\* The configuration is imported: the row has the hash the job works with.
LEMMA ConfigIsImported ==
    ASSUME AttachInv, NEW j \in Jobs, Import(j)
    PROVE  AttachInv'
<1> DEFINE relisted == [IdleJob EXCEPT !.stage = "listed", !.listed = TRUE, !.active = job[j].hash]
           resolving == [job[j] EXCEPT !.stage = "resolve"]
           new == IF job[j].applies THEN relisted ELSE IF j = "snapshot" THEN IdleJob ELSE resolving
<1>1. /\ job[j].stage = "import" /\ HasRead(j) /\ AtWork(j) /\ job[j].listed
      /\ ws' = IF ws.there THEN [ws EXCEPT !.status = "attached", !.hash = job[j].hash] ELSE ws
      /\ reported' = IF job[j].applies THEN NoReport ELSE reported
      /\ UNCHANGED <<folder, actor, binding, asks, dropped, stale, overlap, ownerCalls, callFaults>>
  BY JobTypes DEF Import, HasRead, AtWork
<1>2. job' = [job EXCEPT ![j] = new]
  BY DEF Import, Ends, StageOf, AttachInv, AttachTypeOK
<1>3. /\ job[j].hash \in Hashes /\ job[j].hash # 0 /\ job[j].hash <= folder.hash
      /\ job[j].active <= folder.hash
      /\ folder.hash \in Nat /\ job[j] \in Workers /\ (job[j].applies => j = "apply")
  BY <1>1, JobTypes, HashParts DEF Workers
<1>4. /\ relisted \in Workers /\ relisted.stage = "listed" /\ relisted.listed /\ ~relisted.applies
      /\ relisted.active = job[j].hash /\ relisted.hash = 0
  BY <1>3, Idle DEF Workers
<1>5. /\ resolving \in Workers /\ resolving.stage = "resolve" /\ resolving.listed = job[j].listed
      /\ resolving.applies = job[j].applies /\ resolving.active = job[j].active
      /\ resolving.hash = job[j].hash /\ resolving.agents = job[j].agents
  BY <1>3 DEF Workers
<1> HIDE DEF relisted, resolving
<1>6. /\ new \in Workers /\ ~new.applies /\ new.hash \in {0, job[j].hash}
      /\ new.active \in {0, job[j].hash, job[j].active}
      /\ new.stage \in {"import", "resolve", "register"} => new.stage = "resolve" /\ new = resolving
      /\ (j = "snapshot" => new = IdleJob) /\ (j # "snapshot" => new.stage # "idle" /\ new.listed)
  BY <1>1, <1>3, <1>4, <1>5, Idle
<1>7. job' \in [Jobs -> Workers] /\ job'[j] = new /\ \A k \in Jobs : k # j => job'[k] = job[k]
  <2> HIDE DEF new
  <2> QED  BY <1>2, <1>6, JobBecomes DEF AttachInv
<1>8. /\ ws' \in [there : BOOLEAN, status : Statuses, hash : Hashes] /\ ws'.there = ws.there
      /\ ws.there => ws'.hash = job[j].hash /\ ws'.status = "attached"
      /\ ~ws.there => ws' = ws
  BY <1>1, <1>3 DEF AttachInv, AttachTypeOK, Statuses
<1>9. AttachTypeOK'
  <2>1. reported' \in [status : Statuses \cup {"none"}, hash : Hashes]
    BY <1>1, AttachNumbers DEF NoReport, AttachInv, AttachTypeOK
  <2> QED  BY <1>1, <1>7, <1>8, <2>1 DEF AttachInv, AttachTypeOK, Workers
<1> HIDE DEF new
<1>10. StagesInv'
  <2>1. \A h \in Recorded' : h \in Recorded \/ h \in {0, job[j].hash, job[j].active}
    BY <1>1, <1>6, <1>7, <1>8 DEF Recorded, NoReport
  <2>2. \A h \in Recorded' : h <= folder'.hash
    BY <1>1, <1>3, <2>1 DEF AttachInv, StagesInv
  <2>3. \A k \in Jobs : (HasRead(k)' => job'[k].hash # 0 /\ job'[k].listed)
                        /\ (job'[k].applies => k = "apply")
    <3> SUFFICES ASSUME NEW k \in Jobs
                 PROVE  (HasRead(k)' => job'[k].hash # 0 /\ job'[k].listed)
                        /\ (job'[k].applies => k = "apply")
      OBVIOUS
    <3>1. CASE k = j
      BY <1>1, <1>3, <1>5, <1>6, <1>7, <3>1 DEF HasRead
    <3>2. CASE k # j
      BY <1>7, <3>2 DEF AttachInv, StagesInv, HasRead
    <3> QED  BY <3>1, <3>2
  <2>4. job'["snapshot"].stage \in {"idle", "listed", "import"}
    BY <1>6, <1>7, Idle DEF AttachInv, StagesInv, Jobs
  <2> QED  BY <1>1, <2>2, <2>3, <2>4 DEF AttachInv, StagesInv
<1>11. HashInv'
  <2>1. One(job'["apply"].stage = "listed" /\ job'["apply"].applies)
          <= One(job["apply"].stage = "listed" /\ job["apply"].applies)
    BY <1>6, <1>7 DEF One, Jobs
  <2> QED  BY <1>1, <2>1, ApplyKeepsHash
<1>12. ~overlap => ws.there /\ job[j].hash = folder.hash /\ folder.there /\ folder.made
  BY <1>1 DEF AttachInv, UndisturbedInv, LeftAlone
<1>13. UndisturbedInv'
  <2> SUFFICES ASSUME ~overlap, NEW k \in Jobs PROVE LeftAlone(k)'
    BY <1>1 DEF UndisturbedInv
  <2>1. LeftAlone(k) /\ LeftAlone(j)
    BY DEF AttachInv, UndisturbedInv
  <2>2. CASE k # j
    BY <1>1, <1>7, <1>8, <1>12, <2>1, <2>2, OthersUndisturbed
  <2>3. CASE k = j /\ new = IdleJob
    BY <1>7, <2>3, Idle, IdleUndisturbed
  <2>4. CASE k = j /\ new = relisted
    BY <1>1, <1>4, <1>7, <1>8, <1>12, <2>4 DEF LeftAlone, AtWork, HasRead
  <2>5. CASE k = j /\ new = resolving /\ j # "snapshot" /\ ~job[j].applies
    <3>1. \A a : Resolves(a)' = Resolves(a)
      BY <1>1 DEF Resolves
    <3> QED  BY <1>1, <1>5, <1>7, <1>8, <1>12, <2>1, <2>5, <3>1 DEF LeftAlone, AtWork, HasRead
  <2> QED  BY <2>2, <2>3, <2>4, <2>5 DEF new
<1>14. j # "snapshot" => Reports'
  BY <1>6, <1>7 DEF Reports, AtWork, Jobs
<1>15. j = "snapshot" => (Reports' <=> Reports) /\ (AtWork("scan")' <=> AtWork("scan"))
                         /\ AtWork("snapshot")
  BY <1>1, <1>7 DEF Reports, AtWork, Jobs
<1>16. RowInv'
  <2>1. CASE j = "snapshot"
    <3>1. reported' = reported
      BY <1>1, <1>3, <2>1
    <3> QED  BY <1>1, <1>3, <1>8, <1>12, <1>15, <2>1, <3>1 DEF AttachInv, RowInv
  <2>2. CASE j # "snapshot"
    BY <1>1, <1>3, <1>8, <1>14, <2>2 DEF RowInv, NoReport
  <2> QED  BY <2>1, <2>2
<1>17. BoundInv'
  <2>1. CASE j = "snapshot"
    <3>1. reported' = reported /\ \A a : Resolves(a)' = Resolves(a)
      BY <1>1, <1>3, <2>1 DEF Resolves
    <3> QED  BY <1>1, <1>8, <1>15, <2>1, <3>1 DEF AttachInv, BoundInv
  <2>2. CASE j # "snapshot"
    BY <1>14, <2>2 DEF BoundInv
  <2> QED  BY <2>1, <2>2
<1> QED  BY <1>9, <1>10, <1>11, <1>13, <1>16, <1>17 DEF AttachInv

LEMMA AttachStep == AttachInv /\ [AttachNext]_attachVars => AttachInv'
<1> SUFFICES ASSUME AttachInv, [AttachNext]_attachVars PROVE AttachInv'
  OBVIOUS
<1>1. ASSUME NEW note \in Notices, HearAsk(note) PROVE AttachInv'
  BY <1>1, AskIsHeard
<1>2. CASE Materialize \/ ReadSnapshot
  BY <1>2, MaterializeKeeps, SnapshotIsRead
<1>3. ASSUME NEW j \in Jobs,
             ReadFolder(j) \/ Import(j) \/ RegisterActor(j) \/ FinishActors(j)
             \/ \E a \in Agents : ResolveActor(j, a)
      PROVE  AttachInv'
  BY <1>3, ReadFolderKeeps, ConfigIsImported, ActorIsRegistered, ActorsAreFinished, ActorIsResolved
<1>4. ASSUME NEW j \in Jobs, ReportFails(j) \/ AttachFails(j) PROVE AttachInv'
  BY <1>4, ReportIsLost, AttachmentFails
<1>5. CASE BridgeRestarts
  BY <1>5, BridgeComesBack
<1>6. ASSUME NEW agents \in SUBSET Agents, NEW valid \in BOOLEAN, EditFolder(agents, valid)
      PROVE  AttachInv'
  BY <1>6, FolderIsEdited
<1>7. CASE RemoveFolder \/ \E locator \in BOOLEAN : DeleteWorkspace(locator)
  BY <1>7, WorkspaceGoes
<1>8. CASE RegisterWorkspace
  BY <1>8, WorkspaceComes
<1>9. CASE \/ SelectWorkspace \/ BindWorkspace \/ ClearWorkspace
           \/ \E bound \in BOOLEAN : SetGlobal(bound)
           \/ \E note \in Notices : AskBridge(note)
           \/ \E a \in Agents : BindAgent(a) \/ ClearAgent(a) \/ RetireActor(a) \/ ActorRuns(a)
                                 \/ ActorRests(a)
  BY <1>9, OwnerAtTheBus
<1>10. CASE UNCHANGED attachVars
  <2>1. /\ UNCHANGED <<folder, ws, actor, binding, asks, job, reported, dropped, stale, overlap,
                       ownerCalls, callFaults>>
    BY <1>10 DEF attachVars
  <2>2. AttachTypeOK' /\ StagesInv' /\ HashInv'
    BY <2>1 DEF AttachInv, AttachTypeOK, StagesInv, HasRead, Recorded, HashInv, ToApply
  <2>3. UndisturbedInv' /\ RowInv' /\ BoundInv'
    BY <2>1 DEF AttachInv, UndisturbedInv, LeftAlone, HasRead, AtWork, Resolves, RowInv, BoundInv,
       Reports
  <2> QED  BY <2>2, <2>3 DEF AttachInv
<1> QED  BY <1>1, <1>2, <1>3, <1>4, <1>5, <1>6, <1>7, <1>8, <1>9, <1>10 DEF AttachNext, AttachProceeds

LEMMA AttachInvHolds == AttachInit /\ [][AttachNext]_attachVars => []AttachInv
BY AttachAtFirst, AttachStep, PTL

LEMMA AttachInvIsTrue == AttachInv => AttachmentIsTrue
<1> SUFFICES ASSUME AttachInv
             PROVE  ReportIsShown /\ UnconfiguredMeansUnbound
  BY DEF AttachmentIsTrue
<1>1. Settled => ~Reports /\ asks = {}
  BY DEF Settled, Reports, Jobs
<1>2. ReportIsShown
  BY <1>1 DEF AttachInv, RowInv, ReportIsShown
<1>3. UnconfiguredMeansUnbound
  BY <1>1 DEF AttachInv, BoundInv, UnconfiguredMeansUnbound
<1> QED  BY <1>2, <1>3

\* The variables of the attachment (the folder, the row, the actors, the bindings, the
\* bridge's messages and jobs) keep their types; so the folder's configuration is never
\* numbered beyond what its edits and the owner's calls make of it.
THEOREM AttachTypesHold == AttachSpec => []AttachTypeOK
<1>1. AttachInv => AttachTypeOK
  BY DEF AttachInv
<1> QED  BY <1>1, AttachInvHolds, PTL DEF AttachSpec

\* At any time the row of the workspace shows the last report of the bridge, unless it was
\* made anew or the report was lost, or it is attached, as an import leaves it; and when the
\* bridge has nothing left to do after a scan nothing interfered with, the row has the hash
\* that was reported and a declared actor waits for a runtime only when none is bound to it:
\* whatever scans, applications, snapshots and calls of the owner came before, however many
\* actors there are and however many calls fail (attachWorkspace, applySavedConfig,
\* reportOnce, resolveAuthProfile of the daemon).  The exceptions are AttachmentIsTrue's.
THEOREM AttachmentStaysTrue == AttachSpec => []AttachmentIsTrue
BY AttachInvIsTrue, AttachInvHolds, PTL DEF AttachSpec
===============================================================================
