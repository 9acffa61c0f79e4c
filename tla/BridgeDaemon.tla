----------------------------- MODULE BridgeDaemon -----------------------------
(***************************************************************************)
(* The bridge process (floe-bridge/src/daemon.ts) working against the      *)
(* delivery core of BusDelivery: the event stream it listens to, the scan  *)
(* that attaches endpoints, the claims, and one task per delivery from its *)
(* injection to the end of its turn.                                       *)
(*                                                                         *)
(* A task is the async function handleDelivery.  It is cut at its awaits:  *)
(* one step is one bus call together with the synchronous code around it,  *)
(* so everything else may happen between two calls of one task.  The bus   *)
(* handler a call reaches is the action of BusDelivery.                    *)
(***************************************************************************)
EXTENDS BusDelivery, Sequences

CONSTANTS
    Bridge,        \* the bridge_id of the daemon, kept across its restarts
    Agents,        \* actor endpoints the workspace's project declares
    Outcomes,      \* how the model runtime may end a turn
    Disturbances,  \* what may go wrong around the daemon
    MaxFaults      \* bound: disturbances in one behaviour

Nodes == UNION {Commands[s] : s \in Scopes}

ASSUME DaemonAssumption ==
    /\ IsFiniteSet(Endpoints)         \* they are rows of a table
    /\ Bridge \in Bridges
    /\ Agents \subseteq Endpoints
    /\ Agents \cap Nodes = {}
    /\ Nodes # {} => "message" \in Kinds   \* commands emit their result
    /\ Outcomes \subseteq {"text", "silent", "error", "unconfigured"}
    /\ Disturbances \subseteq {"crash", "disconnect", "rescan", "slow"}
    /\ MaxFaults \in Nat

Deliveries == Rows \X Attempts
EndpointOf(d) == d[1][2]

VARIABLES
    up,         \* the daemon process runs
    starting,   \* start() has not finished its attach scan
    stream,     \* the WebSocket to the bus is open
    wire,       \* messages the bus sent on it and the daemon has not handled
    scan,       \* attachKnownWorkspaces: its stage and the endpoints left
    known,      \* endpointRuntime and commandNodes: endpoints with a config
    claims,     \* calls of processDeliveries the bus has not answered yet
    replies,    \* answers to them, each a set of deliveries, not yet handled
    task,       \* task[d]: where handleDelivery(d) is; "none" outside it
    cancelled,  \* cancelledDeliveries
    emitted,    \* rows whose command result was emitted (idempotency keys)
    runs,       \* history: runs[r] counts the runtime turns started for row r
    faults      \* disturbances so far

taskVars == <<task, cancelled>>
streamVars == <<stream, wire>>
scanVars == <<starting, scan, known>>
claimVars == <<claims, replies>>
historyVars == <<emitted, runs>>
daemonVars ==
    <<up, streamVars, scanVars, claimVars, taskVars, historyVars, faults>>
allVars == <<vars, daemonVars>>

\* Bound: processDeliveries calls outstanding at once; a further one is merged.
MaxClaims == 2
Stages == {"off", "agents", "nodes"}
AgentPhases ==
    {"binding", "preparing", "running", "acking", "failing", "recording"}
CommandPhases == {"starting", "executing", "reporting"}
Phases == {"none", "ending", "leaving"} \cup AgentPhases \cup CommandPhases

\* processingEndpoints.
Busy(p) == \E d \in Deliveries : task[d] # "none" /\ EndpointOf(d) = p

-----------------------------------------------------------------------------
(* What the bus sends on the stream.                                         *)

Orders(S) ==
    {f \in [1..Cardinality(S) -> S] :
        \A i, j \in DOMAIN f : f[i] = f[j] => i = j}

Messages(kind, S) == {[i \in DOMAIN f |-> [kind |-> kind, of |-> f[i]]] : f \in Orders(S)}

Created ==
    {d \in Deliveries : bundle[d[1]][d[2]] = "absent" /\ bundle'[d[1]][d[2]] # "absent"}
Cancelled ==
    {d \in Deliveries : bundle[d[1]][d[2]] # "cancelled" /\ bundle'[d[1]][d[2]] = "cancelled"}
Rescan == <<[kind |-> "scope_retired", of |-> <<>>]>>

\* broadcast() of a bus step: delivery_bundle_available for each new bundle, and
\* for a retired Scope delivery_cancel_requested before it and scope_retired
\* after it.  Without an open socket a message is lost.
Broadcast(last_words) ==
    IF stream
    THEN \E c \in Messages("cancel", Cancelled), b \in Messages("bundle", Created) :
             wire' = wire \o c \o b \o last_words
    ELSE wire' = wire

\* A bus call that changes nothing: its guard refused the report.
BusIgnores == UNCHANGED <<deliveryVars, endpointVars, requestVars, retired>>

Report(r, n, s) ==
    IF Reportable(r, n, s)
    THEN IF s = "deferred" THEN ReportDeferred(r, n) ELSE ReportProgress(r, n, s)
    ELSE BusIgnores

-----------------------------------------------------------------------------
(* Process, stream and attach scan.                                          *)

Idle == [stage |-> "off", left |-> {}]

\* A second scan is dropped while one runs.
StartScan == scan' = IF scan.stage = "off" THEN [stage |-> "agents", left |-> Agents]
                     ELSE scan
AddClaim == claims' = IF claims < MaxClaims THEN claims + 1 ELSE claims

\* start(): register the bridge, which settles what the previous process had
\* injected, then scan; the stream connects meanwhile.
Start ==
    /\ ~up
    /\ RegisterBridge(Bridge)
    /\ up' = TRUE
    /\ starting' = TRUE
    /\ scan' = [stage |-> "agents", left |-> Agents]
    /\ UNCHANGED <<streamVars, known, claimVars, taskVars, historyVars, faults>>

\* The socket opens, at once or after a back-off: scan and claim again.
OpenStream ==
    /\ up /\ ~stream
    /\ stream' = TRUE
    /\ StartScan
    /\ AddClaim
    /\ UNCHANGED <<vars, up, starting, wire, known, replies, taskVars, historyVars, faults>>

\* The status an endpoint is registered with: an actor's depends on its auth profile.
Registered(p) ==
    {"idle"} \cup (IF p \in Agents /\ "unconfigured" \in Outcomes
                  THEN {"runtime_unconfigured"} ELSE {})

\* attachWorkspace: remember the config of an actor and register its endpoint,
\* then do the same for the command nodes of the active Scopes.
ScanRegisters ==
    \E p \in scan.left :
        /\ \E s \in Registered(p) : RegisterEndpoint(p, Bridge, s)
        /\ Broadcast(<<>>)
        /\ scan' = [scan EXCEPT !.left = @ \ {p}]
        /\ known' = known \cup {p}
        /\ UNCHANGED <<settling, up, starting, stream, claimVars, taskVars,
                       historyVars, faults>>

ScanListsGraphs ==
    /\ scan.stage = "agents" /\ scan.left = {}
    /\ scan' = [stage |-> "nodes", left |-> UNION {Commands[s] : s \in Scopes \ retired}]
    /\ UNCHANGED <<vars, up, starting, streamVars, known, claimVars, taskVars,
                   historyVars, faults>>

\* start() claims once its own scan is over.
ScanEnds ==
    /\ scan.stage = "nodes" /\ scan.left = {}
    /\ scan' = Idle
    /\ starting' = FALSE
    /\ IF starting THEN AddClaim ELSE UNCHANGED claims
    /\ UNCHANGED <<vars, up, streamVars, known, replies, taskVars, historyVars, faults>>

-----------------------------------------------------------------------------
(* Claims and pushed messages.                                               *)

\* Mutant of Begin: a cancellation that overtook the delivery is not looked at.
BeginUnchecked(D) ==
    /\ task' = [d \in Deliveries |->
           IF d \notin D THEN task[d]
           ELSE IF EndpointOf(d) \in known \cap Nodes THEN "starting" ELSE "binding"]
    /\ cancelled' = cancelled

\* handleDelivery up to its first await: a delivery whose cancellation came
\* first is skipped, a known command node runs its command, and any other
\* endpoint is taken for an actor.
Begin(D) ==
    /\ task' = [d \in Deliveries |->
           IF d \notin D THEN task[d]
           ELSE IF d \in cancelled THEN "ending"
           ELSE IF EndpointOf(d) \in known \cap Nodes THEN "starting" ELSE "binding"]
    /\ cancelled' = cancelled \ D

\* processDeliveries reaches the bus.
Claim ==
    LET mine == {d \in Deliveries : /\ bundle[d[1]][d[2]] = "reserved"
                                    /\ bridgeOf[EndpointOf(d)] = Bridge}
    IN /\ claims > 0
       /\ ClaimDeliveries(Bridge)
       /\ claims' = claims - 1
       /\ replies' = replies \cup ({mine} \ {{}})
       /\ UNCHANGED <<settling, up, streamVars, scanVars, taskVars, historyVars, faults>>

\* Mutant of HandleReply: the loop does not skip a busy endpoint.
HandleReplyAlways ==
    \E D \in replies :
        /\ Begin(D)
        /\ replies' = replies \ {D}
        /\ UNCHANGED <<vars, up, streamVars, scanVars, claims, historyVars, faults>>

\* The loop over its answer starts a task for every endpoint that is not busy;
\* a second delivery for one endpoint finds the first one busy.
HandleReply ==
    \E D \in replies :
        \E T \in SUBSET {d \in D : ~Busy(EndpointOf(d))} :
            /\ \A t, u \in T : EndpointOf(t) = EndpointOf(u) => t = u
            /\ \A d \in D : \/ Busy(EndpointOf(d))
                            \/ \E t \in T : EndpointOf(t) = EndpointOf(d)
            /\ Begin(T)
            /\ replies' = replies \ {D}
            /\ UNCHANGED <<vars, up, streamVars, scanVars, claims, historyVars, faults>>

\* Mutant of Receive: what is not a bundle is taken for a cancellation.
ReceiveAsCancel ==
    /\ wire # <<>>
    /\ wire' = Tail(wire)
    /\ IF Head(wire).kind = "bundle" THEN AddClaim /\ UNCHANGED cancelled
       ELSE cancelled' = cancelled \cup {Head(wire).of} /\ UNCHANGED claims
    /\ UNCHANGED <<vars, up, scanVars, task, stream, replies, historyVars, faults>>

\* handleEventStreamMessage.
Receive ==
    /\ wire # <<>>
    /\ wire' = Tail(wire)
    /\ LET m == Head(wire)
       IN \/ /\ m.kind = "bundle"
             /\ IF EndpointOf(m.of) \in known \cap Agents /\ ~Busy(EndpointOf(m.of))
                THEN Begin({m.of}) /\ UNCHANGED claims
                ELSE AddClaim /\ UNCHANGED taskVars
             /\ UNCHANGED scan
          \/ /\ m.kind = "cancel"
             /\ cancelled' = cancelled \cup {m.of}
             /\ UNCHANGED <<task, scan, claims>>
          \/ /\ m.kind = "scope_retired"
             /\ StartScan
             /\ AddClaim
             /\ UNCHANGED taskVars
    /\ UNCHANGED <<vars, up, starting, stream, known, replies, historyVars, faults>>

-----------------------------------------------------------------------------
(* handleDelivery of an actor's delivery, step by step.                      *)

\* Every check of the handler on its way out: a cancelled delivery skips the
\* rest and only ends the turn.
Moves(d, from, to) == task[d] = from /\ task' = [task EXCEPT ![d] = to]
StopsCancelled(d, from) ==
    /\ d \in cancelled
    /\ Moves(d, from, "ending")
    /\ cancelled' = cancelled \ {d}
    /\ BusIgnores

\* Mutant of Injects: the delivery is acknowledged when the runtime gets it.
InjectsAsDone(d) ==
    /\ Moves(d, "binding", "preparing")
    /\ Report(d[1], d[2], "acknowledged")
    /\ UNCHANGED <<cancelled, historyVars>>

\* The binding is resolved; injected_to_runtime is reported and the answer,
\* which may show a settled delivery, is not read.
Injects(d) ==
    /\ Moves(d, "binding", "preparing")
    /\ Report(d[1], d[2], "injected_to_runtime")
    /\ UNCHANGED <<cancelled, historyVars>>

\* handleBundle resolves credentials and opens the session, then the turn runs.
RunsTurn(d) ==
    /\ Moves(d, "preparing", "running")
    /\ runs' = [runs EXCEPT ![d[1]] = @ + 1]
    /\ BusIgnores
    /\ UNCHANGED <<cancelled, emitted>>

\* handleBundle throws a RuntimeAuthError: the delivery is deferred.
Defers(d) ==
    /\ "unconfigured" \in Outcomes
    /\ \/ StopsCancelled(d, "preparing")
       \/ /\ d \notin cancelled
          /\ Moves(d, "preparing", "leaving")
          /\ Report(d[1], d[2], "deferred")
          /\ UNCHANGED cancelled
    /\ UNCHANGED historyVars

\* The request tool; a turn makes one request.
Asks(d) ==
    /\ task[d] = "running"
    /\ ~MadeChildRequest(d[1], d[2])
    /\ \E to \in Agents, sc \in Scopes \cup {NoScope} : EmitRequest(d[1], d[2], to, sc)
    /\ UNCHANGED <<taskVars, historyVars>>

\* A copy of the delivery is still on its way to the daemon.
InTransit(d) ==
    \/ \E i \in DOMAIN wire : wire[i] = [kind |-> "bundle", of |-> d]
    \/ \E D \in replies : d \in D
\* A turn of a model takes longer than a message, unless the daemon is slow.
OutlastsMessages(d) == InTransit(d) => "slow" \in Disturbances

\* finalizeTurn: visible output is recorded as the turn's result, silence ends
\* the turn without one, an error is left to the daemon's catch.
Finalizes(d) ==
    /\ task[d] = "running"
    /\ OutlastsMessages(d)
    /\ \/ /\ "text" \in Outcomes
          /\ Moves(d, "running", "acking")
          /\ RecordRuntimeTurnResult(d[1], d[2], "completed")
       \/ "silent" \in Outcomes /\ Moves(d, "running", "acking") /\ BusIgnores
       \/ "error" \in Outcomes /\ Moves(d, "running", "failing") /\ BusIgnores
    /\ UNCHANGED <<cancelled, historyVars>>

Acknowledges(d) ==
    /\ \/ StopsCancelled(d, "acking")
       \/ /\ d \notin cancelled
          /\ Moves(d, "acking", "ending")
          /\ Report(d[1], d[2], "acknowledged")
          /\ UNCHANGED cancelled
    /\ UNCHANGED historyVars

\* catch: a failed turn is dead-lettered, then its failure is recorded.
DeadLetters(d) ==
    /\ \/ StopsCancelled(d, "failing")
       \/ /\ d \notin cancelled
          /\ Moves(d, "failing", "recording")
          /\ Report(d[1], d[2], "dead_lettered")
          /\ UNCHANGED cancelled
    /\ UNCHANGED historyVars

\* Mutant of RecordsFailure: the failure is only logged.
RecordsFailureNot(d) ==
    /\ Moves(d, "recording", "ending")
    /\ BusIgnores
    /\ UNCHANGED <<cancelled, historyVars>>

RecordsFailure(d) ==
    /\ Moves(d, "recording", "ending")
    /\ RecordRuntimeTurnResult(d[1], d[2], "failed")
    /\ UNCHANGED <<cancelled, historyVars>>

\* Mutant of EndsTurn: the turn end is not reported.
EndsTurnSilently(d) ==
    /\ Moves(d, "ending", "leaving")
    /\ BusIgnores
    /\ UNCHANGED <<cancelled, historyVars>>

\* reportTurnEndSafely: a failing call is logged and otherwise ignored.
EndsTurn(d) ==
    /\ Moves(d, "ending", "leaving")
    /\ IF status[EndpointOf(d)] \in {"absent", "runtime_unconfigured"} THEN BusIgnores
       ELSE ReportTurnEnd(EndpointOf(d))
    /\ UNCHANGED <<cancelled, historyVars>>

\* finally: the endpoint leaves processingEndpoints.
Leaves(d) ==
    /\ Moves(d, "leaving", "none")
    /\ BusIgnores
    /\ UNCHANGED <<cancelled, historyVars>>

-----------------------------------------------------------------------------
(* handleCommandDelivery.                                                    *)

InjectsCommand(d) ==
    /\ Moves(d, "starting", "executing")
    /\ Report(d[1], d[2], "injected_to_runtime")
    /\ runs' = [runs EXCEPT ![d[1]] = @ + 1]
    /\ UNCHANGED <<cancelled, emitted>>

\* The command ended or threw: its result goes to the graph's Context, once for
\* its trigger, and wakes the actors D subscribed there.
EmitsResult(d) ==
    \/ /\ StopsCancelled(d, "executing")
       /\ UNCHANGED historyVars
    \/ /\ d \notin cancelled
       /\ Moves(d, "executing", "reporting")
       /\ emitted' = emitted \cup {d[1]}
       /\ IF d[1] \in emitted THEN BusIgnores
          ELSE \E sc \in Scopes, D \in SUBSET (Agents \cap Routable) :
                   /\ EndpointOf(d) \in Commands[sc]
                   /\ Submit([BlankEvent EXCEPT !.kind = "message",
                                                !.source = EndpointOf(d),
                                                !.scope = sc], D)
       /\ UNCHANGED <<cancelled, runs>>

ConcludesCommand(d) ==
    /\ Moves(d, "reporting", "ending")
    /\ \/ Report(d[1], d[2], "acknowledged")
       \/ Report(d[1], d[2], "dead_lettered")
    /\ UNCHANGED <<cancelled, historyVars>>

Step(d) ==
    /\ task[d] # "none"
    /\ \/ Injects(d) \/ RunsTurn(d) \/ Defers(d) \/ Finalizes(d)
       \/ Acknowledges(d) \/ DeadLetters(d) \/ RecordsFailure(d)
       \/ EndsTurn(d) \/ Leaves(d)
       \/ InjectsCommand(d) \/ EmitsResult(d) \/ ConcludesCommand(d)
    /\ Broadcast(<<>>)
    /\ UNCHANGED <<settling, up, stream, scanVars, claimVars, faults>>

-----------------------------------------------------------------------------
(* The environment.                                                          *)

daemonSame == <<up, stream, scanVars, claimVars, taskVars, historyVars>>

\* An operator, pulse or webhook wakes an endpoint.
Wakes ==
    /\ \E p \in Endpoints, sc \in Scopes \cup {NoScope} : EmitTrigger(p, sc)
    /\ Broadcast(<<>>)
    /\ UNCHANGED <<settling, daemonSame, faults>>

StopScope ==
    /\ \E s \in Scopes : RetireScope(s)
    /\ Broadcast(Rescan)
    /\ UNCHANGED <<settling, daemonSame, faults>>

\* The daemon still has the delivery, whose lease the telemetry of its turn renews, or is
\* about to fetch it.
Handled(d) ==
    /\ up
    /\ \/ task[d] # "none"
       \/ InTransit(d)
       \/ bundle[d[1]][d[2]] = "reserved" /\ (claims > 0 \/ starting \/ ~stream)

\* The lease of a delivery the daemon does not have runs out; a daemon that is
\* slow, or a machine that slept, also loses the lease of one it has.
LeaseExpires(d) ==
    /\ bundle[d[1]][d[2]] \in InFlight
    /\ ~Handled(d) \/ "slow" \in Disturbances
    /\ ExpireLease(d[1], d[2])
    /\ Broadcast(<<>>)
    /\ UNCHANGED <<settling, daemonSame, faults>>

Disturb(kind) ==
    /\ kind \in Disturbances
    /\ faults < MaxFaults
    /\ faults' = faults + 1

Crash ==
    /\ Disturb("crash")
    /\ up
    /\ up' = FALSE /\ starting' = FALSE /\ stream' = FALSE /\ wire' = <<>>
    /\ scan' = Idle /\ known' = {} /\ claims' = 0 /\ replies' = {}
    /\ task' = [d \in Deliveries |-> "none"] /\ cancelled' = {}
    /\ UNCHANGED <<vars, historyVars>>

Disconnect ==
    /\ Disturb("disconnect")
    /\ stream
    /\ stream' = FALSE /\ wire' = <<>>
    /\ UNCHANGED <<vars, up, scanVars, claimVars, taskVars, historyVars>>

\* workspace_selected, config_snapshot_requested, scope_graph_updated and the
\* like: the daemon scans again although nothing about the endpoints changed.
AsksToRescan ==
    /\ Disturb("rescan")
    /\ stream
    /\ wire' = wire \o Rescan
    /\ UNCHANGED <<vars, daemonSame>>

DaemonInit ==
    /\ Init
    /\ up = FALSE /\ starting = FALSE /\ stream = FALSE /\ wire = <<>>
    /\ scan = Idle /\ known = {} /\ claims = 0 /\ replies = {}
    /\ task = [d \in Deliveries |-> "none"] /\ cancelled = {}
    /\ emitted = {} /\ runs = [r \in Rows |-> 0]
    /\ faults = 0

Settles == SettleAbandoned /\ Broadcast(<<>>) /\ UNCHANGED <<daemonSame, faults>>

\* What the two processes do by themselves: the daemon's loops and handlers, the
\* turns and commands it runs, and the lease timer of the bus.
Proceeds ==
    \/ Start \/ OpenStream \/ ScanRegisters \/ ScanListsGraphs \/ ScanEnds
    \/ Claim \/ HandleReply \/ Receive
    \/ \E d \in Deliveries : Step(d) \/ LeaseExpires(d)

\* What others do to them.
Intrudes ==
    \/ \E d \in Deliveries :
           /\ Asks(d)
           /\ Broadcast(<<>>)
           /\ UNCHANGED <<settling, up, stream, scanVars, claimVars, faults>>
    \/ Wakes \/ StopScope \/ Crash \/ Disconnect \/ AsksToRescan

DaemonNext ==
    \/ settling = {} /\ (Proceeds \/ Intrudes)
    \/ Settles

\* The two processes together do not stop while one of them can go on.  Nothing is
\* assumed of which step is taken, nor that anybody asks, stops or disturbs.
DaemonFairness == WF_allVars((settling = {} /\ Proceeds) \/ Settles)

DaemonSpec == DaemonInit /\ [][DaemonNext]_allVars
FairDaemonSpec == DaemonSpec /\ DaemonFairness

-----------------------------------------------------------------------------
(* Properties.                                                               *)

DaemonTypeOK ==
    /\ TypeOK
    /\ up \in BOOLEAN /\ starting \in BOOLEAN /\ stream \in BOOLEAN
    /\ wire \in Seq([kind : {"bundle", "cancel", "scope_retired"},
                     of : Deliveries \cup {<<>>}])
    /\ scan \in [stage : Stages, left : SUBSET Endpoints]
    /\ known \subseteq Endpoints
    /\ claims \in 0..MaxClaims
    /\ replies \subseteq SUBSET Deliveries
    /\ task \in [Deliveries -> Phases]
    /\ cancelled \subseteq Deliveries
    /\ emitted \subseteq Rows
    /\ runs \in [Rows -> Nat]
    /\ faults \in 0..MaxFaults

\* One handler per endpoint at a time, whichever of the push and the claim path
\* started it: processingEndpoints is checked and extended without an await
\* between, and freed by the handler that took it.
OneHandlerPerEndpoint ==
    \A d, e \in Deliveries :
        task[d] # "none" /\ task[e] # "none" /\ EndpointOf(d) = EndpointOf(e) => d = e

\* How far the work of a row has come, for DeliveryPromise.
WorkStage(r) ==
    CASE queue[r] = "absent" -> "none"
      [] queue[r] = "acknowledged" -> "done"
      [] queue[r] \in {"dead_lettered", "cancelled"} ->
             IF runs[r] = 0 THEN "dropped" ELSE "failed"
      [] OTHER -> IF runs[r] = 0 THEN "owed" ELSE "running"

Promise == INSTANCE DeliveryPromise
               WITH Works <- Rows, stage <- [r \in Rows |-> WorkStage(r)], runs <- runs

\* Bus and bridge keep the promise: whatever crashes, is lost, retried or handed out twice,
\* the work of an event is run at most once - "once a Delivery enters a runtime it may
\* already have produced effects" and "is not replayed automatically" (CONTEXT.md) -, is
\* not done without having run, does not run once it is over, and is over for good.  Nor is
\* the work of a turn that failed acknowledged.
KeepsPromise ==
    /\ Promise!PromiseSpec
    /\ [](\A r \in Rows : queue[r] = "acknowledged" => result[r] # "failed")

\* A row was given up before any runtime saw it: its third lease expired.
Dropped == {r \in Rows : queue[r] = "dead_lettered" /\ runs[r] = 0}

\* Work of an attached endpoint is concluded, whatever is lost on the way: a queued row is
\* one day acknowledged, dead-lettered or cancelled.  The exception is a row behind one that
\* was dropped: its third expiry leaves the endpoint active (requeueExpiredDeliveryLeases),
\* so that nothing is handed to the endpoint until an event or a registration frees it.
EveryRowSettles ==
    \A r \in Rows :
        queue[r] = "queued" ~>
            \/ queue[r] \in FinalRow
            \/ \E g \in Dropped : g[2] = r[2] /\ status[r[2]] = "active"

\* While requests are open a moment comes when none is: each was answered, with the
\* result or the failure of the actor's turn, or cancelled with its Scope.  Requests
\* made on behalf of others end as well, and nobody waits in a circle.  The number of
\* events is bounded, so that new requests cannot go on for ever.
RequestsEnd ==
    OpenRequests # {} ~> OpenRequests = {}

\* The same, unless a delivery is given up for good before any runtime saw it.
RequestsEndUnlessDropped ==
    OpenRequests # {} ~> OpenRequests = {} \/ Dropped # {}

\* A delivery whose cancellation the daemon has received is not taken up any more, in
\* whichever order push, claim answer and cancellation came, and of one it has in hand no
\* failure is reported and no command's result emitted.  What was taken up before goes on
\* until its handler looks again: it is still injected and its turn still starts
\* (CancelledNeverStarts), and what a turn did is not undone.
CancelledIsDropped ==
    [][\A d \in Deliveries :
           d \in cancelled /\ task'[d] # task[d] =>
               task'[d] \notin {"binding", "starting", "recording", "reporting"}]_allVars

\* A delivery whose cancellation the daemon has received does not enter a runtime:
\* "Do not let that stale in-memory bundle enter either a command process or a model
\* runtime" (handleDelivery).
CancelledNeverStarts ==
    [][\A d \in cancelled : ~(task[d] = "preparing" /\ task'[d] = "running")]_allVars

\* Only a registration takes a retired endpoint back into service: it "has no
\* delivery processor" and "is excluded from future routing" (CONTEXT.md).  The end
\* of a turn that was running when its endpoint was retired does not.
RetiredUntilRegistered ==
    [][\A p \in Endpoints :
           status[p] = "retired" /\ bridgeOf'[p] = NoBridge =>
               status'[p] \in {"retired", "absent"}]_allVars
=============================================================================
