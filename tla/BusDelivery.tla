----------------------------- MODULE BusDelivery -----------------------------
(***************************************************************************)
(* The delivery core of BusStore (floe-bus/src/store.ts): events, the      *)
(* event_queue rows that address them to endpoints, the delivery bundles   *)
(* made for those rows, endpoint status, pending responses and runtime     *)
(* turn results.                                                           *)
(*                                                                         *)
(* BusStore runs in one Node process over a synchronous SQLite driver, so  *)
(* one public method of the store is one atomic step here.  Its callers -  *)
(* bridges, runtime tools, the operator's client and the lease timer - are *)
(* the environment: they may call any method, with any bundle they were    *)
(* ever given, in any order and any number of times.                       *)
(***************************************************************************)
EXTENDS Naturals, FiniteSets

CONSTANTS
    Endpoints,         \* endpoint ids
    Bridges,           \* bridge ids
    Scopes,            \* Scopes whose composition owns some Contexts
    NoEndpoint,        \* NULL source or destination endpoint
    NoBridge,          \* NULL bridge_id
    NoScope,           \* a Context that belongs to no Scope's composition
    Commands,          \* Commands[s]: the command endpoints composed in Scope s
    Kinds,             \* the kinds of event clients submit
    Reports,           \* the states bridges report for a delivery
    OperatorStatuses,  \* statuses written through POST /v1/endpoints/:id/status
    MaxEvents,         \* bound: events inserted in one behaviour
    MaxAttempts        \* bound: bundles made for one row

\* The literal 3 of reportDeliveryStatus and requeueExpiredDeliveryLeases.
AttemptLimit == 3

ClientKinds == {"message", "ask", "request", "trigger"}
ReportStates ==
    {"injected_to_runtime", "acknowledged", "dead_lettered", "deferred", "failed"}
EndpointStatuses ==
    {"absent", "idle", "queued", "active", "waiting", "error", "offline",
     "runtime_unconfigured", "retired"}

ASSUME ConstantsAssumption ==
    /\ NoEndpoint \notin Endpoints
    /\ NoBridge \notin Bridges
    /\ NoScope \notin Scopes
    /\ Commands \in [Scopes -> SUBSET Endpoints]
    /\ Kinds \subseteq ClientKinds
    /\ Reports \subseteq ReportStates
    /\ OperatorStatuses \subseteq EndpointStatuses \ {"absent"}
    /\ MaxEvents \in Nat
    /\ MaxAttempts \in Nat

Events == 1..MaxEvents
Attempts == 1..MaxAttempts
NoEvent == 0       \* a NULL event id
NoDelivery == 0    \* a NULL delivery_id

\* A queue row is one (event, destination): submitEvent queues an event at most
\* once for an endpoint.  A bundle is a row with the attempt that made it, which
\* is what delivery_id stands for here.
Rows == Events \X Endpoints

InFlight == {"reserved", "delivered_to_bridge", "injected_to_runtime"}
RowStates ==
    {"absent", "queued", "acknowledged", "dead_lettered", "cancelled"} \cup InFlight
BundleStates ==
    {"absent", "acknowledged", "dead_lettered", "cancelled", "failed", "deferred"}
        \cup InFlight
\* What reportDeliveryStatus refuses to change.
SettledBundle == {"acknowledged", "dead_lettered", "failed", "deferred", "cancelled"}
\* What a row never leaves.
FinalRow == {"acknowledged", "dead_lettered", "cancelled"}

EventRecords ==
    [ kind    : ClientKinds \cup {"result"},   \* "result" is type request.result
      source  : Endpoints \cup {NoEndpoint},
      to      : Endpoints \cup {NoEndpoint},   \* destination.kind = "endpoint"
      scope   : Scopes \cup {NoScope},         \* the Scope that owns context_id
      corr    : Events \cup {NoEvent},         \* whose correlation_id it carries
      parent  : (Events \cup {NoEvent}) \X (Attempts \cup {NoDelivery}),
      cont    : Events \cup {NoEvent},         \* request_continuation_event_id
      answers : Events \cup {NoEvent} ]        \* request_event_id

BlankEvent ==
    [ kind |-> "message", source |-> NoEndpoint, to |-> NoEndpoint,
      scope |-> NoScope, corr |-> NoEvent, parent |-> <<NoEvent, NoDelivery>>,
      cont |-> NoEvent, answers |-> NoEvent ]

VARIABLES
    last,      \* events inserted so far; 1..last are in the events table
    event,     \* event[e]: the envelope of event e
    queue,     \* queue[r]: event_queue.state of row r
    attempts,  \* attempts[r]: event_queue.attempt_count
    holder,    \* holder[r]: event_queue.delivery_id, as the attempt it names
    bundle,    \* bundle[r][n]: delivery_bundles.state of the n-th bundle of row r
    status,    \* status[p]: endpoints.status, "absent" without a row
    bridgeOf,  \* bridgeOf[p]: endpoints.bridge_id
    pending,   \* pending[e]: pending_responses.status for source event e
    result,    \* result[r]: outcome stored under runtime-turn-result:<invocation>
    retired,   \* Scopes whose status is retired
    settling   \* bundles the running registerBridge loop has still to settle

deliveryVars == <<queue, attempts, holder, bundle>>
endpointVars == <<status, bridgeOf>>
requestVars == <<last, event, pending, result>>
vars == <<deliveryVars, endpointVars, requestVars, retired, settling>>

-----------------------------------------------------------------------------
(* Helpers shared by the handlers.  A handler computes the intermediate      *)
(* queue, holder, bundle and status functions q, h, b and st that its own    *)
(* statements leave, and hands them to the helper it ends with.              *)

\* The queued row tryCreateDeliveryForEndpoint takes: the oldest of its endpoint.
IsNext(q, r) ==
    /\ q[r] = "queued"
    /\ \A e \in Events : q[<<e, r[2]>>] = "queued" => r[1] <= e

\* tryCreateDeliveryForEndpoint for each endpoint in D.  It is skipped without a
\* bridge and for a busy, failed or unconfigured endpoint.
TryCreate(D, q, h, b, st) ==
    LET open == {p \in D : /\ bridgeOf'[p] # NoBridge
                           /\ st[p] \notin {"absent", "active", "error",
                                            "runtime_unconfigured"}}
        picked == {r \in Rows : r[2] \in open /\ IsNext(q, r)}
    IN /\ \A r \in picked : attempts[r] < MaxAttempts
       /\ queue' = [r \in Rows |-> IF r \in picked THEN "reserved" ELSE q[r]]
       /\ attempts' = [r \in Rows |->
              IF r \in picked THEN attempts[r] + 1 ELSE attempts[r]]
       /\ holder' = [r \in Rows |->
              IF r \in picked THEN attempts[r] + 1 ELSE h[r]]
       /\ bundle' = [r \in Rows |-> [n \in Attempts |->
              IF r \in picked /\ n = attempts[r] + 1 THEN "reserved" ELSE b[r][n]]]
       /\ status' = [p \in Endpoints |->
              IF \E r \in picked : r[2] = p THEN "active" ELSE st[p]]

\* endpoints.status after queueEvent wrote a row for each endpoint of D.
QueuedStatus(st, D) ==
    [p \in Endpoints |->
        IF p \in D /\ st[p] \notin {"absent", "active", "runtime_unconfigured"}
        THEN "queued" ELSE st[p]]

\* The row update keyed by delivery_id: the row moves only while it still holds
\* the n-th bundle.
MoveRow(r, n, s) == [queue EXCEPT ![r] = IF holder[r] = n THEN s ELSE @]
\* Mutant of FreeRow: the row is queued again without clearing delivery_id.
FreeRowKeepingDelivery(r, n) == holder
FreeRow(r, n) == [holder EXCEPT ![r] = IF @ = n THEN NoDelivery ELSE @]
MoveBundle(r, n, s) == [bundle EXCEPT ![r][n] = s]

SetStatus(p, s) == [status EXCEPT ![p] = IF @ = "absent" THEN @ ELSE s]

\* The status reportTurnEnd computes from the open waits and the queue.
TurnEndStatus(p, q, pend) ==
    IF \E e \in 1..last : pend[e] = "pending" /\ event[e].source = p
    THEN "waiting"
    ELSE IF \E e \in Events : q[<<e, p>>] \in {"queued"} \cup InFlight
         THEN "queued" ELSE "idle"

-----------------------------------------------------------------------------
(* Turn results and the return of a request.                                 *)

\* The request an invocation concludes: the one that triggered it, or the one
\* whose child request's result resumed it.
ConcludedRequest(trigger) ==
    IF event[trigger].kind = "request" THEN trigger
    ELSE IF event[trigger].kind = "result" THEN event[trigger].cont
    ELSE NoEvent

MadeChildRequest(r, n) ==
    \E e \in 1..last : /\ event[e].kind = "request"
                       /\ event[e].source = r[2]
                       /\ event[e].parent = <<r[1], n>>

\* The exact correlated request this result returns to its requester.
ReturnsRequest(r, n) ==
    LET req == ConcludedRequest(r[1])
    IN /\ req # NoEvent
       /\ pending[req] = "pending"
       /\ ~MadeChildRequest(r, n)
       /\ event[req].kind = "request"
       /\ event[req].to = r[2]

\* The return goes to the Context of the requesting turn, or to the trigger's
\* when the requester does not participate there.
ReturnScopes(req, trigger) ==
    {event[trigger].scope} \cup
        (IF event[req].parent[1] = NoEvent THEN {}
         ELSE {event[event[req].parent[1]].scope})

ReturnEvent(req, sc) ==
    [ BlankEvent EXCEPT !.kind = "result", !.to = event[req].source,
                        !.scope = sc, !.corr = req,
                        !.cont = event[req].cont, !.answers = req ]

\* Mutant of Answered: the wait is left open.
AnsweredButPending(req) == pending
Answered(req) == [pending EXCEPT ![req] = "resolved"]

\* recordRuntimeTurnResult, after statements that left q, h, b and st.  One
\* result per invocation; the first one returns the request it concludes.
RecordTurnResult(r, n, outcome, q, h, b, st) ==
    IF result[r] # "none"
    THEN TryCreate({}, q, h, b, st) /\ UNCHANGED requestVars
    ELSE /\ result' = [result EXCEPT ![r] = outcome]
         /\ IF ReturnsRequest(r, n)
            THEN LET req == ConcludedRequest(r[1])
                     e == last + 1
                     w == event[req].source
                 IN /\ e <= MaxEvents
                    /\ last' = e
                    /\ \E sc \in ReturnScopes(req, r[1]) :
                           event' = [event EXCEPT ![e] = ReturnEvent(req, sc)]
                    /\ pending' = Answered(req)
                    /\ TryCreate({w}, [q EXCEPT ![<<e, w>>] = "queued"], h, b,
                                 QueuedStatus(st, {w}))
            ELSE /\ pending' = [pending EXCEPT ![r[1]] =
                        IF @ = "pending" /\ event[r[1]].kind # "request"
                        THEN "resolved" ELSE @]
                 /\ TryCreate({}, q, h, b, st)
                 /\ UNCHANGED <<last, event>>

-----------------------------------------------------------------------------
(* Events enter the store.                                                   *)

OpenRequests ==
    {e \in 1..last : pending[e] = "pending" /\ event[e].kind = "request"}

\* Bound: a return event keeps a slot for every open request.
Room(k) ==
    last + Cardinality(OpenRequests) + (IF k = "request" THEN 2 ELSE 1) <= MaxEvents

\* resolvePendingResponsesForIncoming: which waits of the addressed endpoint the
\* incoming event x (already in ev) ends.
EndsWait(ev, x, e) ==
    /\ ev[x].to # NoEndpoint
    /\ ev[e].source = ev[x].to
    /\ \/ ev[e].kind = "ask"
       \/ ev[e].kind = "request" /\ ev[x].corr = e /\ ev[x].source = ev[e].to

\* submitEvent and emitTriggerEvent: insert, queue one row per destination,
\* open and end waits, then try to deliver.  rec.corr = last + 1 is a request's
\* own correlation id.
Submit(rec, D) ==
    LET x == last + 1
        ev == [event EXCEPT ![x] = rec]
        opened == [pending EXCEPT ![x] =
                      IF rec.kind \in {"ask", "request"} THEN "pending" ELSE @]
    IN /\ Room(rec.kind)
       /\ UNCHANGED <<bridgeOf, result, retired>>
       /\ last' = x
       /\ event' = ev
       /\ pending' = [e \in Events |->
              IF opened[e] = "pending" /\ rec.kind # "trigger" /\ EndsWait(ev, x, e)
              THEN "resolved" ELSE opened[e]]
       /\ TryCreate(D,
                    [r \in Rows |-> IF r[1] = x /\ r[2] \in D THEN "queued"
                                    ELSE queue[r]],
                    holder, bundle, QueuedStatus(status, D))

\* resolveDestinations never routes to a retired endpoint.
Routable == {p \in Endpoints : status[p] # "retired"}

\* POST /v1/events/emit: a message (or, with an open response expected, an ask)
\* to one endpoint, or to the endpoints a Context or broadcast selects.
EmitEvent(k, src, sc) ==
    /\ k \in Kinds \cap {"message", "ask"}
    /\ \/ \E p \in Endpoints, c \in OpenRequests \cup {NoEvent} :
              Submit([BlankEvent EXCEPT !.kind = k, !.source = src, !.to = p,
                                        !.scope = sc, !.corr = c],
                     {p} \cap Routable)
       \/ \E D \in SUBSET Routable :
              Submit([BlankEvent EXCEPT !.kind = k, !.source = src, !.scope = sc], D)

\* The runtime's request tool, called in the turn of the n-th bundle of row r.
EmitRequest(r, n, to, sc) ==
    /\ "request" \in Kinds
    /\ bundle[r][n] # "absent"
    /\ Submit([BlankEvent EXCEPT !.kind = "request", !.source = r[2], !.to = to,
                                 !.scope = sc, !.corr = last + 1,
                                 !.parent = <<r[1], n>>,
                                 !.cont = ConcludedRequest(r[1])],
              {to} \cap Routable)

\* emitTriggerEvent: a pulse, webhook or graph trigger wakes one endpoint.
EmitTrigger(p, sc) ==
    /\ "trigger" \in Kinds
    /\ Submit([BlankEvent EXCEPT !.kind = "trigger", !.to = p, !.scope = sc],
              {p} \cap Routable)

-----------------------------------------------------------------------------
(* The bridge's calls.                                                       *)

\* claimDeliveries: every reserved bundle of the bridge's endpoints.
ClaimDeliveries(br) ==
    LET mine == {r \in Rows : bridgeOf[r[2]] = br}
    IN /\ bundle' = [r \in Rows |-> [n \in Attempts |->
              IF r \in mine /\ bundle[r][n] = "reserved"
              THEN "delivered_to_bridge" ELSE bundle[r][n]]]
       /\ queue' = [r \in Rows |->
              IF /\ r \in mine
                 /\ holder[r] # NoDelivery
                 /\ queue[r] = "reserved"
                 /\ bundle[r][holder[r]] = "reserved"
              THEN "delivered_to_bridge" ELSE queue[r]]
       /\ UNCHANGED <<attempts, holder, endpointVars, requestVars, retired>>

\* Mutant of Reportable: "cancelled" is missing from the settled states.
ReportableWhenCancelled(r, n, s) ==
    /\ s \in Reports
    /\ bundle[r][n] \notin (SettledBundle \ {"cancelled"}) \cup {"absent"}

\* reportDeliveryStatus ignores a bundle that is already settled.
Reportable(r, n, s) ==
    /\ s \in Reports
    /\ bundle[r][n] \notin SettledBundle \cup {"absent"}

\* injected_to_runtime, acknowledged and dead_lettered write the bundle and the
\* row that holds it, and leave the endpoint alone.
ReportProgress(r, n, s) ==
    /\ Reportable(r, n, s)
    /\ s \in {"injected_to_runtime", "acknowledged", "dead_lettered"}
    /\ bundle' = MoveBundle(r, n, s)
    /\ queue' = MoveRow(r, n, s)
    /\ UNCHANGED <<attempts, holder, endpointVars, requestVars, retired>>

\* deferred: the row is queued again and the endpoint waits for a runtime.
ReportDeferred(r, n) ==
    /\ Reportable(r, n, "deferred")
    /\ bundle' = MoveBundle(r, n, "deferred")
    /\ queue' = MoveRow(r, n, "queued")
    /\ holder' = FreeRow(r, n)
    /\ status' = IF bridgeOf[r[2]] = NoBridge THEN status
                 ELSE SetStatus(r[2], "runtime_unconfigured")
    /\ UNCHANGED <<attempts, bridgeOf, requestVars, retired>>

\* The last attempt is dead-lettered and keeps its row; an earlier one fails
\* and frees it.
Outcome(n) == IF n >= AttemptLimit THEN "dead_lettered" ELSE "failed"
\* Mutant of RowAfterFailure: the row is given the bundle's state.
RowAfterFailureAsBundle(r, n) == MoveRow(r, n, Outcome(n))
RowAfterFailure(r, n) ==
    MoveRow(r, n, IF n >= AttemptLimit THEN "dead_lettered" ELSE "queued")
HolderAfterFailure(r, n) == IF n >= AttemptLimit THEN holder ELSE FreeRow(r, n)

\* failed: no bridge in the repository reports it, the API accepts it.
ReportFailed(r, n) ==
    /\ Reportable(r, n, "failed")
    /\ bundle' = MoveBundle(r, n, Outcome(n))
    /\ queue' = RowAfterFailure(r, n)
    /\ holder' = HolderAfterFailure(r, n)
    /\ UNCHANGED <<attempts, endpointVars, requestVars, retired>>

\* POST /v1/runtime/turn-result, for any bundle the store still knows.
RecordRuntimeTurnResult(r, n, outcome) ==
    /\ bundle[r][n] # "absent"
    /\ UNCHANGED <<bridgeOf, retired>>
    /\ RecordTurnResult(r, n, outcome, queue, holder, bundle, status)

\* reportTurnEnd leaves an unconfigured endpoint alone; otherwise it rewrites
\* the status and tries the next delivery.
ReportTurnEnd(p) ==
    /\ status[p] \notin {"absent", "runtime_unconfigured"}
    /\ UNCHANGED <<bridgeOf, requestVars, retired>>
    /\ TryCreate({p}, queue, holder, bundle,
                 SetStatus(p, TurnEndStatus(p, queue, pending)))

-----------------------------------------------------------------------------
(* Endpoint administration.                                                  *)

\* registerEndpoint is an upsert: a second registration rewrites the status of
\* an endpoint that may be in the middle of a turn.
RegisterEndpoint(p, br, s) ==
    /\ bridgeOf' = [bridgeOf EXCEPT ![p] = br]
    /\ UNCHANGED <<requestVars, retired>>
    /\ TryCreate({p}, queue, holder, bundle, [status EXCEPT ![p] = s])

\* Mutant of UpdateEndpointStatus: only idle delivers.
UpdateEndpointStatusIdleOnly(p, s) ==
    /\ UNCHANGED <<bridgeOf, requestVars, retired>>
    /\ TryCreate(IF s = "idle" THEN {p} ELSE {}, queue, holder, bundle,
                 SetStatus(p, s))

\* updateEndpointStatus delivers on idle and waiting only.
UpdateEndpointStatus(p, s) ==
    /\ UNCHANGED <<bridgeOf, requestVars, retired>>
    /\ TryCreate(IF s \in {"idle", "waiting"} THEN {p} ELSE {}, queue, holder,
                 bundle, SetStatus(p, s))

\* Binding a runtime profile wakes an unconfigured endpoint; clearing it makes
\* the endpoint unconfigured whatever it is doing.
BindRuntime(p) ==
    status[p] = "runtime_unconfigured" /\ UpdateEndpointStatus(p, "idle")
ClearRuntimeBinding(p) ==
    status[p] # "absent" /\ UpdateEndpointStatus(p, "runtime_unconfigured")
OperatorSetsStatus(p, s) == status[p] # "absent" /\ UpdateEndpointStatus(p, s)

RetireEndpoint(p) ==
    /\ status[p] \in {"idle", "offline", "error", "runtime_unconfigured", "retired"}
    /\ status' = [status EXCEPT ![p] = "retired"]
    /\ bridgeOf' = [bridgeOf EXCEPT ![p] = NoBridge]
    /\ UNCHANGED <<deliveryVars, requestVars, retired>>

\* deleteEndpoint drops the endpoint and its rows; bundles stay.
DeleteEndpoint(p) ==
    /\ status[p] # "absent"
    /\ status' = [status EXCEPT ![p] = "absent"]
    /\ bridgeOf' = [bridgeOf EXCEPT ![p] = NoBridge]
    /\ queue' = [r \in Rows |-> IF r[2] = p THEN "absent" ELSE queue[r]]
    /\ holder' = [r \in Rows |-> IF r[2] = p THEN NoDelivery ELSE holder[r]]
    /\ UNCHANGED <<attempts, bundle, requestVars, retired>>

-----------------------------------------------------------------------------
(* Lease expiry, bridge restart and Scope retirement.                        *)

\* failUnknownRuntimeDelivery: ownership of an injected turn was lost.
FailUnknown(r, n) ==
    /\ bundle[r][n] = "injected_to_runtime"
    /\ UNCHANGED <<bridgeOf, retired>>
    /\ RecordTurnResult(r, n, "failed", MoveRow(r, n, "dead_lettered"), holder,
                        MoveBundle(r, n, "dead_lettered"), SetStatus(r[2], "error"))

\* An expired lease before injection: a transport failure.  Below the limit the
\* endpoint is set idle, so that the row it gets back is delivered again.
RetryTransport(r, n) ==
    /\ UNCHANGED <<bridgeOf, requestVars, retired>>
    /\ IF n >= AttemptLimit
       THEN TryCreate({}, RowAfterFailure(r, n), HolderAfterFailure(r, n),
                      MoveBundle(r, n, Outcome(n)), status)
       ELSE TryCreate({r[2]}, RowAfterFailure(r, n), HolderAfterFailure(r, n),
                      MoveBundle(r, n, Outcome(n)), SetStatus(r[2], "idle"))

\* Mutant of ExpireLease: an injected turn is retried like any other bundle.
ExpireLeaseRetryingAll(r, n) ==
    bundle[r][n] \in InFlight /\ RetryTransport(r, n)

\* requeueExpiredDeliveryLeases for one expired bundle.  Time is abstracted: any
\* lease may run out while its bundle is in flight.
ExpireLease(r, n) ==
    \/ FailUnknown(r, n)
    \/ bundle[r][n] \in {"reserved", "delivered_to_bridge"} /\ RetryTransport(r, n)

\* registerBridge settles every turn the previous process had injected.  The
\* loop runs to its end before the store takes another call: settling holds
\* what is left, and every other action waits for it.
RegisterBridge(br) ==
    /\ settling' = {d \in Rows \X Attempts :
                       /\ bundle[d[1]][d[2]] = "injected_to_runtime"
                       /\ bridgeOf[d[1][2]] = br}
    /\ UNCHANGED <<deliveryVars, endpointVars, requestVars, retired>>

SettleAbandoned ==
    \E d \in settling : /\ FailUnknown(d[1], d[2])
                        /\ settling' = settling \ {d}

\* retireScope: cancel the rows, bundles and waits of the Scope's Contexts,
\* retire its command endpoints, end the turn of the others it interrupted.
RetireScope(s) ==
    LET own == {r \in Rows : r[1] <= last /\ event[r[1]].scope = s}
        stopped == {p \in Endpoints \ Commands[s] :
                       \E r \in own, n \in Attempts :
                           r[2] = p /\ bundle[r][n] \in InFlight}
        ended == {p \in stopped : status[p] \notin {"absent", "runtime_unconfigured"}}
        q == [r \in Rows |-> IF r \in own /\ queue[r] \in {"queued"} \cup InFlight
                             THEN "cancelled" ELSE queue[r]]
        b == [r \in Rows |-> [n \in Attempts |->
                 IF r \in own /\ bundle[r][n] \in InFlight
                 THEN "cancelled" ELSE bundle[r][n]]]
        pend == [e \in Events |->
                    IF e <= last /\ event[e].scope = s /\ pending[e] = "pending"
                    THEN "cancelled" ELSE pending[e]]
    IN /\ s \notin retired
       /\ retired' = retired \cup {s}
       /\ pending' = pend
       /\ bridgeOf' = [p \in Endpoints |->
              IF p \in Commands[s] THEN NoBridge ELSE bridgeOf[p]]
       /\ TryCreate(ended, q, holder, b,
              [p \in Endpoints |->
                  IF p \in Commands[s] /\ status[p] # "absent" THEN "retired"
                  ELSE IF p \in ended THEN TurnEndStatus(p, q, pend)
                  ELSE status[p]])
       /\ UNCHANGED <<last, event, result>>

-----------------------------------------------------------------------------

Init ==
    /\ last = 0
    /\ event = [e \in Events |-> BlankEvent]
    /\ queue = [r \in Rows |-> "absent"]
    /\ attempts = [r \in Rows |-> 0]
    /\ holder = [r \in Rows |-> NoDelivery]
    /\ bundle = [r \in Rows |-> [n \in Attempts |-> "absent"]]
    /\ status = [p \in Endpoints |-> "absent"]
    /\ bridgeOf = [p \in Endpoints |-> NoBridge]
    /\ pending = [e \in Events |-> "none"]
    /\ result = [r \in Rows |-> "none"]
    /\ retired = {}
    /\ settling = {}

ClientCall ==
    \E sc \in Scopes \cup {NoScope}, p \in Endpoints :
        \/ \E k \in ClientKinds : EmitEvent(k, p, sc)
        \/ EmitTrigger(p, sc)
        \/ \E r \in Rows, n \in Attempts : EmitRequest(r, n, p, sc)

BridgeCall ==
    \/ \E br \in Bridges : ClaimDeliveries(br)
    \/ \E p \in Endpoints : ReportTurnEnd(p)
    \/ \E r \in Rows, n \in Attempts :
          \/ \E s \in Reports : ReportProgress(r, n, s)
          \/ ReportDeferred(r, n)
          \/ ReportFailed(r, n)
          \/ \E outcome \in {"completed", "failed"} :
                 RecordRuntimeTurnResult(r, n, outcome)

EndpointCall ==
    \E p \in Endpoints :
        \/ \E br \in Bridges \cup {NoBridge}, s \in {"idle", "runtime_unconfigured"} :
               RegisterEndpoint(p, br, s)
        \/ BindRuntime(p)
        \/ ClearRuntimeBinding(p)
        \/ \E s \in OperatorStatuses : OperatorSetsStatus(p, s)
        \/ RetireEndpoint(p)
        \/ DeleteEndpoint(p)

Next ==
    \/ /\ settling = {}
       /\ \/ /\ \/ ClientCall
                \/ BridgeCall
                \/ EndpointCall
                \/ \E r \in Rows, n \in Attempts : ExpireLease(r, n)
                \/ \E s \in Scopes : RetireScope(s)
             /\ UNCHANGED settling
          \/ \E br \in Bridges : RegisterBridge(br)
    \/ SettleAbandoned

Spec == Init /\ [][Next]_vars

-----------------------------------------------------------------------------
(* Type correctness and the properties the runs check and the proofs cover.  *)

TypeOK ==
    /\ last \in 0..MaxEvents
    /\ event \in [Events -> EventRecords]
    /\ queue \in [Rows -> RowStates]
    /\ attempts \in [Rows -> 0..MaxAttempts]
    /\ holder \in [Rows -> 0..MaxAttempts]
    /\ bundle \in [Rows -> [Attempts -> BundleStates]]
    /\ status \in [Endpoints -> EndpointStatuses]
    /\ bridgeOf \in [Endpoints -> Bridges \cup {NoBridge}]
    /\ pending \in [Events -> {"none", "pending", "resolved", "cancelled"}]
    /\ result \in [Rows -> {"none", "completed", "failed"}]
    /\ retired \subseteq Scopes
    /\ settling \subseteq Rows \X Attempts

\* A row that a bundle holds is in that bundle's state, and only the bundle of
\* its latest attempt can hold it: the event_queue and delivery_bundles tables,
\* written by separate statements of eight handlers, never disagree.
RowFollowsBundle(q, a, h, b) ==
    \A r \in Rows :
        /\ q[r] \in {"absent", "queued"} => h[r] = NoDelivery
        /\ h[r] # NoDelivery => h[r] = a[r] /\ b[r][a[r]] = q[r]
        /\ q[r] \in InFlight \cup {"acknowledged", "dead_lettered"} =>
               h[r] # NoDelivery

\* Of the bundles made for an event queued at an endpoint at most one is live or
\* was concluded: every other ended as a transport failure or a deferral.
NoSecondOwner(q, a, h, b) ==
    \A r \in Rows, n \in Attempts :
        /\ b[r][n] = "absent" <=> n > a[r]
        /\ q[r] # "absent" /\ n <= a[r] /\ n # h[r] => b[r][n] \in {"failed", "deferred"}

\* No row precedes its event.
RowsHaveEvents(q, a, l) == \A r \in Rows : r[1] > l => q[r] = "absent" /\ a[r] = 0

\* The three together: event_queue, delivery_bundles and events agree.
DeliveryTablesAgree ==
    /\ RowFollowsBundle(queue, attempts, holder, bundle)
    /\ NoSecondOwner(queue, attempts, holder, bundle)
    /\ RowsHaveEvents(queue, attempts, last)

\* Work is never forgotten: an attached endpoint that is idle, waiting or queued
\* has no queued row left, because every handler that queues a row or frees an
\* endpoint ends by trying the next delivery.
NoForgottenWork ==
    \A r \in Rows :
        queue[r] = "queued" /\ bridgeOf[r[2]] # NoBridge =>
            status[r[2]] \notin {"idle", "waiting", "queued"}

\* What is settled stays settled: no late report, lease expiry, restart or Scope
\* retirement changes a concluded bundle, and a concluded row can only be dropped
\* with its endpoint.  A late acknowledgement of a cancelled delivery is ignored.
Settled(q, b) ==
    /\ \A r \in Rows, n \in Attempts :
           bundle[r][n] \in SettledBundle => b[r][n] = bundle[r][n]
    /\ \A r \in Rows : queue[r] \in FinalRow => q[r] \in {queue[r], "absent"}

SettledIsFinal == [][Settled(queue', bundle')]_vars

\* A turn that entered a runtime may have had effects, so its event is never
\* handed out again: while a bundle of a row is injected, no later bundle is made
\* for the row, and by SettledIsFinal its end is final.  It holds as long as no
\* bridge reports an injected delivery as deferred or failed.
InjectedRows == {r \in Rows : \E n \in Attempts : bundle[r][n] = "injected_to_runtime"}

NoReplayAfterInjection ==
    [][\A r \in InjectedRows : attempts'[r] = attempts[r] /\ queue'[r] # "queued"]_vars

\* A request is answered at most once, to its requester, after a turn of the
\* addressed actor concluded, and its wait is over then.
RequestAnsweredOnce ==
    \A e \in 1..last : event[e].kind = "result" =>
        LET req == event[e].answers
        IN /\ pending[req] = "resolved"
           /\ event[e].to = event[req].source
           /\ \E r \in Rows : r[2] = event[req].to /\ result[r] # "none"
           /\ \A f \in 1..last :
                  event[f].kind = "result" /\ event[f].answers = req => f = e
=============================================================================
