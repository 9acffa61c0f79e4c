---------------------------- MODULE BusQueueProofs ----------------------------
(***************************************************************************)
(* Further proofs about BusDelivery, on top of the invariant of            *)
(* BusDeliveryProofs: no endpoint is left with work that nobody hands out, *)
(* and a request is answered at most once.                                 *)
(***************************************************************************)
EXTENDS BusDeliveryProofs

\* A set of natural numbers that is not empty has a least member: of the intervals
\* that end at its members, one contains no other.
LEMMA LeastNat ==
    ASSUME NEW S \in SUBSET Nat, S # {}
    PROVE  \E m \in S : \A k \in S : m <= k
<1> DEFINE T == {1..n : n \in S}
<1>1. T \subseteq FiniteSubsetsOf(Nat) /\ T # {}
  <2>1. ASSUME NEW n \in S PROVE 1..n \in FiniteSubsetsOf(Nat)
    <3>1. IsFiniteSet(1..n)
      BY FS_Interval
    <3> QED  BY <3>1 DEF FiniteSubsetsOf
  <2> QED  BY <2>1
<1>2. PICK x \in T : \A y \in T : <<y, x>> \notin StrictSubsetOrdering(Nat)
  <2> HIDE DEF T
  <2> QED  BY <1>1, FS_StrictSubsetOrderingWellFounded, WFMin
<1>3. PICK m \in S : x = 1..m
  OBVIOUS
<1>4. ASSUME NEW k \in S PROVE m <= k
  <2> SUFFICES ASSUME k < m PROVE FALSE
    OBVIOUS
  <2>1. 1..k \in T /\ 1..k \subseteq 1..m /\ m \in 1..m /\ m \notin 1..k
    OBVIOUS
  <2>2. <<1..k, 1..m>> \in StrictSubsetOrdering(Nat)
    BY <2>1 DEF StrictSubsetOrdering
  <2> QED  BY <1>2, <1>3, <2>1, <2>2
<1> QED  BY <1>4

-----------------------------------------------------------------------------
(* No forgotten work.                                                        *)

Waiting == {"idle", "waiting", "queued"}

\* An endpoint with a queued row has an oldest one, which TryCreate takes.
LEMMA OldestQueued ==
    ASSUME NEW q, NEW r \in Rows, q[r] = "queued"
    PROVE  \E x \in Rows : x[2] = r[2] /\ IsNext(q, x)
<1> DEFINE S == {e \in Events : q[<<e, r[2]>>] = "queued"}
<1>1. r = <<r[1], r[2]>> /\ r[1] \in Events /\ r[2] \in Endpoints
  BY DEF Rows
<1>2. r[1] \in S /\ S \in SUBSET Nat
  BY <1>1 DEF Events
<1>3. PICK m \in S : \A k \in S : m <= k
  BY <1>2, LeastNat
<1>4. <<m, r[2]>> \in Rows /\ IsNext(q, <<m, r[2]>>)
  BY <1>1, <1>3 DEF Rows, IsNext
<1> QED  BY <1>4

\* After TryCreate no endpoint it was called for is left with a queued row while it
\* could take one; the others are as the handler left them.
LEMMA TryCreateServes ==
    ASSUME NEW D, NEW q, NEW h, NEW b, NEW st,
           TryCreate(D, q, h, b, st),
           \A r \in Rows :
               q[r] = "queued" /\ bridgeOf'[r[2]] # NoBridge /\ r[2] \notin D =>
                   st[r[2]] \notin Waiting
    PROVE  NoForgottenWork'
<1> DEFINE open == {p \in D : /\ bridgeOf'[p] # NoBridge
                              /\ st[p] \notin {"absent", "active", "error",
                                               "runtime_unconfigured"}}
           picked == {r \in Rows : r[2] \in open /\ IsNext(q, r)}
<1>1. /\ queue' = [r \in Rows |-> IF r \in picked THEN "reserved" ELSE q[r]]
      /\ status' = [p \in Endpoints |->
             IF \E r \in picked : r[2] = p THEN "active" ELSE st[p]]
  BY DEF TryCreate
<1>2. ASSUME NEW r \in Rows, queue'[r] = "queued", bridgeOf'[r[2]] # NoBridge
      PROVE  status'[r[2]] \notin Waiting
  <2>1. q[r] = "queued" /\ r[2] \in Endpoints
    <3> HIDE DEF picked
    <3> QED  BY <1>1, <1>2 DEF Rows
  <2>2. CASE r[2] \in D /\ st[r[2]] \in Waiting
    <3>1. r[2] \in open
      BY <1>2, <2>2 DEF Waiting
    <3>2. \E x \in picked : x[2] = r[2]
      BY <2>1, <3>1, OldestQueued
    <3>3. status'[r[2]] = "active"
      <4> HIDE DEF picked
      <4> QED  BY <1>1, <2>1, <3>2
    <3> QED  BY <3>3 DEF Waiting
  <2>3. CASE ~(r[2] \in D /\ st[r[2]] \in Waiting)
    <3>1. st[r[2]] \notin Waiting
      BY <1>2, <2>1, <2>3
    <3>2. status'[r[2]] \in {"active", st[r[2]]}
      <4> HIDE DEF picked
      <4> QED  BY <1>1, <2>1
    <3> QED  BY <3>1, <3>2 DEF Waiting
  <2> QED  BY <2>2, <2>3
<1> QED  BY <1>2 DEF NoForgottenWork, Waiting

\* A handler that ends in TryCreate keeps the invariant when the rows of the other
\* endpoints were queued before and it leaves their status alone, or sets one in
\* which nothing is expected of them.
LEMMA TryCreateKeepsWork ==
    ASSUME NoForgottenWork, NEW D, NEW q, NEW h, NEW b, NEW st,
           TryCreate(D, q, h, b, st),
           \A r \in Rows :
               q[r] = "queued" /\ bridgeOf'[r[2]] # NoBridge /\ r[2] \notin D =>
                   /\ queue[r] = "queued" /\ bridgeOf[r[2]] # NoBridge
                   /\ st[r[2]] = status[r[2]] \/ st[r[2]] \notin Waiting
    PROVE  NoForgottenWork'
<1>1. \A r \in Rows :
          q[r] = "queued" /\ bridgeOf'[r[2]] # NoBridge /\ r[2] \notin D =>
              st[r[2]] \notin Waiting
  BY DEF NoForgottenWork, Waiting
<1> QED  BY <1>1, TryCreateServes

LEMMA SetStatusElsewhere ==
    ASSUME TypeOK, NEW p \in Endpoints, NEW s, NEW x \in Endpoints
    PROVE  SetStatus(p, s)[x] \in {status[x]} \cup (IF x = p THEN {s} ELSE {})
BY DEF TypeOK, SetStatus

\* A turn result queues at most the return of a request, for its requester.
LEMMA RecordKeepsWork ==
    ASSUME NoForgottenWork, NEW r \in Rows, NEW n, NEW outcome,
           NEW q \in [Rows -> RowStates], NEW h, NEW b, NEW st,
           RecordTurnResult(r, n, outcome, q, h, b, st),
           UNCHANGED bridgeOf,
           \A x \in Rows : q[x] = "queued" => queue[x] = "queued",
           \A x \in Endpoints : st[x] = status[x] \/ st[x] \notin Waiting
    PROVE  NoForgottenWork'
<1> DEFINE w == event[ConcludedRequest(r[1])].source
           q1 == [q EXCEPT ![<<last + 1, w>>] = "queued"]
           st1 == QueuedStatus(st, {w})
<1>1. TryCreate({}, q, h, b, st) \/ TryCreate({w}, q1, h, b, st1)
  BY DEF RecordTurnResult
<1>2. \A x \in Rows : x[2] \in Endpoints
  BY DEF Rows
<1>3. CASE TryCreate({}, q, h, b, st)
  BY <1>2, <1>3, TryCreateKeepsWork
<1>4. CASE TryCreate({w}, q1, h, b, st1)
  <2>1. \A x \in Rows : x[2] # w => q1[x] = q[x]
    BY DEF Rows
  <2>2. \A x \in Endpoints : x # w => st1[x] = st[x]
    BY DEF QueuedStatus
  <2> HIDE DEF w, q1, st1
  <2> QED  BY <1>2, <1>4, <2>1, <2>2, TryCreateKeepsWork
<1> QED  BY <1>1, <1>3, <1>4

LEMMA SubmitKeepsWork ==
    ASSUME NoForgottenWork, NEW rec, NEW D \in SUBSET Endpoints, Submit(rec, D)
    PROVE  NoForgottenWork'
<1> DEFINE q1 == [r \in Rows |-> IF r[1] = last + 1 /\ r[2] \in D THEN "queued"
                                 ELSE queue[r]]
           st1 == QueuedStatus(status, D)
<1>1. TryCreate(D, q1, holder, bundle, st1) /\ UNCHANGED bridgeOf
  BY DEF Submit
<1>2. \A r \in Rows : r[2] \notin D => q1[r] = queue[r]
  OBVIOUS
<1>3. \A r \in Rows : r[2] \notin D => st1[r[2]] = status[r[2]]
  BY DEF QueuedStatus, Rows
<1> HIDE DEF q1, st1
<1> QED  BY <1>1, <1>2, <1>3, TryCreateKeepsWork

\* No handler leaves work behind, given that no delivery is reported failed and no
\* operator writes the status that the store itself gives to an endpoint with work.
WorkIsHandedOut == "failed" \notin Reports /\ "queued" \notin OperatorStatuses

LEMMA BridgeCallKeepsWork ==
    ASSUME TypeOK, NoForgottenWork, WorkIsHandedOut, BridgeCall
    PROVE  NoForgottenWork'
<1>1. ASSUME NEW br, ClaimDeliveries(br)
      PROVE  NoForgottenWork'
  <2>1. \A r \in Rows : queue'[r] = "queued" => queue[r] = "queued"
    BY <1>1 DEF ClaimDeliveries
  <2> QED  BY <1>1, <2>1 DEF ClaimDeliveries, endpointVars, NoForgottenWork
<1>2. ASSUME NEW p \in Endpoints, ReportTurnEnd(p)
      PROVE  NoForgottenWork'
  <2> DEFINE st1 == SetStatus(p, TurnEndStatus(p, queue, pending))
  <2>1. TryCreate({p}, queue, holder, bundle, st1) /\ UNCHANGED bridgeOf
    BY <1>2 DEF ReportTurnEnd
  <2>2. \A r \in Rows : r[2] # p => st1[r[2]] = status[r[2]]
    BY SetStatusElsewhere DEF Rows
  <2> HIDE DEF st1
  <2> QED  BY <2>1, <2>2, TryCreateKeepsWork
<1>3. ASSUME NEW r \in Rows, NEW n, NEW s, ReportProgress(r, n, s)
      PROVE  NoForgottenWork'
  <2>1. \A x \in Rows : queue'[x] = "queued" => queue[x] = "queued"
    BY <1>3 DEF ReportProgress, MoveRow, TypeOK
  <2> QED  BY <1>3, <2>1 DEF ReportProgress, endpointVars, NoForgottenWork
<1>4. ASSUME NEW r \in Rows, NEW n, ReportDeferred(r, n)
      PROVE  NoForgottenWork'
  <2> SUFFICES ASSUME NEW x \in Rows, queue'[x] = "queued", bridgeOf'[x[2]] # NoBridge
               PROVE  status'[x[2]] \notin Waiting
    BY DEF NoForgottenWork, Waiting
  <2>1. x[2] \in Endpoints /\ r[2] \in Endpoints /\ bridgeOf' = bridgeOf
    BY <1>4 DEF Rows, ReportDeferred
  <2>2. CASE x = r
    <3>1. status'[r[2]] \in {"absent", "runtime_unconfigured"}
      BY <1>4, <2>1, <2>2 DEF ReportDeferred, SetStatus, TypeOK
    <3> QED  BY <2>2, <3>1 DEF Waiting
  <2>3. CASE x # r
    <3>1. queue[x] = "queued"
      BY <1>4, <2>3 DEF ReportDeferred, MoveRow, TypeOK
    <3>2. status'[x[2]] \in {status[x[2]], "runtime_unconfigured"}
      BY <1>4, <2>1, SetStatusElsewhere DEF ReportDeferred
    <3> QED  BY <2>1, <3>1, <3>2 DEF NoForgottenWork, Waiting
  <2> QED  BY <2>2, <2>3
<1>5. ASSUME NEW r \in Rows, NEW n, ReportFailed(r, n)
      PROVE  NoForgottenWork'
  BY <1>5 DEF ReportFailed, Reportable, WorkIsHandedOut
<1>6. ASSUME NEW r \in Rows, NEW n, NEW outcome, RecordRuntimeTurnResult(r, n, outcome)
      PROVE  NoForgottenWork'
  BY <1>6, RecordKeepsWork DEF RecordRuntimeTurnResult, TypeOK
<1> QED  BY <1>1, <1>2, <1>3, <1>4, <1>5, <1>6 DEF BridgeCall

LEMMA EndpointCallKeepsWork ==
    ASSUME TypeOK, NoForgottenWork, WorkIsHandedOut, EndpointCall
    PROVE  NoForgottenWork'
<1>1. \A x \in Rows : x[2] \in Endpoints
  BY DEF Rows
<1>2. ASSUME NEW p \in Endpoints, NEW br, NEW s, RegisterEndpoint(p, br, s)
      PROVE  NoForgottenWork'
  <2> DEFINE st1 == [status EXCEPT ![p] = s]
  <2>1. /\ TryCreate({p}, queue, holder, bundle, st1)
        /\ bridgeOf' = [bridgeOf EXCEPT ![p] = br]
    BY <1>2 DEF RegisterEndpoint
  <2>2. \A x \in Endpoints : x # p => st1[x] = status[x] /\ bridgeOf'[x] = bridgeOf[x]
    BY <2>1 DEF TypeOK
  <2> HIDE DEF st1
  <2> QED  BY <1>1, <2>1, <2>2, TryCreateKeepsWork
<1>3. ASSUME NEW p \in Endpoints, NEW s, s # "queued", UpdateEndpointStatus(p, s)
      PROVE  NoForgottenWork'
  <2> DEFINE D == IF s \in {"idle", "waiting"} THEN {p} ELSE {}
             st1 == SetStatus(p, s)
  <2>1. TryCreate(D, queue, holder, bundle, st1) /\ bridgeOf' = bridgeOf
    BY <1>3 DEF UpdateEndpointStatus
  <2>2. \A x \in Endpoints : x \notin D => st1[x] = status[x] \/ st1[x] \notin Waiting
    BY <1>3, SetStatusElsewhere DEF Waiting
  <2> HIDE DEF D, st1
  <2> QED  BY <1>1, <2>1, <2>2, TryCreateKeepsWork
<1>4. ASSUME NEW p \in Endpoints, RetireEndpoint(p)
      PROVE  NoForgottenWork'
  <2>1. /\ queue' = queue
        /\ \A x \in Endpoints : IF x = p THEN bridgeOf'[x] = NoBridge
                                ELSE bridgeOf'[x] = bridgeOf[x] /\ status'[x] = status[x]
    BY <1>4 DEF RetireEndpoint, deliveryVars, TypeOK
  <2> QED  BY <1>1, <2>1 DEF NoForgottenWork
<1>5. ASSUME NEW p \in Endpoints, DeleteEndpoint(p)
      PROVE  NoForgottenWork'
  <2>1. /\ \A x \in Rows : queue'[x] = "queued" => queue[x] = "queued" /\ x[2] # p
        /\ \A x \in Endpoints : x # p => bridgeOf'[x] = bridgeOf[x] /\ status'[x] = status[x]
    BY <1>5 DEF DeleteEndpoint, TypeOK
  <2> QED  BY <1>1, <2>1 DEF NoForgottenWork
<1>6. "idle" # "queued" /\ "runtime_unconfigured" # "queued" /\ "queued" \notin OperatorStatuses
  BY DEF WorkIsHandedOut
<1> QED
  BY <1>2, <1>3, <1>4, <1>5, <1>6
     DEF EndpointCall, BindRuntime, ClearRuntimeBinding, OperatorSetsStatus

LEMMA FailUnknownKeepsWork ==
    ASSUME TypeOK, NoForgottenWork, NEW r \in Rows, NEW n, FailUnknown(r, n)
    PROVE  NoForgottenWork'
<1> DEFINE q == MoveRow(r, n, "dead_lettered")
           st1 == SetStatus(r[2], "error")
<1>1. q \in [Rows -> RowStates] /\ \A x \in Rows : q[x] = "queued" => queue[x] = "queued"
  BY DEF MoveRow, TypeOK, RowStates
<1>2. \A x \in Endpoints : st1[x] = status[x] \/ st1[x] \notin Waiting
  BY SetStatusElsewhere DEF Waiting, Rows
<1>3. /\ RecordTurnResult(r, n, "failed", q, holder, MoveBundle(r, n, "dead_lettered"), st1)
      /\ UNCHANGED bridgeOf
  BY DEF FailUnknown
<1> HIDE DEF q, st1
<1> QED  BY <1>1, <1>2, <1>3, RecordKeepsWork

LEMMA RetryKeepsWork ==
    ASSUME TypeOK, NoForgottenWork, NEW r \in Rows, NEW n, RetryTransport(r, n)
    PROVE  NoForgottenWork'
<1> DEFINE q == RowAfterFailure(r, n)
           h == HolderAfterFailure(r, n)
           b == MoveBundle(r, n, Outcome(n))
<1>1. \A x \in Rows : x[2] \in Endpoints
  BY DEF Rows
<1>2. UNCHANGED bridgeOf
  BY DEF RetryTransport
<1>3. \A x \in Rows : x # r => q[x] = queue[x]
  BY DEF RowAfterFailure, MoveRow, TypeOK
<1>4. CASE n >= AttemptLimit
  <2>1. TryCreate({}, q, h, b, status)
    BY <1>4 DEF RetryTransport
  <2>2. q[r] = "queued" => queue[r] = "queued"
    BY <1>4 DEF RowAfterFailure, MoveRow, TypeOK
  <2> HIDE DEF q, h, b
  <2> QED  BY <1>2, <1>3, <2>1, <2>2, TryCreateKeepsWork
<1>5. CASE ~(n >= AttemptLimit)
  <2> DEFINE st1 == SetStatus(r[2], "idle")
  <2>1. TryCreate({r[2]}, q, h, b, st1)
    BY <1>5 DEF RetryTransport
  <2>2. \A x \in Endpoints : x # r[2] => st1[x] = status[x]
    BY <1>1, SetStatusElsewhere
  <2> HIDE DEF q, h, b, st1
  <2> QED  BY <1>1, <1>2, <1>3, <2>1, <2>2, TryCreateKeepsWork
<1> QED  BY <1>4, <1>5

\* Retiring a Scope tries the next delivery of the endpoints whose turn it ends, and
\* detaches its own commands.
LEMMA RetireScopeKeepsWork ==
    ASSUME TypeOK, NoForgottenWork, NEW s \in Scopes, RetireScope(s)
    PROVE  NoForgottenWork'
<1> DEFINE own == {r \in Rows : r[1] <= last /\ event[r[1]].scope = s}
           stopped == {p \in Endpoints \ Commands[s] :
                          \E r \in own, n \in Attempts :
                              r[2] = p /\ bundle[r][n] \in InFlight}
           ended == {p \in stopped : status[p] \notin {"absent", "runtime_unconfigured"}}
           q == [r \in Rows |-> IF r \in own /\ queue[r] \in {"queued"} \cup InFlight
                                THEN "cancelled" ELSE queue[r]]
           b == [r \in Rows |-> [n \in Attempts |->
                    IF r \in own /\ bundle[r][n] \in InFlight
                    THEN "cancelled" ELSE bundle[r][n]]]
           pend == [e \in Events |->
                       IF e <= last /\ event[e].scope = s /\ pending[e] = "pending"
                       THEN "cancelled" ELSE pending[e]]
           st1 == [p \in Endpoints |->
                     IF p \in Commands[s] /\ status[p] # "absent" THEN "retired"
                     ELSE IF p \in ended THEN TurnEndStatus(p, q, pend)
                     ELSE status[p]]
<1>1. /\ bridgeOf' = [p \in Endpoints |->
             IF p \in Commands[s] THEN NoBridge ELSE bridgeOf[p]]
      /\ TryCreate(ended, q, holder, b, st1)
  BY DEF RetireScope
<1>2. \A r \in Rows : q[r] = "queued" => queue[r] = "queued"
  <2> HIDE DEF own
  <2> QED  OBVIOUS
<1>3. \A p \in Endpoints : p \notin ended /\ p \notin Commands[s] => st1[p] = status[p]
  <2> HIDE DEF ended, q, pend
  <2> QED  OBVIOUS
<1>4. \A p \in Endpoints : bridgeOf'[p] # NoBridge =>
          p \notin Commands[s] /\ bridgeOf[p] # NoBridge
  BY <1>1
<1>5. \A r \in Rows : r[2] \in Endpoints
  BY DEF Rows
<1> HIDE DEF ended, q, b, st1
<1> QED  BY <1>1, <1>2, <1>3, <1>4, <1>5, TryCreateKeepsWork

LEMMA NextKeepsWork ==
    ASSUME WorkIsHandedOut
    PROVE  TypeOK /\ NoForgottenWork /\ [Next]_vars => NoForgottenWork'
<1> SUFFICES ASSUME TypeOK, NoForgottenWork, [Next]_vars PROVE NoForgottenWork'
  OBVIOUS
<1>1. CASE ClientCall
  <2>1. /\ \A p : {p} \cap Routable \in SUBSET Endpoints
        /\ SUBSET Routable \subseteq SUBSET Endpoints
    BY DEF Routable
  <2> QED  BY <1>1, <2>1, SubmitKeepsWork DEF ClientCall, EmitEvent, EmitTrigger, EmitRequest
<1>2. CASE \E r \in Rows, n \in Attempts : ExpireLease(r, n)
  BY <1>2, FailUnknownKeepsWork, RetryKeepsWork DEF ExpireLease
<1>3. CASE SettleAbandoned
  <2>1. PICK d \in settling : FailUnknown(d[1], d[2])
    BY <1>3 DEF SettleAbandoned
  <2>2. d[1] \in Rows
    BY <2>1 DEF TypeOK
  <2> QED  BY <2>1, <2>2, FailUnknownKeepsWork
<1>4. ASSUME deliveryVars' = deliveryVars, endpointVars' = endpointVars
      PROVE  NoForgottenWork'
  BY <1>4 DEF deliveryVars, endpointVars, NoForgottenWork
<1>5. CASE \E br : RegisterBridge(br)
  BY <1>4, <1>5 DEF RegisterBridge
<1>6. CASE UNCHANGED vars
  BY <1>4, <1>6 DEF vars
<1> QED
  BY <1>1, <1>2, <1>3, <1>5, <1>6, BridgeCallKeepsWork, EndpointCallKeepsWork,
     RetireScopeKeepsWork DEF Next

\* An attached endpoint that is idle, waiting or queued has no queued row, whatever
\* calls the bridges, clients and operators make and in whatever order, as long as no
\* delivery is reported failed (no bridge of the repository does) and the status
\* "queued", which the store derives, is not written from outside.
THEOREM NothingIsForgotten ==
    ASSUME "failed" \notin Reports, "queued" \notin OperatorStatuses
    PROVE  Spec => []NoForgottenWork
<1>1. Init => NoForgottenWork
  BY DEF Init, NoForgottenWork
<1>2. TypeOK /\ NoForgottenWork /\ [Next]_vars => NoForgottenWork'
  BY NextKeepsWork DEF WorkIsHandedOut
<1> QED  BY <1>1, <1>2, TypeCorrect, PTL DEF Spec

-----------------------------------------------------------------------------
(* A request is answered once.                                               *)

\* What RequestAnsweredOnce needs to be inductive: only events that exist are waited
\* for, and a result answers one of them.
AnswerInv ==
    /\ \A e \in Events : e > last => pending[e] = "none"
    /\ \A e \in 1..last : event[e].kind = "result" => event[e].answers \in 1..last
    /\ RequestAnsweredOnce

LEMMA PastEvents == TypeOK => last \in Nat /\ 1..last \subseteq Events
BY ConstantsAssumption DEF TypeOK, Events

\* A step that adds no event, closes waits at most and forgets no turn result.
LEMMA WaitsCloseKeeps ==
    ASSUME TypeOK, AnswerInv,
           UNCHANGED <<last, event>>,
           \A e \in Events : pending[e] # "pending" => pending'[e] = pending[e],
           \A r \in Rows : result[r] # "none" => result'[r] # "none"
    PROVE  AnswerInv'
<1>1. 1..last \subseteq Events
  BY PastEvents
<1>2. \A e \in Events : e > last => pending'[e] = "none"
  BY DEF AnswerInv
<1>3. ASSUME NEW e \in 1..last, event[e].kind = "result"
      PROVE  LET req == event[e].answers
             IN /\ pending'[req] = "resolved"
                /\ event[e].to = event[req].source
                /\ \E r \in Rows : r[2] = event[req].to /\ result'[r] # "none"
                /\ \A f \in 1..last :
                       event[f].kind = "result" /\ event[f].answers = req => f = e
  <2> DEFINE req == event[e].answers
  <2>1. req \in Events
    BY <1>1, <1>3 DEF AnswerInv
  <2>2. /\ pending[req] = "resolved"
        /\ event[e].to = event[req].source
        /\ \E r \in Rows : r[2] = event[req].to /\ result[r] # "none"
        /\ \A f \in 1..last :
               event[f].kind = "result" /\ event[f].answers = req => f = e
    BY <1>3 DEF AnswerInv, RequestAnsweredOnce
  <2> HIDE DEF req
  <2>3. pending'[req] = "resolved"
    BY <2>1, <2>2
  <2>4. \E r \in Rows : r[2] = event[req].to /\ result'[r] # "none"
    BY <2>2
  <2> QED  BY <2>2, <2>3, <2>4 DEF req
<1> QED  BY <1>2, <1>3 DEF AnswerInv, RequestAnsweredOnce

\* A step that adds the event x: what is answered stays answered when the new event
\* answers nothing, or a request that was open.
LEMMA NewEventKeeps ==
    ASSUME TypeOK, AnswerInv, last + 1 \in Events,
           last' = last + 1,
           NEW rec, event' = [event EXCEPT ![last + 1] = rec],
           \A e \in 1..last : pending[e] # "pending" => pending'[e] = pending[e],
           \A e \in Events : e > last + 1 => pending'[e] = pending[e],
           \A r \in Rows : result[r] # "none" => result'[r] # "none",
           rec.kind = "result" =>
               /\ rec.answers \in 1..last
               /\ pending[rec.answers] = "pending" /\ pending'[rec.answers] = "resolved"
               /\ rec.to = event[rec.answers].source
               /\ \E r \in Rows : r[2] = event[rec.answers].to /\ result'[r] # "none"
    PROVE  AnswerInv'
<1> DEFINE x == last + 1
<1>1. 1..last \subseteq Events /\ last \in Nat
  BY PastEvents
<1>2. \A e \in Events : e > last' => pending'[e] = "none"
  BY <1>1 DEF AnswerInv, Events
<1>3. /\ event'[x] = rec
      /\ \A e \in 1..last : event'[e] = event[e] /\ e # x
      /\ 1..last' = 1..last \cup {x}
  BY <1>1 DEF TypeOK, Events
<1>4. ASSUME NEW e \in 1..last, event[e].kind = "result"
      PROVE  /\ event[e].answers \in 1..last
             /\ pending[event[e].answers] = "resolved"
             /\ event[e].to = event[event[e].answers].source
             /\ \E r \in Rows : r[2] = event[event[e].answers].to /\ result[r] # "none"
             /\ \A f \in 1..last :
                    event[f].kind = "result" /\ event[f].answers = event[e].answers => f = e
  BY <1>4 DEF AnswerInv, RequestAnsweredOnce
<1> HIDE DEF x
<1>5. \A e \in 1..last' : event'[e].kind = "result" => event'[e].answers \in 1..last
  BY <1>3, <1>4
<1>6. ASSUME NEW e \in 1..last', event'[e].kind = "result"
      PROVE  LET req == event'[e].answers
             IN /\ pending'[req] = "resolved"
                /\ event'[e].to = event'[req].source
                /\ \E r \in Rows : r[2] = event'[req].to /\ result'[r] # "none"
                /\ \A f \in 1..last' :
                       event'[f].kind = "result" /\ event'[f].answers = req => f = e
  <2> DEFINE req == event'[e].answers
  <2>1. req \in 1..last /\ event'[req] = event[req]
    BY <1>3, <1>5, <1>6
  <2>2. CASE e = x
    <3>1. req = rec.answers /\ rec.kind = "result"
      BY <1>3, <1>6, <2>2
    <3>2. \A f \in 1..last : event[f].kind = "result" => event[f].answers # req
      BY <1>4, <3>1
    <3>3. \A f \in 1..last' :
              event'[f].kind = "result" /\ event'[f].answers = req => f = e
      BY <1>3, <2>2, <3>2
    <3>4. /\ pending'[req] = "resolved"
          /\ event'[e].to = event'[req].source
          /\ \E r \in Rows : r[2] = event'[req].to /\ result'[r] # "none"
      BY <1>3, <2>1, <2>2, <3>1
    <3> QED  BY <3>3, <3>4
  <2>3. CASE e \in 1..last
    <3>1. event'[e] = event[e] /\ event[e].kind = "result"
      BY <1>3, <1>6, <2>3
    <3>2. pending[req] = "resolved" /\ pending'[req] = "resolved"
      BY <1>4, <2>1, <2>3, <3>1
    <3>3. rec.kind = "result" => rec.answers # req
      BY <3>2
    <3>4. \E r \in Rows : r[2] = event'[req].to /\ result'[r] # "none"
      BY <1>4, <2>1, <2>3, <3>1
    <3>5. \A f \in 1..last' :
              event'[f].kind = "result" /\ event'[f].answers = req => f = e
      BY <1>3, <1>4, <2>3, <3>1, <3>3
    <3>6. event'[e].to = event'[req].source
      BY <1>4, <2>1, <2>3, <3>1
    <3> QED  BY <3>2, <3>4, <3>5, <3>6
  <2> QED  BY <1>3, <2>2, <2>3
<1>7. \A e \in 1..last' : event'[e].kind = "result" => event'[e].answers \in 1..last'
  BY <1>3, <1>5
<1> QED  BY <1>2, <1>6, <1>7 DEF AnswerInv, RequestAnsweredOnce

\* Recording a turn result answers the request the turn concludes, if it is open.
LEMMA RecordAnswers ==
    ASSUME TypeOK, AnswerInv, NEW r \in Rows, NEW n,
           NEW outcome \in {"completed", "failed"},
           NEW q, NEW h, NEW b, NEW st,
           RecordTurnResult(r, n, outcome, q, h, b, st)
    PROVE  AnswerInv'
<1>1. r[1] \in Events /\ r[2] \in Endpoints
  BY DEF Rows
<1>2. CASE result[r] # "none"
  <2>1. UNCHANGED requestVars
    BY <1>2 DEF RecordTurnResult
  <2> QED  BY <2>1, WaitsCloseKeeps DEF requestVars
<1>3. CASE result[r] = "none" /\ ~ReturnsRequest(r, n)
  <2>1. /\ result' = [result EXCEPT ![r] = outcome]
        /\ pending' = [pending EXCEPT ![r[1]] =
              IF @ = "pending" /\ event[r[1]].kind # "request"
              THEN "resolved" ELSE @]
        /\ UNCHANGED <<last, event>>
    BY <1>3 DEF RecordTurnResult
  <2>2. \A e \in Events : pending[e] # "pending" => pending'[e] = pending[e]
    BY <2>1 DEF TypeOK
  <2>3. \A x \in Rows : result[x] # "none" => result'[x] # "none"
    BY <2>1 DEF TypeOK
  <2> QED  BY <2>1, <2>2, <2>3, WaitsCloseKeeps
<1>4. CASE result[r] = "none" /\ ReturnsRequest(r, n)
  <2> DEFINE req == ConcludedRequest(r[1])
  <2>1. PICK sc \in ReturnScopes(req, r[1]) :
            /\ result' = [result EXCEPT ![r] = outcome]
            /\ last + 1 <= MaxEvents
            /\ last' = last + 1
            /\ event' = [event EXCEPT ![last + 1] = ReturnEvent(req, sc)]
            /\ pending' = Answered(req)
    BY <1>4 DEF RecordTurnResult
  <2>2. last \in Nat /\ last + 1 \in Events
    BY <2>1, ConstantsAssumption DEF TypeOK, Events
  <2>3. req \in 1..last /\ req \in Events
    <3>1. req \in Events
      BY <1>1, <1>4, ConcludedTyped DEF TypeOK, ReturnsRequest
    <3>2. pending[req] = "pending"
      BY <1>4 DEF ReturnsRequest
    <3> HIDE DEF req
    <3> QED  BY <2>2, <3>1, <3>2 DEF AnswerInv, Events
  <2>4. /\ pending[req] = "pending"
        /\ event[req].to = r[2]
    BY <1>4 DEF ReturnsRequest
  <2> DEFINE rec == ReturnEvent(req, sc)
  <2>5. rec.kind = "result" /\ rec.answers = req /\ rec.to = event[req].source
    BY DEF ReturnEvent, BlankEvent
  <2> HIDE DEF req, rec
  <2>6. pending'[req] = "resolved" /\ \A e \in Events : e # req => pending'[e] = pending[e]
    BY <2>1, <2>3 DEF Answered, TypeOK
  <2>7. result'[r] # "none" /\ \A x \in Rows : result[x] # "none" => result'[x] # "none"
    BY <2>1 DEF TypeOK
  <2>8. \A e \in 1..last : e \in Events
    BY PastEvents
  <2>9. event' = [event EXCEPT ![last + 1] = rec]
    BY <2>1 DEF rec
  <2>10. \A e \in Events : e > last + 1 => e # req
    BY <2>2, <2>3
  <2>11. \E x \in Rows : x[2] = event[req].to /\ result'[x] # "none"
    BY <2>4, <2>7
  <2> QED
    BY <2>1, <2>2, <2>3, <2>4, <2>5, <2>6, <2>7, <2>8, <2>9, <2>10, <2>11, NewEventKeeps
<1> QED  BY <1>2, <1>3, <1>4

\* A submitted event answers nothing, opens its own wait and closes some.
LEMMA SubmitAnswers ==
    ASSUME TypeOK, DeliveryTablesAgree, AnswerInv, NEW rec, NEW D, Submit(rec, D),
           rec.kind # "result"
    PROVE  AnswerInv'
<1>1. last + 1 \in Events /\ last \in Nat
  BY RoomForEvent, ConstantsAssumption DEF Submit, IInv, TypeOK
<1>2. /\ last' = last + 1
      /\ event' = [event EXCEPT ![last + 1] = rec]
      /\ UNCHANGED result
  BY DEF Submit
<1>3. \A e \in Events : e # last + 1 /\ pending[e] # "pending" => pending'[e] = pending[e]
  BY DEF Submit, TypeOK
<1>4. \A e \in Events : e > last + 1 => pending'[e] = pending[e]
  BY <1>1, <1>3 DEF AnswerInv, Events
<1>5. \A e \in 1..last : e \in Events /\ e # last + 1
  BY <1>1, PastEvents
<1> QED  BY <1>1, <1>2, <1>3, <1>4, <1>5, NewEventKeeps

LEMMA NextAnswers == IInv /\ AnswerInv /\ [Next]_vars => AnswerInv'
<1> SUFFICES ASSUME TypeOK, DeliveryTablesAgree, AnswerInv, [Next]_vars
             PROVE  AnswerInv'
  BY DEF IInv
<1>1. ASSUME UNCHANGED requestVars PROVE AnswerInv'
  BY <1>1, WaitsCloseKeeps DEF requestVars
<1>2. CASE ClientCall
  <2>1. ASSUME NEW k, NEW src, NEW sc, EmitEvent(k, src, sc)
        PROVE  AnswerInv'
    <3>1. /\ k # "result"
          /\ \A p, c : [BlankEvent EXCEPT !.kind = k, !.source = src, !.to = p,
                                          !.scope = sc, !.corr = c].kind = k
          /\ [BlankEvent EXCEPT !.kind = k, !.source = src, !.scope = sc].kind = k
      BY <2>1 DEF EmitEvent, BlankEvent
    <3> QED  BY <2>1, <3>1, SubmitAnswers DEF EmitEvent
  <2>2. ASSUME NEW p, NEW sc, EmitTrigger(p, sc)
        PROVE  AnswerInv'
    <3>1. [BlankEvent EXCEPT !.kind = "trigger", !.to = p, !.scope = sc].kind = "trigger"
      BY DEF BlankEvent
    <3> QED  BY <2>2, <3>1, SubmitAnswers DEF EmitTrigger
  <2>3. ASSUME NEW r, NEW n, NEW p, NEW sc, EmitRequest(r, n, p, sc)
        PROVE  AnswerInv'
    <3> DEFINE rec == [BlankEvent EXCEPT !.kind = "request", !.source = r[2],
                           !.to = p, !.scope = sc, !.corr = last + 1,
                           !.parent = <<r[1], n>>, !.cont = ConcludedRequest(r[1])]
    <3>1. rec.kind = "request"
      BY DEF BlankEvent
    <3>2. Submit(rec, {p} \cap Routable)
      BY <2>3 DEF EmitRequest
    <3> HIDE DEF rec
    <3> QED  BY <3>1, <3>2, SubmitAnswers
  <2> QED  BY <1>2, <2>1, <2>2, <2>3 DEF ClientCall
<1>3. ASSUME NEW r \in Rows, NEW n \in Attempts, FailUnknown(r, n)
      PROVE  AnswerInv'
  BY <1>3, RecordAnswers DEF FailUnknown
<1>4. CASE BridgeCall
  <2>1. ASSUME NEW r \in Rows, NEW n, NEW outcome \in {"completed", "failed"},
               RecordRuntimeTurnResult(r, n, outcome)
        PROVE  AnswerInv'
    BY <2>1, RecordAnswers DEF RecordRuntimeTurnResult
  <2> QED
    BY <1>1, <1>4, <2>1
       DEF BridgeCall, ClaimDeliveries, ReportTurnEnd, ReportProgress, ReportDeferred,
           ReportFailed
<1>5. CASE EndpointCall
  BY <1>1, <1>5
     DEF EndpointCall, RegisterEndpoint, BindRuntime, ClearRuntimeBinding,
         OperatorSetsStatus, UpdateEndpointStatus, RetireEndpoint, DeleteEndpoint
<1>6. CASE \E r \in Rows, n \in Attempts : ExpireLease(r, n)
  BY <1>1, <1>3, <1>6 DEF ExpireLease, RetryTransport
<1>7. ASSUME NEW s \in Scopes, RetireScope(s)
      PROVE  AnswerInv'
  <2>1. /\ UNCHANGED <<last, event, result>>
        /\ \A e \in Events : pending[e] # "pending" => pending'[e] = pending[e]
    BY <1>7 DEF RetireScope
  <2> QED  BY <2>1, WaitsCloseKeeps
<1>8. CASE \E br \in Bridges : RegisterBridge(br)
  BY <1>1, <1>8 DEF RegisterBridge
<1>9. CASE SettleAbandoned
  <2>1. PICK d \in settling : FailUnknown(d[1], d[2])
    BY <1>9 DEF SettleAbandoned
  <2>2. d[1] \in Rows /\ d[2] \in Attempts
    BY <2>1 DEF TypeOK
  <2> QED  BY <2>1, <2>2, <1>3
<1>10. CASE UNCHANGED vars
  BY <1>1, <1>10 DEF vars
<1> QED  BY <1>2, <1>4, <1>5, <1>6, <1>7, <1>8, <1>9, <1>10 DEF Next

\* A request is answered at most once, to its requester, by a turn of the addressed
\* actor, and its wait is over then - also when bridges report late, leases expire,
\* endpoints are deleted and Scopes are retired around it.
THEOREM RequestsAreAnsweredOnce == Spec => []RequestAnsweredOnce
<1>1. Init => AnswerInv
  BY ConstantsAssumption DEF Init, AnswerInv, RequestAnsweredOnce
<1>2. IInv /\ AnswerInv /\ [Next]_vars => AnswerInv'
  BY NextAnswers
<1>3. AnswerInv => RequestAnsweredOnce
  BY DEF AnswerInv
<1> QED  BY <1>1, <1>2, <1>3, Invariance, PTL DEF Spec
=============================================================================
