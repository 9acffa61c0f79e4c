-------------------------- MODULE BusDeliveryProofs --------------------------
(***************************************************************************)
(* Proofs about BusDelivery for every number of endpoints, bridges,        *)
(* Scopes, events and attempts.                                            *)
(*                                                                         *)
(* TypeOK /\ DeliveryTablesAgree is inductive.  Nearly every handler ends  *)
(* in TryCreate, so the proof is organised around the intermediate tables  *)
(* (q, h, b) a handler hands to it: lemmas show that each way of moving a  *)
(* row keeps Sound, and TryCreateSound that TryCreate keeps it.            *)
(***************************************************************************)
EXTENDS BusDelivery, FiniteSetTheorems, TLAPS

\* The tables of one moment are well-typed and agree.
Sound(q, a, h, b, l) ==
    /\ q \in [Rows -> RowStates]
    /\ a \in [Rows -> 0..MaxAttempts]
    /\ h \in [Rows -> 0..MaxAttempts]
    /\ b \in [Rows -> [Attempts -> BundleStates]]
    /\ RowFollowsBundle(q, a, h, b)
    /\ NoSecondOwner(q, a, h, b)
    /\ RowsHaveEvents(q, a, l)

\* tryCreateDeliveryForEndpoint keeps the tables in agreement and writes only
\* known statuses.
LEMMA TryCreateSound ==
    ASSUME NEW D \in SUBSET Endpoints, NEW q, NEW h, NEW b, NEW l \in Nat,
           NEW st \in [Endpoints -> EndpointStatuses],
           Sound(q, attempts, h, b, l),
           TryCreate(D, q, h, b, st)
    PROVE  /\ Sound(queue', attempts', holder', bundle', l)
           /\ status' \in [Endpoints -> EndpointStatuses]
<1> DEFINE open == {p \in D : /\ bridgeOf'[p] # NoBridge
                              /\ st[p] \notin {"absent", "active", "error",
                                               "runtime_unconfigured"}}
           picked == {r \in Rows : r[2] \in open /\ IsNext(q, r)}
<1>1. /\ \A r \in picked : q[r] = "queued" /\ attempts[r] < MaxAttempts
      /\ picked \subseteq Rows
      /\ queue' = [r \in Rows |-> IF r \in picked THEN "reserved" ELSE q[r]]
      /\ attempts' = [r \in Rows |->
             IF r \in picked THEN attempts[r] + 1 ELSE attempts[r]]
      /\ holder' = [r \in Rows |->
             IF r \in picked THEN attempts[r] + 1 ELSE h[r]]
      /\ bundle' = [r \in Rows |-> [n \in Attempts |->
             IF r \in picked /\ n = attempts[r] + 1 THEN "reserved" ELSE b[r][n]]]
      /\ status' = [p \in Endpoints |->
             IF \E r \in picked : r[2] = p THEN "active" ELSE st[p]]
  BY DEF TryCreate, IsNext
<1> HIDE DEF picked
<1>2. status' \in [Endpoints -> EndpointStatuses]
  BY <1>1 DEF EndpointStatuses
<1>3. /\ queue' \in [Rows -> RowStates]
      /\ attempts' \in [Rows -> 0..MaxAttempts]
      /\ holder' \in [Rows -> 0..MaxAttempts]
      /\ bundle' \in [Rows -> [Attempts -> BundleStates]]
  BY <1>1, ConstantsAssumption
     DEF Sound, RowStates, BundleStates, InFlight
<1>4. RowFollowsBundle(queue', attempts', holder', bundle')
  BY <1>1, ConstantsAssumption
     DEF Sound, RowFollowsBundle, NoDelivery, InFlight, Attempts
<1>5. NoSecondOwner(queue', attempts', holder', bundle')
  BY <1>1, ConstantsAssumption
     DEF Sound, RowFollowsBundle, NoSecondOwner, NoDelivery, Attempts
<1>6. RowsHaveEvents(queue', attempts', l)
  BY <1>1 DEF Sound, RowsHaveEvents
<1> QED  BY <1>2, <1>3, <1>4, <1>5, <1>6 DEF Sound

-----------------------------------------------------------------------------
(* The ways a handler moves rows before it calls TryCreate.                  *)

LEMMA TablesSound ==
    TypeOK /\ DeliveryTablesAgree => Sound(queue, attempts, holder, bundle, last)
BY DEF TypeOK, DeliveryTablesAgree, Sound

\* A bundle in flight was made, and holds its row unless the row was dropped.
LEMMA InFlightHolds ==
    ASSUME Sound(queue, attempts, holder, bundle, last),
           NEW r \in Rows, NEW n \in Attempts, bundle[r][n] \in InFlight
    PROVE  /\ n <= attempts[r]
           /\ queue[r] # "absent" => holder[r] = n
<1>1. attempts[r] \in Nat /\ n \in Nat
  BY ConstantsAssumption DEF Sound, Attempts
<1>2. bundle[r][n] \notin {"absent", "failed", "deferred"}
  BY DEF InFlight
<1>3. /\ bundle[r][n] = "absent" <=> n > attempts[r]
      /\ queue[r] # "absent" /\ n <= attempts[r] /\ n # holder[r] =>
             bundle[r][n] \in {"failed", "deferred"}
  BY DEF Sound, NoSecondOwner
<1> QED  BY <1>1, <1>2, <1>3

\* A report moves a bundle and the row that it holds; a failed or deferred
\* bundle gives its row back to the queue.
LEMMA MoveSound ==
    ASSUME Sound(queue, attempts, holder, bundle, last),
           NEW r \in Rows, NEW n \in Attempts, bundle[r][n] \in InFlight,
           NEW s, NEW t, NEW h,
           \/ /\ s \in {"injected_to_runtime", "acknowledged", "dead_lettered"}
              /\ t = s
              /\ h = holder
           \/ /\ s \in {"failed", "deferred"}
              /\ t = "queued"
              /\ h = FreeRow(r, n)
    PROVE  Sound(MoveRow(r, n, t), attempts, h, MoveBundle(r, n, s), last)
<1> DEFINE q == MoveRow(r, n, t)
           b == MoveBundle(r, n, s)
<1>1. /\ q \in [Rows -> RowStates]
      /\ h \in [Rows -> 0..MaxAttempts]
      /\ b \in [Rows -> [Attempts -> BundleStates]]
  BY ConstantsAssumption DEF Sound, MoveRow, FreeRow, MoveBundle, RowStates,
                             BundleStates, InFlight, NoDelivery
<1>2. n <= attempts[r] /\ (queue[r] # "absent" => holder[r] = n)
  BY InFlightHolds
<1>3. /\ b[r] = [bundle[r] EXCEPT ![n] = s]
      /\ q[r] = IF holder[r] = n THEN t ELSE queue[r]
      /\ h[r] = holder[r] \/ (t = "queued" /\ h[r] =
                    IF holder[r] = n THEN NoDelivery ELSE holder[r])
      /\ \A x \in Rows : x # r => b[x] = bundle[x] /\ q[x] = queue[x] /\ h[x] = holder[x]
  BY DEF Sound, MoveRow, FreeRow, MoveBundle
<1>4. bundle[r][n] # "absent" /\ s # "absent"
  BY DEF InFlight
<1>5. RowFollowsBundle(q, attempts, h, b)
  <2> SUFFICES ASSUME NEW x \in Rows
               PROVE  /\ q[x] \in {"absent", "queued"} => h[x] = NoDelivery
                      /\ h[x] # NoDelivery =>
                             h[x] = attempts[x] /\ b[x][attempts[x]] = q[x]
                      /\ q[x] \in InFlight \cup {"acknowledged", "dead_lettered"} =>
                             h[x] # NoDelivery
    BY DEF RowFollowsBundle
  <2>1. CASE x # r
    BY <2>1, <1>3 DEF Sound, RowFollowsBundle
  <2>2. CASE x = r
    BY <2>2, <1>2, <1>3, ConstantsAssumption
       DEF Sound, RowFollowsBundle, InFlight, NoDelivery, Attempts, FreeRow
  <2> QED  BY <2>1, <2>2
<1>6. NoSecondOwner(q, attempts, h, b)
  <2> SUFFICES ASSUME NEW x \in Rows, NEW m \in Attempts
               PROVE  /\ b[x][m] = "absent" <=> m > attempts[x]
                      /\ q[x] # "absent" /\ m <= attempts[x] /\ m # h[x] =>
                             b[x][m] \in {"failed", "deferred"}
    BY DEF NoSecondOwner
  <2>1. CASE x # r
    BY <2>1, <1>3 DEF Sound, NoSecondOwner
  <2>2. CASE x = r /\ m # n
    <3>1. b[r][m] = bundle[r][m]
      BY <2>2, <1>3 DEF Sound
    <3>2. q[r] # "absent" => queue[r] # "absent" /\ holder[r] = n
      BY <1>2, <1>3, ConstantsAssumption
         DEF Sound, RowFollowsBundle, NoDelivery, Attempts
    <3>3. /\ bundle[r][m] = "absent" <=> m > attempts[r]
          /\ queue[r] # "absent" /\ m <= attempts[r] /\ m # holder[r] =>
                 bundle[r][m] \in {"failed", "deferred"}
      BY DEF Sound, NoSecondOwner
    <3> QED  BY <2>2, <3>1, <3>2, <3>3
  <2>3. CASE x = r /\ m = n
    <3>1. b[r][n] = s
      BY <1>3 DEF Sound
    <3>2. ~(n > attempts[r])
      BY <1>2, ConstantsAssumption DEF Sound, Attempts
    <3>3. q[r] # "absent" => queue[r] # "absent"
      BY <1>2, <1>3, ConstantsAssumption
         DEF Sound, RowFollowsBundle, NoDelivery, Attempts
    <3> QED  BY <2>3, <3>1, <3>2, <3>3, <1>2, <1>3, <1>4
  <2> QED  BY <2>1, <2>2, <2>3
<1>7. RowsHaveEvents(q, attempts, last)
  BY <1>2, <1>3, ConstantsAssumption DEF Sound, RowsHaveEvents, Attempts
<1> QED  BY <1>1, <1>5, <1>6, <1>7 DEF Sound

\* An exhausted or retried attempt leaves the tables in agreement.
LEMMA FailureSound ==
    ASSUME Sound(queue, attempts, holder, bundle, last),
           NEW r \in Rows, NEW n \in Attempts, bundle[r][n] \in InFlight
    PROVE  Sound(RowAfterFailure(r, n), attempts, HolderAfterFailure(r, n),
                 MoveBundle(r, n, Outcome(n)), last)
<1>1. CASE n >= AttemptLimit
  BY <1>1, MoveSound DEF RowAfterFailure, HolderAfterFailure, Outcome
<1>2. CASE ~(n >= AttemptLimit)
  BY <1>2, MoveSound DEF RowAfterFailure, HolderAfterFailure, Outcome
<1> QED  BY <1>1, <1>2

\* Queueing a new event for some endpoints.
LEMMA QueueSound ==
    ASSUME NEW q, NEW a, NEW h, NEW b, NEW l \in Nat, Sound(q, a, h, b, l),
           NEW q1 \in [Rows -> RowStates],
           \A r \in Rows : q1[r] = q[r] \/ (r[1] = l + 1 /\ q1[r] = "queued")
    PROVE  Sound(q1, a, h, b, l + 1)
<1>1. RowFollowsBundle(q1, a, h, b)
  BY DEF Sound, RowFollowsBundle, RowsHaveEvents, InFlight, NoDelivery, Rows, Events
<1>2. NoSecondOwner(q1, a, h, b)
  BY DEF Sound, NoSecondOwner, RowsHaveEvents, Rows, Events, Attempts
<1>3. RowsHaveEvents(q1, a, l + 1)
  BY ConstantsAssumption DEF Sound, RowsHaveEvents, Rows, Events
<1> QED  BY <1>1, <1>2, <1>3 DEF Sound

-----------------------------------------------------------------------------
(* The inductive invariant and the steps.                                    *)

IInv == TypeOK /\ DeliveryTablesAgree

\* What is left of IInv' once the tables are sound: the types of the others.
OthersTyped ==
    /\ last \in 0..MaxEvents
    /\ event \in [Events -> EventRecords]
    /\ status \in [Endpoints -> EndpointStatuses]
    /\ bridgeOf \in [Endpoints -> Bridges \cup {NoBridge}]
    /\ pending \in [Events -> {"none", "pending", "resolved", "cancelled"}]
    /\ result \in [Rows -> {"none", "completed", "failed"}]
    /\ retired \subseteq Scopes
    /\ settling \subseteq Rows \X Attempts

LEMMA IInvSplit ==
    IInv <=> Sound(queue, attempts, holder, bundle, last) /\ OthersTyped
BY DEF IInv, TypeOK, DeliveryTablesAgree, Sound, OthersTyped

LEMMA IInvSplitPrime ==
    Sound(queue', attempts', holder', bundle', last') /\ OthersTyped' => IInv'
BY DEF IInv, TypeOK, DeliveryTablesAgree, Sound, OthersTyped

\* Statuses the handlers compute.
LEMMA StatusTyped ==
    ASSUME IInv, NEW p \in Endpoints, NEW s \in EndpointStatuses
    PROVE  SetStatus(p, s) \in [Endpoints -> EndpointStatuses]
BY DEF IInv, TypeOK, SetStatus

LEMMA QueuedStatusTyped ==
    ASSUME NEW st \in [Endpoints -> EndpointStatuses], NEW D
    PROVE  QueuedStatus(st, D) \in [Endpoints -> EndpointStatuses]
BY DEF QueuedStatus, EndpointStatuses

LEMMA TurnEndStatusTyped ==
    ASSUME NEW p, NEW q, NEW pend
    PROVE  TurnEndStatus(p, q, pend) \in EndpointStatuses
BY DEF TurnEndStatus, EndpointStatuses

\* The request a turn concludes is an event, when there is one.
LEMMA ConcludedTyped ==
    ASSUME event \in [Events -> EventRecords], NEW t \in Events
    PROVE  ConcludedRequest(t) \in Events \cup {NoEvent}
<1>1. event[t].cont \in Events \cup {NoEvent}
  BY DEF EventRecords
<1>2. CASE event[t].kind = "request"
  BY <1>2 DEF ConcludedRequest
<1>3. CASE event[t].kind = "result"
  BY <1>1, <1>3 DEF ConcludedRequest
<1>4. CASE event[t].kind # "request" /\ event[t].kind # "result"
  BY <1>4 DEF ConcludedRequest
<1> QED  BY <1>2, <1>3, <1>4

LEMMA BlankEventTyped == BlankEvent \in EventRecords
BY DEF BlankEvent, EventRecords, ClientKinds

LEMMA ReturnEventTyped ==
    ASSUME event \in [Events -> EventRecords], NEW req \in Events,
           NEW sc \in Scopes \cup {NoScope}
    PROVE  ReturnEvent(req, sc) \in EventRecords
<1>1. /\ event[req].source \in Endpoints \cup {NoEndpoint}
      /\ event[req].cont \in Events \cup {NoEvent}
  BY DEF EventRecords
<1> QED  BY <1>1, BlankEventTyped DEF ReturnEvent, EventRecords

\* Someone without an endpoint has no row to hand out.
LEMMA TryCreateNobody ==
    ASSUME NEW w, w \notin Endpoints, NEW q, NEW h, NEW b, NEW st, TryCreate({w}, q, h, b, st)
    PROVE  TryCreate({}, q, h, b, st)
<1> DEFINE open(D) == {p \in D : /\ bridgeOf'[p] # NoBridge
                                 /\ st[p] \notin {"absent", "active", "error",
                                                  "runtime_unconfigured"}}
           picked(D) == {r \in Rows : r[2] \in open(D) /\ IsNext(q, r)}
<1>1. picked({}) = {}
  OBVIOUS
<1>2. picked({w}) = {}
  BY DEF Rows
<1>3. picked({}) = picked({w})
  BY <1>1, <1>2
<1> QED  BY <1>3 DEF TryCreate

\* Recording a turn result keeps the tables in agreement, also when it queues the
\* return of a request for the requester.
LEMMA RecordSound ==
    ASSUME IInv, NEW r \in Rows, NEW n, NEW outcome \in {"completed", "failed"},
           NEW q, NEW h, NEW b, NEW st \in [Endpoints -> EndpointStatuses],
           Sound(q, attempts, h, b, last),
           RecordTurnResult(r, n, outcome, q, h, b, st)
    PROVE  /\ Sound(queue', attempts', holder', bundle', last')
           /\ last' \in 0..MaxEvents
           /\ event' \in [Events -> EventRecords]
           /\ status' \in [Endpoints -> EndpointStatuses]
           /\ pending' \in [Events -> {"none", "pending", "resolved", "cancelled"}]
           /\ result' \in [Rows -> {"none", "completed", "failed"}]
<1> USE ConstantsAssumption
<1>1. /\ last \in 0..MaxEvents /\ last \in Nat
      /\ event \in [Events -> EventRecords]
      /\ pending \in [Events -> {"none", "pending", "resolved", "cancelled"}]
      /\ result \in [Rows -> {"none", "completed", "failed"}]
      /\ r[1] \in Events /\ r[2] \in Endpoints
  BY DEF IInv, TypeOK, Rows
<1>2. CASE result[r] # "none"
  <2>1. TryCreate({}, q, h, b, st) /\ UNCHANGED requestVars
    BY <1>2 DEF RecordTurnResult
  <2>2. /\ Sound(queue', attempts', holder', bundle', last)
        /\ status' \in [Endpoints -> EndpointStatuses]
    BY <2>1, <1>1, TryCreateSound, {} \in SUBSET Endpoints
  <2> QED  BY <2>1, <2>2, <1>1 DEF requestVars
<1>3. CASE result[r] = "none" /\ ~ReturnsRequest(r, n)
  <2>1. /\ result' = [result EXCEPT ![r] = outcome]
        /\ pending' = [pending EXCEPT ![r[1]] =
              IF @ = "pending" /\ event[r[1]].kind # "request"
              THEN "resolved" ELSE @]
        /\ TryCreate({}, q, h, b, st)
        /\ UNCHANGED <<last, event>>
    BY <1>3 DEF RecordTurnResult
  <2>2. /\ Sound(queue', attempts', holder', bundle', last)
        /\ status' \in [Endpoints -> EndpointStatuses]
    BY <2>1, <1>1, TryCreateSound, {} \in SUBSET Endpoints
  <2> QED  BY <2>1, <2>2, <1>1
<1>4. CASE result[r] = "none" /\ ReturnsRequest(r, n)
  <2> DEFINE req == ConcludedRequest(r[1])
             e == last + 1
             w == event[req].source
             q1 == [q EXCEPT ![<<e, w>>] = "queued"]
  <2>1. PICK sc \in ReturnScopes(req, r[1]) :
            /\ result' = [result EXCEPT ![r] = outcome]
            /\ e <= MaxEvents
            /\ last' = e
            /\ event' = [event EXCEPT ![e] = ReturnEvent(req, sc)]
            /\ pending' = Answered(req)
            /\ TryCreate({w}, q1, h, b, QueuedStatus(st, {w}))
    BY <1>4 DEF RecordTurnResult
  <2>2. req \in Events /\ e \in Events /\ e \in Nat
    BY <1>1, <1>4, <2>1, ConcludedTyped DEF ReturnsRequest, Events
  <2>3. event[req] \in EventRecords
    BY <1>1, <2>2
  <2>4. sc \in Scopes \cup {NoScope}
    BY <1>1, <2>1, <2>2, <2>3 DEF ReturnScopes, EventRecords, NoEvent
  <2>5. ReturnEvent(req, sc) \in EventRecords
    BY <1>1, <2>2, <2>4, ReturnEventTyped
  <2>6. Sound(q1, attempts, h, b, e)
    <3>1. q1 \in [Rows -> RowStates]
      BY DEF Sound, RowStates
    <3>2. \A x \in Rows : q1[x] = q[x] \/ (x[1] = last + 1 /\ q1[x] = "queued")
      BY DEF Sound
    <3> QED  BY <3>1, <3>2, <1>1, QueueSound
  <2>7. QueuedStatus(st, {w}) \in [Endpoints -> EndpointStatuses]
    BY QueuedStatusTyped
  <2>10. /\ last' \in 0..MaxEvents
         /\ event' \in [Events -> EventRecords]
         /\ pending' \in [Events -> {"none", "pending", "resolved", "cancelled"}]
         /\ result' \in [Rows -> {"none", "completed", "failed"}]
    <3> HIDE DEF req, e
    <3>1. last' \in 0..MaxEvents
      BY <1>1, <2>1 DEF e
    <3>2. event' \in [Events -> EventRecords]
      BY <1>1, <2>1, <2>5
    <3>3. pending' \in [Events -> {"none", "pending", "resolved", "cancelled"}]
      BY <1>1, <2>1 DEF Answered
    <3>4. result' \in [Rows -> {"none", "completed", "failed"}]
      BY <1>1, <2>1
    <3> QED  BY <3>1, <3>2, <3>3, <3>4
  <2>11. last' = e
    BY <2>1
  <2> HIDE DEF req, e, w, q1
  <2>8. CASE w \in Endpoints
    <3>1. {w} \in SUBSET Endpoints
      BY <2>8
    <3>2. /\ Sound(queue', attempts', holder', bundle', e)
          /\ status' \in [Endpoints -> EndpointStatuses]
      BY <3>1, <2>1, <2>2, <2>6, <2>7, <1>1, TryCreateSound
    <3> QED  BY <3>2, <2>10, <2>11
  <2>9. CASE w \notin Endpoints
    <3>1. TryCreate({}, q1, h, b, QueuedStatus(st, {w}))
      BY <2>1, <2>9, TryCreateNobody
    <3>2. /\ Sound(queue', attempts', holder', bundle', e)
          /\ status' \in [Endpoints -> EndpointStatuses]
      BY <3>1, <2>2, <2>6, <2>7, <1>1, TryCreateSound, {} \in SUBSET Endpoints
    <3> QED  BY <3>2, <2>10, <2>11
  <2> QED  BY <2>8, <2>9
<1> QED  BY <1>2, <1>3, <1>4

\* The bound on events leaves a slot for the event it admits.
LEMMA RoomForEvent ==
    ASSUME IInv, NEW k, Room(k)
    PROVE  last + 1 \in Events
<1>1. last \in Nat /\ MaxEvents \in Nat
  BY ConstantsAssumption DEF IInv, TypeOK
<1>2. IsFiniteSet(OpenRequests)
  <2>1. IsFiniteSet(1..last)
    BY <1>1, FS_Interval
  <2>2. OpenRequests \subseteq 1..last
    BY DEF OpenRequests
  <2> QED  BY <2>1, <2>2, FS_Subset
<1>3. Cardinality(OpenRequests) \in Nat
  BY <1>2, FS_CardinalityType
<1> QED  BY <1>1, <1>3 DEF Room, Events

\* A submitted event keeps the tables in agreement: its rows are new.
LEMMA SubmitKeeps ==
    ASSUME IInv, NEW rec \in EventRecords, NEW D \in SUBSET Endpoints,
           Submit(rec, D), UNCHANGED settling
    PROVE  IInv'
<1> USE ConstantsAssumption
<1> DEFINE x == last + 1
           q1 == [r \in Rows |-> IF r[1] = x /\ r[2] \in D THEN "queued"
                                 ELSE queue[r]]
           st == QueuedStatus(status, D)
<1>1. /\ Sound(queue, attempts, holder, bundle, last)
      /\ OthersTyped
      /\ last \in Nat /\ x \in Nat
  BY IInvSplit DEF OthersTyped
<1>2. Room(rec.kind) /\ last' = x /\ TryCreate(D, q1, holder, bundle, st)
  BY DEF Submit
<1>3. x \in Events
  BY <1>2, RoomForEvent
<1>4. Sound(q1, attempts, holder, bundle, x)
  <2>1. q1 \in [Rows -> RowStates]
    BY <1>1 DEF Sound, RowStates
  <2>2. \A r \in Rows : q1[r] = queue[r] \/ (r[1] = last + 1 /\ q1[r] = "queued")
    OBVIOUS
  <2> QED  BY <2>1, <2>2, <1>1, QueueSound
<1>5. st \in [Endpoints -> EndpointStatuses]
  BY <1>1, QueuedStatusTyped DEF OthersTyped
<1>6. event' \in [Events -> EventRecords]
  BY <1>1, <1>3 DEF Submit, OthersTyped
<1>7. pending' \in [Events -> {"none", "pending", "resolved", "cancelled"}]
  BY <1>1, <1>3 DEF Submit, OthersTyped
<1>8. UNCHANGED <<bridgeOf, result, retired>>
  BY DEF Submit
<1>9. last' \in 0..MaxEvents
  BY <1>2, <1>3 DEF Events
<1> HIDE DEF x, q1, st
<1>10. /\ Sound(queue', attempts', holder', bundle', last')
       /\ status' \in [Endpoints -> EndpointStatuses]
  BY <1>1, <1>2, <1>4, <1>5, TryCreateSound
<1> QED
  BY <1>1, <1>6, <1>7, <1>8, <1>9, <1>10, IInvSplitPrime DEF OthersTyped

\* The handlers that only move rows and statuses.
LEMMA TablesKeep ==
    ASSUME IInv, UNCHANGED requestVars, UNCHANGED settling,
           bridgeOf' \in [Endpoints -> Bridges \cup {NoBridge}],
           retired' \subseteq Scopes,
           status' \in [Endpoints -> EndpointStatuses],
           Sound(queue', attempts', holder', bundle', last)
    PROVE  IInv'
BY IInvSplit, IInvSplitPrime DEF requestVars, OthersTyped

LEMMA TryCreateKeeps ==
    ASSUME IInv, UNCHANGED requestVars, UNCHANGED settling,
           bridgeOf' \in [Endpoints -> Bridges \cup {NoBridge}],
           retired' \subseteq Scopes,
           NEW D \in SUBSET Endpoints, NEW q, NEW h, NEW b,
           NEW st \in [Endpoints -> EndpointStatuses],
           Sound(q, attempts, h, b, last),
           TryCreate(D, q, h, b, st)
    PROVE  IInv'
<1>1. last \in Nat
  BY ConstantsAssumption DEF IInv, TypeOK
<1>2. /\ Sound(queue', attempts', holder', bundle', last)
      /\ status' \in [Endpoints -> EndpointStatuses]
  BY <1>1, TryCreateSound
<1> QED  BY <1>2, TablesKeep

LEMMA ClientCallKeeps ==
    ASSUME IInv, ClientCall, UNCHANGED settling
    PROVE  IInv'
<1>1. ASSUME NEW sc \in Scopes \cup {NoScope}, NEW src \in Endpoints,
             NEW k \in ClientKinds, EmitEvent(k, src, sc)
      PROVE  IInv'
  <2>1. OpenRequests \cup {NoEvent} \subseteq Events \cup {NoEvent}
    BY ConstantsAssumption DEF IInv, TypeOK, OpenRequests, Events
  <2>2. ASSUME NEW p \in Endpoints, NEW c \in OpenRequests \cup {NoEvent}
        PROVE  [BlankEvent EXCEPT !.kind = k, !.source = src, !.to = p,
                                  !.scope = sc, !.corr = c] \in EventRecords
    BY <2>1, BlankEventTyped DEF EventRecords
  <2>3. [BlankEvent EXCEPT !.kind = k, !.source = src, !.scope = sc] \in EventRecords
    BY BlankEventTyped DEF EventRecords
  <2>4. \A p \in Endpoints : {p} \cap Routable \in SUBSET Endpoints
    BY DEF Routable
  <2>5. \A D \in SUBSET Routable : D \in SUBSET Endpoints
    BY DEF Routable
  <2> QED  BY <1>1, <2>2, <2>3, <2>4, <2>5, SubmitKeeps DEF EmitEvent
<1>2. ASSUME NEW sc \in Scopes \cup {NoScope}, NEW p \in Endpoints,
             EmitTrigger(p, sc)
      PROVE  IInv'
  <2>1. [BlankEvent EXCEPT !.kind = "trigger", !.to = p, !.scope = sc] \in EventRecords
    BY BlankEventTyped DEF EventRecords, ClientKinds
  <2>2. {p} \cap Routable \in SUBSET Endpoints
    BY DEF Routable
  <2> QED  BY <1>2, <2>1, <2>2, SubmitKeeps DEF EmitTrigger
<1>3. ASSUME NEW sc \in Scopes \cup {NoScope}, NEW to \in Endpoints,
             NEW r \in Rows, NEW n \in Attempts, EmitRequest(r, n, to, sc)
      PROVE  IInv'
  <2> DEFINE rec == [BlankEvent EXCEPT !.kind = "request", !.source = r[2],
                         !.to = to, !.scope = sc, !.corr = last + 1,
                         !.parent = <<r[1], n>>, !.cont = ConcludedRequest(r[1])]
  <2>1. Submit(rec, {to} \cap Routable)
    BY <1>3 DEF EmitRequest
  <2>2. last + 1 \in Events
    BY <2>1, RoomForEvent DEF Submit
  <2>3. r[1] \in Events /\ r[2] \in Endpoints
    BY DEF Rows
  <2>4. ConcludedRequest(r[1]) \in Events \cup {NoEvent}
    BY <2>3, ConcludedTyped DEF IInv, TypeOK
  <2>5. rec \in EventRecords
    BY <2>2, <2>3, <2>4, BlankEventTyped DEF EventRecords, ClientKinds
  <2>6. {to} \cap Routable \in SUBSET Endpoints
    BY DEF Routable
  <2> HIDE DEF rec
  <2> QED  BY <2>1, <2>5, <2>6, SubmitKeeps
<1> QED  BY <1>1, <1>2, <1>3 DEF ClientCall

LEMMA FailUnknownKeeps ==
    ASSUME IInv, NEW r \in Rows, NEW n \in Attempts, FailUnknown(r, n),
           settling' \subseteq Rows \X Attempts
    PROVE  IInv'
<1>1. Sound(queue, attempts, holder, bundle, last) /\ OthersTyped
  BY IInvSplit
<1>2. Sound(MoveRow(r, n, "dead_lettered"), attempts, holder,
            MoveBundle(r, n, "dead_lettered"), last)
  BY <1>1, MoveSound DEF FailUnknown, InFlight
<1>3. SetStatus(r[2], "error") \in [Endpoints -> EndpointStatuses]
  BY StatusTyped DEF Rows, EndpointStatuses
<1>4. RecordTurnResult(r, n, "failed", MoveRow(r, n, "dead_lettered"), holder,
                       MoveBundle(r, n, "dead_lettered"), SetStatus(r[2], "error"))
  BY DEF FailUnknown
<1>5. /\ Sound(queue', attempts', holder', bundle', last')
      /\ last' \in 0..MaxEvents
      /\ event' \in [Events -> EventRecords]
      /\ status' \in [Endpoints -> EndpointStatuses]
      /\ pending' \in [Events -> {"none", "pending", "resolved", "cancelled"}]
      /\ result' \in [Rows -> {"none", "completed", "failed"}]
  BY <1>2, <1>3, <1>4, RecordSound
<1>6. UNCHANGED <<bridgeOf, retired>>
  BY DEF FailUnknown
<1> QED  BY <1>1, <1>5, <1>6, IInvSplitPrime DEF OthersTyped

LEMMA BridgeCallKeeps ==
    ASSUME IInv, BridgeCall, UNCHANGED settling
    PROVE  IInv'
<1>1. Sound(queue, attempts, holder, bundle, last) /\ OthersTyped
  BY IInvSplit
<1>2. ASSUME NEW br \in Bridges, ClaimDeliveries(br)
      PROVE  IInv'
  <2> DEFINE mine == {r \in Rows : bridgeOf[r[2]] = br}
  <2>1. /\ bundle' = [r \in Rows |-> [n \in Attempts |->
              IF r \in mine /\ bundle[r][n] = "reserved"
              THEN "delivered_to_bridge" ELSE bundle[r][n]]]
        /\ queue' = [r \in Rows |->
              IF /\ r \in mine
                 /\ holder[r] # NoDelivery
                 /\ queue[r] = "reserved"
                 /\ bundle[r][holder[r]] = "reserved"
              THEN "delivered_to_bridge" ELSE queue[r]]
        /\ UNCHANGED <<attempts, holder, endpointVars, requestVars, retired>>
    BY <1>2 DEF ClaimDeliveries
  <2> HIDE DEF mine
  <2>2. /\ queue' \in [Rows -> RowStates]
        /\ bundle' \in [Rows -> [Attempts -> BundleStates]]
    BY <1>1, <2>1 DEF Sound, RowStates, BundleStates, InFlight
  <2>3. RowFollowsBundle(queue', attempts', holder', bundle')
    BY <1>1, <2>1, ConstantsAssumption
       DEF Sound, RowFollowsBundle, NoDelivery, InFlight, Attempts
  <2>4. NoSecondOwner(queue', attempts', holder', bundle')
    BY <1>1, <2>1, ConstantsAssumption DEF Sound, NoSecondOwner, Attempts
  <2>5. RowsHaveEvents(queue', attempts', last)
    BY <1>1, <2>1, ConstantsAssumption
       DEF Sound, RowsHaveEvents, RowFollowsBundle, NoDelivery
  <2>6. Sound(queue', attempts', holder', bundle', last)
    BY <1>1, <2>1, <2>2, <2>3, <2>4, <2>5 DEF Sound
  <2> QED  BY <1>1, <2>1, <2>6, TablesKeep DEF endpointVars, OthersTyped
<1>3. ASSUME NEW p \in Endpoints, ReportTurnEnd(p)
      PROVE  IInv'
  <2>1. SetStatus(p, TurnEndStatus(p, queue, pending)) \in
            [Endpoints -> EndpointStatuses]
    BY StatusTyped, TurnEndStatusTyped
  <2>2. {p} \in SUBSET Endpoints
    OBVIOUS
  <2>3. /\ UNCHANGED <<bridgeOf, requestVars, retired>>
        /\ TryCreate({p}, queue, holder, bundle,
                     SetStatus(p, TurnEndStatus(p, queue, pending)))
    BY <1>3 DEF ReportTurnEnd
  <2> QED  BY <1>1, <2>1, <2>2, <2>3, TryCreateKeeps DEF OthersTyped
<1>4. ASSUME NEW r \in Rows, NEW n \in Attempts, NEW s \in Reports,
             ReportProgress(r, n, s)
      PROVE  IInv'
  <2>1. bundle[r][n] \in InFlight
    BY <1>1, <1>4 DEF ReportProgress, Reportable, Sound, BundleStates, SettledBundle
  <2>2. Sound(MoveRow(r, n, s), attempts, holder, MoveBundle(r, n, s), last)
    BY <1>1, <1>4, <2>1, MoveSound DEF ReportProgress
  <2>3. Sound(queue', attempts', holder', bundle', last)
    BY <1>4, <2>2 DEF ReportProgress
  <2> QED  BY <1>1, <1>4, <2>3, TablesKeep
           DEF ReportProgress, endpointVars, OthersTyped
<1>5. ASSUME NEW r \in Rows, NEW n \in Attempts, ReportDeferred(r, n)
      PROVE  IInv'
  <2>1. bundle[r][n] \in InFlight
    BY <1>1, <1>5 DEF ReportDeferred, Reportable, Sound, BundleStates, SettledBundle
  <2>2. Sound(MoveRow(r, n, "queued"), attempts, FreeRow(r, n),
              MoveBundle(r, n, "deferred"), last)
    BY <1>1, <2>1, MoveSound
  <2>3. Sound(queue', attempts', holder', bundle', last)
    BY <1>5, <2>2 DEF ReportDeferred
  <2>4. status' \in [Endpoints -> EndpointStatuses]
    BY <1>1, <1>5, StatusTyped
       DEF ReportDeferred, OthersTyped, Rows, EndpointStatuses
  <2> QED  BY <1>1, <1>5, <2>3, <2>4, TablesKeep DEF ReportDeferred, OthersTyped
<1>6. ASSUME NEW r \in Rows, NEW n \in Attempts, ReportFailed(r, n)
      PROVE  IInv'
  <2>1. bundle[r][n] \in InFlight
    BY <1>1, <1>6 DEF ReportFailed, Reportable, Sound, BundleStates, SettledBundle
  <2>2. Sound(queue', attempts', holder', bundle', last)
    BY <1>1, <1>6, <2>1, FailureSound DEF ReportFailed
  <2> QED  BY <1>1, <1>6, <2>2, TablesKeep
           DEF ReportFailed, endpointVars, OthersTyped
<1>7. ASSUME NEW r \in Rows, NEW n \in Attempts,
             NEW outcome \in {"completed", "failed"},
             RecordRuntimeTurnResult(r, n, outcome)
      PROVE  IInv'
  <2>1. RecordTurnResult(r, n, outcome, queue, holder, bundle, status)
    BY <1>7 DEF RecordRuntimeTurnResult
  <2>2. /\ Sound(queue', attempts', holder', bundle', last')
        /\ last' \in 0..MaxEvents
        /\ event' \in [Events -> EventRecords]
        /\ status' \in [Endpoints -> EndpointStatuses]
        /\ pending' \in [Events -> {"none", "pending", "resolved", "cancelled"}]
        /\ result' \in [Rows -> {"none", "completed", "failed"}]
    BY <1>1, <2>1, RecordSound DEF OthersTyped
  <2>3. UNCHANGED <<bridgeOf, retired>>
    BY <1>7 DEF RecordRuntimeTurnResult
  <2> QED  BY <1>1, <2>2, <2>3, IInvSplitPrime DEF OthersTyped
<1> QED  BY <1>2, <1>3, <1>4, <1>5, <1>6, <1>7 DEF BridgeCall

LEMMA EndpointCallKeeps ==
    ASSUME IInv, EndpointCall, UNCHANGED settling
    PROVE  IInv'
<1>1. Sound(queue, attempts, holder, bundle, last) /\ OthersTyped
  BY IInvSplit
<1>2. {"idle", "waiting", "runtime_unconfigured", "retired", "absent"}
          \cup OperatorStatuses \subseteq EndpointStatuses
  BY ConstantsAssumption DEF EndpointStatuses
<1>3. ASSUME NEW p \in Endpoints, NEW br \in Bridges \cup {NoBridge},
             NEW s \in {"idle", "runtime_unconfigured"}, RegisterEndpoint(p, br, s)
      PROVE  IInv'
  <2>1. /\ bridgeOf' = [bridgeOf EXCEPT ![p] = br]
        /\ UNCHANGED <<requestVars, retired>>
        /\ TryCreate({p}, queue, holder, bundle, [status EXCEPT ![p] = s])
    BY <1>3 DEF RegisterEndpoint
  <2>2. [status EXCEPT ![p] = s] \in [Endpoints -> EndpointStatuses]
    BY <1>1, <1>2 DEF OthersTyped
  <2>3. bridgeOf' \in [Endpoints -> Bridges \cup {NoBridge}]
    BY <1>1, <2>1 DEF OthersTyped
  <2>4. {p} \in SUBSET Endpoints
    OBVIOUS
  <2> QED  BY <1>1, <2>1, <2>2, <2>3, <2>4, TryCreateKeeps DEF OthersTyped
<1>4. ASSUME NEW p \in Endpoints, NEW s \in EndpointStatuses,
             UpdateEndpointStatus(p, s)
      PROVE  IInv'
  <2> DEFINE D == IF s \in {"idle", "waiting"} THEN {p} ELSE {}
  <2>1. /\ UNCHANGED <<bridgeOf, requestVars, retired>>
        /\ TryCreate(D, queue, holder, bundle, SetStatus(p, s))
    BY <1>4 DEF UpdateEndpointStatus
  <2>2. D \in SUBSET Endpoints
    OBVIOUS
  <2> HIDE DEF D
  <2> QED  BY <1>1, <2>1, <2>2, StatusTyped, TryCreateKeeps DEF OthersTyped
<1>5. ASSUME NEW p \in Endpoints, RetireEndpoint(p)
      PROVE  IInv'
  <2>1. Sound(queue', attempts', holder', bundle', last)
    BY <1>1, <1>5 DEF RetireEndpoint, deliveryVars
  <2>2. /\ status' \in [Endpoints -> EndpointStatuses]
        /\ bridgeOf' \in [Endpoints -> Bridges \cup {NoBridge}]
    BY <1>1, <1>2, <1>5 DEF RetireEndpoint, OthersTyped
  <2> QED  BY <1>1, <1>5, <2>1, <2>2, TablesKeep DEF RetireEndpoint, OthersTyped
<1>6. ASSUME NEW p \in Endpoints, DeleteEndpoint(p)
      PROVE  IInv'
  <2>1. /\ queue' \in [Rows -> RowStates]
        /\ holder' \in [Rows -> 0..MaxAttempts]
    BY <1>1, <1>6, ConstantsAssumption DEF DeleteEndpoint, Sound, RowStates, NoDelivery
  <2>2. RowFollowsBundle(queue', attempts', holder', bundle')
    BY <1>1, <1>6 DEF DeleteEndpoint, Sound, RowFollowsBundle, InFlight
  <2>3. NoSecondOwner(queue', attempts', holder', bundle')
    BY <1>1, <1>6 DEF DeleteEndpoint, Sound, NoSecondOwner
  <2>4. RowsHaveEvents(queue', attempts', last)
    BY <1>1, <1>6 DEF DeleteEndpoint, Sound, RowsHaveEvents
  <2>5. Sound(queue', attempts', holder', bundle', last)
    BY <1>1, <1>6, <2>1, <2>2, <2>3, <2>4 DEF DeleteEndpoint, Sound
  <2>6. /\ status' \in [Endpoints -> EndpointStatuses]
        /\ bridgeOf' \in [Endpoints -> Bridges \cup {NoBridge}]
    BY <1>1, <1>2, <1>6 DEF DeleteEndpoint, OthersTyped
  <2> QED  BY <1>1, <1>6, <2>5, <2>6, TablesKeep DEF DeleteEndpoint, OthersTyped
<1> QED
  BY <1>2, <1>3, <1>4, <1>5, <1>6
     DEF EndpointCall, BindRuntime, ClearRuntimeBinding, OperatorSetsStatus

LEMMA ExpireLeaseKeeps ==
    ASSUME IInv, NEW r \in Rows, NEW n \in Attempts, ExpireLease(r, n),
           UNCHANGED settling
    PROVE  IInv'
<1>1. Sound(queue, attempts, holder, bundle, last) /\ OthersTyped
  BY IInvSplit
<1>2. CASE FailUnknown(r, n)
  BY <1>1, <1>2, FailUnknownKeeps DEF OthersTyped
<1>3. CASE bundle[r][n] \in {"reserved", "delivered_to_bridge"} /\ RetryTransport(r, n)
  <2>1. Sound(RowAfterFailure(r, n), attempts, HolderAfterFailure(r, n),
              MoveBundle(r, n, Outcome(n)), last)
    BY <1>1, <1>3, FailureSound DEF InFlight
  <2>2. /\ status \in [Endpoints -> EndpointStatuses]
        /\ SetStatus(r[2], "idle") \in [Endpoints -> EndpointStatuses]
    BY <1>1, StatusTyped DEF OthersTyped, Rows, EndpointStatuses
  <2>3. {} \in SUBSET Endpoints /\ {r[2]} \in SUBSET Endpoints
    BY DEF Rows
  <2>4. UNCHANGED <<bridgeOf, requestVars, retired>>
    BY <1>3 DEF RetryTransport
  <2>5. CASE n >= AttemptLimit
    <3>1. TryCreate({}, RowAfterFailure(r, n), HolderAfterFailure(r, n),
                    MoveBundle(r, n, Outcome(n)), status)
      BY <1>3, <2>5 DEF RetryTransport
    <3> QED  BY <1>1, <2>1, <2>2, <2>3, <2>4, <3>1, TryCreateKeeps DEF OthersTyped
  <2>6. CASE ~(n >= AttemptLimit)
    <3>1. TryCreate({r[2]}, RowAfterFailure(r, n), HolderAfterFailure(r, n),
                    MoveBundle(r, n, Outcome(n)), SetStatus(r[2], "idle"))
      BY <1>3, <2>6 DEF RetryTransport
    <3> QED  BY <1>1, <2>1, <2>2, <2>3, <2>4, <3>1, TryCreateKeeps DEF OthersTyped
  <2> QED  BY <2>5, <2>6
<1> QED  BY <1>2, <1>3 DEF ExpireLease

\* Retiring a Scope cancels a row together with the bundle that holds it.
LEMMA RetireScopeKeeps ==
    ASSUME IInv, NEW s \in Scopes, RetireScope(s), UNCHANGED settling
    PROVE  IInv'
<1> DEFINE own == {r \in Rows : r[1] <= last /\ event[r[1]].scope = s}
           stopped == {p \in Endpoints \ Commands[s] :
                          \E r \in own, n \in Attempts :
                              r[2] = p /\ bundle[r][n] \in InFlight}
           ended == {p \in stopped : status[p] \notin {"absent", "runtime_unconfigured"}}
           q == [r \in Rows |-> IF r \in own /\ queue[r] \in {"queued"} \cup InFlight
                                THEN "cancelled" ELSE queue[r]]
           b == [r \in Rows |-> [n \in Attempts |->
                    IF r \in own /\ bundle[r][n] \in InFlight
                    THEN "cancelled" ELSE bundle[r][n]]]
           pend == [e \in Events |->
                       IF e <= last /\ event[e].scope = s /\ pending[e] = "pending"
                       THEN "cancelled" ELSE pending[e]]
           st == [p \in Endpoints |->
                     IF p \in Commands[s] /\ status[p] # "absent" THEN "retired"
                     ELSE IF p \in ended THEN TurnEndStatus(p, q, pend)
                     ELSE status[p]]
<1>1. Sound(queue, attempts, holder, bundle, last) /\ OthersTyped
  BY IInvSplit
<1>2. /\ retired' = retired \cup {s}
      /\ pending' = pend
      /\ bridgeOf' = [p \in Endpoints |->
             IF p \in Commands[s] THEN NoBridge ELSE bridgeOf[p]]
      /\ TryCreate(ended, q, holder, b, st)
      /\ UNCHANGED <<last, event, result>>
  BY DEF RetireScope
<1>3. /\ bridgeOf' \in [Endpoints -> Bridges \cup {NoBridge}]
      /\ pending' \in [Events -> {"none", "pending", "resolved", "cancelled"}]
      /\ retired' \subseteq Scopes
  BY <1>1, <1>2 DEF OthersTyped
<1>4. st \in [Endpoints -> EndpointStatuses]
  <2> HIDE DEF ended, q, pend
  <2> SUFFICES ASSUME NEW p \in Endpoints
               PROVE  st[p] \in EndpointStatuses
    OBVIOUS
  <2>1. CASE p \in Commands[s] /\ status[p] # "absent"
    BY <2>1, <1>1 DEF EndpointStatuses, OthersTyped
  <2>2. CASE ~(p \in Commands[s] /\ status[p] # "absent")
    BY <2>2, <1>1, TurnEndStatusTyped DEF EndpointStatuses, OthersTyped
  <2> QED  BY <2>1, <2>2
<1>5. Sound(q, attempts, holder, b, last)
  <2> HIDE DEF own
  <2>1. /\ q \in [Rows -> RowStates]
        /\ b \in [Rows -> [Attempts -> BundleStates]]
    BY <1>1 DEF Sound, RowStates, BundleStates
  <2>2. RowFollowsBundle(q, attempts, holder, b)
    BY <1>1, ConstantsAssumption
       DEF Sound, RowFollowsBundle, NoDelivery, InFlight, Attempts
  <2>3. NoSecondOwner(q, attempts, holder, b)
    BY <1>1, ConstantsAssumption DEF Sound, NoSecondOwner, InFlight, Attempts
  <2>4. RowsHaveEvents(q, attempts, last)
    BY <1>1 DEF Sound, RowsHaveEvents, InFlight
  <2> QED  BY <1>1, <2>1, <2>2, <2>3, <2>4 DEF Sound
<1>6. ended \in SUBSET Endpoints
  OBVIOUS
<1>7. last \in Nat
  BY <1>1, ConstantsAssumption DEF OthersTyped
<1> HIDE DEF ended, q, b, st, pend
<1>8. /\ Sound(queue', attempts', holder', bundle', last)
      /\ status' \in [Endpoints -> EndpointStatuses]
  BY <1>2, <1>4, <1>5, <1>6, <1>7, TryCreateSound
<1> QED  BY <1>1, <1>2, <1>3, <1>8, IInvSplitPrime DEF OthersTyped

LEMMA InitIInv == Init => IInv
<1> SUFFICES ASSUME Init PROVE IInv
  OBVIOUS
<1>1. TypeOK
  BY ConstantsAssumption, BlankEventTyped
     DEF Init, TypeOK, RowStates, BundleStates, EndpointStatuses, NoDelivery
<1>2. DeliveryTablesAgree
  BY ConstantsAssumption
     DEF Init, DeliveryTablesAgree, RowFollowsBundle, NoSecondOwner,
         RowsHaveEvents, InFlight, NoDelivery, Attempts
<1> QED  BY <1>1, <1>2 DEF IInv

LEMMA NextIInv == IInv /\ [Next]_vars => IInv'
<1> SUFFICES ASSUME IInv, [Next]_vars PROVE IInv'
  OBVIOUS
<1>1. settling \subseteq Rows \X Attempts
  BY DEF IInv, TypeOK
<1>2. CASE ClientCall /\ UNCHANGED settling
  BY <1>2, ClientCallKeeps
<1>3. CASE BridgeCall /\ UNCHANGED settling
  BY <1>3, BridgeCallKeeps
<1>4. CASE EndpointCall /\ UNCHANGED settling
  BY <1>4, EndpointCallKeeps
<1>5. CASE (\E r \in Rows, n \in Attempts : ExpireLease(r, n)) /\ UNCHANGED settling
  BY <1>5, ExpireLeaseKeeps
<1>6. CASE (\E s \in Scopes : RetireScope(s)) /\ UNCHANGED settling
  BY <1>6, RetireScopeKeeps
<1>7. ASSUME NEW br \in Bridges, RegisterBridge(br)
      PROVE  IInv'
  <2>1. settling' \subseteq Rows \X Attempts
    BY <1>7 DEF RegisterBridge
  <2>2. UNCHANGED <<last, event, queue, attempts, holder, bundle, status,
                    bridgeOf, pending, result, retired>>
    BY <1>7 DEF RegisterBridge, deliveryVars, endpointVars, requestVars
  <2> QED  BY <2>1, <2>2 DEF IInv, TypeOK, DeliveryTablesAgree
<1>8. CASE SettleAbandoned
  <2>1. PICK d \in settling : FailUnknown(d[1], d[2]) /\ settling' = settling \ {d}
    BY <1>8 DEF SettleAbandoned
  <2>2. d[1] \in Rows /\ d[2] \in Attempts /\ settling' \subseteq Rows \X Attempts
    BY <1>1, <2>1
  <2> QED  BY <2>1, <2>2, FailUnknownKeeps
<1>9. CASE UNCHANGED vars
  BY <1>9 DEF IInv, TypeOK, DeliveryTablesAgree, vars, deliveryVars, endpointVars,
              requestVars
<1> QED  BY <1>2, <1>3, <1>4, <1>5, <1>6, <1>7, <1>8, <1>9 DEF Next

-----------------------------------------------------------------------------

THEOREM Invariance == Spec => []IInv
<1>1. Init => IInv
  BY InitIInv
<1>2. IInv /\ [Next]_vars => IInv'
  BY NextIInv
<1> QED  BY <1>1, <1>2, PTL DEF Spec

\* Every variable keeps its type, for every size of the instance.
THEOREM TypeCorrect == Spec => []TypeOK
<1>1. IInv => TypeOK
  BY DEF IInv
<1> QED  BY <1>1, Invariance, PTL

\* event_queue, delivery_bundles and events agree in every reachable state,
\* whatever bridges report, in whatever order, however late.
THEOREM TablesAgree == Spec => []DeliveryTablesAgree
<1>1. IInv => DeliveryTablesAgree
  BY DEF IInv
<1> QED  BY <1>1, Invariance, PTL

-----------------------------------------------------------------------------
(* Steps: what a handler may not do to settled and to injected work.         *)

\* No bridge gives an injected delivery back.
NoGiveBack == Reports \cap {"deferred", "failed"} = {}

\* The tables q and b of a step respect settled and injected work.
Respects(q, b) ==
    /\ Settled(q, b)
    /\ NoGiveBack => \A r \in InjectedRows : q[r] # "queued"

StepRespects ==
    /\ Settled(queue', bundle')
    /\ NoGiveBack =>
           \A r \in InjectedRows : attempts'[r] = attempts[r] /\ queue'[r] # "queued"

\* TryCreate takes queued rows only and adds bundles only.
LEMMA TryCreateRespects ==
    ASSUME NEW D \in SUBSET Endpoints, NEW q, NEW h, NEW b, NEW l, NEW st,
           Sound(q, attempts, h, b, l), Respects(q, b),
           TryCreate(D, q, h, b, st)
    PROVE  StepRespects
<1> DEFINE open == {p \in D : /\ bridgeOf'[p] # NoBridge
                              /\ st[p] \notin {"absent", "active", "error",
                                               "runtime_unconfigured"}}
           picked == {r \in Rows : r[2] \in open /\ IsNext(q, r)}
<1>1. /\ \A r \in picked : q[r] = "queued"
      /\ queue' = [r \in Rows |-> IF r \in picked THEN "reserved" ELSE q[r]]
      /\ attempts' = [r \in Rows |->
             IF r \in picked THEN attempts[r] + 1 ELSE attempts[r]]
      /\ bundle' = [r \in Rows |-> [n \in Attempts |->
             IF r \in picked /\ n = attempts[r] + 1 THEN "reserved" ELSE b[r][n]]]
  BY DEF TryCreate, IsNext
<1> HIDE DEF picked
<1>2. \A r \in Rows, n \in Attempts :
          r \in picked /\ n = attempts[r] + 1 => b[r][n] = "absent"
  BY ConstantsAssumption DEF Sound, NoSecondOwner, Attempts
<1>3. Settled(queue', bundle')
  <2>1. ASSUME NEW r \in Rows, NEW n \in Attempts, bundle[r][n] \in SettledBundle
        PROVE  bundle'[r][n] = bundle[r][n]
    <3>1. b[r][n] = bundle[r][n] /\ b[r][n] # "absent"
      BY <2>1 DEF Respects, Settled, SettledBundle
    <3> QED  BY <3>1, <1>1, <1>2
  <2>2. ASSUME NEW r \in Rows, queue[r] \in FinalRow
        PROVE  queue'[r] \in {queue[r], "absent"}
    <3>1. q[r] \in {queue[r], "absent"} /\ q[r] # "queued"
      BY <2>2 DEF Respects, Settled, FinalRow
    <3> QED  BY <3>1, <1>1
  <2> QED  BY <2>1, <2>2 DEF Settled
<1>4. ASSUME NoGiveBack, NEW r \in InjectedRows
      PROVE  attempts'[r] = attempts[r] /\ queue'[r] # "queued"
  BY <1>1, <1>4 DEF Respects, InjectedRows, Sound
<1> QED  BY <1>3, <1>4 DEF StepRespects

\* The row of an injected bundle is injected, or was dropped with its endpoint.
LEMMA InjectedRow ==
    ASSUME Sound(queue, attempts, holder, bundle, last), NEW r \in InjectedRows
    PROVE  queue[r] \in {"injected_to_runtime", "absent"}
<1>1. PICK n \in Attempts : bundle[r][n] = "injected_to_runtime"
  BY DEF InjectedRows
<1>2. r \in Rows
  BY DEF InjectedRows
<1>3. queue[r] # "absent" => holder[r] = n
  BY <1>1, <1>2, InFlightHolds DEF InFlight
<1> QED
  BY <1>1, <1>2, <1>3, ConstantsAssumption
     DEF Sound, RowFollowsBundle, NoDelivery, Attempts

LEMMA SameRespects ==
    ASSUME Sound(queue, attempts, holder, bundle, last)
    PROVE  Respects(queue, bundle)
BY InjectedRow DEF Respects, Settled

\* Moving a bundle in flight: only a transport failure queues its row again.
LEMMA MoveRespects ==
    ASSUME Sound(queue, attempts, holder, bundle, last),
           NEW r \in Rows, NEW n \in Attempts, bundle[r][n] \in InFlight,
           NEW s, NEW t,
           t = "queued" /\ NoGiveBack => bundle[r][n] # "injected_to_runtime"
    PROVE  Respects(MoveRow(r, n, t), MoveBundle(r, n, s))
<1> DEFINE q == MoveRow(r, n, t)
           b == MoveBundle(r, n, s)
<1>1. /\ b[r] = [bundle[r] EXCEPT ![n] = s]
      /\ q[r] = IF holder[r] = n THEN t ELSE queue[r]
      /\ \A x \in Rows : x # r => b[x] = bundle[x] /\ q[x] = queue[x]
  BY DEF Sound, MoveRow, MoveBundle
<1>2. \A m \in Attempts : m # n => b[r][m] = bundle[r][m]
  BY <1>1 DEF Sound
<1>3. holder[r] = n => queue[r] = bundle[r][n]
  BY ConstantsAssumption DEF Sound, RowFollowsBundle, NoDelivery, Attempts
<1>4. bundle[r][n] \notin SettledBundle /\ bundle[r][n] \notin FinalRow
  BY DEF InFlight, SettledBundle, FinalRow
<1> HIDE DEF q, b
<1>5. Settled(q, b)
  BY <1>1, <1>2, <1>3, <1>4 DEF Settled
<1>6. ASSUME NoGiveBack, NEW x \in InjectedRows
      PROVE  q[x] # "queued"
  <2>1. queue[x] \in {"injected_to_runtime", "absent"} /\ x \in Rows
    BY InjectedRow DEF InjectedRows
  <2>2. CASE x # r \/ holder[r] # n \/ t # "queued"
    BY <2>1, <2>2, <1>1
  <2>3. CASE x = r /\ holder[r] = n /\ t = "queued"
    BY <2>1, <2>3, <1>3, <1>6 DEF InFlight
  <2> QED  BY <2>2, <2>3
<1> QED  BY <1>5, <1>6 DEF Respects, q, b

LEMMA FailureRespects ==
    ASSUME Sound(queue, attempts, holder, bundle, last),
           NEW r \in Rows, NEW n \in Attempts, bundle[r][n] \in InFlight,
           NoGiveBack => bundle[r][n] # "injected_to_runtime"
    PROVE  Respects(RowAfterFailure(r, n), MoveBundle(r, n, Outcome(n)))
BY MoveRespects DEF RowAfterFailure

LEMMA RecordRespects ==
    ASSUME IInv, NEW r \in Rows, NEW n, NEW outcome,
           NEW q, NEW h, NEW b, NEW st,
           Sound(q, attempts, h, b, last), Respects(q, b),
           RecordTurnResult(r, n, outcome, q, h, b, st)
    PROVE  StepRespects
<1>1. CASE TryCreate({}, q, h, b, st)
  BY <1>1, TryCreateRespects, {} \in SUBSET Endpoints
<1>2. CASE ~TryCreate({}, q, h, b, st)
  <2> DEFINE e == last + 1
             w == event[ConcludedRequest(r[1])].source
             q1 == [q EXCEPT ![<<e, w>>] = "queued"]
             D == {w} \cap Endpoints
  <2>1. e <= MaxEvents /\ TryCreate({w}, q1, h, b, QueuedStatus(st, {w}))
    BY <1>2 DEF RecordTurnResult
  <2>2. TryCreate(D, q1, h, b, QueuedStatus(st, {w}))
    <3>1. CASE w \in Endpoints
      <4>1. D = {w}
        BY <3>1
      <4> QED  BY <2>1, <4>1
    <3>2. CASE w \notin Endpoints
      <4> DEFINE st1 == QueuedStatus(st, {w})
                 Open(E) == {p \in E : /\ bridgeOf'[p] # NoBridge
                                       /\ st1[p] \notin {"absent", "active", "error",
                                                         "runtime_unconfigured"}}
                 Picked(E) == {x \in Rows : x[2] \in Open(E) /\ IsNext(q1, x)}
      <4>1. \A x \in Rows : x[2] # w
        BY <3>2 DEF Rows
      <4>2. Picked({w}) = {} /\ Picked(D) = {}
        <5> HIDE DEF q1, st1, w
        <5> QED  BY <3>2, <4>1
      <4>3. Picked({w}) = Picked(D)
        BY <4>2
      <4> HIDE DEF q1, D, w
      <4> QED  BY <2>1, <4>3 DEF TryCreate
    <3> QED  BY <3>1, <3>2
  <2>3. last \in Nat
    BY ConstantsAssumption DEF IInv, TypeOK
  <2>4. /\ q1 \in [Rows -> RowStates]
        /\ \A x \in Rows : q1[x] = q[x] \/ (x[1] = last + 1 /\ q1[x] = "queued")
    <3>1. q1 \in [Rows -> RowStates]
      BY DEF Sound, RowStates
    <3>2. \A x \in Rows : q1[x] = q[x] \/ (x[1] = last + 1 /\ q1[x] = "queued")
      BY DEF Sound
    <3> QED  BY <3>1, <3>2
  <2>5. Sound(q1, attempts, h, b, e)
    BY <2>3, <2>4, QueueSound
  <2>6. \A x \in Rows : x[1] = last + 1 => queue[x] = "absent" /\ x \notin InjectedRows
    <3> SUFFICES ASSUME NEW x \in Rows, x[1] = last + 1
                 PROVE  queue[x] = "absent" /\ x \notin InjectedRows
      OBVIOUS
    <3>1. queue[x] = "absent" /\ attempts[x] = 0
      BY <2>3 DEF IInv, DeliveryTablesAgree, RowsHaveEvents
    <3>2. \A m \in Attempts : bundle[x][m] = "absent"
      BY <3>1, ConstantsAssumption
         DEF IInv, DeliveryTablesAgree, NoSecondOwner, Attempts
    <3> QED  BY <3>1, <3>2 DEF InjectedRows
  <2>7. Respects(q1, b)
    BY <2>4, <2>6 DEF Respects, Settled, InjectedRows, FinalRow
  <2> HIDE DEF D, q1, e
  <2>8. D \in SUBSET Endpoints
    BY DEF D
  <2> QED  BY <2>2, <2>5, <2>7, <2>8, TryCreateRespects
<1> QED  BY <1>1, <1>2

\* An in-flight bundle is what a report or an expired lease acts on.
LEMMA ReportableInFlight ==
    ASSUME IInv, NEW r \in Rows, NEW n \in Attempts, NEW s, Reportable(r, n, s)
    PROVE  bundle[r][n] \in InFlight /\ s \in Reports
<1>1. bundle[r][n] \in BundleStates
  BY DEF IInv, TypeOK
<1> QED  BY <1>1 DEF Reportable, BundleStates, SettledBundle

LEMMA SubmitRespects ==
    ASSUME IInv, NEW rec, NEW D \in SUBSET Endpoints, Submit(rec, D)
    PROVE  StepRespects
<1> DEFINE x == last + 1
           q1 == [r \in Rows |-> IF r[1] = x /\ r[2] \in D THEN "queued"
                                 ELSE queue[r]]
<1>1. Sound(queue, attempts, holder, bundle, last) /\ last \in Nat
  BY TablesSound, ConstantsAssumption DEF IInv, TypeOK
<1>2. TryCreate(D, q1, holder, bundle, QueuedStatus(status, D))
  BY DEF Submit
<1>3. Sound(q1, attempts, holder, bundle, x)
  <2>1. q1 \in [Rows -> RowStates]
    BY <1>1 DEF Sound, RowStates
  <2>2. \A r \in Rows : q1[r] = queue[r] \/ (r[1] = last + 1 /\ q1[r] = "queued")
    OBVIOUS
  <2> QED  BY <2>1, <2>2, <1>1, QueueSound
<1>4. \A r \in Rows : r[1] = x => queue[r] = "absent" /\ r \notin InjectedRows
  <2> SUFFICES ASSUME NEW r \in Rows, r[1] = x
               PROVE  queue[r] = "absent" /\ r \notin InjectedRows
    OBVIOUS
  <2>1. queue[r] = "absent" /\ attempts[r] = 0
    BY <1>1 DEF Sound, RowsHaveEvents
  <2>2. \A m \in Attempts : bundle[r][m] = "absent"
    BY <1>1, <2>1, ConstantsAssumption DEF Sound, NoSecondOwner, Attempts
  <2> QED  BY <2>1, <2>2 DEF InjectedRows
<1>5. Respects(q1, bundle)
  <2>1. \A r \in Rows : q1[r] = queue[r] \/ r[1] = x
    OBVIOUS
  <2>2. Respects(queue, bundle)
    BY <1>1, SameRespects
  <2> QED  BY <2>1, <2>2, <1>4 DEF Respects, Settled, InjectedRows, FinalRow
<1> HIDE DEF q1, x
<1> QED  BY <1>2, <1>3, <1>5, TryCreateRespects

LEMMA ClientCallRespects ==
    ASSUME IInv, ClientCall
    PROVE  StepRespects
<1>1. /\ \A p : {p} \cap Routable \in SUBSET Endpoints
      /\ SUBSET Routable \subseteq SUBSET Endpoints
  BY DEF Routable
<1>2. ASSUME NEW k \in ClientKinds, NEW src \in Endpoints, NEW sc, EmitEvent(k, src, sc)
      PROVE  StepRespects
  BY <1>1, <1>2, SubmitRespects DEF EmitEvent
<1>3. ASSUME NEW p \in Endpoints, NEW sc, EmitTrigger(p, sc)
      PROVE  StepRespects
  BY <1>1, <1>3, SubmitRespects DEF EmitTrigger
<1>4. ASSUME NEW r \in Rows, NEW n \in Attempts, NEW p \in Endpoints, NEW sc,
             EmitRequest(r, n, p, sc)
      PROVE  StepRespects
  BY <1>1, <1>4, SubmitRespects DEF EmitRequest
<1> QED  BY <1>2, <1>3, <1>4 DEF ClientCall

\* A claim moves reserved bundles and their rows only.
LEMMA ClaimRespects ==
    ASSUME IInv, NEW br, ClaimDeliveries(br)
    PROVE  StepRespects
<1>1. Sound(queue, attempts, holder, bundle, last)
  BY TablesSound DEF IInv
<1>2. /\ \A r \in Rows, n \in Attempts : bundle'[r][n] = bundle[r][n]
                                         \/ bundle[r][n] = "reserved"
      /\ \A r \in Rows : queue'[r] = queue[r]
                         \/ (queue[r] = "reserved" /\ queue'[r] = "delivered_to_bridge")
      /\ attempts' = attempts
  BY DEF ClaimDeliveries
<1>3. \A r \in InjectedRows : r \in Rows /\ queue[r] # "queued"
  BY <1>1, InjectedRow DEF InjectedRows
<1> QED  BY <1>2, <1>3 DEF StepRespects, Settled, SettledBundle, FinalRow

LEMMA BridgeCallRespects ==
    ASSUME IInv, BridgeCall
    PROVE  StepRespects
<1>1. Sound(queue, attempts, holder, bundle, last)
  BY TablesSound DEF IInv
<1>2. ASSUME NEW br \in Bridges, ClaimDeliveries(br)
      PROVE  StepRespects
  BY <1>2, ClaimRespects
<1>3. ASSUME NEW p \in Endpoints, ReportTurnEnd(p)
      PROVE  StepRespects
  <2>1. TryCreate({p}, queue, holder, bundle,
                  SetStatus(p, TurnEndStatus(p, queue, pending)))
    BY <1>3 DEF ReportTurnEnd
  <2> QED  BY <1>1, <2>1, SameRespects, TryCreateRespects, {p} \in SUBSET Endpoints
<1>4. ASSUME NEW r \in Rows, NEW n \in Attempts, NEW s \in Reports,
             ReportProgress(r, n, s)
      PROVE  StepRespects
  <2>1. bundle[r][n] \in InFlight /\ s # "queued"
    BY <1>4, ReportableInFlight DEF ReportProgress
  <2>2. Respects(MoveRow(r, n, s), MoveBundle(r, n, s))
    BY <1>1, <2>1, MoveRespects
  <2> QED  BY <1>4, <2>2 DEF ReportProgress, Respects, StepRespects, InjectedRows
<1>5. ASSUME NEW r \in Rows, NEW n \in Attempts, ReportDeferred(r, n)
      PROVE  StepRespects
  <2>1. bundle[r][n] \in InFlight /\ "deferred" \in Reports
    BY <1>5, ReportableInFlight DEF ReportDeferred
  <2>2. ~NoGiveBack
    BY <2>1 DEF NoGiveBack
  <2>3. Respects(MoveRow(r, n, "queued"), MoveBundle(r, n, "deferred"))
    BY <1>1, <2>1, <2>2, MoveRespects
  <2> QED  BY <1>5, <2>2, <2>3 DEF ReportDeferred, Respects, StepRespects
<1>6. ASSUME NEW r \in Rows, NEW n \in Attempts, ReportFailed(r, n)
      PROVE  StepRespects
  <2>1. bundle[r][n] \in InFlight /\ "failed" \in Reports
    BY <1>6, ReportableInFlight DEF ReportFailed
  <2>2. ~NoGiveBack
    BY <2>1 DEF NoGiveBack
  <2>3. Respects(RowAfterFailure(r, n), MoveBundle(r, n, Outcome(n)))
    BY <1>1, <2>1, <2>2, FailureRespects
  <2> QED  BY <1>6, <2>2, <2>3 DEF ReportFailed, Respects, StepRespects
<1>7. ASSUME NEW r \in Rows, NEW n \in Attempts, NEW outcome,
             RecordRuntimeTurnResult(r, n, outcome)
      PROVE  StepRespects
  BY <1>1, <1>7, SameRespects, RecordRespects DEF RecordRuntimeTurnResult
<1> QED  BY <1>2, <1>3, <1>4, <1>5, <1>6, <1>7 DEF BridgeCall

LEMMA EndpointCallRespects ==
    ASSUME IInv, EndpointCall
    PROVE  StepRespects
<1>1. Sound(queue, attempts, holder, bundle, last) /\ Respects(queue, bundle)
  BY TablesSound, SameRespects DEF IInv
<1>2. ASSUME NEW D \in SUBSET Endpoints, NEW st,
             TryCreate(D, queue, holder, bundle, st)
      PROVE  StepRespects
  BY <1>1, <1>2, TryCreateRespects
<1>3. ASSUME NEW p \in Endpoints, NEW br, NEW s, RegisterEndpoint(p, br, s)
      PROVE  StepRespects
  BY <1>2, <1>3 DEF RegisterEndpoint
<1>4. ASSUME NEW p \in Endpoints, NEW s, UpdateEndpointStatus(p, s)
      PROVE  StepRespects
  <2>1. (IF s \in {"idle", "waiting"} THEN {p} ELSE {}) \in SUBSET Endpoints
    OBVIOUS
  <2> QED  BY <1>2, <1>4, <2>1 DEF UpdateEndpointStatus
<1>5. ASSUME NEW p \in Endpoints, RetireEndpoint(p)
      PROVE  StepRespects
  BY <1>1, <1>5 DEF RetireEndpoint, deliveryVars, Respects, StepRespects, InjectedRows
<1>6. ASSUME NEW p \in Endpoints, DeleteEndpoint(p)
      PROVE  StepRespects
  <2>1. /\ \A r \in Rows : queue'[r] \in {queue[r], "absent"}
        /\ bundle' = bundle /\ attempts' = attempts
    BY <1>6 DEF DeleteEndpoint
  <2> QED  BY <1>1, <2>1 DEF Respects, StepRespects, Settled, InjectedRows
<1> QED
  BY <1>3, <1>4, <1>5, <1>6
     DEF EndpointCall, BindRuntime, ClearRuntimeBinding, OperatorSetsStatus

\* Losing an injected turn concludes its row; it does not queue it again.
LEMMA FailUnknownRespects ==
    ASSUME IInv, NEW r \in Rows, NEW n \in Attempts, FailUnknown(r, n)
    PROVE  StepRespects
<1>1. Sound(queue, attempts, holder, bundle, last)
  BY TablesSound DEF IInv
<1>2. bundle[r][n] \in InFlight
  BY DEF FailUnknown, InFlight
<1> DEFINE q == MoveRow(r, n, "dead_lettered")
           b == MoveBundle(r, n, "dead_lettered")
<1>3. Respects(q, b)
  BY <1>1, <1>2, MoveRespects
<1>4. Sound(q, attempts, holder, b, last)
  BY <1>1, <1>2, MoveSound
<1>5. RecordTurnResult(r, n, "failed", q, holder, b, SetStatus(r[2], "error"))
  BY DEF FailUnknown
<1> HIDE DEF q, b
<1> QED  BY <1>3, <1>4, <1>5, RecordRespects

LEMMA ExpireLeaseRespects ==
    ASSUME IInv, NEW r \in Rows, NEW n \in Attempts, ExpireLease(r, n)
    PROVE  StepRespects
<1>1. Sound(queue, attempts, holder, bundle, last)
  BY TablesSound DEF IInv
<1>2. CASE FailUnknown(r, n)
  BY <1>2, FailUnknownRespects
<1>3. CASE bundle[r][n] \in {"reserved", "delivered_to_bridge"} /\ RetryTransport(r, n)
  <2> DEFINE q == RowAfterFailure(r, n)
             h == HolderAfterFailure(r, n)
             b == MoveBundle(r, n, Outcome(n))
  <2>1. bundle[r][n] \in InFlight /\ bundle[r][n] # "injected_to_runtime"
    BY <1>3 DEF InFlight
  <2>2. Sound(q, attempts, h, b, last) /\ Respects(q, b)
    BY <1>1, <2>1, FailureSound, FailureRespects
  <2>3. \E D \in SUBSET Endpoints : \E st : TryCreate(D, q, h, b, st)
    <3>1. {} \in SUBSET Endpoints /\ {r[2]} \in SUBSET Endpoints
      BY DEF Rows
    <3> QED  BY <1>3, <3>1 DEF RetryTransport
  <2> HIDE DEF q, h, b
  <2> QED  BY <2>2, <2>3, TryCreateRespects
<1> QED  BY <1>2, <1>3 DEF ExpireLease

\* Retiring a Scope cancels what is open and leaves the rest alone.
LEMMA RetireScopeRespects ==
    ASSUME IInv, NEW s \in Scopes, RetireScope(s)
    PROVE  StepRespects
<1> DEFINE own == {r \in Rows : r[1] <= last /\ event[r[1]].scope = s}
           stopped == {p \in Endpoints \ Commands[s] :
                          \E r \in own, n \in Attempts :
                              r[2] = p /\ bundle[r][n] \in InFlight}
           ended == {p \in stopped : status[p] \notin {"absent", "runtime_unconfigured"}}
           q == [r \in Rows |-> IF r \in own /\ queue[r] \in {"queued"} \cup InFlight
                                THEN "cancelled" ELSE queue[r]]
           b == [r \in Rows |-> [n \in Attempts |->
                    IF r \in own /\ bundle[r][n] \in InFlight
                    THEN "cancelled" ELSE bundle[r][n]]]
<1>1. Sound(queue, attempts, holder, bundle, last) /\ Respects(queue, bundle)
  BY TablesSound, SameRespects DEF IInv
<1>2. \E st : TryCreate(ended, q, holder, b, st)
  BY DEF RetireScope
<1>3. Sound(q, attempts, holder, b, last)
  <2> HIDE DEF own
  <2>1. /\ q \in [Rows -> RowStates]
        /\ b \in [Rows -> [Attempts -> BundleStates]]
    BY <1>1 DEF Sound, RowStates, BundleStates
  <2>2. RowFollowsBundle(q, attempts, holder, b)
    BY <1>1, ConstantsAssumption
       DEF Sound, RowFollowsBundle, NoDelivery, InFlight, Attempts
  <2>3. NoSecondOwner(q, attempts, holder, b)
    BY <1>1, ConstantsAssumption DEF Sound, NoSecondOwner, InFlight, Attempts
  <2>4. RowsHaveEvents(q, attempts, last)
    BY <1>1 DEF Sound, RowsHaveEvents, InFlight
  <2> QED  BY <1>1, <2>1, <2>2, <2>3, <2>4 DEF Sound
<1>4. Respects(q, b)
  <2> HIDE DEF own
  <2>1. \A r \in Rows : q[r] = queue[r] \/ (q[r] = "cancelled" /\ queue[r] \notin FinalRow)
    BY DEF InFlight, FinalRow
  <2>2. \A r \in Rows, n \in Attempts : b[r][n] = bundle[r][n]
                                        \/ bundle[r][n] \notin SettledBundle
    BY DEF InFlight, SettledBundle
  <2> HIDE DEF q, b
  <2> QED  BY <1>1, <2>1, <2>2 DEF Respects, Settled, InjectedRows
<1>5. ended \in SUBSET Endpoints
  OBVIOUS
<1> HIDE DEF ended, q, b
<1> QED  BY <1>2, <1>3, <1>4, <1>5, TryCreateRespects

LEMMA NextRespects == IInv /\ [Next]_vars => [StepRespects]_vars
<1> SUFFICES ASSUME IInv, Next PROVE StepRespects
  OBVIOUS
<1>1. ASSUME deliveryVars' = deliveryVars PROVE StepRespects
  <2>1. Respects(queue, bundle)
    BY TablesSound, SameRespects DEF IInv
  <2> QED  BY <1>1, <2>1 DEF deliveryVars, Respects, StepRespects
<1>2. ASSUME NEW br, RegisterBridge(br) PROVE StepRespects
  BY <1>1, <1>2 DEF RegisterBridge
<1>3. CASE SettleAbandoned
  <2>1. PICK d \in settling : FailUnknown(d[1], d[2])
    BY <1>3 DEF SettleAbandoned
  <2>2. d[1] \in Rows /\ d[2] \in Attempts
    BY <2>1 DEF IInv, TypeOK
  <2> QED  BY <2>1, <2>2, FailUnknownRespects
<1> QED
  BY <1>2, <1>3, ClientCallRespects, BridgeCallRespects, EndpointCallRespects,
     ExpireLeaseRespects, RetireScopeRespects DEF Next

\* What is settled stays settled, whatever a late report, an expired lease, a
\* restarted bridge or a retired Scope does next.
THEOREM SettledStaysSettled == Spec => SettledIsFinal
<1>1. IInv /\ [Next]_vars => [Settled(queue', bundle')]_vars
  BY NextRespects DEF StepRespects
<1> QED  BY <1>1, Invariance, PTL DEF Spec, SettledIsFinal

\* Under bridges that never give an injected delivery back, no event whose turn
\* has entered a runtime is ever delivered again.
THEOREM InjectedIsNeverReplayed ==
    ASSUME Reports \cap {"deferred", "failed"} = {}
    PROVE  Spec => NoReplayAfterInjection
<1>1. IInv /\ [Next]_vars =>
          [\A r \in InjectedRows : attempts'[r] = attempts[r] /\ queue'[r] # "queued"]_vars
  BY NextRespects DEF StepRespects, NoGiveBack
<1> QED  BY <1>1, Invariance, PTL DEF Spec, NoReplayAfterInjection
=============================================================================
