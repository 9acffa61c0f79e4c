------------------------- MODULE BridgePromiseProofs -------------------------
(***************************************************************************)
(* Bus and bridge keep the promise of DeliveryPromise while no Scope is    *)
(* stopped and no turn is overtaken by a message about its own delivery:   *)
(* work is run at most once, is done only if it ran, and is then over for  *)
(* good.  Before that, the types of the daemon's variables.                *)
(***************************************************************************)
EXTENDS BridgeDaemonProofs, SequenceTheorems

\* Only the message about a retired Scope names no delivery.
WireMessages ==
    [kind : {"bundle", "cancel"}, of : Deliveries]
        \cup {[kind |-> "scope_retired", of |-> <<>>]}

\* An element of a concatenation is one of its parts.
LEMMA ConcatElement ==
    ASSUME NEW S, NEW s \in Seq(S), NEW t \in Seq(S), NEW i \in DOMAIN (s \o t)
    PROVE  \/ \E j \in DOMAIN s : (s \o t)[i] = s[j]
           \/ \E j \in DOMAIN t : (s \o t)[i] = t[j]
<1>1. /\ Len(s) \in Nat /\ Len(t) \in Nat
      /\ DOMAIN s = 1..Len(s) /\ DOMAIN t = 1..Len(t)
      /\ DOMAIN (s \o t) = 1..(Len(s) + Len(t))
  BY LenProperties, ConcatProperties
<1>2. (s \o t)[i] = IF i <= Len(s) THEN s[i] ELSE t[i - Len(s)]
  BY <1>1, ConcatProperties
<1>3. CASE i <= Len(s)
  BY <1>1, <1>2, <1>3
<1>4. CASE ~(i <= Len(s))
  <2>1. i - Len(s) \in 1..Len(t)
    BY <1>1, <1>4
  <2> QED  BY <1>1, <1>2, <1>4, <2>1
<1> QED  BY <1>3, <1>4

LEMMA DeliveriesFinite == IsFiniteSet(Deliveries)
<1>1. IsFiniteSet(Events) /\ IsFiniteSet(Attempts) /\ IsFiniteSet(Endpoints)
  BY FS_Interval, ConstantsAssumption, DaemonAssumption DEF Events, Attempts
<1>2. IsFiniteSet(Rows)
  BY <1>1, FS_Product DEF Rows
<1> QED  BY <1>1, <1>2, FS_Product DEF Deliveries

\* The messages about a set of deliveries are messages about its members.
LEMMA MessagesTyped ==
    ASSUME NEW kind \in {"bundle", "cancel"}, NEW S \in SUBSET Deliveries,
           NEW m \in Messages(kind, S)
    PROVE  /\ m \in Seq(WireMessages)
           /\ \A i \in DOMAIN m : m[i].kind = kind /\ m[i].of \in S
<1>1. PICK f \in Orders(S) : m = [i \in DOMAIN f |-> [kind |-> kind, of |-> f[i]]]
  BY DEF Messages
<1>2. Cardinality(S) \in Nat
  BY DeliveriesFinite, FS_Subset, FS_CardinalityType
<1>3. f \in [1..Cardinality(S) -> S]
  BY <1>1 DEF Orders
<1>4. \A i \in 1..Cardinality(S) : [kind |-> kind, of |-> f[i]] \in WireMessages
  BY <1>3 DEF WireMessages
<1>5. m \in [1..Cardinality(S) -> WireMessages]
  BY <1>1, <1>3, <1>4
<1>6. m \in Seq(WireMessages)
  BY <1>2, <1>5, SeqDef
<1> QED  BY <1>1, <1>3, <1>6

LEMMA RescanTyped == /\ Rescan \in Seq(WireMessages) /\ <<>> \in Seq(WireMessages)
                     /\ \A w \in {<<>>, Rescan} : \A i \in DOMAIN w : w[i].kind = "scope_retired"
<1>1. [kind |-> "scope_retired", of |-> <<>>] \in WireMessages
  BY DEF WireMessages
<1>2. Rescan = [i \in 1..1 |-> [kind |-> "scope_retired", of |-> <<>>]]
  BY DEF Rescan
<1>3. Rescan \in [1..1 -> WireMessages] /\ 1 \in Nat
  BY <1>1, <1>2
<1>4. Rescan \in Seq(WireMessages)
  BY <1>3, SeqDef
<1>5. \A i \in DOMAIN <<>> : FALSE
  BY EmptySeq, LenProperties
<1> QED  BY <1>2, <1>4, <1>5, EmptySeq

\* What is on the wire after a broadcast was there before, announces a bundle that
\* the step made, or is no bundle.
LEMMA BroadcastKeepsWire ==
    ASSUME wire \in Seq(WireMessages), NEW w \in {<<>>, Rescan}, Broadcast(w)
    PROVE  /\ wire' \in Seq(WireMessages)
           /\ \A i \in DOMAIN wire' :
                  \/ \E j \in DOMAIN wire : wire'[i] = wire[j]
                  \/ wire'[i].kind = "bundle" /\ wire'[i].of \in Created
                  \/ wire'[i].kind # "bundle"
<1>1. CASE ~stream
  <2>1. wire' = wire
    BY <1>1 DEF Broadcast
  <2> QED  BY <2>1
<1>2. CASE stream
  <2>1. PICK c \in Messages("cancel", Cancelled), b \in Messages("bundle", Created) :
            wire' = wire \o c \o b \o w
    BY <1>2 DEF Broadcast
  <2>2. Cancelled \in SUBSET Deliveries /\ Created \in SUBSET Deliveries
    BY DEF Cancelled, Created
  <2>3. /\ c \in Seq(WireMessages)
        /\ \A i \in DOMAIN c : c[i].kind = "cancel"
    BY <2>2, MessagesTyped
  <2>4. /\ b \in Seq(WireMessages)
        /\ \A i \in DOMAIN b : b[i].kind = "bundle" /\ b[i].of \in Created
    BY <2>2, MessagesTyped
  <2>5. w \in Seq(WireMessages) /\ \A i \in DOMAIN w : w[i].kind = "scope_retired"
    BY RescanTyped
  <2>6. wire \o c \in Seq(WireMessages)
    BY <2>3, ConcatProperties
  <2>7. wire \o c \o b \in Seq(WireMessages)
    BY <2>4, <2>6, ConcatProperties
  <2>8. wire' \in Seq(WireMessages)
    BY <2>1, <2>5, <2>7, ConcatProperties
  <2>9. ASSUME NEW i \in DOMAIN wire'
        PROVE  \/ \E j \in DOMAIN wire : wire'[i] = wire[j]
               \/ wire'[i].kind = "bundle" /\ wire'[i].of \in Created
               \/ wire'[i].kind # "bundle"
    <3> DEFINE s == wire \o c \o b
    <3>1. \/ \E j \in DOMAIN s : wire'[i] = s[j]
          \/ \E j \in DOMAIN w : wire'[i] = w[j]
      <4>1. s \in Seq(WireMessages) /\ wire' = s \o w
        BY <2>1, <2>7
      <4> HIDE DEF s
      <4>2. i \in DOMAIN (s \o w)
        BY <2>9, <4>1
      <4>3. \/ \E j \in DOMAIN s : (s \o w)[i] = s[j]
            \/ \E j \in DOMAIN w : (s \o w)[i] = w[j]
        BY <2>5, <4>1, <4>2, ConcatElement
      <4> QED  BY <4>1, <4>3
    <3>2. CASE \E j \in DOMAIN w : wire'[i] = w[j]
      BY <2>5, <3>2
    <3>3. CASE \E j \in DOMAIN (wire \o c \o b) : wire'[i] = (wire \o c \o b)[j]
      <4>1. PICK j \in DOMAIN (wire \o c \o b) : wire'[i] = (wire \o c \o b)[j]
        BY <3>3
      <4>2. \/ \E k \in DOMAIN (wire \o c) : wire'[i] = (wire \o c)[k]
            \/ \E k \in DOMAIN b : wire'[i] = b[k]
        BY <2>4, <2>6, <4>1, ConcatElement
      <4>3. CASE \E k \in DOMAIN b : wire'[i] = b[k]
        BY <2>4, <4>3
      <4>4. CASE \E k \in DOMAIN (wire \o c) : wire'[i] = (wire \o c)[k]
        <5>1. PICK k \in DOMAIN (wire \o c) : wire'[i] = (wire \o c)[k]
          BY <4>4
        <5>2. \/ \E l \in DOMAIN wire : wire'[i] = wire[l]
              \/ \E l \in DOMAIN c : wire'[i] = c[l]
          BY <2>3, <5>1, ConcatElement
        <5> QED  BY <2>3, <5>2
      <4> QED  BY <4>2, <4>3, <4>4
    <3> QED  BY <3>1, <3>2, <3>3
  <2> QED  BY <2>8, <2>9
<1> QED  BY <1>1, <1>2

-----------------------------------------------------------------------------
(* The types of the daemon's variables.                                      *)

\* With HandlersInv, which types scan and task.
DaemonTypes ==
    /\ up \in BOOLEAN /\ starting \in BOOLEAN /\ stream \in BOOLEAN
    /\ wire \in Seq(WireMessages)
    /\ known \subseteq Endpoints
    /\ claims \in 0..MaxClaims
    /\ replies \subseteq SUBSET Deliveries
    /\ cancelled \subseteq Deliveries
    /\ emitted \subseteq Rows
    /\ runs \in [Rows -> Nat]
    /\ faults \in 0..MaxFaults

LEMMA AddClaimTyped == claims \in 0..MaxClaims /\ AddClaim => claims' \in 0..MaxClaims
BY DEF AddClaim, MaxClaims

\* The wire loses its first message.
LEMMA TailTyped ==
    ASSUME wire \in Seq(WireMessages), wire # <<>>, wire' = Tail(wire)
    PROVE  /\ wire' \in Seq(WireMessages)
           /\ Head(wire) \in WireMessages
           /\ \E j \in DOMAIN wire : Head(wire) = wire[j]
           /\ \A i \in DOMAIN wire' : \E j \in DOMAIN wire : wire'[i] = wire[j]
<1>1. /\ Len(wire) \in Nat /\ DOMAIN wire = 1..Len(wire)
      /\ Head(wire) \in WireMessages
      /\ Tail(wire) \in Seq(WireMessages)
      /\ Len(Tail(wire)) = Len(wire) - 1
      /\ \A i \in 1..Len(Tail(wire)) : Tail(wire)[i] = wire[i + 1]
  BY HeadTailProperties, LenProperties
<1>2. DOMAIN Tail(wire) = 1..(Len(wire) - 1)
  BY <1>1, LenProperties
<1>3. Len(wire) # 0 /\ Head(wire) = wire[1]
  BY <1>1, EmptySeq
<1>4. \A i \in DOMAIN wire' : i + 1 \in DOMAIN wire /\ wire'[i] = wire[i + 1]
  BY <1>1, <1>2
<1> QED  BY <1>1, <1>3, <1>4

\* A step of a handler leaves the daemon's variables well-typed.
LEMMA StepKeepsTypes ==
    ASSUME HandlersInv, DaemonTypes, NEW d \in Deliveries, Step(d)
    PROVE  DaemonTypes'
<1>1. d[1] \in Rows
  BY DeliveryParts
<1>2. /\ UNCHANGED <<up, stream, scanVars, claimVars, faults>>
      /\ Broadcast(<<>>)
  BY DEF Step
<1>3. wire' \in Seq(WireMessages)
  BY <1>2, BroadcastKeepsWire DEF DaemonTypes
<1>4. /\ cancelled' \subseteq Deliveries
      /\ emitted' \subseteq Rows
      /\ runs' \in [Rows -> Nat]
  <2>1. CASE Injects(d) \/ RunsTurn(d) \/ Defers(d) \/ Finalizes(d) \/ Acknowledges(d)
             \/ DeadLetters(d)
    BY <1>1, <2>1 DEF DaemonTypes, Injects, RunsTurn, Defers, Finalizes, Acknowledges,
                      DeadLetters, StopsCancelled, historyVars
  <2>2. CASE RecordsFailure(d) \/ EndsTurn(d) \/ Leaves(d) \/ ConcludesCommand(d)
    BY <2>2 DEF DaemonTypes, RecordsFailure, EndsTurn, Leaves, ConcludesCommand, historyVars
  <2>3. CASE InjectsCommand(d)
    BY <1>1, <2>3 DEF DaemonTypes, InjectsCommand
  <2>4. CASE EmitsResult(d)
    <3>1. /\ cancelled' \in {cancelled, cancelled \ {d}}
          /\ emitted' \in {emitted, emitted \cup {d[1]}}
          /\ runs' = runs
      BY <2>4 DEF EmitsResult, StopsCancelled, historyVars
    <3> QED  BY <1>1, <3>1 DEF DaemonTypes
  <2> QED  BY <2>1, <2>2, <2>3, <2>4 DEF Step
<1> QED  BY <1>2, <1>3, <1>4 DEF DaemonTypes, scanVars, claimVars

LEMMA ProceedsKeepsTypes == HandlersInv /\ DaemonTypes /\ Proceeds => DaemonTypes'
<1> SUFFICES ASSUME HandlersInv, DaemonTypes, Proceeds PROVE DaemonTypes'
  OBVIOUS
<1>1. CASE Start
  BY <1>1 DEF Start, DaemonTypes, streamVars, claimVars, taskVars, historyVars
<1>2. CASE OpenStream
  BY <1>2, AddClaimTyped DEF OpenStream, DaemonTypes, taskVars, historyVars
<1>3. CASE ScanRegisters
  <2>1. wire' \in Seq(WireMessages)
    BY <1>3, BroadcastKeepsWire DEF ScanRegisters, DaemonTypes
  <2>2. known' \subseteq Endpoints
    BY <1>3 DEF ScanRegisters, DaemonTypes, HandlersInv
  <2> QED
    BY <1>3, <2>1, <2>2 DEF ScanRegisters, DaemonTypes, claimVars, taskVars, historyVars
<1>4. CASE ScanListsGraphs
  BY <1>4 DEF ScanListsGraphs, DaemonTypes, streamVars, claimVars, taskVars, historyVars
<1>5. CASE ScanEnds
  BY <1>5, AddClaimTyped DEF ScanEnds, DaemonTypes, streamVars, taskVars, historyVars
<1>6. CASE Claim
  BY <1>6 DEF Claim, DaemonTypes, streamVars, scanVars, taskVars, historyVars, MaxClaims
<1>7. CASE HandleReply
  BY <1>7 DEF HandleReply, Begin, DaemonTypes, streamVars, scanVars, historyVars
<1>8. CASE Receive
  <2>1. wire' \in Seq(WireMessages) /\ Head(wire) \in WireMessages
    BY <1>8, TailTyped DEF Receive, DaemonTypes
  <2>2. Head(wire).kind = "cancel" => Head(wire).of \in Deliveries
    BY <2>1 DEF WireMessages
  <2>3. claims' \in 0..MaxClaims /\ cancelled' \subseteq Deliveries
    BY <1>8, <2>2, AddClaimTyped DEF Receive, Begin, taskVars, DaemonTypes
  <2> QED  BY <1>8, <2>1, <2>3 DEF Receive, DaemonTypes, historyVars
<1>9. ASSUME NEW d \in Deliveries, Step(d) PROVE DaemonTypes'
  BY <1>9, StepKeepsTypes
<1>10. ASSUME NEW d \in Deliveries, LeaseExpires(d) PROVE DaemonTypes'
  BY <1>10, BroadcastKeepsWire
     DEF LeaseExpires, DaemonTypes, daemonSame, scanVars, claimVars, taskVars, historyVars
<1> QED
  BY <1>1, <1>2, <1>3, <1>4, <1>5, <1>6, <1>7, <1>8, <1>9, <1>10 DEF Proceeds

LEMMA IntrudesKeepsTypes == DaemonTypes /\ Intrudes => DaemonTypes'
<1> SUFFICES ASSUME DaemonTypes, Intrudes PROVE DaemonTypes'
  OBVIOUS
<1>1. ASSUME NEW d \in Deliveries, Asks(d), Broadcast(<<>>),
             UNCHANGED <<settling, up, stream, scanVars, claimVars, faults>>
      PROVE  DaemonTypes'
  BY <1>1, BroadcastKeepsWire DEF Asks, DaemonTypes, scanVars, claimVars, taskVars, historyVars
<1>2. CASE Wakes \/ StopScope
  BY <1>2, BroadcastKeepsWire
     DEF Wakes, StopScope, DaemonTypes, daemonSame, scanVars, claimVars, taskVars, historyVars
<1>3. ASSUME NEW k, Disturb(k) PROVE faults' \in 0..MaxFaults
  BY <1>3, DaemonAssumption DEF Disturb, DaemonTypes
<1>4. CASE Crash
  <2>1. wire' \in Seq(WireMessages)
    BY <1>4, RescanTyped DEF Crash
  <2>2. /\ up' \in BOOLEAN /\ starting' \in BOOLEAN /\ stream' \in BOOLEAN
        /\ known' = {} /\ claims' = 0 /\ replies' = {} /\ cancelled' = {}
        /\ UNCHANGED <<emitted, runs>>
    BY <1>4 DEF Crash, historyVars
  <2>3. faults' \in 0..MaxFaults
    BY <1>3, <1>4 DEF Crash
  <2> QED  BY <2>1, <2>2, <2>3 DEF DaemonTypes, MaxClaims
<1>5. CASE Disconnect
  BY <1>3, <1>5, RescanTyped
     DEF Disconnect, DaemonTypes, scanVars, claimVars, taskVars, historyVars
<1>6. CASE AsksToRescan
  <2>1. wire' \in Seq(WireMessages)
    BY <1>6, RescanTyped, ConcatProperties DEF AsksToRescan, DaemonTypes
  <2> QED
    BY <1>3, <1>6, <2>1
       DEF AsksToRescan, DaemonTypes, daemonSame, scanVars, claimVars, taskVars, historyVars
<1> QED  BY <1>1, <1>2, <1>4, <1>5, <1>6 DEF Intrudes

LEMMA TypesInductive == HandlersInv /\ DaemonTypes /\ [DaemonNext]_allVars => DaemonTypes'
<1>1. ASSUME DaemonTypes, Settles PROVE DaemonTypes'
  BY <1>1, BroadcastKeepsWire
     DEF Settles, DaemonTypes, daemonSame, scanVars, claimVars, taskVars, historyVars
<1>2. ASSUME DaemonTypes, UNCHANGED allVars PROVE DaemonTypes'
  BY <1>2 DEF allVars, daemonVars, streamVars, scanVars, claimVars, taskVars, historyVars,
              DaemonTypes
<1> QED  BY <1>1, <1>2, ProceedsKeepsTypes, IntrudesKeepsTypes DEF DaemonNext

LEMMA TypesInvariance == DaemonSpec => []DaemonTypes
<1>1. DaemonInit => DaemonTypes
  <2> SUFFICES ASSUME DaemonInit PROVE DaemonTypes
    OBVIOUS
  <2>1. wire \in Seq(WireMessages)
    BY RescanTyped DEF DaemonInit
  <2>2. runs \in [Rows -> Nat] /\ faults \in 0..MaxFaults
    BY DaemonAssumption DEF DaemonInit
  <2>3. /\ up \in BOOLEAN /\ starting \in BOOLEAN /\ stream \in BOOLEAN
        /\ known = {} /\ claims = 0 /\ replies = {} /\ cancelled = {} /\ emitted = {}
    BY DEF DaemonInit
  <2> QED  BY <2>1, <2>2, <2>3 DEF DaemonTypes, MaxClaims
<1> QED  BY <1>1, HandlersInvariance, TypesInductive, PTL DEF DaemonSpec

\* The variables of bus and daemon keep their types, whatever the bus sends and
\* the daemon loses.
THEOREM DaemonTypeCorrect == DaemonSpec => []DaemonTypeOK
<1>1. TypeOK /\ HandlersInv /\ DaemonTypes => DaemonTypeOK
  <2> DEFINE M == [kind : {"bundle", "cancel", "scope_retired"}, of : Deliveries \cup {<<>>}]
  <2>1. WireMessages \subseteq M
    BY DEF WireMessages
  <2> HIDE DEF M
  <2>2. ASSUME wire \in Seq(WireMessages) PROVE wire \in Seq(M)
    BY <2>1, <2>2, SeqDef
  <2> QED  BY <2>2 DEF DaemonTypes, HandlersInv, DaemonTypeOK, M
<1> QED
  BY <1>1, DaemonImplementsBus, TypeCorrect, HandlersInvariance, TypesInvariance, PTL

-----------------------------------------------------------------------------
(* What the calls of the bus do to the rows and bundles: they make and hand  *)
(* out work that has not run (Advances), and at most one bundle in flight    *)
(* lands in another state first.                                             *)

Fresh == {"reserved", "delivered_to_bridge"}
NotRun == {"absent", "queued"} \cup Fresh

\* A step that left the tables q and b, and then only made or handed out work.
Advances(q, b) ==
    \A r \in Rows :
        /\ \/ queue'[r] = q[r]
           \/ q[r] \in NotRun /\ queue'[r] \in NotRun \ {"absent"}
        /\ attempts'[r] # attempts[r] => queue'[r] = "reserved"
        /\ \A n \in Attempts :
               \/ bundle'[r][n] = b[r][n]
               \/ b[r][n] \in {"absent", "reserved"} /\ bundle'[r][n] \in Fresh

\* The n-th bundle of row r goes to s and its row to t.
Lands(r, n, s, t) == Advances([queue EXCEPT ![r] = t], [bundle EXCEPT ![r][n] = s])

LEMMA TryCreateAdvances ==
    ASSUME NEW D, NEW q, NEW h, NEW b, NEW l, NEW st,
           Sound(q, attempts, h, b, l), TryCreate(D, q, h, b, st)
    PROVE  Advances(q, b)
<1> DEFINE open == {p \in D : /\ bridgeOf'[p] # NoBridge
                              /\ st[p] \notin {"absent", "active", "error",
                                               "runtime_unconfigured"}}
           picked == {r \in Rows : r[2] \in open /\ IsNext(q, r)}
<1>1. /\ \A r \in picked : q[r] = "queued"
      /\ queue' = [r \in Rows |-> IF r \in picked THEN "reserved" ELSE q[r]]
      /\ attempts' = [r \in Rows |->
             IF r \in picked THEN attempts[r] + 1 ELSE attempts[r]]
      /\ bundle' = [r \in Rows |-> [n \in Attempts |->
             IF r \in picked /\ n = attempts[r] + 1 THEN "reserved" ELSE b[r][n]]]
  BY DEF TryCreate, IsNext
<1> HIDE DEF picked
<1>2. \A r \in Rows, n \in Attempts : n = attempts[r] + 1 => b[r][n] = "absent"
  BY ConstantsAssumption DEF Sound, NoSecondOwner, Attempts
<1> QED  BY <1>1, <1>2 DEF Advances, NotRun, Fresh

\* Rows of an event that the step inserts were absent.
LEMMA QueuesNewEvent ==
    ASSUME NEW D, NEW q, NEW h, NEW b, NEW st, last \in Nat,
           Sound(q, attempts, h, b, last),
           NEW q1 \in [Rows -> RowStates],
           \A r \in Rows : q1[r] = q[r] \/ (r[1] = last + 1 /\ q1[r] = "queued"),
           TryCreate(D, q1, h, b, st)
    PROVE  Advances(q, b)
<1>1. Sound(q1, attempts, h, b, last + 1)
  BY QueueSound
<1>2. Advances(q1, b)
  BY <1>1, TryCreateAdvances
<1>3. \A r \in Rows : q1[r] = q[r] \/ (q[r] = "absent" /\ q1[r] = "queued")
  BY DEF Sound, RowsHaveEvents
<1> QED  BY <1>2, <1>3 DEF Advances, NotRun

LEMMA RecordAdvances ==
    ASSUME IInv, NEW r \in Rows, NEW n, NEW outcome,
           NEW q, NEW h, NEW b, NEW st, Sound(q, attempts, h, b, last),
           RecordTurnResult(r, n, outcome, q, h, b, st)
    PROVE  /\ Advances(q, b)
           /\ \A x \in Rows : result'[x] = result[x] \/ (x = r /\ result'[x] = outcome)
<1>1. \A x \in Rows : result'[x] = result[x] \/ (x = r /\ result'[x] = outcome)
  BY DEF RecordTurnResult, requestVars, IInv, TypeOK
<1>2. CASE TryCreate({}, q, h, b, st)
  BY <1>1, <1>2, TryCreateAdvances
<1>3. CASE ~TryCreate({}, q, h, b, st)
  <2> DEFINE w == event[ConcludedRequest(r[1])].source
             q1 == [q EXCEPT ![<<last + 1, w>>] = "queued"]
  <2>1. TryCreate({w}, q1, h, b, QueuedStatus(st, {w}))
    BY <1>3 DEF RecordTurnResult
  <2>2. last \in Nat
    BY ConstantsAssumption DEF IInv, TypeOK
  <2>3. q1 \in [Rows -> RowStates]
    BY DEF Sound, RowStates
  <2>4. \A x \in Rows : q1[x] = q[x] \/ (x[1] = last + 1 /\ q1[x] = "queued")
    BY DEF Sound
  <2> HIDE DEF q1, w
  <2>5. Advances(q, b)
    BY <2>1, <2>2, <2>3, <2>4, QueuesNewEvent
  <2> QED  BY <1>1, <2>5
<1> QED  BY <1>2, <1>3

LEMMA SubmitAdvances ==
    ASSUME IInv, NEW rec, NEW D, Submit(rec, D)
    PROVE  Advances(queue, bundle) /\ UNCHANGED result
<1> DEFINE q1 == [r \in Rows |-> IF r[1] = last + 1 /\ r[2] \in D THEN "queued"
                                 ELSE queue[r]]
<1>1. TryCreate(D, q1, holder, bundle, QueuedStatus(status, D)) /\ UNCHANGED result
  BY DEF Submit
<1>2. /\ q1 \in [Rows -> RowStates]
      /\ \A r \in Rows : q1[r] = queue[r] \/ (r[1] = last + 1 /\ q1[r] = "queued")
  BY DEF IInv, TypeOK, RowStates
<1>3. last \in Nat /\ Sound(queue, attempts, holder, bundle, last)
  BY IInvSplit, ConstantsAssumption DEF IInv, TypeOK
<1> HIDE DEF q1
<1> QED  BY <1>1, <1>2, <1>3, QueuesNewEvent

LEMMA ClaimAdvances ==
    ASSUME IInv, NEW br, ClaimDeliveries(br)
    PROVE  Advances(queue, bundle) /\ UNCHANGED result
BY DEF ClaimDeliveries, IInv, TypeOK, Advances, NotRun, Fresh, requestVars

LEMMA SameAdvances ==
    ASSUME UNCHANGED deliveryVars
    PROVE  Advances(queue, bundle)
BY DEF Advances, deliveryVars

-----------------------------------------------------------------------------
(* The inductive invariant of the promise.                                   *)

\* A daemon that is down knows nothing, and one that registers has begun nothing.
DownKnowsNothing ==
    /\ ~up => /\ wire = <<>> /\ replies = {} /\ claims = 0 /\ ~stream /\ ~starting
              /\ \A d \in Deliveries : task[d] = "none"
    /\ settling # {} => \A d \in Deliveries : task[d] = "none"

\* A row is run once, when its bundle has entered a runtime, and acknowledged only
\* then; a failed turn is not acknowledged.
RowsRunOnce ==
    \A r \in Rows :
        /\ runs[r] \in {0, 1}
        /\ queue[r] = "absent" => attempts[r] = 0
        /\ queue[r] \in NotRun => runs[r] = 0
        /\ queue[r] = "acknowledged" => runs[r] = 1
        /\ result[r] = "failed" => queue[r] = "dead_lettered"

\* A handler that has not reached the runtime has a fresh bundle, one that is in it
\* an injected one, and no copy of a delivery arrives when its turn is over.
TaskFits(d) ==
    LET s == bundle[d[1]][d[2]]
    IN /\ task[d] \notin CommandPhases
       /\ task[d] = "binding" => s \in Fresh
       /\ task[d] = "preparing" => s = "injected_to_runtime" /\ runs[d[1]] = 0
       /\ task[d] \in {"running", "acking", "failing"} =>
              s = "injected_to_runtime" /\ runs[d[1]] = 1
       /\ task[d] = "recording" => queue[d[1]] = "dead_lettered"
       /\ InTransit(d) => s \in Fresh \/ task[d] \in {"preparing", "running"}

WorkInv == DownKnowsNothing /\ RowsRunOnce /\ \A d \in Deliveries : TaskFits(d)

\* The step of one row, as DeliveryPromise allows it.
RowStep(r) ==
    \/ WorkStage(r)' = WorkStage(r) /\ runs'[r] = runs[r]
    \/ WorkStage(r) = "none" /\ WorkStage(r)' = "owed" /\ runs'[r] = runs[r]
    \/ /\ WorkStage(r) = "owed" /\ WorkStage(r)' = "running"
       /\ runs[r] = 0 /\ runs'[r] = 1
    \/ /\ WorkStage(r) = "running" /\ WorkStage(r)' \in {"done", "failed"}
       /\ runs'[r] = runs[r]
    \/ WorkStage(r) = "owed" /\ WorkStage(r)' = "dropped" /\ runs'[r] = runs[r]

RowsStep == RowsRunOnce' /\ \A r \in Rows : RowStep(r)

\* A bundle in flight holds its row, which is not absent.
LEMMA FlightHolds ==
    ASSUME IInv, RowsRunOnce, NEW r \in Rows, NEW n \in Attempts, bundle[r][n] \in InFlight
    PROVE  /\ holder[r] = n /\ queue[r] = bundle[r][n]
           /\ \A t : MoveRow(r, n, t) = [queue EXCEPT ![r] = t]
<1>1. Sound(queue, attempts, holder, bundle, last)
  BY IInvSplit
<1>2. n <= attempts[r] /\ (queue[r] # "absent" => holder[r] = n)
  BY <1>1, InFlightHolds
<1>3. queue[r] # "absent"
  BY <1>2, ConstantsAssumption DEF RowsRunOnce, Attempts
<1>4. queue[r] = bundle[r][n]
  BY <1>1, <1>2, <1>3, ConstantsAssumption DEF Sound, RowFollowsBundle, NoDelivery, Attempts
<1> QED  BY <1>2, <1>3, <1>4 DEF MoveRow

\* Work that is only made or handed out keeps the rows.
LEMMA QuietRows ==
    ASSUME IInv, RowsRunOnce, Advances(queue, bundle), UNCHANGED runs,
           \A r \in Rows :
               result'[r] = "failed" => result[r] = "failed" \/ queue[r] = "dead_lettered"
    PROVE  RowsStep
<1>1. ASSUME NEW r \in Rows, queue'[r] = queue[r]
      PROVE  RowStep(r)
  BY <1>1 DEF RowStep, WorkStage
<1>2. ASSUME NEW r \in Rows, queue[r] \in NotRun, queue'[r] \in NotRun \ {"absent"}
      PROVE  RowStep(r)
  BY <1>2 DEF RowStep, WorkStage, NotRun, Fresh, RowsRunOnce
<1>3. RowsRunOnce'
  BY DEF RowsRunOnce, Advances, NotRun, Fresh
<1> QED  BY <1>1, <1>2, <1>3 DEF RowsStep, Advances

\* A bundle in flight that lands where its run allows keeps the rows.
LEMMA LandedRows ==
    ASSUME IInv, RowsRunOnce, UNCHANGED runs,
           NEW r \in Rows, NEW n \in Attempts, bundle[r][n] \in InFlight,
           NEW s, NEW t, Lands(r, n, s, t),
           \/ t \in {"injected_to_runtime", "dead_lettered"}
           \/ t = "acknowledged" /\ runs[r] = 1
           \/ t = "queued" /\ bundle[r][n] \in Fresh,
           t = "injected_to_runtime" => bundle[r][n] \in Fresh,
           \A x \in Rows :
               result'[x] = "failed" =>
                   result[x] = "failed" \/ (x = r /\ t = "dead_lettered")
    PROVE  RowsStep
<1>1. queue[r] = bundle[r][n] /\ queue[r] \in InFlight
  BY FlightHolds
<1> DEFINE q == [queue EXCEPT ![r] = t]
<1>2. /\ q[r] = t
      /\ \A x \in Rows : x # r => q[x] = queue[x]
  BY DEF IInv, TypeOK
<1>3. /\ \A x \in Rows : \/ queue'[x] = q[x]
                         \/ q[x] \in NotRun /\ queue'[x] \in NotRun \ {"absent"}
      /\ \A x \in Rows : attempts'[x] # attempts[x] => queue'[x] = "reserved"
  BY DEF Lands, Advances
<1> HIDE DEF q
<1>4. ASSUME NEW x \in Rows, x # r PROVE RowStep(x)
  BY <1>2, <1>3, <1>4 DEF RowStep, WorkStage, NotRun, Fresh, RowsRunOnce
<1>5. /\ queue'[r] = t \/ (t = "queued" /\ queue'[r] \in NotRun \ {"absent"})
      /\ queue[r] \in Fresh => runs[r] = 0
      /\ runs[r] \in {0, 1} /\ runs'[r] = runs[r]
  BY <1>2, <1>3 DEF NotRun, Fresh, RowsRunOnce
<1>6. RowStep(r)
  <2>1. CASE runs[r] = 0
    <3>1. WorkStage(r) = "owed"
      BY <1>1, <2>1 DEF WorkStage, InFlight
    <3>2. WorkStage(r)' \in {"owed", "dropped"}
      BY <1>5, <2>1 DEF WorkStage, NotRun, Fresh
    <3> QED  BY <1>5, <3>1, <3>2 DEF RowStep
  <2>2. CASE runs[r] = 1
    <3>1. WorkStage(r) = "running"
      BY <1>1, <2>2 DEF WorkStage, InFlight
    <3>2. queue'[r] \in {"dead_lettered", "acknowledged"}
      BY <1>1, <1>5, <2>2
    <3>3. WorkStage(r)' \in {"done", "failed"}
      BY <1>5, <2>2, <3>2 DEF WorkStage
    <3> QED  BY <1>5, <3>1, <3>3 DEF RowStep
  <2> QED  BY <1>5, <2>1, <2>2
<1>7. RowsRunOnce'
  <2>1. ASSUME NEW x \in Rows, x # r
        PROVE  /\ runs'[x] \in {0, 1}
               /\ queue'[x] = "absent" => attempts'[x] = 0
               /\ queue'[x] \in NotRun => runs'[x] = 0
               /\ queue'[x] = "acknowledged" => runs'[x] = 1
               /\ result'[x] = "failed" => queue'[x] = "dead_lettered"
    BY <1>2, <1>3, <2>1 DEF NotRun, Fresh, RowsRunOnce
  <2>2. /\ runs'[r] \in {0, 1}
        /\ queue'[r] = "absent" => attempts'[r] = 0
        /\ queue'[r] \in NotRun => runs'[r] = 0
        /\ queue'[r] = "acknowledged" => runs'[r] = 1
        /\ result'[r] = "failed" => queue'[r] = "dead_lettered"
    BY <1>1, <1>5 DEF NotRun, Fresh, InFlight, RowsRunOnce
  <2> QED  BY <2>1, <2>2 DEF RowsRunOnce
<1> QED  BY <1>4, <1>6, <1>7 DEF RowsStep

-----------------------------------------------------------------------------
(* What a step does to the deliveries that it is not about.                  *)

\* The bundle and the row of e go no way that the handler of e would notice.
Kept(e) ==
    LET s == bundle[e[1]][e[2]]
    IN /\ s \in Fresh => bundle'[e[1]][e[2]] \in Fresh
       /\ s = "injected_to_runtime" => bundle'[e[1]][e[2]] = s
       /\ s = "absent" => bundle'[e[1]][e[2]] \in {"absent"} \cup Fresh
       /\ queue[e[1]] = "dead_lettered" => queue'[e[1]] = "dead_lettered"

LEMMA QuietKept ==
    ASSUME Advances(queue, bundle), NEW e \in Deliveries
    PROVE  Kept(e)
BY DeliveryParts DEF Advances, Kept, NotRun, Fresh

LEMMA LandedKept ==
    ASSUME IInv, RowsRunOnce,
           NEW r \in Rows, NEW n \in Attempts, bundle[r][n] \in InFlight,
           NEW s, NEW t, Lands(r, n, s, t),
           NEW e \in Deliveries, e # <<r, n>>
    PROVE  Kept(e)
<1> DEFINE q == [queue EXCEPT ![r] = t]
           b == [bundle EXCEPT ![r][n] = s]
<1>1. e[1] \in Rows /\ e[2] \in Attempts /\ (e[1] # r \/ e[2] # n)
  BY DeliveryParts
<1>2. b[e[1]][e[2]] = bundle[e[1]][e[2]]
  BY <1>1 DEF IInv, TypeOK
<1>3. queue[e[1]] = "dead_lettered" => q[e[1]] = "dead_lettered"
  <2>1. queue[r] # "dead_lettered"
    BY FlightHolds DEF InFlight
  <2> QED  BY <1>1, <2>1 DEF IInv, TypeOK
<1>4. Advances(q, b)
  BY DEF Lands
<1> HIDE DEF q, b
<1> QED  BY <1>1, <1>2, <1>3, <1>4 DEF Advances, Kept, NotRun, Fresh

\* A delivery is on its way because it was, or because the step made its bundle.
LEMMA TransitByBroadcast ==
    ASSUME DaemonTypes, NEW w \in {<<>>, Rescan}, Broadcast(w), UNCHANGED replies,
           NEW e \in Deliveries, InTransit(e)'
    PROVE  \/ InTransit(e)
           \/ bundle[e[1]][e[2]] = "absent" /\ bundle'[e[1]][e[2]] # "absent"
<1>1. CASE \E D \in replies' : e \in D
  BY <1>1 DEF InTransit
<1>2. CASE \E i \in DOMAIN wire' : wire'[i] = [kind |-> "bundle", of |-> e]
  <2>1. PICK i \in DOMAIN wire' : wire'[i] = [kind |-> "bundle", of |-> e]
    BY <1>2
  <2>2. wire'[i].kind = "bundle" /\ wire'[i].of = e
    BY <2>1
  <2>3. (\E j \in DOMAIN wire : wire'[i] = wire[j]) \/ e \in Created
    BY <2>2, BroadcastKeepsWire DEF DaemonTypes
  <2>4. CASE \E j \in DOMAIN wire : wire'[i] = wire[j]
    BY <2>1, <2>4 DEF InTransit
  <2>5. CASE e \in Created
    BY <2>5 DEF Created
  <2> QED  BY <2>3, <2>4, <2>5
<1> QED  BY <1>1, <1>2 DEF InTransit

\* A handler that the step does not move still fits its bundle.
LEMMA FitsKept ==
    ASSUME NEW e \in Deliveries, TaskFits(e), Kept(e), task'[e] = task[e],
           runs'[e[1]] = runs[e[1]] \/ task[e] = "none",
           InTransit(e)' => \/ InTransit(e)
                            \/ /\ bundle[e[1]][e[2]] = "absent"
                               /\ bundle'[e[1]][e[2]] # "absent"
                            \/ bundle'[e[1]][e[2]] \in Fresh
    PROVE  TaskFits(e)'
<1> DEFINE s == bundle[e[1]][e[2]]
           s1 == bundle'[e[1]][e[2]]
<1>1. InTransit(e)' => s1 \in Fresh \/ task'[e] \in {"preparing", "running"}
  BY DEF TaskFits, Kept
<1>2. /\ task'[e] \notin CommandPhases
      /\ task'[e] = "binding" => s1 \in Fresh
      /\ task'[e] = "preparing" => s1 = "injected_to_runtime" /\ runs'[e[1]] = 0
      /\ task'[e] \in {"running", "acking", "failing"} =>
             s1 = "injected_to_runtime" /\ runs'[e[1]] = 1
      /\ task'[e] = "recording" => queue'[e[1]] = "dead_lettered"
  BY DEF TaskFits, Kept
<1> QED  BY <1>1, <1>2 DEF TaskFits

\* The bus moves no work that has begun, and no handler moves.
LEMMA QuietStep ==
    ASSUME IInv, DaemonTypes, WorkInv, Advances(queue, bundle), UNCHANGED <<task, runs, replies>>,
           \A r \in Rows :
               result'[r] = "failed" => result[r] = "failed" \/ queue[r] = "dead_lettered",
           NEW w \in {<<>>, Rescan}, Broadcast(w)
    PROVE  RowsStep /\ \A e \in Deliveries : TaskFits(e)'
<1>1. RowsStep
  BY QuietRows DEF WorkInv
<1>2. ASSUME NEW e \in Deliveries PROVE TaskFits(e)'
  <2>1. Kept(e)
    BY QuietKept
  <2>2. InTransit(e)' => \/ InTransit(e)
                         \/ bundle[e[1]][e[2]] = "absent" /\ bundle'[e[1]][e[2]] # "absent"
    BY TransitByBroadcast
  <2> QED  BY <2>1, <2>2, FitsKept DEF WorkInv
<1> QED  BY <1>1, <1>2

\* A bundle in flight that no handler of the daemon has, and that is not on its way,
\* is given up by the bus.
LEMMA GivenUp ==
    ASSUME IInv, DaemonTypes, WorkInv, UNCHANGED <<task, runs, replies>>,
           NEW r \in Rows, NEW n \in Attempts, bundle[r][n] \in InFlight,
           task[<<r, n>>] = "none", ~InTransit(<<r, n>>),
           NEW s, NEW t, Lands(r, n, s, t),
           \/ t = "dead_lettered"
           \/ t = "queued" /\ bundle[r][n] \in Fresh,
           \A x \in Rows :
               result'[x] = "failed" => result[x] = "failed" \/ (x = r /\ t = "dead_lettered"),
           NEW w \in {<<>>, Rescan}, Broadcast(w)
    PROVE  RowsStep /\ \A e \in Deliveries : TaskFits(e)'
<1>1. RowsStep
  BY LandedRows DEF WorkInv
<1>2. ASSUME NEW e \in Deliveries PROVE TaskFits(e)'
  <2>1. InTransit(e)' => \/ InTransit(e)
                         \/ bundle[e[1]][e[2]] = "absent" /\ bundle'[e[1]][e[2]] # "absent"
    BY TransitByBroadcast
  <2>2. CASE e # <<r, n>>
    <3>1. Kept(e)
      BY <2>2, LandedKept DEF WorkInv
    <3> QED  BY <2>1, <3>1, FitsKept DEF WorkInv
  <2>3. CASE e = <<r, n>>
    <3>1. task'[e] = "none" /\ ~InTransit(e)'
      BY <2>1, <2>3 DEF InFlight
    <3> QED  BY <3>1 DEF TaskFits, CommandPhases
  <2> QED  BY <2>2, <2>3
<1> QED  BY <1>1, <1>2

-----------------------------------------------------------------------------
(* The steps of a handler.                                                   *)

\* A report is ignored, or lands bundle and row in the reported state.
LEMMA ReportLands ==
    ASSUME IInv, RowsRunOnce, NEW r \in Rows, NEW n \in Attempts,
           NEW s \in {"injected_to_runtime", "acknowledged", "dead_lettered"},
           Report(r, n, s)
    PROVE  /\ Reportable(r, n, s) =>
                  bundle[r][n] \in InFlight /\ Lands(r, n, s, s) /\ UNCHANGED result
           /\ ~Reportable(r, n, s) => BusIgnores
<1>1. ASSUME Reportable(r, n, s)
      PROVE  bundle[r][n] \in InFlight /\ Lands(r, n, s, s) /\ UNCHANGED result
  <2>1. bundle[r][n] \in InFlight
    BY <1>1, ReportableInFlight
  <2>2. ReportProgress(r, n, s)
    BY <1>1 DEF Report
  <2>3. queue' = [queue EXCEPT ![r] = s]
    BY <2>1, <2>2, FlightHolds DEF ReportProgress
  <2>4. bundle' = [bundle EXCEPT ![r][n] = s] /\ UNCHANGED <<attempts, result>>
    BY <2>2 DEF ReportProgress, MoveBundle, requestVars
  <2>5. Lands(r, n, s, s)
    BY <2>3, <2>4 DEF Lands, Advances
  <2> QED  BY <2>1, <2>4, <2>5
<1>2. ~Reportable(r, n, s) => BusIgnores
  BY DEF Report
<1> QED  BY <1>1, <1>2

LEMMA IgnoredAdvances ==
    BusIgnores => Advances(queue, bundle) /\ UNCHANGED result
BY SameAdvances DEF BusIgnores, requestVars

\* While one handler moves, the others do not.
LEMMA OthersStay ==
    ASSUME HandlersInv, NEW d \in Deliveries, NEW from, NEW to, Moves(d, from, to)
    PROVE  /\ task[d] = from /\ task'[d] = to
           /\ \A e \in Deliveries : e # d => task'[e] = task[e]
BY DEF Moves, HandlersInv

\* A handler goes on without changing its bundle.
LEMMA HandlerGoesOn ==
    ASSUME IInv, HandlersInv, DaemonTypes, WorkInv, NEW d \in Deliveries,
           Advances(queue, bundle), UNCHANGED <<runs, replies>>, Broadcast(<<>>),
           \A r \in Rows :
               result'[r] = "failed" => result[r] = "failed" \/ queue[r] = "dead_lettered",
           NEW from, NEW to, Moves(d, from, to),
           \/ to \in {"ending", "leaving", "none"} /\ from \notin {"preparing", "running"}
           \/ to \in {"acking", "failing"} /\ from = "running" /\ ~InTransit(d)
    PROVE  RowsStep /\ \A e \in Deliveries : TaskFits(e)'
<1>1. RowsStep
  BY QuietRows DEF WorkInv
<1>2. ASSUME NEW e \in Deliveries PROVE TaskFits(e)'
  <2>1. Kept(e)
    BY QuietKept
  <2>2. InTransit(e)' => \/ InTransit(e)
                         \/ bundle[e[1]][e[2]] = "absent" /\ bundle'[e[1]][e[2]] # "absent"
    BY TransitByBroadcast
  <2>3. CASE e # d
    <3>1. task'[e] = task[e]
      BY <2>3, OthersStay
    <3> QED  BY <2>1, <2>2, <3>1, FitsKept DEF WorkInv
  <2>4. CASE e = d
    <3>1. task[e] = from /\ task'[e] = to /\ runs' = runs /\ TaskFits(e)
      BY <2>4, OthersStay DEF WorkInv
    <3>2. CASE to \in {"ending", "leaving", "none"} /\ from \notin {"preparing", "running"}
      <4>1. InTransit(e)' => bundle'[e[1]][e[2]] \in Fresh
        BY <2>1, <2>2, <3>1, <3>2 DEF TaskFits, Kept
      <4> QED  BY <3>1, <3>2, <4>1 DEF TaskFits, CommandPhases
    <3>3. CASE to \in {"acking", "failing"} /\ from = "running" /\ ~InTransit(d)
      <4>1. bundle[e[1]][e[2]] = "injected_to_runtime" /\ runs[e[1]] = 1
        BY <3>1, <3>3 DEF TaskFits
      <4>2. bundle'[e[1]][e[2]] = "injected_to_runtime" /\ ~InTransit(e)'
        BY <2>1, <2>2, <2>4, <3>3, <4>1 DEF Kept
      <4> QED  BY <3>1, <3>3, <4>1, <4>2 DEF TaskFits, CommandPhases
    <3> QED  BY <3>2, <3>3
  <2> QED  BY <2>3, <2>4
<1> QED  BY <1>1, <1>2

\* A handler reports and its bundle lands.
LEMMA HandlerReports ==
    ASSUME IInv, HandlersInv, DaemonTypes, WorkInv, NEW d \in Deliveries,
           bundle[d[1]][d[2]] \in InFlight, NEW s, Lands(d[1], d[2], s, s),
           UNCHANGED <<runs, replies, result>>, Broadcast(<<>>),
           NEW from, NEW to, Moves(d, from, to),
           \/ from = "binding" /\ to = "preparing" /\ s = "injected_to_runtime"
           \/ from = "acking" /\ to = "ending" /\ s = "acknowledged"
           \/ from = "failing" /\ to = "recording" /\ s = "dead_lettered"
    PROVE  RowsStep /\ \A e \in Deliveries : TaskFits(e)'
<1>1. d[1] \in Rows /\ d[2] \in Attempts /\ d = <<d[1], d[2]>>
  BY DeliveryParts
<1>2. /\ task[d] = from /\ task'[d] = to
      /\ \A e \in Deliveries : e # d => task'[e] = task[e]
  BY OthersStay
<1>3. TaskFits(d) /\ RowsRunOnce
  BY DEF WorkInv
<1>4. /\ s = "acknowledged" => runs[d[1]] = 1
      /\ s = "injected_to_runtime" => bundle[d[1]][d[2]] \in Fresh
  BY <1>2, <1>3 DEF TaskFits
<1>5. RowsStep
  BY <1>1, <1>3, <1>4, LandedRows
<1>6. queue'[d[1]] = s /\ bundle'[d[1]][d[2]] = s
  <2> DEFINE q == [queue EXCEPT ![d[1]] = s]
             b == [bundle EXCEPT ![d[1]][d[2]] = s]
  <2>1. q[d[1]] = s /\ b[d[1]][d[2]] = s
    BY <1>1 DEF IInv, TypeOK
  <2>2. Advances(q, b)
    BY DEF Lands
  <2> HIDE DEF q, b
  <2> QED  BY <1>1, <2>1, <2>2 DEF Advances, NotRun, Fresh
<1>7. ASSUME NEW e \in Deliveries, e # d PROVE TaskFits(e)'
  <2>1. Kept(e)
    BY <1>1, <1>3, <1>7, LandedKept
  <2>2. InTransit(e)' => \/ InTransit(e)
                         \/ bundle[e[1]][e[2]] = "absent" /\ bundle'[e[1]][e[2]] # "absent"
    BY TransitByBroadcast
  <2> QED  BY <1>2, <1>7, <2>1, <2>2, FitsKept DEF WorkInv
<1>8. TaskFits(d)'
  <2>1. CASE to = "preparing"
    <3>1. runs'[d[1]] = 0
      <4>1. queue[d[1]] = bundle[d[1]][d[2]] /\ bundle[d[1]][d[2]] \in Fresh
        BY <1>1, <1>3, <1>4, <2>1, FlightHolds
      <4> QED  BY <1>1, <1>3, <4>1 DEF RowsRunOnce, NotRun
    <3> QED  BY <1>2, <1>6, <2>1, <3>1 DEF TaskFits, CommandPhases
  <2>2. CASE to # "preparing"
    <3>1. ~InTransit(d)
      BY <1>2, <1>3, <2>2 DEF TaskFits, Fresh
    <3>2. ~InTransit(d)'
      BY <3>1, TransitByBroadcast DEF InFlight
    <3> QED  BY <1>2, <1>6, <2>2, <3>2 DEF TaskFits, CommandPhases
  <2> QED  BY <2>1, <2>2
<1> QED  BY <1>5, <1>7, <1>8

\* The turn starts: the row of the handler is run.
LEMMA TurnStarts ==
    ASSUME IInv, HandlersInv, DaemonTypes, WorkInv, NEW d \in Deliveries, RunsTurn(d),
           UNCHANGED replies, Broadcast(<<>>)
    PROVE  RowsStep /\ \A e \in Deliveries : TaskFits(e)'
<1>1. d[1] \in Rows /\ d[2] \in Attempts
  BY DeliveryParts
<1>2. /\ task[d] = "preparing" /\ task'[d] = "running"
      /\ \A e \in Deliveries : e # d => task'[e] = task[e]
  BY OthersStay DEF RunsTurn
<1>3. /\ runs' = [runs EXCEPT ![d[1]] = @ + 1]
      /\ UNCHANGED <<queue, attempts, bundle, result>>
  BY DEF RunsTurn, BusIgnores, deliveryVars, requestVars
<1>4. TaskFits(d) /\ RowsRunOnce
  BY DEF WorkInv
<1>5. /\ bundle[d[1]][d[2]] = "injected_to_runtime" /\ runs[d[1]] = 0
      /\ queue[d[1]] = "injected_to_runtime"
  BY <1>1, <1>2, <1>4, FlightHolds DEF TaskFits, InFlight
<1>6. /\ runs'[d[1]] = 1
      /\ \A r \in Rows : r # d[1] => runs'[r] = runs[r]
  BY <1>1, <1>3, <1>5 DEF DaemonTypes
<1>7. RowsStep
  <2>1. RowStep(d[1])
    BY <1>3, <1>5, <1>6 DEF RowStep, WorkStage
  <2>2. \A r \in Rows : r # d[1] => RowStep(r)
    BY <1>3, <1>6 DEF RowStep, WorkStage
  <2>3. RowsRunOnce'
    BY <1>3, <1>4, <1>5, <1>6 DEF RowsRunOnce, NotRun, Fresh
  <2> QED  BY <2>1, <2>2, <2>3 DEF RowsStep
<1>8. ASSUME NEW e \in Deliveries PROVE TaskFits(e)'
  <2>1. Kept(e)
    BY <1>3 DEF Kept
  <2>2. InTransit(e)' => \/ InTransit(e)
                         \/ bundle[e[1]][e[2]] = "absent" /\ bundle'[e[1]][e[2]] # "absent"
    BY TransitByBroadcast
  <2>3. CASE e # d
    <3>1. runs'[e[1]] = runs[e[1]] \/ task[e] = "none"
      <4>1. e[1] = d[1] => task[e] = "none"
        BY <1>2, <2>3 DEF HandlersInv, OneHandlerPerEndpoint, EndpointOf
      <4> QED  BY <1>6, <4>1, DeliveryParts
    <3> QED  BY <1>2, <2>1, <2>2, <2>3, <3>1, FitsKept DEF WorkInv
  <2>4. CASE e = d
    BY <1>2, <1>3, <1>5, <1>6, <2>4 DEF TaskFits, CommandPhases
  <2> QED  BY <2>3, <2>4
<1> QED  BY <1>7, <1>8

-----------------------------------------------------------------------------
(* The hypotheses of the promise, and the steps outside the handlers.        *)

\* No Scope is stopped, a turn outlasts the messages about its own delivery, models
\* are configured, and the bridge reports injections and failures.
PlainWork ==
    /\ Scopes = {}
    /\ "slow" \notin Disturbances
    /\ "unconfigured" \notin Outcomes
    /\ {"injected_to_runtime", "dead_lettered"} \subseteq Reports

LEMMA FailUnknownLands ==
    ASSUME IInv, RowsRunOnce, NEW r \in Rows, NEW n \in Attempts, FailUnknown(r, n)
    PROVE  /\ bundle[r][n] \in InFlight
           /\ Lands(r, n, "dead_lettered", "dead_lettered")
           /\ \A x \in Rows : result'[x] = "failed" => result[x] = "failed" \/ x = r
<1>1. bundle[r][n] \in InFlight
  BY DEF FailUnknown, InFlight
<1>2. Sound(MoveRow(r, n, "dead_lettered"), attempts, holder,
            MoveBundle(r, n, "dead_lettered"), last)
  BY <1>1, IInvSplit, MoveSound
<1>3. /\ Advances(MoveRow(r, n, "dead_lettered"), MoveBundle(r, n, "dead_lettered"))
      /\ \A x \in Rows : result'[x] = result[x] \/ x = r
  BY <1>2, RecordAdvances DEF FailUnknown
<1>4. Lands(r, n, "dead_lettered", "dead_lettered")
  BY <1>1, <1>3, FlightHolds DEF Lands, MoveBundle
<1> QED  BY <1>1, <1>3, <1>4

LEMMA RetryLands ==
    ASSUME IInv, RowsRunOnce, NEW r \in Rows, NEW n \in Attempts,
           bundle[r][n] \in InFlight, RetryTransport(r, n)
    PROVE  /\ \E t \in {"dead_lettered", "queued"} : Lands(r, n, Outcome(n), t)
           /\ UNCHANGED result
<1>1. Sound(RowAfterFailure(r, n), attempts, HolderAfterFailure(r, n),
            MoveBundle(r, n, Outcome(n)), last)
  BY IInvSplit, FailureSound
<1>2. \E D, st : TryCreate(D, RowAfterFailure(r, n), HolderAfterFailure(r, n),
                           MoveBundle(r, n, Outcome(n)), st)
  BY DEF RetryTransport
<1>3. Advances(RowAfterFailure(r, n), MoveBundle(r, n, Outcome(n)))
  BY <1>1, <1>2, TryCreateAdvances
<1>4. \E t \in {"dead_lettered", "queued"} : RowAfterFailure(r, n) = [queue EXCEPT ![r] = t]
  BY FlightHolds DEF RowAfterFailure
<1> QED  BY <1>3, <1>4 DEF Lands, MoveBundle, RetryTransport, requestVars

\* The bus moves no work that has begun, and what is new on its way is fresh.
LEMMA QuietFits ==
    ASSUME IInv, WorkInv, Advances(queue, bundle), UNCHANGED <<task, runs, result>>,
           \A e \in Deliveries :
               InTransit(e)' => InTransit(e) \/ bundle'[e[1]][e[2]] \in Fresh
    PROVE  RowsStep /\ \A e \in Deliveries : TaskFits(e)'
<1>1. RowsStep
  BY QuietRows DEF WorkInv
<1>2. ASSUME NEW e \in Deliveries PROVE TaskFits(e)'
  BY QuietKept, FitsKept DEF WorkInv
<1> QED  BY <1>1, <1>2

\* Handlers start for deliveries that are on their way and have none.
LEMMA BeginFits ==
    ASSUME PlainWork, IInv, WorkInv, NEW D \in SUBSET Deliveries, Begin(D),
           \A e \in D : InTransit(e) /\ task[e] = "none",
           UNCHANGED vars, UNCHANGED runs,
           \A e \in Deliveries : InTransit(e)' => InTransit(e)
    PROVE  RowsStep /\ \A e \in Deliveries : TaskFits(e)'
<1>1. Advances(queue, bundle) /\ UNCHANGED <<result, bundle, queue>>
  BY SameAdvances DEF vars, deliveryVars, requestVars
<1>2. RowsStep
  BY <1>1, QuietRows DEF WorkInv
<1>3. ASSUME NEW e \in Deliveries PROVE TaskFits(e)'
  <2>1. CASE e \notin D
    <3>1. task'[e] = task[e]
      BY <2>1 DEF Begin
    <3> QED  BY <1>1, <3>1, QuietKept, FitsKept DEF WorkInv
  <2>2. CASE e \in D
    <3>1. task'[e] \in {"ending", "binding"}
      BY <2>2 DEF Begin, Nodes, PlainWork
    <3>2. bundle'[e[1]][e[2]] \in Fresh
      BY <1>1, <2>2 DEF WorkInv, TaskFits
    <3> QED  BY <3>1, <3>2 DEF TaskFits, CommandPhases
  <2> QED  BY <2>1, <2>2
<1> QED  BY <1>2, <1>3

-----------------------------------------------------------------------------
(* Every step keeps the invariant and is a step of the promise.              *)

FitsStep == RowsStep /\ \A e \in Deliveries : TaskFits(e)'

\* The bus calls of a handler that move no bundle in flight.
QuietCall(d) ==
    \/ BusIgnores
    \/ RecordRuntimeTurnResult(d[1], d[2], "completed")
    \/ RecordRuntimeTurnResult(d[1], d[2], "failed") /\ queue[d[1]] = "dead_lettered"
    \/ ReportTurnEnd(EndpointOf(d))

LEMMA QuietCallAdvances ==
    ASSUME IInv, NEW d \in Deliveries, QuietCall(d)
    PROVE  /\ Advances(queue, bundle)
           /\ \A r \in Rows :
                  result'[r] = "failed" => result[r] = "failed" \/ queue[r] = "dead_lettered"
<1>1. Sound(queue, attempts, holder, bundle, last) /\ d[1] \in Rows
  BY IInvSplit, DeliveryParts
<1>2. CASE BusIgnores
  BY <1>2, IgnoredAdvances
<1>3. CASE \E o : /\ RecordRuntimeTurnResult(d[1], d[2], o)
                  /\ o = "failed" => queue[d[1]] = "dead_lettered"
  <2>1. PICK o : /\ RecordRuntimeTurnResult(d[1], d[2], o)
                 /\ o = "failed" => queue[d[1]] = "dead_lettered"
    BY <1>3
  <2>2. /\ Advances(queue, bundle)
        /\ \A x \in Rows : result'[x] = result[x] \/ (x = d[1] /\ result'[x] = o)
    BY <1>1, <2>1, RecordAdvances DEF RecordRuntimeTurnResult
  <2> QED  BY <2>1, <2>2
<1>4. CASE ReportTurnEnd(EndpointOf(d))
  <2>1. UNCHANGED result /\ \E D, st : TryCreate(D, queue, holder, bundle, st)
    BY <1>4 DEF ReportTurnEnd, requestVars
  <2> QED  BY <1>1, <2>1, TryCreateAdvances
<1> QED  BY <1>2, <1>3, <1>4 DEF QuietCall

LEMMA StepFits ==
    ASSUME PlainWork, IInv, HandlersInv, DaemonTypes, WorkInv,
           NEW d \in Deliveries, Step(d)
    PROVE  FitsStep
<1>1. /\ d[1] \in Rows /\ d[2] \in Attempts /\ TaskFits(d) /\ RowsRunOnce
      /\ UNCHANGED replies /\ Broadcast(<<>>)
  BY DeliveryParts DEF WorkInv, Step, claimVars
<1>2. ASSUME QuietCall(d), UNCHANGED runs, NEW from, NEW to, Moves(d, from, to),
             \/ to \in {"ending", "leaving", "none"} /\ from \notin {"preparing", "running"}
             \/ to \in {"acking", "failing"} /\ from = "running" /\ ~InTransit(d)
      PROVE  FitsStep
  <2>1. Advances(queue, bundle)
        /\ \A r \in Rows :
               result'[r] = "failed" => result[r] = "failed" \/ queue[r] = "dead_lettered"
    BY <1>2, QuietCallAdvances
  <2> QED  BY <1>1, <1>2, <2>1, HandlerGoesOn DEF FitsStep
<1>3. ASSUME NEW s \in {"injected_to_runtime", "acknowledged", "dead_lettered"},
             Reportable(d[1], d[2], s), Report(d[1], d[2], s), UNCHANGED runs,
             NEW from, NEW to, Moves(d, from, to),
             \/ from = "binding" /\ to = "preparing" /\ s = "injected_to_runtime"
             \/ from = "acking" /\ to = "ending" /\ s = "acknowledged"
             \/ from = "failing" /\ to = "recording" /\ s = "dead_lettered"
      PROVE  FitsStep
  <2>1. bundle[d[1]][d[2]] \in InFlight /\ Lands(d[1], d[2], s, s) /\ UNCHANGED result
    BY <1>1, <1>3, ReportLands
  <2> QED  BY <1>1, <1>3, <2>1, HandlerReports DEF FitsStep
<1>4. ASSUME NEW from, NEW to, Moves(d, from, to) PROVE task[d] = from
  BY <1>4 DEF Moves
<1>5. CASE Injects(d)
  <2>1. Moves(d, "binding", "preparing") /\ Report(d[1], d[2], "injected_to_runtime")
        /\ UNCHANGED runs
    BY <1>5 DEF Injects, historyVars
  <2>2. Reportable(d[1], d[2], "injected_to_runtime")
    BY <1>1, <1>4, <2>1 DEF Reportable, PlainWork, TaskFits, Fresh, SettledBundle
  <2> QED  BY <1>3, <2>1, <2>2
<1>6. CASE RunsTurn(d)
  BY <1>1, <1>6, TurnStarts DEF FitsStep
<1>7. CASE Defers(d)
  BY <1>7 DEF Defers, PlainWork
<1>8. CASE Finalizes(d)
  <2>1. ~InTransit(d) /\ UNCHANGED runs
    BY <1>8 DEF Finalizes, OutlastsMessages, PlainWork, historyVars
  <2>2. \E to \in {"acking", "failing"} : Moves(d, "running", to) /\ QuietCall(d)
    BY <1>8 DEF Finalizes, QuietCall
  <2> QED  BY <1>2, <2>1, <2>2
<1>9. ASSUME NEW from \in {"acking", "failing"}, StopsCancelled(d, from), UNCHANGED runs
      PROVE  FitsStep
  <2>1. Moves(d, from, "ending") /\ QuietCall(d)
    BY <1>9 DEF StopsCancelled, QuietCall
  <2> QED  BY <1>2, <1>9, <2>1
<1>10. CASE Acknowledges(d)
  <2>1. UNCHANGED runs
    BY <1>10 DEF Acknowledges, historyVars
  <2>2. CASE Moves(d, "acking", "ending") /\ Report(d[1], d[2], "acknowledged")
    <3>1. CASE Reportable(d[1], d[2], "acknowledged")
      BY <1>3, <2>1, <2>2, <3>1
    <3>2. CASE ~Reportable(d[1], d[2], "acknowledged")
      <4>1. QuietCall(d)
        BY <2>2, <3>2 DEF Report, QuietCall
      <4> QED  BY <1>2, <2>1, <2>2, <4>1
    <3> QED  BY <3>1, <3>2
  <2> QED  BY <1>9, <1>10, <2>1, <2>2 DEF Acknowledges
<1>11. CASE DeadLetters(d)
  <2>1. UNCHANGED runs
    BY <1>11 DEF DeadLetters, historyVars
  <2>2. CASE Moves(d, "failing", "recording") /\ Report(d[1], d[2], "dead_lettered")
    <3>1. Reportable(d[1], d[2], "dead_lettered")
      BY <1>1, <1>4, <2>2 DEF Reportable, PlainWork, TaskFits, SettledBundle
    <3> QED  BY <1>3, <2>1, <2>2, <3>1
  <2> QED  BY <1>9, <1>11, <2>1, <2>2 DEF DeadLetters
<1>12. CASE RecordsFailure(d)
  <2>1. /\ Moves(d, "recording", "ending") /\ UNCHANGED runs
        /\ RecordRuntimeTurnResult(d[1], d[2], "failed")
    BY <1>12 DEF RecordsFailure, historyVars
  <2>2. QuietCall(d)
    BY <1>1, <1>4, <2>1 DEF QuietCall, TaskFits
  <2> QED  BY <1>2, <2>1, <2>2
<1>13. CASE EndsTurn(d)
  <2>1. Moves(d, "ending", "leaving") /\ UNCHANGED runs /\ QuietCall(d)
    BY <1>13 DEF EndsTurn, historyVars, QuietCall
  <2> QED  BY <1>2, <2>1
<1>14. CASE Leaves(d)
  <2>1. Moves(d, "leaving", "none") /\ UNCHANGED runs /\ QuietCall(d)
    BY <1>14 DEF Leaves, historyVars, QuietCall
  <2> QED  BY <1>2, <2>1
<1>15. CASE InjectsCommand(d) \/ EmitsResult(d) \/ ConcludesCommand(d)
  <2>1. task[d] \in CommandPhases
    BY <1>15 DEF InjectsCommand, EmitsResult, ConcludesCommand, StopsCancelled, Moves, CommandPhases
  <2> QED  BY <1>1, <2>1 DEF TaskFits
<1> QED
  BY <1>5, <1>6, <1>7, <1>8, <1>10, <1>11, <1>12, <1>13, <1>14, <1>15 DEF Step

\* Messages and answers that are on their way stay a message or an answer.
LEMMA SameTransit ==
    ASSUME UNCHANGED replies, NEW e,
           UNCHANGED wire \/ \A i \in DOMAIN wire' : \E j \in DOMAIN wire : wire'[i] = wire[j]
    PROVE  InTransit(e)' => InTransit(e)
BY DEF InTransit

LEMMA ReceiveFits ==
    ASSUME PlainWork, IInv, DaemonTypes, WorkInv, Receive
    PROVE  FitsStep
<1>1. /\ wire \in Seq(WireMessages) /\ wire # <<>> /\ wire' = Tail(wire)
      /\ UNCHANGED vars /\ UNCHANGED replies /\ UNCHANGED runs
  BY DEF Receive, DaemonTypes, historyVars
<1>2. /\ Head(wire) \in WireMessages
      /\ \E j \in DOMAIN wire : Head(wire) = wire[j]
      /\ \A e \in Deliveries : InTransit(e)' => InTransit(e)
  BY <1>1, TailTyped, SameTransit
<1>3. ASSUME UNCHANGED task PROVE FitsStep
  BY <1>1, <1>2, <1>3, SameAdvances, QuietFits DEF FitsStep, vars, requestVars
<1>4. ASSUME NEW m, m = Head(wire), m.kind = "bundle", Begin({m.of}), ~Busy(EndpointOf(m.of))
      PROVE  FitsStep
  <2>1. m = [kind |-> "bundle", of |-> m.of] /\ m.of \in Deliveries
    BY <1>2, <1>4 DEF WireMessages
  <2>2. InTransit(m.of)
    BY <1>2, <1>4, <2>1 DEF InTransit
  <2>3. task[m.of] = "none"
    BY <1>4, <2>1 DEF Busy
  <2> QED  BY <1>1, <1>2, <1>4, <2>1, <2>2, <2>3, BeginFits DEF FitsStep
<1> QED  BY <1>3, <1>4 DEF Receive, taskVars

LEMMA HandleReplyFits ==
    ASSUME PlainWork, IInv, DaemonTypes, WorkInv, HandleReply
    PROVE  FitsStep
<1>1. PICK D \in replies : \E T \in SUBSET {d \in D : ~Busy(EndpointOf(d))} :
          Begin(T) /\ replies' = replies \ {D}
  BY DEF HandleReply
<1>2. PICK T \in SUBSET {d \in D : ~Busy(EndpointOf(d))} : Begin(T) /\ replies' = replies \ {D}
  BY <1>1
<1>3. D \subseteq Deliveries /\ T \subseteq D
  BY <1>2 DEF DaemonTypes
<1>4. \A e \in T : InTransit(e) /\ task[e] = "none"
  BY <1>2, <1>3 DEF InTransit, Busy
<1>5. UNCHANGED vars /\ UNCHANGED wire /\ UNCHANGED runs
  BY DEF HandleReply, streamVars, historyVars
<1>6. \A e \in Deliveries : InTransit(e)' => InTransit(e)
  BY <1>2, <1>5 DEF InTransit
<1> QED  BY <1>2, <1>3, <1>4, <1>5, <1>6, BeginFits DEF FitsStep

LEMMA ClaimFits ==
    ASSUME IInv, WorkInv, Claim
    PROVE  FitsStep
<1>1. /\ Advances(queue, bundle) /\ UNCHANGED result
      /\ UNCHANGED <<wire, task, runs>>
  BY ClaimAdvances DEF Claim, streamVars, taskVars, historyVars
<1> DEFINE mine == {d \in Deliveries : /\ bundle[d[1]][d[2]] = "reserved"
                                       /\ bridgeOf[EndpointOf(d)] = Bridge}
<1>2. replies' = replies \cup ({mine} \ {{}})
  BY DEF Claim
<1>3. ASSUME NEW e \in Deliveries, InTransit(e)'
      PROVE  InTransit(e) \/ bundle'[e[1]][e[2]] \in Fresh
  <2>1. InTransit(e) \/ e \in mine
    <3> HIDE DEF mine
    <3> QED  BY <1>1, <1>2, <1>3 DEF InTransit
  <2>2. e \in mine => bundle'[e[1]][e[2]] \in Fresh
    BY <1>1, QuietKept DEF Kept, Fresh
  <2> QED  BY <2>1, <2>2
<1> QED  BY <1>1, <1>3, QuietFits DEF FitsStep

LEMMA LeaseFits ==
    ASSUME PlainWork, IInv, DaemonTypes, WorkInv, NEW d \in Deliveries, LeaseExpires(d)
    PROVE  FitsStep
<1>1. /\ d[1] \in Rows /\ d[2] \in Attempts /\ d = <<d[1], d[2]>>
      /\ bundle[d[1]][d[2]] \in InFlight /\ ExpireLease(d[1], d[2])
      /\ Broadcast(<<>>) /\ UNCHANGED <<task, runs, replies>>
  BY DeliveryParts DEF LeaseExpires, daemonSame, claimVars, taskVars, historyVars
<1>2. task[d] = "none" /\ ~InTransit(d)
  <2>1. CASE up
    BY <2>1 DEF LeaseExpires, PlainWork, Handled
  <2>2. CASE ~up
    <3>1. wire = <<>> /\ replies = {} /\ task[d] = "none"
      BY <2>2 DEF WorkInv, DownKnowsNothing
    <3>2. \A i \in DOMAIN wire : FALSE
      BY <3>1
    <3> QED  BY <3>1, <3>2 DEF InTransit
  <2> QED  BY <2>1, <2>2
<1>3. CASE FailUnknown(d[1], d[2])
  <2>1. /\ Lands(d[1], d[2], "dead_lettered", "dead_lettered")
        /\ \A x \in Rows : result'[x] = "failed" => result[x] = "failed" \/ x = d[1]
    BY <1>1, <1>3, FailUnknownLands DEF WorkInv
  <2> QED  BY <1>1, <1>2, <2>1, GivenUp DEF FitsStep
<1>4. CASE /\ bundle[d[1]][d[2]] \in {"reserved", "delivered_to_bridge"}
           /\ RetryTransport(d[1], d[2])
  <2>1. PICK t \in {"dead_lettered", "queued"} : Lands(d[1], d[2], Outcome(d[2]), t)
    BY <1>1, <1>4, RetryLands DEF WorkInv
  <2>2. UNCHANGED result
    BY <1>1, <1>4, RetryLands DEF WorkInv
  <2> QED  BY <1>1, <1>2, <1>4, <2>1, <2>2, GivenUp DEF FitsStep, Fresh
<1> QED  BY <1>1, <1>3, <1>4 DEF ExpireLease

LEMMA SettlesFits ==
    ASSUME IInv, DaemonTypes, WorkInv, Settles
    PROVE  FitsStep
<1>1. PICK d \in settling : FailUnknown(d[1], d[2])
  BY DEF Settles, SettleAbandoned
<1>2. d \in Deliveries
  BY DEF IInv, TypeOK, Deliveries
<1>3. /\ d[1] \in Rows /\ d[2] \in Attempts /\ d = <<d[1], d[2]>>
      /\ Broadcast(<<>>) /\ UNCHANGED <<task, runs, replies>>
  BY <1>2, DeliveryParts DEF Settles, daemonSame, claimVars, taskVars, historyVars
<1>4. task[d] = "none" /\ ~InTransit(d)
  BY <1>1, <1>2 DEF WorkInv, DownKnowsNothing, TaskFits, FailUnknown, Fresh
<1>5. /\ bundle[d[1]][d[2]] \in InFlight
      /\ Lands(d[1], d[2], "dead_lettered", "dead_lettered")
      /\ \A x \in Rows : result'[x] = "failed" => result[x] = "failed" \/ x = d[1]
  BY <1>1, <1>3, FailUnknownLands DEF WorkInv
<1> QED  BY <1>3, <1>4, <1>5, GivenUp DEF FitsStep

\* A step that changes neither tables nor handlers and puts nothing on its way.
LEMMA StillFits ==
    ASSUME IInv, WorkInv, UNCHANGED <<deliveryVars, requestVars>>,
           UNCHANGED <<task, runs, replies>>,
           UNCHANGED wire \/ \A i \in DOMAIN wire' : \E j \in DOMAIN wire : wire'[i] = wire[j]
    PROVE  FitsStep
<1>1. Advances(queue, bundle) /\ UNCHANGED result
  BY SameAdvances DEF requestVars
<1>2. \A e \in Deliveries : InTransit(e)' => InTransit(e)
  BY SameTransit
<1> QED  BY <1>1, <1>2, QuietFits DEF FitsStep

LEMMA ProceedsFits ==
    PlainWork /\ IInv /\ HandlersInv /\ DaemonTypes /\ WorkInv /\ Proceeds => FitsStep
<1> SUFFICES ASSUME PlainWork, IInv, HandlersInv, DaemonTypes, WorkInv, Proceeds
             PROVE  FitsStep
  OBVIOUS
<1>1. CASE Start
  <2>1. UNCHANGED <<deliveryVars, requestVars, wire, task, runs, replies>>
    BY <1>1 DEF Start, RegisterBridge, streamVars, claimVars, taskVars, historyVars
  <2> QED  BY <2>1, StillFits
<1>2. CASE OpenStream \/ ScanListsGraphs \/ ScanEnds
  <2>1. UNCHANGED <<deliveryVars, requestVars, wire, task, runs, replies>>
    BY <1>2 DEF OpenStream, ScanListsGraphs, ScanEnds, vars, streamVars, claimVars, taskVars,
                historyVars
  <2> QED  BY <2>1, StillFits
<1>3. CASE ScanRegisters
  <2>1. PICK p, s : RegisterEndpoint(p, Bridge, s)
    BY <1>3 DEF ScanRegisters
  <2>2. UNCHANGED result /\ \E D, st : TryCreate(D, queue, holder, bundle, st)
    BY <2>1 DEF RegisterEndpoint, requestVars
  <2>3. Advances(queue, bundle)
    BY <2>2, IInvSplit, TryCreateAdvances
  <2>4. Broadcast(<<>>) /\ UNCHANGED <<task, runs, replies>>
    BY <1>3 DEF ScanRegisters, claimVars, taskVars, historyVars
  <2> QED  BY <2>2, <2>3, <2>4, QuietStep DEF FitsStep
<1>4. CASE Claim \/ HandleReply \/ Receive
  BY <1>4, ClaimFits, HandleReplyFits, ReceiveFits
<1>5. ASSUME NEW d \in Deliveries, Step(d) \/ LeaseExpires(d) PROVE FitsStep
  BY <1>5, StepFits, LeaseFits
<1> QED  BY <1>1, <1>2, <1>3, <1>4, <1>5 DEF Proceeds

LEMMA IntrudesFits ==
    PlainWork /\ IInv /\ DaemonTypes /\ WorkInv /\ Intrudes => FitsStep
<1> SUFFICES ASSUME PlainWork, IInv, DaemonTypes, WorkInv, Intrudes
             PROVE  FitsStep
  OBVIOUS
<1>1. ASSUME NEW rec, NEW D, Submit(rec, D), Broadcast(<<>>),
             UNCHANGED <<task, runs, replies>>
      PROVE  FitsStep
  BY <1>1, SubmitAdvances, QuietStep DEF FitsStep
<1>2. ASSUME NEW d \in Deliveries, Asks(d), Broadcast(<<>>), UNCHANGED claimVars
      PROVE  FitsStep
  <2>1. UNCHANGED <<task, runs, replies>>
    BY <1>2 DEF Asks, claimVars, taskVars, historyVars
  <2>2. \E rec, D : Submit(rec, D)
    BY <1>2 DEF Asks, EmitRequest
  <2> QED  BY <1>1, <1>2, <2>1, <2>2
<1>3. CASE Wakes
  <2>1. Broadcast(<<>>) /\ UNCHANGED <<task, runs, replies>>
    BY <1>3 DEF Wakes, daemonSame, claimVars, taskVars, historyVars
  <2>2. \E rec, D : Submit(rec, D)
    BY <1>3 DEF Wakes, EmitTrigger
  <2> QED  BY <1>1, <2>1, <2>2
<1>4. CASE StopScope
  BY <1>4 DEF StopScope, PlainWork
<1>5. CASE Crash
  <2>1. /\ Advances(queue, bundle) /\ UNCHANGED <<result, runs>>
        /\ \A d \in Deliveries : task'[d] = "none"
    BY <1>5, SameAdvances DEF Crash, vars, requestVars, historyVars
  <2>2. wire' = <<>> /\ replies' = {}
    BY <1>5 DEF Crash
  <2>3. \A d \in Deliveries : ~InTransit(d)'
    <3>1. \A i \in DOMAIN wire' : FALSE
      BY <2>2
    <3> QED  BY <2>2, <3>1 DEF InTransit
  <2>4. RowsStep
    BY <2>1, QuietRows DEF WorkInv
  <2> QED  BY <2>1, <2>3, <2>4 DEF FitsStep, TaskFits, CommandPhases
<1>6. CASE Disconnect
  <2>1. UNCHANGED <<deliveryVars, requestVars, task, runs, replies>> /\ wire' = <<>>
    BY <1>6 DEF Disconnect, vars, claimVars, taskVars, historyVars
  <2>2. \A i \in DOMAIN wire' : FALSE
    BY <2>1
  <2> QED  BY <2>1, <2>2, StillFits
<1>7. CASE AsksToRescan
  <2>1. UNCHANGED <<deliveryVars, requestVars, task, runs, replies>> /\ wire' = wire \o Rescan
    BY <1>7 DEF AsksToRescan, vars, daemonSame, claimVars, taskVars, historyVars
  <2>2. ASSUME NEW e \in Deliveries, InTransit(e)' PROVE InTransit(e)
    <3>1. CASE \E D \in replies' : e \in D
      BY <2>1, <3>1 DEF InTransit
    <3>2. CASE \E i \in DOMAIN wire' : wire'[i] = [kind |-> "bundle", of |-> e]
      <4>1. PICK i \in DOMAIN wire' : wire'[i] = [kind |-> "bundle", of |-> e]
        BY <3>2
      <4>2. i \in DOMAIN (wire \o Rescan)
        BY <2>1, <4>1
      <4>3. \/ \E j \in DOMAIN wire : (wire \o Rescan)[i] = wire[j]
            \/ \E j \in DOMAIN Rescan : (wire \o Rescan)[i] = Rescan[j]
        <5>1. wire \in Seq(WireMessages) /\ Rescan \in Seq(WireMessages)
          BY RescanTyped DEF DaemonTypes
        <5> QED  BY <4>2, <5>1, ConcatElement
      <4>4. wire'[i].kind = "bundle" /\ wire'[i] = (wire \o Rescan)[i]
        BY <2>1, <4>1
      <4> QED  BY <4>1, <4>3, <4>4, RescanTyped DEF InTransit
    <3> QED  BY <2>2, <3>1, <3>2 DEF InTransit
  <2>3. Advances(queue, bundle) /\ UNCHANGED result
    BY <2>1, SameAdvances DEF requestVars
  <2> QED  BY <2>1, <2>2, <2>3, QuietFits DEF FitsStep
<1> QED  BY <1>2, <1>3, <1>4, <1>5, <1>6, <1>7 DEF Intrudes

\* A daemon that is down does nothing before it starts.
LEMMA DownStays == WorkInv /\ [DaemonNext]_allVars => DownKnowsNothing'
<1> SUFFICES ASSUME DownKnowsNothing, [DaemonNext]_allVars PROVE DownKnowsNothing'
  BY DEF WorkInv
<1>1. CASE Start \/ OpenStream \/ ScanListsGraphs \/ ScanEnds
  BY <1>1 DEF Start, OpenStream, ScanListsGraphs, ScanEnds, RegisterBridge, DownKnowsNothing,
              vars, streamVars, scanVars, claimVars, taskVars
<1>2. CASE settling = {} /\ (ScanRegisters \/ Claim \/ HandleReply \/ Receive)
  <2>1. UNCHANGED <<settling, up>> /\ settling = {} /\ (ScanRegisters \/ up)
    BY <1>2 DEF ScanRegisters, Claim, HandleReply, Receive, vars, DownKnowsNothing
  <2>2. CASE up
    BY <2>1, <2>2 DEF DownKnowsNothing
  <2>3. CASE ScanRegisters /\ ~up
    BY <1>2, <2>1, <2>3 DEF ScanRegisters, DownKnowsNothing, Broadcast, claimVars, taskVars
  <2> QED  BY <2>1, <2>2, <2>3
<1>3. ASSUME settling = {}, NEW d \in Deliveries,
             Step(d) \/ (Asks(d) /\ UNCHANGED <<settling, up>>)
      PROVE  DownKnowsNothing'
  <2>1. task[d] # "none" /\ UNCHANGED <<settling, up>>
    BY <1>3 DEF Step, Asks
  <2> QED  BY <1>3, <2>1 DEF DownKnowsNothing
<1>4. ASSUME settling = {}, Wakes \/ StopScope \/ AsksToRescan \/ Disconnect
                            \/ \E d \in Deliveries : LeaseExpires(d)
      PROVE  DownKnowsNothing'
  BY <1>4 DEF Wakes, StopScope, AsksToRescan, Disconnect, LeaseExpires, DownKnowsNothing,
              Broadcast, vars, daemonSame, scanVars, claimVars, taskVars
<1>5. CASE settling = {} /\ Crash
  BY <1>5 DEF Crash, DownKnowsNothing
<1>6. CASE Settles
  BY <1>6 DEF Settles, SettleAbandoned, DownKnowsNothing, Broadcast, daemonSame, scanVars,
              claimVars, taskVars
<1>7. CASE UNCHANGED allVars
  BY <1>7 DEF allVars, vars, daemonVars, streamVars, scanVars, claimVars, taskVars,
              DownKnowsNothing
<1> QED
  BY <1>1, <1>2, <1>3, <1>4, <1>5, <1>6, <1>7 DEF DaemonNext, Proceeds, Intrudes

LEMMA WorkInit == DaemonInit => WorkInv
<1> SUFFICES ASSUME DaemonInit PROVE WorkInv
  OBVIOUS
<1>1. /\ ~up /\ wire = <<>> /\ replies = {} /\ claims = 0 /\ ~stream /\ ~starting
      /\ task = [d \in Deliveries |-> "none"] /\ runs = [r \in Rows |-> 0]
      /\ settling = {} /\ queue = [r \in Rows |-> "absent"]
      /\ attempts = [r \in Rows |-> 0] /\ result = [r \in Rows |-> "none"]
  BY DEF DaemonInit, Init
<1>2. \A i \in DOMAIN wire : FALSE
  BY <1>1
<1>3. ASSUME NEW d \in Deliveries PROVE TaskFits(d)
  BY <1>1, <1>2 DEF TaskFits, InTransit, CommandPhases
<1>4. RowsRunOnce
  BY <1>1 DEF RowsRunOnce, NotRun, Fresh
<1> QED  BY <1>1, <1>3, <1>4 DEF WorkInv, DownKnowsNothing

LEMMA WorkInductive ==
    ASSUME PlainWork
    PROVE  IInv /\ HandlersInv /\ DaemonTypes /\ WorkInv /\ [DaemonNext]_allVars =>
               WorkInv' /\ \A r \in Rows : RowStep(r)
<1> SUFFICES ASSUME IInv, HandlersInv, DaemonTypes, WorkInv, [DaemonNext]_allVars
             PROVE  WorkInv' /\ \A r \in Rows : RowStep(r)
  OBVIOUS
<1>1. DownKnowsNothing'
  BY DownStays
<1>2. CASE UNCHANGED allVars
  <2>1. UNCHANGED <<deliveryVars, requestVars, wire, task, runs, replies>>
    BY <1>2 DEF allVars, vars, daemonVars, streamVars, claimVars, taskVars, historyVars
  <2>2. FitsStep
    BY <2>1, StillFits
  <2> QED  BY <1>1, <2>2 DEF FitsStep, RowsStep, WorkInv
<1>3. CASE DaemonNext
  <2>1. FitsStep
    BY <1>3, ProceedsFits, IntrudesFits, SettlesFits DEF DaemonNext
  <2> QED  BY <1>1, <2>1 DEF FitsStep, RowsStep, WorkInv
<1> QED  BY <1>2, <1>3

\* A step of every row is a step of the promise.
LEMMA RowsKeepPromise ==
    ASSUME IInv, DaemonTypes, DaemonTypes', \A r \in Rows : RowStep(r)
    PROVE  Promise!PromiseNext
<1>1. \A r \in Rows : WorkStage(r)' \in
          {"none", "owed", "running", "done", "failed", "dropped"}
  BY DEF WorkStage
<1>2. ASSUME NEW r \in Rows
      PROVE  \/ Promise!Rests(r) \/ Promise!Arises(r) \/ Promise!Runs(r) \/ Promise!Ends(r)
             \/ Promise!IsDropped(r)
  BY <1>2 DEF RowStep, Promise!Rests, Promise!Arises, Promise!Runs, Promise!Ends,
              Promise!IsDropped, Promise!Goes
<1> QED
  BY <1>1, <1>2 DEF Promise!PromiseNext, Promise!WorkStages, DaemonTypes

\* Bus and bridge keep the promise: work is run at most once, is done only if it ran,
\* does not run once it is over, and is then over for good; and the work of a failed
\* turn is never acknowledged.  For every number of events, attempts and endpoints, and
\* through every crash, disconnection and rescan - unless a Scope is stopped or a message
\* about a delivery outlasts the turn it started.
THEOREM PromiseIsKept ==
    ASSUME Scopes = {}, "slow" \notin Disturbances, "unconfigured" \notin Outcomes,
           {"injected_to_runtime", "dead_lettered"} \subseteq Reports
    PROVE  DaemonSpec => KeepsPromise
<1>1. PlainWork
  BY DEF PlainWork
<1>2. DaemonInit => Promise!PromiseInit
  BY DEF DaemonInit, Init, Promise!PromiseInit, WorkStage
<1>3. IInv /\ HandlersInv /\ DaemonTypes /\ WorkInv /\ [DaemonNext]_allVars => WorkInv'
  BY <1>1, WorkInductive
<1>4. DaemonSpec => []WorkInv
  BY <1>3, WorkInit, DaemonImplementsBus, Invariance, HandlersInvariance, TypesInvariance,
     PTL DEF DaemonSpec
<1>5. IInv /\ HandlersInv /\ DaemonTypes /\ DaemonTypes' /\ WorkInv /\ [DaemonNext]_allVars =>
          Promise!PromiseNext
  BY <1>1, WorkInductive, RowsKeepPromise
<1>6. WorkInv => \A r \in Rows : queue[r] = "acknowledged" => result[r] # "failed"
  BY DEF WorkInv, RowsRunOnce
<1>7. DaemonSpec => Promise!PromiseSpec
  BY <1>2, <1>4, <1>5, DaemonImplementsBus, Invariance, HandlersInvariance, TypesInvariance,
     PTL DEF DaemonSpec, Promise!PromiseSpec
<1> QED  BY <1>4, <1>6, <1>7, PTL DEF KeepsPromise
=============================================================================
