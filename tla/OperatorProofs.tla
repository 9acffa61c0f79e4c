---------------------------- MODULE OperatorProofs ----------------------------
(***************************************************************************)
(* Proofs about what operators and clients bring about: the Contexts of    *)
(* the bus (Contexts), the sign-in with model providers (ProviderSignIn),  *)
(* the control of the services by the CLI (ServiceControl) and the choice  *)
(* of models (ModelBinding).  The last section puts them together with     *)
(* what DesktopProofs proves, as the composition that is model-checked     *)
(* (MCDesktop).                                                            *)
(***************************************************************************)
EXTENDS MCDesktop, DesktopProofs

-----------------------------------------------------------------------------
(* Contexts: no cycle of parents                                           *)

\* Some set that is closed under parents holds p and not c: c is no ancestor of p, nor p.
Apart(p, c) == \E S \in SUBSET ContextIds : p \in S /\ c \notin S /\ ClosedUnderParents(S)

LEMMA ApartIsNoAncestor ==
    ASSUME NEW p \in ContextIds, NEW c \in ContextIds
    PROVE  Apart(p, c) <=> c \notin Ancestors(p)
BY DEF Apart, Ancestors

\* Ids that were never used have no Context, no child and no turn, and no Context is among
\* its ancestors.
ParentsInv ==
    /\ usedIds \subseteq ContextIds
    /\ \A c \in ContextIds : Lives(c) => c \in usedIds
    /\ \A c \in ContextIds : context[c].parent \in usedIds \cup {NoContext}
    /\ \A a \in Actors : turn[a] \in usedIds \cup {NoContext}
    /\ \A c \in ContextIds : Lives(c) /\ context[c].parent # NoContext =>
                                 Apart(context[c].parent, c)

\* A Context that is gone has no participant, so that no event is continued there; events
\* and their rows have numbers that were given out.
EventsInv ==
    /\ \A c \in ContextIds : participants[c] # {} => Lives(c)
    /\ \A e \in history : Lives(e.context) /\ e.id <= inserted
    /\ \A r \in EventIds \X Actors : row[r] # "absent" => \E e \in history : e.id = r[1]

ContextsInv == ContextTypeOK /\ ParentsInv /\ EventsInv

\* A Context made under a parent that does not descend from it closes no cycle: with S0 the
\* ancestors of the parent and S those of another Context's parent, S, or else S with S0, or
\* else what they have in common, is closed and does not hold that other Context.
LEMMA InsertKeepsApart ==
    ASSUME ContextTypeOK, ParentsInv, NEW c0 \in ContextIds, ~Lives(c0),
           NEW parent \in ContextIds \cup {NoContext}, parent \in usedIds \cup {NoContext},
           parent # NoContext => Apart(parent, c0),
           NEW home \in Homes \cup {NoHome}, NEW actors \in SUBSET Actors,
           InsertContext(c0, parent, home, actors), turn' = turn
    PROVE  ParentsInv'
<1> DEFINE new == [live |-> TRUE, parent |-> parent, home |-> home]
<1>1. \A c \in ContextIds : context'[c] = IF c = c0 THEN new ELSE context[c]
  BY DEF InsertContext, ContextTypeOK
<1>2. usedIds' = usedIds \cup {c0}
  BY DEF InsertContext
<1>3. /\ \A c \in ContextIds : Lives(c)' => c \in usedIds'
      /\ \A c \in ContextIds : context'[c].parent \in usedIds' \cup {NoContext}
      /\ \A a \in Actors : turn'[a] \in usedIds' \cup {NoContext}
      /\ usedIds' \subseteq ContextIds
  BY <1>1, <1>2 DEF Lives, ParentsInv
<1>4. \A S \in SUBSET ContextIds :
          ClosedUnderParents(S) /\ (c0 \in S => parent = NoContext \/ parent \in S)
              => ClosedUnderParents(S)'
  BY <1>1 DEF ClosedUnderParents, Lives
<1>5. ASSUME NEW c \in ContextIds, Lives(c)', context'[c].parent # NoContext
      PROVE  Apart(context[c].parent, c)'
  <2>1. CASE c = c0
    <3>1. context'[c].parent = parent /\ parent # NoContext
      BY <1>1, <1>5, <2>1
    <3>2. PICK S \in SUBSET ContextIds : parent \in S /\ c0 \notin S /\ ClosedUnderParents(S)
      BY <3>1 DEF Apart
    <3> QED  BY <3>1, <3>2, <1>4, <2>1 DEF Apart
  <2>2. CASE c # c0
    <3> DEFINE p == context[c].parent
    <3>1. context'[c] = context[c] /\ Lives(c) /\ p # NoContext
      BY <1>1, <1>5, <2>2 DEF Lives
    <3>2. PICK S \in SUBSET ContextIds : p \in S /\ c \notin S /\ ClosedUnderParents(S)
      BY <3>1 DEF ParentsInv, Apart
    <3>3. CASE c0 \notin S \/ parent = NoContext
      BY <1>4, <3>1, <3>2, <3>3 DEF Apart
    <3>4. CASE c0 \in S /\ parent # NoContext
      <4>1. PICK S0 \in SUBSET ContextIds :
                parent \in S0 /\ c0 \notin S0 /\ ClosedUnderParents(S0)
        BY <3>4 DEF Apart
      <4>2. CASE c \notin S0
        <5>1. ClosedUnderParents(S \cup S0)
          BY <3>2, <4>1 DEF ClosedUnderParents
        <5>2. ClosedUnderParents(S \cup S0)'
          BY <1>4, <4>1, <5>1
        <5> QED  BY <3>1, <3>2, <4>1, <4>2, <5>2 DEF Apart
      <4>3. CASE c \in S0
        <5>1. ClosedUnderParents(S \cap S0)
          BY <3>2, <4>1 DEF ClosedUnderParents
        <5>2. ClosedUnderParents(S \cap S0)' /\ p \in S \cap S0
          BY <1>4, <3>1, <3>2, <4>1, <4>3, <5>1 DEF ClosedUnderParents
        <5> QED  BY <3>1, <3>2, <5>2 DEF Apart
      <4> QED  BY <4>2, <4>3
    <3> QED  BY <3>3, <3>4
  <2> QED  BY <2>1, <2>2
<1> QED  BY <1>3, <1>5 DEF ParentsInv

\* A new event of a Context that is there, of a number that was not given out before.
LEMMA InsertKeepsEvents ==
    ASSUME ContextTypeOK, EventsInv, NEW c \in ContextIds, Lives(c)',
           \A d \in ContextIds : Lives(d) => Lives(d)',
           NEW type \in WakingTypes, NEW woken \in SUBSET Actors, InsertEvent(c, type, woken)
    PROVE  /\ history' \subseteq [id : EventIds, context : ContextIds, at : EventIds,
                                  type : WakingTypes \cup {"context.compacted"}]
           /\ row' \in [EventIds \X Actors -> {"absent", "queued", "in flight"}]
           /\ inserted' \in 0..MaxHistory
           /\ \A e \in history' : Lives(e.context)' /\ e.id <= inserted'
           /\ \A r \in EventIds \X Actors : row'[r] # "absent" =>
                                             \E e \in history' : e.id = r[1]
<1>1. PICK at \in Instants :
          history' = history \cup {[id |-> inserted', context |-> c, at |-> at, type |-> type]}
  BY DEF InsertEvent
<1> DEFINE new == [id |-> inserted', context |-> c, at |-> at, type |-> type]
<1>2. inserted \in Nat /\ inserted' = inserted + 1 /\ inserted' \in EventIds
  <2>1. inserted \in 0..MaxHistory /\ MaxHistory \in Nat
    BY ContextsAssumption DEF ContextTypeOK
  <2>2. inserted < MaxHistory /\ inserted' = inserted + 1
    BY DEF InsertEvent
  <2> QED  BY <2>1, <2>2 DEF EventIds
<1>3. at \in EventIds
  <2>1. CASE inserted = 0
    BY <1>2, <2>1 DEF Instants
  <2>2. CASE inserted # 0
    <3>1. at = inserted' \/ \E e \in history : at = e.at
      BY <1>2, <2>2 DEF Instants
    <3> QED  BY <1>2, <3>1 DEF ContextTypeOK
  <2> QED  BY <2>1, <2>2
<1>4. \A e \in history : e.id \in EventIds /\ e.context \in ContextIds
  BY DEF ContextTypeOK
<1>5. new \in [id : EventIds, context : ContextIds, at : EventIds,
               type : WakingTypes \cup {"context.compacted"}]
  BY <1>2, <1>3
<1>6. row' \in [EventIds \X Actors -> {"absent", "queued", "in flight"}]
  BY DEF InsertEvent, ContextTypeOK
<1>7. \A e \in history' : Lives(e.context)' /\ e.id <= inserted'
  <2> SUFFICES ASSUME NEW e \in history' PROVE Lives(e.context)' /\ e.id <= inserted'
    OBVIOUS
  <2>1. CASE e \in history
    BY <1>2, <1>4, <2>1 DEF EventsInv, EventIds
  <2>2. CASE e = new
    BY <1>2, <2>2 DEF EventIds
  <2> QED  BY <1>1, <2>1, <2>2
<1>8. \A r \in EventIds \X Actors : row'[r] # "absent" => \E e \in history' : e.id = r[1]
  <2> SUFFICES ASSUME NEW r \in EventIds \X Actors, row'[r] # "absent"
               PROVE  \E e \in history' : e.id = r[1]
    OBVIOUS
  <2>1. CASE r[1] = inserted'
    <3>1. new \in history' /\ new.id = r[1]
      BY <1>1, <2>1
    <3> QED  BY <3>1
  <2>2. CASE r[1] # inserted'
    BY <1>1, <2>2 DEF InsertEvent, EventsInv
  <2> QED  BY <2>1, <2>2
<1>9. history' \subseteq [id : EventIds, context : ContextIds, at : EventIds,
                         type : WakingTypes \cup {"context.compacted"}]
  BY <1>1, <1>5 DEF ContextTypeOK
<1>10. inserted' \in 0..MaxHistory
  BY <1>2, ContextsAssumption DEF EventIds
<1> QED  BY <1>6, <1>7, <1>8, <1>9, <1>10

\* Events that go take their rows with them.
LEMMA ForgetKeepsEvents ==
    ASSUME ContextTypeOK, EventsInv, NEW events \in SUBSET history, Forget(events)
    PROVE  /\ history' \subseteq history
           /\ row' \in [EventIds \X Actors -> {"absent", "queued", "in flight"}]
           /\ \A r \in EventIds \X Actors : row'[r] # "absent" =>
                                             \E e \in history' : e.id = r[1]
<1>1. row' \in [EventIds \X Actors -> {"absent", "queued", "in flight"}] /\ history' \subseteq history
  BY DEF Forget, ContextTypeOK
<1>2. ASSUME NEW r \in EventIds \X Actors, row'[r] # "absent"
      PROVE  \E e \in history' : e.id = r[1]
  <2>1. row[r] # "absent" /\ r[1] \notin {e.id : e \in events}
    BY <1>2 DEF Forget
  <2> QED  BY <2>1 DEF EventsInv, Forget
<1> QED  BY <1>1, <1>2

\* What changes neither Contexts nor turns leaves the parents alone.
LEMMA SameParents ==
    ASSUME ParentsInv, UNCHANGED <<context, turn, usedIds>>
    PROVE  ParentsInv'
BY DEF ParentsInv, Lives, Apart, ClosedUnderParents

\* Children of a Context that goes lose their parent; no set stops being closed.
LEMMA DeleteKeepsParents ==
    ASSUME ContextTypeOK, ParentsInv, NEW c \in ContextIds, RemoveContext(c)
    PROVE  ParentsInv'
<1>1. \A d \in ContextIds :
          \/ d # c /\ context'[d] = context[d]
          \/ context'[d].parent = NoContext /\ (Lives(d)' => Lives(d))
  <2> SUFFICES ASSUME NEW d \in ContextIds
               PROVE  \/ d # c /\ context'[d] = context[d]
                      \/ context'[d].parent = NoContext /\ (Lives(d)' => Lives(d))
    OBVIOUS
  <2>1. context'[d] = CASE d = c -> Gone
                        [] context[d].parent = c -> [context[d] EXCEPT !.parent = NoContext]
                        [] OTHER -> context[d]
    BY DEF RemoveContext
  <2>2. context[d] \in [live : BOOLEAN, parent : ContextIds \cup {NoContext},
                        home : Homes \cup {NoHome}]
    BY DEF ContextTypeOK
  <2>3. CASE d = c
    BY <2>1, <2>3 DEF Gone, Lives
  <2>4. CASE d # c /\ context[d].parent = c
    <3>1. context'[d] = [context[d] EXCEPT !.parent = NoContext]
      BY <2>1, <2>4
    <3>2. context'[d].parent = NoContext /\ context'[d].live = context[d].live
      BY <2>2, <3>1
    <3> QED  BY <3>2 DEF Lives
  <2>5. CASE d # c /\ context[d].parent # c
    BY <2>1, <2>5
  <2> QED  BY <2>3, <2>4, <2>5
<1>2. \A S \in SUBSET ContextIds : ClosedUnderParents(S) => ClosedUnderParents(S)'
  BY <1>1 DEF ClosedUnderParents, Lives
<1>3. turn' = turn /\ usedIds' = usedIds
  BY DEF RemoveContext
<1>4. ASSUME NEW d \in ContextIds, Lives(d)', context'[d].parent # NoContext
      PROVE  Apart(context[d].parent, d)'
  <2>1. context'[d] = context[d] /\ Lives(d)
    BY <1>1, <1>4 DEF Lives
  <2>2. PICK S \in SUBSET ContextIds :
            context[d].parent \in S /\ d \notin S /\ ClosedUnderParents(S)
    BY <1>4, <2>1 DEF ParentsInv, Apart
  <2> QED  BY <1>2, <2>1, <2>2 DEF Apart
<1>5. \A d \in ContextIds :
          /\ Lives(d)' => d \in usedIds'
          /\ context'[d].parent \in usedIds' \cup {NoContext}
  BY <1>1, <1>3 DEF ParentsInv, Lives
<1> QED  BY <1>3, <1>4, <1>5 DEF ParentsInv

\* The ranges of the counters, and of the members of events.
LEMMA ContextNumbers ==
    ASSUME ContextTypeOK
    PROVE  /\ inserted \in Nat /\ inserted <= MaxHistory /\ MaxHistory \in Nat
           /\ contextCalls \in Nat /\ contextCalls <= MaxContextCalls /\ MaxContextCalls \in Nat
           /\ \A e \in history : e.id \in Nat /\ e.at \in Nat /\ e.context \in ContextIds
<1>1. inserted \in 0..MaxHistory /\ contextCalls \in 0..MaxContextCalls
  BY DEF ContextTypeOK
<1>2. \A e \in history : e.id \in EventIds /\ e.at \in EventIds /\ e.context \in ContextIds
  BY DEF ContextTypeOK
<1> QED  BY <1>1, <1>2, ContextsAssumption DEF EventIds

LEMMA ContextsBegin == ContextsInit => ContextsInv
<1> SUFFICES ASSUME ContextsInit PROVE ContextsInv
  OBVIOUS
<1>1. ContextTypeOK
  BY ContextsAssumption DEF ContextsInit, ContextTypeOK, Gone
<1>2. ParentsInv /\ EventsInv
  BY DEF ContextsInit, ParentsInv, EventsInv, Lives, Gone
<1> QED  BY <1>1, <1>2 DEF ContextsInv

\* Every step keeps the invariant.
LEMMA ContextsStep == ContextsInv /\ [ContextsNext]_contextVars => ContextsInv'
<1> SUFFICES ASSUME ContextsInv, [ContextsNext]_contextVars
             PROVE  ContextsInv'
  OBVIOUS
<1> USE DEF ContextsInv
<1>c. ASSUME ContextCall PROVE contextCalls' \in 0..MaxContextCalls
  <2>1. contextCalls < MaxContextCalls /\ contextCalls' = contextCalls + 1
    BY <1>c DEF ContextCall
  <2> QED  BY <2>1, ContextNumbers
<1>d. ASSUME inserted < MaxHistory, inserted' = inserted + 1
      PROVE  /\ inserted \in Nat /\ inserted' = inserted + 1 /\ inserted' \in EventIds
             /\ inserted' \in 0..MaxHistory
  BY <1>d, ContextNumbers DEF EventIds
<1>1. ASSUME NEW c \in ContextIds, NEW parent \in ContextIds \cup {NoContext},
             NEW home \in Homes \cup {NoHome}, NEW actors \in SUBSET Actors,
             CreateContext(c, parent, home, actors)
      PROVE  ContextsInv'
  <2> USE DEF CreateContext
  <2>1. ContextTypeOK'
    BY <1>1, <1>c DEF InsertContext, ContextTypeOK
  <2>2. parent \in usedIds \cup {NoContext} /\ (parent # NoContext => Apart(parent, c))
    BY <1>1, ApartIsNoAncestor DEF WouldCreateCycle, ParentsInv
  <2>3. ParentsInv'
    BY <1>1, <2>2, InsertKeepsApart
  <2>4. \A d \in ContextIds : Lives(d)' <=> (Lives(d) \/ d = c)
    BY <1>1 DEF InsertContext, ContextTypeOK, Lives
  <2>5. \A d \in ContextIds : d # c => participants'[d] = participants[d]
    BY <1>1 DEF InsertContext, ContextTypeOK
  <2>6. EventsInv'
    BY <1>1, <2>4, <2>5 DEF EventsInv, ContextTypeOK
  <2> QED  BY <2>1, <2>3, <2>6
<1>2. ASSUME NEW c \in ContextIds, NEW a \in Actors, NEW types \in SUBSET WakingTypes,
             \/ AddParticipant(c, a) \/ RemoveParticipant(c, a)
             \/ SubscribeToContext(c, a, types) \/ UnsubscribeFromContext(c, a)
             \/ ApplyContextSubscriptions(c, {a}, types, Actors)
      PROVE  ContextsInv'
  <2> USE DEF AddParticipant, RemoveParticipant, SubscribeToContext, UnsubscribeFromContext,
              ApplyContextSubscriptions
  <2>1. UNCHANGED <<context, history, row, turn, cutOff, usedIds, inserted>> /\ ContextCall /\ Lives(c)
    BY <1>2
  <2> HIDE DEF ContextsInv
  <2>t. /\ participants \in [ContextIds -> SUBSET Actors]
        /\ subscription \in [ContextIds -> [Actors -> {{"none"}} \cup SUBSET WakingTypes]]
    BY DEF ContextTypeOK, ContextsInv
  <2>2. /\ participants' \in [ContextIds -> SUBSET Actors]
        /\ \A d \in ContextIds : d # c => participants'[d] = participants[d]
    BY <1>2, <2>t
  <2>3. subscription' \in [ContextIds -> [Actors -> {{"none"}} \cup SUBSET WakingTypes]]
    <3>1. \/ subscription' = subscription
          \/ subscription' = [subscription EXCEPT ![c][a] = types]
          \/ subscription' = [subscription EXCEPT ![c][a] = {"none"}]
          \/ subscription' = [subscription EXCEPT ![c] =
                 [b \in Actors |-> IF b \in {a} THEN types ELSE @[b]]]
      BY <1>2
    <3> QED  BY <2>t, <3>1
  <2> USE DEF ContextsInv
  <2>4. ContextTypeOK'
    BY <1>c, <2>1, <2>2, <2>3 DEF ContextTypeOK
  <2>5. EventsInv'
    BY <2>1, <2>2 DEF EventsInv, Lives
  <2> QED  BY <2>1, <2>4, <2>5, SameParents
<1>3. ASSUME NEW c \in ContextIds, NEW home \in Homes, AssignContextScope(c, home)
      PROVE  ContextsInv'
  <2> USE DEF AssignContextScope
  <2> DEFINE type == CHOOSE t \in WakingTypes : TRUE
  <2> DEFINE new == [id |-> inserted', context |-> c, at |-> inserted', type |-> type]
  <2>1. type \in WakingTypes
    BY ContextsAssumption
  <2>2. /\ \A d \in ContextIds : context'[d].live = context[d].live
                               /\ context'[d].parent = context[d].parent
        /\ context' \in [ContextIds -> [live : BOOLEAN, parent : ContextIds \cup {NoContext},
                                       home : Homes \cup {NoHome}]]
    BY <1>3 DEF ContextTypeOK
  <2>3. /\ inserted \in Nat /\ inserted' = inserted + 1 /\ inserted' \in EventIds
        /\ inserted' \in 0..MaxHistory
    BY <1>3, <1>d
  <2>4. new \in [id : EventIds, context : ContextIds, at : EventIds,
                 type : WakingTypes \cup {"context.compacted"}]
    BY <2>1, <2>3
  <2>5. history' = history \cup {new}
    BY <1>3
  <2>6. ContextTypeOK'
    BY <1>3, <1>c, <2>2, <2>3, <2>4, <2>5 DEF ContextTypeOK
  <2>7. ParentsInv'
    BY <1>3, <2>2 DEF ParentsInv, Lives, Apart, ClosedUnderParents
  <2>8. Lives(c)' /\ \A d \in ContextIds : Lives(d)' <=> Lives(d)
    BY <1>3, <2>2 DEF Lives, Assignable
  <2>9. \A e \in history' : Lives(e.context)' /\ e.id <= inserted'
    <3> SUFFICES ASSUME NEW e \in history' PROVE Lives(e.context)' /\ e.id <= inserted'
      OBVIOUS
    <3>1. CASE e \in history
      <4>1. e.id \in Nat /\ e.context \in ContextIds /\ Lives(e.context) /\ e.id <= inserted
        BY <3>1, ContextNumbers DEF EventsInv
      <4> QED  BY <2>3, <2>8, <4>1
    <3>2. CASE e = new
      BY <2>3, <2>8, <3>2 DEF EventIds
    <3> QED  BY <2>5, <3>1, <3>2
  <2>10. EventsInv'
    BY <1>3, <2>5, <2>8, <2>9 DEF EventsInv
  <2> QED  BY <2>6, <2>7, <2>10
<1>4. ASSUME NEW c \in ContextIds, NEW a \in Actors, NEW type \in WakingTypes,
             EmitTriggerEvent(c, a, type)
      PROVE  ContextsInv'
  <2>1. /\ UNCHANGED <<context, participants, subscription, turn, cutOff, usedIds,
                       contextCalls>>
        /\ InsertEvent(c, type, {a}) /\ Lives(c)' /\ \A d \in ContextIds : Lives(d)' <=> Lives(d)
    BY <1>4 DEF EmitTriggerEvent, Lives
  <2>2. /\ history' \subseteq [id : EventIds, context : ContextIds, at : EventIds,
                               type : WakingTypes \cup {"context.compacted"}]
        /\ row' \in [EventIds \X Actors -> {"absent", "queued", "in flight"}]
        /\ inserted' \in 0..MaxHistory
        /\ \A e \in history' : Lives(e.context)' /\ e.id <= inserted'
        /\ \A r \in EventIds \X Actors : row'[r] # "absent" => \E e \in history' : e.id = r[1]
    <3>1. {a} \in SUBSET Actors
      OBVIOUS
    <3> QED  BY <2>1, <3>1, InsertKeepsEvents
  <2>3. ContextTypeOK'
    BY <2>1, <2>2 DEF ContextTypeOK
  <2>4. EventsInv'
    BY <2>1, <2>2 DEF EventsInv
  <2> QED  BY <2>1, <2>3, <2>4, SameParents
<1>5. ASSUME NEW c \in ContextIds, ClearContextHistory(c)
      PROVE  ContextsInv'
  <2> USE DEF ClearContextHistory
  <2>1. /\ history' \subseteq history
        /\ row' \in [EventIds \X Actors -> {"absent", "queued", "in flight"}]
        /\ \A r \in EventIds \X Actors : row'[r] # "absent" => \E e \in history' : e.id = r[1]
    BY <1>5, ForgetKeepsEvents DEF EventsOf
  <2>2. ContextTypeOK'
    BY <1>5, <1>c, <2>1 DEF ContextTypeOK, CutsOff
  <2>3. EventsInv'
    BY <1>5, <2>1 DEF EventsInv, Lives
  <2> QED  BY <1>5, <2>2, <2>3, SameParents
<1>6. ASSUME NEW c \in ContextIds, RemoveContext(c), cutOff' \subseteq Actors
      PROVE  ContextsInv'
  <2> USE DEF RemoveContext
  <2>1. /\ history' \subseteq history /\ history' = history \ EventsOf(c)
        /\ row' \in [EventIds \X Actors -> {"absent", "queued", "in flight"}]
        /\ \A r \in EventIds \X Actors : row'[r] # "absent" => \E e \in history' : e.id = r[1]
    BY <1>6, ForgetKeepsEvents DEF EventsOf, Forget
  <2>2. context' \in [ContextIds -> [live : BOOLEAN, parent : ContextIds \cup {NoContext},
                                    home : Homes \cup {NoHome}]]
    BY <1>6 DEF ContextTypeOK, Gone
  <2>3. ContextTypeOK'
    BY <1>6, <1>c, <2>1, <2>2 DEF ContextTypeOK
  <2>4. \A d \in ContextIds : d # c => (Lives(d) => Lives(d)') /\ participants'[d] = participants[d]
    BY <1>6 DEF ContextTypeOK, Lives
  <2>5. participants'[c] = {}
    BY <1>6 DEF ContextTypeOK
  <2>6. \A e \in history' : e.context \in ContextIds /\ e.context # c
    BY <2>1 DEF ContextTypeOK, EventsOf
  <2>7. EventsInv'
    BY <1>6, <2>1, <2>4, <2>5, <2>6 DEF EventsInv
  <2>8. ParentsInv'
    BY <1>6, DeleteKeepsParents
  <2> QED  BY <2>3, <2>7, <2>8
<1>7. ASSUME NEW c \in ContextIds, NEW before \in 0..MaxHistory, CompactContext(c, before)
      PROVE  ContextsInv'
  <2> USE DEF CompactContext
  <2> DEFINE new == [id |-> inserted', context |-> c, at |-> inserted',
                     type |-> "context.compacted"]
  <2>1. /\ inserted \in Nat /\ inserted' = inserted + 1 /\ inserted' \in EventIds
        /\ inserted' \in 0..MaxHistory
    BY <1>7, <1>d
  <2>2. history' = (history \ Compacted(c, before)) \cup {new}
    BY <1>7
  <2>3. new \in [id : EventIds, context : ContextIds, at : EventIds,
                 type : WakingTypes \cup {"context.compacted"}]
    BY <2>1
  <2>4. row' \in [EventIds \X Actors -> {"absent", "queued", "in flight"}]
    BY <1>7 DEF ContextTypeOK
  <2>5. ContextTypeOK'
    BY <1>7, <1>c, <2>1, <2>2, <2>3, <2>4 DEF ContextTypeOK, CutsOff
  <2>6. \A e \in history' : Lives(e.context)' /\ e.id <= inserted'
    <3> SUFFICES ASSUME NEW e \in history' PROVE Lives(e.context)' /\ e.id <= inserted'
      OBVIOUS
    <3>1. CASE e \in history
      <4>1. e.id \in Nat /\ e.context \in ContextIds /\ Lives(e.context) /\ e.id <= inserted
        BY <3>1, ContextNumbers DEF EventsInv
      <4> QED  BY <1>7, <2>1, <4>1 DEF Lives
    <3>2. CASE e = new
      BY <1>7, <2>1, <3>2 DEF EventIds, Lives
    <3> QED  BY <2>2, <3>1, <3>2
  <2>7. ASSUME NEW r \in EventIds \X Actors, row'[r] # "absent"
        PROVE  \E e \in history' : e.id = r[1]
    <3>1. row[r] # "absent" /\ r[1] \notin {e.id : e \in Compacted(c, before)}
      BY <1>7, <2>7
    <3>2. PICK e \in history : e.id = r[1]
      BY <3>1 DEF EventsInv
    <3> QED  BY <2>2, <3>1, <3>2
  <2>8. EventsInv'
    BY <1>7, <2>6, <2>7 DEF EventsInv, Lives
  <2> QED  BY <1>7, <2>5, <2>8, SameParents
<1>8. ASSUME NEW source \in Actors, NEW destination \in Actors \cup {NoContext},
             NEW type \in WakingTypes, NEW supplied \in ContextIds \cup {NoContext},
             destination \in Actors \/ supplied # NoContext,
             SubmitEvent(source, destination, supplied, type)
      PROVE  ContextsInv'
  <2>1. PICK c \in ResolvesTo(source, destination, supplied) :
            /\ IF supplied = NoContext /\ c \notin usedIds
               THEN InsertContext(c, turn[source], NoHome, {source, destination})
               ELSE UNCHANGED <<context, participants, usedIds>>
            /\ InsertEvent(c, type, IF destination = NoContext THEN Subscribed(c, type)
                                                               ELSE {destination})
            /\ UNCHANGED <<subscription, turn, cutOff, contextCalls>>
    BY <1>8 DEF SubmitEvent
  <2>2. c \in ContextIds /\ (Lives(c) \/ (supplied = NoContext /\ c \notin usedIds))
    <3>1. CASE supplied # NoContext
      BY <2>1, <3>1 DEF ResolvesTo
    <3>2. CASE supplied = NoContext
      <4>1. \/ c \in ContextIds /\ destination \in participants[c]
            \/ c \in ContextIds \ usedIds
        BY <2>1, <3>2 DEF ResolvesTo
      <4> QED  BY <3>2, <4>1 DEF EventsInv
    <3> QED  BY <3>1, <3>2
  <2>3. CASE supplied = NoContext /\ c \notin usedIds
    <3>1. /\ InsertContext(c, turn[source], NoHome, {source, destination})
          /\ ~Lives(c) /\ turn[source] \in usedIds \cup {NoContext}
          /\ turn[source] \in ContextIds \cup {NoContext}
          /\ {source, destination} \in SUBSET Actors /\ NoHome \in Homes \cup {NoHome}
      BY <1>8, <2>1, <2>2, <2>3 DEF ParentsInv, ContextTypeOK
    <3>2. turn[source] # NoContext => Apart(turn[source], c)
      <4> SUFFICES ASSUME turn[source] # NoContext PROVE Apart(turn[source], c)
        OBVIOUS
      <4> DEFINE S == ContextIds \ {c}
      <4>1. ClosedUnderParents(S)
        BY <2>3, ContextsAssumption DEF ClosedUnderParents, ParentsInv
      <4>2. turn[source] \in S /\ c \notin S
        BY <2>3, <3>1
      <4> QED  BY <4>1, <4>2 DEF Apart
    <3>3. ParentsInv'
      BY <2>1, <2>2, <3>1, <3>2, InsertKeepsApart
    <3>4. Lives(c)' /\ \A d \in ContextIds : Lives(d)' <=> (Lives(d) \/ d = c)
      BY <2>2, <3>1 DEF InsertContext, ContextTypeOK, Lives
    <3>5. /\ participants' \in [ContextIds -> SUBSET Actors]
          /\ context' \in [ContextIds -> [live : BOOLEAN, parent : ContextIds \cup {NoContext},
                                         home : Homes \cup {NoHome}]]
          /\ \A d \in ContextIds : d # c => participants'[d] = participants[d]
      BY <2>2, <3>1 DEF InsertContext, ContextTypeOK
    <3>6. destination # NoContext => {destination} \in SUBSET Actors
      BY <3>1
    <3>7. Subscribed(c, type) \in SUBSET Actors
      BY DEF Subscribed
    <3>8. /\ history' \subseteq [id : EventIds, context : ContextIds, at : EventIds,
                                 type : WakingTypes \cup {"context.compacted"}]
          /\ row' \in [EventIds \X Actors -> {"absent", "queued", "in flight"}]
          /\ inserted' \in 0..MaxHistory
          /\ \A e \in history' : Lives(e.context)' /\ e.id <= inserted'
          /\ \A r \in EventIds \X Actors : row'[r] # "absent" =>
                                            \E e \in history' : e.id = r[1]
      BY <2>1, <2>2, <3>4, <3>6, <3>7, InsertKeepsEvents
    <3>9. ContextTypeOK'
      BY <2>1, <3>5, <3>8 DEF ContextTypeOK
    <3>10. EventsInv'
      BY <3>4, <3>5, <3>8 DEF EventsInv
    <3> QED  BY <3>3, <3>9, <3>10
  <2>4. CASE ~(supplied = NoContext /\ c \notin usedIds)
    <3>1. UNCHANGED <<context, participants, usedIds>> /\ Lives(c)
      BY <2>1, <2>2, <2>4
    <3>2. Lives(c)' /\ \A d \in ContextIds : Lives(d)' <=> Lives(d)
      BY <3>1 DEF Lives
    <3>3. destination # NoContext => {destination} \in SUBSET Actors
      OBVIOUS
    <3>4. Subscribed(c, type) \in SUBSET Actors
      BY DEF Subscribed
    <3>5. /\ history' \subseteq [id : EventIds, context : ContextIds, at : EventIds,
                                 type : WakingTypes \cup {"context.compacted"}]
          /\ row' \in [EventIds \X Actors -> {"absent", "queued", "in flight"}]
          /\ inserted' \in 0..MaxHistory
          /\ \A e \in history' : Lives(e.context)' /\ e.id <= inserted'
          /\ \A r \in EventIds \X Actors : row'[r] # "absent" =>
                                            \E e \in history' : e.id = r[1]
      BY <2>1, <2>2, <3>2, <3>3, <3>4, InsertKeepsEvents
    <3>6. ContextTypeOK'
      BY <2>1, <3>1, <3>5 DEF ContextTypeOK
    <3>7. EventsInv'
      BY <3>1, <3>2, <3>5 DEF EventsInv
    <3> QED  BY <2>1, <3>1, <3>6, <3>7, SameParents
  <2> QED  BY <2>3, <2>4
<1>9. ASSUME NEW a \in Actors, ContextDelivers(a)
      PROVE  ContextsInv'
  <2>1. PICK e \in history :
            /\ row[<<e.id, a>>] = "queued" /\ turn' = [turn EXCEPT ![a] = e.context]
            /\ row' = [row EXCEPT ![<<e.id, a>>] = "in flight"]
            /\ UNCHANGED <<context, participants, subscription, history, cutOff, usedIds,
                           inserted, contextCalls>>
    BY <1>9 DEF ContextDelivers
  <2>2. e.id \in EventIds /\ e.context \in ContextIds /\ e.context \in usedIds
    BY DEF ContextTypeOK, EventsInv, ParentsInv
  <2>3. ContextTypeOK'
    BY <2>1, <2>2 DEF ContextTypeOK
  <2>4. ParentsInv'
    <3>1. \A b \in Actors : turn'[b] \in usedIds \cup {NoContext}
      BY <2>1, <2>2 DEF ParentsInv, ContextTypeOK
    <3> QED  BY <2>1, <3>1 DEF ParentsInv, Lives, Apart, ClosedUnderParents
  <2>5. EventsInv'
    BY <2>1, <2>2 DEF EventsInv, Lives, ContextTypeOK
  <2> QED  BY <2>3, <2>4, <2>5
<1>10. ASSUME NEW a \in Actors, ContextTurnEnds(a)
       PROVE  ContextsInv'
  <2> USE DEF ContextTurnEnds
  <2>1. ContextTypeOK'
    BY <1>10 DEF ContextTypeOK
  <2>2. ParentsInv'
    <3>1. \A b \in Actors : turn'[b] \in usedIds \cup {NoContext}
      BY <1>10 DEF ParentsInv, ContextTypeOK
    <3> QED  BY <1>10, <3>1 DEF ParentsInv, Lives, Apart, ClosedUnderParents
  <2>3. EventsInv'
    BY <1>10 DEF EventsInv, Lives
  <2> QED  BY <2>1, <2>2, <2>3
<1>11. CASE UNCHANGED contextVars
  <2>1. ContextTypeOK' /\ EventsInv'
    BY <1>11 DEF contextVars, ContextTypeOK, EventsInv, Lives
  <2>2. UNCHANGED <<context, turn, usedIds>>
    BY <1>11 DEF contextVars
  <2> QED  BY <2>1, <2>2, SameParents
<1>12. ASSUME NEW c \in ContextIds, DeleteContext(c) \/ DeleteObsoleteContext(c)
       PROVE  ContextsInv'
  <2>1. RemoveContext(c) /\ cutOff' \subseteq Actors
    BY <1>12 DEF DeleteContext, DeleteObsoleteContext, CutsOff, ContextTypeOK
  <2> QED  BY <1>6, <2>1
<1>13. CASE ContextsNext
  <2> HIDE DEF ContextsInv
  <2>1. ASSUME NEW source \in Actors, NEW destination \in Actors, NEW type \in WakingTypes,
               NEW supplied \in ContextIds \cup {NoContext},
               SubmitEvent(source, destination, supplied, type)
        PROVE  ContextsInv'
    BY <1>8, <2>1
  <2>2. ASSUME NEW source \in Actors, NEW c \in ContextIds, NEW type \in WakingTypes,
               SubmitEvent(source, NoContext, c, type)
        PROVE  ContextsInv'
    <3>1. NoContext \in Actors \cup {NoContext} /\ c \in ContextIds \cup {NoContext}
          /\ c # NoContext
      BY ContextsAssumption
    <3> QED  BY <1>8, <2>2, <3>1
  <2> QED  BY <1>1, <1>2, <1>3, <1>4, <1>5, <1>7, <1>9, <1>10, <1>12, <1>13, <2>1, <2>2
           DEF ContextsNext
<1> QED  BY <1>11, <1>13

\* A step takes the delivery of a turn away only as the turn ends, or on a client's call, which
\* is then remembered.
LEMMA TurnsKeepTheirDeliveryStep ==
    ContextsInv /\ TurnsKeepTheirDelivery /\ [ContextsNext]_contextVars
        => TurnsKeepTheirDelivery'
<1> SUFFICES ASSUME ContextsInv, TurnsKeepTheirDelivery, [ContextsNext]_contextVars,
                    NEW a \in Actors, turn'[a] # NoContext, a \notin cutOff'
             PROVE  \E r \in EventIds \X Actors : r[2] = a /\ row'[r] = "in flight"
  BY DEF TurnsKeepTheirDelivery
<1> DEFINE InFlight(r) == r \in EventIds \X Actors /\ r[2] = a /\ row[r] = "in flight"
<1>t. turn[a] # NoContext /\ a \notin cutOff => \E r \in EventIds \X Actors : InFlight(r)
  BY DEF TurnsKeepTheirDelivery
<1>k. ASSUME UNCHANGED <<turn, cutOff>>,
             \A r \in EventIds \X Actors : InFlight(r) => row'[r] = "in flight"
      PROVE  \E r \in EventIds \X Actors : r[2] = a /\ row'[r] = "in flight"
  BY <1>t, <1>k
<1>1. CASE UNCHANGED <<row, turn, cutOff>>
  BY <1>1, <1>k
<1>2. ASSUME NEW c \in ContextIds, NEW type \in WakingTypes, NEW woken \in SUBSET Actors,
             InsertEvent(c, type, woken), UNCHANGED <<turn, cutOff>>
      PROVE  \E r \in EventIds \X Actors : r[2] = a /\ row'[r] = "in flight"
  <2>1. ASSUME NEW r \in EventIds \X Actors, InFlight(r) PROVE row'[r] = "in flight"
    <3>1. PICK e \in history : e.id = r[1]
      BY <2>1 DEF ContextsInv, EventsInv
    <3>2. e.id <= inserted /\ inserted' = inserted + 1 /\ e.id \in Nat /\ inserted \in Nat
      BY <1>2, <3>1, ContextNumbers DEF ContextsInv, EventsInv, InsertEvent
    <3>3. r[1] # inserted'
      BY <3>1, <3>2
    <3>4. row' = [x \in EventIds \X Actors |->
                    IF x[1] = inserted' /\ x[2] \in woken THEN "queued" ELSE row[x]]
      BY <1>2 DEF InsertEvent
    <3> QED  BY <2>1, <3>3, <3>4
  <2> QED  BY <1>2, <1>k, <2>1
\* Events that go, and a history of turns cut off that holds those whose delivery goes.
<1>3. ASSUME NEW gone \in SUBSET history, turn' = turn,
             row' = [r \in EventIds \X Actors |->
                        IF r[1] \in {e.id : e \in gone} THEN "absent" ELSE row[r]],
             \/ CutsOff(gone)
             \/ cutOff' = cutOff /\ \A e \in gone, b \in Actors : row[<<e.id, b>>] = "absent"
      PROVE  \E r \in EventIds \X Actors : r[2] = a /\ row'[r] = "in flight"
  <2>1. a \notin cutOff
    BY <1>3 DEF CutsOff
  <2>2. PICK r \in EventIds \X Actors : InFlight(r)
    BY <1>3, <1>t, <2>1
  <2>3. \A e \in gone : row[<<e.id, a>>] # "in flight"
    BY <1>3 DEF CutsOff
  <2>4. r = <<r[1], a>>
    <3>1. r = <<r[1], r[2]>>
      OBVIOUS
    <3> QED  BY <2>2, <3>1
  <2>5. r[1] \notin {e.id : e \in gone}
    BY <2>2, <2>3, <2>4
  <2> QED  BY <1>3, <2>2, <2>5
<1>4. ASSUME NEW c \in ContextIds,
             \/ ClearContextHistory(c) \/ DeleteContext(c) \/ DeleteObsoleteContext(c)
             \/ \E before \in 0..MaxHistory : CompactContext(c, before)
      PROVE  \E r \in EventIds \X Actors : r[2] = a /\ row'[r] = "in flight"
  <2>1. CASE ClearContextHistory(c) \/ DeleteContext(c) \/ DeleteObsoleteContext(c)
    <3>1. turn' = turn /\ Forget(EventsOf(c)) /\ EventsOf(c) \in SUBSET history
      BY <2>1 DEF ClearContextHistory, DeleteContext, DeleteObsoleteContext, RemoveContext, EventsOf
    <3>2. \/ CutsOff(EventsOf(c))
          \/ /\ cutOff' = cutOff
             /\ \A e \in EventsOf(c), b \in Actors : row[<<e.id, b>>] = "absent"
      BY <2>1 DEF ClearContextHistory, DeleteContext, DeleteObsoleteContext, AllSettled
    <3> QED  BY <1>3, <3>1, <3>2 DEF Forget
  <2>2. ASSUME NEW before \in 0..MaxHistory, CompactContext(c, before)
        PROVE  \E r \in EventIds \X Actors : r[2] = a /\ row'[r] = "in flight"
    <3>1. Compacted(c, before) \in SUBSET history
      BY DEF Compacted, EventsOf
    <3> QED  BY <1>3, <2>2, <3>1 DEF CompactContext
  <2> QED  BY <1>4, <2>1, <2>2
<1>5. ASSUME NEW source \in Actors, NEW destination \in Actors \cup {NoContext},
             NEW type \in WakingTypes, NEW supplied \in ContextIds \cup {NoContext},
             SubmitEvent(source, destination, supplied, type)
      PROVE  \E r \in EventIds \X Actors : r[2] = a /\ row'[r] = "in flight"
  <2>1. PICK c \in ResolvesTo(source, destination, supplied) :
            /\ InsertEvent(c, type, IF destination = NoContext THEN Subscribed(c, type)
                                                               ELSE {destination})
            /\ UNCHANGED <<turn, cutOff>>
    BY <1>5 DEF SubmitEvent
  <2>2. c \in ContextIds
    BY DEF ResolvesTo
  <2>3. (IF destination = NoContext THEN Subscribed(c, type) ELSE {destination})
            \in SUBSET Actors
    BY DEF Subscribed
  <2> QED  BY <1>2, <2>1, <2>2, <2>3
<1>6. ASSUME NEW c \in ContextIds, NEW b \in Actors, NEW type \in WakingTypes,
             EmitTriggerEvent(c, b, type)
      PROVE  \E r \in EventIds \X Actors : r[2] = a /\ row'[r] = "in flight"
  BY <1>2, <1>6 DEF EmitTriggerEvent
<1>7. ASSUME NEW b \in Actors, ContextDelivers(b)
      PROVE  \E r \in EventIds \X Actors : r[2] = a /\ row'[r] = "in flight"
  <2>1. PICK e \in history :
            /\ turn' = [turn EXCEPT ![b] = e.context] /\ cutOff' = cutOff
            /\ row' = [row EXCEPT ![<<e.id, b>>] = "in flight"]
    BY <1>7 DEF ContextDelivers
  <2>2. <<e.id, b>> \in EventIds \X Actors
    BY DEF ContextsInv, ContextTypeOK
  <2>3. row \in [EventIds \X Actors -> {"absent", "queued", "in flight"}]
        /\ turn \in [Actors -> ContextIds \cup {NoContext}]
    BY DEF ContextsInv, ContextTypeOK
  <2>4. CASE a = b
    BY <2>1, <2>2, <2>3, <2>4
  <2>5. CASE a # b
    BY <1>t, <2>1, <2>2, <2>3, <2>5
  <2> QED  BY <2>4, <2>5
<1>8. ASSUME NEW b \in Actors, ContextTurnEnds(b)
      PROVE  \E r \in EventIds \X Actors : r[2] = a /\ row'[r] = "in flight"
  <2>1. turn \in [Actors -> ContextIds \cup {NoContext}]
    BY DEF ContextsInv, ContextTypeOK
  <2>2. a # b /\ turn[a] # NoContext /\ a \notin cutOff
    BY <1>8, <2>1 DEF ContextTurnEnds
  <2>3. PICK r \in EventIds \X Actors : InFlight(r)
    BY <1>t, <2>2
  <2> QED  BY <1>8, <2>2, <2>3 DEF ContextTurnEnds
<1>9. CASE UNCHANGED contextVars
  BY <1>1, <1>9 DEF contextVars
<1>10. CASE ContextsNext
  <2>1. ASSUME NEW c \in ContextIds, NEW parent \in ContextIds \cup {NoContext},
               NEW home \in Homes \cup {NoHome}, NEW actors \in SUBSET Actors,
               CreateContext(c, parent, home, actors)
        PROVE  UNCHANGED <<row, turn, cutOff>>
    BY <2>1 DEF CreateContext
  <2>2. ASSUME NEW c \in ContextIds, NEW b \in Actors, NEW types \in SUBSET WakingTypes,
               \/ AddParticipant(c, b) \/ RemoveParticipant(c, b)
               \/ SubscribeToContext(c, b, types) \/ UnsubscribeFromContext(c, b)
               \/ ApplyContextSubscriptions(c, {b}, types, Actors)
        PROVE  UNCHANGED <<row, turn, cutOff>>
    BY <2>2 DEF AddParticipant, RemoveParticipant, SubscribeToContext, UnsubscribeFromContext,
                ApplyContextSubscriptions
  <2>3. ASSUME NEW c \in ContextIds, NEW home \in Homes, AssignContextScope(c, home)
        PROVE  UNCHANGED <<row, turn, cutOff>>
    BY <2>3 DEF AssignContextScope
  <2>4. ASSUME NEW source \in Actors, NEW destination \in Actors, NEW type \in WakingTypes,
               NEW supplied \in ContextIds \cup {NoContext},
               SubmitEvent(source, destination, supplied, type)
        PROVE  \E r \in EventIds \X Actors : r[2] = a /\ row'[r] = "in flight"
    BY <1>5, <2>4
  <2>5. ASSUME NEW source \in Actors, NEW c \in ContextIds, NEW type \in WakingTypes,
               SubmitEvent(source, NoContext, c, type)
        PROVE  \E r \in EventIds \X Actors : r[2] = a /\ row'[r] = "in flight"
    BY <1>5, <2>5
  <2> QED  BY <1>1, <1>4, <1>6, <1>7, <1>8, <1>10, <2>1, <2>2, <2>3, <2>4, <2>5
           DEF ContextsNext
<1> QED  BY <1>9, <1>10

\* The type invariant of the Contexts holds in every behaviour.
THEOREM ContextTypesHold == ContextsSpec => []ContextTypeOK
<1>1. ContextsInv => ContextTypeOK
  BY DEF ContextsInv
<1> QED  BY <1>1, ContextsBegin, ContextsStep, PTL DEF ContextsSpec

\* No Context is its own ancestor; compaction, clearing and deletion leave no delivery of an
\* event that is gone and no event of a Context that is gone; a turn keeps its delivery unless a
\* client's call clears, compacts or deletes its Context; compacting up to an event keeps that
\* event and every one stored no earlier.
THEOREM ContextsStaySound == ContextsSpec => ContextsAreSound
<1>1. ContextsInv => ContextsFormNoCycle /\ NothingOutlivesItsContext
  <2> SUFFICES ASSUME ContextsInv PROVE ContextsFormNoCycle /\ NothingOutlivesItsContext
    OBVIOUS
  <2>1. ASSUME NEW c \in ContextIds, Lives(c), Lives(context[c].parent)
        PROVE  c \notin Ancestors(context[c].parent)
    <3>1. context[c].parent \in ContextIds /\ context[c].parent # NoContext
      BY <2>1, ContextsAssumption DEF Lives
    <3> QED  BY <2>1, <3>1, ApartIsNoAncestor DEF ContextsInv, ParentsInv
  <2> QED  BY <2>1 DEF ContextsFormNoCycle, NothingOutlivesItsContext, ContextsInv, EventsInv
<1>2. ASSUME ContextsInv, NEW e \in history, NEW mark \in history,
             e.context = mark.context, e.at >= mark.at, CompactContext(e.context, mark.id)
      PROVE  e \in history'
  <2>1. e.at \in Int /\ mark.at \in Int
    BY <1>2, ContextNumbers DEF ContextsInv
  <2>2. mark.at \in {x.at : x \in {y \in EventsOf(e.context) : y.id = mark.id}}
    BY <1>2 DEF EventsOf
  <2>3. e \notin Compacted(e.context, mark.id)
    BY <1>2, <2>1, <2>2 DEF Compacted
  <2> QED  BY <1>2, <2>3 DEF CompactContext
<1> DEFINE Kept == \A e, mark \in history :
                      (e.context = mark.context /\ e.at >= mark.at
                          /\ CompactContext(e.context, mark.id)) => e \in history'
<1>3. ContextsInv => [Kept]_contextVars
  BY <1>2
<1>4. ContextsSpec => []ContextsInv
  BY ContextsBegin, ContextsStep, PTL DEF ContextsSpec
<1>5. ContextsSpec => [][Kept]_contextVars
  <2> HIDE DEF Kept
  <2> QED  BY <1>3, <1>4, PTL
<1>6. ContextsInit => TurnsKeepTheirDelivery
  BY DEF ContextsInit, TurnsKeepTheirDelivery
<1>7. ContextsSpec => []TurnsKeepTheirDelivery
  BY <1>4, <1>6, TurnsKeepTheirDeliveryStep, PTL DEF ContextsSpec
<1> QED  BY <1>1, <1>4, <1>5, <1>7, PTL DEF ContextsAreSound, CompactionKeepsTail

-----------------------------------------------------------------------------
(* Sign-in with a model provider                                           *)

SigningIn == {"begun", "launched", "listening", "leaving"}
SignInUnderWay(c) == signIn[c].stage \in SigningIn
\* The command is the one whose helper the slot holds, until the app exits.
InSlot(c) == signIn[c].stage = "listening" \/ signIn[c].guards = <<"child", "login">>

\* The guards that a command holds at each stage.
GuardsInv ==
    \A c \in SignIns :
        /\ signIn[c].stage \in {"begun", "launched"} => signIn[c].guards = <<"login">>
        /\ signIn[c].stage = "listening" => signIn[c].guards = <<"login", "child">>
        /\ signIn[c].stage = "leaving" =>
              signIn[c].guards \in {<<"login">>, <<"child", "login">>}
        /\ signIn[c].stage \in {"unused", "returned", "over"} => signIn[c].guards = <<>>
        /\ signIn[c].stage \in {"unused", "begun"} => helper[c] = "none"
        /\ signIn[c].stage \in {"launched", "listening"} => helper[c] # "none"

\* The flag is up for the one command that is under way; the slot holds the helper of that
\* command, and no other runs.
FlagInv ==
    /\ \A c, d \in SignIns : SignInUnderWay(c) /\ SignInUnderWay(d) => c = d
    /\ loginActive <=> \E c \in SignIns : SignInUnderWay(c)
    /\ appUp => \A c \in SignIns : InSlot(c) <=> loginProcess = c
    /\ ~appUp => loginProcess = 0
    /\ \A c \in SignIns : Alive(c) => signIn[c].stage = "launched" \/ (appUp /\ InSlot(c))

\* What is stored of a provider, as far as its helper got, and what is shown and chosen.
WrittenInv ==
    /\ \A c \in SignIns :
          /\ helper[c] # "none" => signIn[c].provider \in Subscriptions
          /\ helper[c] \in {"stored", "listed", "succeeded"} => signIn[c].provider \in signedIn
          /\ helper[c] \in {"listed", "succeeded"} => signIn[c].provider \in listedIn
          /\ signIn[c].outcome = "connected" => live /\ helper[c] = "succeeded"
          /\ signIn[c].stage # "unused" => signIn[c].provider \in Subscriptions
    /\ \A v \in signedIn : \/ v \in listedIn
                           \/ \E c \in SignIns : /\ signIn[c].provider = v
                                                /\ helper[c] \in {"stored", "failed", "killed"}
    /\ card.shown \cup atStart.shown \subseteq signedIn
    /\ profileOf # Nobody => profileOf \in signedIn
    /\ place \in {"finishing", "open"} => profileOf \in signedIn

SignInInv == SignInTypeOK /\ GuardsInv /\ FlagInv /\ WrittenInv

\* What the guards are as sequences.
LEMMA GuardSequences ==
    /\ <<"login">> # <<"login", "child">> /\ <<"login">> # <<"child", "login">>
    /\ <<"login", "child">> # <<"child", "login">>
    /\ <<"login">> # <<>> /\ <<"login", "child">> # <<>> /\ <<"child", "login">> # <<>>
    /\ Append(<<"login">>, "child") = <<"login", "child">>
    /\ Len(<<"login">>) = 1 /\ Len(<<"login", "child">>) = 2 /\ Len(<<"child", "login">>) = 2
    /\ Head(<<"login">>) = "login" /\ Head(<<"child", "login">>) = "child"
    /\ Tail(<<"login">>) = <<>> /\ Tail(<<"child", "login">>) = <<"login">>
<1>1. /\ <<"login">> # <<"login", "child">> /\ <<"login">> # <<"child", "login">>
      /\ <<"login", "child">> # <<"child", "login">>
      /\ <<"login">> # <<>> /\ <<"login", "child">> # <<>> /\ <<"child", "login">> # <<>>
  OBVIOUS
<1>2. Append(<<"login">>, "child") = <<"login", "child">>
  <2> DEFINE S == {"login", "child"}
  <2>1. <<"login">> \in Seq(S) /\ "child" \in S /\ <<"login", "child">> \in Seq(S)
    OBVIOUS
  <2>2. Len(<<"login">>) = 1 /\ Len(<<"login", "child">>) = 2
    OBVIOUS
  <2>3. /\ Append(<<"login">>, "child") \in Seq(S) /\ Len(Append(<<"login">>, "child")) = 2
        /\ Append(<<"login">>, "child")[1] = "login" /\ Append(<<"login">>, "child")[2] = "child"
    BY <2>1, <2>2, AppendProperties
  <2>4. <<"login", "child">>[1] = "login" /\ <<"login", "child">>[2] = "child"
    OBVIOUS
  <2>5. \A i \in 1..2 : i = 1 \/ i = 2
    OBVIOUS
  <2>6. \A i \in 1..2 : Append(<<"login">>, "child")[i] = <<"login", "child">>[i]
    BY <2>3, <2>4, <2>5
  <2> HIDE DEF S
  <2> QED  BY <2>1, <2>2, <2>3, <2>6, SeqEqual
<1>3. /\ Len(<<"login">>) = 1 /\ Len(<<"login", "child">>) = 2 /\ Len(<<"child", "login">>) = 2
      /\ Head(<<"login">>) = "login" /\ Head(<<"child", "login">>) = "child"
  OBVIOUS
<1>4. Tail(<<"login">>) = <<>>
  OBVIOUS
<1>5. Tail(<<"child", "login">>) = <<"login">>
  OBVIOUS
<1> QED  BY <1>1, <1>2, <1>3, <1>4, <1>5

LEMMA SignInAtFirst == SignInInit => SignInInv
<1> SUFFICES ASSUME SignInInit PROVE SignInInv
  OBVIOUS
<1>1. SignInTypeOK
  <2>1. MaxCards \in Nat /\ 1 \in 0..MaxCards /\ 0 \in 0..MaxCards /\ 0 \in 0..MaxSignInFaults
    BY SignInAssumption
  <2>2. card \in [number : 0..MaxCards, phase : {"asking", "answered", "ready", "failed", "stuck"},
                 shown : SUBSET Subscriptions, waits : SignIns \cup {0}]
    BY <2>1 DEF SignInInit, NewCard
  <2>3. atStart \in [phase : {"asking", "answered", "ready"}, shown : SUBSET Subscriptions]
    BY DEF SignInInit
  <2>4. signIn = [c \in SignIns |-> Unused] /\ Unused \in
            [stage : {"unused", "begun", "launched", "listening", "leaving", "returned", "over"},
             provider : Subscriptions \cup {Nobody}, from : 0..MaxCards,
             outcome : {"none", "connected", "refused", "failed"},
             guards : {<<>>, <<"login">>, <<"child">>, <<"login", "child">>,
                       <<"child", "login">>}]
    BY <2>1 DEF SignInInit, Unused
  <2>5. /\ purpose \in {"choose", "add"} /\ place \in {"card", "elsewhere", "finishing", "open"}
        /\ profileOf \in Subscriptions \cup {Nobody}
        /\ loginActive \in BOOLEAN /\ loginProcess \in SignIns \cup {0}
        /\ helper \in [SignIns -> Helpers]
        /\ {signedIn, listedIn} \subseteq SUBSET Subscriptions
        /\ {live, appUp} \subseteq BOOLEAN /\ signInFaults \in 0..MaxSignInFaults
    BY <2>1 DEF SignInInit, Helpers
  <2> QED  BY <2>2, <2>3, <2>4, <2>5 DEF SignInTypeOK
<1>2. GuardsInv /\ FlagInv
  BY GuardSequences, SignInAssumption DEF SignInInit, GuardsInv, FlagInv, Unused, SignInUnderWay, SigningIn,
     InSlot, Alive
<1>3. WrittenInv
  BY DEF SignInInit, WrittenInv, NewCard, Unused, Nobody
<1> QED  BY <1>1, <1>2, <1>3 DEF SignInInv

\* What the operator does at the window without starting or ending a sign-in.
LEMMA WindowKeepsSignIns ==
    ASSUME SignInInv,
           \/ AppReadsStatuses \/ AppHasStatuses
           \/ OpenCard \/ CloseCard \/ StatusesAreRead \/ StatusesArrive \/ StatusesFail
           \/ ChooseWorkspace \/ FinishSetup
    PROVE  SignInInv'
<1> USE DEF AppReadsStatuses, AppHasStatuses, OpenCard, CloseCard, StatusesAreRead,
            StatusesArrive, StatusesFail, ChooseWorkspace, FinishSetup
<1>1. UNCHANGED loginVars /\ purpose' = purpose /\ profileOf' = profileOf
  OBVIOUS
<1>2. SignInTypeOK
  BY DEF SignInInv
<1>a. \/ card' = card
      \/ card.number < MaxCards /\ card' = NewCard(card.number + 1)
      \/ card' = [card EXCEPT !.phase = "answered", !.shown = signedIn]
      \/ card' = [card EXCEPT !.phase = "ready"]
      \/ card' = [card EXCEPT !.phase = "failed", !.shown = {}]
      \/ card' = [card EXCEPT !.phase = "stuck", !.shown = {}]
  OBVIOUS
<1>3. card' \in [number : 0..MaxCards, phase : {"asking", "answered", "ready", "failed", "stuck"},
                shown : SUBSET Subscriptions, waits : SignIns \cup {0}]
  <2> DEFINE Cards == [number : 0..MaxCards,
                       phase : {"asking", "answered", "ready", "failed", "stuck"},
                       shown : SUBSET Subscriptions, waits : SignIns \cup {0}]
  <2>1. card \in Cards /\ atStart.shown \in SUBSET Subscriptions
        /\ signedIn \in SUBSET Subscriptions
    BY <1>2 DEF SignInTypeOK
  <2>2. card.number < MaxCards => card.number + 1 \in 0..MaxCards
    BY <2>1, SignInAssumption
  <2>3. card.number < MaxCards => NewCard(card.number + 1) \in Cards
    BY <2>1, <2>2 DEF NewCard
  <2>5. card' \in Cards
    <3> HIDE DEF AppReadsStatuses, AppHasStatuses, OpenCard, CloseCard, StatusesAreRead,
                 StatusesArrive, StatusesFail, ChooseWorkspace, FinishSetup
    <3> QED  BY <1>a, <2>1, <2>3
  <2> QED  BY <2>5
<1>4. atStart' \in [phase : {"asking", "answered", "ready"}, shown : SUBSET Subscriptions]
  BY <1>2 DEF SignInTypeOK
<1>5. place' \in {"card", "elsewhere", "finishing", "open"}
  BY <1>2 DEF SignInTypeOK
<1>6. signInFaults' \in 0..MaxSignInFaults
  BY <1>2, SignInAssumption DEF SignInTypeOK, Fails
<1>7. SignInTypeOK'
  BY <1>1, <1>2, <1>3, <1>4, <1>5, <1>6 DEF SignInTypeOK, loginVars
<1>8. GuardsInv' /\ FlagInv'
  BY <1>1 DEF SignInInv, GuardsInv, FlagInv, loginVars, SignInUnderWay, InSlot, Alive
<1>9. card'.shown \cup atStart'.shown \subseteq signedIn
  <2>1. card.shown \cup atStart.shown \subseteq signedIn
    BY DEF SignInInv, WrittenInv
  <2>2. card'.shown = card.shown \/ card'.shown \subseteq signedIn
    <3>1. card \in [number : 0..MaxCards,
                    phase : {"asking", "answered", "ready", "failed", "stuck"},
                    shown : SUBSET Subscriptions, waits : SignIns \cup {0}]
      BY <1>2 DEF SignInTypeOK
    <3>2. NewCard(card.number + 1).shown \subseteq atStart.shown
      BY DEF NewCard
    <3> HIDE DEF AppReadsStatuses, AppHasStatuses, OpenCard, CloseCard, StatusesAreRead,
                 StatusesArrive, StatusesFail, ChooseWorkspace, FinishSetup
    <3> QED  BY <1>a, <2>1, <3>1, <3>2
  <2>3. atStart'.shown = atStart.shown \/ atStart'.shown = signedIn
    BY <1>2 DEF SignInTypeOK
  <2> QED  BY <2>1, <2>2, <2>3
<1>10. place' \in {"finishing", "open"} => profileOf \in signedIn
  BY DEF SignInInv, WrittenInv
<1>11. WrittenInv'
  BY <1>1, <1>9, <1>10 DEF SignInInv, WrittenInv, loginVars
<1> QED  BY <1>7, <1>8, <1>11 DEF SignInInv

SignInCommands ==
    [stage : {"unused", "begun", "launched", "listening", "leaving", "returned", "over"},
     provider : Subscriptions \cup {Nobody}, from : 0..MaxCards,
     outcome : {"none", "connected", "refused", "failed"},
     guards : {<<>>, <<"login">>, <<"child">>, <<"login", "child">>, <<"child", "login">>}]

\* What a step of the command c, or of its helper, leaves of the types, when it keeps the window.
LEMMA SignInTypesKept ==
    ASSUME SignInTypeOK, signIn' \in [SignIns -> SignInCommands], loginActive' \in BOOLEAN,
           loginProcess' \in SignIns \cup {0}, helper' \in [SignIns -> Helpers],
           signedIn' \in SUBSET Subscriptions, listedIn' \in SUBSET Subscriptions,
           live' \in BOOLEAN, appUp' \in BOOLEAN, signInFaults' = signInFaults \/ Fails,
           UNCHANGED cardVars
    PROVE  SignInTypeOK'
<1>1. signInFaults' \in 0..MaxSignInFaults
  BY SignInAssumption DEF SignInTypeOK, Fails
<1> QED  BY <1>1 DEF SignInTypeOK, cardVars, SignInCommands

\* The command of a sign-in breaks off, or comes to its end.
LEMMA LeavesAt ==
    ASSUME SignInInv, NEW c \in SignIns, NEW outcome \in {"connected", "failed"},
           signIn[c].stage \in {"begun", "listening"}, Leaves(c, outcome)
    PROVE  /\ signIn' \in [SignIns -> SignInCommands]
           /\ \A d \in SignIns : d # c => signIn'[d] = signIn[d]
           /\ signIn'[c].stage = "leaving" /\ signIn'[c].outcome = outcome
           /\ signIn'[c].provider = signIn[c].provider
           /\ signIn[c].stage = "begun" => signIn'[c].guards = <<"login">>
           /\ signIn[c].stage = "listening" => signIn'[c].guards = <<"child", "login">>
<1>1. signIn \in [SignIns -> SignInCommands]
  BY DEF SignInInv, SignInTypeOK, SignInCommands
<1> DEFINE g == IF Len(signIn[c].guards) = 2 THEN DropOrder ELSE signIn[c].guards
<1>2. /\ signIn[c].stage = "begun" => g = <<"login">>
      /\ signIn[c].stage = "listening" => g = <<"child", "login">>
  BY GuardSequences DEF SignInInv, GuardsInv, DropOrder
<1>3. signIn' = [signIn EXCEPT ![c].stage = "leaving", ![c].outcome = outcome, ![c].guards = g]
  BY <1>1 DEF Leaves
<1> HIDE DEF g
<1>4. g \in {<<"login">>, <<"child", "login">>}
  BY <1>2
<1>5. signIn' = [signIn EXCEPT ![c] = [@ EXCEPT !.stage = "leaving", !.outcome = outcome,
                                                !.guards = g]]
  BY <1>1, <1>3
<1>6. [signIn[c] EXCEPT !.stage = "leaving", !.outcome = outcome, !.guards = g]
          \in SignInCommands
  BY <1>1, <1>4 DEF SignInCommands
<1>7. signIn'[c] = [signIn[c] EXCEPT !.stage = "leaving", !.outcome = outcome, !.guards = g]
  BY <1>1, <1>5
<1>8. /\ signIn'[c].stage = "leaving" /\ signIn'[c].outcome = outcome
      /\ signIn'[c].provider = signIn[c].provider /\ signIn'[c].guards = g
  BY <1>1, <1>7 DEF SignInCommands
<1> QED  BY <1>1, <1>2, <1>5, <1>6, <1>8

LEMMA ConnectKeeps ==
    ASSUME SignInInv, NEW v \in Subscriptions, Connect(v)
    PROVE  SignInInv'
<1> USE DEF Connect
<1>1. SignInTypeOK /\ signIn \in [SignIns -> SignInCommands]
  BY DEF SignInInv, SignInTypeOK, SignInCommands
<1>2. CASE v \in card.shown
  <2>1. /\ UNCHANGED <<loginVars, card, purpose, atStart, signInFaults>>
        /\ profileOf' = v /\ place' \in {"elsewhere", "finishing"}
    BY <1>2 DEF TellsReady, loginVars, filesVars
  <2>2. SignInTypeOK'
    BY <1>1, <2>1 DEF SignInTypeOK, loginVars
  <2>3. GuardsInv' /\ FlagInv'
    BY <2>1 DEF SignInInv, GuardsInv, FlagInv, loginVars, SignInUnderWay, InSlot, Alive
  <2>4. v \in signedIn
    BY <1>2 DEF SignInInv, WrittenInv
  <2>5. WrittenInv'
    BY <2>1, <2>4 DEF SignInInv, WrittenInv, loginVars
  <2> QED  BY <2>2, <2>3, <2>5 DEF SignInInv
<1>3. CASE v \notin card.shown
  <2>1. PICK c \in SignIns :
            /\ signIn[c].stage = "unused" /\ card' = [card EXCEPT !.waits = c]
            /\ AcquireLogin(c, v) /\ UNCHANGED <<place, profileOf>>
    BY <1>3
  <2>2. UNCHANGED <<purpose, atStart, loginProcess, helper, filesVars, appUp, signInFaults>>
    OBVIOUS
  <2> DEFINE begun == [Unused EXCEPT !.stage = "begun", !.provider = v, !.from = card.number,
                                     !.guards = <<"login">>]
             refused == [Unused EXCEPT !.stage = "returned", !.provider = v,
                                       !.from = card.number, !.outcome = "refused"]
  <2>3. card.number \in 0..MaxCards /\ card' \in [number : 0..MaxCards,
            phase : {"asking", "answered", "ready", "failed", "stuck"},
            shown : SUBSET Subscriptions, waits : SignIns \cup {0}] /\ card'.shown = card.shown
    BY <1>1, <2>1 DEF SignInTypeOK
  <2>4. /\ begun \in SignInCommands /\ refused \in SignInCommands
        /\ begun.stage = "begun" /\ begun.provider = v /\ begun.guards = <<"login">>
        /\ begun.outcome = "none"
        /\ refused.stage = "returned" /\ refused.provider = v /\ refused.guards = <<>>
        /\ refused.outcome = "refused"
    BY <2>3 DEF SignInCommands, Unused
  <2>5. /\ signIn' = [signIn EXCEPT ![c] = IF loginActive THEN refused ELSE begun]
        /\ loginActive' = TRUE
    BY <1>1, <2>1 DEF AcquireLogin, SignInTypeOK
  <2> HIDE DEF begun, refused
  <2>6. /\ signIn' \in [SignIns -> SignInCommands]
        /\ signIn'[c] = IF loginActive THEN refused ELSE begun
        /\ \A d \in SignIns : d # c => signIn'[d] = signIn[d]
    BY <1>1, <2>4, <2>5
  <2>7. SignInTypeOK'
    BY <1>1, <2>1, <2>2, <2>3, <2>5, <2>6 DEF SignInTypeOK, SignInCommands, filesVars
  <2>8. helper[c] = "none" /\ signIn[c].guards = <<>> /\ ~SignInUnderWay(c)
    BY <2>1 DEF SignInInv, GuardsInv, SignInUnderWay, SigningIn
  <2>9. GuardsInv'
    BY <2>2, <2>4, <2>6, <2>8 DEF SignInInv, GuardsInv
  <2>10. FlagInv'
    <3>1. /\ ~InSlot(c) /\ ~InSlot(c)' /\ \A d \in SignIns : InSlot(d)' <=> InSlot(d)
      BY <2>1, <2>4, <2>6, <2>8, GuardSequences DEF InSlot
    <3>2. \A d \in SignIns : SignInUnderWay(d)' <=> (SignInUnderWay(d) \/ (d = c /\ ~loginActive))
      BY <2>4, <2>6, <2>8 DEF SignInUnderWay, SigningIn
    <3>3. \A d \in SignIns : (Alive(d)' <=> Alive(d)) /\ (d = c => ~Alive(d))
      BY <2>2, <2>8 DEF Alive
    <3> QED  BY <2>2, <2>5, <2>6, <3>1, <3>2, <3>3 DEF SignInInv, FlagInv
  <2>11. WrittenInv'
    <3>1. \A x \in signedIn : x \in listedIn \/ \E d \in SignIns :
              signIn'[d].provider = x /\ helper[d] \in {"stored", "failed", "killed"}
      <4> SUFFICES ASSUME NEW x \in signedIn, x \notin listedIn
                   PROVE  \E d \in SignIns : signIn'[d].provider = x
                                         /\ helper[d] \in {"stored", "failed", "killed"}
        OBVIOUS
      <4>1. PICK d \in SignIns : signIn[d].provider = x /\ helper[d] \in {"stored", "failed", "killed"}
        BY DEF SignInInv, WrittenInv
      <4> QED  BY <2>6, <2>8, <4>1
    <3>2. \A d \in SignIns :
              /\ helper[d] # "none" => signIn'[d].provider \in Subscriptions
              /\ helper[d] \in {"stored", "listed", "succeeded"} => signIn'[d].provider \in signedIn
              /\ helper[d] \in {"listed", "succeeded"} => signIn'[d].provider \in listedIn
              /\ signIn'[d].outcome = "connected" => live /\ helper[d] = "succeeded"
              /\ signIn'[d].stage # "unused" => signIn'[d].provider \in Subscriptions
      BY <2>4, <2>6, <2>8 DEF SignInInv, WrittenInv
    <3> QED  BY <2>1, <2>2, <2>3, <3>1, <3>2 DEF SignInInv, WrittenInv, filesVars
  <2> QED  BY <2>7, <2>9, <2>10, <2>11 DEF SignInInv
<1> QED  BY <1>2, <1>3

\* A step that leaves every provider, what the files hold and what is shown: the helpers that
\* store nothing more may end, and a command whose helper succeeded may say so.
LEMMA WrittenStays ==
    ASSUME SignInInv, UNCHANGED <<cardVars, signedIn, listedIn>>, live' \in {live, TRUE},
           \A d \in SignIns :
               /\ signIn'[d].provider = signIn[d].provider
               /\ signIn'[d].stage # "unused" => signIn[d].stage # "unused"
               /\ signIn'[d].outcome = "connected" =>
                     helper'[d] = "succeeded" /\ (signIn[d].outcome = "connected" \/ live')
               /\ helper'[d] = helper[d]
                  \/ (Alive(d) /\ helper'[d] \in {"failed", "killed"})
                  \/ (helper'[d] = "browser" /\ helper[d] = "none" /\ signIn[d].stage # "unused")
    PROVE  WrittenInv'
<1> USE DEF SignInInv, WrittenInv
<1>1. \A d \in SignIns :
          /\ helper'[d] # "none" => signIn'[d].provider \in Subscriptions
          /\ helper'[d] \in {"stored", "listed", "succeeded"} => signIn'[d].provider \in signedIn
          /\ helper'[d] \in {"listed", "succeeded"} => signIn'[d].provider \in listedIn
          /\ signIn'[d].outcome = "connected" => live' /\ helper'[d] = "succeeded"
          /\ signIn'[d].stage # "unused" => signIn'[d].provider \in Subscriptions
  <2> TAKE d \in SignIns
  <2>1. /\ helper[d] # "none" => signIn[d].provider \in Subscriptions
        /\ helper[d] \in {"stored", "listed", "succeeded"} => signIn[d].provider \in signedIn
        /\ helper[d] \in {"listed", "succeeded"} => signIn[d].provider \in listedIn
        /\ signIn[d].outcome = "connected" => live /\ helper[d] = "succeeded"
        /\ signIn[d].stage # "unused" => signIn[d].provider \in Subscriptions
    OBVIOUS
  <2>2. helper'[d] = helper[d] \/ (helper'[d] \in {"failed", "killed"} /\ helper[d] # "none")
        \/ (helper'[d] = "browser" /\ signIn[d].stage # "unused")
    BY DEF Alive
  <2> HIDE DEF SignInInv, WrittenInv
  <2> QED  BY <2>1, <2>2
<1>2. \A x \in signedIn : x \in listedIn \/ \E d \in SignIns :
          signIn'[d].provider = x /\ helper'[d] \in {"stored", "failed", "killed"}
  <2> SUFFICES ASSUME NEW x \in signedIn, x \notin listedIn
               PROVE  \E d \in SignIns : signIn'[d].provider = x
                                     /\ helper'[d] \in {"stored", "failed", "killed"}
    OBVIOUS
  <2>1. PICK d \in SignIns : signIn[d].provider = x /\ helper[d] \in {"stored", "failed", "killed"}
    OBVIOUS
  <2>2. signIn'[d].provider = x /\ helper'[d] \in {"stored", "failed", "killed"}
    BY <2>1
  <2> QED  BY <2>2
<1> QED  BY <1>1, <1>2 DEF cardVars

LEMMA AnswerKeeps ==
    ASSUME SignInInv, NEW c \in SignIns, SignInAnswered(c)
    PROVE  SignInInv'
<1> USE DEF SignInAnswered
<1> DEFINE v == signIn[c].provider
<1>1. SignInTypeOK /\ signIn \in [SignIns -> SignInCommands]
  BY DEF SignInInv, SignInTypeOK, SignInCommands
<1>2. /\ signIn' \in [SignIns -> SignInCommands]
      /\ \A d \in SignIns : d # c => signIn'[d] = signIn[d]
      /\ signIn'[c].stage = "over" /\ signIn'[c].outcome = signIn[c].outcome
      /\ signIn'[c].provider = v /\ signIn'[c].guards = signIn[c].guards
  BY <1>1 DEF SignInCommands
<1>3. /\ UNCHANGED <<purpose, atStart, loginActive, loginProcess, helper, filesVars, appUp,
                     signInFaults>>
      /\ signIn[c].stage = "returned"
  OBVIOUS
<1>4. v \in Subscriptions /\ (signIn[c].outcome = "connected" => v \in signedIn)
  BY <1>3 DEF SignInInv, WrittenInv
<1>5. card' \in [number : 0..MaxCards, phase : {"asking", "answered", "ready", "failed", "stuck"},
                shown : SUBSET Subscriptions, waits : SignIns \cup {0}]
  BY <1>1, <1>4 DEF SignInTypeOK
<1>6. card'.shown \subseteq card.shown \cup signedIn
  BY <1>1, <1>4 DEF SignInTypeOK
<1>7. \/ UNCHANGED <<place, profileOf>>
      \/ v \in signedIn /\ profileOf' = v /\ place' \in {"elsewhere", "finishing"}
      \/ place' = (IF place = "card" THEN "elsewhere" ELSE place) /\ UNCHANGED profileOf
  BY <1>4 DEF TellsReady
<1>8. SignInTypeOK'
  <2>1. place' \in {"card", "elsewhere", "finishing", "open"}
        /\ profileOf' \in Subscriptions \cup {Nobody}
    BY <1>1, <1>4, <1>7 DEF SignInTypeOK
  <2> HIDE DEF SignInAnswered
  <2> QED  BY <1>1, <1>2, <1>3, <1>5, <2>1 DEF SignInTypeOK, SignInCommands, filesVars
<1> HIDE DEF SignInAnswered
<1>9. GuardsInv'
  BY <1>2, <1>3 DEF SignInInv, GuardsInv
<1>10. FlagInv'
  <2>1. \A d \in SignIns : (SignInUnderWay(d)' <=> SignInUnderWay(d)) /\ (InSlot(d)' <=> InSlot(d))
                           /\ (Alive(d)' <=> Alive(d))
    BY <1>2, <1>3 DEF SignInUnderWay, SigningIn, InSlot, Alive
  <2>2. \A d \in SignIns : signIn[d].stage = "launched" => signIn'[d].stage = "launched"
    BY <1>2, <1>3
  <2> QED  BY <1>3, <2>1, <2>2 DEF SignInInv, FlagInv
<1>11. WrittenInv'
  <2>1. \A d \in SignIns : /\ signIn'[d].provider = signIn[d].provider
                           /\ signIn'[d].outcome = signIn[d].outcome
                           /\ signIn'[d].stage # "unused" => signIn[d].stage # "unused"
    BY <1>2, <1>3
  <2>2. profileOf' # Nobody => profileOf' \in signedIn
    BY <1>7 DEF SignInInv, WrittenInv
  <2>3. place' \in {"finishing", "open"} => profileOf' \in signedIn
    BY <1>7 DEF SignInInv, WrittenInv
  <2>4. card'.shown \cup atStart'.shown \subseteq signedIn
    BY <1>3, <1>6 DEF SignInInv, WrittenInv
  <2> QED  BY <1>3, <2>1, <2>2, <2>3, <2>4 DEF SignInInv, WrittenInv, filesVars
<1> QED  BY <1>8, <1>9, <1>10, <1>11 DEF SignInInv

LEMMA SpawnKeeps ==
    ASSUME SignInInv, NEW c \in SignIns, SpawnHelper(c)
    PROVE  SignInInv'
<1> USE DEF SpawnHelper
<1>1. SignInTypeOK /\ signIn \in [SignIns -> SignInCommands] /\ helper \in [SignIns -> Helpers]
  BY DEF SignInInv, SignInTypeOK, SignInCommands
<1>2. /\ UNCHANGED <<cardVars, loginActive, loginProcess, filesVars, appUp>>
      /\ signIn[c].stage = "begun" /\ appUp /\ helper[c] = "none"
      /\ signIn[c].guards = <<"login">>
  BY DEF SignInInv, GuardsInv
<1>3. CASE signIn' = [signIn EXCEPT ![c].stage = "launched"]
           /\ helper' = [helper EXCEPT ![c] = "browser"] /\ UNCHANGED signInFaults
  <2> HIDE DEF SpawnHelper
  <2>1. /\ signIn' \in [SignIns -> SignInCommands]
        /\ \A d \in SignIns : d # c => signIn'[d] = signIn[d] /\ helper'[d] = helper[d]
        /\ signIn'[c].stage = "launched" /\ signIn'[c].outcome = signIn[c].outcome
        /\ signIn'[c].provider = signIn[c].provider /\ signIn'[c].guards = <<"login">>
        /\ helper' \in [SignIns -> Helpers] /\ helper'[c] = "browser"
    BY <1>1, <1>2, <1>3 DEF SignInCommands, Helpers
  <2>2. SignInTypeOK'
    BY <1>1, <1>2, <1>3, <2>1, SignInTypesKept DEF SignInTypeOK, filesVars
  <2>3. GuardsInv'
    BY <2>1 DEF SignInInv, GuardsInv
  <2>4. FlagInv'
    <3>1. /\ \A d \in SignIns : (SignInUnderWay(d)' <=> SignInUnderWay(d)) /\ (InSlot(d)' <=> InSlot(d))
          /\ \A d \in SignIns : d # c => (Alive(d)' <=> Alive(d))
      BY <1>2, <2>1, GuardSequences DEF SignInUnderWay, SigningIn, InSlot, Alive
    <3> QED  BY <1>2, <2>1, <3>1 DEF SignInInv, FlagInv
  <2>5. signIn[c].outcome # "connected"
    BY <1>2 DEF SignInInv, WrittenInv
  <2>6. WrittenInv'
    BY <1>2, <2>1, <2>5, WrittenStays DEF filesVars, SignInInv, WrittenInv
  <2> QED  BY <2>2, <2>3, <2>4, <2>6 DEF SignInInv
<1>4. CASE Fails /\ Leaves(c, "failed") /\ UNCHANGED helper
  <2> HIDE DEF SpawnHelper
  <2>1. /\ signIn' \in [SignIns -> SignInCommands]
        /\ \A d \in SignIns : d # c => signIn'[d] = signIn[d]
        /\ signIn'[c].stage = "leaving" /\ signIn'[c].outcome = "failed"
        /\ signIn'[c].provider = signIn[c].provider /\ signIn'[c].guards = <<"login">>
    BY <1>2, <1>4, LeavesAt
  <2>2. SignInTypeOK'
    BY <1>1, <1>2, <1>4, <2>1, SignInTypesKept DEF SignInTypeOK, filesVars
  <2>3. GuardsInv'
    BY <1>4, <2>1 DEF SignInInv, GuardsInv
  <2>4. FlagInv'
    <3>1. \A d \in SignIns : /\ SignInUnderWay(d)' <=> SignInUnderWay(d)
                             /\ InSlot(d)' <=> InSlot(d)
                             /\ Alive(d)' <=> Alive(d)
                             /\ signIn[d].stage = "launched" => signIn'[d].stage = "launched"
      BY <1>2, <1>4, <2>1, GuardSequences DEF SignInUnderWay, SigningIn, InSlot, Alive
    <3> QED  BY <1>2, <3>1 DEF SignInInv, FlagInv
  <2>5. WrittenInv'
    BY <1>2, <1>4, <2>1, WrittenStays DEF filesVars, SignInInv, WrittenInv
  <2> QED  BY <2>2, <2>3, <2>4, <2>5 DEF SignInInv
<1> QED  BY <1>3, <1>4

\* A helper put into the slot finds it empty.
LEMMA HoldKillsNone ==
    ASSUME SignInInv, NEW c \in SignIns, HoldHelper(c)
    PROVE  helper' = helper
<1>1. helper \in [SignIns -> Helpers]
  BY DEF SignInInv, SignInTypeOK
<1>2. appUp /\ signIn[c].stage = "launched" /\ signIn[c].guards = <<"login">>
  BY DEF HoldHelper, SignInInv, GuardsInv
<1>3. ~InSlot(c) /\ SignInUnderWay(c)
  BY <1>2, GuardSequences DEF InSlot, SignInUnderWay, SigningIn
<1>4. \A d \in SignIns : d # loginProcess
  <2> SUFFICES ASSUME NEW d \in SignIns, d = loginProcess PROVE FALSE
    OBVIOUS
  <2>1. InSlot(d)
    BY <1>2 DEF SignInInv, FlagInv
  <2>2. SignInUnderWay(d)
    BY <2>1, GuardSequences DEF InSlot, SignInUnderWay, SigningIn, SignInInv, GuardsInv, SignInTypeOK
  <2> QED  BY <1>3, <2>1, <2>2 DEF SignInInv, FlagInv
<1> QED  BY <1>1, <1>4 DEF HoldHelper, KillsHeld

LEMMA HoldKeeps ==
    ASSUME SignInInv, NEW c \in SignIns, HoldHelper(c)
    PROVE  SignInInv'
<1>1. SignInTypeOK /\ signIn \in [SignIns -> SignInCommands] /\ helper \in [SignIns -> Helpers]
  BY DEF SignInInv, SignInTypeOK, SignInCommands
<1>2. /\ UNCHANGED <<cardVars, loginActive, filesVars, appUp, signInFaults, helper>>
      /\ signIn[c].stage = "launched" /\ appUp /\ loginProcess' = c
      /\ signIn[c].guards = <<"login">>
      /\ signIn' = [signIn EXCEPT ![c].stage = "listening", ![c].guards = Append(@, "child")]
  BY HoldKillsNone DEF HoldHelper, SignInInv, GuardsInv
<1>3. /\ signIn' \in [SignIns -> SignInCommands]
      /\ \A d \in SignIns : d # c => signIn'[d] = signIn[d]
      /\ signIn'[c].stage = "listening" /\ signIn'[c].outcome = signIn[c].outcome
      /\ signIn'[c].provider = signIn[c].provider /\ signIn'[c].guards = <<"login", "child">>
  <2>1. Append(signIn[c].guards, "child") = <<"login", "child">>
    BY <1>2, GuardSequences
  <2>2. signIn' = [signIn EXCEPT ![c] = [@ EXCEPT !.stage = "listening",
                                                  !.guards = <<"login", "child">>]]
    BY <1>1, <1>2, <2>1
  <2> DEFINE new == [signIn[c] EXCEPT !.stage = "listening", !.guards = <<"login", "child">>]
  <2>3. new \in SignInCommands /\ new.stage = "listening" /\ new.outcome = signIn[c].outcome
        /\ new.provider = signIn[c].provider /\ new.guards = <<"login", "child">>
    BY <1>1 DEF SignInCommands
  <2>4. signIn' = [signIn EXCEPT ![c] = new]
    BY <2>2
  <2> HIDE DEF new
  <2> QED  BY <1>1, <2>3, <2>4
<1>4. SignInTypeOK'
  BY <1>1, <1>2, <1>3, SignInTypesKept DEF SignInTypeOK, filesVars
<1>5. GuardsInv'
  BY <1>2, <1>3 DEF SignInInv, GuardsInv
<1>6. FlagInv'
  <2>1. \A d \in SignIns : /\ SignInUnderWay(d)' <=> SignInUnderWay(d)
                           /\ d # c => (InSlot(d)' <=> InSlot(d))
                           /\ Alive(d)' <=> Alive(d)
    BY <1>2, <1>3, GuardSequences DEF SignInUnderWay, SigningIn, InSlot, Alive
  <2>2. InSlot(c)' /\ ~InSlot(c)
    BY <1>2, <1>3, GuardSequences DEF InSlot
  <2>3. \A d \in SignIns : ~InSlot(d)
    <3> SUFFICES ASSUME NEW d \in SignIns, InSlot(d) PROVE FALSE
      OBVIOUS
    <3>1. SignInUnderWay(d) /\ SignInUnderWay(c)
      BY <1>2, GuardSequences DEF InSlot, SignInUnderWay, SigningIn, SignInInv, GuardsInv, SignInTypeOK
    <3> QED  BY <2>2, <3>1 DEF SignInInv, FlagInv
  <2> QED  BY <1>2, <1>3, <2>1, <2>2, <2>3 DEF SignInInv, FlagInv
<1>7. WrittenInv'
  BY <1>2, <1>3, WrittenStays DEF filesVars, SignInInv, WrittenInv
<1> QED  BY <1>4, <1>5, <1>6, <1>7 DEF SignInInv

LEMMA HelperEndedKeeps ==
    ASSUME SignInInv, NEW c \in SignIns, HelperEnded(c) \/ ListeningFails(c)
    PROVE  SignInInv'
<1>1. SignInTypeOK /\ signIn \in [SignIns -> SignInCommands] /\ helper \in [SignIns -> Helpers]
  BY DEF SignInInv, SignInTypeOK, SignInCommands
<1>2. PICK outcome \in {"connected", "failed"} :
          /\ Leaves(c, outcome)
          /\ outcome = "connected" => helper[c] = "succeeded" /\ live' = TRUE
  BY DEF HelperEnded, ListeningFails, WriteAdapter
<1>3. /\ UNCHANGED <<cardVars, loginActive, loginProcess, helper, signedIn, listedIn, appUp>>
      /\ signIn[c].stage = "listening" /\ live' \in {live, TRUE}
      /\ signInFaults' = signInFaults \/ Fails
  BY DEF HelperEnded, ListeningFails, WriteAdapter, filesVars
<1>4. /\ signIn' \in [SignIns -> SignInCommands]
      /\ \A d \in SignIns : d # c => signIn'[d] = signIn[d]
      /\ signIn'[c].stage = "leaving" /\ signIn'[c].outcome = outcome
      /\ signIn'[c].provider = signIn[c].provider /\ signIn'[c].guards = <<"child", "login">>
  BY <1>2, <1>3, LeavesAt
<1>5. SignInTypeOK'
  BY <1>1, <1>3, <1>4, SignInTypesKept DEF SignInTypeOK
<1>6. GuardsInv'
  BY <1>3, <1>4 DEF SignInInv, GuardsInv
<1>7. FlagInv'
  <2>1. \A d \in SignIns : /\ SignInUnderWay(d)' <=> SignInUnderWay(d)
                           /\ InSlot(d)' <=> InSlot(d)
                           /\ Alive(d)' <=> Alive(d)
                           /\ signIn[d].stage = "launched" => signIn'[d].stage = "launched"
    BY <1>3, <1>4, GuardSequences DEF SignInUnderWay, SigningIn, InSlot, Alive
  <2> QED  BY <1>3, <2>1 DEF SignInInv, FlagInv
<1>8. WrittenInv'
  <2>1. \A d \in SignIns :
            /\ signIn'[d].provider = signIn[d].provider
            /\ signIn'[d].stage # "unused" => signIn[d].stage # "unused"
            /\ signIn'[d].outcome = "connected" =>
                  helper'[d] = "succeeded" /\ (signIn[d].outcome = "connected" \/ live')
    BY <1>2, <1>3, <1>4 DEF SignInInv, WrittenInv
  <2> QED  BY <1>3, <2>1, WrittenStays
<1> QED  BY <1>5, <1>6, <1>7, <1>8 DEF SignInInv

\* The helper that a returning command kills is its own.
LEMMA DropKillsOwn ==
    ASSUME SignInInv, NEW c \in SignIns, DropGuard(c)
    PROVE  /\ signIn[c].guards \in {<<"login">>, <<"child", "login">>}
           /\ signIn[c].guards = <<"child", "login">> =>
                 loginProcess = c /\ loginProcess' = 0 /\ UNCHANGED loginActive /\ KillsHeld
           /\ signIn[c].guards = <<"login">> =>
                 loginActive' = FALSE /\ UNCHANGED <<helper, loginProcess>>
           /\ \A d \in SignIns : d # c => helper'[d] = helper[d]
           /\ helper'[c] = helper[c] \/ (Alive(c) /\ helper'[c] = "killed")
           /\ ~Alive(c)' /\ helper' \in [SignIns -> Helpers]
<1>1. helper \in [SignIns -> Helpers] /\ appUp /\ signIn[c].stage = "leaving"
  BY DEF SignInInv, SignInTypeOK, DropGuard
<1>2. signIn[c].guards \in {<<"login">>, <<"child", "login">>}
  BY <1>1 DEF SignInInv, GuardsInv
<1>3. CASE signIn[c].guards = <<"child", "login">>
  <2>1. loginProcess = c
    BY <1>1, <1>3 DEF SignInInv, FlagInv, InSlot
  <2>2. KillsHeld /\ loginProcess' = 0 /\ UNCHANGED loginActive
    BY <1>3, GuardSequences DEF DropGuard
  <2>3. /\ \A d \in SignIns : d # c => helper'[d] = helper[d]
        /\ helper'[c] = IF Alive(c) THEN "killed" ELSE helper[c]
        /\ helper' \in [SignIns -> Helpers]
    BY <1>1, <2>1, <2>2 DEF KillsHeld, Helpers
  <2>4. helper'[c] = helper[c] \/ (Alive(c) /\ helper'[c] = "killed")
    BY <2>3
  <2>5. ~Alive(c)'
    BY <2>3 DEF Alive
  <2> QED  BY <1>3, <2>1, <2>2, <2>3, <2>4, <2>5, GuardSequences
<1>4. CASE signIn[c].guards = <<"login">>
  <2>1. loginActive' = FALSE /\ UNCHANGED <<helper, loginProcess>>
    BY <1>4, GuardSequences DEF DropGuard
  <2>2. ~InSlot(c)
    BY <1>1, <1>4, GuardSequences DEF InSlot
  <2>3. ~Alive(c)
    BY <1>1, <2>2 DEF SignInInv, FlagInv
  <2>4. ~Alive(c)'
    BY <2>1, <2>3 DEF Alive
  <2> QED  BY <1>1, <1>4, <2>1, <2>4, GuardSequences
<1> QED  BY <1>2, <1>3, <1>4

LEMMA DropKeeps ==
    ASSUME SignInInv, NEW c \in SignIns, DropGuard(c)
    PROVE  SignInInv'
<1>1. SignInTypeOK /\ signIn \in [SignIns -> SignInCommands] /\ helper \in [SignIns -> Helpers]
  BY DEF SignInInv, SignInTypeOK, SignInCommands
<1>2. /\ UNCHANGED <<cardVars, filesVars, appUp, signInFaults>>
      /\ signIn[c].stage = "leaving" /\ appUp
  BY DEF DropGuard
<1> DEFINE g == IF signIn[c].guards = <<"login">> THEN <<>> ELSE <<"login">>
           st == IF signIn[c].guards = <<"login">> THEN "returned" ELSE "leaving"
<1>3. signIn' = [signIn EXCEPT ![c].guards = g, ![c].stage = st]
  <2>1. signIn' = [signIn EXCEPT ![c].guards = Tail(@),
                                 ![c].stage = IF Len(signIn[c].guards) = 1 THEN "returned" ELSE @]
    BY DEF DropGuard
  <2>2. CASE signIn[c].guards = <<"login">>
    BY <1>1, <2>1, <2>2, GuardSequences
  <2>3. CASE signIn[c].guards = <<"child", "login">>
    <3>1. Tail(signIn[c].guards) = <<"login">> /\ Len(signIn[c].guards) # 1
          /\ signIn[c].guards # <<"login">>
      BY <2>3, GuardSequences
    <3> QED  BY <1>1, <1>2, <2>1, <3>1
  <2> QED  BY <2>2, <2>3, DropKillsOwn
<1>4. /\ signIn' \in [SignIns -> SignInCommands]
      /\ \A d \in SignIns : d # c => signIn'[d] = signIn[d]
      /\ signIn'[c].stage = st /\ signIn'[c].outcome = signIn[c].outcome
      /\ signIn'[c].provider = signIn[c].provider /\ signIn'[c].guards = g
  <2>1. g \in {<<>>, <<"login">>} /\ st \in {"returned", "leaving"}
    OBVIOUS
  <2> HIDE DEF g, st
  <2> DEFINE new == [signIn[c] EXCEPT !.guards = g, !.stage = st]
  <2>2. new \in SignInCommands /\ new.stage = st /\ new.outcome = signIn[c].outcome
        /\ new.provider = signIn[c].provider /\ new.guards = g
    BY <1>1, <2>1 DEF SignInCommands
  <2>3. signIn' = [signIn EXCEPT ![c] = new]
    BY <1>1, <1>3
  <2> HIDE DEF new
  <2> QED  BY <1>1, <2>2, <2>3
<1>5. SignInTypeOK'
  <2>1. loginActive' \in BOOLEAN /\ loginProcess' \in SignIns \cup {0}
    BY <1>1, DropKillsOwn DEF SignInTypeOK
  <2> QED  BY <1>1, <1>2, <1>4, <2>1, DropKillsOwn, SignInTypesKept DEF SignInTypeOK, filesVars
<1>6. WrittenInv'
  <2>1. \A d \in SignIns :
            /\ signIn'[d].provider = signIn[d].provider
            /\ signIn'[d].outcome = signIn[d].outcome
            /\ signIn'[d].stage # "unused" => signIn[d].stage # "unused"
            /\ helper'[d] = helper[d] \/ (Alive(d) /\ helper'[d] \in {"failed", "killed"})
    BY <1>2, <1>4, DropKillsOwn
  <2>2. \A d \in SignIns : signIn[d].outcome = "connected" => helper'[d] = "succeeded"
    BY <2>1 DEF SignInInv, WrittenInv, Alive
  <2> QED  BY <1>2, <2>1, <2>2, WrittenStays DEF filesVars
<1>7. SignInUnderWay(c) /\ \A d \in SignIns : SignInUnderWay(d) => d = c
  BY <1>2 DEF SignInUnderWay, SigningIn, SignInInv, FlagInv
<1>8. CASE signIn[c].guards = <<"child", "login">>
  <2>1. g = <<"login">> /\ st = "leaving"
    BY <1>8, GuardSequences
  <2>2. loginProcess = c /\ loginProcess' = 0 /\ UNCHANGED loginActive
    BY <1>8, DropKillsOwn
  <2>3. GuardsInv'
    <3>1. \A d \in SignIns : d # c => helper'[d] = helper[d] /\ signIn'[d] = signIn[d]
      BY <1>4, DropKillsOwn
    <3>2. signIn'[c].stage = "leaving" /\ signIn'[c].guards = <<"login">>
      BY <1>4, <2>1
    <3> QED  BY <3>1, <3>2 DEF SignInInv, GuardsInv
  <2>4. \A d \in SignIns : ~InSlot(d)'
    BY <1>2, <1>4, <2>1, <2>2, GuardSequences DEF InSlot, SignInInv, FlagInv
  <2>5. \A d \in SignIns : SignInUnderWay(d)' <=> SignInUnderWay(d)
    BY <1>2, <1>4, <2>1 DEF SignInUnderWay, SigningIn
  <2>6. \A d \in SignIns : ~Alive(d)'
    <3> SUFFICES ASSUME NEW d \in SignIns, d # c PROVE ~Alive(d)'
      BY DropKillsOwn
    <3>1. signIn[d].stage # "launched" /\ ~InSlot(d)
      BY <1>2, <1>7, <2>2 DEF SignInUnderWay, SigningIn, SignInInv, FlagInv
    <3>2. ~Alive(d)
      BY <3>1 DEF SignInInv, FlagInv
    <3> QED  BY <3>2, DropKillsOwn DEF Alive
  <2>7. \A d \in SignIns : loginProcess' # d
    BY <2>2, SignInAssumption
  <2>8. FlagInv'
    BY <1>2, <2>2, <2>4, <2>5, <2>6, <2>7 DEF SignInInv, FlagInv
  <2> QED  BY <1>5, <1>6, <2>3, <2>8 DEF SignInInv
<1>9. CASE signIn[c].guards = <<"login">>
  <2>1. g = <<>> /\ st = "returned"
    BY <1>9
  <2>2. loginActive' = FALSE /\ UNCHANGED <<helper, loginProcess>>
    BY <1>9, DropKillsOwn
  <2>3. GuardsInv'
    BY <1>4, <2>1, <2>2 DEF SignInInv, GuardsInv
  <2>4. \A d \in SignIns : InSlot(d)' <=> InSlot(d)
    BY <1>2, <1>4, <1>9, <2>1, GuardSequences DEF InSlot
  <2>5. \A d \in SignIns : ~SignInUnderWay(d)'
    BY <1>4, <1>7, <2>1 DEF SignInUnderWay, SigningIn
  <2>6. \A d \in SignIns : Alive(d)' => Alive(d) /\ d # c
    BY <2>2, DropKillsOwn DEF Alive
  <2>7. FlagInv'
    BY <1>2, <1>4, <2>2, <2>4, <2>5, <2>6 DEF SignInInv, FlagInv
  <2> QED  BY <1>5, <1>6, <2>3, <2>7 DEF SignInInv
<1> QED  BY <1>8, <1>9, DropKillsOwn

LEMMA HelperKeeps ==
    ASSUME SignInInv, NEW c \in SignIns, HelperGoesOn(c) \/ HelperFails(c)
    PROVE  SignInInv'
<1>1. SignInTypeOK /\ signIn \in [SignIns -> SignInCommands] /\ helper \in [SignIns -> Helpers]
  BY DEF SignInInv, SignInTypeOK, SignInCommands
<1>2. /\ UNCHANGED <<cardVars, signIn, loginActive, loginProcess, live, appUp>>
      /\ Alive(c) /\ helper' = [helper EXCEPT ![c] = helper'[c]]
      /\ helper'[c] \in {"stored", "listed", "succeeded", "failed"}
      /\ signInFaults' = signInFaults \/ Fails
  BY <1>1 DEF HelperGoesOn, HelperFails, Alive, filesVars
<1>3. helper' \in [SignIns -> Helpers] /\ \A d \in SignIns : d # c => helper'[d] = helper[d]
  <2> DEFINE h == helper'[c]
  <2>1. h \in Helpers /\ helper' = [helper EXCEPT ![c] = h]
    BY <1>2 DEF Helpers
  <2> HIDE DEF h
  <2> QED  BY <1>1, <2>1
<1> DEFINE v == signIn[c].provider
<1>4. helper[c] # "none" /\ v \in Subscriptions
  BY <1>2 DEF Alive, SignInInv, WrittenInv
<1>5. \/ /\ helper[c] = "browser" /\ helper'[c] = "stored"
         /\ signedIn' = signedIn \cup {v} /\ UNCHANGED listedIn
      \/ /\ helper[c] = "stored" /\ helper'[c] = "listed"
         /\ listedIn' = listedIn \cup {v} /\ UNCHANGED signedIn
      \/ /\ helper[c] = "listed" /\ helper'[c] = "succeeded" /\ UNCHANGED <<signedIn, listedIn>>
      \/ /\ Alive(c) /\ helper'[c] = "failed" /\ UNCHANGED <<signedIn, listedIn>>
  BY <1>1 DEF HelperGoesOn, HelperFails, SaveProfile, filesVars
<1>6. /\ signedIn' \in SUBSET Subscriptions /\ listedIn' \in SUBSET Subscriptions
      /\ signedIn \subseteq signedIn' /\ listedIn \subseteq listedIn'
      /\ signedIn' \subseteq signedIn \cup {v}
  BY <1>1, <1>4, <1>5 DEF SignInTypeOK
<1>7. SignInTypeOK'
  BY <1>1, <1>2, <1>3, <1>6, SignInTypesKept DEF SignInTypeOK
<1>8. GuardsInv'
  BY <1>2, <1>3, <1>4 DEF SignInInv, GuardsInv
<1>9. FlagInv'
  <2>1. \A d \in SignIns : Alive(d)' => Alive(d)
    BY <1>2, <1>3 DEF Alive
  <2> QED  BY <1>2, <2>1 DEF SignInInv, FlagInv, SignInUnderWay, InSlot
<1>10. \A d \in SignIns :
          /\ helper'[d] # "none" => signIn[d].provider \in Subscriptions
          /\ helper'[d] \in {"stored", "listed", "succeeded"} => signIn[d].provider \in signedIn'
          /\ helper'[d] \in {"listed", "succeeded"} => signIn[d].provider \in listedIn'
          /\ signIn[d].outcome = "connected" => live /\ helper'[d] = "succeeded"
          /\ signIn[d].stage # "unused" => signIn[d].provider \in Subscriptions
  <2> TAKE d \in SignIns
  <2>1. /\ helper[d] # "none" => signIn[d].provider \in Subscriptions
        /\ helper[d] \in {"stored", "listed", "succeeded"} => signIn[d].provider \in signedIn
        /\ helper[d] \in {"listed", "succeeded"} => signIn[d].provider \in listedIn
        /\ signIn[d].outcome = "connected" => live /\ helper[d] = "succeeded"
        /\ signIn[d].stage # "unused" => signIn[d].provider \in Subscriptions
    BY DEF SignInInv, WrittenInv
  <2>2. CASE d # c
    BY <1>3, <1>6, <2>1, <2>2
  <2>3. CASE d = c
    BY <1>2, <1>4, <1>5, <1>6, <2>1, <2>3 DEF Alive
  <2> QED  BY <2>2, <2>3
<1>11. \A x \in signedIn' : x \in listedIn' \/ \E d \in SignIns :
           signIn[d].provider = x /\ helper'[d] \in {"stored", "failed", "killed"}
  <2> SUFFICES ASSUME NEW x \in signedIn', x \notin listedIn'
               PROVE  \E d \in SignIns : signIn[d].provider = x
                                     /\ helper'[d] \in {"stored", "failed", "killed"}
    OBVIOUS
  <2>1. CASE x \in signedIn
    <3>1. PICK d \in SignIns :
              signIn[d].provider = x /\ helper[d] \in {"stored", "failed", "killed"}
      BY <1>6, <2>1 DEF SignInInv, WrittenInv
    <3>2. d = c => helper'[c] = "failed"
      BY <1>2, <1>5, <3>1 DEF Alive
    <3> QED  BY <1>3, <3>1, <3>2
  <2>2. CASE x \notin signedIn
    <3>1. x = v /\ helper'[c] = "stored"
      BY <1>5, <2>2
    <3> QED  BY <3>1
  <2> QED  BY <2>1, <2>2
<1>12. WrittenInv'
  BY <1>2, <1>6, <1>10, <1>11 DEF SignInInv, WrittenInv, cardVars
<1> QED  BY <1>7, <1>8, <1>9, <1>12 DEF SignInInv

LEMMA ExitKeeps ==
    ASSUME SignInInv, ExitApp
    PROVE  SignInInv'
<1>1. SignInTypeOK /\ signIn \in [SignIns -> SignInCommands] /\ helper \in [SignIns -> Helpers]
  BY DEF SignInInv, SignInTypeOK, SignInCommands
<1>2. /\ UNCHANGED <<cardVars, signIn, loginActive, filesVars, signInFaults>>
      /\ appUp /\ appUp' = FALSE /\ loginProcess' = 0
  BY DEF ExitApp
<1>3. /\ helper' \in [SignIns -> Helpers]
      /\ \A d \in SignIns : helper'[d] = IF d = loginProcess /\ Alive(d) THEN "killed" ELSE helper[d]
  BY <1>1 DEF ExitApp, KillsHeld, Helpers
<1>4. SignInTypeOK'
  BY <1>1, <1>2, <1>3, SignInTypesKept DEF SignInTypeOK, filesVars
<1>5. GuardsInv'
  BY <1>2, <1>3 DEF SignInInv, GuardsInv, Alive
<1>6. FlagInv'
  <2>1. \A d \in SignIns : Alive(d)' => signIn[d].stage = "launched"
    <3> SUFFICES ASSUME NEW d \in SignIns, Alive(d)' PROVE signIn[d].stage = "launched"
      OBVIOUS
    <3>1. d # loginProcess /\ Alive(d)
      BY <1>3 DEF Alive
    <3> QED  BY <1>2, <3>1 DEF SignInInv, FlagInv
  <2> QED  BY <1>2, <2>1 DEF SignInInv, FlagInv, SignInUnderWay
<1>7. WrittenInv'
  <2>1. \A d \in SignIns :
            /\ helper'[d] = helper[d] \/ (Alive(d) /\ helper'[d] \in {"failed", "killed"})
            /\ signIn[d].outcome = "connected" => helper'[d] = "succeeded"
    BY <1>3 DEF SignInInv, WrittenInv, Alive
  <2> QED  BY <1>2, <2>1, WrittenStays DEF filesVars
<1> QED  BY <1>4, <1>5, <1>6, <1>7 DEF SignInInv

LEMMA SignInStep == SignInInv /\ [SignInNext]_signInVars => SignInInv'
<1>1. CASE SignInInv /\ SignInNext
  BY <1>1, WindowKeepsSignIns, ConnectKeeps, AnswerKeeps, SpawnKeeps, HoldKeeps,
     HelperEndedKeeps, DropKeeps, HelperKeeps, ExitKeeps DEF SignInNext
<1>2. CASE SignInInv /\ UNCHANGED signInVars
  BY <1>2 DEF signInVars, SignInInv, SignInTypeOK, GuardsInv, FlagInv, WrittenInv,
              SignInUnderWay, InSlot, Alive
<1> QED  BY <1>1, <1>2

\* The type invariant of the sign-ins holds in every behaviour.
THEOREM SignInTypesHold == SignInSpec => []SignInTypeOK
<1>1. SignInInv => SignInTypeOK
  BY DEF SignInInv
<1> QED  BY <1>1, SignInAtFirst, SignInStep, PTL DEF SignInSpec

\* A set of which any two members are the same has one member at most.
LEMMA AtMostOne ==
    ASSUME NEW S, \A x, y \in S : x = y
    PROVE  Cardinality(S) <= 1
<1>1. CASE S = {}
  BY <1>1, FS_EmptySet
<1>2. CASE S # {}
  <2>1. PICK x \in S : S = {x}
    BY <1>2
  <2> QED  BY <2>1, FS_Singleton
<1> QED  BY <1>1, <1>2

\* One sign-in and one helper at a time, no helper left behind but one just started, what is
\* shown connected is stored, and no command kills a helper but its own.
THEOREM SignInStaysTrue == SignInSpec => SignInIsTrue
<1>1. SignInInv => OneSignIn /\ NoneLeftBehind /\ ConnectedIsUsable
  <2> SUFFICES ASSUME SignInInv PROVE OneSignIn /\ NoneLeftBehind /\ ConnectedIsUsable
    OBVIOUS
  <2>1. \A c \in SignIns : Alive(c) => SignInUnderWay(c)
    BY GuardSequences DEF SignInInv, FlagInv, GuardsInv, InSlot, SignInUnderWay, SigningIn, SignInTypeOK
  <2>2. OneSignIn
    <3> DEFINE underWay == {c \in SignIns : SignInUnderWay(c)}
               alive == {c \in SignIns : Alive(c)}
    <3>1. \A x, y \in underWay : x = y
      BY DEF SignInInv, FlagInv
    <3>2. \A x, y \in alive : x = y
      BY <2>1, <3>1
    <3>3. loginActive => underWay # {}
      BY DEF SignInInv, FlagInv
    <3>4. Cardinality(underWay) <= 1 /\ Cardinality(alive) <= 1
      <4> HIDE DEF underWay, alive
      <4> QED  BY <3>1, <3>2, AtMostOne
    <3> QED  BY <3>3, <3>4 DEF OneSignIn, SignInUnderWay, SigningIn
  <2>3. NoneLeftBehind
    BY DEF NoneLeftBehind, SignInInv, FlagInv
  <2>4. ConnectedIsUsable
    BY DEF ConnectedIsUsable, SignInInv, WrittenInv
  <2> QED  BY <2>2, <2>3, <2>4
<1> DEFINE KillsOwn == \A c \in SignIns :
                Alive(c) /\ helper'[c] = "killed" => signIn[c].stage = "leaving" \/ ~appUp'
<1>2. SignInInv /\ [SignInNext]_signInVars => [KillsOwn]_signInVars
  <2> SUFFICES ASSUME SignInInv, SignInNext, NEW c \in SignIns, Alive(c), helper'[c] = "killed",
                      appUp'
               PROVE  signIn[c].stage = "leaving"
    OBVIOUS
  <2>1. helper[c] # "killed" /\ helper \in [SignIns -> Helpers]
    BY DEF Alive, SignInInv, SignInTypeOK
  <2>2. PICK d \in SignIns : DropGuard(d)
    <3>1. \A d \in SignIns : ~HoldHelper(d)
      BY <2>1, HoldKillsNone
    <3> QED  BY <2>1, <3>1 DEF SignInNext, AppReadsStatuses, AppHasStatuses, OpenCard, CloseCard, StatusesAreRead,
            StatusesArrive, StatusesFail, ChooseWorkspace, FinishSetup, ExitApp, Connect,
            SignInAnswered, SpawnHelper, HelperEnded, ListeningFails, HelperGoesOn, HelperFails,
            loginVars
  <2>3. d = c
    BY <2>1, <2>2, DropKillsOwn
  <2> QED  BY <2>2, <2>3 DEF DropGuard
<1>3. SignInSpec => []SignInInv
  BY SignInAtFirst, SignInStep, PTL DEF SignInSpec
<1>4. SignInSpec => [][KillsOwn]_signInVars
  <2> HIDE DEF KillsOwn
  <2> QED  BY <1>2, <1>3, PTL DEF SignInSpec
<1> QED  BY <1>1, <1>3, <1>4, PTL DEF SignInIsTrue

-----------------------------------------------------------------------------
(* The commands of the CLI                                                 *)

IsAlive(p) == proc[p].state \in {"starting", "up"}

\* The step is one of the first task.
StepFits(t) ==
    IF cli[t].todo = <<>> THEN cli[t].step = "none"
    ELSE /\ Head(cli[t].todo).op = "start" => cli[t].step \in {"probe", "start", "save", "wait"}
         /\ Head(cli[t].todo).op = "stop" => cli[t].step \in {"stop", "forget"}
         /\ Head(cli[t].todo).op \in {"confirm", "clear"} => cli[t].step = Head(cli[t].todo).op
         /\ cli[t].step \in {"probe", "wait"} => Of(t) \in Probed

\* Records name processes that were spawned for their service.
RecordsFit(r, procs) ==
    \A s \in ServiceNames : r[s] # 0 => procs[r[s]].svc = s /\ procs[r[s]].state # "absent"

\* What a step read is not what it is about to overwrite, unless that process ended or is ending.
StepIsSound(t) ==
    /\ StepFits(t) /\ RecordsFit(cli[t].seen, proc)
    /\ At(t, "save") => /\ cli[t].pid \in Pids /\ proc[cli[t].pid].svc = Of(t)
                        /\ proc[cli[t].pid].state # "absent"
    /\ (At(t, "save") \/ At(t, "forget")) /\ cli[t].seen[Of(t)] # 0 =>
           ~IsAlive(cli[t].seen[Of(t)])

RecordsInv == RecordsFit(records, proc) /\ \A t \in Terminals : StepIsSound(t)

\* Nothing but the quiet command runs.
QuietInv ==
    \A t, u \in Terminals : quiet[t] /\ InCommand(t) /\ InCommand(u) => t = u

\* A service that a command has started: one with a probe has come up.
Serves(s) == \E p \in Pids : proc[p].svc = s /\ IsAlive(p) /\ (s \in Probed => proc[p].state = "up")

StartsLater(t, s) == \E j \in 1..Len(cli[t].todo) : cli[t].todo[j] = Task("start", s)

\* What a quiet command that ends with all services started stops it starts later; what it has
\* started runs, but where it was deceived.
OnTheWay(t) ==
    /\ \A i \in 1..Len(cli[t].todo) : cli[t].todo[i].op = "stop" =>
          \A s \in ServiceNames : \E j \in 1..Len(cli[t].todo) :
              j > i /\ cli[t].todo[j] = Task("start", s)
    /\ \A s \in ServiceNames : s \in deceived[t] \/ StartsLater(t, s) \/ Serves(s)
    /\ At(t, "save") /\ Of(t) \notin Probed => IsAlive(cli[t].pid)

Starting == {"start", "restart", "repair"}

TruthInv == \A t \in Terminals : quiet[t] /\ InCommand(t) /\ cli[t].name \in Starting => OnTheWay(t)

ControlInv ==
    /\ ControlTypeOK /\ RecordsInv /\ QuietInv /\ TruthInv
    /\ EveryProcessIsKnown /\ WipesNothingInUse

LEMMA PidNumbers ==
    /\ MaxPids \in Nat /\ MaxCommands \in Nat /\ 0 \in 0..MaxPids /\ 0 \in 0..MaxCommands
    /\ \A p \in Pids : p \in 0..MaxPids /\ p # 0
    /\ \A p \in 0..MaxPids : p # 0 => p \in Pids
BY ControlAssumption DEF Pids

\* The lists of tasks: to start all services, to stop them all.
LEMMA TaskLists ==
    /\ StartAll \in Seq(Tasks) /\ StopAll \in Seq(Tasks)
    /\ Len(StartAll) = Len(StartOrder) /\ Len(StopAll) = Len(StartOrder)
    /\ \A i \in 1..Len(StartAll) : StartAll[i].op = "start"
    /\ \A i \in 1..Len(StopAll) : StopAll[i].op = "stop"
    /\ \A s \in ServiceNames : \E i \in 1..Len(StartAll) : StartAll[i] = Task("start", s)
<1>1. /\ Len(StartOrder) \in Nat /\ DOMAIN StartOrder = 1..Len(StartOrder)
      /\ \A i \in 1..Len(StartOrder) : StartOrder[i] \in ServiceNames
      /\ \A i \in 1..Len(StartOrder) : Len(StartOrder) + 1 - i \in 1..Len(StartOrder)
  BY ControlAssumption
<1>2. \A s \in ServiceNames : Task("start", s) \in Tasks /\ Task("stop", s) \in Tasks
  BY DEF Task, Tasks
<1>3. StartAll = [i \in 1..Len(StartOrder) |-> Task("start", StartOrder[i])]
  BY <1>1 DEF StartAll
<1>4. StopAll = [i \in 1..Len(StartOrder) |-> Task("stop", StartOrder[Len(StartOrder) + 1 - i])]
  BY <1>1 DEF StopAll
<1>5. StartAll \in [1..Len(StartOrder) -> Tasks] /\ StopAll \in [1..Len(StartOrder) -> Tasks]
  BY <1>1, <1>2, <1>3, <1>4
<1>6. /\ StartAll \in Seq(Tasks) /\ StopAll \in Seq(Tasks)
      /\ Len(StartAll) = Len(StartOrder) /\ Len(StopAll) = Len(StartOrder)
  BY <1>1, <1>5
<1>7. /\ \A i \in 1..Len(StartAll) : StartAll[i].op = "start"
      /\ \A i \in 1..Len(StopAll) : StopAll[i].op = "stop"
  BY <1>3, <1>4, <1>6 DEF Task
<1>8. ASSUME NEW s \in ServiceNames
      PROVE  \E i \in 1..Len(StartAll) : StartAll[i] = Task("start", s)
  <2>1. PICK i \in 1..Len(StartOrder) : StartOrder[i] = s
    BY <1>1, ControlAssumption
  <2> QED  BY <1>3, <1>6, <2>1
<1> QED  BY <1>6, <1>7, <1>8

\* A command that ends with all services started starts each after what it stops.
LEMMA StepsAreTasks ==
    ASSUME NEW name \in Names
    PROVE  /\ StepsOf(name) \in Seq(Tasks)
           /\ name \in Starting =>
                 /\ \A s \in ServiceNames :
                       \E j \in 1..Len(StepsOf(name)) : StepsOf(name)[j] = Task("start", s)
                 /\ \A i \in 1..Len(StepsOf(name)) : StepsOf(name)[i].op = "stop" =>
                       \A s \in ServiceNames : \E j \in 1..Len(StepsOf(name)) :
                           j > i /\ StepsOf(name)[j] = Task("start", s)
<1>1. \A S, T \in Seq(Tasks) : S \o T \in Seq(Tasks)
  BY ConcatProperties
<1>2. Task("clear", "all") \in Tasks /\ Task("confirm", "all") \in Tasks
  BY DEF Task, Tasks
<1>3. <<Task("clear", "all")>> \in Seq(Tasks)
      /\ <<Task("confirm", "all"), Task("clear", "all")>> \in Seq(Tasks)
      /\ Len(<<Task("clear", "all")>>) = 1
  BY <1>2
<1>4. StepsOf(name) \in Seq(Tasks)
  BY <1>1, <1>3, TaskLists DEF StepsOf, Names
<1> DEFINE Fine(L) ==
        /\ \A s \in ServiceNames : \E j \in 1..Len(L) : L[j] = Task("start", s)
        /\ \A i \in 1..Len(L) : L[i].op = "stop" =>
              \A s \in ServiceNames : \E j \in 1..Len(L) : j > i /\ L[j] = Task("start", s)
<1>5. ASSUME NEW S \in Seq(Tasks) PROVE Fine(S \o StartAll)
  <2>1. /\ Len(S \o StartAll) = Len(S) + Len(StartAll) /\ Len(S) \in Nat /\ Len(StartAll) \in Nat
        /\ \A j \in 1..Len(StartAll) : (S \o StartAll)[Len(S) + j] = StartAll[j]
    <3>1. /\ Len(S \o StartAll) = Len(S) + Len(StartAll) /\ Len(S) \in Nat /\ Len(StartAll) \in Nat
          /\ \A i \in 1..(Len(S) + Len(StartAll)) :
                (S \o StartAll)[i] = IF i <= Len(S) THEN S[i] ELSE StartAll[i - Len(S)]
      <4>1. StartAll \in Seq(Tasks)
        BY TaskLists
      <4> QED  BY <4>1, ConcatProperties, LenProperties
    <3>2. \A j \in 1..Len(StartAll) : /\ Len(S) + j \in 1..(Len(S) + Len(StartAll))
                                     /\ ~(Len(S) + j <= Len(S)) /\ Len(S) + j - Len(S) = j
      BY <3>1
    <3> QED  BY <3>1, <3>2
  <2>2. \A s \in ServiceNames : \E j \in 1..Len(S \o StartAll) :
            j > Len(S) /\ (S \o StartAll)[j] = Task("start", s)
    <3> SUFFICES ASSUME NEW s \in ServiceNames
                 PROVE  \E j \in 1..Len(S \o StartAll) :
                            j > Len(S) /\ (S \o StartAll)[j] = Task("start", s)
      OBVIOUS
    <3>1. PICK k \in 1..Len(StartAll) : StartAll[k] = Task("start", s)
      BY TaskLists
    <3>2. Len(S) + k \in 1..Len(S \o StartAll) /\ Len(S) + k > Len(S)
      BY <2>1
    <3> QED  BY <2>1, <3>1, <3>2
  <2>3. \A i \in 1..Len(S \o StartAll) : i > Len(S) => (S \o StartAll)[i].op # "stop"
    <3> SUFFICES ASSUME NEW i \in 1..Len(S \o StartAll), i > Len(S)
                 PROVE  (S \o StartAll)[i].op # "stop"
      OBVIOUS
    <3>1. i - Len(S) \in 1..Len(StartAll) /\ Len(S) + (i - Len(S)) = i
      BY <2>1
    <3>2. (S \o StartAll)[i] = StartAll[i - Len(S)]
      BY <2>1, <3>1
    <3> QED  BY <3>1, <3>2, TaskLists
  <2> QED  BY <2>1, <2>2, <2>3
<1>6. Fine(StartAll)
  BY TaskLists
<1>7. name \in Starting => Fine(StepsOf(name))
  <2>1. CASE name = "start"
    BY <1>6, <2>1 DEF StepsOf
  <2>2. CASE name = "restart"
    BY <1>5, <2>2, TaskLists DEF StepsOf
  <2>3. CASE name = "repair"
    BY <1>3, <1>5, <2>3 DEF StepsOf
  <2> HIDE DEF Fine
  <2> QED  BY <2>1, <2>2, <2>3 DEF Starting
<1> QED  BY <1>4, <1>7

CliCommands == [name : Names \cup {"none"}, todo : Seq(Tasks), step : StepKinds,
                seen : ServiceRecords, pid : 0..MaxPids]

\* The first task and the rest.
LEMMA FirstTask ==
    ASSUME ControlTypeOK, NEW t \in Terminals, InCommand(t)
    PROVE  /\ cli[t] \in CliCommands /\ Len(cli[t].todo) \in Nat \ {0}
           /\ Head(cli[t].todo) \in Tasks /\ Head(cli[t].todo) = cli[t].todo[1]
           /\ Head(cli[t].todo).op \in {"start", "stop"} => Of(t) \in ServiceNames
           /\ Head(cli[t].todo) = Task(Head(cli[t].todo).op, Of(t))
           /\ Tail(cli[t].todo) \in Seq(Tasks) /\ Len(Tail(cli[t].todo)) = Len(cli[t].todo) - 1
           /\ \A i \in 1..Len(Tail(cli[t].todo)) : Tail(cli[t].todo)[i] = cli[t].todo[i + 1]
<1>1. cli[t] \in CliCommands
  BY DEF ControlTypeOK, CliCommands
<1>2. cli[t].todo \in Seq(Tasks) /\ cli[t].todo # <<>>
  BY <1>1 DEF CliCommands, InCommand
<1>3. /\ Len(cli[t].todo) \in Nat \ {0} /\ Head(cli[t].todo) = cli[t].todo[1]
      /\ Head(cli[t].todo) \in Tasks
      /\ Tail(cli[t].todo) \in Seq(Tasks) /\ Len(Tail(cli[t].todo)) = Len(cli[t].todo) - 1
      /\ \A i \in 1..Len(Tail(cli[t].todo)) : Tail(cli[t].todo)[i] = cli[t].todo[i + 1]
  BY <1>2
<1>4. /\ Head(cli[t].todo).op \in {"start", "stop"} => Of(t) \in ServiceNames
      /\ Head(cli[t].todo) = Task(Head(cli[t].todo).op, Of(t))
  BY <1>3 DEF Tasks, Task, Of
<1> QED  BY <1>1, <1>3, <1>4

LEMMA NothingSeen == NoRecords \in ServiceRecords /\ \A procs : RecordsFit(NoRecords, procs)
BY PidNumbers DEF NoRecords, ServiceRecords, RecordsFit

LEMMA TaskDoneGives ==
    ASSUME ControlTypeOK, NEW t \in Terminals, InCommand(t), TaskDone(t)
    PROVE  /\ cli' \in [Terminals -> CliCommands]
           /\ \A u \in Terminals : u # t => cli'[u] = cli[u]
           /\ cli'[t].todo = Tail(cli[t].todo) /\ cli'[t].step = EntryStep(Tail(cli[t].todo))
           /\ cli'[t].seen = NoRecords /\ cli'[t].name = cli[t].name
           /\ EntryStep(Tail(cli[t].todo)) \in StepKinds \ {"save", "forget", "wait"}
<1>1. cli \in [Terminals -> CliCommands] /\ cli[t] \in CliCommands
  BY DEF ControlTypeOK, CliCommands
<1> DEFINE rest == Tail(cli[t].todo)
           new == [cli[t] EXCEPT !.todo = rest, !.step = EntryStep(rest), !.seen = NoRecords,
                                 !.pid = 0]
<1>2. rest \in Seq(Tasks)
  BY FirstTask
<1>3. EntryStep(rest) \in StepKinds \ {"save", "forget", "wait"}
  <2>1. CASE rest = <<>>
    BY <2>1 DEF EntryStep, StepKinds
  <2>2. CASE rest # <<>>
    <3>1. Head(rest) \in Tasks
      BY <1>2, <2>2
    <3>2. Head(rest).op \in {"start", "stop", "confirm", "clear"}
      BY <3>1 DEF Tasks
    <3> QED  BY <2>2, <3>2 DEF EntryStep, StepKinds
  <2> QED  BY <2>1, <2>2
<1>4. cli' = [cli EXCEPT ![t] = new]
  BY <1>1 DEF TaskDone
<1>5. new \in CliCommands /\ new.todo = rest /\ new.step = EntryStep(rest)
      /\ new.seen = NoRecords /\ new.name = cli[t].name
  <2> HIDE DEF rest
  <2> QED  BY <1>1, <1>2, <1>3, NothingSeen, PidNumbers DEF CliCommands
<1> HIDE DEF new
<1> QED  BY <1>1, <1>3, <1>4, <1>5

LEMMA GotoGives ==
    ASSUME ControlTypeOK, NEW t \in Terminals, NEW step \in StepKinds, Goto(t, step)
    PROVE  /\ cli' \in [Terminals -> CliCommands]
           /\ \A u \in Terminals : u # t => cli'[u] = cli[u]
           /\ cli'[t].todo = cli[t].todo /\ cli'[t].step = step
           /\ cli'[t].seen = NoRecords /\ cli'[t].name = cli[t].name
<1>1. cli \in [Terminals -> CliCommands] /\ cli[t] \in CliCommands
  BY DEF ControlTypeOK, CliCommands
<1> DEFINE new == [cli[t] EXCEPT !.step = step, !.seen = NoRecords, !.pid = 0]
<1>2. cli' = [cli EXCEPT ![t] = new]
  BY <1>1 DEF Goto
<1>3. new \in CliCommands /\ new.todo = cli[t].todo /\ new.step = step
      /\ new.seen = NoRecords /\ new.name = cli[t].name
  BY <1>1, NothingSeen, PidNumbers DEF CliCommands
<1> HIDE DEF new
<1> QED  BY <1>1, <1>2, <1>3

\* No process that is there becomes another's, and none that ended lives again.
ProcsStay ==
    \A p \in Pids : proc[p].state # "absent" =>
        /\ proc'[p].svc = proc[p].svc /\ proc'[p].state # "absent"
        /\ proc'[p].state \in {"starting", "up"} => IsAlive(p)

LEMMA FitsStill ==
    ASSUME ProcsStay, NEW r \in ServiceRecords, RecordsFit(r, proc)
    PROVE  RecordsFit(r, proc')
BY PidNumbers DEF ProcsStay, RecordsFit, ServiceRecords

\* What holds of the step of a terminal that does nothing itself.
LEMMA OthersFit ==
    ASSUME ControlTypeOK, RecordsInv, ProcsStay, NEW u \in Terminals, cli'[u] = cli[u]
    PROVE  StepIsSound(u)'
<1>1. StepFits(u)' /\ cli[u].seen \in ServiceRecords
  BY DEF StepFits, Of, RecordsInv, StepIsSound, ControlTypeOK
<1>2. RecordsFit(cli'[u].seen, proc')
  BY <1>1, FitsStill DEF RecordsInv, StepIsSound
<1>3. At(u, "save")' => /\ cli'[u].pid \in Pids /\ proc'[cli'[u].pid].svc = Of(u)'
                        /\ proc'[cli'[u].pid].state # "absent"
  BY DEF RecordsInv, StepIsSound, At, InCommand, Of, ProcsStay
<1>4. ASSUME At(u, "save")' \/ At(u, "forget")', cli'[u].seen[Of(u)'] # 0
      PROVE  proc'[cli'[u].seen[Of(u)']].state \notin {"starting", "up"}
  <2>1. (At(u, "save") \/ At(u, "forget")) /\ cli[u].seen[Of(u)] # 0 /\ InCommand(u)
    BY <1>4 DEF At, InCommand, Of
  <2>2. Of(u) \in ServiceNames
    <3>1. Head(cli[u].todo) \in Tasks
      BY <2>1, FirstTask
    <3>2. Head(cli[u].todo).op \in {"start", "stop"}
      BY <2>1, <3>1 DEF RecordsInv, StepIsSound, StepFits, At, InCommand, Tasks
    <3> QED  BY <2>1, <3>2, FirstTask
  <2>3. cli[u].seen[Of(u)] \in Pids
    BY <1>1, <2>1, <2>2, PidNumbers DEF ServiceRecords
  <2>4. ~IsAlive(cli[u].seen[Of(u)]) /\ proc[cli[u].seen[Of(u)]].state # "absent"
    BY <2>1, <2>2 DEF RecordsInv, StepIsSound, RecordsFit
  <2> QED  BY <2>3, <2>4 DEF ProcsStay, Of
<1> QED  BY <1>1, <1>2, <1>3, <1>4 DEF StepIsSound, IsAlive


\* A terminal that begins a task, goes on within one, or has none left; the records that are
\* read and written back are those of the steps that say so.
LEMMA RecordsStay ==
    ASSUME ControlTypeOK, RecordsInv, ProcsStay, NEW t \in Terminals,
           RecordsFit(records', proc'),
           \A u \in Terminals : u # t => cli'[u] = cli[u],
           \/ cli'[t] = cli[t]
           \/ InCommand(t) /\ cli'[t].todo = Tail(cli[t].todo) /\ cli'[t].seen = NoRecords
                 /\ cli'[t].step = EntryStep(Tail(cli[t].todo))
           \/ InCommand(t) /\ cli'[t].todo = cli[t].todo /\ cli'[t].seen = NoRecords
                 /\ Head(cli[t].todo).op = "start" /\ cli'[t].step \in {"start", "wait"}
                 /\ (cli'[t].step = "wait" => Of(t) \in Probed)
           \/ cli'[t] = NoCommand
    PROVE  RecordsInv'
<1>1. \A u \in Terminals : cli'[u] = cli[u] => StepIsSound(u)'
  BY OthersFit
<1>2. ASSUME cli'[t] # cli[t]
      PROVE  /\ StepFits(t)' /\ RecordsFit(cli'[t].seen, proc')
             /\ ~At(t, "save")' /\ ~At(t, "forget")'
  <2>1. CASE InCommand(t) /\ cli'[t].todo = Tail(cli[t].todo) /\ cli'[t].seen = NoRecords
                /\ cli'[t].step = EntryStep(Tail(cli[t].todo))
    <3> DEFINE rest == Tail(cli[t].todo)
    <3>1. rest \in Seq(Tasks)
      BY <2>1, FirstTask
    <3>2. rest # <<>> => Head(rest).op \in {"start", "stop", "confirm", "clear"}
      <4>1. rest # <<>> => Head(rest) \in Tasks
        BY <3>1
      <4> QED  BY <4>1 DEF Tasks
    <3> HIDE DEF rest
    <3>3. cli'[t].todo = rest /\ cli'[t].step = EntryStep(rest)
      BY <2>1 DEF rest
    <3> QED  BY <2>1, <3>2, <3>3, NothingSeen DEF StepFits, EntryStep, At, Of
  <2>2. CASE InCommand(t) /\ cli'[t].todo = cli[t].todo /\ cli'[t].seen = NoRecords
                /\ Head(cli[t].todo).op = "start" /\ cli'[t].step \in {"start", "wait"}
                /\ (cli'[t].step = "wait" => Of(t) \in Probed)
    BY <2>2, NothingSeen DEF StepFits, At, Of, InCommand
  <2>3. CASE cli'[t] = NoCommand
    BY <2>3, NothingSeen DEF StepFits, At, InCommand, NoCommand
  <2> QED  BY <1>2, <2>1, <2>2, <2>3
<1> QED  BY <1>1, <1>2 DEF RecordsInv, StepIsSound, IsAlive

LEMMA ControlAtFirst == ControlInit => ControlInv
<1> SUFFICES ASSUME ControlInit PROVE ControlInv
  OBVIOUS
<1>1. NoCommand \in CliCommands /\ NoCommand.todo = <<>> /\ NoCommand.step = "none"
      /\ NoCommand.seen = NoRecords
  BY PidNumbers, NothingSeen DEF NoCommand, CliCommands, StepKinds
<1>2. \A t \in Terminals : cli[t] = NoCommand /\ ~InCommand(t)
  BY <1>1 DEF ControlInit, InCommand
<1>3. ControlTypeOK
  BY <1>1, PidNumbers, NothingSeen DEF ControlInit, ControlTypeOK, CliCommands, ServiceProcesses
<1>4. RecordsInv
  BY <1>1, <1>2, NothingSeen DEF ControlInit, RecordsInv, StepIsSound, StepFits, At
<1>5. QuietInv /\ TruthInv /\ WipesNothingInUse
  BY <1>2 DEF ControlInit, QuietInv, TruthInv, WipesNothingInUse
<1>6. EveryProcessIsKnown
  BY DEF ControlInit, EveryProcessIsKnown, LivePids, NoProcess
<1> QED  BY <1>3, <1>4, <1>5, <1>6 DEF ControlInv

\* Nothing is spawned, and who is about to record what it spawned still is.
LEMMA KnownStays ==
    ASSUME ControlTypeOK, EveryProcessIsKnown, ProcsStay, records' = records,
           lost \subseteq lost',
           \A p \in Pids : proc[p].state = "absent" => proc'[p] = proc[p],
           \A u \in Terminals : At(u, "save") => At(u, "save")' /\ cli'[u].pid = cli[u].pid
    PROVE  EveryProcessIsKnown'
<1> SUFFICES ASSUME NEW s \in ServiceNames, NEW p \in LivePids(s)'
             PROVE  \/ records'[s] = p
                    \/ \E t \in Terminals : At(t, "save")' /\ cli'[t].pid = p
                    \/ p \in lost'
  BY DEF EveryProcessIsKnown
<1>1. p \in Pids /\ proc'[p].svc = s /\ proc'[p].state \in {"starting", "up"}
  BY DEF LivePids
<1>2. p \in LivePids(s)
  BY <1>1 DEF ProcsStay, LivePids, IsAlive
<1> QED  BY <1>2 DEF EveryProcessIsKnown

\* No process under which was wiped lives again.
LEMMA WipesStay ==
    ASSUME ControlTypeOK, ControlTypeOK', WipesNothingInUse, ProcsStay,
           wipedUnder' = wipedUnder, lost \subseteq lost'
    PROVE  WipesNothingInUse'
<1>1. \A p \in wipedUnder : p \in Pids /\ (p \in lost' \/ proc[p].state \in {"ending", "gone"})
  BY DEF ControlTypeOK, WipesNothingInUse
<1>2. \A p \in Pids : proc'[p].state \in {"absent", "starting", "up", "ending", "gone"}
  BY DEF ControlTypeOK, ServiceProcesses, NoProcess
<1>3. \A p \in Pids : proc[p].state \in {"ending", "gone"} => proc'[p].state \in {"ending", "gone"}
  BY <1>2 DEF ProcsStay, IsAlive
<1> QED  BY <1>1, <1>3 DEF WipesNothingInUse

\* A step of a command that runs alone leaves nothing to say of the others.
LEMMA OneIsQuiet ==
    ASSUME QuietInv, NEW t \in Terminals, InCommand(t), quiet' = quiet,
           \A u \in Terminals : u # t => cli'[u] = cli[u],
           cli'[t].name \in {cli[t].name, "none"},
           quiet[t] /\ cli[t].name \in Starting /\ cli'[t].name = cli[t].name => OnTheWay(t)'
    PROVE  QuietInv' /\ TruthInv'
<1>1. \A u \in Terminals : InCommand(u)' => InCommand(u)
  BY DEF InCommand
<1>2. QuietInv'
  BY <1>1 DEF QuietInv
<1>3. ASSUME NEW u \in Terminals, quiet'[u], InCommand(u)', cli'[u].name \in Starting
      PROVE  OnTheWay(u)'
  <2>1. u = t
    BY <1>1, <1>3 DEF QuietInv
  <2> QED  BY <1>3, <2>1 DEF Starting
<1> QED  BY <1>2, <1>3 DEF TruthInv

\* The first task is done: it started nothing, or what it started runs, or deceived it.
LEMMA FirstIsDone ==
    ASSUME ControlTypeOK, NEW t \in Terminals, InCommand(t), OnTheWay(t),
           cli'[t].todo = Tail(cli[t].todo), ~At(t, "save")',
           deceived[t] \subseteq deceived'[t],
           \A s \in ServiceNames : Serves(s) => Serves(s)',
           \A s \in ServiceNames :
               Head(cli[t].todo) = Task("start", s) => s \in deceived'[t] \/ Serves(s)'
    PROVE  OnTheWay(t)'
<1> DEFINE todo == cli[t].todo
           rest == Tail(todo)
<1>1. /\ Len(todo) \in Nat \ {0} /\ Len(rest) = Len(todo) - 1
      /\ \A i \in 1..Len(rest) : rest[i] = todo[i + 1] /\ i + 1 \in 1..Len(todo)
      /\ Head(todo) = todo[1] /\ cli'[t].todo = rest
  BY FirstTask
<1>2. \A j \in 1..Len(todo) : j # 1 => j - 1 \in 1..Len(rest) /\ rest[j - 1] = todo[j]
  BY <1>1
<1>3. ASSUME NEW i \in 1..Len(rest), rest[i].op = "stop", NEW s \in ServiceNames
      PROVE  \E j \in 1..Len(rest) : j > i /\ rest[j] = Task("start", s)
  <2>1. i + 1 \in 1..Len(todo) /\ todo[i + 1].op = "stop"
    BY <1>1, <1>3
  <2>2. PICK j \in 1..Len(todo) : j > i + 1 /\ todo[j] = Task("start", s)
    BY <2>1 DEF OnTheWay
  <2>3. j - 1 \in 1..Len(rest) /\ rest[j - 1] = Task("start", s) /\ j - 1 > i
    BY <1>2, <2>2
  <2> QED  BY <2>3
<1>4. ASSUME NEW s \in ServiceNames
      PROVE  s \in deceived'[t] \/ StartsLater(t, s)' \/ Serves(s)'
  <2>1. CASE StartsLater(t, s)
    <3>1. PICK j \in 1..Len(todo) : todo[j] = Task("start", s)
      BY <2>1 DEF StartsLater
    <3>2. CASE j = 1
      BY <1>1, <3>1, <3>2
    <3>3. CASE j # 1
      <4>1. j - 1 \in 1..Len(rest) /\ rest[j - 1] = Task("start", s)
        BY <1>2, <3>1, <3>3
      <4> QED  BY <1>1, <4>1 DEF StartsLater
    <3> QED  BY <3>2, <3>3
  <2> QED  BY <2>1 DEF OnTheWay
<1> HIDE DEF todo, rest
<1> QED  BY <1>1, <1>3, <1>4 DEF OnTheWay

\* A step within the task changes none of what is on the way.
LEMMA StillOnTheWay ==
    ASSUME NEW t \in Terminals, OnTheWay(t), cli'[t].todo = cli[t].todo,
           deceived[t] \subseteq deceived'[t],
           \A s \in ServiceNames : Serves(s) => StartsLater(t, s) \/ Serves(s)',
           At(t, "save")' /\ Of(t) \notin Probed => proc'[cli'[t].pid].state \in {"starting", "up"}
    PROVE  OnTheWay(t)'
<1>1. \A s \in ServiceNames : StartsLater(t, s)' <=> StartsLater(t, s)
  BY DEF StartsLater
<1>2. Of(t)' = Of(t)
  BY DEF Of
<1>3. \A s \in ServiceNames : s \in deceived'[t] \/ StartsLater(t, s)' \/ Serves(s)'
  BY <1>1 DEF OnTheWay
<1>4. At(t, "save")' /\ Of(t)' \notin Probed => IsAlive(cli[t].pid)'
  BY <1>2 DEF IsAlive
<1>5. \A i \in 1..Len(cli'[t].todo) : cli'[t].todo[i].op = "stop" =>
          \A s \in ServiceNames : \E j \in 1..Len(cli'[t].todo) :
              j > i /\ cli'[t].todo[j] = Task("start", s)
  BY DEF OnTheWay
<1> QED  BY <1>3, <1>4, <1>5 DEF OnTheWay

\* A process comes up, fails to listen or ends: what a service has of live processes stays.
LEMMA ProcessesMove ==
    ASSUME ControlInv, NEW p \in Pids, ComeUp(p) \/ FailToListen(p) \/ EndProcess(p)
    PROVE  ControlInv'
<1>1. /\ UNCHANGED <<records, cli, commands, lost, deceived, quiet, wipedUnder>>
      /\ proc[p].state \in {"starting", "ending"}
      /\ proc \in [Pids -> ServiceProcesses]
  BY DEF ComeUp, FailToListen, EndProcess, ControlInv, ControlTypeOK
<1>2. PICK state \in {"up", "gone"} :
          /\ Becomes(p, state) /\ (state = "up" => ComeUp(p))
          /\ state = "gone" => FailToListen(p) \/ EndProcess(p)
  BY DEF ComeUp, FailToListen, EndProcess
<1>3. /\ proc[p] \in [svc : ServiceNames, state : {"starting", "up", "ending", "gone"}]
      /\ proc' = [proc EXCEPT ![p] = [proc[p] EXCEPT !.state = state]]
  BY <1>1, <1>2 DEF ServiceProcesses, NoProcess, Becomes
<1>4. /\ proc' \in [Pids -> ServiceProcesses]
      /\ proc'[p].svc = proc[p].svc /\ proc'[p].state = state
      /\ \A q \in Pids : q # p => proc'[q] = proc[q]
  BY <1>1, <1>3 DEF ServiceProcesses
<1>5. state = "up" => proc[p].state = "starting"
  BY <1>2 DEF ComeUp
<1>6. ProcsStay /\ \A q \in Pids : proc[q].state = "absent" => proc'[q] = proc[q]
  BY <1>1, <1>4, <1>5 DEF ProcsStay, IsAlive
<1>7. ControlTypeOK'
  BY <1>1, <1>4 DEF ControlInv, ControlTypeOK
<1>8. RecordsInv'
  <2>1. records \in ServiceRecords
    BY DEF ControlInv, ControlTypeOK
  <2>2. RecordsFit(records', proc')
    BY <1>1, <1>6, <2>1, FitsStill DEF ControlInv, RecordsInv, StepIsSound
  <2>3. ASSUME Terminals # {} PROVE RecordsInv'
    BY <1>1, <1>6, <2>2, <2>3, RecordsStay DEF ControlInv
  <2> QED  BY <2>2, <2>3 DEF RecordsInv, StepIsSound
<1>9. EveryProcessIsKnown' /\ WipesNothingInUse' /\ QuietInv'
  BY <1>1, <1>6, <1>7, KnownStays, WipesStay DEF ControlInv, At, InCommand, QuietInv
<1>10. \A q \in Pids : IsAlive(q) /\ proc[q].svc \notin Probed => proc'[q].state \in {"starting", "up"}
  <2>1. FailToListen(p) => proc[p].svc \in Probed
    BY DEF FailToListen
  <2>2. EndProcess(p) => ~IsAlive(p)
    BY DEF EndProcess, IsAlive
  <2> QED  BY <1>2, <1>4, <2>1, <2>2 DEF IsAlive
<1>11. \A s \in ServiceNames : Serves(s) => Serves(s)'
  <2> SUFFICES ASSUME NEW s \in ServiceNames, NEW q \in Pids, proc[q].svc = s, IsAlive(q),
                      s \in Probed => proc[q].state = "up"
               PROVE  Serves(s)'
    BY DEF Serves
  <2>1. proc'[q].svc = s
    BY <1>4
  <2>2. proc'[q].state \in {"starting", "up"}
    BY <1>1, <1>4, <1>10 DEF IsAlive
  <2>3. s \in Probed => proc'[q].state = "up"
    BY <1>1, <1>4
  <2> QED  BY <2>1, <2>2, <2>3 DEF Serves, IsAlive
<1>12. TruthInv'
  <2> SUFFICES ASSUME NEW t \in Terminals, quiet[t], InCommand(t), cli[t].name \in Starting
               PROVE  OnTheWay(t)'
    BY <1>1 DEF TruthInv, InCommand
  <2>1. OnTheWay(t)
    BY DEF ControlInv, TruthInv
  <2>2. At(t, "save") /\ Of(t) \notin Probed => proc'[cli[t].pid].state \in {"starting", "up"}
    BY <1>10, <2>1 DEF OnTheWay, ControlInv, RecordsInv, StepIsSound
  <2> QED  BY <1>1, <1>11, <2>1, <2>2, StillOnTheWay DEF At, InCommand
<1> QED  BY <1>7, <1>8, <1>9, <1>12 DEF ControlInv

LEMMA ProcessDies ==
    ASSUME ControlInv, NEW p \in Pids, Die(p)
    PROVE  ControlInv'
<1>1. /\ UNCHANGED <<records, cli, commands, lost, deceived, wipedUnder>>
      /\ quiet' = [t \in Terminals |-> FALSE] /\ proc \in [Pids -> ServiceProcesses]
      /\ proc[p] \in [svc : ServiceNames, state : {"starting", "up", "ending", "gone"}]
      /\ proc' = [proc EXCEPT ![p] = [proc[p] EXCEPT !.state = "gone"]]
  BY DEF Die, Becomes, ControlInv, ControlTypeOK, ServiceProcesses, NoProcess
<1>2. /\ proc' \in [Pids -> ServiceProcesses]
      /\ proc'[p].svc = proc[p].svc /\ proc'[p].state = "gone"
      /\ \A q \in Pids : q # p => proc'[q] = proc[q]
  BY <1>1 DEF ServiceProcesses
<1>3. ProcsStay /\ \A q \in Pids : proc[q].state = "absent" => proc'[q] = proc[q]
  BY <1>1, <1>2 DEF ProcsStay, IsAlive, Die
<1>4. ControlTypeOK'
  BY <1>1, <1>2 DEF ControlInv, ControlTypeOK
<1>5. RecordsInv'
  <2>1. records \in ServiceRecords
    BY DEF ControlInv, ControlTypeOK
  <2>2. RecordsFit(records', proc')
    BY <1>1, <1>3, <2>1, FitsStill DEF ControlInv, RecordsInv, StepIsSound
  <2>3. ASSUME Terminals # {} PROVE RecordsInv'
    BY <1>1, <1>3, <2>2, <2>3, RecordsStay DEF ControlInv
  <2> QED  BY <2>2, <2>3 DEF RecordsInv, StepIsSound
<1>6. EveryProcessIsKnown' /\ WipesNothingInUse'
  BY <1>1, <1>3, <1>4, KnownStays, WipesStay DEF ControlInv, At, InCommand
<1>7. QuietInv' /\ TruthInv'
  BY <1>1 DEF QuietInv, TruthInv
<1> QED  BY <1>4, <1>5, <1>6, <1>7 DEF ControlInv

LEMMA CommandIsGiven ==
    ASSUME ControlInv, NEW t \in Terminals, NEW name \in Names, GiveCommand(t, name)
    PROVE  ControlInv'
<1> DEFINE others == {u \in Terminals \ {t} : InCommand(u)}
           new == [NoCommand EXCEPT !.name = name, !.todo = StepsOf(name),
                                    !.step = EntryStep(StepsOf(name))]
<1>1. /\ ~InCommand(t) /\ cli' = [cli EXCEPT ![t] = new] /\ cli \in [Terminals -> CliCommands]
      /\ deceived' = [deceived EXCEPT ![t] = {}]
      /\ quiet' = [u \in Terminals |-> IF u = t THEN others = {} ELSE quiet[u] /\ u \notin others]
      /\ UNCHANGED <<records, proc, lost, wipedUnder>>
  BY DEF GiveCommand, ControlInv, ControlTypeOK, CliCommands
<1>2. commands' \in 0..MaxCommands
  BY PidNumbers DEF GiveCommand, ControlInv, ControlTypeOK
<1>3. StepsOf(name) \in Seq(Tasks)
  BY StepsAreTasks
<1>4. /\ EntryStep(StepsOf(name)) \in StepKinds \ {"save", "forget"}
      /\ StepsOf(name) = <<>> => EntryStep(StepsOf(name)) = "none"
      /\ StepsOf(name) # <<>> =>
            \/ /\ Head(StepsOf(name)).op = "start"
               /\ EntryStep(StepsOf(name)) = (IF Head(StepsOf(name)).svc \in Probed THEN "probe" ELSE "start")
            \/ /\ Head(StepsOf(name)).op \in {"stop", "confirm", "clear"}
               /\ EntryStep(StepsOf(name)) = Head(StepsOf(name)).op
  <2>1. StepsOf(name) # <<>> => Head(StepsOf(name)) \in Tasks
    BY <1>3
  <2>2. StepsOf(name) # <<>> => Head(StepsOf(name)).op \in {"start", "stop", "confirm", "clear"}
    BY <2>1 DEF Tasks
  <2> QED  BY <2>2 DEF EntryStep, StepKinds
<1>5. /\ new \in CliCommands /\ new.todo = StepsOf(name) /\ new.step = EntryStep(StepsOf(name))
      /\ new.seen = NoRecords
  BY <1>3, <1>4, NothingSeen, PidNumbers DEF CliCommands, NoCommand
<1> HIDE DEF new
<1>6. cli' \in [Terminals -> CliCommands] /\ cli'[t] = new /\ \A u \in Terminals : u # t => cli'[u] = cli[u]
  BY <1>1, <1>5
<1>7. ControlTypeOK'
  BY <1>1, <1>2, <1>6 DEF ControlInv, ControlTypeOK, CliCommands
<1>8. RecordsInv'
  <2>1. StepFits(t)' /\ ~At(t, "save")' /\ ~At(t, "forget")'
    BY <1>4, <1>5, <1>6 DEF StepFits, At, Of
  <2>2. \A u \in Terminals : u # t =>
            /\ StepFits(u)' = StepFits(u) /\ At(u, "save")' = At(u, "save") /\ Of(u)' = Of(u)
            /\ At(u, "forget")' = At(u, "forget")
    BY <1>6 DEF StepFits, At, Of, InCommand
  <2> QED  BY <1>1, <1>5, <1>6, <2>1, <2>2, NothingSeen DEF ControlInv, RecordsInv, StepIsSound, IsAlive
<1>9. EveryProcessIsKnown' /\ WipesNothingInUse'
  <2>1. ProcsStay
    BY <1>1 DEF ProcsStay, IsAlive
  <2>2. \A u \in Terminals : At(u, "save") => At(u, "save")' /\ cli'[u].pid = cli[u].pid
    BY <1>1, <1>6 DEF At, InCommand
  <2> QED  BY <1>1, <1>7, <2>1, <2>2, KnownStays, WipesStay DEF ControlInv
<1>10. \A u \in Terminals : quiet'[u] /\ InCommand(u)' =>
           u = t /\ \A v \in Terminals : InCommand(v)' => v = t
  <2>1. \A u \in Terminals : u # t => InCommand(u)' = InCommand(u)
    BY <1>6 DEF InCommand
  <2> QED  BY <1>1, <2>1
<1>11. QuietInv'
  BY <1>10 DEF QuietInv
<1>12. TruthInv'
  <2> SUFFICES ASSUME cli'[t].name \in Starting PROVE OnTheWay(t)'
    BY <1>10 DEF TruthInv
  <2>1. cli'[t].todo = StepsOf(name) /\ name \in Starting
    BY <1>5, <1>6 DEF new, NoCommand
  <2>2. \A s \in ServiceNames : StartsLater(t, s)'
    BY <2>1, StepsAreTasks DEF StartsLater
  <2>3. ~At(t, "save")'
    BY <1>4, <1>5, <1>6 DEF At
  <2>4. \A i \in 1..Len(cli'[t].todo) : cli'[t].todo[i].op = "stop" =>
            \A s \in ServiceNames : \E j \in 1..Len(cli'[t].todo) :
                j > i /\ cli'[t].todo[j] = Task("start", s)
    BY <2>1, StepsAreTasks
  <2> QED  BY <2>2, <2>3, <2>4 DEF OnTheWay
<1> QED  BY <1>7, <1>8, <1>9, <1>11, <1>12 DEF ControlInv

\* What a step of a command keeps, and what it says of the command itself.
StepKeeps(t) ==
    /\ ControlInv'
    /\ \A u \in Terminals : u # t => cli'[u] = cli[u]
    /\ cli'[t].name \in {cli[t].name, "none"}
    /\ quiet[t] /\ cli[t].name \in Starting /\ cli'[t].name # "none" => OnTheWay(t)'

LEMMA StopsGives ==
    ASSUME ControlTypeOK, NEW t \in Terminals, cli' = [cli EXCEPT ![t] = NoCommand]
    PROVE  /\ cli' \in [Terminals -> CliCommands] /\ cli'[t] = NoCommand
           /\ \A u \in Terminals : u # t => cli'[u] = cli[u]
<1>1. cli \in [Terminals -> CliCommands] /\ NoCommand \in CliCommands
  BY PidNumbers, NothingSeen DEF NoCommand, CliCommands, StepKinds, ControlTypeOK
<1> QED  BY <1>1

\* A step that ends a task, or goes on within one without spawning or killing.
LEMMA CommandGoesOn ==
    ASSUME ControlInv, NEW t \in Terminals, InCommand(t),
           UNCHANGED <<proc, commands, quiet>>, records' \in ServiceRecords,
           RecordsFit(records', proc'), lost' \subseteq Pids, wipedUnder' \subseteq Pids,
           WipesNothingInUse',
           \A s \in ServiceNames : \A p \in LivePids(s) :
               \/ records'[s] = p
               \/ \E u \in Terminals \ {t} : At(u, "save") /\ cli[u].pid = p
               \/ p \in lost',
           deceived' \in [Terminals -> SUBSET ServiceNames], deceived[t] \subseteq deceived'[t],
           \/ /\ TaskDone(t)
              /\ quiet[t] /\ cli[t].name \in Starting => \A s \in ServiceNames :
                    Head(cli[t].todo) = Task("start", s) => s \in deceived'[t] \/ Serves(s)
           \/ /\ \E step \in {"start", "wait"} : Goto(t, step) /\ (step = "wait" => Of(t) \in Probed)
              /\ Head(cli[t].todo).op = "start"
           \/ cli' = [cli EXCEPT ![t] = NoCommand]
    PROVE  StepKeeps(t)
<1>1. ControlTypeOK /\ QuietInv /\ ProcsStay
  BY DEF ControlInv, ProcsStay, IsAlive
<1>2. \A s \in ServiceNames : Serves(s)' = Serves(s)
  BY DEF Serves, IsAlive
<1>4. ASSUME cli' \in [Terminals -> CliCommands], \A u \in Terminals : u # t => cli'[u] = cli[u]
      PROVE  ControlTypeOK' /\ EveryProcessIsKnown' /\ WipesNothingInUse'
  <2>1. ControlTypeOK'
    BY <1>1, <1>4 DEF ControlTypeOK, CliCommands
  <2>2. \A u \in Terminals \ {t} : At(u, "save") => At(u, "save")' /\ cli'[u].pid = cli[u].pid
    BY <1>4 DEF At, InCommand
  <2>3. \A s \in ServiceNames : LivePids(s)' = LivePids(s)
    BY DEF LivePids
  <2>4. EveryProcessIsKnown'
    BY <2>2, <2>3 DEF EveryProcessIsKnown
  <2> QED  BY <2>1, <2>4
<1>5. CASE /\ TaskDone(t)
           /\ quiet[t] /\ cli[t].name \in Starting => \A s \in ServiceNames :
                 Head(cli[t].todo) = Task("start", s) => s \in deceived'[t] \/ Serves(s)
  <2>1. /\ cli' \in [Terminals -> CliCommands] /\ \A u \in Terminals : u # t => cli'[u] = cli[u]
        /\ cli'[t].todo = Tail(cli[t].todo) /\ cli'[t].step = EntryStep(Tail(cli[t].todo))
        /\ cli'[t].seen = NoRecords /\ cli'[t].name = cli[t].name
        /\ EntryStep(Tail(cli[t].todo)) \in StepKinds \ {"save", "forget", "wait"}
    BY <1>1, <1>5, TaskDoneGives
  <2>2. RecordsInv'
    BY <1>1, <2>1, RecordsStay DEF ControlInv
  <2>3. ~At(t, "save")'
    BY <2>1 DEF At
  <2>4. quiet[t] /\ cli[t].name \in Starting => OnTheWay(t)'
    <3>1. quiet[t] /\ cli[t].name \in Starting => OnTheWay(t)
      BY DEF ControlInv, TruthInv
    <3> QED  BY <1>1, <1>2, <1>5, <2>1, <2>3, <3>1, FirstIsDone
  <2>5. QuietInv' /\ TruthInv'
    BY <1>1, <2>1, <2>4, OneIsQuiet
  <2> QED  BY <1>4, <2>1, <2>2, <2>4, <2>5 DEF StepKeeps, ControlInv
<1>6. CASE /\ \E step \in {"start", "wait"} : Goto(t, step) /\ (step = "wait" => Of(t) \in Probed)
           /\ Head(cli[t].todo).op = "start"
  <2> PICK step \in {"start", "wait"} : Goto(t, step) /\ (step = "wait" => Of(t) \in Probed)
    BY <1>6
  <2>1. /\ cli' \in [Terminals -> CliCommands] /\ \A u \in Terminals : u # t => cli'[u] = cli[u]
        /\ cli'[t].todo = cli[t].todo /\ cli'[t].step = step
        /\ cli'[t].seen = NoRecords /\ cli'[t].name = cli[t].name
    BY <1>1, GotoGives DEF StepKinds
  <2>2. RecordsInv'
    BY <1>1, <1>6, <2>1, RecordsStay DEF ControlInv
  <2>3. ~At(t, "save")'
    BY <2>1 DEF At
  <2>4. quiet[t] /\ cli[t].name \in Starting => OnTheWay(t)'
    <3>1. quiet[t] /\ cli[t].name \in Starting => OnTheWay(t)
      BY DEF ControlInv, TruthInv
    <3> QED  BY <1>2, <2>1, <2>3, <3>1, StillOnTheWay
  <2>5. QuietInv' /\ TruthInv'
    BY <1>1, <2>1, <2>4, OneIsQuiet
  <2> QED  BY <1>4, <2>1, <2>2, <2>4, <2>5 DEF StepKeeps, ControlInv
<1>7. CASE cli' = [cli EXCEPT ![t] = NoCommand]
  <2>1. /\ cli' \in [Terminals -> CliCommands] /\ cli'[t] = NoCommand
        /\ \A u \in Terminals : u # t => cli'[u] = cli[u]
    BY <1>1, <1>7, StopsGives
  <2>2. RecordsInv'
    BY <1>1, <2>1, RecordsStay DEF ControlInv
  <2>3. cli'[t].name = "none"
    BY <2>1 DEF NoCommand
  <2>4. QuietInv' /\ TruthInv'
    BY <1>1, <2>1, <2>3, OneIsQuiet DEF Starting
  <2> QED  BY <1>4, <2>1, <2>2, <2>3, <2>4 DEF StepKeeps, ControlInv
<1> QED  BY <1>5, <1>6, <1>7

\* A step that only reads the records and the processes.
LEMMA PlainStep ==
    ASSUME ControlInv, NEW t \in Terminals, InCommand(t), ~At(t, "save"),
           UNCHANGED <<records, proc, commands, lost, quiet, wipedUnder>>,
           deceived' \in [Terminals -> SUBSET ServiceNames], deceived[t] \subseteq deceived'[t],
           \/ /\ TaskDone(t)
              /\ \A s \in ServiceNames :
                    Head(cli[t].todo) = Task("start", s) => s \in deceived'[t] \/ Serves(s)
           \/ /\ \E step \in {"start", "wait"} : Goto(t, step) /\ (step = "wait" => Of(t) \in Probed)
              /\ Head(cli[t].todo).op = "start"
           \/ cli' = [cli EXCEPT ![t] = NoCommand]
    PROVE  StepKeeps(t)
<1>1. /\ records' \in ServiceRecords /\ RecordsFit(records', proc')
      /\ lost' \subseteq Pids /\ wipedUnder' \subseteq Pids /\ WipesNothingInUse'
  BY DEF ControlInv, ControlTypeOK, RecordsInv, WipesNothingInUse
<1>2. \A s \in ServiceNames : \A p \in LivePids(s) :
          \/ records'[s] = p
          \/ \E u \in Terminals \ {t} : At(u, "save") /\ cli[u].pid = p
          \/ p \in lost'
  BY DEF ControlInv, EveryProcessIsKnown
<1> QED  BY <1>1, <1>2, CommandGoesOn

\* The task a step belongs to.
LEMMA StepsTask ==
    ASSUME ControlInv, NEW t \in Terminals, InCommand(t)
    PROVE  /\ cli[t].step \in {"probe", "start", "save", "wait"} =>
                 Head(cli[t].todo).op = "start" /\ Of(t) \in ServiceNames
           /\ cli[t].step \in {"stop", "forget"} =>
                 Head(cli[t].todo).op = "stop" /\ Of(t) \in ServiceNames
           /\ cli[t].step \in {"confirm", "clear"} => Head(cli[t].todo).op = cli[t].step
           /\ cli[t].step \in {"probe", "wait"} => Of(t) \in Probed
           /\ \A s \in ServiceNames : Head(cli[t].todo) = Task("start", s) =>
                 Head(cli[t].todo).op = "start" /\ Of(t) = s
<1>1. StepFits(t) /\ cli[t].todo # <<>>
  BY DEF ControlInv, RecordsInv, StepIsSound, InCommand
<1>2. Head(cli[t].todo).op \in {"start", "stop", "confirm", "clear"}
  <2>1. Head(cli[t].todo) \in Tasks
    BY FirstTask DEF ControlInv
  <2> QED  BY <2>1 DEF Tasks
<1>3. Head(cli[t].todo).op \in {"start", "stop"} => Of(t) \in ServiceNames
  BY FirstTask DEF ControlInv
<1>4. \A s \in ServiceNames : Head(cli[t].todo) = Task("start", s) =>
          Head(cli[t].todo).op = "start" /\ Of(t) = s
  BY DEF Task, Of
<1> QED  BY <1>1, <1>2, <1>3, <1>4 DEF StepFits

LEMMA ProbeKeeps ==
    ASSUME ControlInv, NEW t \in Terminals, NEW answered \in BOOLEAN, Probe(t, answered)
    PROVE  StepKeeps(t)
<1>1. InCommand(t) /\ ~At(t, "save") /\ Of(t) \in Probed /\ Head(cli[t].todo).op = "start"
  BY StepsTask DEF Probe, At
<1>2. deceived \in [Terminals -> SUBSET ServiceNames]
  BY DEF ControlInv, ControlTypeOK
<1>3. \E step \in {"start", "wait"} : Goto(t, step) /\ (step = "wait" => Of(t) \in Probed)
  BY <1>1 DEF Probe
<1>4. UNCHANGED <<records, proc, commands, lost, quiet, wipedUnder>> /\ deceived' = deceived
  BY DEF Probe
<1> QED  BY <1>1, <1>2, <1>3, <1>4, PlainStep

LEMMA WaitKeeps ==
    ASSUME ControlInv, NEW t \in Terminals, NEW by \in Pids, AwaitHealth(t, by)
    PROVE  StepKeeps(t)
<1>1. InCommand(t) /\ ~At(t, "save") /\ Of(t) \in ServiceNames
  BY StepsTask DEF AwaitHealth, At
<1>2. deceived \in [Terminals -> SUBSET ServiceNames]
  BY DEF ControlInv, ControlTypeOK
<1>3. deceived' \in [Terminals -> SUBSET ServiceNames] /\ deceived[t] \subseteq deceived'[t]
  BY <1>1, <1>2 DEF AwaitHealth
<1>4. Of(t) \in deceived'[t] \/ Serves(Of(t))
  BY <1>1, <1>2 DEF AwaitHealth, Serves, IsAlive
<1>5. \A s \in ServiceNames : Head(cli[t].todo) = Task("start", s) => s \in deceived'[t] \/ Serves(s)
  BY <1>1, <1>4, StepsTask
<1>6. UNCHANGED <<records, proc, commands, lost, quiet, wipedUnder>> /\ TaskDone(t)
  BY DEF AwaitHealth
<1> QED  BY <1>1, <1>3, <1>5, <1>6, PlainStep

LEMMA GivingUpKeeps ==
    ASSUME ControlInv, NEW t \in Terminals, GiveUpWaiting(t)
    PROVE  StepKeeps(t)
<1>1. InCommand(t) /\ ~At(t, "save") /\ deceived \in [Terminals -> SUBSET ServiceNames]
  BY DEF GiveUpWaiting, At, ControlInv, ControlTypeOK
<1>2. /\ UNCHANGED <<records, proc, commands, lost, quiet, wipedUnder>> /\ deceived' = deceived
      /\ cli' = [cli EXCEPT ![t] = NoCommand]
  BY DEF GiveUpWaiting
<1> QED  BY <1>1, <1>2, PlainStep

LEMMA ConfirmKeeps ==
    ASSUME ControlInv, NEW t \in Terminals, NEW yes \in BOOLEAN, Confirm(t, yes)
    PROVE  StepKeeps(t)
<1>1. InCommand(t) /\ ~At(t, "save") /\ deceived \in [Terminals -> SUBSET ServiceNames]
      /\ Head(cli[t].todo).op = "confirm"
  BY StepsTask DEF Confirm, At, ControlInv, ControlTypeOK
<1>2. UNCHANGED <<records, proc, commands, lost, quiet, wipedUnder>> /\ deceived' = deceived
  BY DEF Confirm
<1>3. \A s \in ServiceNames : Head(cli[t].todo) # Task("start", s)
  BY <1>1, StepsTask
<1>4. TaskDone(t) \/ cli' = [cli EXCEPT ![t] = NoCommand]
  BY DEF Confirm
<1> QED  BY <1>1, <1>2, <1>3, <1>4, PlainStep

\* The service runs already, or is spawned: a process that no record names yet.
LEMMA StartKeeps ==
    ASSUME ControlInv, NEW t \in Terminals, StartService(t)
    PROVE  StepKeeps(t)
<1> DEFINE s == Of(t)
<1>1. /\ InCommand(t) /\ At(t, "start") /\ ~At(t, "save") /\ s \in ServiceNames
      /\ Head(cli[t].todo).op = "start"
      /\ deceived \in [Terminals -> SUBSET ServiceNames] /\ records \in ServiceRecords
      /\ cli \in [Terminals -> CliCommands] /\ proc \in [Pids -> ServiceProcesses]
      /\ ControlTypeOK /\ QuietInv /\ RecordsInv /\ records[s] \in 0..MaxPids
  BY StepsTask DEF StartService, At, ControlInv, ControlTypeOK, CliCommands, ServiceRecords
<1>2. deceived' \in [Terminals -> SUBSET ServiceNames] /\ deceived[t] \subseteq deceived'[t]
      /\ (s \notin Probed /\ records[s] \in Ending(s) => s \in deceived'[t])
  BY <1>1 DEF StartService
<1>3. UNCHANGED <<records, commands, lost, quiet, wipedUnder>>
  BY DEF StartService
<1>4. CASE AlreadyRuns(s)
  <2>1. UNCHANGED <<records, proc, commands, lost, quiet, wipedUnder>> /\ Started(t)
    BY <1>3, <1>4 DEF StartService
  <2>2. records[s] \in Pids /\ proc[records[s]].svc = s
        /\ proc[records[s]].state \in {"starting", "up", "ending"}
    BY <1>1, <1>4, PidNumbers DEF AlreadyRuns, Running, RecordsInv, StepIsSound, RecordsFit
  <2>3. CASE s \in Probed
    BY <1>1, <1>2, <2>1, <2>3, PlainStep DEF Started
  <2>4. CASE s \notin Probed
    <3>1. s \in deceived'[t] \/ Serves(s)
      BY <1>2, <2>2, <2>4 DEF Serves, IsAlive, Ending
    <3>2. \A x \in ServiceNames : Head(cli[t].todo) = Task("start", x) => x \in deceived'[t] \/ Serves(x)
      BY <1>1, <3>1, StepsTask
    <3>3. TaskDone(t)
      BY <2>1, <2>4 DEF Started
    <3> QED  BY <1>1, <1>2, <2>1, <3>2, <3>3, PlainStep
  <2> QED  BY <2>3, <2>4
<1>5. CASE ~AlreadyRuns(s)
  <2>1. PICK p \in Pids :
            /\ proc[p] = NoProcess /\ proc' = [proc EXCEPT ![p] = [svc |-> s, state |-> "starting"]]
            /\ cli' = [cli EXCEPT ![t].seen = records, ![t].pid = p, ![t].step = "save"]
    BY <1>5 DEF StartService
  <2> DEFINE new == [cli[t] EXCEPT !.seen = records, !.pid = p, !.step = "save"]
  <2>2. /\ new \in CliCommands /\ new.seen = records /\ new.pid = p /\ new.step = "save"
        /\ new.todo = cli[t].todo /\ new.name = cli[t].name
    BY <1>1, PidNumbers DEF CliCommands, StepKinds
  <2>3. cli' = [cli EXCEPT ![t] = new]
    BY <1>1, <2>1
  <2> HIDE DEF new
  <2>4. /\ cli' \in [Terminals -> CliCommands] /\ \A u \in Terminals : u # t => cli'[u] = cli[u]
        /\ cli'[t].seen = records /\ cli'[t].pid = p /\ cli'[t].step = "save"
        /\ cli'[t].todo = cli[t].todo /\ cli'[t].name = cli[t].name
    BY <1>1, <2>2, <2>3
  <2>5. /\ proc' \in [Pids -> ServiceProcesses] /\ proc'[p].svc = s /\ proc'[p].state = "starting"
        /\ \A q \in Pids : q # p => proc'[q] = proc[q]
    BY <1>1, <2>1 DEF ServiceProcesses
  <2>6. ControlTypeOK'
    BY <1>1, <1>2, <1>3, <2>4, <2>5 DEF ControlTypeOK, CliCommands
  <2>7. ProcsStay /\ proc[p].state = "absent"
    BY <2>1, <2>5 DEF ProcsStay, NoProcess, IsAlive
  <2>8. RecordsInv'
    <3>1. RecordsFit(records', proc')
      BY <1>1, <1>3, <2>7, FitsStill DEF RecordsInv, StepIsSound
    <3>2. \A u \in Terminals : u # t => StepIsSound(u)'
      BY <1>1, <2>4, <2>7, OthersFit
    <3>3. StepFits(t)' /\ Of(t)' = s
      BY <1>1, <2>4, StepsTask DEF StepFits, Of, InCommand
    <3>4. records[s] # 0 => proc'[records[s]].state \notin {"starting", "up"}
      <4>1. records[s] # 0 => records[s] \in Pids /\ ~IsAlive(records[s])
                              /\ proc[records[s]].state # "absent"
        BY <1>1, <1>5, PidNumbers DEF AlreadyRuns, Running, IsAlive, RecordsInv, StepIsSound, RecordsFit
      <4> QED  BY <2>7, <4>1 DEF ProcsStay
    <3>5. RecordsFit(cli'[t].seen, proc') /\ cli'[t].pid \in Pids /\ proc'[cli'[t].pid].svc = Of(t)'
          /\ proc'[cli'[t].pid].state # "absent"
          /\ (cli'[t].seen[Of(t)'] # 0 => proc'[cli'[t].seen[Of(t)']].state \notin {"starting", "up"})
      BY <1>3, <2>4, <2>5, <3>1, <3>3, <3>4
    <3> QED  BY <3>1, <3>2, <3>3, <3>5 DEF RecordsInv, StepIsSound, IsAlive
  <2>9. EveryProcessIsKnown'
    <3> SUFFICES ASSUME NEW x \in ServiceNames, NEW q \in Pids, q \in LivePids(x)'
                 PROVE  \/ records'[x] = q
                        \/ \E u \in Terminals : At(u, "save")' /\ cli'[u].pid = q
                        \/ q \in lost'
      BY DEF EveryProcessIsKnown, LivePids
    <3>1. CASE q = p
      <4>1. At(t, "save")' /\ cli'[t].pid = p
        BY <1>1, <2>4 DEF At, InCommand
      <4> QED  BY <3>1, <4>1
    <3>2. CASE q # p
      <4>1. q \in LivePids(x)
        BY <2>5, <3>2 DEF LivePids
      <4>2. \A u \in Terminals : At(u, "save") => At(u, "save")' /\ cli'[u].pid = cli[u].pid
        BY <1>1, <2>4 DEF At, InCommand
      <4> QED  BY <1>3, <4>1, <4>2 DEF ControlInv, EveryProcessIsKnown
    <3> QED  BY <3>1, <3>2
  <2>10. WipesNothingInUse'
    BY <1>1, <1>3, <2>6, <2>7, WipesStay DEF ControlInv
  <2>11. quiet[t] /\ cli[t].name \in Starting => OnTheWay(t)'
    <3>1. quiet[t] /\ cli[t].name \in Starting => OnTheWay(t)
      BY <1>1 DEF ControlInv, TruthInv
    <3>2. \A x \in ServiceNames : Serves(x) => Serves(x)'
      BY <2>1, <2>5, <2>7 DEF Serves, IsAlive
    <3> QED  BY <1>2, <2>4, <2>5, <3>1, <3>2, StillOnTheWay
  <2>12. QuietInv' /\ TruthInv'
    BY <1>1, <1>3, <2>4, <2>11, OneIsQuiet
  <2> QED  BY <2>4, <2>6, <2>8, <2>9, <2>10, <2>11, <2>12 DEF StepKeeps, ControlInv
<1> QED  BY <1>4, <1>5

\* A quiet command that stops a service has its start still before it.
LEMMA StopKeeps ==
    ASSUME ControlInv, NEW t \in Terminals, StopService(t)
    PROVE  StepKeeps(t)
<1> DEFINE s == Of(t)
           pid == records[s]
<1>1. /\ InCommand(t) /\ At(t, "stop") /\ ~At(t, "save") /\ s \in ServiceNames
      /\ Head(cli[t].todo).op = "stop"
      /\ deceived \in [Terminals -> SUBSET ServiceNames] /\ records \in ServiceRecords
      /\ cli \in [Terminals -> CliCommands] /\ proc \in [Pids -> ServiceProcesses]
      /\ ControlTypeOK /\ QuietInv /\ RecordsInv /\ pid \in 0..MaxPids
  BY StepsTask DEF StopService, At, ControlInv, ControlTypeOK, CliCommands, ServiceRecords
<1>2. UNCHANGED <<records, commands, lost, deceived, quiet, wipedUnder>>
  BY DEF StopService
<1>3. CASE pid = 0
  <2>1. TaskDone(t) /\ proc' = proc
    BY <1>3 DEF StopService
  <2>2. \A x \in ServiceNames : Head(cli[t].todo) # Task("start", x)
    BY <1>1, StepsTask
  <2> QED  BY <1>1, <1>2, <2>1, <2>2, PlainStep
<1>4. CASE pid # 0
  <2>1. /\ pid \in Pids /\ proc[pid].svc = s /\ proc[pid].state # "absent"
        /\ proc' = IF Running(pid) THEN [proc EXCEPT ![pid].state = "ending"] ELSE proc
        /\ cli' = [cli EXCEPT ![t].seen = records, ![t].step = "forget"]
    BY <1>1, <1>4, PidNumbers DEF StopService, RecordsInv, RecordsFit
  <2> DEFINE new == [cli[t] EXCEPT !.seen = records, !.step = "forget"]
  <2>2. /\ new \in CliCommands /\ new.seen = records /\ new.step = "forget"
        /\ new.todo = cli[t].todo /\ new.name = cli[t].name
    BY <1>1 DEF CliCommands, StepKinds
  <2>3. cli' = [cli EXCEPT ![t] = new]
    BY <1>1, <2>1
  <2> HIDE DEF new
  <2>4. /\ cli' \in [Terminals -> CliCommands] /\ \A u \in Terminals : u # t => cli'[u] = cli[u]
        /\ cli'[t].seen = records /\ cli'[t].step = "forget"
        /\ cli'[t].todo = cli[t].todo /\ cli'[t].name = cli[t].name
    BY <1>1, <2>2, <2>3
  <2>5. /\ proc' \in [Pids -> ServiceProcesses] /\ proc'[pid].svc = proc[pid].svc
        /\ proc'[pid].state \in {"ending", "gone"}
        /\ \A q \in Pids : q # pid => proc'[q] = proc[q]
    <3>1. proc[pid] \in [svc : ServiceNames, state : {"starting", "up", "ending", "gone"}]
      BY <1>1, <2>1 DEF ServiceProcesses, NoProcess
    <3>2. CASE Running(pid)
      <4>1. proc' = [proc EXCEPT ![pid] = [proc[pid] EXCEPT !.state = "ending"]]
        BY <2>1, <3>2
      <4> QED  BY <1>1, <2>1, <3>1, <4>1 DEF ServiceProcesses
    <3>3. CASE ~Running(pid)
      BY <1>1, <1>4, <2>1, <3>1, <3>3 DEF Running
    <3> QED  BY <3>2, <3>3
  <2>6. ControlTypeOK'
    BY <1>1, <1>2, <2>4, <2>5 DEF ControlTypeOK, CliCommands
  <2>7. ProcsStay /\ \A q \in Pids : proc[q].state = "absent" => proc'[q] = proc[q]
    BY <2>1, <2>5 DEF ProcsStay, IsAlive
  <2>8. RecordsInv'
    <3>1. RecordsFit(records', proc')
      BY <1>1, <1>2, <2>7, FitsStill DEF RecordsInv
    <3>2. \A u \in Terminals : u # t => StepIsSound(u)'
      BY <1>1, <2>4, <2>7, OthersFit
    <3>3. StepFits(t)' /\ Of(t)' = s /\ ~At(t, "save")'
      BY <1>1, <2>4 DEF StepFits, Of, InCommand, At
    <3>4. StepIsSound(t)'
      BY <1>2, <2>4, <2>5, <3>1, <3>3 DEF StepIsSound, IsAlive
    <3> QED  BY <3>1, <3>2, <3>4 DEF RecordsInv
  <2>9. EveryProcessIsKnown' /\ WipesNothingInUse'
    <3>1. \A u \in Terminals : At(u, "save") => At(u, "save")' /\ cli'[u].pid = cli[u].pid
      BY <1>1, <2>4 DEF At, InCommand
    <3> QED  BY <1>1, <1>2, <2>6, <2>7, <3>1, KnownStays, WipesStay DEF ControlInv
  <2>10. quiet[t] /\ cli[t].name \in Starting => OnTheWay(t)'
    <3>1. quiet[t] /\ cli[t].name \in Starting => OnTheWay(t)
      BY <1>1 DEF ControlInv, TruthInv
    <3>2. ASSUME OnTheWay(t) PROVE OnTheWay(t)'
      <4>1. \A x \in ServiceNames : StartsLater(t, x)
        <5>1. Len(cli[t].todo) \in Nat \ {0} /\ cli[t].todo[1].op = "stop"
          BY <1>1, FirstTask
        <5>2. 1 \in 1..Len(cli[t].todo)
          BY <5>1
        <5> QED  BY <3>2, <5>1, <5>2 DEF OnTheWay, StartsLater
      <4>2. ~At(t, "save")' /\ deceived' = deceived
        BY <1>2, <2>4 DEF At
      <4> QED  BY <2>4, <3>2, <4>1, <4>2, StillOnTheWay
    <3> QED  BY <3>1, <3>2
  <2>11. QuietInv' /\ TruthInv'
    BY <1>1, <1>2, <2>4, <2>10, OneIsQuiet
  <2> QED  BY <2>4, <2>6, <2>8, <2>9, <2>10, <2>11 DEF StepKeeps, ControlInv
<1> QED  BY <1>3, <1>4

\* The records are written whole, as the step read them, but for its own service.
LEMMA WritingKeeps ==
    ASSUME ControlInv, NEW t \in Terminals, NEW new \in 0..MaxPids,
           \/ At(t, "save") /\ new = cli[t].pid
           \/ At(t, "forget") /\ new = 0,
           WriteRecords(t, [cli[t].seen EXCEPT ![Of(t)] = new]),
           proc' = proc
    PROVE  /\ records' \in ServiceRecords /\ lost' \subseteq Pids /\ lost \subseteq lost'
           /\ RecordsFit(records', proc')
           /\ \A s \in ServiceNames : \A p \in LivePids(s) :
                 \/ records'[s] = p
                 \/ \E u \in Terminals \ {t} : At(u, "save") /\ cli[u].pid = p
                 \/ p \in lost'
<1> DEFINE seen == cli[t].seen
           updated == [seen EXCEPT ![Of(t)] = new]
           stale == {s \in ServiceNames : records[s] \notin {seen[s], updated[s]}}
<1>1. /\ InCommand(t) /\ Of(t) \in ServiceNames /\ seen \in ServiceRecords
      /\ records \in ServiceRecords /\ lost \subseteq Pids /\ StepIsSound(t)
      /\ records' = updated /\ lost' = lost \cup ({records[s] : s \in stale} \ {0})
  BY StepsTask DEF At, ControlInv, ControlTypeOK, RecordsInv, WriteRecords
<1>2. /\ updated \in ServiceRecords /\ updated[Of(t)] = new
      /\ \A s \in ServiceNames : s # Of(t) => updated[s] = seen[s]
  BY <1>1 DEF ServiceRecords
<1>3. \A s \in ServiceNames : records[s] # 0 => records[s] \in Pids
  BY <1>1, PidNumbers DEF ServiceRecords
<1>4. records' \in ServiceRecords /\ lost' \subseteq Pids /\ lost \subseteq lost'
  <2> HIDE DEF updated
  <2> QED  BY <1>1, <1>2, <1>3
<1>5. RecordsFit(records', proc')
  <2>1. new # 0 => proc[new].svc = Of(t) /\ proc[new].state # "absent"
    BY <1>1 DEF StepIsSound
  <2> HIDE DEF updated
  <2> QED  BY <1>1, <1>2, <2>1 DEF StepIsSound, RecordsFit
<1>6. ASSUME NEW s \in ServiceNames, NEW p \in LivePids(s)
      PROVE  \/ records'[s] = p
             \/ \E u \in Terminals \ {t} : At(u, "save") /\ cli[u].pid = p
             \/ p \in lost'
  <2>1. p \in Pids /\ p # 0 /\ IsAlive(p) /\ proc[p].svc = s
    BY PidNumbers DEF LivePids, IsAlive
  <2>2. CASE records[s] = p
    <3>1. seen[s] = p => s # Of(t)
      BY <1>1, <2>1, <2>2 DEF StepIsSound
    <3>2. updated[s] = p \/ s \in stale
      <4> HIDE DEF updated
      <4> QED  BY <1>2, <2>2, <3>1
    <3> HIDE DEF updated, stale
    <3> QED  BY <1>1, <2>1, <2>2, <3>2
  <2>3. CASE At(t, "save") /\ cli[t].pid = p
    <3>1. s = Of(t) /\ new = p
      BY <1>1, <2>1, <2>3 DEF StepIsSound, At
    <3> HIDE DEF updated
    <3> QED  BY <1>1, <1>2, <3>1
  <2>4. CASE p \in lost
    BY <1>4, <2>4
  <2> QED  BY <2>2, <2>3, <2>4 DEF ControlInv, EveryProcessIsKnown
<1> QED  BY <1>4, <1>5, <1>6

LEMMA SaveKeeps ==
    ASSUME ControlInv, NEW t \in Terminals, SaveRecord(t)
    PROVE  StepKeeps(t)
<1>1. /\ InCommand(t) /\ At(t, "save") /\ Of(t) \in ServiceNames
      /\ Head(cli[t].todo).op = "start" /\ cli[t].pid \in 0..MaxPids /\ StepIsSound(t)
      /\ deceived \in [Terminals -> SUBSET ServiceNames]
  BY StepsTask DEF SaveRecord, At, ControlInv, ControlTypeOK, RecordsInv
<1>2. /\ UNCHANGED <<proc, commands, deceived, quiet, wipedUnder>> /\ Started(t)
      /\ WriteRecords(t, [cli[t].seen EXCEPT ![Of(t)] = cli[t].pid])
  BY DEF SaveRecord
<1>3. /\ records' \in ServiceRecords /\ lost' \subseteq Pids /\ lost \subseteq lost'
      /\ RecordsFit(records', proc')
      /\ \A s \in ServiceNames : \A p \in LivePids(s) :
            \/ records'[s] = p
            \/ \E u \in Terminals \ {t} : At(u, "save") /\ cli[u].pid = p
            \/ p \in lost'
  BY <1>1, <1>2, WritingKeeps
<1>4. wipedUnder' \subseteq Pids /\ WipesNothingInUse'
  BY <1>2, <1>3 DEF ControlInv, ControlTypeOK, WipesNothingInUse
<1>5. CASE Of(t) \in Probed
  BY <1>1, <1>2, <1>3, <1>4, <1>5, CommandGoesOn DEF Started
<1>6. CASE Of(t) \notin Probed
  <2>1. quiet[t] /\ cli[t].name \in Starting => Serves(Of(t))
    BY <1>1, <1>6 DEF ControlInv, TruthInv, OnTheWay, Serves, StepIsSound
  <2>2. quiet[t] /\ cli[t].name \in Starting => \A s \in ServiceNames :
            Head(cli[t].todo) = Task("start", s) => s \in deceived'[t] \/ Serves(s)
    BY <1>1, <2>1, StepsTask
  <2> QED  BY <1>1, <1>2, <1>3, <1>4, <1>6, <2>2, CommandGoesOn DEF Started
<1> QED  BY <1>5, <1>6

LEMMA ForgetKeeps ==
    ASSUME ControlInv, NEW t \in Terminals, ForgetRecord(t)
    PROVE  StepKeeps(t)
<1>1. /\ InCommand(t) /\ At(t, "forget") /\ Head(cli[t].todo).op = "stop"
      /\ deceived \in [Terminals -> SUBSET ServiceNames]
  BY StepsTask DEF ForgetRecord, At, ControlInv, ControlTypeOK
<1>2. /\ UNCHANGED <<proc, commands, deceived, quiet, wipedUnder>> /\ TaskDone(t)
      /\ WriteRecords(t, [cli[t].seen EXCEPT ![Of(t)] = 0])
  BY DEF ForgetRecord
<1>3. /\ records' \in ServiceRecords /\ lost' \subseteq Pids /\ lost \subseteq lost'
      /\ RecordsFit(records', proc')
      /\ \A s \in ServiceNames : \A p \in LivePids(s) :
            \/ records'[s] = p
            \/ \E u \in Terminals \ {t} : At(u, "save") /\ cli[u].pid = p
            \/ p \in lost'
  BY <1>1, <1>2, WritingKeeps, PidNumbers
<1>4. wipedUnder' \subseteq Pids /\ WipesNothingInUse'
  BY <1>2, <1>3 DEF ControlInv, ControlTypeOK, WipesNothingInUse
<1>5. \A s \in ServiceNames : Head(cli[t].todo) # Task("start", s)
  BY <1>1, StepsTask
<1> QED  BY <1>1, <1>2, <1>3, <1>4, <1>5, CommandGoesOn

\* A quiet reset finds every process it wipes under, and that was not told to end, in a record
\* that it takes away with the rest.
LEMMA ClearKeeps ==
    ASSUME ControlInv, NEW t \in Terminals, ClearRecords(t)
    PROVE  StepKeeps(t)
<1>1. /\ InCommand(t) /\ At(t, "clear") /\ Head(cli[t].todo).op = "clear"
      /\ deceived \in [Terminals -> SUBSET ServiceNames]
      /\ records \in ServiceRecords /\ lost \subseteq Pids
  BY StepsTask DEF ClearRecords, At, ControlInv, ControlTypeOK
<1>2. /\ UNCHANGED <<proc, commands, deceived, quiet>> /\ TaskDone(t)
      /\ records' = NoRecords /\ lost' = lost \cup ({records[s] : s \in ServiceNames} \ {0})
      /\ wipedUnder' = IF cli[t].name = "reset" /\ quiet[t]
                       THEN wipedUnder \cup {p \in Pids : Running(p)} ELSE wipedUnder
  BY DEF ClearRecords
<1>3. records' \in ServiceRecords /\ RecordsFit(records', proc')
  BY <1>2, NothingSeen
<1>4. lost' \subseteq Pids /\ lost \subseteq lost'
  BY <1>1, <1>2, PidNumbers DEF ServiceRecords
<1>5. ASSUME NEW s \in ServiceNames, NEW p \in LivePids(s)
      PROVE  (\E u \in Terminals \ {t} : At(u, "save") /\ cli[u].pid = p) \/ p \in lost'
  <2>1. p # 0
    BY PidNumbers DEF LivePids
  <2>2. records[s] = p => p \in lost'
    BY <1>2, <2>1
  <2>3. ~At(t, "save")
    BY <1>1 DEF At
  <2> QED  BY <1>4, <2>2, <2>3 DEF ControlInv, EveryProcessIsKnown
<1>6. wipedUnder' \subseteq Pids /\ WipesNothingInUse'
  <2>1. quiet[t] => \A u \in Terminals \ {t} : ~At(u, "save")
    BY <1>1 DEF ControlInv, QuietInv, At
  <2>2. \A p \in Pids : Running(p) =>
            proc[p].state = "ending" \/ \E s \in ServiceNames : p \in LivePids(s)
    BY DEF Running, LivePids, ControlInv, ControlTypeOK, ServiceProcesses, NoProcess
  <2>3. ASSUME NEW p \in wipedUnder'
        PROVE  p \in Pids /\ (p \in lost' \/ proc'[p].state \in {"ending", "gone"})
    <3>1. CASE p \in wipedUnder
      BY <1>2, <1>4, <3>1 DEF ControlInv, ControlTypeOK, WipesNothingInUse
    <3>2. CASE p \notin wipedUnder
      BY <1>2, <1>5, <2>1, <2>2, <2>3, <3>2
    <3> QED  BY <3>1, <3>2
  <2> QED  BY <2>3 DEF WipesNothingInUse
<1>7. \A s \in ServiceNames : Head(cli[t].todo) # Task("start", s)
  BY <1>1, StepsTask
<1> QED  BY <1>1, <1>2, <1>3, <1>4, <1>5, <1>6, <1>7, CommandGoesOn

\* What a step of a terminal does to the command of another, or begins, ends no command.
LEMMA ControlStep ==
    ASSUME ControlInv, [ControlNext]_cliVars
    PROVE  ControlInv' /\ \A t \in Terminals : TellsTheTruth(t)
<1>1. ASSUME ControlInv', NEW t \in Terminals, cli'[t] = cli[t] PROVE TellsTheTruth(t)
  BY <1>1 DEF TellsTheTruth, InCommand
<1>2. ASSUME NEW u \in Terminals, InCommand(u), StepKeeps(u)
      PROVE  ControlInv' /\ \A t \in Terminals : TellsTheTruth(t)
  <2>1. ControlInv' /\ \A t \in Terminals : t # u => TellsTheTruth(t)
    BY <1>1, <1>2 DEF StepKeeps
  <2>2. TellsTheTruth(u)
    <3> SUFFICES ASSUME cli[u].name \in Starting, quiet[u], cli'[u].name # "none",
                        cli'[u].todo = <<>>, NEW s \in ServiceNames, s \notin deceived'[u]
                 PROVE  Serves(s)'
      BY DEF TellsTheTruth, Starting, Serves, IsAlive
    <3>1. OnTheWay(u)'
      BY <1>2 DEF StepKeeps
    <3>2. ~StartsLater(u, s)'
      BY DEF StartsLater
    <3> QED  BY <3>1, <3>2 DEF OnTheWay
  <2> QED  BY <2>1, <2>2
<1>3. CASE UNCHANGED cliVars
  <2>1. ControlTypeOK' /\ RecordsInv' /\ QuietInv' /\ WipesNothingInUse'
    <3>1. ControlTypeOK' /\ QuietInv' /\ WipesNothingInUse'
      BY <1>3 DEF cliVars, ControlInv, ControlTypeOK, InCommand, QuietInv, WipesNothingInUse
    <3>2. ProcsStay /\ RecordsFit(records', proc') /\ \A u \in Terminals : cli'[u] = cli[u]
      BY <1>3 DEF cliVars, ControlInv, RecordsInv, ProcsStay, IsAlive
    <3>3. \A u \in Terminals : StepIsSound(u)'
      BY <3>2, OthersFit DEF ControlInv
    <3> QED  BY <3>1, <3>2, <3>3 DEF RecordsInv
  <2>2. EveryProcessIsKnown'
    BY <1>3 DEF cliVars, ControlInv, EveryProcessIsKnown, LivePids, At, InCommand
  <2>3. TruthInv'
    BY <1>3 DEF cliVars, ControlInv, TruthInv, OnTheWay, StartsLater, Serves, At, InCommand, Of, IsAlive
  <2>4. ControlInv' /\ cli' = cli
    BY <1>3, <2>1, <2>2, <2>3 DEF ControlInv, cliVars
  <2> QED  BY <1>1, <2>4
<1>4. ASSUME NEW p \in Pids, ComeUp(p) \/ FailToListen(p) \/ EndProcess(p) \/ Die(p)
      PROVE  ControlInv' /\ \A t \in Terminals : TellsTheTruth(t)
  <2>1. ControlInv' /\ cli' = cli
    BY <1>4, ProcessesMove, ProcessDies DEF ComeUp, FailToListen, EndProcess, Die
  <2> QED  BY <1>1, <2>1
<1>5. ASSUME NEW u \in Terminals, NEW name \in Names, GiveCommand(u, name)
      PROVE  ControlInv' /\ \A t \in Terminals : TellsTheTruth(t)
  <2>1. ControlInv' /\ ~InCommand(u) /\ \A t \in Terminals : t # u => cli'[t] = cli[t]
    BY <1>5, CommandIsGiven DEF GiveCommand, ControlInv, ControlTypeOK
  <2>2. TellsTheTruth(u)
    BY <2>1 DEF TellsTheTruth
  <2> QED  BY <1>1, <2>1, <2>2
<1>6. ASSUME NEW u \in Terminals, NEW answered \in BOOLEAN, Probe(u, answered)
      PROVE  ControlInv' /\ \A t \in Terminals : TellsTheTruth(t)
  BY <1>2, <1>6, ProbeKeeps DEF Probe, At
<1>7. ASSUME NEW u \in Terminals, NEW by \in Pids, AwaitHealth(u, by)
      PROVE  ControlInv' /\ \A t \in Terminals : TellsTheTruth(t)
  BY <1>2, <1>7, WaitKeeps DEF AwaitHealth, At
<1>8. ASSUME NEW u \in Terminals, StartService(u)
      PROVE  ControlInv' /\ \A t \in Terminals : TellsTheTruth(t)
  BY <1>2, <1>8, StartKeeps DEF StartService, At
<1>9. ASSUME NEW u \in Terminals, SaveRecord(u)
      PROVE  ControlInv' /\ \A t \in Terminals : TellsTheTruth(t)
  BY <1>2, <1>9, SaveKeeps DEF SaveRecord, At
<1>10. ASSUME NEW u \in Terminals, GiveUpWaiting(u)
       PROVE  ControlInv' /\ \A t \in Terminals : TellsTheTruth(t)
  BY <1>2, <1>10, GivingUpKeeps DEF GiveUpWaiting, At
<1>11. ASSUME NEW u \in Terminals, StopService(u)
       PROVE  ControlInv' /\ \A t \in Terminals : TellsTheTruth(t)
  BY <1>2, <1>11, StopKeeps DEF StopService, At
<1>12. ASSUME NEW u \in Terminals, ForgetRecord(u)
       PROVE  ControlInv' /\ \A t \in Terminals : TellsTheTruth(t)
  BY <1>2, <1>12, ForgetKeeps DEF ForgetRecord, At
<1>13. ASSUME NEW u \in Terminals, NEW yes \in BOOLEAN, Confirm(u, yes)
       PROVE  ControlInv' /\ \A t \in Terminals : TellsTheTruth(t)
  BY <1>2, <1>13, ConfirmKeeps DEF Confirm, At
<1>14. ASSUME NEW u \in Terminals, ClearRecords(u)
       PROVE  ControlInv' /\ \A t \in Terminals : TellsTheTruth(t)
  BY <1>2, <1>14, ClearKeeps DEF ClearRecords, At
<1> QED  BY <1>3, <1>4, <1>5, <1>6, <1>7, <1>8, <1>9, <1>10, <1>11, <1>12, <1>13, <1>14
         DEF ControlNext

\* Two processes of a service that are both known are known from two places: one record, and the
\* process that a command is about to record, or a record that was taken away.
LEMMA KnownIsOneOfEach == ControlInv => OneOfEach
<1> SUFFICES ASSUME ControlInv, NEW s \in ServiceNames, NEW p \in LivePids(s), NEW q \in LivePids(s),
                    p # q, {p, q} \cap lost = {}
             PROVE  \E t \in Terminals : At(t, "save") /\ Of(t) = s
  BY DEF OneOfEach
<1>1. PICK r \in {p, q} : records[s] # r
  OBVIOUS
<1>2. PICK t \in Terminals : At(t, "save") /\ cli[t].pid = r
  BY <1>1 DEF ControlInv, EveryProcessIsKnown
<1>3. proc[r].svc = s
  BY DEF LivePids
<1> QED  BY <1>2, <1>3 DEF ControlInv, RecordsInv, StepIsSound

\* The type invariant of the service control holds for every number of services, terminals,
\* processes and commands.
THEOREM ControlTypesHold == ControlSpec => []ControlTypeOK
<1>1. ControlInv /\ [ControlNext]_cliVars => ControlInv'
  BY ControlStep
<1>2. ControlInv => ControlTypeOK
  BY DEF ControlInv
<1> QED  BY ControlAtFirst, <1>1, <1>2, PTL DEF ControlSpec

\* However many commands run at once and whatever processes die meanwhile: every live process
\* can be found, a service has a second one only where a write lost the record of the first, a
\* quiet reset wipes only under processes told to end, though it does not wait for their exit,
\* or whose record was lost, and a quiet command that says the services are started tells the
\* truth (floe-cli/src/process-manager.ts, cli.ts, reset.ts).
THEOREM ServicesStayControlled == ControlSpec => ServicesAreControlled
<1>1. ControlInv /\ [ControlNext]_cliVars => ControlInv'
  BY ControlStep
<1>2. ControlInv => EveryProcessIsKnown /\ OneOfEach /\ WipesNothingInUse
  BY KnownIsOneOfEach DEF ControlInv
<1> DEFINE Tells == \A t \in Terminals : TellsTheTruth(t)
<1>3. ControlInv /\ [ControlNext]_cliVars => [Tells]_cliVars
  BY ControlStep
<1>4. ControlSpec => []ControlInv
  BY ControlAtFirst, <1>1, PTL DEF ControlSpec
<1>5. ControlSpec => [][Tells]_cliVars
  <2> HIDE DEF Tells
  <2> QED  BY <1>3, <1>4, PTL DEF ControlSpec
<1> QED  BY <1>2, <1>4, <1>5, PTL DEF ServicesAreControlled

-----------------------------------------------------------------------------
(* The choice of a model: types                                            *)

LEMMA BindingShapes ==
    /\ Inherit \in Coherent /\ NoControl \in Controls
    /\ NoSave \in SaveStates /\ NoRequest \in RequestStates
    /\ Inherit.profile = Unset /\ Inherit.model = Unset
    /\ Workspace \in Slots /\ Host \in Slots /\ BoundActors \subseteq Slots
    /\ Unset \notin BoundActors /\ Workspace \notin BoundActors
<1>1. Inherit \in Coherent
  BY DEF Inherit, Coherent, Selection
<1> QED  BY <1>1, BindingAssumption
         DEF NoControl, Controls, NoSave, SaveStates, NoRequest, RequestStates, Inherit, Slots

LEMMA SentIsTyped ==
    ASSUME NEW slot \in Slots, NEW s \in Coherent, NEW opener \in {"inspector", "control", "gone"}
    PROVE  /\ SentBy(opener, slot, s) \in SaveStates
           /\ SentBy(opener, slot, s).stage = "sent" /\ SentBy(opener, slot, s).from = opener
           /\ SentBy(opener, slot, s).slot = slot /\ SentBy(opener, slot, s).choice = s
           /\ RequestOf(slot) \in RequestStates
           /\ RequestOf(slot).stage = "sent" /\ RequestOf(slot).slot = slot
BY BindingShapes DEF SentBy, SaveStates, RequestOf, RequestStates

LEMMA ClickIsNumbered ==
    ASSUME choices \in 0 .. MaxChoices, Clicks
    PROVE  choices + 1 \in Clicked /\ choices + 1 \in Asked /\ choices' \in 0 .. MaxChoices
BY BindingAssumption DEF Clicks, Clicked, Asked

LEMMA ClickedAreAsked == Clicked \subseteq Asked /\ 0 \in Asked
BY BindingAssumption DEF Clicked, Asked

\* What each kind of step leaves of the bounds.
LEMMA BindingCounts ==
    ASSUME BindingTypeOK, Clicks \/ NoClicks \/ BindFault
    PROVE  choices' \in 0 .. MaxChoices /\ bindFaults' \in 0 .. MaxBindFaults /\ declared' \in Declarations
<1>1. choices \in 0 .. MaxChoices /\ bindFaults \in 0 .. MaxBindFaults /\ declared \in Declarations
  BY DEF BindingTypeOK
<1> QED  BY <1>1, BindingAssumption DEF Clicks, NoClicks, BindFault

-----------------------------------------------------------------------------
(* The steps of a save and of a request, by their records                  *)

LEMMA TakenIsTyped ==
    ASSUME NEW r \in SaveStates
    PROVE  LET new == [r EXCEPT !.stage = "taken"] IN
           new \in SaveStates /\ new.stage = "taken" /\ new.from = r.from
           /\ new.slot = r.slot /\ new.choice = r.choice
BY DEF SaveStates

LEMMA GoneIsTyped ==
    ASSUME NEW r \in SaveStates
    PROVE  LET new == [r EXCEPT !.from = "gone"] IN
           new \in SaveStates /\ new.stage = r.stage /\ new.from = "gone"
BY DEF SaveStates

LEMMA AnswerIsTyped ==
    ASSUME NEW r \in RequestStates, NEW s \in Coherent
    PROVE  LET new == [r EXCEPT !.stage = "answered", !.answer = s] IN
           new \in RequestStates /\ new.stage = "answered" /\ new.slot = r.slot /\ new.answer = s
BY DEF RequestStates

\* The model control moves to another step, with another form, saved or not.
LEMMA ControlIsTyped ==
    ASSUME NEW c \in Controls, NEW step \in {"loading", "answered", "loaded", "saving"},
           NEW s \in Coherent, NEW done \in BOOLEAN
    PROVE  LET new == [c EXCEPT !.step = step, !.form = s, !.saved = done] IN
           new \in Controls /\ new.open = c.open /\ new.step = step /\ new.form = s /\ new.saved = done
BY DEF Controls

LEMMA ControlMoves ==
    ASSUME NEW c \in Controls, NEW step, NEW s, NEW done
    PROVE  /\ [c EXCEPT !.step = step] = [c EXCEPT !.step = step, !.form = c.form, !.saved = c.saved]
           /\ [c EXCEPT !.step = step, !.saved = done] =
                 [c EXCEPT !.step = step, !.form = c.form, !.saved = done]
           /\ [c EXCEPT !.step = step, !.form = s] =
                 [c EXCEPT !.step = step, !.form = s, !.saved = c.saved]
BY DEF Controls

LEMMA OpenIsTyped ==
    LET new == [NoControl EXCEPT !.open = TRUE] IN
    /\ new \in Controls /\ new.open = TRUE /\ new.step = "loading" /\ new.saved = FALSE
    /\ NoControl.open = FALSE /\ NoControl.step = "loading" /\ NoControl.saved = FALSE
BY BindingShapes DEF NoControl, Controls

-----------------------------------------------------------------------------
(* The choice of a model: the invariant                                    *)

\* One view is open, saves in flight belong to it or to one that is gone, and the control waits
\* for its only save.
ViewsInv ==
    /\ inspected # Unset => control = NoControl
    /\ ~control.open => control = NoControl
    /\ \A i \in Clicked : Saving(i) => inspected # Unset /\ saves[i].slot \in BoundActors
    /\ \A i \in Clicked : saves[i].stage = "taken" => saves[i].from # "gone"
    /\ \A i \in Clicked : OfControl(i) =>
          control.step = "saving" /\ saves[i].slot = Workspace /\ saves[i].choice = control.form
    /\ \A i, k \in Clicked : OfControl(i) /\ OfControl(k) => i = k
    /\ control.saved => control.step = "loaded"

\* What the control has read or saved is what is stored.
StoredInv ==
    control.open /\ ~landedUnseen =>
        /\ control.step = "answered" \/ control.saved => control.form = bound[Workspace]
        /\ \A i \in Clicked : OfControl(i) /\ saves[i].stage = "taken" =>
                                  control.form = bound[Workspace]

\* i alone is in flight, for the actor on display, and brings what is stored.
OneLoad(i) ==
    /\ Loading(i) /\ requests[i].slot = inspected
    /\ requests[i].stage = "answered" => requests[i].answer = bound[inspected]
    /\ \A k \in Asked : Loading(k) => k = i
    /\ \A k \in Clicked : ~Saving(k)
OneSave(i) ==
    /\ Saving(i) /\ saves[i].slot = inspected /\ saves[i].choice = form
    /\ saves[i].stage = "taken" => form = bound[inspected]
    /\ \A k \in Clicked : Saving(k) => k = i
    /\ \A k \in Asked : ~Loading(k)

FormInv ==
    inspected # Unset /\ ~disturbed =>
        \/ ~Busy /\ form = bound[inspected]
        \/ \E i \in Asked : OneLoad(i)
        \/ \E i \in Clicked : OneSave(i)

BindingInv == BindingTypeOK /\ ViewsInv /\ StoredInv /\ FormInv

-----------------------------------------------------------------------------
(* The choice of a model: the control's own steps                          *)

LEMMA ControlIsAlone ==
    ASSUME BindingInv, control.open \/ control.step # "loading"
    PROVE  inspected = Unset /\ control.open /\ \A i \in Clicked : ~Saving(i)
BY OpenIsTyped DEF BindingInv, ViewsInv

LEMMA SaveIsOneOf ==
    ASSUME BindingTypeOK, NEW i \in Clicked, saves[i].stage # "none"
    PROVE  Saving(i) \/ OfControl(i) \/ saves[i].from = "gone"
BY DEF BindingTypeOK, SaveStates, Saving, OfControl

\* The control's step from its typed record, when no save changes.
LEMMA ControlStepKeeps ==
    ASSUME BindingInv, control.open, control.step # "saving", NEW new \in Controls,
           control' = new, new.open = TRUE, new.step \in {"answered", "loaded"},
           new.saved => new.step = "loaded",
           ~landedUnseen /\ (new.step = "answered" \/ new.saved) => new.form = bound[Workspace],
           ControlSteps, UNCHANGED saves, NoClicks \/ BindFault
    PROVE  BindingInv'
<1>1. inspected = Unset /\ \A i \in Clicked : ~Saving(i) /\ ~OfControl(i)
  BY ControlIsAlone DEF BindingInv, ViewsInv
<1>2. UNCHANGED <<bound, inspected, form, requests, disturbed, landedUnseen, saves>>
  BY DEF ControlSteps
<1>3. BindingTypeOK'
  BY <1>2, BindingCounts DEF BindingInv, BindingTypeOK
<1>4. \A i \in Clicked : ~Saving(i)' /\ ~OfControl(i)'
  BY <1>1, <1>2 DEF Saving, OfControl
<1>5. ViewsInv'
  BY <1>1, <1>2, <1>4 DEF BindingInv, ViewsInv
<1>6. StoredInv' /\ FormInv'
  BY <1>1, <1>2, <1>4 DEF StoredInv, FormInv
<1> QED  BY <1>3, <1>5, <1>6 DEF BindingInv

LEMMA ControlAnsweredKeeps ==
    ASSUME BindingInv, ControlAnswered
    PROVE  BindingInv'
<1> DEFINE new == [control EXCEPT !.step = "answered", !.form = bound[Workspace]]
<1>1. control \in Controls /\ bound[Workspace] \in Coherent /\ control.saved \in BOOLEAN
  BY BindingShapes DEF BindingInv, BindingTypeOK, Controls
<1>2. control.open /\ control.step = "loading" /\ control' = new
      /\ NoClicks /\ ControlSteps /\ UNCHANGED saves
  BY DEF ControlAnswered
<1>3. new \in Controls /\ new.open = TRUE /\ new.step = "answered" /\ new.form = bound[Workspace]
      /\ new.saved = control.saved
  BY <1>1, <1>2 DEF Controls
<1>4. ~control.saved
  BY <1>2 DEF BindingInv, ViewsInv
<1> HIDE DEF new
<1> QED  BY <1>2, <1>3, <1>4, ControlStepKeeps

LEMMA ControlLoadedKeeps ==
    ASSUME BindingInv, ControlLoaded
    PROVE  BindingInv'
<1> DEFINE new == [control EXCEPT !.step = "loaded", !.saved = TRUE]
<1>1. control \in Controls
  BY DEF BindingInv, BindingTypeOK
<1>2. control.step = "answered" /\ control' = new /\ NoClicks /\ ControlSteps /\ UNCHANGED saves
  BY DEF ControlLoaded
<1>3. control.open
  BY <1>2, ControlIsAlone
<1>4. new \in Controls /\ new.open = TRUE /\ new.step = "loaded" /\ new.form = control.form
  BY <1>1, <1>3 DEF Controls
<1>5. ~landedUnseen => control.form = bound[Workspace]
  BY <1>2, <1>3 DEF BindingInv, StoredInv
<1> HIDE DEF new
<1> QED  BY <1>2, <1>3, <1>4, <1>5, ControlStepKeeps

LEMMA ControlLoadFailsKeeps ==
    ASSUME BindingInv, ControlLoadFails
    PROVE  BindingInv'
<1> DEFINE new == [control EXCEPT !.step = "loaded", !.form = Inherit]
<1>1. control \in Controls
  BY DEF BindingInv, BindingTypeOK
<1>2. control.open /\ control.step \in {"loading", "answered"} /\ control' = new
      /\ BindFault /\ ControlSteps /\ UNCHANGED saves
  BY DEF ControlLoadFails
<1>3. ~control.saved
  BY <1>2 DEF BindingInv, ViewsInv
<1>4. new \in Controls /\ new.open = TRUE /\ new.step = "loaded" /\ ~new.saved
  BY <1>1, <1>2, <1>3, BindingShapes DEF Controls
<1> HIDE DEF new
<1> QED  BY <1>2, <1>4, ControlStepKeeps

LEMMA ChooseForWorkspaceKeeps ==
    ASSUME BindingInv, NEW s \in Coherent, ChooseForWorkspace(s)
    PROVE  BindingInv'
<1> DEFINE new == [control EXCEPT !.step = "saving", !.form = s, !.saved = FALSE]
           sent == SentBy("control", Workspace, s)
<1>1. control \in Controls /\ saves \in [Clicked -> SaveStates]
  BY DEF BindingInv, BindingTypeOK
<1>2. control.step = "loaded" /\ control' = new /\ saves' = [saves EXCEPT ![choices + 1] = sent]
      /\ Clicks /\ ControlSteps
  BY DEF ChooseForWorkspace, Save
<1>3. control.open /\ inspected = Unset /\ \A i \in Clicked : ~Saving(i) /\ ~OfControl(i)
  BY <1>2, ControlIsAlone DEF BindingInv, ViewsInv
<1>4. new \in Controls /\ new.open = TRUE /\ new.step = "saving" /\ new.form = s /\ ~new.saved
  BY <1>1, <1>3 DEF Controls
<1>5. sent \in SaveStates /\ sent.stage = "sent" /\ sent.from = "control" /\ sent.slot = Workspace
      /\ sent.choice = s
  BY SentIsTyped, BindingShapes
<1>6. choices + 1 \in Clicked
  BY <1>2, ClickIsNumbered DEF BindingInv, BindingTypeOK
<1> HIDE DEF new, sent
<1>7. UNCHANGED <<bound, inspected, form, requests, disturbed, landedUnseen>>
  BY <1>2 DEF ControlSteps
<1>8. saves' \in [Clicked -> SaveStates]
      /\ \A i \in Clicked : saves'[i] = IF i = choices + 1 THEN sent ELSE saves[i]
  BY <1>1, <1>2, <1>5, <1>6
<1>9. BindingTypeOK'
  BY <1>2, <1>4, <1>7, <1>8, BindingCounts DEF BindingInv, BindingTypeOK
<1>10. \A i \in Clicked : ~Saving(i)' /\ (OfControl(i)' => i = choices + 1)
  BY <1>3, <1>5, <1>8 DEF Saving, OfControl
<1>11. ViewsInv'
  BY <1>2, <1>3, <1>4, <1>5, <1>7, <1>8, <1>10 DEF BindingInv, ViewsInv
<1>12. StoredInv' /\ FormInv'
  BY <1>2, <1>3, <1>4, <1>5, <1>7, <1>8, <1>10 DEF StoredInv, FormInv
<1> QED  BY <1>9, <1>11, <1>12 DEF BindingInv

\* The control's save ends, answered or lost.
LEMMA ControlSaveEnds ==
    ASSUME BindingInv, NEW i \in Clicked, OfControl(i), NEW new \in Controls, control' = new,
           new.open = control.open, new.step = "loaded", new.form = control.form,
           new.saved => saves[i].stage = "taken",
           saves' = [saves EXCEPT ![i] = NoSave], ControlSteps, NoClicks \/ BindFault
    PROVE  BindingInv'
<1>1. saves \in [Clicked -> SaveStates]
  BY DEF BindingInv, BindingTypeOK
<1>2. control.step = "saving"
  BY DEF BindingInv, ViewsInv
<1>3. control.open /\ inspected = Unset /\ \A k \in Clicked : ~Saving(k)
  BY <1>2, ControlIsAlone
<1>4. UNCHANGED <<bound, inspected, form, requests, disturbed, landedUnseen>>
  BY DEF ControlSteps
<1>5. saves' \in [Clicked -> SaveStates] /\ NoSave.stage = "none"
      /\ \A k \in Clicked : saves'[k] = IF k = i THEN NoSave ELSE saves[k]
  BY <1>1, BindingShapes DEF NoSave
<1>6. BindingTypeOK'
  BY <1>4, <1>5, BindingCounts DEF BindingInv, BindingTypeOK
<1>7. \A k \in Clicked : ~Saving(k)' /\ ~OfControl(k)'
  <2> TAKE k \in Clicked
  <2>1. OfControl(k) => k = i
    BY DEF BindingInv, ViewsInv
  <2> QED  BY <1>3, <1>5, <2>1 DEF Saving, OfControl
<1>8. ViewsInv'
  BY <1>3, <1>4, <1>5, <1>7 DEF BindingInv, ViewsInv
<1>9. StoredInv' /\ FormInv'
  <2>1. new.saved /\ ~landedUnseen => control.form = bound[Workspace]
    BY <1>3 DEF BindingInv, StoredInv
  <2> QED  BY <1>3, <1>4, <1>7, <2>1 DEF StoredInv, FormInv
<1> QED  BY <1>6, <1>8, <1>9 DEF BindingInv

LEMMA ControlSavedKeeps ==
    ASSUME BindingInv, NEW i \in Clicked, ControlSaved(i) \/ ControlSaveFails(i)
    PROVE  BindingInv'
<1>1. control \in Controls
  BY DEF BindingInv, BindingTypeOK
<1>2. OfControl(i) /\ saves' = [saves EXCEPT ![i] = NoSave] /\ ControlSteps
  BY DEF ControlSaved, ControlSaveFails
<1>3. control.step = "saving" /\ ~control.saved
  BY <1>2 DEF BindingInv, ViewsInv
<1>4. CASE ControlSaved(i)
  <2> DEFINE new == [control EXCEPT !.step = "loaded", !.saved = TRUE]
  <2>1. new \in Controls /\ new.open = control.open /\ new.step = "loaded" /\ new.form = control.form
    BY <1>1 DEF Controls
  <2>2. saves[i].stage = "taken" /\ control' = new /\ NoClicks
    BY <1>4 DEF ControlSaved
  <2> HIDE DEF new
  <2> QED  BY <1>2, <2>1, <2>2, ControlSaveEnds
<1>5. CASE ControlSaveFails(i)
  <2> DEFINE new == [control EXCEPT !.step = "loaded"]
  <2>1. new \in Controls /\ new.open = control.open /\ new.step = "loaded" /\ new.form = control.form
        /\ ~new.saved
    BY <1>1, <1>3 DEF Controls
  <2>2. control' = new /\ BindFault
    BY <1>5 DEF ControlSaveFails
  <2> HIDE DEF new
  <2> QED  BY <1>2, <2>1, <2>2, ControlSaveEnds
<1> QED  BY <1>4, <1>5

-----------------------------------------------------------------------------
(* The choice of a model: another view, and saves that land                *)

LEMMA OpenKeeps ==
    ASSUME BindingInv, NEW actor \in BoundActors \cup {Unset}, NEW pending \in Controls,
           pending.step = "loading", ~pending.saved, ~pending.open => pending = NoControl,
           actor # Unset => pending = NoControl, Open(actor, pending)
    PROVE  BindingInv'
<1>1. saves \in [Clicked -> SaveStates]
  BY DEF BindingInv, BindingTypeOK
<1>2. inspected' = actor /\ form' = Inherit /\ control' = pending /\ ~disturbed' /\ ~landedUnseen'
      /\ disturbed' \in BOOLEAN /\ landedUnseen' \in BOOLEAN /\ NoClicks /\ bound' = bound
  BY DEF Open
<1>3. /\ requests' \in [Asked -> RequestStates]
      /\ \A i \in Asked : requests'[i] = IF i = 0 /\ actor # Unset THEN RequestOf(actor) ELSE NoRequest
  <2>1. requests' = [i \in Asked |-> IF i = 0 /\ actor # Unset THEN RequestOf(actor) ELSE NoRequest]
    BY DEF Open
  <2>2. actor # Unset => RequestOf(actor) \in RequestStates
    BY BindingShapes DEF RequestOf, RequestStates
  <2> QED  BY <2>1, <2>2, BindingShapes
<1>4. /\ saves' \in [Clicked -> SaveStates]
      /\ \A i \in Clicked : saves'[i].from = "gone" /\ saves'[i].stage \in {"none", "sent"}
  <2>1. saves' = [i \in Clicked |-> IF saves[i].stage = "sent"
                                    THEN [saves[i] EXCEPT !.from = "gone"] ELSE NoSave]
    BY DEF Open
  <2>2. ASSUME NEW i \in Clicked
        PROVE  saves'[i] \in SaveStates /\ saves'[i].from = "gone" /\ saves'[i].stage \in {"none", "sent"}
    <3>1. CASE saves[i].stage = "sent"
      BY <1>1, <2>1, <3>1, GoneIsTyped
    <3>2. CASE saves[i].stage # "sent"
      BY <2>1, <3>2, BindingShapes DEF NoSave
    <3> QED  BY <3>1, <3>2
  <2> QED  BY <2>1, <2>2
<1>5. BindingTypeOK'
  BY <1>2, <1>3, <1>4, BindingShapes, BindingCounts DEF BindingInv, BindingTypeOK
<1>6. \A i \in Clicked : ~Saving(i)' /\ ~OfControl(i)'
  BY <1>4 DEF Saving, OfControl
<1>7. ViewsInv' /\ StoredInv'
  BY <1>2, <1>4, <1>6 DEF ViewsInv, StoredInv
<1>8. ASSUME actor # Unset
      PROVE  OneLoad(0)'
  <2>1. requests'[0] = RequestOf(actor) /\ \A k \in Asked : k # 0 => requests'[k] = NoRequest
    BY <1>3, <1>8, ClickedAreAsked
  <2> QED  BY <1>2, <1>6, <2>1 DEF OneLoad, Loading, RequestOf, NoRequest
<1> QED  BY <1>2, <1>5, <1>7, <1>8, ClickedAreAsked DEF BindingInv, FormInv

LEMMA OpensKeep ==
    ASSUME BindingInv, OpenControl \/ OpenSettings \/ \E a \in BoundActors : OpenInspector(a)
    PROVE  BindingInv'
<1>1. CASE OpenControl
  <2> DEFINE new == [NoControl EXCEPT !.open = TRUE]
  <2>1. new \in Controls /\ new.open = TRUE /\ new.step = "loading" /\ ~new.saved
    BY OpenIsTyped
  <2>2. Open(Unset, new)
    BY <1>1 DEF OpenControl
  <2> HIDE DEF new
  <2> QED  BY <2>1, <2>2, OpenKeeps
<1>2. CASE OpenSettings
  <2>1. Open(Unset, NoControl)
    BY <1>2 DEF OpenSettings
  <2> QED  BY <2>1, OpenKeeps, OpenIsTyped, BindingShapes
<1>3. CASE \E a \in BoundActors : OpenInspector(a)
  <2>1. PICK a \in BoundActors : Open(a, NoControl)
    BY <1>3 DEF OpenInspector
  <2> QED  BY <2>1, OpenKeeps, OpenIsTyped, BindingShapes
<1> QED  BY <1>1, <1>2, <1>3

LEMMA SettingsSaveKeeps ==
    ASSUME BindingInv, NEW s \in Coherent, SettingsSave(s)
    PROVE  BindingInv'
<1> DEFINE sent == SentBy("gone", Workspace, s)
<1>1. inspected = Unset /\ ~control.open /\ saves' = [saves EXCEPT ![choices + 1] = sent] /\ Clicks
      /\ UNCHANGED <<bound, inspected, form, requests, control, disturbed, landedUnseen>>
  BY DEF SettingsSave, Save
<1>2. sent \in SaveStates /\ sent.stage = "sent" /\ sent.from = "gone"
  BY SentIsTyped, BindingShapes
<1>3. choices + 1 \in Clicked
  BY <1>1, ClickIsNumbered DEF BindingInv, BindingTypeOK
<1> HIDE DEF sent
<1>4. saves' \in [Clicked -> SaveStates]
      /\ \A i \in Clicked : saves'[i] = IF i = choices + 1 THEN sent ELSE saves[i]
  BY <1>1, <1>2, <1>3 DEF BindingInv, BindingTypeOK
<1>5. BindingTypeOK'
  BY <1>1, <1>4, BindingCounts DEF BindingInv, BindingTypeOK
<1>6. \A i \in Clicked : (Saving(i)' => Saving(i)) /\ (OfControl(i)' => OfControl(i) /\ saves'[i] = saves[i])
  BY <1>2, <1>4 DEF Saving, OfControl
<1>7. ViewsInv'
  <2>1. \A i \in Clicked : saves'[i].stage = "taken" => saves'[i].from # "gone"
    BY <1>2, <1>4 DEF BindingInv, ViewsInv
  <2>2. control = NoControl /\ NoControl.step = "loading"
    BY <1>1, OpenIsTyped DEF BindingInv, ViewsInv
  <2>3. \A i \in Clicked : ~OfControl(i) /\ ~Saving(i)
    BY <1>1, <2>2 DEF BindingInv, ViewsInv
  <2> QED  BY <1>1, <1>6, <2>1, <2>3 DEF BindingInv, ViewsInv
<1>8. StoredInv' /\ FormInv'
  BY <1>1 DEF StoredInv, FormInv
<1> QED  BY <1>5, <1>7, <1>8 DEF BindingInv

LEMMA BusTakesSaveKeeps ==
    ASSUME BindingInv, NEW i \in Clicked, BusTakesSave(i)
    PROVE  BindingInv'
<1>1. /\ saves[i].stage = "sent" /\ bound' = [bound EXCEPT ![saves[i].slot] = saves[i].choice]
      /\ NoClicks /\ UNCHANGED <<inspected, form, requests, control>>
  BY DEF BusTakesSave, Bind
<1>2. saves \in [Clicked -> SaveStates] /\ saves[i] \in SaveStates /\ saves[i].slot \in Slots
      /\ saves[i].choice \in Coherent /\ bound \in [Slots -> Coherent]
  BY DEF BindingInv, BindingTypeOK, SaveStates
<1>3. bound' \in [Slots -> Coherent] /\ bound'[saves[i].slot] = saves[i].choice
      /\ \A s \in Slots : s # saves[i].slot => bound'[s] = bound[s]
  BY <1>1, <1>2
<1>4. CASE saves[i].from = "gone"
  <2>1. saves' = [saves EXCEPT ![i] = NoSave] /\ landedUnseen' = (landedUnseen \/ control.open)
        /\ disturbed' = (disturbed \/ inspected # Unset)
    BY <1>4 DEF BusTakesSave
  <2>2. saves' \in [Clicked -> SaveStates] /\ NoSave.stage = "none"
        /\ \A k \in Clicked : saves'[k] = IF k = i THEN NoSave ELSE saves[k]
    BY <1>2, <2>1, BindingShapes DEF NoSave
  <2>3. BindingTypeOK'
    BY <1>1, <1>3, <2>1, <2>2, BindingCounts, OpenIsTyped DEF BindingInv, BindingTypeOK, Controls
  <2>4. \A k \in Clicked : /\ Saving(k)' => Saving(k) /\ saves'[k] = saves[k]
                           /\ OfControl(k)' => OfControl(k) /\ saves'[k] = saves[k]
    BY <2>2 DEF Saving, OfControl
  <2>5. ViewsInv'
    <3>1. \A k \in Clicked : saves'[k].stage = "taken" => saves'[k].from # "gone"
      BY <2>2 DEF BindingInv, ViewsInv
    <3> QED  BY <1>1, <2>4, <3>1 DEF BindingInv, ViewsInv
  <2>6. StoredInv' /\ FormInv'
    BY <1>1, <2>1 DEF StoredInv, FormInv
  <2> QED  BY <2>3, <2>5, <2>6 DEF BindingInv
<1>5. CASE saves[i].from # "gone"
  <2> DEFINE new == [saves[i] EXCEPT !.stage = "taken"]
  <2>1. new \in SaveStates /\ new.stage = "taken" /\ new.from = saves[i].from
        /\ new.slot = saves[i].slot /\ new.choice = saves[i].choice
    BY <1>2, TakenIsTyped
  <2>2. saves' = [saves EXCEPT ![i] = new] /\ UNCHANGED <<disturbed, landedUnseen>>
    BY <1>5 DEF BusTakesSave
  <2> HIDE DEF new
  <2>3. saves' \in [Clicked -> SaveStates]
        /\ \A k \in Clicked : saves'[k] = IF k = i THEN new ELSE saves[k]
    BY <1>2, <2>1, <2>2
  <2>4. BindingTypeOK'
    BY <1>1, <1>3, <2>2, <2>3, BindingCounts DEF BindingInv, BindingTypeOK
  <2>5. \A k \in Clicked : /\ (Saving(k)' <=> Saving(k)) /\ (OfControl(k)' <=> OfControl(k))
                           /\ saves'[k].slot = saves[k].slot /\ saves'[k].choice = saves[k].choice
    BY <1>1, <2>1, <2>3 DEF Saving, OfControl
  <2>6. Saving(i) \/ OfControl(i)
    BY <1>1, <1>5, SaveIsOneOf DEF BindingInv
  <2>7. ViewsInv'
    <3>1. \A k \in Clicked : saves'[k].stage = "taken" => saves'[k].from # "gone"
      BY <1>5, <2>1, <2>3 DEF BindingInv, ViewsInv
    <3> QED  BY <1>1, <2>5, <3>1 DEF BindingInv, ViewsInv
  <2>8. CASE Saving(i)
    <3>1. saves[i].slot \in BoundActors /\ inspected # Unset /\ control = NoControl
      BY <2>8 DEF BindingInv, ViewsInv
    <3>2. StoredInv'
      BY <1>1, <3>1, OpenIsTyped DEF StoredInv
    <3>3. FormInv'
      <4> SUFFICES ASSUME ~disturbed
                   PROVE  OneSave(i)'
        BY <1>1, <2>2 DEF FormInv
      <4>1. OneSave(i)
        BY <2>8, <3>1 DEF BindingInv, FormInv, OneLoad, OneSave, Busy
      <4>2. \A k \in Asked : Loading(k)' <=> Loading(k)
        BY <1>1 DEF Loading
      <4>3. form' = bound'[inspected']
        BY <1>1, <1>3, <4>1 DEF OneSave
      <4> QED  BY <1>1, <2>5, <4>1, <4>2, <4>3 DEF OneSave
    <3> QED  BY <2>4, <2>7, <3>2, <3>3 DEF BindingInv
  <2>9. CASE OfControl(i)
    <3>1. control.step = "saving" /\ saves[i].slot = Workspace /\ saves[i].choice = control.form
          /\ ~control.saved
      BY <2>9 DEF BindingInv, ViewsInv
    <3>2. inspected = Unset
      BY <3>1, ControlIsAlone
    <3>3. StoredInv' /\ FormInv'
      BY <1>1, <1>3, <3>1, <3>2 DEF StoredInv, FormInv
    <3> QED  BY <2>4, <2>7, <3>3 DEF BindingInv
  <2> QED  BY <2>6, <2>8, <2>9
<1> QED  BY <1>4, <1>5

-----------------------------------------------------------------------------
(* The choice of a model: the inspector                                    *)

LEMMA InspectorIsAlone ==
    ASSUME BindingInv, inspected # Unset
    PROVE  control = NoControl /\ ~control.open /\ \A i \in Clicked : ~OfControl(i)
BY OpenIsTyped DEF BindingInv, ViewsInv

LEMMA ShowActorKeeps ==
    ASSUME BindingInv, NEW a \in BoundActors, ShowActor(a)
    PROVE  BindingInv'
<1>1. /\ inspected # Unset /\ inspected' = a /\ disturbed' = Busy /\ Clicks
      /\ requests' = [requests EXCEPT ![choices + 1] = RequestOf(a)]
      /\ UNCHANGED <<bound, form, saves, control, landedUnseen>>
  BY DEF ShowActor
<1>2. choices + 1 \in Asked /\ a \in Slots /\ a # Unset
  BY <1>1, ClickIsNumbered, BindingShapes DEF BindingInv, BindingTypeOK
<1>3. RequestOf(a) \in RequestStates /\ RequestOf(a).stage = "sent" /\ RequestOf(a).slot = a
  BY <1>2, BindingShapes DEF RequestOf, RequestStates
<1>4. PICK n \in Asked :
        /\ requests' \in [Asked -> RequestStates]
        /\ \A k \in Asked : requests'[k] = IF k = n THEN RequestOf(a) ELSE requests[k]
  BY <1>1, <1>2, <1>3 DEF BindingInv, BindingTypeOK
<1>5. BindingTypeOK'
  BY <1>1, <1>4, BindingCounts DEF BindingInv, BindingTypeOK, Busy
<1>6. \A k \in Clicked : (Saving(k)' <=> Saving(k)) /\ (OfControl(k)' <=> OfControl(k))
  BY <1>1 DEF Saving, OfControl
<1>7. ViewsInv' /\ StoredInv'
  BY <1>1, <1>2, <1>6, InspectorIsAlone DEF BindingInv, ViewsInv, StoredInv
<1>8. ASSUME ~Busy
      PROVE  OneLoad(n)'
  <2>1. \A k \in Asked : ~Loading(k)
    BY <1>8 DEF Busy
  <2>2. \A k \in Clicked : ~Saving(k)
    BY <1>8 DEF Busy
  <2> QED  BY <1>1, <1>3, <1>4, <1>6, <2>1, <2>2 DEF OneLoad, Loading
<1>9. FormInv'
  BY <1>1, <1>8 DEF FormInv
<1> QED  BY <1>5, <1>7, <1>9 DEF BindingInv

LEMMA ChooseKeeps ==
    ASSUME BindingInv, NEW s \in Coherent, Choose(s)
    PROVE  BindingInv'
<1>1. /\ inspected # Unset /\ form' = s /\ disturbed' = Busy /\ Clicks
      /\ saves' = [saves EXCEPT ![choices + 1] = SentBy("inspector", inspected, s)]
      /\ UNCHANGED <<bound, inspected, requests, control, landedUnseen>>
  BY DEF Choose, Save
<1>2. choices + 1 \in Clicked /\ inspected \in BoundActors /\ inspected \in Slots
  BY <1>1, ClickIsNumbered, BindingShapes DEF BindingInv, BindingTypeOK
<1> DEFINE sent == SentBy("inspector", inspected, s)
<1>3. sent \in SaveStates /\ sent.stage = "sent" /\ sent.from = "inspector"
      /\ sent.slot = inspected /\ sent.choice = s /\ saves' = [saves EXCEPT ![choices + 1] = sent]
  BY <1>1, <1>2, SentIsTyped
<1> HIDE DEF sent
<1>4. PICK n \in Clicked :
        /\ saves' \in [Clicked -> SaveStates]
        /\ \A k \in Clicked : saves'[k] = IF k = n THEN sent ELSE saves[k]
  BY <1>2, <1>3 DEF BindingInv, BindingTypeOK
<1>5. BindingTypeOK'
  BY <1>1, <1>4, BindingCounts DEF BindingInv, BindingTypeOK, Busy
<1>6. control = NoControl /\ ~control.open /\ \A i \in Clicked : ~OfControl(i)
  BY <1>1, InspectorIsAlone
<1>7. \A k \in Clicked : /\ Saving(k)' <=> k = n \/ Saving(k)
                         /\ ~OfControl(k)'
  BY <1>3, <1>4, <1>6 DEF Saving, OfControl
<1>8. ViewsInv' /\ StoredInv'
  BY <1>1, <1>2, <1>3, <1>4, <1>6, <1>7 DEF BindingInv, ViewsInv, StoredInv
<1>9. ASSUME ~Busy
      PROVE  OneSave(n)'
  <2>1. \A k \in Asked : ~Loading(k)'
    BY <1>1, <1>9 DEF Busy, Loading
  <2>2. \A k \in Clicked : ~Saving(k)
    BY <1>9 DEF Busy
  <2> QED  BY <1>1, <1>3, <1>4, <1>7, <2>1, <2>2 DEF OneSave
<1>10. FormInv'
  BY <1>1, <1>9 DEF FormInv
<1> QED  BY <1>5, <1>8, <1>10 DEF BindingInv

\* A save of the inspector leaves the flight; nothing else of the saves changes.
LEMMA SaveLeaves ==
    ASSUME BindingTypeOK, NEW i \in Clicked, saves' = [saves EXCEPT ![i] = NoSave]
    PROVE  /\ saves' \in [Clicked -> SaveStates] /\ saves'[i] = NoSave
           /\ \A k \in Clicked : /\ Saving(k)' <=> k # i /\ Saving(k)
                                 /\ OfControl(k)' <=> k # i /\ OfControl(k)
                                 /\ k # i => saves'[k] = saves[k]
BY BindingShapes DEF BindingTypeOK, NoSave, Saving, OfControl

\* The records of the views and of the control stay sound when it leaves.
LEMMA LeavingKeepsViews ==
    ASSUME BindingInv, NEW i \in Clicked, Saving(i), saves' = [saves EXCEPT ![i] = NoSave],
           UNCHANGED <<bound, inspected, control, landedUnseen>>
    PROVE  ViewsInv' /\ StoredInv' /\ inspected # Unset
<1>1. inspected # Unset
  BY DEF BindingInv, ViewsInv
<1>2. control = NoControl /\ ~control.open /\ \A k \in Clicked : ~OfControl(k)
  BY <1>1, InspectorIsAlone
<1>3. \A k \in Clicked : saves'[k].stage = "taken" => saves'[k].from # "gone"
  BY SaveLeaves DEF BindingInv, ViewsInv, NoSave
<1> QED  BY <1>1, <1>2, <1>3, SaveLeaves DEF BindingInv, ViewsInv, StoredInv

LEMMA SaveAnsweredKeeps ==
    ASSUME BindingInv, NEW i \in Clicked, SaveAnswered(i)
    PROVE  BindingInv'
<1>1. /\ Saving(i) /\ saves[i].stage = "taken" /\ saves' = [saves EXCEPT ![i] = NoSave] /\ NoClicks
      /\ requests' = [requests EXCEPT ![i] = RequestOf(saves[i].slot)]
      /\ UNCHANGED <<bound, inspected, form, control, disturbed, landedUnseen>>
  BY DEF SaveAnswered
<1>2. saves[i].slot \in Slots /\ i \in Asked
  BY ClickedAreAsked DEF BindingInv, BindingTypeOK, SaveStates
<1>3. RequestOf(saves[i].slot) \in RequestStates /\ RequestOf(saves[i].slot).stage = "sent"
      /\ RequestOf(saves[i].slot).slot = saves[i].slot
  BY <1>2, BindingShapes DEF RequestOf, RequestStates
<1>4. requests' \in [Asked -> RequestStates]
      /\ \A k \in Asked : requests'[k] = IF k = i THEN RequestOf(saves[i].slot) ELSE requests[k]
  BY <1>1, <1>2, <1>3 DEF BindingInv, BindingTypeOK
<1>5. BindingTypeOK'
  BY <1>1, <1>4, SaveLeaves, BindingCounts DEF BindingInv, BindingTypeOK
<1>6. ViewsInv' /\ StoredInv' /\ inspected # Unset
  BY <1>1, LeavingKeepsViews
<1>7. ASSUME ~disturbed
      PROVE  OneLoad(i)'
  <2>1. OneSave(i)
    BY <1>1, <1>6, <1>7 DEF BindingInv, FormInv, OneLoad, OneSave, Busy
  <2>2. \A k \in Clicked : ~Saving(k)'
    BY <1>1, <2>1, SaveLeaves DEF BindingInv, OneSave
  <2>3. requests'[i] = RequestOf(saves[i].slot) /\ \A k \in Asked : Loading(k)' <=> k = i
    BY <1>2, <1>3, <1>4, <2>1 DEF OneSave, Loading
  <2> QED  BY <1>1, <1>2, <1>3, <2>1, <2>2, <2>3 DEF OneLoad, OneSave
<1>8. FormInv'
  BY <1>1, <1>2, <1>7 DEF FormInv
<1> QED  BY <1>5, <1>6, <1>8 DEF BindingInv

LEMMA SaveLostKeeps ==
    ASSUME BindingInv, NEW i \in Clicked, SaveLost(i)
    PROVE  BindingInv'
<1>1. /\ Saving(i) /\ saves' = [saves EXCEPT ![i] = NoSave] /\ disturbed' = TRUE /\ BindFault
      /\ UNCHANGED <<bound, inspected, form, requests, control, landedUnseen>>
  BY DEF SaveLost
<1>2. BindingTypeOK'
  BY <1>1, SaveLeaves, BindingCounts DEF BindingInv, BindingTypeOK
<1> QED  BY <1>1, <1>2, LeavingKeepsViews DEF BindingInv, FormInv

\* Requests have no part in the records of views and control.
LEMMA RequestsKeepViews ==
    ASSUME BindingInv, UNCHANGED <<bound, inspected, saves, control, landedUnseen>>
    PROVE  /\ ViewsInv' /\ StoredInv'
           /\ \A k \in Clicked : Saving(k)' <=> Saving(k)
<1>1. \A k \in Clicked : (Saving(k)' <=> Saving(k)) /\ (OfControl(k)' <=> OfControl(k))
  BY DEF Saving, OfControl
<1> QED  BY <1>1 DEF BindingInv, ViewsInv, StoredInv

LEMMA BusResolvesKeeps ==
    ASSUME BindingInv, NEW i \in Asked, BusResolves(i)
    PROVE  BindingInv'
<1> DEFINE new == [requests[i] EXCEPT !.stage = "answered", !.answer = bound[requests[i].slot]]
<1>1. requests[i] \in RequestStates /\ requests \in [Asked -> RequestStates]
      /\ requests[i].slot \in Slots /\ bound[requests[i].slot] \in Coherent
  BY DEF BindingInv, BindingTypeOK, RequestStates
<1>2. new \in RequestStates /\ new.stage = "answered" /\ new.slot = requests[i].slot
      /\ new.answer = bound[requests[i].slot]
  BY <1>1, AnswerIsTyped
<1>3. requests[i].stage = "sent" /\ requests' = [requests EXCEPT ![i] = new] /\ NoClicks
      /\ UNCHANGED <<bound, inspected, form, saves, control, disturbed, landedUnseen>>
  BY <1>1 DEF BusResolves
<1> HIDE DEF new
<1>4. requests' \in [Asked -> RequestStates]
      /\ \A k \in Asked : requests'[k] = IF k = i THEN new ELSE requests[k]
  BY <1>1, <1>2, <1>3
<1>5. BindingTypeOK'
  BY <1>3, <1>4, BindingCounts DEF BindingInv, BindingTypeOK
<1>6. ViewsInv' /\ StoredInv' /\ \A k \in Clicked : Saving(k)' <=> Saving(k)
  BY <1>3, RequestsKeepViews
<1>7. \A k \in Asked : Loading(k)' <=> Loading(k)
  BY <1>2, <1>3, <1>4 DEF Loading
<1>8. ASSUME inspected # Unset, ~disturbed
      PROVE  OneLoad(i)'
  <2>1. OneLoad(i)
    BY <1>3, <1>8 DEF BindingInv, FormInv, OneLoad, OneSave, Busy, Loading
  <2> QED  BY <1>2, <1>3, <1>4, <1>6, <1>7, <2>1 DEF OneLoad
<1>9. FormInv'
  BY <1>3, <1>8 DEF FormInv
<1> QED  BY <1>5, <1>6, <1>9 DEF BindingInv

LEMMA ResolvedKeeps ==
    ASSUME BindingInv, NEW i \in Asked, Resolved(i) \/ ResolveLost(i)
    PROVE  BindingInv'
<1>1. /\ requests' = [requests EXCEPT ![i] = NoRequest] /\ (NoClicks \/ BindFault)
      /\ UNCHANGED <<bound, inspected, saves, control, landedUnseen>>
  BY DEF Resolved, ResolveLost
<1>2. requests' \in [Asked -> RequestStates] /\ NoRequest.stage = "none"
      /\ \A k \in Asked : requests'[k] = IF k = i THEN NoRequest ELSE requests[k]
  BY <1>1, BindingShapes DEF BindingInv, BindingTypeOK, NoRequest
<1>3. ViewsInv' /\ StoredInv' /\ \A k \in Clicked : Saving(k)' <=> Saving(k)
  BY <1>1, RequestsKeepViews
<1>4. CASE Resolved(i)
  <2>1. requests[i].stage = "answered" /\ form' = requests[i].answer /\ disturbed' = disturbed
    BY <1>4 DEF Resolved
  <2>2. form' \in Coherent
    BY <2>1 DEF BindingInv, BindingTypeOK, RequestStates
  <2>3. BindingTypeOK'
    BY <1>1, <1>2, <2>1, <2>2, BindingCounts DEF BindingInv, BindingTypeOK
  <2>4. ASSUME inspected # Unset, ~disturbed
        PROVE  ~Busy' /\ form' = bound[inspected]
    <3>1. OneLoad(i)
      BY <2>1, <2>4 DEF BindingInv, FormInv, OneLoad, OneSave, Busy, Loading
    <3>2. (\A k \in Asked : ~Loading(k)') /\ \A k \in Clicked : ~Saving(k)'
      BY <1>2, <1>3, <3>1 DEF OneLoad, Loading
    <3> QED  BY <2>1, <3>1, <3>2 DEF OneLoad, Busy
  <2>5. FormInv'
    BY <1>1, <2>1, <2>4 DEF FormInv
  <2> QED  BY <1>3, <2>3, <2>5 DEF BindingInv
<1>5. CASE ResolveLost(i)
  <2>1. form' = form /\ disturbed' = TRUE
    BY <1>5 DEF ResolveLost
  <2>2. BindingTypeOK'
    BY <1>1, <1>2, <2>1, BindingCounts DEF BindingInv, BindingTypeOK
  <2> QED  BY <1>3, <2>1, <2>2 DEF BindingInv, FormInv
<1> QED  BY <1>4, <1>5

-----------------------------------------------------------------------------
(* The choice of a model: what runs                                        *)

\* The shape of what is chosen for an actor that has a binding of its own, and for one that has
\* none while the workspace has a profile and a model.
LEMMA OwnChoice ==
    ASSUME BindingTypeOK, NEW a \in BoundActors, bound[a].profile # Unset
    PROVE  LET choice == ResolveAuthProfile(a) IN
           /\ choice.profile = bound[a].profile /\ choice.local
           /\ bound[a].model # Unset => choice.model = bound[a].model /\ choice.of = a
BY DEF ResolveAuthProfile, ModelOf

LEMMA WorkspaceChoice ==
    ASSUME BindingTypeOK, NEW a \in BoundActors, bound[a].profile = Unset,
           bound[Workspace].profile # Unset, bound[Workspace].model # Unset
    PROVE  LET choice == ResolveAuthProfile(a) IN
           /\ choice.profile = bound[Workspace].profile /\ choice.local
           /\ choice.model = bound[Workspace].model /\ choice.of = Workspace
BY DEF ResolveAuthProfile, ModelOf, WorkspaceModel

\* A local choice that names its model is run as it is, when the model is of the profile's
\* provider.
LEMMA LocalChoiceRuns ==
    ASSUME NEW a, LET choice == ResolveAuthProfile(a) IN
                  /\ choice.profile # Unset /\ choice.local /\ choice.model # Unset
                  /\ choice.of \notin {Unset, Host}
                  /\ MakerOf[choice.model] = MakerOf[choice.profile]
    PROVE  EffectiveRuntime(a) = [ok |-> TRUE, provider |-> MakerOf[ResolveAuthProfile(a).profile],
                                  model |-> ResolveAuthProfile(a).model]
BY DEF EffectiveRuntime, AskedModel

\* What runs is of the provider of the profile that was chosen.
LEMMA RunIsOfProfile ==
    ASSUME NEW a, EffectiveRuntime(a).ok
    PROVE  /\ EffectiveRuntime(a).provider = MakerOf[ResolveAuthProfile(a).profile]
           /\ MakerOf[EffectiveRuntime(a).model] = EffectiveRuntime(a).provider
<1>1. \A code : Failure(code).ok = FALSE
  BY DEF Failure
<1> QED  BY <1>1 DEF EffectiveRuntime

LEMMA BindingImpliesTrue == BindingInv => BindingIsTrue
<1> SUFFICES ASSUME BindingInv PROVE BindingIsTrue
  OBVIOUS
<1>1. \A s \in Slots : bound[s] \in Coherent
  BY DEF BindingInv, BindingTypeOK
<1>2. \A s \in Coherent : s.model # Unset => s.profile # Unset /\ MakerOf[s.model] = MakerOf[s.profile]
  BY DEF Coherent
<1>3. ReadyIsStored
  <2> SUFFICES ASSUME Ready, ~landedUnseen
               PROVE  /\ control.form = bound[Workspace]
                      /\ \A a \in BoundActors : bound[a].profile = Unset =>
                           EffectiveRuntime(a) = [ok |-> TRUE,
                               provider |-> MakerOf[control.form.profile],
                               model |-> control.form.model]
    BY DEF ReadyIsStored
  <2>1. control.form = bound[Workspace] /\ bound[Workspace].profile # Unset
        /\ bound[Workspace].model # Unset
    BY DEF BindingInv, StoredInv, Ready
  <2>2. MakerOf[bound[Workspace].model] = MakerOf[bound[Workspace].profile]
    BY <1>1, <1>2, <2>1, BindingShapes
  <2>3. ASSUME NEW a \in BoundActors, bound[a].profile = Unset
        PROVE  EffectiveRuntime(a) = [ok |-> TRUE, provider |-> MakerOf[control.form.profile],
                                      model |-> control.form.model]
    <3>1. Workspace \notin {Unset, Host}
      BY BindingAssumption DEF Workspace, Host
    <3> QED  BY <2>1, <2>2, <2>3, <3>1, WorkspaceChoice, LocalChoiceRuns DEF BindingInv
  <2> QED  BY <2>1, <2>3
<1>4. InspectorIsTrue
  BY DEF BindingInv, FormInv, InspectorIsTrue, OneLoad, OneSave, Busy
<1>5. ChoiceIsKept
  <2> SUFFICES ASSUME NEW a \in BoundActors, EffectiveRuntime(a).ok
               PROVE  /\ MakerOf[EffectiveRuntime(a).model] = EffectiveRuntime(a).provider
                      /\ bound[a].profile # Unset =>
                            EffectiveRuntime(a).provider = MakerOf[bound[a].profile]
                      /\ bound[a].model # Unset => EffectiveRuntime(a).model = bound[a].model
    BY DEF ChoiceIsKept
  <2>1. a \in Slots /\ a \notin {Unset, Host}
    BY BindingAssumption DEF Slots
  <2>2. CASE bound[a].profile = Unset
    BY <1>1, <1>2, <2>1, <2>2, RunIsOfProfile
  <2>3. CASE bound[a].profile # Unset
    <3>1. bound[a].model # Unset => MakerOf[bound[a].model] = MakerOf[bound[a].profile]
      BY <1>1, <1>2, <2>1
    <3>2. bound[a].model # Unset => EffectiveRuntime(a).model = bound[a].model
      BY <2>1, <2>3, <3>1, OwnChoice, LocalChoiceRuns DEF BindingInv
    <3> QED  BY <2>3, <3>2, OwnChoice, RunIsOfProfile DEF BindingInv
  <2> QED  BY <2>2, <2>3
<1> QED  BY <1>3, <1>4, <1>5 DEF BindingIsTrue

-----------------------------------------------------------------------------
(* The choice of a model: the theorems                                     *)

LEMMA BindingStarts == BindingInit => BindingInv
<1> SUFFICES ASSUME BindingInit PROVE BindingInv
  OBVIOUS
<1>1. /\ inspected = Unset /\ form = Inherit /\ control = NoControl
      /\ disturbed = FALSE /\ landedUnseen = FALSE
      /\ saves = [i \in Clicked |-> NoSave] /\ requests = [i \in Asked |-> NoRequest]
  BY DEF BindingInit
<1>2. BindingTypeOK
  <2>1. bound \in [Slots -> Coherent] /\ declared \in Declarations
    BY DEF BindingInit
  <2>2. choices \in 0 .. MaxChoices /\ bindFaults \in 0 .. MaxBindFaults
    BY BindingAssumption DEF BindingInit
  <2>3. requests \in [Asked -> RequestStates] /\ saves \in [Clicked -> SaveStates]
    BY <1>1, BindingShapes
  <2> QED  BY <1>1, <2>1, <2>2, <2>3, BindingShapes DEF BindingTypeOK
<1>3. \A i \in Clicked : saves[i].stage = "none"
  BY <1>1 DEF NoSave
<1>4. ViewsInv /\ StoredInv /\ FormInv
  BY <1>1, <1>3, OpenIsTyped DEF ViewsInv, StoredInv, FormInv, Saving, OfControl
<1> QED  BY <1>2, <1>4 DEF BindingInv

LEMMA BindingStepKeeps == BindingInv /\ [BindingNext]_bindingVars => BindingInv'
<1> SUFFICES ASSUME BindingInv, [BindingNext]_bindingVars PROVE BindingInv'
  OBVIOUS
<1>1. CASE \E a \in BoundActors : ShowActor(a) \/ OpenInspector(a)
  BY <1>1, ShowActorKeeps, OpensKeep
<1>2. CASE \E s \in Coherent : Choose(s) \/ ChooseForWorkspace(s) \/ SettingsSave(s)
  BY <1>2, ChooseKeeps, ChooseForWorkspaceKeeps, SettingsSaveKeeps
<1>3. CASE \E i \in Clicked : \/ BusTakesSave(i) \/ SaveAnswered(i) \/ SaveLost(i)
                              \/ ControlSaved(i) \/ ControlSaveFails(i)
  BY <1>3, BusTakesSaveKeeps, SaveAnsweredKeeps, SaveLostKeeps, ControlSavedKeeps
<1>4. CASE \E i \in Asked : BusResolves(i) \/ Resolved(i) \/ ResolveLost(i)
  BY <1>4, BusResolvesKeeps, ResolvedKeeps
<1>5. CASE OpenControl \/ OpenSettings \/ ControlAnswered \/ ControlLoaded \/ ControlLoadFails
  BY <1>5, OpensKeep, ControlAnsweredKeeps, ControlLoadedKeeps, ControlLoadFailsKeeps
<1>6. CASE UNCHANGED bindingVars
  <2>1. UNCHANGED <<bound, inspected, saves, control, landedUnseen>>
        /\ UNCHANGED <<declared, form, requests, disturbed, choices, bindFaults>>
    BY <1>6 DEF bindingVars
  <2>2. BindingTypeOK'
    BY <2>1 DEF BindingInv, BindingTypeOK
  <2>3. FormInv'
    BY <2>1 DEF BindingInv, FormInv, OneLoad, OneSave, Busy, Saving, Loading
  <2> QED  BY <2>1, <2>2, <2>3, RequestsKeepViews DEF BindingInv
<1> QED  BY <1>1, <1>2, <1>3, <1>4, <1>5, <1>6 DEF BindingNext

\* The choice of profile and model keeps its types: see BindingTypeOK.
THEOREM BindingTypesHold == BindingSpec => []BindingTypeOK
<1>1. BindingInv => BindingTypeOK
  BY DEF BindingInv
<1> QED  BY <1>1, BindingStarts, BindingStepKeeps, PTL DEF BindingSpec

\* What the inspector and the control show, what the bus has stored and what a turn runs on
\* agree, for any number of actors, clicks and lost requests: see BindingIsTrue.
THEOREM BindingStaysTrue == BindingSpec => []BindingIsTrue
BY BindingStarts, BindingStepKeeps, BindingImpliesTrue, PTL DEF BindingSpec

-----------------------------------------------------------------------------
(* The desktop                                                             *)

\* What one component does is no step of another one.
LEMMA DesktopStepIsOfEach ==
    ASSUME [DesktopNext]_vars
    PROVE  /\ [ViewNext]_viewVars /\ [HealthNext]_healthVars /\ [ListNext]_listVars
           /\ [BindingNext]_bindingVars /\ [ContextsNext]_contextVars /\ [PagesNext]_pageVars
           /\ [DefinitionsNext]_defVars /\ [ControlNext]_cliVars /\ [SignInNext]_signInVars
<1>1. CASE UNCHANGED vars
  BY <1>1 DEF vars
<1>2. CASE DesktopNext
  BY <1>2 DEF DesktopNext, OthersStay
<1> QED  BY <1>1, <1>2

\* So a behaviour of the desktop is one of each component, but for the fairness, which is that
\* of the component it is named after.
LEMMA DesktopIsOfEach ==
    DesktopSpec => /\ ViewInit /\ [][ViewNext]_viewVars
                   /\ HealthInit /\ [][HealthNext]_healthVars
                   /\ ListInit /\ [][ListNext]_listVars
                   /\ BindingSpec /\ ContextsSpec /\ PagesSpec /\ DefinitionsSpec /\ ControlSpec
                   /\ SignInSpec
<1>1. DesktopInit => /\ ViewInit /\ HealthInit /\ ListInit /\ BindingInit /\ ContextsInit
                     /\ PagesInit /\ DefinitionsInit /\ ControlInit /\ SignInInit
  BY DEF DesktopInit
<1>2. [DesktopNext]_vars =>
           /\ [ViewNext]_viewVars /\ [HealthNext]_healthVars /\ [ListNext]_listVars
           /\ [BindingNext]_bindingVars /\ [ContextsNext]_contextVars /\ [PagesNext]_pageVars
           /\ [DefinitionsNext]_defVars /\ [ControlNext]_cliVars /\ [SignInNext]_signInVars
  BY DesktopStepIsOfEach
<1> QED  BY <1>1, <1>2, PTL DEF DesktopSpec, BindingSpec, ContextsSpec, PagesSpec,
                                DefinitionsSpec, ControlSpec, SignInSpec

LEMMA DesktopKeepsInvs ==
    DesktopSpec => []ViewInv /\ []HealthInv /\ []ListPagesInv /\ []DraftsInv
<1>1. ListPagesInv => onDisplay \in Workspaces
  BY DEF ListPagesInv, PagesTyped
<1>2. ViewInit /\ [][ViewNext]_viewVars => []ViewInv
  BY ViewAtFirst, ViewStep, PTL
<1>3. HealthInit /\ [][HealthNext]_healthVars => []HealthInv
  BY HealthInvInit, HealthInvNext, PTL
<1>4. ListInit /\ [][ListNext]_listVars => [](ListPagesInv /\ DraftsInv)
  BY <1>1, ListPagesInvInit, DraftsInvInit, ListPagesInvNext, DraftsInvNext, PTL
<1> QED  BY <1>2, <1>3, <1>4, DesktopIsOfEach, PTL

\* Every component of the desktop keeps its variables in their types, in the composition that
\* is model-checked as well.
THEOREM DesktopTypesHold == DesktopSpec => []DesktopTypeOK
<1>1. ViewInv /\ HealthInv /\ ListPagesInv /\ DraftsInv => ViewTypeOK /\ HealthTypeOK /\ ListTypeOK
  BY ListTypes DEF ViewInv, HealthInv, ListPagesInv, DraftsInv
<1>2. PagesSpec => []PagesTypeOK
  <2>1. PagesInv => PagesTypeOK
    BY DEF PagesInv, PagesTypes
  <2> QED  BY <2>1, PagesInvHolds, PTL
<1>3. /\ ViewTypeOK /\ HealthTypeOK /\ ListTypeOK /\ BindingTypeOK /\ ContextTypeOK
      /\ PagesTypeOK /\ DefinitionsTypeOK /\ ControlTypeOK /\ SignInTypeOK
      => DesktopTypeOK
  BY DEF DesktopTypeOK
<1> QED  BY <1>1, <1>2, <1>3, DesktopIsOfEach, DesktopKeepsInvs, BindingTypesHold,
            ContextTypesHold, DefinitionsTypeCorrect, ControlTypesHold, SignInTypesHold, PTL

\* What is proved of the conversation view, the list and the health, the choice of models, the
\* Contexts and their pages, the actors' definitions, the control of the services and the
\* sign-in holds of the desktop they make up.
THEOREM DesktopStaysTrue ==
    DesktopSpec =>
        /\ [](ConversationIsTrue /\ BindingIsTrue /\ PagedReadersMissNothing /\ DefinitionsAreTrue)
        /\ [](PresentBridgeIsOnline /\ HealthNeedsStream)
        /\ [](ListIsOfWorkspace /\ ListHasNoGap /\ DraftKeepsItsContext)
        /\ ContextsAreSound /\ ServicesAreControlled /\ SignInIsTrue
<1>1. ViewInv => ConversationIsTrue
  BY ViewImpliesTrue
<1>2. HealthInv => PresentBridgeIsOnline /\ HealthNeedsStream
  BY DEF HealthInv
<1>3. ListPagesInv /\ DraftsInv => ListIsOfWorkspace /\ ListHasNoGap /\ DraftKeepsItsContext
  BY ListInvImpliesTrue
<1> QED  BY <1>1, <1>2, <1>3, DesktopIsOfEach, DesktopKeepsInvs, BindingStaysTrue,
            DefinitionsStayTrue, ReadersMissNothing, ContextsStaySound,
            ServicesStayControlled, SignInStaysTrue, PTL
===============================================================================
