------------------------------ MODULE Contexts ------------------------------
(***************************************************************************)
(* Contexts of the bus: which Context an event lands in, who participates, *)
(* who is woken, and what compaction, clearing and deletion remove         *)
(* (floe-bus/src: contexts/resolver.ts, contexts/store.ts, store.ts and    *)
(* the routes of server.ts).                                               *)
(*                                                                         *)
(* A turn remembers the Context of its delivery and emits from there later *)
(* on, when the Context may be gone.  What the state of a delivery is is   *)
(* left to BusDelivery; here a row is queued, in flight or settled.        *)
(***************************************************************************)
EXTENDS Integers, FiniteSets

CONSTANTS
    ContextIds, NoContext,
    Actors,
    WakingTypes,     \* event types a subscription distinguishes
    Homes, NoHome,   \* Scopes a Context may be assigned to
    MaxHistory,      \* bound on the events ever inserted
    MaxContextCalls  \* bound on the calls of operators

ASSUME ContextsAssumption ==
    /\ NoContext \notin ContextIds /\ NoHome \notin Homes /\ WakingTypes # {}
    /\ MaxHistory \in Nat /\ MaxContextCalls \in Nat

VARIABLES
    context,       \* table contexts: the parent and the Scope, Gone without a row
    participants,  \* table context_participants
    subscription,  \* table context_subscriptions: the types that wake an actor, or "none"
    history,       \* table events
    row,           \* table event_queue: the rows that are not settled, by state
    turn,          \* the Context of the delivery each actor is working on
    cutOff,      \* actors whose delivery was removed under their turn (history)
    usedIds,       \* ids some Context has had (a generated id is never one of them)
    inserted, contextCalls   \* counters: events, calls of operators

contextVars == <<context, participants, subscription, history, row, turn, cutOff, usedIds,
                 inserted, contextCalls>>

EventIds == 1..MaxHistory
Gone == [live |-> FALSE, parent |-> NoContext, home |-> NoHome]
Lives(c) == c \in ContextIds /\ context[c].live

ContextTypeOK ==
    /\ context \in [ContextIds -> [live : BOOLEAN, parent : ContextIds \cup {NoContext},
                                   home : Homes \cup {NoHome}]]
    /\ participants \in [ContextIds -> SUBSET Actors]
    /\ subscription \in [ContextIds -> [Actors -> {{"none"}} \cup SUBSET WakingTypes]]
    /\ history \subseteq [id : EventIds, context : ContextIds, at : EventIds,
                          type : WakingTypes \cup {"context.compacted"}]
    /\ row \in [EventIds \X Actors -> {"absent", "queued", "in flight"}]
    /\ turn \in [Actors -> ContextIds \cup {NoContext}] /\ cutOff \subseteq Actors
    /\ inserted \in 0..MaxHistory /\ contextCalls \in 0..MaxContextCalls

ContextsInit ==
    /\ context = [c \in ContextIds |-> Gone]
    /\ participants = [c \in ContextIds |-> {}]
    /\ subscription = [c \in ContextIds |-> [a \in Actors |-> {"none"}]]
    /\ history = {}
    /\ row = [r \in EventIds \X Actors |-> "absent"]
    /\ turn = [a \in Actors |-> NoContext] /\ cutOff = {}
    /\ usedIds = {}
    /\ inserted = 0 /\ contextCalls = 0

-----------------------------------------------------------------------------
(* Contexts, participants, subscriptions                                   *)

ContextCall == contextCalls < MaxContextCalls /\ contextCalls' = contextCalls + 1

\* The Context's row and its participants; a subscription of an earlier Context
\* with this id is still there.
InsertContext(c, parent, home, actors) ==
    /\ context' = [context EXCEPT ![c] = [live |-> TRUE, parent |-> parent, home |-> home]]
    /\ participants' = [participants EXCEPT ![c] = actors]
    /\ usedIds' = usedIds \cup {c}

\* With a Context that has a row, the set holds the parent of that Context.
ClosedUnderParents(S) ==
    \A d \in S : Lives(d) /\ context[d].parent # NoContext => context[d].parent \in S

\* The chain of parents of c, which ends at a Context without a row: what every set with c that
\* is closed under parents holds.  The walk of the code gives up after 100 hops: chains
\* are taken to be shorter here.
Ancestors(c) ==
    {d \in ContextIds : \A S \in SUBSET ContextIds :
                            c \in S /\ ClosedUnderParents(S) => d \in S}

\* Mutant of WouldCreateCycle: only the parent itself is compared.
IsItsOwnParent(start, candidate) == candidate = start

WouldCreateCycle(start, candidate) == candidate \in Ancestors(start)

\* POST /v1/workspaces/:workspace_id/contexts with an id chosen by the client.
CreateContext(c, parent, home, actors) ==
    /\ ContextCall
    /\ ~Lives(c)
    /\ actors # {} \/ home # NoHome
    /\ parent # NoContext => Lives(parent) /\ ~WouldCreateCycle(parent, c)
    /\ InsertContext(c, parent, home, actors)
    /\ UNCHANGED <<subscription, history, row, turn, cutOff, inserted>>

AddParticipant(c, a) ==
    /\ ContextCall /\ Lives(c)
    /\ participants' = [participants EXCEPT ![c] = @ \cup {a}]
    /\ UNCHANGED <<context, subscription, history, row, turn, cutOff, usedIds,
                   inserted>>

RemoveParticipant(c, a) ==
    /\ ContextCall /\ Lives(c)
    /\ participants' = [participants EXCEPT ![c] = @ \ {a}]
    /\ UNCHANGED <<context, subscription, history, row, turn, cutOff, usedIds,
                   inserted>>

SubscribeToContext(c, a, types) ==
    /\ ContextCall /\ Lives(c)
    /\ subscription' = [subscription EXCEPT ![c][a] = types]
    /\ UNCHANGED <<context, participants, history, row, turn, cutOff, usedIds,
                   inserted>>

UnsubscribeFromContext(c, a) ==
    /\ ContextCall /\ Lives(c)
    /\ subscription' = [subscription EXCEPT ![c][a] = {"none"}]
    /\ UNCHANGED <<context, participants, history, row, turn, cutOff, usedIds,
                   inserted>>

\* The batch form: participants and subscriptions in one transaction.
ApplyContextSubscriptions(c, entries, types, participantsOnly) ==
    /\ ContextCall /\ Lives(c)
    /\ participants' = [participants EXCEPT ![c] = @ \cup entries \cup participantsOnly]
    /\ subscription' = [subscription EXCEPT ![c] =
           [a \in Actors |-> IF a \in entries THEN types ELSE @[a]]]
    /\ UNCHANGED <<context, history, row, turn, cutOff, usedIds,
                   inserted>>

\* The route refuses an unknown Context or Scope, and an assignment that may not be made.
Assignable(c) == Lives(c) /\ context[c].home = NoHome /\ participants[c] # {}

\* A Scope is assigned once, to a Context that has participants; the audit event
\* wakes nobody.
AssignContextScope(c, home) ==
    /\ ContextCall /\ Assignable(c) /\ inserted < MaxHistory
    /\ context' = [context EXCEPT ![c].home = home]
    /\ inserted' = inserted + 1
    /\ history' = history \cup {[id |-> inserted', context |-> c, at |-> inserted',
                                 type |-> CHOOSE t \in WakingTypes : TRUE]}
    /\ UNCHANGED <<participants, subscription, row, turn, cutOff, usedIds>>

-----------------------------------------------------------------------------
(* Events                                                                  *)

\* Two events may be stored with the same time.
Instants == IF inserted = 0 THEN {1}
            ELSE {inserted + 1} \cup {e.at : e \in {x \in history : x.id = inserted}}

InsertEvent(c, type, woken) ==
    /\ inserted < MaxHistory
    /\ inserted' = inserted + 1
    /\ \E at \in Instants :
           history' = history \cup {[id |-> inserted', context |-> c, at |-> at, type |-> type]}
    /\ row' = [r \in EventIds \X Actors |->
                  IF r[1] = inserted' /\ r[2] \in woken THEN "queued" ELSE row[r]]

\* The actors whose subscription in c covers the type.
Subscribed(c, type) == {a \in Actors : type \in subscription[c][a]}

\* Where an event of `source` to `destination` (an actor, or NoContext for the
\* subscribers of the supplied Context) lands: the supplied Context if the source
\* takes part in it; else the turn's Context if the destination takes part in
\* it; else a new one of the two, linked to the turn's Context.
ResolvesTo(source, destination, supplied) ==
    IF supplied # NoContext
    THEN {supplied} \cap {c \in ContextIds : Lives(c) /\ source \in participants[c]}
    ELSE LET continued == {turn[source]} \cap
                          {c \in ContextIds : destination \in participants[c]}
         IN IF continued # {} THEN continued ELSE ContextIds \ usedIds

SubmitEvent(source, destination, supplied, type) ==
    \E c \in ResolvesTo(source, destination, supplied) :
        /\ IF supplied = NoContext /\ c \notin usedIds
           THEN InsertContext(c, turn[source], NoHome, {source, destination})
           ELSE UNCHANGED <<context, participants, usedIds>>
        /\ InsertEvent(c, type, IF destination = NoContext THEN Subscribed(c, type)
                                                           ELSE {destination})
        /\ UNCHANGED <<subscription, turn, cutOff, contextCalls>>

\* A trigger names an existing Context: a scoped one, or one the target takes
\* part in.
EmitTriggerEvent(c, a, type) ==
    /\ Lives(c) /\ (context[c].home # NoHome \/ a \in participants[c])
    /\ InsertEvent(c, type, {a})
    /\ UNCHANGED <<context, participants, subscription, turn, cutOff, usedIds,
                   contextCalls>>

\* The next queued event of an actor at rest becomes its turn.
ContextDelivers(a) ==
    \E e \in history :
        /\ turn[a] = NoContext /\ row[<<e.id, a>>] = "queued"
        /\ \A n \in 1..(e.id - 1) : row[<<n, a>>] # "queued"
        /\ turn' = [turn EXCEPT ![a] = e.context]
        /\ row' = [row EXCEPT ![<<e.id, a>>] = "in flight"]
        /\ UNCHANGED <<context, participants, subscription, history, cutOff, usedIds,
                       inserted, contextCalls>>

ContextTurnEnds(a) ==
    /\ turn[a] # NoContext
    /\ turn' = [turn EXCEPT ![a] = NoContext] /\ cutOff' = cutOff \ {a}
    /\ row' = [r \in EventIds \X Actors |->
                  IF r[2] = a /\ row[r] = "in flight" THEN "absent" ELSE row[r]]
    /\ UNCHANGED <<context, participants, subscription, history, usedIds, inserted,
                   contextCalls>>

-----------------------------------------------------------------------------
(* Forgetting                                                              *)

\* Events go with their rows and bundles, in flight or not.
Forget(events) ==
    /\ history' = history \ events
    /\ row' = [r \in EventIds \X Actors |->
                  IF r[1] \in {e.id : e \in events} THEN "absent" ELSE row[r]]

\* A client's call takes deliveries away in the middle of their turns: the check of a delivery
\* in progress that clearing and compacting make looks for a bundle state that none ever has.
CutsOff(events) ==
    cutOff' = cutOff \cup
        {a \in Actors : \E e \in events : row[<<e.id, a>>] = "in flight"}

EventsOf(c) == {e \in history : e.context = c}

ClearContextHistory(c) ==
    /\ ContextCall /\ Lives(c)
    /\ Forget(EventsOf(c)) /\ CutsOff(EventsOf(c))
    /\ UNCHANGED <<context, participants, subscription, turn, usedIds, inserted>>

\* The events older than the named one, or all when it is not (any more) there.
Compacted(c, before) ==
    LET marks == {e.at : e \in {x \in EventsOf(c) : x.id = before}}
    IN {e \in EventsOf(c) : \A m \in marks : e.at < m}

\* compactContext leaves a summary in their place.
CompactContext(c, before) ==
    /\ ContextCall /\ Lives(c) /\ inserted < MaxHistory
    /\ inserted' = inserted + 1
    /\ history' = (history \ Compacted(c, before)) \cup
                  {[id |-> inserted', context |-> c, at |-> inserted',
                    type |-> "context.compacted"]}
    /\ row' = [r \in EventIds \X Actors |->
                  IF r[1] \in {e.id : e \in Compacted(c, before)} THEN "absent" ELSE row[r]]
    /\ CutsOff(Compacted(c, before))
    /\ UNCHANGED <<context, participants, subscription, turn, usedIds>>

\* deleteContext: children lose their parent; subscriptions stay behind.
RemoveContext(c) ==
    /\ ContextCall /\ Lives(c)
    /\ Forget(EventsOf(c))
    /\ context' = [d \in ContextIds |->
           CASE d = c -> Gone
             [] context[d].parent = c -> [context[d] EXCEPT !.parent = NoContext]
             [] OTHER -> context[d]]
    /\ participants' = [participants EXCEPT ![c] = {}]
    /\ UNCHANGED <<subscription, turn, usedIds, inserted>>

DeleteContext(c) == RemoveContext(c) /\ CutsOff(EventsOf(c))

AllSettled(c) == \A e \in EventsOf(c), a \in Actors : row[<<e.id, a>>] = "absent"

\* The context.delete capability of an actor: an unscoped Context whose events are all
\* settled (and, which is not modelled here, which no request awaits).
DeleteObsoleteContext(c) ==
    /\ context[c].home = NoHome
    /\ AllSettled(c)
    /\ RemoveContext(c) /\ UNCHANGED cutOff

ContextsNext ==
    \/ \E c \in ContextIds :
          \/ \E parent \in ContextIds \cup {NoContext}, home \in Homes \cup {NoHome},
                actors \in SUBSET Actors : CreateContext(c, parent, home, actors)
          \/ \E a \in Actors, types \in SUBSET WakingTypes :
                \/ AddParticipant(c, a) \/ RemoveParticipant(c, a)
                \/ SubscribeToContext(c, a, types) \/ UnsubscribeFromContext(c, a)
                \/ ApplyContextSubscriptions(c, {a}, types, Actors)
          \/ \E home \in Homes : AssignContextScope(c, home)
          \/ \E a \in Actors, type \in WakingTypes : EmitTriggerEvent(c, a, type)
          \/ ClearContextHistory(c)
          \/ DeleteContext(c) \/ DeleteObsoleteContext(c)
          \/ \E before \in 0..MaxHistory : CompactContext(c, before)
    \/ \E source, destination \in Actors, type \in WakingTypes,
          supplied \in ContextIds \cup {NoContext} :
          SubmitEvent(source, destination, supplied, type)
    \/ \E source \in Actors, c \in ContextIds, type \in WakingTypes :
          SubmitEvent(source, NoContext, c, type)
    \/ \E a \in Actors : ContextDelivers(a) \/ ContextTurnEnds(a)

ContextsSpec == ContextsInit /\ [][ContextsNext]_contextVars

-----------------------------------------------------------------------------
(* Properties                                                              *)

ContextsFormNoCycle ==
    \A c \in ContextIds : Lives(c) /\ Lives(context[c].parent) =>
                              c \notin Ancestors(context[c].parent)

NothingOutlivesItsContext ==
    /\ \A e \in history : Lives(e.context)
    /\ \A r \in EventIds \X Actors : row[r] # "absent" => \E e \in history : e.id = r[1]

\* Compacting up to an event that is still there keeps that event and every one
\* stored no earlier, also those of the same instant.
CompactionKeepsTail ==
    [][\A e, mark \in history :
          (e.context = mark.context /\ e.at >= mark.at /\ CompactContext(e.context, mark.id))
              => e \in history']_contextVars

TurnsKeepTheirDelivery ==
    \A a \in Actors : turn[a] # NoContext /\ a \notin cutOff =>
        \E r \in EventIds \X Actors : r[2] = a /\ row[r] = "in flight"

\* No Context is its own ancestor, so that the recursive query for a Context's tree ends: not
\* even when a turn emits from a Context that was deleted under it and a client then creates
\* that Context again below the new one.  Compaction, clearing and deletion leave no delivery
\* of an event that is gone and no event of a Context that is gone.  The delivery of a turn
\* stays until the turn ends, with one exception: a client's call that clears, compacts or
\* deletes its Context takes it away.  Clearing and compacting are meant to be refused then
\* ("Must NOT be called while a delivery is `active`", contexts/store.ts:446), but the routes
\* look for a bundle state that no bundle has.  An actor's context.delete never takes one.
\* Besides, CompactionKeepsTail.
ContextsAreSound ==
    /\ [](ContextsFormNoCycle /\ NothingOutlivesItsContext /\ TurnsKeepTheirDelivery)
    /\ CompactionKeepsTail
=============================================================================
