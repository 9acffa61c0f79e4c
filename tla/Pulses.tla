------------------------------- MODULE Pulses -------------------------------
(***************************************************************************)
(* Scheduled events: the pulse tables and routes of the bus, its           *)
(* single-timer scheduler and the firing of a pulse (floe-bus/src:         *)
(* store.ts, server.ts, pulse-scheduler.ts), and the pulses that floe.yaml *)
(* declares, which the create_pulse tool adds to and every attach scan of  *)
(* the bridge registers again (floe-bridge/src: tools/pulse-tools.ts,      *)
(* project.ts, daemon.ts).                                                 *)
(*                                                                         *)
(* The bus is one thread, so a route is one step.  A firing is not: it     *)
(* writes one transaction per subscriber and then the pulse row, and the   *)
(* process may die between two of them.  Clock is in ticks; a cron         *)
(* schedule fires at the multiples of its period.                          *)
(***************************************************************************)
EXTENDS Integers, FiniteSets, Sequences

CONSTANTS
    PulseIds,
    Anchors,         \* Contexts that a subscriber may name
    Generated,       \* endpoint subscribers whose delivery Context the bus generates
    PulseScopes,     \* Scopes a pulse may be configured with
    NoPulseScope,
    MaxTime,         \* the clock stops here
    LongestDelay,    \* the longest delay setTimeout can represent
    MaxPulseCalls,   \* bound on the calls of clients
    MaxOutages       \* bound on the restarts of the bus and the attach scans together

Never == -1
Times == 0..MaxTime
Subscribers == Anchors \cup Generated
Triggers == {[type |-> "once", at |-> MaxTime],
             [type |-> "cron", at |-> 1],   \* every tick
             [type |-> "cron", at |-> 0]}   \* a schedule that cannot be parsed

ASSUME PulsesAssumption ==
    /\ MaxTime \in Nat \ {0} /\ LongestDelay \in Nat
    /\ MaxPulseCalls \in Nat /\ MaxOutages \in Nat
    /\ NoPulseScope \notin PulseScopes /\ "none" \notin PulseIds
    /\ Anchors \cap Generated = {}

VARIABLES
    clock,       \* Date.now()
    pulse,       \* table pulses
    audience,    \* table pulse_subscribers
    anchor,      \* the Scope of each Context, "gone" once it is deleted, "left" once the
                 \* subscriber's endpoint has left it and it has no Scope
    agenda,      \* PulseScheduler.entries: when each pulse is to fire
    firing,      \* the firePulse call in progress
    heard,       \* how often each subscriber received each pulse's slot (history)
    armed,       \* how often a slot was put on the agenda by a client (history)
    silent,      \* pulses whose time came while nobody was subscribed (history)
    declared,    \* the pulses of floe.yaml, in their order
    registering, \* those that the attach scan in progress has yet to register
    pulseCalls, busCrashes, registrations

pulseVars == <<clock, pulse, audience, anchor, agenda, firing, heard, armed, silent,
               declared, registering, pulseCalls, busCrashes, registrations>>

agendaVars == <<agenda, armed, silent>>
declarationVars == <<declared, registering, registrations>>

Slots == {<<p, t>> : p \in PulseIds, t \in Times}
NoFiring == [pulse |-> "none", due |-> Never, left |-> {}]
NoPulse == [status |-> "absent", trigger |-> CHOOSE g \in Triggers : TRUE,
            next |-> Never, scope |-> NoPulseScope]

\* What floe.yaml keeps of a pulse.
Declarations == [pulse : PulseIds, trigger : [type : {"once", "cron"}, at : Times],
                 scope : PulseScopes \cup {NoPulseScope}, subscribers : SUBSET Subscribers]

PulseTypeOK ==
    /\ clock \in Times
    /\ pulse \in [PulseIds -> [status : {"absent", "active", "paused", "cancelled", "completed"},
                               trigger : [type : {"once", "cron"}, at : Times],
                               next : Times \cup {Never},
                               scope : PulseScopes \cup {NoPulseScope}]]
    /\ audience \in [PulseIds -> SUBSET Subscribers]
    /\ anchor \in [Anchors -> PulseScopes \cup {NoPulseScope, "gone", "left"}]
    /\ agenda \in [PulseIds -> Times \cup {Never}]
    /\ firing \in [pulse : PulseIds \cup {"none"}, due : Times \cup {Never},
                   left : SUBSET Subscribers]
    /\ silent \subseteq PulseIds
    /\ declared \in Seq(Declarations) /\ registering \in Seq(Declarations)
    /\ pulseCalls \in 0..MaxPulseCalls
    /\ busCrashes \in 0..MaxOutages /\ registrations \in 0..MaxOutages

PulsesInit ==
    /\ clock = 0
    /\ pulse = [p \in PulseIds |-> NoPulse]
    /\ audience = [p \in PulseIds |-> {}]
    /\ anchor \in [Anchors -> PulseScopes \cup {NoPulseScope}]
    /\ agenda = [p \in PulseIds |-> Never]
    /\ firing = NoFiring
    /\ silent = {}
    /\ heard = [x \in Slots |-> [s \in Subscribers |-> 0]]
    /\ armed = [x \in Slots |-> 0]
    /\ declared = <<>>
    /\ registering = <<>>
    /\ pulseCalls = 0 /\ busCrashes = 0 /\ registrations = 0

-----------------------------------------------------------------------------
(* The routes                                                              *)

\* The first time a trigger fires from now on: a one-off time even if it has
\* passed, the next multiple of a period, no time for an unreadable schedule.
CalculateNextFireAt(trigger) ==
    CASE trigger.type = "once" -> trigger.at
      [] trigger.at = 0 -> Never
      [] OTHER -> LET t == trigger.at * (clock \div trigger.at + 1)
                  IN IF t <= MaxTime THEN t ELSE Never

\* Putting a pulse on the agenda replaces its entry.
AddPulse(p, t) ==
    /\ agenda' = [agenda EXCEPT ![p] = t]
    /\ armed' = IF t \in Times THEN [armed EXCEPT ![<<p, t>>] = @ + 1] ELSE armed
    /\ silent' = silent \ {p}

RemovePulse(p) ==
    /\ agenda' = [agenda EXCEPT ![p] = Never]
    /\ UNCHANGED armed

\* requireEndpointContextAnchor: an endpoint is reached in a Context that has a Scope or that
\* it takes part in.
Reachable(c) == anchor[c] \notin {"gone", "left"}

\* The Scopes that the subscribers' own Contexts lie in.
AnchorScopes(subscribers) ==
    {anchor[c] : c \in subscribers \cap Anchors} \cap PulseScopes

\* The Scope a pulse is stored with: the one it names, or the only one its
\* subscribers are anchored in when none needs a generated Context.
PulseScope(scope, subscribers) ==
    IF scope = NoPulseScope /\ subscribers \cap Generated = {}
                            /\ Cardinality(AnchorScopes(subscribers)) = 1
    THEN CHOOSE s \in AnchorScopes(subscribers) : TRUE
    ELSE scope

\* A named Context must exist; generated delivery, and a pulse without
\* subscribers, need a Scope.
ValidAudience(scope, subscribers) ==
    /\ \A c \in subscribers \cap Anchors : Reachable(c)
    /\ scope = NoPulseScope => subscribers # {} /\ subscribers \cap Generated = {}

Called == pulseCalls < MaxPulseCalls /\ pulseCalls' = pulseCalls + 1

\* createPulse.  A pulse of the same id is overwritten, keeps its subscribers, and becomes
\* active unless it was cancelled.
Stored(p, trigger, scope) ==
    [status |-> IF pulse[p].status = "cancelled" THEN "cancelled" ELSE "active",
     trigger |-> trigger, next |-> CalculateNextFireAt(trigger), scope |-> scope]

AcceptsPulse(p, scope, subscribers) ==
    LET all == audience[p] \cup subscribers IN ValidAudience(PulseScope(scope, all), all)

\* What POST /v1/pulses does with a pulse it accepts.
PostPulse(p, trigger, scope, subscribers) ==
    LET all == audience[p] \cup subscribers
        stored == Stored(p, trigger, PulseScope(scope, all))
    IN /\ pulse' = [pulse EXCEPT ![p] = stored]
       /\ audience' = [audience EXCEPT ![p] = all]
       /\ IF stored.status = "active" /\ stored.next # Never
          THEN AddPulse(p, stored.next)
          ELSE UNCHANGED agendaVars

\* POST /v1/pulses
CreatePulse(p, trigger, scope, subscribers) ==
    /\ firing = NoFiring /\ Called
    /\ AcceptsPulse(p, scope, subscribers)
    /\ PostPulse(p, trigger, scope, subscribers)
    /\ UNCHANGED <<clock, anchor, firing, heard, busCrashes, declarationVars>>

UpdatePulseStatus(p, status) ==
    /\ pulse[p].status # "absent"
    /\ pulse' = [pulse EXCEPT ![p].status = status]

\* POST /v1/pulses/:pulse_id/pause and /cancel
StopPulse(p, status) ==
    /\ firing = NoFiring /\ Called
    /\ RemovePulse(p)
    /\ UpdatePulseStatus(p, status)
    /\ UNCHANGED <<clock, audience, anchor, firing, heard, silent, busCrashes,
                   declarationVars>>

\* POST /v1/pulses/:pulse_id/resume, whatever the status is.
ResumePulse(p) ==
    LET trigger == pulse[p].trigger
        next == CalculateNextFireAt(trigger)
    IN /\ firing = NoFiring /\ Called
       /\ pulse[p].status # "absent"
       /\ \/ /\ trigger.type = "cron" /\ next # Never
             /\ pulse' = [pulse EXCEPT ![p].status = "active", ![p].next = next]
             /\ AddPulse(p, next)
          \/ /\ trigger.type = "cron" /\ next = Never
             /\ pulse' = [pulse EXCEPT ![p].status = "active"]
             /\ UNCHANGED agendaVars
          \/ /\ trigger.type = "once"
             /\ pulse' = [pulse EXCEPT ![p].status = "active"]
             /\ IF pulse[p].next # Never THEN AddPulse(p, pulse[p].next)
                                         ELSE UNCHANGED agendaVars
       /\ UNCHANGED <<clock, audience, anchor, firing, heard, busCrashes,
                      declarationVars>>

\* There is a Context to emit in: getOrCreatePulseDeliveryContext creates one in the Scope of
\* the pulse.
DeliveryContext(p, s) ==
    IF s \in Generated THEN pulse[p].scope # NoPulseScope ELSE Reachable(s)

Subscribes(p, s) ==
    /\ pulse[p].status # "absent"
    /\ DeliveryContext(p, s)
    /\ audience' = [audience EXCEPT ![p] = @ \cup {s}]

\* POST /v1/pulses/:pulse_id/subscribe
AddPulseSubscriber(p, s) ==
    /\ firing = NoFiring /\ Called
    /\ Subscribes(p, s)
    /\ UNCHANGED <<clock, pulse, anchor, agendaVars, firing, heard, busCrashes,
                   declarationVars>>

\* POST /v1/pulses/:pulse_id/unsubscribe
RemovePulseSubscriber(p, s) ==
    /\ firing = NoFiring /\ Called
    /\ s \in audience[p]
    /\ audience' = [audience EXCEPT ![p] = @ \ {s}]
    /\ UNCHANGED <<clock, pulse, anchor, agendaVars, firing, heard, busCrashes,
                   declarationVars>>

\* Deleting a Context removes the subscribers that name it.
DeleteAnchor(c) ==
    /\ firing = NoFiring /\ Called
    /\ anchor[c] # "gone"
    /\ anchor' = [anchor EXCEPT ![c] = "gone"]
    /\ audience' = [p \in PulseIds |-> audience[p] \ {c}]
    /\ UNCHANGED <<clock, pulse, agendaVars, firing, heard, busCrashes, declarationVars>>

\* An unscoped Context loses its participant; the subscriber stays.
LeaveAnchor(c) ==
    /\ firing = NoFiring /\ Called
    /\ anchor[c] = NoPulseScope
    /\ anchor' = [anchor EXCEPT ![c] = "left"]
    /\ UNCHANGED <<clock, pulse, audience, agendaVars, firing, heard, busCrashes,
                   declarationVars>>

\* Stopping a Scope cancels its pulses in the table; their entries stay.
CancelPulsesOf(s) ==
    /\ firing = NoFiring /\ Called
    /\ pulse' = [p \in PulseIds |->
           IF pulse[p].scope = s /\ pulse[p].status \in {"active", "paused"}
           THEN [pulse[p] EXCEPT !.status = "cancelled", !.next = Never] ELSE pulse[p]]
    /\ UNCHANGED <<clock, audience, anchor, agendaVars, firing, heard, busCrashes,
                   declarationVars>>

-----------------------------------------------------------------------------
(* The pulses of floe.yaml                                                 *)

\* What agents ask of the create_pulse tool: a reminder in their Contexts after a delay, or
\* at a time of no known kind.
Requests == {[trigger |-> [type |-> t, at |-> 1], scope |-> NoPulseScope,
              subscribers |-> Anchors] : t \in {"after", "other"}}

\* A delay becomes a time when the tool is called.
NormalizePulseTrigger(trigger) ==
    IF trigger.type = "after" THEN [type |-> "once", at |-> clock + trigger.at] ELSE trigger

\* The tool refuses other triggers, and malformed subscribers, without effect; a time after
\* the clock's last is cut off by the bound.
ToolAccepts(trigger) ==
    /\ trigger.type \in {"once", "cron", "after"}
    /\ NormalizePulseTrigger(trigger).at \in Times

\* The Scope of a pulse that names none is that of the Context of the turn.
ToolScope(scope, current) ==
    IF scope = NoPulseScope /\ anchor[current] \in PulseScopes THEN anchor[current] ELSE scope

\* The tool appends an entry and never replaces one.
Declare(d) == declared' = Append(declared, d)

\* create_pulse with workspace persistence, in a turn of the Context current.  The entry
\* is written after the bus has answered, with the Scope the bus resolved; a write that
\* fails is only logged, and the bridge may die before it.
ToolCreatesPulse(p, request, current) ==
    LET trigger == NormalizePulseTrigger(request.trigger)
        scope == ToolScope(request.scope, current)
    IN /\ firing = NoFiring /\ Called
       /\ ToolAccepts(request.trigger)
       /\ anchor[current] # "gone"
       /\ AcceptsPulse(p, scope, request.subscribers)
       /\ PostPulse(p, trigger, scope, request.subscribers)
       /\ \/ Declare([pulse |-> p, trigger |-> trigger, scope |-> pulse'[p].scope,
                       subscribers |-> request.subscribers])
          \/ UNCHANGED declared
       /\ UNCHANGED <<clock, anchor, firing, heard, busCrashes, registering,
                      registrations>>

\* loadProject: an attach scan reads floe.yaml.
ReadDeclarations ==
    /\ registering = <<>> /\ declared # <<>>
    /\ busCrashes + registrations < MaxOutages
    /\ registrations' = registrations + 1
    /\ registering' = declared
    /\ UNCHANGED <<clock, pulse, audience, anchor, agendaVars, firing, heard, declared,
                   pulseCalls, busCrashes>>

\* Every attach scan registers every declared pulse again, the paused and the completed
\* ones too; one that the bus refuses is logged and passed over.
RegisterDeclared ==
    LET d == Head(registering)
    IN /\ firing = NoFiring
       /\ registering # <<>>
       /\ registering' = Tail(registering)
       /\ IF AcceptsPulse(d.pulse, d.scope, d.subscribers)
          THEN PostPulse(d.pulse, d.trigger, d.scope, d.subscribers)
          ELSE UNCHANGED <<pulse, audience, agendaVars>>
       /\ UNCHANGED <<clock, anchor, firing, heard, declared, pulseCalls, busCrashes,
                      registrations>>

-----------------------------------------------------------------------------
(* The timer and a firing                                                  *)

\* The timer is set for the earliest entry; a delay that setTimeout cannot
\* represent is replaced by the shortest one.
TimerRings(p) ==
    /\ agenda[p] # Never
    /\ \A q \in PulseIds : agenda[q] # Never => agenda[p] <= agenda[q]
    /\ agenda[p] <= clock \/ agenda[p] - clock > LongestDelay

\* Mutant of BeginFiring: the entry stays.
BeginFiringAgain(p) ==
    /\ firing = NoFiring
    /\ TimerRings(p)
    /\ firing' = IF pulse[p].status = "active" /\ audience[p] # {}
                 THEN [pulse |-> p, due |-> agenda[p], left |-> audience[p]]
                 ELSE NoFiring
    /\ UNCHANGED <<clock, pulse, audience, anchor, agendaVars, heard, pulseCalls,
                   busCrashes, declarationVars>>

\* The entry is removed before the pulse is looked up.  Only an active pulse
\* that has subscribers goes on.
BeginFiring(p) ==
    /\ firing = NoFiring
    /\ TimerRings(p)
    /\ RemovePulse(p)
    /\ firing' = IF pulse[p].status = "active" /\ audience[p] # {}
                 THEN [pulse |-> p, due |-> agenda[p], left |-> audience[p]]
                 ELSE NoFiring
    /\ silent' = IF audience[p] = {} THEN silent \cup {p} ELSE silent
    /\ UNCHANGED <<clock, pulse, audience, anchor, heard, pulseCalls, busCrashes,
                   declarationVars>>

\* Mutant of EmitTo: an error ends the loop.
EmitToOrStop(s) ==
    LET slot == <<firing.pulse, firing.due>>
        fails == ~DeliveryContext(firing.pulse, s)
    IN /\ s \in firing.left
       /\ firing' = [firing EXCEPT !.left = IF fails THEN {} ELSE @ \ {s}]
       /\ heard' = IF fails THEN heard ELSE [heard EXCEPT ![slot][s] = @ + 1]
       /\ UNCHANGED <<clock, pulse, audience, anchor, agendaVars, pulseCalls,
                      busCrashes, declarationVars>>

\* One subscriber's event.  An error is logged and the loop goes on.
EmitTo(s) ==
    LET slot == <<firing.pulse, firing.due>>
    IN /\ s \in firing.left
       /\ firing' = [firing EXCEPT !.left = @ \ {s}]
       /\ heard' = IF DeliveryContext(firing.pulse, s)
                   THEN [heard EXCEPT ![slot][s] = @ + 1] ELSE heard
       /\ UNCHANGED <<clock, pulse, audience, anchor, agendaVars, pulseCalls,
                      busCrashes, declarationVars>>

\* Mutant of RecordPulseFired: a status no other code knows.
RecordPulseDone(p, next) ==
    pulse' = [pulse EXCEPT ![p].next = next,
                           ![p].status = IF next = Never THEN "done" ELSE "active"]

\* The status follows from the next fire time alone.
RecordPulseFired(p, next) ==
    pulse' = [pulse EXCEPT ![p].next = next,
                           ![p].status = IF next = Never THEN "completed" ELSE "active"]

EndFiring ==
    LET p == firing.pulse
        next == IF pulse[p].trigger.type = "cron"
                THEN CalculateNextFireAt(pulse[p].trigger) ELSE Never
    IN /\ firing # NoFiring /\ firing.left = {}
       /\ RecordPulseFired(p, next)
       /\ IF next # Never THEN AddPulse(p, next) ELSE UNCHANGED agendaVars
       /\ firing' = NoFiring
       /\ UNCHANGED <<clock, audience, anchor, heard, pulseCalls, busCrashes,
                      declarationVars>>

\* Mutant of ActiveForScheduler: a time that has passed is not put back.
ActiveAhead(p) ==
    IF pulse[p].status = "active" /\ pulse[p].next > clock THEN pulse[p].next ELSE Never

\* getActivePulsesForScheduler
ActiveForScheduler(p) == IF pulse[p].status = "active" THEN pulse[p].next ELSE Never

\* The process dies and starts again: the agenda is rebuilt from the table.
RestartScheduler ==
    /\ busCrashes + registrations < MaxOutages
    /\ busCrashes' = busCrashes + 1
    /\ firing' = NoFiring
    /\ agenda' = [p \in PulseIds |-> ActiveForScheduler(p)]
    /\ silent' = {}
    /\ UNCHANGED <<clock, pulse, audience, anchor, heard, armed, pulseCalls,
                   declarationVars>>

\* Time passes while no firing runs and no timer is due.
PulseTick ==
    /\ firing = NoFiring
    /\ clock < MaxTime
    /\ \A p \in PulseIds : ~TimerRings(p)
    /\ clock' = clock + 1
    /\ UNCHANGED <<pulse, audience, anchor, agendaVars, firing, heard, pulseCalls,
                   busCrashes, declarationVars>>

PulsesProceed ==
    \/ \E p \in PulseIds : BeginFiring(p)
    \/ \E s \in Subscribers : EmitTo(s)
    \/ EndFiring
    \/ PulseTick
    \/ RegisterDeclared

PulsesNext ==
    \/ PulsesProceed
    \/ RestartScheduler
    \/ ReadDeclarations
    \/ \E p \in PulseIds :
          \/ \E trigger \in Triggers, scope \in PulseScopes \cup {NoPulseScope},
                subscribers \in SUBSET Subscribers :
                CreatePulse(p, trigger, scope, subscribers)
          \/ \E request \in Requests, current \in Anchors :
                ToolCreatesPulse(p, request, current)
          \/ \E status \in {"paused", "cancelled"} : StopPulse(p, status)
          \/ ResumePulse(p)
          \/ \E s \in Subscribers : AddPulseSubscriber(p, s) \/ RemovePulseSubscriber(p, s)
    \/ \E c \in Anchors : DeleteAnchor(c) \/ LeaveAnchor(c)
    \/ \E s \in PulseScopes : CancelPulsesOf(s)

PulsesSpec == PulsesInit /\ [][PulsesNext]_pulseVars /\ WF_pulseVars(PulsesProceed)

-----------------------------------------------------------------------------
(* Properties                                                              *)

AheadIsScheduled ==
    firing = NoFiring =>
        \A p \in PulseIds :
            pulse[p].status = "active" /\ pulse[p].next > clock /\ p \notin silent =>
                agenda[p] = pulse[p].next

SlotHeardOncePerArming ==
    \A x \in Slots, s \in Subscribers : heard[x][s] <= armed[x] + busCrashes

GeneratedDeliveryHasScope ==
    \A p \in PulseIds : audience[p] \cap Generated # {} => pulse[p].scope # NoPulseScope

\* The agenda of the scheduler and the table agree through every order of edits, pauses,
\* firings and restarts.  Every fire time that an active pulse still has ahead of it is on the
\* agenda (but one so far ahead that it fired at once, when nobody was subscribed); a
\* subscriber receives a slot at most once for every time a client or a firing put it there,
\* plus once for every restart of the bus (which repeats a firing it did not finish); and a
\* pulse with a generated delivery Context has a Scope to create it in.
AgendaIsFaithful == AheadIsScheduled /\ SlotHeardOncePerArming /\ GeneratedDeliveryHasScope

\* What a stopped pulse still has on the agenda (stopping its Scope leaves its entry there)
\* reaches nobody, and no pulse fires before its time but one that is further ahead than a timer
\* can count, which fires at once.  A firing that is recorded was heard by every subscriber
\* whose Context can be reached, even if emitting to another one failed.
FiringIsFaithful ==
    [][/\ heard' # heard => /\ pulse[firing.pulse].status = "active"
                           /\ firing.due - clock \notin 1..LongestDelay
       /\ \A p \in PulseIds :
             firing.pulse = p /\ pulse'[p] # pulse[p] =>
                 \A s \in audience[p] : \/ heard[<<p, firing.due>>][s] > 0
                                        \/ s \in Anchors /\ ~Reachable(s)]_pulseVars

\* Clients, who call only so often, leave no active one-off pulse behind that has a time and
\* subscribers and was not fired in the end, whatever they change about it and wherever the
\* bus restarts; unless its time came when nobody was subscribed, which leaves it active.
EverySlotIsFired ==
    <>[](\A p \in PulseIds : ~ /\ pulse[p].status = "active" /\ audience[p] # {}
                               /\ pulse[p].trigger.type = "once" /\ pulse[p].next # Never
                               /\ p \notin silent)
=============================================================================
