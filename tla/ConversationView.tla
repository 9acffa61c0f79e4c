-------------------------- MODULE ConversationView --------------------------
(***************************************************************************)
(* The desktop view of one conversation (floe-app/src: scope/              *)
(* ContextConversation.tsx, bus-client/stream.ts, the history page of      *)
(* bus-client/client.ts), beside the part of the bus it watches.           *)
(*                                                                         *)
(* The view learns what happens from a stream of messages and from loads,  *)
(* whose answers are snapshots of the moment in which the bus took them.   *)
(* Loads are not numbered: they are applied in the order in which their    *)
(* answers arrive.                                                         *)
(***************************************************************************)
EXTENDS Integers, Sequences, FiniteSets, FiniteSetsExt

CONSTANTS
    HistoryPage,    \* HISTORY_PAGE_SIZE
    MaxMessages,    \* bounds: messages of the Context,
    MaxTurns,       \*   deliveries of its other participant,
    MaxLoads,       \*   loads under way at once,
    MaxViewFaults   \*   failed calls, lost streams, stopped services

ASSUME ViewAssumption ==
    /\ HistoryPage \in Nat \ {0} /\ MaxMessages \in Nat \ {0} /\ MaxTurns \in Nat
    /\ MaxLoads \in Nat \ {0} /\ MaxViewFaults \in Nat

VARIABLES
    messages,    \* bus: how many messages the Context has; their order is their number
    delivery,    \* bus: the latest delivery of the other participant
    feed,        \* the stream: messages sent and not handled yet
    feedOpen,    \* the socket is open
    load,        \* the loads under way
    earlier,     \* loadEarlierHistory under way
    view,        \* what loading and error say of the view
    shown,       \* events: the messages on display
    cursor,      \* previousCursor: the oldest message of the page it was set from, 0 if null
    working,     \* workingEndpoints: the delivery the participant is shown to work on, 0 if none
    composer,    \* ComposerDock: a text being sent, how often the bus took it
    offline,     \* runtimeHealth.state is "offline"
    skipped,     \* messages a refresh could not connect to, since the first load (history)
    reset,       \* the first load was applied over newer messages, or failed (history)
    overtaken,   \* a load brought deliveries older than a message handled before (history)
    viewFaults

viewVars == <<messages, delivery, feed, feedOpen, load, earlier, view, shown, cursor,
              working, composer, offline, skipped, reset, overtaken, viewFaults>>

Messages == 1..MaxMessages
Turns == 0..MaxTurns
NoLoad == [on |-> FALSE, fresh |-> FALSE, answered |-> FALSE, page |-> {}, works |-> 0]

ViewTypeOK ==
    /\ messages \in 0..MaxMessages
    /\ delivery \in [id : Turns, state : {"none", "active", "ended", "failed"}]
    /\ feed \in Seq([type : {"event", "started", "failed", "turn end"}, id : Turns])
    /\ feedOpen \in BOOLEAN /\ offline \in BOOLEAN /\ overtaken \in BOOLEAN
    /\ load \in [1..MaxLoads -> [on : BOOLEAN, fresh : BOOLEAN, page : SUBSET Messages,
                                 answered : BOOLEAN, works : Turns]]
    /\ earlier \in [stage : {"idle", "asked", "answered"}, page : SUBSET Messages]
    /\ view \in {"loading", "ready", "error"}
    /\ shown \subseteq Messages /\ skipped \subseteq Messages
    /\ cursor \in 0..MaxMessages /\ working \in Turns
    /\ composer \in [stage : {"idle", "sending", "taken"}, copies : 0..MaxMessages,
                     unsure : BOOLEAN]
    /\ reset \in {"no", "rolled back", "failed"}
    /\ viewFaults \in 0..MaxViewFaults

\* The view is mounted and has called load(false).
ViewInit ==
    /\ messages \in {0, MaxMessages - 1}
    /\ delivery = [id |-> 0, state |-> "none"]
    /\ feed = <<>> /\ feedOpen = TRUE
    /\ load = [n \in 1..MaxLoads |-> IF n = 1 THEN [NoLoad EXCEPT !.on = TRUE, !.fresh = TRUE]
                                     ELSE NoLoad]
    /\ earlier = [stage |-> "idle", page |-> {}]
    /\ view = "loading" /\ shown = {} /\ cursor = 0 /\ working = 0
    /\ composer = [stage |-> "idle", copies |-> 0, unsure |-> FALSE]
    /\ offline = FALSE /\ skipped = {} /\ reset = "no" /\ overtaken = FALSE
    /\ viewFaults = 0

-----------------------------------------------------------------------------
(* The bus                                                                 *)

Newest(n, before) == {m \in 1..(before - 1) : m >= before - n}

\* What conversationDeliveryState makes of the deliveries.
WorksNow == IF delivery.state = "active" THEN delivery.id ELSE 0

Told(type, id) == IF feedOpen THEN Append(feed, [type |-> type, id |-> id]) ELSE feed

BusUnseen == <<load, earlier, view, shown, cursor, working, offline, skipped, reset, overtaken>>

\* A message of the other participant, while it works on a delivery.
Post ==
    /\ delivery.state = "active" /\ messages < MaxMessages
    /\ messages' = messages + 1
    /\ feed' = Told("event", 0)
    /\ UNCHANGED <<delivery, feedOpen, composer, viewFaults>>
    /\ UNCHANGED BusUnseen

TurnStarts ==
    /\ delivery.state # "active" /\ delivery.id < MaxTurns
    /\ delivery' = [id |-> delivery.id + 1, state |-> "active"]
    /\ feed' = Told("started", delivery.id + 1)
    /\ UNCHANGED <<messages, feedOpen, composer, viewFaults>>
    /\ UNCHANGED BusUnseen

TurnEnds ==
    /\ delivery.state = "active"
    /\ \/ /\ delivery' = [delivery EXCEPT !.state = "ended"]
          /\ feed' = Told("turn end", delivery.id)
       \/ /\ delivery' = [delivery EXCEPT !.state = "failed"]
          /\ feed' = IF feedOpen
                     THEN Append(Append(feed, [type |-> "failed", id |-> delivery.id]),
                                 [type |-> "turn end", id |-> delivery.id])
                     ELSE feed
    /\ UNCHANGED <<messages, feedOpen, composer, viewFaults>>
    /\ UNCHANGED BusUnseen

-----------------------------------------------------------------------------
(* The stream                                                              *)

Faulty == viewFaults < MaxViewFaults /\ viewFaults' = viewFaults + 1

StreamCloses ==
    /\ feedOpen /\ Faulty
    /\ feedOpen' = FALSE /\ feed' = <<>>
    /\ UNCHANGED <<messages, delivery, composer>>
    /\ UNCHANGED BusUnseen

\* The socket is opened again after a delay; the view asks for nothing then.
StreamOpens ==
    /\ ~feedOpen
    /\ feedOpen' = TRUE
    /\ UNCHANGED <<messages, delivery, feed, composer, viewFaults>>
    /\ UNCHANGED BusUnseen

-----------------------------------------------------------------------------
(* load                                                                    *)

\* load(true) in the first free slot: the view has no bound, the model has.
Refreshing ==
    LET free == {n \in 1..MaxLoads : ~load[n].on}
    IN /\ free # {}
       /\ load' = [load EXCEPT ![Min(free)] = [NoLoad EXCEPT !.on = TRUE]]
       /\ view' = IF view = "error" THEN "ready" ELSE view

\* setLoading(false): an error stays until the next load begins.
Settled == IF view = "error" THEN "error" ELSE "ready"

\* An offline runtime leaves nobody working.
Indicates(id) == IF offline THEN 0 ELSE id

\* Mutant of HandleEvent: nothing is loaded.
HandleEventOnly ==
    /\ feed # <<>> /\ Head(feed).type = "event"
    /\ feed' = Tail(feed)
    /\ UNCHANGED <<messages, delivery, feedOpen, load, earlier, view, shown, cursor, working,
                   composer, offline, skipped, reset, overtaken, viewFaults>>

HandleEvent ==
    /\ feed # <<>> /\ Head(feed).type = "event"
    /\ feed' = Tail(feed)
    /\ Refreshing
    /\ UNCHANGED <<messages, delivery, feedOpen, earlier, shown, cursor, working, composer,
                   offline, skipped, reset, overtaken, viewFaults>>

WorkingAfter(m) ==
    IF m.type = "started" THEN Indicates(m.id)
    ELSE IF m.type = "failed" /\ working # m.id THEN working
    ELSE 0

HandleTurnMessage ==
    /\ feed # <<>> /\ Head(feed).type # "event"
    /\ feed' = Tail(feed)
    /\ working' = WorkingAfter(Head(feed))
    /\ UNCHANGED <<messages, delivery, feedOpen, load, earlier, view, shown, cursor, composer,
                   offline, skipped, reset, overtaken, viewFaults>>

\* The answers to the calls of a load.  No property relates the history to the
\* deliveries, so one moment stands for both; a failing list of deliveries counts
\* as an empty one.
Answer(n) ==
    /\ load[n].on /\ ~load[n].answered
    /\ \E works \in {WorksNow, 0} :
          /\ load' = [load EXCEPT ![n].answered = TRUE, ![n].works = works,
                                  ![n].page = Newest(HistoryPage, messages + 1)]
          /\ IF works = WorksNow THEN UNCHANGED viewFaults ELSE Faulty
    /\ UNCHANGED <<messages, delivery, feed, feedOpen, earlier, view, shown, cursor, working,
                   composer, offline, skipped, reset, overtaken>>

\* Mutant of Displayed: a refresh replaces what was loaded, as a first load does.
DisplayedPage(answer) == answer.page

\* mergeEventPages for a refresh; a first load replaces.
Displayed(answer) == IF answer.fresh THEN answer.page ELSE shown \cup answer.page

Loaded(n) ==
    LET answer == load[n]
        latest == Max(shown \cup {0})
        news == \E i \in DOMAIN feed : feed[i].type # "event"
    IN /\ answer.on /\ answer.answered
       /\ shown' = Displayed(answer)
       /\ cursor' = IF ~answer.fresh THEN cursor
                    ELSE IF Cardinality(answer.page) = HistoryPage THEN Min(answer.page) ELSE 0
       /\ working' = Indicates(answer.works)
       /\ view' = Settled
       /\ load' = [load EXCEPT ![n] = NoLoad]
       /\ skipped' = IF answer.fresh THEN {}
                     ELSE IF answer.page = {} THEN skipped
                     ELSE skipped \cup {m \in Messages : latest < m /\ m < Min(answer.page)}
       /\ reset' = IF answer.fresh /\ latest > Max(answer.page \cup {0}) THEN "rolled back"
                   ELSE IF reset = "rolled back" THEN "no" ELSE reset
       /\ overtaken' = (answer.works # WorksNow /\ ~news)
       /\ UNCHANGED <<messages, delivery, feed, feedOpen, earlier, composer, offline, viewFaults>>

\* One of the calls fails.  A failed first load shows an error until a refresh
\* begins, and leaves the cursor null.
LoadFails(n) ==
    /\ load[n].on /\ Faulty
    /\ load' = [load EXCEPT ![n] = NoLoad]
    /\ view' = IF load[n].fresh THEN "error" ELSE Settled
    /\ reset' = IF load[n].fresh THEN "failed" ELSE reset
    /\ UNCHANGED <<messages, delivery, feed, feedOpen, earlier, shown, cursor, working, composer,
                   offline, skipped, overtaken>>

-----------------------------------------------------------------------------
(* loadEarlierHistory                                                      *)

ScrollUp ==
    /\ view = "ready" /\ cursor # 0 /\ earlier.stage = "idle"
    /\ earlier' = [stage |-> "asked", page |-> {}]
    /\ UNCHANGED <<messages, delivery, feed, feedOpen, load, view, shown, cursor, working,
                   composer, offline, skipped, reset, overtaken, viewFaults>>

AnswerEarlier ==
    /\ earlier.stage = "asked"
    /\ earlier' = [stage |-> "answered", page |-> Newest(HistoryPage, cursor)]
    /\ UNCHANGED <<messages, delivery, feed, feedOpen, load, view, shown, cursor, working,
                   composer, offline, skipped, reset, overtaken, viewFaults>>

EarlierCursor(page) == IF Cardinality(page) = HistoryPage THEN Min(page) ELSE 0

EarlierLoaded ==
    /\ earlier.stage = "answered"
    /\ shown' = shown \cup earlier.page
    /\ cursor' = EarlierCursor(earlier.page)
    /\ earlier' = [stage |-> "idle", page |-> {}]
    /\ UNCHANGED <<messages, delivery, feed, feedOpen, load, view, working, composer, offline,
                   skipped, reset, overtaken, viewFaults>>

EarlierFails ==
    /\ earlier.stage # "idle" /\ Faulty
    /\ earlier' = [stage |-> "idle", page |-> {}]
    /\ UNCHANGED <<messages, delivery, feed, feedOpen, load, view, shown, cursor, working,
                   composer, offline, skipped, reset, overtaken>>

-----------------------------------------------------------------------------
(* The composer and the health of the services                             *)

ComposerUnseen == <<delivery, feedOpen, earlier, shown, cursor, working, offline, skipped,
                    reset, overtaken>>

\* Enter, or the button: not while a text is being sent.
SendPressed ==
    /\ view = "ready" /\ composer.stage = "idle"
    /\ composer' = [composer EXCEPT !.stage = "sending"]
    /\ UNCHANGED <<messages, feed, load, view, viewFaults>> /\ UNCHANGED ComposerUnseen

BusTakesText ==
    /\ composer.stage = "sending" /\ messages < MaxMessages
    /\ messages' = messages + 1
    /\ feed' = Told("event", 0)
    /\ composer' = [composer EXCEPT !.stage = "taken", !.copies = @ + 1]
    /\ UNCHANGED <<load, view, viewFaults>> /\ UNCHANGED ComposerUnseen

\* The text is cleared and the view refreshed.
Sent ==
    /\ composer.stage = "taken"
    /\ Refreshing
    /\ composer' = [stage |-> "idle", copies |-> 0, unsure |-> FALSE]
    /\ UNCHANGED <<messages, feed, viewFaults>> /\ UNCHANGED ComposerUnseen

\* The text stays, with an error, also when only the answer was lost.
SendFails ==
    /\ composer.stage # "idle" /\ Faulty
    /\ composer' = [composer EXCEPT !.stage = "idle",
                                    !.unsure = @ \/ composer.stage = "taken"]
    /\ UNCHANGED <<messages, feed, load, view>> /\ UNCHANGED ComposerUnseen

ServicesStop ==
    /\ ~offline /\ ~feedOpen
    /\ offline' = TRUE /\ working' = 0
    /\ UNCHANGED <<messages, delivery, feed, feedOpen, load, earlier, view, shown, cursor,
                   composer, skipped, reset, overtaken, viewFaults>>

ServicesReturn ==
    /\ offline /\ feedOpen
    /\ offline' = FALSE
    /\ UNCHANGED <<messages, delivery, feed, feedOpen, load, earlier, view, shown, cursor,
                   working, composer, skipped, reset, overtaken, viewFaults>>

ViewProceeds ==
    \/ HandleEvent \/ HandleTurnMessage
    \/ \E n \in 1..MaxLoads : Answer(n) \/ Loaded(n)
    \/ AnswerEarlier \/ EarlierLoaded
    \/ BusTakesText \/ Sent
    \/ StreamOpens \/ ServicesReturn

ViewNext ==
    \/ Post \/ TurnStarts \/ TurnEnds
    \/ StreamCloses
    \/ \E n \in 1..MaxLoads : LoadFails(n)
    \/ ScrollUp \/ EarlierFails
    \/ SendPressed \/ SendFails
    \/ ServicesStop
    \/ ViewProceeds

ViewSpec == ViewInit /\ [][ViewNext]_viewVars /\ WF_viewVars(ViewProceeds)

-----------------------------------------------------------------------------
(* Properties                                                              *)

NothingIsOutOfReach ==
    \A m \in 1..Max(shown \cup {0}) : m \in shown \cup skipped \/ m < cursor

IndicatorIsTrue ==
    feed = <<>> /\ (\A n \in 1..MaxLoads : ~load[n].on) /\ viewFaults = 0 /\ ~overtaken
        => working = WorksNow

TextIsPostedOnce == composer.copies > 1 => composer.unsure

\* What was posted before the latest message on display is on display too or can be loaded by
\* scrolling up, however refreshes and earlier pages interleave, unless more than a page came
\* in between two loads, or the first load has failed or is still under way when a refresh is
\* applied.  When nothing is on its way, the view shows a participant working exactly while it
\* works, unless a load brought deliveries that the stream had overtaken.  A text reaches the
\* bus once, unless an answer was lost and the operator sent it again.
ConversationIsTrue == NothingIsOutOfReach /\ IndicatorIsTrue /\ TextIsPostedOnce

\* Without failing calls, the display catches up with the latest message.
NewestAppears ==
    <>[](viewFaults = 0 /\ reset # "rolled back" /\ messages > 0 => messages \in shown)
=============================================================================
