----------------------------- MODULE EventPages -----------------------------
(***************************************************************************)
(* Paging through the events of the bus while events are stored and        *)
(* removed (floe-bus/src: event-cursor.ts, listEvents of store.ts, the     *)
(* route GET /v1/events of server.ts, contexts/store.ts,                   *)
(* endpoint-watermark-store.ts).                                           *)
(*                                                                         *)
(* An event's place in the order is its time of storage and then its id,   *)
(* which is random.  A reader keeps the place of the last event of its     *)
(* page and asks for what lies beyond.                                     *)
(***************************************************************************)
EXTENDS Integers, FiniteSets, FiniteSetsExt

CONSTANTS
    StoredIds,    \* event ids, numbers so that they are ordered
    Limits,       \* page sizes readers ask for
    LargestPage,  \* what listEvents cuts a page size to
    MaxInstant    \* the clock stops here

ASSUME PagesAssumption ==
    /\ StoredIds \subseteq Nat \ {0} /\ Limits \subseteq Nat \ {0}
    /\ LargestPage \in Nat \ {0} /\ MaxInstant \in Nat

VARIABLES
    reader,     \* the reader of this behaviour: readers share nothing they write
    instant,    \* now(), to the millisecond
    stored,     \* table events: pairs of time and id
    ids,        \* ids that were used
    follower,   \* a reader that pages forward: its cursor, what it has seen, and the
                \* places that were filled when its cursor had passed them (history)
    browser,    \* a reader that pages backward from the end; "capped" if it was told that there
                \* is no earlier page by a full one
    listed,     \* a reader of the Contexts by latest activity: cursor, seen, unmoved (history)
    active,     \* the latest activity of each of two Contexts
    watermark   \* table endpoint_watermarks: the follower's mark of what it caught up with

pageVars == <<reader, instant, stored, ids, follower, browser, listed, active, watermark>>

Instant == 0..MaxInstant
Places == Instant \X (StoredIds \cup {0})
Before(x, y) == x[1] < y[1] \/ (x[1] = y[1] /\ x[2] < y[2])
Origin == <<0, 0>>                      \* "no cursor" of a forward reader
Listable == {1, 2}                      \* Contexts in the listing

Readers == {"follower", "browser", "listing"}

PagesTypeOK ==
    /\ reader \in Readers
    /\ instant \in Instant /\ stored \subseteq Places /\ ids \subseteq StoredIds
    /\ follower \in [cursor : Places, seen : SUBSET Places, late : SUBSET Places]
    /\ browser \in [stage : {"idle", "reading", "done", "capped"}, cursor : Places,
                    seen : SUBSET Places, start : SUBSET Places]
    /\ listed \in [cursor : (Instant \X Listable) \cup {<<MaxInstant + 1, 0>>},
                   seen : SUBSET Listable, still : SUBSET Listable]
    /\ active \in [Listable -> Instant]
    /\ watermark \in Places

PagesInit ==
    /\ reader \in Readers
    /\ instant = 0 /\ stored = {} /\ ids = {}
    /\ follower = [cursor |-> Origin, seen |-> {}, late |-> {}]
    /\ browser = [stage |-> "idle", cursor |-> Origin, seen |-> {}, start |-> {}]
    /\ listed = [cursor |-> <<MaxInstant + 1, 0>>, seen |-> {}, still |-> Listable]
    /\ active = [c \in Listable |-> 0]
    /\ watermark = Origin

-----------------------------------------------------------------------------
(* listEvents                                                              *)

PageSize(limit) == Min({Max({limit, 1}), LargestPage})

\* The first n places of a set in the order, and the last n.
FirstPlaces(places, n) == {x \in places : Cardinality({y \in places : Before(y, x)}) < n}
LastPlaces(places, n) == {x \in places : Cardinality({y \in places : Before(x, y)}) < n}

\* Mutant of After: the id does not break ties.
AfterInstant(cursor) == {x \in stored : cursor[1] < x[1]}

\* since: strictly after the cursor; the id breaks ties.
After(cursor) == {x \in stored : Before(cursor, x)}

ForwardPage(cursor, limit) == FirstPlaces(After(cursor), PageSize(limit))
BackwardPage(places, limit) == LastPlaces(places, PageSize(limit))

EndOf(page) == CHOOSE x \in page : \A y \in page : y = x \/ Before(y, x)
StartOf(page) == CHOOSE x \in page : \A y \in page : y = x \/ Before(x, y)

-----------------------------------------------------------------------------
(* Writers                                                                 *)

Store(id) ==
    /\ reader # "listing" /\ id \in StoredIds \ ids
    /\ instant > 0
    /\ stored' = stored \cup {<<instant, id>>}
    /\ ids' = ids \cup {id}
    /\ follower' = [follower EXCEPT !.late =
                       IF Before(<<instant, id>>, follower.cursor)
                       THEN @ \cup {<<instant, id>>} ELSE @]
    /\ UNCHANGED <<reader, instant, browser, listed, active, watermark>>

\* Compaction or deletion, also of an event a cursor names.
Unstore(x) ==
    /\ x \in stored
    /\ stored' = stored \ {x}
    /\ UNCHANGED <<reader, instant, ids, follower, browser, listed, active, watermark>>

\* An event moves its Context to the front of the listing.
Activity(c) ==
    /\ reader = "listing"
    /\ active[c] # instant
    /\ active' = [active EXCEPT ![c] = instant]
    /\ listed' = [listed EXCEPT !.still = @ \ {c}]
    /\ UNCHANGED <<reader, instant, stored, ids, follower, browser, watermark>>

InstantPasses ==
    /\ instant < MaxInstant
    /\ instant' = instant + 1
    /\ UNCHANGED <<reader, stored, ids, follower, browser, listed, active, watermark>>

-----------------------------------------------------------------------------
(* Readers                                                                 *)

\* The context_history tool and other readers that go on from next_cursor.  A page without
\* events leaves the reader where it is.
ReadForward(limit) ==
    LET page == ForwardPage(follower.cursor, limit)
    IN /\ reader = "follower" /\ page # {}
       /\ follower' = [follower EXCEPT !.cursor = EndOf(page), !.seen = @ \cup page]
       /\ UNCHANGED <<reader, instant, stored, ids, browser, listed, active, watermark>>

\* The first backward page has no cursor; the next ones lie before the oldest event read.
\* The answer offers an earlier page when this one has as many events as were asked for, even
\* if they are more than listEvents returns.
ReadBackward(limit) ==
    LET range == IF browser.stage = "idle" THEN stored
                 ELSE {x \in stored : Before(x, browser.cursor)}
        page == BackwardPage(range, limit)
        stage == CASE Cardinality(page) = limit -> "reading"
                   [] Cardinality(page) = PageSize(limit) /\ PageSize(limit) # limit -> "capped"
                   [] OTHER -> "done"
    IN /\ reader = "browser" /\ browser.stage \in {"idle", "reading"}
       /\ browser' = [stage |-> stage,
                      cursor |-> IF page = {} THEN browser.cursor ELSE StartOf(page),
                      seen |-> browser.seen \cup page,
                      start |-> IF browser.stage = "idle" THEN stored ELSE browser.start]
       /\ UNCHANGED <<reader, instant, stored, ids, follower, listed, active, watermark>>

ListedRows == {<<active[c], c>> : c \in Listable}

\* What a listing by latest activity and id has still to show.
FurtherRows == {x \in ListedRows : Before(x, listed.cursor)}

\* listContextsForWorkspace, one row a page.
ListContexts ==
    LET page == LastPlaces(FurtherRows, 1)
    IN /\ reader = "listing" /\ page # {}
       /\ listed' = [listed EXCEPT !.cursor = EndOf(page), !.seen = @ \cup {x[2] : x \in page}]
       /\ UNCHANGED <<reader, instant, stored, ids, follower, browser, active, watermark>>

\* PUT .../watermark: the follower marks what it has read; a new follower (a
\* restarted application) goes on from the mark.
SetWatermark ==
    /\ watermark # follower.cursor
    /\ watermark' = follower.cursor
    /\ UNCHANGED <<reader, instant, stored, ids, follower, browser, listed, active>>

ResumeFromWatermark ==
    /\ follower.cursor # watermark
    /\ follower' = [follower EXCEPT
                       !.cursor = watermark,
                       !.seen = {x \in @ : x = watermark \/ Before(x, watermark)}]
    /\ UNCHANGED <<reader, instant, stored, ids, browser, listed, active, watermark>>

PagesNext ==
    \/ \E id \in StoredIds : Store(id)
    \/ \E x \in stored : Unstore(x)
    \/ \E c \in Listable : Activity(c)
    \/ InstantPasses
    \/ \E limit \in Limits : ReadForward(limit) \/ ReadBackward(limit)
    \/ ListContexts
    \/ SetWatermark \/ ResumeFromWatermark

PagesSpec == PagesInit /\ [][PagesNext]_pageVars

-----------------------------------------------------------------------------
(* Properties                                                              *)

NothingPresentIsSkipped ==
    \A x \in stored : Before(x, follower.cursor) => x \in follower.seen \cup follower.late

BackwardReadsAll ==
    browser.stage = "done" => browser.start \cap stored \subseteq browser.seen

UnmovedContextsAreListed == FurtherRows = {} => listed.still \subseteq listed.seen

\* A forward reader has seen every event up to its place, wherever page boundaries fell inside
\* an instant, whatever was removed, and also after it resumed from its watermark; except the
\* events that were stored behind its place.  A backward reader that was told there is no
\* earlier page has seen every event that was there when it began and is still there; with one
\* exception: one that asks for more events than the bus returns is not offered the pages
\* before a full one, though "previous_cursor" is returned "for earlier history"
\* (docs/guide/terminal/bus-api.md:160).  A listing of Contexts that was read to its end
\* misses none that stayed where it was.
PagedReadersMissNothing ==
    NothingPresentIsSkipped /\ BackwardReadsAll /\ UnmovedContextsAreListed
=============================================================================
