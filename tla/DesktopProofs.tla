---------------------------- MODULE DesktopProofs ----------------------------
(***************************************************************************)
(* Proofs about what the readers and editors of a workspace rely on: the   *)
(* pages of events (EventPages), the definitions of its actors             *)
(* (ActorDefinitions), the conversation view (ConversationView), the       *)
(* health of the services (RuntimeHealth) and the list of conversations    *)
(* (ConversationList).                                                     *)
(***************************************************************************)
EXTENDS EventPages, ActorDefinitions, ConversationView, RuntimeHealth, ConversationList,
        FiniteSetTheorems, WellFoundedInduction, SequenceTheorems, TLAPS

-----------------------------------------------------------------------------
(* Event pages: the order of places                                        *)

Spots == Nat \X Nat

\* The order by time and id is total.
LEMMA BeforeOrders ==
    /\ \A x \in Spots : ~Before(x, x)
    /\ \A x, y, z \in Spots : Before(x, y) /\ Before(y, z) => Before(x, z)
    /\ \A x, y \in Spots : x = y \/ Before(x, y) \/ Before(y, x)
BY DEF Spots, Before

\* What lies behind and before a place of a set.
Ahead(places, x) == {y \in places : Before(x, y)}
Behind(places, x) == {y \in places : Before(y, x)}

\* A set with as few members ahead, or behind, as any other has none.
LEMMA PageHasEnds ==
    ASSUME NEW page, page \subseteq Spots, IsFiniteSet(page), page # {}
    PROVE  /\ EndOf(page) \in page /\ \A y \in page : y = EndOf(page) \/ Before(y, EndOf(page))
           /\ StartOf(page) \in page
           /\ \A y \in page : y = StartOf(page) \/ Before(StartOf(page), y)
<1>1. \A F : (\A x \in page : F[x] \in SUBSET page) /\ DOMAIN F = page
              => \E x \in page : \A y \in page : <<F[y], F[x]>> \notin StrictSubsetOrdering(page)
  <2> SUFFICES ASSUME NEW F, \A x \in page : F[x] \in SUBSET page
               PROVE  \E x \in page :
                          \A y \in page : <<F[y], F[x]>> \notin StrictSubsetOrdering(page)
    OBVIOUS
  <2> DEFINE T == {F[x] : x \in page}
  <2>1. T \subseteq FiniteSubsetsOf(page) /\ T # {}
    BY FS_Subset DEF FiniteSubsetsOf
  <2>2. PICK m \in T : \A y \in T : <<y, m>> \notin StrictSubsetOrdering(page)
    <3> HIDE DEF T
    <3> QED  BY <2>1, FS_StrictSubsetOrderingWellFounded, WFMin
  <2> QED  BY <2>2
<1>2. PICK x \in page : \A y \in page :
          <<Ahead(page, y), Ahead(page, x)>> \notin StrictSubsetOrdering(page)
  <2> DEFINE F == [x \in page |-> Ahead(page, x)]
  <2>1. \E x \in page : \A y \in page : <<F[y], F[x]>> \notin StrictSubsetOrdering(page)
    <3>1. (\A x \in page : F[x] \in SUBSET page) /\ DOMAIN F = page
      BY DEF Ahead
    <3> HIDE DEF F
    <3> QED  BY <1>1, <3>1
  <2> QED  BY <2>1
<1>3. \A y \in page : y = x \/ Before(y, x)
  <2> SUFFICES ASSUME NEW y \in page, Before(x, y) PROVE FALSE
    BY BeforeOrders
  <2>1. Ahead(page, y) \subseteq Ahead(page, x) /\ y \in Ahead(page, x) /\ y \notin Ahead(page, y)
    BY BeforeOrders DEF Ahead
  <2>2. Ahead(page, x) \subseteq page
    BY DEF Ahead
  <2> QED  BY <1>2, <2>1, <2>2 DEF StrictSubsetOrdering
<1>4. PICK z \in page : \A y \in page :
          <<Behind(page, y), Behind(page, z)>> \notin StrictSubsetOrdering(page)
  <2> DEFINE F == [v \in page |-> Behind(page, v)]
  <2>1. \E v \in page : \A y \in page : <<F[y], F[v]>> \notin StrictSubsetOrdering(page)
    <3>1. (\A v \in page : F[v] \in SUBSET page) /\ DOMAIN F = page
      BY DEF Behind
    <3> HIDE DEF F
    <3> QED  BY <1>1, <3>1
  <2> QED  BY <2>1
<1>5. \A y \in page : y = z \/ Before(z, y)
  <2> SUFFICES ASSUME NEW y \in page, Before(y, z) PROVE FALSE
    BY BeforeOrders
  <2>1. /\ Behind(page, y) \subseteq Behind(page, z)
        /\ y \in Behind(page, z) /\ y \notin Behind(page, y)
    BY BeforeOrders DEF Behind
  <2>2. Behind(page, z) \subseteq page
    BY DEF Behind
  <2> QED  BY <1>4, <2>1, <2>2 DEF StrictSubsetOrdering
<1> QED  BY <1>3, <1>5 DEF EndOf, StartOf

\* A first page has everything up to its end.
LEMMA FirstPageIsWhole ==
    ASSUME NEW places, places \subseteq Spots, IsFiniteSet(places), NEW n \in Nat,
           NEW x \in places, NEW y \in FirstPlaces(places, n), Before(x, y)
    PROVE  x \in FirstPlaces(places, n)
<1>1. Behind(places, x) \subseteq Behind(places, y) /\ Behind(places, y) \subseteq places
  BY BeforeOrders DEF Behind, FirstPlaces
<1>2. /\ Cardinality(Behind(places, x)) <= Cardinality(Behind(places, y))
      /\ Cardinality(Behind(places, x)) \in Nat /\ Cardinality(Behind(places, y)) \in Nat
  BY <1>1, FS_Subset, FS_CardinalityType
<1> QED  BY <1>2 DEF FirstPlaces, Behind

\* A last page has everything from its start.
LEMMA LastPageIsWhole ==
    ASSUME NEW places, places \subseteq Spots, IsFiniteSet(places), NEW n \in Nat,
           NEW x \in places, NEW y \in LastPlaces(places, n), Before(y, x)
    PROVE  x \in LastPlaces(places, n)
<1>1. Ahead(places, x) \subseteq Ahead(places, y) /\ Ahead(places, y) \subseteq places
  BY BeforeOrders DEF Ahead, LastPlaces
<1>2. /\ Cardinality(Ahead(places, x)) <= Cardinality(Ahead(places, y))
      /\ Cardinality(Ahead(places, x)) \in Nat /\ Cardinality(Ahead(places, y)) \in Nat
  BY <1>1, FS_Subset, FS_CardinalityType
<1> QED  BY <1>2 DEF LastPlaces, Ahead

\* A last page of another size than was asked for has everything.
LEMMA ShortPageIsAll ==
    ASSUME NEW places, places \subseteq Spots, IsFiniteSet(places), NEW n \in Nat \ {0},
           Cardinality(LastPlaces(places, n)) # n
    PROVE  LastPlaces(places, n) = places
<1> DEFINE page == LastPlaces(places, n)
           rest == places \ page
<1>0. page \subseteq places
  BY DEF LastPlaces
<1>1. /\ IsFiniteSet(page) /\ IsFiniteSet(rest)
      /\ Cardinality(page) \in Nat /\ Cardinality(page) # n
  BY <1>0, FS_Subset, FS_CardinalityType
<1>2. Cardinality(page) <= n
  <2>1. CASE page = {}
    BY <2>1, FS_EmptySet
  <2>2. CASE page # {}
    <3> DEFINE s == StartOf(page)
    <3>1. s \in page /\ \A y \in page : y = s \/ Before(s, y)
      BY <1>0, <1>1, <2>2, PageHasEnds
    <3>2. Cardinality(Ahead(places, s)) < n
      BY <3>1 DEF LastPlaces, Ahead
    <3>3. page \ {s} \subseteq Ahead(places, s) /\ Ahead(places, s) \subseteq places
      BY <1>0, <3>1 DEF Ahead
    <3>4. /\ Cardinality(page \ {s}) <= Cardinality(Ahead(places, s))
          /\ Cardinality(Ahead(places, s)) \in Nat
      BY <3>3, FS_Subset, FS_CardinalityType
    <3>5. Cardinality(page \ {s}) = Cardinality(page) - 1
      BY <1>1, <3>1, FS_RemoveElement
    <3> HIDE DEF page
    <3> QED  BY <1>1, <3>2, <3>4, <3>5
  <2> QED  BY <2>1, <2>2
<1>3. CASE rest # {}
  <2> DEFINE x == EndOf(rest)
  <2>1. x \in rest /\ \A y \in rest : y = x \/ Before(y, x)
    BY <1>1, <1>3, PageHasEnds
  <2>2. ~(Cardinality(Ahead(places, x)) < n)
    BY <2>1 DEF LastPlaces, Ahead
  <2>3. Ahead(places, x) \subseteq page
    <3> SUFFICES ASSUME NEW y \in rest, Before(x, y) PROVE FALSE
      BY DEF Ahead
    <3> QED  BY <2>1, BeforeOrders
  <2>4. Cardinality(Ahead(places, x)) <= Cardinality(page) /\ Cardinality(Ahead(places, x)) \in Nat
    BY <1>1, <2>3, FS_Subset, FS_CardinalityType
  <2> HIDE DEF page
  <2> QED  BY <1>1, <1>2, <2>2, <2>4
<1> QED  BY <1>0, <1>3

-----------------------------------------------------------------------------
(* Event pages: types                                                      *)

LEMMA PageTimes ==
    /\ MaxInstant \in Nat /\ Instant \subseteq Nat /\ 0 \in Instant
    /\ Places \subseteq Spots /\ Origin \in Places /\ StoredIds \subseteq Nat /\ 0 \notin StoredIds
<1>1. MaxInstant \in Nat /\ Instant \subseteq Nat /\ 0 \in Instant
  BY PagesAssumption DEF Instant
<1>2. StoredIds \cup {0} \subseteq Nat /\ 0 \notin StoredIds
  BY PagesAssumption
<1> QED  BY <1>1, <1>2 DEF Places, Spots, Origin

\* Rows of the listing, and the place before which it begins.
ListSpots == (Instant \X Listable) \cup {<<MaxInstant + 1, 0>>}

\* What is stored has an id that was used, and so have the places of the readers.
PagesTypes ==
    /\ PagesTypeOK /\ IsFiniteSet(stored)
    /\ \A x \in stored : x[2] \in ids
    /\ follower.cursor[2] \in ids \cup {0} /\ watermark[2] \in ids \cup {0}
    /\ \A x \in browser.start : x[2] \in ids

AtOrBefore(x, y) == x = y \/ Before(x, y)

\* The follower is at its mark or beyond, and what lies up to its place it has seen, or it
\* was stored later.
FollowerSees ==
    /\ AtOrBefore(watermark, follower.cursor)
    /\ \A x \in stored : AtOrBefore(x, follower.cursor) => x \in follower.seen \cup follower.late

\* A Context that stayed where it was was listed, or is further down.
ListingSees ==
    \A c \in listed.still : c \in listed.seen \/ Before(<<active[c], c>>, listed.cursor)

\* What was there when the browser began was read, lies before its place, or is gone.
BrowserSees ==
    browser.stage \in {"reading", "done"} =>
        \A x \in browser.start \cap stored :
            \/ x \in browser.seen
            \/ browser.stage = "reading" /\ Before(x, browser.cursor)

PagesInv == PagesTypes /\ FollowerSees /\ ListingSees

LEMMA OfPagesTypes ==
    ASSUME PagesTypes
    PROVE  /\ instant \in Instant /\ stored \subseteq Places /\ IsFiniteSet(stored)
           /\ ids \subseteq StoredIds /\ stored \subseteq Spots
           /\ follower \in [cursor : Places, seen : SUBSET Places, late : SUBSET Places]
           /\ follower.cursor \in Spots /\ watermark \in Spots
           /\ browser \in [stage : {"idle", "reading", "done", "capped"}, cursor : Places,
                           seen : SUBSET Places, start : SUBSET Places]
           /\ browser.cursor \in Spots
           /\ listed \in [cursor : ListSpots, seen : SUBSET Listable, still : SUBSET Listable]
           /\ listed.cursor \in Spots
           /\ active \in [Listable -> Instant]
<1>1. PagesTypeOK /\ IsFiniteSet(stored)
  BY DEF PagesTypes
<1>2. ListSpots \subseteq Spots
  <2>1. MaxInstant + 1 \in Nat /\ Listable \subseteq Nat
    BY PageTimes DEF Listable
  <2>2. Instant \X Listable \subseteq Spots
    BY <2>1, PageTimes DEF Spots
  <2>3. <<MaxInstant + 1, 0>> \in Spots
    BY <2>1 DEF Spots
  <2> QED  BY <2>2, <2>3 DEF ListSpots
<1> QED  BY <1>1, <1>2, PageTimes DEF PagesTypeOK, ListSpots

\* The rows of the listing.
LEMMA RowTypes ==
    ASSUME PagesTypes
    PROVE  /\ IsFiniteSet(FurtherRows) /\ FurtherRows \subseteq Spots
           /\ \A c \in Listable : <<active[c], c>> \in Spots
<1>1. active[1] \in Nat /\ active[2] \in Nat
  BY OfPagesTypes, PageTimes DEF Listable
<1>2. ListedRows = {<<active[1], 1>>, <<active[2], 2>>}
  BY DEF ListedRows, Listable
<1>3. IsFiniteSet(ListedRows)
  <2>1. IsFiniteSet({<<active[1], 1>>})
    BY FS_Singleton
  <2>2. IsFiniteSet({<<active[1], 1>>} \cup {<<active[2], 2>>})
    BY <2>1, FS_AddElement
  <2>3. {<<active[1], 1>>} \cup {<<active[2], 2>>} = ListedRows
    BY <1>2
  <2> QED  BY <2>2, <2>3
<1>4. FurtherRows \subseteq ListedRows
  BY DEF FurtherRows
<1> QED  BY <1>1, <1>2, <1>3, <1>4, FS_Subset DEF Spots, Listable

\* The steps of writers and of time.
LEMMA WriterTypes ==
    ASSUME PagesTypes,
           \/ \E id \in StoredIds : Store(id)
           \/ \E x \in stored : Unstore(x)
           \/ \E c \in Listable : Activity(c)
           \/ InstantPasses
    PROVE  PagesTypes'
<1>0. /\ instant \in Instant /\ stored \subseteq Places /\ IsFiniteSet(stored)
      /\ ids \subseteq StoredIds
      /\ follower \in [cursor : Places, seen : SUBSET Places, late : SUBSET Places]
      /\ listed \in [cursor : ListSpots, seen : SUBSET Listable, still : SUBSET Listable]
      /\ active \in [Listable -> Instant]
      /\ \A x \in stored : x[2] \in ids
      /\ \A x \in browser.start : x[2] \in ids
      /\ follower.cursor[2] \in ids \cup {0} /\ watermark[2] \in ids \cup {0}
  BY OfPagesTypes DEF PagesTypes
<1>1. ASSUME NEW id \in StoredIds, Store(id) PROVE PagesTypes'
  <2>1. <<instant, id>> \in Places
    BY <1>0 DEF Places
  <2>2. /\ stored' = stored \cup {<<instant, id>>} /\ ids' = ids \cup {id}
        /\ UNCHANGED <<reader, instant, browser, listed, active, watermark>>
        /\ follower' \in [cursor : Places, seen : SUBSET Places, late : SUBSET Places]
        /\ follower'.cursor = follower.cursor
    BY <1>0, <1>1, <2>1 DEF Store
  <2>3. IsFiniteSet(stored')
    BY <1>0, <2>2, FS_AddElement
  <2> QED  BY <1>0, <2>1, <2>2, <2>3 DEF PagesTypes, PagesTypeOK
<1>2. ASSUME NEW x \in stored, Unstore(x) PROVE PagesTypes'
  <2>1. /\ stored' = stored \ {x}
        /\ UNCHANGED <<reader, instant, ids, follower, browser, listed, active, watermark>>
    BY <1>2 DEF Unstore
  <2>2. IsFiniteSet(stored')
    BY <1>0, <2>1, FS_Subset
  <2> QED  BY <1>0, <2>1, <2>2 DEF PagesTypes, PagesTypeOK
<1>3. ASSUME NEW c \in Listable, Activity(c) PROVE PagesTypes'
  <2>1. /\ UNCHANGED <<reader, instant, stored, ids, follower, browser, watermark>>
        /\ active' \in [Listable -> Instant]
        /\ listed' \in [cursor : ListSpots, seen : SUBSET Listable, still : SUBSET Listable]
    BY <1>0, <1>3 DEF Activity
  <2> QED  BY <1>0, <2>1 DEF PagesTypes, PagesTypeOK, ListSpots
<1>4. CASE InstantPasses
  <2>1. /\ UNCHANGED <<reader, stored, ids, follower, browser, listed, active, watermark>>
        /\ instant' \in Instant
    BY <1>0, <1>4, PagesAssumption DEF InstantPasses, Instant
  <2> QED  BY <1>0, <2>1 DEF PagesTypes, PagesTypeOK
<1> QED  BY <1>1, <1>2, <1>3, <1>4

\* The steps of readers.
LEMMA ReaderTypes ==
    ASSUME PagesTypes,
           \/ \E limit \in Limits : ReadForward(limit) \/ ReadBackward(limit)
           \/ ListContexts \/ SetWatermark \/ ResumeFromWatermark
    PROVE  PagesTypes'
<1>0. /\ stored \subseteq Places /\ IsFiniteSet(stored) /\ stored \subseteq Spots
      /\ follower \in [cursor : Places, seen : SUBSET Places, late : SUBSET Places]
      /\ browser \in [stage : {"idle", "reading", "done", "capped"}, cursor : Places,
                      seen : SUBSET Places, start : SUBSET Places]
      /\ listed \in [cursor : ListSpots, seen : SUBSET Listable, still : SUBSET Listable]
      /\ active \in [Listable -> Instant] /\ watermark \in Places
      /\ \A x \in stored : x[2] \in ids
      /\ \A x \in browser.start : x[2] \in ids
      /\ follower.cursor[2] \in ids \cup {0} /\ watermark[2] \in ids \cup {0}
  BY OfPagesTypes DEF PagesTypes, PagesTypeOK
<1>1. ASSUME NEW limit \in Limits, ReadForward(limit) PROVE PagesTypes'
  <2> DEFINE page == ForwardPage(follower.cursor, limit)
  <2>1. /\ page # {} /\ follower' = [follower EXCEPT !.cursor = EndOf(page), !.seen = @ \cup page]
        /\ UNCHANGED <<reader, instant, stored, ids, browser, listed, active, watermark>>
    BY <1>1 DEF ReadForward
  <2>2. page \subseteq stored
    BY DEF ForwardPage, FirstPlaces, After
  <2> HIDE DEF page
  <2>3. EndOf(page) \in stored
    BY <1>0, <2>1, <2>2, PageHasEnds, FS_Subset
  <2>4. /\ follower' \in [cursor : Places, seen : SUBSET Places, late : SUBSET Places]
        /\ follower'.cursor = EndOf(page)
    BY <1>0, <2>1, <2>2, <2>3
  <2> QED  BY <1>0, <2>1, <2>3, <2>4 DEF PagesTypes, PagesTypeOK
<1>2. ASSUME NEW limit \in Limits, ReadBackward(limit) PROVE PagesTypes'
  <2> DEFINE range == IF browser.stage = "idle" THEN stored
                      ELSE {x \in stored : Before(x, browser.cursor)}
             page == BackwardPage(range, limit)
             first == IF page = {} THEN browser.cursor ELSE StartOf(page)
  <2>1. /\ \E stage \in {"reading", "done", "capped"} :
              browser' = [stage |-> stage, cursor |-> first, seen |-> browser.seen \cup page,
                          start |-> IF browser.stage = "idle" THEN stored ELSE browser.start]
        /\ UNCHANGED <<reader, instant, stored, ids, follower, listed, active, watermark>>
    BY <1>2 DEF ReadBackward
  <2>2. page \subseteq stored
    BY DEF BackwardPage, LastPlaces
  <2>3. first \in Places
    <3> HIDE DEF page
    <3> QED  BY <1>0, <2>2, PageHasEnds, FS_Subset
  <2> HIDE DEF page, first
  <2>4. /\ browser' \in [stage : {"idle", "reading", "done", "capped"}, cursor : Places,
                         seen : SUBSET Places, start : SUBSET Places]
        /\ browser'.start \in {stored, browser.start}
    BY <1>0, <2>1, <2>2, <2>3
  <2> QED  BY <1>0, <2>1, <2>4 DEF PagesTypes, PagesTypeOK
<1>3. CASE ListContexts
  <2> DEFINE page == LastPlaces(FurtherRows, 1)
  <2>1. /\ page # {}
        /\ listed' = [listed EXCEPT !.cursor = EndOf(page), !.seen = @ \cup {x[2] : x \in page}]
        /\ UNCHANGED <<reader, instant, stored, ids, follower, browser, active, watermark>>
    BY <1>3 DEF ListContexts
  <2>2. page \subseteq FurtherRows
    BY DEF LastPlaces
  <2> HIDE DEF page
  <2>3. EndOf(page) \in FurtherRows
    BY <2>1, <2>2, RowTypes, PageHasEnds, FS_Subset
  <2>4. ListedRows \subseteq Instant \X Listable
    BY <1>0 DEF ListedRows
  <2>5. FurtherRows \subseteq ListedRows
    BY DEF FurtherRows
  <2>6. {x[2] : x \in page} \subseteq Listable /\ EndOf(page) \in ListSpots
    BY <2>2, <2>3, <2>4, <2>5 DEF ListSpots
  <2>7. listed' \in [cursor : ListSpots, seen : SUBSET Listable, still : SUBSET Listable]
    BY <1>0, <2>1, <2>6
  <2> QED  BY <1>0, <2>1, <2>7 DEF PagesTypes, PagesTypeOK, ListSpots
<1>4. CASE SetWatermark
  <2>1. /\ watermark' = follower.cursor
        /\ UNCHANGED <<reader, instant, stored, ids, follower, browser, listed, active>>
    BY <1>4 DEF SetWatermark
  <2> QED  BY <1>0, <2>1 DEF PagesTypes, PagesTypeOK
<1>5. CASE ResumeFromWatermark
  <2>1. /\ follower' \in [cursor : Places, seen : SUBSET Places, late : SUBSET Places]
        /\ follower'.cursor = watermark
        /\ UNCHANGED <<reader, instant, stored, ids, browser, listed, active, watermark>>
    BY <1>0, <1>5 DEF ResumeFromWatermark
  <2> QED  BY <1>0, <2>1 DEF PagesTypes, PagesTypeOK
<1> QED  BY <1>1, <1>2, <1>3, <1>4, <1>5

-----------------------------------------------------------------------------
(* Event pages: the follower and the listing                               *)

LEMMA FollowerKeeps ==
    ASSUME PagesTypes, FollowerSees, PagesNext
    PROVE  FollowerSees'
<1>0. /\ stored \subseteq Spots /\ IsFiniteSet(stored)
      /\ follower \in [cursor : Places, seen : SUBSET Places, late : SUBSET Places]
      /\ follower.cursor \in Spots /\ watermark \in Spots
      /\ \A x \in stored : x[2] \in ids
      /\ follower.cursor[2] \in ids \cup {0}
      /\ AtOrBefore(watermark, follower.cursor)
      /\ \A x \in stored :
            AtOrBefore(x, follower.cursor) => x \in follower.seen \cup follower.late
  BY OfPagesTypes DEF PagesTypes, FollowerSees
<1>1. ASSUME NEW id \in StoredIds, Store(id) PROVE FollowerSees'
  <2> DEFINE new == <<instant, id>>
  <2>1. /\ stored' = stored \cup {new} /\ id \notin ids /\ UNCHANGED watermark
        /\ follower'.cursor = follower.cursor /\ follower'.seen = follower.seen
        /\ follower'.late = IF Before(new, follower.cursor)
                            THEN follower.late \cup {new} ELSE follower.late
    BY <1>0, <1>1 DEF Store
  <2>2. new # follower.cursor
    BY <1>0, <2>1, PageTimes
  <2> HIDE DEF new
  <2> QED  BY <1>0, <2>1, <2>2 DEF FollowerSees, AtOrBefore
<1>2. ASSUME NEW limit \in Limits, ReadForward(limit) PROVE FollowerSees'
  <2> DEFINE page == ForwardPage(follower.cursor, limit)
             end == EndOf(page)
  <2>1. /\ page # {} /\ follower' = [follower EXCEPT !.cursor = end, !.seen = @ \cup page]
        /\ UNCHANGED <<stored, watermark>>
    BY <1>2 DEF ReadForward
  <2>2. page = FirstPlaces(After(follower.cursor), PageSize(limit)) /\ page \subseteq stored
    BY DEF ForwardPage, FirstPlaces, After
  <2>3. PageSize(limit) \in Nat
    BY PagesAssumption DEF PageSize, Min, Max
  <2>4. /\ After(follower.cursor) \subseteq Spots /\ IsFiniteSet(After(follower.cursor))
        /\ page \subseteq After(follower.cursor)
    BY <1>0, FS_Subset DEF After, ForwardPage, FirstPlaces
  <2> HIDE DEF page
  <2>5. end \in page
    BY <1>0, <2>1, <2>2, PageHasEnds, FS_Subset
  <2>6. end \in Spots /\ Before(follower.cursor, end)
    BY <2>4, <2>5 DEF After
  <2>7. ASSUME NEW x \in stored, AtOrBefore(x, end)
        PROVE  x \in follower.seen \cup page \cup follower.late
    <3>1. CASE AtOrBefore(x, follower.cursor)
      BY <1>0, <3>1
    <3>2. CASE ~AtOrBefore(x, follower.cursor)
      <4>1. x \in After(follower.cursor)
        BY <1>0, <3>2, BeforeOrders DEF After, AtOrBefore
      <4>2. CASE x = end
        BY <2>5, <4>2
      <4>3. CASE Before(x, end)
        BY <2>2, <2>3, <2>4, <2>5, <4>1, <4>3, FirstPageIsWhole
      <4> QED  BY <2>7, <4>2, <4>3 DEF AtOrBefore
    <3> QED  BY <3>1, <3>2
  <2>8. AtOrBefore(watermark, end)
    BY <1>0, <2>6, BeforeOrders DEF AtOrBefore
  <2> HIDE DEF end
  <2>9. /\ follower'.cursor = end /\ follower'.seen = follower.seen \cup page
        /\ follower'.late = follower.late
    BY <1>0, <2>1
  <2> QED  BY <2>1, <2>7, <2>8, <2>9 DEF FollowerSees
<1>3. CASE SetWatermark
  BY <1>0, <1>3 DEF SetWatermark, FollowerSees, AtOrBefore
<1>4. CASE ResumeFromWatermark
  <2>1. /\ follower'.cursor = watermark /\ UNCHANGED <<stored, watermark>>
        /\ follower'.seen = {x \in follower.seen : AtOrBefore(x, watermark)}
        /\ follower'.late = follower.late
    BY <1>0, <1>4 DEF ResumeFromWatermark, AtOrBefore
  <2>2. ASSUME NEW x \in stored, AtOrBefore(x, watermark) PROVE AtOrBefore(x, follower.cursor)
    BY <1>0, <2>2, BeforeOrders DEF AtOrBefore
  <2> QED  BY <1>0, <2>1, <2>2 DEF FollowerSees, AtOrBefore
<1>5. CASE UNCHANGED <<follower, watermark>> /\ stored' \subseteq stored
  BY <1>0, <1>5 DEF FollowerSees
<1>6. \/ \E id \in StoredIds : Store(id)
      \/ \E limit \in Limits : ReadForward(limit)
      \/ SetWatermark \/ ResumeFromWatermark
      \/ UNCHANGED <<follower, watermark>> /\ stored' \subseteq stored
  BY DEF PagesNext, Unstore, Activity, InstantPasses, ReadBackward, ListContexts
<1> QED  BY <1>1, <1>2, <1>3, <1>4, <1>5, <1>6

LEMMA ListingKeeps ==
    ASSUME PagesTypes, ListingSees, PagesNext
    PROVE  ListingSees'
<1>0. /\ listed \in [cursor : ListSpots, seen : SUBSET Listable, still : SUBSET Listable]
      /\ active \in [Listable -> Instant] /\ listed.cursor \in Spots
      /\ \A c \in listed.still : c \in listed.seen \/ Before(<<active[c], c>>, listed.cursor)
  BY OfPagesTypes DEF ListingSees
<1>1. ASSUME NEW c \in Listable, Activity(c) PROVE ListingSees'
  <2>1. /\ listed'.still = listed.still \ {c} /\ listed'.seen = listed.seen
        /\ listed'.cursor = listed.cursor
        /\ \A d \in Listable : d # c => active'[d] = active[d]
    BY <1>0, <1>1 DEF Activity
  <2> QED  BY <1>0, <2>1 DEF ListingSees
<1>2. CASE ListContexts
  <2> DEFINE page == LastPlaces(FurtherRows, 1)
             end == EndOf(page)
  <2>1. /\ page # {} /\ UNCHANGED active
        /\ listed' = [listed EXCEPT !.cursor = end, !.seen = @ \cup {x[2] : x \in page}]
    BY <1>2 DEF ListContexts
  <2>2. page \subseteq FurtherRows
    BY DEF LastPlaces
  <2>3. end \in page
    <3> HIDE DEF page
    <3> QED  BY <2>1, <2>2, RowTypes, PageHasEnds, FS_Subset
  <2>4. ASSUME NEW c \in listed.still PROVE c \in listed'.seen \/ Before(<<active[c], c>>, end)
    <3> DEFINE x == <<active[c], c>>
    <3>1. CASE c \in listed.seen
      BY <1>0, <2>1, <3>1
    <3>2. CASE c \notin listed.seen
      <4>1. x \in FurtherRows
        BY <1>0, <3>2 DEF FurtherRows, ListedRows
      <4>2. CASE x \in page
        <5> HIDE DEF page
        <5>1. c \in {y[2] : y \in page}
          BY <4>2
        <5> QED  BY <1>0, <2>1, <5>1
      <4>3. CASE x \notin page
        <5>1. ~Before(end, x)
          BY <2>3, <4>1, <4>3, RowTypes, LastPageIsWhole
        <5> QED  BY <2>2, <2>3, <4>1, <4>3, <5>1, RowTypes, BeforeOrders
      <4> QED  BY <4>2, <4>3
    <3> QED  BY <3>1, <3>2
  <2>5. listed'.still = listed.still /\ listed'.cursor = end
    BY <1>0, <2>1
  <2> HIDE DEF end
  <2> QED  BY <2>1, <2>4, <2>5 DEF ListingSees
<1>3. CASE UNCHANGED <<listed, active>>
  BY <1>0, <1>3 DEF ListingSees
<1>4. \/ \E c \in Listable : Activity(c)
      \/ ListContexts
      \/ UNCHANGED <<listed, active>>
  BY DEF PagesNext, Store, Unstore, InstantPasses, ReadForward, ReadBackward, SetWatermark,
     ResumeFromWatermark
<1> QED  BY <1>1, <1>2, <1>3, <1>4

-----------------------------------------------------------------------------
(* Event pages: the browser                                                *)

\* A page that is not full, as the bus counts, holds all there is before it.
LEMMA BrowserKeeps ==
    ASSUME PagesTypes, BrowserSees, PagesNext
    PROVE  BrowserSees'
<1>0. /\ stored \subseteq Spots /\ IsFiniteSet(stored)
      /\ \A x \in stored : x[2] \in ids
      /\ \A x \in browser.start : x[2] \in ids
      /\ browser.stage \in {"idle", "reading", "done", "capped"}
  BY OfPagesTypes DEF PagesTypes
<1>1. ASSUME NEW limit \in Limits, ReadBackward(limit) PROVE BrowserSees'
  <2> DEFINE range == IF browser.stage = "idle" THEN stored
                      ELSE {x \in stored : Before(x, browser.cursor)}
             page == BackwardPage(range, limit)
             stage == CASE Cardinality(page) = limit -> "reading"
                        [] /\ Cardinality(page) = PageSize(limit)
                           /\ PageSize(limit) # limit -> "capped"
                        [] OTHER -> "done"
             start == IF browser.stage = "idle" THEN stored ELSE browser.start
  <2>1. /\ browser.stage \in {"idle", "reading"} /\ UNCHANGED stored
        /\ browser' = [stage |-> stage,
                       cursor |-> IF page = {} THEN browser.cursor ELSE StartOf(page),
                       seen |-> browser.seen \cup page, start |-> start]
    BY <1>1 DEF ReadBackward
  <2>2. limit \in Nat \ {0} /\ PageSize(limit) \in Nat \ {0}
    BY PagesAssumption DEF PageSize, Min, Max
  <2>3. page = LastPlaces(range, PageSize(limit))
    BY DEF BackwardPage
  <2>4. range \subseteq Spots /\ range \subseteq stored /\ IsFiniteSet(range)
    BY <1>0, FS_Subset
  <2>5. \A x \in start \cap stored : x \in browser.seen \/ x \in range
    BY <2>1 DEF BrowserSees
  <2> HIDE DEF range, start
  <2>6. CASE Cardinality(page) = limit
    <3>1. page # {}
      BY <2>2, <2>6, FS_EmptySet
    <3>2. page \subseteq range /\ IsFiniteSet(page) /\ page \subseteq Spots
      BY <2>3, <2>4, FS_Subset DEF LastPlaces
    <3>3. StartOf(page) \in page
      BY <3>1, <3>2, PageHasEnds
    <3>4. ASSUME NEW x \in range PROVE x \in page \/ Before(x, StartOf(page))
      <4>1. CASE Before(StartOf(page), x)
        BY <2>2, <2>3, <2>4, <3>3, <4>1, LastPageIsWhole
      <4> QED  BY <2>4, <3>2, <3>3, <4>1, BeforeOrders
    <3> HIDE DEF page
    <3>5. /\ browser'.stage = "reading" /\ browser'.cursor = StartOf(page)
          /\ browser'.seen = browser.seen \cup page /\ browser'.start = start
      BY <2>1, <2>6, <3>1
    <3> QED  BY <2>1, <2>5, <3>4, <3>5 DEF BrowserSees
  <2>7. CASE /\ Cardinality(page) = PageSize(limit)
             /\ PageSize(limit) # limit
    <3>1. Cardinality(page) # limit
      BY <2>2, <2>7
    <3>2. browser'.stage = "capped"
      BY <2>1, <2>7, <3>1
    <3> QED  BY <3>2 DEF BrowserSees
  <2>8. CASE Cardinality(page) # limit /\ Cardinality(page) # PageSize(limit)
    <3>1. page = range
      BY <2>2, <2>3, <2>4, <2>8, ShortPageIsAll
    <3> HIDE DEF page, stage
    <3>2. browser'.seen = browser.seen \cup page /\ browser'.start = start
      BY <2>1
    <3> QED  BY <2>1, <2>5, <3>1, <3>2 DEF BrowserSees
  <2> QED  BY <2>6, <2>7, <2>8
<1>2. ASSUME NEW id \in StoredIds, Store(id) PROVE BrowserSees'
  <2>1. /\ stored' = stored \cup {<<instant, id>>} /\ id \notin ids /\ UNCHANGED browser
    BY <1>2 DEF Store
  <2>2. browser.start \cap stored' \subseteq browser.start \cap stored
    BY <1>0, <2>1
  <2> QED  BY <2>1, <2>2 DEF BrowserSees
<1>3. CASE UNCHANGED browser /\ stored' \subseteq stored
  BY <1>3 DEF BrowserSees
<1>4. \/ \E limit \in Limits : ReadBackward(limit)
      \/ \E id \in StoredIds : Store(id)
      \/ UNCHANGED browser /\ stored' \subseteq stored
  BY DEF PagesNext, Unstore, Activity, InstantPasses, ReadForward, ListContexts, SetWatermark,
     ResumeFromWatermark
<1> QED  BY <1>1, <1>2, <1>3, <1>4

-----------------------------------------------------------------------------
(* Event pages: the theorems                                               *)

LEMMA PagesInvInit == PagesInit => PagesInv /\ BrowserSees
<1> SUFFICES ASSUME PagesInit PROVE PagesInv /\ BrowserSees
  OBVIOUS
<1>1. /\ reader \in Readers /\ instant = 0 /\ stored = {} /\ ids = {}
      /\ follower = [cursor |-> Origin, seen |-> {}, late |-> {}]
      /\ browser = [stage |-> "idle", cursor |-> Origin, seen |-> {}, start |-> {}]
      /\ listed = [cursor |-> <<MaxInstant + 1, 0>>, seen |-> {}, still |-> Listable]
      /\ active = [c \in Listable |-> 0] /\ watermark = Origin
  BY DEF PagesInit
<1>2. IsFiniteSet(stored)
  BY <1>1, FS_EmptySet
<1>3. listed \in [cursor : ListSpots, seen : SUBSET Listable, still : SUBSET Listable]
  BY <1>1 DEF ListSpots
<1>4. PagesTypes
  BY <1>1, <1>2, <1>3, PageTimes DEF PagesTypes, PagesTypeOK, ListSpots, Origin
<1>5. FollowerSees
  BY <1>1 DEF FollowerSees, AtOrBefore
<1>6. ListingSees
  <2>1. ASSUME NEW c \in Listable PROVE Before(<<0, c>>, <<MaxInstant + 1, 0>>)
    BY PageTimes DEF Before
  <2> QED  BY <1>1, <2>1 DEF ListingSees
<1>7. BrowserSees
  BY <1>1 DEF BrowserSees
<1> QED  BY <1>4, <1>5, <1>6, <1>7 DEF PagesInv

LEMMA PagesTypesStep == PagesTypes /\ [PagesNext]_pageVars => PagesTypes'
<1> SUFFICES ASSUME PagesTypes, [PagesNext]_pageVars PROVE PagesTypes'
  OBVIOUS
<1>1. CASE PagesNext
  BY <1>1, WriterTypes, ReaderTypes DEF PagesNext
<1>2. CASE UNCHANGED pageVars
  BY <1>2 DEF pageVars, PagesTypes, PagesTypeOK
<1> QED  BY <1>1, <1>2

LEMMA PagesInvStep == PagesInv /\ [PagesNext]_pageVars => PagesInv'
<1> SUFFICES ASSUME PagesInv, [PagesNext]_pageVars PROVE PagesInv'
  OBVIOUS
<1>1. PagesTypes'
  BY PagesTypesStep DEF PagesInv
<1>2. FollowerSees' /\ ListingSees'
  <2>1. CASE PagesNext
    BY <2>1, FollowerKeeps, ListingKeeps DEF PagesInv
  <2>2. CASE UNCHANGED pageVars
    BY <2>2 DEF pageVars, PagesInv, FollowerSees, ListingSees
  <2> QED  BY <2>1, <2>2
<1> QED  BY <1>1, <1>2 DEF PagesInv

LEMMA PagesInvHolds == PagesSpec => []PagesInv
BY PagesInvInit, PagesInvStep, PTL DEF PagesSpec

LEMMA FollowerAndListing == PagesInv => NothingPresentIsSkipped /\ UnmovedContextsAreListed
<1> SUFFICES ASSUME PagesInv PROVE NothingPresentIsSkipped /\ UnmovedContextsAreListed
  OBVIOUS
<1>1. NothingPresentIsSkipped
  BY DEF PagesInv, FollowerSees, AtOrBefore, NothingPresentIsSkipped
<1>2. UnmovedContextsAreListed
  <2> SUFFICES ASSUME FurtherRows = {}, NEW c \in listed.still PROVE c \in listed.seen
    BY DEF UnmovedContextsAreListed
  <2>1. c \in Listable
    BY OfPagesTypes DEF PagesInv
  <2> QED  BY <2>1 DEF PagesInv, ListingSees, FurtherRows, ListedRows
<1> QED  BY <1>1, <1>2

\* Whatever page sizes readers ask for, and wherever events are stored and removed between
\* their pages: a forward reader has seen every event up to its place but those stored behind
\* it; a listing read to its end misses no Context that stayed where it was; and a backward
\* reader that is told there is no earlier page has read everything that was there from its
\* beginning, unless it asked for more events than the bus returns and got all of those.
THEOREM ReadersMissNothing == PagesSpec => []PagedReadersMissNothing
<1> DEFINE Inv == PagesInv /\ BrowserSees
<1>1. PagesInit => Inv
  BY PagesInvInit
<1>2. Inv /\ [PagesNext]_pageVars => Inv'
  <2> SUFFICES ASSUME Inv, [PagesNext]_pageVars PROVE Inv'
    OBVIOUS
  <2>1. BrowserSees'
    <3>1. CASE PagesNext
      BY <3>1, BrowserKeeps DEF PagesInv
    <3>2. CASE UNCHANGED pageVars
      BY <3>2 DEF pageVars, BrowserSees
    <3> QED  BY <3>1, <3>2
  <2> QED  BY <2>1, PagesInvStep
<1>3. Inv => PagedReadersMissNothing
  BY FollowerAndListing DEF BrowserSees, BackwardReadsAll, PagedReadersMissNothing
<1> QED  BY <1>1, <1>2, <1>3, PTL DEF PagesSpec

-----------------------------------------------------------------------------
(* Actors' definitions: the inductive invariant                            *)

Woken == {"idle", "running"}
UnderWay(t) == removal[t].stage # "idle"
RemovedBy(t, a) == UnderWay(t) /\ removal[t].agent = a
NotYetRetired(t, a) == removal[t].stage \in {"sent", "refused"} /\ removal[t].agent = a

\* What the inspector loaded and saves is a file; the row it shows is an actor's that can be
\* woken; an actor that was never registered is not run.
WindowAndRows ==
    /\ inspector.phase = "loaded" => inspector.loaded.there /\ inspector.draft.there
    /\ inspector.saving => inspector.loaded.there
    /\ inspector.phase # "closed" => inspector.row \in Woken
    /\ \A w \in save : w.contents.there /\ w.loaded.there
    /\ \A a \in AgentIds : endpoint[a] = "none" => served[a] = Absent
    /\ scan.stage # "register" => scan.todo = {}

\* A removal keeps the list it found the actor on, and its file.
RemovalsKeep ==
    \A t \in ToolTurns : UnderWay(t) =>
        /\ removal[t].agent \in removal[t].list
        /\ ~clobbered => removal[t].file.there

\* An actor that can be woken is listed, or is being taken off the list.
WokenAreListed ==
    ~clobbered => \A a \in AgentIds \ orphaned :
        endpoint[a] \in Woken => a \in roster \/ \E t \in ToolTurns : NotYetRetired(t, a)

\* A scan is going to read the files, or somebody owes one.
ScanIsDue(a) == a \in owed \/ requested \/ scan.stage = "listed"

\* A listed actor is served, or will be by the scan under way, unless a further scan is due or
\* the actor is being removed.
ListedWillBeServed ==
    ~clobbered /\ ~dropped => \A a \in roster :
        \/ ScanIsDue(a)
        \/ \E t \in ToolTurns : RemovedBy(t, a)
        \/ IF a \in scan.todo THEN scan.found[a] = definition[a]
           ELSE endpoint[a] \in Woken /\ served[a] = definition[a]

\* What the scan under way read of an actor that was taken off the list is what putting it
\* back restores, unless a further scan is due or another turn removes it as well.
RestoredWillBeServed ==
    ~clobbered /\ ~dropped => \A t \in ToolTurns : LET a == removal[t].agent IN
        UnderWay(t) /\ a \notin roster /\ a \in scan.todo =>
            \/ ScanIsDue(a)
            \/ \E u \in ToolTurns \ {t} : RemovedBy(u, a)
            \/ scan.found[a] = removal[t].file

\* The four agreements of DefinitionsAreTrue in the midst of removals and scans.
DefinitionsInv ==
    /\ DefinitionsTypeOK /\ WindowAndRows /\ RemovalsKeep
    /\ ListedAreDefined /\ ChangesAreKept
    /\ WokenAreListed /\ ListedWillBeServed /\ RestoredWillBeServed

-----------------------------------------------------------------------------
(* Actors' definitions: types                                              *)

Scans == [stage : {"idle", "listed", "register"}, todo : SUBSET AgentIds,
          found : [AgentIds -> Definitions]]
Removals == [stage : {"idle", "sent", "done", "refused"}, agent : AgentIds,
             list : SUBSET AgentIds, file : Definitions]
Inspectors == [phase : {"closed", "loading", "loaded", "error"}, agent : AgentIds,
               row : EndpointStatuses, loaded : Definitions, draft : Definitions,
               saving : BOOLEAN]
Saves == [agent : AgentIds, contents : Definitions, loaded : Definitions]

LEMMA DefinitionConstants ==
    /\ SomeAgent \in AgentIds /\ MaxChanges \in Nat /\ 0 \in ChangeNumbers
    /\ Absent \in Definitions /\ ScanOver \in Scans /\ NoRemoval \in Removals
    /\ Closed \in Inspectors
<1>1. SomeAgent \in AgentIds
  BY DefinitionsAssumption DEF SomeAgent
<1>2. MaxChanges \in Nat /\ 0 \in ChangeNumbers
  BY DefinitionsAssumption DEF ChangeNumbers
<1>3. Absent \in Definitions
  BY <1>2 DEF Absent, Definitions
<1>4. ScanOver \in Scans
  BY <1>3 DEF ScanOver, Scans
<1>5. NoRemoval \in Removals
  BY <1>1, <1>3 DEF NoRemoval, Removals
<1>6. Closed \in Inspectors
  BY <1>1, <1>3 DEF Closed, Inspectors, EndpointStatuses
<1> QED  BY <1>1, <1>2, <1>3, <1>4, <1>5, <1>6

\* The types one by one.
DefinitionsTyped ==
    /\ roster \subseteq AgentIds
    /\ definition \in [AgentIds -> Definitions] /\ served \in [AgentIds -> Definitions]
    /\ meant \in [AgentIds -> Definitions] /\ endpoint \in [AgentIds -> EndpointStatuses]
    /\ scan \in Scans /\ removal \in [ToolTurns -> Removals]
    /\ inspector \in Inspectors /\ save \subseteq Saves
    /\ raced \subseteq AgentIds /\ orphaned \subseteq AgentIds /\ owed \subseteq AgentIds
    /\ requested \in BOOLEAN /\ clobbered \in BOOLEAN /\ dropped \in BOOLEAN
    /\ changes \in 0..MaxChanges /\ savesMade \in 0..MaxSaves
    /\ faults \in 0..MaxDefinitionFaults

LEMMA TypesOneByOne == DefinitionsTypeOK <=> DefinitionsTyped
BY DEF DefinitionsTypeOK, DefinitionsTyped, Scans, Removals, Inspectors, Saves

\* A change has a number of its own, and a fault is counted.
LEMMA ChangeTypes ==
    ASSUME DefinitionsTyped
    PROVE  /\ Changing => changes' \in 0..MaxChanges /\ Stamp \in ChangeNumbers
                          /\ Written(Stamp) \in Definitions
           /\ CallFails => faults' \in 0..MaxDefinitionFaults
           /\ \A a \in AgentIds : AskScan(a) => /\ requested' \in BOOLEAN
                                                /\ owed' \subseteq AgentIds
                                                /\ faults' \in 0..MaxDefinitionFaults
<1>1. /\ changes \in 0..MaxChanges /\ faults \in 0..MaxDefinitionFaults
      /\ owed \subseteq AgentIds /\ requested \in BOOLEAN
  BY DEF DefinitionsTyped
<1>2. Changing => changes' \in 0..MaxChanges /\ Stamp \in ChangeNumbers
  BY <1>1, DefinitionsAssumption DEF Changing, Stamp, ChangeNumbers
<1>3. Changing => Written(Stamp) \in Definitions
  BY <1>2 DEF Written, Definitions
<1>4. CallFails => faults' \in 0..MaxDefinitionFaults
  BY <1>1, DefinitionsAssumption DEF CallFails
<1>5. ASSUME NEW a \in AgentIds, AskScan(a)
      PROVE  /\ requested' \in BOOLEAN /\ owed' \subseteq AgentIds
             /\ faults' \in 0..MaxDefinitionFaults
  BY <1>1, <1>4, <1>5 DEF AskScan
<1> QED  BY <1>2, <1>3, <1>4, <1>5

\* One part of a definition replaced.
LEMMA PartReplaced ==
    ASSUME NEW d \in Definitions, NEW p \in Parts, NEW n \in ChangeNumbers
    PROVE  /\ [d EXCEPT ![p] = n] \in Definitions
           /\ [d EXCEPT ![p] = n].there = d.there
<1>1. CASE p = "keys"
  BY <1>1 DEF Definitions
<1>2. CASE p = "text"
  BY <1>2 DEF Definitions
<1> QED  BY <1>1, <1>2 DEF Parts

\* The tools of the agents.
LEMMA ToolTypes ==
    ASSUME DefinitionsTyped,
           \/ \E a \in AgentIds : CreateActor(a)
           \/ \E a \in AgentIds, p \in Parts : UpdateActor(a, p)
           \/ \E t \in ToolTurns, a \in AgentIds : StartRemoval(t, a)
           \/ \E t \in ToolTurns :
                 RetireEndpoint(t) \/ RetireFails(t) \/ FinishRemoval(t) \/ PutBack(t)
    PROVE  DefinitionsTyped'
<1>0. /\ roster \subseteq AgentIds
      /\ definition \in [AgentIds -> Definitions] /\ meant \in [AgentIds -> Definitions]
      /\ endpoint \in [AgentIds -> EndpointStatuses] /\ removal \in [ToolTurns -> Removals]
      /\ raced \subseteq AgentIds /\ orphaned \subseteq AgentIds /\ owed \subseteq AgentIds
      /\ clobbered \in BOOLEAN
      /\ \A t \in ToolTurns : /\ removal[t].agent \in AgentIds
                              /\ removal[t].list \subseteq AgentIds
                              /\ removal[t].file \in Definitions
  BY DEF DefinitionsTyped, Removals
<1>1. ASSUME NEW a \in AgentIds, CreateActor(a) PROVE DefinitionsTyped'
  <2>1. /\ Changing /\ definition' = [definition EXCEPT ![a] = Written(Stamp)]
        /\ meant' = [meant EXCEPT ![a] = Written(Stamp)] /\ roster' = roster \cup {a}
        /\ raced' = raced \ {a} /\ orphaned' = orphaned \ {a} /\ AskScan(a)
        /\ UNCHANGED <<endpoint, served, scan, removal, inspector, save, clobbered, dropped,
                       savesMade>>
    BY <1>1 DEF CreateActor
  <2> QED  BY <1>0, <2>1, ChangeTypes DEF DefinitionsTyped
<1>2. ASSUME NEW a \in AgentIds, NEW p \in Parts, UpdateActor(a, p) PROVE DefinitionsTyped'
  <2>1. /\ Changing /\ AskScan(a)
        /\ UNCHANGED <<roster, endpoint, served, scan, removal, inspector, save, raced, clobbered,
                       orphaned, dropped, savesMade>>
    BY <1>2 DEF UpdateActor
  <2>2. /\ [definition[a] EXCEPT ![p] = Stamp] \in Definitions
        /\ [meant[a] EXCEPT ![p] = Stamp] \in Definitions
    BY <1>0, <2>1, ChangeTypes, PartReplaced
  <2>3. /\ definition' = [definition EXCEPT ![a] = [definition[a] EXCEPT ![p] = Stamp]]
        /\ meant' = [meant EXCEPT ![a] = [meant[a] EXCEPT ![p] = Stamp]]
    BY <1>0, <1>2 DEF UpdateActor
  <2> QED  BY <1>0, <2>1, <2>2, <2>3, ChangeTypes DEF DefinitionsTyped
<1>3. ASSUME NEW t \in ToolTurns, NEW a \in AgentIds, StartRemoval(t, a) PROVE DefinitionsTyped'
  <2> DEFINE new == [stage |-> "sent", agent |-> a, list |-> roster, file |-> definition[a]]
  <2>1. new \in Removals
    BY <1>0 DEF Removals
  <2>2. /\ Changing /\ removal' = [removal EXCEPT ![t] = new]
        /\ roster' = roster \ {a} /\ definition' = [definition EXCEPT ![a] = Absent]
        /\ UNCHANGED <<endpoint, served, requested, scan, inspector, save, meant, raced,
                       clobbered, orphaned, owed, dropped, savesMade, faults>>
    BY <1>3 DEF StartRemoval
  <2> HIDE DEF new
  <2> QED  BY <1>0, <2>1, <2>2, ChangeTypes, DefinitionConstants DEF DefinitionsTyped
<1>4. ASSUME NEW t \in ToolTurns, RetireEndpoint(t) \/ RetireFails(t) PROVE DefinitionsTyped'
  <2>1. /\ removal' \in [ToolTurns -> Removals]
        /\ endpoint' \in [AgentIds -> EndpointStatuses]
        /\ orphaned' \subseteq AgentIds
    BY <1>0, <1>4 DEF RetireEndpoint, RetireFails, Answered, Removals, EndpointStatuses
  <2>2. /\ UNCHANGED <<roster, definition, served, requested, scan, inspector, save, meant, raced,
                       clobbered, owed, dropped, savesMade, changes>>
        /\ UNCHANGED faults \/ CallFails
    BY <1>4 DEF RetireEndpoint, RetireFails
  <2> QED  BY <2>1, <2>2, ChangeTypes DEF DefinitionsTyped
<1>5. ASSUME NEW t \in ToolTurns, FinishRemoval(t) PROVE DefinitionsTyped'
  <2>1. /\ removal' = [removal EXCEPT ![t] = NoRemoval] /\ AskScan(removal[t].agent)
        /\ UNCHANGED <<roster, definition, endpoint, served, scan, inspector, save, meant, raced,
                       clobbered, orphaned, dropped, savesMade, changes>>
    BY <1>5 DEF FinishRemoval
  <2> QED  BY <1>0, <2>1, ChangeTypes, DefinitionConstants DEF DefinitionsTyped
<1>6. ASSUME NEW t \in ToolTurns, PutBack(t) PROVE DefinitionsTyped'
  <2>1. /\ removal' = [removal EXCEPT ![t] = NoRemoval] /\ roster' = removal[t].list
        /\ UNCHANGED <<endpoint, served, requested, scan, inspector, save, meant, dropped,
                       savesMade, changes, faults>>
    BY <1>6 DEF PutBack
  <2>2. definition' \in [AgentIds -> Definitions]
    BY <1>0, <1>6 DEF PutBack, Restored
  <2>3. /\ clobbered' \in BOOLEAN /\ raced' \subseteq AgentIds
        /\ orphaned' \subseteq AgentIds /\ owed' \subseteq AgentIds
    BY <1>0, <1>6 DEF PutBack, PutsBack
  <2> QED  BY <1>0, <2>1, <2>2, <2>3, DefinitionConstants DEF DefinitionsTyped
<1> QED  BY <1>1, <1>2, <1>3, <1>4, <1>5, <1>6

\* The bridge and the bus.
LEMMA BridgeTypes ==
    ASSUME DefinitionsTyped,
           \/ \E a \in AgentIds : RegisterFound(a) \/ ActorWorks(a) \/ ActorPauses(a)
           \/ HearRequest \/ ReadProject \/ BridgeEnds
    PROVE  DefinitionsTyped'
<1>0. /\ roster \subseteq AgentIds /\ definition \in [AgentIds -> Definitions]
      /\ served \in [AgentIds -> Definitions] /\ endpoint \in [AgentIds -> EndpointStatuses]
      /\ scan \in Scans /\ scan.found \in [AgentIds -> Definitions]
      /\ orphaned \subseteq AgentIds /\ owed \subseteq AgentIds
      /\ dropped \in BOOLEAN
  BY DEF DefinitionsTyped, Scans
<1>1. ASSUME NEW a \in AgentIds, RegisterFound(a) PROVE DefinitionsTyped'
  <2>1. scan' \in Scans
    <3> DEFINE later == [scan EXCEPT !.todo = @ \ {a}, !.found[a] = Absent]
    <3>1. later \in Scans
      <4>1. [scan.found EXCEPT ![a] = Absent] \in [AgentIds -> Definitions]
        BY <1>0, DefinitionConstants
      <4> QED  BY <1>0, <4>1 DEF Scans
    <3>2. scan' = IF scan.todo = {a} THEN ScanOver ELSE later
      BY <1>1 DEF RegisterFound
    <3> HIDE DEF later
    <3> QED  BY <3>1, <3>2, DefinitionConstants
  <2>2. /\ served' \in [AgentIds -> Definitions] /\ endpoint' \in [AgentIds -> EndpointStatuses]
        /\ orphaned' \subseteq AgentIds
    BY <1>0, <1>1 DEF RegisterFound, EndpointStatuses
  <2>3. UNCHANGED <<roster, definition, requested, removal, inspector, save, meant, raced,
                    clobbered, owed, dropped, savesMade, changes, faults>>
    BY <1>1 DEF RegisterFound
  <2> QED  BY <2>1, <2>2, <2>3 DEF DefinitionsTyped
<1>2. ASSUME NEW a \in AgentIds, ActorWorks(a) \/ ActorPauses(a) PROVE DefinitionsTyped'
  <2>1. /\ endpoint' \in [AgentIds -> EndpointStatuses]
        /\ UNCHANGED <<roster, definition, served, requested, scan, removal, inspector, save,
                       meant, raced, clobbered, orphaned, owed, dropped, savesMade, changes,
                       faults>>
    BY <1>0, <1>2 DEF ActorWorks, ActorPauses, EndpointStatuses
  <2> QED  BY <2>1 DEF DefinitionsTyped
<1>3. CASE HearRequest
  <2>1. [ScanOver EXCEPT !.stage = "listed"] \in Scans
    BY DefinitionConstants DEF Scans
  <2>2. /\ scan' \in Scans /\ dropped' \in BOOLEAN /\ requested' \in BOOLEAN
        /\ UNCHANGED <<roster, definition, endpoint, served, removal, inspector, save, meant,
                       raced, clobbered, orphaned, owed, changes, faults, savesMade>>
    BY <1>0, <1>3, <2>1 DEF HearRequest
  <2> QED  BY <2>2 DEF DefinitionsTyped
<1>4. CASE ReadProject
  <2> DEFINE found == [a \in AgentIds |-> IF a \in roster THEN definition[a] ELSE Absent]
             new == [stage |-> "register", todo |-> roster, found |-> found]
  <2>1. new \in Scans
    <3>1. found \in [AgentIds -> Definitions]
      BY <1>0, DefinitionConstants
    <3> HIDE DEF found
    <3> QED  BY <1>0, <3>1 DEF Scans
  <2>2. /\ scan' \in {new, ScanOver} /\ owed' \subseteq AgentIds /\ dropped' \in BOOLEAN
        /\ UNCHANGED <<roster, definition, endpoint, served, requested, removal, inspector, save,
                       meant, raced, clobbered, orphaned, changes, faults, savesMade>>
    BY <1>0, <1>4 DEF ReadProject
  <2> HIDE DEF new
  <2> QED  BY <2>1, <2>2, DefinitionConstants DEF DefinitionsTyped
<1>5. CASE BridgeEnds
  <2>1. [ScanOver EXCEPT !.stage = "listed"] \in Scans
    BY DefinitionConstants DEF Scans
  <2>2. /\ removal' = [t \in ToolTurns |-> NoRemoval] /\ served' = [a \in AgentIds |-> Absent]
        /\ scan' = [ScanOver EXCEPT !.stage = "listed"] /\ requested' = FALSE /\ dropped' = FALSE
        /\ CallFails /\ orphaned' \subseteq AgentIds
        /\ UNCHANGED <<roster, definition, endpoint, inspector, save, meant, raced, clobbered,
                       owed, changes, savesMade>>
    BY <1>0, <1>5 DEF BridgeEnds
  <2>3. removal' \in [ToolTurns -> Removals] /\ served' \in [AgentIds -> Definitions]
    BY <2>2, DefinitionConstants
  <2> QED  BY <2>1, <2>2, <2>3, ChangeTypes DEF DefinitionsTyped
<1> QED  BY <1>1, <1>2, <1>3, <1>4, <1>5

\* The window.
LEMMA WindowTypes ==
    ASSUME DefinitionsTyped,
           \/ \E a \in AgentIds : OpenDefinition(a) \/ SubmitForm(a)
           \/ CloseInspector \/ LoadDefinition \/ SaveDefinition \/ SaveArrives \/ SaveFails
           \/ RenameActor
           \/ \E p \in Parts : EditDraft(p)
    PROVE  DefinitionsTyped'
<1>0. /\ definition \in [AgentIds -> Definitions] /\ meant \in [AgentIds -> Definitions]
      /\ endpoint \in [AgentIds -> EndpointStatuses]
      /\ inspector \in Inspectors /\ save \subseteq Saves
      /\ raced \subseteq AgentIds /\ orphaned \subseteq AgentIds /\ owed \subseteq AgentIds
      /\ savesMade \in 0..MaxSaves
      /\ inspector.agent \in AgentIds /\ inspector.row \in EndpointStatuses
      /\ inspector.draft \in Definitions
  BY DEF DefinitionsTyped, Inspectors
<1>1. ASSUME NEW a \in AgentIds, OpenDefinition(a) PROVE DefinitionsTyped'
  <2> DEFINE open == [Closed EXCEPT !.phase = "loading", !.agent = a, !.row = endpoint[a]]
  <2>1. open \in Inspectors
    BY <1>0, DefinitionConstants DEF Inspectors
  <2>2. /\ inspector' = open
        /\ UNCHANGED <<roster, definition, endpoint, served, requested, scan, removal, save,
                       meant, raced, clobbered, orphaned, owed, dropped, savesMade, changes,
                       faults>>
    BY <1>1 DEF OpenDefinition
  <2> HIDE DEF open
  <2> QED  BY <2>1, <2>2 DEF DefinitionsTyped
<1>2. ASSUME NEW a \in AgentIds, SubmitForm(a) PROVE DefinitionsTyped'
  <2>1. /\ Changing /\ definition' = [definition EXCEPT ![a] = Written(Stamp)]
        /\ meant' = [meant EXCEPT ![a] = Written(Stamp)] /\ owed' = owed \cup {a}
        /\ UNCHANGED <<roster, endpoint, served, requested, scan, removal, inspector, save, raced,
                       clobbered, orphaned, dropped, savesMade, faults>>
    BY <1>2 DEF SubmitForm
  <2> QED  BY <1>0, <2>1, ChangeTypes DEF DefinitionsTyped
<1>3. CASE CloseInspector \/ LoadDefinition
  <2>1. /\ inspector' \in Inspectors
        /\ UNCHANGED <<roster, definition, endpoint, served, requested, scan, removal, save,
                       meant, raced, clobbered, orphaned, owed, dropped, savesMade, changes,
                       faults>>
    <3>1. CASE CloseInspector
      BY <3>1, DefinitionConstants DEF CloseInspector
    <3>2. CASE LoadDefinition
      BY <1>0, <3>2 DEF LoadDefinition, Inspectors
    <3> QED  BY <1>3, <3>1, <3>2
  <2> QED  BY <2>1 DEF DefinitionsTyped
<1>4. CASE SaveDefinition
  <2> DEFINE w == [agent |-> inspector.agent, contents |-> inspector.draft,
                   loaded |-> inspector.loaded]
  <2>1. w \in Saves
    BY <1>0 DEF Saves, Inspectors
  <2>2. /\ save' = {w} /\ inspector' = [inspector EXCEPT !.saving = TRUE]
        /\ savesMade < MaxSaves /\ savesMade' = savesMade + 1
        /\ UNCHANGED <<roster, definition, endpoint, served, requested, scan, removal, meant,
                       raced, clobbered, orphaned, owed, dropped, changes, faults>>
    BY <1>4 DEF SaveDefinition
  <2> HIDE DEF w
  <2>3. savesMade' \in 0..MaxSaves
    <3>1. MaxSaves \in Nat
      BY DefinitionsAssumption
    <3> QED  BY <1>0, <2>2, <3>1
  <2>4. inspector' \in Inspectors
    BY <1>0, <2>2 DEF Inspectors
  <2> QED  BY <2>1, <2>2, <2>3, <2>4 DEF DefinitionsTyped
<1>5. CASE SaveArrives
  <2>1. PICK w \in save :
          /\ save' = {} /\ definition' = [definition EXCEPT ![w.agent] = w.contents]
          /\ meant' = [meant EXCEPT ![w.agent] = [p \in DOMAIN Absent |->
                         IF p = "there" \/ w.contents[p] # w.loaded[p]
                         THEN w.contents[p] ELSE @[p]]]
          /\ raced' = IF definition[w.agent] # w.loaded THEN raced \cup {w.agent} ELSE raced
          /\ owed' = owed \cup {w.agent}
          /\ inspector' = IF inspector.saving
                          THEN [inspector EXCEPT !.saving = FALSE, !.loaded = w.contents]
                          ELSE inspector
          /\ UNCHANGED <<roster, endpoint, served, requested, scan, removal, clobbered, orphaned,
                         dropped, savesMade, changes, faults>>
    BY <1>5 DEF SaveArrives
  <2>2. w.agent \in AgentIds /\ w.contents \in Definitions /\ w.loaded \in Definitions
    BY <1>0 DEF Saves
  <2>3. [p \in DOMAIN Absent |-> IF p = "there" \/ w.contents[p] # w.loaded[p]
                                 THEN w.contents[p] ELSE meant[w.agent][p]] \in Definitions
    BY <1>0, <2>2 DEF Definitions, Absent
  <2>4. meant' \in [AgentIds -> Definitions]
    BY <1>0, <2>1, <2>2, <2>3
  <2>5. inspector' \in Inspectors
    BY <1>0, <2>1, <2>2 DEF Inspectors
  <2> QED  BY <1>0, <2>1, <2>2, <2>4, <2>5 DEF DefinitionsTyped
<1>6. CASE SaveFails
  <2>1. /\ inspector' \in Inspectors /\ save' = {} /\ CallFails
        /\ UNCHANGED <<roster, definition, endpoint, served, requested, scan, removal, meant,
                       raced, clobbered, orphaned, owed, dropped, savesMade, changes>>
    BY <1>0, <1>6 DEF SaveFails, Inspectors
  <2> QED  BY <2>1, ChangeTypes DEF DefinitionsTyped
<1>7. CASE RenameActor
  <2>1. /\ endpoint' \in [AgentIds -> EndpointStatuses] /\ orphaned' \subseteq AgentIds
        /\ Changing
        /\ UNCHANGED <<roster, definition, served, requested, scan, removal, inspector, save,
                       meant, raced, clobbered, owed, dropped, savesMade, faults>>
    BY <1>0, <1>7 DEF RenameActor
  <2> QED  BY <2>1, ChangeTypes DEF DefinitionsTyped
<1>8. ASSUME NEW p \in Parts, EditDraft(p) PROVE DefinitionsTyped'
  <2>1. /\ inspector' = [inspector EXCEPT !.draft[p] = Stamp] /\ Changing
        /\ UNCHANGED <<roster, definition, endpoint, served, requested, scan, removal, save,
                       meant, raced, clobbered, orphaned, owed, dropped, savesMade, faults>>
    BY <1>8 DEF EditDraft
  <2>2. [inspector.draft EXCEPT ![p] = Stamp] \in Definitions
    BY <1>0, <2>1, ChangeTypes, PartReplaced
  <2>3. inspector' \in Inspectors
    BY <1>0, <2>1, <2>2 DEF Inspectors
  <2> QED  BY <2>1, <2>3, ChangeTypes DEF DefinitionsTyped
<1> QED  BY <1>1, <1>2, <1>3, <1>4, <1>5, <1>6, <1>7, <1>8

-----------------------------------------------------------------------------
(* Actors' definitions: the files and the list                             *)

\* A step keeps every listed actor's file.
LEMMA ListedStayDefined ==
    ASSUME DefinitionsInv, DefinitionsNext PROVE ListedAreDefined'
<1>0. /\ roster \subseteq AgentIds /\ definition \in [AgentIds -> Definitions]
      /\ removal \in [ToolTurns -> Removals] /\ save \subseteq Saves /\ clobbered \in BOOLEAN
      /\ ~clobbered => \A a \in roster : definition[a].there
  BY TypesOneByOne DEF DefinitionsInv, DefinitionsTyped, ListedAreDefined
<1>1. ASSUME NEW a \in AgentIds, CreateActor(a) \/ SubmitForm(a) PROVE ListedAreDefined'
  <2>1. /\ definition' = [definition EXCEPT ![a] = Written(Stamp)]
        /\ roster' \subseteq roster \cup {a} /\ clobbered' = clobbered
    BY <1>1 DEF CreateActor, SubmitForm
  <2>2. Written(Stamp).there
    BY DEF Written
  <2> QED  BY <1>0, <2>1, <2>2 DEF ListedAreDefined
<1>2. ASSUME NEW a \in AgentIds, NEW p \in Parts, UpdateActor(a, p) PROVE ListedAreDefined'
  <2>1. /\ definition' = [definition EXCEPT ![a] = [definition[a] EXCEPT ![p] = Stamp]]
        /\ Changing /\ roster' = roster /\ clobbered' = clobbered
    BY <1>0, <1>2 DEF UpdateActor
  <2>2. [definition[a] EXCEPT ![p] = Stamp].there = definition[a].there
    BY <1>0, <2>1, ChangeTypes, PartReplaced, TypesOneByOne DEF DefinitionsInv
  <2> QED  BY <1>0, <2>1, <2>2 DEF ListedAreDefined
<1>3. ASSUME NEW t \in ToolTurns, NEW a \in AgentIds, StartRemoval(t, a)
      PROVE  ListedAreDefined'
  <2>1. /\ definition' = [definition EXCEPT ![a] = Absent] /\ roster' = roster \ {a}
        /\ clobbered' = clobbered
    BY <1>3 DEF StartRemoval
  <2> QED  BY <1>0, <2>1 DEF ListedAreDefined
<1>4. ASSUME NEW t \in ToolTurns, PutBack(t) PROVE ListedAreDefined'
  <2> DEFINE a == removal[t].agent
  <2>1. /\ removal[t].stage = "refused" /\ roster' = removal[t].list
        /\ definition' = [definition EXCEPT ![a] =
                             IF removal[t].file.there THEN removal[t].file ELSE @]
        /\ clobbered' = (clobbered \/ roster # removal[t].list \ {a})
    BY <1>4 DEF PutBack, Restored, PutsBack
  <2>2. ~clobbered => removal[t].file.there
    BY <2>1 DEF DefinitionsInv, RemovalsKeep, UnderWay
  <2>3. a \in AgentIds
    BY <1>0 DEF Removals
  <2> QED  BY <1>0, <2>1, <2>2, <2>3 DEF ListedAreDefined
<1>5. CASE SaveArrives
  <2>1. PICK w \in save : /\ definition' = [definition EXCEPT ![w.agent] = w.contents]
                          /\ roster' = roster /\ clobbered' = clobbered
    BY <1>5 DEF SaveArrives
  <2>2. w.contents.there /\ w.agent \in AgentIds
    BY <1>0 DEF DefinitionsInv, WindowAndRows, Saves
  <2> QED  BY <1>0, <2>1, <2>2 DEF ListedAreDefined
<1>6. CASE UNCHANGED <<roster, definition, clobbered>>
  BY <1>0, <1>6 DEF ListedAreDefined
<1> QED  BY <1>1, <1>2, <1>3, <1>4, <1>5, <1>6
         DEF DefinitionsNext, RegisterFound, ActorWorks, ActorPauses, OpenDefinition,
             RetireEndpoint, RetireFails, FinishRemoval, HearRequest, ReadProject, BridgeEnds,
             CloseInspector, LoadDefinition, SaveDefinition, SaveFails, RenameActor, EditDraft

\* A step overwrites no change its writer has not seen, or marks the actor as raced for.
LEMMA ChangesStayKept ==
    ASSUME DefinitionsInv, DefinitionsNext PROVE ChangesAreKept'
<1>0. /\ definition \in [AgentIds -> Definitions] /\ meant \in [AgentIds -> Definitions]
      /\ removal \in [ToolTurns -> Removals] /\ save \subseteq Saves /\ raced \subseteq AgentIds
      /\ \A a \in AgentIds \ raced : definition[a].there => definition[a] = meant[a]
  BY TypesOneByOne DEF DefinitionsInv, DefinitionsTyped, ChangesAreKept
<1>1. ASSUME NEW a \in AgentIds, CreateActor(a) \/ SubmitForm(a) PROVE ChangesAreKept'
  <2>1. /\ definition' = [definition EXCEPT ![a] = Written(Stamp)]
        /\ meant' = [meant EXCEPT ![a] = Written(Stamp)]
        /\ raced \ {a} \subseteq raced'
    BY <1>1 DEF CreateActor, SubmitForm
  <2> QED  BY <1>0, <2>1 DEF ChangesAreKept
<1>2. ASSUME NEW a \in AgentIds, NEW p \in Parts, UpdateActor(a, p) PROVE ChangesAreKept'
  <2>1. /\ definition' = [definition EXCEPT ![a] = [definition[a] EXCEPT ![p] = Stamp]]
        /\ meant' = [meant EXCEPT ![a] = [meant[a] EXCEPT ![p] = Stamp]]
        /\ definition[a].there /\ raced' = raced
    BY <1>0, <1>2 DEF UpdateActor
  <2> QED  BY <1>0, <2>1 DEF ChangesAreKept
<1>3. ASSUME NEW t \in ToolTurns, NEW a \in AgentIds, StartRemoval(t, a) PROVE ChangesAreKept'
  <2>1. /\ definition' = [definition EXCEPT ![a] = Absent] /\ UNCHANGED <<meant, raced>>
        /\ ~Absent.there
    BY <1>3 DEF StartRemoval, Absent
  <2> QED  BY <1>0, <2>1 DEF ChangesAreKept
<1>4. ASSUME NEW t \in ToolTurns, PutBack(t) PROVE ChangesAreKept'
  <2> DEFINE a == removal[t].agent
  <2>1. /\ definition' = [definition EXCEPT ![a] =
                             IF removal[t].file.there THEN removal[t].file ELSE @]
        /\ raced' = IF removal[t].file # meant[a] THEN raced \cup {a} ELSE raced
        /\ meant' = meant
    BY <1>4 DEF PutBack, Restored, PutsBack
  <2>2. a \in AgentIds
    BY <1>0 DEF Removals
  <2> QED  BY <1>0, <2>1, <2>2 DEF ChangesAreKept
<1>5. CASE SaveArrives
  <2>1. PICK w \in save :
          /\ definition' = [definition EXCEPT ![w.agent] = w.contents]
          /\ meant' = [meant EXCEPT ![w.agent] = [p \in DOMAIN Absent |->
                         IF p = "there" \/ w.contents[p] # w.loaded[p]
                         THEN w.contents[p] ELSE @[p]]]
          /\ raced' = IF definition[w.agent] # w.loaded THEN raced \cup {w.agent} ELSE raced
    BY <1>5 DEF SaveArrives
  <2> DEFINE a == w.agent
             new == [p \in DOMAIN Absent |-> IF p = "there" \/ w.contents[p] # w.loaded[p]
                                             THEN w.contents[p] ELSE meant[a][p]]
  <2>2. /\ a \in AgentIds /\ w.contents \in Definitions /\ w.loaded \in Definitions
        /\ w.loaded.there
    BY <1>0 DEF Saves, DefinitionsInv, WindowAndRows
  <2>3. meant' = [meant EXCEPT ![a] = new]
    BY <1>0, <2>1, <2>2
  <2>4. ASSUME a \notin raced' PROVE new = w.contents
    <3>1. definition[a] = w.loaded /\ a \notin raced
      BY <2>1, <2>4
    <3>2. meant[a] = w.loaded
      BY <1>0, <2>2, <3>1
    <3> QED  BY <2>2, <3>2 DEF Absent, Definitions
  <2>5. raced \subseteq raced'
    BY <2>1
  <2> HIDE DEF new
  <2>6. ASSUME NEW b \in AgentIds \ raced', definition'[b].there
        PROVE  definition'[b] = meant'[b]
    <3>1. CASE b = a
      BY <1>0, <2>1, <2>2, <2>3, <2>4, <2>6, <3>1
    <3>2. CASE b # a
      BY <1>0, <2>1, <2>3, <2>5, <2>6, <3>2
    <3> QED  BY <3>1, <3>2
  <2> QED  BY <2>6 DEF ChangesAreKept
<1>6. CASE UNCHANGED <<definition, meant, raced>>
  BY <1>0, <1>6 DEF ChangesAreKept
<1> QED  BY <1>1, <1>2, <1>3, <1>4, <1>5, <1>6
         DEF DefinitionsNext, RegisterFound, ActorWorks, ActorPauses, OpenDefinition,
             RetireEndpoint, RetireFails, FinishRemoval, HearRequest, ReadProject, BridgeEnds,
             CloseInspector, LoadDefinition, SaveDefinition, SaveFails, RenameActor, EditDraft

-----------------------------------------------------------------------------
(* Actors' definitions: removals and the window                            *)

\* A removal under way keeps what it found.
LEMMA RemovalsGoOnKeeping ==
    ASSUME DefinitionsInv, DefinitionsNext PROVE RemovalsKeep'
<1>0. /\ removal \in [ToolTurns -> Removals] /\ clobbered \in BOOLEAN
      /\ \A t \in ToolTurns : UnderWay(t) => /\ removal[t].agent \in removal[t].list
                                             /\ ~clobbered => removal[t].file.there
      /\ NoRemoval.stage = "idle"
  BY TypesOneByOne DEF DefinitionsInv, DefinitionsTyped, RemovalsKeep, NoRemoval
<1>1. ASSUME NEW t \in ToolTurns, NEW a \in AgentIds, StartRemoval(t, a) PROVE RemovalsKeep'
  <2> DEFINE new == [stage |-> "sent", agent |-> a, list |-> roster, file |-> definition[a]]
  <2>1. /\ removal' = [removal EXCEPT ![t] = new] /\ clobbered' = clobbered /\ a \in roster
    BY <1>1 DEF StartRemoval
  <2>2. new.agent \in new.list /\ (~clobbered => new.file.there)
    BY <2>1 DEF DefinitionsInv, ListedAreDefined
  <2> HIDE DEF new
  <2> QED  BY <1>0, <2>1, <2>2 DEF RemovalsKeep, UnderWay
<1>2. ASSUME NEW t \in ToolTurns, RetireEndpoint(t) \/ RetireFails(t) PROVE RemovalsKeep'
  <2>1. /\ removal[t].stage = "sent" /\ clobbered' = clobbered
        /\ \/ removal' = [removal EXCEPT ![t].stage = "done"]
           \/ removal' = [removal EXCEPT ![t].stage = "refused"]
    BY <1>2 DEF RetireEndpoint, RetireFails, Answered
  <2> QED  BY <1>0, <2>1 DEF RemovalsKeep, UnderWay, Removals
<1>3. ASSUME NEW t \in ToolTurns, FinishRemoval(t) \/ PutBack(t) PROVE RemovalsKeep'
  <2>1. removal' = [removal EXCEPT ![t] = NoRemoval] /\ (clobbered => clobbered')
    BY <1>0, <1>3 DEF FinishRemoval, PutBack, PutsBack
  <2> QED  BY <1>0, <2>1 DEF RemovalsKeep, UnderWay
<1>4. CASE BridgeEnds
  <2>1. removal' = [t \in ToolTurns |-> NoRemoval]
    BY <1>4 DEF BridgeEnds
  <2> QED  BY <1>0, <2>1 DEF RemovalsKeep, UnderWay
<1>5. CASE UNCHANGED <<removal, clobbered>>
  BY <1>0, <1>5 DEF RemovalsKeep, UnderWay
<1> QED  BY <1>1, <1>2, <1>3, <1>4, <1>5
         DEF DefinitionsNext, CreateActor, UpdateActor, RegisterFound, ActorWorks, ActorPauses,
             OpenDefinition, SubmitForm, HearRequest, ReadProject, CloseInspector,
             LoadDefinition, SaveDefinition, SaveArrives, SaveFails, RenameActor, EditDraft

\* A step of the window leaves the inspector with files it loaded and a row that can be woken.
LEMMA WindowKeepsFiles ==
    ASSUME DefinitionsInv,
           \/ \E a \in AgentIds : OpenDefinition(a)
           \/ CloseInspector \/ LoadDefinition \/ SaveDefinition \/ SaveArrives \/ SaveFails
           \/ \E p \in Parts : EditDraft(p)
    PROVE  WindowAndRows'
<1>0. /\ inspector \in Inspectors /\ save \subseteq Saves
      /\ endpoint \in [AgentIds -> EndpointStatuses]
      /\ inspector.phase = "loaded" => inspector.loaded.there /\ inspector.draft.there
      /\ inspector.saving => inspector.loaded.there
      /\ inspector.phase # "closed" => inspector.row \in Woken
      /\ \A w \in save : w.contents.there /\ w.loaded.there
      /\ \A a \in AgentIds : endpoint[a] = "none" => served[a] = Absent
      /\ scan.stage # "register" => scan.todo = {}
  BY TypesOneByOne DEF DefinitionsInv, DefinitionsTyped, WindowAndRows
<1>1. UNCHANGED <<endpoint, served, scan>>
  BY DEF OpenDefinition, CloseInspector, LoadDefinition, SaveDefinition, SaveArrives, SaveFails,
         EditDraft
<1>2. ASSUME NEW a \in AgentIds, OpenDefinition(a) PROVE WindowAndRows'
  <2> DEFINE open == [Closed EXCEPT !.phase = "loading", !.agent = a, !.row = endpoint[a]]
  <2>1. inspector' = open /\ save' = save /\ endpoint[a] \notin {"none", "retired"}
    BY <1>2 DEF OpenDefinition
  <2>2. open.phase = "loading" /\ ~open.saving /\ open.row \in Woken
    BY <1>0, <2>1 DEF Closed, Woken, EndpointStatuses
  <2> HIDE DEF open
  <2> QED  BY <1>0, <1>1, <2>1, <2>2 DEF WindowAndRows
<1>3. CASE CloseInspector
  <2>1. inspector' = Closed /\ save' = save
    BY <1>3 DEF CloseInspector
  <2>2. Closed.phase = "closed" /\ ~Closed.saving
    BY DEF Closed
  <2> QED  BY <1>0, <1>1, <2>1, <2>2 DEF WindowAndRows
<1>4. CASE LoadDefinition
  <2> DEFINE found == definition[inspector.agent]
             open == [inspector EXCEPT !.phase = "loaded", !.loaded = found, !.draft = found]
             gone == [inspector EXCEPT !.phase = "error"]
  <2>1. /\ inspector.phase = "loading" /\ save' = save
        /\ inspector' = IF found.there THEN open ELSE gone
    BY <1>4 DEF LoadDefinition
  <2>2. /\ open.row = inspector.row /\ open.loaded = found /\ open.draft = found
        /\ gone.phase = "error" /\ gone.row = inspector.row /\ gone.saving = inspector.saving
        /\ gone.loaded = inspector.loaded
    BY <1>0 DEF Inspectors
  <2> HIDE DEF open, gone
  <2> QED  BY <1>0, <1>1, <2>1, <2>2 DEF WindowAndRows
<1>5. CASE SaveDefinition
  <2> DEFINE w == [agent |-> inspector.agent, contents |-> inspector.draft,
                   loaded |-> inspector.loaded]
             saves == [inspector EXCEPT !.saving = TRUE]
  <2>1. inspector' = saves /\ save' = {w} /\ inspector.phase = "loaded"
    BY <1>5 DEF SaveDefinition
  <2>2. /\ w.contents = inspector.draft /\ w.loaded = inspector.loaded
        /\ saves.phase = inspector.phase /\ saves.row = inspector.row
        /\ saves.loaded = inspector.loaded /\ saves.draft = inspector.draft
    BY <1>0 DEF Inspectors
  <2> HIDE DEF w, saves
  <2> QED  BY <1>0, <1>1, <2>1, <2>2 DEF WindowAndRows
<1>6. CASE SaveArrives
  <2>1. PICK w \in save :
          /\ save' = {}
          /\ inspector' = IF inspector.saving
                          THEN [inspector EXCEPT !.saving = FALSE, !.loaded = w.contents]
                          ELSE inspector
    BY <1>6 DEF SaveArrives
  <2> DEFINE saved == [inspector EXCEPT !.saving = FALSE, !.loaded = w.contents]
  <2>2. /\ saved.phase = inspector.phase /\ saved.row = inspector.row /\ ~saved.saving
        /\ saved.loaded = w.contents /\ saved.draft = inspector.draft
    BY <1>0 DEF Inspectors
  <2>3. inspector' = IF inspector.saving THEN saved ELSE inspector
    BY <2>1
  <2> HIDE DEF saved
  <2> QED  BY <1>0, <1>1, <2>1, <2>2, <2>3 DEF WindowAndRows
<1>7. CASE SaveFails
  <2> DEFINE rests == [inspector EXCEPT !.saving = FALSE]
  <2>1. inspector' = rests /\ save' = {}
    BY <1>7 DEF SaveFails
  <2>2. /\ rests.phase = inspector.phase /\ rests.row = inspector.row /\ ~rests.saving
        /\ rests.loaded = inspector.loaded /\ rests.draft = inspector.draft
    BY <1>0 DEF Inspectors
  <2> HIDE DEF rests
  <2> QED  BY <1>0, <1>1, <2>1, <2>2 DEF WindowAndRows
<1>8. ASSUME NEW p \in Parts, EditDraft(p) PROVE WindowAndRows'
  <2> DEFINE changed == [inspector.draft EXCEPT ![p] = Stamp]
             edited == [inspector EXCEPT !.draft = changed]
  <2>1. inspector' = edited /\ save' = save /\ Changing
    BY <1>0, <1>8 DEF EditDraft, Inspectors
  <2>2. changed.there = inspector.draft.there
    BY <1>0, <2>1, ChangeTypes, PartReplaced, TypesOneByOne DEF DefinitionsInv, Inspectors
  <2> HIDE DEF changed
  <2>3. /\ edited.phase = inspector.phase /\ edited.row = inspector.row
        /\ edited.loaded = inspector.loaded /\ edited.saving = inspector.saving
        /\ edited.draft = changed
    BY <1>0 DEF Inspectors
  <2> HIDE DEF edited
  <2> QED  BY <1>0, <1>1, <2>1, <2>2, <2>3 DEF WindowAndRows
<1> QED  BY <1>2, <1>3, <1>4, <1>5, <1>6, <1>7, <1>8

\* And so does every other step; an actor without a row is not run, and a scan that has not
\* read the list has nobody to register.
LEMMA WindowAndRowsStay ==
    ASSUME DefinitionsInv, DefinitionsNext PROVE WindowAndRows'
<1>0. /\ scan \in Scans /\ endpoint \in [AgentIds -> EndpointStatuses]
      /\ removal \in [ToolTurns -> Removals] /\ inspector \in Inspectors
      /\ served \in [AgentIds -> Definitions]
      /\ inspector.phase = "loaded" => inspector.loaded.there /\ inspector.draft.there
      /\ inspector.saving => inspector.loaded.there
      /\ inspector.phase # "closed" => inspector.row \in Woken
      /\ \A w \in save : w.contents.there /\ w.loaded.there
      /\ \A a \in AgentIds : endpoint[a] = "none" => served[a] = Absent
      /\ scan.stage # "register" => scan.todo = {}
      /\ ScanOver.todo = {} /\ [ScanOver EXCEPT !.stage = "listed"].todo = {}
  BY TypesOneByOne DEF DefinitionsInv, DefinitionsTyped, WindowAndRows, ScanOver
<1>1. ASSUME NEW a \in AgentIds, RegisterFound(a) PROVE WindowAndRows'
  <2> DEFINE later == [scan EXCEPT !.todo = @ \ {a}, !.found[a] = Absent]
  <2>1. /\ served' = [served EXCEPT ![a] = scan.found[a]] /\ scan.stage = "register"
        /\ endpoint' = [endpoint EXCEPT ![a] = "idle"]
        /\ scan' = IF scan.todo = {a} THEN ScanOver ELSE later
        /\ UNCHANGED <<inspector, save>>
    BY <1>1 DEF RegisterFound
  <2>2. later.stage = scan.stage
    BY <1>0 DEF Scans
  <2> HIDE DEF later
  <2> QED  BY <1>0, <2>1, <2>2 DEF WindowAndRows
<1>2. ASSUME NEW a \in AgentIds, ActorWorks(a) \/ ActorPauses(a) PROVE WindowAndRows'
  BY <1>0, <1>2 DEF ActorWorks, ActorPauses, WindowAndRows
<1>3. ASSUME NEW t \in ToolTurns, RetireEndpoint(t) \/ RetireFails(t) PROVE WindowAndRows'
  <2>1. \/ endpoint' = [endpoint EXCEPT ![removal[t].agent] = "retired"]
        \/ endpoint' = endpoint
    BY <1>3 DEF RetireEndpoint, RetireFails
  <2>2. UNCHANGED <<served, scan, inspector, save>>
    BY <1>3 DEF RetireEndpoint, RetireFails
  <2> QED  BY <1>0, <2>1, <2>2 DEF WindowAndRows
<1>4. CASE RenameActor
  <2>1. /\ inspector.phase # "closed" /\ UNCHANGED <<served, scan, inspector, save>>
        /\ endpoint' = [endpoint EXCEPT ![inspector.agent] = inspector.row]
    BY <1>4 DEF RenameActor
  <2> QED  BY <1>0, <2>1 DEF WindowAndRows, Woken
<1>5. CASE BridgeEnds
  <2>1. /\ served' = [a \in AgentIds |-> Absent] /\ scan' = [ScanOver EXCEPT !.stage = "listed"]
        /\ UNCHANGED <<endpoint, inspector, save>>
    BY <1>5 DEF BridgeEnds
  <2> QED  BY <1>0, <2>1 DEF WindowAndRows
<1>6. CASE HearRequest
  <2>1. /\ scan' = [ScanOver EXCEPT !.stage = "listed"] \/ scan' = scan
        /\ UNCHANGED <<endpoint, served, inspector, save>>
    BY <1>6 DEF HearRequest
  <2> QED  BY <1>0, <2>1 DEF WindowAndRows
<1>7. CASE ReadProject
  <2>1. /\ scan' = ScanOver \/ scan'.stage = "register"
        /\ UNCHANGED <<endpoint, served, inspector, save>>
    BY <1>7 DEF ReadProject
  <2> QED  BY <1>0, <2>1 DEF WindowAndRows
<1>8. CASE UNCHANGED <<endpoint, served, scan, inspector, save>>
  BY <1>0, <1>8 DEF WindowAndRows
<1> QED  BY <1>1, <1>2, <1>3, <1>4, <1>5, <1>6, <1>7, <1>8, WindowKeepsFiles
         DEF DefinitionsNext, CreateActor, UpdateActor, StartRemoval, FinishRemoval, PutBack,
             SubmitForm

-----------------------------------------------------------------------------
(* Actors' definitions: who is listed, and who is served                   *)

\* An actor that can be woken stays listed, or is on its way off the list.
LEMMA WokenStayListed ==
    ASSUME DefinitionsInv, DefinitionsNext PROVE WokenAreListed'
<1>0. /\ roster \subseteq AgentIds /\ endpoint \in [AgentIds -> EndpointStatuses]
      /\ removal \in [ToolTurns -> Removals] /\ inspector \in Inspectors
      /\ orphaned \subseteq AgentIds /\ clobbered \in BOOLEAN
      /\ \A t \in ToolTurns : removal[t].agent \in AgentIds
      /\ ~clobbered => \A a \in AgentIds \ orphaned : endpoint[a] \in Woken =>
            a \in roster \/ \E t \in ToolTurns :
                removal[t].stage \in {"sent", "refused"} /\ removal[t].agent = a
  BY TypesOneByOne DEF DefinitionsInv, DefinitionsTyped, WokenAreListed, NotYetRetired, Removals
<1>1. ASSUME NEW a \in AgentIds, CreateActor(a) PROVE WokenAreListed'
  <2>1. /\ roster' = roster \cup {a} /\ orphaned' = orphaned \ {a}
        /\ UNCHANGED <<endpoint, removal, clobbered>>
    BY <1>1 DEF CreateActor
  <2> QED  BY <1>0, <2>1 DEF WokenAreListed, NotYetRetired
<1>2. ASSUME NEW t \in ToolTurns, NEW a \in AgentIds, StartRemoval(t, a) PROVE WokenAreListed'
  <2> DEFINE new == [stage |-> "sent", agent |-> a, list |-> roster, file |-> definition[a]]
  <2>1. /\ removal[t].stage = "idle" /\ removal' = [removal EXCEPT ![t] = new]
        /\ roster' = roster \ {a} /\ UNCHANGED <<endpoint, clobbered, orphaned>>
    BY <1>2 DEF StartRemoval
  <2>2. new.stage = "sent" /\ new.agent = a
    OBVIOUS
  <2> HIDE DEF new
  <2>3. \A u \in ToolTurns : removal[u].stage \in {"sent", "refused"} => removal'[u] = removal[u]
    BY <1>0, <2>1
  <2>4. removal'[t] = new
    BY <1>0, <2>1
  <2> QED  BY <1>0, <2>1, <2>2, <2>3, <2>4 DEF WokenAreListed, NotYetRetired
<1>3. ASSUME NEW t \in ToolTurns, RetireEndpoint(t) \/ RetireFails(t) PROVE WokenAreListed'
  <2> DEFINE a == removal[t].agent
  <2>1. /\ \A u \in ToolTurns \ {t} : removal'[u] = removal[u]
        /\ removal'[t].agent = a
        /\ UNCHANGED <<roster, clobbered>>
    BY <1>0, <1>3 DEF RetireEndpoint, RetireFails, Answered, Removals
  <2>2. \/ /\ endpoint' = [endpoint EXCEPT ![a] = "retired"] /\ orphaned \ {a} \subseteq orphaned'
        \/ /\ removal'[t].stage = "refused" /\ UNCHANGED <<endpoint, orphaned>>
    BY <1>0, <1>3 DEF RetireEndpoint, RetireFails, Answered, Removals
  <2>3. CASE /\ endpoint' = [endpoint EXCEPT ![a] = "retired"] /\ orphaned \ {a} \subseteq orphaned'
    BY <1>0, <2>1, <2>3 DEF WokenAreListed, NotYetRetired, Woken
  <2>4. CASE removal'[t].stage = "refused" /\ UNCHANGED <<endpoint, orphaned>>
    BY <1>0, <2>1, <2>4 DEF WokenAreListed, NotYetRetired
  <2> QED  BY <2>2, <2>3, <2>4
<1>4. ASSUME NEW t \in ToolTurns, FinishRemoval(t) PROVE WokenAreListed'
  <2>1. /\ removal[t].stage = "done" /\ \A u \in ToolTurns \ {t} : removal'[u] = removal[u]
        /\ UNCHANGED <<roster, endpoint, clobbered, orphaned>>
    BY <1>0, <1>4 DEF FinishRemoval
  <2> QED  BY <1>0, <2>1 DEF WokenAreListed, NotYetRetired
<1>5. ASSUME NEW t \in ToolTurns, PutBack(t) PROVE WokenAreListed'
  <2> DEFINE a == removal[t].agent
  <2>1. /\ removal[t].stage = "refused" /\ \A u \in ToolTurns \ {t} : removal'[u] = removal[u]
        /\ roster' = removal[t].list /\ endpoint' = endpoint /\ orphaned' = orphaned \ {a}
        /\ clobbered' = (clobbered \/ roster # removal[t].list \ {a})
    BY <1>0, <1>5 DEF PutBack, PutsBack
  <2>2. a \in removal[t].list
    BY <2>1 DEF DefinitionsInv, RemovalsKeep, UnderWay
  <2> QED  BY <1>0, <2>1, <2>2 DEF WokenAreListed, NotYetRetired
<1>6. ASSUME NEW a \in AgentIds, RegisterFound(a) PROVE WokenAreListed'
  <2>1. /\ endpoint' = [endpoint EXCEPT ![a] = "idle"]
        /\ orphaned' = IF a \in roster THEN orphaned ELSE orphaned \cup {a}
        /\ UNCHANGED <<roster, removal, clobbered>>
    BY <1>6 DEF RegisterFound
  <2> QED  BY <1>0, <2>1 DEF WokenAreListed, NotYetRetired
<1>7. ASSUME NEW a \in AgentIds, ActorWorks(a) \/ ActorPauses(a) PROVE WokenAreListed'
  <2>1. \A b \in AgentIds : endpoint'[b] \in Woken => endpoint[b] \in Woken
    BY <1>0, <1>7 DEF ActorWorks, ActorPauses, Woken
  <2>2. UNCHANGED <<roster, removal, clobbered, orphaned>>
    BY <1>7 DEF ActorWorks, ActorPauses
  <2> QED  BY <1>0, <2>1, <2>2 DEF WokenAreListed, NotYetRetired
<1>8. CASE BridgeEnds
  <2>1. /\ orphaned' = orphaned \cup {a \in AgentIds : \E t \in ToolTurns :
                         removal[t].stage \in {"sent", "refused"} /\ removal[t].agent = a}
        /\ UNCHANGED <<roster, endpoint, clobbered>>
    BY <1>8 DEF BridgeEnds
  <2> QED  BY <1>0, <2>1 DEF WokenAreListed, NotYetRetired
<1>9. CASE RenameActor
  <2>1. /\ endpoint' = [endpoint EXCEPT ![inspector.agent] = inspector.row]
        /\ orphaned' = IF inspector.agent \in roster THEN orphaned
                       ELSE orphaned \cup {inspector.agent}
        /\ UNCHANGED <<roster, removal, clobbered>>
    BY <1>9 DEF RenameActor
  <2> QED  BY <1>0, <2>1 DEF WokenAreListed, NotYetRetired
<1>10. CASE UNCHANGED <<roster, endpoint, removal, clobbered, orphaned>>
  BY <1>0, <1>10 DEF WokenAreListed, NotYetRetired
<1> QED  BY <1>1, <1>2, <1>3, <1>4, <1>5, <1>6, <1>7, <1>8, <1>9, <1>10
         DEF DefinitionsNext, UpdateActor, OpenDefinition, SubmitForm, HearRequest, ReadProject,
             CloseInspector, LoadDefinition, SaveDefinition, SaveArrives, SaveFails, EditDraft

\* A scan that was due for an actor is still due, and due for the one a tool has changed.
LEMMA AskedScanIsDue ==
    ASSUME owed \subseteq AgentIds, requested \in BOOLEAN, NEW a, AskScan(a), scan' = scan
    PROVE  ScanIsDue(a)' /\ \A b : ScanIsDue(b) => ScanIsDue(b)'
BY DEF AskScan, ScanIsDue

\* A listed actor is served, or something that is under way will serve it: tools.
LEMMA ToolsLeaveListedServed ==
    ASSUME DefinitionsInv,
           \/ \E a \in AgentIds : CreateActor(a)
           \/ \E a \in AgentIds, p \in Parts : UpdateActor(a, p)
           \/ \E t \in ToolTurns, a \in AgentIds : StartRemoval(t, a)
           \/ \E t \in ToolTurns :
                 RetireEndpoint(t) \/ RetireFails(t) \/ FinishRemoval(t) \/ PutBack(t)
    PROVE  ListedWillBeServed'
<1>0. /\ roster \subseteq AgentIds /\ definition \in [AgentIds -> Definitions]
      /\ endpoint \in [AgentIds -> EndpointStatuses] /\ removal \in [ToolTurns -> Removals]
      /\ owed \subseteq AgentIds /\ requested \in BOOLEAN /\ clobbered \in BOOLEAN
      /\ \A t \in ToolTurns : removal[t].agent \in AgentIds
      /\ NoRemoval.stage = "idle"
      /\ ~clobbered /\ ~dropped => \A a \in roster :
            \/ ScanIsDue(a)
            \/ \E t \in ToolTurns : RemovedBy(t, a)
            \/ IF a \in scan.todo THEN scan.found[a] = definition[a]
               ELSE endpoint[a] \in Woken /\ served[a] = definition[a]
  BY TypesOneByOne
     DEF DefinitionsInv, DefinitionsTyped, ListedWillBeServed, Removals, NoRemoval
<1>1. ASSUME NEW a \in AgentIds, CreateActor(a) \/ \E p \in Parts : UpdateActor(a, p)
      PROVE  ListedWillBeServed'
  <2>1. /\ AskScan(a) /\ roster' \subseteq roster \cup {a}
        /\ \A b \in AgentIds \ {a} : definition'[b] = definition[b]
        /\ UNCHANGED <<endpoint, served, scan, removal, clobbered, dropped>>
    BY <1>0, <1>1 DEF CreateActor, UpdateActor
  <2>2. ScanIsDue(a)' /\ \A b : ScanIsDue(b) => ScanIsDue(b)'
    BY <1>0, <2>1, AskedScanIsDue
  <2> QED  BY <1>0, <2>1, <2>2 DEF ListedWillBeServed, RemovedBy, UnderWay
<1>2. ASSUME NEW t \in ToolTurns, NEW a \in AgentIds, StartRemoval(t, a)
      PROVE  ListedWillBeServed'
  <2>1. /\ removal[t].stage = "idle"
        /\ \A u \in ToolTurns \ {t} : removal'[u] = removal[u]
        /\ roster' = roster \ {a} /\ \A b \in AgentIds \ {a} : definition'[b] = definition[b]
        /\ UNCHANGED <<endpoint, served, requested, scan, clobbered, owed, dropped>>
    BY <1>0, <1>2 DEF StartRemoval
  <2>2. \A b : ScanIsDue(b) => ScanIsDue(b)'
    BY <2>1 DEF ScanIsDue
  <2>3. ASSUME NEW u \in ToolTurns, NEW b, RemovedBy(u, b) PROVE RemovedBy(u, b)'
    BY <2>1, <2>3 DEF RemovedBy, UnderWay
  <2> QED  BY <1>0, <2>1, <2>2, <2>3 DEF ListedWillBeServed
<1>3. ASSUME NEW t \in ToolTurns, RetireEndpoint(t) \/ RetireFails(t) PROVE ListedWillBeServed'
  <2>0. PICK a \in AgentIds : a = removal[t].agent
    BY <1>0
  <2>1. /\ \A u \in ToolTurns \ {t} : removal'[u] = removal[u]
        /\ removal'[t].agent = a /\ removal'[t].stage \in {"done", "refused"}
        /\ UNCHANGED <<roster, definition, served, requested, scan, clobbered, owed, dropped>>
    BY <1>0, <2>0, <1>3 DEF RetireEndpoint, RetireFails, Answered, Removals
  <2>2. endpoint' = [endpoint EXCEPT ![a] = "retired"] \/ endpoint' = endpoint
    BY <2>0, <1>3 DEF RetireEndpoint, RetireFails
  <2>3. \A b : ScanIsDue(b) => ScanIsDue(b)'
    BY <2>0, <2>1 DEF ScanIsDue
  <2>4. ASSUME NEW u \in ToolTurns, NEW b, RemovedBy(u, b) PROVE RemovedBy(u, b)'
    <3>1. CASE u = t
      BY <2>0, <2>1, <2>4, <3>1 DEF RemovedBy, UnderWay
    <3>2. CASE u # t
      BY <2>0, <2>1, <2>4, <3>2 DEF RemovedBy, UnderWay
    <3> QED  BY <2>0, <3>1, <3>2
  <2>5. RemovedBy(t, a)'
    BY <2>0, <2>1 DEF RemovedBy, UnderWay
  <2>6. \A b \in AgentIds : b = a \/ endpoint'[b] = endpoint[b]
    BY <1>0, <2>0, <2>2
  <2> QED  BY <1>0, <2>0, <2>1, <2>3, <2>4, <2>5, <2>6 DEF ListedWillBeServed
<1>4. ASSUME NEW t \in ToolTurns, FinishRemoval(t) PROVE ListedWillBeServed'
  <2>0. PICK a \in AgentIds : a = removal[t].agent
    BY <1>0
  <2>1. /\ \A u \in ToolTurns \ {t} : removal'[u] = removal[u]
        /\ AskScan(a)
        /\ UNCHANGED <<roster, definition, endpoint, served, scan, clobbered, dropped>>
    BY <1>0, <2>0, <1>4 DEF FinishRemoval
  <2>2. ScanIsDue(a)' /\ \A b : ScanIsDue(b) => ScanIsDue(b)'
    BY <1>0, <2>0, <2>1, AskedScanIsDue
  <2>3. ASSUME NEW u \in ToolTurns, NEW b, RemovedBy(u, b), b # a PROVE RemovedBy(u, b)'
    BY <2>0, <2>1, <2>3 DEF RemovedBy, UnderWay
  <2>4. ASSUME ~clobbered, ~dropped, NEW b \in roster
        PROVE  \/ ScanIsDue(b)'
               \/ \E u \in ToolTurns : RemovedBy(u, b)'
               \/ IF b \in scan'.todo THEN scan'.found[b] = definition'[b]
                  ELSE endpoint'[b] \in Woken /\ served'[b] = definition'[b]
    <3>1. CASE b = a
      BY <2>0, <2>2, <3>1
    <3>2. CASE b # a
      BY <1>0, <2>0, <2>1, <2>2, <2>3, <2>4, <3>2
    <3> QED  BY <2>0, <3>1, <3>2
  <2> QED  BY <2>0, <2>1, <2>4 DEF ListedWillBeServed
<1>5. ASSUME NEW t \in ToolTurns, PutBack(t), ~clobbered', ~dropped', NEW b \in roster'
      PROVE  \/ ScanIsDue(b)'
             \/ \E u \in ToolTurns : RemovedBy(u, b)'
             \/ IF b \in scan'.todo THEN scan'.found[b] = definition'[b]
                ELSE endpoint'[b] \in Woken /\ served'[b] = definition'[b]
  <2>0. PICK a \in AgentIds : a = removal[t].agent
    BY <1>0
  <2>1. /\ removal[t].stage = "refused"
        /\ \A u \in ToolTurns \ {t} : removal'[u] = removal[u]
        /\ roster' = removal[t].list /\ clobbered' = (clobbered \/ roster # removal[t].list \ {a})
        /\ UNCHANGED <<endpoint, served, requested, scan, dropped>>
    BY <1>0, <2>0, <1>5 DEF PutBack, PutsBack
  <2>2. owed' = IF endpoint[a] = "retired" \/ served[a] # definition'[a]
                THEN owed \cup {a} ELSE owed
    BY <1>5, <2>0 DEF PutBack, PutsBack
  <2>3. definition' = [definition EXCEPT ![a] =
                         IF removal[t].file.there THEN removal[t].file ELSE @]
    BY <1>5, <2>0 DEF PutBack, Restored
  <2>4. /\ a \in removal[t].list /\ removal[t].file.there /\ UnderWay(t)
        /\ ~clobbered /\ ~dropped /\ roster = removal[t].list \ {a}
    BY <1>5, <2>0, <2>1 DEF DefinitionsInv, RemovalsKeep, UnderWay
  <2>5. \A c : ScanIsDue(c) => ScanIsDue(c)'
    BY <2>0, <2>1, <2>2 DEF ScanIsDue
  <2>6. ASSUME NEW u \in ToolTurns, NEW c, RemovedBy(u, c), u # t PROVE RemovedBy(u, c)'
    BY <2>0, <2>1, <2>6 DEF RemovedBy, UnderWay
  <2>7. CASE b # a
    <3>1. b \in roster /\ ~RemovedBy(t, b)
      BY <2>0, <2>1, <2>4, <2>7 DEF RemovedBy
    <3>2. definition'[b] = definition[b]
      BY <1>0, <2>0, <2>3, <2>7
    <3> QED  BY <1>0, <2>0, <2>1, <2>4, <2>5, <2>6, <3>1, <3>2
  <2>8. CASE b = a
    <3>1. definition'[a] = removal[t].file /\ a \notin roster
      BY <1>0, <2>0, <2>3, <2>4
    <3>2. CASE a \in scan.todo
      <4>1. \/ ScanIsDue(a)
            \/ \E u \in ToolTurns \ {t} : RemovedBy(u, a)
            \/ scan.found[a] = removal[t].file
        BY <2>0, <2>4, <3>1, <3>2 DEF DefinitionsInv, RestoredWillBeServed
      <4> QED  BY <2>0, <2>1, <2>5, <2>6, <2>8, <3>1, <3>2, <4>1
    <3>3. CASE a \notin scan.todo /\ a \notin owed'
      <4>1. endpoint[a] # "retired" /\ served[a] = definition'[a]
        BY <2>0, <2>2, <3>3
      <4>2. endpoint[a] # "none"
        BY <1>0, <2>0, <2>4, <3>1, <4>1 DEF DefinitionsInv, WindowAndRows, Absent
      <4>3. endpoint[a] \in Woken
        BY <1>0, <2>0, <4>1, <4>2 DEF EndpointStatuses, Woken
      <4> QED  BY <2>0, <2>1, <2>8, <3>3, <4>1, <4>3
    <3>4. CASE a \in owed'
      BY <2>0, <2>8, <3>4 DEF ScanIsDue
    <3> QED  BY <2>0, <3>2, <3>3, <3>4
  <2> QED  BY <2>0, <2>7, <2>8
<1>6. ASSUME NEW t \in ToolTurns, PutBack(t) PROVE ListedWillBeServed'
  BY <1>5, <1>6 DEF ListedWillBeServed
<1> QED  BY <1>1, <1>2, <1>3, <1>4, <1>6

\* The scans, the window and the actors' work.
LEMMA ListedStayServed ==
    ASSUME DefinitionsInv, DefinitionsNext PROVE ListedWillBeServed'
<1>0. /\ roster \subseteq AgentIds /\ definition \in [AgentIds -> Definitions]
      /\ endpoint \in [AgentIds -> EndpointStatuses] /\ served \in [AgentIds -> Definitions]
      /\ scan \in Scans /\ inspector \in Inspectors /\ save \subseteq Saves
      /\ owed \subseteq AgentIds /\ clobbered \in BOOLEAN /\ dropped \in BOOLEAN
      /\ scan.stage # "register" => scan.todo = {}
      /\ ScanOver.todo = {} /\ ScanOver.stage = "idle"
      /\ [ScanOver EXCEPT !.stage = "listed"].stage = "listed"
      /\ ~clobbered /\ ~dropped => \A a \in roster :
            \/ ScanIsDue(a)
            \/ \E t \in ToolTurns : RemovedBy(t, a)
            \/ IF a \in scan.todo THEN scan.found[a] = definition[a]
               ELSE endpoint[a] \in Woken /\ served[a] = definition[a]
  BY TypesOneByOne
     DEF DefinitionsInv, DefinitionsTyped, ListedWillBeServed, WindowAndRows, ScanOver
<1>1. CASE HearRequest
  <2>1. /\ IF scan.stage = "idle" THEN scan' = [ScanOver EXCEPT !.stage = "listed"]
           ELSE dropped' = TRUE
        /\ UNCHANGED roster
    BY <1>1 DEF HearRequest
  <2> QED  BY <1>0, <2>1 DEF ListedWillBeServed, ScanIsDue
<1>2. CASE ReadProject
  <2> DEFINE found == [a \in AgentIds |-> IF a \in roster THEN definition[a] ELSE Absent]
             new == [stage |-> "register", todo |-> roster, found |-> found]
  <2>1. /\ UNCHANGED <<roster, definition, clobbered>>
        /\ IF \A a \in roster : definition[a].there
           THEN scan' = IF roster = {} THEN ScanOver ELSE new ELSE TRUE
    BY <1>2 DEF ReadProject
  <2>2. CASE \A a \in roster : definition[a].there
    <3>1. CASE roster = {}
      BY <2>1, <3>1 DEF ListedWillBeServed
    <3>2. CASE roster # {}
      <4>1. scan' = new /\ new.todo = roster /\ new.found = found
        BY <2>1, <2>2, <3>2
      <4>2. \A a \in roster : found[a] = definition[a]
        BY <1>0
      <4> HIDE DEF new, found
      <4> QED  BY <2>1, <4>1, <4>2 DEF ListedWillBeServed
    <3> QED  BY <3>1, <3>2
  <2>3. CASE ~\A a \in roster : definition[a].there
    BY <2>1, <2>3 DEF ListedWillBeServed, DefinitionsInv, ListedAreDefined
  <2> QED  BY <2>2, <2>3
<1>3. ASSUME NEW a \in AgentIds, RegisterFound(a) PROVE ListedWillBeServed'
  <2> DEFINE later == [scan EXCEPT !.todo = @ \ {a}, !.found[a] = Absent]
  <2>1. /\ scan.stage = "register" /\ a \in scan.todo
        /\ served' = [served EXCEPT ![a] = scan.found[a]]
        /\ endpoint' = [endpoint EXCEPT ![a] = "idle"]
        /\ scan' = IF scan.todo = {a} THEN ScanOver ELSE later
        /\ UNCHANGED <<roster, definition, requested, removal, clobbered, owed, dropped>>
    BY <1>3 DEF RegisterFound
  <2>2. /\ later.todo = scan.todo \ {a}
        /\ \A b \in AgentIds \ {a} : later.found[b] = scan.found[b]
    BY <1>0 DEF Scans
  <2> HIDE DEF later
  <2>3. /\ a \notin scan'.todo /\ scan.todo \ {a} = scan'.todo
        /\ \A b \in scan'.todo \cap AgentIds : scan'.found[b] = scan.found[b]
    BY <1>0, <2>1, <2>2
  <2>4. \A b : ScanIsDue(b) => ScanIsDue(b)'
    BY <2>1 DEF ScanIsDue
  <2>5. \A t \in ToolTurns, b \in AgentIds : RemovedBy(t, b) => RemovedBy(t, b)'
    BY <2>1 DEF RemovedBy, UnderWay
  <2>6. served'[a] = scan.found[a] /\ endpoint'[a] \in Woken
    BY <1>0, <2>1 DEF Woken
  <2>7. \A b \in AgentIds \ {a} : served'[b] = served[b] /\ endpoint'[b] = endpoint[b]
    BY <1>0, <2>1
  <2>8. ASSUME ~clobbered, ~dropped, NEW b \in roster
        PROVE  \/ ScanIsDue(b)'
               \/ \E t \in ToolTurns : RemovedBy(t, b)'
               \/ IF b \in scan'.todo THEN scan'.found[b] = definition'[b]
                  ELSE endpoint'[b] \in Woken /\ served'[b] = definition'[b]
    <3>1. \/ ScanIsDue(b)
          \/ \E t \in ToolTurns : RemovedBy(t, b)
          \/ IF b \in scan.todo THEN scan.found[b] = definition[b]
             ELSE endpoint[b] \in Woken /\ served[b] = definition[b]
      BY <1>0, <2>8
    <3>2. CASE b = a
      BY <1>0, <2>1, <2>3, <2>4, <2>5, <2>6, <3>1, <3>2
    <3>3. CASE b # a
      BY <1>0, <2>1, <2>3, <2>4, <2>5, <2>7, <3>1, <3>3
    <3> QED  BY <3>2, <3>3
  <2> QED  BY <2>1, <2>8 DEF ListedWillBeServed
<1>4. ASSUME NEW a \in AgentIds, ActorWorks(a) \/ ActorPauses(a) PROVE ListedWillBeServed'
  <2>1. \A b \in AgentIds : endpoint[b] \in Woken => endpoint'[b] \in Woken
    BY <1>0, <1>4 DEF ActorWorks, ActorPauses, Woken
  <2>2. UNCHANGED <<roster, definition, served, requested, scan, removal, clobbered, owed,
                    dropped>>
    BY <1>4 DEF ActorWorks, ActorPauses
  <2> QED  BY <1>0, <2>1, <2>2 DEF ListedWillBeServed, ScanIsDue, RemovedBy, UnderWay
<1>5. CASE BridgeEnds
  <2>1. scan' = [ScanOver EXCEPT !.stage = "listed"]
    BY <1>5 DEF BridgeEnds
  <2> QED  BY <1>0, <2>1 DEF ListedWillBeServed, ScanIsDue
<1>6. ASSUME NEW a \in AgentIds,
             /\ owed' = owed \cup {a}
             /\ \A b \in AgentIds \ {a} : definition'[b] = definition[b]
             /\ UNCHANGED <<roster, endpoint, served, requested, scan, removal, clobbered,
                            dropped>>
      PROVE  ListedWillBeServed'
  BY <1>0, <1>6 DEF ListedWillBeServed, ScanIsDue, RemovedBy, UnderWay
<1>7. CASE SaveArrives
  <2>1. PICK w \in save :
          /\ definition' = [definition EXCEPT ![w.agent] = w.contents]
          /\ owed' = owed \cup {w.agent}
          /\ UNCHANGED <<roster, endpoint, served, requested, scan, removal, clobbered, dropped>>
    BY <1>7 DEF SaveArrives
  <2>2. w.agent \in AgentIds
    BY <1>0 DEF Saves
  <2> QED  BY <1>0, <1>6, <2>1, <2>2
<1>8. ASSUME NEW a \in AgentIds, SubmitForm(a) PROVE ListedWillBeServed'
  BY <1>0, <1>6, <1>8 DEF SubmitForm
<1>9. CASE RenameActor
  <2>1. /\ inspector.phase # "closed"
        /\ endpoint' = [endpoint EXCEPT ![inspector.agent] = inspector.row]
        /\ UNCHANGED <<roster, definition, served, requested, scan, removal, clobbered, owed,
                       dropped>>
    BY <1>9 DEF RenameActor
  <2>2. inspector.row \in Woken
    BY <2>1 DEF DefinitionsInv, WindowAndRows
  <2> QED  BY <1>0, <2>1, <2>2 DEF ListedWillBeServed, ScanIsDue, RemovedBy, UnderWay
<1>10. CASE UNCHANGED <<roster, definition, endpoint, served, requested, scan, removal, clobbered,
                        owed, dropped>>
  BY <1>0, <1>10 DEF ListedWillBeServed, ScanIsDue, RemovedBy, UnderWay
<1> QED  BY <1>1, <1>2, <1>3, <1>4, <1>5, <1>7, <1>8, <1>9, <1>10, ToolsLeaveListedServed
         DEF DefinitionsNext, OpenDefinition, CloseInspector, LoadDefinition, SaveDefinition,
             SaveFails, EditDraft

\* What a scan read of an actor being removed is what a later put back restores.
LEMMA RestoredStayServed ==
    ASSUME DefinitionsInv, DefinitionsNext PROVE RestoredWillBeServed'
<1>0. /\ roster \subseteq AgentIds /\ removal \in [ToolTurns -> Removals] /\ scan \in Scans
      /\ owed \subseteq AgentIds /\ requested \in BOOLEAN /\ clobbered \in BOOLEAN
      /\ dropped \in BOOLEAN /\ save \subseteq Saves
      /\ \A t \in ToolTurns : removal[t].agent \in AgentIds
      /\ NoRemoval.stage = "idle" /\ ScanOver.todo = {}
      /\ scan.stage # "register" => scan.todo = {}
      /\ [ScanOver EXCEPT !.stage = "listed"].todo = {}
      /\ ~clobbered /\ ~dropped => \A t \in ToolTurns :
            /\ UnderWay(t)
            /\ removal[t].agent \notin roster
            /\ removal[t].agent \in scan.todo
            => \/ ScanIsDue(removal[t].agent)
               \/ \E u \in ToolTurns \ {t} : RemovedBy(u, removal[t].agent)
               \/ scan.found[removal[t].agent] = removal[t].file
  BY TypesOneByOne
     DEF DefinitionsInv, DefinitionsTyped, RestoredWillBeServed, WindowAndRows, Removals,
         NoRemoval, ScanOver
<1>9. \A t \in ToolTurns : removal'[t].agent \in AgentIds
  <2>1. DefinitionsTyped
    BY TypesOneByOne DEF DefinitionsInv
  <2>2. DefinitionsTyped'
    BY <2>1, ToolTypes, BridgeTypes, WindowTypes DEF DefinitionsNext
  <2> QED  BY <2>2 DEF DefinitionsTyped, Removals
<1>1. ASSUME NEW a \in AgentIds, CreateActor(a) \/ \E p \in Parts : UpdateActor(a, p)
      PROVE  RestoredWillBeServed'
  <2>1. /\ AskScan(a) /\ roster \subseteq roster'
        /\ UNCHANGED <<scan, removal, clobbered, dropped>>
    BY <1>1 DEF CreateActor, UpdateActor
  <2>2. \A b : ScanIsDue(b) => ScanIsDue(b)'
    BY <1>0, <2>1, AskedScanIsDue
  <2> QED  BY <1>0, <2>1, <2>2 DEF RestoredWillBeServed, RemovedBy, UnderWay
<1>2. ASSUME NEW t \in ToolTurns, NEW a \in AgentIds, StartRemoval(t, a)
      PROVE  RestoredWillBeServed'
  <2>1. /\ removal[t].stage = "idle" /\ a \in roster
        /\ \A u \in ToolTurns \ {t} : removal'[u] = removal[u]
        /\ roster' = roster \ {a}
        /\ UNCHANGED <<requested, scan, clobbered, owed, dropped>>
    BY <1>0, <1>2 DEF StartRemoval
  <2>2. /\ removal'[t].stage = "sent" /\ removal'[t].agent = a
        /\ removal'[t].file = definition[a]
    BY <1>0, <1>2 DEF StartRemoval
  <2>3. \A b : ScanIsDue(b) => ScanIsDue(b)'
    BY <2>1 DEF ScanIsDue
  <2>4. ASSUME NEW u \in ToolTurns, NEW b, RemovedBy(u, b) PROVE u # t /\ RemovedBy(u, b)'
    BY <2>1, <2>4 DEF RemovedBy, UnderWay
  <2>5. RemovedBy(t, a)'
    BY <2>2 DEF RemovedBy, UnderWay
  <2>6. ASSUME ~clobbered, ~dropped, NEW u \in ToolTurns, UnderWay(u)',
               NEW b \in AgentIds \ roster', removal'[u].agent = b, b \in scan.todo
        PROVE  \/ ScanIsDue(b)'
               \/ \E v \in ToolTurns \ {u} : RemovedBy(v, b)'
               \/ scan.found[b] = removal'[u].file
    <3>1. CASE u = t
      <4>1. \/ ScanIsDue(a)
            \/ \E v \in ToolTurns : RemovedBy(v, a)
            \/ scan.found[a] = definition[a]
        BY <2>1, <2>2, <2>6, <3>1 DEF DefinitionsInv, ListedWillBeServed
      <4> QED  BY <2>2, <2>3, <2>4, <2>6, <3>1, <4>1
    <3>2. CASE u # t /\ removal[u].agent = a
      BY <2>1, <2>5, <2>6, <3>2
    <3>3. CASE u # t /\ removal[u].agent # a
      <4>1. UnderWay(u) /\ removal'[u] = removal[u] /\ removal[u].agent \notin roster
        BY <2>1, <2>6, <3>3 DEF UnderWay
      <4> QED  BY <1>0, <2>1, <2>3, <2>4, <2>6, <4>1
    <3> QED  BY <3>1, <3>2, <3>3
  <2> QED  BY <1>9, <2>1, <2>6 DEF RestoredWillBeServed
<1>3. ASSUME NEW t \in ToolTurns, RetireEndpoint(t) \/ RetireFails(t)
      PROVE  RestoredWillBeServed'
  <2>1. /\ removal[t].stage = "sent"
        /\ \A u \in ToolTurns \ {t} : removal'[u] = removal[u]
        /\ removal'[t].agent = removal[t].agent /\ removal'[t].file = removal[t].file
        /\ removal'[t].stage \in {"done", "refused"}
        /\ UNCHANGED <<roster, requested, scan, clobbered, owed, dropped>>
    BY <1>0, <1>3 DEF RetireEndpoint, RetireFails, Answered, Removals
  <2>2. \A u \in ToolTurns : /\ removal'[u].agent = removal[u].agent
                             /\ removal'[u].file = removal[u].file
                             /\ UnderWay(u)' <=> UnderWay(u)
    BY <2>1 DEF UnderWay
  <2>3. /\ \A b : ScanIsDue(b) => ScanIsDue(b)'
        /\ \A u \in ToolTurns, b \in AgentIds : RemovedBy(u, b) => RemovedBy(u, b)'
    BY <2>1, <2>2 DEF ScanIsDue, RemovedBy
  <2> QED  BY <1>0, <2>1, <2>2, <2>3 DEF RestoredWillBeServed
<1>4. ASSUME NEW t \in ToolTurns, FinishRemoval(t) PROVE RestoredWillBeServed'
  <2>0. PICK a \in AgentIds : a = removal[t].agent
    BY <1>0
  <2>1. /\ \A u \in ToolTurns \ {t} : removal'[u] = removal[u]
        /\ removal'[t] = NoRemoval /\ AskScan(a)
        /\ UNCHANGED <<roster, scan, clobbered, dropped>>
    BY <1>0, <2>0, <1>4 DEF FinishRemoval
  <2>2. ScanIsDue(a)' /\ \A b : ScanIsDue(b) => ScanIsDue(b)'
    BY <1>0, <2>0, <2>1, AskedScanIsDue
  <2>3. ASSUME NEW u \in ToolTurns, NEW b, RemovedBy(u, b), b # a PROVE RemovedBy(u, b)'
    BY <2>0, <2>1, <2>3 DEF RemovedBy, UnderWay
  <2>4. ASSUME ~clobbered, ~dropped, NEW u \in ToolTurns, UnderWay(u)',
               NEW b \in AgentIds \ roster, removal'[u].agent = b, b \in scan.todo
        PROVE  \/ ScanIsDue(b)'
               \/ \E v \in ToolTurns \ {u} : RemovedBy(v, b)'
               \/ scan.found[b] = removal'[u].file
    <3>1. u # t /\ removal'[u] = removal[u] /\ UnderWay(u)
      BY <1>0, <2>0, <2>1, <2>4 DEF UnderWay
    <3>2. CASE removal[u].agent = a
      BY <2>2, <2>4, <3>1, <3>2
    <3>3. CASE removal[u].agent # a
      BY <1>0, <2>0, <2>1, <2>2, <2>3, <2>4, <3>1, <3>3
    <3> QED  BY <2>0, <3>2, <3>3
  <2> QED  BY <1>9, <2>0, <2>1, <2>4 DEF RestoredWillBeServed
<1>5. ASSUME NEW t \in ToolTurns, PutBack(t) PROVE RestoredWillBeServed'
  <2>0. PICK a \in AgentIds : a = removal[t].agent
    BY <1>0
  <2>1. /\ removal[t].stage = "refused" /\ removal'[t] = NoRemoval
        /\ \A u \in ToolTurns \ {t} : removal'[u] = removal[u]
        /\ roster' = removal[t].list /\ clobbered' = (clobbered \/ roster # removal[t].list \ {a})
        /\ owed \subseteq owed' /\ UNCHANGED <<requested, scan, dropped>>
    BY <1>0, <2>0, <1>5 DEF PutBack, PutsBack
  <2>2. a \in removal[t].list
    BY <2>0, <2>1 DEF DefinitionsInv, RemovalsKeep, UnderWay
  <2>3. \A b : ScanIsDue(b) => ScanIsDue(b)'
    BY <2>0, <2>1 DEF ScanIsDue
  <2>4. ASSUME NEW u \in ToolTurns, NEW b, RemovedBy(u, b), b # a PROVE RemovedBy(u, b)'
    BY <2>0, <2>1, <2>4 DEF RemovedBy, UnderWay
  <2>5. ASSUME ~clobbered', ~dropped, NEW u \in ToolTurns, UnderWay(u)',
               NEW b \in AgentIds \ roster', removal'[u].agent = b, b \in scan.todo
        PROVE  \/ ScanIsDue(b)'
               \/ \E v \in ToolTurns \ {u} : RemovedBy(v, b)'
               \/ scan.found[b] = removal'[u].file
    <3>1. u # t /\ removal'[u] = removal[u] /\ UnderWay(u)
      BY <1>0, <2>0, <2>1, <2>5 DEF UnderWay
    <3>2. removal[u].agent # a /\ removal[u].agent \notin roster /\ ~clobbered
      BY <2>0, <2>1, <2>2, <2>5, <3>1
    <3> QED  BY <1>0, <2>0, <2>1, <2>3, <2>4, <2>5, <3>1, <3>2
  <2> QED  BY <1>9, <2>0, <2>1, <2>5 DEF RestoredWillBeServed
<1>6. CASE HearRequest \/ ReadProject \/ BridgeEnds
  <2>1. CASE scan'.todo = {}
    BY <2>1 DEF RestoredWillBeServed
  <2>2. CASE scan'.todo # {}
    <3>1. CASE HearRequest
      <4>1. dropped' = TRUE
        BY <1>0, <2>2, <3>1 DEF HearRequest
      <4> QED  BY <4>1 DEF RestoredWillBeServed
    <3>2. CASE ReadProject
      <4>1. scan'.todo = roster /\ roster' = roster /\ removal' = removal
        BY <1>0, <2>2, <3>2 DEF ReadProject
      <4> QED  BY <4>1 DEF RestoredWillBeServed
    <3>3. CASE BridgeEnds
      BY <1>0, <2>2, <3>3 DEF BridgeEnds
    <3> QED  BY <1>6, <3>1, <3>2, <3>3
  <2> QED  BY <2>1, <2>2
<1>7. ASSUME NEW a \in AgentIds, RegisterFound(a) PROVE RestoredWillBeServed'
  <2> DEFINE later == [scan EXCEPT !.todo = @ \ {a}, !.found[a] = Absent]
  <2>1. /\ scan.stage = "register" /\ scan' = IF scan.todo = {a} THEN ScanOver ELSE later
        /\ UNCHANGED <<roster, requested, removal, clobbered, owed, dropped>>
    BY <1>7 DEF RegisterFound
  <2>2. /\ later.todo = scan.todo \ {a} /\ later.stage = scan.stage
        /\ \A b \in AgentIds \ {a} : later.found[b] = scan.found[b]
    BY <1>0 DEF Scans
  <2> HIDE DEF later
  <2>3. \A b \in scan'.todo \cap AgentIds : b \in scan.todo /\ scan'.found[b] = scan.found[b]
    BY <1>0, <2>1, <2>2
  <2>4. \A b : ScanIsDue(b) => ScanIsDue(b)'
    BY <2>1 DEF ScanIsDue
  <2> QED  BY <1>0, <2>1, <2>3, <2>4 DEF RestoredWillBeServed, RemovedBy, UnderWay
<1>8. ASSUME owed \subseteq owed',
             UNCHANGED <<roster, requested, scan, removal, clobbered, dropped>>
      PROVE  RestoredWillBeServed'
  BY <1>0, <1>8 DEF RestoredWillBeServed, ScanIsDue, RemovedBy, UnderWay
<1> QED  BY <1>1, <1>2, <1>3, <1>4, <1>5, <1>6, <1>7, <1>8
         DEF DefinitionsNext, ActorWorks, ActorPauses, OpenDefinition, SubmitForm,
             CloseInspector, LoadDefinition, SaveDefinition, SaveArrives, SaveFails, RenameActor,
             EditDraft

-----------------------------------------------------------------------------
(* Actors' definitions: the theorems                                       *)

LEMMA DefinitionsBegin == DefinitionsInit => DefinitionsInv
<1> SUFFICES ASSUME DefinitionsInit PROVE DefinitionsInv
  OBVIOUS
<1>1. /\ roster = Founders /\ Founders \subseteq AgentIds
      /\ definition = [a \in AgentIds |-> IF a \in Founders THEN Written(0) ELSE Absent]
      /\ endpoint = [a \in AgentIds |-> IF a \in Founders THEN "idle" ELSE "none"]
      /\ served = definition /\ meant = definition
      /\ requested = FALSE /\ scan = ScanOver
      /\ removal = [t \in ToolTurns |-> NoRemoval]
      /\ inspector = Closed /\ save = {}
      /\ raced = {} /\ clobbered = FALSE /\ orphaned = {} /\ owed = {} /\ dropped = FALSE
      /\ changes = 0 /\ savesMade = 0 /\ faults = 0
  BY DefinitionsAssumption DEF DefinitionsInit
<1>2. /\ 0 \in 0..MaxChanges /\ 0 \in 0..MaxSaves /\ 0 \in 0..MaxDefinitionFaults
      /\ Written(0) \in Definitions /\ Absent \in Definitions
  <2>1. MaxChanges \in Nat /\ MaxSaves \in Nat /\ MaxDefinitionFaults \in Nat
    BY DefinitionsAssumption
  <2> QED  BY <2>1, DefinitionConstants DEF Written, Definitions, ChangeNumbers
<1>3. /\ definition \in [AgentIds -> Definitions]
      /\ endpoint \in [AgentIds -> EndpointStatuses]
  BY <1>1, <1>2 DEF EndpointStatuses
<1>4. DefinitionsTypeOK
  <2>1. DefinitionsTyped
    BY <1>1, <1>2, <1>3, DefinitionConstants DEF DefinitionsTyped
  <2> QED  BY <2>1, TypesOneByOne
<1>5. \A t \in ToolTurns : ~UnderWay(t)
  BY <1>1 DEF UnderWay, NoRemoval
<1>6. WindowAndRows
  BY <1>1 DEF WindowAndRows, Closed, ScanOver
<1>7. ListedAreDefined /\ ChangesAreKept
  BY <1>1 DEF ListedAreDefined, ChangesAreKept, Written
<1>8. WokenAreListed /\ ListedWillBeServed
  BY <1>1 DEF WokenAreListed, ListedWillBeServed, Woken, ScanOver
<1> QED  BY <1>4, <1>5, <1>6, <1>7, <1>8
         DEF DefinitionsInv, RemovalsKeep, RestoredWillBeServed

LEMMA DefinitionsGoOn == DefinitionsInv /\ [DefinitionsNext]_defVars => DefinitionsInv'
<1> SUFFICES ASSUME DefinitionsInv, [DefinitionsNext]_defVars PROVE DefinitionsInv'
  OBVIOUS
<1>1. CASE DefinitionsNext
  <2>1. DefinitionsTyped
    BY TypesOneByOne DEF DefinitionsInv
  <2>2. DefinitionsTyped'
    BY <1>1, <2>1, ToolTypes, BridgeTypes, WindowTypes DEF DefinitionsNext
  <2>3. DefinitionsTypeOK'
    BY <2>2, TypesOneByOne, PTL
  <2> QED  BY <1>1, <2>3, WindowAndRowsStay, RemovalsGoOnKeeping, ListedStayDefined,
              ChangesStayKept, WokenStayListed, ListedStayServed, RestoredStayServed
           DEF DefinitionsInv
<1>2. CASE UNCHANGED defVars
  BY <1>2 DEF defVars, DefinitionsInv, DefinitionsTypeOK, WindowAndRows, RemovalsKeep,
              ListedAreDefined, ChangesAreKept, WokenAreListed, ListedWillBeServed,
              RestoredWillBeServed, UnderWay, RemovedBy, NotYetRetired, ScanIsDue
<1> QED  BY <1>1, <1>2

\* The variables keep their types.
THEOREM DefinitionsTypeCorrect == DefinitionsSpec => []DefinitionsTypeOK
<1>1. DefinitionsInv => DefinitionsTypeOK
  BY DEF DefinitionsInv
<1> QED  BY <1>1, DefinitionsBegin, DefinitionsGoOn, PTL DEF DefinitionsSpec

\* The list, the files, the endpoints and what the bridge runs the actors with agree, but for
\* the races the history variables record (actor-tools.ts, project.ts, ActorInspector.tsx).
THEOREM DefinitionsStayTrue == DefinitionsSpec => []DefinitionsAreTrue
<1>1. DefinitionsInv => DefinitionsAreTrue
  <2> SUFFICES ASSUME DefinitionsInv PROVE DefinitionsAreTrue
    OBVIOUS
  <2>1. ListedAreDefined /\ ChangesAreKept
    BY DEF DefinitionsInv
  <2>2. ActiveAreListed
    BY DEF DefinitionsInv, WokenAreListed, NotYetRetired, Woken, ActiveAreListed, AtRest
  <2>3. ASSUME AtRest, ~clobbered, ~dropped, NEW a \in roster \ owed
        PROVE  endpoint[a] \in {"idle", "running"} /\ served[a] = definition[a]
    <3>1. ~ScanIsDue(a) /\ \A t \in ToolTurns : ~RemovedBy(t, a)
      BY <2>3 DEF AtRest, ScanIsDue, RemovedBy, UnderWay
    <3>2. a \notin scan.todo
      BY <2>3 DEF AtRest, DefinitionsInv, WindowAndRows
    <3> QED  BY <2>3, <3>1, <3>2 DEF DefinitionsInv, ListedWillBeServed, Woken
  <2>4. ListedAreServed
    BY <2>3 DEF ListedAreServed
  <2> QED  BY <2>1, <2>2, <2>4 DEF DefinitionsAreTrue
<1> QED  BY <1>1, DefinitionsBegin, DefinitionsGoOn, PTL DEF DefinitionsSpec

-----------------------------------------------------------------------------
(* The conversation view                                                   *)

LEMMA NumbersHaveEnds ==
    ASSUME NEW S, S \subseteq Nat, S # {}, NEW last \in Nat, \A s \in S : s <= last
    PROVE  /\ IsFiniteSet(S)
           /\ Max(S) \in S /\ \A s \in S : s <= Max(S)
           /\ Min(S) \in S /\ \A s \in S : Min(S) <= s
<1> DEFINE spots == {<<s, 0>> : s \in S}
<1>1. IsFiniteSet(S)
  BY FS_BoundedSetOfNaturals
<1>2. spots \subseteq Spots /\ spots # {} /\ IsFiniteSet(spots)
  <2> DEFINE f == [s \in S |-> <<s, 0>>]
  <2>1. spots \subseteq Spots /\ spots # {}
    <3>1. \A s \in S : <<s, 0>> \in Nat \X Nat
      OBVIOUS
    <3>2. PICK s \in S : TRUE
      OBVIOUS
    <3>3. <<s, 0>> \in spots
      OBVIOUS
    <3> QED  BY <3>1, <3>3 DEF Spots
  <2>2. f \in Surjection(S, spots)
    BY DEF Surjection
  <2> QED  BY <1>1, <2>1, <2>2, FS_Surjection
<1>3. /\ EndOf(spots) \in spots /\ \A y \in spots : y = EndOf(spots) \/ Before(y, EndOf(spots))
      /\ StartOf(spots) \in spots
      /\ \A y \in spots : y = StartOf(spots) \/ Before(StartOf(spots), y)
  BY <1>2, PageHasEnds
<1>4. PICK top \in S : EndOf(spots) = <<top, 0>>
  BY <1>3
<1>5. PICK low \in S : StartOf(spots) = <<low, 0>>
  BY <1>3
<1>6. \A s \in S : s <= top /\ low <= s
  <2> SUFFICES ASSUME NEW s \in S PROVE s <= top /\ low <= s
    OBVIOUS
  <2>1. <<s, 0>> \in spots
    OBVIOUS
  <2>2. <<s, 0>> = <<top, 0>> \/ Before(<<s, 0>>, <<top, 0>>)
    BY <1>3, <1>4, <2>1
  <2>3. <<s, 0>> = <<low, 0>> \/ Before(<<low, 0>>, <<s, 0>>)
    BY <1>3, <1>5, <2>1
  <2> QED  BY <2>2, <2>3 DEF Before
<1>7. \A s \in S : top >= s
  BY <1>6
<1>8. Max(S) \in S /\ \A s \in S : Max(S) >= s
  BY <1>7 DEF Max
<1>9. Min(S) \in S /\ \A s \in S : Min(S) <= s
  BY <1>6 DEF Min
<1> QED  BY <1>1, <1>8, <1>9

LoadSlots == [on : BOOLEAN, fresh : BOOLEAN, page : SUBSET Messages, answered : BOOLEAN,
              works : Turns]
FeedItems == [type : {"event", "started", "failed", "turn end"}, id : Turns]
Composers == [stage : {"idle", "sending", "taken"}, copies : 0..MaxMessages, unsure : BOOLEAN]

\* Only the first load may be fresh, and while it is under way there is nothing to scroll to;
\* what the bus answered are the newest messages of some moment.
LoadsInv ==
    \A n \in 1..MaxLoads : load[n].on =>
        /\ load[n].fresh => n = 1 /\ cursor = 0 /\ earlier.stage = "idle"
        /\ load[n].answered =>
              \E k \in 0..MaxMessages : load[n].page = Newest(HistoryPage, k + 1)

\* The earlier page is the one before the oldest message there is a cursor for.
EarlierInv ==
    /\ earlier.stage # "idle" => cursor # 0
    /\ earlier.stage = "answered" => earlier.page = Newest(HistoryPage, cursor)

\* Without failures, what the feed says last is what the bus does.
SaysNow(m) == \/ m.type = "started" /\ delivery = [id |-> m.id, state |-> "active"]
              \/ m.type = "turn end" /\ delivery.state # "active"
IsLast(i, messagesOfFeed) ==
    /\ messagesOfFeed[i].type # "event"
    /\ \A k \in DOMAIN messagesOfFeed : k > i => messagesOfFeed[k].type = "event"
StreamInv ==
    viewFaults = 0 =>
        /\ feedOpen /\ ~offline
        /\ \A i \in DOMAIN feed : IsLast(i, feed) => SaysNow(feed[i])
        /\ ~overtaken /\ (\A i \in DOMAIN feed : feed[i].type = "event") => working = WorksNow

\* A text the view is sure about was taken once, or is not taken yet.
ComposerInv ==
    /\ ~composer.unsure => composer.copies = IF composer.stage = "taken" THEN 1 ELSE 0
    /\ composer.copies <= messages

ViewInv ==
    /\ ViewTypeOK /\ LoadsInv /\ EarlierInv /\ NothingIsOutOfReach /\ StreamInv /\ ComposerInv

LEMMA ViewConstants ==
    /\ HistoryPage \in Nat /\ HistoryPage # 0 /\ MaxMessages \in Nat /\ MaxTurns \in Nat
    /\ MaxLoads \in Nat /\ 1 \in 1..MaxLoads /\ MaxViewFaults \in Nat
    /\ 0 \in Turns /\ Turns \subseteq Nat /\ Messages \subseteq Nat
    /\ \A S \in SUBSET Messages : \A m \in S : m <= MaxMessages
    /\ NoLoad \in LoadSlots /\ ~NoLoad.on /\ ~NoLoad.fresh /\ ~NoLoad.answered
    /\ [NoLoad EXCEPT !.on = TRUE] \in LoadSlots
    /\ \A c \in LoadSlots : [NoLoad EXCEPT !.on = TRUE] = c => c.on /\ ~c.fresh /\ ~c.answered
<1>1. /\ HistoryPage \in Nat /\ HistoryPage # 0 /\ MaxMessages \in Nat /\ MaxTurns \in Nat
      /\ MaxLoads \in Nat /\ 1 \in 1..MaxLoads /\ MaxViewFaults \in Nat
      /\ 0 \in Turns /\ Turns \subseteq Nat /\ Messages \subseteq Nat
  BY ViewAssumption DEF Turns, Messages
<1>2. \A S \in SUBSET Messages : \A m \in S : m <= MaxMessages
  BY ViewAssumption DEF Messages
<1>3. NoLoad \in LoadSlots /\ ~NoLoad.on /\ ~NoLoad.fresh /\ ~NoLoad.answered
  BY <1>1 DEF NoLoad, LoadSlots
<1>4. [NoLoad EXCEPT !.on = TRUE] \in LoadSlots
      /\ [NoLoad EXCEPT !.on = TRUE].on /\ ~[NoLoad EXCEPT !.on = TRUE].fresh
      /\ ~[NoLoad EXCEPT !.on = TRUE].answered
  BY <1>1 DEF NoLoad, LoadSlots
<1> QED  BY <1>1, <1>2, <1>3, <1>4

\* A page of the newest messages is everything up to them, or what it leaves out is older
\* than all it has.
LEMMA NewestIsWhole ==
    ASSUME NEW n \in 0..MaxMessages, NEW page, page = Newest(HistoryPage, n + 1)
    PROVE  /\ page \subseteq Messages /\ \A m \in page : m <= n
           /\ Cardinality(page) # HistoryPage => \A m \in 1..n : m \in page
           /\ Cardinality(page) = HistoryPage => page # {}
           /\ page # {} => /\ Min(page) \in page /\ \A m \in page : Min(page) <= m
                           /\ \A m \in 1..n : m \in page \/ m < Min(page)
           /\ page = {} => n = 0
<1>1. n \in Nat /\ n <= MaxMessages /\ HistoryPage \in Nat /\ HistoryPage # 0 /\ MaxMessages \in Nat
  BY ViewConstants
<1>2. /\ page \subseteq 1..n /\ \A m \in 1..n : m >= n + 1 - HistoryPage <=> m \in page
  BY <1>1 DEF Newest
<1>3. Cardinality(page) # HistoryPage => \A m \in 1..n : m \in page
  <2> SUFFICES ASSUME n >= HistoryPage PROVE Cardinality(page) = HistoryPage
    BY <1>1, <1>2
  <2>1. page = (n + 1 - HistoryPage)..n
    <3> DEFINE a == n + 1 - HistoryPage
    <3>1. a \in Int /\ a >= 1
      BY <1>1
    <3>2. ASSUME NEW m \in page PROVE m \in a..n
      BY <1>1, <1>2, <3>1, <3>2
    <3>3. ASSUME NEW m \in a..n PROVE m \in page
      <4>1. m \in 1..n /\ m >= a
        BY <1>1, <3>1, <3>3
      <4> QED  BY <1>2, <4>1
    <3> HIDE DEF a
    <3>4. page = a..n
      BY <3>2, <3>3
    <3> QED  BY <3>4 DEF a
  <2>2. Cardinality((n + 1 - HistoryPage)..n) =
            IF n + 1 - HistoryPage > n THEN 0 ELSE n - (n + 1 - HistoryPage) + 1
    BY <1>1, FS_Interval
  <2> QED  BY <1>1, <2>1, <2>2
<1>4. Cardinality(page) = HistoryPage => page # {}
  BY <1>1, FS_EmptySet
<1>5. page # {} => /\ Min(page) \in page /\ \A m \in page : Min(page) <= m
                   /\ \A m \in 1..n : m \in page \/ m < Min(page)
  <2> SUFFICES ASSUME page # {}
               PROVE  /\ Min(page) \in page /\ \A m \in page : Min(page) <= m
                      /\ \A m \in 1..n : m \in page \/ m < Min(page)
    OBVIOUS
  <2>1. page \subseteq Nat /\ \A m \in page : m <= n
    BY <1>1, <1>2
  <2>2. Min(page) \in page /\ \A m \in page : Min(page) <= m
    BY <1>1, <2>1, NumbersHaveEnds
  <2>3. ASSUME NEW m \in 1..n, m \notin page PROVE m < Min(page)
    BY <1>1, <1>2, <2>1, <2>2, <2>3
  <2> QED  BY <2>2, <2>3
<1>6. page = {} => n = 0
  <2> SUFFICES ASSUME n # 0 PROVE n \in page
    BY <1>1
  <2> QED  BY <1>1, <1>2
<1> QED  BY <1>1, <1>2, <1>3, <1>4, <1>5, <1>6 DEF Messages

LEMMA LatestIs ==
    ASSUME NEW S \in SUBSET Messages
    PROVE  /\ Max(S \cup {0}) \in S \cup {0} /\ Max(S \cup {0}) \in 0..MaxMessages
           /\ \A m \in S : m <= Max(S \cup {0})
<1>1. S \cup {0} \subseteq Nat /\ S \cup {0} # {} /\ MaxMessages \in Nat
      /\ \A s \in S \cup {0} : s <= MaxMessages
  BY ViewConstants DEF Messages
<1>2. Max(S \cup {0}) \in S \cup {0} /\ \A s \in S \cup {0} : s <= Max(S \cup {0})
  BY <1>1, NumbersHaveEnds
<1> QED  BY <1>1, <1>2

LEMMA RefreshBegins ==
    ASSUME ViewTypeOK, Refreshing
    PROVE  /\ load' \in [1..MaxLoads -> LoadSlots]
           /\ \A n \in 1..MaxLoads : load'[n] = load[n] \/ (load'[n].on /\ ~load'[n].fresh
                                                            /\ ~load'[n].answered)
           /\ \A n \in 1..MaxLoads : load[n].on => load'[n] = load[n]
           /\ view' \in {"loading", "ready", "error"}
<1> DEFINE free == {n \in 1..MaxLoads : ~load[n].on}
           new == [NoLoad EXCEPT !.on = TRUE]
<1>1. free # {} /\ load' = [load EXCEPT ![Min(free)] = new]
      /\ view' = IF view = "error" THEN "ready" ELSE view
  BY DEF Refreshing
<1>2. Min(free) \in free
  <2>1. free \subseteq Nat /\ \A n \in free : n <= MaxLoads
    BY ViewConstants
  <2> HIDE DEF free
  <2> QED  BY <1>1, <2>1, NumbersHaveEnds, ViewConstants
<1>3. new \in LoadSlots /\ new.on /\ ~new.fresh /\ ~new.answered
  BY ViewConstants
<1> HIDE DEF new
<1>4. load \in [1..MaxLoads -> LoadSlots] /\ view \in {"loading", "ready", "error"}
  BY DEF ViewTypeOK, LoadSlots
<1> QED  BY <1>1, <1>2, <1>3, <1>4

\* What is appended to the feed is the last it says, or leaves the last as it was.
LEMMA FeedGrows ==
    ASSUME NEW s \in Seq(FeedItems), NEW m \in FeedItems
    PROVE  /\ Append(s, m) \in Seq(FeedItems)
           /\ \A i \in DOMAIN Append(s, m) : IsLast(i, Append(s, m)) =>
                 \/ m.type # "event" /\ Append(s, m)[i] = m
                 \/ i \in DOMAIN s /\ IsLast(i, s) /\ m.type = "event" /\ Append(s, m)[i] = s[i]
           /\ (\A i \in DOMAIN Append(s, m) : Append(s, m)[i].type = "event") =>
                 m.type = "event" /\ \A i \in DOMAIN s : s[i].type = "event"
<1>1. /\ Append(s, m) \in Seq(FeedItems) /\ DOMAIN Append(s, m) = 1..(Len(s) + 1)
      /\ Append(s, m)[Len(s) + 1] = m /\ \A i \in 1..Len(s) : Append(s, m)[i] = s[i]
      /\ DOMAIN s = 1..Len(s) /\ Len(s) \in Nat
  BY LenProperties, AppendProperties
<1>2. ASSUME NEW i \in DOMAIN Append(s, m), IsLast(i, Append(s, m))
      PROVE  \/ m.type # "event" /\ Append(s, m)[i] = m
             \/ i \in DOMAIN s /\ IsLast(i, s) /\ m.type = "event" /\ Append(s, m)[i] = s[i]
  BY <1>1, <1>2 DEF IsLast
<1> QED  BY <1>1, <1>2

LEMMA FeedShrinks ==
    ASSUME NEW s \in Seq(FeedItems), s # <<>>
    PROVE  /\ Tail(s) \in Seq(FeedItems) /\ Head(s) \in FeedItems /\ 1 \in DOMAIN s /\ Head(s) = s[1]
           /\ \A i \in DOMAIN Tail(s) : i + 1 \in DOMAIN s /\ Tail(s)[i] = s[i + 1]
                                        /\ (IsLast(i, Tail(s)) => IsLast(i + 1, s))
           /\ (\A i \in DOMAIN Tail(s) : Tail(s)[i].type = "event") =>
                 \A i \in DOMAIN s : i # 1 => s[i].type = "event"
<1>1. /\ Tail(s) \in Seq(FeedItems) /\ Head(s) = s[1] /\ s[1] \in FeedItems
      /\ DOMAIN Tail(s) = 1..(Len(s) - 1)
      /\ DOMAIN s = 1..Len(s) /\ Len(s) \in Nat /\ Len(s) # 0
      /\ \A i \in 1..(Len(s) - 1) : Tail(s)[i] = s[i + 1]
  BY LenProperties, HeadTailProperties, ElementOfSeq, EmptySeq
<1>2. ASSUME NEW i \in DOMAIN Tail(s), IsLast(i, Tail(s)) PROVE IsLast(i + 1, s)
  <2> SUFFICES ASSUME NEW k \in DOMAIN s, k > i + 1 PROVE s[k].type = "event"
    BY <1>1, <1>2 DEF IsLast
  <2>1. k - 1 \in DOMAIN Tail(s) /\ k - 1 > i /\ Tail(s)[k - 1] = s[k]
    BY <1>1
  <2> QED  BY <1>2, <2>1 DEF IsLast
<1>3. ASSUME \A i \in DOMAIN Tail(s) : Tail(s)[i].type = "event", NEW i \in DOMAIN s, i # 1
      PROVE  s[i].type = "event"
  <2>1. i - 1 \in DOMAIN Tail(s) /\ Tail(s)[i - 1] = s[i]
    BY <1>1, <1>3
  <2> QED  BY <1>3, <2>1
<1> QED  BY <1>1, <1>2, <1>3

LEMMA ViewAtFirst == ViewInit => ViewInv
<1> SUFFICES ASSUME ViewInit PROVE ViewInv
  OBVIOUS
<1>1. /\ messages \in 0..MaxMessages /\ delivery = [id |-> 0, state |-> "none"]
      /\ feed = <<>> /\ feedOpen = TRUE /\ earlier = [stage |-> "idle", page |-> {}]
      /\ view = "loading" /\ shown = {} /\ cursor = 0 /\ working = 0
      /\ composer = [stage |-> "idle", copies |-> 0, unsure |-> FALSE]
      /\ offline = FALSE /\ skipped = {} /\ reset = "no" /\ overtaken = FALSE /\ viewFaults = 0
  <2>1. messages \in 0..MaxMessages
    <3>1. MaxMessages - 1 \in 0..MaxMessages /\ 0 \in 0..MaxMessages
      BY ViewAssumption
    <3> QED  BY <3>1 DEF ViewInit
  <2> QED  BY <2>1 DEF ViewInit
<1>2. /\ load \in [1..MaxLoads -> LoadSlots]
      /\ \A n \in 1..MaxLoads : load[n].on => n = 1
      /\ \A n \in 1..MaxLoads : ~load[n].answered
  <2> DEFINE first == [NoLoad EXCEPT !.on = TRUE, !.fresh = TRUE]
  <2>1. first \in LoadSlots /\ ~first.answered
    BY ViewConstants DEF NoLoad, LoadSlots
  <2>2. load = [n \in 1..MaxLoads |-> IF n = 1 THEN first ELSE NoLoad]
    BY DEF ViewInit
  <2> HIDE DEF first
  <2> QED  BY <2>1, <2>2, ViewConstants
<1>3. ViewTypeOK
  <2>1. feed \in Seq(FeedItems)
    BY <1>1, EmptySeq
  <2>2. /\ 0 \in Turns /\ 0 \in 0..MaxMessages /\ 0 \in 0..MaxViewFaults
    BY ViewConstants
  <2>3. /\ delivery \in [id : Turns, state : {"none", "active", "ended", "failed"}]
        /\ composer \in Composers
        /\ earlier \in [stage : {"idle", "asked", "answered"}, page : SUBSET Messages]
    BY <1>1, <2>2 DEF Composers
  <2> QED  BY <1>1, <1>2, <2>1, <2>2, <2>3 DEF ViewTypeOK, LoadSlots, FeedItems, Composers
<1>4. LoadsInv /\ EarlierInv
  BY <1>1, <1>2 DEF LoadsInv, EarlierInv
<1>5. NothingIsOutOfReach
  <2>1. Max(shown \cup {0}) = 0
    BY <1>1, LatestIs
  <2> QED  BY <2>1 DEF NothingIsOutOfReach
<1>6. StreamInv /\ ComposerInv
  BY <1>1, EmptySeq, ViewConstants DEF StreamInv, ComposerInv, WorksNow
<1> QED  BY <1>3, <1>4, <1>5, <1>6 DEF ViewInv

LEMMA SightStays ==
    ASSUME ViewInv, UNCHANGED <<load, earlier, shown, cursor, skipped>>
    PROVE  LoadsInv' /\ EarlierInv' /\ NothingIsOutOfReach'
BY DEF ViewInv, LoadsInv, EarlierInv, NothingIsOutOfReach

\* The bus tells what it does, while the stream is open.
LEMMA BusTells ==
    ASSUME ViewInv, NEW m \in FeedItems, feed' = Told(m.type, m.id),
           UNCHANGED <<feedOpen, offline, overtaken, working, viewFaults>>,
           \/ m.type = "event" /\ delivery' = delivery
           \/ m.type # "event" /\ SaysNow(m)'
    PROVE  feed' \in Seq(FeedItems) /\ StreamInv'
<1>1. feed \in Seq(FeedItems)
  BY DEF ViewInv, ViewTypeOK, FeedItems
<1>2. m = [type |-> m.type, id |-> m.id]
  BY DEF FeedItems
<1>3. feed' = IF feedOpen THEN Append(feed, m) ELSE feed
  BY <1>2 DEF Told
<1>4. feed' \in Seq(FeedItems)
  BY <1>1, <1>3, FeedGrows
<1>5. StreamInv'
  <2> SUFFICES ASSUME viewFaults = 0
               PROVE  /\ feedOpen /\ ~offline
                      /\ \A i \in DOMAIN feed' : IsLast(i, feed') => SaysNow(feed[i])'
                      /\ ~overtaken /\ (\A i \in DOMAIN feed' : feed'[i].type = "event") =>
                            working = WorksNow'
    BY DEF StreamInv
  <2>1. feedOpen /\ ~offline /\ feed' = Append(feed, m)
    BY <1>3 DEF ViewInv, StreamInv
  <2>2. ASSUME NEW i \in DOMAIN feed', IsLast(i, feed') PROVE SaysNow(feed[i])'
    <3>1. \/ m.type # "event" /\ feed'[i] = m
          \/ i \in DOMAIN feed /\ IsLast(i, feed) /\ m.type = "event" /\ feed'[i] = feed[i]
      BY <1>1, <2>1, <2>2, FeedGrows
    <3>2. CASE m.type # "event" /\ feed'[i] = m
      BY <3>2 DEF SaysNow
    <3>3. CASE i \in DOMAIN feed /\ IsLast(i, feed) /\ m.type = "event" /\ feed'[i] = feed[i]
      BY <3>3 DEF SaysNow, ViewInv, StreamInv
    <3> QED  BY <3>1, <3>2, <3>3
  <2>3. ASSUME ~overtaken, \A i \in DOMAIN feed' : feed'[i].type = "event"
        PROVE  working = WorksNow'
    <3>1. m.type = "event" /\ \A i \in DOMAIN feed : feed[i].type = "event"
      BY <1>1, <2>1, <2>3, FeedGrows
    <3> QED  BY <2>3, <3>1 DEF WorksNow, ViewInv, StreamInv
  <2> QED  BY <2>1, <2>2, <2>3
<1> QED  BY <1>4, <1>5

LEMMA BusGoesOn ==
    ASSUME ViewInv, Post \/ TurnStarts \/ TurnEnds
    PROVE  ViewInv'
<1>1. /\ UNCHANGED <<feedOpen, composer, viewFaults, load, earlier, view, shown, cursor, working,
                     offline, skipped, reset, overtaken>>
  BY DEF Post, TurnStarts, TurnEnds, BusUnseen
<1>2. LoadsInv' /\ EarlierInv' /\ NothingIsOutOfReach'
  BY <1>1, SightStays
<1>3. /\ delivery' \in [id : Turns, state : {"none", "active", "ended", "failed"}]
      /\ messages' \in 0..MaxMessages /\ messages <= messages'
  <2>1. messages \in 0..MaxMessages /\ MaxMessages \in Nat /\ MaxTurns \in Nat
        /\ delivery \in [id : Turns, state : {"none", "active", "ended", "failed"}]
    BY ViewConstants DEF ViewInv, ViewTypeOK
  <2>2. CASE Post
    BY <2>1, <2>2 DEF Post
  <2>3. CASE TurnStarts
    BY <2>1, <2>3 DEF TurnStarts, Turns
  <2>4. CASE TurnEnds
    <3>1. delivery' \in {[delivery EXCEPT !.state = "ended"], [delivery EXCEPT !.state = "failed"]}
          /\ messages' = messages
      BY <2>4 DEF TurnEnds
    <3> QED  BY <2>1, <3>1
  <2> QED  BY <2>2, <2>3, <2>4
<1>4. ComposerInv'
  <2>1. composer.copies \in Nat /\ messages \in Nat /\ messages' \in Nat
        /\ composer.copies <= messages
    <3>1. /\ messages \in 0..MaxMessages /\ composer.copies \in 0..MaxMessages
          /\ composer.copies <= messages /\ MaxMessages \in Nat
      BY ViewConstants DEF ViewInv, ComposerInv, ViewTypeOK
    <3> QED  BY <1>3, <3>1
  <2>2. composer.copies <= messages'
    BY <1>3, <2>1
  <2> QED  BY <1>1, <2>2 DEF ViewInv, ComposerInv
<1>5. feed' \in Seq(FeedItems) /\ StreamInv'
  <2>1. CASE Post
    <3> DEFINE m == [type |-> "event", id |-> 0]
    <3>1. m \in FeedItems /\ feed' = Told(m.type, m.id) /\ m.type = "event" /\ delivery' = delivery
      BY <2>1, ViewConstants DEF Post, FeedItems
    <3> HIDE DEF m
    <3> QED  BY <1>1, <3>1, BusTells
  <2>2. CASE TurnStarts
    <3>1. delivery' = [id |-> delivery.id + 1, state |-> "active"] /\ delivery.id + 1 \in Turns
          /\ feed' = Told("started", delivery.id + 1)
      BY <1>3, <2>2 DEF TurnStarts
    <3>2. PICK m \in FeedItems : m.type = "started" /\ m.id = delivery.id + 1
      <4>1. [type |-> "started", id |-> delivery.id + 1] \in FeedItems
        BY <3>1 DEF FeedItems
      <4> QED  BY <4>1
    <3>3. SaysNow(m)' /\ feed' = Told(m.type, m.id) /\ m.type # "event"
      BY <3>1, <3>2 DEF SaysNow
    <3> QED  BY <1>1, <3>3, BusTells
  <2>3. CASE TurnEnds
    <3>5. PICK m \in FeedItems : m = [type |-> "turn end", id |-> delivery.id]
      BY DEF FeedItems, ViewInv, ViewTypeOK
    <3>6. PICK f \in FeedItems : f = [type |-> "failed", id |-> delivery.id]
      BY DEF FeedItems, ViewInv, ViewTypeOK
    <3>1. m.type # "event" /\ m.type = "turn end" /\ m.id = delivery.id /\ feed \in Seq(FeedItems)
      BY <3>5 DEF FeedItems, ViewInv, ViewTypeOK
    <3>2. SaysNow(m)'
      <4>1. delivery'.state # "active"
        BY <2>3 DEF TurnEnds, ViewInv, ViewTypeOK
      <4> QED  BY <3>1, <4>1 DEF SaysNow
    <3>3. CASE feed' = Told(m.type, m.id)
      BY <1>1, <3>1, <3>2, <3>3, BusTells
    <3>4. CASE feed' # Told(m.type, m.id)
      <4>1. feedOpen /\ feed' = Append(Append(feed, f), m)
        BY <2>3, <3>1, <3>4, <3>5, <3>6 DEF TurnEnds, Told
      <4>2. feed' = Append(Append(feed, f), m) /\ Append(feed, f) \in Seq(FeedItems)
        BY <3>1, <4>1, FeedGrows
      <4>3. feed' \in Seq(FeedItems)
        BY <3>1, <4>2, FeedGrows
      <4>4. StreamInv'
        <5> DEFINE s == Append(feed, f)
        <5>1. \A i \in DOMAIN feed' : IsLast(i, feed') => feed'[i] = m
          <6>1. s \in Seq(FeedItems) /\ feed' = Append(s, m)
            BY <4>2
          <6> HIDE DEF s
          <6> QED  BY <3>1, <6>1, FeedGrows
        <5>2. ~(\A i \in DOMAIN feed' : feed'[i].type = "event")
          <6>1. s \in Seq(FeedItems) /\ feed' = Append(s, m)
            BY <4>2
          <6> HIDE DEF s
          <6>2. (\A i \in DOMAIN Append(s, m) : Append(s, m)[i].type = "event") => m.type = "event"
            BY <6>1, FeedGrows
          <6> QED  BY <3>1, <6>1, <6>2
        <5>3. \A i \in DOMAIN feed' : IsLast(i, feed') => SaysNow(feed[i])'
          <6> SUFFICES ASSUME NEW i \in DOMAIN feed', IsLast(i, feed') PROVE SaysNow(feed[i])'
            OBVIOUS
          <6>1. feed'[i] = m
            BY <5>1
          <6> QED  BY <3>2, <6>1 DEF SaysNow
        <5> QED  BY <1>1, <5>2, <5>3 DEF StreamInv, ViewInv
      <4> QED  BY <4>3, <4>4
    <3> QED  BY <3>3, <3>4
  <2> QED  BY <2>1, <2>2, <2>3
<1>6. ViewTypeOK'
  BY <1>1, <1>3, <1>5 DEF ViewInv, ViewTypeOK, FeedItems
<1> QED  BY <1>2, <1>4, <1>5, <1>6 DEF ViewInv

\* A failure, or a step that no failure allows, leaves nothing to say of the stream.
LEMMA StreamIsDoubted ==
    ASSUME ViewInv, Faulty \/ (viewFaults' = viewFaults /\ (~feedOpen \/ offline))
    PROVE  viewFaults' \in 0..MaxViewFaults /\ StreamInv'
<1>1. viewFaults \in 0..MaxViewFaults /\ MaxViewFaults \in Nat
  BY ViewConstants DEF ViewInv, ViewTypeOK
<1>2. viewFaults' \in 0..MaxViewFaults /\ viewFaults' # 0
  BY <1>1 DEF Faulty, ViewInv, StreamInv
<1> QED  BY <1>2 DEF StreamInv

LEMMA StreamStays ==
    ASSUME ViewInv, UNCHANGED <<feed, delivery, feedOpen, offline, working, overtaken, viewFaults>>
    PROVE  StreamInv'
BY DEF ViewInv, StreamInv, SaysNow, WorksNow

LEMMA StreamFails ==
    ASSUME ViewInv, StreamCloses \/ StreamOpens \/ ServicesStop \/ ServicesReturn
    PROVE  ViewInv'
<1>1. /\ UNCHANGED <<messages, delivery, composer, load, earlier, view, shown, cursor, skipped,
                     reset, overtaken>>
      /\ feed' \in {feed, <<>>} /\ feedOpen' \in BOOLEAN /\ offline' \in BOOLEAN
      /\ working' \in {0, working}
      /\ Faulty \/ (viewFaults' = viewFaults /\ (~feedOpen \/ offline))
  BY DEF StreamCloses, StreamOpens, ServicesStop, ServicesReturn, BusUnseen, ViewInv, ViewTypeOK
<1>2. LoadsInv' /\ EarlierInv' /\ NothingIsOutOfReach'
  BY <1>1, SightStays
<1>3. viewFaults' \in 0..MaxViewFaults /\ StreamInv'
  BY <1>1, StreamIsDoubted
<1>4. ComposerInv'
  BY <1>1 DEF ViewInv, ComposerInv
<1>5. ViewTypeOK'
  <2>1. working' \in Turns
    BY <1>1, ViewConstants DEF ViewInv, ViewTypeOK
  <2>2. feed' \in Seq([type : {"event", "started", "failed", "turn end"}, id : Turns])
    BY <1>1, EmptySeq DEF ViewInv, ViewTypeOK
  <2> QED  BY <1>1, <1>3, <2>1, <2>2 DEF ViewInv, ViewTypeOK
<1> QED  BY <1>2, <1>3, <1>4, <1>5 DEF ViewInv

\* A new load is not fresh and has no answer yet.
LEMMA RefreshKeepsLoads ==
    ASSUME ViewInv, Refreshing, UNCHANGED <<earlier, shown, cursor, skipped>>
    PROVE  LoadsInv' /\ EarlierInv' /\ NothingIsOutOfReach'
<1>1. \A n \in 1..MaxLoads : load'[n] = load[n] \/ (load'[n].on /\ ~load'[n].fresh
                                                     /\ ~load'[n].answered)
  BY RefreshBegins DEF ViewInv
<1>2. LoadsInv'
  BY <1>1 DEF ViewInv, LoadsInv
<1> QED  BY <1>2 DEF ViewInv, EarlierInv, NothingIsOutOfReach

LEMMA EventIsHandled ==
    ASSUME ViewInv, HandleEvent
    PROVE  ViewInv'
<1>1. /\ feed # <<>> /\ Head(feed).type = "event" /\ feed' = Tail(feed) /\ Refreshing
      /\ UNCHANGED <<messages, delivery, feedOpen, earlier, shown, cursor, working, composer,
                     offline, skipped, reset, overtaken, viewFaults>>
  BY DEF HandleEvent
<1>2. LoadsInv' /\ EarlierInv' /\ NothingIsOutOfReach'
  BY <1>1, RefreshKeepsLoads
<1>3. feed \in Seq(FeedItems)
  BY DEF ViewInv, ViewTypeOK, FeedItems
<1>4. /\ feed' \in Seq(FeedItems) /\ feed[1].type = "event"
      /\ \A i \in DOMAIN feed' : i + 1 \in DOMAIN feed /\ feed'[i] = feed[i + 1]
                                 /\ (IsLast(i, feed') => IsLast(i + 1, feed))
      /\ (\A i \in DOMAIN feed' : feed'[i].type = "event") =>
            \A i \in DOMAIN feed : i # 1 => feed[i].type = "event"
  BY <1>1, <1>3, FeedShrinks
<1>5. StreamInv'
  <2> SUFFICES ASSUME viewFaults = 0
               PROVE  /\ \A i \in DOMAIN feed' : IsLast(i, feed') => SaysNow(feed[i])'
                      /\ ~overtaken /\ (\A i \in DOMAIN feed' : feed'[i].type = "event") =>
                            working = WorksNow'
    BY <1>1 DEF StreamInv, ViewInv
  <2>1. ASSUME NEW i \in DOMAIN feed', IsLast(i, feed') PROVE SaysNow(feed[i])'
    <3>1. SaysNow(feed[i + 1]) /\ feed'[i] = feed[i + 1]
      BY <1>4, <2>1 DEF ViewInv, StreamInv
    <3> QED  BY <1>1, <3>1 DEF SaysNow
  <2>2. ASSUME ~overtaken, \A i \in DOMAIN feed' : feed'[i].type = "event"
        PROVE  working = WorksNow'
    <3>1. \A i \in DOMAIN feed : feed[i].type = "event"
      BY <1>4, <2>2
    <3> QED  BY <1>1, <2>2, <3>1 DEF ViewInv, StreamInv, WorksNow
  <2> QED  BY <2>1, <2>2
<1>6. ComposerInv'
  BY <1>1 DEF ViewInv, ComposerInv
<1>7. ViewTypeOK'
  <2>1. load' \in [1..MaxLoads -> LoadSlots] /\ view' \in {"loading", "ready", "error"}
    BY <1>1, RefreshBegins DEF ViewInv
  <2> QED  BY <1>1, <1>4, <2>1 DEF ViewInv, ViewTypeOK, FeedItems, LoadSlots
<1> QED  BY <1>2, <1>5, <1>6, <1>7 DEF ViewInv

LEMMA TurnMessageIsHandled ==
    ASSUME ViewInv, HandleTurnMessage
    PROVE  ViewInv'
<1>1. /\ feed # <<>> /\ Head(feed).type # "event" /\ feed' = Tail(feed)
      /\ working' = WorkingAfter(Head(feed))
      /\ UNCHANGED <<messages, delivery, feedOpen, load, earlier, view, shown, cursor, composer,
                     offline, skipped, reset, overtaken, viewFaults>>
  BY DEF HandleTurnMessage
<1>2. LoadsInv' /\ EarlierInv' /\ NothingIsOutOfReach'
  BY <1>1, SightStays
<1>3. feed \in Seq(FeedItems)
  BY DEF ViewInv, ViewTypeOK, FeedItems
<1>4. /\ feed' \in Seq(FeedItems) /\ Head(feed) \in FeedItems /\ 1 \in DOMAIN feed
      /\ Head(feed) = feed[1]
      /\ \A i \in DOMAIN feed' : i + 1 \in DOMAIN feed /\ feed'[i] = feed[i + 1]
                                 /\ (IsLast(i, feed') => IsLast(i + 1, feed))
      /\ (\A i \in DOMAIN feed' : feed'[i].type = "event") =>
            \A i \in DOMAIN feed : i # 1 => feed[i].type = "event"
  BY <1>1, <1>3, FeedShrinks
<1>5. working' \in Turns
  BY <1>1, <1>4, ViewConstants DEF WorkingAfter, Indicates, FeedItems, ViewInv, ViewTypeOK
<1>6. StreamInv'
  <2> SUFFICES ASSUME viewFaults = 0
               PROVE  /\ \A i \in DOMAIN feed' : IsLast(i, feed') => SaysNow(feed[i])'
                      /\ (\A i \in DOMAIN feed' : feed'[i].type = "event") => working' = WorksNow'
    BY <1>1 DEF StreamInv, ViewInv
  <2>1. ASSUME NEW i \in DOMAIN feed', IsLast(i, feed') PROVE SaysNow(feed[i])'
    <3>1. SaysNow(feed[i + 1]) /\ feed'[i] = feed[i + 1]
      BY <1>4, <2>1 DEF ViewInv, StreamInv
    <3> QED  BY <1>1, <3>1 DEF SaysNow
  <2>2. ASSUME \A i \in DOMAIN feed' : feed'[i].type = "event"
        PROVE  working' = WorksNow'
    <3>1. IsLast(1, feed)
      BY <1>1, <1>4, <2>2 DEF IsLast
    <3>2. SaysNow(Head(feed)) /\ ~offline
      BY <1>4, <3>1 DEF ViewInv, StreamInv
    <3> DEFINE h == Head(feed)
    <3>3. WorksNow' = WorksNow /\ working' = WorkingAfter(h)
      BY <1>1 DEF WorksNow
    <3>4. CASE h.type = "started" /\ delivery = [id |-> h.id, state |-> "active"]
      BY <3>2, <3>3, <3>4 DEF WorkingAfter, Indicates, WorksNow
    <3>5. CASE h.type = "turn end" /\ delivery.state # "active"
      BY <3>3, <3>5 DEF WorkingAfter, WorksNow
    <3> QED  BY <3>2, <3>4, <3>5 DEF SaysNow
  <2> QED  BY <2>1, <2>2
<1>7. ComposerInv'
  BY <1>1 DEF ViewInv, ComposerInv
<1>8. ViewTypeOK'
  <2>1. feed' \in Seq([type : {"event", "started", "failed", "turn end"}, id : Turns])
    BY <1>4 DEF FeedItems
  <2>2. ViewTypeOK /\ UNCHANGED <<messages, delivery, feedOpen, load, earlier, view, shown, cursor,
                                  composer, offline, skipped, reset, overtaken, viewFaults>>
    BY <1>1 DEF ViewInv
  <2>3. working' \in Turns
    BY <1>5
  <2>4. /\ messages' \in 0..MaxMessages
        /\ delivery' \in [id : Turns, state : {"none", "active", "ended", "failed"}]
        /\ feedOpen' \in BOOLEAN /\ offline' \in BOOLEAN /\ overtaken' \in BOOLEAN
    BY <2>2 DEF ViewTypeOK
  <2>5. /\ load' \in [1..MaxLoads -> [on : BOOLEAN, fresh : BOOLEAN, page : SUBSET Messages,
                                 answered : BOOLEAN, works : Turns]]
    BY <2>2 DEF ViewTypeOK
  <2>6. /\ earlier' \in [stage : {"idle", "asked", "answered"}, page : SUBSET Messages]
        /\ view' \in {"loading", "ready", "error"}
        /\ shown' \subseteq Messages /\ skipped' \subseteq Messages
        /\ cursor' \in 0..MaxMessages
    BY <2>2 DEF ViewTypeOK
  <2>7. /\ composer' \in [stage : {"idle", "sending", "taken"}, copies : 0..MaxMessages,
                     unsure : BOOLEAN]
        /\ reset' \in {"no", "rolled back", "failed"}
        /\ viewFaults' \in 0..MaxViewFaults
    BY <2>2 DEF ViewTypeOK
  <2> QED  BY <2>1, <2>3, <2>4, <2>5, <2>6, <2>7 DEF ViewTypeOK
<1> QED  BY <1>2, <1>6, <1>7, <1>8 DEF ViewInv

\* The types of what the view has, apart from those of the bus and the feed.
LEMMA ViewTypesKept ==
    ASSUME ViewTypeOK, UNCHANGED <<messages, delivery, feed, feedOpen, composer, offline>>,
           load' \in [1..MaxLoads -> LoadSlots],
           earlier' \in [stage : {"idle", "asked", "answered"}, page : SUBSET Messages],
           view' \in {"loading", "ready", "error"},
           shown' \subseteq Messages, skipped' \subseteq Messages,
           cursor' \in 0..MaxMessages, working' \in Turns, overtaken' \in BOOLEAN,
           reset' \in {"no", "rolled back", "failed"}, viewFaults' \in 0..MaxViewFaults
    PROVE  ViewTypeOK'
<1>1. /\ messages' \in 0..MaxMessages
      /\ delivery' \in [id : Turns, state : {"none", "active", "ended", "failed"}]
      /\ feedOpen' \in BOOLEAN /\ offline' \in BOOLEAN
  BY DEF ViewTypeOK
<1>2. feed' \in Seq([type : {"event", "started", "failed", "turn end"}, id : Turns])
  BY DEF ViewTypeOK
<1>3. composer' \in [stage : {"idle", "sending", "taken"}, copies : 0..MaxMessages,
                     unsure : BOOLEAN]
  BY DEF ViewTypeOK
<1>4. /\ load' \in [1..MaxLoads -> [on : BOOLEAN, fresh : BOOLEAN, page : SUBSET Messages,
                                 answered : BOOLEAN, works : Turns]]
  BY DEF LoadSlots
<1> QED  BY <1>1, <1>2, <1>3, <1>4 DEF ViewTypeOK

LEMMA LoadsAreTyped ==
    ASSUME ViewTypeOK
    PROVE  load \in [1..MaxLoads -> LoadSlots]
BY DEF ViewTypeOK, LoadSlots

LEMMA LoadIsAnswered ==
    ASSUME ViewInv, NEW n \in 1..MaxLoads, Answer(n)
    PROVE  ViewInv'
<1>1. PICK works \in {WorksNow, 0} :
          /\ load' = [load EXCEPT ![n].answered = TRUE, ![n].works = works,
                                  ![n].page = Newest(HistoryPage, messages + 1)]
          /\ IF works = WorksNow THEN UNCHANGED viewFaults ELSE Faulty
  BY DEF Answer
<1>2. /\ load[n].on
      /\ UNCHANGED <<messages, delivery, feed, feedOpen, earlier, view, shown, cursor, working,
                     composer, offline, skipped, reset, overtaken>>
  BY DEF Answer
<1>3. works \in Turns /\ messages \in 0..MaxMessages
      /\ Newest(HistoryPage, messages + 1) \subseteq Messages
  <2>1. messages \in 0..MaxMessages /\ delivery.id \in Turns
    BY DEF ViewInv, ViewTypeOK
  <2>2. Newest(HistoryPage, messages + 1) \subseteq Messages
    BY <2>1, NewestIsWhole
  <2> QED  BY <2>1, <2>2, ViewConstants DEF WorksNow
<1> DEFINE new == [load[n] EXCEPT !.answered = TRUE, !.works = works,
                                  !.page = Newest(HistoryPage, messages + 1)]
<1>4. load[n] \in LoadSlots /\ load \in [1..MaxLoads -> LoadSlots]
  BY LoadsAreTyped DEF ViewInv
<1>5. /\ new \in LoadSlots /\ new.on /\ new.fresh = load[n].fresh /\ new.answered
      /\ new.page = Newest(HistoryPage, messages + 1) /\ load' = [load EXCEPT ![n] = new]
  BY <1>1, <1>2, <1>3, <1>4 DEF LoadSlots
<1> HIDE DEF new
<1>6. load' \in [1..MaxLoads -> LoadSlots] /\ load'[n] = new
      /\ \A k \in 1..MaxLoads : k # n => load'[k] = load[k]
  BY <1>4, <1>5
<1>7. LoadsInv'
  <2> SUFFICES ASSUME NEW k \in 1..MaxLoads, load'[k].on
               PROVE  /\ load'[k].fresh => k = 1 /\ cursor = 0 /\ earlier.stage = "idle"
                      /\ load'[k].answered =>
                            \E c \in 0..MaxMessages : load'[k].page = Newest(HistoryPage, c + 1)
    BY <1>2 DEF LoadsInv
  <2>1. CASE k = n
    BY <1>2, <1>3, <1>5, <1>6, <2>1 DEF ViewInv, LoadsInv
  <2>2. CASE k # n
    BY <1>6, <2>2 DEF ViewInv, LoadsInv
  <2> QED  BY <2>1, <2>2
<1>8. EarlierInv' /\ NothingIsOutOfReach'
  BY <1>2 DEF ViewInv, EarlierInv, NothingIsOutOfReach
<1>9. viewFaults' \in 0..MaxViewFaults /\ StreamInv'
  <2>1. CASE works = WorksNow
    BY <1>1, <1>2, <2>1, StreamStays DEF ViewInv, ViewTypeOK
  <2>2. CASE works # WorksNow
    BY <1>1, <2>2, StreamIsDoubted
  <2> QED  BY <2>1, <2>2
<1>10. ComposerInv'
  BY <1>2 DEF ViewInv, ComposerInv
<1>11. ViewTypeOK'
  <2>1. ViewTypeOK
    BY DEF ViewInv
  <2>2. /\ earlier' \in [stage : {"idle", "asked", "answered"}, page : SUBSET Messages]
        /\ view' \in {"loading", "ready", "error"}
        /\ shown' \subseteq Messages /\ skipped' \subseteq Messages
        /\ cursor' \in 0..MaxMessages /\ working' \in Turns /\ overtaken' \in BOOLEAN
        /\ reset' \in {"no", "rolled back", "failed"}
    BY <1>2, <2>1 DEF ViewTypeOK
  <2> QED  BY <1>2, <1>6, <1>9, <2>1, <2>2, ViewTypesKept
<1> QED  BY <1>7, <1>8, <1>9, <1>10, <1>11 DEF ViewInv

LEMMA LoadIsLost ==
    ASSUME ViewInv, NEW n \in 1..MaxLoads, LoadFails(n)
    PROVE  ViewInv'
<1>1. /\ Faulty /\ load' = [load EXCEPT ![n] = NoLoad]
      /\ view' \in {"error", "ready"} /\ reset' \in {"failed", reset}
      /\ UNCHANGED <<messages, delivery, feed, feedOpen, earlier, shown, cursor, working, composer,
                     offline, skipped, overtaken>>
  BY DEF LoadFails, Settled
<1>2. load' \in [1..MaxLoads -> LoadSlots] /\ load'[n] = NoLoad
      /\ \A k \in 1..MaxLoads : k # n => load'[k] = load[k]
  BY <1>1, LoadsAreTyped, ViewConstants DEF ViewInv
<1>3. LoadsInv' /\ EarlierInv' /\ NothingIsOutOfReach'
  BY <1>1, <1>2, ViewConstants DEF ViewInv, LoadsInv, EarlierInv, NothingIsOutOfReach
<1>4. viewFaults' \in 0..MaxViewFaults /\ StreamInv'
  BY <1>1, StreamIsDoubted
<1>5. ComposerInv'
  BY <1>1 DEF ViewInv, ComposerInv
<1>6. ViewTypeOK'
  <2>1. ViewTypeOK
    BY DEF ViewInv
  <2>2. /\ earlier' \in [stage : {"idle", "asked", "answered"}, page : SUBSET Messages]
        /\ view' \in {"loading", "ready", "error"}
        /\ shown' \subseteq Messages /\ skipped' \subseteq Messages
        /\ cursor' \in 0..MaxMessages /\ working' \in Turns /\ overtaken' \in BOOLEAN
        /\ reset' \in {"no", "rolled back", "failed"}
    BY <1>1, <2>1 DEF ViewTypeOK
  <2> QED  BY <1>1, <1>2, <1>4, <2>1, <2>2, ViewTypesKept
<1> QED  BY <1>3, <1>4, <1>5, <1>6 DEF ViewInv

\* The answer of a load is displayed: the page ends with the newest message it has, and what
\* lies between it and what was shown is skipped.
LEMMA LoadIsDisplayed ==
    ASSUME ViewInv, NEW n \in 1..MaxLoads, Loaded(n)
    PROVE  ViewInv'
<1> DEFINE answer == load[n]
           page == load[n].page
           latest == Max(shown \cup {0})
           news == \E i \in DOMAIN feed : feed[i].type # "event"
<1>1. /\ answer.on /\ answer.answered /\ shown' = Displayed(answer)
      /\ cursor' = IF ~answer.fresh THEN cursor
                   ELSE IF Cardinality(page) = HistoryPage THEN Min(page) ELSE 0
      /\ working' = Indicates(answer.works) /\ view' = Settled
      /\ load' = [load EXCEPT ![n] = NoLoad]
      /\ skipped' = IF answer.fresh THEN {}
                    ELSE IF page = {} THEN skipped
                    ELSE skipped \cup {m \in Messages : latest < m /\ m < Min(page)}
      /\ reset' = IF answer.fresh /\ latest > Max(page \cup {0}) THEN "rolled back"
                  ELSE IF reset = "rolled back" THEN "no" ELSE reset
      /\ overtaken' = (answer.works # WorksNow /\ ~news)
      /\ UNCHANGED <<messages, delivery, feed, feedOpen, earlier, composer, offline, viewFaults>>
  BY DEF Loaded
<1>2. PICK top \in 0..MaxMessages : page = Newest(HistoryPage, top + 1)
  BY <1>1 DEF ViewInv, LoadsInv
<1>3. /\ page \subseteq Messages /\ \A m \in page : m <= top
      /\ Cardinality(page) # HistoryPage => \A m \in 1..top : m \in page
      /\ Cardinality(page) = HistoryPage => page # {}
      /\ page # {} => /\ Min(page) \in page /\ \A m \in page : Min(page) <= m
                      /\ \A m \in 1..top : m \in page \/ m < Min(page)
      /\ page = {} => top = 0
  BY <1>2, NewestIsWhole
<1>4. load' \in [1..MaxLoads -> LoadSlots] /\ load'[n] = NoLoad
      /\ \A k \in 1..MaxLoads : k # n => load'[k] = load[k]
  BY <1>1, LoadsAreTyped, ViewConstants DEF ViewInv
<1>5. answer.fresh => n = 1 /\ earlier.stage = "idle"
  BY <1>1 DEF ViewInv, LoadsInv
<1>6. shown \subseteq Messages /\ answer.works \in Turns /\ Messages \subseteq Nat
      /\ latest \in 0..MaxMessages /\ \A m \in shown : m <= latest
  BY LatestIs, LoadsAreTyped, ViewConstants DEF ViewInv, ViewTypeOK, LoadSlots
<1> HIDE DEF answer, page, latest
<1>7. LoadsInv'
  <2> SUFFICES ASSUME NEW k \in 1..MaxLoads, load'[k].on
               PROVE  /\ load'[k].fresh => k = 1 /\ cursor' = 0 /\ earlier.stage = "idle"
                      /\ load'[k].answered =>
                            \E c \in 0..MaxMessages : load'[k].page = Newest(HistoryPage, c + 1)
    BY <1>1 DEF LoadsInv
  <2>1. k # n /\ load'[k] = load[k]
    BY <1>4, ViewConstants
  <2>2. load[k].fresh => ~answer.fresh
    BY <1>5, <2>1 DEF ViewInv, LoadsInv
  <2> QED  BY <1>1, <2>1, <2>2 DEF ViewInv, LoadsInv
<1>8. EarlierInv'
  BY <1>1, <1>5 DEF ViewInv, EarlierInv
<1>9. shown' \subseteq Messages /\ shown' = (IF answer.fresh THEN page ELSE shown \cup page)
  BY <1>1, <1>3, <1>6 DEF Displayed, answer, page
<1>10. NothingIsOutOfReach'
  <2> SUFFICES ASSUME NEW m \in 1..Max(shown' \cup {0})
               PROVE  m \in shown' \cup skipped' \/ m < cursor'
    BY DEF NothingIsOutOfReach
  <2>1. /\ Max(shown' \cup {0}) \in shown' \cup {0} /\ Max(shown' \cup {0}) \in 0..MaxMessages
        /\ m \in Messages /\ m <= Max(shown' \cup {0})
    BY <1>9, LatestIs, ViewConstants DEF Messages
  <2>2. CASE answer.fresh
    <3>1. m \in 1..top
      BY <1>3, <1>9, <2>1, <2>2, ViewConstants DEF Messages
    <3> QED  BY <1>1, <1>3, <1>9, <2>2, <3>1
  <2>3. CASE ~answer.fresh
    <3>1. CASE m <= latest
      <4>1. m \in shown \cup skipped \/ m < cursor
        BY <1>6, <2>1, <3>1 DEF ViewInv, NothingIsOutOfReach, latest, Messages
      <4> QED  BY <1>1, <1>9, <2>3, <4>1
    <3>2. CASE m > latest
      <4>1. Max(shown' \cup {0}) \in page
        BY <1>6, <1>9, <2>1, <2>3, <3>2 DEF Messages
      <4>2. m \in 1..top /\ page # {}
        BY <1>3, <2>1, <4>1, ViewConstants DEF Messages
      <4>3. m \in page \/ m < Min(page)
        BY <1>3, <4>2
      <4> QED  BY <1>1, <1>9, <2>1, <2>3, <3>2, <4>2, <4>3
    <3> QED  BY <1>6, <2>1, <3>1, <3>2 DEF Messages
  <2> QED  BY <2>2, <2>3
<1>11. StreamInv'
  <2> SUFFICES ASSUME viewFaults = 0
               PROVE  ~overtaken' /\ (\A i \in DOMAIN feed : feed[i].type = "event") =>
                          working' = WorksNow
    BY <1>1 DEF ViewInv, StreamInv, SaysNow, WorksNow
  <2>1. ~offline
    BY DEF ViewInv, StreamInv
  <2> QED  BY <1>1, <2>1 DEF Indicates
<1>12. ComposerInv'
  BY <1>1 DEF ViewInv, ComposerInv
<1>13. ViewTypeOK'
  <2>1. ViewTypeOK
    BY DEF ViewInv
  <2>2. cursor' \in 0..MaxMessages
    <3>1. cursor \in 0..MaxMessages /\ 0 \in 0..MaxMessages
      <4>1. cursor \in 0..MaxMessages
        BY <2>1 DEF ViewTypeOK
      <4> QED  BY <4>1, ViewConstants
    <3>2. Cardinality(page) = HistoryPage => Min(page) \in 0..MaxMessages
      BY <1>3, ViewConstants DEF Messages
    <3> QED  BY <1>1, <3>1, <3>2
  <2>3. working' \in Turns
    BY <1>1, <1>6, ViewConstants DEF Indicates
  <2>4. overtaken' \in BOOLEAN /\ view' \in {"loading", "ready", "error"}
    BY <1>1 DEF Settled
  <2>5. reset' \in {"no", "rolled back", "failed"} /\ viewFaults' \in 0..MaxViewFaults
        /\ earlier' \in [stage : {"idle", "asked", "answered"}, page : SUBSET Messages]
    BY <1>1, <2>1 DEF ViewTypeOK
  <2>6. skipped' \subseteq Messages
    BY <1>1, <2>1 DEF ViewTypeOK
  <2> QED  BY <1>1, <1>4, <1>9, <2>1, <2>2, <2>3, <2>4, <2>5, <2>6, ViewTypesKept
<1> QED  BY <1>7, <1>8, <1>10, <1>11, <1>12, <1>13 DEF ViewInv

\* While an earlier page is asked for, or the reader scrolls, nothing else moves.
LEMMA EarlierPage ==
    ASSUME ViewInv, ScrollUp \/ AnswerEarlier \/ EarlierLoaded \/ EarlierFails
    PROVE  ViewInv'
<1>1. /\ UNCHANGED <<messages, delivery, feed, feedOpen, load, view, working, composer, offline,
                     skipped, reset, overtaken>>
  BY DEF ScrollUp, AnswerEarlier, EarlierLoaded, EarlierFails
<1>2. viewFaults' \in 0..MaxViewFaults /\ StreamInv'
  <2>1. CASE EarlierFails
    BY <2>1, StreamIsDoubted DEF EarlierFails
  <2>2. CASE ~EarlierFails
    <3>1. viewFaults' = viewFaults
      BY <2>2 DEF ScrollUp, AnswerEarlier, EarlierLoaded
    <3> QED  BY <1>1, <3>1, StreamStays DEF ViewInv, ViewTypeOK
  <2> QED  BY <2>1, <2>2
<1>3. ComposerInv'
  BY <1>1 DEF ViewInv, ComposerInv
<1>4. /\ earlier' \in [stage : {"idle", "asked", "answered"}, page : SUBSET Messages]
      /\ shown' \subseteq Messages /\ cursor' \in 0..MaxMessages
      /\ LoadsInv' /\ EarlierInv' /\ NothingIsOutOfReach'
  <2>1. /\ earlier \in [stage : {"idle", "asked", "answered"}, page : SUBSET Messages]
        /\ shown \subseteq Messages /\ cursor \in 0..MaxMessages
    BY DEF ViewInv, ViewTypeOK
  <2>2. CASE ScrollUp
    <3>1. /\ cursor # 0 /\ earlier.stage = "idle" /\ earlier' = [stage |-> "asked", page |-> {}]
          /\ UNCHANGED <<shown, cursor>>
      BY <2>2 DEF ScrollUp
    <3>2. LoadsInv'
      BY <1>1, <3>1 DEF ViewInv, LoadsInv
    <3> QED  BY <1>1, <2>1, <3>1, <3>2 DEF ViewInv, EarlierInv, NothingIsOutOfReach
  <2>3. CASE AnswerEarlier
    <3>1. /\ earlier.stage = "asked" /\ UNCHANGED <<shown, cursor>>
          /\ earlier' = [stage |-> "answered", page |-> Newest(HistoryPage, cursor)]
      BY <2>3 DEF AnswerEarlier
    <3>2. cursor # 0 /\ cursor - 1 \in 0..MaxMessages /\ (cursor - 1) + 1 = cursor
      BY <2>1, <3>1, ViewConstants DEF ViewInv, EarlierInv
    <3>3. Newest(HistoryPage, cursor) \subseteq Messages
      BY <3>2, NewestIsWhole
    <3>4. LoadsInv'
      BY <1>1, <3>1 DEF ViewInv, LoadsInv
    <3> QED  BY <1>1, <2>1, <3>1, <3>2, <3>3, <3>4 DEF EarlierInv, ViewInv, NothingIsOutOfReach
  <2>4. CASE EarlierFails
    <3>1. /\ earlier.stage # "idle" /\ UNCHANGED <<shown, cursor>>
          /\ earlier' = [stage |-> "idle", page |-> {}]
      BY <2>4 DEF EarlierFails
    <3>2. LoadsInv'
      BY <1>1, <3>1 DEF ViewInv, LoadsInv
    <3> QED  BY <1>1, <2>1, <3>1, <3>2 DEF ViewInv, EarlierInv, NothingIsOutOfReach
  <2>5. CASE EarlierLoaded
    <3> DEFINE page == earlier.page
               before == cursor - 1
    <3>1. /\ earlier.stage = "answered" /\ shown' = shown \cup page
          /\ cursor' = EarlierCursor(page)
          /\ earlier' = [stage |-> "idle", page |-> {}]
      BY <2>5 DEF EarlierLoaded
    <3>2. cursor # 0 /\ before \in 0..MaxMessages /\ page = Newest(HistoryPage, before + 1)
      BY <2>1, <3>1, ViewConstants DEF ViewInv, EarlierInv
    <3>3. /\ page \subseteq Messages /\ \A m \in page : m <= before
          /\ Cardinality(page) # HistoryPage => \A m \in 1..before : m \in page
          /\ Cardinality(page) = HistoryPage => page # {}
          /\ page # {} => /\ Min(page) \in page /\ \A m \in page : Min(page) <= m
                          /\ \A m \in 1..before : m \in page \/ m < Min(page)
          /\ page = {} => before = 0
      BY <3>2, NewestIsWhole
    <3> HIDE DEF page
    <3>4. LoadsInv'
      <4>1. \A n \in 1..MaxLoads : load[n].on => ~load[n].fresh
        BY <3>1 DEF ViewInv, LoadsInv
      <4> QED  BY <1>1, <4>1 DEF ViewInv, LoadsInv
    <3>5. \A m \in 1..before : m \in shown' \/ m < cursor'
      BY <3>1, <3>3 DEF EarlierCursor
    <3>6. cursor' \in 0..MaxMessages
      <4>1. Cardinality(page) = HistoryPage => Min(page) \in 0..MaxMessages
        BY <3>3, ViewConstants DEF Messages
      <4> QED  BY <3>1, <4>1, ViewConstants DEF EarlierCursor
    <3>7. NothingIsOutOfReach'
      <4> SUFFICES ASSUME NEW m \in 1..Max(shown' \cup {0})
                   PROVE  m \in shown' \cup skipped \/ m < cursor'
        BY <1>1 DEF NothingIsOutOfReach
      <4>1. /\ Max(shown' \cup {0}) \in shown' \cup {0} /\ Max(shown' \cup {0}) \in 0..MaxMessages
            /\ m \in Nat /\ m # 0 /\ m <= Max(shown' \cup {0}) /\ shown' \subseteq Messages
        BY <2>1, <3>1, <3>3, LatestIs, ViewConstants
      <4>2. CASE m <= before
        <5>1. m \in 1..before
          BY <3>2, <4>1, <4>2, ViewConstants
        <5> QED  BY <3>5, <5>1
      <4>3. CASE m > before
        <5>1. Max(shown' \cup {0}) \in shown
          BY <3>1, <3>2, <3>3, <4>1, <4>3, ViewConstants DEF Messages
        <5>2. /\ Max(shown' \cup {0}) <= Max(shown \cup {0}) /\ Max(shown \cup {0}) \in 0..MaxMessages
          BY <2>1, <5>1, LatestIs
        <5>3. m \in 1..Max(shown \cup {0})
          BY <4>1, <5>2, ViewConstants
        <5>4. m \in shown \cup skipped \/ m < cursor
          BY <5>3 DEF ViewInv, NothingIsOutOfReach
        <5>5. ~(m < cursor)
          BY <2>1, <3>2, <4>1, <4>3, ViewConstants
        <5> QED  BY <3>1, <5>4, <5>5
      <4> QED  BY <3>2, <4>1, <4>2, <4>3, ViewConstants
    <3> QED  BY <2>1, <3>1, <3>3, <3>4, <3>6, <3>7 DEF EarlierInv
  <2> QED  BY <2>2, <2>3, <2>4, <2>5
<1>5. ViewTypeOK'
  <2>1. ViewTypeOK
    BY DEF ViewInv
  <2>2. /\ view' \in {"loading", "ready", "error"} /\ skipped' \subseteq Messages
        /\ working' \in Turns /\ overtaken' \in BOOLEAN /\ load' \in [1..MaxLoads -> LoadSlots]
        /\ reset' \in {"no", "rolled back", "failed"}
    BY <1>1, <2>1 DEF ViewTypeOK, LoadSlots
  <2> QED  BY <1>1, <1>2, <1>4, <2>1, <2>2, ViewTypesKept
<1> QED  BY <1>2, <1>3, <1>4, <1>5 DEF ViewInv

\* The operator sends a text, the bus takes it, the view hears of it or does not.
LEMMA TextIsSent ==
    ASSUME ViewInv, SendPressed \/ BusTakesText \/ Sent \/ SendFails
    PROVE  ViewInv'
<1>1. UNCHANGED <<delivery, feedOpen, earlier, shown, cursor, working, offline, skipped, reset,
                  overtaken>>
  BY DEF SendPressed, BusTakesText, Sent, SendFails, ComposerUnseen
<1>2. LoadsInv' /\ EarlierInv' /\ NothingIsOutOfReach'
  <2>1. CASE Sent
    BY <1>1, <2>1, RefreshKeepsLoads DEF Sent
  <2>2. CASE ~Sent
    <3>1. load' = load
      BY <2>2 DEF SendPressed, BusTakesText, SendFails
    <3> QED  BY <1>1, <3>1, SightStays
  <2> QED  BY <2>1, <2>2
<1>3. feed' \in Seq(FeedItems) /\ viewFaults' \in 0..MaxViewFaults /\ StreamInv'
  <2>1. feed \in Seq(FeedItems) /\ viewFaults \in 0..MaxViewFaults
    BY DEF ViewInv, ViewTypeOK, FeedItems
  <2>2. CASE BusTakesText
    <3> DEFINE m == [type |-> "event", id |-> 0]
    <3>1. m \in FeedItems /\ feed' = Told(m.type, m.id) /\ m.type = "event"
          /\ viewFaults' = viewFaults
      BY <2>2, ViewConstants DEF BusTakesText, FeedItems
    <3> HIDE DEF m
    <3> QED  BY <1>1, <2>1, <3>1, BusTells
  <2>3. CASE SendFails
    BY <2>1, <2>3, StreamIsDoubted DEF SendFails
  <2>4. CASE SendPressed \/ Sent
    BY <1>1, <2>1, <2>4, StreamStays DEF SendPressed, Sent
  <2> QED  BY <2>2, <2>3, <2>4
<1>4. /\ ComposerInv' /\ messages' \in 0..MaxMessages
      /\ composer' \in Composers
  <2>1. /\ messages \in 0..MaxMessages /\ MaxMessages \in Nat /\ composer \in Composers
        /\ composer.copies \in 0..MaxMessages /\ composer.copies <= messages
        /\ ~composer.unsure => composer.copies = IF composer.stage = "taken" THEN 1 ELSE 0
    BY ViewConstants DEF ViewInv, ViewTypeOK, ComposerInv, Composers
  <2>2. CASE SendPressed
    <3>1. composer.stage = "idle" /\ messages' = messages
          /\ composer' = [composer EXCEPT !.stage = "sending"]
      BY <2>2 DEF SendPressed
    <3>2. /\ composer' \in Composers /\ composer'.copies = composer.copies
          /\ composer'.unsure = composer.unsure /\ composer'.stage = "sending"
      BY <2>1, <3>1 DEF Composers
    <3> QED  BY <2>1, <3>1, <3>2 DEF ComposerInv
  <2>3. CASE BusTakesText
    <3>1. /\ composer.stage = "sending" /\ messages < MaxMessages /\ messages' = messages + 1
          /\ composer' = [composer EXCEPT !.stage = "taken", !.copies = @ + 1]
      BY <2>3 DEF BusTakesText
    <3>2. messages' \in 0..MaxMessages /\ composer.copies + 1 \in 0..MaxMessages
          /\ composer.copies + 1 <= messages'
      BY <2>1, <3>1
    <3>3. /\ composer' \in Composers /\ composer'.copies = composer.copies + 1
          /\ composer'.unsure = composer.unsure /\ composer'.stage = "taken"
      BY <2>1, <3>1, <3>2 DEF Composers
    <3> QED  BY <2>1, <3>1, <3>2, <3>3 DEF ComposerInv
  <2>4. CASE Sent
    <3>1. messages' = messages /\ composer' = [stage |-> "idle", copies |-> 0, unsure |-> FALSE]
      BY <2>4 DEF Sent
    <3>2. 0 \in 0..MaxMessages /\ 0 <= messages
      BY <2>1
    <3> QED  BY <2>1, <3>1, <3>2 DEF ComposerInv, Composers
  <2>5. CASE SendFails
    <3> DEFINE unsure == composer.unsure \/ composer.stage = "taken"
    <3>1. composer.stage # "idle" /\ messages' = messages
          /\ composer' = [composer EXCEPT !.stage = "idle", !.unsure = unsure]
      BY <2>5 DEF SendFails
    <3>2. unsure \in BOOLEAN
      BY <2>1 DEF Composers
    <3>3. /\ composer' \in Composers /\ composer'.copies = composer.copies
          /\ composer'.unsure = unsure /\ composer'.stage = "idle"
      <4> HIDE DEF unsure
      <4> QED  BY <2>1, <3>1, <3>2 DEF Composers
    <3> QED  BY <2>1, <3>1, <3>3 DEF ComposerInv
  <2> QED  BY <2>2, <2>3, <2>4, <2>5
<1>5. load' \in [1..MaxLoads -> LoadSlots] /\ view' \in {"loading", "ready", "error"}
  <2>1. CASE Sent
    BY <2>1, RefreshBegins DEF Sent, ViewInv
  <2>2. CASE ~Sent
    BY <2>2 DEF SendPressed, BusTakesText, SendFails, ViewInv, ViewTypeOK, LoadSlots
  <2> QED  BY <2>1, <2>2
<1>6. ViewTypeOK'
  <2>1. ViewTypeOK
    BY DEF ViewInv
  <2>2. /\ delivery' \in [id : Turns, state : {"none", "active", "ended", "failed"}]
        /\ feedOpen' \in BOOLEAN /\ offline' \in BOOLEAN /\ overtaken' \in BOOLEAN
        /\ earlier' \in [stage : {"idle", "asked", "answered"}, page : SUBSET Messages]
        /\ shown' \subseteq Messages /\ skipped' \subseteq Messages
        /\ cursor' \in 0..MaxMessages /\ working' \in Turns
        /\ reset' \in {"no", "rolled back", "failed"}
    BY <1>1, <2>1 DEF ViewTypeOK
  <2>3. /\ load' \in [1..MaxLoads -> [on : BOOLEAN, fresh : BOOLEAN, page : SUBSET Messages,
                                      answered : BOOLEAN, works : Turns]]
        /\ feed' \in Seq([type : {"event", "started", "failed", "turn end"}, id : Turns])
        /\ composer' \in [stage : {"idle", "sending", "taken"}, copies : 0..MaxMessages,
                          unsure : BOOLEAN]
    BY <1>3, <1>4, <1>5 DEF LoadSlots, FeedItems, Composers
  <2>4. messages' \in 0..MaxMessages /\ viewFaults' \in 0..MaxViewFaults
        /\ view' \in {"loading", "ready", "error"}
    BY <1>3, <1>4, <1>5
  <2> QED  BY <2>2, <2>3, <2>4 DEF ViewTypeOK
<1> QED  BY <1>2, <1>3, <1>4, <1>6 DEF ViewInv

LEMMA ViewStep == ViewInv /\ [ViewNext]_viewVars => ViewInv'
<1> SUFFICES ASSUME ViewInv, [ViewNext]_viewVars PROVE ViewInv'
  OBVIOUS
<1>1. CASE Post \/ TurnStarts \/ TurnEnds
  BY <1>1, BusGoesOn
<1>2. CASE StreamCloses \/ StreamOpens \/ ServicesStop \/ ServicesReturn
  BY <1>2, StreamFails
<1>3. CASE HandleEvent
  BY <1>3, EventIsHandled
<1>4. CASE HandleTurnMessage
  BY <1>4, TurnMessageIsHandled
<1>5. ASSUME NEW n \in 1..MaxLoads, Answer(n) \/ Loaded(n) \/ LoadFails(n) PROVE ViewInv'
  BY <1>5, LoadIsAnswered, LoadIsDisplayed, LoadIsLost
<1>6. CASE ScrollUp \/ AnswerEarlier \/ EarlierLoaded \/ EarlierFails
  BY <1>6, EarlierPage
<1>7. CASE SendPressed \/ BusTakesText \/ Sent \/ SendFails
  BY <1>7, TextIsSent
<1>8. CASE UNCHANGED viewVars
  <2>1. ViewTypeOK'
    <3>1. ViewTypeOK /\ UNCHANGED <<messages, delivery, feed, feedOpen, composer, offline>>
      BY <1>8 DEF viewVars, ViewInv
    <3>2. UNCHANGED <<load, earlier, view, shown, skipped, cursor, working, overtaken, reset,
                      viewFaults>>
      BY <1>8 DEF viewVars
    <3>3. /\ load' \in [1..MaxLoads -> LoadSlots]
          /\ earlier' \in [stage : {"idle", "asked", "answered"}, page : SUBSET Messages]
          /\ view' \in {"loading", "ready", "error"}
      BY <3>1, <3>2 DEF ViewTypeOK, LoadSlots
    <3>4. /\ shown' \subseteq Messages /\ skipped' \subseteq Messages
          /\ cursor' \in 0..MaxMessages /\ working' \in Turns /\ overtaken' \in BOOLEAN
          /\ reset' \in {"no", "rolled back", "failed"} /\ viewFaults' \in 0..MaxViewFaults
      BY <3>1, <3>2 DEF ViewTypeOK
    <3> QED  BY <3>1, <3>3, <3>4, ViewTypesKept
  <2>2. LoadsInv' /\ EarlierInv' /\ NothingIsOutOfReach' /\ StreamInv' /\ ComposerInv'
    BY <1>8, SightStays, StreamStays DEF viewVars, ViewInv, ComposerInv
  <2> QED  BY <2>1, <2>2 DEF ViewInv
<1> QED  BY <1>1, <1>2, <1>3, <1>4, <1>5, <1>6, <1>7, <1>8 DEF ViewNext, ViewProceeds

LEMMA ViewInvHolds == ViewSpec => []ViewInv
BY ViewAtFirst, ViewStep, PTL DEF ViewSpec

\* The variables of the conversation view, and of the part of the bus it watches, keep their
\* types.
THEOREM ViewTypesHold == ViewSpec => []ViewTypeOK
<1>1. ViewInv => ViewTypeOK
  BY DEF ViewInv
<1> QED  BY <1>1, ViewInvHolds, PTL

LEMMA ViewImpliesTrue == ViewInv => ConversationIsTrue
<1> SUFFICES ASSUME ViewInv PROVE ConversationIsTrue
  OBVIOUS
<1>1. NothingIsOutOfReach
  BY DEF ViewInv
<1>2. IndicatorIsTrue
  BY EmptySeq DEF ViewInv, StreamInv, IndicatorIsTrue
<1>3. TextIsPostedOnce
  <2>1. composer.copies \in 0..MaxMessages /\ composer.unsure \in BOOLEAN
    BY DEF ViewInv, ViewTypeOK
  <2> QED  BY <2>1, ViewConstants DEF ViewInv, ComposerInv, TextIsPostedOnce
<1> QED  BY <1>1, <1>2, <1>3 DEF ConversationIsTrue

\* Whatever the order in which loads, earlier pages and the messages of the stream reach the
\* view, and however large the page is: what it shows is connected to the history it can load
\* but for what a refresh skipped, it shows the participant working exactly while it works
\* when nothing is on its way, and a text it is sure about was taken once
\* (ContextConversation.tsx).
THEOREM ConversationStaysTrue == ViewSpec => []ConversationIsTrue
BY ViewImpliesTrue, ViewInvHolds, PTL

-----------------------------------------------------------------------------
(* The health of the packaged services                                     *)

\* A native failure stands until the window reaches a process again or a restart is begun:
\* meanwhile nothing shows the services healthy.
FailureStands == failed => health # "healthy"

HealthInv == HealthTypeOK /\ PresentBridgeIsOnline /\ HealthNeedsStream /\ FailureStands

LEMMA HealthBounds ==
  KillsStale \in BOOLEAN /\ MaxProcesses \in Nat \ {0} /\ MaxHealthFaults \in Nat
  BY HealthAssumption DEF HealthAssumption

LEMMA LesserOfTwo ==
  ASSUME NEW a \in Nat, NEW b \in Nat
  PROVE  Min({a, b}) = IF a <= b THEN a ELSE b
  <1> DEFINE lesser == IF a <= b THEN a ELSE b
  <1>1. lesser \in {a, b} /\ \A x \in {a, b} : lesser <= x
    OBVIOUS
  <1>2. \A y \in {a, b} : (\A x \in {a, b} : y <= x) => y = lesser
    OBVIOUS
  <1> QED BY <1>1, <1>2 DEF Min

LEMMA HealthInvInit == HealthInit => HealthInv
  <1> SUFFICES ASSUME HealthInit PROVE HealthInv
    OBVIOUS
  <1>1. 1 \in Processes
    BY HealthBounds DEF Processes
  <1>2. process \in [Processes -> {"unborn", "booting", "serving", "hung", "gone"}]
    BY DEF HealthInit
  <1>3. backoff \in 0..LongBackoff /\ healthFaults \in 0..MaxHealthFaults
    BY HealthBounds DEF HealthInit, LongBackoff
  <1>4. HealthTypeOK
    BY <1>1, <1>2, <1>3 DEF HealthInit, HealthTypeOK, Sockets
  <1> QED BY <1>4 DEF HealthInv, HealthInit, PresentBridgeIsOnline, HealthNeedsStream,
                      FailureStands

LEMMA FaultTyped ==
  ASSUME HealthTypeOK, Fault
  PROVE  healthFaults' \in 0..MaxHealthFaults
  BY HealthBounds DEF HealthTypeOK, Fault

LEMMA ProcessStepInv ==
  ASSUME HealthInv, NEW p \in Processes, Boots(p) \/ Hangs(p) \/ Dies(p)
  PROVE  HealthInv'
  <1>1. UNCHANGED windowVars
    BY DEF Boots, Hangs, Dies
  <1>2. UNCHANGED <<socket, peer, backoff, timer, health, failed, connected, asked, muddled>>
    BY <1>1 DEF windowVars
  <1>3. \/ UNCHANGED <<bridgeOpen, bridgeLast, registered>>
        \/ bridgeOpen' = {} /\ bridgeLast' = 0 /\ registered' = 0
    BY DEF Boots, Hangs, Dies, bridgeVars
  <1>4. /\ process' \in [Processes -> {"unborn", "booting", "serving", "hung", "gone"}]
        /\ exiting' \subseteq Processes
    BY DEF HealthInv, HealthTypeOK, Boots, Hangs, Dies
  <1>5. healthFaults' \in 0..MaxHealthFaults
    BY FaultTyped DEF HealthInv, HealthTypeOK, Boots, Hangs, Dies
  <1>6. HealthTypeOK'
    BY <1>2, <1>3, <1>4, <1>5 DEF HealthInv, HealthTypeOK
  <1> QED BY <1>2, <1>3, <1>6 DEF HealthInv, PresentBridgeIsOnline, HealthNeedsStream,
                                   FailureStands

LEMMA BridgeStepInv ==
  ASSUME HealthInv, NEW s \in Sockets, BridgeHello \/ BridgeLosesSocket \/ BusSeesClose(s)
  PROVE  HealthInv'
  <1>1. UNCHANGED <<process, exiting, socket, peer, backoff, timer, health, failed, connected,
                    muddled>>
    BY DEF BridgeHello, BridgeLosesSocket, BusSeesClose, shellVars, windowVars
  <1>2. /\ bridgeOpen' \subseteq Sockets /\ bridgeLast' \in Sockets \cup {0}
        /\ registered' \in Sockets \cup {0}
    BY DEF HealthInv, HealthTypeOK, BridgeHello, BridgeLosesSocket, BusSeesClose, EntryAfter
  <1>3. asked' \subseteq Answers \cup {"status"}
    BY DEF HealthInv, HealthTypeOK, BridgeHello, BridgeLosesSocket, BusSeesClose, Heard,
           windowVars
  <1>4. healthFaults' \in 0..MaxHealthFaults
    BY FaultTyped DEF HealthInv, HealthTypeOK, BridgeHello, BridgeLosesSocket, BusSeesClose
  <1>5. HealthTypeOK'
    BY <1>1, <1>2, <1>3, <1>4 DEF HealthInv, HealthTypeOK
  <1>6. PresentBridgeIsOnline'
    <2>1. CASE BridgeHello
      BY <2>1 DEF BridgeHello, PresentBridgeIsOnline
    <2>2. CASE BridgeLosesSocket
      BY <2>2 DEF BridgeLosesSocket, PresentBridgeIsOnline
    <2>3. CASE BusSeesClose(s)
      <3>1. s # bridgeLast /\ bridgeLast' = bridgeLast /\ registered' = EntryAfter(s)
        BY <2>3 DEF BusSeesClose
      <3> QED BY <3>1 DEF EntryAfter, PresentBridgeIsOnline, HealthInv
    <2> QED BY <2>1, <2>2, <2>3
  <1> QED BY <1>1, <1>5, <1>6 DEF HealthInv, HealthNeedsStream, FailureStands

LEMMA SocketOpensInv ==
  ASSUME HealthInv, SocketOpens
  PROVE  HealthInv'
  <1>1. /\ UNCHANGED <<process, exiting, bridgeOpen, bridgeLast, registered, health,
                       healthFaults>>
        /\ socket' = "open" /\ backoff' = 0 /\ timer' = FALSE /\ failed' = FALSE
        /\ connected' = TRUE /\ muddled' = FALSE /\ asked' = asked \cup {"status"}
    BY DEF SocketOpens, shellVars, bridgeVars
  <1>2. peer' \in Processes
    <2>1. PICK p \in Processes : process[p] = "serving"
      BY DEF SocketOpens, Serving
    <2>2. (CHOOSE q \in Processes : process[q] = "serving") \in Processes
      BY <2>1
    <2> QED BY <2>2 DEF SocketOpens
  <1>3. HealthTypeOK'
    <2>1. backoff' \in 0..LongBackoff
      BY <1>1 DEF LongBackoff
    <2>2. asked' \subseteq Answers \cup {"status"}
      BY <1>1 DEF HealthInv, HealthTypeOK
    <2> QED BY <1>1, <1>2, <2>1, <2>2 DEF HealthInv, HealthTypeOK
  <1> QED BY <1>1, <1>3 DEF HealthInv, PresentBridgeIsOnline, HealthNeedsStream, FailureStands

LEMMA SocketEndsInv ==
  ASSUME HealthInv, SocketCloses \/ SocketBreaks
  PROVE  HealthInv'
  <1>1. /\ UNCHANGED <<process, exiting, bridgeOpen, bridgeLast, registered, failed, connected,
                       asked, muddled, peer>>
        /\ socket' = "closed" /\ backoff' = Min({backoff + 1, LongBackoff})
        /\ IF failed THEN UNCHANGED <<health, timer>>
           ELSE health' = "degraded" /\ timer' = TRUE
    BY DEF SocketCloses, SocketBreaks, StreamClosed, shellVars, bridgeVars, HealthWhenClosed
  <1>2. healthFaults' \in 0..MaxHealthFaults
    BY FaultTyped DEF HealthInv, HealthTypeOK, SocketCloses, SocketBreaks
  <1>3. backoff' \in 0..LongBackoff
    <2>1. backoff + 1 \in Nat /\ LongBackoff \in Nat
      BY DEF HealthInv, HealthTypeOK, LongBackoff
    <2>2. backoff' = IF backoff + 1 <= LongBackoff THEN backoff + 1 ELSE LongBackoff
      BY <1>1, <2>1, LesserOfTwo
    <2> QED BY <2>1, <2>2
  <1>4. health' # "healthy"
    BY <1>1 DEF HealthInv, FailureStands
  <1>5. HealthTypeOK'
    BY <1>1, <1>2, <1>3 DEF HealthInv, HealthTypeOK
  <1> QED BY <1>1, <1>4, <1>5 DEF HealthInv, PresentBridgeIsOnline, HealthNeedsStream,
                                   FailureStands

LEMMA WindowStepInv ==
  ASSUME HealthInv, Retry \/ TimerFires \/ StatusAnswered
  PROVE  HealthInv'
  <1>1. UNCHANGED <<process, exiting, bridgeOpen, bridgeLast, registered, peer, backoff, failed,
                    connected, muddled, healthFaults>>
    BY DEF Retry, TimerFires, StatusAnswered, shellVars, bridgeVars
  <1>2. /\ socket' \in {"connecting", "open", "closed"} /\ timer' \in BOOLEAN
        /\ health' \in {"starting", "healthy", "degraded", "offline"}
    BY DEF HealthInv, HealthTypeOK, Retry, TimerFires, StatusAnswered
  <1>3. asked' \subseteq Answers \cup {"status"}
    BY DEF HealthInv, HealthTypeOK, Retry, TimerFires, StatusAnswered, StatusNow, Answers
  <1>4. health' = "healthy" => health = "healthy" /\ socket' = socket
    <2>1. CASE Retry
      BY <2>1 DEF Retry, HealthInv, FailureStands
    <2>2. CASE TimerFires \/ StatusAnswered
      BY <2>2 DEF TimerFires, StatusAnswered
    <2> QED BY <2>1, <2>2
  <1>5. HealthTypeOK'
    BY <1>1, <1>2, <1>3 DEF HealthInv, HealthTypeOK
  <1> QED BY <1>1, <1>4, <1>5 DEF HealthInv, PresentBridgeIsOnline, HealthNeedsStream,
                                   FailureStands

LEMMA StatusAppliedInv ==
  ASSUME HealthInv, NEW answer \in Answers, StatusApplied(answer)
  PROVE  HealthInv'
  <1>1. /\ UNCHANGED <<process, exiting, bridgeOpen, bridgeLast, registered, socket, peer,
                       backoff, timer, failed, connected, healthFaults>>
        /\ asked' = asked \ {answer}
        /\ IF failed THEN UNCHANGED <<health, muddled>>
           ELSE /\ health' = IF answer = "online" THEN "healthy" ELSE "degraded"
                /\ muddled' = (answer # StatusNow \/ ~Live)
    BY DEF StatusApplied, shellVars, bridgeVars
  <1>2. muddled' \in BOOLEAN /\ health' \in {"starting", "healthy", "degraded", "offline"}
    BY <1>1 DEF HealthInv, HealthTypeOK
  <1>3. HealthTypeOK'
    BY <1>1, <1>2 DEF HealthInv, HealthTypeOK
  <1>4. HealthNeedsStream' /\ FailureStands'
    BY <1>1 DEF HealthInv, HealthNeedsStream, FailureStands, Live
  <1> QED BY <1>1, <1>3, <1>4 DEF HealthInv, PresentBridgeIsOnline

LEMMA ShellStepInv ==
  ASSUME HealthInv, Restart \/ \E p \in Processes : ExitReported(p)
  PROVE  HealthInv'
  <1>1. /\ UNCHANGED <<socket, peer, backoff, connected, asked, healthFaults>>
        /\ timer' = FALSE /\ health' \in {"starting", "offline"} /\ failed' \in BOOLEAN
    BY DEF Restart, ExitReported
  <1>2. /\ process' \in [Processes -> {"unborn", "booting", "serving", "hung", "gone"}]
        /\ exiting' \subseteq Processes
    BY DEF HealthInv, HealthTypeOK, Restart, ExitReported, shellVars
  <1>3. \/ UNCHANGED <<bridgeOpen, bridgeLast, registered>>
        \/ bridgeOpen' = {} /\ bridgeLast' = 0 /\ registered' = 0
    BY DEF Restart, ExitReported, bridgeVars
  <1>4. muddled' \in BOOLEAN
    <2>1. muddled' \in {TRUE, muddled, Live} /\ Live \in BOOLEAN
      BY DEF Restart, ExitReported, Live
    <2> QED BY <2>1 DEF HealthInv, HealthTypeOK
  <1>5. HealthTypeOK'
    BY <1>1, <1>2, <1>3, <1>4 DEF HealthInv, HealthTypeOK
  <1> QED BY <1>1, <1>3, <1>5 DEF HealthInv, PresentBridgeIsOnline, HealthNeedsStream,
                                   FailureStands

LEMMA HealthInvNext == HealthInv /\ [HealthNext]_healthVars => HealthInv'
  <1> SUFFICES ASSUME HealthInv, [HealthNext]_healthVars PROVE HealthInv'
    OBVIOUS
  <1>1. CASE UNCHANGED healthVars
    BY <1>1 DEF healthVars, HealthInv, HealthTypeOK, PresentBridgeIsOnline, HealthNeedsStream,
                FailureStands
  <1>2. CASE \E p \in Processes : Boots(p) \/ Hangs(p) \/ Dies(p)
    BY <1>2, ProcessStepInv
  <1>3. CASE BridgeHello \/ BridgeLosesSocket \/ \E s \in Sockets : BusSeesClose(s)
    BY <1>3, BridgeStepInv DEF Sockets
  <1>4. CASE SocketOpens \/ SocketCloses \/ SocketBreaks
    BY <1>4, SocketOpensInv, SocketEndsInv
  <1>5. CASE Retry \/ TimerFires \/ StatusAnswered
    BY <1>5, WindowStepInv
  <1>6. CASE \E answer \in Answers : StatusApplied(answer)
    BY <1>6, StatusAppliedInv
  <1>7. CASE Restart \/ \E p \in Processes : ExitReported(p)
    BY <1>7, ShellStepInv
  <1> QED BY <1>1, <1>2, <1>3, <1>4, <1>5, <1>6, <1>7 DEF HealthNext, HealthProceeds

LEMMA HealthKeepsInv == HealthSpec => []HealthInv
  BY HealthInvInit, HealthInvNext, PTL DEF HealthSpec

\* Processes, sockets, the window's stream and the health it shows have their types.
THEOREM HealthTypesHold == HealthSpec => []HealthTypeOK
  <1>1. HealthInv => HealthTypeOK
    BY DEF HealthInv
  <1> QED BY <1>1, HealthKeepsInv, PTL

\* A bridge that has a connection is registered with it, however late the bus hears that an
\* earlier one was closed; and the window shows the services healthy only over an open stream,
\* unless it was last told something that did not hold any more.
THEOREM PresenceIsShown == HealthSpec => [](PresentBridgeIsOnline /\ HealthNeedsStream)
  <1>1. HealthInv => PresentBridgeIsOnline /\ HealthNeedsStream
    BY DEF HealthInv
  <1> QED BY <1>1, HealthKeepsInv, PTL

-----------------------------------------------------------------------------
(* The list of conversations                                               *)

PageAnswer == [stage : {"idle", "asked", "answered"}, home : Workspaces,
               page : SUBSET Rooms, next : Stamps]
DraftSending == [stage : {"idle", "creating", "created", "emitting", "taken"}, key : Drafts,
                 ref : Drafts, home : Workspaces]
Loads == {"latest", "superseded"}

\* The types, in two parts: what the pages are about, and the drafts.
PagesTyped ==
    /\ stamp \in [Rooms -> Stamps] /\ tidings \subseteq Workspaces /\ onDisplay \in Workspaces
    /\ hasOperator \in BOOLEAN /\ list \subseteq Rooms /\ nextCursor \in Stamps
    /\ firstPage \in [Loads -> PageAnswer] /\ olderPage \in PageAnswer
    /\ listening \in BOOLEAN /\ unheard \in BOOLEAN /\ listLoading \in BOOLEAN
    /\ listError \in BOOLEAN /\ fresh \in BOOLEAN /\ astray \in BOOLEAN

DraftsTyped ==
    /\ draft \in Drafts /\ draftRef \in Drafts /\ drafts \in Drafts
    /\ sending \in DraftSending
    /\ made \in [Drafts -> 0..(MaxListFaults + 1)] /\ written \subseteq Drafts \X Drafts
    /\ interrupted \in BOOLEAN /\ chosen \in BOOLEAN
    /\ clicks \in 0..MaxClicks /\ listFaults \in 0..MaxListFaults

LEMMA ListTypes == ListTypeOK <=> PagesTyped /\ DraftsTyped
  BY DEF ListTypeOK, PagesTyped, DraftsTyped, PageAnswer, DraftSending, Loads

\* Drafts are numbered anew, by the clicks and the first empty page; a draft that has a Context
\* and no reference to it has lost the answer to a creation.
DraftInv ==
    /\ drafts <= clicks + 1 /\ (chosen \/ drafts <= clicks)
    /\ draft <= drafts /\ sending.key <= drafts
    /\ sending.stage # "idle" => sending.key # 0
    /\ sending.stage = "created" => sending.ref = sending.key
    /\ sending.stage = "creating" => made[sending.key] <= listFaults
    /\ \A k \in Drafts : k > drafts => made[k] = 0
    /\ \A k \in Drafts : made[k] <= 1 + listFaults
    /\ draft # 0 /\ draftRef = 0 /\ ~(sending.stage = "created" /\ sending.key = draft)
         => made[draft] <= listFaults

\* As long as no draft was left while its Context was created, the reference is the draft's.
OwnContextInv ==
    interrupted \/
        /\ draft # 0 => draftRef \in {0, draft}
        /\ sending.stage \in {"creating", "created"} => sending.key = draft
        /\ sending.stage \in {"created", "emitting", "taken"} => sending.ref = sending.key
        /\ \A w \in written : w[1] = w[2]

DraftsInv == DraftsTyped /\ DraftInv /\ OwnContextInv

LEMMA ListConstants ==
  /\ Rooms \subseteq Nat /\ IsFiniteSet(Rooms) /\ Rooms # {}
  /\ RoomHome \in [Rooms -> Workspaces]
  /\ ListPage \in Nat \ {0} /\ MaxStamp \in Nat /\ Cardinality(Rooms) <= MaxStamp
  /\ MaxClicks \in Nat /\ MaxListFaults \in Nat
  /\ 0 \in Drafts /\ 0 \in Stamps
  BY ListAssumption DEF ListAssumption, Drafts, Stamps

LEMMA AWorkspace == (CHOOSE w \in Workspaces : TRUE) \in Workspaces
  <1>1. PICK c \in Rooms : RoomHome[c] \in Workspaces
    BY ListConstants
  <1> QED BY <1>1

LEMMA NotSendingTyped ==
  NotSending \in DraftSending /\ NotSending.stage = "idle" /\ NotSending.key = 0
  BY ListConstants, AWorkspace DEF NotSending, DraftSending

LEMMA DraftsInvInit == ListInit => DraftsInv
  <1> SUFFICES ASSUME ListInit PROVE DraftsInv
    OBVIOUS
  <1>1. /\ made \in [Drafts -> 0..(MaxListFaults + 1)] /\ \A k \in Drafts : made[k] = 0
    BY ListConstants DEF ListInit
  <1>2. /\ draft = 0 /\ draftRef = 0 /\ sending = NotSending /\ written = {} /\ drafts = 0
        /\ interrupted = FALSE /\ clicks = 0 /\ listFaults = 0 /\ chosen = FALSE
    BY DEF ListInit
  <1>3. DraftsTyped
    <2>1. clicks \in 0..MaxClicks /\ listFaults \in 0..MaxListFaults
      BY <1>2, ListConstants
    <2>2. sending \in DraftSending /\ written \subseteq Drafts \X Drafts
      BY <1>2, NotSendingTyped
    <2> QED BY <1>1, <1>2, <2>1, <2>2, ListConstants DEF DraftsTyped
  <1>4. DraftInv
    BY <1>1, <1>2, NotSendingTyped DEF DraftInv
  <1> QED BY <1>2, <1>3, <1>4, NotSendingTyped DEF DraftsInv, OwnContextInv

LEMMA ClicksTyped ==
  ASSUME DraftsTyped, Click
  PROVE  clicks' = clicks + 1 /\ clicks' \in 0..MaxClicks
  BY ListConstants DEF DraftsTyped, Click, Spent

LEMMA ListFaultsTyped ==
  ASSUME DraftsTyped, ListFault
  PROVE  listFaults' = listFaults + 1 /\ listFaults' \in 0..MaxListFaults
  BY ListConstants DEF DraftsTyped, ListFault

LEMMA CountsGrow ==
  ASSUME NEW d \in Nat, NEW c \in Nat, NEW e \in Nat, c <= e
  PROVE  /\ d <= c + 1 => d <= e + 1
         /\ d <= c => d <= e
  OBVIOUS

LEMMA CountsAreDrafts ==
  ASSUME NEW d \in Nat, NEW c \in 0..MaxClicks, d <= c + 1
  PROVE  d \in Drafts
  <1>1. MaxClicks \in Nat
    BY ListConstants
  <1> QED BY <1>1 DEF Drafts

\* A step that leaves the drafts alone.
LEMMA DraftsStay ==
  ASSUME DraftsInv, UNCHANGED draftVars, chosen' = chosen \/ chosen' = TRUE,
         \/ UNCHANGED clicks
         \/ Click,
         \/ UNCHANGED listFaults
         \/ ListFault
  PROVE  DraftsInv'
  <1>1. UNCHANGED <<draft, draftRef, sending, made, written, drafts, interrupted>>
    BY DEF draftVars
  <1>2. /\ clicks' \in 0..MaxClicks /\ listFaults' \in 0..MaxListFaults
        /\ clicks <= clicks' /\ listFaults <= listFaults' /\ chosen' \in BOOLEAN
    <2>1. clicks' \in 0..MaxClicks /\ clicks <= clicks'
      BY ClicksTyped DEF DraftsInv, DraftsTyped
    <2>2. listFaults' \in 0..MaxListFaults /\ listFaults <= listFaults'
      BY ListFaultsTyped DEF DraftsInv, DraftsTyped
    <2> QED BY <2>1, <2>2 DEF DraftsInv, DraftsTyped
  <1>3. DraftsTyped'
    BY <1>1, <1>2 DEF DraftsInv, DraftsTyped
  <1>4. DraftInv'
    <2>1. /\ made \in [Drafts -> 0..(MaxListFaults + 1)] /\ draft \in Drafts
          /\ sending.key \in Drafts /\ drafts \in Drafts /\ clicks \in Nat /\ clicks' \in Nat
          /\ listFaults \in Nat /\ listFaults' \in Nat /\ Drafts \subseteq Nat
      BY <1>2 DEF DraftsInv, DraftsTyped, DraftSending, Drafts
    <2>2. drafts <= clicks' + 1 /\ (chosen' \/ drafts <= clicks')
      <3>1. drafts <= clicks + 1 /\ (chosen \/ drafts <= clicks)
        BY DEF DraftsInv, DraftInv
      <3>2. drafts \in Nat /\ clicks <= clicks'
        BY <1>2, <2>1
      <3>3. chosen => chosen'
        OBVIOUS
      <3> QED BY <2>1, <3>1, <3>2, <3>3, CountsGrow
    <2>3. \A k \in Drafts : (made[k] <= listFaults => made[k] <= listFaults') /\ made[k] <= 1 + listFaults'
      BY <1>2, <2>1 DEF DraftsInv, DraftInv
    <2> QED BY <1>1, <2>1, <2>2, <2>3 DEF DraftsInv, DraftInv
  <1> QED BY <1>1, <1>3, <1>4 DEF DraftsInv, OwnContextInv

\* A new draft.
LEMMA DraftOpens ==
  ASSUME DraftsInv, OpenDraft(drafts + 1), UNCHANGED listFaults,
         \/ ~chosen /\ chosen' = TRUE /\ UNCHANGED clicks
         \/ UNCHANGED chosen /\ Click
  PROVE  DraftsInv'
  <1> DEFINE k == drafts + 1
  <1>1. /\ draft' = k /\ drafts' = k /\ draftRef' = 0 /\ UNCHANGED <<sending, made, written>>
        /\ interrupted' = (interrupted \/ sending.stage \in {"creating", "created"})
    BY DEF OpenDraft, Interrupts
  <1>2. /\ drafts \in Nat /\ clicks \in Nat /\ chosen \in BOOLEAN /\ interrupted \in BOOLEAN
        /\ drafts <= clicks + 1 /\ (chosen \/ drafts <= clicks)
        /\ sending.key \in Nat /\ sending.key <= drafts
    BY DEF DraftsInv, DraftsTyped, DraftInv, DraftSending, Drafts
  <1>3. /\ clicks' \in 0..MaxClicks /\ chosen' \in BOOLEAN
        /\ k <= clicks' + 1 /\ (chosen' \/ k <= clicks')
    <2>1. CASE ~chosen /\ chosen' = TRUE /\ UNCHANGED clicks
      BY <1>2, <2>1 DEF DraftsInv, DraftsTyped
    <2>2. CASE UNCHANGED chosen /\ Click
      BY <1>2, <2>2, ClicksTyped DEF DraftsInv
    <2> QED BY <2>1, <2>2
  <1>4. k \in Drafts
    <2>1. drafts + 1 \in Nat
      BY <1>2
    <2> HIDE DEF k
    <2>2. k \in Nat
      BY <2>1 DEF k
    <2> QED BY <1>3, <2>2, CountsAreDrafts
  <1>5. made[k] = 0
    BY <1>2, <1>4 DEF DraftsInv, DraftInv
  <1> HIDE DEF k
  <1>6. DraftsTyped'
    BY <1>1, <1>2, <1>3, <1>4, ListConstants DEF DraftsInv, DraftsTyped
  <1>7. DraftInv'
    <2>1. \A j \in Drafts : j > k => made[j] = 0
      BY <1>2 DEF DraftsInv, DraftInv, Drafts, k
    <2>2. k <= k /\ sending.key <= k /\ 0 <= listFaults
      BY <1>2 DEF DraftsInv, DraftsTyped, k
    <2> QED BY <1>1, <1>3, <1>5, <2>1, <2>2 DEF DraftsInv, DraftInv
  <1> QED BY <1>1, <1>6, <1>7 DEF DraftsInv, OwnContextInv

\* The draft is left.
LEMMA DraftIsLeft ==
  ASSUME DraftsInv, draft' = 0, draftRef' = 0, Interrupts, Click, chosen' \in BOOLEAN,
         UNCHANGED <<sending, made, written, drafts, listFaults>>
  PROVE  DraftsInv'
  <1>1. interrupted' = (interrupted \/ sending.stage \in {"creating", "created"})
    BY DEF Interrupts
  <1>2. /\ drafts \in Nat /\ clicks \in Nat /\ chosen \in BOOLEAN /\ interrupted \in BOOLEAN
        /\ drafts <= clicks + 1
    BY DEF DraftsInv, DraftsTyped, DraftInv, Drafts
  <1>3. /\ clicks' \in 0..MaxClicks /\ drafts <= clicks' + 1 /\ drafts <= clicks'
    BY <1>2, ClicksTyped DEF DraftsInv
  <1>4. DraftsTyped'
    BY <1>1, <1>2, <1>3, ListConstants DEF DraftsInv, DraftsTyped
  <1>5. DraftInv'
    <2>1. 0 <= drafts /\ (chosen' \/ drafts <= clicks')
      BY <1>2, <1>3
    <2> QED BY <1>3, <2>1 DEF DraftsInv, DraftInv
  <1> QED BY <1>1, <1>4, <1>5 DEF DraftsInv, OwnContextInv

LEMMA StartOutcomeInv ==
  ASSUME DraftsInv, onDisplay \in Workspaces, StartOutcome
  PROVE  DraftsInv'
  <1>1. /\ draft # 0 /\ sending.stage = "idle" /\ Click
        /\ sending' = [stage |-> FirstStep, key |-> draft, ref |-> draftRef, home |-> onDisplay]
        /\ UNCHANGED <<draft, draftRef, made, written, drafts, interrupted, chosen, listFaults>>
    BY DEF StartOutcome
  <1>2. /\ sending'.key = draft /\ sending'.ref = draftRef
        /\ sending'.stage = IF draftRef = 0 THEN "creating" ELSE "emitting"
    BY <1>1 DEF FirstStep
  <1>3. DraftsTyped'
    <2>1. sending' \in DraftSending
      BY <1>1 DEF DraftSending, FirstStep, DraftsInv, DraftsTyped
    <2>2. clicks' \in 0..MaxClicks
      BY <1>1, ClicksTyped DEF DraftsInv
    <2> QED BY <1>1, <2>1, <2>2 DEF DraftsInv, DraftsTyped
  <1>4. DraftInv'
    <2>1. drafts <= clicks' + 1 /\ (chosen \/ drafts <= clicks')
      <3>1. drafts \in Nat /\ clicks \in Nat /\ clicks' = clicks + 1
        BY <1>1, ClicksTyped DEF DraftsInv, DraftsTyped, Drafts
      <3>2. drafts <= clicks + 1
        BY DEF DraftsInv, DraftInv
      <3> QED BY <3>1, <3>2
    <2>2. draftRef = 0 => made[draft] <= listFaults
      BY <1>1 DEF DraftsInv, DraftInv
    <2> QED BY <1>1, <1>2, <2>1, <2>2 DEF DraftsInv, DraftInv
  <1>5. OwnContextInv'
    BY <1>1, <1>2 DEF DraftsInv, OwnContextInv
  <1> QED BY <1>3, <1>4, <1>5 DEF DraftsInv

LEMMA BusTakesDraftInv ==
  ASSUME DraftsInv, BusTakesDraft
  PROVE  DraftsInv'
  <1>1. UNCHANGED <<draft, draftRef, drafts, interrupted, chosen, clicks, listFaults>>
    BY DEF BusTakesDraft, pageListVars
  <1>2. /\ sending \in DraftSending /\ made \in [Drafts -> 0..(MaxListFaults + 1)]
        /\ sending.key \in Drafts /\ sending.ref \in Drafts /\ Drafts \subseteq Nat
        /\ listFaults \in 0..MaxListFaults /\ MaxListFaults \in Nat /\ draft \in Drafts
        /\ drafts \in Nat /\ written \subseteq Drafts \X Drafts
    BY ListConstants DEF DraftsInv, DraftsTyped, DraftSending, Drafts
  <1>3. CASE sending.stage = "creating"
    <2>1. /\ sending' = [sending EXCEPT !.stage = "created", !.ref = sending.key]
          /\ made' = [made EXCEPT ![sending.key] = @ + 1] /\ UNCHANGED written
      BY <1>3 DEF BusTakesDraft
    <2>2. /\ sending' \in DraftSending /\ sending'.stage = "created"
          /\ sending'.key = sending.key /\ sending'.ref = sending.key
      BY <1>2, <2>1 DEF DraftSending
    <2>3. /\ made[sending.key] <= listFaults /\ made[sending.key] \in Nat
          /\ sending.key <= drafts /\ sending.key # 0
      <3>1. made[sending.key] \in 0..(MaxListFaults + 1)
        BY <1>2
      <3> QED BY <1>2, <1>3, <3>1 DEF DraftsInv, DraftInv
    <2>4. /\ made' \in [Drafts -> 0..(MaxListFaults + 1)]
          /\ made'[sending.key] = made[sending.key] + 1
          /\ \A j \in Drafts : j # sending.key => made'[j] = made[j]
      BY <1>2, <2>1, <2>3
    <2>5. DraftsTyped'
      BY <1>1, <2>1, <2>2, <2>4 DEF DraftsInv, DraftsTyped
    <2>6. DraftInv'
      <3>1. \A j \in Drafts : j > drafts => made'[j] = 0
        BY <1>2, <2>3, <2>4 DEF DraftsInv, DraftInv
      <3>2. \A j \in Drafts : made'[j] <= 1 + listFaults
        BY <1>2, <2>3, <2>4 DEF DraftsInv, DraftInv
      <3>3. draft # 0 /\ draftRef = 0 /\ sending.key # draft => made'[draft] <= listFaults
        BY <1>2, <1>3, <2>4 DEF DraftsInv, DraftInv
      <3> QED BY <1>1, <2>2, <2>3, <3>1, <3>2, <3>3 DEF DraftsInv, DraftInv
    <2>7. OwnContextInv'
      BY <1>1, <1>3, <2>1, <2>2 DEF DraftsInv, OwnContextInv
    <2> QED BY <2>5, <2>6, <2>7 DEF DraftsInv
  <1>4. CASE sending.stage = "emitting"
    <2>1. /\ sending' = [sending EXCEPT !.stage = "taken"]
          /\ written' = written \cup {<<sending.key, sending.ref>>} /\ UNCHANGED made
      BY <1>4 DEF BusTakesDraft
    <2>2. /\ sending' \in DraftSending /\ sending'.stage = "taken"
          /\ sending'.key = sending.key /\ sending'.ref = sending.ref
      BY <1>2, <2>1 DEF DraftSending
    <2>3. written' \subseteq Drafts \X Drafts
      BY <1>2, <2>1
    <2>4. DraftsTyped'
      BY <1>1, <2>1, <2>2, <2>3 DEF DraftsInv, DraftsTyped
    <2>5. DraftInv'
      BY <1>1, <1>4, <2>1, <2>2 DEF DraftsInv, DraftInv
    <2>6. OwnContextInv'
      BY <1>1, <1>4, <2>1, <2>2 DEF DraftsInv, OwnContextInv
    <2> QED BY <2>4, <2>5, <2>6 DEF DraftsInv
  <1> QED BY <1>3, <1>4 DEF BusTakesDraft

LEMMA ContextMadeInv ==
  ASSUME DraftsInv, ContextMade
  PROVE  DraftsInv'
  <1>1. /\ UNCHANGED <<draft, drafts, interrupted, chosen, made, written, clicks, listFaults>>
        /\ sending.stage = "created" /\ draftRef' = sending.ref
        /\ sending' = [sending EXCEPT !.stage = "emitting"]
    BY DEF ContextMade, pageListVars
  <1>2. sending \in DraftSending
    BY DEF DraftsInv, DraftsTyped
  <1>3. /\ sending' \in DraftSending /\ sending'.stage = "emitting"
        /\ sending'.key = sending.key /\ sending'.ref = sending.ref /\ sending.ref \in Drafts
    BY <1>1, <1>2 DEF DraftSending
  <1>4. sending.ref = sending.key /\ sending.key # 0
    BY <1>1 DEF DraftsInv, DraftInv
  <1>5. DraftsTyped'
    BY <1>1, <1>3 DEF DraftsInv, DraftsTyped
  <1>6. DraftInv'
    BY <1>1, <1>3, <1>4 DEF DraftsInv, DraftInv
  <1>7. OwnContextInv'
    BY <1>1, <1>3, <1>4 DEF DraftsInv, OwnContextInv
  <1> QED BY <1>5, <1>6, <1>7 DEF DraftsInv

LEMMA DraftSentInv ==
  ASSUME DraftsInv, DraftSent
  PROVE  DraftsInv'
  <1>1. /\ UNCHANGED <<draftRef, drafts, interrupted, chosen, made, written, clicks, listFaults>>
        /\ sending' = NotSending /\ draft' = 0
    BY DEF DraftSent
  <1>2. 0 <= drafts
    BY DEF DraftsInv, DraftsTyped, Drafts
  <1>3. DraftsTyped'
    BY <1>1, NotSendingTyped, ListConstants DEF DraftsInv, DraftsTyped
  <1>4. DraftInv' /\ OwnContextInv'
    BY <1>1, <1>2, NotSendingTyped DEF DraftsInv, DraftInv, OwnContextInv
  <1> QED BY <1>3, <1>4 DEF DraftsInv

\* A call that fails may have had the Context created.
LEMMA DraftFailsInv ==
  ASSUME DraftsInv, DraftFails
  PROVE  DraftsInv'
  <1>1. /\ UNCHANGED <<draft, draftRef, drafts, interrupted, chosen, made, written, clicks>>
        /\ sending' = NotSending /\ ListFault
    BY DEF DraftFails
  <1>2. listFaults' = listFaults + 1 /\ listFaults' \in 0..MaxListFaults
    BY <1>1, ListFaultsTyped DEF DraftsInv
  <1>3. DraftsTyped'
    BY <1>1, <1>2, NotSendingTyped DEF DraftsInv, DraftsTyped
  <1>4. DraftInv'
    <2>1. /\ listFaults \in Nat /\ made \in [Drafts -> Nat] /\ draft \in Drafts /\ 0 <= drafts
      BY DEF DraftsInv, DraftsTyped, Drafts
    <2>2. \A j \in Drafts : made[j] <= listFaults' /\ made[j] <= 1 + listFaults'
      BY <1>2, <2>1 DEF DraftsInv, DraftInv
    <2> QED BY <1>1, <2>1, <2>2, NotSendingTyped DEF DraftsInv, DraftInv
  <1>5. OwnContextInv'
    BY <1>1, NotSendingTyped DEF DraftsInv, OwnContextInv
  <1> QED BY <1>3, <1>4, <1>5 DEF DraftsInv

LEMMA DraftsInvNext ==
  DraftsInv /\ onDisplay \in Workspaces /\ [ListNext]_listVars => DraftsInv'
  <1> SUFFICES ASSUME DraftsInv, onDisplay \in Workspaces, [ListNext]_listVars PROVE DraftsInv'
    OBVIOUS
  <1>1. CASE UNCHANGED listVars
    BY <1>1, DraftsStay DEF listVars, pageListVars
  <1>2. CASE \E w \in Workspaces : ListHears(w)
    BY <1>2, DraftsStay DEF ListHears
  <1>3. CASE \E k \in Loads : FirstAnswered(k) \/ FirstFails(k)
    BY <1>3, DraftsStay DEF FirstAnswered, FirstFails
  <1>4. CASE \E k \in Loads : FirstApplied(k)
    <2> PICK k \in Loads : FirstApplied(k)
      BY <1>4
    <2>1. CASE UNCHANGED draftVars
      BY <2>1, DraftsStay DEF FirstApplied
    <2>2. CASE OpenDraft(drafts + 1) /\ ~chosen /\ chosen' = TRUE
      BY <2>2, DraftOpens DEF FirstApplied
    <2> QED BY <2>1, <2>2 DEF FirstApplied
  <1>5. CASE LoadOlder \/ OlderAnswered \/ OlderApplied \/ OlderFails \/ ListOpens
    BY <1>5, DraftsStay DEF LoadOlder, OlderAnswered, OlderApplied, OlderFails, ListOpens,
                            pageListVars
  <1>6. CASE \E c \in Rooms : RoomActivity(c) \/ DeleteCurrentConversation(c)
    BY <1>6, DraftsStay DEF RoomActivity, DeleteCurrentConversation, pageListVars
  <1>7. CASE \E w \in Workspaces : SwitchWorkspace(w)
    BY <1>7, DraftIsLeft DEF SwitchWorkspace
  <1>11. CASE EndpointsArrive \/ RefreshActors
    BY <1>11, DraftsStay DEF EndpointsArrive, RefreshActors, LoadsAnew
  <1>8. CASE StartNewWith
    BY <1>8, DraftOpens DEF StartNewWith
  <1>9. CASE OpenConversation
    <2>1. chosen' \in BOOLEAN
      BY <1>9 DEF OpenConversation, DraftsInv, DraftsTyped
    <2> QED BY <1>9, <2>1, DraftIsLeft DEF OpenConversation
  <1>10. CASE StartOutcome \/ BusTakesDraft \/ ContextMade \/ DraftSent \/ DraftFails
    BY <1>10, StartOutcomeInv, BusTakesDraftInv, ContextMadeInv, DraftSentInv, DraftFailsInv
  <1> QED BY <1>1, <1>2, <1>3, <1>4, <1>5, <1>6, <1>7, <1>8, <1>9, <1>10, <1>11
          DEF ListNext, ListProceeds, Loads

-----------------------------------------------------------------------------
(* The pages of the list                                                   *)

\* Conversations are told apart by their latest activity.
StampsDiffer ==
    \A c, d \in Rooms : stamp[c] # 0 /\ stamp[c] = stamp[d] => c = d

\* A page holds conversations of the workspace it was asked for; an older page that was asked
\* for in another workspace leads astray.
PagesAreOfHome ==
    /\ \A k \in Loads : \A c \in firstPage[k].page : RoomHome[c] = firstPage[k].home
    /\ \A c \in olderPage.page : RoomHome[c] = olderPage.home
    /\ olderPage.stage # "idle" /\ ~astray => olderPage.home = onDisplay

\* What was not led astray was loaded for the workspace on display.
ShownIsLoaded == ~astray => \A c \in list : RoomHome[c] = onDisplay

Undisturbed == ~unheard /\ onDisplay \notin tidings

\* The conversations on display with an activity from the given one on.
RoomsFrom(low) == {c \in Rooms : RoomHome[c] = onDisplay /\ stamp[c] # 0 /\ low <= stamp[c]}

\* As long as the window has heard of every activity, the answer to the latest load is whole
\* down to its cursor; and so is the list once it is applied, and the older page, which
\* goes on where the list ends.
PagesAreWhole ==
    /\ LET answer == firstPage["latest"]
       IN answer.stage = "answered" /\ answer.home = onDisplay /\ Undisturbed
          => RoomsFrom(answer.next) \subseteq answer.page
    /\ fresh /\ ~astray /\ Undisturbed /\ firstPage["latest"].stage = "idle"
       => /\ RoomsFrom(nextCursor) \subseteq list
          /\ olderPage.stage = "asked" => olderPage.next = nextCursor
          /\ olderPage.stage = "answered"
               => RoomsFrom(olderPage.next) \subseteq olderPage.page \cup RoomsFrom(nextCursor)

ListPagesInv ==
    /\ PagesTyped /\ StampsDiffer
    /\ PagesAreOfHome /\ ShownIsLoaded /\ PagesAreWhole

LEMMA RoomsAreFinite ==
  ASSUME NEW T \in SUBSET Rooms
  PROVE  /\ IsFiniteSet(T) /\ Cardinality(T) \in Nat /\ Cardinality(T) <= MaxStamp
  <1>1. IsFiniteSet(T) /\ Cardinality(T) <= Cardinality(Rooms)
    BY ListConstants, FS_Subset
  <1>2. Cardinality(T) \in Nat /\ Cardinality(Rooms) \in Nat
    BY <1>1, ListConstants, FS_CardinalityType
  <1> QED BY <1>1, <1>2, ListConstants

\* Among some conversations there are the one of the least activity and the one of the latest.
LEMMA RoomsHaveEnds ==
  ASSUME NEW T \in SUBSET Rooms, T # {}, NEW f \in [Rooms -> Nat]
  PROVE  /\ \E x \in T : \A y \in T : f[x] <= f[y]
         /\ \E x \in T : \A y \in T : f[y] <= f[x]
  <1> DEFINE spot == [x \in T |-> <<f[x], x>>]
             spots == {spot[x] : x \in T}
  <1>0. \A x \in T : spot[x] = <<f[x], x>> /\ f[x] \in Nat /\ x \in Nat
    BY ListConstants
  <1>1. spots \subseteq Spots /\ spots # {}
    <2>1. \A x \in T : <<f[x], x>> \in Nat \X Nat
      BY <1>0
    <2> QED BY <1>0, <2>1 DEF Spots
  <1>2. IsFiniteSet(spots)
    <2>1. spot \in Surjection(T, spots)
      BY DEF Surjection
    <2> QED BY <2>1, RoomsAreFinite, FS_Surjection
  <1>3. /\ EndOf(spots) \in spots
        /\ \A y \in spots : y = EndOf(spots) \/ Before(y, EndOf(spots))
        /\ StartOf(spots) \in spots
        /\ \A y \in spots : y = StartOf(spots) \/ Before(StartOf(spots), y)
    <2> HIDE DEF spots
    <2> QED BY <1>1, <1>2, PageHasEnds
  <1>4. \A y \in T : spot[y] \in spots
    OBVIOUS
  <1>5. \A m \in spots : \E x \in T : m = spot[x]
    OBVIOUS
  <1> HIDE DEF spot, spots
  <1>6. PICK first \in T : StartOf(spots) = spot[first]
    BY <1>3, <1>5
  <1>7. PICK last \in T : EndOf(spots) = spot[last]
    BY <1>3, <1>5
  <1>8. ASSUME NEW y \in T PROVE f[first] <= f[y] /\ f[y] <= f[last]
    <2>1. /\ spot[y] = spot[first] \/ Before(spot[first], spot[y])
          /\ spot[y] = spot[last] \/ Before(spot[y], spot[last])
      BY <1>3, <1>4, <1>6, <1>7
    <2>2. /\ spot[y][1] = f[y] /\ spot[first][1] = f[first] /\ spot[last][1] = f[last]
          /\ f[y] \in Nat /\ f[first] \in Nat /\ f[last] \in Nat
      BY <1>0
    <2> QED BY <2>1, <2>2 DEF Before
  <1> QED BY <1>8

LEMMA EndsOfStamps ==
  ASSUME NEW T \in SUBSET Rooms, T # {}, NEW f \in [Rooms -> Nat]
  PROVE  /\ \E x \in T : Min({f[c] : c \in T}) = f[x] /\ \A y \in T : f[x] <= f[y]
         /\ \E x \in T : Max({f[c] : c \in T}) = f[x] /\ \A y \in T : f[y] <= f[x]
  <1> DEFINE marks == {f[c] : c \in T}
  <1>0. marks \subseteq Nat
    OBVIOUS
  <1>1. PICK x \in T : \A y \in T : f[x] <= f[y]
    BY RoomsHaveEnds
  <1>2. PICK z \in T : \A y \in T : f[y] <= f[z]
    BY RoomsHaveEnds
  <1>3. f[x] \in marks /\ \A m \in marks : f[x] <= m
    BY <1>1
  <1>4. f[z] \in marks /\ \A m \in marks : m <= f[z]
    BY <1>2
  <1>5. Min(marks) = f[x]
    <2> HIDE DEF marks
    <2>1. \A m \in marks : (\A n \in marks : m <= n) => m = f[x]
      BY <1>0, <1>3
    <2> QED BY <1>3, <2>1 DEF Min
  <1>6. Max(marks) = f[z]
    <2> HIDE DEF marks
    <2>1. \A m \in marks : (\A n \in marks : m >= n) => m = f[z]
      BY <1>0, <1>4
    <2>2. \A n \in marks : f[z] >= n
      BY <1>0, <1>4
    <2> QED BY <1>4, <2>1, <2>2 DEF Max
  <1> QED BY <1>1, <1>2, <1>5, <1>6

\* What the bus answers: conversations of the workspace, and all of them down to the cursor.
\* The page has ListPage of them unless there are fewer, since their activities differ.
LEMMA PageIsWhole ==
  ASSUME stamp \in [Rooms -> Stamps], StampsDiffer, NEW w, NEW before \in Nat
  PROVE  LET page == PageOf(w, before)
         IN /\ page \in SUBSET Rooms /\ \A c \in page : RoomHome[c] = w
            /\ NextOf(page) \in Stamps
            /\ \A c \in RoomsOf(w, before) : NextOf(page) <= stamp[c] => c \in page
  <1> DEFINE all == RoomsOf(w, before)
             later(c) == {d \in all : stamp[d] > stamp[c]}
             page == PageOf(w, before)
  <1>1. /\ all \in SUBSET Rooms /\ \A c \in all : RoomHome[c] = w /\ stamp[c] # 0
        /\ page \subseteq all /\ \A c \in all : c \in page <=> Cardinality(later(c)) < ListPage
    BY DEF RoomsOf, PageOf
  <1>2. /\ stamp \in [Rooms -> Nat] /\ \A c \in Rooms : stamp[c] \in Stamps
        /\ ListPage \in Nat \ {0}
    BY ListConstants DEF Stamps
  <1>3. \A c \in all : /\ later(c) \in SUBSET Rooms /\ Cardinality(later(c)) \in Nat
    <2> SUFFICES ASSUME NEW c \in all
                 PROVE  later(c) \in SUBSET Rooms /\ Cardinality(later(c)) \in Nat
      OBVIOUS
    <2>1. later(c) \in SUBSET Rooms
      BY <1>1
    <2> QED BY <2>1, RoomsAreFinite
  <1>4. \A c \in all, d \in all : d \in later(c) <=> stamp[c] < stamp[d]
    BY <1>1, <1>2
  <1>5. \A c \in all : later(c) \subseteq all
    OBVIOUS
  <1> HIDE DEF all, later, page
  <1>6. IsFiniteSet(page) /\ Cardinality(page) \in Nat /\ page \in SUBSET Rooms
    BY <1>1, RoomsAreFinite
  <1>7. CASE Cardinality(page) = ListPage
    <2>1. page # {}
      BY <1>2, <1>7, FS_EmptySet
    <2>2. PICK m \in page : Min({stamp[c] : c \in page}) = stamp[m] /\ \A c \in page : stamp[m] <= stamp[c]
      BY <1>2, <1>6, <2>1, EndsOfStamps
    <2>3. NextOf(page) = stamp[m]
      BY <1>7, <2>2 DEF NextOf
    <2>4. ASSUME NEW c \in all, stamp[m] <= stamp[c] PROVE c \in page
      <3>1. later(c) \subseteq later(m)
        <4> SUFFICES ASSUME NEW d \in later(c) PROVE d \in later(m)
          OBVIOUS
        <4>1. d \in all /\ m \in all /\ stamp[c] < stamp[d]
          BY <1>1, <1>4, <1>5
        <4>2. stamp[m] \in Nat /\ stamp[c] \in Nat /\ stamp[d] \in Nat
          BY <1>1, <1>2, <4>1
        <4>3. stamp[m] < stamp[d]
          BY <2>4, <4>1, <4>2
        <4> QED BY <1>4, <4>1, <4>3
      <3>2. m \in all /\ Cardinality(later(m)) < ListPage
        BY <1>1
      <3>3. Cardinality(later(c)) <= Cardinality(later(m))
        BY <1>3, <3>1, <3>2, RoomsAreFinite, FS_Subset
      <3>4. Cardinality(later(c)) < ListPage
        BY <1>2, <1>3, <3>2, <3>3
      <3> QED BY <1>1, <3>4
    <2> QED BY <1>1, <1>2, <1>6, <2>3, <2>4 DEF all, page
  <1>8. CASE Cardinality(page) # ListPage
    <2>1. Cardinality(page) <= ListPage
      <3>1. CASE page = {}
        BY <1>2, <3>1, FS_EmptySet
      <3>2. CASE page # {}
        <4>1. PICK m \in page : \A c \in page : stamp[m] <= stamp[c]
          BY <1>2, <1>6, <3>2, RoomsHaveEnds
        <4>2. page \ {m} \subseteq later(m)
          <5> SUFFICES ASSUME NEW c \in page, c # m PROVE c \in later(m)
            OBVIOUS
          <5>1. c \in all /\ m \in all /\ c \in Rooms /\ m \in Rooms /\ stamp[c] # 0
            BY <1>1
          <5>2. stamp[c] # stamp[m]
            BY <5>1 DEF StampsDiffer
          <5>3. stamp[m] <= stamp[c] /\ stamp[m] \in Nat /\ stamp[c] \in Nat
            BY <1>2, <4>1, <5>1
          <5>4. stamp[m] < stamp[c]
            BY <5>2, <5>3
          <5> QED BY <1>4, <5>1, <5>4
        <4>3. m \in all /\ Cardinality(later(m)) < ListPage /\ Cardinality(later(m)) \in Nat
          BY <1>1, <1>3
        <4>4. IsFiniteSet(later(m))
          BY <1>3, <4>3, RoomsAreFinite
        <4>5. Cardinality(page \ {m}) <= Cardinality(later(m))
          BY <4>2, <4>4, FS_Subset
        <4>6. Cardinality(page \ {m}) = Cardinality(page) - 1
          BY <1>6, FS_RemoveElement
        <4> QED BY <1>2, <1>6, <4>3, <4>5, <4>6
      <3> QED BY <3>1, <3>2
    <2>2. ASSUME all \ page # {} PROVE FALSE
      <3>1. all \ page \in SUBSET Rooms
        BY <1>1
      <3>2. PICK c \in all \ page : \A d \in all \ page : stamp[d] <= stamp[c]
        BY <1>2, <2>2, <3>1, RoomsHaveEnds
      <3>3. later(c) \subseteq page
        <4> SUFFICES ASSUME NEW d \in later(c), d \notin page PROVE FALSE
          OBVIOUS
        <4>1. d \in all /\ c \in all /\ stamp[c] < stamp[d]
          BY <1>4, <1>5
        <4>2. stamp[d] <= stamp[c] /\ stamp[c] \in Nat /\ stamp[d] \in Nat
          BY <1>1, <1>2, <3>2, <4>1
        <4> QED BY <4>1, <4>2
      <3>4. Cardinality(later(c)) <= Cardinality(page)
        BY <1>6, <3>3, FS_Subset
      <3>5. Cardinality(later(c)) \in Nat /\ ~(Cardinality(later(c)) < ListPage)
        BY <1>1, <1>3
      <3> QED BY <1>2, <1>6, <1>8, <2>1, <3>4, <3>5
    <2>3. NextOf(page) = 0
      BY <1>8 DEF NextOf
    <2> QED BY <1>1, <1>6, <2>2, <2>3, ListConstants DEF all, page
  <1> QED BY <1>7, <1>8

LEMMA NoPageTyped == NoPage \in PageAnswer /\ NoPage.stage = "idle" /\ NoPage.page = {}
  BY AWorkspace, ListConstants DEF NoPage, PageAnswer

LEMMA AsksTyped ==
  ASSUME NEW w \in Workspaces
  PROVE  /\ Asks(w) \in PageAnswer /\ Asks(w).stage = "asked" /\ Asks(w).page = {}
         /\ Asks(w).home = w
  BY ListConstants DEF Asks, NoPage, PageAnswer

LEMMA FirstStamps ==
  ASSUME NEW f, f = [c \in Rooms |-> Cardinality({d \in Rooms : d <= c})]
  PROVE  f \in [Rooms -> Stamps] /\ \A c, d \in Rooms : f[c] = f[d] => c = d
  <1> DEFINE upto(c) == {d \in Rooms : d <= c}
  <1>1. \A c \in Rooms : /\ upto(c) \in SUBSET Rooms /\ f[c] = Cardinality(upto(c))
                        /\ \A d \in Rooms : d \in upto(c) <=> d <= c
    OBVIOUS
  <1> HIDE DEF upto
  <1>2. \A c \in Rooms : f[c] \in Stamps
    <2> SUFFICES ASSUME NEW c \in Rooms PROVE f[c] \in Stamps
      OBVIOUS
    <2>1. Cardinality(upto(c)) \in Nat /\ Cardinality(upto(c)) <= MaxStamp
      BY <1>1, RoomsAreFinite
    <2> QED BY <1>1, <2>1, ListConstants DEF Stamps
  <1>3. \A c, d \in Rooms : c < d => f[c] # f[d]
    <2> SUFFICES ASSUME NEW c \in Rooms, NEW d \in Rooms, c < d, f[c] = f[d] PROVE FALSE
      OBVIOUS
    <2>1. Rooms \subseteq Nat
      BY ListConstants
    <2>2. upto(c) \subseteq upto(d)
      <3> SUFFICES ASSUME NEW x \in upto(c) PROVE x \in upto(d)
        OBVIOUS
      <3>1. x \in Rooms /\ x <= c
        BY <1>1
      <3>2. x \in Nat /\ c \in Nat /\ d \in Nat
        BY <2>1, <3>1
      <3>3. x <= d
        BY <3>1, <3>2
      <3> QED BY <1>1, <3>1, <3>3
    <2>3. d \in upto(d) /\ d \notin upto(c)
      <3>1. c \in Nat /\ d \in Nat
        BY <2>1
      <3> QED BY <1>1, <3>1
    <2>4. IsFiniteSet(upto(d)) /\ Cardinality(upto(c)) = Cardinality(upto(d))
      BY <1>1, RoomsAreFinite
    <2> QED BY <2>2, <2>3, <2>4, FS_Subset
  <1>4. f \in [Rooms -> Stamps]
    BY <1>2
  <1>5. ASSUME NEW c \in Rooms, NEW d \in Rooms, f[c] = f[d] PROVE c = d
    <2>1. c \in Nat /\ d \in Nat
      BY ListConstants
    <2>2. ~(c < d) /\ ~(d < c)
      BY <1>3, <1>5
    <2> QED BY <2>1, <2>2
  <1> QED BY <1>4, <1>5

LEMMA ListPagesInvInit == ListInit => ListPagesInv
  <1> SUFFICES ASSUME ListInit PROVE ListPagesInv
    OBVIOUS
  <1>1. stamp \in [Rooms -> Stamps] /\ StampsDiffer
    BY FirstStamps DEF ListInit, StampsDiffer
  <1>2. onDisplay \in Workspaces
    <2> DEFINE own == [c \in Rooms |-> c]
    <2>1. own \in [Rooms -> Nat] /\ {own[c] : c \in Rooms} = Rooms /\ \A c \in Rooms : own[c] \in Rooms
      BY ListConstants
    <2> HIDE DEF own
    <2>2. Min(Rooms) \in Rooms
      <3>1. \E x \in Rooms : Min({own[c] : c \in Rooms}) = own[x]
        <4>1. Rooms \in SUBSET Rooms /\ Rooms # {} /\ own \in [Rooms -> Nat]
          BY <2>1, ListConstants
        <4> QED BY ONLY <4>1, EndsOfStamps
      <3>2. \E x \in Rooms : Min(Rooms) = own[x]
        BY <2>1, <3>1
      <3> QED BY <2>1, <3>2
    <2> QED BY <2>2, ListConstants DEF ListInit
  <1>3. /\ firstPage = [latest |-> Asks(onDisplay), superseded |-> NoPage] /\ olderPage = NoPage
        /\ tidings = {} /\ list = {} /\ nextCursor = 0 /\ listening = TRUE /\ unheard = FALSE
        /\ hasOperator = TRUE
        /\ listLoading = TRUE /\ listError = FALSE /\ fresh = FALSE /\ astray = FALSE
    BY DEF ListInit
  <1>4. /\ firstPage \in [Loads -> PageAnswer]
        /\ firstPage["latest"] = Asks(onDisplay) /\ firstPage["superseded"] = NoPage
    <2>1. /\ DOMAIN firstPage = Loads
          /\ firstPage["latest"] = Asks(onDisplay) /\ firstPage["superseded"] = NoPage
      BY <1>3 DEF Loads
    <2>2. firstPage = [k \in Loads |-> firstPage[k]]
      BY <1>3 DEF Loads
    <2>3. Asks(onDisplay) \in PageAnswer /\ NoPage \in PageAnswer
      BY <1>2, AsksTyped, NoPageTyped
    <2> QED BY <2>1, <2>2, <2>3 DEF Loads
  <1>5. PagesTyped
    BY <1>1, <1>2, <1>3, <1>4, NoPageTyped, ListConstants DEF PagesTyped
  <1>6. PagesAreOfHome
    BY <1>2, <1>3, <1>4, NoPageTyped, AsksTyped DEF PagesAreOfHome, Loads
  <1>7. ShownIsLoaded
    BY <1>3 DEF ShownIsLoaded
  <1>8. PagesAreWhole
    BY <1>2, <1>3, <1>4, AsksTyped DEF PagesAreWhole
  <1> QED BY <1>1, <1>5, <1>6, <1>7, <1>8 DEF ListPagesInv

\* A load of the first page begins, and the error is cleared.
LEMMA LoadBeginsInv ==
  ASSUME ListPagesInv, NEW w \in Workspaces, BeginLoad(w), ClearError,
         tidings' \subseteq Workspaces, stamp' \in [Rooms -> Stamps], StampsDiffer',
         {listening', hasOperator', listLoading'} \subseteq BOOLEAN,
         UNCHANGED <<unheard, onDisplay, list, nextCursor, olderPage, fresh, astray>>
  PROVE  ListPagesInv'
  <1>1. /\ firstPage' \in [Loads -> PageAnswer]
        /\ firstPage'["latest"] = Asks(w) /\ firstPage'["superseded"] = firstPage["latest"]
    <2>1. firstPage' = [latest |-> Asks(w), superseded |-> firstPage.latest]
      BY DEF BeginLoad
    <2>2. Asks(w) \in PageAnswer /\ firstPage["latest"] \in PageAnswer
      BY AsksTyped DEF ListPagesInv, PagesTyped, Loads
    <2>3. firstPage' = [k \in Loads |-> firstPage'[k]]
      BY <2>1 DEF Loads
    <2>4. firstPage'["latest"] = Asks(w) /\ firstPage'["superseded"] = firstPage["latest"]
      BY <2>1
    <2> QED BY <2>2, <2>3, <2>4 DEF Loads
  <1>2. listError' = FALSE
    BY DEF ClearError
  <1>3. PagesTyped'
    BY <1>1, <1>2 DEF ListPagesInv, PagesTyped
  <1>4. PagesAreOfHome'
    BY <1>1, <1>2, AsksTyped DEF ListPagesInv, PagesAreOfHome, Loads
  <1>5. ShownIsLoaded'
    BY DEF ListPagesInv, ShownIsLoaded
  <1>6. PagesAreWhole'
    BY <1>1, AsksTyped DEF PagesAreWhole
  <1> QED BY <1>3, <1>4, <1>5, <1>6 DEF ListPagesInv

\* A step that leaves the pages alone may clear the error.
LEMMA PagesStay ==
  ASSUME ListPagesInv, ClearError \/ UNCHANGED listError, listening' \in BOOLEAN,
         UNCHANGED <<stamp, tidings, unheard, onDisplay, hasOperator, list, nextCursor, firstPage,
                     olderPage, listLoading, fresh, astray>>
  PROVE  ListPagesInv'
  <1>1. listError' \in BOOLEAN
    BY DEF ClearError, ListPagesInv, PagesTyped
  <1>2. PagesTyped'
    BY <1>1 DEF ListPagesInv, PagesTyped
  <1>3. PagesAreOfHome' /\ ShownIsLoaded' /\ StampsDiffer'
    BY <1>1 DEF ListPagesInv, PagesAreOfHome, ShownIsLoaded, StampsDiffer
  <1>4. PagesAreWhole'
    BY <1>1 DEF ListPagesInv, PagesAreWhole, RoomsFrom, Undisturbed
  <1> QED BY <1>2, <1>3, <1>4 DEF ListPagesInv

LEMMA FirstAnsweredInv ==
  ASSUME ListPagesInv, NEW k \in Loads, FirstAnswered(k)
  PROVE  ListPagesInv'
  <1> DEFINE home == firstPage[k].home
             page == PageOf(home, MaxStamp + 1)
             answer == [stage |-> "answered", home |-> home, page |-> page, next |-> NextOf(page)]
  <1>1. /\ firstPage[k].stage = "asked" /\ firstPage' = [firstPage EXCEPT ![k] = answer]
        /\ unheard' = (unheard /\ ~(k = "latest" /\ home = onDisplay))
        /\ UNCHANGED <<stamp, tidings, listening, onDisplay, hasOperator, list, nextCursor,
                       olderPage, listLoading, listError, fresh, astray>>
    BY DEF FirstAnswered, Counts
  <1>2. /\ stamp \in [Rooms -> Stamps] /\ StampsDiffer /\ MaxStamp + 1 \in Nat
        /\ home \in Workspaces
    BY ListConstants DEF ListPagesInv, PagesTyped, PageAnswer
  <1>3. /\ page \in SUBSET Rooms /\ \A c \in page : RoomHome[c] = home
        /\ NextOf(page) \in Stamps
        /\ \A c \in RoomsOf(home, MaxStamp + 1) : NextOf(page) <= stamp[c] => c \in page
    <2> HIDE DEF home
    <2> QED BY <1>2, PageIsWhole
  <1> HIDE DEF page
  <1>4. /\ answer \in PageAnswer /\ answer.stage = "answered" /\ answer.home = home
        /\ answer.page = page /\ answer.next = NextOf(page)
    BY <1>2, <1>3 DEF PageAnswer
  <1>5. home = onDisplay => RoomsFrom(answer.next) \subseteq answer.page
    <2> SUFFICES ASSUME home = onDisplay, NEW c \in RoomsFrom(NextOf(page)) PROVE c \in page
      BY <1>4
    <2>1. c \in Rooms /\ RoomHome[c] = home /\ stamp[c] # 0 /\ NextOf(page) <= stamp[c]
      BY DEF RoomsFrom
    <2>2. stamp[c] \in 0..MaxStamp
      BY <1>2, <2>1 DEF Stamps
    <2>3. stamp[c] < MaxStamp + 1
      BY <2>2, ListConstants
    <2> QED BY <1>3, <2>1, <2>3 DEF RoomsOf
  <1> HIDE DEF answer, home
  <1>6. /\ firstPage' \in [Loads -> PageAnswer] /\ firstPage'[k] = answer
        /\ \A j \in Loads : j # k => firstPage'[j] = firstPage[j]
    BY <1>1, <1>4 DEF ListPagesInv, PagesTyped
  <1>7. PagesTyped'
    <2>1. unheard' \in BOOLEAN
      BY <1>1
    <2> QED BY <1>1, <1>6, <2>1 DEF ListPagesInv, PagesTyped
  <1>8. PagesAreOfHome' /\ ShownIsLoaded' /\ StampsDiffer'
    <2>1. \A j \in Loads : \A c \in firstPage'[j].page : RoomHome[c] = firstPage'[j].home
      BY <1>3, <1>4, <1>6 DEF ListPagesInv, PagesAreOfHome
    <2> QED BY <1>1, <2>1 DEF ListPagesInv, PagesAreOfHome, ShownIsLoaded, StampsDiffer
  <1>9. PagesAreWhole'
    <2>1. CASE k = "latest"
      <3>2. firstPage'["latest"] = answer
        BY <1>6, <2>1
      <3>3. onDisplay' = onDisplay /\ stamp' = stamp
        BY <1>1
      <3> QED BY <1>4, <1>5, <3>2, <3>3 DEF PagesAreWhole, RoomsFrom
    <2>2. CASE k = "superseded"
      <3>1. firstPage'["latest"] = firstPage["latest"]
        BY <1>6, <2>2 DEF Loads
      <3>2. Undisturbed' => Undisturbed
        BY <1>1, <2>2 DEF Undisturbed
      <3> QED BY <1>1, <3>1, <3>2 DEF ListPagesInv, PagesAreWhole, RoomsFrom
    <2> QED BY <2>1, <2>2 DEF Loads
  <1> QED BY <1>7, <1>8, <1>9 DEF ListPagesInv

LEMMA FirstEnds ==
  ASSUME ListPagesInv, NEW k \in Loads, firstPage' = [firstPage EXCEPT ![k] = NoPage]
  PROVE  /\ firstPage' \in [Loads -> PageAnswer] /\ firstPage'[k] = NoPage
         /\ \A j \in Loads : j # k => firstPage'[j] = firstPage[j]
         /\ \A j \in Loads : \A c \in firstPage'[j].page : RoomHome[c] = firstPage'[j].home
  <1>1. /\ firstPage' \in [Loads -> PageAnswer] /\ firstPage'[k] = NoPage
        /\ \A j \in Loads : j # k => firstPage'[j] = firstPage[j]
    BY NoPageTyped DEF ListPagesInv, PagesTyped
  <1>2. \A j \in Loads : \A c \in firstPage'[j].page : RoomHome[c] = firstPage'[j].home
    BY <1>1, NoPageTyped DEF ListPagesInv, PagesAreOfHome
  <1> QED BY <1>1, <1>2

LEMMA FirstAppliedInv ==
  ASSUME ListPagesInv, NEW k \in Loads, FirstApplied(k)
  PROVE  ListPagesInv'
  <1>1. /\ firstPage[k].stage = "answered" /\ firstPage' = [firstPage EXCEPT ![k] = NoPage]
        /\ UNCHANGED <<stamp, tidings, listening, unheard, onDisplay, hasOperator, olderPage,
                       listError>>
    BY DEF FirstApplied
  <1>2. /\ firstPage' \in [Loads -> PageAnswer] /\ firstPage'[k] = NoPage
        /\ \A j \in Loads : j # k => firstPage'[j] = firstPage[j]
        /\ \A j \in Loads : \A c \in firstPage'[j].page : RoomHome[c] = firstPage'[j].home
    BY <1>1, FirstEnds
  <1>3. CASE k = "superseded"
    <2>1. /\ UNCHANGED <<list, nextCursor, listLoading, fresh, astray>>
          /\ firstPage'["latest"] = firstPage["latest"]
      BY <1>2, <1>3 DEF FirstApplied, Counts, Loads
    <2>2. PagesTyped'
      BY <1>1, <1>2, <2>1 DEF ListPagesInv, PagesTyped
    <2>3. PagesAreOfHome' /\ ShownIsLoaded' /\ StampsDiffer'
      BY <1>1, <1>2, <2>1 DEF ListPagesInv, PagesAreOfHome, ShownIsLoaded, StampsDiffer
    <2>4. PagesAreWhole'
      BY <1>1, <2>1 DEF ListPagesInv, PagesAreWhole, RoomsFrom, Undisturbed
    <2> QED BY <2>2, <2>3, <2>4 DEF ListPagesInv
  <1>4. CASE k = "latest"
    <2> DEFINE answer == firstPage["latest"]
    <2>1. /\ list' = answer.page /\ nextCursor' = answer.next /\ listLoading' = FALSE
          /\ fresh' = TRUE /\ astray' = (olderPage.stage # "idle" \/ answer.home # onDisplay)
      BY <1>4 DEF FirstApplied, Counts
    <2>2. /\ answer \in PageAnswer /\ answer.stage = "answered"
          /\ \A c \in answer.page : RoomHome[c] = answer.home
      BY <1>1, <1>4 DEF ListPagesInv, PagesTyped, PagesAreOfHome
    <2>3. PagesTyped'
      <3>1. list' \subseteq Rooms /\ nextCursor' \in Stamps
        BY <2>1, <2>2 DEF PageAnswer
      <3>2. astray' \in BOOLEAN
        BY <2>1
      <3> QED BY <1>1, <1>2, <2>1, <3>1, <3>2 DEF ListPagesInv, PagesTyped
    <2>4. PagesAreOfHome' /\ ShownIsLoaded' /\ StampsDiffer'
      BY <1>1, <1>2, <2>1, <2>2 DEF ListPagesInv, PagesAreOfHome, ShownIsLoaded, StampsDiffer
    <2>5. PagesAreWhole'
      <3>1. firstPage'["latest"].stage = "idle"
        BY <1>2, <1>4, NoPageTyped
      <3>2. answer.home = onDisplay /\ Undisturbed => RoomsFrom(answer.next) \subseteq answer.page
        BY <2>2 DEF ListPagesInv, PagesAreWhole
      <3>3. /\ ~astray' => olderPage'.stage = "idle" /\ answer.home = onDisplay
            /\ Undisturbed' <=> Undisturbed
        BY <1>1, <2>1 DEF Undisturbed
      <3>4. RoomsFrom(nextCursor)' = RoomsFrom(answer.next)
        BY <1>1, <2>1 DEF RoomsFrom
      <3> QED BY <2>1, <3>1, <3>2, <3>3, <3>4 DEF PagesAreWhole
    <2> QED BY <2>3, <2>4, <2>5 DEF ListPagesInv
  <1> QED BY <1>3, <1>4 DEF Loads

LEMMA FirstFailsInv ==
  ASSUME ListPagesInv, NEW k \in Loads, FirstFails(k)
  PROVE  ListPagesInv'
  <1>1. /\ firstPage' = [firstPage EXCEPT ![k] = NoPage]
        /\ UNCHANGED <<stamp, tidings, listening, unheard, onDisplay, hasOperator, list,
                       nextCursor, olderPage, astray>>
        /\ IF k = "latest" THEN listError' = TRUE /\ listLoading' = FALSE /\ fresh' = FALSE
           ELSE UNCHANGED <<listError, listLoading, fresh>>
    BY DEF FirstFails, Counts
  <1>2. /\ firstPage' \in [Loads -> PageAnswer] /\ firstPage'[k] = NoPage
        /\ \A j \in Loads : j # k => firstPage'[j] = firstPage[j]
        /\ \A j \in Loads : \A c \in firstPage'[j].page : RoomHome[c] = firstPage'[j].home
    BY <1>1, FirstEnds
  <1>3. PagesTyped'
    BY <1>1, <1>2 DEF ListPagesInv, PagesTyped
  <1>4. PagesAreOfHome' /\ ShownIsLoaded' /\ StampsDiffer'
    BY <1>1, <1>2 DEF ListPagesInv, PagesAreOfHome, ShownIsLoaded, StampsDiffer
  <1>5. PagesAreWhole'
    <2>1. CASE k = "latest"
      <3>1. firstPage'["latest"].stage = "idle" /\ fresh' = FALSE
        BY <1>1, <1>2, <2>1, NoPageTyped
      <3> QED BY <3>1 DEF PagesAreWhole
    <2>2. CASE k = "superseded"
      <3>1. firstPage'["latest"] = firstPage["latest"] /\ fresh' = fresh
        BY <1>1, <1>2, <2>2 DEF Loads
      <3> QED BY <1>1, <3>1 DEF ListPagesInv, PagesAreWhole, RoomsFrom, Undisturbed
    <2> QED BY <2>1, <2>2 DEF Loads
  <1> QED BY <1>3, <1>4, <1>5 DEF ListPagesInv

LEMMA LoadOlderInv ==
  ASSUME ListPagesInv, LoadOlder
  PROVE  ListPagesInv'
  <1> DEFINE asking == [Asks(onDisplay) EXCEPT !.next = nextCursor]
  <1>1. /\ olderPage' = asking
        /\ UNCHANGED <<stamp, tidings, listening, unheard, onDisplay, hasOperator, list,
                       nextCursor, firstPage, listLoading, listError, fresh, astray>>
    BY DEF LoadOlder
  <1>2. /\ asking \in PageAnswer /\ asking.stage = "asked" /\ asking.home = onDisplay
        /\ asking.page = {} /\ asking.next = nextCursor
    <2>1. onDisplay \in Workspaces /\ nextCursor \in Stamps
      BY DEF ListPagesInv, PagesTyped
    <2>2. /\ Asks(onDisplay) \in PageAnswer /\ Asks(onDisplay).stage = "asked"
          /\ Asks(onDisplay).page = {} /\ Asks(onDisplay).home = onDisplay
      BY <2>1, AsksTyped
    <2> QED BY <2>1, <2>2 DEF PageAnswer
  <1> HIDE DEF asking
  <1>3. PagesTyped'
    BY <1>1, <1>2 DEF ListPagesInv, PagesTyped
  <1>4. PagesAreOfHome' /\ ShownIsLoaded' /\ StampsDiffer'
    BY <1>1, <1>2 DEF ListPagesInv, PagesAreOfHome, ShownIsLoaded, StampsDiffer
  <1>5. PagesAreWhole'
    BY <1>1, <1>2 DEF ListPagesInv, PagesAreWhole, RoomsFrom, Undisturbed
  <1> QED BY <1>3, <1>4, <1>5 DEF ListPagesInv

\* The older page is the one that goes on where the list ends, as long as nothing led astray.
LEMMA OlderAnsweredInv ==
  ASSUME ListPagesInv, OlderAnswered
  PROVE  ListPagesInv'
  <1> DEFINE home == olderPage.home
             before == olderPage.next
             page == PageOf(home, before)
             answer == [olderPage EXCEPT !.stage = "answered", !.page = page, !.next = NextOf(page)]
  <1>1. /\ olderPage.stage = "asked" /\ olderPage' = answer
        /\ UNCHANGED <<stamp, tidings, listening, unheard, onDisplay, hasOperator, list,
                       nextCursor, firstPage, listLoading, listError, fresh, astray>>
    BY DEF OlderAnswered
  <1>2. /\ stamp \in [Rooms -> Stamps] /\ StampsDiffer /\ olderPage \in PageAnswer
        /\ home \in Workspaces /\ before \in Nat
    BY DEF ListPagesInv, PagesTyped, PageAnswer, Stamps
  <1>3. /\ page \in SUBSET Rooms /\ \A c \in page : RoomHome[c] = home
        /\ NextOf(page) \in Stamps
        /\ \A c \in RoomsOf(home, before) : NextOf(page) <= stamp[c] => c \in page
    <2> HIDE DEF home, before
    <2> QED BY <1>2, PageIsWhole
  <1> HIDE DEF page
  <1>4. /\ answer \in PageAnswer /\ answer.stage = "answered" /\ answer.home = home
        /\ answer.page = page /\ answer.next = NextOf(page)
    BY <1>2, <1>3 DEF PageAnswer
  <1>5. home = onDisplay /\ before = nextCursor
        => RoomsFrom(answer.next) \subseteq answer.page \cup RoomsFrom(nextCursor)
    <2> SUFFICES ASSUME home = onDisplay, before = nextCursor, NEW c \in RoomsFrom(NextOf(page)),
                        c \notin RoomsFrom(nextCursor)
                 PROVE  c \in page
      BY <1>4
    <2>1. c \in Rooms /\ RoomHome[c] = home /\ stamp[c] # 0 /\ NextOf(page) <= stamp[c]
      BY DEF RoomsFrom
    <2>2. stamp[c] \in Nat /\ ~(before <= stamp[c])
      BY <1>2, <2>1 DEF RoomsFrom, Stamps
    <2>3. stamp[c] < before
      BY <1>2, <2>2
    <2> QED BY <1>3, <2>1, <2>3 DEF RoomsOf
  <1>6. ~astray => home = onDisplay
    BY <1>1 DEF ListPagesInv, PagesAreOfHome
  <1>7. fresh /\ ~astray /\ Undisturbed /\ firstPage["latest"].stage = "idle"
        => before = nextCursor /\ RoomsFrom(nextCursor) \subseteq list
    BY <1>1 DEF ListPagesInv, PagesAreWhole
  <1> HIDE DEF answer, home, before
  <1>8. PagesTyped'
    BY <1>1, <1>4 DEF ListPagesInv, PagesTyped
  <1>9. PagesAreOfHome' /\ ShownIsLoaded' /\ StampsDiffer'
    BY <1>1, <1>3, <1>4, <1>6 DEF ListPagesInv, PagesAreOfHome, ShownIsLoaded, StampsDiffer
  <1>10. PagesAreWhole'
    <2>1. Undisturbed' <=> Undisturbed
      BY <1>1 DEF Undisturbed
    <2>2. /\ RoomsFrom(nextCursor)' = RoomsFrom(nextCursor)
          /\ RoomsFrom(olderPage.next)' = RoomsFrom(answer.next)
          /\ RoomsFrom(firstPage["latest"].next)' = RoomsFrom(firstPage["latest"].next)
      BY <1>1 DEF RoomsFrom
    <2>3. /\ olderPage'.stage = "answered" /\ olderPage'.page = answer.page
          /\ olderPage'.stage # "asked"
      BY <1>1, <1>4
    <2>4. firstPage["latest"].stage = "answered" /\ firstPage["latest"].home = onDisplay /\ Undisturbed
          => RoomsFrom(firstPage["latest"].next) \subseteq firstPage["latest"].page
      BY DEF ListPagesInv, PagesAreWhole
    <2> QED BY <1>1, <1>5, <1>6, <1>7, <2>1, <2>2, <2>3, <2>4 DEF PagesAreWhole
  <1> QED BY <1>8, <1>9, <1>10 DEF ListPagesInv

LEMMA OlderAppliedInv ==
  ASSUME ListPagesInv, OlderApplied
  PROVE  ListPagesInv'
  <1>1. /\ olderPage.stage = "answered" /\ olderPage' = NoPage
        /\ list' = list \cup olderPage.page /\ nextCursor' = olderPage.next
        /\ UNCHANGED <<stamp, tidings, listening, unheard, onDisplay, hasOperator, firstPage,
                       listLoading, listError, fresh, astray>>
    BY DEF OlderApplied, Merged
  <1>2. /\ olderPage \in PageAnswer /\ (~astray => olderPage.home = onDisplay)
        /\ \A c \in olderPage.page : RoomHome[c] = olderPage.home
    BY <1>1 DEF ListPagesInv, PagesTyped, PagesAreOfHome
  <1>3. PagesTyped'
    <2>1. list' \subseteq Rooms /\ nextCursor' \in Stamps
      BY <1>1, <1>2 DEF ListPagesInv, PagesTyped, PageAnswer
    <2> QED BY <1>1, <2>1, NoPageTyped DEF ListPagesInv, PagesTyped
  <1>4. PagesAreOfHome' /\ ShownIsLoaded' /\ StampsDiffer'
    BY <1>1, <1>2, NoPageTyped
    DEF ListPagesInv, PagesAreOfHome, ShownIsLoaded, StampsDiffer
  <1>5. PagesAreWhole'
    <2>1. Undisturbed' <=> Undisturbed
      BY <1>1 DEF Undisturbed
    <2>2. /\ RoomsFrom(nextCursor)' = RoomsFrom(olderPage.next)
          /\ RoomsFrom(firstPage["latest"].next)' = RoomsFrom(firstPage["latest"].next)
      BY <1>1 DEF RoomsFrom
    <2>3. fresh /\ ~astray /\ Undisturbed /\ firstPage["latest"].stage = "idle"
          => RoomsFrom(olderPage.next) \subseteq list \cup olderPage.page
      BY <1>1 DEF ListPagesInv, PagesAreWhole
    <2>4. firstPage["latest"].stage = "answered" /\ firstPage["latest"].home = onDisplay /\ Undisturbed
          => RoomsFrom(firstPage["latest"].next) \subseteq firstPage["latest"].page
      BY DEF ListPagesInv, PagesAreWhole
    <2> QED BY <1>1, <2>1, <2>2, <2>3, <2>4, NoPageTyped DEF PagesAreWhole
  <1> QED BY <1>3, <1>4, <1>5 DEF ListPagesInv

LEMMA OlderFailsInv ==
  ASSUME ListPagesInv, OlderFails
  PROVE  ListPagesInv'
  <1>1. /\ olderPage' = NoPage /\ listError' = TRUE
        /\ UNCHANGED <<stamp, tidings, listening, unheard, onDisplay, hasOperator, list,
                       nextCursor, firstPage, listLoading, fresh, astray>>
    BY DEF OlderFails
  <1>2. PagesTyped'
    BY <1>1, NoPageTyped DEF ListPagesInv, PagesTyped
  <1>3. PagesAreOfHome' /\ ShownIsLoaded' /\ StampsDiffer'
    BY <1>1, NoPageTyped DEF ListPagesInv, PagesAreOfHome, ShownIsLoaded, StampsDiffer
  <1>4. PagesAreWhole'
    BY <1>1, NoPageTyped DEF ListPagesInv, PagesAreWhole, RoomsFrom, Undisturbed
  <1> QED BY <1>2, <1>3, <1>4 DEF ListPagesInv

\* The list is emptied: nothing was heard of for certain.
LEMMA EmptiesInv ==
  ASSUME ListPagesInv, Empties, onDisplay' \in Workspaces, nextCursor' \in Stamps,
         tidings' \subseteq Workspaces, unheard' = TRUE,
         {listening', hasOperator', listError'} \subseteq BOOLEAN,
         UNCHANGED <<stamp, firstPage, olderPage>>
  PROVE  ListPagesInv'
  <1>1. /\ list' = {} /\ listLoading' = FALSE /\ fresh' = FALSE
        /\ astray' = (olderPage.stage # "idle")
    BY DEF Empties
  <1>2. PagesTyped'
    <2>1. astray' \in BOOLEAN
      BY <1>1
    <2> QED BY <1>1, <2>1 DEF ListPagesInv, PagesTyped
  <1>3. PagesAreOfHome'
    BY <1>1 DEF ListPagesInv, PagesAreOfHome
  <1>4. ShownIsLoaded' /\ StampsDiffer'
    BY <1>1 DEF ListPagesInv, ShownIsLoaded, StampsDiffer
  <1>5. PagesAreWhole'
    BY <1>1 DEF PagesAreWhole, Undisturbed
  <1> QED BY <1>2, <1>3, <1>4, <1>5 DEF ListPagesInv

LEMMA SwitchWorkspaceInv ==
  ASSUME ListPagesInv, NEW w \in Workspaces, SwitchWorkspace(w)
  PROVE  ListPagesInv'
  <1>1. /\ onDisplay' = w /\ nextCursor' = 0 /\ hasOperator' = FALSE /\ Empties
        /\ listening' = FALSE /\ tidings' = {} /\ unheard' = TRUE
        /\ UNCHANGED <<stamp, firstPage, olderPage, listError>>
    BY DEF SwitchWorkspace
  <1>2. listError' \in BOOLEAN /\ nextCursor' \in Stamps
    BY <1>1, ListConstants DEF ListPagesInv, PagesTyped
  <1> QED BY <1>1, <1>2, EmptiesInv

\* The endpoints of the workspace arrive, or arrive again.
LEMMA EndpointsInv ==
  ASSUME ListPagesInv, EndpointsArrive \/ RefreshActors
  PROVE  ListPagesInv'
  <1>1. LoadsAnew /\ hasOperator' \in BOOLEAN
    BY DEF EndpointsArrive, RefreshActors, ListPagesInv, PagesTyped
  <1>2. /\ BeginLoad(onDisplay) /\ ClearError /\ listLoading' = TRUE /\ listening' = FALSE
        /\ tidings' = {}
        /\ UNCHANGED <<stamp, unheard, onDisplay, list, nextCursor, olderPage, fresh, astray>>
    BY <1>1 DEF LoadsAnew
  <1>3. /\ onDisplay \in Workspaces /\ stamp' \in [Rooms -> Stamps] /\ StampsDiffer'
        /\ tidings' \subseteq Workspaces
    BY <1>2 DEF ListPagesInv, PagesTyped, StampsDiffer
  <1> QED BY <1>1, <1>2, <1>3, LoadBeginsInv

\* An activity of the workspace on display is heard of or not; one of another changes nothing
\* that is shown.
LEMMA RoomActivityInv ==
  ASSUME ListPagesInv, NEW c \in Rooms, RoomActivity(c)
  PROVE  ListPagesInv'
  <1> DEFINE latest == Max({stamp[d] : d \in Rooms})
  <1>1. /\ latest < MaxStamp /\ stamp' = [stamp EXCEPT ![c] = latest + 1]
        /\ tidings' = IF listening THEN tidings \cup {RoomHome[c]} ELSE tidings
        /\ unheard' = (unheard \/ (~listening /\ RoomHome[c] = onDisplay))
        /\ UNCHANGED <<listening, onDisplay, hasOperator, list, nextCursor, firstPage, olderPage,
                       listLoading, listError, fresh, astray>>
    BY DEF RoomActivity, Tell, pageListVars
  <1>2. stamp \in [Rooms -> Stamps] /\ stamp \in [Rooms -> Nat]
    BY DEF ListPagesInv, PagesTyped, Stamps
  <1>3. latest \in Nat /\ \A d \in Rooms : stamp[d] <= latest
    <2>1. PICK x \in Rooms : latest = stamp[x] /\ \A d \in Rooms : stamp[d] <= stamp[x]
      <3>1. Rooms \in SUBSET Rooms /\ Rooms # {}
        BY ListConstants
      <3> QED BY ONLY <1>2, <3>1, EndsOfStamps
    <2> HIDE DEF latest
    <2> QED BY <1>2, <2>1
  <1> HIDE DEF latest
  <1>4. /\ stamp' \in [Rooms -> Stamps] /\ stamp'[c] = latest + 1
        /\ \A d \in Rooms : d # c => stamp'[d] = stamp[d]
    <2>1. latest + 1 \in Stamps
      BY <1>1, <1>3, ListConstants DEF Stamps
    <2> QED BY <1>1, <1>2, <2>1
  <1>5. StampsDiffer'
    <2>1. \A d \in Rooms : d # c => stamp'[d] # latest + 1
      BY <1>2, <1>3, <1>4
    <2> QED BY <1>4, <2>1 DEF ListPagesInv, StampsDiffer
  <1>6. PagesTyped'
    <2>1. tidings' \subseteq Workspaces /\ unheard' \in BOOLEAN
      BY <1>1, ListConstants DEF ListPagesInv, PagesTyped
    <2> QED BY <1>1, <1>4, <2>1 DEF ListPagesInv, PagesTyped
  <1>7. PagesAreOfHome' /\ ShownIsLoaded'
    BY <1>1 DEF ListPagesInv, PagesAreOfHome, ShownIsLoaded
  <1>8. PagesAreWhole'
    <2>1. Undisturbed' => Undisturbed /\ RoomHome[c] # onDisplay
      BY <1>1 DEF ListPagesInv, PagesTyped, Undisturbed
    <2>2. CASE RoomHome[c] = onDisplay
      BY <2>1, <2>2 DEF PagesAreWhole
    <2>3. CASE RoomHome[c] # onDisplay
      <3>1. /\ RoomsFrom(nextCursor)' = RoomsFrom(nextCursor)
            /\ RoomsFrom(olderPage.next)' = RoomsFrom(olderPage.next)
            /\ RoomsFrom(firstPage["latest"].next)' = RoomsFrom(firstPage["latest"].next)
        BY <1>1, <1>4, <2>3 DEF RoomsFrom
      <3> QED BY <1>1, <2>1, <3>1 DEF ListPagesInv, PagesAreWhole
    <2> QED BY <2>2, <2>3
  <1> QED BY <1>5, <1>6, <1>7, <1>8 DEF ListPagesInv

LEMMA DeleteInv ==
  ASSUME ListPagesInv, NEW c \in Rooms, DeleteCurrentConversation(c)
  PROVE  ListPagesInv'
  <1>1. /\ stamp' = [stamp EXCEPT ![c] = 0] /\ BeginLoad(onDisplay) /\ ClearError
        /\ tidings' = IF listening THEN tidings \cup {onDisplay} ELSE tidings
        /\ UNCHANGED <<listening, unheard, onDisplay, hasOperator, list, nextCursor, olderPage,
                       listLoading, fresh, astray>>
    BY DEF DeleteCurrentConversation
  <1>2. /\ onDisplay \in Workspaces /\ tidings' \subseteq Workspaces
        /\ {listening', hasOperator', listLoading'} \subseteq BOOLEAN
    BY <1>1 DEF ListPagesInv, PagesTyped
  <1>3. stamp' \in [Rooms -> Stamps] /\ StampsDiffer'
    <2>1. stamp \in [Rooms -> Stamps] /\ StampsDiffer
      BY DEF ListPagesInv, PagesTyped
    <2>2. /\ stamp' \in [Rooms -> Stamps] /\ stamp'[c] = 0
          /\ \A d \in Rooms : d # c => stamp'[d] = stamp[d]
      BY <1>1, <2>1, ListConstants
    <2> QED BY <2>1, <2>2 DEF StampsDiffer
  <1> QED BY <1>1, <1>2, <1>3, LoadBeginsInv

LEMMA ListHearsInv ==
  ASSUME ListPagesInv, NEW w \in Workspaces, ListHears(w)
  PROVE  ListPagesInv'
  <1>1. /\ tidings' = tidings \ {w}
        /\ UNCHANGED <<stamp, listening, onDisplay, hasOperator, nextCursor, olderPage>>
    BY DEF ListHears
  <1>2. /\ tidings' \subseteq Workspaces /\ stamp' \in [Rooms -> Stamps] /\ StampsDiffer'
        /\ {listening', hasOperator'} \subseteq BOOLEAN
        /\ onDisplay' \in Workspaces /\ nextCursor' \in Stamps
    BY <1>1 DEF ListPagesInv, PagesTyped, StampsDiffer
  <1>3. CASE w = onDisplay /\ hasOperator
    <2>1. /\ BeginLoad(w) /\ ClearError
          /\ UNCHANGED <<unheard, list, listLoading, fresh, astray>>
      BY <1>3 DEF ListHears
    <2>2. listLoading' \in BOOLEAN
      BY <2>1 DEF ListPagesInv, PagesTyped
    <2> QED BY <1>1, <1>2, <2>1, <2>2, LoadBeginsInv
  <1>4. CASE w = onDisplay /\ ~hasOperator
    <2>1. Empties /\ unheard' = TRUE /\ UNCHANGED <<firstPage, listError>>
      BY <1>4 DEF ListHears
    <2>2. listError' \in BOOLEAN
      BY <2>1 DEF ListPagesInv, PagesTyped
    <2> QED BY <1>1, <1>2, <2>1, <2>2, EmptiesInv
  <1>5. CASE w # onDisplay
    <2>1. UNCHANGED <<unheard, list, firstPage, listLoading, listError, fresh, astray>>
      BY <1>5 DEF ListHears
    <2>2. PagesTyped'
      BY <1>1, <1>2, <2>1 DEF ListPagesInv, PagesTyped
    <2>3. PagesAreOfHome' /\ ShownIsLoaded'
      BY <1>1, <2>1 DEF ListPagesInv, PagesAreOfHome, ShownIsLoaded
    <2>4. PagesAreWhole'
      <3>1. Undisturbed' <=> Undisturbed
        BY <1>1, <1>5, <2>1 DEF Undisturbed
      <3> QED BY <1>1, <2>1, <3>1 DEF ListPagesInv, PagesAreWhole, RoomsFrom
    <2> QED BY <1>2, <2>2, <2>3, <2>4 DEF ListPagesInv
  <1> QED BY <1>3, <1>4, <1>5

LEMMA ListPagesInvNext == ListPagesInv /\ DraftsInv /\ [ListNext]_listVars => ListPagesInv'
  <1> SUFFICES ASSUME ListPagesInv, DraftsInv, [ListNext]_listVars PROVE ListPagesInv'
    OBVIOUS
  <1>0. listening \in BOOLEAN
    BY DEF ListPagesInv, PagesTyped
  <1>1. CASE UNCHANGED listVars \/ BusTakesDraft \/ ContextMade
    BY <1>0, <1>1, PagesStay DEF listVars, pageListVars, BusTakesDraft, ContextMade
  <1>2. CASE ListOpens
    BY <1>2, PagesStay DEF ListOpens, pageListVars
  <1>3. CASE StartNewWith \/ OpenConversation \/ StartOutcome
    BY <1>0, <1>3, PagesStay DEF StartNewWith, OpenConversation, StartOutcome
  <1>4. CASE (\E w \in Workspaces : ListHears(w) \/ SwitchWorkspace(w)) \/ EndpointsArrive \/ RefreshActors
    BY <1>4, ListHearsInv, SwitchWorkspaceInv, EndpointsInv
  <1>5. CASE \E k \in Loads : FirstAnswered(k) \/ FirstApplied(k) \/ FirstFails(k)
    BY <1>5, FirstAnsweredInv, FirstAppliedInv, FirstFailsInv
  <1>6. CASE LoadOlder \/ OlderAnswered \/ OlderApplied \/ OlderFails
    BY <1>6, LoadOlderInv, OlderAnsweredInv, OlderAppliedInv, OlderFailsInv
  <1>7. CASE \E c \in Rooms : RoomActivity(c) \/ DeleteCurrentConversation(c)
    BY <1>7, RoomActivityInv, DeleteInv
  <1>8. CASE DraftSent
    <2>1. sending.home \in Workspaces
      BY DEF DraftsInv, DraftsTyped, DraftSending
    <2>2. /\ tidings' \subseteq Workspaces /\ stamp' \in [Rooms -> Stamps] /\ StampsDiffer'
          /\ {listening', hasOperator', listLoading'} \subseteq BOOLEAN
      BY <1>8 DEF DraftSent, ListPagesInv, PagesTyped, StampsDiffer
    <2> QED BY <1>8, <2>1, <2>2, LoadBeginsInv DEF DraftSent
  <1>9. CASE DraftFails
    <2>1. /\ listError' = TRUE
          /\ UNCHANGED <<stamp, tidings, listening, unheard, onDisplay, hasOperator, list,
                         nextCursor, firstPage, olderPage, listLoading, fresh, astray>>
      BY <1>9 DEF DraftFails
    <2>2. PagesTyped'
      BY <2>1 DEF ListPagesInv, PagesTyped
    <2>3. PagesAreOfHome' /\ ShownIsLoaded' /\ StampsDiffer'
      BY <2>1 DEF ListPagesInv, PagesAreOfHome, ShownIsLoaded, StampsDiffer
    <2>4. PagesAreWhole'
      BY <2>1 DEF ListPagesInv, PagesAreWhole, RoomsFrom, Undisturbed
    <2> QED BY <2>2, <2>3, <2>4 DEF ListPagesInv
  <1> QED BY <1>1, <1>2, <1>3, <1>4, <1>5, <1>6, <1>7, <1>8, <1>9
          DEF ListNext, ListProceeds, Loads

LEMMA ListKeepsInv == ListSpec => [](ListPagesInv /\ DraftsInv)
  <1>1. ListPagesInv => onDisplay \in Workspaces
    BY DEF ListPagesInv, PagesTyped
  <1> QED BY <1>1, ListPagesInvInit, DraftsInvInit, ListPagesInvNext, DraftsInvNext, PTL
          DEF ListSpec

\* The list, its pages, the drafts and the bounds have their types.
THEOREM ListTypesHold == ListSpec => []ListTypeOK
  <1>1. ListPagesInv /\ DraftsInv => ListTypeOK
    BY ListTypes DEF ListPagesInv, DraftsInv
  <1> QED BY <1>1, ListKeepsInv, PTL

LEMMA ListInvImpliesTrue ==
  ListPagesInv /\ DraftsInv => ListIsOfWorkspace /\ ListHasNoGap /\ DraftKeepsItsContext
  <1>1. ListPagesInv => ListIsOfWorkspace
    BY DEF ListPagesInv, ShownIsLoaded, ListIsOfWorkspace
  <1>2. ListPagesInv => ListHasNoGap
    <2> SUFFICES ASSUME ListPagesInv, Shows, ~unheard, tidings = {}, fresh, ~astray,
                        \A k \in {"latest", "superseded"} : firstPage[k].stage = "idle",
                        NEW c \in RoomsOf(onDisplay, MaxStamp + 1), stamp[c] > nextCursor
                 PROVE  c \in list
      BY DEF ListHasNoGap
    <2>1. RoomsFrom(nextCursor) \subseteq list
      BY DEF ListPagesInv, PagesAreWhole, Undisturbed
    <2>2. c \in Rooms /\ RoomHome[c] = onDisplay /\ stamp[c] # 0
      BY DEF RoomsOf
    <2>3. stamp[c] \in Nat /\ nextCursor \in Nat
      BY <2>2 DEF ListPagesInv, PagesTyped, Stamps
    <2>4. nextCursor <= stamp[c]
      BY <2>3
    <2> QED BY <2>1, <2>2, <2>4 DEF RoomsFrom
  <1>3. DraftsInv => DraftKeepsItsContext
    BY DEF DraftsInv, DraftInv, OwnContextInv, DraftKeepsItsContext
  <1> QED BY <1>1, <1>2, <1>3

\* A list that is shown and was last changed by what was asked for in the workspace on display
\* holds conversations of that workspace only, and every one of them down to its cursor once a
\* first page was applied, no load failed since and the window has heard of all activity.  A
\* first page that a switch overtakes leads astray until the endpoints of the new workspace
\* arrive and its own first page is applied.  A draft gets a second Context only by a failed
\* call, and a message goes to the Context made for its draft unless another draft was opened
\* while its Context was being created.
THEOREM ListStaysTrue ==
  ListSpec => [](ListIsOfWorkspace /\ ListHasNoGap /\ DraftKeepsItsContext)
  BY ListInvImpliesTrue, ListKeepsInv, PTL
===============================================================================
