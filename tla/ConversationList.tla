-------------------------- MODULE ConversationList --------------------------
(***************************************************************************)
(* The operator's list of conversations across workspaces (floe-app/src:   *)
(* features/conversations/OperatorConversations.tsx, switchWorkspace of    *)
(* App.tsx, listContextsByParticipantPage of bus-client/client.ts).        *)
(*                                                                         *)
(* Loads of the first page are numbered and only the latest is applied;    *)
(* older pages are not numbered.  A switch of the workspace empties the    *)
(* endpoints, and until those of the new one arrive nothing is loaded.     *)
(* (Each answer of listEndpoints is one of the workspace on display:       *)
(* answers that overtake one another over two switches are left out.)      *)
(* A draft creates its Context when it is first sent and keeps it for      *)
(* another attempt.                                                        *)
(***************************************************************************)
EXTENDS Integers, FiniteSets, FiniteSetsExt

CONSTANTS
    Workspaces,
    Rooms,         \* conversations, numbered
    RoomHome,      \* the workspace of each
    ListPage,      \* conversations of a page
    MaxStamp,      \* bounds: activities,
    MaxClicks,     \*   the operator's actions and failed calls together,
    MaxListFaults  \*   failed calls

ASSUME ListAssumption ==
    /\ Rooms \subseteq Nat /\ IsFiniteSet(Rooms) /\ Rooms # {}
    /\ RoomHome \in [Rooms -> Workspaces]
    /\ ListPage \in Nat \ {0} /\ MaxStamp \in Nat /\ Cardinality(Rooms) <= MaxStamp
    /\ {MaxClicks, MaxListFaults} \subseteq Nat

VARIABLES
    stamp,       \* bus: the latest activity of each conversation, 0 without a row
    tidings,     \* workspaces of which the list's subscription has messages to handle
    listening,   \* the subscription is open
    unheard,     \* a message of this workspace was lost since the latest answer (history)
    onDisplay,   \* the workspace on display
    hasOperator, \* its endpoints have arrived, the operator's among them (operator)
    list,        \* conversations
    nextCursor,  \* the activity before which the next older page begins, 0 if null
    firstPage,   \* load: the latest, and the one before it
    olderPage,   \* loadOlder
    listLoading, listError,
    chosen,      \* initialConversationChosen
    fresh,       \* a first page was applied, and none failed since (history)
    astray,      \* the list was last changed by an outdated answer, or is another's (history)
    draft,       \* the draft that is open, 0 for none (draftTargetId)
    draftRef,    \* draftContextId: the draft its Context was created for, 0 if null
    sending,     \* startOutcome under way
    made,        \* bus: Contexts created for each draft
    written,     \* bus: <<draft, draft of the Context>> of the messages taken
    drafts, interrupted, clicks, listFaults

pageListVars == <<list, nextCursor, firstPage, olderPage, listLoading, listError, chosen, fresh,
                  astray>>
draftVars == <<draft, draftRef, sending, made, written, drafts, interrupted>>
listVars == <<stamp, tidings, listening, unheard, onDisplay, hasOperator, pageListVars,
              draftVars, clicks, listFaults>>

Stamps == 0..MaxStamp
NoPage == [stage |-> "idle", home |-> CHOOSE w \in Workspaces : TRUE, page |-> {}, next |-> 0]
Drafts == 0..(MaxClicks + 1)
NotSending ==
    [stage |-> "idle", key |-> 0, ref |-> 0, home |-> CHOOSE w \in Workspaces : TRUE]

ListTypeOK ==
    /\ stamp \in [Rooms -> Stamps]
    /\ tidings \subseteq Workspaces /\ onDisplay \in Workspaces
    /\ list \subseteq Rooms /\ nextCursor \in Stamps
    /\ LET answers == [stage : {"idle", "asked", "answered"}, home : Workspaces,
                       page : SUBSET Rooms, next : Stamps]
       IN firstPage \in [{"latest", "superseded"} -> answers] /\ olderPage \in answers
    /\ {listening, unheard, hasOperator, listLoading, listError, chosen, fresh, astray, interrupted}
         \subseteq BOOLEAN
    /\ {draft, draftRef, drafts} \subseteq Drafts
    /\ sending \in [stage : {"idle", "creating", "created", "emitting", "taken"}, key : Drafts,
                    ref : Drafts, home : Workspaces]
    /\ made \in [Drafts -> 0..(MaxListFaults + 1)] /\ written \subseteq Drafts \X Drafts
    /\ clicks \in 0..MaxClicks /\ listFaults \in 0..MaxListFaults

Asks(w) == [NoPage EXCEPT !.stage = "asked", !.home = w]

\* The view is mounted and has asked for the first page.
ListInit ==
    /\ stamp = [c \in Rooms |-> Cardinality({d \in Rooms : d <= c})]
    /\ tidings = {} /\ listening = TRUE /\ unheard = FALSE
    /\ onDisplay = RoomHome[Min(Rooms)] /\ hasOperator = TRUE
    /\ list = {} /\ nextCursor = 0
    /\ firstPage = [latest |-> Asks(onDisplay), superseded |-> NoPage] /\ olderPage = NoPage
    /\ listLoading = TRUE /\ listError = FALSE /\ chosen = FALSE
    /\ fresh = FALSE /\ astray = FALSE
    /\ draft = 0 /\ draftRef = 0 /\ sending = NotSending
    /\ made = [k \in Drafts |-> 0] /\ written = {} /\ drafts = 0 /\ interrupted = FALSE
    /\ clicks = 0 /\ listFaults = 0

Spent == clicks + listFaults
Click == Spent < MaxClicks /\ clicks' = clicks + 1
ListFault == Spent < MaxClicks /\ listFaults < MaxListFaults /\ listFaults' = listFaults + 1

-----------------------------------------------------------------------------
(* The bus                                                                 *)

RoomsOf(w, before) == {c \in Rooms : RoomHome[c] = w /\ stamp[c] # 0 /\ stamp[c] < before}

\* The page of the given workspace that ends before an activity, and the next cursor.
PageOf(w, before) ==
    {c \in RoomsOf(w, before) :
        Cardinality({d \in RoomsOf(w, before) : stamp[d] > stamp[c]}) < ListPage}

NextOf(page) == IF Cardinality(page) = ListPage THEN Min({stamp[c] : c \in page}) ELSE 0

\* A message for a subscription that is not open is lost.
Tell(w) ==
    /\ tidings' = IF listening THEN tidings \cup {w} ELSE tidings
    /\ unheard' = (unheard \/ (~listening /\ w = onDisplay))

\* An event of the conversation.
RoomActivity(c) ==
    LET latest == Max({stamp[d] : d \in Rooms})
    IN /\ stamp[c] # 0 /\ latest < MaxStamp
       /\ stamp' = [stamp EXCEPT ![c] = latest + 1]
       /\ Tell(RoomHome[c])
       /\ UNCHANGED <<listening, onDisplay, hasOperator, pageListVars, draftVars, clicks,
                      listFaults>>

-----------------------------------------------------------------------------
(* load                                                                    *)

\* A load of the first page begins: the one before is superseded.
BeginLoad(w) == firstPage' = [latest |-> Asks(w), superseded |-> firstPage.latest]

\* setError(null): what the error hid is shown again.
ClearError == listError' = FALSE

\* Without the operator's endpoint load empties the list and returns: it neither numbers itself
\* nor clears the error, so a load that is under way still counts.
Empties ==
    /\ list' = {} /\ listLoading' = FALSE
    /\ fresh' = FALSE /\ astray' = (olderPage.stage # "idle")

\* The stream effect: news of this workspace loads the first page.
ListHears(w) ==
    /\ w \in tidings
    /\ tidings' = tidings \ {w}
    /\ \/ /\ w = onDisplay /\ hasOperator
          /\ BeginLoad(w) /\ ClearError
          /\ UNCHANGED <<unheard, list, listLoading, fresh, astray>>
       \/ /\ w = onDisplay /\ ~hasOperator
          /\ Empties /\ unheard' = TRUE
          /\ UNCHANGED <<firstPage, listError>>
       \/ /\ w # onDisplay
          /\ UNCHANGED <<unheard, list, firstPage, listLoading, listError, fresh, astray>>
    /\ UNCHANGED <<stamp, listening, onDisplay, hasOperator, nextCursor, olderPage, chosen,
                   draftVars, clicks, listFaults>>

\* sequence === loadSequence.current
Counts(k) == k = "latest"

FirstAnswered(k) ==
    /\ firstPage[k].stage = "asked"
    /\ firstPage' = [firstPage EXCEPT
         ![k] = LET page == PageOf(firstPage[k].home, MaxStamp + 1)
                IN [stage |-> "answered", home |-> firstPage[k].home, page |-> page,
                    next |-> NextOf(page)]]
    /\ unheard' = (unheard /\ ~(Counts(k) /\ firstPage[k].home = onDisplay))
    /\ UNCHANGED <<stamp, tidings, listening, onDisplay, hasOperator, list, nextCursor, olderPage,
                   listLoading, listError, chosen, fresh, astray, draftVars, clicks, listFaults>>

\* The draft changes to another one while the first one's Context is being created.
Interrupts == interrupted' = (interrupted \/ sending.stage \in {"creating", "created"})

OpenDraft(k) ==
    /\ draft' = k /\ drafts' = k /\ draftRef' = 0 /\ Interrupts
    /\ UNCHANGED <<sending, made, written>>

FirstApplied(k) ==
    /\ firstPage[k].stage = "answered"
    /\ firstPage' = [firstPage EXCEPT ![k] = NoPage]
    /\ IF Counts(k)
       THEN /\ list' = firstPage[k].page /\ nextCursor' = firstPage[k].next
            /\ listLoading' = FALSE /\ chosen' = TRUE
            /\ fresh' = TRUE
            /\ astray' = (olderPage.stage # "idle" \/ firstPage[k].home # onDisplay)
            /\ IF ~chosen /\ firstPage[k].page = {} THEN OpenDraft(drafts + 1)
               ELSE UNCHANGED draftVars
       ELSE UNCHANGED <<list, nextCursor, listLoading, chosen, fresh, astray, draftVars>>
    /\ UNCHANGED <<stamp, tidings, listening, unheard, onDisplay, hasOperator, olderPage,
                   listError, clicks, listFaults>>

FirstFails(k) ==
    /\ firstPage[k].stage # "idle" /\ ListFault
    /\ firstPage' = [firstPage EXCEPT ![k] = NoPage]
    /\ IF Counts(k) THEN listError' = TRUE /\ listLoading' = FALSE /\ fresh' = FALSE
       ELSE UNCHANGED <<listError, listLoading, fresh>>
    /\ UNCHANGED <<stamp, tidings, listening, unheard, onDisplay, hasOperator, list, nextCursor,
                   olderPage, chosen, astray, draftVars, clicks>>

-----------------------------------------------------------------------------
(* loadOlder                                                               *)

\* The draft takes the place of the list, for an operator.
Shows == ~listLoading /\ ~listError /\ (draft = 0 \/ ~hasOperator)

LoadOlder ==
    /\ hasOperator /\ Shows /\ nextCursor # 0 /\ olderPage.stage = "idle" /\ Click
    /\ olderPage' = [Asks(onDisplay) EXCEPT !.next = nextCursor]
    /\ UNCHANGED <<stamp, tidings, listening, unheard, onDisplay, hasOperator, list, nextCursor,
                   firstPage, listLoading, listError, chosen, fresh, astray, draftVars,
                   listFaults>>

OlderAnswered ==
    /\ olderPage.stage = "asked"
    /\ olderPage' = LET page == PageOf(olderPage.home, olderPage.next)
                    IN [olderPage EXCEPT !.stage = "answered", !.page = page,
                                         !.next = NextOf(page)]
    /\ UNCHANGED <<stamp, tidings, listening, unheard, onDisplay, hasOperator, list, nextCursor,
                   firstPage, listLoading, listError, chosen, fresh, astray, draftVars, clicks,
                   listFaults>>

\* Mutant of Merged: the older page takes the place of the list.
ReplacedBy(page) == page

Merged(page) == list \cup page

\* Whatever was loaded, or switched to, since it was asked for.
OlderApplied ==
    /\ olderPage.stage = "answered"
    /\ olderPage' = NoPage
    /\ list' = Merged(olderPage.page) /\ nextCursor' = olderPage.next
    /\ UNCHANGED <<stamp, tidings, listening, unheard, onDisplay, hasOperator, firstPage,
                   listLoading, listError, chosen, fresh, astray, draftVars, clicks, listFaults>>

OlderFails ==
    /\ olderPage.stage # "idle" /\ ListFault
    /\ olderPage' = NoPage /\ listError' = TRUE
    /\ UNCHANGED <<stamp, tidings, listening, unheard, onDisplay, hasOperator, list, nextCursor,
                   firstPage, listLoading, chosen, fresh, astray, draftVars, clicks>>

-----------------------------------------------------------------------------
(* Workspaces                                                              *)

\* switchWorkspace: the endpoints of the other workspace are not there yet.  The view is not
\* mounted anew; its subscription is closed and opened again.  The first page that is under way
\* for the workspace left behind still counts.
SwitchWorkspace(w) ==
    /\ w # onDisplay /\ Click
    /\ onDisplay' = w /\ hasOperator' = FALSE
    /\ chosen' = FALSE /\ draftRef' = 0 /\ draft' = 0 /\ nextCursor' = 0
    /\ Empties /\ Interrupts
    /\ listening' = FALSE /\ tidings' = {} /\ unheard' = TRUE
    /\ UNCHANGED <<stamp, firstPage, olderPage, listError, sending, made, written, drafts,
                   listFaults>>

\* setActors: load is another function, so the first page is loaded again and the subscription
\* closed and opened again.
LoadsAnew ==
    /\ BeginLoad(onDisplay) /\ ClearError /\ listLoading' = TRUE
    /\ listening' = FALSE /\ tidings' = {}
    /\ UNCHANGED <<stamp, unheard, onDisplay, list, nextCursor, olderPage, chosen, fresh, astray,
                   draftVars, listFaults>>

EndpointsArrive ==
    /\ ~hasOperator /\ hasOperator' = TRUE
    /\ LoadsAnew
    /\ UNCHANGED clicks

\* refreshActors: an endpoint of the workspace was registered, changed or retired.
RefreshActors ==
    /\ hasOperator /\ Click
    /\ LoadsAnew
    /\ UNCHANGED hasOperator

ListOpens ==
    /\ ~listening
    /\ listening' = TRUE
    /\ UNCHANGED <<stamp, tidings, unheard, onDisplay, hasOperator, pageListVars, draftVars,
                   clicks, listFaults>>

-----------------------------------------------------------------------------
(* Conversations made and deleted                                          *)

StartNewWith ==
    /\ hasOperator /\ Click
    /\ OpenDraft(drafts + 1)
    /\ ClearError
    /\ UNCHANGED <<stamp, tidings, listening, unheard, onDisplay, hasOperator, list, nextCursor,
                   firstPage, olderPage, listLoading, chosen, fresh, astray, listFaults>>

OpenConversation ==
    /\ (draft # 0 \/ listError) /\ Click
    /\ draft' = 0 /\ draftRef' = 0 /\ Interrupts
    /\ ClearError
    /\ UNCHANGED <<stamp, tidings, listening, unheard, onDisplay, hasOperator, list, nextCursor,
                   firstPage, olderPage, listLoading, chosen, fresh, astray, sending, made,
                   written, drafts, listFaults>>

FirstStep == IF draftRef = 0 THEN "creating" ELSE "emitting"

StartOutcome ==
    /\ hasOperator /\ draft # 0 /\ sending.stage = "idle" /\ Click
    /\ sending' = [stage |-> FirstStep, key |-> draft, ref |-> draftRef, home |-> onDisplay]
    /\ ClearError
    /\ UNCHANGED <<stamp, tidings, listening, unheard, onDisplay, hasOperator, list, nextCursor,
                   firstPage, olderPage, listLoading, chosen, fresh, astray, draft, draftRef,
                   made, written, drafts, interrupted, listFaults>>

BusTakesDraft ==
    /\ \/ /\ sending.stage = "creating"
          /\ sending' = [sending EXCEPT !.stage = "created", !.ref = sending.key]
          /\ made' = [made EXCEPT ![sending.key] = @ + 1]
          /\ UNCHANGED written
       \/ /\ sending.stage = "emitting"
          /\ sending' = [sending EXCEPT !.stage = "taken"]
          /\ written' = written \cup {<<sending.key, sending.ref>>}
          /\ UNCHANGED made
    /\ UNCHANGED <<stamp, tidings, listening, unheard, onDisplay, hasOperator, pageListVars,
                   draft, draftRef, drafts, interrupted, clicks, listFaults>>

\* draftContextId takes the Context, whichever draft is open by now.
ContextMade ==
    /\ sending.stage = "created"
    /\ draftRef' = sending.ref
    /\ sending' = [sending EXCEPT !.stage = "emitting"]
    /\ UNCHANGED <<stamp, tidings, listening, unheard, onDisplay, hasOperator, pageListVars,
                   draft, made, written, drafts, interrupted, clicks, listFaults>>

\* The load is the one of the workspace the draft was sent in.
DraftSent ==
    /\ sending.stage = "taken"
    /\ sending' = NotSending /\ draft' = 0
    /\ BeginLoad(sending.home) /\ ClearError
    /\ UNCHANGED <<stamp, tidings, listening, unheard, onDisplay, hasOperator, list, nextCursor,
                   olderPage, listLoading, chosen, fresh, astray, draftRef, made, written, drafts,
                   interrupted, clicks, listFaults>>

\* A call fails, before or after the bus did its part.
DraftFails ==
    /\ sending.stage # "idle" /\ ListFault
    /\ sending' = NotSending /\ listError' = TRUE
    /\ UNCHANGED <<stamp, tidings, listening, unheard, onDisplay, hasOperator, list, nextCursor,
                   firstPage, olderPage, listLoading, chosen, fresh, astray, draft, draftRef,
                   made, written, drafts, interrupted, clicks>>

DeleteCurrentConversation(c) ==
    /\ hasOperator /\ RoomHome[c] = onDisplay /\ stamp[c] # 0 /\ Click
    /\ stamp' = [stamp EXCEPT ![c] = 0]
    /\ tidings' = IF listening THEN tidings \cup {onDisplay} ELSE tidings
    /\ BeginLoad(onDisplay) /\ ClearError
    /\ UNCHANGED <<listening, unheard, onDisplay, hasOperator, list, nextCursor, olderPage,
                   listLoading, chosen, fresh, astray, draftVars, listFaults>>

-----------------------------------------------------------------------------
ListProceeds ==
    \/ \E w \in Workspaces : ListHears(w)
    \/ \E k \in {"latest", "superseded"} : FirstAnswered(k) \/ FirstApplied(k)
    \/ OlderAnswered \/ OlderApplied \/ ListOpens
    \/ BusTakesDraft \/ ContextMade \/ DraftSent

ListNext ==
    \/ ListProceeds
    \/ \E c \in Rooms : RoomActivity(c) \/ DeleteCurrentConversation(c)
    \/ \E k \in {"latest", "superseded"} : FirstFails(k)
    \/ \E w \in Workspaces : SwitchWorkspace(w)
    \/ EndpointsArrive \/ RefreshActors
    \/ LoadOlder \/ OlderFails
    \/ StartNewWith \/ OpenConversation \/ StartOutcome \/ DraftFails

ListSpec == ListInit /\ [][ListNext]_listVars /\ WF_listVars(ListProceeds)

-----------------------------------------------------------------------------
(* Properties                                                              *)

\* See ListIsTrue in MCDesktop for the three.
ListIsOfWorkspace ==
    Shows /\ ~astray => \A c \in list : RoomHome[c] = onDisplay

ListHasNoGap ==
    /\ Shows /\ ~unheard /\ tidings = {} /\ fresh /\ ~astray
    /\ \A k \in {"latest", "superseded"} : firstPage[k].stage = "idle"
    /\ olderPage.stage = "idle"
    => \A c \in RoomsOf(onDisplay, MaxStamp + 1) : stamp[c] > nextCursor => c \in list

DraftKeepsItsContext ==
    /\ \A k \in Drafts : made[k] <= 1 + listFaults
    /\ interrupted \/ \A w \in written : w[1] = w[2]

\* A list that is loading ends loaded or in an error, also when its load is superseded.
LoadingEnds == []<>~listLoading
=============================================================================
