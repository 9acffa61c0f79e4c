----------------------------- MODULE FolderWatch -----------------------------
(***************************************************************************)
(* A folder Event source: the watcher the bridge runs for a trigger node   *)
(* (folder-watcher.ts, daemon.ts) and the firing of the node at the bus    *)
(* (store.ts).  Notifications of the filesystem are hints that arm a       *)
(* settle timer; what is observed is the version of the file that is there *)
(* when the timer fires.  A scan replaces the watcher, with its timers and *)
(* its memory.  The bus fires the node for each subscriber in a            *)
(* transaction of its own.                                                 *)
(***************************************************************************)
EXTENDS Naturals, FiniteSets

CONSTANTS
    WatchedFiles,    \* names in the folder
    Wakeable,        \* endpoints subscribed to the type of the node
    MaxVersion,      \* bound: versions of a file
    MaxTouches,      \* bound: notifications that bring no version
    MaxRescans,      \* bound: scans and ends of the bridge
    MaxFireFaults    \* bound: firings cut short
ASSUME WatchAssumption ==
    MaxVersion \in Nat \ {0} /\ {MaxTouches, MaxRescans, MaxFireFaults} \subseteq Nat

VARIABLES
    onDisk,        \* the version of each file, 0 when it is not there
    written,       \* versions written so far
    watching,      \* a watcher is running
    hints,         \* files with a notification the watcher has not taken
    settling,      \* files whose settle timer is pending
    lastArrival,   \* lastArrivalByPath
    fires,         \* firings sent to the bus, with the subscribers still to wake
    woken,         \* at the bus: events for a version of a file and a subscriber
    unseen,        \* history: versions that no watcher saw settle, or whose firing was cut
    touches, rescans, fireFaults

watchVars == <<onDisk, written, watching, hints, settling, lastArrival, fires, woken,
               unseen, touches, rescans, fireFaults>>

FileVersions == 0 .. MaxVersion
Arrivals == WatchedFiles \X (1 .. MaxVersion)
Nothing == [f \in WatchedFiles |-> 0]
Firing(f, v, left) == [file |-> f, version |-> v, left |-> left]

WatchTypeOK ==
    /\ onDisk \in [WatchedFiles -> FileVersions] /\ written \in [WatchedFiles -> FileVersions]
    /\ watching \in BOOLEAN
    /\ hints \in SUBSET WatchedFiles /\ settling \in SUBSET WatchedFiles
    /\ lastArrival \in [WatchedFiles -> FileVersions]
    /\ \A x \in fires : <<x.file, x.version>> \in Arrivals /\ x.left \subseteq Wakeable
    /\ woken \in [Arrivals -> [Wakeable -> 0 .. 2]] /\ unseen \subseteq Arrivals
    /\ touches \in 0 .. MaxTouches /\ rescans \in 0 .. MaxRescans
    /\ fireFaults \in 0 .. MaxFireFaults

WatchInit ==
    /\ onDisk = Nothing /\ written = Nothing /\ watching = FALSE
    /\ hints = {} /\ settling = {} /\ lastArrival = Nothing
    /\ fires = {} /\ woken = [a \in Arrivals |-> [s \in Wakeable |-> 0]] /\ unseen = {}
    /\ touches = 0 /\ rescans = 0 /\ fireFaults = 0

-----------------------------------------------------------------------------
\* The folder.

Hint(f) == hints' = IF watching THEN hints \cup {f} ELSE hints

\* A version is a size and a modification time.
WriteFile(f) ==
    /\ written[f] < MaxVersion
    /\ written' = [written EXCEPT ![f] = @ + 1] /\ onDisk' = [onDisk EXCEPT ![f] = written[f] + 1]
    /\ Hint(f)
    /\ unseen' = IF watching THEN unseen ELSE unseen \cup {<<f, written[f] + 1>>}
    /\ UNCHANGED <<watching, settling, lastArrival, fires, woken, touches, rescans, fireFaults>>

RemoveFile(f) ==
    /\ onDisk[f] # 0 /\ onDisk' = [onDisk EXCEPT ![f] = 0] /\ Hint(f)
    /\ UNCHANGED <<written, watching, settling, lastArrival, fires, woken, unseen, touches,
                   rescans, fireFaults>>

\* A second notification of a change, or a change of an attribute.
TouchFile(f) ==
    /\ watching /\ touches < MaxTouches /\ touches' = touches + 1 /\ Hint(f)
    /\ UNCHANGED <<onDisk, written, watching, settling, lastArrival, fires, woken, unseen,
                   rescans, fireFaults>>

-----------------------------------------------------------------------------
\* The watcher.

\* Each notification starts the timer of its path anew.
TakeHint(f) ==
    /\ f \in hints /\ hints' = hints \ {f} /\ settling' = settling \cup {f}
    /\ UNCHANGED <<onDisk, written, watching, lastArrival, fires, woken, unseen, touches,
                   rescans, fireFaults>>

\* Mutant: a path is observed once.
IsNewPath(f) == onDisk[f] # 0 /\ lastArrival[f] = 0
\* What a settled file is worth observing for: a version not observed last.
IsArrival(f) == onDisk[f] \notin {0, lastArrival[f]}

Settle(f) ==
    /\ f \in settling /\ settling' = settling \ {f}
    /\ IF IsArrival(f)
       THEN /\ lastArrival' = [lastArrival EXCEPT ![f] = onDisk[f]]
            /\ fires' = fires \cup {Firing(f, onDisk[f], Wakeable)}
       ELSE UNCHANGED <<lastArrival, fires>>
    /\ UNCHANGED <<onDisk, written, watching, hints, woken, unseen, touches, rescans, fireFaults>>

\* Versions whose notification goes with the watcher.
Unsettled == {a \in Arrivals : a[1] \in hints \cup settling /\ onDisk[a[1]] = a[2]}

\* A scan stops the watcher and starts another, if the node and its folder are there;
\* the end of the bridge starts none.
ReplaceWatcher(there) ==
    /\ rescans < MaxRescans /\ rescans' = rescans + 1
    /\ watching' = there /\ hints' = {} /\ settling' = {} /\ lastArrival' = Nothing
    /\ unseen' = unseen \cup Unsettled
    /\ UNCHANGED <<onDisk, written, fires, woken, touches, fireFaults>>

-----------------------------------------------------------------------------
\* The bus.

\* Mutant: the firing has a key of its own.
FiredAnew(count) == IF count > 1 THEN count ELSE count + 1
\* emitTriggerEvent: the idempotency key names the node, the arrival and the subscriber.
Fired(count) == IF count > 0 THEN count ELSE 1

WakeSubscriber(x, s) ==
    /\ x \in fires /\ s \in x.left
    /\ woken' = [woken EXCEPT ![<<x.file, x.version>>][s] = Fired(@)]
    /\ fires' = (fires \ {x}) \cup (IF x.left = {s} THEN {} ELSE {[x EXCEPT !.left = @ \ {s}]})
    /\ UNCHANGED <<onDisk, written, watching, hints, settling, lastArrival, unseen, touches,
                   rescans, fireFaults>>

\* The bus cannot be reached, refuses the node or a subscriber, or stops between two: the
\* bridge logs it.
FiringCut(x) ==
    /\ x \in fires /\ fireFaults < MaxFireFaults /\ fireFaults' = fireFaults + 1
    /\ fires' = fires \ {x} /\ unseen' = unseen \cup {<<x.file, x.version>>}
    /\ UNCHANGED <<onDisk, written, watching, hints, settling, lastArrival, woken, touches, rescans>>

-----------------------------------------------------------------------------
WatchNext ==
    \/ \E f \in WatchedFiles : WriteFile(f) \/ RemoveFile(f) \/ TouchFile(f) \/ TakeHint(f) \/ Settle(f)
    \/ \E there \in BOOLEAN : ReplaceWatcher(there)
    \/ \E x \in fires : FiringCut(x) \/ \E s \in Wakeable : WakeSubscriber(x, s)

\* Notifications and timers are served, and so are the calls to the bus.
WatchProceeds ==
    \/ \E f \in WatchedFiles : TakeHint(f) \/ Settle(f)
    \/ \E x \in fires, s \in Wakeable : WakeSubscriber(x, s)

WatchSpec == WatchInit /\ [][WatchNext]_watchVars /\ WF_watchVars(WatchProceeds)

-----------------------------------------------------------------------------
\* A version of a file wakes a subscriber at most once, whatever is notified twice and
\* however often the watcher is replaced.
WokenOnce == \A a \in Arrivals, s \in Wakeable : woken[a][s] <= 1

\* Files at a version that has neither woken every subscriber nor been lost.
Unfired ==
    {f \in WatchedFiles : /\ onDisk[f] # 0 /\ <<f, onDisk[f]>> \notin unseen
                         /\ \E s \in Wakeable : woken[<<f, onDisk[f]>>][s] = 0}

\* The version a file is left at wakes every subscriber, unless it came while nobody
\* watched, its watcher was replaced before it settled, or its firing was cut short.
ArrivalsAreFired == []WokenOnce /\ []<>(Unfired = {})
=============================================================================
