--------------------------- MODULE RuntimeHealth ---------------------------
(***************************************************************************)
(* The packaged services and what the desktop shows of their health        *)
(* (floe-app: src-tauri/src/lib.rs, src/App.tsx, src/bus-client/stream.ts, *)
(* app/layout/LeftNav.tsx; the bridge's presence in floe-bus/src/server.ts *)
(* and the stream of floe-bridge/src/daemon.ts).                           *)
(*                                                                         *)
(* The shell starts the process that holds bus and bridge and reports its  *)
(* exit; the window learns of it by these reports, by its own event stream *)
(* with its retries and timer, and by asking the bus for its status.       *)
(***************************************************************************)
EXTENDS Integers, FiniteSets, FiniteSetsExt

CONSTANTS
    KillsStale,       \* the platform can stop an unresponsive process (Windows)
    MaxProcesses,     \* bounds: processes started,
    MaxHealthFaults   \*   hangs, exits and lost sockets

ASSUME HealthAssumption ==
    KillsStale \in BOOLEAN /\ MaxProcesses \in Nat \ {0} /\ MaxHealthFaults \in Nat

VARIABLES
    process,      \* the packaged substrate processes
    exiting,      \* processes whose end the shell has still to report
    bridgeOpen,   \* sockets of the bridge that the bus has not seen closed
    bridgeLast,   \* the latest of them, 0 if the bridge has lost it
    registered,   \* bridgeSockets: the socket of the bridge, 0 without an entry
    socket,       \* the window's event stream
    peer,         \* the process it was opened to
    backoff,      \* how often it was closed since it was open, up to LongBackoff
    timer,        \* runtimeOfflineTimer is set
    health,       \* runtimeHealth.state
    failed,       \* nativeRuntimeFailureRef
    connected,    \* runtimeWasConnectedRef
    asked,        \* refreshRuntimeHealth: calls not answered, and answers not applied
    muddled,      \* health was last set from news that did not hold any more (history)
    healthFaults

healthVars == <<process, exiting, bridgeOpen, bridgeLast, registered, socket, peer, backoff,
                timer, health, failed, connected, asked, muddled, healthFaults>>

Processes == 1..MaxProcesses
Sockets == 1..2        \* the bridge's sockets, in turn
LongBackoff == 2       \* at this many closures the next retry comes after the timer
Answers == {"online", "no bridge", "error"}

HealthTypeOK ==
    /\ process \in [Processes -> {"unborn", "booting", "serving", "hung", "gone"}]
    /\ exiting \subseteq Processes
    /\ bridgeOpen \subseteq Sockets /\ bridgeLast \in Sockets \cup {0}
    /\ registered \in Sockets \cup {0}
    /\ socket \in {"connecting", "open", "closed"} /\ peer \in Processes
    /\ backoff \in 0..LongBackoff
    /\ timer \in BOOLEAN /\ failed \in BOOLEAN /\ connected \in BOOLEAN /\ muddled \in BOOLEAN
    /\ health \in {"starting", "healthy", "degraded", "offline"}
    /\ asked \subseteq Answers \cup {"status"}
    /\ healthFaults \in 0..MaxHealthFaults

\* setup has started the first process; the window connects.
HealthInit ==
    /\ process = [p \in Processes |-> IF p = 1 THEN "booting" ELSE "unborn"]
    /\ exiting = {}
    /\ bridgeOpen = {} /\ bridgeLast = 0 /\ registered = 0
    /\ socket = "connecting" /\ peer = 1 /\ backoff = 0 /\ timer = FALSE
    /\ health = "starting" /\ failed = FALSE /\ connected = FALSE
    /\ asked = {} /\ muddled = FALSE /\ healthFaults = 0

\* The window's stream is open and its process serves.
Live == socket = "open" /\ process[peer] = "serving"
Serving == \E p \in Processes : process[p] = "serving"
Hung == \E p \in Processes : process[p] = "hung"

shellVars == <<process, exiting>>
bridgeVars == <<bridgeOpen, bridgeLast, registered>>
windowVars == <<socket, peer, backoff, timer, health, failed, connected, asked, muddled>>

-----------------------------------------------------------------------------
(* The process                                                             *)

Fault == healthFaults < MaxHealthFaults /\ healthFaults' = healthFaults + 1

\* listen: the port is free, or the process ends.
Boots(p) ==
    /\ process[p] = "booting"
    /\ IF Serving \/ Hung
       THEN process' = [process EXCEPT ![p] = "gone"] /\ exiting' = exiting \cup {p}
       ELSE process' = [process EXCEPT ![p] = "serving"] /\ UNCHANGED exiting
    /\ UNCHANGED <<bridgeVars, windowVars, healthFaults>>

Hangs(p) ==
    /\ process[p] = "serving" /\ Fault
    /\ process' = [process EXCEPT ![p] = "hung"]
    /\ UNCHANGED <<exiting, bridgeVars, windowVars>>

\* The bridge lives in the same process.
Dies(p) ==
    /\ process[p] \in {"booting", "serving"} /\ Fault
    /\ process' = [process EXCEPT ![p] = "gone"]
    /\ exiting' = exiting \cup {p}
    /\ IF process[p] = "serving"
       THEN bridgeOpen' = {} /\ bridgeLast' = 0 /\ registered' = 0
       ELSE UNCHANGED bridgeVars
    /\ UNCHANGED windowVars

-----------------------------------------------------------------------------
(* The bridge's presence                                                   *)

\* A stream message about the bridge makes a window that hears it ask.
Heard == IF Live THEN asked \cup {"status"} ELSE asked

\* The bridge opens a socket and says bridge_hello.
BridgeHello ==
    /\ Serving /\ bridgeLast = 0
    /\ \E s \in Sockets \ bridgeOpen :
          /\ bridgeOpen' = bridgeOpen \cup {s}
          /\ bridgeLast' = s /\ registered' = s
    /\ asked' = Heard
    /\ UNCHANGED <<shellVars, socket, peer, backoff, timer, health, failed, connected, muddled,
                   healthFaults>>

\* The bridge loses its socket; the bus may notice later than the bridge reconnects.
BridgeLosesSocket ==
    /\ bridgeLast # 0 /\ Fault
    /\ bridgeLast' = 0
    /\ UNCHANGED <<shellVars, bridgeOpen, registered, windowVars>>

EntryAfter(s) == IF registered = s THEN 0 ELSE registered

BusSeesClose(s) ==
    /\ Serving /\ s \in bridgeOpen \ {bridgeLast}
    /\ bridgeOpen' = bridgeOpen \ {s}
    /\ registered' = EntryAfter(s)
    /\ asked' = IF EntryAfter(s) # registered THEN Heard ELSE asked
    /\ UNCHANGED <<shellVars, bridgeLast, socket, peer, backoff, timer, health, failed, connected,
                   muddled, healthFaults>>

-----------------------------------------------------------------------------
(* The window's stream                                                     *)

SocketOpens ==
    /\ socket = "connecting" /\ Serving
    /\ socket' = "open" /\ peer' = CHOOSE p \in Processes : process[p] = "serving"
    /\ backoff' = 0 /\ timer' = FALSE
    /\ failed' = FALSE /\ connected' = TRUE /\ muddled' = FALSE
    /\ asked' = asked \cup {"status"}
    /\ UNCHANGED <<shellVars, bridgeVars, health, healthFaults>>

\* Mutant of HealthWhenClosed: the state of the stream is taken for the health.
StreamState == "closed"
HealthWhenClosed == "degraded"

StreamClosed ==
    /\ socket' = "closed" /\ UNCHANGED peer
    /\ backoff' = Min({backoff + 1, LongBackoff})
    /\ IF failed THEN UNCHANGED <<health, timer>>
       ELSE health' = HealthWhenClosed /\ timer' = TRUE
    /\ UNCHANGED <<shellVars, bridgeVars, failed, connected, asked, muddled>>

\* The socket is refused, or its process has ended.
SocketCloses ==
    /\ \/ socket = "connecting" /\ ~Serving /\ ~Hung
       \/ socket = "open" /\ process[peer] = "gone"
    /\ UNCHANGED healthFaults
    /\ StreamClosed

SocketBreaks == Live /\ Fault /\ StreamClosed

\* A retry connects again; while the delay is short it comes before the timer.
Retry ==
    /\ socket = "closed" /\ ~(backoff = LongBackoff /\ timer)
    /\ socket' = "connecting"
    /\ health' = IF failed THEN health
                 ELSE IF health = "healthy" \/ connected THEN "degraded" ELSE "starting"
    /\ UNCHANGED <<shellVars, bridgeVars, peer, backoff, timer, failed, connected, asked,
                   muddled, healthFaults>>

\* Mutant of TimerFires: a state that is shown already is left alone.
TimerFiresWhenStarting ==
    /\ timer /\ (socket = "connecting" \/ backoff = LongBackoff)
    /\ timer' = FALSE
    /\ health' = IF health = "starting" THEN "offline" ELSE health
    /\ UNCHANGED <<shellVars, bridgeVars, socket, peer, backoff, failed, connected, asked, muddled,
                   healthFaults>>

TimerFires ==
    /\ timer /\ (socket = "connecting" \/ backoff = LongBackoff)
    /\ timer' = FALSE
    /\ health' = IF health = "healthy" THEN health ELSE "offline"
    /\ UNCHANGED <<shellVars, bridgeVars, socket, peer, backoff, failed, connected, asked, muddled,
                   healthFaults>>

-----------------------------------------------------------------------------
(* refreshRuntimeHealth                                                    *)

StatusNow == IF ~Serving THEN "error" ELSE IF registered # 0 THEN "online" ELSE "no bridge"

StatusAnswered ==
    /\ "status" \in asked /\ ~Hung
    /\ asked' = (asked \ {"status"}) \cup {StatusNow}
    /\ UNCHANGED <<shellVars, bridgeVars, socket, peer, backoff, timer, health, failed, connected,
                   muddled, healthFaults>>

\* An answer is dropped after a native failure.
StatusApplied(answer) ==
    /\ answer \in asked
    /\ asked' = asked \ {answer}
    /\ IF failed THEN UNCHANGED <<health, muddled>>
       ELSE /\ health' = IF answer = "online" THEN "healthy" ELSE "degraded"
            /\ muddled' = (answer # StatusNow \/ ~Live)
    /\ UNCHANGED <<shellVars, bridgeVars, socket, peer, backoff, timer, failed, connected,
                   healthFaults>>

-----------------------------------------------------------------------------
(* The shell                                                               *)

\* The event substrate-health of an ended process.
ExitReported(p) ==
    /\ p \in exiting
    /\ exiting' = exiting \ {p}
    /\ timer' = FALSE /\ failed' = TRUE /\ health' = "offline"
    /\ muddled' = Live
    /\ UNCHANGED <<process, bridgeVars, socket, peer, backoff, connected, asked, healthFaults>>

\* The restart button, offered when health is offline: start_packaged_substrate.
\* A healthy process is kept, without an event; an unresponsive one is stopped, or
\* the restart fails.
Restart ==
    /\ health = "offline"
    /\ timer' = FALSE
    /\ IF Serving
       THEN /\ failed' = FALSE /\ health' = "starting" /\ muddled' = TRUE
            /\ UNCHANGED <<shellVars, bridgeVars>>
       ELSE IF Hung /\ ~KillsStale
       THEN /\ failed' = TRUE /\ health' = "offline" /\ UNCHANGED muddled
            /\ UNCHANGED <<shellVars, bridgeVars>>
       ELSE \E p \in Processes :
              /\ process[p] = "unborn" /\ \A q \in 1..(p - 1) : process[q] # "unborn"
              /\ process' = [q \in Processes |->
                               IF q = p THEN "booting"
                               ELSE IF process[q] = "hung" THEN "gone" ELSE process[q]]
              /\ exiting' = exiting \cup {q \in Processes : process[q] = "hung"}
              /\ IF Hung THEN bridgeOpen' = {} /\ bridgeLast' = 0 /\ registered' = 0
                 ELSE UNCHANGED bridgeVars
              /\ failed' = FALSE /\ health' = "starting" /\ UNCHANGED muddled
    /\ UNCHANGED <<socket, peer, backoff, connected, asked, healthFaults>>

HealthProceeds ==
    \/ \E p \in Processes : Boots(p) \/ ExitReported(p)
    \/ BridgeHello \/ \E s \in Sockets : BusSeesClose(s)
    \/ SocketOpens \/ SocketCloses \/ Retry \/ TimerFires
    \/ StatusAnswered \/ \E answer \in Answers : StatusApplied(answer)

HealthNext ==
    \/ HealthProceeds
    \/ \E p \in Processes : Hangs(p) \/ Dies(p)
    \/ BridgeLosesSocket \/ SocketBreaks
    \/ Restart

HealthSpec == HealthInit /\ [][HealthNext]_healthVars /\ WF_healthVars(HealthProceeds)

-----------------------------------------------------------------------------
(* Properties                                                              *)

PresentBridgeIsOnline == bridgeLast # 0 => registered = bridgeLast

HealthNeedsStream == health = "healthy" /\ ~muddled => socket = "open"

DownIsShown == Serving \/ Hung \/ health = "offline"
Recovers == Serving /\ registered # 0
RecoveryIsShown == health = "healthy" \/ muddled

\* As long as no process listens, the window comes to show the services offline again and
\* again, whatever its retries show in between.  When the services stay up with their bridge,
\* the window comes to show them healthy, unless it was last told something that did not hold
\* any more.
HealthIsShownInTheEnd ==
    /\ []<>DownIsShown
    /\ <>[]Recovers => <>[]RecoveryIsShown
=============================================================================
