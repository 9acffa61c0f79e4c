----------------------------- MODULE Extensions -----------------------------
(***************************************************************************)
(* The extension of each workspace, one of the same name in all of them:   *)
(* how a scan of the bridge loads it (extension-loader.ts, daemon.ts),     *)
(* starts a relay server for its HTTP handlers on the first free port      *)
(* (extension-relay.ts) and reports the port to the bus, which keeps it in *)
(* memory and forwards requests to it (floe-bus/src/server.ts).  Relay and *)
(* report belong to different processes, and a port outlives its relay.    *)
(* Extension pulses are left to Pulses, hooks to RuntimeSession.           *)
(***************************************************************************)
EXTENDS Naturals, FiniteSets

CONSTANTS
    Folders,         \* workspaces
    Installed,       \* what the extensions are when the bridge first starts
    Ports,           \* the ports a relay may get
    PreferredPort,   \* 5378
    MaxCodeEdits,    \* bound: changes of an extension on disk
    MaxExtScans,     \* bound: scans of changed workspaces
    MaxExtFaults     \* bound: failing calls, restarts of the bridge and of the bus

\* An extension that is not there, without HTTP handlers, with them, or whose factory
\* throws after it has registered some.
Kinds == {"absent", "plain", "handlers", "throws"}
NoPort == "no port"
NoFolder == "none"

ASSUME PortsAssumption ==
    /\ PreferredPort \in Ports /\ Cardinality(Ports) >= Cardinality(Folders)
    /\ {NoPort, "absent"} \cap Ports = {} /\ NoFolder \notin Folders
    /\ Installed \subseteq Kinds
    /\ {MaxCodeEdits, MaxExtScans, MaxExtFaults} \subseteq Nat

VARIABLES
    code,         \* the extension on disk
    imported,     \* the module cache of the bridge process
    loaded,       \* workspaceExtensions
    relay,        \* workspaceRelays: the port each listens on
    entry,        \* extensionRegistry: relay_url of each workspace, "absent" without entry
    due,          \* workspaces the scan has still to attach
    attach,       \* the workspace it is attaching, how far, and the port of its relay
    reconnecting, \* the bridge has lost the bus
    request,      \* a request under way to a relay
    outdated,     \* history: entries that a new or ended relay made wrong
    unreported,   \* history: workspaces whose last scan did not end in a report
    codeEdits, extScans, extFaults

extBridgeVars == <<imported, loaded, relay, due, attach, reconnecting>>
extVars == <<extBridgeVars, code, entry, request, outdated, unreported,
             codeEdits, extScans, extFaults>>

NotAttaching == [of |-> NoFolder, step |-> "idle", base |-> NoPort]
NoRequest == [of |-> NoFolder, port |-> NoPort, sure |-> FALSE]

ExtTypeOK ==
    /\ code \in [Folders -> Kinds] /\ imported \in [Folders -> Kinds \cup {"unread"}]
    /\ loaded \in [Folders -> Kinds]
    /\ relay \in [Folders -> Ports \cup {NoPort}]
    /\ entry \in [Folders -> Ports \cup {NoPort, "absent"}]
    /\ due \in SUBSET Folders /\ reconnecting \in BOOLEAN
    /\ attach \in [of : Folders \cup {NoFolder}, base : Ports \cup {NoPort},
                   step : {"idle", "agents", "relay", "report"}]
    /\ request \in [of : Folders \cup {NoFolder}, port : Ports \cup {NoPort}, sure : BOOLEAN]
    /\ outdated \in SUBSET Folders /\ unreported \in SUBSET Folders
    /\ codeEdits \in 0 .. MaxCodeEdits /\ extScans \in 0 .. MaxExtScans
    /\ extFaults \in 0 .. MaxExtFaults

ExtInit ==
    /\ code \in [Folders -> Installed] /\ imported = [w \in Folders |-> "unread"]
    /\ loaded = [w \in Folders |-> "absent"]
    /\ relay = [w \in Folders |-> NoPort] /\ entry = [w \in Folders |-> "absent"]
    /\ due = Folders /\ attach = NotAttaching /\ reconnecting = FALSE
    /\ request = NoRequest
    /\ outdated = {} /\ unreported = {}
    /\ codeEdits = 0 /\ extScans = 0 /\ extFaults = 0

ExtFault == extFaults < MaxExtFaults /\ extFaults' = extFaults + 1
ExtBounds == UNCHANGED <<codeEdits, extScans>>

-----------------------------------------------------------------------------
\* The scan.

\* The owner changes the extension.
EditCode(w, kind) ==
    /\ codeEdits < MaxCodeEdits /\ codeEdits' = codeEdits + 1
    /\ kind # code[w] /\ code' = [code EXCEPT ![w] = kind]
    /\ UNCHANGED <<extBridgeVars, entry, request, outdated, unreported,
                   extScans, extFaults>>

\* A message about a workspace starts a scan of all of them, unless one is under way.
BeginScan ==
    /\ due = {} /\ attach = NotAttaching
    /\ extScans < MaxExtScans /\ extScans' = extScans + 1 /\ due' = Folders
    /\ UNCHANGED <<imported, loaded, relay, attach, reconnecting, code, entry, request,
                    outdated, unreported, codeEdits, extFaults>>

\* What the loader finds: a module is imported once in the life of the process.
Found(w) ==
    IF code[w] = "absent" THEN "absent"
    ELSE IF imported[w] = "unread" THEN code[w] ELSE imported[w]

LoadExtension(w) ==
    /\ attach = NotAttaching /\ w \in due /\ due' = due \ {w}
    /\ imported' = IF code[w] = "absent" THEN imported ELSE [imported EXCEPT ![w] = Found(w)]
    /\ loaded' = [loaded EXCEPT ![w] = Found(w)]
    /\ attach' = [of |-> w, base |-> NoPort,
                  step |-> IF Found(w) \in {"plain", "handlers"} THEN "agents" ELSE "relay"]
    /\ UNCHANGED <<relay, reconnecting, code, entry, request, outdated,
                   unreported, extFaults>> /\ ExtBounds

AttachEnds == attach' = NotAttaching

\* A bundled agent that cannot be registered ends the loading of the workspace.
RegisterBundled ==
    /\ attach.step = "agents"
    /\ \/ /\ attach' = [attach EXCEPT !.step = "relay"] /\ UNCHANGED <<unreported, extFaults>>
       \/ /\ ExtFault /\ AttachEnds /\ unreported' = unreported \cup {attach.of}
    /\ UNCHANGED <<imported, loaded, relay, due, reconnecting, code, entry, request,
                   outdated>> /\ ExtBounds

\* A factory that throws keeps the handlers it has registered.
HasHandlers(w) == loaded[w] \in {"handlers", "throws"}

\* Ports free once the previous relay of w is closed.
FreePorts(w) == Ports \ {relay[v] : v \in Folders \ {w}}

\* listenOn: the preferred port, or any other when it is taken.
ListenOn(w) == IF PreferredPort \in FreePorts(w) THEN {PreferredPort} ELSE FreePorts(w)

\* The relay is replaced only by another: without handlers the previous one stays.
StartRelay ==
    LET w == attach.of IN
    /\ attach.step = "relay"
    /\ IF HasHandlers(w)
       THEN /\ \/ /\ \E p \in ListenOn(w) :
                        /\ relay' = [relay EXCEPT ![w] = p]
                        /\ attach' = [attach EXCEPT !.step = "report", !.base = p]
                  /\ UNCHANGED extFaults
               \/ /\ ExtFault /\ relay' = [relay EXCEPT ![w] = NoPort]
                  /\ attach' = [attach EXCEPT !.step = "report"]
            /\ outdated' = outdated \cup {w}
            /\ request' = IF request.of = w THEN [request EXCEPT !.sure = FALSE] ELSE request
       ELSE /\ attach' = [attach EXCEPT !.step = "report"]
            /\ UNCHANGED <<relay, outdated, request, extFaults>>
    /\ UNCHANGED <<imported, loaded, due, reconnecting, code, entry, unreported>>
    /\ ExtBounds

\* Mutant: the port reported is the one of the relay the workspace had before.
PortBefore == LET p == entry[attach.of] IN IF p \in Ports THEN p ELSE attach.base
\* The port reported for an extension with handlers.
RelayUrl == attach.base

\* reportExtensions: entries of extensions that are gone are not withdrawn.
ReportExtensions ==
    LET w == attach.of IN
    /\ attach.step = "report" /\ AttachEnds
    /\ \/ /\ ~reconnecting /\ loaded[w] # "absent"
          /\ entry' = [entry EXCEPT ![w] = IF HasHandlers(w) THEN RelayUrl ELSE NoPort]
          /\ outdated' = outdated \ {w} /\ unreported' = unreported \ {w}
          /\ UNCHANGED extFaults
       \/ /\ ~reconnecting /\ loaded[w] = "absent"
          /\ UNCHANGED <<entry, outdated, unreported, extFaults>>
       \/ /\ \/ reconnecting /\ UNCHANGED extFaults
             \/ ~reconnecting /\ ExtFault
          /\ unreported' = unreported \cup {w} /\ UNCHANGED <<entry, outdated>>
    /\ UNCHANGED <<imported, loaded, relay, due, reconnecting, code, request>>
    /\ ExtBounds

-----------------------------------------------------------------------------
\* Restarts.

\* The registry of the bus is not persisted.
BusRestarts ==
    /\ ExtFault /\ ~reconnecting /\ reconnecting' = TRUE
    /\ entry' = [w \in Folders |-> "absent"] /\ request' = NoRequest
    /\ UNCHANGED <<imported, loaded, relay, due, attach, code, outdated,
                   unreported>> /\ ExtBounds

\* Mutant: only the first stream of the bridge starts a scan.
NoScanAtReconnect == UNCHANGED <<due, unreported>>
\* The reopened stream starts a scan, or none when one is under way.
ScanAtReconnect ==
    IF due = {} /\ attach = NotAttaching
    THEN due' = Folders /\ UNCHANGED unreported
    ELSE /\ unreported' = unreported \cup {w \in Folders \ (due \cup {attach.of}) : entry[w] = "absent"}
         /\ UNCHANGED due

Reconnect ==
    /\ reconnecting /\ reconnecting' = FALSE /\ ScanAtReconnect
    /\ UNCHANGED <<imported, loaded, relay, attach, code, entry, request,
                   outdated, extFaults>> /\ ExtBounds

\* The process ends and another starts: the ports are free, the entries still name them.
ExtBridgeRestarts ==
    /\ ExtFault
    /\ imported' = [w \in Folders |-> "unread"] /\ loaded' = [w \in Folders |-> "absent"]
    /\ relay' = [w \in Folders |-> NoPort] /\ due' = Folders /\ attach' = NotAttaching
    /\ outdated' = outdated \cup {w \in Folders : relay[w] # NoPort}
    /\ request' = [request EXCEPT !.sure = FALSE]
    /\ UNCHANGED <<reconnecting, code, entry, unreported>> /\ ExtBounds

-----------------------------------------------------------------------------
\* Requests.

\* The entry of the workspace or, without one, any entry of the name.
EntriesFor(w) ==
    IF entry[w] # "absent" THEN {w} ELSE {v \in Folders : entry[v] # "absent"}

\* GET or POST /v1/extensions/:name/*; refused when there is no entry or no port.
AskRelay(w) ==
    /\ request = NoRequest
    /\ \E v \in EntriesFor(w) :
          /\ entry[v] \in Ports
          /\ request' = [of |-> w, port |-> entry[v], sure |-> v = w /\ w \notin outdated]
    /\ UNCHANGED <<extBridgeVars, code, entry, outdated, unreported, extFaults>>
    /\ ExtBounds

\* Whoever listens on the port; with nobody there the answer is 502.
Answerer == {v \in Folders : relay[v] = request.port}

RelayAnswers ==
    /\ request # NoRequest /\ request' = NoRequest
    /\ UNCHANGED <<extBridgeVars, code, entry, outdated, unreported, extFaults>> /\ ExtBounds

-----------------------------------------------------------------------------
ExtNext ==
    \/ \E w \in Folders : LoadExtension(w) \/ AskRelay(w) \/ \E k \in Kinds : EditCode(w, k)
    \/ BeginScan \/ RegisterBundled \/ StartRelay \/ ReportExtensions
    \/ BusRestarts \/ Reconnect \/ ExtBridgeRestarts \/ RelayAnswers

\* The bridge goes on with its scan and reopens its stream.
ExtProceeds ==
    \/ \E w \in Folders : LoadExtension(w)
    \/ RegisterBundled \/ StartRelay \/ ReportExtensions \/ Reconnect

ExtSpec == ExtInit /\ [][ExtNext]_extVars /\ WF_extVars(ExtProceeds)

-----------------------------------------------------------------------------
\* No two relays share a port, and an entry that no later relay or process made wrong
\* names the relay of its own workspace.
EntriesAreTrue ==
    /\ \A v, w \in Folders : v # w /\ relay[v] # NoPort => relay[v] # relay[w]
    /\ \A w \in Folders \ outdated : entry[w] \in Ports => relay[w] = entry[w]

\* A request for a workspace is answered by its own extension, not by the namesake of
\* another, unless its entry was missing or wrong when it was forwarded or its relay was
\* replaced under way.
AnswerIsOwn == request.sure => Answerer = {request.of}

\* Extensions in use that the bus does not know.
Unknown == {w \in Folders \ unreported : loaded[w] # "absent" /\ entry[w] = "absent"}

\* After a restart of the bus every extension in use becomes known again, unless a call of
\* the scan failed or the stream came back in the middle of one.
ExtensionsAreServed == [](EntriesAreTrue /\ AnswerIsOwn) /\ []<>(Unknown = {})
=============================================================================
