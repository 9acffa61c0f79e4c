---------------------------- MODULE MCBridgeDaemon ----------------------------
(* Values for the runs of BridgeDaemon.                                        *)
EXTENDS BridgeDaemon

\* No Scope of a composition.
NoCommands == [s \in Scopes |-> {}]

\* One Scope with one command node.
OneCommand == [s \in Scopes |-> {"c1"}]

\* The daemon is up, listens to its stream and has attached every agent: a state
\* it reaches from DaemonInit by Start, OpenStream and its scan.
Attached ==
    /\ last = 0
    /\ event = [e \in Events |-> BlankEvent]
    /\ queue = [r \in Rows |-> "absent"]
    /\ attempts = [r \in Rows |-> 0]
    /\ holder = [r \in Rows |-> NoDelivery]
    /\ bundle = [r \in Rows |-> [n \in Attempts |-> "absent"]]
    /\ status = [p \in Endpoints |-> "idle"]
    /\ bridgeOf = [p \in Endpoints |-> Bridge]
    /\ pending = [e \in Events |-> "none"]
    /\ result = [r \in Rows |-> "none"]
    /\ retired = {}
    /\ settling = {}
    /\ up = TRUE /\ starting = FALSE /\ stream = TRUE /\ wire = <<>>
    /\ scan = Idle /\ known = Agents /\ claims = 0 /\ replies = {}
    /\ task = [d \in Deliveries |-> "none"] /\ cancelled = {}
    /\ emitted = {} /\ runs = [r \in Rows |-> 0]
    /\ faults = 0

\* Bound: MaxEvents where nothing is disturbed and every turn answers, otherwise two.
ThirdIfPlain ==
    last' > 2 =>
        /\ faults' = 0
        /\ \A r \in Rows :
               /\ result'[r] # "failed"
               /\ queue'[r] = "acknowledged" => result'[r] = "completed"
        /\ \A d \in Deliveries :
               /\ task'[d] # "failing"
               /\ task'[d] = "acking" => result'[d[1]] = "completed"

WakeSpec == DaemonInit /\ [][DaemonNext /\ ThirdIfPlain]_allVars /\ DaemonFairness

\* One trigger for "a1" starts the work: every later event is a request or its
\* return.
OneTrigger ==
    last' # last /\ event'[last'].kind = "trigger" => last = 0 /\ event'[last'].to = "a1"

AskSpec ==
    Attached /\ [][DaemonNext /\ OneTrigger]_allVars /\ DaemonFairness

\* No actor requests work of itself.
OthersAsked ==
    last' # last /\ event'[last'].kind = "request" =>
        event'[last'].to # event'[last'].source

AskOthersSpec ==
    Attached /\ [][DaemonNext /\ OneTrigger /\ OthersAsked]_allVars /\ DaemonFairness

\* All work belongs to a Scope, so that stopping the Scope cancels it.
ScopedWork == last' # last => event'[last'].scope # NoScope

ScopedSpec == DaemonInit /\ [][DaemonNext /\ ScopedWork]_allVars
=============================================================================
