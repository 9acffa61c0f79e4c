SPECIFICATION WakeSpec
CONSTANTS
    Endpoints = {"a1"}
    Agents = {"a1"}
    Bridges = {"b1"}
    Bridge = "b1"
    Scopes = {}
    NoEndpoint = "none"
    NoBridge = "none"
    NoScope = "none"
    Commands <- NoCommands
    Kinds = {"trigger"}
    Reports = {"injected_to_runtime", "acknowledged", "dead_lettered"}
    OperatorStatuses = {}
    MaxEvents = 3
    MaxAttempts = 3
    Outcomes = {"text", "silent", "error"}
    Disturbances = {"crash", "disconnect", "rescan"}
    MaxFaults = 1
CHECK_DEADLOCK FALSE
INVARIANTS
    DaemonTypeOK
    OneHandlerPerEndpoint
PROPERTIES
    KeepsPromise
    EveryRowSettles
