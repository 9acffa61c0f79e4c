SPECIFICATION DaemonSpec
CONSTANTS
    Endpoints = {"a1"}
    Agents = {"a1"}
    Bridges = {"b1"}
    Bridge = "b1"
    Scopes = {"s1"}
    NoEndpoint = "none"
    NoBridge = "none"
    NoScope = "none"
    Commands <- NoCommands
    Kinds = {"trigger"}
    Reports = {"injected_to_runtime", "acknowledged", "dead_lettered"}
    OperatorStatuses = {}
    MaxEvents = 1
    MaxAttempts = 1
    Outcomes = {"text"}
    Disturbances = {}
    MaxFaults = 0
CHECK_DEADLOCK FALSE
PROPERTIES
    CancelledNeverStarts
