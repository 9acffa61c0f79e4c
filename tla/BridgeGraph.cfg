SPECIFICATION ScopedSpec
CONSTANTS
    Endpoints = {"a1", "c1"}
    Agents = {"a1"}
    Bridges = {"b1"}
    Bridge = "b1"
    Scopes = {"s1"}
    NoEndpoint = "none"
    NoBridge = "none"
    NoScope = "none"
    Commands <- OneCommand
    Kinds = {"trigger", "message"}
    Reports = {"injected_to_runtime", "acknowledged", "dead_lettered", "deferred"}
    OperatorStatuses = {}
    MaxEvents = 2
    MaxAttempts = 1
    Outcomes = {"text", "error", "unconfigured"}
    Disturbances = {}
    MaxFaults = 0
CHECK_DEADLOCK FALSE
PROPERTIES
    CancelledIsDropped
