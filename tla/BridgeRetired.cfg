SPECIFICATION ScopedSpec
CONSTANTS
    Endpoints = {"c1"}
    Agents = {}
    Bridges = {"b1"}
    Bridge = "b1"
    Scopes = {"s1"}
    NoEndpoint = "none"
    NoBridge = "none"
    NoScope = "none"
    Commands <- OneCommand
    Kinds = {"trigger", "message"}
    Reports = {"injected_to_runtime", "acknowledged", "dead_lettered"}
    OperatorStatuses = {}
    MaxEvents = 2
    MaxAttempts = 1
    Outcomes = {"text"}
    Disturbances = {}
    MaxFaults = 0
CHECK_DEADLOCK FALSE
PROPERTIES
    RetiredUntilRegistered
