SPECIFICATION AskSpec
CONSTANTS
    Endpoints = {"a1", "a2"}
    Agents = {"a1", "a2"}
    Bridges = {"b1"}
    Bridge = "b1"
    Scopes = {}
    NoEndpoint = "none"
    NoBridge = "none"
    NoScope = "none"
    Commands <- NoCommands
    Kinds = {"trigger", "request"}
    Reports = {"injected_to_runtime", "acknowledged", "dead_lettered"}
    OperatorStatuses = {}
    MaxEvents = 5
    MaxAttempts = 3
    Outcomes = {"text"}
    Disturbances = {}
    MaxFaults = 0
CHECK_DEADLOCK FALSE
PROPERTIES
    RequestsEndUnlessDropped
