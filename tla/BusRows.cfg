SPECIFICATION Spec
CONSTANTS
    Endpoints = {e1}
    Bridges = {b1}
    Scopes = {"s1", "s2"}
    NoEndpoint = NoEndpoint
    NoBridge = NoBridge
    NoScope = NoScope
    Commands <- MixedCommands
    Kinds = {"message", "ask"}
    Reports = {"injected_to_runtime", "acknowledged", "dead_lettered", "deferred", "failed"}
    OperatorStatuses = {"waiting", "error"}
    MaxEvents = 1
    MaxAttempts = 4
INVARIANTS
    TypeOK
    DeliveryTablesAgree
PROPERTIES
    SettledIsFinal
