SPECIFICATION RequestSpec
CONSTANTS
    Endpoints = {e1, e2}
    Bridges = {b1}
    Scopes = {}
    NoEndpoint = NoEndpoint
    NoBridge = NoBridge
    NoScope = NoScope
    Commands <- MixedCommands
    Kinds = {"request", "trigger"}
    Reports = {"injected_to_runtime", "acknowledged"}
    OperatorStatuses = {}
    MaxEvents = 5
    MaxAttempts = 1
INVARIANTS
    RequestAnsweredOnce
SYMMETRY EndpointSymmetry
