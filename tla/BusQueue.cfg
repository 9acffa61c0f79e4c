SPECIFICATION Spec
CONSTANTS
    Endpoints = {e1}
    Bridges = {b1}
    Scopes = {"s1"}
    NoEndpoint = NoEndpoint
    NoBridge = NoBridge
    NoScope = NoScope
    Commands <- MixedCommands
    Kinds = {"trigger"}
    Reports = {"injected_to_runtime", "acknowledged"}
    OperatorStatuses = {"waiting"}
    MaxEvents = 2
    MaxAttempts = 2
INVARIANTS
    NoForgottenWork
PROPERTIES
    NoReplayAfterInjection
