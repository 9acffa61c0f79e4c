----------------------------- MODULE MCServices -----------------------------
(***************************************************************************)
(* The components of the services that share no state in these models,     *)
(* instantiated for TLC in one module: a behaviour is a behaviour of one   *)
(* of them, named by part, while the others stay as they began.            *)
(***************************************************************************)
EXTENDS Pulses, ScopeLifecycle, Attachment, Migrations, Credentials,
        RuntimeSession, FolderWatch, Extensions, FileEdits, CommandRuns, ModelListing

VARIABLE part

vars == <<part, pulseVars, scopeVars, attachVars, migrationVars,
          credentialVars, sessionVars, watchVars, extVars, file, commandVars,
          listingVars>>

\* Every command node belongs to the one Scope.
OneHome == [c \in CommandNodes |-> CHOOSE s \in WorkScopes : TRUE]

\* All tokens begin alike.
OnePrefix == [a \in Accounts |-> "eyJ"]

\* The first provider has the profile a, the second b.
TheProvider == [i \in ProfileIds |-> IF i = "b" THEN "q" ELSE "p"]

ServicesInit ==
    /\ part \in {"pulses", "scopes", "attachment", "migrations", "credentials",
                 "sessions", "watch", "extensions", "edits", "commands", "models"}
    /\ PulsesInit /\ ScopesInit /\ AttachInit /\ MigrationsInit
    /\ CredentialsInit /\ SessionInit /\ WatchInit /\ ExtInit /\ EditsInit
    /\ CommandsInit /\ ListingsInit
    /\ custom = {CHOOSE m \in Builtin : \A n \in Builtin : n <= m}
    /\ inUse = CHOOSE a \in Accounts : TRUE
    /\ part # "models" => providerKind = "none"
    /\ part # "pulses" => anchor = [c \in Anchors |-> NoPulseScope]
    /\ part # "commands" => kind = "node"
    /\ part # "migrations" => table = Vintage("absent", NoRows)

\* The other components stay as they are.
OthersStay ==
    /\ UNCHANGED part
    /\ part # "pulses" => UNCHANGED pulseVars
    /\ part # "scopes" => UNCHANGED scopeVars
    /\ part # "attachment" => UNCHANGED attachVars
    /\ part # "migrations" => UNCHANGED migrationVars
    /\ part # "credentials" => UNCHANGED credentialVars
    /\ part # "sessions" => UNCHANGED sessionVars
    /\ part # "watch" => UNCHANGED watchVars
    /\ part # "extensions" => UNCHANGED extVars
    /\ part # "edits" => UNCHANGED file
    /\ part # "commands" => UNCHANGED commandVars
    /\ part # "models" => UNCHANGED listingVars

ServicesNext ==
    /\ OthersStay
    /\ \/ part = "pulses" /\ PulsesNext
       \/ part = "scopes" /\ ScopesNext
       \/ part = "attachment" /\ AttachNext
       \/ part = "migrations" /\ MigrationsNext
       \/ part = "credentials" /\ CredentialsNext
       \/ part = "sessions" /\ SessionNext
       \/ part = "watch" /\ WatchNext
       \/ part = "extensions" /\ ExtNext
       \/ part = "edits" /\ EditsNext
       \/ part = "commands" /\ CommandsNext
       \/ part = "models" /\ ListingsNext

\* The fairness of the component the behaviour is one of.
ServicesFairness ==
    /\ WF_pulseVars(part = "pulses" /\ PulsesProceed)
    /\ WF_scopeVars(part = "scopes" /\ BridgeScans)
    /\ WF_attachVars(part = "attachment" /\ AttachProceeds)
    /\ WF_sessionVars(part = "sessions" /\ SessionProceeds)
    /\ WF_watchVars(part = "watch" /\ WatchProceeds)
    /\ WF_extVars(part = "extensions" /\ ExtProceeds)
    /\ WF_commandVars(part = "commands" /\ CommandProceeds)
    /\ WF_listingVars(part = "models" /\ ListingProceeds)

ServicesSpec == ServicesInit /\ [][ServicesNext]_vars /\ ServicesFairness

\* The component the behaviour is one of keeps its variables in their types.
ServicesTypeOK ==
    /\ part = "pulses" => PulseTypeOK
    /\ part = "scopes" => ScopeTypeOK
    /\ part = "attachment" => AttachTypeOK
    /\ part = "migrations" => MigrationTypeOK
    /\ part = "credentials" => CredentialTypeOK
    /\ part = "sessions" => SessionTypeOK
    /\ part = "watch" => WatchTypeOK
    /\ part = "extensions" => ExtTypeOK
    /\ part = "edits" => EditsTypeOK
    /\ part = "commands" => CommandTypeOK
    /\ part = "models" => ListingTypeOK

\* What the edit tool does to every file it may find, of a behaviour in which there are some:
\* see EditIsExact in FileEdits.
EditsAreExact == part = "edits" => EveryEditIsExact
=============================================================================
