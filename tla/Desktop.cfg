SPECIFICATION DesktopSpec
CONSTANTS
    HistoryPage = 1
    MaxMessages = 2
    MaxTurns = 1
    MaxLoads = 2
    MaxViewFaults = 1
    KillsStale = TRUE
    MaxProcesses = 2
    MaxHealthFaults = 2
    Workspaces = {"w1", "w2"}
    Rooms = {1, 2}
    RoomHome <- OneWorkspace
    ListPage = 1
    MaxStamp = 3
    MaxClicks = 3
    MaxListFaults = 1
    BoundActors = {"a", "b"}
    LoginProfiles = {"f1", "f2"}
    Models = {"m1", "m2"}
    MakerOf <- Made
    DefaultModel <- Named
    Unset = ""
    MaxChoices = 2
    MaxBindFaults = 1
    ContextIds = {"x", "y"}
    NoContext = "none"
    Actors = {"a"}
    WakingTypes = {"t"}
    Homes = {"s1"}
    NoHome = "unscoped"
    MaxHistory = 3
    MaxContextCalls = 2
    StoredIds = {1, 2, 3}
    Limits = {1, 2, 3}
    LargestPage = 2
    MaxInstant = 2
    AgentIds = {"r", "s"}
    Founders = {"r"}
    ToolTurns = {1, 2}
    MaxChanges = 2
    MaxSaves = 1
    Inspected = {"r"}
    MaxDefinitionFaults = 1
    ServiceNames = {"bus", "bridge"}
    StartOrder <- BusThenBridge
    Probed = {"bus"}
    Terminals = {1, 2}
    MaxPids = 4
    MaxCommands = 2
    Subscriptions = {"v1", "v2"}
    SignIns = {1, 2}
    MaxCards = 2
    MaxSignInFaults = 1
CHECK_DEADLOCK FALSE
INVARIANTS
    DesktopTypeOK
    ConversationIsTrue
    BindingIsTrue
    PagedReadersMissNothing
    DefinitionsAreTrue
PROPERTIES
    NewestAppears
    HealthIsShown
    ListIsTrue
    ContextsAreSound
    ServicesAreControlled
    SignInIsTrue
