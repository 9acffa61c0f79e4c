SPECIFICATION ServicesSpec
CONSTANTS
    PulseIds = {"p1"}
    Anchors = {"c1"}
    Generated = {"g1"}
    PulseScopes = {"s1"}
    NoPulseScope = "unscoped"
    MaxTime = 2
    LongestDelay = 1
    MaxPulseCalls = 3
    MaxOutages = 1
    WorkScopes = {"s1"}
    CommandNodes = {"c1", "c2"}
    HomeScope <- OneHome
    MaxScopeEdits = 3
    MaxStreamCuts = 1
    Agents = {"f", "g"}
    Built = {"f"}
    Saved = {"g"}
    MaxFolderEdits = 2
    MaxOwnerCalls = 2
    MaxCallFaults = 1
    Starters = {"p", "q"}
    RowIds = {1, 2}
    RowScopes = {"s1"}
    NoRowScope = "none"
    DefaultScope = "default"
    MaxStarts = 3
    MaxWrites = 2
    Providers = {"p", "q"}
    ProfileIds = {"a", "b"}
    ProviderOf <- TheProvider
    Turns = {1, 2}
    MaxTokens = 3
    MaxAuthCalls = 2
    MaxAuthCrashes = 1
    RuntimeConfigs = {"m1"}
    Overlays = {1, 2}
    MaxSessionTurns = 2
    MaxTexts = 1
    MaxSessionFaults = 1
    WatchedFiles = {"f"}
    Wakeable = {"s", "t"}
    MaxVersion = 2
    MaxTouches = 1
    MaxRescans = 2
    MaxFireFaults = 1
    Folders = {"v", "w"}
    Installed = {"handlers"}
    Ports = {"5378", "other"}
    PreferredPort = "5378"
    MaxCodeEdits = 1
    MaxExtScans = 1
    MaxExtFaults = 1
    Marks = {"a", "b", "w", "s", "n", "r"}
    NewMarks = {"n"}
    MaxText = 3
    MaxOld = 3
    MaxTwo = 1
    MaxNew = 1
    MaxOutput = 3
    CaptureLimit = 2
    ShownLimit = 1
    Builtin = {1, 2, 3}
    OwnModels = {}
    Accounts = {"u", "v"}
    NoAccount = "none"
    TokenPrefix <- OnePrefix
    PageLength = 1
    CacheLife = 1
    Listings = {1, 2}
    MaxHour = 1
    MaxMoves = 1
CHECK_DEADLOCK FALSE
INVARIANTS
    ServicesTypeOK
    AgendaIsFaithful
    GraphIsWiredAndServed
    AttachmentIsTrue
    ServedTablesAreWhole
    EditsAreExact
PROPERTIES
    FiringIsFaithful
    EverySlotIsFired
    ComposedIsServed
    RegisteredIsReported
    StartEndsServing
    CredentialsAreKept
    SessionIsSound
    ArrivalsAreFired
    ExtensionsAreServed
    CommandRunIsTrue
    ModelsAreServed
