\* The independent parts of the server, each with an instance of its own.
SPECIFICATION ServicesSpec
CONSTANTS
    \* ProviderDelivery
    Recipients = {"r1", "r2"}
    EnvRecipients = {"r1"}
    Workers = {w1, w2}
    MailboxHosts = {hA, hB}
    MaxSends = 2
    MaxChanges = 1
    MaxRestarts = 1
    None = None
    \* PushFanOut
    Handsets = {"h1", "h2"}
    MaxPushChanges = 2
    MaxDispatches = 1
    \* BurstAlert
    Replicas = {p1, p2}
    Threshold = 2
    Suppress = 2
    Window = 1
    MaxRejections = 4
    MaxClock = 2
    \* RetryTiming
    RetryWorkers = {"w1", "w2"}
    Attempts = {1, 7}
    Headers <- RetryAfters
    Randoms = {0, 1000}
    Pauses = {72000}
    LastMoment = 72000
    MaxFailedAttempts = 3
    \* SchemaBootstrap
    Boots = {"b1", "b2"}
    Releases = 2
    MaxStarts = 5
    MaxReconciles = 2
    NoBoot = "none"
    \* IncidentBrowser
    MaxAlerts = 2
    ClipsPerAlert = 1
    MaxLoads = 3
    MaxDeletes = 2
    \* DeliveryWarnings
    Rows = {"r1"}
    StuckAfter = 1
    StaleAfter = 1
    MaxPolls = 1
    MaxPeriods = 3
INVARIANTS
    DialogueIsSafe AttackIsReported WaitsAreKept
    BootIsSound BrowserShowsTheRecord AlarmIsTrue
PROPERTIES
    DeliveryIsHonest WakesFindTheirHandset
SYMMETRY ServicesSymmetry
CHECK_DEADLOCK FALSE
