\* The handset's and the console's sessions and the mailboxes, each with an instance of its own.
SPECIFICATION SessionsSpec
CONSTANTS
    \* AppUpdates
    Builds = {2, 3}
    Publishers = {"p1", "p2"}
    MaxDownloads = 2
    MaxChecks = 2
    InstallMaxAttempts = 3
    None = None
    \* DeviceCredential
    Attempts = {1, 2}
    Posters = {"p1"}
    MaxCredentials = 2
    MaxRecreations = 1
    MaxTyped = 1
    \* SendStatusLine
    Taps = {1, 2}
    MaxOpens = 2
    \* SmsSegmenter
    MaxLength = 5
    Gsm7Single = 4
    Gsm7Concat = 3
    UnicodeSingle = 3
    UnicodeConcat = 2
    \* ConsoleSession
    Requests = {"s1", "s2"}
    MaxEnrolments = 2
    MaxGeneration = 2
    \* EmailHealth
    MailHosts = {"h"}
    AppPasswords = {"p1", "p2"}
    Operators = {"o1", "o2"}
    MaxEdits = 2
    MaxRevocations = 1
    NoValue = NoValue
    \* Readiness
    Entries = {"e1"}
    Gates = {"g1", "g2"}
    ImportGate = "g1"
    Pages = {"t1", "t2"}
    Tester = "t1"
    MaxChanges = 2
    MaxClicks = 4
INVARIANTS
    LineIsTrue SegmentsAreTheBody SessionIsSealed
PROPERTIES
    UpdatesAreSound CredentialIsKept
    MailboxesAreWatched ReadinessIsEarned
CHECK_DEADLOCK FALSE
