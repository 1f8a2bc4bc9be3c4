\* Two workers on one incident with a gateway and a device row; three attempts before dead-lettering, two re-queues, two crashes.
SPECIFICATION Spec
CONSTANTS
    w1 = w1
    w2 = w2
    i1 = i1
    i2 = i2
    NoWorker = NoWorker
    Workers = {w1, w2}
    Incidents = {i1}
    Gateway = {"EMAIL"}
    Device = {"SMS"}
    MaxAttempts = 3
    AttemptCap = 4
    MaxRequeues = 2
    MaxCrashes = 2
SYMMETRY WorkerSymmetry
INVARIANTS
    AbandonedOnlyWhenExhausted
    SentOnlyIfTaken
    StoodDown
    JournalAgrees
PROPERTIES
    VerdictByNewestClaim
    SentIsFinal
    KeepsPromise
CHECK_DEADLOCK FALSE
