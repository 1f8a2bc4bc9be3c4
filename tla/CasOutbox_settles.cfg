\* One worker process, crashes and restarts included, over two incidents: every gateway alert settles.
SPECIFICATION FairSpec
CONSTANTS
    w1 = w1
    w2 = w2
    i1 = i1
    i2 = i2
    NoWorker = NoWorker
    Workers = {w1}
    Incidents = {i1, i2}
    Gateway = {"EMAIL"}
    Device = {}
    MaxAttempts = 2
    AttemptCap = 2
    MaxRequeues = 1
    MaxCrashes = 2
PROPERTIES
    EveryAlertSettles
CHECK_DEADLOCK FALSE
