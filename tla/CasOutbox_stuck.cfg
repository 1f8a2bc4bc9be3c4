\* One worker, one gateway row, one re-queue.
SPECIFICATION Spec
CONSTANTS
    w1 = w1
    w2 = w2
    i1 = i1
    i2 = i2
    NoWorker = NoWorker
    Workers = {w1}
    Incidents = {i1}
    Gateway = {"EMAIL"}
    Device = {}
    MaxAttempts = 1
    AttemptCap = 1
    MaxRequeues = 1
    MaxCrashes = 0
INVARIANTS
    NoStuckRow
CHECK_DEADLOCK FALSE
