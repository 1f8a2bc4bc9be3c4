\* One recipient, two sends around one re-queue, a re-queue check running beside the alert, one mishap.
SPECIFICATION Spec
CONSTANTS
    Recipients = {"r1"}
    Parts = 1
    Checks = {"c1"}
    MaxSends = 2
    MaxRequeues = 1
    MaxMishaps = 1
    MaxOverlaps = 0
INVARIANTS
    SentInItsCycle
    NothingForgotten
CHECK_DEADLOCK FALSE
