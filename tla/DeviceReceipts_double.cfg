\* One re-queue check beside the alert.
SPECIFICATION Spec
CONSTANTS
    Recipients = {"r1"}
    Parts = 1
    Checks = {"c1"}
    MaxSends = 2
    MaxRequeues = 0
    MaxMishaps = 0
    MaxOverlaps = 0
INVARIANTS
    NoDoubleText
CHECK_DEADLOCK FALSE
