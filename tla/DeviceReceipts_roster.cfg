\* One send to two recipients, two mishaps at any point and an overlapping recovery; the send is reported in the end.
SPECIFICATION FairSpec
CONSTANTS
    Recipients = {"r1", "r2"}
    Parts = 1
    Checks = {}
    MaxSends = 1
    MaxRequeues = 1
    MaxMishaps = 2
    MaxOverlaps = 1
INVARIANTS
    SentMeansTexted
PROPERTIES
    SendIsReported
CHECK_DEADLOCK FALSE
