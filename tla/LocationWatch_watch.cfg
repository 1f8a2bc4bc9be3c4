\* The handset and another phone, two incidents, one process death; pushes, answers and timers in any order, and no push relied upon.
SPECIFICATION WatchFairSpec
CONSTANTS
    p1 = p1
    p2 = p2
    NoPhone = NoPhone
    Handset = p1
    Phones = {p1, p2}
    MaxIncidents = 2
    MaxTime = 1
    MaxTriggers = 2
    MaxTimers = 1
    MaxDeaths = 1
INVARIANTS
    ResolvedPushWins
PROPERTIES
    WatchEnds
    NewsEndsItsOwnWatch
