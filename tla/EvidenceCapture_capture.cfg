\* One request that both paths may pick up, three starts, one clip, one fault: a lost call, a failed write, a revocation, a blank server URL or a process death.
SPECIFICATION FairSpec
CONSTANTS
    MaxRequests = 1
    PickupLimit = 1
    MaxStarts = 3
    MaxClips = 1
    MaxFaults = 1
INVARIANTS
    LandedIsNotAwaited
    SerializedUnlessRefused
    StagedIsKept
    StartedWasAccepted
PROPERTIES
    StoredTwiceOnlyUnanswered
    WorkIsSettled
