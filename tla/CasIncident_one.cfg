\* Three handsets trigger while responders acknowledge, resolve and record practice events; four rows.
SPECIFICATION Spec
CONSTANTS
    p1 = p1
    p2 = p2
    p3 = p3
    NoPhone = NoPhone
    Phones = {p1, p2, p3}
    MaxIncidents = 4
    MaxTime = 2
    MaxTriggers = 3
SYMMETRY PhoneSymmetry
INVARIANTS
    OneActive
    EveryTriggerCounted
    HiddenOnlyByPractice
PROPERTY
    FixMovesBackOnlyByStaleRead
