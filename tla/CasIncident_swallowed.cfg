\* Two handsets, two incident rows and three capture times.
SPECIFICATION Spec
CONSTANTS
    p1 = p1
    p2 = p2
    p3 = p3
    NoPhone = NoPhone
    Phones = {p1, p2}
    MaxIncidents = 2
    MaxTime = 3
    MaxTriggers = 2
PROPERTIES
    RepeatJoinsActive
