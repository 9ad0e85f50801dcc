\* Two events, two requests at a time, two subscriptions, one fault.
CONSTANTS
    e1 = e1
    e2 = e2
    h1 = h1
    h2 = h2
    s1 = s1
    s2 = s2
    Events = {e1, e2}
    Handlers = {h1, h2}
    Subscriptions = {s1, s2}
    Older = {s1}
    MaxVersion = 2
    MaxFaults = 1
    Null = Null
SPECIFICATION Spec
SYMMETRY Symmetry
INVARIANTS
    TypeOK
    AppliedOnce
    SettledIsReflected
PROPERTIES
    KeepsContract
