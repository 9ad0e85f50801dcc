\* One event, two requests at a time, two subscriptions, two faults.
CONSTANTS
    e1 = e1
    e2 = e2
    h1 = h1
    h2 = h2
    s1 = s1
    s2 = s2
    Events = {e1}
    Handlers = {h1, h2}
    Subscriptions = {s1, s2}
    Older = {s1}
    MaxVersion = 1
    MaxFaults = 2
    Null = Null
SPECIFICATION FairSpec
PROPERTIES
    EventsSettle
