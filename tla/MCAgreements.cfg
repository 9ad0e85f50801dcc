\* Two invoices under one arrangement, one of them with a promise link.
CONSTANTS
    i1 = i1
    i2 = i2
    r1 = r1
    r2 = r2
    h1 = h1
    h2 = h2
    s1 = s1
    s2 = s2
    Invoices = {i1, i2}
    Scenes <- SmallScenes
    MaxPromises = 2
    RetryLimit = 1
    Requests = {r1, r2}
    Handlers = {h1, h2}
    Sweeps = {s1, s2}
    MaxFaults = 1
    Null = Null
SPECIFICATION FairSpec
INVARIANTS
    TypeOK
    LatestPromiseStands
    PaidArrangementEnds
    BreachToldSparingly
PROPERTIES
    BreachIsTold
    AgreementsEnd
