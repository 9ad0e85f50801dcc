\* Workers crash, status updates fail, and deliveries get lost in every way the
\* deployment has.
CONSTANTS
    c1 = c1
    d1 = d1
    d2 = d2
    w1 = w1
    w2 = w2
    Claims = {c1}
    Dispatchers = {d1, d2}
    Workers = {w1, w2}
    MaxRetries = 1
    Losses = {"strand", "kill", "flush"}
    MaxFaults = 2
    Null = Null
SPECIFICATION FairSpec
INVARIANTS
    TypeOK
    StatusIsTrue
    NoWorkLost
    OneDelivery
PROPERTIES
    OnlyReissuesDuplicate
    ClaimedWorkEnds
    StartedWorkIsReclaimed
