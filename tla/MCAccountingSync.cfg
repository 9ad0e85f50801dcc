\* One invoice, open, voided or a draft, two requests at a time, one change after
\* the connection is made, one fault.
CONSTANTS
    i1 = i1
    s1 = s1
    s2 = s2
    Invoices = {i1}
    Syncs = {s1, s2}
    Changes = {"voided", "draft"}
    MaxTime = 2
    MaxFaults = 1
    Null = Null
SPECIFICATION FairSpec
INVARIANTS
    TypeOK
    NothingElseIsLost
    ActiveIsSynced
PROPERTIES
    RunsEnd
