\* One invoice under the dispute routes, with two executions.
CONSTANTS
    i1 = i1
    i2 = i2
    j1 = j1
    j2 = j2
    r1 = r1
    r2 = r2
    Null = Null
    Invoices = {i1}
    Undeliverable = {}
    Jobs = {j1, j2}
    Requests = {r1}
    Routes = {"dispute", "resolve-dispute", "snooze"}
    Agreements = {}
    Allowance = 1
    Tone = FALSE
    Timing = FALSE
    Threshold = 1
    RetryLimit = 1
    P2P = FALSE
    MaxDay = 2
    MaxPeriod = 1
    Offset <- ScheduleOffsets
SPECIFICATION FairSpec
INVARIANTS
    OneReminderInFlight
PROPERTIES
    KeepsContract
    StoppedStaysQuiet
    LockIsReleased
    ExecutionsEnd
