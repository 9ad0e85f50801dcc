\* An escalating policy and promises that break.
CONSTANTS
    i1 = i1
    i2 = i2
    j1 = j1
    j2 = j2
    r1 = r1
    r2 = r2
    Null = Null
    Invoices = {i1}
    Undeliverable = {}
    Jobs = {j1, j2}
    Requests = {}
    Routes = {}
    Agreements = {"promise", "arrangement"}
    Allowance = 1
    Tone = TRUE
    Timing = TRUE
    Threshold = 1
    RetryLimit = 2
    P2P = TRUE
    MaxDay = 2
    MaxPeriod = 1
    Offset <- ScheduleOffsets
SPECIFICATION Spec
SYMMETRY JobSymmetry
INVARIANTS
    TypeOK
    AtMostOneEmailPerStage
PROPERTIES
    StageNeverGoesBack
