\* Two invoices, one unmailable, and a plan of one first chase per period.
CONSTANTS
    i1 = i1
    i2 = i2
    j1 = j1
    j2 = j2
    r1 = r1
    r2 = r2
    Null = Null
    Invoices = {i1, i2}
    Undeliverable = {i2}
    Jobs = {j1, j2}
    Requests = {}
    Routes = {}
    Agreements = {}
    Allowance = 1
    Tone = FALSE
    Timing = FALSE
    Threshold = 1
    RetryLimit = 1
    P2P = FALSE
    MaxDay = 2
    MaxPeriod = 2
    Offset <- ScheduleOffsets
SPECIFICATION Spec
SYMMETRY JobSymmetry
INVARIANTS
    HistoryIsTrue
    ChargesWithinAllowance
PROPERTIES
    ChargedOnce
