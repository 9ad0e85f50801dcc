\* Two requests that nothing fails, and amounts of up to three cents.
CONSTANTS
    r1 = r1
    r2 = r2
    Requests = {r1, r2}
    MaxAmount = 3
    MaxFaults = 0
SPECIFICATION Spec
SYMMETRY Symmetry
INVARIANT PaidWhenCovered
CHECK_DEADLOCK FALSE
