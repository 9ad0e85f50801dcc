\* Two operations and two runs of the executor.  A tenant on trial goes all the
\* way: customer, checkout, subscription, downgrade; one with a downgrade
\* scheduled undoes it.  The runs given to the model may all be used up.
CONSTANTS
    o1 = o1
    o2 = o2
    e1 = e1
    e2 = e2
    Operations = {o1, o2}
    Executors = {e1, e2}
    Intents = {"checkout", "downgrade", "undo_downgrade"}
    Starts = {"trialing", "downgrading"}
    Null = Null
SPECIFICATION Spec
SYMMETRY Symmetry
CHECK_DEADLOCK FALSE
INVARIANTS
    TypeOK
    EffectOnce
    OutcomeIsTrue
    ReservationHeld
    PlanFitsBinding
PROPERTIES
    StaleNeverWrites
    KeepsContract
