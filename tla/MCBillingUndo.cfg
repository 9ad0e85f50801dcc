\* A scheduled downgrade is undone.
CONSTANTS
    o1 = o1
    o2 = o2
    e1 = e1
    e2 = e2
    Operations = {o1}
    Executors = {e1, e2}
    Intents = {"undo_downgrade"}
    Starts = {"downgrading"}
    Null = Null
SPECIFICATION Spec
CHECK_DEADLOCK FALSE
INVARIANTS
    ProofFinishes
