\* One sync of one invoice is enough for it to meet a disconnect.
CONSTANTS
    i1 = i1
    s1 = s1
    s2 = s2
    Invoices = {i1}
    Syncs = {s1}
    Changes = {"voided"}
    MaxTime = 2
    MaxFaults = 0
    Null = Null
SPECIFICATION Spec
PROPERTIES
    DisconnectIsTerminal
