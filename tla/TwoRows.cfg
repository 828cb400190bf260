SPECIFICATION Spec
CONSTANTS
    Clients = {c1}
    Tickets = {t1}
    Ceiling = 1
    MaxAttempts = 1
    MaxRegress = 0
    MaxRows = 2
    EntryStages = {1, 2, 3, 4}
    ShipGates <- NoShipGates
    Results <- FewResults
    ReapPolicies = {TRUE, FALSE}
    CancelledRowRestore = FALSE
INVARIANT AtMostOneOpenRow
 
PROPERTY ImplementsLifecycle
CHECK_DEADLOCK FALSE
