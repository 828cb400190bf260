SPECIFICATION Spec
CONSTANTS
    Clients = {c1}
    Tickets = {t1}
    Ceiling = 2
    MaxAttempts = 4
    MaxRegress = 1
    MaxRows = 1
    EntryStages = {1, 2, 3, 4}
    ShipGates <- NoShipGates
    Results <- EveryOutcome
    ReapPolicies = {TRUE, FALSE}
    CancelledRowRestore = TRUE
INVARIANT UnproductiveBounded
CHECK_DEADLOCK FALSE
