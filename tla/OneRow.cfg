SPECIFICATION Spec
CONSTANTS
    Clients = {c1}
    Tickets = {t1}
    Ceiling = 1
    MaxAttempts = 2
    MaxRegress = 1
    MaxRows = 1
    EntryStages = {1, 2, 3, 4}
    ShipGates <- AllShipGates
    Results <- EveryOutcome
    ReapPolicies = {TRUE, FALSE}
    CancelledRowRestore = FALSE
INVARIANT TypeOK
INVARIANT ReplanClean
INVARIANT ReviewApprovalStage
PROPERTY HighWaterFollows
PROPERTY ShipGate
PROPERTY ReplanNotBypassed
CHECK_DEADLOCK FALSE
