CONSTANTS
    Packet = 1
    Garbage = 3
    MaxSockets = 2
    MaxClicks = 4
    Endpoints = {e1, e2}
    NoEndpoint = NoEndpoint
    MaxKills = 1
SPECIFICATION PatientSpec
INVARIANTS
    OrderlyClientLives
    ListensWhereRegistered
PROPERTIES
    RemovedWhenAllRead
    OrderlyDeparture
    ConnectedIsServed
\* The processes may die, and nobody has to press a button.
CHECK_DEADLOCK FALSE
