CONSTANTS
    Packet = 1
    Garbage = 3
    MaxSockets = 2
    MaxClicks = 3
    Endpoints = {e1}
    NoEndpoint = NoEndpoint
    MaxKills = 1
SPECIFICATION Spec
INVARIANTS
    TypeOK
    DiesOfEarlyLeaver
\* The processes may die, and nobody has to press a button.
CHECK_DEADLOCK FALSE
