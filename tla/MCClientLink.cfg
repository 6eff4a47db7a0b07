CONSTANTS
    Packet = 2
    Garbage = 9
    MaxSockets = 2
    MaxClicks = 4
SPECIFICATION Spec
INVARIANTS
    OrderlyUseSurvives
    OrderlyFraming
    OrderlyReading
    OrderlySockets
\* The process may die, and nobody has to press a button.
CHECK_DEADLOCK FALSE
