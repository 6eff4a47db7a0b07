CONSTANTS
    Packet = 2
    Garbage = 9
    MaxSockets = 2
    MaxClicks = 3
SPECIFICATION Spec
INVARIANT SameParameters
\* The process may die, and nobody has to press a button.
CHECK_DEADLOCK FALSE
