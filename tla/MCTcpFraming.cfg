CONSTANTS
    Prefix = 2
    Header = 1
    Packet = 2
    Cap = 5
    MaxSends = 3
    MaxLength = 5
SPECIFICATION Spec
INVARIANTS
    TypeOK
    DamageHasACause
PROPERTIES
    WritesEnd
    ImplementsChannel
\* Nobody has to press Send, and the server's process may end.
CHECK_DEADLOCK FALSE
