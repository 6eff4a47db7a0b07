CONSTANT Hexes <- MCHexes
SPECIFICATION Spec
INVARIANTS
    ModesAgree
    OwnCrcOnly
    DocumentedCrc
CHECK_DEADLOCK FALSE
