\* Three connections over two endpoints: an endpoint is reused while another
\* client is connected.
CONSTANTS
    Conns = {c1, c2, c3}
    Endpoints = {e1, e2}
    NoEndpoint = NoEndpoint
    IdSpace = 4
    MaxMsgs = 1
SPECIFICATION Spec
SYMMETRY ConnSymmetry
INVARIANTS
    TypeOK
    RegistriesAgree
    ReadLoopAlive
    TwinsAreGone
    DiesOnlyOfEmptyRead
\* The process may die (EmptyBody), and the peers may be done.
CHECK_DEADLOCK FALSE
