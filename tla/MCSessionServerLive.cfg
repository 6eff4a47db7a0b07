\* Two connections that may follow each other on one endpoint or overlap on
\* two, with two messages each: framing, removal, liveness and refinement.
CONSTANTS
    Conns = {c1, c2}
    Endpoints = {e1, e2}
    NoEndpoint = NoEndpoint
    IdSpace = 3
    MaxMsgs = 2
SPECIFICATION FairSpec
INVARIANTS
    FramesInOrder
PROPERTIES
    RemovedOnlyWhenDone
    BacklogServed
    DepartureNoticed
    BroadcastReachesAll
    ImplementsDirectory
\* The process may die (EmptyBody).
CHECK_DEADLOCK FALSE
