CONSTANTS
    TcpMessages <- MCTcpMessages
    UdpMessages <- MCUdpMessages
    BufSize = 26
    MaxSends = 2
SPECIFICATION Spec
INVARIANTS
    LikeHostsUnderstand
    NothingMisread
\* Everything that may be sent has been.
CHECK_DEADLOCK FALSE
