\* Two displays: one with a short last packet, and smaller than what showImage
\* reads, the other with more packets than their numbers can tell apart; the
\* timer's text between the packets; sockets that hold everything.
CONSTANTS
    a = a
    b = b
    Clients = {a, b}
    Server = Server
    MaxChunk = 3
    Header = 1
    BufSize = 3
    U16 = 3
    U32 = 64
    Size <- OddSize
    Display = 5
    TextSize = 1
    SocketSize = 9
    MaxPics = 1
    MaxTicks = 1
SPECIFICATION FairSpec
INVARIANTS
    BytesStayInPlace
PROPERTIES
    LoneImagesAreSeen
\* Nobody has to send, and a process may die.
CHECK_DEADLOCK FALSE
