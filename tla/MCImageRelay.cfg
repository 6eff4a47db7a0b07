\* Two clients with equal displays that end in a short packet, up to two
\* screenshots each but not two of both, and sockets that overflow.
CONSTANTS
    a = a
    b = b
    Clients = {a, b}
    Server = Server
    MaxChunk = 3
    Header = 1
    BufSize = 3
    U16 = 8
    U32 = 64
    Size <- CodeSize
    Display = 4
    TextSize = 1
    SocketSize = 2
    MaxPics = 2
    MaxTicks = 0
SPECIFICATION Spec
SYMMETRY ClientSymmetry
CONSTRAINT FewPics
INVARIANTS
    TypeOK
    BytesStayInPlace
    StripesAreBlack
    LoneImagesArrive
    WholePictures
PROPERTIES
    NeverBackInTime
    DeathsExplained
\* Nobody has to send, and a process may die.
CHECK_DEADLOCK FALSE
