\* One client, one screenshot, nothing lost.
CONSTANTS
    a = a
    b = b
    Clients = {a}
    Server = Server
    MaxChunk = 3
    Header = 1
    BufSize = 3
    U16 = 8
    U32 = 64
    Size <- CodeSize
    Display = 4
    TextSize = 1
    SocketSize = 3
    MaxPics = 1
    MaxTicks = 0
SPECIFICATION Spec
INVARIANTS
    AssembledIsSent
\* Nobody has to send, and a process may die.
CHECK_DEADLOCK FALSE
