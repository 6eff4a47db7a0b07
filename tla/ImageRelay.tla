----------------------------- MODULE ImageRelay -----------------------------
(***************************************************************************)
(* A screenshot on its way from one client over the server to every        *)
(* client.  Each of them is one process.  A client's Qt thread sends the   *)
(* packets of a slotSend one by one while its io thread receives; the      *)
(* server's one thread sends a whole broadcast before it receives again.   *)
(* All of them share one host (the server binds to 127.0.0.1), where UDP   *)
(* keeps the order of packets and loses those that find a full socket.     *)
(*                                                                         *)
(* The client table is SessionServer's; here every client stays in it.     *)
(***************************************************************************)
EXTENDS Fragments, FiniteSets, SequencesExt

CONSTANTS
    Clients,
    Server,
    Size,       \* Size[c]: bytes in a screenshot of c's display
    Display,    \* bytes showImage reads: 2880 * 1800 * 4
    TextSize,   \* bytes of a TestMessage
    SocketSize, \* packets a socket's receive buffer holds
    MaxPics,    \* bound: screenshots a client sends
    MaxTicks    \* bound: expirations of the broadcast timer

ASSUME RelayAssumption ==
    /\ Server \notin Clients
    /\ IsFiniteSet(Clients)
    /\ Size \in [Clients -> Nat \ {0}]
    /\ {Display, TextSize, SocketSize, MaxPics, MaxTicks} \subseteq Nat

\* What the sizes in the code have to do with one another: BUFFER_SIZE and
\* MAX_SIZE_UDP are both 1472, 2^16 packets of that size have offsets below
\* 2^32, no display comes near 4 GiB, and the texts are a few words.
ASSUME SizeAssumption ==
    /\ TextSize <= MaxChunk
    /\ BufSize <= MaxChunk + Header
    /\ U16 * MaxChunk <= U32
    /\ \A c \in Clients : Size[c] <= U32 - MaxChunk

VARIABLES
    outbox,     \* packets a process has still to send, with their targets
    net,        \* what waits in a process's UDP socket
    buffer,     \* the receive buffer of a process, from the body on
    assembly,   \* assembly_buffer
    capacity,   \* bytes allocated for assembly_buffer
    alive,      \* the processes still running
    screen,     \* what a client's ui->image shows
    pics,       \* screenshots a client has taken
    ticks,      \* expirations of the server's timer
    lost,       \* history: the processes an image packet was lost to
    headless,   \* history: those it was the first packet of an image for
    mixed       \* history: two screenshots were being sent at once

vars == <<outbox, net, buffer, assembly, capacity, alive, screen, pics, ticks,
          lost, headless, mixed>>

-----------------------------------------------------------------------------
Nodes == Clients \cup {Server}

\* A byte of a screenshot: whose, which, and where in it.
Byte(c, k, i) == <<c, k, i>>
IsByte(b) == Len(b) = 3
Screenshot(c, k) == [i \in 1 .. Size[c] |-> Byte(c, k, i)]
TestMessage == [i \in 1 .. TextSize |-> <<"text">>]

To(target, packets) == [j \in DOMAIN packets |-> <<target, packets[j]>>]

\* Some of a screenshot of c has been sent and some has not.
Midway(c) == outbox[c] # << >> /\ LET p == Head(outbox[c])[2]
                                  IN  p.type = "Image" /\ ~p.first

Init ==
    /\ outbox = [r \in Nodes |-> << >>]
    /\ net = [r \in Nodes |-> << >>]
    /\ buffer = [r \in Nodes |-> [i \in 1 .. Payload |-> Zero]]
    /\ assembly = [r \in Nodes |-> << >>]
    /\ capacity = [r \in Nodes |-> 0]
    /\ alive = Nodes
    /\ screen = [c \in Clients |-> << >>]
    /\ pics = [c \in Clients |-> 0]
    /\ ticks = 0
    /\ lost = {}
    /\ headless = {}
    /\ mixed = FALSE

-----------------------------------------------------------------------------
(* Sending *)

\* MainClient::slotSend: a text, then a screenshot; imageToBytes may fail and
\* leave an image without bytes, and so without packets.
SlotSend(c) ==
    /\ c \in alive
    /\ outbox[c] = << >>
    /\ pics[c] < MaxPics
    /\ pics' = [pics EXCEPT ![c] = @ + 1]
    /\ \E image \in {<< >>, Screenshot(c, pics[c] + 1)} :
           outbox' = [outbox EXCEPT ![c] =
                         To(Server, <<TextPacket(TestMessage)>> \o Packets(image))]
    /\ UNCHANGED <<net, buffer, assembly, capacity, alive, screen, ticks, lost,
                   headless, mixed>>

\* AsioUdpManager::broadCast to the clients, in the order of the map.
BroadCastToFirst(packets, order) == To(order[1], packets)       \* mutant
BroadCast(packets, order) ==
    [j \in 1 .. Len(order) * Len(packets) |->
        <<order[((j - 1) \div Len(packets)) + 1],
          packets[((j - 1) % Len(packets)) + 1]>>]

\* The timer of AsioTcpManager::startTest.
Tick ==
    /\ Server \in alive
    /\ outbox[Server] = << >>
    /\ ticks < MaxTicks
    /\ ticks' = ticks + 1
    /\ \E order \in SetToSeqs(Clients) :
           outbox' = [outbox EXCEPT ![Server] =
                         BroadCast(<<TextPacket(TestMessage)>>, order)]
    /\ UNCHANGED <<net, buffer, assembly, capacity, alive, screen, pics, lost,
                   headless, mixed>>

\* One async_send_to of the loop over the packets.
Send(r) ==
    /\ r \in alive
    /\ outbox[r] # << >>
    /\ LET to  == Head(outbox[r])[1]
           pkt == Head(outbox[r])[2]
           fits == Len(net[to]) < SocketSize
           drops == to \in alive /\ ~fits /\ pkt.type = "Image"
       IN  /\ net' = IF to \in alive /\ fits
                     THEN [net EXCEPT ![to] = Append(@, pkt)]
                     ELSE net
           /\ lost' = IF drops THEN lost \cup {to} ELSE lost
           /\ headless' = IF drops /\ pkt.first
                          THEN headless \cup {to} ELSE headless
           /\ mixed' = (mixed \/ /\ r # Server
                                 /\ pkt.type = "Image"
                                 /\ \E c \in Clients \ {r} : Midway(c))
    /\ outbox' = [outbox EXCEPT ![r] = Tail(@)]
    /\ UNCHANGED <<buffer, assembly, capacity, alive, screen, pics, ticks>>

-----------------------------------------------------------------------------
(* Receiving *)

\* A copy past the allocated bytes is undefined: the process may go on or
\* die.  Into a buffer that was never allocated it is a null pointer.
Outcomes(end, cap) ==
    IF end <= cap THEN {TRUE} ELSE IF cap = 0 THEN {FALSE} ELSE BOOLEAN

\* MainClient::showImage reads Display bytes whatever it is given: past the
\* end of a smaller image anything may happen; of an empty one QImage has no
\* data, and the exception for it ends the process.
ShowImage(image) ==
    IF Len(image) >= Display THEN {TRUE}
    ELSE IF image = << >> THEN {FALSE} ELSE BOOLEAN

\* After the last packet the assembly buffer is empty again.
NotCleared(image) == image                                      \* mutant
Cleared(image) == << >>

\* The receive handler that gets a text: it is logged.
ReceiveText(r) ==
    /\ r \in alive
    /\ r = Server => outbox[r] = << >>
    /\ net[r] # << >>
    /\ Head(net[r]).type = "Text"
    /\ net' = [net EXCEPT ![r] = Tail(@)]
    /\ buffer' = [buffer EXCEPT ![r] = Overlay(@, Head(net[r]).body)]
    /\ UNCHANGED <<outbox, assembly, capacity, alive, screen, pics, ticks,
                   lost, headless, mixed>>

\* The receive handler that gets a packet of an image; ok: the process
\* survives the copy, and what it does with the image after the last packet.
ReceiveImage(r) ==
    /\ r \in alive
    /\ r = Server => outbox[r] = << >>
    /\ net[r] # << >>
    /\ Head(net[r]).type = "Image"
    /\ LET pkt   == Head(net[r])
           begun == Begun(assembly[r], pkt)
           cap   == IF Len(begun) > capacity[r] THEN Len(begun) ELSE capacity[r]
           image == Copied(begun, pkt, buffer'[r])
       IN  /\ buffer' = [buffer EXCEPT ![r] = Overlay(@, pkt.body)]
           /\ capacity' = [capacity EXCEPT ![r] = cap]
           /\ assembly' = [assembly EXCEPT ![r] =
                              IF pkt.last THEN Cleared(image) ELSE image]
           /\ \E ok \in Outcomes(CopyEnd(pkt), cap) :
                \/ /\ ~ok
                   /\ alive' = alive \ {r}
                   /\ UNCHANGED <<outbox, screen>>
                \/ /\ ok /\ ~pkt.last
                   /\ UNCHANGED <<outbox, screen, alive>>
                \/ /\ ok /\ pkt.last /\ r = Server
                   /\ \E order \in SetToSeqs(Clients) :
                          outbox' = [outbox EXCEPT ![r] =
                                        BroadCast(Packets(image), order)]
                   /\ UNCHANGED <<screen, alive>>
                \/ /\ ok /\ pkt.last /\ r # Server
                   /\ screen' = [screen EXCEPT ![r] = image]
                   /\ \E shown \in ShowImage(image) :
                          alive' = IF shown THEN alive ELSE alive \ {r}
                   /\ UNCHANGED outbox
    /\ net' = [net EXCEPT ![r] = Tail(@)]
    /\ UNCHANGED <<pics, ticks, lost, headless, mixed>>

Receive(r) == ReceiveText(r) \/ ReceiveImage(r)

-----------------------------------------------------------------------------
Next ==
    \/ \E c \in Clients : SlotSend(c)
    \/ Tick
    \/ \E r \in Nodes : Send(r) \/ ReceiveText(r) \/ ReceiveImage(r)

Spec == Init /\ [][Next]_vars

\* A loop that sends goes on, and io_context::run dispatches what has arrived;
\* nobody has to press Send.
Fairness == \A r \in Nodes : WF_vars(Send(r)) /\ WF_vars(Receive(r))

FairSpec == Spec /\ Fairness

-----------------------------------------------------------------------------
(* Properties *)

Bytes == {Zero, <<"text">>} \cup
         UNION {{Byte(c, k, i) : k \in 1 .. MaxPics, i \in 1 .. Size[c]} :
                    c \in Clients}

PacketOK(p) ==
    /\ DOMAIN p = {"type", "total", "number", "first", "last", "body"}
    /\ p.type \in {"Text", "Image"}
    /\ p.total \in Nat /\ p.number \in 0 .. U16 - 1
    /\ p.first \in BOOLEAN /\ p.last \in BOOLEAN
    /\ Len(p.body) <= MaxChunk
    /\ \A i \in DOMAIN p.body : p.body[i] \in Bytes

TypeOK ==
    /\ DOMAIN outbox = Nodes
    /\ \A r \in Nodes : \A j \in DOMAIN outbox[r] :
           outbox[r][j][1] \in Nodes /\ PacketOK(outbox[r][j][2])
    /\ DOMAIN net = Nodes
    /\ \A r \in Nodes : /\ Len(net[r]) <= SocketSize
                        /\ \A j \in DOMAIN net[r] : PacketOK(net[r][j])
    /\ buffer \in [Nodes -> [1 .. Payload -> Bytes]]
    /\ \A r \in Nodes : assembly[r] \in [1 .. Len(assembly[r]) -> Bytes]
    /\ \A r \in Nodes : Len(assembly[r]) <= capacity[r]
    /\ alive \subseteq Nodes
    /\ \A c \in Clients : screen[c] \in [1 .. Len(screen[c]) -> Bytes]
    /\ pics \in [Clients -> 0 .. MaxPics]
    /\ ticks \in 0 .. MaxTicks
    /\ lost \subseteq Nodes /\ headless \subseteq lost
    /\ mixed \in BOOLEAN

\* Whatever is lost or mixed up, a byte of a screenshot keeps its place inside
\* its packet, on both hops; among displays of one size, as long as the packet
\* numbers fit, it keeps its place in the image, and no byte of a text is ever
\* seen there (AsioUdpServer.cpp:168-170, connection.cpp:337-339).
Regular == \A c, d \in Clients : Size[c] = Size[d] /\ ~TooManyPackets(Size[c])

InPlace(image) ==
    \A i \in DOMAIN image :
        /\ IsByte(image[i]) => InChunk(image[i][3]) = InChunk(i)
        /\ Regular => image[i] = Zero \/ (IsByte(image[i]) /\ image[i][3] = i)

BytesStayInPlace ==
    /\ \A r \in Nodes : InPlace(assembly[r])
    /\ \A c \in Clients : InPlace(screen[c])

\* The bytes of a packet that do not fit into one receive together with its
\* header arrive nowhere: they are black in every image
\* (ClientSession.h:13-14, AsioUdpServer.cpp:100, 147, 165).
Striped(image) ==
    \A i \in DOMAIN image : Header + InChunk(i) >= BufSize => image[i] = Zero

StripesAreBlack ==
    /\ \A r \in Nodes : Striped(assembly[r])
    /\ \A c \in Clients : Striped(screen[c])

\* What a screenshot looks like after a journey without accident.
Arrived(c, k) ==
    [i \in 1 .. Size[c] |->
        IF Header + InChunk(i) < BufSize THEN Byte(c, k, i) ELSE Zero]

\* If no two screenshots were sent at once, a client to which nothing was lost
\* shows whole screenshots only, complete but for the stripes, as long as their
\* packet numbers fit (AsioUdpServer.cpp:164-178, connection.cpp:333-348).
Fitting == {c \in Clients : ~TooManyPackets(Size[c])}

LoneImagesArrive ==
    \A c \in Clients :
        ~mixed /\ lost \cap {c, Server} = {}
            => \/ screen[c] = << >>
               \/ \E d \in Fitting : \E k \in 1 .. pics[d] :
                      screen[c] = Arrived(d, k)
               \/ \E d \in Clients \ Fitting : Len(screen[c]) = Size[d]

\* No client ever shows a cut-off image: a screenshot's size or nothing at all,
\* even if screenshots were mixed on their way or packets were lost
\* (AsioUdpServer.cpp:164-166, 176-178; mainclient.cpp:64).
WholePictures ==
    \A c \in Clients :
        Len(screen[c]) \in {0} \cup {Size[d] : d \in Clients}

\* A display never goes back in time: whatever is lost or mixed up on the two
\* hops, the bytes of a user's screenshot replace only bytes of the same one or
\* of earlier ones, among displays of one size
\* (AsioUdpServer.cpp:164-178, connection.cpp:333-348).
Earlier(old, new) ==
    \A i \in DOMAIN old, j \in DOMAIN new :
        IsByte(old[i]) /\ IsByte(new[j]) /\ old[i][1] = new[j][1]
            => old[i][2] <= new[j][2]

NeverBackInTime ==
    [][Regular => \A d \in Clients : screen'[d] # screen[d]
                      => Earlier(screen[d], screen'[d])]_vars

\* Whatever was lost or mixed up, a process whose images were all begun, which
\* no first packet was lost to, dies of no other packet than
\*   - one whose number may not fit in 16 bits,
\*   - the last one of an image that ends in a short chunk, and then the copy
\*     passes the image's end by less than one body, or
\*   - at a client, the last one of an image smaller than what is shown of it.
\* The display the code is written for, of 2880 * 1800 * 4 bytes, has a short
\* last chunk: 1408 bytes, 47 fewer than are copied (AsioUdpServer.cpp:164-170,
\* connection.cpp:333-339, mainclient.cpp:64).
CopiedPast(p) ==
    /\ p.last /\ ShortTail(p.total)
    /\ p.total < CopyEnd(p) /\ CopyEnd(p) < p.total + Payload

Deadly(r, p) ==
    \/ TooManyPackets(p.total)
    \/ CopiedPast(p)
    \/ p.last /\ r # Server /\ p.total < Display

DeathsExplained ==
    [][\A r \in alive \ alive' : r \in headless \/ Deadly(r, Head(net[r]))]_vars

\* A screenshot that was sent alone and whose packet numbers fit is seen by
\* every client, as long as nothing is lost and nobody dies
\* (AsioUdpServer.cpp:171-176).
LoneImagesAreSeen ==
    \A c \in Fitting, d \in Clients : \A k \in 1 .. MaxPics :
        Midway(c) /\ pics[c] = k
            ~> \/ screen[d] = Arrived(c, k)
               \/ mixed \/ lost # {} \/ alive # Nodes

\* The assembled image is the one that was sent.  The code calls
\* assembly_buffer the resulting buffer (AsioUdpServer.cpp:162).
AssembledIsSent ==
    \A c \in Clients :
        ~mixed /\ lost = {}
            => \/ screen[c] = << >>
               \/ \E d \in Clients : \E k \in 1 .. pics[d] :
                      screen[c] = Screenshot(d, k)
=============================================================================
