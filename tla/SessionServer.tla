---------------------------- MODULE SessionServer ----------------------------
(***************************************************************************)
(* The server process: AsioTcpManager, the client table of its             *)
(* AsioUdpManager, and one AsioTcpClientSession per accepted connection.   *)
(*                                                                         *)
(* One thread runs io_context::run(), so every completion handler is one   *)
(* atomic action.  The peers and the TCP stack between a peer and the      *)
(* server are the environment: a peer connects, writes the two units of    *)
(* each message (the 4-byte length, then the packet), closes or resets at  *)
(* any moment, also between the two units.                                 *)
(*                                                                         *)
(* A message is its number on its connection, and the byte stream is       *)
(* counted in units: unit 2k-1 is the length prefix of message k, unit 2k  *)
(* its packet.  The server side of a stream is the position got[c]; bytes  *)
(* up to put[c] have been written.                                         *)
(***************************************************************************)
EXTENDS Naturals, Sequences, FiniteSets, Functions

CONSTANTS
    Conns,      \* the connections of one server lifetime, each used once
    Endpoints,  \* the remote {address, port} pairs; reused by later connections
    NoEndpoint, \* the endpoint of a connection not yet made
    IdSpace,    \* number of client ids, 2^32 in the code (u32)
    MaxMsgs     \* bound: messages a peer writes on one connection

\* The id counter does not wrap within one lifetime of the server.
ASSUME IdAssumption ==
    /\ IsFiniteSet(Conns)
    /\ IdSpace \in Nat
    /\ Cardinality(Conns) < IdSpace

ASSUME MsgAssumption == MaxMsgs \in Nat

ASSUME EndpointAssumption == NoEndpoint \notin Endpoints

VARIABLES
    up,         \* the process runs
    armed,      \* manager operations pending on the io_context
    nextId,     \* the static id of AsioTcpManager::listen
    tcpCl,      \* AsioTcpManager::cl_: id -> session (its connection)
    udpCl,      \* AsioUdpManager::cl_: id -> ClientInfo
    sid,        \* cur_client_id_ of c's session, NoId if c has none
    rd,         \* the read c's session waits for
    size,       \* size_ of c's session: the message whose length was read last
    delivered,  \* messages of c handed to signal_process_packet, in order
    reached,    \* endpoints broadcast to since a client last joined from there
    backlog,    \* connections completed by the kernel, not yet accepted
    peer,       \* what the peer, and so the socket, of c has come to
    ep,         \* the remote endpoint of c
    put,        \* stream units c's peer has written that can still arrive
    got         \* stream units of c the server has read

server == <<up, armed, nextId, tcpCl, udpCl, sid, rd, size, delivered, reached>>
network == <<backlog, peer, ep, put, got>>
vars == <<server, network>>

-----------------------------------------------------------------------------
NoId == IdSpace                 \* no session was made for the connection
Ids == 0 .. IdSpace - 1
Garbled == 0                    \* bytes that are not one whole packet

Empty == [i \in {} |-> i]
With(f, k, v) == [i \in DOMAIN f \cup {k} |-> IF i = k THEN v ELSE f[i]]
Without(f, k) == Restrict(f, DOMAIN f \ {k})

Registered == Range(tcpCl)
Accepted == {c \in Conns : sid[c] # NoId}
Gone == {"fin", "rst"}

-----------------------------------------------------------------------------
(* Creator::Execute has returned: both sockets are open, the accept and the *)
(* broadcast timer are pending.                                            *)

Init ==
    /\ up = TRUE
    /\ armed = {"accept", "timer"}
    /\ nextId = 0
    /\ tcpCl = Empty
    /\ udpCl = Empty
    /\ sid = [c \in Conns |-> NoId]
    /\ rd = [c \in Conns |-> "none"]
    /\ size = [c \in Conns |-> 0]
    /\ delivered = [c \in Conns |-> << >>]
    /\ reached = {}
    /\ backlog = {}
    /\ peer = [c \in Conns |-> "none"]
    /\ ep = [c \in Conns |-> NoEndpoint]
    /\ put = [c \in Conns |-> 0]
    /\ got = [c \in Conns |-> 0]

-----------------------------------------------------------------------------
(* The peers and the network *)

\* A port is free again as soon as the peer that held it is gone.
Connect(c, e) ==
    /\ up
    /\ peer[c] = "none"
    /\ \A d \in Conns : peer[d] = "open" => ep[d] # e
    /\ peer' = [peer EXCEPT ![c] = "open"]
    /\ ep' = [ep EXCEPT ![c] = e]
    /\ backlog' = backlog \cup {c}
    /\ UNCHANGED <<server, put, got>>

\* One more unit of the stream arrives: a message may be cut after its length.
Write(c) ==
    /\ up
    /\ peer[c] = "open"
    /\ put[c] < 2 * MaxMsgs
    /\ put' = [put EXCEPT ![c] = @ + 1]
    /\ UNCHANGED <<server, backlog, peer, ep, got>>

Close(c) ==
    /\ up
    /\ peer[c] = "open"
    /\ peer' = [peer EXCEPT ![c] = "fin"]
    /\ UNCHANGED <<server, backlog, ep, put, got>>

\* A reset also follows a close, when the server writes to a closed peer or
\* the peer closed with unread input; it may overtake bytes not yet read.
Reset(c) ==
    /\ up
    /\ peer[c] \in {"open", "fin"}
    /\ c \in backlog \/ rd[c] # "none"
    /\ peer' = [peer EXCEPT ![c] = "rst"]
    /\ \E n \in got[c] .. put[c] : put' = [put EXCEPT ![c] = n]
    /\ UNCHANGED <<server, backlog, ep, got>>

-----------------------------------------------------------------------------
(* AsioTcpManager *)

\* AsioTcpManager::listen ends every accept handler.
ListenOnce(ops) == ops                              \* mutant
Listen(ops) == ops \cup {"accept"}

\* AsioTcpManager::startTest ends every timer handler.
StartTestOnce(ops) == ops                           \* mutant
StartTest(ops) == ops \cup {"timer"}

\* The ClientInfo of a client: where its TCP connection comes from.
LocalInfo(c) == CHOOSE e \in Endpoints : TRUE       \* mutant
ClientInfo(c) == ep[c]

\* AsioTcpManager::removeClient and AsioUdpManager::removeClient.
RemoveTcpClient(cl, id) == Without(cl, id)
KeepClient(cl, id) == cl                            \* mutant
RemoveUdpClient(cl, id) == Without(cl, id)

\* AsioTcpClientSession::doSend of FirstData: a write to a reset connection
\* fails and is only logged.  Some systems use up the socket's pending error
\* with it, so that the reads that follow see end of file; some keep it.
DoSend(s) == {s} \cup (IF s = "rst" THEN {"fin"} ELSE {})

\* AsioTcpClientSession::doRead, from the read that has just completed.
ReadOnce(r) == IF r = "none" THEN "header" ELSE "none"          \* mutant
ReadBodyAgain(r) == IF r = "none" THEN "header" ELSE "body"     \* mutant
DoRead(r) == "header"

\* The accept handler up to createClient -> doSend, startSession -> doRead.
Accept(c) ==
    /\ up
    /\ "accept" \in armed
    /\ c \in backlog
    /\ tcpCl' = With(tcpCl, nextId, c)
    /\ udpCl' = With(udpCl, nextId, ClientInfo(c))
    /\ sid' = [sid EXCEPT ![c] = nextId]
    /\ \E s \in DoSend(peer[c]) : peer' = [peer EXCEPT ![c] = s]
    /\ rd' = [rd EXCEPT ![c] = DoRead(@)]
    /\ nextId' = (nextId + 1) % IdSpace
    /\ armed' = Listen(armed \ {"accept"})
    /\ backlog' = backlog \ {c}
    /\ reached' = reached \ {ep[c]}
    /\ UNCHANGED <<up, size, delivered, ep, put, got>>

\* The accept, or remote_endpoint(ec), fails on a connection that was reset in
\* the backlog: there is no client, and the next accept is started all the same.
AcceptDead(c) ==
    /\ up
    /\ "accept" \in armed
    /\ c \in backlog
    /\ peer[c] = "rst"
    /\ armed' = Listen(armed \ {"accept"})
    /\ backlog' = backlog \ {c}
    /\ UNCHANGED <<up, nextId, tcpCl, udpCl, sid, rd, size, delivered, reached,
                   peer, ep, put, got>>

\* The timer handler: udp_server_->broadCast to every ClientInfo of udpCl.
Tick ==
    /\ up
    /\ "timer" \in armed
    /\ reached' = reached \cup Range(udpCl)
    /\ armed' = StartTest(armed \ {"timer"})
    /\ UNCHANGED <<up, nextId, tcpCl, udpCl, sid, rd, size, delivered, network>>

-----------------------------------------------------------------------------
(* The handlers of AsioTcpClientSession::doRead, one action per way a read *)
(* completes                                                               *)

DrainedLate(c) == got[c] > put[c]                   \* mutant
DrainedByClose(c) == peer[c] \in Gone               \* mutant
Drained(c) == got[c] = put[c]

\* The one error the header handler looks for: ec == asio::error::eof.
AnyError(s) == s \in Gone                           \* mutant
OnlyReset(s) == s = "rst"                           \* mutant
IsEof(s) == s = "fin"

\* The number of the message whose length prefix stands at a position.
LengthBefore(pos) == pos \div 2                     \* mutant
LengthAt(pos) == (pos + 2) \div 2

\* What the next unit is to a read of as many bytes as the last length said.
PacketAt(c) == IF got[c] + 1 = 2 * size[c] THEN size[c] ELSE Garbled

HeaderRead(c) ==
    /\ up
    /\ rd[c] = "header"
    /\ ~Drained(c)
    /\ got' = [got EXCEPT ![c] = @ + 1]
    /\ size' = [size EXCEPT ![c] = LengthAt(got[c])]
    /\ rd' = [rd EXCEPT ![c] = "body"]
    /\ UNCHANGED <<up, armed, nextId, tcpCl, udpCl, sid, delivered, reached,
                   backlog, peer, ep, put>>

\* ec == eof: signal_deleting runs AsioUdpManager::removeClient, then
\* AsioTcpManager::removeClient; the session ends with the handler.
HeaderEof(c) ==
    /\ up
    /\ rd[c] = "header"
    /\ Drained(c)
    /\ peer[c] \in Gone
    /\ IsEof(peer[c])
    /\ udpCl' = RemoveUdpClient(udpCl, sid[c])
    /\ tcpCl' = RemoveTcpClient(tcpCl, sid[c])
    /\ rd' = [rd EXCEPT ![c] = "none"]
    /\ UNCHANGED <<up, armed, nextId, sid, size, delivered, reached, network>>

\* Any other error is not looked at: the body is read with the size_ of the
\* message before, or 0.  One to three bytes of the next prefix may have come
\* before the error and overwritten part of size_: the low byte comes first and
\* is not 0, and as nothing follows, that length is as good as the next one.
HeaderError(c) ==
    /\ up
    /\ rd[c] = "header"
    /\ Drained(c)
    /\ peer[c] \in Gone
    /\ ~IsEof(peer[c])
    /\ \E n \in {size[c], LengthAt(got[c])} : size' = [size EXCEPT ![c] = n]
    /\ rd' = [rd EXCEPT ![c] = "body"]
    /\ UNCHANGED <<up, armed, nextId, tcpCl, udpCl, sid, delivered, reached,
                   network>>

\* signal_process_packet(buffer_) and the next doRead.
BodyRead(c) ==
    /\ up
    /\ rd[c] = "body"
    /\ size[c] > 0
    /\ ~Drained(c)
    /\ got' = [got EXCEPT ![c] = @ + 1]
    /\ delivered' = [delivered EXCEPT ![c] = Append(@, PacketAt(c))]
    /\ rd' = [rd EXCEPT ![c] = DoRead(@)]
    /\ UNCHANGED <<up, armed, nextId, tcpCl, udpCl, sid, size, reached,
                   backlog, peer, ep, put>>

\* A body read that fails, with end of file too, is logged and nothing else:
\* no signal_deleting, and no read is started.
BodyError(c) ==
    /\ up
    /\ rd[c] = "body"
    /\ size[c] > 0
    /\ Drained(c)
    /\ peer[c] \in Gone
    /\ rd' = [rd EXCEPT ![c] = "none"]
    /\ UNCHANGED <<up, armed, nextId, tcpCl, udpCl, sid, size, delivered,
                   reached, network>>

\* A read of 0 bytes completes at once without an error.  processPacket then
\* copies a header out of an empty vector and builds one with a negative
\* length: a fault or a length_error, either of which ends the process.
EmptyBody(c) ==
    /\ up
    /\ rd[c] = "body"
    /\ size[c] = 0
    /\ up' = FALSE
    /\ UNCHANGED <<armed, nextId, tcpCl, udpCl, sid, rd, size, delivered,
                   reached, network>>

-----------------------------------------------------------------------------
Session(c) ==
    \/ HeaderRead(c) \/ HeaderEof(c) \/ HeaderError(c)
    \/ BodyRead(c) \/ BodyError(c) \/ EmptyBody(c)

Next ==
    \/ \E c \in Conns, e \in Endpoints : Connect(c, e)
    \/ \E c \in Conns : Write(c) \/ Close(c) \/ Reset(c)
    \/ \E c \in Conns : Accept(c) \/ AcceptDead(c)
    \/ Tick
    \/ \E c \in Conns : Session(c)

Spec == Init /\ [][Next]_vars

\* io_context::run dispatches every operation that is ready; the peers owe
\* nothing.
Fairness ==
    /\ \A c \in Conns : WF_vars(Accept(c) \/ AcceptDead(c))
    /\ \A c \in Conns : WF_vars(Session(c))
    /\ WF_vars(Tick)

FairSpec == Spec /\ Fairness

-----------------------------------------------------------------------------
(* Properties *)

TypeOK ==
    /\ up \in BOOLEAN
    /\ armed \subseteq {"accept", "timer"}
    /\ nextId \in Ids
    /\ DOMAIN tcpCl \subseteq Ids /\ tcpCl \in [DOMAIN tcpCl -> Conns]
    /\ DOMAIN udpCl \subseteq Ids
    /\ udpCl \in [DOMAIN udpCl -> Endpoints \cup {NoEndpoint}]
    /\ sid \in [Conns -> Ids \cup {NoId}]
    /\ rd \in [Conns -> {"none", "header", "body"}]
    /\ size \in [Conns -> Nat]
    /\ delivered \in [Conns -> Seq(Nat)]
    /\ reached \subseteq Endpoints \cup {NoEndpoint}
    /\ backlog \subseteq Conns
    /\ peer \in [Conns -> {"none", "open", "fin", "rst"}]
    /\ ep \in [Conns -> Endpoints \cup {NoEndpoint}]
    /\ put \in [Conns -> 0 .. 2 * MaxMsgs]
    /\ got \in [Conns -> 0 .. 2 * MaxMsgs]

\* The TCP and the UDP table always hold the same clients, each under the id
\* its session will later pass to signal_deleting and with its own endpoint:
\* one removal takes exactly that client out of both
\* (AsioTcpServer.cpp:54-57, 67-68).
RegistriesAgree ==
    /\ DOMAIN udpCl = DOMAIN tcpCl
    /\ \A i \in DOMAIN tcpCl :
        sid[tcpCl[i]] = i /\ udpCl[i] = ep[tcpCl[i]]

\* The read loop of a session lives as long as its entry in the table: removal
\* leaves no session behind that the shared_ptr of its read keeps alive, and
\* what stays in the table unread was reset or cut off within a message
\* (ClientSession.cpp:16-33).
ReadLoopAlive ==
    \A c \in Conns :
        /\ rd[c] # "none" => c \in Registered
        /\ c \in Registered /\ rd[c] = "none"
             => peer[c] = "rst" \/ (peer[c] = "fin" /\ put[c] % 2 = 1)

\* Every packet handed to processPacket is a whole packet, and a connection's
\* packets come in the order they were written, none left out
\* (ClientSession.cpp:17-32).
FramesInOrder ==
    \A c \in Conns : \A k \in 1 .. Len(delivered[c]) : delivered[c][k] = k

\* A broadcast sends two copies to one endpoint only while the table holds a
\* client that is already gone (AsioUdpServer.cpp:51-53).
TwinsAreGone ==
    \A i, j \in DOMAIN udpCl :
        i # j /\ udpCl[i] = udpCl[j] => peer[tcpCl[i]] \in Gone
                                        \/ peer[tcpCl[j]] \in Gone

\* The process only ever dies of a connection that was reset before one whole
\* length prefix of it had been read (ClientSession.cpp:17-31).
DiesOnlyOfEmptyRead ==
    ~up => \E c \in Registered : peer[c] = "rst" /\ got[c] = 0

\* A client is taken out of the table only after it closed in order, and not
\* before every whole message it wrote has been processed
\* (ClientSession.cpp:19-22).
RemovedOnlyWhenDone ==
    [][\A i \in DOMAIN tcpCl : i \notin DOMAIN tcpCl' =>
           LET c == tcpCl[i]
           IN  peer[c] = "fin" /\ Len(delivered[c]) = put[c] \div 2]_vars

\* Every connection that reaches the listening socket is taken off the
\* backlog (AsioTcpServer.cpp:61).
BacklogServed ==
    \A c \in Conns : c \in backlog ~> c \notin backlog \/ ~up

\* A client that closes between two messages is eventually removed, unless the
\* close turns into a reset (ClientSession.cpp:19-22).
DepartureNoticed ==
    \A c \in Conns :
        c \in Registered /\ peer[c] = "fin" /\ put[c] % 2 = 0
            ~> c \notin Registered \/ peer[c] = "rst" \/ ~up

\* Every client that stays is reached by the periodic broadcast
\* (AsioTcpServer.cpp:139-151).
BroadcastReachesAll ==
    \A c \in Conns :
        c \in Registered ~> ep[c] \in reached \/ c \notin Registered \/ ~up

\* SessionServer implements the abstract directory of clients.
Directory == INSTANCE ClientDirectory WITH
    serving  <- up,
    members  <- Registered,
    departed <- Accepted \ Registered,
    hungup   <- {c \in Conns : peer[c] \in Gone},
    inbox    <- delivered

ImplementsDirectory == Directory!Spec
==============================================================================
