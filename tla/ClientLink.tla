----------------------------- MODULE ClientLink -----------------------------
(***************************************************************************)
(* The client's connection: BoostTcpConnection, its BoostUdpConnection and *)
(* the buttons of MainClient.  The Qt thread runs the slots, the io thread *)
(* the completion handlers; both use the sockets without a lock, so their  *)
(* steps, one per call on a socket, interleave.                            *)
(*                                                                         *)
(* The server sends one message on a connection, FirstData.  Its stream is *)
(* counted in bytes: one byte of length, then Packet bytes.  A size of 0   *)
(* is the initial one, Packet the one a length prefix says, Garbage what   *)
(* any other byte says when it is taken for a length.  The four bytes of a *)
(* length count as one: its first, the low one, is all of a length below   *)
(* 256, so a reset behind it leaves size as a length that came whole does. *)
(***************************************************************************)
EXTENDS Naturals, Sequences, FiniteSets

CONSTANTS
    Packet,     \* bytes of a FirstData packet, without its length
    Garbage,    \* a size no stream can satisfy
    MaxSockets, \* bound: sockets opened by async_connect
    MaxClicks   \* bound: buttons pressed

ASSUME SizeAssumption ==
    /\ Packet \in Nat \ {0}
    /\ Garbage \in Nat
    /\ Garbage > Packet + 1

ASSUME BoundAssumption == MaxSockets \in Nat /\ MaxClicks \in Nat

VARIABLES
    dead,       \* an exception has left a handler, or a fault: no process
    resolving,  \* names being resolved
    tcp,        \* what the TCP socket has come to
    gen,        \* how many sockets were opened; the number of this one
    arrived,    \* bytes of the server's stream that are here
    taken,      \* bytes of it that reads have consumed
    reads,      \* pending reads of the socket, each the bytes it waits for
    writes,     \* pending connect and writes of the socket
    ready,      \* completed operations whose handlers wait for the io thread
    size,       \* tcp_var_->size
    udp,        \* the UDP socket: closed, open, bound, or bound by a send
    udpOf,      \* the connection whose FirstData the UDP socket was bound by
    listening,  \* a UDP receive is pending
    qt,         \* where the Qt thread is in its slot
    io,         \* where the io thread is in its handler
    info,       \* the connection whose FirstData it handles
    clicks,     \* buttons pressed
    hasty,      \* history: a button was pressed before the last one had
                \* settled, or Connect without Disconnect
    garbled     \* history: prcsPacket was given something else than a packet

socket == <<tcp, gen, arrived, taken, reads, writes>>
udpSocket == <<udp, udpOf, listening>>
history == <<clicks, hasty, garbled>>
thread == <<qt, io, info>>
vars == <<dead, resolving, socket, ready, size, udpSocket, thread, history>>

-----------------------------------------------------------------------------
Init ==
    /\ dead = FALSE
    /\ resolving = 0
    /\ tcp = "closed" /\ gen = 0
    /\ arrived = 0 /\ taken = 0
    /\ reads = << >> /\ writes = << >>
    /\ ready = << >>
    /\ size = 0
    /\ udp = "closed" /\ udpOf = 0 /\ listening = FALSE
    /\ qt = "idle" /\ io = "idle" /\ info = 0
    /\ clicks = 0 /\ hasty = FALSE /\ garbled = FALSE

\* A handler that is to run: which, with what error, and for a body read what
\* it got (nothing, a whole packet, or other bytes) from which connection.
Done(op, ec) == [op |-> op, ec |-> ec, got |-> "nothing", of |-> gen]
Got(op, bytes) == [op |-> op, ec |-> "ok", got |-> bytes, of |-> gen]

IsOpen == tcp # "closed"

\* Closing a socket completes its reads, and then its connect and writes,
\* with operation_aborted.
Aborted ==
    [j \in DOMAIN reads |-> Done(reads[j].op, "aborted")]
        \o [j \in DOMAIN writes |-> Done(writes[j], "aborted")]

CloseTcp ==
    /\ tcp' = "closed"
    /\ reads' = << >>
    /\ writes' = << >>
    /\ ready' = ready \o Aborted
    /\ UNCHANGED <<gen, arrived, taken>>

\* The socket, if it is open, is shut down and closed.
DisconnectTcp == IF IsOpen THEN CloseTcp ELSE UNCHANGED <<socket, ready>>

KeepUdp == UNCHANGED udpSocket                      \* mutant
CloseUdp ==
    /\ udp' = "closed"
    /\ listening' = FALSE
    /\ UNCHANGED udpOf

\* Nothing that a button started is still under way, except the read that
\* waits for the server's next message or its end.
Settled ==
    /\ resolving = 0
    /\ ready = << >> /\ writes = << >>
    /\ qt = "idle" /\ io = "idle"
    /\ reads = << >> \/ listening

-----------------------------------------------------------------------------
(* The Qt thread *)

Click ==
    /\ ~dead
    /\ qt = "idle"
    /\ clicks < MaxClicks
    /\ clicks' = clicks + 1
    /\ UNCHANGED garbled

\* doConnect starts to resolve the name, whatever the connection is.
ClickConnect ==
    /\ Click
    /\ resolving' = resolving + 1
    /\ hasty' = (hasty \/ ~Settled \/ IsOpen)
    /\ UNCHANGED <<dead, socket, ready, size, udpSocket, thread>>

\* doDisconnect: the TCP socket, then the UDP socket.
ClickDisconnect ==
    /\ Click
    /\ DisconnectTcp
    /\ qt' = "disconnect"
    /\ hasty' = (hasty \/ ~Settled)
    /\ UNCHANGED <<dead, resolving, size, udpSocket, io, info>>

DisconnectUdp ==
    /\ ~dead
    /\ qt = "disconnect"
    /\ CloseUdp
    /\ qt' = "idle"
    /\ UNCHANGED <<dead, resolving, socket, ready, size, io, info, history>>

\* slotSend: asyncWrite on an open socket, then the UDP packets.
ClickSend ==
    /\ Click
    /\ writes' = IF IsOpen THEN Append(writes, "write") ELSE writes
    /\ qt' = "send"
    /\ hasty' = (hasty \/ ~Settled)
    /\ UNCHANGED <<dead, resolving, tcp, gen, arrived, taken, reads, ready,
                   size, udpSocket, io, info>>

\* sendData: sending from a socket that is not bound binds it to any port.
SendUdp ==
    /\ ~dead
    /\ qt = "send"
    /\ udp' = IF udp = "open" THEN "ephemeral" ELSE udp
    /\ qt' = "idle"
    /\ UNCHANGED <<dead, resolving, socket, ready, size, udpOf, listening, io,
                   info, history>>

-----------------------------------------------------------------------------
(* The resolver, the TCP stack and the server *)

Resolved ==
    /\ ~dead
    /\ resolving > 0
    /\ resolving' = resolving - 1
    /\ \E ec \in {"ok", "error"} : ready' = Append(ready, Done("resolve", ec))
    /\ UNCHANGED <<dead, socket, size, udpSocket, thread, history>>

\* The connect is the first operation of a new socket.
Established ==
    /\ ~dead
    /\ tcp = "connecting"
    /\ \E ok \in BOOLEAN :
         /\ tcp' = IF ok THEN "up" ELSE "refused"
         /\ ready' = Append(ready, Done("connect", IF ok THEN "ok" ELSE "error"))
    /\ writes' = Tail(writes)
    /\ UNCHANGED <<dead, resolving, gen, arrived, taken, reads, size,
                   udpSocket, thread, history>>

\* One more byte of FirstData arrives.
Arrive ==
    /\ ~dead
    /\ tcp = "up"
    /\ arrived < Packet + 1
    /\ arrived' = arrived + 1
    /\ UNCHANGED <<dead, resolving, tcp, gen, taken, reads, writes, ready,
                   size, udpSocket, thread, history>>

\* The server closes, is stopped, or resets the connection.
ServerEnds ==
    /\ ~dead
    /\ \/ tcp = "up" /\ tcp' \in {"fin", "rst"}
       \/ tcp = "fin" /\ tcp' = "rst"
    /\ UNCHANGED <<dead, resolving, gen, arrived, taken, reads, writes, ready,
                   size, udpSocket, thread, history>>

WriteDone ==
    /\ ~dead
    /\ tcp \in {"up", "fin", "rst", "refused"}
    /\ writes # << >>
    /\ writes' = Tail(writes)
    /\ \E ec \in (IF tcp = "up" THEN {"ok"}
                  ELSE IF tcp = "fin" THEN {"ok", "error"} ELSE {"error"}) :
           ready' = Append(ready, Done("write", ec))
    /\ UNCHANGED <<dead, resolving, tcp, gen, arrived, taken, reads, size,
                   udpSocket, thread, history>>

\* What the byte at a position says when it is read as a length.
LengthWithPrefix(pos) == Packet + 1                 \* mutant
LengthAt(pos) == IF pos = 0 THEN Packet ELSE Garbage

\* The first pending read has its bytes, or the stream ends before them.
ReadDone ==
    /\ ~dead
    /\ tcp \in {"up", "fin", "rst", "refused"}
    /\ reads # << >>
    /\ LET r == Head(reads)
       IN  \/ /\ arrived - taken >= r.n
              /\ taken' = taken + r.n
              /\ size' = IF r.op = "header" THEN LengthAt(taken) ELSE size
              /\ ready' = Append(ready, Got(r.op, IF taken = 1 /\ r.n = Packet
                                             THEN "packet" ELSE "bytes"))
           \/ /\ tcp # "up"
              /\ arrived - taken < r.n
              /\ ready' = Append(ready, Done(r.op, IF tcp = "fin" THEN "eof"
                                                   ELSE "error"))
              /\ taken' = arrived
              /\ size' = size
    /\ reads' = Tail(reads)
    /\ UNCHANGED <<dead, resolving, tcp, gen, arrived, writes, udpSocket,
                   thread, history>>

-----------------------------------------------------------------------------
(* The io thread *)

\* The io thread runs the next handler.
Handle(op) ==
    /\ ~dead
    /\ io = "idle"
    /\ ready # << >>
    /\ Head(ready).op = op
Handled == Head(ready)

\* A read of 0 bytes is done at once, also on a closed socket, on which every
\* other read fails; rest: the handlers that wait already.
StartRead(op, n, rest) ==
    /\ reads' = IF n > 0 /\ IsOpen THEN Append(reads, [op |-> op, n |-> n])
                ELSE reads
    /\ ready' = IF n = 0 THEN Append(rest, Got(op, "nothing"))
                ELSE IF IsOpen THEN rest ELSE Append(rest, Done(op, "error"))
    /\ UNCHANGED <<tcp, gen, arrived, taken, writes>>

\* asyncRead begins with the length.
AsyncReadNever(rest) == UNCHANGED socket /\ ready' = rest          \* mutant
AsyncReadTwice(rest) ==                                             \* mutant
    /\ reads' = reads \o [j \in 1 .. 2 |-> [op |-> "header", n |-> 1]]
    /\ ready' = rest
    /\ UNCHANGED <<tcp, gen, arrived, taken, writes>>
AsyncRead(rest) == StartRead("header", 1, rest)

\* doDisconnect in a handler; the UDP socket follows.
IoDisconnect ==
    /\ IF IsOpen
       THEN /\ tcp' = "closed" /\ reads' = << >> /\ writes' = << >>
            /\ ready' = Tail(ready) \o Aborted
            /\ UNCHANGED <<gen, arrived, taken>>
       ELSE UNCHANGED socket /\ ready' = Tail(ready)
    /\ io' = "disconnect"

IoDisconnectUdp ==
    /\ ~dead
    /\ io = "disconnect"
    /\ CloseUdp
    /\ io' = "idle"
    /\ UNCHANGED <<dead, resolving, socket, ready, size, qt, info, history>>

\* async_connect closes the socket if it is open, and opens it.
HandleResolve ==
    /\ Handle("resolve")
    /\ \/ /\ Handled.ec = "ok"
          /\ gen < MaxSockets
          /\ tcp' = "connecting" /\ gen' = gen + 1
          /\ arrived' = 0 /\ taken' = 0
          /\ reads' = << >> /\ writes' = <<"connect">>
          /\ ready' = Tail(ready) \o Aborted
          /\ UNCHANGED io
       \/ /\ Handled.ec # "ok"
          /\ IoDisconnect
    /\ UNCHANGED <<dead, resolving, size, udpSocket, qt, info, history>>

\* async_connect reports a socket that was closed meanwhile as aborted.
HandleConnect ==
    /\ Handle("connect")
    /\ IF Handled.ec = "ok" /\ IsOpen
       THEN AsyncRead(Tail(ready)) /\ UNCHANGED io
       ELSE IoDisconnect
    /\ UNCHANGED <<dead, resolving, size, udpSocket, qt, info, history>>

HandleWrite ==
    /\ Handle("write")
    /\ IF Handled.ec = "ok"
       THEN ready' = Tail(ready) /\ UNCHANGED <<socket, io>>
       ELSE IoDisconnect
    /\ UNCHANGED <<dead, resolving, size, udpSocket, qt, info, history>>

\* Only end of file ends the reading here; after any other error the body is
\* read all the same, with the size there is.
BodyWithPrefix == size - 1                                          \* mutant
BodySize == size

HandleHeader ==
    /\ Handle("header")
    /\ IF Handled.ec = "eof"
       THEN ready' = Tail(ready) /\ UNCHANGED socket
       ELSE StartRead("body", BodySize, Tail(ready))
    /\ UNCHANGED <<dead, resolving, size, udpSocket, thread, history>>

\* An error is printed, and the reading ends.
HandleBodyError ==
    /\ Handle("body")
    /\ Handled.ec # "ok"
    /\ ready' = Tail(ready)
    /\ UNCHANGED <<dead, resolving, socket, size, udpSocket, thread, history>>

\* prcsPacket of an empty buffer: a fault, or the exception for a negative
\* length.
HandleNothing ==
    /\ Handle("body")
    /\ Handled.ec = "ok" /\ Handled.got = "nothing"
    /\ dead' = TRUE
    /\ UNCHANGED <<resolving, socket, ready, size, udpSocket, thread, history>>

\* Bytes that are no packet do not begin with the hash and are dropped.
HandleBytes ==
    /\ Handle("body")
    /\ Handled.ec = "ok" /\ Handled.got = "bytes"
    /\ garbled' = TRUE
    /\ AsyncRead(Tail(ready))
    /\ UNCHANGED <<dead, resolving, size, udpSocket, thread, clicks, hasty>>

\* FirstData: the UDP socket is opened, bound and read from, and then the next
\* TCP read is started.
HandleFirstData ==
    /\ Handle("body")
    /\ Handled.ec = "ok" /\ Handled.got = "packet"
    /\ io' = "open" /\ info' = Handled.of
    /\ ready' = Tail(ready)
    /\ UNCHANGED <<dead, resolving, socket, size, udpSocket, qt, history>>

\* Opening an open socket throws, and nothing catches it.
OpenUdp ==
    /\ ~dead
    /\ io = "open"
    /\ IF udp = "closed"
       THEN udp' = "open" /\ io' = "bind" /\ UNCHANGED dead
       ELSE dead' = TRUE /\ UNCHANGED <<udp, io>>
    /\ UNCHANGED <<resolving, socket, ready, size, udpOf, listening, qt, info,
                   history>>

\* So does binding a closed or a bound socket.
BindUdp ==
    /\ ~dead
    /\ io = "bind"
    /\ IF udp = "open"
       THEN udp' = "bound" /\ udpOf' = info /\ io' = "listen" /\ UNCHANGED dead
       ELSE dead' = TRUE /\ UNCHANGED <<udp, udpOf, io>>
    /\ UNCHANGED <<resolving, socket, ready, size, listening, qt, info, history>>

ListenUdp ==
    /\ ~dead
    /\ io = "listen"
    /\ listening' = (listening \/ udp # "closed")
    /\ io' = "read"
    /\ UNCHANGED <<dead, resolving, socket, ready, size, udp, udpOf, qt, info,
                   history>>

ReadOn ==
    /\ ~dead
    /\ io = "read"
    /\ AsyncRead(ready)
    /\ io' = "idle"
    /\ UNCHANGED <<dead, resolving, size, udpSocket, qt, info, history>>

-----------------------------------------------------------------------------
Next ==
    \/ ClickConnect \/ ClickDisconnect \/ ClickSend
    \/ DisconnectUdp \/ SendUdp
    \/ Resolved \/ Established \/ Arrive \/ ServerEnds \/ WriteDone \/ ReadDone
    \/ HandleResolve \/ HandleConnect \/ HandleWrite
    \/ HandleHeader \/ HandleBodyError \/ HandleNothing \/ HandleBytes
    \/ HandleFirstData \/ OpenUdp \/ BindUdp \/ ListenUdp \/ ReadOn
    \/ IoDisconnectUdp

Spec == Init /\ [][Next]_vars

-----------------------------------------------------------------------------
(* Properties *)

Ops == {"resolve", "connect", "write", "header", "body"}

TypeOK ==
    /\ dead \in BOOLEAN
    /\ resolving \in 0 .. MaxClicks
    /\ tcp \in {"closed", "connecting", "up", "refused", "fin", "rst"}
    /\ gen \in 0 .. MaxSockets
    /\ arrived \in 0 .. Packet + 1 /\ taken \in 0 .. arrived
    /\ \A j \in DOMAIN reads : reads[j] \in [op : Ops, n : {1, Packet, Garbage}]
    /\ writes \in Seq({"connect", "write"})
    /\ \A j \in DOMAIN ready :
           ready[j] \in [op : Ops, ec : {"ok", "error", "aborted", "eof"},
                         got : {"nothing", "packet", "bytes"},
                         of : 0 .. MaxSockets]
    /\ size \in {0, Packet, Garbage}
    /\ udp \in {"closed", "open", "bound", "ephemeral"}
    /\ udpOf \in 0 .. MaxSockets
    /\ listening \in BOOLEAN
    /\ qt \in {"idle", "disconnect", "send"}
    /\ io \in {"idle", "disconnect", "open", "bind", "listen", "read"}
    /\ info \in 0 .. MaxSockets
    /\ clicks \in 0 .. MaxClicks
    /\ hasty \in BOOLEAN /\ garbled \in BOOLEAN

\* A user who waits for each button to take effect, and disconnects before
\* connecting again, loses the client only to a connection that was reset
\* before the first length of the client's life (connection.cpp:156-164, 228).
OrderlyUseSurvives == dead => hasty \/ (tcp = "rst" /\ size = 0)

\* For such a user no read ever takes the bytes of another message: framing
\* starts anew on each connection, whatever the last one left behind
\* (connection.cpp:154-168).
OrderlyFraming == garbled => hasty

\* For such a user one chain of reads runs on a connection
\* (connection.cpp:143, 168).
ReadLoops ==
    Len(reads)
    + Cardinality({j \in DOMAIN ready : ready[j].op \in {"header", "body"}})
    + IF io \in {"open", "bind", "listen", "read"} THEN 1 ELSE 0

OrderlyReading == ReadLoops > 1 => hasty

\* For such a user an open connection that listens for images does so on the
\* address its own FirstData gave, and after a disconnect nothing stays open
\* (connection.cpp:224-231, 236-245).
OrderlySockets ==
    ~hasty => /\ listening /\ IsOpen => udpOf = gen
              /\ Settled /\ ~IsOpen => udp = "closed"

\* A client whose connection is settled and has said all has its UDP socket on
\* the connection's own address, as Server.h:11 says: the client opens TCP and
\* UDP with the same parameters.
SameParameters ==
    ~dead /\ Settled /\ tcp = "up" /\ taken = Packet + 1
        => udp = "bound" /\ udpOf = gen
=============================================================================
