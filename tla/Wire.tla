-------------------------------- MODULE Wire --------------------------------
(***************************************************************************)
(* Two hosts, each of either byte order, one of which sends to the other:  *)
(* frames over TCP and datagrams over UDP, written and read by Codec.      *)
(* Which frames are whole is TcpFraming's matter and which datagrams are   *)
(* lost ImageRelay's; here everything arrives, and the question is what    *)
(* the receiver takes it for.                                              *)
(***************************************************************************)
EXTENDS Codec

CONSTANTS
    TcpMessages,    \* FirstData and TestStruct messages that may be sent
    UdpMessages,    \* TestMessages, and packets of images
    BufSize,        \* BUFFER_SIZE: what a datagram is received into
    MaxSends        \* bound: messages sent each way of sending

ShortTexts == {s \in Seq(Byte) : Len(s) < 65536}
FirstDatas == [kind : {"FirstData"}, addr : ShortTexts, port : Word(2)]
TestStructs == [kind : {"TestStruct"}, a : ShortTexts, b : Word(4), c : Word(8),
                d : {s \in Seq(Word(4)) : Len(s) < 65536}]
TestMessages == [kind : {"TestMessage"},
                 message : {s \in Seq(Byte) : Len(s) + 4 + HeaderSize <= BufSize}]
Images == [kind : {"Image"}, bytes : Seq(Byte)]

ASSUME WireAssumption ==
    /\ BufSize \in HeaderSize .. 65535
    /\ MaxSends \in Nat
    /\ \A m \in TcpMessages : m \in FirstDatas \/ m \in TestStructs
    /\ \A m \in UdpMessages : m \in TestMessages \/ m \in Images

VARIABLES
    tx, rx,         \* the byte orders of the sender and the receiver
    frames,         \* TCP: length and packet, not yet read
    datagrams,      \* UDP: not yet received
    buffer,         \* the receiver's UDP buffer
    starved,        \* a TCP read waits for more than was written
    said, heard     \* said.tcp, said.udp: messages sent; heard: what became of them

vars == <<tx, rx, frames, datagrams, buffer, starved, said, heard>>

Nothing == [tcp |-> << >>, udp |-> << >>]

Init ==
    /\ tx \in Hosts /\ rx \in Hosts
    /\ frames = << >> /\ datagrams = << >>
    /\ buffer = [i \in 1 .. BufSize |-> 0]
    /\ starved = FALSE
    /\ said = Nothing /\ heard = Nothing

-----------------------------------------------------------------------------
\* doSend and asyncWrite: the length goes as the host keeps it.
Frame(h, m) == Mem(h, U32(Len(Serialized(h, m)))) \o Serialized(h, m)
SizeOf(h, frame) == Number(Load(h, At(frame, 0, 4)))
Body(frame) == SubSeq(frame, 5, Len(frame))

SendFrame(m) ==
    /\ Len(said.tcp) < MaxSends
    /\ said' = [said EXCEPT !.tcp = Append(@, m)]
    /\ frames' = Append(frames, Frame(tx, m))
    /\ UNCHANGED <<tx, rx, datagrams, buffer, starved, heard>>

\* sendData and broadCast, of what fits in one packet.
SendDatagram(m) ==
    /\ Len(said.udp) < MaxSends
    /\ said' = [said EXCEPT !.udp = Append(@, m)]
    /\ datagrams' = Append(datagrams, Serialized(tx, m))
    /\ UNCHANGED <<tx, rx, frames, buffer, starved, heard>>

\* doRead and asyncRead.  A foreign length is more than what is there.
ReadFrame ==
    LET f == Head(frames) IN
    /\ ~starved
    /\ frames # << >>
    /\ IF SizeOf(rx, f) = Len(f) - 4
       THEN /\ heard' = [heard EXCEPT !.tcp = Append(@, TcpMessage(rx, Body(f)))]
            /\ frames' = Tail(frames)
            /\ UNCHANGED starved
       ELSE starved' = TRUE /\ UNCHANGED <<heard, frames>>
    /\ UNCHANGED <<tx, rx, datagrams, buffer, said>>

\* A receive overwrites the buffer from its start; processPacket and prcsPacket
\* are given the whole of it.
Overlay(old, datagram) ==
    [i \in 1 .. BufSize |-> IF i <= Len(datagram) THEN datagram[i] ELSE old[i]]

Receive ==
    /\ datagrams # << >>
    /\ buffer' = Overlay(buffer, Head(datagrams))
    /\ heard' = [heard EXCEPT !.udp = Append(@, UdpMessage(rx, buffer'))]
    /\ datagrams' = Tail(datagrams)
    /\ UNCHANGED <<tx, rx, frames, starved, said>>

Next ==
    \/ \E m \in TcpMessages : SendFrame(m)
    \/ \E m \in UdpMessages : SendDatagram(m)
    \/ ReadFrame \/ Receive

Spec == Init /\ [][Next]_vars

-----------------------------------------------------------------------------
(* Properties *)

\* An image is put together elsewhere; here it only counts that it is one.
Gist(m) == IF m.kind = "Image" THEN [kind |-> "Image"] ELSE m

TypeOK ==
    /\ {tx, rx} \subseteq Hosts
    /\ \A f \in {frames[i] : i \in DOMAIN frames} : f \in Seq(Byte) /\ Len(f) >= 4
    /\ \A d \in {datagrams[i] : i \in DOMAIN datagrams} : d \in Seq(Byte)
    /\ buffer \in [1 .. BufSize -> Byte]
    /\ starved \in BOOLEAN
    /\ Len(heard.tcp) + Len(frames) = Len(said.tcp)
    /\ Len(heard.udp) + Len(datagrams) = Len(said.udp)

\* Between hosts of one byte order every message is heard as it was said, no
\* matter which datagram was in the receive buffer before, and how long it was
\* (GroupData.h:24-45, 60-89, 100-177; AsioUdpServer.cpp:125-158).
LikeHostsUnderstand ==
    tx = rx => /\ ~starved
               /\ \A i \in DOMAIN heard.tcp : heard.tcp[i] = said.tcp[i]
               /\ \A i \in DOMAIN heard.udp : heard.udp[i] = Gist(said.udp[i])

\* Between any two hosts a message is heard as it was said or not at all: it is
\* never taken for another one (AsioTcpServer.cpp:111, AsioUdpServer.cpp:149).
NothingMisread ==
    /\ \A i \in DOMAIN heard.tcp : heard.tcp[i] \in {said.tcp[i], NoMessage}
    /\ \A i \in DOMAIN heard.udp : heard.udp[i] \in {Gist(said.udp[i]), NoMessage}
=============================================================================
