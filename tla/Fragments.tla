------------------------------ MODULE Fragments ------------------------------
(***************************************************************************)
(* How an image is cut into UDP packets and put together again.  The same  *)
(* code runs in the server (AsioUdpManager::broadCast, processPacket) and  *)
(* in the client (BoostUdpConnection::sendData, prcsPacket).               *)
(*                                                                         *)
(* An image, a packet's body and an assembly buffer are sequences of       *)
(* bytes; a byte is whatever the using module says it is, except Zero.     *)
(***************************************************************************)
EXTENDS Naturals, Sequences

CONSTANTS
    MaxChunk,   \* MAX_SIZE_UDP: 1472 bytes of image per packet
    Header,     \* bytes before the body of a packet: 17
    BufSize,    \* BUFFER_SIZE: 1472 bytes of one receive
    U16,        \* 2^16, the width of cur_packet_number
    U32         \* 2^32, the width of chunk_offset

ASSUME FragmentAssumption ==
    /\ MaxChunk \in Nat \ {0}
    /\ Header \in Nat
    /\ BufSize \in Nat
    /\ Header < BufSize
    /\ U16 \in Nat \ {0}
    /\ U32 \in Nat
    /\ MaxChunk < U32

Zero == << >>                   \* the byte assembly_buffer.assign fills with

-----------------------------------------------------------------------------
(* The sender: n is the size of the image, idx counts its packets from 0. *)

PacketCount(n) == (n + MaxChunk - 1) \div MaxChunk
IsLast(n, idx) == idx + 1 = PacketCount(n)
ChunkStart(idx) == idx * MaxChunk
ChunkRest(n, idx) == n - ChunkStart(idx)                        \* mutant
ChunkSize(n, idx) == IF IsLast(n, idx) THEN n - ChunkStart(idx) ELSE MaxChunk

NumberFromZero(idx) == idx % U16                                \* mutant
Number(idx) == (idx + 1) % U16

\* total_data_size is the size of the image.
TotalOfPacket(image, idx) == ChunkSize(Len(image), idx)         \* mutant
Total(image, idx) == Len(image)

\* makeHeader and the body of one packet of an image.
Packet(image, idx) ==
    [type   |-> "Image",
     total  |-> Total(image, idx),
     number |-> Number(idx),
     first  |-> idx = 0,
     last   |-> IsLast(Len(image), idx),
     body   |-> SubSeq(image, ChunkStart(idx) + 1,
                       ChunkStart(idx) + ChunkSize(Len(image), idx))]

Packets(image) ==
    [j \in 1 .. PacketCount(Len(image)) |-> Packet(image, j - 1)]

\* A TestMessage travels in one packet, and its header is not looked at.
TextPacket(text) ==
    [type |-> "Text", total |-> Len(text), number |-> Number(0),
     first |-> TRUE, last |-> TRUE, body |-> text]

-----------------------------------------------------------------------------
(* The receiver *)

\* What a receive leaves for the body: a longer datagram is cut off.
WholeDatagram == MaxChunk                                       \* mutant
Payload == BufSize - Header

\* A receive overwrites the buffer from its start and leaves the rest alone.
Overlay(buffer, body) ==
    [i \in 1 .. Payload |-> IF i <= Len(body) THEN body[i] ELSE buffer[i]]

\* The first packet of an image makes the assembly buffer anew.
Begun(assembly, pkt) == IF pkt.first
                        THEN [i \in 1 .. pkt.total |-> Zero]
                        ELSE assembly

\* chunk_offset = (cur_packet_number - 1) * MAX_SIZE_UDP, in 32 bits.
PayloadOffset(pkt) == (pkt.number - 1) * Payload                \* mutant
OffsetFromOne(pkt) == pkt.number * MaxChunk                     \* mutant
ChunkOffset(pkt) == IF pkt.number = 0
                    THEN U32 - MaxChunk
                    ELSE (pkt.number - 1) * MaxChunk % U32

\* The end of the memcpy, which always copies the whole of pkt.buffer.
CopyEnd(pkt) == ChunkOffset(pkt) + Payload

\* The memcpy, as far as it falls inside the assembly buffer.
Copied(assembly, pkt, buffer) ==
    [i \in 1 .. Len(assembly) |->
        IF i > ChunkOffset(pkt) /\ i <= CopyEnd(pkt)
        THEN buffer[i - ChunkOffset(pkt)]
        ELSE assembly[i]]

-----------------------------------------------------------------------------
\* The place of byte i of an image inside its packet.
InChunk(i) == (i - 1) % MaxChunk

\* The last packet of an image of n bytes is shorter than what is copied of it.
ShortTail(n) == n > 0 /\ ChunkSize(n, PacketCount(n) - 1) < Payload

\* An image whose packet numbers do not fit in 16 bits.
TooManyPackets(n) == PacketCount(n) >= U16
=============================================================================
