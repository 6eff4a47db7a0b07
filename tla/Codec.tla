------------------------------- MODULE Codec -------------------------------
(***************************************************************************)
(* Packets and payloads as bytes (GroupData.h, ClientSession.h; the same   *)
(* code in server and client), written by one host and read by another     *)
(* whose byte order may differ.                                            *)
(*                                                                         *)
(* A word (u16, u32, int, double) is the sequence of its bytes, the most   *)
(* significant one first.  Mem is how a host keeps it, and so what a copy  *)
(* of the variable's bytes moves; htonl swaps a word so that Mem gives it  *)
(* back in network order.                                                  *)
(***************************************************************************)
EXTENDS Naturals, Sequences

Byte == 0 .. 255
Word(w) == [1 .. w -> Byte]
Hosts == {"little", "big"}

Flip(w) == [i \in 1 .. Len(w) |-> w[Len(w) + 1 - i]]
Mem(h, w) == IF h = "big" THEN w ELSE Flip(w)
Load(h, bytes) == Mem(h, bytes)

Htonl(h, w) == IF h = "big" THEN w ELSE Flip(w)
Ntohl(h, w) == IF h = "big" THEN w ELSE Flip(w)

U16(n) == << (n \div 256) % 256, n % 256 >>
U32(n) == << (n \div 16777216) % 256, (n \div 65536) % 256,
             (n \div 256) % 256, n % 256 >>
Number(w) == 16777216 * w[1] + 65536 * w[2] + 256 * w[3] + w[4]

\* memcpy of n bytes behind the first off ones.
At(bytes, off, n) == [i \in 1 .. n |-> bytes[off + i]]

-----------------------------------------------------------------------------
(* Payloads: the fields that serialize appends, at the offsets deserialize *)
(* reads them from.                                                        *)

NetWord(h, w) == Mem(h, Htonl(h, w))
NetWordAt(h, bytes, off) == Ntohl(h, Load(h, At(bytes, off, 4)))

\* A string, behind its length.
Text(h, s) == NetWord(h, U32(Len(s))) \o s
TextSize(h, bytes) == Number(NetWordAt(h, bytes, 0))
TextBehind(h, bytes) == At(bytes, 5, TextSize(h, bytes))        \* mutant
TextAt(h, bytes) == At(bytes, 4, TextSize(h, bytes))

TestMessageBytes(h, m) == Text(h, m.message)
TestMessageOf(h, bytes) == [kind |-> "TestMessage", message |-> TextAt(h, bytes)]

\* The port is not swapped.
NetPort(h, m) == NetWord(h, m.port)                             \* mutant
PortBytes(h, m) == Mem(h, m.port)
FirstDataBytes(h, m) == Text(h, m.addr) \o PortBytes(h, m)
FirstDataOf(h, bytes) ==
    [kind |-> "FirstData", addr |-> TextAt(h, bytes),
     port |-> Load(h, At(bytes, 4 + TextSize(h, bytes), 2))]

\* A vector of int, behind its size.
Ints(h, d) ==
    NetWord(h, U32(Len(d))) \o
        [k \in 1 .. 4 * Len(d) |-> NetWord(h, d[((k - 1) \div 4) + 1])[((k - 1) % 4) + 1]]
IntsAt(h, bytes, off) ==
    [i \in 1 .. Number(NetWordAt(h, bytes, off)) |-> NetWordAt(h, bytes, off + 4 * i)]

TestStructBytes(h, m) ==
    Text(h, m.a) \o NetWord(h, m.b) \o Mem(h, m.c) \o Ints(h, m.d)
TestStructOf(h, bytes) ==
    LET n == 4 + TextSize(h, bytes) IN
    [kind |-> "TestStruct", a |-> TextAt(h, bytes), b |-> NetWordAt(h, bytes, n),
     c |-> Load(h, At(bytes, n + 4, 8)), d |-> IntsAt(h, bytes, n + 12)]

-----------------------------------------------------------------------------
(* Packets *)

ServerHash == U16(1337)
HeaderSize == 17

\* The type of a payload, which TCP and UDP number on their own.
DataType(m) == IF m.kind \in {"FirstData", "Image"} THEN U16(1) ELSE U16(0)

Payload(h, m) ==
    CASE m.kind = "TestMessage" -> TestMessageBytes(h, m)
      [] m.kind = "FirstData"   -> FirstDataBytes(h, m)
      [] m.kind = "TestStruct"  -> TestStructBytes(h, m)
      [] m.kind = "Image"       -> m.bytes

\* doSend leaves the number of its packet 0.
PacketNumber(m) == IF m.kind = "FirstData" THEN 0 ELSE 1

\* Packet::serialize of a packet that is the first and the last one.
Header(h, m) ==
    LET n == Len(Payload(h, m)) IN
    Mem(h, ServerHash) \o Mem(h, U32(n)) \o Mem(h, U16(1))
        \o Mem(h, U16(PacketNumber(m))) \o Mem(h, U16(n + HeaderSize))
        \o <<1, 1, 0>> \o Mem(h, DataType(m))
Serialized(h, m) == Header(h, m) \o Payload(h, m)

\* processPacket and prcsPacket: the hash and the type as h reads them, and
\* the rest of the buffer.
HashAt(h, bytes) == Load(h, At(bytes, 0, 2))
TypeAt(h, bytes) == Load(h, At(bytes, 15, 2))
Rest(bytes) == SubSeq(bytes, HeaderSize + 1, Len(bytes))

\* What the TCP and the UDP side make of the packet in a buffer.  Only TCP
\* looks at the flags, and only a client has a use for FirstData.
NoMessage == [kind |-> "none"]
TcpMessage(h, bytes) ==
    IF HashAt(h, bytes) # ServerHash \/ bytes[13] # 1 \/ bytes[14] # 1 THEN NoMessage
    ELSE CASE TypeAt(h, bytes) = U16(0) -> TestStructOf(h, Rest(bytes))
           [] TypeAt(h, bytes) = U16(1) -> FirstDataOf(h, Rest(bytes))
           [] OTHER -> NoMessage
UdpMessage(h, bytes) ==
    IF HashAt(h, bytes) # ServerHash THEN NoMessage
    ELSE CASE TypeAt(h, bytes) = U16(0) -> TestMessageOf(h, Rest(bytes))
           [] TypeAt(h, bytes) = U16(1) -> [kind |-> "Image"]
           [] OTHER -> NoMessage
=============================================================================
