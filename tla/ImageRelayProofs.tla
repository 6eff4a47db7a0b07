-------------------------- MODULE ImageRelayProofs --------------------------
(* What losses, mixed senders and stale bytes can do to an image, for any   *)
(* number of clients, displays and packets.                                 *)
EXTENDS ImageRelay, FiniteSetTheorems, TLAPS

-----------------------------------------------------------------------------
(* Arithmetic of chunks *)

LEMMA Multiples ==
    ASSUME NEW m \in Nat, NEW x \in Nat, NEW y \in Nat, x < y
    PROVE  x * m + m <= y * m
<1>1. y - x - 1 \in Nat /\ y = x + 1 + (y - x - 1)
  OBVIOUS
<1>2. y * m = x * m + m + (y - x - 1) * m
  BY <1>1
<1>3. (y - x - 1) * m \in Nat
  BY <1>1
<1> QED BY <1>2, <1>3

LEMMA Division ==
    ASSUME NEW m \in Nat \ {0}, NEW x \in Nat
    PROVE  /\ x \div m \in Nat /\ x % m \in 0 .. m - 1
           /\ x = (x \div m) * m + (x % m)
OBVIOUS

LEMMA Remainder ==
    ASSUME NEW m \in Nat \ {0}, NEW a \in Nat, NEW b \in 0 .. m - 1
    PROVE  (a * m + b) % m = b /\ (a * m + b) \div m = a
<1> DEFINE q == (a * m + b) \div m
           r == (a * m + b) % m
<1>1. a * m + b \in Nat
  OBVIOUS
<1>2. q \in Nat /\ r \in 0 .. m - 1 /\ q * m + r = a * m + b
  BY <1>1, Division
<1> HIDE DEF q, r
<1>3. ~(q < a) /\ ~(a < q)
  BY <1>2, Multiples
<1>4. r = b /\ q = a
  BY <1>2, <1>3
<1> QED BY <1>4 DEF q, r

LEMMA Quotient ==
    ASSUME NEW m \in Nat, NEW n \in Nat, NEW x \in 0 .. n * m - 1
    PROVE  m # 0 /\ x \div m \in 0 .. n - 1 /\ x % m \in 0 .. m - 1
<1>1. m # 0
  OBVIOUS
<1> DEFINE q == x \div m
<1>2. x \in Nat /\ n * m \in Nat /\ x < n * m
  OBVIOUS
<1>2a. q \in Nat /\ x % m \in 0 .. m - 1 /\ x = q * m + (x % m)
  BY <1>1, <1>2, Division
<1> HIDE DEF q
<1>3. q * m <= x /\ q * m \in Nat
  BY <1>2, <1>2a
<1>4. ~(n < q)
  <2>1. SUFFICES ASSUME n < q PROVE FALSE
    OBVIOUS
  <2>2. n * m + m <= q * m
    BY <1>2a, <2>1, Multiples
  <2> QED BY <1>2, <1>3, <2>2
<1>5. q # n
  BY <1>2, <1>3
<1> QED BY <1>1, <1>2a, <1>4, <1>5 DEF q

\* A chunk lies inside its image and is no longer than MaxChunk; a shorter one
\* ends where the image ends.
LEMMA ChunkInside ==
    ASSUME NEW n \in Nat, NEW idx \in 0 .. PacketCount(n) - 1
    PROVE  /\ ChunkStart(idx) \in Nat /\ ChunkSize(n, idx) \in 1 .. MaxChunk
           /\ ChunkStart(idx) + ChunkSize(n, idx) <= n
           /\ ChunkSize(n, idx) < MaxChunk =>
                  ChunkStart(idx) + ChunkSize(n, idx) = n
<1>1. MaxChunk \in Nat \ {0} /\ n + MaxChunk - 1 \in Nat
  BY FragmentAssumption
<1> DEFINE cnt == PacketCount(n)
<1>2. /\ cnt \in Nat
      /\ cnt * MaxChunk <= n + MaxChunk - 1
      /\ n + MaxChunk - 1 < cnt * MaxChunk + MaxChunk
  <2> DEFINE x == n + MaxChunk - 1
  <2>1. /\ x \div MaxChunk \in Nat /\ x % MaxChunk \in 0 .. MaxChunk - 1
        /\ x = (x \div MaxChunk) * MaxChunk + (x % MaxChunk)
    BY <1>1, Division
  <2>2. cnt = x \div MaxChunk
    BY DEF PacketCount
  <2> HIDE DEF x, cnt
  <2>3. cnt * MaxChunk \in Nat
    BY <1>1, <2>1, <2>2
  <2>4. \E r \in 0 .. MaxChunk - 1 : x = cnt * MaxChunk + r
    BY <2>1, <2>2
  <2>5. cnt \in Nat /\ cnt * MaxChunk <= x /\ x < cnt * MaxChunk + MaxChunk
    BY <1>1, <2>1, <2>2, <2>3, <2>4
  <2> QED BY <2>5 DEF x
<1> HIDE DEF cnt
<1>3. idx \in Nat /\ idx < cnt
  BY <1>2 DEF cnt
<1>4. idx * MaxChunk \in Nat /\ cnt * MaxChunk \in Nat
  BY <1>1, <1>2, <1>3
<1>5. idx * MaxChunk + MaxChunk <= cnt * MaxChunk
  BY <1>1, <1>2, <1>3, Multiples
<1>6. CASE idx + 1 = cnt
  <2>1. cnt * MaxChunk = idx * MaxChunk + MaxChunk
    BY <1>1, <1>3, <1>6
  <2>2. ChunkSize(n, idx) = n - idx * MaxChunk
    BY <1>6 DEF ChunkSize, IsLast, ChunkStart, cnt
  <2>3. n - idx * MaxChunk \in 1 .. MaxChunk
    BY <1>1, <1>2, <1>4, <2>1
  <2> QED BY <1>1, <1>4, <2>2, <2>3 DEF ChunkStart
<1>7. CASE idx + 1 # cnt
  <2>1. ChunkSize(n, idx) = MaxChunk
    BY <1>7 DEF ChunkSize, IsLast, cnt
  <2>2. (idx + 1) * MaxChunk + MaxChunk <= cnt * MaxChunk
    BY <1>1, <1>2, <1>3, <1>7, Multiples
  <2>3. (idx + 1) * MaxChunk = idx * MaxChunk + MaxChunk
    BY <1>1, <1>3
  <2>4. idx * MaxChunk + MaxChunk <= n
    BY <1>1, <1>2, <1>4, <2>2, <2>3
  <2> QED BY <1>1, <1>4, <2>1, <2>4 DEF ChunkStart
<1> QED BY <1>6, <1>7

-----------------------------------------------------------------------------
(* What bytes, packets, buffers and images can be in a run *)

\* A byte that stands at place j of a chunk has left its screenshot from there;
\* or, more exactly, it is black or byte i of a screenshot.
Kept(b, j) == IsByte(b) => InChunk(b[3]) = j
Exact(b, i) == b = Zero \/ (IsByte(b) /\ b[3] = i)

Sized(n) == \E c \in Clients : n = Size[c]

\* What is cut into packets: a screenshot, or what the server assembled.
Placed(image) ==
    /\ Len(image) = 0 \/ Sized(Len(image))
    /\ \A i \in 1 .. Len(image) : /\ Kept(image[i], InChunk(i))
                                  /\ Regular => Exact(image[i], i)
Images == {image \in Seq(Bytes) : Placed(image)}

\* What is assembled and shown.
Pictures == {image \in Images : Striped(image)}

\* If the packet numbers fit, only a short last chunk is copied past the end of
\* its image.
Inside(p) == ~TooManyPackets(p.total) => CopyEnd(p) <= p.total \/ CopiedPast(p)

\* The body of an image's packet belongs where its number says, and only the
\* end of the image cuts it short.
Numbered(p) ==
    /\ p.number # 0
    /\ \/ MaxChunk <= Len(p.body)
       \/ p.total <= (p.number - 1) * MaxChunk + Len(p.body)
    /\ \A i \in 1 .. Len(p.body) :
           Exact(p.body[i], (p.number - 1) * MaxChunk + i)

Sound(p) ==
    /\ \A i \in 1 .. Len(p.body) : Kept(p.body[i], i - 1)
    /\ p.type = "Image" => /\ Sized(p.total) /\ Inside(p)
                           /\ Regular => Numbered(p)

Bodies == {body \in Seq(Bytes) : Len(body) <= MaxChunk}
Headed == [type : {"Text", "Image"}, total : Nat, number : 0 .. U16 - 1,
           first : BOOLEAN, last : BOOLEAN, body : Bodies]
Sounds == {p \in Headed : Sound(p)}

Buffers == {b \in [1 .. Payload -> Bytes] :
                \A i \in 1 .. Payload : Kept(b[i], i - 1)}

LEMMA Constants ==
    /\ MaxChunk \in Nat \ {0} /\ U16 \in Nat \ {0} /\ U32 \in Nat
    /\ Payload \in 1 .. MaxChunk
    /\ \A c \in Clients : Size[c] \in Nat \ {0} /\ Size[c] <= U32 - MaxChunk
BY FragmentAssumption, RelayAssumption, SizeAssumption DEF Payload

LEMMA DotFacts ==
    /\ Zero \in Bytes /\ <<"text">> \in Bytes
    /\ \A j : Kept(Zero, j) /\ Kept(<<"text">>, j) /\ Exact(Zero, j)
    /\ \A c \in Clients, k \in 1 .. MaxPics : \A i \in 1 .. Size[c] :
           /\ Byte(c, k, i) \in Bytes
           /\ Kept(Byte(c, k, i), InChunk(i)) /\ Exact(Byte(c, k, i), i)
<1>1. Zero \in Bytes /\ <<"text">> \in Bytes
  BY DEF Bytes
<1>2. ~IsByte(Zero) /\ ~IsByte(<<"text">>)
  BY DEF IsByte, Zero
<1>3. ASSUME NEW c \in Clients, NEW k \in 1 .. MaxPics, NEW i \in 1 .. Size[c]
      PROVE  /\ Byte(c, k, i) \in Bytes
             /\ IsByte(Byte(c, k, i)) /\ Byte(c, k, i)[3] = i
  BY DEF Bytes, Byte, IsByte
<1> QED BY <1>1, <1>2, <1>3 DEF Kept, Exact

\* The place of a byte inside its chunk.
LEMMA Place ==
    ASSUME NEW a \in Nat, NEW b \in 1 .. MaxChunk
    PROVE  InChunk(a * MaxChunk + b) = b - 1
<1>1. a * MaxChunk \in Nat
  BY Constants
<1>2. (a * MaxChunk + b) - 1 = a * MaxChunk + (b - 1)
  BY <1>1
<1>3. (a * MaxChunk + (b - 1)) % MaxChunk = b - 1
  BY Constants, Remainder
<1> QED BY <1>2, <1>3 DEF InChunk

LEMMA ScreenshotPlaced ==
    ASSUME NEW c \in Clients, NEW k \in 1 .. MaxPics
    PROVE  Screenshot(c, k) \in Images
<1> DEFINE image == Screenshot(c, k)
<1>1. Size[c] \in Nat \ {0}
  BY Constants
<1>2. \A i \in 1 .. Size[c] : /\ image[i] = Byte(c, k, i) /\ image[i] \in Bytes
                              /\ Kept(image[i], InChunk(i)) /\ Exact(image[i], i)
  BY <1>1, DotFacts DEF Screenshot
<1>3. image \in [1 .. Size[c] -> Bytes]
  BY <1>2 DEF Screenshot
<1>4. image \in Seq(Bytes) /\ Len(image) = Size[c]
  BY <1>1, <1>3
<1> HIDE DEF image
<1> QED BY <1>2, <1>4 DEF Images, Placed, Sized, image

LEMMA NothingPlaced == << >> \in Pictures
BY DEF Pictures, Images, Placed, Striped

-----------------------------------------------------------------------------
(* Sending *)

\* A packet's offset is a multiple of MaxChunk, or beyond every image.
LEMMA Offset ==
    ASSUME NEW pkt \in Headed
    PROVE  /\ ChunkOffset(pkt) \in Nat
           /\ \/ pkt.number = 0 /\ ChunkOffset(pkt) = U32 - MaxChunk
              \/ /\ pkt.number - 1 \in Nat
                 /\ ChunkOffset(pkt) = (pkt.number - 1) * MaxChunk
<1>1. pkt.number \in 0 .. U16 - 1
  BY DEF Headed
<1>2. MaxChunk <= U32 /\ U16 * MaxChunk <= U32
  BY FragmentAssumption, SizeAssumption
<1>3. CASE pkt.number = 0
  BY <1>2, <1>3, Constants DEF ChunkOffset
<1>4. CASE pkt.number # 0
  <2> DEFINE a == pkt.number - 1
  <2>1. a \in Nat /\ a < U16
    BY <1>1, <1>4, Constants
  <2> HIDE DEF a
  <2>2. a * MaxChunk + MaxChunk <= U16 * MaxChunk
    BY <2>1, Constants, Multiples
  <2>3. a * MaxChunk \in Nat /\ U16 * MaxChunk \in Nat
    BY <2>1, Constants
  <2>4. a * MaxChunk \in 0 .. U32 - 1 /\ U32 \in Nat \ {0}
    BY <1>2, <2>2, <2>3, Constants
  <2>5. (0 * U32 + a * MaxChunk) % U32 = a * MaxChunk
    BY <2>4, Remainder
  <2>6. (a * MaxChunk) % U32 = a * MaxChunk
    BY <2>3, <2>4, <2>5
  <2>7. ChunkOffset(pkt) = (a * MaxChunk) % U32
    BY <1>4 DEF ChunkOffset, a
  <2> QED BY <2>1, <2>3, <2>6, <2>7 DEF a
<1> QED BY <1>3, <1>4

\* What the loop of broadCast puts into a packet.
LEMMA PacketFacts ==
    ASSUME NEW image \in Seq(Bytes), NEW idx \in 0 .. PacketCount(Len(image)) - 1
    PROVE  LET p == Packet(image, idx)
               n == Len(image)
           IN  /\ p \in Headed
               /\ p.type = "Image" /\ p.total = n
               /\ p.first <=> idx = 0
               /\ p.last <=> idx + 1 = PacketCount(n)
               /\ p.body \in Seq(Bytes) /\ Len(p.body) = ChunkSize(n, idx)
               /\ \A i \in 1 .. ChunkSize(n, idx) :
                      p.body[i] = image[ChunkStart(idx) + i]
               /\ ~TooManyPackets(n) => /\ p.number = idx + 1
                                         /\ ChunkOffset(p) = ChunkStart(idx)
<1> DEFINE n == Len(image)
           start == ChunkStart(idx)
           size == ChunkSize(n, idx)
           body == SubSeq(image, start + 1, start + size)
           p == Packet(image, idx)
<1>1. n \in Nat
  OBVIOUS
<1>2. start \in Nat /\ size \in 1 .. MaxChunk /\ start + size <= n
  BY <1>1, ChunkInside
<1>3. idx \in Nat /\ start = idx * MaxChunk
  BY <1>1, <1>2 DEF ChunkStart
<1> HIDE DEF n, start, size
<1>4. /\ body \in Seq(Bytes) /\ Len(body) = size
      /\ \A i \in 1 .. size : body[i] = image[start + i]
  BY <1>1, <1>2, Constants DEF n
<1>5. /\ p.type = "Image" /\ p.total = n /\ p.number = (idx + 1) % U16
      /\ p.first = (idx = 0) /\ p.last = (idx + 1 = PacketCount(n))
      /\ p.body = body
  BY DEF p, Packet, Total, Number, IsLast, n, start, size
<1>6. p \in Headed
  <2>1. (idx + 1) % U16 \in 0 .. U16 - 1
    BY <1>3, Constants
  <2>2. body \in Bodies
    BY <1>2, <1>4, Constants DEF Bodies
  <2> QED BY <1>1, <1>5, <2>1, <2>2
          DEF p, Headed, Packet, Total, Number, IsLast, n, start, size
<1> HIDE DEF p, body
<1>7. ASSUME ~TooManyPackets(n)
      PROVE  p.number = idx + 1 /\ ChunkOffset(p) = start
  <2>1. n + MaxChunk - 1 \in Nat
    BY <1>1, Constants
  <2>2. PacketCount(n) \in Nat
    BY <2>1, Constants, Division DEF PacketCount
  <2>3. idx + 1 \in 0 .. U16 - 1
    BY <1>3, <1>7, <2>2, Constants DEF TooManyPackets, n
  <2>4. 0 * U16 + (idx + 1) = idx + 1
    BY <1>3, Constants
  <2>5. p.number = idx + 1
    <3>1. (0 * U16 + (idx + 1)) % U16 = idx + 1
      BY <2>3, Remainder, Constants
    <3> QED BY <1>5, <2>4, <3>1
  <2>6. (p.number - 1) * MaxChunk = start
    BY <1>3, <2>5
  <2> QED BY <1>3, <1>6, <2>5, <2>6, Offset
<1> QED BY <1>4, <1>5, <1>6, <1>7 DEF n, p, start, size

LEMMA PacketSound ==
    ASSUME NEW image \in Images, NEW idx \in 0 .. PacketCount(Len(image)) - 1
    PROVE  Packet(image, idx) \in Sounds
<1> DEFINE n == Len(image)
           start == ChunkStart(idx)
           size == ChunkSize(n, idx)
           p == Packet(image, idx)
<1>1. image \in Seq(Bytes) /\ n \in Nat /\ Placed(image)
  BY DEF Images
<1>2. /\ start \in Nat /\ size \in 1 .. MaxChunk /\ start + size <= n
      /\ size < MaxChunk => start + size = n
  BY <1>1, ChunkInside
<1>3. idx \in Nat /\ start = idx * MaxChunk
  BY <1>1, <1>2 DEF ChunkStart
<1>4. /\ p \in Headed /\ p.total = n
      /\ p.body \in Seq(Bytes) /\ Len(p.body) = size
      /\ \A i \in 1 .. size : p.body[i] = image[start + i]
      /\ ~TooManyPackets(n) => p.number = idx + 1 /\ ChunkOffset(p) = start
  BY <1>1, PacketFacts
<1>5. Sized(n)
  BY <1>1, <1>2 DEF Placed
<1> HIDE DEF n, start, size, p
<1>6. ASSUME NEW i \in 1 .. Len(p.body) PROVE Kept(p.body[i], i - 1)
  <2>1. i \in 1 .. MaxChunk /\ start + i \in 1 .. n /\ p.body[i] = image[start + i]
    BY <1>1, <1>2, <1>4, Constants
  <2>2. Kept(image[start + i], InChunk(start + i))
    BY <1>1, <2>1 DEF Placed, n
  <2>3. InChunk(start + i) = i - 1
    BY <1>3, <2>1, Place
  <2> QED BY <2>1, <2>2, <2>3
<1>7. ASSUME Regular PROVE Numbered(p)
  <2>1. ~TooManyPackets(n)
    BY <1>5, <1>7 DEF Sized, Regular
  <2>2. p.number = idx + 1
    BY <1>4, <2>1
  <2>2a. (p.number - 1) * MaxChunk = start
    BY <1>3, <2>2
  <2>3. ASSUME NEW i \in 1 .. Len(p.body) PROVE Exact(p.body[i], start + i)
    <3>1. start + i \in 1 .. n /\ p.body[i] = image[start + i]
      BY <1>1, <1>2, <1>4, Constants
    <3> QED BY <1>1, <1>7, <3>1 DEF Placed, n
  <2>4. MaxChunk <= Len(p.body) \/ p.total <= start + Len(p.body)
    BY <1>1, <1>2, <1>4, Constants
  <2> QED BY <1>3, <2>2, <2>2a, <2>3, <2>4 DEF Numbered
<1>8. Inside(p)
  <2>1. SUFFICES ASSUME ~TooManyPackets(n)
                 PROVE  CopyEnd(p) <= n \/ CopiedPast(p)
    BY <1>4 DEF Inside
  <2>2. CopyEnd(p) = start + Payload
    BY <1>4, <2>1 DEF CopyEnd
  <2>3. CASE Payload <= size
    BY <1>1, <1>2, <2>2, <2>3, Constants
  <2>4. CASE ~(Payload <= size)
    <3>1. size < Payload /\ start + size = n
      BY <1>2, <2>4, Constants
    <3>2. IsLast(n, idx)
      BY <3>1, Constants DEF ChunkSize, size
    <3>3. PacketCount(n) - 1 = idx
      <4>1. n + MaxChunk - 1 \in Nat
        BY <1>1, Constants
      <4>2. PacketCount(n) \in Nat
        BY <4>1, Constants, Division DEF PacketCount
      <4> QED BY <1>3, <3>2, <4>2 DEF IsLast
    <3>4. ShortTail(n)
      BY <1>1, <1>2, <3>1, <3>3 DEF ShortTail, size
    <3>5. p.last
      BY <1>1, <3>2, PacketFacts DEF IsLast, p, n
    <3>6. n < start + Payload /\ start + Payload < n + Payload
      BY <1>1, <1>2, <3>1, Constants
    <3> QED BY <1>4, <2>2, <3>4, <3>5, <3>6 DEF CopiedPast
  <2> QED BY <2>3, <2>4
<1>9. Sound(p)
  BY <1>4, <1>5, <1>6, <1>7, <1>8 DEF Sound
<1> QED BY <1>4, <1>9 DEF Sounds, p

LEMMA PacketsSound ==
    ASSUME NEW image \in Images
    PROVE  Packets(image) \in Seq(Sounds)
<1> DEFINE cnt == PacketCount(Len(image))
<1>1. cnt \in Nat
  BY Constants DEF Images, PacketCount
<1>2. \A j \in 1 .. cnt : Packet(image, j - 1) \in Sounds
  BY <1>1, PacketSound
<1> HIDE DEF cnt
<1>3. Packets(image) \in [1 .. cnt -> Sounds]
  BY <1>2 DEF Packets, cnt
<1> QED BY <1>1, <1>3

LEMMA TextSound == <<TextPacket(TestMessage)>> \in Seq(Sounds)
<1> DEFINE p == TextPacket(TestMessage)
<1>1. TextSize \in Nat
  BY RelayAssumption
<1>2. TestMessage \in [1 .. TextSize -> Bytes]
  BY DotFacts DEF TestMessage
<1>3. TestMessage \in Seq(Bytes) /\ Len(TestMessage) = TextSize
  BY <1>1, <1>2
<1>4. \A i \in 1 .. Len(TestMessage) : Kept(TestMessage[i], i - 1)
  BY <1>3, DotFacts DEF TestMessage
<1>5. Number(0) \in 0 .. U16 - 1
  BY Constants DEF Number
<1>6. p \in Headed
  BY <1>3, <1>5, SizeAssumption DEF p, TextPacket, Headed, Bodies
<1>7. Sound(p)
  BY <1>4 DEF p, TextPacket, Sound
<1>8. p \in Sounds
  BY <1>6, <1>7 DEF Sounds
<1> QED BY <1>8

LEMMA Aimed ==
    ASSUME NEW target \in Nodes, NEW packets \in Seq(Sounds)
    PROVE  To(target, packets) \in Seq(Nodes \X Sounds)
<1>1. DOMAIN packets = 1 .. Len(packets) /\ Len(packets) \in Nat
  OBVIOUS
<1>2. To(target, packets) \in [1 .. Len(packets) -> Nodes \X Sounds]
  BY <1>1 DEF To
<1> QED BY <1>1, <1>2

LEMMA BroadCastSound ==
    ASSUME NEW packets \in Seq(Sounds), NEW order \in SetToSeqs(Clients)
    PROVE  BroadCast(packets, order) \in Seq(Nodes \X Sounds)
<1> DEFINE m == Len(packets)
           n == Len(order)
<1>1. Cardinality(Clients) \in Nat
  BY RelayAssumption, FS_CardinalityType
<1>2. order \in [1 .. Cardinality(Clients) -> Clients]
  BY DEF SetToSeqs
<1>3. n \in Nat /\ order \in [1 .. n -> Clients]
  BY <1>1, <1>2
<1>4. m \in Nat /\ packets \in [1 .. m -> Sounds]
  OBVIOUS
<1> HIDE DEF m, n
<1>5. n * m \in Nat
  BY <1>3, <1>4
<1>6. ASSUME NEW j \in 1 .. n * m
      PROVE  <<order[((j - 1) \div m) + 1], packets[((j - 1) % m) + 1]>>
                 \in Nodes \X Sounds
  <2>1. j - 1 \in 0 .. n * m - 1
    BY <1>5
  <2>2. m # 0 /\ (j - 1) \div m \in 0 .. n - 1 /\ (j - 1) % m \in 0 .. m - 1
    BY <1>3, <1>4, <2>1, Quotient
  <2>3. ((j - 1) \div m) + 1 \in 1 .. n /\ ((j - 1) % m) + 1 \in 1 .. m
    BY <1>3, <1>4, <2>2
  <2>4. /\ order[((j - 1) \div m) + 1] \in Clients
        /\ packets[((j - 1) % m) + 1] \in Sounds
    BY <1>3, <1>4, <2>3
  <2> QED BY <2>4 DEF Nodes
<1>7. BroadCast(packets, order) \in [1 .. n * m -> Nodes \X Sounds]
  BY <1>6 DEF BroadCast, m, n
<1> QED BY <1>5, <1>7

-----------------------------------------------------------------------------
(* Receiving *)

LEMMA OverlaySound ==
    ASSUME NEW old \in Buffers, NEW pkt \in Sounds
    PROVE  /\ Overlay(old, pkt.body) \in Buffers
           /\ \A i \in 1 .. Payload : i <= Len(pkt.body) =>
                  Overlay(old, pkt.body)[i] = pkt.body[i]
<1> DEFINE new == Overlay(old, pkt.body)
<1>1. pkt.body \in Seq(Bytes) /\ Sound(pkt)
  BY DEF Sounds, Headed, Bodies
<1>2. \A i \in 1 .. Payload :
          new[i] = IF i <= Len(pkt.body) THEN pkt.body[i] ELSE old[i]
  BY DEF Overlay
<1>3. \A i \in 1 .. Payload : i <= Len(pkt.body) => i \in 1 .. Len(pkt.body)
  BY <1>1, Constants
<1>4. ASSUME NEW i \in 1 .. Payload PROVE new[i] \in Bytes /\ Kept(new[i], i - 1)
  BY <1>1, <1>2, <1>3 DEF Buffers, Sound
<1>5. new \in [1 .. Payload -> Bytes]
  BY <1>4 DEF Overlay
<1> QED BY <1>2, <1>4, <1>5 DEF Buffers

LEMMA BegunPlaced ==
    ASSUME NEW assembled \in Pictures, NEW pkt \in Sounds, pkt.type = "Image"
    PROVE  Begun(assembled, pkt) \in Pictures
<1> DEFINE black == [i \in 1 .. pkt.total |-> Zero]
<1>1. pkt.total \in Nat /\ Sized(pkt.total)
  BY DEF Sounds, Headed, Bodies, Sound
<1>2. black \in [1 .. pkt.total -> Bytes]
  BY DotFacts
<1>3. black \in Seq(Bytes) /\ Len(black) = pkt.total
  BY <1>1, <1>2
<1>4. \A i \in 1 .. Len(black) : black[i] = Zero
  BY <1>3
<1> HIDE DEF black
<1>5. Placed(black)
  BY <1>1, <1>3, <1>4, DotFacts DEF Placed
<1>6. Striped(black)
  BY <1>3, <1>4 DEF Striped
<1>7. black \in Pictures
  BY <1>3, <1>5, <1>6 DEF Pictures, Images
<1> QED BY <1>7 DEF Begun, black

\* Of two displays in a regular set none is larger.
LEMMA SameSize ==
    ASSUME Regular, NEW m, NEW n, Sized(m), Sized(n)
    PROVE  m = n
BY DEF Regular, Sized

LEMMA CopiedPlaced ==
    ASSUME NEW begun \in Pictures, NEW pkt \in Sounds, pkt.type = "Image",
           NEW old \in Buffers
    PROVE  Copied(begun, pkt, Overlay(old, pkt.body)) \in Pictures
<1> DEFINE buf == Overlay(old, pkt.body)
           image == Copied(begun, pkt, buf)
           off == ChunkOffset(pkt)
           len == Len(begun)
<1>1. /\ begun \in Seq(Bytes) /\ len \in Nat /\ Placed(begun) /\ Striped(begun)
      /\ DOMAIN begun = 1 .. len
  BY DEF Pictures, Images
<1>2. /\ buf \in [1 .. Payload -> Bytes]
      /\ \A i \in 1 .. Payload : Kept(buf[i], i - 1)
      /\ \A i \in 1 .. Payload : i <= Len(pkt.body) => buf[i] = pkt.body[i]
  BY OverlaySound DEF Buffers
<1>3. off \in Nat /\ pkt \in Headed
  BY Offset DEF Sounds
<1>4. \A i \in 1 .. len :
          image[i] = IF i > off /\ i <= off + Payload THEN buf[i - off] ELSE begun[i]
  BY DEF Copied, CopyEnd
<1>5. len <= U32 - MaxChunk
  BY <1>1, Constants, FragmentAssumption DEF Placed, Sized
<1> HIDE DEF buf, off, len
<1>6. ASSUME NEW i \in 1 .. len, i > off, i <= off + Payload
      PROVE  /\ image[i] \in Bytes /\ Kept(image[i], InChunk(i))
             /\ InChunk(i) < Payload /\ (Regular => Exact(image[i], i))
  <2> DEFINE j == i - off
  <2>1. j \in 1 .. Payload /\ j \in 1 .. MaxChunk /\ i = off + j
    BY <1>3, <1>6, Constants
  <2>2. image[i] = buf[j]
    BY <1>4, <1>6
  <2> HIDE DEF j
  <2>3. pkt.number # 0 /\ pkt.number - 1 \in Nat /\ off = (pkt.number - 1) * MaxChunk
    BY <1>3, <1>5, <1>6, Offset, Constants DEF off, len
  <2>4. InChunk(i) = j - 1
    BY <2>1, <2>3, Place
  <2>5. ASSUME Regular PROVE Exact(image[i], i)
    <3>1. Numbered(pkt) /\ Sized(pkt.total) /\ Len(pkt.body) \in Nat
      BY <2>5 DEF Sounds, Sound, Headed, Bodies
    <3>2. len = pkt.total
      BY <1>1, <2>5, <3>1, SameSize DEF Placed, len
    <3>3. j <= Len(pkt.body)
      <4>1. MaxChunk <= Len(pkt.body) \/ pkt.total <= off + Len(pkt.body)
        BY <2>3, <3>1 DEF Numbered
      <4>2. off + j <= pkt.total /\ pkt.total \in Nat
        BY <1>1, <2>1, <3>2 DEF len
      <4> QED BY <1>3, <2>1, <3>1, <4>1, <4>2, Constants
    <3>4. buf[j] = pkt.body[j] /\ j \in 1 .. Len(pkt.body)
      BY <1>2, <2>1, <3>1, <3>3, Constants
    <3> QED BY <2>1, <2>2, <2>3, <3>1, <3>4 DEF Numbered
  <2> QED BY <1>2, <2>1, <2>2, <2>4, <2>5, Constants
<1>7. ASSUME NEW i \in 1 .. len, ~(i > off /\ i <= off + Payload)
      PROVE  image[i] = begun[i] /\ begun[i] \in Bytes
  BY <1>1, <1>4, <1>7
<1>8. image \in [1 .. len -> Bytes]
  BY <1>6, <1>7 DEF Copied, len
<1>9. image \in Seq(Bytes) /\ Len(image) = len /\ DOMAIN image = 1 .. len
  BY <1>1, <1>8
<1> HIDE DEF image
<1>10. Placed(image)
  BY <1>1, <1>6, <1>7, <1>9 DEF Placed, len
<1>11. Striped(image)
  <2>1. SUFFICES ASSUME NEW i \in 1 .. len, Header + InChunk(i) >= BufSize
                 PROVE  image[i] = Zero
    BY <1>9 DEF Striped
  <2>2. InChunk(i) \in Nat
    BY <1>1, Constants, Division DEF InChunk
  <2>3. ~(InChunk(i) < Payload)
    BY <2>1, <2>2, FragmentAssumption DEF Payload
  <2>4. image[i] = begun[i]
    BY <1>6, <1>7, <2>3
  <2> QED BY <1>1, <2>1, <2>4 DEF Striped
<1> QED BY <1>9, <1>10, <1>11 DEF Pictures, Images, image, buf

-----------------------------------------------------------------------------
(* The inductive invariant: every packet on its way is sound, every receive  *)
(* buffer keeps its bytes at their places, every image is a picture.         *)

Relayed ==
    /\ outbox \in [Nodes -> Seq(Nodes \X Sounds)]
    /\ net \in [Nodes -> Seq(Sounds)]
    /\ buffer \in [Nodes -> Buffers]
    /\ assembly \in [Nodes -> Pictures]
    /\ screen \in [Clients -> Pictures]
    /\ pics \in [Clients -> 0 .. MaxPics]

LEMMA InitRelayed == Init => Relayed
<1> SUFFICES ASSUME Init PROVE Relayed
  OBVIOUS
<1>1. [i \in 1 .. Payload |-> Zero] \in Buffers
  BY DotFacts DEF Buffers
<1>2. outbox \in [Nodes -> Seq(Nodes \X Sounds)] /\ net \in [Nodes -> Seq(Sounds)]
  BY DEF Init
<1>3. buffer \in [Nodes -> Buffers]
  BY <1>1 DEF Init
<1>4. assembly \in [Nodes -> Pictures] /\ screen \in [Clients -> Pictures]
  BY NothingPlaced DEF Init
<1>5. pics \in [Clients -> 0 .. MaxPics]
  BY RelayAssumption DEF Init
<1> QED BY <1>2, <1>3, <1>4, <1>5 DEF Relayed

LEMMA SlotSendRelayed ==
    ASSUME Relayed, NEW c \in Clients, SlotSend(c)
    PROVE  Relayed'
<1>1. PICK image \in {<< >>, Screenshot(c, pics[c] + 1)} :
          outbox' = [outbox EXCEPT ![c] =
                        To(Server, <<TextPacket(TestMessage)>> \o Packets(image))]
  BY DEF SlotSend
<1>2. pics[c] + 1 \in 1 .. MaxPics
  BY RelayAssumption DEF Relayed, SlotSend
<1>3. image \in Images
  BY <1>1, <1>2, ScreenshotPlaced, NothingPlaced DEF Pictures
<1>4. <<TextPacket(TestMessage)>> \o Packets(image) \in Seq(Sounds)
  BY <1>3, PacketsSound, TextSound
<1>5. Server \in Nodes
  BY DEF Nodes
<1>6. outbox' \in [Nodes -> Seq(Nodes \X Sounds)]
  BY <1>1, <1>4, <1>5, Aimed DEF Relayed
<1>7. pics' \in [Clients -> 0 .. MaxPics]
  BY <1>2 DEF Relayed, SlotSend
<1> QED BY <1>6, <1>7 DEF Relayed, SlotSend

LEMMA TickRelayed ==
    ASSUME Relayed, Tick
    PROVE  Relayed'
<1>1. PICK order \in SetToSeqs(Clients) :
          outbox' = [outbox EXCEPT ![Server] =
                        BroadCast(<<TextPacket(TestMessage)>>, order)]
  BY DEF Tick
<1>2. outbox' \in [Nodes -> Seq(Nodes \X Sounds)]
  BY <1>1, TextSound, BroadCastSound DEF Relayed
<1> QED BY <1>2 DEF Relayed, Tick

LEMMA SendRelayed ==
    ASSUME Relayed, NEW r \in Nodes, Send(r)
    PROVE  Relayed'
<1>1. outbox[r] \in Seq(Nodes \X Sounds) /\ outbox[r] # << >>
  BY DEF Relayed, Send
<1>2. Head(outbox[r]) \in Nodes \X Sounds /\ Tail(outbox[r]) \in Seq(Nodes \X Sounds)
  BY <1>1
<1>3. PICK to \in Nodes, pkt \in Sounds : Head(outbox[r]) = <<to, pkt>>
  BY <1>2
<1>4. net' = [net EXCEPT ![to] = Append(@, pkt)] \/ net' = net
  <2>1. Head(outbox[r])[1] = to /\ Head(outbox[r])[2] = pkt
    BY <1>3
  <2>2. \/ net' = [net EXCEPT ![Head(outbox[r])[1]] = Append(@, Head(outbox[r])[2])]
        \/ net' = net
    BY Zenon DEF Send
  <2> QED BY <2>1, <2>2
<1>5. Append(net[to], pkt) \in Seq(Sounds)
  BY DEF Relayed
<1>6. net' \in [Nodes -> Seq(Sounds)]
  BY <1>4, <1>5 DEF Relayed
<1>7. outbox' \in [Nodes -> Seq(Nodes \X Sounds)]
  BY <1>2 DEF Relayed, Send
<1> QED BY <1>6, <1>7 DEF Relayed, Send

\* What the two receive handlers have in common.
LEMMA Received ==
    ASSUME Relayed, NEW r \in Nodes, net[r] # << >>,
           net' = [net EXCEPT ![r] = Tail(@)],
           buffer' = [buffer EXCEPT ![r] = Overlay(@, Head(net[r]).body)]
    PROVE  /\ Head(net[r]) \in Sounds /\ buffer[r] \in Buffers
           /\ buffer'[r] = Overlay(buffer[r], Head(net[r]).body)
           /\ net' \in [Nodes -> Seq(Sounds)] /\ buffer' \in [Nodes -> Buffers]
<1>1. net[r] \in Seq(Sounds) /\ buffer \in [Nodes -> Buffers] /\ buffer[r] \in Buffers
  BY DEF Relayed
<1>2. Head(net[r]) \in Sounds /\ Tail(net[r]) \in Seq(Sounds)
  BY <1>1
<1>3. Overlay(buffer[r], Head(net[r]).body) \in Buffers
  BY <1>1, <1>2, OverlaySound
<1>4. net' \in [Nodes -> Seq(Sounds)]
  BY <1>2 DEF Relayed
<1> QED BY <1>1, <1>2, <1>3, <1>4

LEMMA ReceiveTextRelayed ==
    ASSUME Relayed, NEW r \in Nodes, ReceiveText(r)
    PROVE  Relayed'
<1>1. net' \in [Nodes -> Seq(Sounds)] /\ buffer' \in [Nodes -> Buffers]
  BY Received DEF ReceiveText
<1> QED BY <1>1 DEF Relayed, ReceiveText

LEMMA ReceiveImageRelayed ==
    ASSUME Relayed, NEW r \in Nodes, ReceiveImage(r)
    PROVE  Relayed'
<1> DEFINE pkt == Head(net[r])
           begun == Begun(assembly[r], pkt)
           image == Copied(begun, pkt, buffer'[r])
<1>1. /\ pkt \in Sounds /\ buffer[r] \in Buffers
      /\ buffer'[r] = Overlay(buffer[r], pkt.body)
      /\ net' \in [Nodes -> Seq(Sounds)] /\ buffer' \in [Nodes -> Buffers]
  BY Received DEF ReceiveImage
<1>2. pkt.type = "Image" /\ assembly[r] \in Pictures
  BY DEF ReceiveImage, Relayed
<1>3. begun \in Pictures
  BY <1>1, <1>2, BegunPlaced
<1> HIDE DEF begun
<1>4. image \in Pictures
  BY <1>1, <1>2, <1>3, CopiedPlaced
<1>5. /\ \/ assembly' = [assembly EXCEPT ![r] = << >>]
         \/ assembly' = [assembly EXCEPT ![r] = image]
      /\ \/ outbox' = outbox
         \/ /\ r = Server
            /\ \E order \in SetToSeqs(Clients) :
                   outbox' = [outbox EXCEPT ![r] = BroadCast(Packets(image), order)]
      /\ screen' = screen \/ screen' = [screen EXCEPT ![r] = image]
      /\ pics' = pics
  BY DEF ReceiveImage, Cleared, begun
<1> HIDE DEF image
<1>6. assembly' \in [Nodes -> Pictures]
  BY <1>4, <1>5, NothingPlaced DEF Relayed
<1>7. screen' \in [Clients -> Pictures]
  BY <1>4, <1>5 DEF Relayed
<1>8. Packets(image) \in Seq(Sounds)
  BY <1>4, PacketsSound DEF Pictures
<1>9. outbox' \in [Nodes -> Seq(Nodes \X Sounds)]
  <2>1. CASE outbox' = outbox
    BY <2>1 DEF Relayed
  <2>2. ASSUME NEW order \in SetToSeqs(Clients),
               outbox' = [outbox EXCEPT ![r] = BroadCast(Packets(image), order)]
        PROVE  outbox' \in [Nodes -> Seq(Nodes \X Sounds)]
    <3>1. BroadCast(Packets(image), order) \in Seq(Nodes \X Sounds)
      BY <1>8, BroadCastSound
    <3> QED BY <2>2, <3>1 DEF Relayed
  <2> QED BY <1>5, <2>1, <2>2
<1> QED BY <1>1, <1>5, <1>6, <1>7, <1>9 DEF Relayed

\* Every packet under way, every receive buffer and every image keeps its bytes
\* where they belong (AsioUdpServer.cpp:84-115, 122-180; connection.cpp:92-118,
\* 295-350).
THEOREM RelayKeepsOrder == Spec => []Relayed
<1>1. Relayed /\ [Next]_vars => Relayed'
  <2> SUFFICES ASSUME Relayed, [Next]_vars PROVE Relayed'
    OBVIOUS
  <2>1. CASE \E c \in Clients : SlotSend(c)
    BY <2>1, SlotSendRelayed
  <2>2. CASE Tick
    BY <2>2, TickRelayed
  <2>3. CASE \E r \in Nodes : Send(r)
    BY <2>3, SendRelayed
  <2>4. CASE \E r \in Nodes : ReceiveText(r)
    BY <2>4, ReceiveTextRelayed
  <2>5. CASE \E r \in Nodes : ReceiveImage(r)
    BY <2>5, ReceiveImageRelayed
  <2>6. CASE UNCHANGED vars
    BY <2>6 DEF vars, Relayed
  <2> QED BY <2>1, <2>2, <2>3, <2>4, <2>5, <2>6 DEF Next
<1> QED BY InitRelayed, <1>1, PTL DEF Spec

-----------------------------------------------------------------------------
(* The types of what is left *)

Counted ==
    /\ \A r \in Nodes : Len(net[r]) <= SocketSize
    /\ capacity \in [Nodes -> Nat]
    /\ \A r \in Nodes : Len(assembly[r]) <= capacity[r]
    /\ alive \subseteq Nodes
    /\ ticks \in 0 .. MaxTicks
    /\ lost \subseteq Nodes /\ headless \subseteq lost
    /\ mixed \in BOOLEAN

LEMMA InitCounted == Init => Counted
<1> SUFFICES ASSUME Init PROVE Counted
  OBVIOUS
<1>1. \A r \in Nodes : net[r] = << >> /\ assembly[r] = << >> /\ capacity[r] = 0
  BY DEF Init
<1>2. /\ \A r \in Nodes : Len(net[r]) <= SocketSize
      /\ \A r \in Nodes : Len(assembly[r]) <= capacity[r]
  BY <1>1, RelayAssumption
<1>3. /\ capacity \in [Nodes -> Nat] /\ alive \subseteq Nodes
      /\ lost \subseteq Nodes /\ headless \subseteq lost
  BY DEF Init
<1>4. ticks \in 0 .. MaxTicks
  BY RelayAssumption DEF Init
<1>5. mixed \in BOOLEAN
  BY DEF Init
<1> QED BY <1>2, <1>3, <1>4, <1>5 DEF Counted

LEMMA SendCounted ==
    ASSUME Relayed, Counted, NEW r \in Nodes, Send(r)
    PROVE  Counted'
<1> DEFINE to == Head(outbox[r])[1]
           pkt == Head(outbox[r])[2]
<1>1. outbox[r] \in Seq(Nodes \X Sounds) /\ outbox[r] # << >>
  BY DEF Relayed, Send
<1>2. to \in Nodes /\ pkt \in Sounds
  BY <1>1
<1>3. \/ /\ net' = [net EXCEPT ![to] = Append(@, pkt)]
         /\ Len(net[to]) < SocketSize
      \/ net' = net
  BY DEF Send
<1>4. /\ \/ lost' = lost /\ headless' = headless
         \/ lost' = lost \cup {to} /\ headless' \in {headless, headless \cup {to}}
      /\ mixed' \in BOOLEAN
  BY DEF Send
<1> HIDE DEF to, pkt
<1>5. ASSUME NEW n \in Nodes PROVE Len(net'[n]) <= SocketSize
  <2>1. net[n] \in Seq(Sounds) /\ net \in [Nodes -> Seq(Sounds)]
    BY DEF Relayed
  <2>2. PICK k \in Nat : k = Len(net[n])
    BY <2>1
  <2>3. Len(Append(net[n], pkt)) = k + 1
    BY <1>2, <2>1, <2>2
  <2>4. k <= SocketSize /\ SocketSize \in Nat
    BY <2>2, RelayAssumption DEF Counted
  <2>5. CASE net' = net
    BY <2>5 DEF Counted
  <2>6. CASE net' = [net EXCEPT ![to] = Append(@, pkt)] /\ Len(net[to]) < SocketSize
    <3>1. CASE n = to
      <4>1. net'[n] = Append(net[n], pkt) /\ k < SocketSize
        BY <2>1, <2>2, <2>6, <3>1
      <4> QED BY <2>3, <2>4, <4>1
    <3>2. CASE n # to
      <4>1. net'[n] = net[n]
        BY <1>2, <2>1, <2>6, <3>2
      <4> QED BY <2>2, <2>4, <4>1
    <3> QED BY <3>1, <3>2
  <2> QED BY <1>3, <2>5, <2>6
<1>6. lost' \subseteq Nodes /\ headless' \subseteq lost'
  BY <1>2, <1>4 DEF Counted
<1> QED BY <1>4, <1>5, <1>6 DEF Counted, Send

LEMMA ReceiveCounted ==
    ASSUME Relayed, Counted, NEW r \in Nodes, Receive(r)
    PROVE  Counted'
<1>1. net[r] # << >> /\ net' = [net EXCEPT ![r] = Tail(@)]
  BY DEF Receive, ReceiveText, ReceiveImage
<1>2. ASSUME NEW n \in Nodes PROVE Len(net'[n]) <= SocketSize
  <2>1. net[n] \in Seq(Sounds) /\ net \in [Nodes -> Seq(Sounds)]
    BY DEF Relayed
  <2>2. PICK k \in Nat : k = Len(net[n])
    BY <2>1
  <2>3. net[n] # << >> => Len(Tail(net[n])) = k - 1
    BY <2>1, <2>2
  <2> QED BY <1>1, <2>1, <2>2, <2>3, RelayAssumption DEF Counted
<1>3. CASE ReceiveText(r)
  BY <1>2, <1>3 DEF Counted, ReceiveText
<1>4. CASE ReceiveImage(r)
  <2> DEFINE pkt == Head(net[r])
             begun == Begun(assembly[r], pkt)
             cap == IF Len(begun) > capacity[r] THEN Len(begun) ELSE capacity[r]
             image == Copied(begun, pkt, buffer'[r])
  <2>1. pkt \in Sounds /\ pkt.type = "Image" /\ assembly[r] \in Pictures
    <3>1. net[r] \in Seq(Sounds)
      BY DEF Relayed
    <3> QED BY <1>1, <1>4, <3>1 DEF ReceiveImage, Relayed
  <2>2. Len(begun) \in Nat
    BY <2>1, BegunPlaced DEF Pictures, Images
  <2>3. Len(image) = Len(begun)
    BY <2>2 DEF Copied
  <2>4. /\ capacity' = [capacity EXCEPT ![r] = cap]
        /\ \/ assembly' = [assembly EXCEPT ![r] = << >>]
           \/ assembly' = [assembly EXCEPT ![r] = image]
        /\ alive' \subseteq alive
        /\ UNCHANGED <<ticks, lost, headless, mixed>>
    BY <1>4 DEF ReceiveImage, Cleared
  <2> HIDE DEF begun, image
  <2>5. cap \in Nat /\ Len(begun) <= cap /\ capacity[r] <= cap
    BY <2>2 DEF Counted
  <2> HIDE DEF cap
  <2>6. capacity' \in [Nodes -> Nat]
    BY <2>4, <2>5 DEF Counted
  <2>7. ASSUME NEW n \in Nodes PROVE Len(assembly'[n]) <= capacity'[n]
    BY <2>3, <2>4, <2>5, <2>7 DEF Counted, Relayed
  <2> QED BY <1>2, <2>4, <2>6, <2>7 DEF Counted
<1> QED BY <1>3, <1>4 DEF Receive

\* Nothing outgrows its socket or what is allocated for it.
THEOREM RelayKeepsBounds == Spec => [](Relayed /\ Counted)
<1>1. Relayed /\ Counted /\ [Next]_vars => Counted'
  <2> SUFFICES ASSUME Relayed, Counted, [Next]_vars PROVE Counted'
    OBVIOUS
  <2>1. CASE \E c \in Clients : SlotSend(c)
    BY <2>1 DEF SlotSend, Counted
  <2>2. CASE Tick
    BY <2>2, RelayAssumption DEF Tick, Counted
  <2>3. CASE \E r \in Nodes : Send(r)
    BY <2>3, SendCounted
  <2>4. CASE \E r \in Nodes : ReceiveText(r) \/ ReceiveImage(r)
    BY <2>4, ReceiveCounted DEF Receive
  <2>5. CASE UNCHANGED vars
    BY <2>5 DEF vars, Counted
  <2> QED BY <2>1, <2>2, <2>3, <2>4, <2>5 DEF Next
<1> QED BY InitCounted, <1>1, RelayKeepsOrder, PTL DEF Spec

LEMMA SoundOK ==
    ASSUME NEW p \in Sounds
    PROVE  PacketOK(p)
<1>1. p \in Headed /\ p.body \in Seq(Bytes) /\ Len(p.body) <= MaxChunk
  BY DEF Sounds, Headed, Bodies
<1>2. DOMAIN p = {"type", "total", "number", "first", "last", "body"}
  BY <1>1 DEF Headed
<1> QED BY <1>1, <1>2 DEF Headed, PacketOK

\* Every variable keeps its type: no socket holds more than it can, packets and
\* images consist of the bytes of screenshots that were taken, and what is
\* assembled is allocated (AsioUdpServer.cpp:122-180, connection.cpp:295-350).
THEOREM RelayTypeOK == Spec => []TypeOK
<1>1. ASSUME Relayed, Counted PROVE TypeOK
  <2>1. ASSUME NEW r \in Nodes
        PROVE  /\ \A j \in DOMAIN outbox[r] :
                      outbox[r][j][1] \in Nodes /\ PacketOK(outbox[r][j][2])
               /\ \A j \in DOMAIN net[r] : PacketOK(net[r][j])
    <3>1. outbox[r] \in Seq(Nodes \X Sounds) /\ net[r] \in Seq(Sounds)
      BY <1>1 DEF Relayed
    <3>2. \A j \in DOMAIN outbox[r] : outbox[r][j] \in Nodes \X Sounds
      BY <3>1
    <3>3. \A j \in DOMAIN net[r] : net[r][j] \in Sounds
      BY <3>1
    <3> QED BY <3>2, <3>3, SoundOK
  <2>2. \A image \in Pictures : image \in [1 .. Len(image) -> Bytes]
    BY DEF Pictures, Images
  <2>3. /\ \A r \in Nodes : assembly[r] \in [1 .. Len(assembly[r]) -> Bytes]
        /\ \A c \in Clients : screen[c] \in [1 .. Len(screen[c]) -> Bytes]
    BY <1>1, <2>2 DEF Relayed
  <2>4. buffer \in [Nodes -> [1 .. Payload -> Bytes]]
    BY <1>1 DEF Relayed, Buffers
  <2> QED BY <1>1, <2>1, <2>3, <2>4 DEF Relayed, Counted, TypeOK
<1> QED BY <1>1, RelayKeepsBounds, PTL

-----------------------------------------------------------------------------
(* What the invariants say *)

\* What pictures have in common is what the invariants say of them.
LEMMA PictureFacts ==
    ASSUME NEW image \in Pictures
    PROVE  /\ InPlace(image) /\ Striped(image)
           /\ Len(image) \in {0} \cup {Size[d] : d \in Clients}
<1>1. /\ image \in Seq(Bytes) /\ DOMAIN image = 1 .. Len(image)
      /\ Placed(image) /\ Striped(image)
  BY DEF Pictures, Images
<1>2. InPlace(image)
  BY <1>1 DEF InPlace, Placed, Kept, Exact
<1>3. Len(image) \in {0} \cup {Size[d] : d \in Clients}
  BY <1>1 DEF Placed, Sized
<1> QED BY <1>1, <1>2, <1>3

\* BytesStayInPlace for every number of clients, every size of a display and of
\* a packet.
THEOREM BytesKeepPlaces == Spec => []BytesStayInPlace
<1>1. Relayed => BytesStayInPlace
  BY PictureFacts DEF Relayed, BytesStayInPlace
<1> QED BY <1>1, RelayKeepsOrder, PTL

\* StripesAreBlack, likewise.
THEOREM StripesStayBlack == Spec => []StripesAreBlack
<1>1. Relayed => StripesAreBlack
  BY PictureFacts DEF Relayed, StripesAreBlack
<1> QED BY <1>1, RelayKeepsOrder, PTL

\* WholePictures, likewise.
THEOREM PicturesAreWhole == Spec => []WholePictures
<1>1. Relayed => WholePictures
  BY PictureFacts DEF Relayed, WholePictures
<1> QED BY <1>1, RelayKeepsOrder, PTL
=============================================================================
