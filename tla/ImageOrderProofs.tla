-------------------------- MODULE ImageOrderProofs --------------------------
(***************************************************************************)
(* Theorems about ImageRelay that rest on the order in which an image's    *)
(* packets arrive: what a screenshot sent alone looks like at its end,     *)
(* what a process can die of, and in which order displays show the         *)
(* screenshots of one user.  For any number of clients, displays,          *)
(* screenshots and texts, and sockets of any size.                         *)
(***************************************************************************)
EXTENDS ImageRelayProofs

-----------------------------------------------------------------------------
(* The order of packets *)

\* The images whose packets come to r, as they were cut.
Whole(r, c, k) == IF r = Server THEN Screenshot(c, k) ELSE Arrived(c, k)
Wholes(r) == UNION {{Whole(r, c, k) : k \in 1 .. pics[c]} : c \in Clients}

\* The first m packets of an image, assembled.
Part(image, m) ==
    [i \in 1 .. Len(image) |->
        IF i <= m * MaxChunk /\ Header + InChunk(i) < BufSize
        THEN image[i] ELSE Zero]

Later(image) == 1 .. PacketCount(Len(image)) - 1

\* Packet p begins an image, q continues what p was part of, or an assembly
\* buffer is ready for q.  If exact, the image is one of W, unless there are
\* too many packets to number.
Starts(exact, W, p) ==
    /\ p.first
    /\ exact /\ ~TooManyPackets(p.total)
           => \E image \in W : Len(image) # 0 /\ p = Packet(image, 0)

Continues(exact, W, p, q) ==
    /\ p.type = "Image" /\ ~p.last /\ p.total = q.total
    /\ exact /\ ~TooManyPackets(q.total)
           => \E image \in W : \E idx \in Later(image) :
                  p = Packet(image, idx - 1) /\ q = Packet(image, idx)

Ready(exact, W, a, q) ==
    /\ Len(a) = q.total
    /\ exact /\ ~TooManyPackets(q.total)
           => \E image \in W : \E idx \in Later(image) :
                  q = Packet(image, idx) /\ a = Part(image, idx)

\* Packet j of s, behind what is assembled in a, has its place in an image:
\* nothing but texts comes between it and the packet that it continues.
Led(exact, W, a, s, j) ==
    \/ Starts(exact, W, s[j])
    \/ \E i \in 1 .. j - 1 :
           /\ Continues(exact, W, s[i], s[j])
           /\ \A l \in i + 1 .. j - 1 : s[l].type = "Text"
    \/ /\ \A l \in 1 .. j - 1 : s[l].type = "Text"
       /\ Ready(exact, W, a, s[j])

AllLed(exact, W, a, s) ==
    \A j \in DOMAIN s : s[j].type = "Image" => Led(exact, W, a, s, j)

\* What one process has still to send to r is in order behind its head.
Train(exact, W, r, o) ==
    \A j \in 2 .. Len(o) : o[j][1] = r /\ o[j][2].type = "Image"
        => \/ Starts(exact, W, o[j][2])
           \/ o[j - 1][1] = r /\ Continues(exact, W, o[j - 1][2], o[j][2])

\* So is the head, behind s, which waits for r.
Leads(exact, W, r, a, s, o) ==
    /\ o # << >> /\ Head(o)[1] = r => AllLed(exact, W, a, Append(s, Head(o)[2]))
    /\ Train(exact, W, r, o)

\* Every packet of s, or of o behind s, comes after the first of its image, or
\* so much has been allocated already.
Opens(p, q) == p.type = "Image" /\ p.first /\ p.total = q.total
Inner(p) == p.type = "Image" /\ ~p.first

NetOpen(cap, s) ==
    \A j \in DOMAIN s : Inner(s[j])
        => s[j].total <= cap \/ \E i \in 1 .. j - 1 : Opens(s[i], s[j])

OutOpen(cap, r, s, o) ==
    \A j \in DOMAIN o : o[j][1] = r /\ Inner(o[j][2])
        => \/ o[j][2].total <= cap
           \/ \E i \in DOMAIN s : Opens(s[i], o[j][2])
           \/ \E i \in 1 .. j - 1 : o[i][1] = r /\ Opens(o[i][2], o[j][2])

-----------------------------------------------------------------------------
(* The invariant *)

\* Clients send to the server and the server to clients.
Aims ==
    /\ \A c \in Clients : \A j \in DOMAIN outbox[c] : outbox[c][j][1] = Server
    /\ \A j \in DOMAIN outbox[Server] : outbox[Server][j][1] \in Clients

\* Packets come to r in order: to a client to which no image's first packet was
\* lost those of the server's broadcasts, though others may be missing between
\* them; the very images if no two were sent at once and nothing was lost.
InOrder(exact, r) ==
    /\ r \in alive \ headless
    /\ exact => r \notin lost
    /\ exact \/ r = Server => ~mixed /\ Server \notin lost

NetLed(exact, r) == AllLed(exact, Wholes(r), assembly[r], net[r])

OutLed(exact, s, r) ==
    Leads(exact, Wholes(r), r, assembly[r], net[r], outbox[s])

OrderInv ==
    \A exact \in BOOLEAN, r \in Nodes :
        InOrder(exact, r)
            => NetLed(exact, r) /\ \A s \in Nodes : OutLed(exact, s, r)

\* Whoever sends what, an image is begun before its other packets come.
BegunInv ==
    \A r \in alive \ headless :
        /\ NetOpen(capacity[r], net[r])
        /\ \A s \in Nodes : OutOpen(capacity[r], r, net[r], outbox[s])

IInv ==
    /\ Relayed /\ Counted /\ Aims
    /\ OrderInv /\ BegunInv
    /\ LoneImagesArrive

-----------------------------------------------------------------------------
(* Images on their way *)

Sources(r) == {Whole(r, c, k) : c \in Clients, k \in 1 .. MaxPics}

LEMMA PacketCountType ==
    ASSUME NEW n \in Nat
    PROVE  /\ PacketCount(n) \in Nat /\ PacketCount(n) * MaxChunk \in Nat
           /\ n <= PacketCount(n) * MaxChunk
<1> DEFINE x == n + MaxChunk - 1
           q == x \div MaxChunk
<1>1. x \in Nat
  BY Constants
<1>2. /\ q \in Nat /\ x % MaxChunk \in 0 .. MaxChunk - 1
      /\ x = q * MaxChunk + (x % MaxChunk)
  BY <1>1, Constants, Division
<1>3. q = PacketCount(n)
  BY DEF PacketCount
<1> HIDE DEF q
<1>4. q * MaxChunk \in Nat
  BY <1>2, Constants
<1>5. n <= q * MaxChunk
  BY <1>2, <1>4, Constants
<1> QED BY <1>2, <1>3, <1>4, <1>5

\* What a source shows of the bytes that fit into a receive.
LEMMA SourceFacts ==
    ASSUME NEW r, NEW c \in Clients, NEW k \in 1 .. MaxPics
    PROVE  LET image == Whole(r, c, k)
           IN  /\ image \in Seq(Bytes) /\ Len(image) = Size[c]
               /\ Placed(image)
               /\ \A i \in 1 .. Size[c] : Header + InChunk(i) < BufSize
                      => image[i] = Byte(c, k, i)
<1> DEFINE image == Whole(r, c, k)
<1>1. Size[c] \in Nat \ {0}
  BY Constants
<1>2. \A i \in 1 .. Size[c] : image[i] \in {Byte(c, k, i), Zero}
  BY DEF Whole, Screenshot, Arrived
<1>3. \A i \in 1 .. Size[c] : Header + InChunk(i) < BufSize
          => image[i] = Byte(c, k, i)
  BY DEF Whole, Screenshot, Arrived
<1>4. \A i \in 1 .. Size[c] : /\ image[i] \in Bytes
                              /\ Kept(image[i], InChunk(i)) /\ Exact(image[i], i)
  BY <1>2, DotFacts
<1>5. image \in [1 .. Size[c] -> Bytes]
  BY <1>4 DEF Whole, Screenshot, Arrived
<1>6. image \in Seq(Bytes) /\ Len(image) = Size[c]
  BY <1>1, <1>5
<1> HIDE DEF image
<1>7. Placed(image)
  BY <1>4, <1>6 DEF Placed, Sized
<1> QED BY <1>3, <1>6, <1>7 DEF image

\* A packet tells what image it is from, and its place there.
LEMMA SamePacket ==
    ASSUME NEW r, NEW X \in Sources(r), NEW Y \in Sources(r),
           NEW i \in 0 .. PacketCount(Len(X)) - 1,
           NEW j \in 0 .. PacketCount(Len(Y)) - 1,
           ~TooManyPackets(Len(X)), Packet(X, i) = Packet(Y, j)
    PROVE  X = Y /\ i = j
<1>1. PICK c \in Clients, k \in 1 .. MaxPics : X = Whole(r, c, k)
  BY DEF Sources
<1>2. PICK d \in Clients, m \in 1 .. MaxPics : Y = Whole(r, d, m)
  BY DEF Sources
<1>3. /\ X \in Seq(Bytes) /\ Len(X) = Size[c]
      /\ \A n \in 1 .. Size[c] : Header + InChunk(n) < BufSize
             => X[n] = Byte(c, k, n)
  BY <1>1, SourceFacts
<1>4. /\ Y \in Seq(Bytes) /\ Len(Y) = Size[d]
      /\ \A n \in 1 .. Size[d] : Header + InChunk(n) < BufSize
             => Y[n] = Byte(d, m, n)
  BY <1>2, SourceFacts
<1>5. Len(X) = Len(Y) /\ i = j
  <2>1. Packet(X, i).total = Len(X) /\ Packet(Y, j).total = Len(Y)
    BY <1>3, <1>4, PacketFacts
  <2>2. Packet(X, i).number = i + 1
    BY <1>3, PacketFacts
  <2>3. Packet(Y, j).number = j + 1
    BY <1>4, <2>1, PacketFacts
  <2> QED BY <2>1, <2>2, <2>3
<1> DEFINE at == ChunkStart(i) + 1
<1>6. /\ ChunkStart(i) \in Nat /\ ChunkSize(Len(X), i) \in 1 .. MaxChunk
      /\ ChunkStart(i) + ChunkSize(Len(X), i) <= Len(X)
  BY <1>3, ChunkInside
<1>7. /\ at \in 1 .. Size[c] /\ at \in 1 .. Size[d]
      /\ 1 \in 1 .. ChunkSize(Len(X), i)
  BY <1>3, <1>4, <1>5, <1>6
<1>8. InChunk(at) = 0
  <2>1. i \in Nat /\ 1 \in 1 .. MaxChunk /\ ChunkStart(i) = i * MaxChunk
    BY Constants DEF ChunkStart
  <2> QED BY <2>1, Place
<1>9. Header + InChunk(at) < BufSize
  BY <1>8, FragmentAssumption
<1>10. Packet(X, i).body[1] = X[at] /\ Packet(Y, j).body[1] = Y[at]
  BY <1>3, <1>4, <1>5, <1>7, PacketFacts
<1>11. Byte(c, k, at) = Byte(d, m, at)
  BY <1>3, <1>4, <1>7, <1>9, <1>10
<1>12. c = d /\ k = m
  BY <1>11 DEF Byte
<1> QED BY <1>1, <1>2, <1>5, <1>12

LEMMA PartZero ==
    ASSUME NEW image \in Seq(Bytes)
    PROVE  Part(image, 0) = [i \in 1 .. Len(image) |-> Zero]
<1>1. 0 * MaxChunk = 0
  BY Constants
<1> QED BY <1>1 DEF Part

LEMMA PartAll ==
    ASSUME NEW r, NEW c \in Clients, NEW k \in 1 .. MaxPics
    PROVE  Part(Whole(r, c, k), PacketCount(Size[c])) = Arrived(c, k)
<1> DEFINE image == Whole(r, c, k)
           all == PacketCount(Size[c]) * MaxChunk
<1>1. /\ Len(image) = Size[c] /\ Size[c] \in Nat
      /\ \A i \in 1 .. Size[c] : Header + InChunk(i) < BufSize
             => image[i] = Byte(c, k, i)
  BY SourceFacts, Constants
<1>2. all \in Nat /\ Size[c] <= all
  BY <1>1, PacketCountType
<1>3. \A i \in 1 .. Size[c] : i <= all
  BY <1>1, <1>2
<1> HIDE DEF image, all
<1>4. Part(image, PacketCount(Size[c])) = Arrived(c, k)
  BY <1>1, <1>3 DEF Part, Arrived, all
<1> QED BY <1>4 DEF image

\* One more packet copied is one more packet assembled.
LEMMA PartGrows ==
    ASSUME NEW image \in Seq(Bytes), NEW idx \in 0 .. PacketCount(Len(image)) - 1,
           ~TooManyPackets(Len(image)), NEW old
    PROVE  LET p == Packet(image, idx)
           IN  Copied(Part(image, idx), p, Overlay(old, p.body))
                   = Part(image, idx + 1)
<1> DEFINE n == Len(image)
           start == ChunkStart(idx)
           size == ChunkSize(n, idx)
           p == Packet(image, idx)
           buf == Overlay(old, p.body)
           part == Part(image, idx)
           next == Part(image, idx + 1)
           copy == Copied(part, p, buf)
<1>1. n \in Nat /\ idx \in Nat
  BY PacketCountType
<1>2. /\ start \in Nat /\ start = idx * MaxChunk
      /\ (idx + 1) * MaxChunk = start + MaxChunk
      /\ size \in 1 .. MaxChunk /\ start + size <= n
      /\ size < MaxChunk => start + size = n
  BY <1>1, ChunkInside, Constants DEF ChunkStart
<1>3. /\ ChunkOffset(p) = start /\ CopyEnd(p) = start + Payload
      /\ Len(p.body) = size
      /\ \A i \in 1 .. size : p.body[i] = image[start + i]
  BY PacketFacts DEF CopyEnd
<1>4. Len(part) = n
  BY <1>1 DEF Part
<1>5. \A i \in 1 .. Payload : buf[i] = IF i <= size THEN p.body[i] ELSE old[i]
  BY <1>3 DEF Overlay
<1>6. \A i \in 1 .. n :
          /\ part[i] = IF i <= start /\ Header + InChunk(i) < BufSize
                       THEN image[i] ELSE Zero
          /\ next[i] = IF i <= start + MaxChunk /\ Header + InChunk(i) < BufSize
                       THEN image[i] ELSE Zero
  BY <1>2 DEF Part
<1>7. copy = [i \in 1 .. n |-> IF i > start /\ i <= start + Payload
                               THEN buf[i - start] ELSE part[i]]
  BY <1>3, <1>4 DEF Copied
<1>8. next = [i \in 1 .. n |-> next[i]]
  BY DEF Part
<1> HIDE DEF n, start, size, p, buf, part, next
<1>9. ASSUME NEW i \in 1 .. n
      PROVE  (IF i > start /\ i <= start + Payload THEN buf[i - start] ELSE part[i])
                 = next[i]
  <2>1. CASE i <= start
    <3>1. ~(i > start) /\ i <= start + MaxChunk
      BY <1>1, <1>2, <2>1, Constants
    <3>2. next[i] = part[i]
      BY <1>6, <2>1, <3>1
    <3> QED BY <3>1, <3>2
  <2>2. CASE i > start /\ i <= start + MaxChunk
    <3> DEFINE j == i - start
    <3>1. j \in 1 .. MaxChunk /\ i = start + j
      BY <1>1, <1>2, <2>2, Constants
    <3> HIDE DEF j
    <3>2. InChunk(i) = j - 1
      BY <1>1, <1>2, <3>1, Place
    <3>3. Header + InChunk(i) < BufSize <=> j <= Payload
      BY <3>1, <3>2, FragmentAssumption DEF Payload
    <3>4. CASE j <= Payload
      <4>1. j \in 1 .. size /\ j \in 1 .. Payload
        BY <1>1, <1>2, <3>1, <3>4, Constants
      <4>2. buf[j] = image[i]
        BY <1>3, <1>5, <3>1, <4>1
      <4>3. next[i] = image[i]
        BY <1>6, <2>2, <3>3, <3>4
      <4>4. i > start /\ i <= start + Payload /\ i - start = j
        BY <1>2, <3>1, <3>4, Constants
      <4> QED BY <4>2, <4>3, <4>4
    <3>5. CASE ~(j <= Payload)
      <4>1. ~(i <= start + Payload) /\ ~(i <= start)
        BY <1>2, <3>1, <3>5, Constants
      <4> QED BY <1>6, <3>3, <3>5, <4>1
    <3> QED BY <3>4, <3>5
  <2>3. CASE i > start + MaxChunk
    <3>1. ~(i <= start + Payload) /\ ~(i <= start) /\ ~(i <= start + MaxChunk)
      BY <1>1, <1>2, <2>3, Constants
    <3> QED BY <1>6, <3>1
  <2> QED BY <1>1, <1>2, <2>1, <2>2, <2>3, Constants
<1>10. copy = next
  BY <1>7, <1>8, <1>9
<1> QED BY <1>10 DEF p, buf, part, next

-----------------------------------------------------------------------------
(* Assembling in order *)

\* What the assembly buffer is when packet p has been copied.
After(a, p, old) == Copied(Begun(a, p), p, Overlay(old, p.body))

\* Image is what there is of one of W after its packet p.
Grown(W, p, image) ==
    \E whole \in W : \E idx \in 0 .. PacketCount(Len(whole)) - 1 :
        p = Packet(whole, idx) /\ image = Part(whole, idx + 1)

LEMMA Assembled ==
    ASSUME NEW exact \in BOOLEAN, NEW r, NEW W \in SUBSET Sources(r),
           NEW a \in Seq(Bytes), NEW p \in Sounds, p.type = "Image", NEW old,
           Starts(exact, W, p) \/ Ready(exact, W, a, p)
    PROVE  /\ Len(After(a, p, old)) = p.total
           /\ exact /\ ~TooManyPackets(p.total)
                  => Grown(W, p, After(a, p, old))
<1> DEFINE begun == Begun(a, p)
           image == Copied(begun, p, Overlay(old, p.body))
<1>1. p.total \in Nat
  BY DEF Sounds, Headed
<1>2. Len(begun) = p.total
  BY <1>1 DEF Begun, Starts, Ready
<1>3. Len(image) = p.total
  BY <1>1, <1>2 DEF Copied
<1>4. ASSUME exact, ~TooManyPackets(p.total)
      PROVE  \E whole \in W : \E idx \in 0 .. PacketCount(Len(whole)) - 1 :
                 p = Packet(whole, idx) /\ begun = Part(whole, idx)
  <2>1. CASE Starts(exact, W, p)
    <3>1. PICK whole \in W : Len(whole) # 0 /\ p = Packet(whole, 0)
      BY <1>4, <2>1 DEF Starts
    <3>2. whole \in Seq(Bytes)
      BY <3>1, SourceFacts DEF Sources
    <3>3. Len(whole) \in Nat /\ PacketCount(Len(whole)) \in Nat
      BY <3>2, PacketCountType
    <3>4. PacketCount(Len(whole)) # 0
      <4>1. Len(whole) <= PacketCount(Len(whole)) * MaxChunk
        BY <3>2, PacketCountType
      <4>2. 0 * MaxChunk = 0
        BY Constants
      <4> QED BY <3>1, <3>3, <4>1, <4>2
    <3>5. 0 \in 0 .. PacketCount(Len(whole)) - 1
      BY <3>3, <3>4
    <3>6. p.total = Len(whole)
      BY <3>1, <3>2, <3>5, PacketFacts
    <3>7. begun = Part(whole, 0)
      BY <2>1, <3>2, <3>6, PartZero DEF Begun, Starts
    <3> QED BY <3>1, <3>5, <3>7
  <2>2. CASE Ready(exact, W, a, p)
    <3>1. PICK whole \in W : \E idx \in Later(whole) :
             p = Packet(whole, idx) /\ a = Part(whole, idx)
      BY <1>4, <2>2 DEF Ready
    <3>2. PICK idx \in Later(whole) :
              p = Packet(whole, idx) /\ a = Part(whole, idx)
      BY <3>1
    <3>3. whole \in Seq(Bytes)
      BY <3>2, SourceFacts DEF Sources
    <3>4. Len(whole) \in Nat /\ PacketCount(Len(whole)) \in Nat
      BY <3>3, PacketCountType
    <3>5. idx \in 0 .. PacketCount(Len(whole)) - 1 /\ idx # 0
      BY <3>2, <3>4 DEF Later
    <3>6. ~p.first
      BY <3>2, <3>3, <3>5, PacketFacts
    <3>7. begun = a
      BY <3>6 DEF Begun
    <3> QED BY <3>2, <3>5, <3>7
  <2> QED BY <2>1, <2>2
<1>5. ASSUME exact, ~TooManyPackets(p.total)
      PROVE  \E whole \in W : \E idx \in 0 .. PacketCount(Len(whole)) - 1 :
                 p = Packet(whole, idx) /\ image = Part(whole, idx + 1)
  <2>1. PICK whole \in W : \E idx \in 0 .. PacketCount(Len(whole)) - 1 :
           p = Packet(whole, idx) /\ begun = Part(whole, idx)
    BY <1>4, <1>5
  <2>2. PICK idx \in 0 .. PacketCount(Len(whole)) - 1 :
            p = Packet(whole, idx) /\ begun = Part(whole, idx)
    BY <2>1
  <2>3. whole \in Seq(Bytes)
    BY <2>2, SourceFacts DEF Sources
  <2>4. p.total = Len(whole)
    BY <2>2, <2>3, PacketFacts
  <2>5. image = Part(whole, idx + 1)
    BY <1>5, <2>2, <2>3, <2>4, PartGrows
  <2> QED BY <2>2, <2>5
<1> QED BY <1>3, <1>5 DEF After, Grown

\* The buffer is ready for the packet that continues the one just copied.
LEMMA ThenReady ==
    ASSUME NEW exact \in BOOLEAN, NEW r, NEW W \in SUBSET Sources(r),
           NEW a \in Seq(Bytes), NEW p \in Sounds, p.type = "Image", NEW old,
           Starts(exact, W, p) \/ Ready(exact, W, a, p),
           NEW q, Continues(exact, W, p, q)
    PROVE  Ready(exact, W, After(a, p, old), q)
<1> DEFINE image == After(a, p, old)
<1>1. /\ Len(image) = p.total
      /\ exact /\ ~TooManyPackets(p.total)
             => Grown(W, p, image)
  BY Assembled
<1> HIDE DEF image
<1>2. p.total = q.total
  BY DEF Continues
<1>3. ASSUME exact, ~TooManyPackets(q.total)
      PROVE  \E whole \in W : \E idx \in Later(whole) :
                 q = Packet(whole, idx) /\ image = Part(whole, idx)
  <2>1. PICK whole \in W : \E idx \in Later(whole) :
           p = Packet(whole, idx - 1) /\ q = Packet(whole, idx)
    BY <1>3 DEF Continues
  <2>2. PICK idx \in Later(whole) :
            p = Packet(whole, idx - 1) /\ q = Packet(whole, idx)
    BY <2>1
  <2>3. PICK other \in W : \E i \in 0 .. PacketCount(Len(other)) - 1 :
           p = Packet(other, i) /\ image = Part(other, i + 1)
    BY <1>1, <1>2, <1>3 DEF Grown
  <2>4. PICK i \in 0 .. PacketCount(Len(other)) - 1 :
            p = Packet(other, i) /\ image = Part(other, i + 1)
    BY <2>3
  <2>5. whole \in Seq(Bytes) /\ other \in Seq(Bytes)
    BY <2>2, <2>4, SourceFacts DEF Sources
  <2>6. /\ PacketCount(Len(whole)) \in Nat
        /\ idx - 1 \in 0 .. PacketCount(Len(whole)) - 1
    <3>1. PacketCount(Len(whole)) \in Nat
      BY <2>5, PacketCountType
    <3> QED BY <2>2, <3>1 DEF Later
  <2>7. Len(whole) = p.total
    BY <2>2, <2>5, <2>6, PacketFacts
  <2>8. whole = other /\ idx - 1 = i
    BY <1>2, <1>3, <2>2, <2>4, <2>6, <2>7, SamePacket
  <2>9. idx = i + 1
    BY <2>6, <2>8 DEF Later
  <2> QED BY <2>2, <2>4, <2>8, <2>9
<1>4. Ready(exact, W, image, q)
  BY <1>1, <1>2, <1>3 DEF Ready
<1> QED BY <1>4 DEF image

\* Image is what arrives of a screenshot, one of W, with its last packet p.
Complete(r, W, p, image) ==
    \E c \in Clients : \E k \in 1 .. MaxPics :
        /\ Whole(r, c, k) \in W /\ p.total = Size[c]
        /\ image = Arrived(c, k)

LEMMA ThenComplete ==
    ASSUME NEW exact \in BOOLEAN, exact, NEW r, NEW W \in SUBSET Sources(r),
           NEW a \in Seq(Bytes), NEW p \in Sounds, p.type = "Image", p.last, NEW old,
           Starts(exact, W, p) \/ Ready(exact, W, a, p), ~TooManyPackets(p.total)
    PROVE  Complete(r, W, p, After(a, p, old))
<1> DEFINE image == After(a, p, old)
<1>0. Grown(W, p, image)
  BY Assembled
<1>1. PICK whole \in W : \E idx \in 0 .. PacketCount(Len(whole)) - 1 :
         p = Packet(whole, idx) /\ image = Part(whole, idx + 1)
  BY <1>0 DEF Grown
<1>2. PICK idx \in 0 .. PacketCount(Len(whole)) - 1 :
          p = Packet(whole, idx) /\ image = Part(whole, idx + 1)
  BY <1>1
<1>3. PICK c \in Clients, k \in 1 .. MaxPics : whole = Whole(r, c, k)
  BY <1>2 DEF Sources
<1>4. whole \in Seq(Bytes) /\ Len(whole) = Size[c]
  BY <1>3, SourceFacts
<1>5. p.total = Len(whole) /\ idx + 1 = PacketCount(Len(whole))
  BY <1>2, <1>4, PacketFacts
<1>6. image = Arrived(c, k)
  BY <1>2, <1>3, <1>4, <1>5, PartAll
<1> QED BY <1>2, <1>3, <1>4, <1>5, <1>6 DEF Complete

-----------------------------------------------------------------------------
(* Queues of packets *)

\* More sources do no harm.
LEMMA MoreSources ==
    ASSUME NEW exact, NEW W, NEW V, W \subseteq V
    PROVE  /\ \A p : Starts(exact, W, p) => Starts(exact, V, p)
           /\ \A p, q : Continues(exact, W, p, q) => Continues(exact, V, p, q)
           /\ \A a, q : Ready(exact, W, a, q) => Ready(exact, V, a, q)
           /\ \A a, s : AllLed(exact, W, a, s) => AllLed(exact, V, a, s)
           /\ \A r, o : Train(exact, W, r, o) => Train(exact, V, r, o)
<1>1. ASSUME NEW p, Starts(exact, W, p) PROVE Starts(exact, V, p)
  BY <1>1 DEF Starts
<1>2. ASSUME NEW p, NEW q, Continues(exact, W, p, q) PROVE Continues(exact, V, p, q)
  BY <1>2 DEF Continues
<1>3. ASSUME NEW a, NEW q, Ready(exact, W, a, q) PROVE Ready(exact, V, a, q)
  BY <1>3 DEF Ready
<1>4. ASSUME NEW a, NEW s, AllLed(exact, W, a, s) PROVE AllLed(exact, V, a, s)
  BY <1>1, <1>2, <1>3, <1>4 DEF AllLed, Led
<1>5. ASSUME NEW r, NEW o, Train(exact, W, r, o) PROVE Train(exact, V, r, o)
  BY <1>1, <1>2, <1>5 DEF Train
<1> QED BY <1>1, <1>2, <1>3, <1>4, <1>5

LEMMA AppendFacts ==
    ASSUME NEW S, NEW s \in Seq(S), NEW p \in S
    PROVE  /\ Append(s, p) \in Seq(S) /\ Len(Append(s, p)) = Len(s) + 1
           /\ Len(s) \in Nat /\ DOMAIN s = 1 .. Len(s)
           /\ DOMAIN Append(s, p) = 1 .. Len(s) + 1
           /\ Append(s, p)[Len(s) + 1] = p
           /\ \A i \in 1 .. Len(s) : Append(s, p)[i] = s[i] /\ s[i] \in S
OBVIOUS

LEMMA TailFacts ==
    ASSUME NEW S, NEW s \in Seq(S), s # << >>
    PROVE  /\ Tail(s) \in Seq(S) /\ Len(s) \in Nat /\ Len(s) >= 1
           /\ Len(Tail(s)) = Len(s) - 1 /\ Head(s) = s[1] /\ s[1] \in S
           /\ DOMAIN s = 1 .. Len(s) /\ DOMAIN Tail(s) = 1 .. Len(s) - 1
           /\ \A i \in 1 .. Len(s) - 1 : Tail(s)[i] = s[i + 1]
OBVIOUS

\* A packet's place depends on what is before it only.
LEMMA LedBefore ==
    ASSUME NEW exact, NEW W, NEW a, NEW s, NEW t, NEW j \in Nat,
           \A i \in 1 .. j : s[i] = t[i], Led(exact, W, a, s, j), j # 0
    PROVE  Led(exact, W, a, t, j)
<1>1. s[j] = t[j] /\ \A i \in 1 .. j - 1 : s[i] = t[i]
  OBVIOUS
<1>2. CASE Starts(exact, W, s[j])
  BY <1>1, <1>2 DEF Led
<1>3. ASSUME NEW i \in 1 .. j - 1, Continues(exact, W, s[i], s[j]),
             \A l \in i + 1 .. j - 1 : s[l].type = "Text"
      PROVE  Led(exact, W, a, t, j)
  <2>1. Continues(exact, W, t[i], t[j])
    BY <1>1, <1>3
  <2>2. \A l \in i + 1 .. j - 1 : t[l].type = "Text"
    BY <1>1, <1>3
  <2> QED BY <1>3, <2>1, <2>2 DEF Led
<1>4. CASE /\ \A l \in 1 .. j - 1 : s[l].type = "Text"
           /\ Ready(exact, W, a, s[j])
  BY <1>1, <1>4 DEF Led
<1> QED BY <1>2, <1>3, <1>4 DEF Led

\* What comes last may be a text, may begin an image or may continue what is
\* before it.
LEMMA LedAppend ==
    ASSUME NEW exact, NEW W, NEW a, NEW s \in Seq(Sounds), AllLed(exact, W, a, s),
           NEW q \in Sounds,
           \/ q.type = "Text"
           \/ Starts(exact, W, q)
           \/ s # << >> /\ Continues(exact, W, s[Len(s)], q)
    PROVE  AllLed(exact, W, a, Append(s, q))
<1> DEFINE t == Append(s, q)
<1>1. /\ Len(s) \in Nat /\ DOMAIN s = 1 .. Len(s) /\ DOMAIN t = 1 .. Len(s) + 1
      /\ t[Len(s) + 1] = q /\ \A i \in 1 .. Len(s) : t[i] = s[i]
  BY AppendFacts
<1> HIDE DEF t
<1>2. ASSUME NEW j \in 1 .. Len(s), t[j].type = "Image"
      PROVE  Led(exact, W, a, t, j)
  <2>1. Led(exact, W, a, s, j)
    BY <1>1, <1>2 DEF AllLed
  <2>2. \A i \in 1 .. j : s[i] = t[i]
    BY <1>1
  <2> QED BY <1>1, <2>1, <2>2, LedBefore
<1>3. ASSUME q.type = "Image" PROVE Led(exact, W, a, t, Len(s) + 1)
  <2>1. q.type # "Text"
    BY <1>3
  <2>2. CASE Starts(exact, W, q)
    BY <1>1, <2>2 DEF Led
  <2>3. CASE s # << >> /\ Continues(exact, W, s[Len(s)], q)
    <3>1. Len(s) \in 1 .. Len(s)
      BY <1>1, <2>3
    <3>2. Continues(exact, W, t[Len(s)], t[Len(s) + 1])
      BY <1>1, <2>3, <3>1
    <3>3. \A l \in Len(s) + 1 .. (Len(s) + 1) - 1 : FALSE
      BY <1>1
    <3>4. Len(s) \in 1 .. (Len(s) + 1) - 1
      BY <1>1, <3>1
    <3> QED BY <3>2, <3>3, <3>4 DEF Led
  <2> QED BY <2>1, <2>2, <2>3
<1>4. AllLed(exact, W, a, t)
  BY <1>1, <1>2, <1>3 DEF AllLed
<1> QED BY <1>4 DEF t

\* A packet may come before another of a text or before the begin of an image.
LEMMA LedBehind ==
    ASSUME NEW exact, NEW W, NEW a, NEW s \in Seq(Sounds),
           NEW p \in Sounds, NEW q \in Sounds,
           AllLed(exact, W, a, Append(s, p)), AllLed(exact, W, a, Append(s, q)),
           \/ p.type = "Text"
           \/ q.type = "Text"
           \/ Starts(exact, W, q)
    PROVE  AllLed(exact, W, a, Append(Append(s, p), q))
<1> DEFINE t == Append(s, p)
           u == Append(s, q)
           v == Append(t, q)
           n == Len(s)
<1>1. /\ n \in Nat /\ t \in Seq(Sounds) /\ Len(t) = n + 1
      /\ t[n + 1] = p /\ u[n + 1] = q /\ DOMAIN u = 1 .. n + 1
      /\ \A i \in 1 .. n : t[i] = s[i] /\ u[i] = s[i]
  BY AppendFacts
<1> HIDE DEF t, u, n
<1>2. v[n + 2] = q /\ DOMAIN v = 1 .. n + 2 /\ \A i \in 1 .. n + 1 : v[i] = t[i]
  BY <1>1, AppendFacts
<1>3. CASE q.type = "Text" \/ Starts(exact, W, q)
  BY <1>1, <1>3, LedAppend DEF t
<1>4. CASE p.type = "Text" /\ q.type = "Image" /\ ~Starts(exact, W, q)
  <2> HIDE DEF v
  <2>1. Led(exact, W, a, u, n + 1)
    BY <1>1, <1>4 DEF AllLed, u
  <2>2. /\ v[n + 2] = q /\ v[n + 1].type = "Text"
        /\ \A i \in 1 .. n : v[i] = u[i]
    BY <1>1, <1>2, <1>4
  <2>3. Led(exact, W, a, v, n + 2)
    <3>1. ASSUME NEW i \in 1 .. (n + 1) - 1, Continues(exact, W, u[i], u[n + 1]),
                 \A l \in i + 1 .. (n + 1) - 1 : u[l].type = "Text"
          PROVE  Led(exact, W, a, v, n + 2)
      <4>1. i \in 1 .. n /\ i \in 1 .. (n + 2) - 1
        BY <1>1, <3>1
      <4>2. Continues(exact, W, v[i], v[n + 2])
        BY <1>1, <2>2, <3>1, <4>1
      <4>3. ASSUME NEW l \in i + 1 .. (n + 2) - 1 PROVE v[l].type = "Text"
        <5>1. l = n + 1 \/ (l \in i + 1 .. (n + 1) - 1 /\ l \in 1 .. n)
          BY <1>1, <4>1
        <5> QED BY <2>2, <3>1, <5>1
      <4> QED BY <4>1, <4>2, <4>3 DEF Led
    <3>2. ASSUME \A l \in 1 .. (n + 1) - 1 : u[l].type = "Text",
                 Ready(exact, W, a, u[n + 1])
          PROVE  Led(exact, W, a, v, n + 2)
      <4>1. ASSUME NEW l \in 1 .. (n + 2) - 1 PROVE v[l].type = "Text"
        <5>1. l = n + 1 \/ (l \in 1 .. (n + 1) - 1 /\ l \in 1 .. n)
          BY <1>1
        <5> QED BY <2>2, <3>2, <5>1
      <4>2. Ready(exact, W, a, v[n + 2])
        BY <1>1, <2>2, <3>2
      <4> QED BY <4>1, <4>2 DEF Led
    <3> QED BY <1>1, <1>4, <2>1, <3>1, <3>2 DEF Led
  <2>4. ASSUME NEW j \in 1 .. n + 1, v[j].type = "Image"
        PROVE  Led(exact, W, a, v, j)
    <3>1. Led(exact, W, a, t, j)
      BY <1>1, <1>2, <2>4, AppendFacts DEF AllLed, t, n
    <3>2. \A i \in 1 .. j : t[i] = v[i]
      BY <1>1, <1>2
    <3> QED BY <1>1, <3>1, <3>2, LedBefore
  <2>5. AllLed(exact, W, a, v)
    BY <1>1, <1>2, <2>3, <2>4 DEF AllLed
  <2> QED BY <2>5 DEF v, t
<1> QED BY <1>3, <1>4 DEF Sounds, Headed

\* If only the order matters, a packet may come in the place of the one that it
\* continues, when that one did not begin the image.
LEMMA LedInstead ==
    ASSUME NEW exact, exact = FALSE, NEW W, NEW a, NEW s \in Seq(Sounds),
           NEW p \in Sounds, NEW q \in Sounds,
           AllLed(exact, W, a, s), AllLed(exact, W, a, Append(s, p)),
           p.type = "Image", ~p.first, Continues(exact, W, p, q)
    PROVE  AllLed(exact, W, a, Append(s, q))
<1> DEFINE t == Append(s, p)
           u == Append(s, q)
           n == Len(s)
<1>1. /\ n \in Nat /\ DOMAIN s = 1 .. n
      /\ t[n + 1] = p /\ u[n + 1] = q /\ DOMAIN t = 1 .. n + 1
      /\ DOMAIN u = 1 .. n + 1 /\ \A i \in 1 .. n : t[i] = s[i] /\ u[i] = s[i]
  BY AppendFacts
<1> HIDE DEF t, u, n
<1>2. p.total = q.total
  BY DEF Continues
<1>3. Led(exact, W, a, u, n + 1)
  <2>1. Led(exact, W, a, t, n + 1)
    BY <1>1 DEF AllLed, t
  <2>2. (n + 1) - 1 = n /\ \A i \in 1 .. n : t[i] = u[i]
    BY <1>1
  <2>3. ~Starts(exact, W, t[n + 1])
    BY <1>1 DEF Starts
  <2>4. ASSUME NEW i \in 1 .. n, Continues(exact, W, t[i], t[n + 1]),
               \A l \in i + 1 .. n : t[l].type = "Text"
        PROVE  Led(exact, W, a, u, n + 1)
    <3>1. Continues(exact, W, u[i], u[n + 1])
      BY <1>1, <1>2, <2>2, <2>4 DEF Continues
    <3>2. \A l \in i + 1 .. n : u[l].type = "Text"
      BY <1>1, <2>2, <2>4
    <3> QED BY <2>2, <3>1, <3>2 DEF Led
  <2>5. ASSUME \A l \in 1 .. n : t[l].type = "Text", Ready(exact, W, a, t[n + 1])
        PROVE  Led(exact, W, a, u, n + 1)
    <3>1. Ready(exact, W, a, u[n + 1])
      BY <1>1, <1>2, <2>5 DEF Ready
    <3>2. \A l \in 1 .. n : u[l].type = "Text"
      BY <2>2, <2>5
    <3> QED BY <2>2, <3>1, <3>2 DEF Led
  <2> QED BY <2>1, <2>2, <2>3, <2>4, <2>5 DEF Led
<1>4. ASSUME NEW j \in 1 .. n, u[j].type = "Image" PROVE Led(exact, W, a, u, j)
  <2>1. Led(exact, W, a, s, j)
    BY <1>1, <1>4 DEF AllLed
  <2>2. \A i \in 1 .. j : s[i] = u[i]
    BY <1>1
  <2> QED BY <1>1, <2>1, <2>2, LedBefore
<1>5. AllLed(exact, W, a, u)
  BY <1>1, <1>3, <1>4 DEF AllLed
<1> QED BY <1>5 DEF u

\* Taking a packet from a queue leaves the others in their places.
LEMMA LedTail ==
    ASSUME NEW exact, NEW W, NEW a, NEW b, NEW s \in Seq(Sounds), s # << >>,
           AllLed(exact, W, a, s),
           \/ Head(s).type = "Text" /\ b = a
           \/ /\ Head(s).type = "Image"
              /\ \A q : Continues(exact, W, Head(s), q) => Ready(exact, W, b, q)
    PROVE  AllLed(exact, W, b, Tail(s))
<1> DEFINE t == Tail(s)
           n == Len(s)
<1>1. /\ n \in Nat /\ n >= 1 /\ Head(s) = s[1]
      /\ DOMAIN s = 1 .. n /\ DOMAIN t = 1 .. n - 1
      /\ \A i \in 1 .. n - 1 : t[i] = s[i + 1]
  BY TailFacts
<1> HIDE DEF t, n
<1>2. ASSUME NEW j \in 1 .. n - 1, t[j].type = "Image"
      PROVE  Led(exact, W, b, t, j)
  <2>1. j + 1 \in 1 .. n /\ (j + 1) - 1 = j /\ t[j] = s[j + 1]
    BY <1>1
  <2>2. Led(exact, W, a, s, j + 1)
    BY <1>1, <1>2, <2>1 DEF AllLed
  <2>3. ASSUME NEW i \in 1 .. j, Continues(exact, W, s[i], s[j + 1]),
               \A l \in i + 1 .. j : s[l].type = "Text"
        PROVE  Led(exact, W, b, t, j)
    <3>1. CASE i = 1
      <4>1. s[1].type = "Image"
        BY <2>3, <3>1 DEF Continues
      <4>2. Ready(exact, W, b, t[j])
        BY <1>1, <2>1, <2>3, <3>1, <4>1
      <4>3. ASSUME NEW l \in 1 .. j - 1 PROVE t[l].type = "Text"
        <5>1. l + 1 \in i + 1 .. j /\ l \in 1 .. n - 1
          BY <1>1, <3>1
        <5> QED BY <1>1, <2>3, <5>1
      <4> QED BY <4>2, <4>3 DEF Led
    <3>2. CASE i # 1
      <4>1. i - 1 \in 1 .. j - 1 /\ t[i - 1] = s[i]
        BY <1>1, <3>2
      <4>2. ASSUME NEW l \in (i - 1) + 1 .. j - 1 PROVE t[l].type = "Text"
        <5>1. l + 1 \in i + 1 .. j /\ l \in 1 .. n - 1
          BY <1>1, <3>2
        <5> QED BY <1>1, <2>3, <5>1
      <4> QED BY <2>1, <2>3, <4>1, <4>2 DEF Led
    <3> QED BY <3>1, <3>2
  <2>4. ASSUME \A l \in 1 .. j : s[l].type = "Text", Ready(exact, W, a, s[j + 1])
        PROVE  Led(exact, W, b, t, j)
    <3>1. s[1].type = "Text"
      BY <1>1, <2>4
    <3>2. b = a
      BY <1>1, <3>1
    <3>3. ASSUME NEW l \in 1 .. j - 1 PROVE t[l].type = "Text"
      <4>1. l + 1 \in 1 .. j /\ l \in 1 .. n - 1
        BY <1>1
      <4> QED BY <1>1, <2>4, <4>1
    <3> QED BY <2>1, <2>4, <3>2, <3>3 DEF Led
  <2>5. CASE Starts(exact, W, s[j + 1])
    BY <2>1, <2>5 DEF Led
  <2> QED BY <2>1, <2>2, <2>3, <2>4, <2>5 DEF Led
<1>3. AllLed(exact, W, b, t)
  BY <1>1, <1>2 DEF AllLed
<1> QED BY <1>3 DEF t

-----------------------------------------------------------------------------
(* What is put into an outbox *)

\* A new outbox: its head is a text or begins an image.
Fresh(exact, W, r, o) ==
    /\ o # << >> /\ Head(o)[1] = r
           => Head(o)[2].type = "Text" \/ Starts(exact, W, Head(o)[2])
    /\ Train(exact, W, r, o)

\* To whom an image is sent, its first packet is sent first.
Begins(o) ==
    \A j \in DOMAIN o : Inner(o[j][2])
        => \E i \in 1 .. j - 1 : /\ o[i][1] = o[j][1]
                                 /\ Opens(o[i][2], o[j][2])

LEMMA PacketsInOrder ==
    ASSUME NEW exact \in BOOLEAN, NEW W, NEW image \in Images,
           exact /\ ~TooManyPackets(Len(image)) => image \in W \/ image = << >>
    PROVE  LET ps == Packets(image)
           IN  /\ ps \in Seq(Sounds) /\ Len(ps) = PacketCount(Len(image))
               /\ \A j \in 1 .. Len(ps) :
                      /\ ps[j].type = "Image" /\ ps[j].total = Len(image)
                      /\ ps[j].first <=> j = 1
                      /\ j = 1 => Starts(exact, W, ps[j])
                      /\ j # 1 => Continues(exact, W, ps[j - 1], ps[j])
<1> DEFINE ps == Packets(image)
           n == Len(image)
           m == PacketCount(n)
<1>1. image \in Seq(Bytes) /\ n \in Nat
  BY DEF Images
<1>2. m \in Nat /\ n <= m * MaxChunk /\ m * MaxChunk \in Nat
  BY <1>1, PacketCountType
<1>3. ps \in Seq(Sounds)
  BY PacketsSound
<1>4. ps = [j \in 1 .. m |-> Packet(image, j - 1)]
  BY DEF Packets
<1>5. Len(ps) = m
  BY <1>2, <1>4
<1>6. n = 0 => m = 0
  <2>1. SUFFICES ASSUME n = 0, m # 0 PROVE FALSE
    OBVIOUS
  <2>2. 0 \in 0 .. m - 1
    BY <1>2, <2>1
  <2>3. ChunkStart(0) \in Nat /\ ChunkSize(n, 0) \in 1 .. MaxChunk
        /\ ChunkStart(0) + ChunkSize(n, 0) <= n
    BY <1>1, <2>2, ChunkInside
  <2> QED BY <2>1, <2>3, Constants
<1> HIDE DEF ps, m, n
<1>7. ASSUME NEW j \in 1 .. m
      PROVE  /\ ps[j] = Packet(image, j - 1)
             /\ ps[j].type = "Image" /\ ps[j].total = n
             /\ ps[j].first <=> j = 1
             /\ ps[j].last <=> j = m
             /\ n # 0 /\ j - 1 \in 0 .. m - 1
  <2>1. j - 1 \in 0 .. m - 1
    BY <1>2
  <2>2. ps[j] = Packet(image, j - 1)
    BY <1>4
  <2>3. /\ Packet(image, j - 1).type = "Image" /\ Packet(image, j - 1).total = n
        /\ Packet(image, j - 1).first <=> j - 1 = 0
        /\ Packet(image, j - 1).last <=> (j - 1) + 1 = m
    BY <1>1, <2>1, PacketFacts DEF m, n
  <2> QED BY <1>2, <1>6, <2>1, <2>2, <2>3
<1>8. ASSUME NEW j \in 1 .. m, exact, ~TooManyPackets(n)
      PROVE  image \in W /\ Len(image) # 0
  BY <1>7, <1>8, <1>1 DEF n
<1>9. ASSUME 1 \in 1 .. m PROVE Starts(exact, W, ps[1])
  <2>1. ps[1].first /\ ps[1].total = n /\ ps[1] = Packet(image, 0)
    BY <1>7, <1>9
  <2> QED BY <1>8, <1>9, <2>1 DEF Starts
<1>10. ASSUME NEW j \in 1 .. m, j # 1 PROVE Continues(exact, W, ps[j - 1], ps[j])
  <2>1. j - 1 \in 1 .. m /\ j - 1 # m /\ (j - 1) - 1 \in 0 .. m - 1
    BY <1>2, <1>10
  <2>2. /\ ps[j - 1].type = "Image" /\ ~ps[j - 1].last
        /\ ps[j - 1].total = n /\ ps[j].total = n
        /\ ps[j - 1] = Packet(image, (j - 1) - 1) /\ ps[j] = Packet(image, j - 1)
    BY <1>7, <2>1
  <2>3. j - 1 \in Later(image)
    BY <1>2, <1>10 DEF Later, m, n
  <2> QED BY <1>8, <2>2, <2>3 DEF Continues
<1> QED BY <1>3, <1>5, <1>7, <1>9, <1>10 DEF ps, m, n

\* slotSend fills a client's outbox.
LEMMA SlotSendFresh ==
    ASSUME NEW image \in Images
    PROVE  LET o == To(Server, <<TextPacket(TestMessage)>> \o Packets(image))
           IN  /\ \A j \in DOMAIN o : o[j][1] = Server
               /\ Begins(o)
               /\ \A exact \in BOOLEAN : \A W, r :
                      (exact /\ ~TooManyPackets(Len(image))
                           => image \in W \/ image = << >>)
                      => Fresh(exact, W, r, o)
<1> DEFINE text == TextPacket(TestMessage)
           ps == Packets(image)
           all == <<text>> \o ps
           o == To(Server, all)
<1>1. ps \in Seq(Sounds) /\ text \in Sounds
  BY PacketsSound, TextSound
<1>2. text.type = "Text"
  BY DEF TextPacket
<1> HIDE DEF text, ps
<1>3. PICK n \in Nat : n = Len(ps)
  BY <1>1
<1>4. /\ all \in Seq(Sounds) /\ Len(all) = n + 1 /\ all[1] = text
      /\ \A j \in 2 .. n + 1 : all[j] = ps[j - 1]
  BY <1>1, <1>3
<1>5. DOMAIN all = 1 .. n + 1
  BY <1>3, <1>4
<1> HIDE DEF all
<1>6. o = [j \in 1 .. n + 1 |-> <<Server, all[j]>>]
  BY <1>5 DEF To
<1>7. /\ DOMAIN o = 1 .. n + 1 /\ Len(o) = n + 1 /\ o # << >>
      /\ \A j \in 1 .. n + 1 : o[j] = <<Server, all[j]>>
      /\ Head(o) = o[1]
  BY <1>3, <1>6
<1> HIDE DEF o
<1>8. /\ \A j \in 1 .. n + 1 : o[j][1] = Server
      /\ o[1][2].type = "Text"
      /\ \A j \in 2 .. n + 1 : o[j][2] = ps[j - 1]
  BY <1>2, <1>3, <1>4, <1>7
<1>9. ASSUME NEW exact \in BOOLEAN, NEW W, NEW r,
             exact /\ ~TooManyPackets(Len(image)) => image \in W \/ image = << >>
      PROVE  Fresh(exact, W, r, o)
  <2>1. \A j \in 1 .. n : /\ j = 1 => Starts(exact, W, ps[j])
                          /\ j # 1 => Continues(exact, W, ps[j - 1], ps[j])
    BY <1>3, <1>9, PacketsInOrder DEF ps
  <2>2. ASSUME NEW j \in 2 .. n + 1
        PROVE  \/ Starts(exact, W, o[j][2])
               \/ o[j - 1][1] = o[j][1] /\ Continues(exact, W, o[j - 1][2], o[j][2])
    <3>1. CASE j = 2
      <4>1. 1 \in 1 .. n /\ 2 \in 2 .. n + 1 /\ o[2][2] = ps[1]
        BY <1>3, <1>8, <3>1
      <4> QED BY <2>1, <3>1, <4>1
    <3>2. CASE j # 2
      <4>1. j - 1 \in 1 .. n /\ j - 1 # 1 /\ j - 1 \in 2 .. n + 1
        BY <1>3, <3>2
      <4>2. /\ o[j][2] = ps[j - 1] /\ o[j - 1][2] = ps[(j - 1) - 1]
            /\ o[j - 1][1] = o[j][1]
        BY <1>3, <1>8, <4>1
      <4> QED BY <2>1, <4>1, <4>2
    <3> QED BY <3>1, <3>2
  <2>3. Train(exact, W, r, o)
    BY <1>7, <2>2 DEF Train
  <2> QED BY <1>7, <1>8, <2>3 DEF Fresh
<1>10. Begins(o)
  <2>1. SUFFICES ASSUME NEW j \in 1 .. n + 1, Inner(o[j][2])
                 PROVE  \E i \in 1 .. j - 1 : /\ o[i][1] = o[j][1]
                                              /\ Opens(o[i][2], o[j][2])
    BY <1>7 DEF Begins
  <2>2. \A i \in 1 .. n : /\ ps[i].type = "Image" /\ ps[i].total = Len(image)
                          /\ ps[i].first <=> i = 1
    BY <1>3, PacketsInOrder DEF ps
  <2>3. j # 1
    BY <1>8, <2>1 DEF Inner
  <2>4. j - 1 \in 1 .. n /\ j \in 2 .. n + 1
    BY <1>3, <2>3
  <2>5. o[j][2] = ps[j - 1] /\ j - 1 # 1
    BY <1>8, <2>1, <2>2, <2>4 DEF Inner
  <2>6. 1 \in 1 .. n /\ 2 \in 2 .. n + 1 /\ 2 \in 1 .. j - 1 /\ 2 \in 1 .. n + 1
    BY <1>3, <2>4, <2>5
  <2>7. o[2][2] = ps[1] /\ o[2][1] = o[j][1]
    BY <1>8, <2>6
  <2>8. Opens(o[2][2], o[j][2])
    BY <2>2, <2>4, <2>5, <2>6, <2>7 DEF Opens
  <2> QED BY <2>6, <2>7, <2>8
<1> QED BY <1>7, <1>8, <1>9, <1>10 DEF o, all, text, ps

\* The packet before one that is not the first to its client.
LEMMA OneBefore ==
    ASSUME NEW m \in Nat \ {0}, NEW x \in Nat, x % m # 0
    PROVE  /\ x \div m \in Nat /\ x % m \in 1 .. m - 1 /\ x - 1 \in Nat
           /\ (x - 1) \div m = x \div m /\ (x - 1) % m = (x % m) - 1
           /\ (x \div m) * m \in Nat /\ (x \div m) * m < x
           /\ ((x \div m) * m) \div m = x \div m /\ ((x \div m) * m) % m = 0
<1>1. /\ x \div m \in Nat /\ x % m \in 0 .. m - 1
      /\ x = (x \div m) * m + (x % m)
  BY Division
<1>2. PICK q \in Nat : q = x \div m
  BY <1>1
<1>3. PICK b \in 1 .. m - 1 : b = x % m
  BY <1>1
<1>4. q * m \in Nat /\ x = q * m + b
  BY <1>1, <1>2, <1>3
<1>5. /\ x - 1 \in Nat /\ x - 1 = q * m + (b - 1)
      /\ b - 1 \in 0 .. m - 1 /\ q * m < x
  BY <1>3, <1>4
<1>6. (x - 1) % m = b - 1 /\ (x - 1) \div m = q
  BY <1>5, Remainder
<1>7. 0 \in 0 .. m - 1 /\ q * m + 0 = q * m
  BY <1>4
<1>8. (q * m) % m = 0 /\ (q * m) \div m = q
  BY <1>7, Remainder
<1> QED BY <1>2, <1>3, <1>4, <1>5, <1>6, <1>8

\* broadCast fills the server's outbox, client by client.
LEMMA BroadCastFresh ==
    ASSUME NEW image \in Images, NEW order \in SetToSeqs(Clients)
    PROVE  LET o == BroadCast(Packets(image), order)
           IN  /\ \A j \in DOMAIN o : o[j][1] \in Clients
               /\ Begins(o)
               /\ \A exact \in BOOLEAN : \A W, r :
                      (exact /\ ~TooManyPackets(Len(image))
                           => image \in W \/ image = << >>)
                      => Fresh(exact, W, r, o)
<1> DEFINE ps == Packets(image)
           o == BroadCast(ps, order)
<1>1. ps \in Seq(Sounds)
  BY PacketsSound
<1>2. PICK m \in Nat : m = Len(ps)
  BY <1>1
<1>3. Cardinality(Clients) \in Nat
  BY RelayAssumption, FS_CardinalityType
<1>4. order \in [1 .. Cardinality(Clients) -> Clients]
  BY DEF SetToSeqs
<1>5. PICK n \in Nat : n = Len(order) /\ order \in [1 .. n -> Clients]
  BY <1>3, <1>4
<1> HIDE DEF ps
<1>6. n * m \in Nat
  BY <1>2, <1>5
<1>7. o = [j \in 1 .. n * m |->
               <<order[((j - 1) \div m) + 1], ps[((j - 1) % m) + 1]>>]
  BY <1>2, <1>5 DEF BroadCast
<1>8. /\ DOMAIN o = 1 .. n * m /\ Len(o) = n * m
      /\ \A j \in 1 .. n * m :
             /\ o[j][1] = order[((j - 1) \div m) + 1]
             /\ o[j][2] = ps[((j - 1) % m) + 1]
      /\ o # << >> => 1 \in 1 .. n * m /\ Head(o) = o[1]
  BY <1>6, <1>7
<1> HIDE DEF o
<1>9. ASSUME NEW j \in 1 .. n * m
      PROVE  /\ m # 0 /\ j - 1 \in Nat
             /\ (j - 1) \div m \in 0 .. n - 1 /\ (j - 1) % m \in 0 .. m - 1
  <2>1. j - 1 \in 0 .. n * m - 1
    BY <1>6
  <2>2. /\ m # 0
        /\ (j - 1) \div m \in 0 .. n - 1 /\ (j - 1) % m \in 0 .. m - 1
    BY <1>2, <1>5, <2>1, Quotient
  <2> QED BY <2>1, <2>2
<1>10. ASSUME NEW j \in 1 .. n * m PROVE o[j][1] \in Clients
  <2>1. ((j - 1) \div m) + 1 \in 1 .. n
    BY <1>5, <1>9
  <2> QED BY <1>5, <1>8, <2>1
<1>11. ASSUME NEW exact \in BOOLEAN, NEW W, NEW r,
             exact /\ ~TooManyPackets(Len(image)) => image \in W \/ image = << >>
      PROVE  Fresh(exact, W, r, o)
  <2>1. \A i \in 1 .. m : /\ i = 1 => Starts(exact, W, ps[i])
                          /\ i # 1 => Continues(exact, W, ps[i - 1], ps[i])
    BY <1>2, <1>11, PacketsInOrder DEF ps
  <2>2. ASSUME NEW j \in 1 .. n * m, (j - 1) % m = 0
        PROVE  Starts(exact, W, o[j][2])
    <3>1. o[j][2] = ps[1] /\ 1 \in 1 .. m
      BY <1>2, <1>8, <1>9, <2>2
    <3> QED BY <2>1, <3>1
  <2>3. ASSUME NEW j \in 2 .. n * m, (j - 1) % m # 0
        PROVE  o[j - 1][1] = o[j][1] /\ Continues(exact, W, o[j - 1][2], o[j][2])
    <3> DEFINE b == (j - 1) % m
    <3>1. /\ j \in 1 .. n * m /\ j - 1 \in 1 .. n * m
          /\ m \in Nat \ {0} /\ j - 1 \in Nat
      BY <1>2, <1>6, <1>9
    <3>2. /\ b \in 1 .. m - 1 /\ ((j - 1) - 1) % m = b - 1
          /\ ((j - 1) - 1) \div m = (j - 1) \div m
      BY <2>3, <3>1, OneBefore
    <3>3. /\ o[j][2] = ps[b + 1] /\ o[j - 1][2] = ps[(b - 1) + 1]
          /\ o[j - 1][1] = o[j][1]
      <4>1. /\ o[j][1] = order[((j - 1) \div m) + 1] /\ o[j][2] = ps[b + 1]
            /\ o[j - 1][1] = order[(((j - 1) - 1) \div m) + 1]
            /\ o[j - 1][2] = ps[(((j - 1) - 1) % m) + 1]
        BY <1>8, <3>1
      <4> QED BY <3>2, <4>1
    <3> HIDE DEF b
    <3>4. b + 1 \in 1 .. m /\ b + 1 # 1 /\ (b + 1) - 1 = (b - 1) + 1
      BY <1>2, <3>2
    <3> QED BY <2>1, <3>3, <3>4
  <2>4. Train(exact, W, r, o)
    <3>1. SUFFICES ASSUME NEW j \in 2 .. n * m, o[j][1] = r
                   PROVE  \/ Starts(exact, W, o[j][2])
                          \/ /\ o[j - 1][1] = r
                             /\ Continues(exact, W, o[j - 1][2], o[j][2])
      BY <1>8 DEF Train
    <3>2. j \in 1 .. n * m
      BY <1>6
    <3>3. CASE (j - 1) % m = 0
      BY <2>2, <3>2, <3>3
    <3>4. CASE (j - 1) % m # 0
      BY <2>3, <3>1, <3>4
    <3> QED BY <3>3, <3>4
  <2>5. ASSUME o # << >> PROVE Starts(exact, W, Head(o)[2])
    <3>1. 1 \in 1 .. n * m /\ Head(o) = o[1]
      BY <1>8, <2>5
    <3>2. m \in Nat \ {0} /\ 0 \in 0 .. m - 1 /\ 0 * m + 0 = 0 /\ 1 - 1 = 0
      BY <1>2, <1>9, <3>1
    <3>3. (0 * m + 0) % m = 0
      BY <3>2, Remainder
    <3>4. (1 - 1) % m = 0
      BY <3>2, <3>3
    <3> QED BY <2>2, <3>1, <3>4
  <2> QED BY <2>4, <2>5 DEF Fresh
<1>12. Begins(o)
  <2>1. SUFFICES ASSUME NEW j \in 1 .. n * m, Inner(o[j][2])
                 PROVE  \E i \in 1 .. j - 1 : /\ o[i][1] = o[j][1]
                                              /\ Opens(o[i][2], o[j][2])
    BY <1>8 DEF Begins
  <2>2. \A i \in 1 .. m : /\ ps[i].type = "Image" /\ ps[i].total = Len(image)
                          /\ ps[i].first <=> i = 1
    BY <1>2, PacketsInOrder DEF ps
  <2> DEFINE b == (j - 1) % m
             first == ((j - 1) \div m) * m + 1
  <2>3. /\ m \in Nat \ {0} /\ j - 1 \in Nat
        /\ b \in 0 .. m - 1 /\ o[j][2] = ps[b + 1]
    BY <1>2, <1>8, <1>9
  <2>4. b # 0
    <3>1. b + 1 \in 1 .. m
      BY <1>2, <2>3
    <3>2. ~ps[b + 1].first
      BY <2>1, <2>3 DEF Inner
    <3> QED BY <2>2, <3>1, <3>2
  <2>5. /\ ((j - 1) \div m) * m \in Nat /\ ((j - 1) \div m) * m < j - 1
        /\ (((j - 1) \div m) * m) \div m = (j - 1) \div m
        /\ (((j - 1) \div m) * m) % m = 0
    BY <2>3, <2>4, OneBefore
  <2>6. first \in 1 .. j - 1 /\ first \in 1 .. n * m
        /\ first - 1 = ((j - 1) \div m) * m
    BY <1>6, <2>3, <2>5
  <2>7. (first - 1) \div m = (j - 1) \div m /\ (first - 1) % m = 0
    BY <2>5, <2>6
  <2> HIDE DEF first
  <2>8. o[first][1] = o[j][1] /\ o[first][2] = ps[1]
    <3>1. /\ o[first][1] = order[((first - 1) \div m) + 1]
          /\ o[first][2] = ps[((first - 1) % m) + 1]
          /\ o[j][1] = order[((j - 1) \div m) + 1]
      BY <1>8, <2>6
    <3> QED BY <2>7, <3>1
  <2>9. 1 \in 1 .. m /\ b + 1 \in 1 .. m
    BY <2>3
  <2>10. Opens(o[first][2], o[j][2])
    <3>1. /\ ps[1].type = "Image" /\ ps[1].first
          /\ ps[1].total = Len(image) /\ ps[b + 1].total = Len(image)
      BY <2>2, <2>9
    <3>2. o[first][2] = ps[1] /\ o[j][2] = ps[b + 1]
      BY <2>3, <2>8
    <3> HIDE DEF o, ps, b
    <3> QED BY <3>1, <3>2 DEF Opens
  <2> QED BY <2>6, <2>8, <2>10
<1> QED BY <1>8, <1>10, <1>11, <1>12 DEF o, ps

\* The timer's text.
LEMMA TickFresh ==
    ASSUME NEW order \in SetToSeqs(Clients)
    PROVE  LET o == BroadCast(<<TextPacket(TestMessage)>>, order)
           IN  /\ \A j \in DOMAIN o : o[j][1] \in Clients
               /\ Begins(o)
               /\ \A exact, W, r : Fresh(exact, W, r, o)
<1> DEFINE text == TextPacket(TestMessage)
           o == BroadCast(<<text>>, order)
<1>1. text.type = "Text"
  BY DEF TextPacket
<1>2. Cardinality(Clients) \in Nat
  BY RelayAssumption, FS_CardinalityType
<1>3. order \in [1 .. Cardinality(Clients) -> Clients]
  BY DEF SetToSeqs
<1>4. PICK n \in Nat : n = Len(order) /\ order \in [1 .. n -> Clients]
  BY <1>2, <1>3
<1> HIDE DEF text
<1>5. Len(<<text>>) = 1 /\ n * 1 = n
  <2>1. Len(<<text>>) = 1
    OBVIOUS
  <2>2. n * 1 = n
    OBVIOUS
  <2> QED BY <2>1, <2>2
<1>6. o = [j \in 1 .. n |->
               <<order[((j - 1) \div 1) + 1], <<text>>[((j - 1) % 1) + 1]>>]
  BY <1>4, <1>5 DEF BroadCast
<1>7. ASSUME NEW j \in 1 .. n
      PROVE  (j - 1) \div 1 = j - 1 /\ (j - 1) % 1 = 0
  BY <1>4
<1>8. \A j \in 1 .. n : o[j][1] \in Clients /\ o[j][2] = text
  BY <1>4, <1>6, <1>7
<1>9. /\ DOMAIN o = 1 .. n /\ Len(o) = n
      /\ o # << >> => 1 \in 1 .. n /\ Head(o) = o[1]
  BY <1>4, <1>6
<1> HIDE DEF o
<1>10. Begins(o)
  BY <1>1, <1>8, <1>9 DEF Begins, Inner
<1>11. ASSUME NEW exact, NEW W, NEW r PROVE Fresh(exact, W, r, o)
  <2>1. \A j \in 2 .. n : j \in 1 .. n
    BY <1>4
  <2>2. Train(exact, W, r, o)
    BY <1>1, <1>8, <1>9, <2>1 DEF Train
  <2> QED BY <1>1, <1>8, <1>9, <2>2 DEF Fresh
<1> QED BY <1>8, <1>9, <1>10, <1>11 DEF o, text

-----------------------------------------------------------------------------
(* What becomes of an outbox *)

Outbox == Seq(Nodes \X Sounds)

LEMMA NoTarget ==
    ASSUME NEW r, NEW o \in Outbox, \A j \in DOMAIN o : o[j][1] # r
    PROVE  /\ \A exact, W, a, s : Leads(exact, W, r, a, s, o)
           /\ \A cap, s : OutOpen(cap, r, s, o)
<1>1. /\ DOMAIN o = 1 .. Len(o) /\ Len(o) \in Nat
      /\ o # << >> => Head(o) = o[1] /\ 1 \in DOMAIN o
  BY DEF Outbox
<1>2. \A j \in 2 .. Len(o) : j \in DOMAIN o
  BY <1>1
<1> QED BY <1>1, <1>2 DEF Leads, Train, OutOpen

LEMMA LeadsMore ==
    ASSUME NEW exact, NEW W, NEW V, W \subseteq V, NEW r, NEW a, NEW s, NEW o,
           Leads(exact, W, r, a, s, o)
    PROVE  Leads(exact, V, r, a, s, o)
BY MoreSources DEF Leads

LEMMA LeadsFresh ==
    ASSUME NEW exact, NEW W, NEW r, NEW a, NEW s \in Seq(Sounds),
           NEW o \in Outbox,
           AllLed(exact, W, a, s), Fresh(exact, W, r, o)
    PROVE  Leads(exact, W, r, a, s, o)
<1>1. o # << >> => Head(o)[2] \in Sounds
  BY DEF Outbox
<1>2. ASSUME o # << >>, Head(o)[1] = r
      PROVE  AllLed(exact, W, a, Append(s, Head(o)[2]))
  BY <1>1, <1>2, LedAppend DEF Fresh
<1> QED BY <1>2 DEF Leads, Fresh

\* The head is sent, and waits for r now, or has nothing to do with r, or is
\* lost without beginning an image.
LEMMA LeadsSend ==
    ASSUME NEW exact, NEW W, NEW r, NEW a, NEW s \in Seq(Sounds),
           NEW o \in Outbox, o # << >>,
           Leads(exact, W, r, a, s, o), AllLed(exact, W, a, s)
    PROVE  /\ Head(o)[1] = r
                  => /\ AllLed(exact, W, a, Append(s, Head(o)[2]))
                     /\ Leads(exact, W, r, a, Append(s, Head(o)[2]), Tail(o))
           /\ Head(o)[1] # r \/ Head(o)[2].type = "Text"
                  => Leads(exact, W, r, a, s, Tail(o))
           /\ exact = FALSE /\ Head(o)[2].type = "Image" /\ ~Head(o)[2].first
                  => Leads(exact, W, r, a, s, Tail(o))
<1> DEFINE t == Tail(o)
           n == Len(o)
           p == Head(o)[2]
<1>1. /\ t \in Outbox /\ n \in Nat /\ n >= 1 /\ Len(t) = n - 1 /\ Head(o) = o[1]
      /\ DOMAIN o = 1 .. n /\ DOMAIN t = 1 .. n - 1
      /\ \A i \in 1 .. n - 1 : t[i] = o[i + 1]
      /\ o[1] \in Nodes \X Sounds
  BY TailFacts DEF Outbox
<1>2. p \in Sounds /\ p = o[1][2]
  BY <1>1
<1>3. t # << >> => /\ Head(t) = t[1] /\ t[1] = o[2] /\ t[1][2] \in Sounds
                   /\ 2 \in 2 .. n
  BY <1>1 DEF Outbox
<1> HIDE DEF t, n, p
<1>4. Train(exact, W, r, t)
  <2>1. SUFFICES ASSUME NEW j \in 2 .. n - 1, t[j][1] = r, t[j][2].type = "Image"
                 PROVE  \/ Starts(exact, W, t[j][2])
                        \/ /\ t[j - 1][1] = r
                           /\ Continues(exact, W, t[j - 1][2], t[j][2])
    BY <1>1 DEF Train
  <2>2. j + 1 \in 2 .. n /\ t[j] = o[j + 1] /\ t[j - 1] = o[(j + 1) - 1]
    BY <1>1
  <2>3. \/ Starts(exact, W, o[j + 1][2])
        \/ /\ o[(j + 1) - 1][1] = r
           /\ Continues(exact, W, o[(j + 1) - 1][2], o[j + 1][2])
    BY <2>1, <2>2 DEF Leads, Train, n
  <2> QED BY <2>2, <2>3
\* The next packet begins an image or continues the one that was sent.
<1>5. ASSUME t # << >>, Head(t)[1] = r, Head(t)[2].type = "Image"
      PROVE  \/ Starts(exact, W, Head(t)[2])
             \/ Head(o)[1] = r /\ Continues(exact, W, p, Head(t)[2])
  <2>1. \/ Starts(exact, W, o[2][2])
        \/ o[2 - 1][1] = r /\ Continues(exact, W, o[2 - 1][2], o[2][2])
    BY <1>3, <1>5 DEF Leads, Train, n
  <2> QED BY <1>1, <1>2, <1>3, <1>5, <2>1
<1>6. t # << >> => Head(t)[2] \in Sounds /\ Head(t)[2].type \in {"Text", "Image"}
  BY <1>3 DEF Sounds, Headed
<1>7. ASSUME Head(o)[1] = r
      PROVE  /\ AllLed(exact, W, a, Append(s, p))
             /\ Leads(exact, W, r, a, Append(s, p), t)
  <2>1. AllLed(exact, W, a, Append(s, p))
    BY <1>7 DEF Leads, p
  <2>2. /\ Append(s, p) \in Seq(Sounds) /\ Append(s, p) # << >>
        /\ Append(s, p)[Len(Append(s, p))] = p
    BY <1>2, AppendFacts
  <2>3. ASSUME t # << >>, Head(t)[1] = r
        PROVE  AllLed(exact, W, a, Append(Append(s, p), Head(t)[2]))
    BY <1>5, <1>6, <2>1, <2>2, <2>3, LedAppend
  <2> QED BY <1>4, <2>1, <2>3 DEF Leads
<1>8. ASSUME Head(o)[1] # r \/ p.type = "Text"
      PROVE  Leads(exact, W, r, a, s, t)
  <2>1. \A q : p.type = "Text" => ~Continues(exact, W, p, q)
    BY DEF Continues
  <2>2. ASSUME t # << >>, Head(t)[1] = r
        PROVE  AllLed(exact, W, a, Append(s, Head(t)[2]))
    BY <1>5, <1>6, <1>8, <2>1, <2>2, LedAppend
  <2> QED BY <1>4, <2>2 DEF Leads
<1>9. ASSUME exact = FALSE, p.type = "Image", ~p.first, Head(o)[1] = r
      PROVE  Leads(exact, W, r, a, s, t)
  <2>1. AllLed(exact, W, a, Append(s, p))
    BY <1>9 DEF Leads, p
  <2>2. ASSUME t # << >>, Head(t)[1] = r
        PROVE  AllLed(exact, W, a, Append(s, Head(t)[2]))
    <3>1. CASE Head(t)[2].type = "Text" \/ Starts(exact, W, Head(t)[2])
      BY <1>6, <2>2, <3>1, LedAppend
    <3>2. CASE Continues(exact, W, p, Head(t)[2])
      BY <1>2, <1>6, <1>9, <2>1, <2>2, <3>2, LedInstead
    <3> QED BY <1>5, <1>6, <2>2, <3>1, <3>2
  <2> QED BY <1>4, <2>2 DEF Leads
<1> QED BY <1>7, <1>8, <1>9 DEF p, t

\* Another process sends to r.
LEMMA LeadsBehind ==
    ASSUME NEW exact, NEW W, NEW r, NEW a, NEW s \in Seq(Sounds),
           NEW o \in Outbox, NEW p \in Sounds,
           Leads(exact, W, r, a, s, o), AllLed(exact, W, a, Append(s, p)),
           \/ p.type = "Text"
           \/ o = << >>
           \/ Head(o)[1] # r
           \/ Head(o)[2].type = "Text"
           \/ Starts(exact, W, Head(o)[2])
    PROVE  Leads(exact, W, r, a, Append(s, p), o)
<1>1. o # << >> => Head(o)[2] \in Sounds
  BY DEF Outbox
<1>2. ASSUME o # << >>, Head(o)[1] = r
      PROVE  AllLed(exact, W, a, Append(Append(s, p), Head(o)[2]))
  BY <1>1, <1>2, LedBehind DEF Leads
<1> QED BY <1>2 DEF Leads

\* r takes a packet.
LEMMA LeadsTail ==
    ASSUME NEW exact, NEW W, NEW r, NEW a, NEW b, NEW s \in Seq(Sounds), s # << >>,
           NEW o \in Outbox, Leads(exact, W, r, a, s, o),
           \/ Head(s).type = "Text" /\ b = a
           \/ /\ Head(s).type = "Image"
              /\ \A q : Continues(exact, W, Head(s), q) => Ready(exact, W, b, q)
    PROVE  Leads(exact, W, r, b, Tail(s), o)
<1>1. o # << >> => Head(o)[2] \in Sounds
  BY DEF Outbox
<1>2. ASSUME o # << >>, Head(o)[1] = r
      PROVE  AllLed(exact, W, b, Append(Tail(s), Head(o)[2]))
  <2> DEFINE q == Head(o)[2]
             t == Append(s, q)
  <2>1. /\ t \in Seq(Sounds) /\ t # << >>
        /\ Head(t) = Head(s) /\ Tail(t) = Append(Tail(s), q)
    BY <1>1, <1>2
  <2>2. AllLed(exact, W, a, t)
    BY <1>2 DEF Leads
  <2> HIDE DEF t, q
  <2>3. AllLed(exact, W, b, Tail(t))
    BY <2>1, <2>2, LedTail
  <2> QED BY <2>1, <2>3 DEF q
<1> QED BY <1>2 DEF Leads

LEMMA OpenFresh ==
    ASSUME NEW o, Begins(o), NEW cap, NEW r, NEW s
    PROVE  OutOpen(cap, r, s, o)
BY DEF Begins, OutOpen

LEMMA OpenSend ==
    ASSUME NEW cap, NEW r, NEW s \in Seq(Sounds), NEW o \in Outbox, o # << >>,
           NetOpen(cap, s), OutOpen(cap, r, s, o)
    PROVE  /\ Head(o)[1] = r
                  => /\ NetOpen(cap, Append(s, Head(o)[2]))
                     /\ OutOpen(cap, r, Append(s, Head(o)[2]), Tail(o))
           /\ Head(o)[1] # r \/ Head(o)[2].type = "Text" \/ ~Head(o)[2].first
                  => OutOpen(cap, r, s, Tail(o))
<1> DEFINE t == Tail(o)
           n == Len(o)
           p == Head(o)[2]
           u == Append(s, p)
           m == Len(s)
<1>1. /\ n \in Nat /\ n >= 1 /\ Head(o) = o[1] /\ o[1] \in Nodes \X Sounds
      /\ DOMAIN o = 1 .. n /\ DOMAIN t = 1 .. n - 1
      /\ \A i \in 1 .. n - 1 : t[i] = o[i + 1]
  BY TailFacts DEF Outbox
<1>2. p \in Sounds /\ p = o[1][2]
  BY <1>1
<1>3. /\ m \in Nat /\ DOMAIN s = 1 .. m /\ DOMAIN u = 1 .. m + 1 /\ u[m + 1] = p
      /\ \A i \in 1 .. m : u[i] = s[i]
  BY <1>2, AppendFacts
<1> HIDE DEF t, n, p, u, m
\* Behind the head, a packet is where it was but for the head.
<1>4. ASSUME NEW j \in 1 .. n - 1, t[j][1] = r, Inner(t[j][2])
      PROVE  \/ t[j][2].total <= cap
             \/ \E i \in 1 .. m : Opens(s[i], t[j][2])
             \/ o[1][1] = r /\ Opens(p, t[j][2])
             \/ \E i \in 1 .. j - 1 : t[i][1] = r /\ Opens(t[i][2], t[j][2])
  <2>1. j + 1 \in DOMAIN o /\ t[j] = o[j + 1]
    BY <1>1
  <2>2. \/ o[j + 1][2].total <= cap
        \/ \E i \in DOMAIN s : Opens(s[i], o[j + 1][2])
        \/ \E i \in 1 .. (j + 1) - 1 : o[i][1] = r /\ Opens(o[i][2], o[j + 1][2])
    BY <1>4, <2>1 DEF OutOpen
  <2>3. ASSUME NEW i \in 1 .. (j + 1) - 1, o[i][1] = r, Opens(o[i][2], t[j][2])
        PROVE  \/ o[1][1] = r /\ Opens(p, t[j][2])
               \/ \E l \in 1 .. j - 1 : t[l][1] = r /\ Opens(t[l][2], t[j][2])
    <3>1. CASE i = 1
      BY <1>2, <2>3, <3>1
    <3>2. CASE i # 1
      <4>1. i - 1 \in 1 .. j - 1 /\ t[i - 1] = o[i]
        BY <1>1, <2>3, <3>2
      <4> QED BY <2>3, <4>1
    <3> QED BY <3>1, <3>2
  <2> QED BY <1>3, <2>1, <2>2, <2>3
<1>5. ASSUME o[1][1] = r, Inner(p)
      PROVE  p.total <= cap \/ \E i \in 1 .. m : Opens(s[i], p)
  <2>1. 1 \in DOMAIN o /\ \A i \in 1 .. 1 - 1 : FALSE
    BY <1>1
  <2> QED BY <1>2, <1>3, <1>5, <2>1 DEF OutOpen
<1>6. ASSUME o[1][1] = r PROVE NetOpen(cap, u)
  <2>1. ASSUME NEW j \in 1 .. m + 1, Inner(u[j])
        PROVE  u[j].total <= cap \/ \E i \in 1 .. j - 1 : Opens(u[i], u[j])
    <3>1. CASE j = m + 1
      <4>1. (m + 1) - 1 = m
        BY <1>3
      <4> QED BY <1>3, <1>5, <1>6, <2>1, <3>1, <4>1
    <3>2. CASE j # m + 1
      <4>1. j \in 1 .. m /\ \A i \in 1 .. j - 1 : i \in 1 .. m
        BY <1>3, <3>2
      <4>2. s[j].total <= cap \/ \E i \in 1 .. j - 1 : Opens(s[i], s[j])
        BY <1>3, <2>1, <4>1 DEF NetOpen
      <4> QED BY <1>3, <4>1, <4>2
    <3> QED BY <3>1, <3>2
  <2> QED BY <1>3, <2>1 DEF NetOpen
<1>7. ASSUME o[1][1] = r PROVE OutOpen(cap, r, u, t)
  <2>1. m + 1 \in DOMAIN u /\ \A i \in 1 .. m : i \in DOMAIN u /\ u[i] = s[i]
    BY <1>3
  <2> QED BY <1>1, <1>3, <1>4, <2>1 DEF OutOpen
<1>8. ASSUME o[1][1] # r \/ p.type = "Text" \/ ~p.first
      PROVE  OutOpen(cap, r, s, t)
  <2>1. \A q : p.type = "Text" \/ ~p.first => ~Opens(p, q)
    BY DEF Opens
  <2> QED BY <1>1, <1>3, <1>4, <1>8, <2>1 DEF OutOpen
<1> QED BY <1>1, <1>6, <1>7, <1>8 DEF t, u, p

LEMMA OpenBehind ==
    ASSUME NEW cap, NEW r, NEW s \in Seq(Sounds), NEW p \in Sounds, NEW o,
           OutOpen(cap, r, s, o)
    PROVE  OutOpen(cap, r, Append(s, p), o)
<1>1. \A i \in DOMAIN s : i \in DOMAIN Append(s, p) /\ Append(s, p)[i] = s[i]
  BY AppendFacts
<1> HIDE DEF OutOpen
<1>2. ASSUME NEW j \in DOMAIN o, \E i \in DOMAIN s : Opens(s[i], o[j][2])
      PROVE  \E i \in DOMAIN Append(s, p) : Opens(Append(s, p)[i], o[j][2])
  BY <1>1, <1>2
<1> QED BY <1>2 DEF OutOpen

LEMMA OpenTail ==
    ASSUME NEW r, NEW s \in Seq(Sounds), s # << >>, NEW o \in Outbox,
           NEW cap \in Nat, NEW more \in Nat, cap <= more,
           Head(s).type = "Image" /\ Head(s).first => Head(s).total <= more
    PROVE  /\ NetOpen(cap, s) => NetOpen(more, Tail(s))
           /\ OutOpen(cap, r, s, o) => OutOpen(more, r, Tail(s), o)
<1> DEFINE t == Tail(s)
           n == Len(s)
<1>1. /\ n \in Nat /\ n >= 1 /\ Head(s) = s[1]
      /\ DOMAIN s = 1 .. n /\ DOMAIN t = 1 .. n - 1
      /\ \A i \in 1 .. n - 1 : t[i] = s[i + 1]
      /\ \A i \in 1 .. n : s[i] \in Sounds
  BY TailFacts
<1>2. \A p \in Sounds : /\ p.total \in Nat
                        /\ p.total <= cap => p.total <= more
  BY DEF Sounds, Headed
<1> HIDE DEF t, n
<1>3. \A q : Opens(s[1], q) => q.total <= more
  BY <1>1 DEF Opens
<1>4. ASSUME NetOpen(cap, s) PROVE NetOpen(more, t)
  <2>1. SUFFICES ASSUME NEW j \in 1 .. n - 1, Inner(t[j])
                 PROVE  t[j].total <= more \/ \E i \in 1 .. j - 1 : Opens(t[i], t[j])
    BY <1>1 DEF NetOpen
  <2>2. j + 1 \in 1 .. n /\ t[j] = s[j + 1] /\ (j + 1) - 1 = j
    BY <1>1
  <2>3. s[j + 1].total <= cap \/ \E i \in 1 .. j : Opens(s[i], s[j + 1])
    BY <1>1, <1>4, <2>1, <2>2 DEF NetOpen
  <2>4. ASSUME NEW i \in 1 .. j, Opens(s[i], s[j + 1])
        PROVE  t[j].total <= more \/ \E l \in 1 .. j - 1 : Opens(t[l], t[j])
    <3>1. CASE i = 1
      BY <1>3, <2>2, <2>4, <3>1
    <3>2. CASE i # 1
      <4>1. i - 1 \in 1 .. j - 1 /\ t[i - 1] = s[i]
        BY <1>1, <3>2
      <4> QED BY <2>2, <2>4, <4>1
    <3> QED BY <3>1, <3>2
  <2> QED BY <1>1, <1>2, <2>2, <2>3, <2>4
<1>5. ASSUME OutOpen(cap, r, s, o) PROVE OutOpen(more, r, t, o)
  <2>1. SUFFICES ASSUME NEW j \in DOMAIN o, o[j][1] = r, Inner(o[j][2])
                 PROVE  \/ o[j][2].total <= more
                        \/ \E i \in DOMAIN t : Opens(t[i], o[j][2])
                        \/ \E i \in 1 .. j - 1 : o[i][1] = r /\ Opens(o[i][2], o[j][2])
    BY DEF OutOpen
  <2>2. o[j][2] \in Sounds
    BY DEF Outbox
  <2>3. ASSUME NEW i \in DOMAIN s, Opens(s[i], o[j][2])
        PROVE  \/ o[j][2].total <= more
               \/ \E l \in DOMAIN t : Opens(t[l], o[j][2])
    <3>1. CASE i = 1
      BY <1>3, <2>3, <3>1
    <3>2. CASE i # 1
      <4>1. i - 1 \in DOMAIN t /\ t[i - 1] = s[i]
        BY <1>1, <3>2
      <4> QED BY <2>3, <4>1
    <3> QED BY <3>1, <3>2
  <2> QED BY <1>2, <1>5, <2>1, <2>2, <2>3 DEF OutOpen
<1> QED BY <1>4, <1>5 DEF t
-----------------------------------------------------------------------------
(* Initially, and when an outbox is filled *)

LEMMA Targets ==
    /\ Server \in Nodes /\ Clients \subseteq Nodes
    /\ \A r \in Nodes : r \in Clients <=> r # Server
BY RelayAssumption DEF Nodes

LEMMA TakenPics ==
    ASSUME Relayed, NEW r
    PROVE  Wholes(r) \in SUBSET Sources(r)
<1>1. \A c \in Clients : pics[c] \in 0 .. MaxPics
  BY DEF Relayed
<1>2. \A c \in Clients : \A k \in 1 .. pics[c] : k \in 1 .. MaxPics
  BY <1>1, RelayAssumption
<1> QED BY <1>2 DEF Wholes, Sources

\* Which screenshot a source is of can be told from its first byte.
LEMMA TakenPic ==
    ASSUME Relayed, NEW r, NEW c \in Clients, NEW k \in 1 .. MaxPics,
           Whole(r, c, k) \in Wholes(r)
    PROVE  k \in 1 .. pics[c]
<1>1. PICK d \in Clients : \E m \in 1 .. pics[d] : Whole(r, c, k) = Whole(r, d, m)
  BY DEF Wholes
<1>2. PICK m \in 1 .. pics[d] : Whole(r, c, k) = Whole(r, d, m)
  BY <1>1
<1>3. m \in 1 .. MaxPics
  <2>1. pics[d] \in 0 .. MaxPics
    BY DEF Relayed
  <2> QED BY <2>1, RelayAssumption
<1>4. 1 \in 1 .. Size[c] /\ 1 \in 1 .. Size[d]
  BY Constants
<1>5. InChunk(1) = 0
  <2>1. 0 * MaxChunk + 1 = 1 /\ 1 \in 1 .. MaxChunk
    BY Constants
  <2>2. InChunk(0 * MaxChunk + 1) = 1 - 1
    BY <2>1, Place
  <2> QED BY <2>1, <2>2
<1>6. Header + InChunk(1) < BufSize
  BY <1>5, FragmentAssumption
<1>7. Whole(r, c, k)[1] = Byte(c, k, 1)
  BY <1>4, <1>6, SourceFacts
<1>8. Whole(r, d, m)[1] = Byte(d, m, 1)
  BY <1>3, <1>4, <1>6, SourceFacts
<1>9. c = d /\ k = m
  BY <1>2, <1>7, <1>8 DEF Byte
<1> QED BY <1>9

LEMMA InitOrder == Init => IInv
<1> SUFFICES ASSUME Init PROVE IInv
  OBVIOUS
<1>1. Relayed /\ Counted
  BY InitRelayed, InitCounted
<1>2. \A r \in Nodes : outbox[r] = << >> /\ net[r] = << >>
  BY DEF Init
<1>3. DOMAIN << >> = {} /\ Len(<< >>) = 0
  OBVIOUS
<1>4. Aims
  BY <1>2, <1>3, Targets DEF Aims
<1>5. OrderInv
  BY <1>2, <1>3 DEF OrderInv, NetLed, OutLed, AllLed, Leads, Train
<1>6. BegunInv
  BY <1>2, <1>3 DEF Init, BegunInv, NetOpen, OutOpen
<1>7. LoneImagesArrive
  BY DEF Init, LoneImagesArrive
<1> QED BY <1>1, <1>4, <1>5, <1>6, <1>7 DEF IInv

\* What is shown stays so as more screenshots are taken.
LEMMA StillShown ==
    ASSUME LoneImagesArrive, UNCHANGED screen,
           mixed => mixed', lost \subseteq lost',
           \A d \in Clients : 1 .. pics[d] \subseteq 1 .. pics'[d]
    PROVE  LoneImagesArrive'
<1> SUFFICES ASSUME NEW c \in Clients, ~mixed', lost' \cap {c, Server} = {}
             PROVE  \/ screen[c] = << >>
                    \/ \E d \in Fitting : \E k \in 1 .. pics'[d] :
                           screen[c] = Arrived(d, k)
                    \/ \E d \in Clients \ Fitting : Len(screen[c]) = Size[d]
  BY DEF LoneImagesArrive
<1>1. ~mixed /\ lost \cap {c, Server} = {}
  OBVIOUS
<1>2. \A d \in Fitting : d \in Clients
  BY DEF Fitting
<1> QED BY <1>1, <1>2 DEF LoneImagesArrive

LEMMA SlotSendOrder ==
    ASSUME IInv, Relayed', NEW c \in Clients, SlotSend(c)
    PROVE  /\ Aims' /\ OrderInv' /\ BegunInv'
           /\ LoneImagesArrive'
<1>1. PICK image \in {<< >>, Screenshot(c, pics[c] + 1)} :
          outbox' = [outbox EXCEPT ![c] =
                        To(Server, <<TextPacket(TestMessage)>> \o Packets(image))]
  BY DEF SlotSend
<1> DEFINE o == To(Server, <<TextPacket(TestMessage)>> \o Packets(image))
<1>2. /\ Relayed /\ pics \in [Clients -> 0 .. MaxPics]
      /\ outbox \in [Nodes -> Outbox] /\ net \in [Nodes -> Seq(Sounds)]
  BY DEF IInv, Relayed, Outbox
<1>3. /\ pics[c] + 1 \in 1 .. MaxPics /\ pics'[c] = pics[c] + 1
      /\ pics' = [pics EXCEPT ![c] = pics[c] + 1]
  BY <1>2, RelayAssumption DEF SlotSend
<1>4. image \in Images
  BY <1>1, <1>3, ScreenshotPlaced, NothingPlaced DEF Pictures
<1>5. /\ \A j \in DOMAIN o : o[j][1] = Server
      /\ Begins(o)
      /\ \A exact \in BOOLEAN : \A W, r :
             (exact /\ ~TooManyPackets(Len(image)) => image \in W \/ image = << >>)
             => Fresh(exact, W, r, o)
  BY <1>4, SlotSendFresh
<1>6. outbox' = [outbox EXCEPT ![c] = o]
  BY <1>1
<1> HIDE DEF o
<1>7. /\ c \in Nodes /\ c # Server /\ outbox'[c] = o /\ o \in Outbox
      /\ \A s \in Nodes : s # c => outbox'[s] = outbox[s]
  <2>1. c \in Nodes /\ c # Server
    BY Targets
  <2>2. outbox'[c] \in Outbox
    BY <2>1 DEF Relayed, Outbox
  <2> QED BY <1>2, <1>6, <2>1, <2>2
<1>8. UNCHANGED <<net, assembly, capacity, alive, screen, lost, headless, mixed>>
  BY DEF SlotSend
<1>9. \A d \in Clients : pics'[d] \in Nat /\ 1 .. pics[d] \subseteq 1 .. pics'[d]
  BY <1>2, <1>3
<1>10. \A r : Wholes(r) \subseteq Wholes(r)'
  BY <1>9 DEF Wholes
<1>11. image \in Wholes(Server)' \/ image = << >>
  <2>1. pics[c] + 1 \in 1 .. pics'[c]
    BY <1>2, <1>3
  <2>2. Screenshot(c, pics[c] + 1) = Whole(Server, c, pics[c] + 1)
    BY DEF Whole
  <2> QED BY <1>1, <2>1, <2>2 DEF Wholes
<1>12. Aims'
  BY <1>5, <1>7, Targets DEF Aims, IInv
<1>13. OrderInv'
  <2> SUFFICES ASSUME NEW exact \in BOOLEAN, NEW r \in Nodes, InOrder(exact, r)'
               PROVE  NetLed(exact, r)' /\ \A s \in Nodes : OutLed(exact, s, r)'
    BY DEF OrderInv
  <2>1. InOrder(exact, r)
    BY <1>8 DEF InOrder
  <2>2. NetLed(exact, r) /\ \A s \in Nodes : OutLed(exact, s, r)
    BY <2>1 DEF OrderInv, IInv
  <2>3. AllLed(exact, Wholes(r)', assembly[r], net[r])
    BY <1>10, <2>2, MoreSources DEF NetLed
  <2>4. ASSUME NEW s \in Nodes
        PROVE  Leads(exact, Wholes(r)', r, assembly[r], net[r], outbox'[s])
    <3>1. CASE s # c
      BY <1>7, <1>10, <2>2, <3>1, LeadsMore DEF OutLed
    <3>2. CASE s = c /\ r = Server
      <4>1. Fresh(exact, Wholes(r)', r, o)
        BY <1>5, <1>11, <3>2
      <4> QED BY <1>2, <1>7, <2>3, <3>2, <4>1, LeadsFresh
    <3>3. CASE s = c /\ r # Server
      BY <1>5, <1>7, <3>3, NoTarget
    <3> QED BY <3>1, <3>2, <3>3
  <2> QED BY <1>8, <2>3, <2>4 DEF NetLed, OutLed
<1>14. BegunInv'
  <2>1. ASSUME NEW r \in alive \ headless, NEW s \in Nodes
        PROVE  OutOpen(capacity[r], r, net[r], outbox'[s])
    <3>1. CASE s # c
      BY <1>7, <2>1, <3>1 DEF BegunInv, IInv
    <3>2. CASE s = c
      BY <1>5, <1>7, <3>2, OpenFresh
    <3> QED BY <3>1, <3>2
  <2> QED BY <1>8, <2>1 DEF BegunInv, IInv
<1>15. LoneImagesArrive'
  BY <1>8, <1>9, StillShown DEF IInv
<1> QED BY <1>12, <1>13, <1>14, <1>15

LEMMA TickOrder ==
    ASSUME IInv, Relayed', Tick
    PROVE  /\ Aims' /\ OrderInv' /\ BegunInv'
           /\ LoneImagesArrive'
<1>1. PICK order \in SetToSeqs(Clients) :
          outbox' = [outbox EXCEPT ![Server] =
                        BroadCast(<<TextPacket(TestMessage)>>, order)]
  BY DEF Tick
<1> DEFINE o == BroadCast(<<TextPacket(TestMessage)>>, order)
<1>2. /\ outbox \in [Nodes -> Outbox] /\ net \in [Nodes -> Seq(Sounds)]
  BY DEF IInv, Relayed, Outbox
<1>3. /\ \A j \in DOMAIN o : o[j][1] \in Clients
      /\ Begins(o)
      /\ \A exact, W, r : Fresh(exact, W, r, o)
  BY TickFresh
<1>4. outbox' = [outbox EXCEPT ![Server] = o]
  BY <1>1
<1> HIDE DEF o
<1>5. /\ outbox'[Server] = o /\ o \in Outbox
      /\ \A s \in Nodes : s # Server => outbox'[s] = outbox[s]
  <2>1. outbox'[Server] \in Outbox
    BY Targets DEF Relayed, Outbox
  <2> QED BY <1>2, <1>4, <2>1, Targets
<1>6. UNCHANGED <<net, assembly, capacity, alive, screen, pics, lost, headless,
                 mixed>>
  BY DEF Tick
<1>7. \A r : Wholes(r)' = Wholes(r)
  BY <1>6 DEF Wholes
<1>8. Aims'
  BY <1>3, <1>5, Targets DEF Aims, IInv
<1>9. OrderInv'
  <2> SUFFICES ASSUME NEW exact \in BOOLEAN, NEW r \in Nodes, InOrder(exact, r)'
               PROVE  NetLed(exact, r)' /\ \A s \in Nodes : OutLed(exact, s, r)'
    BY DEF OrderInv
  <2>1. InOrder(exact, r)
    BY <1>6 DEF InOrder
  <2>2. NetLed(exact, r) /\ \A s \in Nodes : OutLed(exact, s, r)
    BY <2>1 DEF OrderInv, IInv
  <2>3. Leads(exact, Wholes(r), r, assembly[r], net[r], o)
    BY <1>2, <1>3, <1>5, <2>2, LeadsFresh DEF NetLed
  <2> QED BY <1>5, <1>6, <1>7, <2>2, <2>3 DEF NetLed, OutLed
<1>10. BegunInv'
  <2>1. ASSUME NEW r \in alive \ headless, NEW s \in Nodes
        PROVE  OutOpen(capacity[r], r, net[r], outbox'[s])
    <3>1. CASE s # Server
      BY <1>5, <2>1, <3>1 DEF BegunInv, IInv
    <3>2. CASE s = Server
      BY <1>3, <1>5, <3>2, OpenFresh
    <3> QED BY <3>1, <3>2
  <2> QED BY <1>6, <2>1 DEF BegunInv, IInv
<1>11. LoneImagesArrive'
  BY <1>6, StillShown DEF IInv
<1> QED BY <1>8, <1>9, <1>10, <1>11

-----------------------------------------------------------------------------
(* Sending *)

\* What is sent to a process waits for it, or is lost; it is not the first packet
\* of an image then if none such is ever lost.
LEMMA Sent ==
    ASSUME Relayed, NEW s \in Nodes, Send(s),
           NEW r \in Nodes, r \in alive, r \notin headless'
    PROVE  /\ net' \in [Nodes -> Seq(Sounds)]
           /\ \/ /\ Head(outbox[s])[1] = r
                 /\ net'[r] = Append(net[r], Head(outbox[s])[2])
              \/ /\ Head(outbox[s])[1] # r \/ Head(outbox[s])[2].type = "Text"
                 /\ net'[r] = net[r]
              \/ /\ Head(outbox[s])[1] = r /\ Head(outbox[s])[2].type = "Image"
                 /\ ~Head(outbox[s])[2].first
                 /\ r \in lost' /\ net'[r] = net[r]
<1>1. outbox[s] \in Outbox /\ outbox[s] # << >> /\ net \in [Nodes -> Seq(Sounds)]
  BY DEF Relayed, Outbox, Send
<1>2. Head(outbox[s]) \in Nodes \X Sounds
  BY <1>1 DEF Outbox
<1>3. PICK to \in Nodes, p \in Sounds : Head(outbox[s]) = <<to, p>>
  BY <1>2
<1>4. Head(outbox[s])[1] = to /\ Head(outbox[s])[2] = p
  BY <1>3
<1>5. p.type \in {"Text", "Image"}
  BY DEF Sounds, Headed
<1>6. /\ net' = IF to \in alive /\ Len(net[to]) < SocketSize
                THEN [net EXCEPT ![to] = Append(net[to], p)] ELSE net
      /\ to \in alive /\ ~(Len(net[to]) < SocketSize) /\ p.type = "Image"
             => to \in lost' /\ (p.first => to \in headless')
  BY <1>4 DEF Send
<1>7. net' \in [Nodes -> Seq(Sounds)]
  BY SendRelayed DEF Relayed
<1>8. CASE to = r /\ Len(net[to]) < SocketSize
  <2>1. net' = [net EXCEPT ![r] = Append(net[r], p)]
    BY <1>6, <1>8
  <2> QED BY <1>1, <1>4, <1>7, <1>8, <2>1
<1>9. CASE to = r /\ ~(Len(net[to]) < SocketSize)
  <2>1. p.type = "Image" => r \in lost' /\ ~p.first
    BY <1>6, <1>9
  <2>2. net' = net
    BY <1>6, <1>9
  <2> QED BY <1>4, <1>5, <1>7, <1>9, <2>1, <2>2
<1>10. CASE to # r
  <2>1. net'[r] = net[r]
    BY <1>1, <1>6, <1>10
  <2> QED BY <1>4, <1>7, <1>10, <2>1
<1> QED BY <1>8, <1>9, <1>10

\* The first packet of an image that has its place begins it.
LEMMA FirstStarts ==
    ASSUME NEW exact, NEW r, NEW W \in SUBSET Sources(r), NEW a,
           NEW s \in Seq(Sounds), NEW q \in Sounds, q.first, q.type = "Image",
           AllLed(exact, W, a, Append(s, q))
    PROVE  Starts(exact, W, q)
<1> SUFFICES ASSUME exact, ~TooManyPackets(q.total), ~Starts(exact, W, q)
             PROVE  FALSE
  BY DEF Starts
<1>1. /\ Len(s) \in Nat /\ Append(s, q)[Len(s) + 1] = q
      /\ Len(s) + 1 \in DOMAIN Append(s, q)
  BY AppendFacts
<1>2. Led(exact, W, a, Append(s, q), Len(s) + 1)
  BY <1>1 DEF AllLed
<1>3. \E image \in W : \E idx \in Later(image) : q = Packet(image, idx)
  BY <1>1, <1>2 DEF Led, Continues, Ready
<1>4. PICK image \in W : \E idx \in Later(image) : q = Packet(image, idx)
  BY <1>3
<1>5. PICK idx \in Later(image) : q = Packet(image, idx)
  BY <1>4
<1>6. image \in Seq(Bytes)
  BY <1>4, SourceFacts DEF Sources
<1>7. PacketCount(Len(image)) \in Nat
  BY <1>6, PacketCountType
<1>8. idx \in 0 .. PacketCount(Len(image)) - 1 /\ idx # 0
  BY <1>5, <1>7 DEF Later
<1> QED BY <1>5, <1>6, <1>8, PacketFacts

\* Of two processes that send to r, only one is in the middle of an image.
LEMMA OneMidway ==
    ASSUME Relayed, Aims, NEW s \in Nodes, Send(s),
           NEW r \in Nodes, r = Server => ~mixed',
           NEW t \in Nodes, t # s, outbox[t] # << >>,
           Head(outbox[s])[1] = r, Head(outbox[s])[2].type = "Image",
           Head(outbox[t])[1] = r, Head(outbox[t])[2].type = "Image"
    PROVE  Head(outbox[t])[2].first
<1>1. /\ outbox[s] \in Outbox /\ outbox[s] # << >> /\ outbox[t] \in Outbox
  BY DEF Relayed, Outbox, Send
<1>2. \A n \in Nodes : outbox[n] \in Outbox /\ outbox[n] # << >>
          => 1 \in DOMAIN outbox[n] /\ Head(outbox[n]) = outbox[n][1]
  BY DEF Outbox
<1>3. CASE r # Server
  BY <1>1, <1>2, <1>3, Targets DEF Aims
<1>4. CASE r = Server
  <2>1. s # Server /\ t # Server /\ t \in Clients
    BY <1>1, <1>2, <1>4, Targets DEF Aims
  <2>2. ~Midway(t)
    BY <1>4, <2>1 DEF Send
  <2> QED BY <2>2 DEF Midway
<1> QED BY <1>3, <1>4

LEMMA SendOrder ==
    ASSUME IInv, Relayed', NEW s \in Nodes, Send(s)
    PROVE  /\ Aims' /\ OrderInv' /\ BegunInv'
           /\ LoneImagesArrive'
<1> DEFINE to == Head(outbox[s])[1]
           p == Head(outbox[s])[2]
<1>1. /\ Relayed /\ Aims
      /\ outbox \in [Nodes -> Outbox] /\ net \in [Nodes -> Seq(Sounds)]
      /\ outbox[s] \in Outbox /\ outbox[s] # << >>
  BY DEF IInv, Relayed, Outbox, Send
<1>2. /\ Tail(outbox[s]) \in Outbox /\ p \in Sounds
      /\ DOMAIN outbox[s] = 1 .. Len(outbox[s]) /\ Len(outbox[s]) \in Nat
      /\ DOMAIN Tail(outbox[s]) = 1 .. Len(outbox[s]) - 1
      /\ \A j \in 1 .. Len(outbox[s]) - 1 : Tail(outbox[s])[j] = outbox[s][j + 1]
  BY <1>1, TailFacts DEF Outbox
<1>3. /\ outbox'[s] = Tail(outbox[s])
      /\ \A t \in Nodes : t # s => outbox'[t] = outbox[t]
  BY <1>1 DEF Send
<1>4. UNCHANGED <<assembly, capacity, alive, screen, pics>>
  BY DEF Send
<1>5. lost \subseteq lost' /\ headless \subseteq headless' /\ (mixed => mixed')
  BY DEF Send
<1>6. \A r : Wholes(r)' = Wholes(r)
  BY <1>4 DEF Wholes
<1>7. p.type \in {"Text", "Image"}
  BY <1>2 DEF Sounds, Headed
<1>8. Aims'
  <2>1. \A j \in 1 .. Len(outbox[s]) - 1 : j + 1 \in DOMAIN outbox[s]
    BY <1>2
  <2>2. \A j \in DOMAIN outbox'[s] :
            \E i \in DOMAIN outbox[s] : outbox'[s][j] = outbox[s][i]
    BY <1>2, <1>3, <2>1
  <2>3. \A t \in Nodes : \A j \in DOMAIN outbox'[t] :
            \E i \in DOMAIN outbox[t] : outbox'[t][j] = outbox[t][i]
    BY <1>3, <2>2
  <2>4. ASSUME NEW c \in Clients, NEW j \in DOMAIN outbox'[c]
        PROVE  outbox'[c][j][1] = Server
    BY <1>1, <2>3, Targets DEF Aims
  <2>5. ASSUME NEW j \in DOMAIN outbox'[Server]
        PROVE  outbox'[Server][j][1] \in Clients
    BY <1>1, <2>3, Targets DEF Aims
  <2> QED BY <2>4, <2>5 DEF Aims
<1> HIDE DEF p, to
<1>9. OrderInv'
  <2> SUFFICES ASSUME NEW exact \in BOOLEAN, NEW r \in Nodes, InOrder(exact, r)'
               PROVE  NetLed(exact, r)' /\ \A t \in Nodes : OutLed(exact, t, r)'
    BY DEF OrderInv
  <2> DEFINE W == Wholes(r)
             a == assembly[r]
             q == net[r]
  <2>1. /\ InOrder(exact, r) /\ r \in alive /\ r \notin headless'
        /\ r = Server => ~mixed'
        /\ r \in lost' => exact = FALSE
    BY <1>4, <1>5 DEF InOrder
  <2>2. /\ AllLed(exact, W, a, q)
        /\ \A t \in Nodes : Leads(exact, W, r, a, q, outbox[t])
    BY <2>1 DEF OrderInv, IInv, NetLed, OutLed
  <2>3. W \in SUBSET Sources(r) /\ q \in Seq(Sounds)
    BY <1>1, TakenPics
  <2> HIDE DEF W, a, q
  <2>4. /\ to = r => /\ AllLed(exact, W, a, Append(q, p))
                     /\ Leads(exact, W, r, a, Append(q, p), Tail(outbox[s]))
        /\ to # r \/ p.type = "Text" => Leads(exact, W, r, a, q, Tail(outbox[s]))
        /\ exact = FALSE /\ p.type = "Image" /\ ~p.first
               => Leads(exact, W, r, a, q, Tail(outbox[s]))
    BY <1>1, <2>2, <2>3, LeadsSend DEF to, p
  <2>5. ASSUME to = r, NEW t \in Nodes, t # s
        PROVE  Leads(exact, W, r, a, Append(q, p), outbox[t])
    <3>1. outbox[t] \in Outbox
      BY <1>1
    <3>2. ASSUME p.type = "Image", outbox[t] # << >>,
                 Head(outbox[t])[1] = r, Head(outbox[t])[2].type = "Image"
          PROVE  Starts(exact, W, Head(outbox[t])[2])
      <4>1. Head(outbox[t])[2].first
        BY <1>1, <2>1, <2>5, <3>2, OneMidway DEF to, p
      <4>2. AllLed(exact, W, a, Append(q, Head(outbox[t])[2]))
        BY <2>2, <3>2 DEF Leads
      <4>3. Head(outbox[t])[2] \in Sounds
        BY <3>1, <3>2 DEF Outbox
      <4> QED BY <2>3, <3>2, <4>1, <4>2, <4>3, FirstStarts
    <3>3. outbox[t] # << >> => Head(outbox[t])[2].type \in {"Text", "Image"}
      BY <3>1 DEF Outbox, Sounds, Headed
    <3> QED BY <1>2, <1>7, <2>2, <2>3, <2>4, <2>5, <3>1, <3>2, <3>3, LeadsBehind DEF p
  <2>6. CASE to = r /\ net'[r] = Append(q, p)
    <3>1. AllLed(exact, W, a, net'[r])
      BY <2>4, <2>6
    <3>2. \A t \in Nodes : Leads(exact, W, r, a, net'[r], outbox'[t])
      BY <1>3, <2>4, <2>5, <2>6
    <3> QED BY <1>4, <1>6, <3>1, <3>2 DEF NetLed, OutLed, W, a
  <2>7. CASE /\ \/ to # r \/ p.type = "Text"
                \/ exact = FALSE /\ p.type = "Image" /\ ~p.first
             /\ net'[r] = q
    <3>1. \A t \in Nodes : Leads(exact, W, r, a, net'[r], outbox'[t])
      BY <1>3, <2>2, <2>4, <2>7
    <3> QED BY <1>4, <1>6, <2>2, <2>7, <3>1 DEF NetLed, OutLed, W, a
  <2>8. \/ to = r /\ net'[r] = Append(q, p)
        \/ (to # r \/ p.type = "Text") /\ net'[r] = q
        \/ exact = FALSE /\ p.type = "Image" /\ ~p.first /\ net'[r] = q
    BY <1>1, <2>1, Sent DEF to, p, q
  <2> QED BY <2>6, <2>7, <2>8
<1>10. BegunInv'
  <2> SUFFICES ASSUME NEW r \in Nodes, r \in alive, r \notin headless'
               PROVE  /\ NetOpen(capacity[r], net'[r])
                      /\ \A t \in Nodes :
                             OutOpen(capacity[r], r, net'[r], outbox'[t])
    <3>1. alive \subseteq Nodes
      BY DEF IInv, Counted
    <3> QED BY <1>4, <3>1 DEF BegunInv
  <2> DEFINE q == net[r]
             cap == capacity[r]
  <2>1. /\ NetOpen(cap, q) /\ q \in Seq(Sounds)
        /\ \A t \in Nodes : OutOpen(cap, r, q, outbox[t])
    BY <1>1, <1>5 DEF BegunInv, IInv
  <2> HIDE DEF q, cap
  <2>2. /\ to = r => /\ NetOpen(cap, Append(q, p))
                     /\ OutOpen(cap, r, Append(q, p), Tail(outbox[s]))
        /\ to # r \/ p.type = "Text" \/ ~p.first
               => OutOpen(cap, r, q, Tail(outbox[s]))
    BY <1>1, <2>1, OpenSend DEF to, p
  <2>3. \A t \in Nodes : OutOpen(cap, r, Append(q, p), outbox[t])
    BY <1>2, <2>1, OpenBehind DEF p
  <2>4. \/ to = r /\ net'[r] = Append(q, p)
        \/ (to # r \/ p.type = "Text" \/ ~p.first) /\ net'[r] = q
    BY <1>1, Sent DEF to, p, q
  <2>5. CASE to = r /\ net'[r] = Append(q, p)
    BY <1>3, <2>2, <2>3, <2>5 DEF cap
  <2>6. CASE (to # r \/ p.type = "Text" \/ ~p.first) /\ net'[r] = q
    BY <1>3, <2>1, <2>2, <2>6 DEF cap
  <2> QED BY <2>4, <2>5, <2>6
<1>11. LoneImagesArrive'
  BY <1>4, <1>5, StillShown DEF IInv
<1> QED BY <1>8, <1>9, <1>10, <1>11

-----------------------------------------------------------------------------
(* Receiving *)

\* The first packet of a queue begins an image or finds the buffer ready.
LEMMA HeadLed ==
    ASSUME NEW exact, NEW W, NEW a, NEW s \in Seq(Sounds), s # << >>,
           AllLed(exact, W, a, s), Head(s).type = "Image"
    PROVE  Starts(exact, W, Head(s)) \/ Ready(exact, W, a, Head(s))
<1>1. 1 \in DOMAIN s /\ Head(s) = s[1] /\ \A i \in 1 .. 1 - 1 : FALSE
  BY TailFacts
<1>2. Led(exact, W, a, s, 1)
  BY <1>1 DEF AllLed
<1> QED BY <1>1, <1>2 DEF Led

\* So much is allocated for it then.
LEMMA HeadOpen ==
    ASSUME NEW cap \in Nat, NEW s \in Seq(Sounds), s # << >>,
           NetOpen(cap, s), Head(s).type = "Image", ~Head(s).first
    PROVE  Head(s).total <= cap
<1>1. 1 \in DOMAIN s /\ Head(s) = s[1] /\ \A i \in 1 .. 1 - 1 : FALSE
  BY TailFacts
<1> QED BY <1>1 DEF NetOpen, Inner

LEMMA ReceiveTextOrder ==
    ASSUME IInv, Relayed', NEW n \in Nodes, ReceiveText(n)
    PROVE  /\ Aims' /\ OrderInv' /\ BegunInv'
           /\ LoneImagesArrive'
<1>1. /\ outbox \in [Nodes -> Outbox] /\ net \in [Nodes -> Seq(Sounds)]
      /\ net[n] # << >> /\ Head(net[n]).type = "Text"
      /\ net' = [net EXCEPT ![n] = Tail(net[n])]
  BY DEF IInv, Relayed, Outbox, ReceiveText
<1>2. UNCHANGED <<outbox, assembly, capacity, alive, screen, pics, lost, headless,
                 mixed>>
  BY DEF ReceiveText
<1>3. \A r : Wholes(r)' = Wholes(r)
  BY <1>2 DEF Wholes
<1>4. net'[n] = Tail(net[n]) /\ \A r \in Nodes : r # n => net'[r] = net[r]
  BY <1>1
<1>5. Aims'
  BY <1>2 DEF Aims, IInv
<1>6. OrderInv'
  <2> SUFFICES ASSUME NEW exact \in BOOLEAN, NEW r \in Nodes, InOrder(exact, r)'
               PROVE  NetLed(exact, r)' /\ \A s \in Nodes : OutLed(exact, s, r)'
    BY DEF OrderInv
  <2>1. InOrder(exact, r)
    BY <1>2 DEF InOrder
  <2>2. NetLed(exact, r) /\ \A s \in Nodes : OutLed(exact, s, r)
    BY <2>1 DEF OrderInv, IInv
  <2>3. CASE r # n
    BY <1>2, <1>3, <1>4, <2>2, <2>3 DEF NetLed, OutLed
  <2>4. CASE r = n
    <3>1. AllLed(exact, Wholes(r), assembly[r], Tail(net[r]))
      BY <1>1, <2>2, <2>4, LedTail DEF NetLed
    <3>2. \A s \in Nodes :
              Leads(exact, Wholes(r), r, assembly[r], Tail(net[r]), outbox[s])
      BY <1>1, <2>2, <2>4, LeadsTail DEF OutLed
    <3> QED BY <1>2, <1>3, <1>4, <2>4, <3>1, <3>2 DEF NetLed, OutLed
  <2> QED BY <2>3, <2>4
<1>7. BegunInv'
  <2> SUFFICES ASSUME NEW r \in alive \ headless
               PROVE  /\ NetOpen(capacity[r], net'[r])
                      /\ \A s \in Nodes : OutOpen(capacity[r], r, net'[r], outbox[s])
    BY <1>2 DEF BegunInv
  <2>1. r \in Nodes /\ capacity[r] \in Nat
    BY DEF IInv, Counted
  <2>2. /\ NetOpen(capacity[r], net[r])
        /\ \A s \in Nodes : OutOpen(capacity[r], r, net[r], outbox[s])
    BY DEF BegunInv, IInv
  <2>3. CASE r # n
    BY <1>4, <2>1, <2>2, <2>3
  <2>4. CASE r = n
    <3>1. /\ net[r] \in Seq(Sounds) /\ net[r] # << >> /\ net'[r] = Tail(net[r])
          /\ Head(net[r]).type # "Image" /\ capacity[r] <= capacity[r]
      BY <1>1, <1>4, <2>1, <2>4
    <3>2. \A s \in Nodes : /\ NetOpen(capacity[r], Tail(net[r]))
                           /\ OutOpen(capacity[r], r, Tail(net[r]), outbox[s])
      BY <1>1, <2>1, <2>2, <3>1, OpenTail
    <3> QED BY <2>1, <3>1, <3>2
  <2> QED BY <2>3, <2>4
<1>8. LoneImagesArrive'
  BY <1>2, StillShown DEF IInv
<1> QED BY <1>5, <1>6, <1>7, <1>8

\* What the handler of an image's packet does to the variables.
LEMMA Taken ==
    ASSUME IInv, NEW n \in Nodes, ReceiveImage(n)
    PROVE  LET p == Head(net[n])
               image == After(assembly[n], p, buffer[n])
           IN  /\ n \in alive /\ net[n] \in Seq(Sounds) /\ net[n] # << >>
               /\ p \in Sounds /\ p.type = "Image"
               /\ p.total \in Nat /\ Sized(p.total)
               /\ image \in Pictures
               /\ assembly[n] \in Seq(Bytes) /\ capacity[n] \in Nat
               /\ net'[n] = Tail(net[n])
               /\ \A r \in Nodes : r # n => net'[r] = net[r]
               /\ assembly'[n] = (IF p.last THEN << >> ELSE image)
               /\ \A r \in Nodes : r # n => assembly'[r] = assembly[r]
               /\ capacity'[n] \in Nat /\ capacity[n] <= capacity'[n]
               /\ p.first => p.total <= capacity'[n]
               /\ \A r \in Nodes : r # n => capacity'[r] = capacity[r]
               /\ UNCHANGED <<pics, lost, headless, mixed>>
               /\ \/ outbox' = outbox
                  \/ /\ n = Server /\ p.last
                     /\ \E order \in SetToSeqs(Clients) :
                            outbox' = [outbox EXCEPT ![n] =
                                          BroadCast(Packets(image), order)]
               /\ \/ screen' = screen
                  \/ /\ n # Server /\ p.last
                     /\ screen' = [screen EXCEPT ![n] = image]
               /\ \/ alive' = alive
                  \/ /\ alive' = alive \ {n}
                     /\ \/ ~(CopyEnd(p) <= capacity'[n])
                        \/ n # Server /\ p.last /\ ~(Len(image) >= Display)
<1> DEFINE p == Head(net[n])
           begun == Begun(assembly[n], p)
           image == After(assembly[n], p, buffer[n])
           cap == IF Len(begun) > capacity[n] THEN Len(begun) ELSE capacity[n]
<1>1. /\ Relayed /\ Counted /\ n \in alive
      /\ net[n] \in Seq(Sounds) /\ net[n] # << >>
      /\ p.type = "Image"
  BY DEF IInv, Relayed, ReceiveImage
<1>2. /\ p \in Sounds /\ buffer[n] \in Buffers
      /\ buffer'[n] = Overlay(buffer[n], p.body)
  BY <1>1, Received DEF ReceiveImage
<1>3. p.total \in Nat /\ Sized(p.total)
  BY <1>1, <1>2 DEF Sounds, Sound, Headed
<1>4. assembly[n] \in Pictures /\ begun \in Pictures
  <2>1. assembly[n] \in Pictures
    BY <1>1 DEF Relayed
  <2> QED BY <1>1, <1>2, <2>1, BegunPlaced
<1>5. /\ image = Copied(begun, p, buffer'[n])
      /\ image \in Pictures
  BY <1>1, <1>2, <1>4, CopiedPlaced DEF After
<1>6. assembly[n] \in Seq(Bytes) /\ Len(begun) \in Nat /\ capacity[n] \in Nat
  BY <1>1, <1>4 DEF Pictures, Images, Counted
<1>7. p.first => Len(begun) = p.total
  BY <1>3 DEF Begun
<1>8. /\ net' = [net EXCEPT ![n] = Tail(@)]
      /\ capacity' = [capacity EXCEPT ![n] = cap]
      /\ assembly' = [assembly EXCEPT ![n] = IF p.last THEN << >> ELSE image]
      /\ UNCHANGED <<pics, lost, headless, mixed>>
  BY <1>5 DEF ReceiveImage, Cleared
<1>9. \/ outbox' = outbox
       \/ /\ n = Server /\ p.last
          /\ \E order \in SetToSeqs(Clients) :
                 outbox' = [outbox EXCEPT ![n] = BroadCast(Packets(image), order)]
  BY <1>5, Zenon DEF ReceiveImage
<1>10. \/ screen' = screen
       \/ /\ n # Server /\ p.last
          /\ screen' = [screen EXCEPT ![n] = image]
  BY <1>5, Zenon DEF ReceiveImage
<1>11. \/ alive' = alive
       \/ /\ alive' = alive \ {n}
          /\ \/ FALSE \in Outcomes(CopyEnd(p), cap)
             \/ n # Server /\ p.last /\ FALSE \in ShowImage(image)
  <2>1. PICK ok \in Outcomes(CopyEnd(p), cap) :
            \/ ~ok /\ alive' = alive \ {n}
            \/ alive' = alive
            \/ /\ n # Server /\ p.last
               /\ \E shown \in ShowImage(Copied(begun, p, buffer'[n])) :
                      alive' = IF shown THEN alive ELSE alive \ {n}
    BY Zenon DEF ReceiveImage
  <2>2. ok \in BOOLEAN /\ \A shown \in ShowImage(image) : shown \in BOOLEAN
    BY DEF Outcomes, ShowImage
  <2>3. ~ok => FALSE \in Outcomes(CopyEnd(p), cap)
    BY <2>2, Zenon
  <2>4. ASSUME NEW shown \in ShowImage(image),
               alive' = IF shown THEN alive ELSE alive \ {n}
        PROVE  \/ alive' = alive
               \/ alive' = alive \ {n} /\ FALSE \in ShowImage(image)
    <3>1. shown = TRUE \/ shown = FALSE
      BY <2>2
    <3>2. CASE shown = TRUE
      BY <2>4, <3>2
    <3>3. CASE shown = FALSE
      BY <2>4, <3>3
    <3> QED BY <3>1, <3>2, <3>3
  <2>5. \A shown : shown \in ShowImage(Copied(begun, p, buffer'[n]))
                      => shown \in ShowImage(image)
    BY <1>5
  <2> HIDE DEF p, begun, image, cap
  <2> QED BY <2>1, <2>3, <2>4, <2>5, Zenon
<1> HIDE DEF p, begun, image
<1>12. cap \in Nat /\ capacity[n] <= cap /\ (p.first => p.total <= cap)
  BY <1>6, <1>7
<1> HIDE DEF cap
<1>13. net'[n] = Tail(net[n]) /\ \A r \in Nodes : r # n => net'[r] = net[r]
  BY <1>1, <1>8 DEF Relayed
<1>14. /\ assembly'[n] = (IF p.last THEN << >> ELSE image)
       /\ \A r \in Nodes : r # n => assembly'[r] = assembly[r]
  BY <1>1, <1>8 DEF Relayed
<1>15. capacity'[n] = cap /\ \A r \in Nodes : r # n => capacity'[r] = capacity[r]
  BY <1>1, <1>8 DEF Counted
<1>16. FALSE \in Outcomes(CopyEnd(p), cap) => ~(CopyEnd(p) <= cap)
  BY DEF Outcomes
<1>17. FALSE \in ShowImage(image) => ~(Len(image) >= Display)
  BY DEF ShowImage
<1> QED BY <1>1, <1>2, <1>3, <1>5, <1>6, <1>8, <1>9, <1>10, <1>11, <1>12,
       <1>13, <1>14, <1>15, <1>16, <1>17 DEF p, image

\* What is assembled in order, and when nothing was mixed.
LEMMA InOrderTaken ==
    ASSUME IInv, NEW n \in Nodes, ReceiveImage(n),
           NEW exact \in BOOLEAN, InOrder(exact, n)
    PROVE  LET p == Head(net[n])
               image == After(assembly[n], p, buffer[n])
           IN  /\ \A q : Continues(exact, Wholes(n), p, q)
                             => Ready(exact, Wholes(n), image, q)
               /\ Len(image) = p.total
               /\ exact = TRUE /\ p.last /\ ~TooManyPackets(p.total)
                      => \E c \in Clients : \E k \in 1 .. pics[c] :
                             p.total = Size[c] /\ image = Arrived(c, k)
<1> DEFINE p == Head(net[n])
           W == Wholes(n)
           a == assembly[n]
           image == After(a, p, buffer[n])
<1>1. /\ net[n] \in Seq(Sounds) /\ net[n] # << >>
      /\ p \in Sounds /\ p.type = "Image" /\ a \in Seq(Bytes)
  BY Taken
<1>2. Relayed /\ W \in SUBSET Sources(n)
  BY TakenPics DEF IInv
<1>3. AllLed(exact, W, a, net[n])
  BY DEF IInv, OrderInv, NetLed
<1> HIDE DEF W, a
<1>4. Starts(exact, W, p) \/ Ready(exact, W, a, p)
  BY <1>1, <1>3, HeadLed
<1> HIDE DEF p
<1>5. ASSUME NEW q, Continues(exact, W, p, q)
      PROVE  Ready(exact, W, image, q)
  BY <1>1, <1>2, <1>4, <1>5, ThenReady
<1>6. Len(image) = p.total
  <2>1. W \in SUBSET Sources(n) /\ exact \in BOOLEAN
    BY <1>2
  <2>2. Len(After(a, p, buffer[n])) = p.total
    BY <1>1, <1>4, <2>1, Assembled, ZenonT(60)
  <2> QED BY <2>2
<1>7. ASSUME exact = TRUE, p.last, ~TooManyPackets(p.total)
      PROVE  \E c \in Clients : \E k \in 1 .. pics[c] :
                 p.total = Size[c] /\ image = Arrived(c, k)
  <2>1. Complete(n, W, p, image)
    BY <1>1, <1>2, <1>4, <1>7, ThenComplete
  <2>2. PICK c \in Clients : \E k \in 1 .. MaxPics :
            Whole(n, c, k) \in W /\ p.total = Size[c] /\ image = Arrived(c, k)
    BY <2>1 DEF Complete
  <2>3. PICK k \in 1 .. MaxPics :
            Whole(n, c, k) \in W /\ p.total = Size[c] /\ image = Arrived(c, k)
    BY <2>2
  <2>4. k \in 1 .. pics[c]
    BY <1>2, <2>3, TakenPic DEF W
  <2> QED BY <2>3, <2>4
<1> HIDE DEF image
<1> QED BY <1>5, <1>6, <1>7 DEF p, W, a, image

LEMMA ReceiveImageAims ==
    ASSUME IInv, NEW n \in Nodes, ReceiveImage(n)
    PROVE  Aims'
<1> DEFINE image == After(assembly[n], Head(net[n]), buffer[n])
<1>1. /\ image \in Images
      /\ \/ outbox' = outbox
         \/ /\ n = Server
            /\ \E order \in SetToSeqs(Clients) :
                   outbox' = [outbox EXCEPT ![n] = BroadCast(Packets(image), order)]
  BY Taken DEF Pictures
<1>2. outbox \in [Nodes -> Outbox]
  BY DEF IInv, Relayed, Outbox
<1> HIDE DEF image
<1>3. CASE outbox' = outbox
  BY <1>3 DEF Aims, IInv
<1>4. ASSUME NEW order \in SetToSeqs(Clients), n = Server,
             outbox' = [outbox EXCEPT ![n] = BroadCast(Packets(image), order)]
      PROVE  Aims'
  <2>1. /\ outbox'[Server] = BroadCast(Packets(image), order)
        /\ \A c \in Clients : outbox'[c] = outbox[c]
    BY <1>2, <1>4, Targets
  <2>2. \A j \in DOMAIN outbox'[Server] : outbox'[Server][j][1] \in Clients
    BY <1>1, <2>1, BroadCastFresh
  <2> QED BY <2>1, <2>2 DEF Aims, IInv
<1> QED BY <1>1, <1>3, <1>4

\* The server's broadcast of what it has assembled.
LEMMA BroadCastLeads ==
    ASSUME IInv, Relayed', NEW n \in Nodes, ReceiveImage(n),
           outbox' # outbox,
           NEW exact \in BOOLEAN, NEW r \in Nodes, r \in alive, InOrder(exact, r),
           AllLed(exact, Wholes(r), assembly[r], net[r])
    PROVE  /\ n = Server
           /\ \A s \in Nodes : s # n => outbox'[s] = outbox[s]
           /\ r # n => Leads(exact, Wholes(r), r, assembly[r], net[r], outbox'[n])
           /\ r = n => \A b, t : Leads(exact, Wholes(r), r, b, t, outbox'[n])
<1> DEFINE p == Head(net[n])
           image == After(assembly[n], p, buffer[n])
           o == outbox'[n]
<1>1. /\ n \in alive /\ image \in Images /\ n = Server /\ p.last
      /\ \E order \in SetToSeqs(Clients) :
             outbox' = [outbox EXCEPT ![n] = BroadCast(Packets(image), order)]
  BY Taken DEF Pictures
<1>2. PICK order \in SetToSeqs(Clients) :
          outbox' = [outbox EXCEPT ![n] = BroadCast(Packets(image), order)]
  BY <1>1
<1> HIDE DEF image
<1>3. /\ o \in Outbox /\ o = BroadCast(Packets(image), order)
      /\ \A s \in Nodes : s # n => outbox'[s] = outbox[s]
      /\ net[r] \in Seq(Sounds)
  <2>1. outbox \in [Nodes -> Outbox] /\ o \in Outbox /\ net[r] \in Seq(Sounds)
    BY DEF IInv, Relayed, Outbox
  <2> QED BY <1>2, <2>1
<1> HIDE DEF o
<1>4. /\ \A j \in DOMAIN o : o[j][1] \in Clients
      /\ \A W : (exact /\ ~TooManyPackets(Len(image))
                     => image \in W \/ image = << >>)
                => Fresh(exact, W, r, o)
  BY <1>1, <1>3, BroadCastFresh
<1>5. ASSUME r = n, NEW b, NEW t PROVE Leads(exact, Wholes(r), r, b, t, o)
  BY <1>1, <1>3, <1>4, <1>5, NoTarget, Targets
<1>6. ASSUME r # n PROVE Leads(exact, Wholes(r), r, assembly[r], net[r], o)
  <2>1. ASSUME exact = TRUE, ~TooManyPackets(Len(image)) PROVE image \in Wholes(r)
    <3>1. InOrder(TRUE, n) /\ TRUE \in BOOLEAN
      BY <1>1, <2>1 DEF InOrder, IInv, Counted
    <3>2. /\ Len(image) = p.total
          /\ p.last /\ ~TooManyPackets(p.total)
                 => \E c \in Clients : \E k \in 1 .. pics[c] :
                        p.total = Size[c] /\ image = Arrived(c, k)
      BY <3>1, InOrderTaken DEF image
    <3>3. \E c \in Clients : \E k \in 1 .. pics[c] : image = Arrived(c, k)
      BY <1>1, <2>1, <3>2
    <3> QED BY <1>1, <1>6, <3>3 DEF Wholes, Whole
  <2>2. exact /\ ~TooManyPackets(Len(image))
            => image \in Wholes(r) \/ image = << >>
    BY <2>1
  <2>3. Fresh(exact, Wholes(r), r, o)
    BY <1>4, <2>2
  <2> QED BY <1>3, <2>3, LeadsFresh
<1> QED BY <1>1, <1>3, <1>5, <1>6 DEF o

LEMMA ReceiveImageOrder ==
    ASSUME IInv, Relayed', NEW n \in Nodes, ReceiveImage(n)
    PROVE  OrderInv'
<1> SUFFICES ASSUME NEW exact \in BOOLEAN, NEW r \in Nodes, InOrder(exact, r)'
             PROVE  NetLed(exact, r)' /\ \A s \in Nodes : OutLed(exact, s, r)'
  BY DEF OrderInv
<1> DEFINE p == Head(net[n])
           image == After(assembly[n], p, buffer[n])
           W == Wholes(r)
           a == assembly[r]
           q == net[r]
<1>1. /\ net[n] \in Seq(Sounds) /\ net[n] # << >> /\ p.type = "Image"
      /\ net'[n] = Tail(net[n]) /\ \A t \in Nodes : t # n => net'[t] = net[t]
      /\ assembly'[n] = (IF p.last THEN << >> ELSE image)
      /\ \A t \in Nodes : t # n => assembly'[t] = assembly[t]
      /\ UNCHANGED <<pics, lost, headless, mixed>>
      /\ alive' \subseteq alive
      /\ \/ outbox' = outbox
         \/ n = Server /\ \E order \in SetToSeqs(Clients) :
                outbox' = [outbox EXCEPT ![n] = BroadCast(Packets(image), order)]
  BY Taken
<1>2. InOrder(exact, r) /\ r \in alive
  BY <1>1 DEF InOrder
<1>3. /\ AllLed(exact, W, a, q)
      /\ \A s \in Nodes : Leads(exact, W, r, a, q, outbox[s])
  BY <1>2 DEF OrderInv, IInv, NetLed, OutLed
<1>4. W = Wholes(r)'
  BY <1>1 DEF Wholes
<1>5. \A s \in Nodes : outbox[s] \in Outbox
  BY DEF IInv, Relayed, Outbox
<1>6. ASSUME outbox' # outbox
      PROVE  /\ \A s \in Nodes : s # n => outbox'[s] = outbox[s]
             /\ r # n => Leads(exact, W, r, a, q, outbox'[n])
             /\ r = n => \A b, t : Leads(exact, W, r, b, t, outbox'[n])
  BY <1>2, <1>3, <1>6, BroadCastLeads
<1>7. CASE r # n
  <2>1. net'[r] = q /\ assembly'[r] = a
    BY <1>1, <1>7
  <2>2. \A s \in Nodes : Leads(exact, W, r, a, q, outbox'[s])
    BY <1>3, <1>6, <1>7
  <2> QED BY <1>3, <1>4, <2>1, <2>2 DEF NetLed, OutLed
<1>8. CASE r = n
  <2> DEFINE b == assembly'[n]
  <2>1. net'[r] = Tail(q) /\ assembly'[r] = b
    BY <1>1, <1>8
  <2>2. \A x : Continues(exact, W, p, x) => Ready(exact, W, image, x)
    BY <1>2, <1>8, InOrderTaken
  <2>3. \A x : Continues(exact, W, p, x) => ~p.last
    BY DEF Continues
  <2>4. ~p.last => b = image
    BY <1>1
  <2> HIDE DEF b, image, p
  <2>5. \A x : Continues(exact, W, p, x) => Ready(exact, W, b, x)
    BY <2>2, <2>3, <2>4
  <2>6. /\ q \in Seq(Sounds) /\ q # << >> /\ Head(q) = p
    BY <1>1, <1>8 DEF p
  <2> HIDE DEF q, W, a
  <2>7. AllLed(exact, W, b, Tail(q))
    BY <1>1, <1>3, <2>5, <2>6, LedTail
  <2>8. \A s \in Nodes : Leads(exact, W, r, b, Tail(q), outbox[s])
    BY <1>1, <1>3, <1>5, <2>5, <2>6, LeadsTail
  <2>9. \A s \in Nodes : Leads(exact, W, r, b, Tail(q), outbox'[s])
    BY <1>6, <1>8, <2>8
  <2>10. /\ AllLed(exact, W, assembly'[r], net'[r])
         /\ \A s \in Nodes : Leads(exact, W, r, assembly'[r], net'[r], outbox'[s])
    BY <2>1, <2>7, <2>9
  <2> QED BY <1>4, <2>10 DEF NetLed, OutLed
<1> QED BY <1>7, <1>8

LEMMA ReceiveImageBegun ==
    ASSUME IInv, Relayed', NEW n \in Nodes, ReceiveImage(n)
    PROVE  BegunInv'
<1> DEFINE p == Head(net[n])
           image == After(assembly[n], p, buffer[n])
<1>1. /\ net[n] \in Seq(Sounds) /\ net[n] # << >> /\ image \in Images
      /\ net'[n] = Tail(net[n]) /\ \A t \in Nodes : t # n => net'[t] = net[t]
      /\ capacity[n] \in Nat /\ capacity'[n] \in Nat /\ capacity[n] <= capacity'[n]
      /\ p.first => p.total <= capacity'[n]
      /\ \A t \in Nodes : t # n => capacity'[t] = capacity[t]
      /\ alive' \subseteq alive /\ headless' = headless
      /\ \/ outbox' = outbox
         \/ \E order \in SetToSeqs(Clients) :
                outbox' = [outbox EXCEPT ![n] = BroadCast(Packets(image), order)]
  BY Taken DEF Pictures
<1>2. outbox \in [Nodes -> Outbox]
  BY DEF IInv, Relayed, Outbox
<1> HIDE DEF image
<1>3. \A s \in Nodes : outbox'[s] = outbox[s] \/ Begins(outbox'[s])
  <2>1. ASSUME NEW order \in SetToSeqs(Clients)
        PROVE  Begins(BroadCast(Packets(image), order))
    BY <1>1, BroadCastFresh
  <2> QED BY <1>1, <1>2, <2>1
<1> SUFFICES ASSUME NEW r \in alive', r \notin headless'
             PROVE  /\ NetOpen(capacity'[r], net'[r])
                    /\ \A s \in Nodes :
                           OutOpen(capacity'[r], r, net'[r], outbox'[s])
  BY DEF BegunInv
<1>4. r \in Nodes /\ r \in alive \ headless
  BY <1>1 DEF IInv, Counted
<1>5. /\ NetOpen(capacity[r], net[r])
      /\ \A s \in Nodes : OutOpen(capacity[r], r, net[r], outbox[s])
  BY <1>4 DEF BegunInv, IInv
<1>6. CASE r # n
  BY <1>1, <1>3, <1>4, <1>5, <1>6, OpenFresh
<1>7. CASE r = n
  <2>1. /\ NetOpen(capacity'[r], Tail(net[r]))
        /\ \A s \in Nodes : OutOpen(capacity'[r], r, Tail(net[r]), outbox[s])
    <3>1. \A s \in Nodes : outbox[s] \in Outbox
      BY <1>2
    <3>2. ASSUME NEW s \in Nodes
          PROVE  /\ NetOpen(capacity'[r], Tail(net[r]))
                 /\ OutOpen(capacity'[r], r, Tail(net[r]), outbox[s])
      BY <1>1, <1>5, <1>7, <3>1, OpenTail
    <3> QED BY <1>4, <3>2
  <2> QED BY <1>1, <1>3, <1>7, <2>1, OpenFresh
<1> QED BY <1>6, <1>7

LEMMA ReceiveImageArrives ==
    ASSUME IInv, NEW n \in Nodes, ReceiveImage(n)
    PROVE  LoneImagesArrive'
<1> DEFINE p == Head(net[n])
           image == After(assembly[n], p, buffer[n])
<1>1. /\ n \in alive /\ Sized(p.total) /\ UNCHANGED <<pics, lost, headless, mixed>>
      /\ \/ screen' = screen
         \/ n # Server /\ p.last /\ screen' = [screen EXCEPT ![n] = image]
  BY Taken
<1>2. CASE screen' = screen
  BY <1>1, <1>2, StillShown DEF IInv
<1>3. CASE n # Server /\ p.last /\ screen' = [screen EXCEPT ![n] = image]
  <2> SUFFICES ASSUME NEW c \in Clients, ~mixed, lost \cap {c, Server} = {}
               PROVE  \/ screen'[c] = << >>
                      \/ \E d \in Fitting : \E k \in 1 .. pics[d] :
                             screen'[c] = Arrived(d, k)
                      \/ \E d \in Clients \ Fitting : Len(screen'[c]) = Size[d]
    BY <1>1 DEF LoneImagesArrive
  <2>1. CASE c # n
    <3>1. screen'[c] = screen[c]
      BY <1>3, <2>1 DEF IInv, Relayed
    <3> QED BY <3>1 DEF IInv, LoneImagesArrive
  <2>2. CASE c = n
    <3>1. screen'[c] = image
      BY <1>3, <2>2 DEF IInv, Relayed
    <3>2. InOrder(TRUE, n) /\ TRUE \in BOOLEAN
      BY <1>1, <2>2 DEF InOrder, IInv, Counted
    <3>3. /\ Len(image) = p.total
          /\ ~TooManyPackets(p.total)
                 => \E d \in Clients : \E k \in 1 .. pics[d] :
                        p.total = Size[d] /\ image = Arrived(d, k)
      BY <1>3, <3>2, InOrderTaken
    <3> HIDE DEF p, image
    <3>4. CASE TooManyPackets(p.total)
      BY <1>1, <3>1, <3>3, <3>4 DEF Sized, Fitting
    <3>5. CASE ~TooManyPackets(p.total)
      <4>1. PICK d \in Clients : \E k \in 1 .. pics[d] :
                p.total = Size[d] /\ image = Arrived(d, k)
        BY <3>3, <3>5
      <4>2. d \in Fitting
        BY <3>5, <4>1 DEF Fitting
      <4> QED BY <3>1, <4>1, <4>2
    <3> QED BY <3>4, <3>5
  <2> QED BY <2>1, <2>2
<1> QED BY <1>1, <1>2, <1>3

LEMMA ReceiveImageDeaths ==
    ASSUME IInv, NEW n \in Nodes, ReceiveImage(n)
    PROVE  /\ alive \ alive' \subseteq {n}
           /\ n \in alive \ alive' => n \in headless \/ Deadly(n, Head(net[n]))
<1> DEFINE p == Head(net[n])
           image == After(assembly[n], p, buffer[n])
<1>1. /\ n \in alive /\ net[n] \in Seq(Sounds) /\ net[n] # << >>
      /\ p \in Sounds /\ p.type = "Image" /\ p.total \in Nat
      /\ capacity[n] \in Nat /\ capacity'[n] \in Nat /\ capacity[n] <= capacity'[n]
      /\ p.first => p.total <= capacity'[n]
      /\ \/ alive' = alive
         \/ /\ alive' = alive \ {n}
            /\ \/ ~(CopyEnd(p) <= capacity'[n])
               \/ n # Server /\ p.last /\ ~(Len(image) >= Display)
  BY Taken
<1>2. ASSUME ~(CopyEnd(p) <= capacity'[n]), n \notin headless
      PROVE  TooManyPackets(p.total) \/ CopiedPast(p)
  <2>1. SUFFICES ASSUME ~TooManyPackets(p.total), ~CopiedPast(p)
                 PROVE  FALSE
    OBVIOUS
  <2>2. Inside(p) /\ p \in Headed
    BY <1>1 DEF Sounds, Sound
  <2>3. CopyEnd(p) <= p.total
    BY <2>1, <2>2 DEF Inside
  <2>4. CopyEnd(p) \in Nat
    BY <2>2, Offset, Constants DEF CopyEnd
  <2>5. NetOpen(capacity[n], net[n])
    BY <1>1, <1>2 DEF IInv, BegunInv
  <2>6. ~p.first => p.total <= capacity[n]
    BY <1>1, <2>5, HeadOpen
  <2>7. p.total <= capacity'[n]
    BY <1>1, <2>6
  <2> QED BY <1>1, <1>2, <2>3, <2>4, <2>7
<1>3. ASSUME n # Server, ~(Len(image) >= Display), n \notin headless
      PROVE  p.total < Display
  <2>1. InOrder(FALSE, n) /\ FALSE \in BOOLEAN
    BY <1>1, <1>3 DEF InOrder
  <2>2. Len(image) = p.total
    BY <2>1, InOrderTaken
  <2> QED BY <1>1, <1>3, <2>2, RelayAssumption
<1> HIDE DEF p, image
<1>4. alive' # alive => n \in headless \/ Deadly(n, p)
  BY <1>1, <1>2, <1>3 DEF Deadly
<1> QED BY <1>1, <1>4 DEF p

-----------------------------------------------------------------------------
(* Theorems *)

\* To a process to which no image's first packet was lost, packets come in order,
\* from the first of each image on; if nothing was lost at all and no two screenshots were sent at once, they are
\* those of the very screenshot (AsioUdpServer.cpp:84-115, 164-178;
\* connection.cpp:92-118, 333-348).
THEOREM PacketsComeInOrder == Spec => []IInv
<1>1. IInv /\ [Next]_vars /\ Relayed' /\ Counted' => IInv'
  <2> SUFFICES ASSUME IInv, [Next]_vars, Relayed', Counted'
               PROVE  /\ Aims' /\ OrderInv' /\ BegunInv'
                      /\ LoneImagesArrive'
    BY DEF IInv
  <2>1. ASSUME NEW c \in Clients, SlotSend(c)
        PROVE  /\ Aims' /\ OrderInv' /\ BegunInv'
               /\ LoneImagesArrive'
    BY <2>1, SlotSendOrder
  <2>2. CASE Tick
    BY <2>2, TickOrder
  <2>3. ASSUME NEW r \in Nodes, Send(r)
        PROVE  /\ Aims' /\ OrderInv' /\ BegunInv'
               /\ LoneImagesArrive'
    BY <2>3, SendOrder
  <2>4. ASSUME NEW r \in Nodes, ReceiveText(r)
        PROVE  /\ Aims' /\ OrderInv' /\ BegunInv'
               /\ LoneImagesArrive'
    BY <2>4, ReceiveTextOrder
  <2>5. ASSUME NEW r \in Nodes, ReceiveImage(r)
        PROVE  /\ Aims' /\ OrderInv' /\ BegunInv'
               /\ LoneImagesArrive'
    BY <2>5, ReceiveImageAims, ReceiveImageOrder, ReceiveImageBegun,
       ReceiveImageArrives
  <2>6. CASE UNCHANGED vars
    <3>1. /\ UNCHANGED <<outbox, net, assembly, capacity, alive, screen, pics,
                         lost, headless, mixed>>
      BY <2>6 DEF vars
    <3>2. Aims' /\ BegunInv' /\ LoneImagesArrive'
      BY <3>1 DEF IInv, Aims, BegunInv, LoneImagesArrive
    <3>3. OrderInv'
      <4> SUFFICES ASSUME NEW exact \in BOOLEAN, NEW r \in Nodes, InOrder(exact, r)'
                   PROVE  /\ NetLed(exact, r)'
                          /\ \A s \in Nodes : OutLed(exact, s, r)'
        BY DEF OrderInv
      <4>1. InOrder(exact, r) /\ Wholes(r)' = Wholes(r)
        BY <3>1 DEF InOrder, Wholes
      <4>2. NetLed(exact, r) /\ \A s \in Nodes : OutLed(exact, s, r)
        BY <4>1 DEF IInv, OrderInv
      <4> QED BY <3>1, <4>1, <4>2 DEF NetLed, OutLed
    <3> QED BY <3>2, <3>3
  <2> QED BY <2>1, <2>2, <2>3, <2>4, <2>5, <2>6 DEF Next
<1> QED BY InitOrder, <1>1, RelayKeepsBounds, PTL DEF Spec

\* LoneImagesArrive for every number of clients, every size of a display, a
\* packet and a socket: a screenshot sent alone, and of which nothing was lost
\* on either hop, is shown as it was but for the stripes
\* (AsioUdpServer.cpp:164-178, connection.cpp:333-348).
THEOREM LoneImagesComeThrough == Spec => []LoneImagesArrive
<1>1. IInv => LoneImagesArrive
  BY DEF IInv
<1> QED BY <1>1, PacketsComeInOrder, PTL

\* DeathsExplained, likewise: whatever the clients send, and however their
\* screenshots are mixed and inner packets of them lost, a process of which every
\* image was begun dies at no packet but one whose number may not fit, the last
\* one of an image with a short last chunk, which is copied past its end by less
\* than a body, or of one too small to be shown (AsioUdpServer.cpp:164-170,
\* connection.cpp:333-339, mainclient.cpp:64).
THEOREM DeathsHaveCauses == Spec => DeathsExplained
<1> DEFINE Step == \A r \in alive \ alive' : r \in headless \/ Deadly(r, Head(net[r]))
<1>1. IInv /\ [Next]_vars => [Step]_vars
  <2> SUFFICES ASSUME IInv, Next PROVE Step
    OBVIOUS
  <2>1. CASE \E c \in Clients : SlotSend(c)
    BY <2>1 DEF SlotSend
  <2>2. CASE Tick
    BY <2>2 DEF Tick
  <2>3. ASSUME NEW r \in Nodes, Send(r) PROVE Step
    BY <2>3 DEF Send
  <2>4. ASSUME NEW r \in Nodes, ReceiveText(r) PROVE Step
    BY <2>4 DEF ReceiveText
  <2>5. ASSUME NEW n \in Nodes, ReceiveImage(n) PROVE Step
    BY <2>5, ReceiveImageDeaths
  <2> QED BY <2>1, <2>2, <2>3, <2>4, <2>5 DEF Next
<1> QED BY <1>1, PacketsComeInOrder, PTL DEF Spec, DeathsExplained

-----------------------------------------------------------------------------
(* The order in time.  A mark is a byte of a screenshot. *)

Marks == {b \in Bytes : IsByte(b)}
Dots(image) == {b \in Marks : \E i \in DOMAIN image : image[i] = b}

\* The marks of a packet of an image, of packets that wait, and of those that
\* are still to be sent to d.
Load(p) == {b \in Marks : p.type = "Image" /\ \E i \in DOMAIN p.body : p.body[i] = b}
Waiting(s) == {b \in Marks : \E j \in DOMAIN s : b \in Load(s[j])}
Loads(o, d) ==
    {b \in Marks : \E j \in DOMAIN o : o[j][1] = d /\ b \in Load(o[j][2])}

\* No screenshot of anybody in P is later than one in Q.
Ahead(P, Q) == \A p \in P, q \in Q : p[1] = q[1] => p[2] <= q[2]

\* With the last packet of an image it is done.
Ends(p) == p.type = "Image" /\ p.last

\* P is part of what packet i of s goes into: it is ahead of the images behind
\* that one in s, and of Q if there is nothing more of it to come.
Closed(P, s, i, Q) ==
    \A l \in DOMAIN s : l >= i /\ Ends(s[l])
        => Ahead(P, Q) /\ \A j \in DOMAIN s : j > l => Ahead(P, Load(s[j]))

\* P is assembled, s waits behind it, and Q behind s.
Turns(P, s, Q) ==
    /\ Closed(P, s, 1, Q)
    /\ \A i \in DOMAIN s : Closed(Load(s[i]), s, i, Q)

InTurn(s) == \A i, j \in DOMAIN s : i < j => Ahead(Load(s[i]), Load(s[j]))

\* To one target goes one image at a time.
OneEach(o) ==
    \A i, j \in DOMAIN o : i < j /\ o[i][1] = o[j][1] => ~Ends(o[i][2])

\* The screenshots of P have been taken.
UpTo(P, taken) == \A b \in P : b[2] <= taken[b[1]]

\* At the server, a is assembled and s waits: the packets of each client come
\* in order.
Intake(a, s, taken) ==
    /\ UpTo(a \cup Waiting(s), taken)
    /\ Ahead(a, Waiting(s))
    /\ InTurn(s)

\* At a client, old is shown, a is assembled, s waits and q is still to be
\* sent, while up is on its way to the server: broadcasts come one by one.
Shown(old, a, s, q, up, taken) ==
    /\ UpTo(old \cup a \cup Waiting(s) \cup q, taken)
    /\ Ahead(old \cup a \cup Waiting(s) \cup q, up)
    /\ Ahead(old, a \cup Waiting(s) \cup q)
    /\ Turns(a, s, q)

-----------------------------------------------------------------------------
(* The invariant *)

\* What a client has still to send is of its last screenshot.
SentInv ==
    \A c \in Clients : \A j \in DOMAIN outbox[c] : \A b \in Load(outbox[c][j][2]) :
        b[1] = c /\ b[2] = pics[c]

Upstream == Dots(assembly[Server]) \cup Waiting(net[Server])
Sending(d) == Loads(outbox[Server], d)

IntakeInv == Intake(Dots(assembly[Server]), net[Server], pics)

ShownInv ==
    \A d \in Clients : Shown(Dots(screen[d]), Dots(assembly[d]), net[d],
                             Sending(d), Upstream, pics)

TimeInv == SentInv /\ OneEach(outbox[Server]) /\ IntakeInv /\ ShownInv

-----------------------------------------------------------------------------
(* Sets of marks *)

LEMMA MarkFacts ==
    /\ \A b \in Marks : b \in Bytes /\ b[1] \in Clients /\ b[2] \in 1 .. MaxPics
    /\ Zero \notin Marks /\ <<"text">> \notin Marks
    /\ \A c \in Clients, k \in 1 .. MaxPics : \A i \in 1 .. Size[c] :
           Byte(c, k, i) \in Marks
<1>1. ~IsByte(Zero) /\ ~IsByte(<<"text">>)
  BY DEF IsByte, Zero
<1>2. ASSUME NEW b \in Marks
      PROVE  \E c \in Clients : \E k \in 1 .. MaxPics, i \in 1 .. Size[c] :
                 b = Byte(c, k, i)
  BY <1>1 DEF Marks, Bytes
<1>3. ASSUME NEW c, NEW k, NEW i
      PROVE  Byte(c, k, i)[1] = c /\ Byte(c, k, i)[2] = k /\ IsByte(Byte(c, k, i))
  BY DEF Byte, IsByte
<1>4. ASSUME NEW c \in Clients, NEW k \in 1 .. MaxPics, NEW i \in 1 .. Size[c]
      PROVE  Byte(c, k, i) \in Marks
  BY <1>3, <1>4, DotFacts DEF Marks
<1>5. \A b \in Marks : b \in Bytes
  BY DEF Marks
<1> QED BY <1>1, <1>2, <1>3, <1>4, <1>5 DEF Marks

LEMMA AheadLess ==
    ASSUME NEW P, NEW Q, Ahead(P, Q), NEW X, NEW Y, X \subseteq P, Y \subseteq Q
    PROVE  Ahead(X, Y)
BY DEF Ahead

LEMMA AheadBoth ==
    ASSUME NEW P, NEW Q, NEW X, NEW Y,
           Ahead(P, X), Ahead(P, Y), Ahead(Q, X), Ahead(Q, Y)
    PROVE  Ahead(P \cup Q, X \cup Y)
BY DEF Ahead

LEMMA Nothing ==
    ASSUME NEW P
    PROVE  /\ Ahead(P, {}) /\ Ahead({}, P) /\ Dots(<< >>) = {} /\ Waiting(<< >>) = {}
           /\ \A d : Loads(<< >>, d) = {}
<1>1. DOMAIN << >> = {}
  OBVIOUS
<1> QED BY <1>1 DEF Ahead, Dots, Waiting, Loads

LEMMA TextLoad ==
    ASSUME NEW p, p.type = "Text"
    PROVE  Load(p) = {} /\ ~Ends(p)
BY DEF Load, Ends

LEMMA WaitingFacts ==
    ASSUME NEW s, NEW j \in DOMAIN s
    PROVE  Load(s[j]) \subseteq Waiting(s)
BY DEF Waiting, Load

-----------------------------------------------------------------------------
(* Sequences of packets *)

LEMMA WaitingAppend ==
    ASSUME NEW s \in Seq(Sounds), NEW q \in Sounds
    PROVE  Waiting(Append(s, q)) = Waiting(s) \cup Load(q)
<1> DEFINE t == Append(s, q)
<1>1. PICK n \in Nat : n = Len(s)
  OBVIOUS
<1>2. /\ DOMAIN s = 1 .. n /\ DOMAIN t = 1 .. n + 1 /\ t[n + 1] = q
      /\ \A i \in 1 .. n : t[i] = s[i]
  BY <1>1, AppendFacts
<1> HIDE DEF t
<1>3. ASSUME NEW b \in Waiting(t) PROVE b \in Waiting(s) \cup Load(q)
  <2>1. PICK j \in 1 .. n + 1 : b \in Load(t[j])
    BY <1>2, <1>3 DEF Waiting
  <2>2. CASE j = n + 1
    BY <1>2, <2>1, <2>2
  <2>3. CASE j # n + 1
    <3>1. j \in 1 .. n /\ t[j] = s[j]
      BY <1>2, <2>3
    <3> QED BY <1>2, <2>1, <3>1, WaitingFacts
  <2> QED BY <2>2, <2>3
<1>4. ASSUME NEW b \in Waiting(s) PROVE b \in Waiting(t)
  <2>1. PICK j \in 1 .. n : b \in Load(s[j])
    BY <1>2, <1>4 DEF Waiting
  <2>2. j \in 1 .. n + 1 /\ t[j] = s[j]
    BY <1>2
  <2> QED BY <1>2, <2>1, <2>2, WaitingFacts
<1>5. Load(q) \subseteq Waiting(t)
  <2>1. n + 1 \in 1 .. n + 1
    OBVIOUS
  <2> QED BY <1>2, <2>1, WaitingFacts
<1>6. Waiting(t) = Waiting(s) \cup Load(q)
  BY <1>3, <1>4, <1>5
<1> QED BY <1>6 DEF t

LEMMA WaitingTail ==
    ASSUME NEW s \in Seq(Sounds), s # << >>
    PROVE  Waiting(Tail(s)) \subseteq Waiting(s) /\ Load(Head(s)) \subseteq Waiting(s)
<1> DEFINE t == Tail(s)
<1>1. PICK n \in Nat : n = Len(s) /\ n >= 1
  BY TailFacts
<1>2. /\ DOMAIN s = 1 .. n /\ DOMAIN t = 1 .. n - 1 /\ Head(s) = s[1]
      /\ \A i \in 1 .. n - 1 : t[i] = s[i + 1]
  BY <1>1, TailFacts
<1> HIDE DEF t
<1>3. ASSUME NEW b \in Waiting(t) PROVE b \in Waiting(s)
  <2>1. PICK j \in 1 .. n - 1 : b \in Load(t[j])
    BY <1>2, <1>3 DEF Waiting
  <2>2. j + 1 \in 1 .. n /\ t[j] = s[j + 1]
    BY <1>2
  <2> QED BY <1>2, <2>1, <2>2, WaitingFacts
<1>4. Load(Head(s)) \subseteq Waiting(s)
  <2>1. 1 \in 1 .. n
    BY <1>1
  <2> QED BY <1>2, <2>1, WaitingFacts
<1> QED BY <1>3, <1>4 DEF t

LEMMA InTurnAppend ==
    ASSUME NEW s \in Seq(Sounds), NEW q \in Sounds, InTurn(s),
           Ahead(Waiting(s), Load(q))
    PROVE  InTurn(Append(s, q))
<1> DEFINE t == Append(s, q)
<1>1. PICK n \in Nat : n = Len(s)
  OBVIOUS
<1>2. /\ DOMAIN s = 1 .. n /\ DOMAIN t = 1 .. n + 1 /\ t[n + 1] = q
      /\ \A i \in 1 .. n : t[i] = s[i]
  BY <1>1, AppendFacts
<1> HIDE DEF t
<1>3. ASSUME NEW i \in 1 .. n + 1, NEW j \in 1 .. n + 1, i < j
      PROVE  Ahead(Load(t[i]), Load(t[j]))
  <2>1. i \in 1 .. n /\ t[i] = s[i]
    BY <1>2, <1>3
  <2>2. CASE j = n + 1
    BY <1>2, <2>1, <2>2, WaitingFacts, AheadLess
  <2>3. CASE j # n + 1
    <3>1. j \in 1 .. n /\ t[j] = s[j]
      BY <1>2, <2>3
    <3> QED BY <1>2, <1>3, <2>1, <3>1 DEF InTurn
  <2> QED BY <2>2, <2>3
<1> QED BY <1>2, <1>3 DEF InTurn, t

LEMMA InTurnTail ==
    ASSUME NEW s \in Seq(Sounds), s # << >>, InTurn(s)
    PROVE  InTurn(Tail(s)) /\ Ahead(Load(Head(s)), Waiting(Tail(s)))
<1> DEFINE t == Tail(s)
<1>1. PICK n \in Nat : n = Len(s) /\ n >= 1
  BY TailFacts
<1>2. /\ DOMAIN s = 1 .. n /\ DOMAIN t = 1 .. n - 1 /\ Head(s) = s[1]
      /\ \A i \in 1 .. n - 1 : t[i] = s[i + 1]
  BY <1>1, TailFacts
<1> HIDE DEF t
<1>3. ASSUME NEW i \in 1 .. n - 1, NEW j \in 1 .. n - 1, i < j
      PROVE  Ahead(Load(t[i]), Load(t[j]))
  <2>1. i + 1 \in 1 .. n /\ j + 1 \in 1 .. n /\ i + 1 < j + 1
    BY <1>3
  <2> QED BY <1>2, <2>1 DEF InTurn
<1>4. ASSUME NEW b \in Waiting(t), NEW p \in Load(s[1]), p[1] = b[1]
      PROVE  p[2] <= b[2]
  <2>1. PICK j \in 1 .. n - 1 : b \in Load(t[j])
    BY <1>2, <1>4 DEF Waiting
  <2>2. j + 1 \in 1 .. n /\ t[j] = s[j + 1] /\ 1 \in 1 .. n /\ 1 < j + 1
    BY <1>1, <1>2
  <2>3. Ahead(Load(s[1]), Load(s[j + 1]))
    BY <1>2, <2>2 DEF InTurn
  <2> QED BY <1>4, <2>1, <2>2, <2>3 DEF Ahead
<1>5. Ahead(Load(Head(s)), Waiting(t))
  BY <1>2, <1>4 DEF Ahead
<1> QED BY <1>2, <1>3, <1>5 DEF InTurn, t

LEMMA ClosedLess ==
    ASSUME NEW P, NEW s, NEW i, NEW Q, Closed(P, s, i, Q),
           NEW X, X \subseteq P, NEW Y, Y \subseteq Q
    PROVE  Closed(X, s, i, Y)
BY AheadLess DEF Closed

LEMMA TurnsLess ==
    ASSUME NEW P, NEW s, NEW Q, Turns(P, s, Q),
           NEW X, X \subseteq P, NEW Y, Y \subseteq Q
    PROVE  Turns(X, s, Y)
<1>1. Closed(X, s, 1, Y)
  BY ClosedLess DEF Turns
<1>2. \A i \in DOMAIN s : Closed(Load(s[i]), s, i, Y)
  BY ClosedLess DEF Turns
<1> QED BY <1>1, <1>2 DEF Turns

\* Behind s comes something else, of which nothing is earlier than s.
LEMMA TurnsRefill ==
    ASSUME NEW P, NEW s, NEW Q, Turns(P, s, Q),
           NEW Y, Ahead(P \cup Waiting(s), Y)
    PROVE  Turns(P, s, Y)
<1>1. \A X : X \subseteq P \cup Waiting(s) => Ahead(X, Y)
  BY AheadLess
<1>2. Closed(P, s, 1, Y)
  BY <1>1 DEF Turns, Closed
<1>3. \A i \in DOMAIN s : Load(s[i]) \subseteq Waiting(s)
  BY WaitingFacts
<1>4. \A i \in DOMAIN s : Closed(Load(s[i]), s, i, Y)
  BY <1>1, <1>3 DEF Turns, Closed
<1> QED BY <1>2, <1>4 DEF Turns

\* The next packet of what was sent comes; Y is what is left of it.
LEMMA TurnsAppend ==
    ASSUME NEW P, NEW s \in Seq(Sounds), NEW Q, Turns(P, s, Q),
           NEW q \in Sounds, Load(q) \subseteq Q,
           NEW Y, Y \subseteq Q, Ends(q) => Y = {}
    PROVE  Turns(P, Append(s, q), Y)
<1> DEFINE t == Append(s, q)
<1>1. PICK n \in Nat : n = Len(s)
  OBVIOUS
<1>2. /\ DOMAIN s = 1 .. n /\ DOMAIN t = 1 .. n + 1 /\ t[n + 1] = q
      /\ \A i \in 1 .. n : t[i] = s[i]
  BY <1>1, AppendFacts
<1> HIDE DEF t
<1>3. ASSUME NEW X, NEW i \in 1 .. n + 1, i \in 1 .. n => Closed(X, s, i, Q)
      PROVE  Closed(X, t, i, Y)
  <2>1. SUFFICES ASSUME NEW l \in 1 .. n + 1, l >= i, Ends(t[l])
                 PROVE  /\ Ahead(X, Y)
                        /\ \A j \in 1 .. n + 1 : j > l => Ahead(X, Load(t[j]))
    BY <1>2 DEF Closed
  <2>2. CASE l = n + 1
    <3>1. Y = {}
      BY <1>2, <2>1, <2>2
    <3>2. \A j \in 1 .. n + 1 : ~(j > l)
      BY <2>2
    <3> QED BY <3>1, <3>2, Nothing
  <2>3. CASE l # n + 1
    <3>1. l \in 1 .. n /\ i \in 1 .. n /\ t[l] = s[l]
      BY <1>2, <2>1, <2>3
    <3>2. Ahead(X, Q) /\ \A j \in 1 .. n : j > l => Ahead(X, Load(s[j]))
      BY <1>2, <1>3, <2>1, <3>1 DEF Closed
    <3>3. Ahead(X, Y) /\ Ahead(X, Load(q))
      BY <3>2, AheadLess
    <3>4. ASSUME NEW j \in 1 .. n + 1, j > l PROVE Ahead(X, Load(t[j]))
      <4>1. CASE j = n + 1
        BY <1>2, <3>3, <4>1
      <4>2. CASE j # n + 1
        <5>1. j \in 1 .. n /\ t[j] = s[j]
          BY <1>2, <4>2
        <5> QED BY <3>2, <3>4, <5>1
      <4> QED BY <4>1, <4>2
    <3> QED BY <3>3, <3>4
  <2> QED BY <2>2, <2>3
<1>4. Closed(P, t, 1, Y)
  <2>1. 1 \in 1 .. n + 1
    OBVIOUS
  <2> QED BY <1>3, <2>1 DEF Turns
<1>5. ASSUME NEW i \in 1 .. n + 1 PROVE Closed(Load(t[i]), t, i, Y)
  <2>1. i \in 1 .. n => Closed(Load(t[i]), s, i, Q)
    BY <1>2 DEF Turns
  <2> QED BY <1>3, <2>1
<1> QED BY <1>2, <1>4, <1>5 DEF Turns, t

\* The first packet of s goes into what is assembled, X.
LEMMA TurnsTail ==
    ASSUME NEW P, NEW s \in Seq(Sounds), s # << >>, NEW Q, Turns(P, s, Q),
           NEW X, X \subseteq P \cup Load(Head(s))
    PROVE  /\ Turns(X, Tail(s), Q)
           /\ Ends(Head(s)) => Ahead(P \cup Load(Head(s)), Q \cup Waiting(Tail(s)))
<1> DEFINE t == Tail(s)
           Z == P \cup Load(s[1])
<1>1. PICK n \in Nat : n = Len(s) /\ n >= 1
  BY TailFacts
<1>2. /\ DOMAIN s = 1 .. n /\ DOMAIN t = 1 .. n - 1 /\ Head(s) = s[1]
      /\ \A i \in 1 .. n - 1 : t[i] = s[i + 1]
  BY <1>1, TailFacts
<1>3. 1 \in 1 .. n
  BY <1>1
<1> HIDE DEF t
<1>4. Closed(Z, s, 1, Q)
  <2>1. Closed(P, s, 1, Q) /\ Closed(Load(s[1]), s, 1, Q)
    BY <1>2, <1>3 DEF Turns
  <2>2. \A Y : Ahead(P, Y) /\ Ahead(Load(s[1]), Y) => Ahead(Z, Y)
    BY DEF Ahead
  <2> HIDE DEF Z
  <2> QED BY <2>1, <2>2 DEF Closed
<1> HIDE DEF Z
<1>5. ASSUME NEW Y, NEW i \in 1 .. n, NEW k \in 1 .. n, i <= k + 1,
             Closed(Y, s, i, Q)
      PROVE  Closed(Y, t, k, Q)
  <2>1. SUFFICES ASSUME NEW l \in 1 .. n - 1, l >= k, Ends(t[l])
                 PROVE  /\ Ahead(Y, Q)
                        /\ \A j \in 1 .. n - 1 : j > l => Ahead(Y, Load(t[j]))
    BY <1>2 DEF Closed
  <2>2. l + 1 \in 1 .. n /\ l + 1 >= i /\ Ends(s[l + 1])
    BY <1>2, <1>5, <2>1
  <2>3. Ahead(Y, Q) /\ \A j \in 1 .. n : j > l + 1 => Ahead(Y, Load(s[j]))
    BY <1>2, <1>5, <2>2 DEF Closed
  <2>4. ASSUME NEW j \in 1 .. n - 1, j > l PROVE Ahead(Y, Load(t[j]))
    <3>1. j + 1 \in 1 .. n /\ j + 1 > l + 1 /\ t[j] = s[j + 1]
      BY <1>2, <2>4
    <3> QED BY <2>3, <3>1
  <2> QED BY <2>3, <2>4
<1>6. Closed(X, t, 1, Q)
  <2>1. Closed(Z, t, 1, Q)
    BY <1>3, <1>4, <1>5
  <2>2. X \subseteq Z /\ Q \subseteq Q
    BY <1>2 DEF Z
  <2> QED BY <2>1, <2>2, ClosedLess
<1>7. ASSUME NEW i \in 1 .. n - 1 PROVE Closed(Load(t[i]), t, i, Q)
  <2>1. i + 1 \in 1 .. n /\ t[i] = s[i + 1] /\ i \in 1 .. n /\ i + 1 <= i + 1
    BY <1>2
  <2>2. Closed(Load(t[i]), s, i + 1, Q)
    BY <1>2, <2>1 DEF Turns
  <2> QED BY <1>5, <2>1, <2>2
<1>8. ASSUME Ends(s[1]) PROVE Ahead(Z, Q \cup Waiting(t))
  <2>1. 1 >= 1
    OBVIOUS
  <2>2. Ahead(Z, Q) /\ \A j \in 1 .. n : j > 1 => Ahead(Z, Load(s[j]))
    BY <1>2, <1>3, <1>4, <1>8, <2>1 DEF Closed
  <2>3. ASSUME NEW b \in Waiting(t), NEW p \in Z, p[1] = b[1] PROVE p[2] <= b[2]
    <3>1. PICK j \in 1 .. n - 1 : b \in Load(t[j])
      BY <1>2, <2>3 DEF Waiting
    <3>2. j + 1 \in 1 .. n /\ j + 1 > 1 /\ t[j] = s[j + 1]
      BY <1>2
    <3> QED BY <2>2, <2>3, <3>1, <3>2 DEF Ahead
  <2> QED BY <2>2, <2>3 DEF Ahead
<1> QED BY <1>2, <1>6, <1>7, <1>8 DEF Turns, t, Z

-----------------------------------------------------------------------------
(* Where the marks go *)

\* Among displays of one size, every byte that is copied is of the packet: the
\* stale end of the receive buffer falls behind the end of the image.
LEMMA CopiedDots ==
    ASSUME Regular, NEW a \in Pictures, NEW p \in Sounds, p.type = "Image",
           NEW old \in Buffers
    PROVE  Dots(After(a, p, old)) \subseteq Dots(a) \cup Load(p)
<1> DEFINE begun == Begun(a, p)
           buf == Overlay(old, p.body)
           image == Copied(begun, p, buf)
           off == ChunkOffset(p)
           len == Len(begun)
<1>1. begun \in Pictures
  BY BegunPlaced
<1>2. /\ begun \in Seq(Bytes) /\ len \in Nat /\ Placed(begun)
      /\ DOMAIN begun = 1 .. len
  BY <1>1 DEF Pictures, Images
<1>3. Dots(begun) \subseteq Dots(a)
  <2>1. CASE p.first
    <3>1. \A i \in DOMAIN begun : begun[i] = Zero
      BY <2>1 DEF Begun
    <3> QED BY <3>1, MarkFacts DEF Dots
  <2>2. CASE ~p.first
    BY <2>2 DEF Begun
  <2> QED BY <2>1, <2>2
<1>4. \A i \in 1 .. Payload : i <= Len(p.body) => buf[i] = p.body[i]
  BY DEF Overlay
<1>5. off \in Nat /\ p \in Headed /\ Numbered(p) /\ Sized(p.total)
      /\ p.body \in Seq(Bytes) /\ Len(p.body) \in Nat
  BY Offset DEF Sounds, Sound, Headed, Bodies
<1>6. DOMAIN image = 1 .. len
      /\ \A i \in 1 .. len :
          image[i] = IF i > off /\ i <= off + Payload THEN buf[i - off] ELSE begun[i]
  BY DEF Copied, CopyEnd
<1>7. off = (p.number - 1) * MaxChunk
  BY <1>5, Offset DEF Numbered
<1> HIDE DEF begun, buf, off, len, image
<1>8. ASSUME NEW i \in 1 .. len, i > off, i <= off + Payload
      PROVE  i - off \in DOMAIN p.body /\ image[i] = p.body[i - off]
  <2> DEFINE j == i - off
  <2>1. j \in 1 .. Payload /\ j \in 1 .. MaxChunk /\ i = off + j
    BY <1>5, <1>8, Constants
  <2>2. image[i] = buf[j]
    BY <1>6, <1>8
  <2> HIDE DEF j
  <2>3. len = p.total
    BY <1>2, <1>5, <1>8, SameSize DEF Placed, len
  <2>4. j <= Len(p.body)
    <3>1. MaxChunk <= Len(p.body) \/ p.total <= off + Len(p.body)
      BY <1>5, <1>7 DEF Numbered
    <3> QED BY <1>2, <1>5, <2>1, <2>3, <3>1, Constants
  <2>5. buf[j] = p.body[j] /\ j \in 1 .. Len(p.body)
    BY <1>4, <1>5, <2>1, <2>4
  <2> QED BY <1>5, <2>1, <2>2, <2>5 DEF j
<1>9. ASSUME NEW b \in Marks, NEW i \in DOMAIN image, image[i] = b
      PROVE  b \in Dots(begun) \cup Load(p)
  <2>1. CASE i > off /\ i <= off + Payload
    BY <1>6, <1>8, <1>9, <2>1 DEF Load
  <2>2. CASE ~(i > off /\ i <= off + Payload)
    BY <1>2, <1>6, <1>9, <2>2 DEF Dots
  <2> QED BY <2>1, <2>2
<1>10. Dots(image) \subseteq Dots(begun) \cup Load(p)
  BY <1>9 DEF Dots
<1> QED BY <1>3, <1>10 DEF After, image, begun, buf

\* What is cut into packets is the image's, and only the last one ends it.
LEMMA PacketsDots ==
    ASSUME NEW image \in Images
    PROVE  LET ps == Packets(image)
           IN  /\ ps \in Seq(Sounds)
               /\ \A j \in 1 .. Len(ps) : /\ Load(ps[j]) \subseteq Dots(image)
                                          /\ Ends(ps[j]) => j = Len(ps)
<1> DEFINE ps == Packets(image)
           n == Len(image)
           m == PacketCount(n)
<1>1. image \in Seq(Bytes) /\ n \in Nat
  BY DEF Images
<1>2. m \in Nat
  BY <1>1, PacketCountType
<1>3. ps \in Seq(Sounds)
  BY PacketsSound
<1>4. ps = [j \in 1 .. m |-> Packet(image, j - 1)] /\ Len(ps) = m
  BY <1>2 DEF Packets
<1> HIDE DEF ps, m, n
<1>5. ASSUME NEW j \in 1 .. m
      PROVE  Load(ps[j]) \subseteq Dots(image) /\ (Ends(ps[j]) => j = m)
  <2> DEFINE p == Packet(image, j - 1)
             start == ChunkStart(j - 1)
             size == ChunkSize(n, j - 1)
  <2>1. j - 1 \in 0 .. m - 1 /\ (j - 1) + 1 = j
    BY <1>2
  <2>2. ps[j] = p
    BY <1>4
  <2>3. /\ p.last <=> (j - 1) + 1 = m
        /\ p.body \in Seq(Bytes) /\ Len(p.body) = size
        /\ \A i \in 1 .. size : p.body[i] = image[start + i]
    BY <1>1, <2>1, PacketFacts DEF m, n
  <2>4. start \in Nat /\ size \in 1 .. MaxChunk /\ start + size <= n
    BY <1>1, <2>1, ChunkInside DEF m, n
  <2> HIDE DEF p, start, size
  <2>5. ASSUME NEW i \in DOMAIN p.body
        PROVE  start + i \in DOMAIN image /\ p.body[i] = image[start + i]
    <3>1. DOMAIN p.body = 1 .. size /\ DOMAIN image = 1 .. n
      BY <1>1, <2>3 DEF n
    <3>2. size \in Nat
      BY <2>4, Constants
    <3> QED BY <1>1, <2>3, <2>4, <3>1, <3>2
  <2>6. Load(p) \subseteq Dots(image)
    BY <2>5 DEF Load, Dots
  <2>7. Ends(p) => j = m
    BY <2>1, <2>3 DEF Ends
  <2> QED BY <2>2, <2>6, <2>7
<1> QED BY <1>3, <1>4, <1>5 DEF ps

-----------------------------------------------------------------------------
(* Outboxes *)

LEMMA SlotSendDots ==
    ASSUME NEW image \in Images
    PROVE  LET o == To(Server, <<TextPacket(TestMessage)>> \o Packets(image))
           IN  \A j \in DOMAIN o : Load(o[j][2]) \subseteq Dots(image)
<1> DEFINE text == TextPacket(TestMessage)
           ps == Packets(image)
           all == <<text>> \o ps
           o == To(Server, all)
<1>1. ps \in Seq(Sounds) /\ text \in Sounds
  BY PacketsSound, TextSound
<1>2. text.type = "Text"
  BY DEF TextPacket
<1> HIDE DEF text, ps
<1>3. PICK n \in Nat : n = Len(ps)
  BY <1>1
<1>4. /\ all \in Seq(Sounds) /\ Len(all) = n + 1 /\ all[1] = text
      /\ \A j \in 2 .. n + 1 : all[j] = ps[j - 1]
  BY <1>1, <1>3
<1>5. DOMAIN all = 1 .. n + 1
  BY <1>3, <1>4
<1> HIDE DEF all
<1>6. DOMAIN o = 1 .. n + 1 /\ \A j \in 1 .. n + 1 : o[j][2] = all[j]
  BY <1>5 DEF To
<1> HIDE DEF o
<1>7. ASSUME NEW j \in 1 .. n + 1 PROVE Load(o[j][2]) \subseteq Dots(image)
  <2>1. CASE j = 1
    BY <1>2, <1>4, <1>6, <2>1, TextLoad
  <2>2. CASE j # 1
    <3>1. o[j][2] = ps[j - 1] /\ j - 1 \in 1 .. n
      BY <1>4, <1>6, <2>2
    <3> QED BY <1>3, <3>1, PacketsDots DEF ps
  <2> QED BY <2>1, <2>2
<1> QED BY <1>6, <1>7 DEF o, all, text, ps

LEMMA BroadCastDots ==
    ASSUME NEW image \in Images, NEW order \in SetToSeqs(Clients)
    PROVE  LET o == BroadCast(Packets(image), order)
           IN  OneEach(o) /\ \A d : Loads(o, d) \subseteq Dots(image)
<1> DEFINE ps == Packets(image)
           o == BroadCast(ps, order)
<1>1. ps \in Seq(Sounds)
  BY PacketsSound
<1>2. PICK m \in Nat : m = Len(ps)
  BY <1>1
<1>3. Cardinality(Clients) \in Nat
  BY RelayAssumption, FS_CardinalityType
<1>4. /\ order \in [1 .. Cardinality(Clients) -> Clients]
      /\ \A i, j \in 1 .. Cardinality(Clients) : order[i] = order[j] => i = j
  BY DEF SetToSeqs
<1>5. PICK n \in Nat : /\ n = Len(order) /\ order \in [1 .. n -> Clients]
                       /\ \A i, j \in 1 .. n : order[i] = order[j] => i = j
  BY <1>3, <1>4
<1>6. \A j \in 1 .. m : /\ Load(ps[j]) \subseteq Dots(image)
                        /\ Ends(ps[j]) => j = m
  BY <1>2, PacketsDots
<1> HIDE DEF ps
<1>7. n * m \in Nat
  BY <1>2, <1>5
<1>8. o = [j \in 1 .. n * m |->
               <<order[((j - 1) \div m) + 1], ps[((j - 1) % m) + 1]>>]
  BY <1>2, <1>5 DEF BroadCast
<1>9. /\ DOMAIN o = 1 .. n * m
      /\ \A j \in 1 .. n * m :
             /\ o[j][1] = order[((j - 1) \div m) + 1]
             /\ o[j][2] = ps[((j - 1) % m) + 1]
  BY <1>7, <1>8
<1> HIDE DEF o
<1>10. ASSUME NEW j \in 1 .. n * m
       PROVE  /\ m # 0 /\ j - 1 \in Nat
              /\ (j - 1) \div m \in 0 .. n - 1 /\ (j - 1) % m \in 0 .. m - 1
  <2>1. j - 1 \in 0 .. n * m - 1
    BY <1>7
  <2>2. /\ m # 0
        /\ (j - 1) \div m \in 0 .. n - 1 /\ (j - 1) % m \in 0 .. m - 1
    BY <1>2, <1>5, <2>1, Quotient
  <2> QED BY <2>1, <2>2
<1>11. OneEach(o)
  <2>1. SUFFICES ASSUME NEW i \in 1 .. n * m, NEW j \in 1 .. n * m, i < j,
                        o[i][1] = o[j][1], Ends(o[i][2])
                 PROVE  FALSE
    BY <1>9 DEF OneEach
  <2>2. PICK a \in 0 .. n - 1, x \in 0 .. m - 1 :
            a = (i - 1) \div m /\ x = (i - 1) % m
    BY <1>10
  <2>3. PICK b \in 0 .. n - 1, y \in 0 .. m - 1 :
            b = (j - 1) \div m /\ y = (j - 1) % m
    BY <1>10
  <2>4. a + 1 \in 1 .. n /\ b + 1 \in 1 .. n /\ order[a + 1] = order[b + 1]
    <3>1. o[i][1] = order[a + 1] /\ o[j][1] = order[b + 1]
      BY <1>9, <2>2, <2>3
    <3>2. a + 1 \in 1 .. n /\ b + 1 \in 1 .. n
      BY <1>5
    <3> QED BY <2>1, <3>1, <3>2
  <2>5. a = b
    BY <1>5, <2>2, <2>3, <2>4
  <2>6. x + 1 \in 1 .. m /\ Ends(ps[x + 1])
    <3>1. o[i][2] = ps[x + 1]
      BY <1>9, <2>2
    <3>2. x + 1 \in 1 .. m
      BY <1>2
    <3> QED BY <2>1, <3>1, <3>2
  <2>7. x + 1 = m
    BY <1>6, <2>6
  <2>8. /\ m \in Nat \ {0} /\ i - 1 \in Nat /\ j - 1 \in Nat
        /\ i - 1 = a * m + x /\ j - 1 = a * m + y
    <3>1. m \in Nat \ {0} /\ i - 1 \in Nat /\ j - 1 \in Nat
      BY <1>2, <1>10
    <3> QED BY <2>2, <2>3, <2>5, <3>1, Division
  <2>9. a * m \in Nat
    BY <2>2, <2>8
  <2> QED BY <2>1, <2>2, <2>3, <2>7, <2>8, <2>9
<1>12. ASSUME NEW d PROVE Loads(o, d) \subseteq Dots(image)
  <2>1. ASSUME NEW j \in 1 .. n * m PROVE Load(o[j][2]) \subseteq Dots(image)
    <3>1. ((j - 1) % m) + 1 \in 1 .. m
      BY <1>2, <1>10
    <3> QED BY <1>6, <1>9, <3>1
  <2> QED BY <1>9, <2>1 DEF Loads
<1> QED BY <1>11, <1>12 DEF o, ps

LEMMA TickDots ==
    ASSUME NEW order \in SetToSeqs(Clients)
    PROVE  LET o == BroadCast(<<TextPacket(TestMessage)>>, order)
           IN  OneEach(o) /\ \A d : Loads(o, d) = {}
<1> DEFINE text == TextPacket(TestMessage)
           o == BroadCast(<<text>>, order)
<1>1. text.type = "Text"
  BY DEF TextPacket
<1>2. Cardinality(Clients) \in Nat
  BY RelayAssumption, FS_CardinalityType
<1>3. order \in [1 .. Cardinality(Clients) -> Clients]
  BY DEF SetToSeqs
<1>4. PICK n \in Nat : n = Len(order)
  BY <1>2, <1>3
<1> HIDE DEF text
<1>5. Len(<<text>>) = 1 /\ n * 1 = n
  <2>1. Len(<<text>>) = 1
    OBVIOUS
  <2>2. n * 1 = n
    OBVIOUS
  <2> QED BY <2>1, <2>2
<1>6. o = [j \in 1 .. n |->
               <<order[((j - 1) \div 1) + 1], <<text>>[((j - 1) % 1) + 1]>>]
  BY <1>4, <1>5 DEF BroadCast
<1>7. \A j \in 1 .. n : (j - 1) % 1 = 0
  BY <1>4
<1>8. DOMAIN o = 1 .. n /\ \A j \in 1 .. n : o[j][2] = text
  BY <1>4, <1>6, <1>7
<1> HIDE DEF o
<1>9. \A j \in DOMAIN o : Load(o[j][2]) = {} /\ ~Ends(o[j][2])
  BY <1>1, <1>8, TextLoad
<1> QED BY <1>9 DEF o, text, OneEach, Loads

LEMMA LoadsTail ==
    ASSUME NEW o \in Outbox, o # << >>, OneEach(o)
    PROVE  /\ OneEach(Tail(o))
           /\ \A d : /\ Loads(Tail(o), d) \subseteq Loads(o, d)
                     /\ Head(o)[1] = d => Load(Head(o)[2]) \subseteq Loads(o, d)
                     /\ Head(o)[1] = d /\ Ends(Head(o)[2]) => Loads(Tail(o), d) = {}
<1> DEFINE t == Tail(o)
<1>1. PICK n \in Nat : n = Len(o) /\ n >= 1
  BY TailFacts DEF Outbox
<1>2. /\ DOMAIN o = 1 .. n /\ DOMAIN t = 1 .. n - 1 /\ Head(o) = o[1]
      /\ \A i \in 1 .. n - 1 : t[i] = o[i + 1]
  BY <1>1, TailFacts DEF Outbox
<1>3. \A i \in 1 .. n - 1 : i + 1 \in 1 .. n /\ 1 < i + 1
  OBVIOUS
<1>4. 1 \in 1 .. n
  BY <1>1
<1> HIDE DEF t
<1>5. OneEach(t)
  <2>1. ASSUME NEW i \in 1 .. n - 1, NEW j \in 1 .. n - 1, i < j,
               t[i][1] = t[j][1]
        PROVE  ~Ends(t[i][2])
    <3>1. i + 1 \in 1 .. n /\ j + 1 \in 1 .. n /\ i + 1 < j + 1
      BY <2>1
    <3>2. o[i + 1][1] = o[j + 1][1]
      BY <1>2, <2>1
    <3>3. ~Ends(o[i + 1][2])
      BY <1>2, <3>1, <3>2 DEF OneEach
    <3> QED BY <1>2, <3>3
  <2> QED BY <1>2, <2>1 DEF OneEach
<1>6. ASSUME NEW d, NEW b \in Loads(t, d)
      PROVE  /\ b \in Loads(o, d)
             /\ Head(o)[1] = d => ~Ends(Head(o)[2])
  <2>1. PICK j \in 1 .. n - 1 : t[j][1] = d /\ b \in Load(t[j][2])
    BY <1>2, <1>6 DEF Loads
  <2>2. j + 1 \in 1 .. n /\ o[j + 1][1] = d /\ b \in Load(o[j + 1][2]) /\ 1 < j + 1
    BY <1>2, <1>3, <2>1
  <2>3. b \in Loads(o, d)
    BY <1>2, <1>6, <2>2 DEF Loads
  <2>4. ASSUME o[1][1] = d PROVE ~Ends(o[1][2])
    BY <1>2, <1>4, <2>2, <2>4 DEF OneEach
  <2> QED BY <1>2, <2>3, <2>4
<1>7. ASSUME NEW d, o[1][1] = d PROVE Load(o[1][2]) \subseteq Loads(o, d)
  BY <1>2, <1>4, <1>7 DEF Loads, Load
<1>8. ASSUME NEW d PROVE Loads(t, d) \subseteq Loads(o, d)
  BY <1>6
<1>9. ASSUME NEW d, Head(o)[1] = d, Ends(Head(o)[2]) PROVE Loads(t, d) = {}
  BY <1>6, <1>9
<1> QED BY <1>2, <1>5, <1>7, <1>8, <1>9 DEF t

-----------------------------------------------------------------------------
(* What becomes of a client's share *)

LEMMA UpToBoth ==
    ASSUME NEW P, NEW Q, NEW taken
    PROVE  /\ UpTo(P \cup Q, taken) <=> UpTo(P, taken) /\ UpTo(Q, taken)
           /\ UpTo({}, taken)
           /\ UpTo(P, taken) /\ Q \subseteq P => UpTo(Q, taken)
BY DEF UpTo

LEMMA AheadOfLast ==
    ASSUME NEW P, NEW L, NEW taken, UpTo(P, taken),
           \A b \in L : b[2] = taken[b[1]]
    PROVE  Ahead(P, L)
BY DEF UpTo, Ahead

\* More comes to the server, of the last screenshots only.
LEMMA ShownUp ==
    ASSUME NEW old, NEW a, NEW s, NEW q, NEW up, NEW taken,
           Shown(old, a, s, q, up, taken),
           NEW L, \A b \in L : b[2] = taken[b[1]],
           NEW new, new \subseteq up \cup L
    PROVE  Shown(old, a, s, q, new, taken)
<1> DEFINE all == old \cup a \cup Waiting(s) \cup q
<1>1. UpTo(all, taken) /\ Ahead(all, up)
  BY DEF Shown
<1>2. Ahead(all, L)
  BY <1>1, AheadOfLast
<1>3. Ahead(all, new)
  BY <1>1, <1>2 DEF Ahead
<1> QED BY <1>3 DEF Shown

LEMMA ShownDown ==
    ASSUME NEW old, NEW a, NEW s, NEW q, NEW up, NEW taken,
           Shown(old, a, s, q, up, taken), NEW new, new \subseteq up
    PROVE  Shown(old, a, s, q, new, taken)
BY AheadLess DEF Shown

\* Another screenshot is taken.
LEMMA UpToLater ==
    ASSUME NEW P, P \subseteq Marks, NEW taken \in [Clients -> Nat], UpTo(P, taken),
           NEW new \in [Clients -> Nat], \A c \in Clients : taken[c] <= new[c]
    PROVE  UpTo(P, new)
<1>1. ASSUME NEW b \in P PROVE b[2] <= new[b[1]]
  <2>1. b[1] \in Clients /\ b[2] \in 1 .. MaxPics
    BY MarkFacts
  <2>2. PICK c \in Clients : c = b[1]
    BY <2>1
  <2>3. PICK k \in 1 .. MaxPics : k = b[2]
    BY <2>1
  <2>4. k <= taken[c] /\ taken[c] <= new[c] /\ taken[c] \in Nat /\ new[c] \in Nat
    BY <2>2, <2>3 DEF UpTo
  <2>5. MaxPics \in Nat
    BY RelayAssumption
  <2>6. k <= new[c]
    BY <2>4, <2>5
  <2> QED BY <2>2, <2>3, <2>6
<1> QED BY <1>1 DEF UpTo

\* A packet is sent to the client, or lost on its way, or was a text; less is
\* left to be sent.
LEMMA ShownLess ==
    ASSUME NEW old, NEW a, NEW s, NEW q, NEW up, NEW taken,
           Shown(old, a, s, q, up, taken), NEW y, y \subseteq q
    PROVE  Shown(old, a, s, y, up, taken)
<1>1. Turns(a, s, y)
  BY TurnsLess DEF Shown
<1>2. UpTo(old \cup a \cup Waiting(s) \cup y, taken)
  BY DEF Shown, UpTo
<1>3. /\ Ahead(old \cup a \cup Waiting(s) \cup y, up)
      /\ Ahead(old, a \cup Waiting(s) \cup y)
  BY DEF Shown, Ahead
<1> QED BY <1>1, <1>2, <1>3 DEF Shown

LEMMA ShownSent ==
    ASSUME NEW old, NEW a, NEW s \in Seq(Sounds), NEW q, NEW up, NEW taken,
           Shown(old, a, s, q, up, taken),
           NEW p \in Sounds, Load(p) \subseteq q,
           NEW y, y \subseteq q, Ends(p) => y = {}
    PROVE  Shown(old, a, Append(s, p), y, up, taken)
<1>1. Turns(a, Append(s, p), y)
  BY TurnsAppend DEF Shown
<1>2. Waiting(Append(s, p)) \subseteq Waiting(s) \cup q
  BY WaitingAppend
<1>3. UpTo(old \cup a \cup Waiting(Append(s, p)) \cup y, taken)
  BY <1>2 DEF Shown, UpTo
<1>4. /\ Ahead(old \cup a \cup Waiting(Append(s, p)) \cup y, up)
      /\ Ahead(old, a \cup Waiting(Append(s, p)) \cup y)
  BY <1>2 DEF Shown, Ahead
<1> QED BY <1>1, <1>3, <1>4 DEF Shown

\* The client takes a packet into what it assembles, x.
LEMMA ShownTail ==
    ASSUME NEW old, NEW a, NEW s \in Seq(Sounds), s # << >>, NEW q, NEW up,
           NEW taken, Shown(old, a, s, q, up, taken),
           NEW x, x \subseteq a \cup Load(Head(s))
    PROVE  Shown(old, x, Tail(s), q, up, taken)
<1>1. Turns(x, Tail(s), q)
  BY TurnsTail DEF Shown
<1>2. x \subseteq a \cup Waiting(s) /\ Waiting(Tail(s)) \subseteq Waiting(s)
  BY WaitingTail
<1>3. UpTo(old \cup x \cup Waiting(Tail(s)) \cup q, taken)
  BY <1>2 DEF Shown, UpTo
<1>4. /\ Ahead(old \cup x \cup Waiting(Tail(s)) \cup q, up)
      /\ Ahead(old, x \cup Waiting(Tail(s)) \cup q)
  BY <1>2 DEF Shown, Ahead
<1> QED BY <1>1, <1>3, <1>4 DEF Shown

\* With the last packet it shows what it has assembled.
LEMMA ShownLast ==
    ASSUME NEW old, NEW a, NEW s \in Seq(Sounds), s # << >>, NEW q, NEW up,
           NEW taken, Shown(old, a, s, q, up, taken), Ends(Head(s)),
           NEW x, x \subseteq a \cup Load(Head(s))
    PROVE  Shown(x, {}, Tail(s), q, up, taken) /\ Ahead(old, x)
<1>1. Ahead(a \cup Load(Head(s)), q \cup Waiting(Tail(s)))
  BY TurnsTail DEF Shown
<1>2. Turns({}, Tail(s), q)
  BY TurnsTail DEF Shown
<1>3. x \subseteq a \cup Waiting(s) /\ Waiting(Tail(s)) \subseteq Waiting(s)
  BY WaitingTail
<1>4. UpTo(x \cup {} \cup Waiting(Tail(s)) \cup q, taken)
  BY <1>3 DEF Shown, UpTo
<1>5. Ahead(x \cup {} \cup Waiting(Tail(s)) \cup q, up) /\ Ahead(old, x)
  BY <1>3 DEF Shown, Ahead
<1>6. Ahead(x, {} \cup Waiting(Tail(s)) \cup q)
  BY <1>1 DEF Ahead
<1> QED BY <1>2, <1>4, <1>5, <1>6 DEF Shown

\* The server broadcasts what had come to it.
LEMMA ShownRefill ==
    ASSUME NEW old, NEW a, NEW s, NEW q, NEW up, NEW taken,
           Shown(old, a, s, q, up, taken),
           NEW y, y \subseteq up, UpTo(y, taken),
           NEW new, new \subseteq up, Ahead(y, new)
    PROVE  Shown(old, a, s, y, new, taken)
<1>1. Ahead(old \cup a \cup Waiting(s), up)
  BY DEF Shown, Ahead
<1>2. Ahead(old \cup a \cup Waiting(s), y) /\ Ahead(old \cup a \cup Waiting(s), new)
  BY <1>1, AheadLess
<1>3. Turns(a, s, y)
  <2>1. Ahead(a \cup Waiting(s), y)
    BY <1>2 DEF Ahead
  <2> QED BY <2>1, TurnsRefill DEF Shown
<1>4. UpTo(old \cup a \cup Waiting(s) \cup y, taken)
  BY DEF Shown, UpTo
<1>5. Ahead(old \cup a \cup Waiting(s) \cup y, new)
  BY <1>2 DEF Ahead
<1>6. Ahead(old, a \cup Waiting(s) \cup y)
  BY <1>2 DEF Shown, Ahead
<1> QED BY <1>3, <1>4, <1>5, <1>6 DEF Shown

-----------------------------------------------------------------------------
(* The actions *)

LEMMA InitTime == Init => TimeInv
<1> SUFFICES ASSUME Init PROVE TimeInv
  OBVIOUS
<1>1. /\ \A r \in Nodes : outbox[r] = << >> /\ net[r] = << >> /\ assembly[r] = << >>
      /\ \A c \in Clients : screen[c] = << >>
  BY DEF Init
<1>2. DOMAIN << >> = {}
  OBVIOUS
<1>3. \A P : Turns(P, << >>, {}) /\ InTurn(<< >>)
  BY <1>2 DEF Turns, Closed, InTurn
<1>4. Shown({}, {}, << >>, {}, {}, pics) /\ Intake({}, << >>, pics)
  <2>1. Waiting(<< >>) = {} /\ {} \cup {} = {}
    BY Nothing
  <2> QED BY <1>3, <2>1, Nothing, UpToBoth DEF Shown, Intake
<1>5. /\ Dots(<< >>) = {} /\ Waiting(<< >>) = {} /\ \A d : Loads(<< >>, d) = {}
  BY Nothing
<1>6. Upstream = {} /\ \A d : Sending(d) = {}
  BY <1>1, <1>5, Targets DEF Upstream, Sending
<1>7. SentInv
  BY <1>1, <1>2, Targets DEF SentInv
<1>8. OneEach(outbox[Server])
  BY <1>1, <1>2, Targets DEF OneEach
<1>9. IntakeInv
  BY <1>1, <1>4, <1>5, Targets DEF IntakeInv
<1>10. ShownInv
  <2>1. ASSUME NEW d \in Clients
        PROVE  Shown(Dots(screen[d]), Dots(assembly[d]), net[d], Sending(d), Upstream, pics)
    <3>1. d \in Nodes
      BY Targets
    <3>2. /\ Dots(screen[d]) = {} /\ Dots(assembly[d]) = {} /\ net[d] = << >>
          /\ Sending(d) = {} /\ Upstream = {}
      BY <1>1, <1>5, <1>6, <3>1
    <3> QED BY <1>4, <3>2
  <2> QED BY <2>1 DEF ShownInv
<1> QED BY <1>7, <1>8, <1>9, <1>10 DEF TimeInv

LEMMA SlotSendTime ==
    ASSUME Regular, IInv, Relayed', TimeInv, NEW c \in Clients, SlotSend(c)
    PROVE  TimeInv'
<1>1. PICK image \in {<< >>, Screenshot(c, pics[c] + 1)} :
          outbox' = [outbox EXCEPT ![c] =
                        To(Server, <<TextPacket(TestMessage)>> \o Packets(image))]
  BY DEF SlotSend
<1> DEFINE o == To(Server, <<TextPacket(TestMessage)>> \o Packets(image))
<1>2. /\ outbox \in [Nodes -> Outbox] /\ pics \in [Clients -> Nat]
      /\ pics' = [pics EXCEPT ![c] = @ + 1] /\ pics[c] + 1 \in 1 .. MaxPics
      /\ UNCHANGED <<net, assembly, screen>>
  BY RelayAssumption DEF IInv, Relayed, Outbox, SlotSend
<1>3. image \in Images
  BY <1>1, <1>2, ScreenshotPlaced, NothingPlaced DEF Pictures
<1>4. \A j \in DOMAIN o : Load(o[j][2]) \subseteq Dots(image)
  BY <1>3, SlotSendDots
<1>5. outbox' = [outbox EXCEPT ![c] = o]
  BY <1>1
<1> HIDE DEF o
<1>6. ASSUME NEW b \in Dots(image) PROVE b[1] = c /\ b[2] = pics[c] + 1
  <2>1. PICK i \in DOMAIN image : image[i] = b
    BY <1>6 DEF Dots
  <2>2. image = Screenshot(c, pics[c] + 1)
    BY <1>1, <2>1
  <2>3. b = Byte(c, pics[c] + 1, i)
    BY <2>1, <2>2 DEF Screenshot
  <2> QED BY <2>3 DEF Byte
<1>7. /\ outbox'[c] = o /\ outbox'[Server] = outbox[Server]
      /\ \A e \in Clients : e # c => outbox'[e] = outbox[e]
      /\ pics'[c] = pics[c] + 1 /\ \A e \in Clients : e # c => pics'[e] = pics[e]
  BY <1>2, <1>5, Targets
<1>8. SentInv'
  <2>1. ASSUME NEW e \in Clients, NEW j \in DOMAIN outbox'[e],
               NEW b \in Load(outbox'[e][j][2])
        PROVE  b[1] = e /\ b[2] = pics'[e]
    <3>1. CASE e = c
      BY <1>4, <1>6, <1>7, <2>1, <3>1
    <3>2. CASE e # c
      <4>1. outbox'[e] = outbox[e] /\ pics'[e] = pics[e]
        BY <1>7, <3>2
      <4> QED BY <2>1, <4>1 DEF TimeInv, SentInv
    <3> QED BY <3>1, <3>2
  <2> QED BY <2>1 DEF SentInv
<1>9. /\ pics' \in [Clients -> Nat]
      /\ \A e \in Clients : pics[e] <= pics'[e]
  BY <1>2
<1>10. \A P : P \subseteq Marks /\ UpTo(P, pics) => UpTo(P, pics')
  BY <1>2, <1>9, UpToLater
<1>11. /\ Upstream' = Upstream /\ \A d : Sending(d)' = Sending(d)
       /\ Upstream \subseteq Marks
  BY <1>2, <1>7 DEF Upstream, Sending, Dots, Waiting
<1>12. IntakeInv'
  <2>1. Intake(Dots(assembly[Server]), net[Server], pics')
    BY <1>10, <1>11 DEF TimeInv, IntakeInv, Intake, Upstream
  <2> QED BY <1>2, <2>1 DEF IntakeInv
<1>13. ShownInv'
  <2>1. ASSUME NEW d \in Clients
        PROVE  Shown(Dots(screen[d]), Dots(assembly[d]), net[d], Sending(d),
                     Upstream, pics')
    <3>1. Dots(screen[d]) \cup Dots(assembly[d]) \cup Waiting(net[d]) \cup Sending(d)
              \subseteq Marks
      BY DEF Dots, Waiting, Sending, Loads
    <3> QED BY <1>10, <3>1 DEF TimeInv, ShownInv, Shown
  <2> QED BY <1>2, <1>11, <2>1 DEF ShownInv
<1> QED BY <1>7, <1>8, <1>12, <1>13 DEF TimeInv

LEMMA TickTime ==
    ASSUME IInv, TimeInv, Tick
    PROVE  TimeInv'
<1>1. PICK order \in SetToSeqs(Clients) :
          outbox' = [outbox EXCEPT ![Server] =
                        BroadCast(<<TextPacket(TestMessage)>>, order)]
  BY DEF Tick
<1> DEFINE o == BroadCast(<<TextPacket(TestMessage)>>, order)
<1>2. outbox \in [Nodes -> Outbox] /\ UNCHANGED <<net, assembly, screen, pics>>
  BY DEF IInv, Relayed, Outbox, Tick
<1>3. OneEach(o) /\ \A d : Loads(o, d) = {}
  BY TickDots
<1>4. outbox' = [outbox EXCEPT ![Server] = o]
  BY <1>1
<1> HIDE DEF o
<1>5. outbox'[Server] = o /\ \A c \in Clients : outbox'[c] = outbox[c]
  BY <1>2, <1>4, Targets
<1>6. Upstream' = Upstream /\ \A d : Sending(d)' = {}
  BY <1>2, <1>3, <1>5 DEF Upstream, Sending
<1>7. SentInv' /\ IntakeInv'
  BY <1>2, <1>5 DEF TimeInv, SentInv, IntakeInv
<1>8. ShownInv'
  <2>1. ASSUME NEW d \in Clients
        PROVE  Shown(Dots(screen[d]), Dots(assembly[d]), net[d], {}, Upstream, pics)
    <3>1. {} \subseteq Sending(d)
      OBVIOUS
    <3> QED BY <3>1, ShownLess DEF TimeInv, ShownInv
  <2> QED BY <1>2, <1>6, <2>1 DEF ShownInv
<1> QED BY <1>3, <1>5, <1>7, <1>8 DEF TimeInv

\* What one async_send_to does.
LEMMA SentTo ==
    ASSUME Relayed, Relayed', NEW r \in Nodes, Send(r)
    PROVE  /\ outbox[r] \in Outbox /\ outbox[r] # << >> /\ 1 \in DOMAIN outbox[r]
           /\ outbox'[r] = Tail(outbox[r])
           /\ \A t \in Nodes : t # r => outbox'[t] = outbox[t]
           /\ \A t \in Nodes : net[t] \in Seq(Sounds)
           /\ UNCHANGED <<assembly, screen, pics>>
           /\ \E to \in Nodes, p \in Sounds :
                /\ outbox[r][1] = Head(outbox[r])
                /\ Head(outbox[r])[1] = to /\ Head(outbox[r])[2] = p
                /\ \A t \in Nodes : t # to => net'[t] = net[t]
                /\ net'[to] = net[to] \/ net'[to] = Append(net[to], p)
<1>1. /\ outbox \in [Nodes -> Outbox] /\ net \in [Nodes -> Seq(Sounds)]
      /\ outbox[r] \in Outbox /\ outbox[r] # << >>
  BY DEF Relayed, Outbox, Send
<1>2. outbox' = [outbox EXCEPT ![r] = Tail(@)] /\ UNCHANGED <<assembly, screen, pics>>
  BY DEF Send
<1>3. 1 \in DOMAIN outbox[r] /\ outbox[r][1] = Head(outbox[r])
      /\ Head(outbox[r]) \in Nodes \X Sounds
  BY <1>1 DEF Outbox
<1>4. PICK to \in Nodes, p \in Sounds :
          Head(outbox[r])[1] = to /\ Head(outbox[r])[2] = p
  BY <1>3
<1>5. net' = [net EXCEPT ![to] = Append(@, p)] \/ net' = net
  <2>1. \/ net' = [net EXCEPT ![Head(outbox[r])[1]] = Append(@, Head(outbox[r])[2])]
        \/ net' = net
    BY Zenon DEF Send
  <2> QED BY <1>4, <2>1
<1>6. /\ \A t \in Nodes : t # to => net'[t] = net[t]
      /\ net'[to] = net[to] \/ net'[to] = Append(net[to], p)
  BY <1>1, <1>5
<1>7. outbox'[r] = Tail(outbox[r]) /\ \A t \in Nodes : t # r => outbox'[t] = outbox[t]
  BY <1>1, <1>2
<1> QED BY <1>1, <1>2, <1>3, <1>4, <1>6, <1>7

LEMMA ClientSendsTime ==
    ASSUME IInv, Relayed', TimeInv, NEW c \in Clients, Send(c)
    PROVE  TimeInv'
<1>1. /\ Relayed /\ c \in Nodes /\ c # Server /\ Server \in Nodes
      /\ \A e \in Clients : e \in Nodes /\ e # Server
  BY Targets DEF IInv
<1>2. /\ outbox[c] \in Outbox /\ outbox[c] # << >> /\ 1 \in DOMAIN outbox[c]
      /\ outbox'[c] = Tail(outbox[c])
      /\ \A t \in Nodes : t # c => outbox'[t] = outbox[t]
      /\ \A t \in Nodes : net[t] \in Seq(Sounds)
      /\ UNCHANGED <<assembly, screen, pics>>
  BY <1>1, SentTo
<1>3. PICK to \in Nodes, p \in Sounds :
          /\ outbox[c][1] = Head(outbox[c])
          /\ Head(outbox[c])[1] = to /\ Head(outbox[c])[2] = p
          /\ \A t \in Nodes : t # to => net'[t] = net[t]
          /\ net'[to] = net[to] \/ net'[to] = Append(net[to], p)
  BY <1>1, SentTo
<1>4. to = Server
  BY <1>2, <1>3 DEF IInv, Aims
<1>5. \A b \in Load(p) : b[1] = c /\ b[2] = pics[c]
  BY <1>2, <1>3 DEF TimeInv, SentInv
<1>6. SentInv'
  <2>1. ASSUME NEW e \in Clients, NEW j \in DOMAIN outbox'[e],
               NEW b \in Load(outbox'[e][j][2])
        PROVE  b[1] = e /\ b[2] = pics[e]
    <3>1. CASE e = c
      <4>1. /\ DOMAIN outbox[c] = 1 .. Len(outbox[c]) /\ Len(outbox[c]) \in Nat
            /\ DOMAIN Tail(outbox[c]) = 1 .. Len(outbox[c]) - 1
            /\ \A i \in 1 .. Len(outbox[c]) - 1 :
                   Tail(outbox[c])[i] = outbox[c][i + 1]
        BY <1>2, TailFacts DEF Outbox
      <4>2. j + 1 \in DOMAIN outbox[c] /\ outbox'[e][j] = outbox[c][j + 1]
        <5>1. DOMAIN outbox'[e] = 1 .. Len(outbox[c]) - 1
              /\ outbox'[e][j] = Tail(outbox[c])[j]
          BY <1>2, <3>1, <4>1
        <5>2. PICK n \in Nat : n = Len(outbox[c])
          BY <4>1
        <5>3. j \in 1 .. n - 1
          BY <2>1, <5>1, <5>2
        <5> QED BY <4>1, <5>1, <5>2, <5>3
      <4>3. b \in Load(outbox[c][j + 1][2])
        BY <2>1, <4>2
      <4> QED BY <3>1, <4>2, <4>3 DEF TimeInv, SentInv
    <3>2. CASE e # c
      <4>1. outbox'[e] = outbox[e]
        BY <1>1, <1>2, <3>2
      <4> QED BY <2>1, <4>1 DEF TimeInv, SentInv
    <3> QED BY <3>1, <3>2
  <2> QED BY <1>2, <2>1 DEF SentInv
<1>7. pics[c] \in Nat /\ UpTo(Load(p), pics)
  <2>1. pics[c] \in Nat
    BY <1>1, RelayAssumption DEF Relayed
  <2> QED BY <1>5, <2>1 DEF UpTo
<1> DEFINE a == Dots(assembly[Server])
           s == net[Server]
<1>8. Intake(a, s, pics) /\ s \in Seq(Sounds)
  BY <1>1, <1>2 DEF TimeInv, IntakeInv
<1>9. /\ net'[Server] = s \/ net'[Server] = Append(s, p)
      /\ Waiting(net'[Server]) \subseteq Waiting(s) \cup Load(p)
  BY <1>3, <1>4, <1>8, WaitingAppend
<1>10. IntakeInv'
  <2>1. CASE net'[Server] = s
    BY <1>2, <1>8, <2>1 DEF IntakeInv
  <2>2. CASE net'[Server] = Append(s, p)
    <3>1. UpTo(a \cup Waiting(s), pics)
      BY <1>8 DEF Intake
    <3>2. Ahead(a \cup Waiting(s), Load(p))
      <4>1. \A b \in Load(p) : b[2] = pics[b[1]]
        BY <1>5
      <4> QED BY <3>1, <4>1, AheadOfLast
    <3>3. Waiting(Append(s, p)) = Waiting(s) \cup Load(p)
      BY <1>8, WaitingAppend
    <3>4. UpTo(a \cup Waiting(Append(s, p)), pics)
      BY <1>7, <3>1, <3>3 DEF UpTo
    <3>5. Ahead(a, Waiting(Append(s, p)))
      BY <1>8, <3>2, <3>3 DEF Intake, Ahead
    <3>6. InTurn(Append(s, p))
      <4>1. Ahead(Waiting(s), Load(p))
        BY <3>2 DEF Ahead
      <4> QED BY <1>8, <4>1, InTurnAppend DEF Intake
    <3> QED BY <1>2, <2>2, <3>4, <3>5, <3>6 DEF IntakeInv, Intake
  <2> QED BY <1>9, <2>1, <2>2
<1>11. ShownInv'
  <2>1. Upstream' \subseteq Upstream \cup Load(p)
    BY <1>2, <1>9 DEF Upstream
  <2>2. \A b \in Load(p) : b[2] = pics[b[1]]
    BY <1>5
  <2>3. ASSUME NEW d \in Clients
        PROVE  /\ Shown(Dots(screen[d]), Dots(assembly[d]), net[d], Sending(d),
                        Upstream', pics)
               /\ net'[d] = net[d] /\ Sending(d)' = Sending(d)
    <3>1. Shown(Dots(screen[d]), Dots(assembly[d]), net[d], Sending(d), Upstream, pics)
      BY DEF TimeInv, ShownInv
    <3>2. outbox'[Server] = outbox[Server] /\ net'[d] = net[d]
      BY <1>1, <1>2, <1>3, <1>4
    <3> QED BY <2>1, <2>2, <3>1, <3>2, ShownUp DEF Sending
  <2> QED BY <1>2, <2>3 DEF ShownInv
<1> QED BY <1>1, <1>2, <1>6, <1>10, <1>11 DEF TimeInv

LEMMA ServerSendsTime ==
    ASSUME IInv, Relayed', TimeInv, Send(Server)
    PROVE  TimeInv'
<1>1. Relayed /\ Server \in Nodes /\ \A e \in Clients : e \in Nodes /\ e # Server
  BY Targets DEF IInv
<1> DEFINE o == outbox[Server]
<1>2. /\ o \in Outbox /\ o # << >> /\ 1 \in DOMAIN o
      /\ outbox'[Server] = Tail(o)
      /\ \A t \in Nodes : t # Server => outbox'[t] = outbox[t]
      /\ \A t \in Nodes : net[t] \in Seq(Sounds)
      /\ UNCHANGED <<assembly, screen, pics>>
  BY <1>1, SentTo
<1>3. PICK to \in Nodes, p \in Sounds :
          /\ o[1] = Head(o) /\ Head(o)[1] = to /\ Head(o)[2] = p
          /\ \A t \in Nodes : t # to => net'[t] = net[t]
          /\ net'[to] = net[to] \/ net'[to] = Append(net[to], p)
  BY <1>1, SentTo
<1>4. to \in Clients
  BY <1>2, <1>3 DEF IInv, Aims
<1>5. /\ OneEach(Tail(o))
      /\ \A d : Loads(Tail(o), d) \subseteq Loads(o, d)
      /\ Load(p) \subseteq Loads(o, to)
      /\ Ends(p) => Loads(Tail(o), to) = {}
  <2>1. OneEach(o)
    BY DEF TimeInv
  <2> HIDE DEF o
  <2>2. /\ OneEach(Tail(o))
        /\ \A d : /\ Loads(Tail(o), d) \subseteq Loads(o, d)
                  /\ Head(o)[1] = d => Load(Head(o)[2]) \subseteq Loads(o, d)
                  /\ Head(o)[1] = d /\ Ends(Head(o)[2]) => Loads(Tail(o), d) = {}
    BY <1>2, <2>1, LoadsTail
  <2> QED BY <1>3, <2>2
<1>6. \A d : Sending(d) = Loads(o, d) /\ Sending(d)' = Loads(Tail(o), d)
  BY <1>2 DEF Sending
<1> HIDE DEF o
<1>7. net'[Server] = net[Server]
  BY <1>1, <1>3, <1>4
<1>8. Upstream' = Upstream
  BY <1>2, <1>7 DEF Upstream
<1>9. SentInv' /\ IntakeInv'
  BY <1>1, <1>2, <1>7 DEF TimeInv, SentInv, IntakeInv
<1>10. ASSUME NEW d \in Clients
       PROVE  Shown(Dots(screen[d]), Dots(assembly[d]), net'[d], Sending(d)',
                    Upstream, pics)
  <2>1. Shown(Dots(screen[d]), Dots(assembly[d]), net[d], Sending(d), Upstream, pics)
    BY DEF TimeInv, ShownInv
  <2>2. Sending(d)' \subseteq Sending(d)
    BY <1>5, <1>6
  <2>3. CASE net'[d] = net[d]
    BY <2>1, <2>2, <2>3, ShownLess
  <2>4. CASE net'[d] # net[d]
    <3>1. d = to /\ net'[d] = Append(net[d], p) /\ net[d] \in Seq(Sounds)
      BY <1>1, <1>2, <1>3, <2>4
    <3>2. Load(p) \subseteq Sending(d) /\ (Ends(p) => Sending(d)' = {})
      BY <1>5, <1>6, <3>1
    <3>3. Shown(Dots(screen[d]), Dots(assembly[d]), Append(net[d], p), Sending(d)',
                Upstream, pics)
      BY <1>3, <2>1, <2>2, <3>1, <3>2, ShownSent
    <3> QED BY <3>1, <3>3
  <2> QED BY <2>3, <2>4
<1>11. ShownInv'
  BY <1>2, <1>8, <1>10 DEF ShownInv
<1> QED BY <1>2, <1>5, <1>9, <1>11 DEF TimeInv

LEMMA ReceiveTextTime ==
    ASSUME IInv, TimeInv, NEW n \in Nodes, ReceiveText(n)
    PROVE  TimeInv'
<1>1. /\ net \in [Nodes -> Seq(Sounds)]
      /\ net[n] # << >> /\ Head(net[n]).type = "Text"
      /\ net' = [net EXCEPT ![n] = Tail(net[n])]
      /\ UNCHANGED <<outbox, assembly, screen, pics>>
  BY DEF IInv, Relayed, ReceiveText
<1>2. /\ net'[n] = Tail(net[n]) /\ \A t \in Nodes : t # n => net'[t] = net[t]
      /\ net[n] \in Seq(Sounds)
  BY <1>1
<1>3. SentInv' /\ OneEach(outbox[Server])'
  BY <1>1 DEF TimeInv, SentInv
<1>4. IntakeInv' /\ Upstream' \subseteq Upstream
  <2>1. CASE n = Server
    <3>1. Waiting(Tail(net[n])) \subseteq Waiting(net[n])
      BY <1>1, <1>2, WaitingTail
    <3>2. InTurn(Tail(net[n]))
      BY <1>1, <1>2, <2>1, InTurnTail DEF TimeInv, IntakeInv, Intake
    <3>3. Intake(Dots(assembly[n]), Tail(net[n]), pics)
      BY <2>1, <3>1, <3>2 DEF TimeInv, IntakeInv, Intake, UpTo, Ahead
    <3> QED BY <1>1, <1>2, <2>1, <3>1, <3>3 DEF IntakeInv, Upstream
  <2>2. CASE n # Server
    BY <1>1, <1>2, <2>2, Targets DEF TimeInv, IntakeInv, Upstream
  <2> QED BY <2>1, <2>2
<1>5. ShownInv'
  <2>1. ASSUME NEW d \in Clients
        PROVE  Shown(Dots(screen[d]), Dots(assembly[d]), net'[d], Sending(d),
                     Upstream', pics)
    <3>1. Shown(Dots(screen[d]), Dots(assembly[d]), net[d], Sending(d), Upstream, pics)
      BY DEF TimeInv, ShownInv
    <3>2. Shown(Dots(screen[d]), Dots(assembly[d]), net[d], Sending(d), Upstream', pics)
      BY <1>4, <3>1, ShownDown
    <3>3. d \in Nodes
      BY Targets
    <3>4. CASE d = n
      <4>1. Dots(assembly[d]) \subseteq Dots(assembly[d]) \cup Load(Head(net[d]))
        OBVIOUS
      <4> QED BY <1>1, <1>2, <3>2, <3>4, <4>1, ShownTail
    <3>5. CASE d # n
      BY <1>2, <3>2, <3>3, <3>5
    <3> QED BY <3>4, <3>5
  <2>2. \A d : Sending(d)' = Sending(d)
    BY <1>1 DEF Sending
  <2> QED BY <1>1, <2>1, <2>2 DEF ShownInv
<1> QED BY <1>3, <1>4, <1>5 DEF TimeInv

LEMMA ServerReceivesTime ==
    ASSUME Regular, IInv, TimeInv, ReceiveImage(Server)
    PROVE  TimeInv'
<1> DEFINE p == Head(net[Server])
           image == After(assembly[Server], p, buffer[Server])
           a == Dots(assembly[Server])
           s == net[Server]
<1>1. /\ s \in Seq(Sounds) /\ s # << >> /\ p \in Sounds /\ p.type = "Image"
      /\ image \in Pictures
      /\ net'[Server] = Tail(s)
      /\ \A r \in Nodes : r # Server => net'[r] = net[r]
      /\ assembly'[Server] = (IF p.last THEN << >> ELSE image)
      /\ \A r \in Nodes : r # Server => assembly'[r] = assembly[r]
      /\ UNCHANGED <<pics, screen>>
      /\ \/ outbox' = outbox
         \/ /\ p.last
            /\ \E order \in SetToSeqs(Clients) :
                   outbox' = [outbox EXCEPT ![Server] =
                                 BroadCast(Packets(image), order)]
  BY Taken, Targets
<1>2. outbox[Server] = << >> /\ outbox \in [Nodes -> Outbox]
  BY DEF ReceiveImage, IInv, Relayed, Outbox
<1>3. Dots(image) \subseteq a \cup Load(p)
  <2>1. /\ assembly[Server] \in Pictures /\ buffer[Server] \in Buffers
    BY Targets DEF IInv, Relayed
  <2> QED BY <1>1, <2>1, CopiedDots
<1>4. image \in Images
  BY <1>1 DEF Pictures
<1> HIDE DEF image
<1>5. Intake(a, s, pics)
  BY DEF TimeInv, IntakeInv
<1>6. /\ Load(p) \subseteq Waiting(s) /\ Waiting(Tail(s)) \subseteq Waiting(s)
      /\ InTurn(Tail(s)) /\ Ahead(Load(p), Waiting(Tail(s)))
  BY <1>1, <1>5, WaitingTail, InTurnTail DEF Intake
<1>7. Ahead(Dots(image), Waiting(Tail(s))) /\ UpTo(Dots(image), pics)
  BY <1>3, <1>5, <1>6 DEF Intake, Ahead, UpTo
<1>8. /\ Dots(assembly'[Server]) \subseteq Dots(image)
      /\ p.last => Dots(assembly'[Server]) = {}
  BY <1>1, Nothing
<1>9. IntakeInv'
  <2> HIDE DEF a, s, p
  <2>1. UpTo(Dots(assembly'[Server]) \cup Waiting(Tail(s)), pics)
    BY <1>5, <1>6, <1>7, <1>8 DEF Intake, UpTo
  <2>2. Ahead(Dots(assembly'[Server]), Waiting(Tail(s)))
    BY <1>7, <1>8, AheadLess
  <2>3. Intake(Dots(assembly'[Server]), Tail(s), pics)
    BY <1>6, <2>1, <2>2 DEF Intake
  <2> QED BY <1>1, <2>3 DEF IntakeInv
<1>10. /\ Dots(image) \subseteq Upstream /\ Upstream' \subseteq Upstream
       /\ p.last => Upstream' = Waiting(Tail(s))
  <2>1. Upstream = a \cup Waiting(s)
    BY DEF Upstream
  <2>2. Upstream' = Dots(assembly'[Server]) \cup Waiting(Tail(s))
    BY <1>1 DEF Upstream
  <2> HIDE DEF a, s, p
  <2> QED BY <1>3, <1>6, <1>8, <2>1, <2>2
<1> HIDE DEF a, s, p
<1>11. CASE outbox' = outbox
  <2>1. SentInv' /\ OneEach(outbox[Server])'
    BY <1>1, <1>11 DEF TimeInv, SentInv
  <2>2. ASSUME NEW d \in Clients
        PROVE  /\ Shown(Dots(screen[d]), Dots(assembly[d]), net[d], Sending(d),
                        Upstream', pics)
               /\ assembly'[d] = assembly[d] /\ net'[d] = net[d]
               /\ Sending(d)' = Sending(d)
    <3>1. Shown(Dots(screen[d]), Dots(assembly[d]), net[d], Sending(d), Upstream, pics)
      BY DEF TimeInv, ShownInv
    <3>2. Shown(Dots(screen[d]), Dots(assembly[d]), net[d], Sending(d), Upstream', pics)
      BY <1>10, <3>1, ShownDown
    <3>3. assembly'[d] = assembly[d] /\ net'[d] = net[d]
      BY <1>1, Targets
    <3> QED BY <1>11, <3>2, <3>3 DEF Sending
  <2>3. ShownInv'
    BY <1>1, <2>2 DEF ShownInv
  <2> QED BY <1>9, <2>1, <2>3 DEF TimeInv
<1>12. ASSUME p.last, NEW order \in SetToSeqs(Clients),
              outbox' = [outbox EXCEPT ![Server] = BroadCast(Packets(image), order)]
       PROVE  TimeInv'
  <2> DEFINE o == BroadCast(Packets(image), order)
  <2>1. OneEach(o) /\ \A d : Loads(o, d) \subseteq Dots(image)
    BY <1>4, BroadCastDots
  <2>2. outbox' = [outbox EXCEPT ![Server] = o]
    BY <1>12
  <2> HIDE DEF o
  <2>3. outbox'[Server] = o /\ \A c \in Clients : outbox'[c] = outbox[c]
    BY <1>2, <2>2, Targets
  <2>4. SentInv'
    BY <1>1, <2>3 DEF TimeInv, SentInv
  <2>5. ASSUME NEW d \in Clients
        PROVE  /\ Shown(Dots(screen[d]), Dots(assembly[d]), net[d], Sending(d)',
                        Upstream', pics)
               /\ assembly'[d] = assembly[d] /\ net'[d] = net[d]
    <3>1. Shown(Dots(screen[d]), Dots(assembly[d]), net[d], Sending(d), Upstream, pics)
      BY DEF TimeInv, ShownInv
    <3>2. Sending(d)' \subseteq Dots(image)
      BY <2>1, <2>3 DEF Sending
    <3>3. /\ Sending(d)' \subseteq Upstream /\ UpTo(Sending(d)', pics)
          /\ Ahead(Sending(d)', Upstream')
      BY <1>7, <1>10, <1>12, <3>2 DEF UpTo, Ahead
    <3>4. Shown(Dots(screen[d]), Dots(assembly[d]), net[d], Sending(d)', Upstream', pics)
      BY <1>10, <3>1, <3>3, ShownRefill
    <3> QED BY <1>1, <3>4, Targets
  <2>6. ShownInv'
    BY <1>1, <2>5 DEF ShownInv
  <2> QED BY <1>9, <2>1, <2>3, <2>4, <2>6 DEF TimeInv
<1> QED BY <1>1, <1>11, <1>12

LEMMA ClientReceivesTime ==
    ASSUME Regular, IInv, Relayed', TimeInv, NEW n \in Clients, ReceiveImage(n)
    PROVE  /\ TimeInv'
           /\ screen' # screen => /\ \A d \in Clients : d # n => screen'[d] = screen[d]
                                  /\ Ahead(Dots(screen[n]), Dots(screen'[n]))
<1> DEFINE p == Head(net[n])
           image == After(assembly[n], p, buffer[n])
           a == Dots(assembly[n])
           s == net[n]
<1>1. n \in Nodes /\ n # Server /\ \A e \in Clients : e \in Nodes
  BY Targets
<1>2. /\ s \in Seq(Sounds) /\ s # << >> /\ p \in Sounds /\ p.type = "Image"
      /\ net'[n] = Tail(s)
      /\ \A r \in Nodes : r # n => net'[r] = net[r]
      /\ assembly'[n] = (IF p.last THEN << >> ELSE image)
      /\ \A r \in Nodes : r # n => assembly'[r] = assembly[r]
      /\ pics' = pics /\ outbox' = outbox
      /\ \/ screen' = screen
         \/ p.last /\ screen' = [screen EXCEPT ![n] = image]
  BY <1>1, Taken
<1>3. Dots(image) \subseteq a \cup Load(p)
  <2>1. assembly[n] \in Pictures /\ buffer[n] \in Buffers
    BY <1>1 DEF IInv, Relayed
  <2> QED BY <1>2, <2>1, CopiedDots
<1> HIDE DEF image
<1>4. screen \in [Clients -> Pictures]
  BY DEF IInv, Relayed
<1>5. Upstream' = Upstream /\ \A d : Sending(d)' = Sending(d)
  BY <1>1, <1>2, Targets DEF Upstream, Sending
<1>6. SentInv' /\ OneEach(outbox[Server])' /\ IntakeInv'
  BY <1>1, <1>2, Targets DEF TimeInv, SentInv, IntakeInv
<1>7. Shown(Dots(screen[n]), a, s, Sending(n), Upstream, pics)
  BY DEF TimeInv, ShownInv
<1>8. /\ Shown(Dots(screen'[n]), Dots(assembly'[n]), net'[n], Sending(n), Upstream, pics)
      /\ screen' # screen => /\ \A d \in Clients : d # n => screen'[d] = screen[d]
                             /\ Ahead(Dots(screen[n]), Dots(screen'[n]))
  <2> HIDE DEF p, s, a
  <2>1. Head(s) = p
    BY DEF p, s
  <2>2. CASE screen' = screen
    <3>1. Dots(assembly'[n]) \subseteq a \cup Load(Head(s))
      BY <1>2, <1>3, <2>1, Nothing
    <3>2. Shown(Dots(screen[n]), Dots(assembly'[n]), Tail(s), Sending(n), Upstream, pics)
      BY <1>2, <1>7, <3>1, ShownTail
    <3> QED BY <1>2, <2>2, <3>2
  <2>3. CASE p.last /\ screen' = [screen EXCEPT ![n] = image]
    <3>1. screen'[n] = image /\ \A d \in Clients : d # n => screen'[d] = screen[d]
      BY <1>4, <2>3
    <3>2. Dots(assembly'[n]) = {}
      BY <1>2, <2>3, Nothing
    <3>3. Ends(Head(s))
      BY <1>2, <2>1, <2>3 DEF Ends
    <3>4. /\ Shown(Dots(image), {}, Tail(s), Sending(n), Upstream, pics)
          /\ Ahead(Dots(screen[n]), Dots(image))
      BY <1>2, <1>3, <1>7, <2>1, <3>3, ShownLast
    <3> QED BY <1>2, <3>1, <3>2, <3>4
  <2> QED BY <1>2, <2>2, <2>3
<1>9. ASSUME NEW d \in Clients
      PROVE  Shown(Dots(screen'[d]), Dots(assembly'[d]), net'[d], Sending(d),
                   Upstream, pics)
  <2>1. CASE d = n
    BY <1>8, <2>1
  <2>2. CASE d # n
    <3>1. screen'[d] = screen[d] /\ assembly'[d] = assembly[d] /\ net'[d] = net[d]
      BY <1>1, <1>2, <1>8, <2>2
    <3> QED BY <3>1 DEF TimeInv, ShownInv
  <2> QED BY <2>1, <2>2
<1>10. ShownInv'
  BY <1>2, <1>5, <1>9 DEF ShownInv
<1> QED BY <1>6, <1>8, <1>10 DEF TimeInv

\* Among displays of one size everything that reaches a client does so in the
\* order in which it was taken, image by image, and of each client's share
\* (AsioUdpServer.cpp:84-115, 164-178; connection.cpp:92-118, 333-348).
THEOREM ImagesComeInTurn == Spec => [](Regular => TimeInv)
<1> DEFINE Inv == Regular => TimeInv
<1>1. Init => Inv
  BY InitTime
<1>2. IInv /\ IInv' /\ Inv /\ [Next]_vars => Inv'
  <2> SUFFICES ASSUME IInv, IInv', Regular, TimeInv, [Next]_vars PROVE TimeInv'
    BY DEF Regular
  <2>1. Relayed'
    BY DEF IInv
  <2>2. \A r \in Nodes : r = Server \/ r \in Clients
    BY DEF Nodes
  <2>3. ASSUME NEW c \in Clients, SlotSend(c) PROVE TimeInv'
    BY <2>1, <2>3, SlotSendTime
  <2>4. CASE Tick
    BY <2>4, TickTime
  <2>5. ASSUME NEW r \in Nodes, Send(r) PROVE TimeInv'
    BY <2>1, <2>2, <2>5, ClientSendsTime, ServerSendsTime
  <2>6. ASSUME NEW r \in Nodes, ReceiveText(r) PROVE TimeInv'
    BY <2>6, ReceiveTextTime
  <2>7. ASSUME NEW r \in Nodes, ReceiveImage(r) PROVE TimeInv'
    BY <2>1, <2>2, <2>7, ServerReceivesTime, ClientReceivesTime
  <2>8. CASE UNCHANGED vars
    <3>1. UNCHANGED <<outbox, net, assembly, screen, pics>>
      BY <2>8 DEF vars
    <3>2. Upstream' = Upstream /\ \A d : Sending(d)' = Sending(d)
      BY <3>1 DEF Upstream, Sending
    <3> QED BY <3>1, <3>2 DEF TimeInv, SentInv, IntakeInv, ShownInv
  <2> QED BY <2>3, <2>4, <2>5, <2>6, <2>7, <2>8 DEF Next
<1> QED BY <1>1, <1>2, PacketsComeInOrder, PTL DEF Spec

\* NeverBackInTime for every number of clients and every size of a display, a
\* packet and a socket: what is lost or mixed up on the way may tear an image,
\* yet nothing older replaces what a display shows
\* (AsioUdpServer.cpp:164-178, connection.cpp:333-348).
THEOREM DisplaysGoForward == Spec => NeverBackInTime
<1> DEFINE Step == Regular => \A d \in Clients : screen'[d] # screen[d]
                                => Earlier(screen[d], screen'[d])
<1>1. IInv /\ IInv' /\ (Regular => TimeInv) /\ [Next]_vars => [Step]_vars
  <2> SUFFICES ASSUME IInv, IInv', Regular, TimeInv, Next,
                      NEW d \in Clients, screen'[d] # screen[d]
               PROVE  Earlier(screen[d], screen'[d])
    OBVIOUS
  <2>1. /\ screen[d] \in Seq(Bytes) /\ screen'[d] \in Seq(Bytes) /\ Relayed'
    BY DEF IInv, Relayed, Pictures, Images
  <2>2. PICK n \in Nodes : ReceiveImage(n)
    BY <2>1 DEF Next, SlotSend, Tick, Send, ReceiveText
  <2>3. n \in Clients
    BY <2>2, Taken, Targets
  <2>4. Ahead(Dots(screen[d]), Dots(screen'[d]))
    <3>1. /\ \A e \in Clients : e # n => screen'[e] = screen[e]
          /\ Ahead(Dots(screen[n]), Dots(screen'[n]))
      <4>1. screen' # screen
        OBVIOUS
      <4> QED BY <2>1, <2>2, <2>3, <4>1, ClientReceivesTime
    <3> QED BY <3>1
  <2>5. ASSUME NEW image \in Seq(Bytes), NEW i \in DOMAIN image, IsByte(image[i])
        PROVE  image[i] \in Dots(image)
    <3>1. image[i] \in Bytes
      BY <2>5
    <3> QED BY <2>5, <3>1 DEF Dots, Marks
  <2>6. ASSUME NEW i \in DOMAIN screen[d], NEW j \in DOMAIN screen'[d],
               IsByte(screen[d][i]), IsByte(screen'[d][j]),
               screen[d][i][1] = screen'[d][j][1]
        PROVE  screen[d][i][2] <= screen'[d][j][2]
    <3>1. screen[d][i] \in Dots(screen[d]) /\ screen'[d][j] \in Dots(screen'[d])
      BY <2>1, <2>5, <2>6
    <3> QED BY <2>4, <2>6, <3>1 DEF Ahead
  <2> QED BY <2>6 DEF Earlier
<1>2. NeverBackInTime <=> [][Step]_vars
  BY DEF NeverBackInTime
<1> HIDE DEF Step
<1> QED BY <1>1, <1>2, PacketsComeInOrder, ImagesComeInTurn, PTL DEF Spec

-----------------------------------------------------------------------------
(* The size of the receive buffer *)

\* What AssembledIsSent misses is the receive buffer: with a header's length
\* more of it, and displays whose packets can be numbered, every image would be
\* assembled as it was sent (ClientSession.h:13-14, AsioUdpServer.cpp:162-178).
THEOREM RoomMakesExact ==
    Spec => [](Payload = MaxChunk /\ Fitting = Clients => AssembledIsSent)
<1>1. ASSUME LoneImagesArrive, Payload = MaxChunk, Fitting = Clients
      PROVE  AssembledIsSent
  <2>1. ASSUME NEW d \in Clients, NEW k PROVE Arrived(d, k) = Screenshot(d, k)
    <3>1. ASSUME NEW i \in 1 .. Size[d] PROVE Header + InChunk(i) < BufSize
      <4>1. i - 1 \in Nat
        BY Constants
      <4>2. InChunk(i) \in 0 .. MaxChunk - 1
        BY <4>1, Constants, Division DEF InChunk
      <4> QED BY <1>1, <4>2, FragmentAssumption DEF Payload
    <3> QED BY <3>1 DEF Arrived, Screenshot
  <2>2. SUFFICES ASSUME NEW c \in Clients, ~mixed, lost = {}, screen[c] # << >>
                 PROVE  \E d \in Clients : \E k \in 1 .. pics[d] :
                            screen[c] = Screenshot(d, k)
    BY DEF AssembledIsSent
  <2>3. PICK d \in Clients : \E k \in 1 .. pics[d] : screen[c] = Arrived(d, k)
    BY <1>1, <2>2 DEF LoneImagesArrive
  <2> QED BY <2>1, <2>3
<1>2. LoneImagesArrive => (Payload = MaxChunk /\ Fitting = Clients => AssembledIsSent)
  BY <1>1
<1> QED BY <1>2, LoneImagesComeThrough, PTL

\* As it is, no screenshot that is longer than the room behind the header is
\* ever shown as it was taken, by anybody (ClientSession.h:13-14,
\* AsioUdpServer.cpp:100, 147, 165).
THEOREM LongImagesAreCut ==
    Spec => [](Payload < MaxChunk =>
                   \A c, d \in Clients : \A k \in 1 .. MaxPics :
                       Payload < Size[d] => screen[c] # Screenshot(d, k))
<1> DEFINE Cut == Payload < MaxChunk =>
                      \A c, d \in Clients : \A k \in 1 .. MaxPics :
                          Payload < Size[d] => screen[c] # Screenshot(d, k)
<1>1. ASSUME StripesAreBlack, Payload < MaxChunk, NEW c \in Clients,
             NEW d \in Clients, NEW k \in 1 .. MaxPics, Payload < Size[d],
             screen[c] = Screenshot(d, k)
      PROVE  FALSE
  <2> DEFINE i == Payload + 1
  <2>1. /\ i \in 1 .. MaxChunk /\ i \in 1 .. Size[d] /\ 0 * MaxChunk + i = i
        /\ Header + (i - 1) = BufSize /\ BufSize \in Nat
    BY <1>1, Constants, FragmentAssumption DEF Payload
  <2> HIDE DEF i
  <2>2. InChunk(i) = i - 1
    <3>1. InChunk(0 * MaxChunk + i) = i - 1
      BY <2>1, Place
    <3> QED BY <2>1, <3>1
  <2>3. Screenshot(d, k)[i] = Zero
    <3>1. DOMAIN Screenshot(d, k) = 1 .. Size[d]
      BY DEF Screenshot
    <3>2. Header + InChunk(i) >= BufSize
      BY <2>1, <2>2
    <3> QED BY <1>1, <2>1, <3>1, <3>2 DEF StripesAreBlack, Striped
  <2>4. Screenshot(d, k)[i] = Byte(d, k, i)
    BY <2>1 DEF Screenshot
  <2>5. Byte(d, k, i) \in Marks
    BY <2>1, MarkFacts
  <2> QED BY <2>3, <2>4, <2>5, MarkFacts
<1>2. StripesAreBlack => Cut
  BY <1>1
<1> QED BY <1>2, StripesStayBlack, PTL
=============================================================================
