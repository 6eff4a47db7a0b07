----------------------------- MODULE WireProofs -----------------------------
(* What Wire's receiver makes of the sender's bytes, for messages of any    *)
(* content and any mixture of byte orders.                                  *)
EXTENDS Wire, TLAPS

-----------------------------------------------------------------------------
\* A datagram's buffer holds a header.
LEMMA BufFacts ==
    BufSize \in Nat /\ BufSize <= 65535 /\ HeaderSize \in Nat /\ HeaderSize <= BufSize
BY WireAssumption, SMTT(60) DEF HeaderSize

-----------------------------------------------------------------------------
(* Words *)

\* The lengths that four bytes can hold.
Lengths == {n \in Nat : n <= 4294967295}

\* A length survives being cut into bytes.
LEMMA NumberOfU32 ==
    ASSUME NEW n \in Lengths
    PROVE  n \in Nat /\ U32(n) \in Word(4) /\ Number(U32(n)) = n
<1>1. n \in Nat /\ n <= 4294967295
  BY SMT DEF Lengths
<1>2. U32(n) \in Word(4)
  BY <1>1, SMT DEF U32, Word, Byte
<1>3. 16777216 * ((n \div 16777216) % 256) + 65536 * ((n \div 65536) % 256)
        + 256 * ((n \div 256) % 256) + (n % 256) = n
  BY <1>1, SMTT(60)
<1>4. Number(U32(n)) = n
  BY <1>3, SMT DEF U32, Number
<1> QED
  BY <1>1, <1>2, <1>4, SMT

LEMMA ShortText ==
    ASSUME NEW s \in ShortTexts
    PROVE  s \in Seq(Byte) /\ Len(s) \in Lengths
BY SMT DEF ShortTexts, Lengths

LEMMA U32Word ==
    ASSUME NEW n \in Nat
    PROVE  U32(n) \in Word(4)
BY SMT DEF U32, Word, Byte

LEMMA U16Word ==
    ASSUME NEW n \in Nat
    PROVE  U16(n) \in Word(2)
BY DEF U16, Word, Byte

\* A word is a sequence of its width.
LEMMA WordSeq ==
    ASSUME NEW k \in Nat, NEW w \in Word(k)
    PROVE  w \in Seq(Byte) /\ Len(w) = k /\ DOMAIN w = 1 .. k
BY DEF Word

\* Flipping a word gives a word, and flipping it again the word itself.
LEMMA FlipTwice ==
    ASSUME NEW k \in Nat, NEW w \in Word(k)
    PROVE  Flip(w) \in Word(k) /\ Flip(Flip(w)) = w
<1>1. Len(w) = k /\ DOMAIN w = 1 .. k
  BY WordSeq
<1>2. Flip(w) = [i \in 1 .. k |-> w[k + 1 - i]]
  BY <1>1 DEF Flip
<1>3. Flip(w) \in Word(k)
  BY <1>2 DEF Word
<1>4. Flip(Flip(w)) = [i \in 1 .. k |-> Flip(w)[k + 1 - i]]
  BY <1>3, WordSeq DEF Flip
<1>5. \A i \in 1 .. k : Flip(w)[k + 1 - i] = w[i]
  BY <1>2
<1>6. w = [i \in 1 .. k |-> w[i]]
  BY DEF Word
<1> QED
  BY <1>3, <1>4, <1>5, <1>6

\* A host reads back what it wrote.
LEMMA LoadMem ==
    ASSUME NEW h \in Hosts, NEW k \in Nat, NEW w \in Word(k)
    PROVE  Mem(h, w) \in Word(k) /\ Load(h, Mem(h, w)) = w
BY FlipTwice DEF Mem, Load, Hosts

\* In network order a word looks the same whoever wrote it.
LEMMA NetWordIsWord ==
    ASSUME NEW h \in Hosts, NEW k \in Nat, NEW w \in Word(k)
    PROVE  NetWord(h, w) = w
BY FlipTwice DEF NetWord, Mem, Htonl, Hosts

LEMMA NetWordRead ==
    ASSUME NEW h \in Hosts, NEW b, NEW off, At(b, off, 4) \in Word(4)
    PROVE  NetWordAt(h, b, off) = At(b, off, 4)
BY FlipTwice DEF NetWordAt, Ntohl, Load, Mem, Hosts

-----------------------------------------------------------------------------
(* Bytes *)

\* b holds the bytes of s behind its first off ones.
Holds(b, off, s) == \A i \in 1 .. Len(s) : b[off + i] = s[i]

LEMMA Concat ==
    ASSUME NEW s \in Seq(Byte), NEW t \in Seq(Byte)
    PROVE  s \o t \in Seq(Byte) /\ Len(s \o t) = Len(s) + Len(t)
OBVIOUS

LEMMA HoldsAt ==
    ASSUME NEW b, NEW off \in Nat, NEW s \in Seq(Byte), Holds(b, off, s)
    PROVE  At(b, off, Len(s)) = s
BY DEF At, Holds

LEMMA HoldsBoth ==
    ASSUME NEW b, NEW off \in Nat, NEW s \in Seq(Byte), NEW t \in Seq(Byte),
           Holds(b, off, s \o t)
    PROVE  Holds(b, off, s) /\ Holds(b, off + Len(s), t)
<1>1. Len(s \o t) = Len(s) + Len(t)
  OBVIOUS
<1>2. Holds(b, off, s)
  BY <1>1 DEF Holds
<1>3. ASSUME NEW i \in 1 .. Len(t) PROVE b[off + Len(s) + i] = t[i]
  <2>1. Len(s) + i \in 1 .. Len(s \o t) /\ (s \o t)[Len(s) + i] = t[i]
    BY <1>1
  <2>2. off + (Len(s) + i) = off + Len(s) + i
    OBVIOUS
  <2> QED BY <2>1, <2>2 DEF Holds
<1> QED BY <1>2, <1>3 DEF Holds

LEMMA AtWord ==
    ASSUME NEW b, NEW off \in Nat, NEW k \in Nat, NEW w \in Word(k), Holds(b, off, w)
    PROVE  At(b, off, k) = w
BY WordSeq, HoldsAt

-----------------------------------------------------------------------------
(* Payloads *)

\* A string is read back by any host, whatever lies behind it.
LEMMA TextHeld ==
    ASSUME NEW h \in Hosts, NEW g \in Hosts, NEW b, NEW s \in Seq(Byte),
           Len(s) \in Lengths, Holds(b, 0, Text(h, s))
    PROVE  TextSize(g, b) = Len(s) /\ TextAt(g, b) = s
<1> DEFINE n == U32(Len(s))
<1>1. n \in Word(4) /\ Number(n) = Len(s)
  BY NumberOfU32
<1>2. Text(h, s) = n \o s
  BY <1>1, NetWordIsWord DEF Text
<1>3. n \in Seq(Byte) /\ Len(n) = 4
  BY <1>1, WordSeq
<1>4. Holds(b, 0, n) /\ Holds(b, 4, s)
  <2> HIDE DEF n
  <2>1. Holds(b, 0, n) /\ Holds(b, 0 + Len(n), s)
    BY <1>2, <1>3, HoldsBoth
  <2> QED BY <2>1, <1>3
<1>5. At(b, 0, 4) = n
  <2> HIDE DEF n
  <2> QED BY <1>1, <1>4, AtWord
<1>6. NetWordAt(g, b, 0) = n
  <2> HIDE DEF n
  <2> QED BY <1>1, <1>5, NetWordRead
<1>7. TextSize(g, b) = Len(s)
  BY <1>1, <1>6 DEF TextSize
<1>8. TextAt(g, b) = s
  BY <1>4, <1>7, HoldsAt DEF TextAt
<1> QED BY <1>7, <1>8

\* The size of what Text writes, and that it writes bytes.
LEMMA TextSeq ==
    ASSUME NEW h \in Hosts, NEW s \in Seq(Byte), Len(s) \in Lengths
    PROVE  Text(h, s) \in Seq(Byte) /\ Len(Text(h, s)) = 4 + Len(s)
<1>1. U32(Len(s)) \in Word(4)
  BY NumberOfU32
<1>2. NetWord(h, U32(Len(s))) \in Word(4)
  BY <1>1, NetWordIsWord
<1>3. NetWord(h, U32(Len(s))) \in Seq(Byte) /\ Len(NetWord(h, U32(Len(s)))) = 4
  BY <1>2, WordSeq
<1> QED BY <1>3, Concat DEF Text

\* FirstData is read back by a host like the one that wrote it.
LEMMA FirstDataHeld ==
    ASSUME NEW h \in Hosts, NEW b, NEW m \in FirstDatas,
           Holds(b, 0, FirstDataBytes(h, m))
    PROVE  FirstDataOf(h, b) = m
<1>1. /\ m = [kind |-> "FirstData", addr |-> m.addr, port |-> m.port]
      /\ m.addr \in Seq(Byte) /\ Len(m.addr) \in Lengths /\ m.port \in Word(2)
  <2>1. m.addr \in ShortTexts
    BY DEF FirstDatas
  <2>2. m = [kind |-> "FirstData", addr |-> m.addr, port |-> m.port] /\ m.port \in Word(2)
    BY DEF FirstDatas
  <2> QED BY <2>1, <2>2, ShortText
<1> DEFINE t == Text(h, m.addr)
           p == PortBytes(h, m)
<1>2. p \in Word(2) /\ Load(h, p) = m.port
  BY <1>1, LoadMem DEF PortBytes
<1>3. p \in Seq(Byte)
  BY <1>2, WordSeq
<1>4. t \in Seq(Byte) /\ Len(t) = 4 + Len(m.addr)
  BY <1>1, TextSeq
<1>5. Holds(b, 0, t) /\ Holds(b, 4 + Len(m.addr), p)
  <2>1. FirstDataBytes(h, m) = t \o p
    BY DEF FirstDataBytes
  <2> HIDE DEF t, p
  <2>2. Holds(b, 0, t) /\ Holds(b, 0 + Len(t), p)
    BY <1>3, <1>4, <2>1, HoldsBoth
  <2>3. 0 + Len(t) = 4 + Len(m.addr)
    BY <1>1, <1>4
  <2> QED BY <2>2, <2>3
<1>6. TextSize(h, b) = Len(m.addr) /\ TextAt(h, b) = m.addr
  BY <1>1, <1>5, TextHeld
<1>7. At(b, 4 + Len(m.addr), 2) = p
  <2>1. 4 + Len(m.addr) \in Nat
    BY <1>1
  <2> HIDE DEF p
  <2> QED BY <1>2, <1>5, <2>1, AtWord
<1>8. Load(h, At(b, 4 + TextSize(h, b), 2)) = m.port
  BY <1>2, <1>6, <1>7
<1> QED BY <1>1, <1>6, <1>8 DEF FirstDataOf

\* A vector of int is read back by any host.
LEMMA IntsHeld ==
    ASSUME NEW h \in Hosts, NEW g \in Hosts, NEW b, NEW off \in Nat,
           NEW d \in Seq(Word(4)), Len(d) \in Lengths, Holds(b, off, Ints(h, d))
    PROVE  IntsAt(g, b, off) = d
<1> DEFINE n == U32(Len(d))
           c == [k \in 1 .. 4 * Len(d) |-> d[((k - 1) \div 4) + 1][((k - 1) % 4) + 1]]
<1>1. n \in Word(4) /\ Number(n) = Len(d)
  BY NumberOfU32
<1>2. n \in Seq(Byte) /\ Len(n) = 4
  BY <1>1, WordSeq
<1>3. \A i \in 1 .. Len(d) : d[i] \in Word(4) /\ NetWord(h, d[i]) = d[i]
  BY NetWordIsWord
<1>4. \A k \in 1 .. 4 * Len(d) : /\ ((k - 1) \div 4) + 1 \in 1 .. Len(d)
                                 /\ ((k - 1) % 4) + 1 \in 1 .. 4
  BY SMTT(30)
<1>5. c \in Seq(Byte) /\ Len(c) = 4 * Len(d)
  <2>1. \A k \in 1 .. 4 * Len(d) : d[((k - 1) \div 4) + 1][((k - 1) % 4) + 1] \in Byte
    BY <1>3, <1>4 DEF Word
  <2>2. 4 * Len(d) \in Nat
    OBVIOUS
  <2> QED BY <2>1, <2>2
<1>6. Ints(h, d) = n \o c
  <2>1. NetWord(h, n) = n
    BY <1>1, NetWordIsWord
  <2>2. [k \in 1 .. 4 * Len(d) |-> NetWord(h, d[((k - 1) \div 4) + 1])[((k - 1) % 4) + 1]] = c
    BY <1>3, <1>4
  <2> QED BY <2>1, <2>2 DEF Ints
<1>7. Holds(b, off, n) /\ Holds(b, off + 4, c)
  <2> HIDE DEF n, c
  <2> QED BY <1>2, <1>5, <1>6, HoldsBoth
<1>8. NetWordAt(g, b, off) = n
  <2> HIDE DEF n
  <2>1. At(b, off, 4) = n
    BY <1>1, <1>7, AtWord
  <2> QED BY <1>1, <2>1, NetWordRead
<1>9. ASSUME NEW i \in 1 .. Len(d) PROVE NetWordAt(g, b, off + 4 * i) = d[i]
  <2>1. \A j \in 1 .. 4 : /\ 4 * (i - 1) + j \in 1 .. 4 * Len(d)
                         /\ ((4 * (i - 1) + j - 1) \div 4) + 1 = i
                         /\ ((4 * (i - 1) + j - 1) % 4) + 1 = j
    BY SMTT(30)
  <2>2. \A j \in 1 .. 4 : c[4 * (i - 1) + j] = d[i][j]
    <3>1. \A k \in 1 .. 4 * Len(d) : c[k] = d[((k - 1) \div 4) + 1][((k - 1) % 4) + 1]
      OBVIOUS
    <3> HIDE DEF c
    <3>2. TAKE j \in 1 .. 4
    <3> DEFINE k == 4 * (i - 1) + j
    <3>3. k \in 1 .. 4 * Len(d) /\ ((k - 1) \div 4) + 1 = i /\ ((k - 1) % 4) + 1 = j
      BY <2>1
    <3>4. c[k] = d[((k - 1) \div 4) + 1][((k - 1) % 4) + 1]
      BY <3>1, <3>3
    <3> QED BY <3>3, <3>4
  <2>3. \A j \in 1 .. 4 : b[off + 4 * i + j] = c[4 * (i - 1) + j]
    <3> HIDE DEF c
    <3>1. \A j \in 1 .. 4 : off + 4 * i + j = off + 4 + (4 * (i - 1) + j)
      OBVIOUS
    <3> QED BY <3>1, <1>5, <1>7, <2>1 DEF Holds
  <2>4. At(b, off + 4 * i, 4) = d[i]
    <3>1. \A j \in 1 .. 4 : b[off + 4 * i + j] = d[i][j]
      BY <2>2, <2>3
    <3>2. d[i] = [j \in 1 .. 4 |-> d[i][j]]
      BY <1>3 DEF Word
    <3> QED BY <3>1, <3>2 DEF At
  <2> QED BY <1>3, <2>4, NetWordRead
<1>10. IntsAt(g, b, off) = [i \in 1 .. Len(d) |-> d[i]]
  BY <1>1, <1>8, <1>9 DEF IntsAt
<1>11. d = [i \in 1 .. Len(d) |-> d[i]]
  OBVIOUS
<1> QED BY <1>10, <1>11

\* What Ints writes are bytes.
LEMMA IntsSeq ==
    ASSUME NEW h \in Hosts, NEW d \in Seq(Word(4)), Len(d) \in Lengths
    PROVE  Ints(h, d) \in Seq(Byte) /\ Len(Ints(h, d)) = 4 + 4 * Len(d)
<1> DEFINE n == NetWord(h, U32(Len(d)))
           c == [k \in 1 .. 4 * Len(d) |-> NetWord(h, d[((k - 1) \div 4) + 1])[((k - 1) % 4) + 1]]
<1>1. n \in Word(4)
  BY NumberOfU32, NetWordIsWord
<1>2. n \in Seq(Byte) /\ Len(n) = 4
  BY <1>1, WordSeq
<1>3. \A i \in 1 .. Len(d) : NetWord(h, d[i]) \in Word(4)
  BY NetWordIsWord
<1>4. \A k \in 1 .. 4 * Len(d) : /\ ((k - 1) \div 4) + 1 \in 1 .. Len(d)
                                 /\ ((k - 1) % 4) + 1 \in 1 .. 4
  BY SMTT(30)
<1>5. c \in Seq(Byte) /\ Len(c) = 4 * Len(d)
  <2>1. \A k \in 1 .. 4 * Len(d) : NetWord(h, d[((k - 1) \div 4) + 1])[((k - 1) % 4) + 1] \in Byte
    BY <1>3, <1>4 DEF Word
  <2>2. 4 * Len(d) \in Nat
    OBVIOUS
  <2> QED BY <2>1, <2>2
<1>6. Ints(h, d) = n \o c
  BY DEF Ints
<1> HIDE DEF n, c
<1>7. n \o c \in Seq(Byte) /\ Len(n \o c) = Len(n) + Len(c)
  BY <1>2, <1>5, Concat
<1> QED BY <1>2, <1>5, <1>6, <1>7

\* TestStruct is read back by a host like the one that wrote it.
LEMMA TestStructHeld ==
    ASSUME NEW h \in Hosts, NEW b, NEW m \in TestStructs,
           Holds(b, 0, TestStructBytes(h, m))
    PROVE  TestStructOf(h, b) = m
<1>1. /\ m = [kind |-> "TestStruct", a |-> m.a, b |-> m.b, c |-> m.c, d |-> m.d]
      /\ m.a \in ShortTexts /\ m.b \in Word(4) /\ m.c \in Word(8)
      /\ m.d \in {s \in Seq(Word(4)) : Len(s) < 65536}
  BY DEF TestStructs
<1>2. m.a \in Seq(Byte) /\ Len(m.a) \in Lengths
  BY <1>1, ShortText
<1>3. m.d \in Seq(Word(4)) /\ Len(m.d) \in Lengths
  BY <1>1, SMT DEF Lengths
<1> DEFINE s == Text(h, m.a)
           w == NetWord(h, m.b)
           x == Mem(h, m.c)
           v == Ints(h, m.d)
           n == 4 + Len(m.a)
<1>4. s \in Seq(Byte) /\ Len(s) = n
  BY <1>2, TextSeq
<1>5. w \in Word(4) /\ w = m.b
  BY <1>1, NetWordIsWord
<1>6. x \in Word(8) /\ Load(h, x) = m.c
  BY <1>1, LoadMem
<1>7. v \in Seq(Byte)
  BY <1>3, IntsSeq
<1>8. /\ w \in Seq(Byte) /\ Len(w) = 4 /\ x \in Seq(Byte) /\ Len(x) = 8
      /\ n \in Nat
  <2>1. n \in Nat
    BY <1>2
  <2> HIDE DEF w, x
  <2> QED BY <1>5, <1>6, <2>1, WordSeq
<1>9. Holds(b, 0, s) /\ Holds(b, n, w) /\ Holds(b, n + 4, x) /\ Holds(b, n + 12, v)
  <2>1. TestStructBytes(h, m) = s \o w \o x \o v
    BY DEF TestStructBytes
  <2> HIDE DEF s, w, x, v, n
  <2>2. /\ s \o w \in Seq(Byte) /\ Len(s \o w) = n + 4
        /\ s \o w \o x \in Seq(Byte) /\ Len(s \o w \o x) = n + 12
    <3>1. s \o w \in Seq(Byte) /\ Len(s \o w) = Len(s) + Len(w)
      BY <1>4, <1>8, Concat
    <3>2. s \o w \o x \in Seq(Byte) /\ Len(s \o w \o x) = Len(s \o w) + Len(x)
      BY <1>8, <3>1, Concat
    <3> QED BY <1>4, <1>8, <3>1, <3>2
  <2>3. Holds(b, 0, s \o w \o x) /\ Holds(b, 0 + Len(s \o w \o x), v)
    BY <1>7, <2>1, <2>2, HoldsBoth
  <2>4. Holds(b, 0, s \o w) /\ Holds(b, 0 + Len(s \o w), x)
    BY <1>8, <2>2, <2>3, HoldsBoth
  <2>5. Holds(b, 0, s) /\ Holds(b, 0 + Len(s), w)
    BY <1>4, <1>8, <2>4, HoldsBoth
  <2>6. 0 + Len(s) = n /\ 0 + Len(s \o w) = n + 4 /\ 0 + Len(s \o w \o x) = n + 12
    BY <1>4, <1>8, <2>2
  <2> QED BY <2>3, <2>4, <2>5, <2>6
<1>10. TextSize(h, b) = Len(m.a) /\ TextAt(h, b) = m.a
  BY <1>2, <1>9, TextHeld
<1>11. n + 4 \in Nat /\ n + 12 \in Nat
  BY <1>8
<1>12. NetWordAt(h, b, n) = m.b
  <2> HIDE DEF w, n
  <2>1. At(b, n, 4) = w
    BY <1>5, <1>8, <1>9, AtWord
  <2> QED BY <1>5, <2>1, NetWordRead
<1>13. Load(h, At(b, n + 4, 8)) = m.c
  <2> HIDE DEF x, n
  <2>1. At(b, n + 4, 8) = x
    BY <1>6, <1>9, <1>11, AtWord
  <2> QED BY <1>6, <2>1
<1>14. IntsAt(h, b, n + 12) = m.d
  <2> HIDE DEF n
  <2> QED BY <1>3, <1>9, <1>11, IntsHeld
<1>15. TestStructOf(h, b) = [kind |-> "TestStruct", a |-> m.a, b |-> m.b, c |-> m.c, d |-> m.d]
  <2>1. 4 + TextSize(h, b) = n
    BY <1>10
  <2> QED BY <1>10, <1>12, <1>13, <1>14, <2>1 DEF TestStructOf
<1> QED BY <1>1, <1>15

-----------------------------------------------------------------------------
(* Packets *)

Messages == TestMessages \cup FirstDatas \cup TestStructs \cup Images

LEMMA TestMessageFact ==
    ASSUME NEW m \in TestMessages
    PROVE  /\ m = [kind |-> "TestMessage", message |-> m.message]
           /\ m.message \in Seq(Byte) /\ Len(m.message) \in Lengths
           /\ Len(m.message) + 4 + HeaderSize <= BufSize
<1>1. /\ m = [kind |-> "TestMessage", message |-> m.message]
      /\ m.message \in {s \in Seq(Byte) : Len(s) + 4 + HeaderSize <= BufSize}
  BY DEF TestMessages
<1>2. m.message \in Seq(Byte) /\ Len(m.message) + 4 + HeaderSize <= BufSize
  BY <1>1
<1>3. BufSize \in Nat /\ BufSize <= 65535
  BY BufFacts
<1>4. Len(m.message) \in Lengths
  BY <1>2, <1>3, SMT DEF Lengths, HeaderSize
<1> QED BY <1>1, <1>2, <1>4

\* Every payload is a sequence of bytes.
LEMMA PayloadSeq ==
    ASSUME NEW h \in Hosts, NEW m \in Messages
    PROVE  Payload(h, m) \in Seq(Byte)
<1>1. CASE m \in TestMessages
  <2>1. m.kind = "TestMessage" /\ m.message \in Seq(Byte) /\ Len(m.message) \in Lengths
    BY <1>1, TestMessageFact
  <2> QED BY <2>1, TextSeq DEF Payload, TestMessageBytes
<1>2. CASE m \in FirstDatas
  <2>1. m.kind = "FirstData" /\ m.addr \in ShortTexts /\ m.port \in Word(2)
    BY <1>2 DEF FirstDatas
  <2>2. Text(h, m.addr) \in Seq(Byte)
    BY <2>1, ShortText, TextSeq
  <2>3. PortBytes(h, m) \in Seq(Byte)
    BY <2>1, LoadMem, WordSeq DEF PortBytes
  <2>4. FirstDataBytes(h, m) \in Seq(Byte)
    BY <2>2, <2>3 DEF FirstDataBytes
  <2> QED BY <2>1, <2>4 DEF Payload
<1>3. CASE m \in TestStructs
  <2>1. /\ m.kind = "TestStruct" /\ m.a \in ShortTexts /\ m.b \in Word(4) /\ m.c \in Word(8)
        /\ m.d \in {s \in Seq(Word(4)) : Len(s) < 65536}
    BY <1>3 DEF TestStructs
  <2>2. m.d \in Seq(Word(4)) /\ Len(m.d) \in Lengths
    BY <2>1, SMT DEF Lengths
  <2>3. Text(h, m.a) \in Seq(Byte)
    BY <2>1, ShortText, TextSeq
  <2>4. NetWord(h, m.b) \in Seq(Byte)
    BY <2>1, NetWordIsWord, WordSeq
  <2>5. Mem(h, m.c) \in Seq(Byte)
    BY <2>1, LoadMem, WordSeq
  <2>6. Ints(h, m.d) \in Seq(Byte)
    BY <2>2, IntsSeq
  <2>7. TestStructBytes(h, m) \in Seq(Byte)
    BY <2>3, <2>4, <2>5, <2>6 DEF TestStructBytes
  <2> QED BY <2>1, <2>7 DEF Payload
<1>4. CASE m \in Images
  BY <1>4 DEF Images, Payload
<1> QED BY <1>1, <1>2, <1>3, <1>4 DEF Messages

\* Where the receiver finds the fields of a header that it looks at.
LEMMA HeaderHeld ==
    ASSUME NEW h \in Hosts, NEW m \in Messages, NEW b
    PROVE  /\ Header(h, m) \in Seq(Byte) /\ Len(Header(h, m)) = HeaderSize
           /\ Holds(b, 0, Header(h, m)) =>
                  /\ At(b, 0, 2) = Mem(h, ServerHash)
                  /\ b[13] = 1 /\ b[14] = 1
                  /\ At(b, 15, 2) = Mem(h, DataType(m))
<1> DEFINE n == Len(Payload(h, m))
           flags == <<1, 1, 0>>
<1>1. n \in Nat /\ n + HeaderSize \in Nat
  <2>1. n \in Nat
    BY PayloadSeq
  <2> HIDE DEF n
  <2> QED BY <2>1 DEF HeaderSize
<1>2. ServerHash \in Word(2) /\ U16(1) \in Word(2) /\ U16(0) \in Word(2)
  BY U16Word DEF ServerHash
<1>3. U16(PacketNumber(m)) \in Word(2) /\ DataType(m) \in Word(2)
  BY <1>2 DEF PacketNumber, DataType
<1>4. U32(n) \in Word(4) /\ U16(n + HeaderSize) \in Word(2)
  BY <1>1, U32Word, U16Word
<1>5. \A k \in Nat : \A w : w \in Word(k) =>
          Mem(h, w) \in Word(k) /\ Mem(h, w) \in Seq(Byte) /\ Len(Mem(h, w)) = k
  BY LoadMem, WordSeq
<1>6. flags \in Seq(Byte) /\ Len(flags) = 3
  BY DEF Byte
<1> HIDE DEF n, flags
<1>7. PICK p1 \in Seq(Byte) : p1 = Mem(h, ServerHash) /\ Len(p1) = 2 /\ p1 \in Word(2)
  BY <1>2, <1>5
<1>8. PICK p2 \in Seq(Byte) : p2 = Mem(h, U32(n)) /\ Len(p2) = 4
  BY <1>4, <1>5
<1>9. PICK p3 \in Seq(Byte) : p3 = Mem(h, U16(1)) /\ Len(p3) = 2
  BY <1>2, <1>5
<1>10. PICK p4 \in Seq(Byte) : p4 = Mem(h, U16(PacketNumber(m))) /\ Len(p4) = 2
  BY <1>3, <1>5
<1>11. PICK p5 \in Seq(Byte) : p5 = Mem(h, U16(n + HeaderSize)) /\ Len(p5) = 2
  BY <1>4, <1>5
<1>12. PICK p7 \in Seq(Byte) : p7 = Mem(h, DataType(m)) /\ Len(p7) = 2 /\ p7 \in Word(2)
  BY <1>3, <1>5
<1>13. PICK s2 \in Seq(Byte) : s2 = p1 \o p2 /\ Len(s2) = Len(p1) + Len(p2)
  BY Concat
<1>14. PICK s3 \in Seq(Byte) : s3 = s2 \o p3 /\ Len(s3) = Len(s2) + Len(p3)
  BY Concat
<1>15. PICK s4 \in Seq(Byte) : s4 = s3 \o p4 /\ Len(s4) = Len(s3) + Len(p4)
  BY Concat
<1>16. PICK s5 \in Seq(Byte) : s5 = s4 \o p5 /\ Len(s5) = Len(s4) + Len(p5)
  BY Concat
<1>17. PICK s6 \in Seq(Byte) : s6 = s5 \o flags /\ Len(s6) = Len(s5) + Len(flags)
  BY <1>6, Concat
<1>18. PICK s7 \in Seq(Byte) : s7 = s6 \o p7 /\ Len(s7) = Len(s6) + Len(p7)
  BY Concat
<1>19. s7 = Header(h, m)
  <2>1. s7 = p1 \o p2 \o p3 \o p4 \o p5 \o flags \o p7
    BY <1>13, <1>14, <1>15, <1>16, <1>17, <1>18
  <2> QED BY <2>1, <1>7, <1>8, <1>9, <1>10, <1>11, <1>12 DEF Header, n, flags
<1>20. Len(s5) = 12 /\ Len(s6) = 15 /\ Len(s7) = 17
  BY <1>6, <1>7, <1>8, <1>9, <1>10, <1>11, <1>12, <1>13, <1>14, <1>15, <1>16, <1>17, <1>18
<1>21. ASSUME Holds(b, 0, s7)
      PROVE  Holds(b, 0, p1) /\ Holds(b, 12, flags) /\ Holds(b, 15, p7)
  <2>1. Holds(b, 0, s6) /\ Holds(b, 0 + Len(s6), p7)
    BY <1>18, <1>21, HoldsBoth
  <2>2. Holds(b, 0, s5) /\ Holds(b, 0 + Len(s5), flags)
    BY <1>6, <1>17, <2>1, HoldsBoth
  <2>3. Holds(b, 0, s4)
    BY <1>16, <2>2, HoldsBoth
  <2>4. Holds(b, 0, s3)
    BY <1>15, <2>3, HoldsBoth
  <2>5. Holds(b, 0, s2)
    BY <1>14, <2>4, HoldsBoth
  <2>6. Holds(b, 0, p1)
    BY <1>13, <2>5, HoldsBoth
  <2>7. 0 + Len(s6) = 15 /\ 0 + Len(s5) = 12
    BY <1>20
  <2> QED BY <2>1, <2>2, <2>6, <2>7
<1>22. ASSUME Holds(b, 0, Header(h, m))
       PROVE  At(b, 0, 2) = p1 /\ At(b, 15, 2) = p7 /\ b[13] = 1 /\ b[14] = 1
  <2>1. At(b, 0, 2) = p1 /\ At(b, 15, 2) = p7
    BY <1>7, <1>12, <1>19, <1>21, <1>22, AtWord
  <2>2. \A i \in 1 .. 3 : b[12 + i] = flags[i]
    BY <1>6, <1>19, <1>21, <1>22 DEF Holds
  <2>3. flags[1] = 1 /\ flags[2] = 1
    BY DEF flags
  <2>4. b[12 + 1] = 1 /\ b[12 + 2] = 1
    BY <2>2, <2>3
  <2> QED BY <2>1, <2>4
<1> QED BY <1>7, <1>12, <1>18, <1>19, <1>20, <1>22 DEF HeaderSize

\* A packet is its header and its payload.
LEMMA PacketSeq ==
    ASSUME NEW h \in Hosts, NEW m \in Messages
    PROVE  /\ Serialized(h, m) \in Seq(Byte)
           /\ Len(Serialized(h, m)) = HeaderSize + Len(Payload(h, m))
BY PayloadSeq, HeaderHeld, Concat DEF Serialized

\* Where a packet lies in a buffer, so do its header and its payload.
LEMMA PacketHeld ==
    ASSUME NEW h \in Hosts, NEW m \in Messages, NEW b, Holds(b, 0, Serialized(h, m))
    PROVE  Holds(b, 0, Header(h, m)) /\ Holds(b, HeaderSize, Payload(h, m))
<1>1. /\ Header(h, m) \in Seq(Byte) /\ Len(Header(h, m)) = HeaderSize
      /\ Payload(h, m) \in Seq(Byte)
  BY HeaderHeld, PayloadSeq
<1>2. Holds(b, 0, Header(h, m)) /\ Holds(b, 0 + Len(Header(h, m)), Payload(h, m))
  BY <1>1, HoldsBoth DEF Serialized
<1>3. 0 + HeaderSize = HeaderSize
  BY DEF HeaderSize
<1> QED BY <1>1, <1>2, <1>3

LEMMA RestHolds ==
    ASSUME NEW b \in Seq(Byte), NEW p \in Seq(Byte), Len(b) >= HeaderSize + Len(p),
           Holds(b, HeaderSize, p)
    PROVE  Holds(Rest(b), 0, p)
<1>1. ASSUME NEW i \in 1 .. Len(p) PROVE Rest(b)[0 + i] = p[i]
  <2>1. b[17 + i] = p[i]
    BY DEF Holds, HeaderSize
  <2>2. 17 + i \in 1 .. Len(b)
    BY DEF HeaderSize
  <2>3. SubSeq(b, 18, Len(b))[i] = b[17 + i]
    BY <2>2
  <2>4. Rest(b) = SubSeq(b, 18, Len(b))
    BY DEF Rest, HeaderSize
  <2>5. 0 + i = i
    OBVIOUS
  <2> QED BY <2>1, <2>3, <2>4, <2>5
<1> QED BY <1>1 DEF Holds

\* The hash says whether the two hosts have the same byte order.
LEMMA HashTells ==
    ASSUME NEW g \in Hosts, NEW h \in Hosts
    PROVE  Load(g, Mem(h, ServerHash)) = ServerHash <=> g = h
<1>1. ServerHash = <<5, 57>>
  BY DEF ServerHash, U16
<1>2. ServerHash \in Word(2)
  BY U16Word DEF ServerHash
<1>3. CASE g = h
  BY <1>2, <1>3, LoadMem
<1>4. CASE g # h
  <2>1. Load(g, Mem(h, ServerHash)) = Flip(ServerHash)
    BY <1>4 DEF Load, Mem, Hosts
  <2>2. Flip(ServerHash)[1] = 57 /\ ServerHash[1] = 5
    BY <1>1 DEF Flip
  <2> QED BY <1>4, <2>1, <2>2
<1> QED BY <1>3, <1>4

LEMMA TypesDiffer ==
    /\ U16(0) # U16(1)
    /\ \A h \in Hosts : \A m : Load(h, Mem(h, DataType(m))) = DataType(m)
<1>1. U16(0)[2] = 0 /\ U16(1)[2] = 1
  BY DEF U16
<1>2. ASSUME NEW h \in Hosts, NEW m PROVE Load(h, Mem(h, DataType(m))) = DataType(m)
  <2>1. U16(0) \in Word(2) /\ U16(1) \in Word(2)
    BY U16Word
  <2>2. DataType(m) \in Word(2)
    BY <2>1 DEF DataType
  <2> QED BY <2>2, LoadMem
<1> QED BY <1>1, <1>2

\* A TCP packet is understood between like hosts and dropped by others.
LEMMA TcpRead ==
    ASSUME NEW g \in Hosts, NEW h \in Hosts, NEW m \in FirstDatas \cup TestStructs
    PROVE  TcpMessage(g, Serialized(h, m)) = IF g = h THEN m ELSE NoMessage
<1> DEFINE b == Serialized(h, m)
           p == Payload(h, m)
<1>1. m \in Messages
  BY DEF Messages
<1>2. b \in Seq(Byte) /\ Len(b) = HeaderSize + Len(p) /\ p \in Seq(Byte)
  BY <1>1, PacketSeq, PayloadSeq
<1>3. Holds(b, 0, b)
  BY <1>2 DEF Holds
<1>4. Holds(b, 0, Header(h, m)) /\ Holds(b, HeaderSize, p)
  BY <1>1, <1>3, PacketHeld
<1>5. /\ HashAt(g, b) = ServerHash <=> g = h
      /\ b[13] = 1 /\ b[14] = 1
      /\ TypeAt(h, b) = DataType(m)
  BY <1>1, <1>4, HeaderHeld, HashTells, TypesDiffer DEF HashAt, TypeAt
<1>6. Holds(Rest(b), 0, p)
  <2> HIDE DEF b, p
  <2>1. Len(b) >= HeaderSize + Len(p)
    BY <1>2 DEF HeaderSize
  <2> QED BY <1>2, <1>4, <2>1, RestHolds
<1> HIDE DEF b
<1>7. CASE g # h
  BY <1>5, <1>7 DEF TcpMessage, b
<1>8. CASE g = h /\ m \in FirstDatas
  <2>1. m.kind = "FirstData"
    BY <1>8 DEF FirstDatas
  <2>2. DataType(m) = U16(1) /\ p = FirstDataBytes(h, m)
    BY <2>1 DEF DataType, Payload
  <2>3. FirstDataOf(h, Rest(b)) = m
    BY <1>6, <1>8, <2>2, FirstDataHeld
  <2>4. TcpMessage(h, b) = FirstDataOf(h, Rest(b))
    BY <1>5, <1>8, <2>2, TypesDiffer DEF TcpMessage
  <2> QED BY <1>8, <2>3, <2>4 DEF b
<1>9. CASE g = h /\ m \in TestStructs
  <2>1. m.kind = "TestStruct"
    BY <1>9 DEF TestStructs
  <2>2. DataType(m) = U16(0) /\ p = TestStructBytes(h, m)
    BY <2>1 DEF DataType, Payload
  <2>3. TestStructOf(h, Rest(b)) = m
    BY <1>6, <1>9, <2>2, TestStructHeld
  <2>4. TcpMessage(h, b) = TestStructOf(h, Rest(b))
    BY <1>5, <1>9, <2>2, TypesDiffer DEF TcpMessage
  <2> QED BY <1>9, <2>3, <2>4 DEF b
<1>10. m \in FirstDatas \/ m \in TestStructs
  OBVIOUS
<1> QED BY <1>7, <1>8, <1>9, <1>10

\* So is a datagram, whatever the buffer held before.
LEMMA UdpRead ==
    ASSUME NEW g \in Hosts, NEW h \in Hosts, NEW m \in TestMessages \cup Images,
           NEW old \in [1 .. BufSize -> Byte]
    PROVE  LET b == Overlay(old, Serialized(h, m)) IN
           /\ b \in [1 .. BufSize -> Byte]
           /\ UdpMessage(g, b) = IF g = h THEN Gist(m) ELSE NoMessage
<1> DEFINE d == Serialized(h, m)
           b == Overlay(old, d)
           p == Payload(h, m)
<1>1. m \in Messages
  BY DEF Messages
<1>2. /\ d \in Seq(Byte) /\ Len(d) = HeaderSize + Len(p) /\ p \in Seq(Byte)
      /\ Header(h, m) \in Seq(Byte) /\ Len(Header(h, m)) = HeaderSize
  BY <1>1, PacketSeq, PayloadSeq, HeaderHeld
<1>3. BufSize \in Nat /\ HeaderSize \in Nat /\ HeaderSize <= BufSize
  BY BufFacts
<1>4. b \in [1 .. BufSize -> Byte] /\ b \in Seq(Byte) /\ Len(b) = BufSize
  <2> HIDE DEF d
  <2>1. b \in [1 .. BufSize -> Byte]
    BY <1>2, <1>3 DEF Overlay
  <2> HIDE DEF b
  <2> QED BY <1>3, <2>1
<1>5. \A i \in 1 .. BufSize : i <= Len(d) => b[i] = d[i]
  BY DEF Overlay
<1>6. Holds(d, 0, Header(h, m)) /\ Holds(d, HeaderSize, p)
  <2>1. Holds(d, 0, d)
    BY <1>2 DEF Holds
  <2> QED BY <1>1, <2>1, PacketHeld
<1>7. Holds(b, 0, Header(h, m))
  <2> HIDE DEF b, d, p
  <2>1. ASSUME NEW i \in 1 .. Len(Header(h, m)) PROVE b[0 + i] = Header(h, m)[i]
    <3>1. d[0 + i] = Header(h, m)[i]
      BY <1>6 DEF Holds
    <3>2. i \in 1 .. BufSize /\ i <= Len(d)
      BY <1>2, <1>3
    <3> QED BY <1>5, <3>1, <3>2
  <2> QED BY <2>1 DEF Holds
<1>8. /\ HashAt(g, b) = ServerHash <=> g = h
      /\ TypeAt(h, b) = DataType(m)
  <2> HIDE DEF b
  <2> QED BY <1>1, <1>7, HeaderHeld, HashTells, TypesDiffer DEF HashAt, TypeAt
<1>9. CASE g # h
  <2> HIDE DEF b
  <2> QED BY <1>4, <1>8, <1>9 DEF UdpMessage, b
<1>10. CASE g = h /\ m \in TestMessages
  <2>1. /\ m = [kind |-> "TestMessage", message |-> m.message]
        /\ m.message \in Seq(Byte) /\ Len(m.message) \in Lengths
        /\ Len(m.message) + 4 + HeaderSize <= BufSize
    BY <1>10, TestMessageFact
  <2>2. DataType(m) = U16(0) /\ p = Text(h, m.message)
    <3>1. m.kind = "TestMessage"
      BY <2>1
    <3> QED BY <3>1 DEF DataType, Payload, TestMessageBytes
  <2>3. Len(p) = 4 + Len(m.message)
    BY <2>1, <2>2, TextSeq
  <2>4. Len(b) >= HeaderSize + Len(p) /\ Len(d) <= BufSize
    <3> HIDE DEF b, d, p
    <3> QED BY <1>2, <1>3, <1>4, <2>1, <2>3
  <2>5. Holds(b, HeaderSize, p)
    <3> HIDE DEF b, d, p
    <3>1. ASSUME NEW i \in 1 .. Len(p) PROVE b[HeaderSize + i] = p[i]
      <4>1. d[HeaderSize + i] = p[i]
        BY <1>6 DEF Holds
      <4>2. HeaderSize + i \in 1 .. BufSize /\ HeaderSize + i <= Len(d)
        BY <1>2, <1>3, <2>4
      <4> QED BY <1>5, <4>1, <4>2
    <3> QED BY <3>1 DEF Holds
  <2>6. Holds(Rest(b), 0, p)
    <3> HIDE DEF b, d, p
    <3> QED BY <1>2, <1>4, <2>4, <2>5, RestHolds
  <2>7. TextAt(h, Rest(b)) = m.message
    <3> HIDE DEF b
    <3> QED BY <2>1, <2>2, <2>6, TextHeld
  <2>8. TestMessageOf(h, Rest(b)) = m
    <3> HIDE DEF b
    <3> QED BY <2>1, <2>7 DEF TestMessageOf
  <2>9. UdpMessage(h, b) = m
    <3> HIDE DEF b
    <3> QED BY <1>8, <1>10, <2>2, <2>8, TypesDiffer DEF UdpMessage
  <2>10. Gist(m) = m
    <3>1. m.kind = "TestMessage"
      BY <2>1
    <3> QED BY <3>1 DEF Gist
  <2> QED BY <1>4, <1>10, <2>9, <2>10
<1>11. CASE g = h /\ m \in Images
  <2>1. m.kind = "Image"
    BY <1>11 DEF Images
  <2>2. DataType(m) = U16(1) /\ Gist(m) = [kind |-> "Image"]
    BY <2>1 DEF DataType, Gist
  <2>3. UdpMessage(h, b) = [kind |-> "Image"]
    <3> HIDE DEF b
    <3> QED BY <1>8, <1>11, <2>2, TypesDiffer DEF UdpMessage
  <2> QED BY <1>4, <1>11, <2>2, <2>3
<1> QED BY <1>9, <1>10, <1>11

\* No packet is longer than its length field can say.
LEMMA PayloadBounded ==
    ASSUME NEW h \in Hosts, NEW m \in FirstDatas \cup TestStructs
    PROVE  Len(Payload(h, m)) <= 500000
<1>1. CASE m \in FirstDatas
  <2>1. m.kind = "FirstData" /\ m.addr \in ShortTexts /\ m.port \in Word(2)
    BY <1>1 DEF FirstDatas
  <2>2. Payload(h, m) = Text(h, m.addr) \o PortBytes(h, m)
    BY <2>1 DEF Payload, FirstDataBytes
  <2>3. Text(h, m.addr) \in Seq(Byte) /\ Len(Text(h, m.addr)) = 4 + Len(m.addr)
    BY <2>1, ShortText, TextSeq
  <2>4. PortBytes(h, m) \in Seq(Byte) /\ Len(PortBytes(h, m)) = 2
    BY <2>1, LoadMem, WordSeq DEF PortBytes
  <2>5. Len(Payload(h, m)) = Len(Text(h, m.addr)) + Len(PortBytes(h, m))
    BY <2>2, <2>3, <2>4, Concat
  <2>6. Len(m.addr) \in Nat /\ Len(m.addr) < 65536
    BY <2>1, SMT DEF ShortTexts
  <2> QED BY <2>3, <2>4, <2>5, <2>6, SMT
<1>2. CASE m \in TestStructs
  <2>1. /\ m.kind = "TestStruct" /\ m.a \in ShortTexts /\ m.b \in Word(4) /\ m.c \in Word(8)
        /\ m.d \in {s \in Seq(Word(4)) : Len(s) < 65536}
    BY <1>2 DEF TestStructs
  <2>2. m.d \in Seq(Word(4)) /\ Len(m.d) \in Lengths /\ Len(m.d) < 65536 /\ Len(m.d) \in Nat
    BY <2>1, SMT DEF Lengths
  <2> DEFINE s == Text(h, m.a)
             w == NetWord(h, m.b)
             x == Mem(h, m.c)
             v == Ints(h, m.d)
  <2>3. s \in Seq(Byte) /\ Len(s) = 4 + Len(m.a)
    BY <2>1, ShortText, TextSeq
  <2>4. w \in Seq(Byte) /\ Len(w) = 4 /\ x \in Seq(Byte) /\ Len(x) = 8
    <3>1. w \in Word(4) /\ x \in Word(8)
      BY <2>1, NetWordIsWord, LoadMem
    <3> HIDE DEF w, x
    <3> QED BY <3>1, WordSeq
  <2>5. v \in Seq(Byte) /\ Len(v) = 4 + 4 * Len(m.d)
    BY <2>2, IntsSeq
  <2>6. Payload(h, m) = s \o w \o x \o v
    BY <2>1 DEF Payload, TestStructBytes
  <2> HIDE DEF s, w, x, v
  <2>7. s \o w \in Seq(Byte) /\ Len(s \o w) = Len(s) + Len(w)
    BY <2>3, <2>4, Concat
  <2>8. s \o w \o x \in Seq(Byte) /\ Len(s \o w \o x) = Len(s \o w) + Len(x)
    BY <2>4, <2>7, Concat
  <2>9. Len(s \o w \o x \o v) = Len(s \o w \o x) + Len(v)
    BY <2>5, <2>8, Concat
  <2>10. Len(m.a) \in Nat /\ Len(m.a) < 65536
    BY <2>1, SMT DEF ShortTexts
  <2> DEFINE i == Len(m.a)
             j == Len(m.d)
  <2>11. /\ i \in Nat /\ i < 65536 /\ j \in Nat /\ j < 65536
         /\ Len(s \o w \o x \o v) = (4 + i) + 4 + 8 + (4 + 4 * j)
    BY <2>2, <2>3, <2>4, <2>5, <2>7, <2>8, <2>9, <2>10
  <2> HIDE DEF i, j
  <2>12. (4 + i) + 4 + 8 + (4 + 4 * j) <= 500000
    BY <2>11, SMT
  <2> QED BY <2>6, <2>11, <2>12
<1> QED BY <1>1, <1>2

\* Frames: the length that is sent is the length of the rest, when it is read by
\* a host of the writer's byte order, and the rest is the packet.
LEMMA FrameFacts ==
    ASSUME NEW h \in Hosts, NEW m \in FirstDatas \cup TestStructs
    PROVE  /\ Frame(h, m) \in Seq(Byte) /\ Len(Frame(h, m)) >= 4
           /\ Body(Frame(h, m)) = Serialized(h, m)
           /\ SizeOf(h, Frame(h, m)) = Len(Frame(h, m)) - 4
<1> DEFINE b == Serialized(h, m)
           w == Mem(h, U32(Len(b)))
<1>1. m \in Messages
  BY DEF Messages
<1>2. b \in Seq(Byte) /\ Len(b) \in Lengths
  <2>1. b \in Seq(Byte) /\ Len(b) = HeaderSize + Len(Payload(h, m)) /\ Payload(h, m) \in Seq(Byte)
    BY <1>1, PacketSeq, PayloadSeq
  <2>2. Len(Payload(h, m)) <= 500000
    BY PayloadBounded
  <2> HIDE DEF b
  <2>3. Len(b) \in Nat /\ Len(b) <= 4294967295
    BY <2>1, <2>2, SMT DEF HeaderSize
  <2> QED BY <2>1, <2>3, SMT DEF Lengths
<1>3. /\ U32(Len(b)) \in Word(4) /\ Number(U32(Len(b))) = Len(b)
  <2> HIDE DEF b
  <2> QED BY <1>2, NumberOfU32
<1>4. w \in Word(4) /\ Load(h, w) = U32(Len(b))
  <2> HIDE DEF b
  <2> QED BY <1>3, LoadMem
<1>5. w \in Seq(Byte) /\ Len(w) = 4
  <2> HIDE DEF w
  <2> QED BY <1>4, WordSeq
<1>6. Frame(h, m) = w \o b
  BY DEF Frame
<1> HIDE DEF w, b
<1>7. Frame(h, m) \in Seq(Byte) /\ Len(Frame(h, m)) = Len(w) + Len(b)
  BY <1>2, <1>5, <1>6, Concat
<1>8. Len(b) \in Nat
  BY <1>2
<1>9. At(Frame(h, m), 0, 4) = w
  <2>1. Holds(w \o b, 0, w \o b)
    BY <1>6, <1>7 DEF Holds
  <2>2. Holds(w \o b, 0, w)
    BY <1>2, <1>5, <2>1, HoldsBoth
  <2> QED BY <1>4, <1>6, <2>2, AtWord
<1>10. SizeOf(h, Frame(h, m)) = Len(b)
  BY <1>3, <1>4, <1>9 DEF SizeOf
<1>11. Body(Frame(h, m)) = b
  BY <1>2, <1>5, <1>6, <1>7 DEF Body
<1> QED BY <1>5, <1>7, <1>8, <1>10, <1>11 DEF b

-----------------------------------------------------------------------------
(* Queues *)

LEMMA Appended ==
    ASSUME NEW S, NEW q \in Seq(S), NEW e \in S
    PROVE  /\ Append(q, e) \in Seq(S) /\ Len(Append(q, e)) = Len(q) + 1
           /\ \A i \in 1 .. Len(q) : Append(q, e)[i] = q[i]
           /\ Append(q, e)[Len(q) + 1] = e
OBVIOUS

LEMMA Beheaded ==
    ASSUME NEW S, NEW q \in Seq(S), q # << >>
    PROVE  /\ Len(q) \in Nat /\ Len(q) > 0 /\ Head(q) = q[1]
           /\ Tail(q) \in Seq(S) /\ Len(Tail(q)) = Len(q) - 1
           /\ \A i \in 1 .. Len(q) - 1 : Tail(q)[i] = q[i + 1]
OBVIOUS

-----------------------------------------------------------------------------
(* The inductive invariant: what is under way and what was heard, together, *)
(* are what was said, in order; what was heard was read as the lemmas above *)
(* say.  Each way of sending has its half.                                  *)

TcpHeard(m) == IF rx = tx THEN m ELSE NoMessage
UdpHeard(m) == IF rx = tx THEN Gist(m) ELSE NoMessage

\* The two histories, for messages of any kind.
TcpSaid == FirstDatas \cup TestStructs
UdpSaid == TestMessages \cup Images
TcpRange == TcpSaid \cup {NoMessage}
UdpRange == {Gist(m) : m \in UdpSaid} \cup {NoMessage}
Records == [tcp : Seq(TcpSaid), udp : Seq(UdpSaid)]
Heards == [tcp : Seq(TcpRange), udp : Seq(UdpRange)]

Histories ==
    /\ tx \in Hosts /\ rx \in Hosts
    /\ said \in Records /\ heard \in Heards
    /\ buffer \in [1 .. BufSize -> Byte]
    /\ starved \in BOOLEAN

TcpInOrder ==
    /\ frames \in Seq(Seq(Byte))
    /\ Len(heard.tcp) + Len(frames) = Len(said.tcp)
    /\ \A i \in 1 .. Len(frames) : frames[i] = Frame(tx, said.tcp[Len(heard.tcp) + i])
    /\ \A i \in 1 .. Len(heard.tcp) : heard.tcp[i] = TcpHeard(said.tcp[i])
    /\ tx = rx => ~starved

UdpInOrder ==
    /\ datagrams \in Seq(Seq(Byte))
    /\ Len(heard.udp) + Len(datagrams) = Len(said.udp)
    /\ \A i \in 1 .. Len(datagrams) : datagrams[i] = Serialized(tx, said.udp[Len(heard.udp) + i])
    /\ \A i \in 1 .. Len(heard.udp) : heard.udp[i] = UdpHeard(said.udp[i])

InOrder == Histories /\ TcpInOrder /\ UdpInOrder

LEMMA InitInOrder ==
    ASSUME Init
    PROVE  InOrder
<1>1. Histories
  <2>1. Nothing \in Records /\ Nothing \in Heards
    BY DEF Nothing, Records, Heards
  <2>2. [i \in 1 .. BufSize |-> 0] \in [1 .. BufSize -> Byte]
    BY DEF Byte
  <2> QED BY <2>1, <2>2 DEF Init, Histories
<1>2. TcpInOrder /\ UdpInOrder
  BY DEF Init, Nothing, TcpInOrder, UdpInOrder
<1> QED BY <1>1, <1>2 DEF InOrder

LEMMA SendFrameInOrder ==
    ASSUME InOrder, NEW m \in TcpMessages, SendFrame(m)
    PROVE  InOrder'
<1> DEFINE q == frames
           k == Len(heard.tcp)
           e == Frame(tx, m)
<1>1. m \in TcpSaid /\ e \in Seq(Byte)
  <2>1. m \in TcpSaid
    BY WireAssumption DEF TcpSaid
  <2> QED BY <2>1, FrameFacts DEF InOrder, Histories, TcpSaid
<1>2. /\ said \in Records /\ heard \in Heards /\ q \in Seq(Seq(Byte))
      /\ k + Len(q) = Len(said.tcp)
      /\ \A i \in 1 .. Len(q) : q[i] = Frame(tx, said.tcp[k + i])
      /\ \A i \in 1 .. k : heard.tcp[i] = TcpHeard(said.tcp[i])
  BY DEF InOrder, Histories, TcpInOrder
<1>3. said.tcp \in Seq(TcpSaid) /\ k \in Nat /\ Len(q) \in Nat
  BY <1>2 DEF Records, Heards
<1>4. /\ said' = [said EXCEPT !.tcp = Append(said.tcp, m)] /\ q' = Append(q, e)
      /\ UNCHANGED <<tx, rx, datagrams, buffer, starved, heard>>
  BY DEF SendFrame
<1>5. said'.tcp = Append(said.tcp, m) /\ said'.udp = said.udp
  BY <1>2, <1>4 DEF Records
<1>6. /\ Append(said.tcp, m) \in Seq(TcpSaid)
      /\ Len(said'.tcp) = k + Len(q) + 1 /\ said'.tcp[k + Len(q) + 1] = m
      /\ \A i \in 1 .. k + Len(q) : said'.tcp[i] = said.tcp[i]
  <2>1. /\ Append(said.tcp, m) \in Seq(TcpSaid)
        /\ Len(Append(said.tcp, m)) = Len(said.tcp) + 1
        /\ \A i \in 1 .. Len(said.tcp) : Append(said.tcp, m)[i] = said.tcp[i]
        /\ Append(said.tcp, m)[Len(said.tcp) + 1] = m
    BY <1>1, <1>3, Appended
  <2> QED BY <1>2, <1>5, <2>1
<1>7. /\ q' \in Seq(Seq(Byte)) /\ Len(q') = Len(q) + 1 /\ q'[Len(q) + 1] = e
      /\ \A i \in 1 .. Len(q) : q'[i] = q[i]
  <2> HIDE DEF q, e
  <2> QED BY <1>1, <1>2, <1>4, Appended
<1>8. Histories'
  <2>1. said' \in Records
    BY <1>2, <1>4, <1>6 DEF Records
  <2> QED BY <1>4, <2>1 DEF InOrder, Histories
<1>9. TcpInOrder'
  <2>1. ASSUME NEW i \in 1 .. Len(q) + 1 PROVE q'[i] = Frame(tx, said'.tcp[k + i])
    <3>1. CASE i = Len(q) + 1
      <4>1. k + i = k + Len(q) + 1
        <5> HIDE DEF k, q
        <5> QED BY <1>3, <3>1
      <4> QED BY <1>6, <1>7, <3>1, <4>1
    <3>2. CASE i # Len(q) + 1
      <4>1. i \in 1 .. Len(q) /\ k + i \in 1 .. k + Len(q)
        BY <1>3, <3>2
      <4> QED BY <1>2, <1>6, <1>7, <4>1
    <3> QED BY <3>1, <3>2
  <2>2. ASSUME NEW i \in 1 .. k PROVE heard.tcp[i] = TcpHeard(said'.tcp[i])
    <3>1. i \in 1 .. k + Len(q)
      BY <1>3
    <3> QED BY <1>2, <1>6, <3>1
  <2>3. k + (Len(q) + 1) = k + Len(q) + 1
    <3> HIDE DEF k, q
    <3> QED BY <1>3
  <2> QED BY <1>4, <1>6, <1>7, <2>1, <2>2, <2>3
          DEF InOrder, TcpInOrder, TcpHeard
<1>10. UdpInOrder'
  BY <1>4, <1>5 DEF InOrder, UdpInOrder, UdpHeard
<1> QED BY <1>8, <1>9, <1>10 DEF InOrder

LEMMA SendDatagramInOrder ==
    ASSUME InOrder, NEW m \in UdpMessages, SendDatagram(m)
    PROVE  InOrder'
<1> DEFINE q == datagrams
           k == Len(heard.udp)
           e == Serialized(tx, m)
<1>1. m \in UdpSaid /\ e \in Seq(Byte)
  <2>1. m \in UdpSaid
    BY WireAssumption DEF UdpSaid
  <2> QED BY <2>1, PacketSeq DEF InOrder, Histories, Messages, UdpSaid
<1>2. /\ said \in Records /\ heard \in Heards /\ q \in Seq(Seq(Byte))
      /\ k + Len(q) = Len(said.udp)
      /\ \A i \in 1 .. Len(q) : q[i] = Serialized(tx, said.udp[k + i])
      /\ \A i \in 1 .. k : heard.udp[i] = UdpHeard(said.udp[i])
  BY DEF InOrder, Histories, UdpInOrder
<1>3. said.udp \in Seq(UdpSaid) /\ k \in Nat /\ Len(q) \in Nat
  BY <1>2 DEF Records, Heards
<1>4. /\ said' = [said EXCEPT !.udp = Append(said.udp, m)] /\ q' = Append(q, e)
      /\ UNCHANGED <<tx, rx, frames, buffer, starved, heard>>
  BY DEF SendDatagram
<1>5. said'.udp = Append(said.udp, m) /\ said'.tcp = said.tcp
  BY <1>2, <1>4 DEF Records
<1>6. /\ Append(said.udp, m) \in Seq(UdpSaid)
      /\ Len(said'.udp) = k + Len(q) + 1 /\ said'.udp[k + Len(q) + 1] = m
      /\ \A i \in 1 .. k + Len(q) : said'.udp[i] = said.udp[i]
  <2>1. /\ Append(said.udp, m) \in Seq(UdpSaid)
        /\ Len(Append(said.udp, m)) = Len(said.udp) + 1
        /\ \A i \in 1 .. Len(said.udp) : Append(said.udp, m)[i] = said.udp[i]
        /\ Append(said.udp, m)[Len(said.udp) + 1] = m
    BY <1>1, <1>3, Appended
  <2> QED BY <1>2, <1>5, <2>1
<1>7. /\ q' \in Seq(Seq(Byte)) /\ Len(q') = Len(q) + 1 /\ q'[Len(q) + 1] = e
      /\ \A i \in 1 .. Len(q) : q'[i] = q[i]
  <2> HIDE DEF q, e
  <2> QED BY <1>1, <1>2, <1>4, Appended
<1>8. Histories'
  <2>1. said' \in Records
    BY <1>2, <1>4, <1>6 DEF Records
  <2> QED BY <1>4, <2>1 DEF InOrder, Histories
<1>9. UdpInOrder'
  <2>1. ASSUME NEW i \in 1 .. Len(q) + 1 PROVE q'[i] = Serialized(tx, said'.udp[k + i])
    <3>1. CASE i = Len(q) + 1
      <4>1. k + i = k + Len(q) + 1
        <5> HIDE DEF k, q
        <5> QED BY <1>3, <3>1
      <4> QED BY <1>6, <1>7, <3>1, <4>1
    <3>2. CASE i # Len(q) + 1
      <4>1. i \in 1 .. Len(q) /\ k + i \in 1 .. k + Len(q)
        BY <1>3, <3>2
      <4> QED BY <1>2, <1>6, <1>7, <4>1
    <3> QED BY <3>1, <3>2
  <2>2. ASSUME NEW i \in 1 .. k PROVE heard.udp[i] = UdpHeard(said'.udp[i])
    <3>1. i \in 1 .. k + Len(q)
      BY <1>3
    <3> QED BY <1>2, <1>6, <3>1
  <2>3. k + (Len(q) + 1) = k + Len(q) + 1
    <3> HIDE DEF k, q
    <3> QED BY <1>3
  <2> QED BY <1>4, <1>6, <1>7, <2>1, <2>2, <2>3
          DEF InOrder, UdpInOrder, UdpHeard
<1>10. TcpInOrder'
  BY <1>4, <1>5 DEF InOrder, TcpInOrder, TcpHeard
<1> QED BY <1>8, <1>9, <1>10 DEF InOrder

\* The first message of the queue is read, as it should be.
LEMMA TcpTaken ==
    ASSUME InOrder, frames # << >>, frames' = Tail(frames),
           UNCHANGED <<tx, rx, said>>, tx = rx => ~starved',
           heard' = [heard EXCEPT !.tcp = Append(heard.tcp, TcpHeard(said.tcp[Len(heard.tcp) + 1]))]
    PROVE  TcpInOrder' /\ heard' \in Heards /\ heard'.udp = heard.udp
<1> DEFINE q == frames
           k == Len(heard.tcp)
           m == said.tcp[k + 1]
           e == TcpHeard(m)
<1>1. /\ said \in Records /\ heard \in Heards /\ q \in Seq(Seq(Byte))
      /\ k + Len(q) = Len(said.tcp)
      /\ \A i \in 1 .. Len(q) : q[i] = Frame(tx, said.tcp[k + i])
      /\ \A i \in 1 .. k : heard.tcp[i] = TcpHeard(said.tcp[i])
  BY DEF InOrder, Histories, TcpInOrder
<1>2. /\ said.tcp \in Seq(TcpSaid) /\ heard.tcp \in Seq(TcpRange) /\ k \in Nat
  BY <1>1 DEF Records, Heards
<1>3. /\ Len(q) \in Nat /\ Len(q) > 0
      /\ q' \in Seq(Seq(Byte)) /\ Len(q') = Len(q) - 1
      /\ \A i \in 1 .. Len(q) - 1 : q'[i] = q[i + 1]
  <2> HIDE DEF q
  <2>1. q # << >> /\ q' = Tail(q)
    BY DEF q
  <2> QED BY <1>1, <2>1, Beheaded
<1>4. m \in TcpSaid
  BY <1>1, <1>2, <1>3
<1>5. e \in TcpRange
  BY <1>4 DEF TcpHeard, TcpRange
<1> HIDE DEF e
<1>6. /\ heard'.tcp = Append(heard.tcp, e) /\ heard'.udp = heard.udp
  BY <1>1 DEF Heards, e
<1>7. /\ heard'.tcp \in Seq(TcpRange) /\ Len(heard'.tcp) = k + 1 /\ heard'.tcp[k + 1] = e
      /\ \A i \in 1 .. k : heard'.tcp[i] = heard.tcp[i]
  BY <1>2, <1>5, <1>6, Appended
<1>8. heard' \in Heards
  BY <1>1, <1>6, <1>7 DEF Heards
<1>9. ASSUME NEW i \in 1 .. Len(q) - 1 PROVE q'[i] = Frame(tx, said.tcp[k + 1 + i])
  <2>1. i + 1 \in 1 .. Len(q) /\ k + (i + 1) = k + 1 + i
    <3> HIDE DEF k, q
    <3>1. k \in Nat /\ Len(q) \in Nat /\ i \in Nat /\ i >= 1 /\ i <= Len(q) - 1
      BY <1>2, <1>3
    <3> QED BY <3>1
  <2> QED BY <1>1, <1>3, <2>1
<1>10. ASSUME NEW i \in 1 .. k + 1 PROVE heard'.tcp[i] = TcpHeard(said.tcp[i])
  <2>1. CASE i = k + 1
    BY <1>7, <2>1 DEF e
  <2>2. CASE i # k + 1
    <3>1. i \in 1 .. k
      BY <1>2, <2>2
    <3> QED BY <1>1, <1>7, <3>1
  <2> QED BY <2>1, <2>2
<1>11. k + 1 + (Len(q) - 1) = Len(said.tcp)
  <2> HIDE DEF k, q
  <2> QED BY <1>1, <1>2, <1>3
<1>12. TcpInOrder'
  BY <1>3, <1>7, <1>9, <1>10, <1>11 DEF TcpInOrder, TcpHeard
<1> QED BY <1>6, <1>8, <1>12

\* The first message of the queue is read, as it should be.
LEMMA UdpTaken ==
    ASSUME InOrder, datagrams # << >>, datagrams' = Tail(datagrams),
           UNCHANGED <<tx, rx, said>>,
           heard' = [heard EXCEPT !.udp = Append(heard.udp, UdpHeard(said.udp[Len(heard.udp) + 1]))]
    PROVE  UdpInOrder' /\ heard' \in Heards /\ heard'.tcp = heard.tcp
<1> DEFINE q == datagrams
           k == Len(heard.udp)
           m == said.udp[k + 1]
           e == UdpHeard(m)
<1>1. /\ said \in Records /\ heard \in Heards /\ q \in Seq(Seq(Byte))
      /\ k + Len(q) = Len(said.udp)
      /\ \A i \in 1 .. Len(q) : q[i] = Serialized(tx, said.udp[k + i])
      /\ \A i \in 1 .. k : heard.udp[i] = UdpHeard(said.udp[i])
  BY DEF InOrder, Histories, UdpInOrder
<1>2. /\ said.udp \in Seq(UdpSaid) /\ heard.udp \in Seq(UdpRange) /\ k \in Nat
  BY <1>1 DEF Records, Heards
<1>3. /\ Len(q) \in Nat /\ Len(q) > 0
      /\ q' \in Seq(Seq(Byte)) /\ Len(q') = Len(q) - 1
      /\ \A i \in 1 .. Len(q) - 1 : q'[i] = q[i + 1]
  <2> HIDE DEF q
  <2>1. q # << >> /\ q' = Tail(q)
    BY DEF q
  <2> QED BY <1>1, <2>1, Beheaded
<1>4. m \in UdpSaid
  BY <1>1, <1>2, <1>3
<1>5. e \in UdpRange
  BY <1>4 DEF UdpHeard, UdpRange
<1> HIDE DEF e
<1>6. /\ heard'.udp = Append(heard.udp, e) /\ heard'.tcp = heard.tcp
  BY <1>1 DEF Heards, e
<1>7. /\ heard'.udp \in Seq(UdpRange) /\ Len(heard'.udp) = k + 1 /\ heard'.udp[k + 1] = e
      /\ \A i \in 1 .. k : heard'.udp[i] = heard.udp[i]
  BY <1>2, <1>5, <1>6, Appended
<1>8. heard' \in Heards
  BY <1>1, <1>6, <1>7 DEF Heards
<1>9. ASSUME NEW i \in 1 .. Len(q) - 1 PROVE q'[i] = Serialized(tx, said.udp[k + 1 + i])
  <2>1. i + 1 \in 1 .. Len(q) /\ k + (i + 1) = k + 1 + i
    <3> HIDE DEF k, q
    <3>1. k \in Nat /\ Len(q) \in Nat /\ i \in Nat /\ i >= 1 /\ i <= Len(q) - 1
      BY <1>2, <1>3
    <3> QED BY <3>1
  <2> QED BY <1>1, <1>3, <2>1
<1>10. ASSUME NEW i \in 1 .. k + 1 PROVE heard'.udp[i] = UdpHeard(said.udp[i])
  <2>1. CASE i = k + 1
    BY <1>7, <2>1 DEF e
  <2>2. CASE i # k + 1
    <3>1. i \in 1 .. k
      BY <1>2, <2>2
    <3> QED BY <1>1, <1>7, <3>1
  <2> QED BY <2>1, <2>2
<1>11. k + 1 + (Len(q) - 1) = Len(said.udp)
  <2> HIDE DEF k, q
  <2> QED BY <1>1, <1>2, <1>3
<1>12. UdpInOrder'
  BY <1>3, <1>7, <1>9, <1>10, <1>11 DEF UdpInOrder, UdpHeard
<1> QED BY <1>6, <1>8, <1>12

\* What is at the head of a queue is the first message that was not heard.
LEMMA Heads ==
    ASSUME InOrder
    PROVE  /\ frames # << >> =>
                  /\ said.tcp[Len(heard.tcp) + 1] \in TcpSaid
                  /\ Head(frames) = Frame(tx, said.tcp[Len(heard.tcp) + 1])
           /\ datagrams # << >> =>
                  /\ said.udp[Len(heard.udp) + 1] \in UdpSaid
                  /\ Head(datagrams) = Serialized(tx, said.udp[Len(heard.udp) + 1])
<1>1. /\ said.tcp \in Seq(TcpSaid) /\ heard.tcp \in Seq(TcpRange)
      /\ said.udp \in Seq(UdpSaid) /\ heard.udp \in Seq(UdpRange)
      /\ frames \in Seq(Seq(Byte)) /\ datagrams \in Seq(Seq(Byte))
  BY DEF InOrder, Histories, TcpInOrder, UdpInOrder, Records, Heards
<1>2. ASSUME frames # << >>
      PROVE  /\ said.tcp[Len(heard.tcp) + 1] \in TcpSaid
             /\ Head(frames) = Frame(tx, said.tcp[Len(heard.tcp) + 1])
  <2>1. Len(frames) \in Nat /\ Len(frames) > 0 /\ Head(frames) = frames[1]
    BY <1>1, <1>2, Beheaded
  <2>2. Len(heard.tcp) + Len(frames) = Len(said.tcp)
    BY DEF InOrder, TcpInOrder
  <2>3. Len(heard.tcp) + 1 \in 1 .. Len(said.tcp)
    BY <1>1, <2>1, <2>2
  <2>4. said.tcp[Len(heard.tcp) + 1] \in TcpSaid
    BY <1>1, <2>3
  <2>5. \A i \in 1 .. Len(frames) : frames[i] = Frame(tx, said.tcp[Len(heard.tcp) + i])
    BY DEF InOrder, TcpInOrder
  <2>6. frames[1] = Frame(tx, said.tcp[Len(heard.tcp) + 1])
    BY <2>1, <2>5
  <2> QED BY <2>1, <2>4, <2>6
<1>3. ASSUME datagrams # << >>
      PROVE  /\ said.udp[Len(heard.udp) + 1] \in UdpSaid
             /\ Head(datagrams) = Serialized(tx, said.udp[Len(heard.udp) + 1])
  <2>1. Len(datagrams) \in Nat /\ Len(datagrams) > 0 /\ Head(datagrams) = datagrams[1]
    BY <1>1, <1>3, Beheaded
  <2>2. Len(heard.udp) + Len(datagrams) = Len(said.udp)
    BY DEF InOrder, UdpInOrder
  <2>3. Len(heard.udp) + 1 \in 1 .. Len(said.udp)
    BY <1>1, <2>1, <2>2
  <2>4. said.udp[Len(heard.udp) + 1] \in UdpSaid
    BY <1>1, <2>3
  <2>5. \A i \in 1 .. Len(datagrams) : datagrams[i] = Serialized(tx, said.udp[Len(heard.udp) + i])
    BY DEF InOrder, UdpInOrder
  <2>6. datagrams[1] = Serialized(tx, said.udp[Len(heard.udp) + 1])
    BY <2>1, <2>5
  <2> QED BY <2>1, <2>4, <2>6
<1> QED BY <1>2, <1>3

LEMMA ReadFrameInOrder ==
    ASSUME InOrder, ReadFrame
    PROVE  InOrder'
<1> DEFINE m == said.tcp[Len(heard.tcp) + 1]
           f == Head(frames)
<1>1. /\ frames # << >> /\ ~starved
      /\ UNCHANGED <<tx, rx, datagrams, buffer, said>>
  BY DEF ReadFrame
<1>2. m \in FirstDatas \cup TestStructs /\ f = Frame(tx, m) /\ tx \in Hosts /\ rx \in Hosts
  BY <1>1, Heads DEF TcpSaid, InOrder, Histories
<1>3. CASE SizeOf(rx, f) = Len(f) - 4
  <2>1. TcpMessage(rx, Body(f)) = TcpHeard(m)
    BY <1>2, FrameFacts, TcpRead DEF TcpHeard
  <2>2. /\ heard' = [heard EXCEPT !.tcp = Append(heard.tcp, TcpHeard(m))]
        /\ frames' = Tail(frames) /\ starved' = starved
    BY <1>3, <2>1 DEF ReadFrame
  <2>3. TcpInOrder' /\ heard' \in Heards /\ heard'.udp = heard.udp
    BY <1>1, <2>2, TcpTaken
  <2>4. Histories' /\ UdpInOrder'
    BY <1>1, <2>2, <2>3 DEF InOrder, Histories, UdpInOrder, UdpHeard
  <2> QED BY <2>3, <2>4 DEF InOrder
<1>4. CASE SizeOf(rx, f) # Len(f) - 4
  <2>1. tx # rx
    BY <1>2, <1>4, FrameFacts
  <2>2. starved' = TRUE /\ heard' = heard /\ frames' = frames
    BY <1>4 DEF ReadFrame
  <2> QED BY <1>1, <2>1, <2>2
          DEF InOrder, Histories, TcpInOrder, UdpInOrder, TcpHeard, UdpHeard
<1> QED BY <1>3, <1>4

LEMMA ReceiveInOrder ==
    ASSUME InOrder, Receive
    PROVE  InOrder'
<1> DEFINE m == said.udp[Len(heard.udp) + 1]
<1>1. /\ datagrams # << >> /\ datagrams' = Tail(datagrams)
      /\ UNCHANGED <<tx, rx, frames, starved, said>>
  BY DEF Receive
<1>2. m \in TestMessages \cup Images /\ Head(datagrams) = Serialized(tx, m)
  BY <1>1, Heads DEF UdpSaid
<1>3. /\ buffer' \in [1 .. BufSize -> Byte]
      /\ UdpMessage(rx, buffer') = UdpHeard(m)
  <2>1. buffer' = Overlay(buffer, Serialized(tx, m))
    BY <1>2 DEF Receive
  <2>2. tx \in Hosts /\ rx \in Hosts /\ buffer \in [1 .. BufSize -> Byte]
    BY DEF InOrder, Histories
  <2> QED BY <1>2, <2>1, <2>2, UdpRead DEF UdpHeard
<1>4. heard' = [heard EXCEPT !.udp = Append(heard.udp, UdpHeard(m))]
  BY <1>3 DEF Receive
<1>5. UdpInOrder' /\ heard' \in Heards /\ heard'.tcp = heard.tcp
  BY <1>1, <1>4, UdpTaken
<1>6. Histories' /\ TcpInOrder'
  BY <1>1, <1>3, <1>5 DEF InOrder, Histories, TcpInOrder, TcpHeard
<1> QED BY <1>5, <1>6 DEF InOrder

\* Whatever is sent, in either way and between any two hosts, what has been heard
\* is a prefix of what was said, read as the byte orders allow, and what is under
\* way is the rest of it (the reads and writes of ClientSession.cpp:15-68,
\* AsioUdpServer.cpp:18-39 and connection.cpp:17-38, 152-171, 247-287).
THEOREM WireInOrder == Spec => []InOrder
<1>1. Init => InOrder
  BY InitInOrder
<1>2. InOrder /\ [Next]_vars => InOrder'
  <2> SUFFICES ASSUME InOrder, [Next]_vars
               PROVE  InOrder'
    OBVIOUS
  <2>1. CASE \E m \in TcpMessages : SendFrame(m)
    BY <2>1, SendFrameInOrder
  <2>2. CASE \E m \in UdpMessages : SendDatagram(m)
    BY <2>2, SendDatagramInOrder
  <2>3. CASE ReadFrame
    BY <2>3, ReadFrameInOrder
  <2>4. CASE Receive
    BY <2>4, ReceiveInOrder
  <2>5. CASE UNCHANGED vars
    BY <2>5 DEF vars, InOrder, Histories, TcpInOrder, UdpInOrder, TcpHeard, UdpHeard
  <2> QED BY <2>1, <2>2, <2>3, <2>4, <2>5 DEF Next
<1> QED BY <1>1, <1>2, PTL DEF Spec

\* The state has its type, and no message is lost or made up between saying and
\* hearing.
THEOREM WireTypeOK == Spec => []TypeOK
<1>1. InOrder => TypeOK
  <2> SUFFICES ASSUME InOrder PROVE TypeOK
    OBVIOUS
  <2>1. ASSUME NEW i \in 1 .. Len(frames)
        PROVE  frames[i] \in Seq(Byte) /\ Len(frames[i]) >= 4
    <3> DEFINE m == said.tcp[Len(heard.tcp) + i]
    <3>1. m \in FirstDatas \cup TestStructs
      BY DEF InOrder, Histories, TcpInOrder, Records, Heards, TcpSaid
    <3>2. frames[i] = Frame(tx, m)
      BY DEF InOrder, TcpInOrder
    <3> QED BY <3>1, <3>2, FrameFacts DEF InOrder, Histories
  <2>2. /\ DOMAIN frames = 1 .. Len(frames) /\ datagrams \in Seq(Seq(Byte))
    BY DEF InOrder, TcpInOrder, UdpInOrder
  <2>3. \A i \in DOMAIN datagrams : datagrams[i] \in Seq(Byte)
    BY <2>2
  <2> QED BY <2>1, <2>2, <2>3 DEF TypeOK, InOrder, Histories, TcpInOrder, UdpInOrder
<1> QED BY <1>1, WireInOrder, PTL

LEMMA HeardRange ==
    ASSUME InOrder
    PROVE  /\ DOMAIN heard.tcp = 1 .. Len(heard.tcp)
           /\ DOMAIN heard.udp = 1 .. Len(heard.udp)
<1>1. heard.tcp \in Seq(TcpRange) /\ heard.udp \in Seq(UdpRange)
  BY DEF InOrder, Histories, Heards
<1> QED BY <1>1

\* Hosts of one byte order understand each other, whatever the messages say and
\* whichever datagram lay in the buffer before (GroupData.h:24-45, 60-89, 100-177).
THEOREM HostsUnderstand == Spec => []LikeHostsUnderstand
<1>1. InOrder => LikeHostsUnderstand
  BY HeardRange DEF InOrder, Histories, TcpInOrder, UdpInOrder, TcpHeard, UdpHeard,
                    LikeHostsUnderstand
<1> QED BY <1>1, WireInOrder, PTL

\* Whatever the byte orders, no message is taken for another one
\* (AsioTcpServer.cpp:111, AsioUdpServer.cpp:149).
THEOREM NoneMisread == Spec => []NothingMisread
<1>1. InOrder => NothingMisread
  BY HeardRange DEF InOrder, TcpInOrder, UdpInOrder, TcpHeard, UdpHeard, NothingMisread
<1> QED BY <1>1, WireInOrder, PTL
=============================================================================
