----------------------------- MODULE CrcProofs -----------------------------
(* The two modes of CalcCrc agree on every message, and a message drives the *)
(* register to 0 only with its own CRC.                                      *)
EXTENDS Crc, TLAPS

-----------------------------------------------------------------------------
(* Words *)

LEMMA Widths ==
    /\ \A x \in Register, y \in Register : Xor(x, y) \in Register
    /\ \A x, n : Up(x, n) \in Register
    /\ \A x : Down(x) \in Byte /\ Low(x) \in Byte
    /\ \A x \in Byte, y \in Byte : Xor(x, y) \in Byte
    /\ Byte \subseteq Register
    /\ \A x \in Register : Shift(x) \in Register
<1>1. \A x \in Register, y \in Register : Xor(x, y) \in Register
  BY DEF Xor, Register
<1>2. \A x, n : Up(x, n) \in Register
  BY DEF Up, Register
<1>3. \A x : Down(x) \in Byte /\ Low(x) \in Byte
  BY DEF Down, Low, Byte
<1>4. \A x \in Byte, y \in Byte : Xor(x, y) \in Byte
  BY DEF Xor, Byte
<1>5. Byte \subseteq Register
  BY DEF Byte, Register
<1>6. Poly \in Register
  BY DEF Poly, Register
<1>7. \A x \in Register : Shift(x) \in Register
  BY <1>1, <1>2, <1>6 DEF Shift
<1> QED BY <1>1, <1>2, <1>3, <1>4, <1>5, <1>7

LEMMA WideBytes ==
    ASSUME NEW x \in Register
    PROVE  ShiftTwice(x) \in Register /\ ShiftByte(x) \in Register
BY Widths DEF ShiftTwice, ShiftByte

\* The shifts respect exclusive or.
LEMMA UpXor ==
    ASSUME NEW x, NEW y, NEW n
    PROVE  Up(Xor(x, y), n) = Xor(Up(x, n), Up(y, n))
BY DEF Up, Xor

LEMMA ShiftXor ==
    ASSUME NEW x, NEW y
    PROVE  Shift(Xor(x, y)) = Xor(Shift(x), Shift(y))
<1> DEFINE u == Up(x, 1)
           v == Up(y, 1)
<1>1. 15 \in Xor(x, y) <=> ~(15 \in x <=> 15 \in y)
  BY DEF Xor
<1>2. Up(Xor(x, y), 1) = Xor(u, v)
  BY UpXor
<1> HIDE DEF u, v
<1>3. /\ Xor(Xor(u, v), Poly) = Xor(Xor(u, Poly), v)
      /\ Xor(Xor(u, v), Poly) = Xor(u, Xor(v, Poly))
      /\ Xor(u, v) = Xor(Xor(u, Poly), Xor(v, Poly))
  BY DEF Xor
<1> QED BY <1>1, <1>2, <1>3 DEF Shift, u, v

LEMMA ShiftByteXor ==
    ASSUME NEW x, NEW y
    PROVE  ShiftByte(Xor(x, y)) = Xor(ShiftByte(x), ShiftByte(y))
<1>1. ASSUME NEW a, NEW b PROVE ShiftTwice(Xor(a, b)) = Xor(ShiftTwice(a), ShiftTwice(b))
  BY ShiftXor DEF ShiftTwice
<1> QED BY <1>1 DEF ShiftByte

\* Nothing is shifted out of a register's lower half in eight steps.
LEMMA ShiftByteLow ==
    ASSUME NEW x \in Byte
    PROVE  ShiftByte(x) = Up(x, 8)
<1>1. Up(x, 0) = x
  <2>1. ASSUME NEW b \in 0 .. 15 PROVE b \in Up(x, 0) <=> b \in x
    <3>1. b - 0 = b
      OBVIOUS
    <3> QED BY <3>1 DEF Up
  <2>2. Up(x, 0) \in Register /\ x \in Register
    BY Widths
  <2> QED BY <2>1, <2>2 DEF Register
<1>2. ASSUME NEW k \in 0 .. 7 PROVE Shift(Up(x, k)) = Up(x, k + 1)
  <2>1. 15 \notin Up(x, k)
    BY DEF Up, Byte
  <2>2. Up(Up(x, k), 1) = Up(x, k + 1)
    BY DEF Up, Byte
  <2> QED BY <2>1, <2>2 DEF Shift
<1>3. /\ Shift(Up(x, 0)) = Up(x, 1) /\ Shift(Up(x, 1)) = Up(x, 2)
      /\ Shift(Up(x, 2)) = Up(x, 3) /\ Shift(Up(x, 3)) = Up(x, 4)
      /\ Shift(Up(x, 4)) = Up(x, 5) /\ Shift(Up(x, 5)) = Up(x, 6)
      /\ Shift(Up(x, 6)) = Up(x, 7) /\ Shift(Up(x, 7)) = Up(x, 8)
  BY <1>2
<1>4. /\ ShiftTwice(x) = Up(x, 2) /\ ShiftTwice(Up(x, 2)) = Up(x, 4)
      /\ ShiftTwice(Up(x, 4)) = Up(x, 6) /\ ShiftTwice(Up(x, 6)) = Up(x, 8)
  BY <1>1, <1>3 DEF ShiftTwice
<1> QED BY <1>4 DEF ShiftByte

\* No two registers become the same: the polynomial has its lowest bit set, so
\* that bit tells what was shifted out.
LEMMA ShiftInjective ==
    ASSUME NEW x \in Register, NEW y \in Register, Shift(x) = Shift(y)
    PROVE  x = y
<1>1. ASSUME NEW z \in Register PROVE 0 \in Shift(z) <=> 15 \in z
  <2>1. 0 \notin Up(z, 1)
    BY DEF Up, Register
  <2> QED BY <2>1 DEF Shift, Xor, Poly
<1>2. 15 \in x <=> 15 \in y
  BY <1>1
<1>3. Up(x, 1) = Up(y, 1)
  <2>1. CASE 15 \in x
    <3>1. Xor(Up(x, 1), Poly) = Xor(Up(y, 1), Poly)
      BY <1>2, <2>1 DEF Shift
    <3>2. ASSUME NEW u, NEW v, Xor(u, Poly) = Xor(v, Poly) PROVE u = v
      BY <3>2 DEF Xor
    <3> QED BY <3>1, <3>2
  <2>2. CASE 15 \notin x
    BY <1>2, <2>2 DEF Shift
  <2> QED BY <2>1, <2>2
<1>4. ASSUME NEW b \in 0 .. 15 PROVE b \in x <=> b \in y
  <2>1. CASE b = 15
    BY <1>2, <2>1
  <2>2. CASE b # 15
    <3>1. b + 1 \in 0 .. 15 /\ (b + 1) - 1 = b
      BY <2>2
    <3>2. b + 1 \in Up(x, 1) <=> b + 1 \in Up(y, 1)
      BY <1>3
    <3> QED BY <3>1, <3>2 DEF Up
  <2> QED BY <2>1, <2>2
<1> QED BY <1>4 DEF Register

LEMMA ShiftByteInjective ==
    ASSUME NEW x \in Register, NEW y \in Register, ShiftByte(x) = ShiftByte(y)
    PROVE  x = y
<1>1. ASSUME NEW a \in Register, NEW b \in Register, ShiftTwice(a) = ShiftTwice(b)
      PROVE  a = b
  <2>1. Shift(a) = Shift(b)
    BY <1>1, Widths, ShiftInjective DEF ShiftTwice
  <2> QED BY <2>1, ShiftInjective
<1> DEFINE x1 == ShiftTwice(x)
           y1 == ShiftTwice(y)
           x2 == ShiftTwice(x1)
           y2 == ShiftTwice(y1)
           x3 == ShiftTwice(x2)
           y3 == ShiftTwice(y2)
<1>2. x1 \in Register /\ y1 \in Register
  BY WideBytes
<1>3. x2 \in Register /\ y2 \in Register
  BY <1>2, WideBytes
<1>4. x3 \in Register /\ y3 \in Register
  BY <1>3, WideBytes
<1>5. ShiftTwice(x3) = ShiftTwice(y3)
  BY DEF ShiftByte
<1>6. x3 = y3
  BY <1>1, <1>4, <1>5
<1>7. x2 = y2
  BY <1>1, <1>3, <1>6
<1>8. x1 = y1
  BY <1>1, <1>2, <1>7
<1> QED BY <1>1, <1>8

\* A register is its two halves, and a byte changes only the upper one.
LEMMA Halves ==
    ASSUME NEW r \in Register, NEW a \in Byte
    PROVE  /\ Xor(r, Up(a, 8)) = Xor(Up(Xor(Down(r), a), 8), Low(r))
           /\ Up(Low(r), 8) = Up(r, 8)
<1>1. Up(Low(r), 8) = Up(r, 8)
  <2>1. ASSUME NEW b \in 0 .. 15 PROVE b - 8 \in Low(r) <=> b - 8 \in r
    <3>1. b - 8 \in r => b - 8 \in 0 .. 7
      BY DEF Register
    <3> QED BY <3>1 DEF Low
  <2> QED BY <2>1 DEF Up
<1>2. ASSUME NEW b \in 0 .. 15
      PROVE  b \in Xor(r, Up(a, 8)) <=> b \in Xor(Up(Xor(Down(r), a), 8), Low(r))
  <2>1. CASE b < 8
    <3>1. b - 8 \notin a /\ b - 8 \notin Xor(Down(r), a) /\ b \in 0 .. 7
      BY <2>1 DEF Xor, Down, Byte
    <3>2. b \notin Up(a, 8) /\ b \notin Up(Xor(Down(r), a), 8)
      BY <3>1 DEF Up
    <3>3. b \in Low(r) <=> b \in r
      BY <3>1 DEF Low
    <3> QED BY <3>2, <3>3 DEF Xor
  <2>2. CASE b >= 8
    <3>1. b - 8 \in 0 .. 7 /\ (b - 8) + 8 = b /\ b \notin Low(r)
      BY <2>2 DEF Low
    <3>2. b - 8 \in Down(r) <=> b \in r
      BY <3>1 DEF Down
    <3>3. b \in Up(a, 8) <=> b - 8 \in a
      BY DEF Up
    <3>4. b \in Up(Xor(Down(r), a), 8) <=> b - 8 \in Xor(Down(r), a)
      BY DEF Up
    <3> QED BY <3>1, <3>2, <3>3, <3>4 DEF Xor
  <2> QED BY <2>1, <2>2
<1>3. /\ Xor(r, Up(a, 8)) \in Register
      /\ Xor(Up(Xor(Down(r), a), 8), Low(r)) \in Register
  BY Widths
<1> QED BY <1>1, <1>2, <1>3 DEF Register

-----------------------------------------------------------------------------
(* Steps of the two modes *)

LEMMA StepsAgree ==
    ASSUME NEW r \in Register, NEW a \in Byte
    PROVE  /\ FuncByte(r, a) \in Register
           /\ TableByte(r, a) = FuncByte(r, a)
<1> DEFINE i == Xor(Down(r), a)
<1>1. i \in Byte /\ Low(r) \in Byte
  BY Widths
<1>2. FuncByte(r, a) = ShiftByte(Xor(Up(i, 8), Low(r)))
  BY Halves DEF FuncByte
<1>3. ShiftByte(Xor(Up(i, 8), Low(r))) = Xor(ShiftByte(Up(i, 8)), ShiftByte(Low(r)))
  BY ShiftByteXor
<1>4. ShiftByte(Up(i, 8)) = Tbl[i] /\ ShiftByte(Low(r)) = Up(r, 8)
  BY <1>1, TableOfPolynomial, ShiftByteLow, Halves
<1>5. TableByte(r, a) = Xor(Up(r, 8), Tbl[i])
  BY DEF TableByte, Index
<1>6. Xor(Up(r, 8), Tbl[i]) = Xor(Tbl[i], Up(r, 8))
  BY DEF Xor
<1>7. FuncByte(r, a) \in Register
  BY Widths, WideBytes DEF FuncByte
<1> QED BY <1>2, <1>3, <1>4, <1>5, <1>6, <1>7

\* Two bytes clear the register if and only if they are its halves.
LEMMA OnlyHalvesClear ==
    ASSUME NEW r \in Register, NEW a \in Byte, NEW b \in Byte
    PROVE  FuncByte(FuncByte(r, a), b) = {} <=> a = Down(r) /\ b = Low(r)
<1> DEFINE s == FuncByte(r, a)
<1>1. s \in Register /\ {} \in Register /\ {} \in Byte /\ Up({}, 8) = {}
  BY StepsAgree DEF Register, Byte, Up
<1>2. ShiftByte({}) = {}
  BY <1>1, ShiftByteLow
<1>3. ASSUME a = Down(r), b = Low(r)
      PROVE  FuncByte(s, b) = {}
  <2>1. Xor(Down(r), a) = {} /\ Xor({}, Low(r)) = Low(r)
    BY <1>3 DEF Xor
  <2>2. s = ShiftByte(Low(r))
    BY <1>1, <2>1, Halves DEF FuncByte
  <2>3. s = Up(b, 8)
    BY <1>3, <2>2, ShiftByteLow
  <2>4. Xor(Up(b, 8), Up(b, 8)) = {}
    BY DEF Xor
  <2> QED BY <1>2, <2>3, <2>4 DEF FuncByte
<1>4. ASSUME FuncByte(s, b) = {}
      PROVE  a = Down(r) /\ b = Low(r)
  <2>1. Xor(s, Up(b, 8)) \in Register
    BY <1>1, Widths
  <2>2. Xor(s, Up(b, 8)) = {}
    BY <1>1, <1>2, <1>4, <2>1, ShiftByteInjective DEF FuncByte
  <2>3. s = Up(b, 8)
    BY <2>2 DEF Xor
  <2>4. ShiftByte(Xor(r, Up(a, 8))) = ShiftByte(b)
    BY <2>3, ShiftByteLow DEF FuncByte
  <2>5. Xor(r, Up(a, 8)) \in Register /\ b \in Register
    BY Widths
  <2>6. Xor(r, Up(a, 8)) = b
    BY <2>4, <2>5, ShiftByteInjective
  <2>7. ASSUME NEW k \in 0 .. 7 PROVE (k \in a <=> k \in Down(r)) /\ (k \in b <=> k \in Low(r))
    <3>1. k + 8 \in 0 .. 15 /\ (k + 8) - 8 = k /\ k - 8 \notin a /\ k + 8 \notin b
          /\ k \in 0 .. 15
      BY DEF Byte
    <3>2. (k + 8 \in Up(a, 8) <=> k \in a) /\ k \notin Up(a, 8)
      BY <3>1 DEF Up
    <3>3. (k + 8 \in r <=> k \in Down(r)) /\ (k \in r <=> k \in Low(r))
      BY DEF Down, Low
    <3> QED BY <2>6, <3>1, <3>2, <3>3 DEF Xor
  <2>8. Down(r) \in Byte /\ Low(r) \in Byte
    BY Widths
  <2> QED BY <2>7, <2>8 DEF Byte
<1> QED BY <1>3, <1>4

-----------------------------------------------------------------------------
(* The documented CRC *)

\* Shifts bit by bit.  Fold(x, j) is what becomes of bit j of the upper half and
\* of the bit four above it.
Odd(p, q) == ~(p <=> q)
Fold(x, j) == IF j < 4 THEN Odd(8 + j \in x, 12 + j \in x) ELSE 8 + j \in x

LEMMA ShiftBits ==
    ASSUME NEW x \in Register
    PROVE  /\ 0 \in Shift(x) <=> 15 \in x
           /\ 5 \in Shift(x) <=> Odd(4 \in x, 15 \in x)
           /\ 12 \in Shift(x) <=> Odd(11 \in x, 15 \in x)
           /\ \A b \in 0 .. 15 \ {0, 5, 12} : b \in Shift(x) <=> b - 1 \in x
<1>1. \A b \in 0 .. 15 : b \in Up(x, 1) <=> b - 1 \in x
  BY DEF Up
<1>2. -1 \notin x
  BY DEF Register
<1>3. /\ 0 \notin Up(x, 1)
      /\ 5 \in Up(x, 1) <=> 4 \in x
      /\ 12 \in Up(x, 1) <=> 11 \in x
  BY <1>1, <1>2
<1> QED BY <1>1, <1>3 DEF Shift, Xor, Poly, Odd

LEMMA ShiftTwiceBits ==
    ASSUME NEW x \in Register
    PROVE  /\ 0 \in ShiftTwice(x) <=> 14 \in x
           /\ 1 \in ShiftTwice(x) <=> 15 \in x
           /\ 2 \in ShiftTwice(x) <=> 0 \in x
           /\ 3 \in ShiftTwice(x) <=> 1 \in x
           /\ 4 \in ShiftTwice(x) <=> 2 \in x
           /\ 5 \in ShiftTwice(x) <=> Odd(3 \in x, 14 \in x)
           /\ 6 \in ShiftTwice(x) <=> Odd(4 \in x, 15 \in x)
           /\ 7 \in ShiftTwice(x) <=> 5 \in x
           /\ 8 \in ShiftTwice(x) <=> 6 \in x
           /\ 9 \in ShiftTwice(x) <=> 7 \in x
           /\ 10 \in ShiftTwice(x) <=> 8 \in x
           /\ 11 \in ShiftTwice(x) <=> 9 \in x
           /\ 12 \in ShiftTwice(x) <=> Odd(10 \in x, 14 \in x)
           /\ 13 \in ShiftTwice(x) <=> Odd(11 \in x, 15 \in x)
           /\ 14 \in ShiftTwice(x) <=> 12 \in x
           /\ 15 \in ShiftTwice(x) <=> 13 \in x
<1> DEFINE y == Shift(x)
<1>1. y \in Register
  BY Widths
<1> HIDE DEF y
<1>2. /\ 0 \in Shift(y) <=> 15 \in y
      /\ 5 \in Shift(y) <=> Odd(4 \in y, 15 \in y)
      /\ 12 \in Shift(y) <=> Odd(11 \in y, 15 \in y)
      /\ \A b \in 0 .. 15 \ {0, 5, 12} : b \in Shift(y) <=> b - 1 \in y
  BY <1>1, ShiftBits
<1>3. /\ 0 \in y <=> 15 \in x
      /\ 5 \in y <=> Odd(4 \in x, 15 \in x)
      /\ 12 \in y <=> Odd(11 \in x, 15 \in x)
      /\ \A b \in 0 .. 15 \ {0, 5, 12} : b \in y <=> b - 1 \in x
  BY ShiftBits DEF y
<1> QED BY <1>2, <1>3 DEF ShiftTwice, y, Odd

LEMMA ShiftByteBits ==
    ASSUME NEW x \in Register
    PROVE  /\ 0 \in ShiftByte(x) <=> Fold(x, 0)
           /\ 1 \in ShiftByte(x) <=> Fold(x, 1)
           /\ 2 \in ShiftByte(x) <=> Fold(x, 2)
           /\ 3 \in ShiftByte(x) <=> Fold(x, 3)
           /\ 4 \in ShiftByte(x) <=> Fold(x, 4)
           /\ 5 \in ShiftByte(x) <=> Odd(Fold(x, 5), Fold(x, 0))
           /\ 6 \in ShiftByte(x) <=> Odd(Fold(x, 6), Fold(x, 1))
           /\ 7 \in ShiftByte(x) <=> Odd(Fold(x, 7), Fold(x, 2))
           /\ 8 \in ShiftByte(x) <=> Odd(0 \in x, Fold(x, 3))
           /\ 9 \in ShiftByte(x) <=> Odd(1 \in x, Fold(x, 4))
           /\ 10 \in ShiftByte(x) <=> Odd(2 \in x, Fold(x, 5))
           /\ 11 \in ShiftByte(x) <=> Odd(3 \in x, Fold(x, 6))
           /\ 12 \in ShiftByte(x) <=> Odd(Odd(4 \in x, Fold(x, 7)), Fold(x, 0))
           /\ 13 \in ShiftByte(x) <=> Odd(5 \in x, Fold(x, 1))
           /\ 14 \in ShiftByte(x) <=> Odd(6 \in x, Fold(x, 2))
           /\ 15 \in ShiftByte(x) <=> Odd(7 \in x, Fold(x, 3))
<1> DEFINE x2 == ShiftTwice(x)
           x4 == ShiftTwice(x2)
           x6 == ShiftTwice(x4)
<1>1. x2 \in Register /\ x4 \in Register /\ x6 \in Register
  BY WideBytes
<1>2. ShiftByte(x) = ShiftTwice(x6)
  BY DEF ShiftByte
<1>3. /\ 0 \in x2 <=> 14 \in x
      /\ 1 \in x2 <=> 15 \in x
      /\ 2 \in x2 <=> 0 \in x
      /\ 3 \in x2 <=> 1 \in x
      /\ 4 \in x2 <=> 2 \in x
      /\ 5 \in x2 <=> Odd(3 \in x, 14 \in x)
      /\ 6 \in x2 <=> Odd(4 \in x, 15 \in x)
      /\ 7 \in x2 <=> 5 \in x
      /\ 8 \in x2 <=> 6 \in x
      /\ 9 \in x2 <=> 7 \in x
      /\ 10 \in x2 <=> 8 \in x
      /\ 11 \in x2 <=> 9 \in x
      /\ 12 \in x2 <=> Odd(10 \in x, 14 \in x)
      /\ 13 \in x2 <=> Odd(11 \in x, 15 \in x)
      /\ 14 \in x2 <=> 12 \in x
      /\ 15 \in x2 <=> 13 \in x
  BY <1>1, ShiftTwiceBits
<1>4. /\ 0 \in x4 <=> 14 \in x2
      /\ 1 \in x4 <=> 15 \in x2
      /\ 2 \in x4 <=> 0 \in x2
      /\ 3 \in x4 <=> 1 \in x2
      /\ 4 \in x4 <=> 2 \in x2
      /\ 5 \in x4 <=> Odd(3 \in x2, 14 \in x2)
      /\ 6 \in x4 <=> Odd(4 \in x2, 15 \in x2)
      /\ 7 \in x4 <=> 5 \in x2
      /\ 8 \in x4 <=> 6 \in x2
      /\ 9 \in x4 <=> 7 \in x2
      /\ 10 \in x4 <=> 8 \in x2
      /\ 11 \in x4 <=> 9 \in x2
      /\ 12 \in x4 <=> Odd(10 \in x2, 14 \in x2)
      /\ 13 \in x4 <=> Odd(11 \in x2, 15 \in x2)
      /\ 14 \in x4 <=> 12 \in x2
      /\ 15 \in x4 <=> 13 \in x2
  BY <1>1, ShiftTwiceBits
<1>5. /\ 0 \in x6 <=> 14 \in x4
      /\ 1 \in x6 <=> 15 \in x4
      /\ 2 \in x6 <=> 0 \in x4
      /\ 3 \in x6 <=> 1 \in x4
      /\ 4 \in x6 <=> 2 \in x4
      /\ 5 \in x6 <=> Odd(3 \in x4, 14 \in x4)
      /\ 6 \in x6 <=> Odd(4 \in x4, 15 \in x4)
      /\ 7 \in x6 <=> 5 \in x4
      /\ 8 \in x6 <=> 6 \in x4
      /\ 9 \in x6 <=> 7 \in x4
      /\ 10 \in x6 <=> 8 \in x4
      /\ 11 \in x6 <=> 9 \in x4
      /\ 12 \in x6 <=> Odd(10 \in x4, 14 \in x4)
      /\ 13 \in x6 <=> Odd(11 \in x4, 15 \in x4)
      /\ 14 \in x6 <=> 12 \in x4
      /\ 15 \in x6 <=> 13 \in x4
  BY <1>1, ShiftTwiceBits
<1>6. /\ 0 \in ShiftTwice(x6) <=> 14 \in x6
      /\ 1 \in ShiftTwice(x6) <=> 15 \in x6
      /\ 2 \in ShiftTwice(x6) <=> 0 \in x6
      /\ 3 \in ShiftTwice(x6) <=> 1 \in x6
      /\ 4 \in ShiftTwice(x6) <=> 2 \in x6
      /\ 5 \in ShiftTwice(x6) <=> Odd(3 \in x6, 14 \in x6)
      /\ 6 \in ShiftTwice(x6) <=> Odd(4 \in x6, 15 \in x6)
      /\ 7 \in ShiftTwice(x6) <=> 5 \in x6
      /\ 8 \in ShiftTwice(x6) <=> 6 \in x6
      /\ 9 \in ShiftTwice(x6) <=> 7 \in x6
      /\ 10 \in ShiftTwice(x6) <=> 8 \in x6
      /\ 11 \in ShiftTwice(x6) <=> 9 \in x6
      /\ 12 \in ShiftTwice(x6) <=> Odd(10 \in x6, 14 \in x6)
      /\ 13 \in ShiftTwice(x6) <=> Odd(11 \in x6, 15 \in x6)
      /\ 14 \in ShiftTwice(x6) <=> 12 \in x6
      /\ 15 \in ShiftTwice(x6) <=> 13 \in x6
  BY <1>1, ShiftTwiceBits
<1> HIDE DEF x2, x4, x6
<1> QED BY <1>2, <1>3, <1>4, <1>5, <1>6, SMT DEF Fold, Odd

\* What the bitwise mode makes of the documented string, byte by byte.
LEMMA DocumentedFuncs ==
    ASSUME NEW f, f[1] = {},
           f[2] = FuncByte(f[1], {0, 2, 5, 7}),
           f[3] = FuncByte(f[2], {4, 7}),
           f[4] = FuncByte(f[3], {}),
           f[5] = FuncByte(f[4], {2, 3, 5, 6}),
           f[6] = FuncByte(f[5], {}),
           f[7] = FuncByte(f[6], {}),
           f[8] = FuncByte(f[7], {}),
           f[9] = FuncByte(f[8], {}),
           f[10] = FuncByte(f[9], {}),
           f[11] = FuncByte(f[10], {}),
           f[12] = FuncByte(f[11], {2}),
           f[13] = FuncByte(f[12], {}),
           f[14] = FuncByte(f[13], {}),
           f[15] = FuncByte(f[14], {})
    PROVE  f[15] = {1, 2, 4, 5, 6, 7, 11, 12, 13}
<1>0. ASSUME NEW x \in Register PROVE ShiftByte(x) \in Register
  BY WideBytes
<1>1. f[2] = {0, 1, 2, 3, 6, 8, 10, 13, 14, 15}
  <2>1. Xor({}, Up({0, 2, 5, 7}, 8)) =
            {8, 10, 13, 15}
    BY DEF Xor, Up
  <2>2. ShiftByte({8, 10, 13, 15}) =
            {0, 1, 2, 3, 6, 8, 10, 13, 14, 15}
    BY <1>0, ShiftByteBits DEF Fold, Odd, Register
  <2>3. f[1] = {} /\ f[2] = FuncByte(f[1], {0, 2, 5, 7})
    BY SMT
  <2> QED BY <2>1, <2>2, <2>3, ZenonT(40) DEF FuncByte
<1>2. f[3] = {1, 4, 5, 8, 13, 14}
  <2>1. Xor({0, 1, 2, 3, 6, 8, 10, 13, 14, 15}, Up({4, 7}, 8)) =
            {0, 1, 2, 3, 6, 8, 10, 12, 13, 14}
    BY DEF Xor, Up
  <2>2. ShiftByte({0, 1, 2, 3, 6, 8, 10, 12, 13, 14}) =
            {1, 4, 5, 8, 13, 14}
    BY <1>0, ShiftByteBits DEF Fold, Odd, Register
  <2>3. f[2] = {0, 1, 2, 3, 6, 8, 10, 13, 14, 15} /\ f[3] = FuncByte(f[2], {4, 7})
    BY <1>1
  <2> QED BY <2>1, <2>2, <2>3, ZenonT(40) DEF FuncByte
<1>3. f[4] = {0, 1, 2, 7, 9, 10, 11, 14}
  <2>1. Xor({1, 4, 5, 8, 13, 14}, Up({}, 8)) =
            {1, 4, 5, 8, 13, 14}
    BY DEF Xor, Up
  <2>2. ShiftByte({1, 4, 5, 8, 13, 14}) =
            {0, 1, 2, 7, 9, 10, 11, 14}
    BY <1>0, ShiftByteBits DEF Fold, Odd, Register
  <2>3. f[3] = {1, 4, 5, 8, 13, 14} /\ f[4] = FuncByte(f[3], {})
    BY <1>2
  <2> QED BY <2>1, <2>2, <2>3, ZenonT(40) DEF FuncByte
<1>4. f[5] = {5, 8, 9, 15}
  <2>1. Xor({0, 1, 2, 7, 9, 10, 11, 14}, Up({2, 3, 5, 6}, 8)) =
            {0, 1, 2, 7, 9, 13}
    BY DEF Xor, Up
  <2>2. ShiftByte({0, 1, 2, 7, 9, 13}) =
            {5, 8, 9, 15}
    BY <1>0, ShiftByteBits DEF Fold, Odd, Register
  <2>3. f[4] = {0, 1, 2, 7, 9, 10, 11, 14} /\ f[5] = FuncByte(f[4], {2, 3, 5, 6})
    BY <1>3
  <2> QED BY <2>1, <2>2, <2>3, ZenonT(40) DEF FuncByte
<1>5. f[6] = {0, 1, 3, 5, 6, 7, 8, 15}
  <2>1. Xor({5, 8, 9, 15}, Up({}, 8)) =
            {5, 8, 9, 15}
    BY DEF Xor, Up
  <2>2. ShiftByte({5, 8, 9, 15}) =
            {0, 1, 3, 5, 6, 7, 8, 15}
    BY <1>0, ShiftByteBits DEF Fold, Odd, Register
  <2>3. f[5] = {5, 8, 9, 15} /\ f[6] = FuncByte(f[5], {})
    BY <1>4
  <2> QED BY <2>1, <2>2, <2>3, ZenonT(40) DEF FuncByte
<1>6. f[7] = {0, 3, 5, 7, 9, 11, 13, 14}
  <2>1. Xor({0, 1, 3, 5, 6, 7, 8, 15}, Up({}, 8)) =
            {0, 1, 3, 5, 6, 7, 8, 15}
    BY DEF Xor, Up
  <2>2. ShiftByte({0, 1, 3, 5, 6, 7, 8, 15}) =
            {0, 3, 5, 7, 9, 11, 13, 14}
    BY <1>0, ShiftByteBits DEF Fold, Odd, Register
  <2>3. f[6] = {0, 1, 3, 5, 6, 7, 8, 15} /\ f[7] = FuncByte(f[6], {})
    BY <1>5
  <2> QED BY <2>1, <2>2, <2>3, ZenonT(40) DEF FuncByte
<1>7. f[8] = {2, 3, 5, 6, 7, 10, 13, 14}
  <2>1. Xor({0, 3, 5, 7, 9, 11, 13, 14}, Up({}, 8)) =
            {0, 3, 5, 7, 9, 11, 13, 14}
    BY DEF Xor, Up
  <2>2. ShiftByte({0, 3, 5, 7, 9, 11, 13, 14}) =
            {2, 3, 5, 6, 7, 10, 13, 14}
    BY <1>0, ShiftByteBits DEF Fold, Odd, Register
  <2>3. f[7] = {0, 3, 5, 7, 9, 11, 13, 14} /\ f[8] = FuncByte(f[7], {})
    BY <1>6
  <2> QED BY <2>1, <2>2, <2>3, ZenonT(40) DEF FuncByte
<1>8. f[9] = {1, 5, 14, 15}
  <2>1. Xor({2, 3, 5, 6, 7, 10, 13, 14}, Up({}, 8)) =
            {2, 3, 5, 6, 7, 10, 13, 14}
    BY DEF Xor, Up
  <2>2. ShiftByte({2, 3, 5, 6, 7, 10, 13, 14}) =
            {1, 5, 14, 15}
    BY <1>0, ShiftByteBits DEF Fold, Odd, Register
  <2>3. f[8] = {2, 3, 5, 6, 7, 10, 13, 14} /\ f[9] = FuncByte(f[8], {})
    BY <1>7
  <2> QED BY <2>1, <2>2, <2>3, ZenonT(40) DEF FuncByte
<1>9. f[10] = {2, 3, 6, 8, 9, 11, 12, 13, 14, 15}
  <2>1. Xor({1, 5, 14, 15}, Up({}, 8)) =
            {1, 5, 14, 15}
    BY DEF Xor, Up
  <2>2. ShiftByte({1, 5, 14, 15}) =
            {2, 3, 6, 8, 9, 11, 12, 13, 14, 15}
    BY <1>0, ShiftByteBits DEF Fold, Odd, Register
  <2>3. f[9] = {1, 5, 14, 15} /\ f[10] = FuncByte(f[9], {})
    BY <1>8
  <2> QED BY <2>1, <2>2, <2>3, ZenonT(40) DEF FuncByte
<1>10. f[11] = {2, 4, 5, 6, 9, 12}
  <2>1. Xor({2, 3, 6, 8, 9, 11, 12, 13, 14, 15}, Up({}, 8)) =
            {2, 3, 6, 8, 9, 11, 12, 13, 14, 15}
    BY DEF Xor, Up
  <2>2. ShiftByte({2, 3, 6, 8, 9, 11, 12, 13, 14, 15}) =
            {2, 4, 5, 6, 9, 12}
    BY <1>0, ShiftByteBits DEF Fold, Odd, Register
  <2>3. f[10] = {2, 3, 6, 8, 9, 11, 12, 13, 14, 15} /\ f[11] = FuncByte(f[10], {})
    BY <1>9
  <2> QED BY <2>1, <2>2, <2>3, ZenonT(40) DEF FuncByte
<1>11. f[12] = {0, 1, 2, 4, 5, 6, 7, 9, 10}
  <2>1. Xor({2, 4, 5, 6, 9, 12}, Up({2}, 8)) =
            {2, 4, 5, 6, 9, 10, 12}
    BY DEF Xor, Up
  <2>2. ShiftByte({2, 4, 5, 6, 9, 10, 12}) =
            {0, 1, 2, 4, 5, 6, 7, 9, 10}
    BY <1>0, ShiftByteBits DEF Fold, Odd, Register
  <2>3. f[11] = {2, 4, 5, 6, 9, 12} /\ f[12] = FuncByte(f[11], {2})
    BY <1>10
  <2> QED BY <2>1, <2>2, <2>3, ZenonT(40) DEF FuncByte
<1>12. f[13] = {1, 2, 6, 7, 8, 9, 10, 12, 15}
  <2>1. Xor({0, 1, 2, 4, 5, 6, 7, 9, 10}, Up({}, 8)) =
            {0, 1, 2, 4, 5, 6, 7, 9, 10}
    BY DEF Xor, Up
  <2>2. ShiftByte({0, 1, 2, 4, 5, 6, 7, 9, 10}) =
            {1, 2, 6, 7, 8, 9, 10, 12, 15}
    BY <1>0, ShiftByteBits DEF Fold, Odd, Register
  <2>3. f[12] = {0, 1, 2, 4, 5, 6, 7, 9, 10} /\ f[13] = FuncByte(f[12], {})
    BY <1>11
  <2> QED BY <2>1, <2>2, <2>3, ZenonT(40) DEF FuncByte
<1>13. f[14] = {1, 2, 3, 4, 6, 8, 10, 12, 13}
  <2>1. Xor({1, 2, 6, 7, 8, 9, 10, 12, 15}, Up({}, 8)) =
            {1, 2, 6, 7, 8, 9, 10, 12, 15}
    BY DEF Xor, Up
  <2>2. ShiftByte({1, 2, 6, 7, 8, 9, 10, 12, 15}) =
            {1, 2, 3, 4, 6, 8, 10, 12, 13}
    BY <1>0, ShiftByteBits DEF Fold, Odd, Register
  <2>3. f[13] = {1, 2, 6, 7, 8, 9, 10, 12, 15} /\ f[14] = FuncByte(f[13], {})
    BY <1>12
  <2> QED BY <2>1, <2>2, <2>3, ZenonT(40) DEF FuncByte
<1>14. f[15] = {1, 2, 4, 5, 6, 7, 11, 12, 13}
  <2>1. Xor({1, 2, 3, 4, 6, 8, 10, 12, 13}, Up({}, 8)) =
            {1, 2, 3, 4, 6, 8, 10, 12, 13}
    BY DEF Xor, Up
  <2>2. ShiftByte({1, 2, 3, 4, 6, 8, 10, 12, 13}) =
            {1, 2, 4, 5, 6, 7, 11, 12, 13}
    BY <1>0, ShiftByteBits DEF Fold, Odd, Register
  <2>3. f[14] = {1, 2, 3, 4, 6, 8, 10, 12, 13} /\ f[15] = FuncByte(f[14], {})
    BY <1>13
  <2> QED BY <2>1, <2>2, <2>3, ZenonT(40) DEF FuncByte
<1> QED BY <1>14

LEMMA BitsOf ==
    ASSUME NEW n
    PROVE  /\ Bits(n) \subseteq 0 .. 15
           /\ 0 \in Bits(n) <=> (n \div 2^0) % 2 = 1
           /\ 1 \in Bits(n) <=> (n \div 2^1) % 2 = 1
           /\ 2 \in Bits(n) <=> (n \div 2^2) % 2 = 1
           /\ 3 \in Bits(n) <=> (n \div 2^3) % 2 = 1
           /\ 4 \in Bits(n) <=> (n \div 2^4) % 2 = 1
           /\ 5 \in Bits(n) <=> (n \div 2^5) % 2 = 1
           /\ 6 \in Bits(n) <=> (n \div 2^6) % 2 = 1
           /\ 7 \in Bits(n) <=> (n \div 2^7) % 2 = 1
           /\ 8 \in Bits(n) <=> (n \div 2^8) % 2 = 1
           /\ 9 \in Bits(n) <=> (n \div 2^9) % 2 = 1
           /\ 10 \in Bits(n) <=> (n \div 2^10) % 2 = 1
           /\ 11 \in Bits(n) <=> (n \div 2^11) % 2 = 1
           /\ 12 \in Bits(n) <=> (n \div 2^12) % 2 = 1
           /\ 13 \in Bits(n) <=> (n \div 2^13) % 2 = 1
           /\ 14 \in Bits(n) <=> (n \div 2^14) % 2 = 1
           /\ 15 \in Bits(n) <=> (n \div 2^15) % 2 = 1
BY DEF Bits

\* The numbers that the documented string and its CRC are made of.
LEMMA DocumentedBits ==
    /\ Bits(165) = {0, 2, 5, 7}
    /\ Bits(144) = {4, 7}
    /\ Bits(0) = {}
    /\ Bits(108) = {2, 3, 5, 6}
    /\ Bits(4) = {2}
    /\ Bits(14582) = {1, 2, 4, 5, 6, 7, 11, 12, 13}
<1>1. Bits(165) = {0, 2, 5, 7}
  <2>1. /\ (165 \div 2^0) % 2 = 1 /\ (165 \div 2^1) % 2 = 0
        /\ (165 \div 2^2) % 2 = 1 /\ (165 \div 2^3) % 2 = 0
        /\ (165 \div 2^4) % 2 = 0 /\ (165 \div 2^5) % 2 = 1
        /\ (165 \div 2^6) % 2 = 0 /\ (165 \div 2^7) % 2 = 1
        /\ (165 \div 2^8) % 2 = 0 /\ (165 \div 2^9) % 2 = 0
        /\ (165 \div 2^10) % 2 = 0 /\ (165 \div 2^11) % 2 = 0
        /\ (165 \div 2^12) % 2 = 0 /\ (165 \div 2^13) % 2 = 0
        /\ (165 \div 2^14) % 2 = 0 /\ (165 \div 2^15) % 2 = 0
    OBVIOUS
  <2> QED BY <2>1, BitsOf
<1>2. Bits(144) = {4, 7}
  <2>1. /\ (144 \div 2^0) % 2 = 0 /\ (144 \div 2^1) % 2 = 0
        /\ (144 \div 2^2) % 2 = 0 /\ (144 \div 2^3) % 2 = 0
        /\ (144 \div 2^4) % 2 = 1 /\ (144 \div 2^5) % 2 = 0
        /\ (144 \div 2^6) % 2 = 0 /\ (144 \div 2^7) % 2 = 1
        /\ (144 \div 2^8) % 2 = 0 /\ (144 \div 2^9) % 2 = 0
        /\ (144 \div 2^10) % 2 = 0 /\ (144 \div 2^11) % 2 = 0
        /\ (144 \div 2^12) % 2 = 0 /\ (144 \div 2^13) % 2 = 0
        /\ (144 \div 2^14) % 2 = 0 /\ (144 \div 2^15) % 2 = 0
    OBVIOUS
  <2> QED BY <2>1, BitsOf
<1>3. Bits(0) = {}
  <2>1. /\ (0 \div 2^0) % 2 = 0 /\ (0 \div 2^1) % 2 = 0
        /\ (0 \div 2^2) % 2 = 0 /\ (0 \div 2^3) % 2 = 0
        /\ (0 \div 2^4) % 2 = 0 /\ (0 \div 2^5) % 2 = 0
        /\ (0 \div 2^6) % 2 = 0 /\ (0 \div 2^7) % 2 = 0
        /\ (0 \div 2^8) % 2 = 0 /\ (0 \div 2^9) % 2 = 0
        /\ (0 \div 2^10) % 2 = 0 /\ (0 \div 2^11) % 2 = 0
        /\ (0 \div 2^12) % 2 = 0 /\ (0 \div 2^13) % 2 = 0
        /\ (0 \div 2^14) % 2 = 0 /\ (0 \div 2^15) % 2 = 0
    OBVIOUS
  <2> QED BY <2>1, BitsOf
<1>4. Bits(108) = {2, 3, 5, 6}
  <2>1. /\ (108 \div 2^0) % 2 = 0 /\ (108 \div 2^1) % 2 = 0
        /\ (108 \div 2^2) % 2 = 1 /\ (108 \div 2^3) % 2 = 1
        /\ (108 \div 2^4) % 2 = 0 /\ (108 \div 2^5) % 2 = 1
        /\ (108 \div 2^6) % 2 = 1 /\ (108 \div 2^7) % 2 = 0
        /\ (108 \div 2^8) % 2 = 0 /\ (108 \div 2^9) % 2 = 0
        /\ (108 \div 2^10) % 2 = 0 /\ (108 \div 2^11) % 2 = 0
        /\ (108 \div 2^12) % 2 = 0 /\ (108 \div 2^13) % 2 = 0
        /\ (108 \div 2^14) % 2 = 0 /\ (108 \div 2^15) % 2 = 0
    OBVIOUS
  <2> QED BY <2>1, BitsOf
<1>5. Bits(4) = {2}
  <2>1. /\ (4 \div 2^0) % 2 = 0 /\ (4 \div 2^1) % 2 = 0
        /\ (4 \div 2^2) % 2 = 1 /\ (4 \div 2^3) % 2 = 0
        /\ (4 \div 2^4) % 2 = 0 /\ (4 \div 2^5) % 2 = 0
        /\ (4 \div 2^6) % 2 = 0 /\ (4 \div 2^7) % 2 = 0
        /\ (4 \div 2^8) % 2 = 0 /\ (4 \div 2^9) % 2 = 0
        /\ (4 \div 2^10) % 2 = 0 /\ (4 \div 2^11) % 2 = 0
        /\ (4 \div 2^12) % 2 = 0 /\ (4 \div 2^13) % 2 = 0
        /\ (4 \div 2^14) % 2 = 0 /\ (4 \div 2^15) % 2 = 0
    OBVIOUS
  <2> QED BY <2>1, BitsOf
<1>6. Bits(14582) = {1, 2, 4, 5, 6, 7, 11, 12, 13}
  <2>1. /\ (14582 \div 2^0) % 2 = 0 /\ (14582 \div 2^1) % 2 = 1
        /\ (14582 \div 2^2) % 2 = 1 /\ (14582 \div 2^3) % 2 = 0
        /\ (14582 \div 2^4) % 2 = 1 /\ (14582 \div 2^5) % 2 = 1
        /\ (14582 \div 2^6) % 2 = 1 /\ (14582 \div 2^7) % 2 = 1
        /\ (14582 \div 2^8) % 2 = 0 /\ (14582 \div 2^9) % 2 = 0
        /\ (14582 \div 2^10) % 2 = 0 /\ (14582 \div 2^11) % 2 = 1
        /\ (14582 \div 2^12) % 2 = 1 /\ (14582 \div 2^13) % 2 = 1
        /\ (14582 \div 2^14) % 2 = 0 /\ (14582 \div 2^15) % 2 = 0
    OBVIOUS
  <2> QED BY <2>1, BitsOf
<1> QED BY <1>1, <1>2, <1>3, <1>4, <1>5, <1>6

LEMMA DocumentedBytes ==
    HexToBytes(DocumentedHex) =
        <<{0, 2, 5, 7}, {4, 7}, {}, {2, 3, 5, 6}, {}, {}, {},
          {}, {}, {}, {2}, {}, {}, {}>>
<1> DEFINE s == DocumentedHex
<1>1. Len(s) = 28 /\ Bytewise(s) = 14
  BY DEF DocumentedHex, Bytewise
<1>2. /\ Pair(s, 1) = 165 /\ Pair(s, 2) = 144 /\ Pair(s, 4) = 108 /\ Pair(s, 11) = 4
      /\ \A i \in {3, 5, 6, 7, 8, 9, 10, 12, 13, 14} : Pair(s, i) = 0
  BY DEF Pair, First, Second, Digit, Blank, Minus, DocumentedHex
<1>3. HexToBytes(s) = [i \in 1 .. 14 |-> Low(Bits(Pair(s, i)))]
  BY <1>1 DEF HexToBytes
<1>4. /\ Low(Bits(165)) = {0, 2, 5, 7} /\ Low(Bits(144)) = {4, 7}
      /\ Low(Bits(108)) = {2, 3, 5, 6} /\ Low(Bits(4)) = {2} /\ Low(Bits(0)) = {}
  BY DocumentedBits DEF Low
<1> DEFINE b == <<{0, 2, 5, 7}, {4, 7}, {}, {2, 3, 5, 6}, {}, {}, {},
                  {}, {}, {}, {2}, {}, {}, {}>>
<1>5. ASSUME NEW i \in 1 .. 14 PROVE HexToBytes(s)[i] = b[i]
  <2>1. HexToBytes(s)[i] = Low(Bits(Pair(s, i)))
    BY <1>3
  <2>3. CASE i \in {1, 2}
    BY <1>2, <1>4, <2>1, <2>3
  <2>4. CASE i \in {4, 11}
    BY <1>2, <1>4, <2>1, <2>4
  <2>2. CASE i \in {3, 5, 6, 7, 8, 9, 10, 12, 13, 14}
    <3>1. HexToBytes(s)[i] = {}
      BY <1>2, <1>4, <2>1, <2>2
    <3>2. b[i] = {}
      BY <2>2
    <3> QED BY <3>1, <3>2
  <2> QED BY <2>2, <2>3, <2>4
<1>6. b = [i \in 1 .. 14 |-> b[i]]
  OBVIOUS
<1> HIDE DEF s, b
<1>7. HexToBytes(s) = b
  BY <1>3, <1>5, <1>6
<1> QED BY <1>7 DEF s, b

-----------------------------------------------------------------------------
(* The inductive invariant: the first trail is made of steps of the bitwise *)
(* mode, and the second one follows it.                                     *)

FuncTrail ==
    /\ func \in Seq(Register) /\ Len(func) \in 1 .. Len(bytes) + 1
    /\ func[1] = {}
    /\ \A k \in 1 .. Len(func) - 1 : func[k + 1] = FuncByte(func[k], bytes[k])

TableTrail ==
    /\ table \in Seq(Register) /\ Len(table) \in 1 .. Len(func)
    /\ \A k \in 1 .. Len(table) : table[k] = func[k]

Trails ==
    /\ hex \in Hexes
    /\ bytes \in Seq(Byte)
    /\ mode \in {"hexToBytes", "func", "open", "table", "done", "caught"}
    /\ mode = "hexToBytes" => bytes = << >>
    /\ mode \in {"func", "open", "table", "done"} => bytes = HexToBytes(hex)
    /\ mode \in {"open", "table", "done"} => Len(func) = Len(bytes) + 1
    /\ mode = "done" => Len(table) = Len(func)
    /\ FuncTrail /\ TableTrail

LEMMA InitTrails ==
    ASSUME Init
    PROVE  Trails
<1>1. <<{}>> \in Seq(Register) /\ Len(<<{}>>) = 1
  BY DEF Register
<1> QED BY <1>1 DEF Init, Trails, FuncTrail, TableTrail

LEMMA ParseTrails ==
    ASSUME Trails, Parse
    PROVE  Trails'
<1>1. bytes = << >> /\ Len(func) = 1
  <2>1. bytes = << >> /\ Len(func) \in 1 .. Len(bytes) + 1
    BY DEF Trails, Parse, FuncTrail
  <2>2. Len(bytes) = 0
    BY <2>1
  <2> QED BY <2>1, <2>2
<1>2. bytes' \in Seq(Byte)
  <2>1. hex \in Seq(Character)
    BY HexesAssumption DEF Trails
  <2>2. Bytewise(hex) \in Nat
    BY <2>1 DEF Bytewise
  <2>3. HexToBytes(hex) \in Seq(Byte)
    BY <2>2, Widths DEF HexToBytes
  <2> QED BY <2>3 DEF Parse, Trails
<1>3. FuncTrail' /\ TableTrail'
  BY <1>1, <1>2 DEF Trails, Parse, FuncTrail, TableTrail
<1> QED BY <1>2, <1>3 DEF Trails, Parse

LEMMA FuncStepTrails ==
    ASSUME Trails, FuncStep
    PROVE  Trails'
<1> DEFINE n == Len(func)
           r == FuncByte(func[n], bytes[n])
<1>1. /\ func \in Seq(Register) /\ bytes \in Seq(Byte) /\ table \in Seq(Register)
      /\ n \in 1 .. Len(bytes) + 1 /\ Len(table) \in 1 .. n
      /\ Len(bytes) \in Nat
  BY DEF Trails, FuncTrail, TableTrail
<1>2. CASE n <= Len(bytes)
  <2>1. func[n] \in Register /\ bytes[n] \in Byte
    BY <1>1, <1>2
  <2>2. r \in Register
    BY <2>1, StepsAgree
  <2>3. /\ func' = Append(func, r)
        /\ UNCHANGED <<hex, bytes, table, mode>> /\ mode = "func"
    BY <1>2 DEF FuncStep
  <2> HIDE DEF r
  <2>4. /\ func' \in Seq(Register) /\ Len(func') = n + 1 /\ func'[n + 1] = r
        /\ \A k \in 1 .. n : func'[k] = func[k]
    <3>1. func \in Seq(Register) /\ func' = Append(func, r)
      BY <1>1, <2>3
    <3> QED BY <2>2, <3>1
  <2>5. ASSUME NEW k \in 1 .. n PROVE func'[k + 1] = FuncByte(func'[k], bytes[k])
    <3>1. CASE k = n
      BY <1>1, <2>4, <3>1 DEF r
    <3>2. CASE k # n
      <4>1. k \in 1 .. n - 1 /\ k + 1 \in 1 .. n
        BY <1>1, <3>2
      <4>2. func'[k + 1] = func[k + 1] /\ func'[k] = func[k]
        BY <2>4, <4>1
      <4>3. func[k + 1] = FuncByte(func[k], bytes[k])
        BY <4>1 DEF Trails, FuncTrail
      <4> QED BY <4>2, <4>3
    <3> QED BY <3>1, <3>2
  <2>6. func'[1] = {}
    BY <1>1, <2>4 DEF Trails, FuncTrail
  <2>7. bytes' = bytes /\ Len(func') - 1 = n /\ n + 1 \in 1 .. Len(bytes) + 1
    BY <1>1, <1>2, <2>3, <2>4
  <2>8. \A k \in 1 .. Len(func') - 1 : func'[k + 1] = FuncByte(func'[k], bytes'[k])
    BY <2>5, <2>7
  <2>9. FuncTrail'
    BY <2>4, <2>6, <2>7, <2>8 DEF FuncTrail
  <2>10. TableTrail'
    BY <1>1, <2>3, <2>4 DEF Trails, TableTrail
  <2> QED BY <2>3, <2>9, <2>10 DEF Trails
<1>3. CASE ~(n <= Len(bytes))
  <2>1. n = Len(bytes) + 1
    BY <1>1, <1>3
  <2>2. mode' = "open" /\ UNCHANGED <<hex, bytes, func, table>> /\ mode = "func"
    BY <1>3 DEF FuncStep
  <2>3. FuncTrail' /\ TableTrail'
    BY <2>2 DEF Trails, FuncTrail, TableTrail
  <2>4. bytes' = HexToBytes(hex')
    BY <2>2 DEF Trails
  <2> QED BY <2>1, <2>2, <2>3, <2>4 DEF Trails
<1> QED BY <1>2, <1>3

LEMMA TableStepTrails ==
    ASSUME Trails, TableStep
    PROVE  Trails'
<1> DEFINE n == Len(table)
           r == TableByte(table[n], bytes[n])
<1>1. /\ func \in Seq(Register) /\ bytes \in Seq(Byte) /\ table \in Seq(Register)
      /\ Len(func) = Len(bytes) + 1 /\ n \in 1 .. Len(func)
      /\ Len(bytes) \in Nat
  BY DEF Trails, FuncTrail, TableTrail, TableStep
<1>2. CASE n <= Len(bytes)
  <2>1. table[n] \in Register /\ bytes[n] \in Byte /\ table[n] = func[n]
    BY <1>1, <1>2 DEF Trails, TableTrail
  <2>2. r \in Register /\ r = FuncByte(func[n], bytes[n])
    BY <2>1, StepsAgree
  <2>3. r = func[n + 1]
    BY <1>1, <1>2, <2>2 DEF Trails, FuncTrail
  <2>4. /\ table' = Append(table, r)
        /\ UNCHANGED <<hex, bytes, func, mode>> /\ mode = "table"
    BY <1>2 DEF TableStep
  <2> HIDE DEF r
  <2>5. /\ table' \in Seq(Register) /\ Len(table') = n + 1 /\ table'[n + 1] = r
        /\ \A k \in 1 .. n : table'[k] = table[k]
    BY <1>1, <2>2, <2>4
  <2>6. ASSUME NEW k \in 1 .. n + 1 PROVE table'[k] = func[k]
    <3>1. CASE k = n + 1
      BY <2>3, <2>5, <3>1
    <3>2. CASE k # n + 1
      <4>1. k \in 1 .. n
        BY <1>1, <3>2
      <4> QED BY <2>5, <4>1 DEF Trails, TableTrail
    <3> QED BY <3>1, <3>2
  <2>7. TableTrail'
    BY <1>1, <1>2, <2>4, <2>5, <2>6 DEF TableTrail
  <2>8. FuncTrail'
    BY <2>4 DEF Trails, FuncTrail
  <2> QED BY <2>4, <2>7, <2>8 DEF Trails
<1>3. CASE ~(n <= Len(bytes))
  <2>1. mode' = "done" /\ UNCHANGED <<hex, bytes, func, table>> /\ mode = "table"
    BY <1>3 DEF TableStep
  <2>2. Len(table) = Len(func)
    BY <1>1, <1>3
  <2> QED BY <2>1, <2>2 DEF Trails, FuncTrail, TableTrail
<1> QED BY <1>2, <1>3

\* At every step of testCrc the two trails are what Trails says (crc.cpp:10-90).
THEOREM CrcTrails == Spec => []Trails
<1>1. Init => Trails
  BY InitTrails
<1>2. Trails /\ [Next]_vars => Trails'
  <2> SUFFICES ASSUME Trails, [Next]_vars
               PROVE  Trails'
    OBVIOUS
  <2>1. CASE Parse
    BY <2>1, ParseTrails
  <2>2. CASE FuncStep
    BY <2>2, FuncStepTrails
  <2>3. CASE OpenTable
    BY <2>3 DEF OpenTable, Trails, FuncTrail, TableTrail
  <2>4. CASE TableStep
    BY <2>4, TableStepTrails
  <2>5. CASE UNCHANGED vars
    BY <2>5 DEF vars, Trails, FuncTrail, TableTrail
  <2> QED BY <2>1, <2>2, <2>3, <2>4, <2>5 DEF Next
<1> QED BY <1>1, <1>2, PTL DEF Spec

\* The registers stay within sixteen bits and the loops within the bytes
\* (crc.cpp:21-29 and 59-64).
THEOREM CrcTypeOK == Spec => []TypeOK
<1>1. Trails => TypeOK
  BY HexesAssumption DEF Trails, FuncTrail, TableTrail, TypeOK
<1> QED BY <1>1, CrcTrails, PTL

\* The table mode computes what the bitwise mode does, of any message
\* (crc.cpp:18-33 and 38-67), given the 256 rows of crc.dat.
THEOREM SameCrc == Spec => []ModesAgree
<1>1. Trails => ModesAgree
  BY DEF Trails, TableTrail, ModesAgree
<1> QED BY <1>1, CrcTrails, PTL

\* Whatever the message, the only two bytes that bring the register to 0 are its
\* CRC (crc.py:17-19).
THEOREM OwnCrcClears == Spec => []OwnCrcOnly
<1>1. Trails => OwnCrcOnly
  <2> SUFFICES ASSUME Trails, NEW k \in 1 .. Len(func) - 2
               PROVE  func[k + 2] = {} <=>
                          bytes[k] = Down(func[k]) /\ bytes[k + 1] = Low(func[k])
    BY DEF OwnCrcOnly
  <2>1. /\ func \in Seq(Register) /\ bytes \in Seq(Byte)
        /\ Len(func) \in 1 .. Len(bytes) + 1 /\ Len(bytes) \in Nat
    BY DEF Trails, FuncTrail
  <2>2. /\ k \in 1 .. Len(func) - 1 /\ k + 1 \in 1 .. Len(func) - 1 /\ (k + 1) + 1 = k + 2
        /\ k \in 1 .. Len(bytes) /\ k + 1 \in 1 .. Len(bytes) /\ k \in 1 .. Len(func)
    BY <2>1
  <2>3. func[k] \in Register /\ bytes[k] \in Byte /\ bytes[k + 1] \in Byte
    BY <2>1, <2>2
  <2>4. func[k + 1] = FuncByte(func[k], bytes[k])
        /\ func[(k + 1) + 1] = FuncByte(func[k + 1], bytes[k + 1])
    BY <2>2 DEF Trails, FuncTrail
  <2> QED BY <2>2, <2>3, <2>4, OnlyHalvesClear
<1> QED BY <1>1, CrcTrails, PTL

\* The string of main.cpp:12 has the CRC that line 11 gives, in both modes.
THEOREM DocumentedCrcHolds == Spec => []DocumentedCrc
<1>1. Trails => DocumentedCrc
  <2> SUFFICES ASSUME Trails, hex = DocumentedHex, mode = "done"
               PROVE  {func[Len(func)], table[Len(table)]} = {Bits(\h38f6)}
    BY DEF DocumentedCrc
  <2> DEFINE b == <<{0, 2, 5, 7}, {4, 7}, {}, {2, 3, 5, 6}, {}, {}, {},
                    {}, {}, {}, {2}, {}, {}, {}>>
  <2>1. bytes = b /\ Len(bytes) = 14
    BY DocumentedBytes DEF Trails
  <2> HIDE DEF b
  <2>2. Len(func) = 15 /\ Len(table) = 15 /\ table[15] = func[15]
    <3>1. Len(func) = Len(bytes) + 1 /\ Len(table) = Len(func)
      BY DEF Trails
    <3>2. Len(func) = 15 /\ Len(table) = 15
      BY <2>1, <3>1
    <3>3. 15 \in 1 .. Len(table)
      BY <3>2
    <3>4. TableTrail
      BY DEF Trails
    <3> QED BY <3>2, <3>3, <3>4 DEF TableTrail
  <2>3. func[1] = {} /\ \A k \in 1 .. 14 : func[k + 1] = FuncByte(func[k], b[k])
    BY <2>1, <2>2 DEF Trails, FuncTrail
  <2> USE DEF b
  <2>4. /\ func[2] = FuncByte(func[1], {0, 2, 5, 7})
        /\ func[3] = FuncByte(func[2], {4, 7})
        /\ func[4] = FuncByte(func[3], {})
        /\ func[5] = FuncByte(func[4], {2, 3, 5, 6})
        /\ func[6] = FuncByte(func[5], {})
        /\ func[7] = FuncByte(func[6], {})
        /\ func[8] = FuncByte(func[7], {})
        /\ func[9] = FuncByte(func[8], {})
        /\ func[10] = FuncByte(func[9], {})
        /\ func[11] = FuncByte(func[10], {})
        /\ func[12] = FuncByte(func[11], {2})
        /\ func[13] = FuncByte(func[12], {})
        /\ func[14] = FuncByte(func[13], {})
        /\ func[15] = FuncByte(func[14], {})
    BY <2>3
  <2>5. func[15] = {1, 2, 4, 5, 6, 7, 11, 12, 13}
    BY <2>3, <2>4, DocumentedFuncs, Zenon
  <2>6. func[15] = Bits(\h38f6)
    BY <2>5, DocumentedBits
  <2> QED BY <2>2, <2>6
<1> QED BY <1>1, CrcTrails, PTL
=============================================================================
