-------------------------------- MODULE Crc --------------------------------
(***************************************************************************)
(* testCrc (crc.cpp): a string of hex digits becomes bytes, and CalcCrc    *)
(* computes their CRC twice, first bit by bit and then with the table it   *)
(* reads from crc.dat.                                                     *)
(*                                                                         *)
(* A word is the set of the positions of its bits that are 1, 0 being the  *)
(* least significant; a register that the code masks with 0xFFFF is a      *)
(* subset of 0 .. 15.                                                      *)
(***************************************************************************)
EXTENDS Integers, Sequences, FiniteSetsExt

CONSTANT Hexes      \* the strings

Digit == 0 .. 15
Blank == 16         \* white space or a plus sign
Minus == 17
Junk == 18          \* any other character
Character == Digit \cup {Blank, Minus, Junk}

ASSUME HexesAssumption == \A s \in Hexes : s \in Seq(Character)

Byte == SUBSET (0 .. 7)
Register == SUBSET (0 .. 15)

Bits(n) == {k \in 0 .. 15 : (n \div 2^k) % 2 = 1}
Xor(x, y) == (x \ y) \cup (y \ x)
Up(x, n) == {b \in 0 .. 15 : b - n \in x}
Down(x) == {b \in 0 .. 7 : b + 8 \in x}
Low(x) == {b \in 0 .. 7 : b \in x}

-----------------------------------------------------------------------------
\* hexToBytes takes characters in pairs, and the last one alone if it has no
\* partner.  stoi skips white space and takes one sign, reads the digits that
\* follow up to the first character that is none, and throws if there are none.
Bytewise(s) == (Len(s) + 1) \div 2
First(s, i) == s[2 * i - 1]
Second(s, i) == IF 2 * i <= Len(s) THEN s[2 * i] ELSE Junk
Refused(s) ==
    \E i \in 1 .. Bytewise(s) :
        /\ First(s, i) \notin Digit
        /\ First(s, i) = Junk \/ Second(s, i) \notin Digit
Pair(s, i) ==
    CASE First(s, i) = Blank -> Second(s, i)
      [] First(s, i) = Minus -> -Second(s, i)
      [] First(s, i) \in Digit /\ Second(s, i) \in Digit
            -> 16 * First(s, i) + Second(s, i)
      [] OTHER -> First(s, i)
HexToBytes(s) == [i \in 1 .. Bytewise(s) |-> Low(Bits(Pair(s, i)))]

-----------------------------------------------------------------------------
\* ModeCrc::func.
Poly == {0, 5, 12}
Shift(x) == IF 15 \in x THEN Xor(Up(x, 1), Poly) ELSE Up(x, 1)
ShiftTwice(x) == Shift(Shift(x))
ShiftByte(x) == ShiftTwice(ShiftTwice(ShiftTwice(ShiftTwice(x))))
AfterShifts(crc, byte) == Xor(ShiftByte(crc), Up(byte, 8))      \* mutant
FuncByte(crc, byte) == ShiftByte(Xor(crc, Up(byte, 8)))

\* ModeCrc::table: crc.dat, of whose numbers a uint16_t keeps the lower half.
Rows ==
<<
   \h00000000, \h00011021, \h00022042, \h00033063, \h00044084, \h000550a5, \h000660c6, \h000770e7,
   \h00088108, \h00099129, \h000aa14a, \h000bb16b, \h000cc18c, \h000dd1ad, \h000ee1ce, \h000ff1ef,
   \h00111231, \h00100210, \h00133273, \h00122252, \h001552b5, \h00144294, \h001772f7, \h001662d6,
   \h00199339, \h00188318, \h001bb37b, \h001aa35a, \h001dd3bd, \h001cc39c, \h001ff3ff, \h001ee3de,
   \h00222462, \h00233443, \h00200420, \h00211401, \h002664e6, \h002774c7, \h002444a4, \h00255485,
   \h002aa56a, \h002bb54b, \h00288528, \h00299509, \h002ee5ee, \h002ff5cf, \h002cc5ac, \h002dd58d,
   \h00333653, \h00322672, \h00311611, \h00300630, \h003776d7, \h003666f6, \h00355695, \h003446b4,
   \h003bb75b, \h003aa77a, \h00399719, \h00388738, \h003ff7df, \h003ee7fe, \h003dd79d, \h003cc7bc,
   \h004448c4, \h004558e5, \h00466886, \h004778a7, \h00400840, \h00411861, \h00422802, \h00433823,
   \h004cc9cc, \h004dd9ed, \h004ee98e, \h004ff9af, \h00488948, \h00499969, \h004aa90a, \h004bb92b,
   \h00555af5, \h00544ad4, \h00577ab7, \h00566a96, \h00511a71, \h00500a50, \h00533a33, \h00522a12,
   \h005ddbfd, \h005ccbdc, \h005ffbbf, \h005eeb9e, \h00599b79, \h00588b58, \h005bbb3b, \h005aab1a,
   \h00666ca6, \h00677c87, \h00644ce4, \h00655cc5, \h00622c22, \h00633c03, \h00600c60, \h00611c41,
   \h006eedae, \h006ffd8f, \h006ccdec, \h006dddcd, \h006aad2a, \h006bbd0b, \h00688d68, \h00699d49,
   \h00777e97, \h00766eb6, \h00755ed5, \h00744ef4, \h00733e13, \h00722e32, \h00711e51, \h00700e70,
   \h007fff9f, \h007eefbe, \h007ddfdd, \h007ccffc, \h007bbf1b, \h007aaf3a, \h00799f59, \h00788f78,
   \h00889188, \h008981a9, \h008ab1ca, \h008ba1eb, \h008cd10c, \h008dc12d, \h008ef14e, \h008fe16f,
   \h00801080, \h008100a1, \h008230c2, \h008320e3, \h00845004, \h00854025, \h00867046, \h00876067,
   \h009983b9, \h00989398, \h009ba3fb, \h009ab3da, \h009dc33d, \h009cd31c, \h009fe37f, \h009ef35e,
   \h009102b1, \h00901290, \h009322f3, \h009232d2, \h00954235, \h00945214, \h00976277, \h00967256,
   \h00aab5ea, \h00aba5cb, \h00a895a8, \h00a98589, \h00aef56e, \h00afe54f, \h00acd52c, \h00adc50d,
   \h00a234e2, \h00a324c3, \h00a014a0, \h00a10481, \h00a67466, \h00a76447, \h00a45424, \h00a54405,
   \h00bba7db, \h00bab7fa, \h00b98799, \h00b897b8, \h00bfe75f, \h00bef77e, \h00bdc71d, \h00bcd73c,
   \h00b326d3, \h00b236f2, \h00b10691, \h00b016b0, \h00b76657, \h00b67676, \h00b54615, \h00b45634,
   \h00ccd94c, \h00cdc96d, \h00cef90e, \h00cfe92f, \h00c899c8, \h00c989e9, \h00cab98a, \h00cba9ab,
   \h00c45844, \h00c54865, \h00c67806, \h00c76827, \h00c018c0, \h00c108e1, \h00c23882, \h00c328a3,
   \h00ddcb7d, \h00dcdb5c, \h00dfeb3f, \h00defb1e, \h00d98bf9, \h00d89bd8, \h00dbabbb, \h00dabb9a,
   \h00d54a75, \h00d45a54, \h00d76a37, \h00d67a16, \h00d10af1, \h00d01ad0, \h00d32ab3, \h00d23a92,
   \h00eefd2e, \h00efed0f, \h00ecdd6c, \h00edcd4d, \h00eabdaa, \h00ebad8b, \h00e89de8, \h00e98dc9,
   \h00e67c26, \h00e76c07, \h00e45c64, \h00e54c45, \h00e23ca2, \h00e32c83, \h00e01ce0, \h00e10cc1,
   \h00ffef1f, \h00feff3e, \h00fdcf5d, \h00fcdf7c, \h00fbaf9b, \h00fabfba, \h00f98fd9, \h00f89ff8,
   \h00f76e17, \h00f67e36, \h00f54e55, \h00f45e74, \h00f32e93, \h00f23eb2, \h00f10ed1, \h00f01ef0
>>
Tbl == [x \in Byte |-> Bits(Rows[MapThenSumSet(LAMBDA b : 2^b, x) + 1])]
LowIndex(crc, byte) == Xor(Low(crc), byte)                      \* mutant
Index(crc, byte) == Xor(Down(crc), byte)
TableByte(crc, byte) == Xor(Up(crc, 8), Tbl[Index(crc, byte)])

\* crc.dat is what the bitwise computation makes of single bytes.
ASSUME TableOfPolynomial == \A x \in Byte : Tbl[x] = ShiftByte(Up(x, 8))

-----------------------------------------------------------------------------
VARIABLES
    hex,            \* strHexBytes
    bytes,          \* what hexToBytes makes of it
    mode,           \* where testCrc is
    func, table     \* the values of crc in the two modes, one after the other

vars == <<hex, bytes, mode, func, table>>

Init ==
    /\ hex \in Hexes
    /\ bytes = << >>
    /\ mode = "hexToBytes"
    /\ func = <<{}>> /\ table = <<{}>>

Parse ==
    /\ mode = "hexToBytes"
    /\ IF Refused(hex) THEN mode' = "caught" /\ UNCHANGED bytes
                       ELSE mode' = "func" /\ bytes' = HexToBytes(hex)
    /\ UNCHANGED <<hex, func, table>>

FuncStep ==
    /\ mode = "func"
    /\ IF Len(func) <= Len(bytes)
       THEN /\ func' = Append(func, FuncByte(func[Len(func)], bytes[Len(func)]))
            /\ UNCHANGED mode
       ELSE mode' = "open" /\ UNCHANGED func
    /\ UNCHANGED <<hex, bytes, table>>

\* The file may not be where the program was started.
OpenTable ==
    /\ mode = "open"
    /\ mode' \in {"table", "caught"}
    /\ UNCHANGED <<hex, bytes, func, table>>

TableStep ==
    /\ mode = "table"
    /\ IF Len(table) <= Len(bytes)
       THEN /\ table' = Append(table, TableByte(table[Len(table)], bytes[Len(table)]))
            /\ UNCHANGED mode
       ELSE mode' = "done" /\ UNCHANGED table
    /\ UNCHANGED <<hex, bytes, func>>

Next == Parse \/ FuncStep \/ OpenTable \/ TableStep

Spec == Init /\ [][Next]_vars

-----------------------------------------------------------------------------
(* Properties *)

TypeOK ==
    /\ hex \in Seq(Character)
    /\ bytes \in Seq(Byte)
    /\ mode \in {"hexToBytes", "func", "open", "table", "done", "caught"}
    /\ func \in Seq(Register) /\ Len(func) \in 1 .. Len(bytes) + 1
    /\ table \in Seq(Register) /\ Len(table) \in 1 .. Len(func)

\* The two modes compute the same CRC, of the bytes and of each of their
\* prefixes (testCrc prints both, crc.cpp:85-86).
ModesAgree == \A k \in 1 .. Len(table) : table[k] = func[k]

\* Two bytes bring the register to 0 exactly if they are the CRC of what came
\* before: what crc.py:17-19 tries for one message, and what a receiver of data
\* with their CRC behind them would rely on.
OwnCrcOnly ==
    \A k \in 1 .. Len(func) - 2 :
        func[k + 2] = {} <=> bytes[k] = Down(func[k]) /\ bytes[k + 1] = Low(func[k])

\* The CRC of the string in main.cpp:12 is the 38f6 of line 11.
DocumentedHex == <<10, 5, 9, 0, 0, 0, 6, 12, 0, 0, 0, 0, 0, 0,
                   0, 0, 0, 0, 0, 0, 0, 4, 0, 0, 0, 0, 0, 0>>
DocumentedCrc ==
    hex = DocumentedHex /\ mode = "done" =>
        {func[Len(func)], table[Len(table)]} = {Bits(\h38f6)}
=============================================================================
