------------------------------- MODULE MCCrc -------------------------------
EXTENDS Crc

\* Two bytes; a byte with its own CRC behind it, and one more digit; strings
\* that are empty, odd or have characters in them that are no digits, blanks and
\* signs among them; the string of main.cpp:12, and the same with its CRC
\* (crc.py:17).
Nibble(n, k) == (n \div 16^k) % 16
WithCrc(i) == <<Nibble(i, 1), Nibble(i, 0)>> \o
              [k \in 1 .. 4 |-> Nibble(Rows[i + 1], 4 - k)]
MCHexes ==
    {<<a, b, c, d>> : a \in Digit, b \in Digit, c \in Digit, d \in {0, 1, 8, 15}}
    \cup {WithCrc(i) : i \in 0 .. 255}
    \cup {Append(WithCrc(i), 3) : i \in 0 .. 255}
    \cup {<< >>, <<7>>, <<3, 8, Blank>>}
    \cup {<<a, b, 1, 2>> : a \in Character, b \in Character}
    \cup {DocumentedHex, DocumentedHex \o <<3, 8, 15, 6>>}
=============================================================================
