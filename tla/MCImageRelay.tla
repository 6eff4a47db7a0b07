---------------------------- MODULE MCImageRelay ----------------------------
(* Instances of ImageRelay for TLC: packets of 3 bytes, of which a receive  *)
(* keeps 2.                                                                *)
EXTENDS ImageRelay, TLC

CONSTANTS a, b      \* the clients

\* Like the display the code is written for: a last packet that is shorter
\* than what is copied of it.
CodeSize == [c \in Clients |-> 4]

\* A display of two packets with a short last one, and one of more packets than
\* their numbers can tell apart.
OddSize == (a :> 4) @@ (b :> 11)

\* Not everybody sends as often as he may.
FewPics == \E c \in Clients : pics[c] < MaxPics

\* Equal displays make the clients interchangeable.
ClientSymmetry == Permutations(Clients)
=============================================================================
