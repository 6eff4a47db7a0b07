--------------------------- MODULE MessageChannel ---------------------------
(***************************************************************************)
(* What a connection promises to the one who sends on it, without bytes,   *)
(* buffers or writes: messages arrive whole, in order and none left out,   *)
(* up to the first one that the channel broke on.  From then on anything   *)
(* may arrive, or nothing.  Messages are known by their numbers.           *)
(***************************************************************************)
EXTENDS Naturals, Sequences

CONSTANT Garbled    \* what is no message

VARIABLES
    sent,           \* messages sent
    delivered,      \* what arrived, in order
    broken          \* the first message that is not promised, or 0

vars == <<sent, delivered, broken>>

Promised(m) == m <= sent /\ (broken = 0 \/ m < broken)

Init == sent = 0 /\ delivered = << >> /\ broken = 0

Send ==
    /\ sent' = sent + 1
    /\ broken' \in {broken, IF broken = 0 THEN sent' ELSE broken}
    /\ UNCHANGED delivered

Deliver ==
    LET next == Len(delivered) + 1 IN
    /\ Promised(next)
    /\ delivered' = Append(delivered, next)
    /\ UNCHANGED <<sent, broken>>

Mishap ==
    /\ broken # 0
    /\ Len(delivered) + 1 >= broken
    /\ \E x \in (1 .. sent) \cup {Garbled} : delivered' = Append(delivered, x)
    /\ UNCHANGED <<sent, broken>>

Next == Send \/ Deliver \/ Mishap

Safety == Init /\ [][Next]_vars

Spec == Safety /\ WF_vars(Deliver)
=============================================================================
