--------------------------- MODULE ClientDirectory ---------------------------
(***************************************************************************)
(* What the server promises about its clients, without ids, maps, read     *)
(* operations or frames: a connection is a member for at most one stretch  *)
(* of its life, only members have their messages processed and each        *)
(* member's messages are processed in the order it wrote them, and a       *)
(* member departs only after it has hung up.  SessionServer implements     *)
(* this specification (SessionServer!Directory).                           *)
(***************************************************************************)
EXTENDS Naturals, Sequences

CONSTANT Conns      \* the TCP connections of one server lifetime

VARIABLES
    serving,        \* FALSE once the server process has died
    members,        \* connections the server counts as clients
    departed,       \* connections that were members and no longer are
    hungup,         \* connections whose peer has closed or reset
    inbox           \* inbox[c]: numbers of c's messages processed, in order

vars == <<serving, members, departed, hungup, inbox>>

Init ==
    /\ serving = TRUE
    /\ members = {}
    /\ departed = {}
    /\ hungup = {}
    /\ inbox = [c \in Conns |-> << >>]

Join(c) ==
    /\ serving
    /\ c \notin members \cup departed
    /\ members' = members \cup {c}
    /\ UNCHANGED <<serving, departed, hungup, inbox>>

Receive(c) ==
    /\ serving
    /\ c \in members
    /\ inbox' = [inbox EXCEPT ![c] = Append(@, Len(@) + 1)]
    /\ UNCHANGED <<serving, members, departed, hungup>>

HangUp(c) ==
    /\ hungup' = hungup \cup {c}
    /\ UNCHANGED <<serving, members, departed, inbox>>

Leave(c) ==
    /\ serving
    /\ c \in members \cap hungup
    /\ members' = members \ {c}
    /\ departed' = departed \cup {c}
    /\ UNCHANGED <<serving, hungup, inbox>>

\* The process may die, but only with a client's broken connection at hand.
Die ==
    /\ members \cap hungup # {}
    /\ serving' = FALSE
    /\ UNCHANGED <<members, departed, hungup, inbox>>

Next ==
    \/ \E c \in Conns : Join(c) \/ Receive(c) \/ HangUp(c) \/ Leave(c)
    \/ Die

Spec == Init /\ [][Next]_vars
==============================================================================
