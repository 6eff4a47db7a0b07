----------------------------- MODULE TcpFraming -----------------------------
(***************************************************************************)
(* Messages over one TCP connection: a client's asyncWrite calls on one    *)
(* side, the doRead loop of the server's session on the other, and between *)
(* them what the two kernels hold (pipe).                                  *)
(*                                                                         *)
(* asyncWrite hands async_write two buffers that are local variables: the  *)
(* length and the packet.  A first attempt to write is made before         *)
(* asyncWrite returns; what the kernel does not take then is written later *)
(* by the io thread, from memory that is no longer the message's: any unit *)
(* of it may still be right or may be Junk.  asio keeps the write attempts *)
(* of one socket in a queue, and a composed write that was cut short       *)
(* queues again behind the others.                                         *)
(***************************************************************************)
EXTENDS Naturals, Sequences, FiniteSetsExt

CONSTANTS
    Prefix,     \* units of a length (4 bytes in the code)
    Header,     \* units of a packet that say what it is (17)
    Packet,     \* units of a packet (61 for slotSend's TestStruct)
    Cap,        \* units the kernels hold between writer and reader
    MaxSends,   \* bound: presses of Send
    MaxLength   \* bound: a length read from bytes that are none

ASSUME FramingAssumption ==
    /\ {Prefix, Header, Packet, Cap} \subseteq Nat \ {0}
    /\ Header <= Packet
    /\ {MaxSends, MaxLength} \subseteq Nat

VARIABLES
    sent,       \* calls of asyncWrite
    waiting,    \* write attempts queued on the socket: [msg, done]
    posted,     \* attempts that wrote a part, their handlers not yet run
    pipe,       \* units on their way
    phase,      \* what doRead is reading: "length" or "body"
    need,       \* units that read is for
    acc,        \* units it has so far
    delivered,  \* what processPacket made of the packets: message or Garbled
    up,         \* the server's process
    broken,     \* the first message asyncWrite left unfinished, or 0
    junk,       \* a unit of freed memory was written that was not right
    overlapped  \* a write was begun while another one was unfinished

writer == <<sent, waiting, posted, broken, junk, overlapped>>
reader == <<phase, need, acc, delivered, up>>
vars == <<writer, pipe, reader>>

Size == Prefix + Packet
Junk == <<0, 0>>
Garbled == 0
Unit(m, i) == <<m, i>>
Writes == [msg : 1 .. MaxSends, done : 0 .. Size - 1]

Init ==
    /\ sent = 0
    /\ waiting = << >> /\ posted = << >>
    /\ broken = 0 /\ junk = FALSE /\ overlapped = FALSE
    /\ pipe = << >>
    /\ phase = "length" /\ need = Prefix /\ acc = << >>
    /\ delivered = << >>
    /\ up = TRUE

-----------------------------------------------------------------------------
(* Writing *)

Room == Cap - Len(pipe)

\* What one attempt takes of a write that has done units behind it.
Takes(done) == Min({Room, Size - done})

\* The unit the next attempt begins with.
FromDone(w) == Max({w.done, 1})                                \* mutant
From(w) == w.done + 1

\* After an attempt that took k units of w, which is in neither queue.
Requeue(w, k, queue, handlers) ==
    LET done == w.done + k IN
    /\ waiting' = IF k = 0 THEN Append(queue, w) ELSE queue
    /\ posted' = IF k = 0 \/ done = Size THEN handlers
                 ELSE Append(handlers, [w EXCEPT !.done = done])

\* asyncWrite, from MainClient::slotSend: the attempt is made at once, unless
\* others wait for the socket.
AsyncWrite ==
    LET w == [msg |-> sent + 1, done |-> 0]
        k == IF waiting = << >> THEN Takes(0) ELSE 0
    IN  /\ up
        /\ sent < MaxSends
        /\ sent' = sent + 1
        /\ pipe' = pipe \o [i \in 1 .. k |-> Unit(w.msg, i)]
        /\ Requeue(w, k, waiting, posted)
        /\ broken' = IF broken = 0 /\ k < Size THEN w.msg ELSE broken
        /\ overlapped' = (overlapped \/ waiting \o posted # << >>)
        /\ UNCHANGED <<junk, reader>>

\* An attempt after asyncWrite has returned.
LateAttempt(w, k) ==
    \E gone \in SUBSET (1 .. k) :
        /\ pipe' = pipe \o [i \in 1 .. k |-> IF i \in gone THEN Junk
                                             ELSE Unit(w.msg, From(w) + i - 1)]
        /\ junk' = (junk \/ gone # {})

\* The socket can be written to: the attempt at the head of the queue is made.
Writable ==
    LET w == Head(waiting) IN
    /\ up
    /\ waiting # << >>
    /\ Room > 0
    /\ LateAttempt(w, Takes(w.done))
    /\ Requeue(w, Takes(w.done), Tail(waiting), posted)
    /\ UNCHANGED <<sent, broken, overlapped, reader>>

\* The handler of an attempt that wrote a part makes the next attempt.
Continue ==
    LET w == Head(posted)
        k == IF waiting = << >> THEN Takes(w.done) ELSE 0
    IN  /\ up
        /\ posted # << >>
        /\ LateAttempt(w, k)
        /\ Requeue(w, k, waiting, Tail(posted))
        /\ UNCHANGED <<sent, broken, overlapped, reader>>

-----------------------------------------------------------------------------
(* Reading *)

DoReadOnce == phase' = "done" /\ need' = 0 /\ acc' = << >>       \* mutant
DoReadBehind == phase' = "length" /\ need' = Prefix /\ acc' = acc  \* mutant
DoRead == phase' = "length" /\ need' = Prefix /\ acc' = << >>

\* Some of what has arrived goes into the read that is pending.
Receive(k) ==
    /\ up
    /\ k <= Min({need - Len(acc), Len(pipe)})
    /\ acc' = acc \o SubSeq(pipe, 1, k)
    /\ pipe' = SubSeq(pipe, k + 1, Len(pipe))
    /\ UNCHANGED <<writer, phase, need, delivered, up>>

\* The lengths that these units may be: every message has the same.
SizeWithPrefix == Packet + Prefix                               \* mutant
PacketSize == Packet
Lengths(units) ==
    IF \A i \in DOMAIN units : units[i][2] = i THEN {PacketSize} ELSE 0 .. MaxLength

LengthRead ==
    /\ up
    /\ phase = "length" /\ Len(acc) = need
    /\ phase' = "body" /\ need' \in Lengths(acc) /\ acc' = << >>
    /\ UNCHANGED <<writer, pipe, delivered, up>>

\* The packet is one that was sent; or it has a packet's header, at least.  Freed
\* memory may hold one too, that of a later packet for one.
IsPacket(units) ==
    \E m \in 1 .. sent : units = [i \in 1 .. Packet |-> Unit(m, Prefix + i)]
HasHeader(units) ==
    \A i \in 1 .. Header : units[i][2] = Prefix + i
MayHaveHeader(units) ==
    \A i \in 1 .. Header : units[i] = Junk \/ units[i][2] = Prefix + i

\* processPacket: no room for a header ends the process, bytes that are no
\* header are dropped.  What deserialize does to a garbled payload is
\* undefined: it may end the process too.
BodyRead ==
    /\ up
    /\ phase = "body" /\ Len(acc) = need
    /\ DoRead
    /\ IF need < Header THEN up' = FALSE /\ UNCHANGED delivered
       ELSE IF IsPacket(acc)
       THEN delivered' = Append(delivered, acc[1][1]) /\ UNCHANGED up
       ELSE \/ /\ MayHaveHeader(acc)
               /\ delivered' = Append(delivered, Garbled) /\ UNCHANGED up
            \/ /\ MayHaveHeader(acc)
               /\ up' = FALSE /\ UNCHANGED delivered
            \/ ~HasHeader(acc) /\ UNCHANGED <<delivered, up>>
    /\ UNCHANGED <<writer, pipe>>

-----------------------------------------------------------------------------
Reading == \E k \in 1 .. Cap : Receive(k)

Next ==
    \/ AsyncWrite \/ Writable \/ Continue
    \/ Reading \/ LengthRead \/ BodyRead

\* Both processes run their handlers and the kernels move what they hold.
Fairness ==
    /\ WF_vars(Writable) /\ WF_vars(Continue)
    /\ WF_vars(Reading) /\ WF_vars(LengthRead) /\ WF_vars(BodyRead)

Spec == Init /\ [][Next]_vars /\ Fairness

-----------------------------------------------------------------------------
(* Properties *)

TypeOK ==
    /\ sent \in 0 .. MaxSends /\ broken \in 0 .. sent
    /\ waiting \in Seq(Writes) /\ posted \in Seq(Writes)
    /\ Len(waiting) + Len(posted) <= sent
    /\ Len(pipe) <= Cap
    /\ \A i \in DOMAIN pipe : pipe[i] \in ((1 .. sent) \X (1 .. Size)) \cup {Junk}
    /\ phase \in {"length", "body"}
    /\ Len(acc) <= need
    /\ \A i \in DOMAIN delivered : delivered[i] \in 0 .. sent
    /\ {up, junk, overlapped} \subseteq BOOLEAN

\* Messages arrive damaged, out of order or not at all, and the server's
\* process ends, only if a write was begun before another one had finished or
\* the memory of an unfinished one was used again: either would have to be
\* prevented, and one alone is not enough (connection.cpp:266-276).
DamageHasACause ==
    (\E i \in DOMAIN delivered : delivered[i] # i) \/ ~up => junk \/ overlapped

\* A write that is begun is written out in the end, whatever has become of the
\* framing, unless the server's process ends: writer and reader never wait
\* for each other for ever (connection.cpp:276, ClientSession.cpp:17-32).
WritesEnd == waiting \o posted # << >> ~> waiting \o posted = << >> \/ ~up

\* The connection is a channel of whole messages up to the first message that
\* asyncWrite left unfinished; those before it are all delivered, in order,
\* whatever happens behind them (connection.cpp:247-287, ClientSession.cpp:15-35).
Channel == INSTANCE MessageChannel
ImplementsChannel == Channel!Spec
=============================================================================
