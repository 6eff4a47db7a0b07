-------------------------- MODULE ClientLinkProofs --------------------------
(***************************************************************************)
(* Theorems about ClientLink for packets of any size and any number of     *)
(* buttons and connections.  A user who waits for each button to take      *)
(* effect keeps the client in few shapes: at most one chain of reads, and  *)
(* besides it at most one resolve, connect or write.  IInv says which.     *)
(***************************************************************************)
EXTENDS ClientLink, FiniteSetTheorems, TLAPS

Handlers == [op : Ops, ec : {"ok", "error", "aborted", "eof"},
             got : {"nothing", "packet", "bytes"}, of : 0 .. MaxSockets]
Pending == [op : {"header", "body"}, n : {1, Packet, Garbage}]

\* The types, with the sequences as such, and what the counters need.
TypeInv ==
    /\ TypeOK
    /\ reads \in Seq(Pending) /\ ready \in Seq(Handlers)
    /\ tcp = "connecting" => writes # << >>
    /\ resolving <= clicks

-----------------------------------------------------------------------------
(* The invariant of orderly use *)

Reading == {"header", "body"}
UdpSteps == {"open", "bind", "listen", "read"}
Linked == tcp \in {"up", "fin", "rst"}
Alone == qt = "idle" /\ io = "idle" /\ reads = << >> /\ resolving = 0

\* At most one handler of the chain of reads waits, and another of a write.
ReadyShape ==
    /\ Len(ready) <= 2
    /\ Len(ready) = 2 => \/ ready[1].op \in Reading /\ ready[2].op = "write"
                         \/ ready[2].op \in Reading /\ ready[1].op = "write"

\* Before a connect is done there is nothing but the connect.
ConnectInv ==
    /\ resolving <= 1
    /\ resolving = 1 => /\ tcp = "closed" /\ ready = << >> /\ reads = << >>
                        /\ qt = "idle" /\ io = "idle"
    /\ tcp = "closed" => reads = << >> /\ writes = << >>
    /\ tcp = "connecting" => /\ Alone /\ writes = <<"connect">> /\ ready = << >>
                             /\ taken = 0
    /\ tcp = "refused" => /\ Alone /\ writes = << >>
                          /\ Len(ready) = 1 /\ ready[1].op = "connect"
                          /\ ready[1].ec = "error"
    /\ Linked => writes = << >> \/ writes = <<"write">>
    /\ \A j \in DOMAIN ready :
         /\ ready[j].op = "resolve" => Alone /\ Len(ready) = 1 /\ tcp = "closed"
         /\ ready[j].op = "connect" =>
                /\ Alone /\ Len(ready) = 1 /\ writes = << >> /\ taken = 0
                /\ tcp = "refused" \/ Linked
                /\ tcp # "refused" => ready[j].ec = "ok"
         /\ ready[j].op = "write" => writes = << >> /\ resolving = 0

\* The one read that is pending, and what its end can be.
ReadsInv ==
    /\ Len(reads) <= 1
    /\ reads # << >> =>
         /\ Linked
         /\ io \notin UdpSteps
         /\ \A j \in DOMAIN ready : ready[j].op \notin Reading
         /\ \/ /\ reads[1].op = "header" /\ reads[1].n = 1
               /\ taken = IF listening THEN Packet + 1 ELSE 0
            \/ /\ reads[1].op = "body" /\ reads[1].n = Packet /\ size = Packet
               /\ \/ taken = 1 /\ ~listening
                  \/ tcp = "rst" /\ taken = arrived

\* The handlers of the chain of reads that wait.
ChainInv ==
    \A j \in DOMAIN ready :
      /\ ready[j].op \in Reading =>
           /\ io \notin UdpSteps
           /\ ready[j].ec = "ok" => Linked /\ ~listening /\ qt = "idle"
      /\ ready[j].op = "header" /\ ready[j].ec = "ok" =>
           size = Packet /\ taken = 1
      /\ ready[j].op = "header" /\ ready[j].ec \in {"error", "aborted"} =>
           /\ size = Packet \/ (tcp = "rst" /\ ~listening)
           /\ tcp = "closed" \/ (tcp = "rst" /\ taken = arrived)
      /\ ready[j].op = "body" /\ ready[j].ec = "ok" =>
           \/ /\ ready[j].got = "packet" /\ ready[j].of = gen
              /\ taken = Packet + 1 /\ size = Packet
           \/ ready[j].got = "nothing" /\ tcp = "rst" /\ size = 0

\* The first chain of a connection runs alone.
FreshInv ==
    Linked /\ ~listening
        /\ (reads # << >> \/ io \in UdpSteps
            \/ \E j \in DOMAIN ready : ready[j].op \in Reading)
    => /\ qt = "idle" /\ writes = << >> /\ io # "disconnect"
       /\ \A j \in DOMAIN ready : ready[j].op \in Reading

\* The UDP socket follows the TCP socket.
UdpInv ==
    /\ udp \in {"closed", "bound"} \/ io = "bind"
    /\ listening => udp = "bound" /\ size = Packet
    /\ listening /\ IsOpen => udpOf = gen /\ taken = Packet + 1 /\ Linked
    /\ tcp = "closed" /\ qt # "disconnect" /\ io # "disconnect"
         => udp = "closed"
    /\ IsOpen /\ io \notin UdpSteps /\ ~listening => udp = "closed"
    /\ qt = "disconnect" => /\ tcp = "closed" /\ io = "idle"
                            /\ \A j \in DOMAIN ready : ready[j].op \in Reading
    /\ io = "disconnect" => tcp = "closed"
    /\ io \in UdpSteps =>
         /\ Linked /\ qt = "idle" /\ resolving = 0
         /\ ready = << >> /\ reads = << >> /\ writes = << >>
         /\ info = gen /\ taken = Packet + 1 /\ size = Packet
         /\ listening <=> io = "read"
         /\ io = "open" => udp = "closed"
         /\ io = "bind" => udp = "open"
         /\ io \in {"listen", "read"} => udp = "bound" /\ udpOf = gen

Orderly ==
    /\ ~garbled
    /\ size \in {0, Packet}
    /\ dead => tcp = "rst" /\ size = 0
    /\ ReadyShape /\ ConnectInv /\ ReadsInv /\ ChainInv /\ FreshInv /\ UdpInv

\* While the connection is up nothing has failed, and something leads to the
\* UDP socket or has led there.
UpInv ==
    tcp = "up" =>
        /\ \A j \in DOMAIN ready : ready[j].ec = "ok"
        /\ \/ listening \/ reads # << >> \/ io \in UdpSteps
           \/ \E j \in DOMAIN ready : ready[j].op \in Reading \cup {"connect"}

IInv == TypeInv /\ (hasty \/ (Orderly /\ UpInv))

-----------------------------------------------------------------------------
(* Sequences *)

LEMMA EmptySeq ==
    ASSUME NEW S, NEW s \in Seq(S)
    PROVE  /\ Len(s) \in Nat /\ DOMAIN s = 1 .. Len(s)
           /\ Len(s) = 0 <=> s = << >>
           /\ \A j \in 1 .. Len(s) : s[j] \in S
OBVIOUS

LEMMA Pop ==
    ASSUME NEW S, NEW s \in Seq(S), s # << >>
    PROVE  /\ Len(s) \in Nat \ {0} /\ Head(s) = s[1] /\ s[1] \in S
           /\ Tail(s) \in Seq(S) /\ Len(Tail(s)) = Len(s) - 1
           /\ \A j \in 1 .. Len(s) - 1 : Tail(s)[j] = s[j + 1]
<1>1. Len(s) \in Nat \ {0}
  BY EmptySeq
<1> QED BY <1>1

LEMMA Push ==
    ASSUME NEW S, NEW s \in Seq(S), NEW e \in S
    PROVE  /\ Append(s, e) \in Seq(S) /\ Len(Append(s, e)) = Len(s) + 1
           /\ \A j \in 1 .. Len(s) : Append(s, e)[j] = s[j]
           /\ Append(s, e)[Len(s) + 1] = e
           /\ Append(s, e) # << >>
<1>1. Len(s) \in Nat /\ Append(s, e) \in Seq(S) /\ Len(Append(s, e)) = Len(s) + 1
  OBVIOUS
<1>2. Append(s, e) # << >>
  BY <1>1, EmptySeq
<1> QED BY <1>1, <1>2

LEMMA Join ==
    ASSUME NEW S, NEW s \in Seq(S), NEW t \in Seq(S)
    PROVE  /\ s \o t \in Seq(S) /\ Len(s \o t) = Len(s) + Len(t)
           /\ \A j \in 1 .. Len(s) : (s \o t)[j] = s[j]
           /\ \A j \in 1 .. Len(t) : (s \o t)[Len(s) + j] = t[j]
<1>1. Len(s) \in Nat /\ Len(t) \in Nat
  OBVIOUS
<1> QED BY <1>1

-----------------------------------------------------------------------------
(* Types *)

LEMMA DoneType ==
    ASSUME TypeInv, NEW op \in Ops, NEW ec \in {"ok", "error", "aborted", "eof"}
    PROVE  Done(op, ec) \in Handlers
BY DEF TypeInv, TypeOK, Done, Handlers

LEMMA GotType ==
    ASSUME TypeInv, NEW op \in Ops, NEW bytes \in {"nothing", "packet", "bytes"}
    PROVE  Got(op, bytes) \in Handlers
BY DEF TypeInv, TypeOK, Got, Handlers

\* What a closed socket leaves to be handled.
LEMMA AbortedType ==
    ASSUME TypeInv
    PROVE  /\ Aborted \in Seq(Handlers)
           /\ Len(Aborted) = Len(reads) + Len(writes)
           /\ \A j \in 1 .. Len(reads) : Aborted[j] = Done(reads[j].op, "aborted")
<1> DEFINE r == [j \in DOMAIN reads |-> Done(reads[j].op, "aborted")]
           w == [j \in DOMAIN writes |-> Done(writes[j], "aborted")]
<1>1. reads \in Seq(Pending) /\ writes \in Seq({"connect", "write"})
  BY DEF TypeInv, TypeOK
<1>2. \A j \in DOMAIN reads : r[j] \in Handlers
  <2>1. ASSUME NEW j \in DOMAIN reads PROVE reads[j].op \in Ops
    <3>1. reads[j] \in Pending
      BY <1>1, EmptySeq
    <3> QED BY <3>1 DEF Pending, Ops
  <2> QED BY <2>1, DoneType
<1>3. \A j \in DOMAIN writes : w[j] \in Handlers
  BY <1>1, EmptySeq, DoneType DEF Ops
<1>4. r \in Seq(Handlers) /\ Len(r) = Len(reads)
  BY <1>1, <1>2, EmptySeq
<1>5. w \in Seq(Handlers) /\ Len(w) = Len(writes)
  BY <1>1, <1>3, EmptySeq
<1>6. Aborted = r \o w
  BY DEF Aborted
<1>7. \A j \in 1 .. Len(reads) : r[j] = Done(reads[j].op, "aborted")
  BY <1>1, EmptySeq
<1> HIDE DEF r, w
<1> QED BY <1>4, <1>5, <1>6, <1>7, Join

\* The two conjuncts of TypeOK that follow from the types of the sequences.
LEMMA Elements ==
    ASSUME NEW r \in Seq(Pending), NEW h \in Seq(Handlers)
    PROVE  /\ \A j \in DOMAIN r : r[j] \in [op : Ops, n : {1, Packet, Garbage}]
           /\ \A j \in DOMAIN h :
                  h[j] \in [op : Ops, ec : {"ok", "error", "aborted", "eof"},
                           got : {"nothing", "packet", "bytes"},
                           of : 0 .. MaxSockets]
<1>1. ASSUME NEW j \in DOMAIN r
      PROVE  r[j] \in [op : Ops, n : {1, Packet, Garbage}]
  <2>1. r[j] \in Pending
    BY EmptySeq
  <2> QED BY <2>1 DEF Pending, Ops
<1>2. ASSUME NEW j \in DOMAIN h
      PROVE  h[j] \in Handlers
  BY EmptySeq
<1> QED BY <1>1, <1>2 DEF Handlers

LEMMA InitType == Init => TypeInv
<1> SUFFICES ASSUME Init PROVE TypeInv
  OBVIOUS
<1>1. reads \in Seq(Pending) /\ ready \in Seq(Handlers)
  BY DEF Init
<1>2. writes \in Seq({"connect", "write"})
  BY DEF Init
<1>3. MaxSockets \in Nat /\ MaxClicks \in Nat
  BY BoundAssumption
<1>4. /\ \A j \in DOMAIN reads : reads[j] \in [op : Ops, n : {1, Packet, Garbage}]
      /\ \A j \in DOMAIN ready :
             ready[j] \in [op : Ops, ec : {"ok", "error", "aborted", "eof"},
                          got : {"nothing", "packet", "bytes"},
                          of : 0 .. MaxSockets]
  BY <1>1, Elements
<1>5. 0 \in 0 .. MaxClicks /\ 0 \in 0 .. MaxSockets /\ 0 \in 0 .. Packet + 1
      /\ 0 \in 0 .. 0
  BY <1>3, SizeAssumption
<1>6. TypeOK
  BY <1>2, <1>4, <1>5 DEF Init, TypeOK
<1>7. tcp # "connecting" /\ resolving <= clicks
  BY DEF Init
<1> QED BY <1>1, <1>6, <1>7 DEF TypeInv

\* What closing the TCP socket does to the types, whoever's step it is.
LEMMA CloseType ==
    ASSUME TypeInv, NEW rest \in Seq(Handlers)
    PROVE  /\ rest \o Aborted \in Seq(Handlers)
           /\ << >> \in Seq(Pending) /\ << >> \in Seq({"connect", "write"})
BY AbortedType, Join

LEMMA StartType ==
    ASSUME TypeInv, NEW op \in {"header", "body"}, NEW n \in {0, 1, Packet, Garbage},
           NEW rest \in Seq(Handlers), StartRead(op, n, rest)
    PROVE  /\ reads' \in Seq(Pending) /\ ready' \in Seq(Handlers)
           /\ UNCHANGED <<tcp, gen, arrived, taken, writes>>
<1>1. reads \in Seq(Pending)
  BY DEF TypeInv
<1>2. Got(op, "nothing") \in Handlers /\ Done(op, "error") \in Handlers
  BY DoneType, GotType DEF Ops
<1>3. ready' \in Seq(Handlers)
  BY <1>2, Push DEF StartRead
<1>4. n > 0 => [op |-> op, n |-> n] \in Pending
  BY SizeAssumption DEF Pending
<1>5. reads' \in Seq(Pending)
  BY <1>1, <1>4, Push DEF StartRead
<1> QED BY <1>3, <1>5 DEF StartRead

LEMMA TypeStep ==
    ASSUME TypeInv, [Next]_vars
    PROVE  TypeInv'
<1> USE DEF TypeInv, TypeOK, socket, udpSocket, history, thread
<1> USE SizeAssumption, BoundAssumption
<1>0. /\ MaxClicks \in Nat /\ MaxSockets \in Nat /\ Packet \in Nat /\ Garbage \in Nat
      /\ arrived \in Nat /\ taken \in Nat /\ gen \in Nat /\ clicks \in Nat
      /\ resolving \in Nat
  OBVIOUS
<1>s. reads' \in Seq(Pending) /\ ready' \in Seq(Handlers)
      => /\ \A j \in DOMAIN reads' : reads'[j] \in [op : Ops, n : {1, Packet, Garbage}]
         /\ \A j \in DOMAIN ready' :
                ready'[j] \in [op : Ops, ec : {"ok", "error", "aborted", "eof"},
                              got : {"nothing", "packet", "bytes"},
                              of : 0 .. MaxSockets]
  BY Elements
<1>1. CASE ClickConnect
  BY <1>0, <1>1, <1>s DEF ClickConnect, Click
<1>2. CASE ClickDisconnect
  <2>1. CASE IsOpen
    <3>1. CloseTcp
      BY <1>2, <2>1 DEF ClickDisconnect, DisconnectTcp
    <3>2. /\ reads' \in Seq(Pending) /\ ready' \in Seq(Handlers)
          /\ writes' \in Seq({"connect", "write"}) /\ tcp' = "closed"
          /\ UNCHANGED <<gen, arrived, taken>>
      BY <3>1, CloseType DEF CloseTcp
    <3> QED BY <1>0, <1>2, <1>s, <3>2 DEF ClickDisconnect, Click
  <2>2. CASE ~IsOpen
    BY <1>0, <1>2, <1>s, <2>2 DEF ClickDisconnect, Click, DisconnectTcp
  <2> QED BY <2>1, <2>2
<1>3. CASE ClickSend
  <2>1. Append(writes, "write") \in Seq({"connect", "write"})
        /\ Append(writes, "write") # << >>
    BY Push
  <2> QED BY <1>0, <1>3, <1>s, <2>1 DEF ClickSend, Click
<1>4. CASE DisconnectUdp
  BY <1>0, <1>4, <1>s, ZenonT(30) DEF DisconnectUdp, CloseUdp
<1>5. CASE SendUdp
  BY <1>0, <1>5, <1>s DEF SendUdp
<1>6. CASE Resolved
  <2>1. ready' \in Seq(Handlers)
    <3>1. PICK ec \in {"ok", "error"} : ready' = Append(ready, Done("resolve", ec))
      BY <1>6 DEF Resolved
    <3>2. Done("resolve", ec) \in Handlers
      BY DoneType DEF Ops
    <3> QED BY <3>1, <3>2, Push
  <2> QED BY <1>0, <1>6, <1>s, <2>1 DEF Resolved
<1>7. CASE Established
  <2>1. writes' \in Seq({"connect", "write"})
    BY <1>7, Pop DEF Established
  <2>2. ready' \in Seq(Handlers) /\ tcp' \in {"up", "refused"}
    <3>1. PICK ok \in BOOLEAN :
             /\ tcp' = IF ok THEN "up" ELSE "refused"
             /\ ready' = Append(ready, Done("connect", IF ok THEN "ok" ELSE "error"))
      BY <1>7 DEF Established
    <3>2. Done("connect", "ok") \in Handlers /\ Done("connect", "error") \in Handlers
      BY DoneType DEF Ops
    <3> QED BY <3>1, <3>2, Push
  <2> QED BY <1>0, <1>7, <1>s, <2>1, <2>2 DEF Established
<1>8. CASE Arrive
  BY <1>0, <1>8, <1>s DEF Arrive
<1>9. CASE ServerEnds
  BY <1>0, <1>9, <1>s DEF ServerEnds
<1>10. CASE WriteDone
  <2>1. writes' \in Seq({"connect", "write"})
    BY <1>10, Pop DEF WriteDone
  <2>2. ready' \in Seq(Handlers)
    <3>1. PICK ec \in {"ok", "error"} : ready' = Append(ready, Done("write", ec))
      BY <1>10 DEF WriteDone
    <3>2. Done("write", ec) \in Handlers
      BY DoneType DEF Ops
    <3> QED BY <3>1, <3>2, Push
  <2> QED BY <1>0, <1>10, <1>s, <2>1, <2>2 DEF WriteDone
<1>11. CASE ReadDone
  <2> DEFINE r == Head(reads)
  <2>1. r \in Pending /\ reads' \in Seq(Pending)
    BY <1>11, Pop DEF ReadDone
  <2>2. r.op \in Ops /\ r.n \in Nat
    BY <2>1 DEF Pending, Ops
  <2>3. /\ Got(r.op, "packet") \in Handlers /\ Got(r.op, "bytes") \in Handlers
        /\ Done(r.op, "eof") \in Handlers /\ Done(r.op, "error") \in Handlers
    BY <2>2, DoneType, GotType
  <2>4. CASE /\ arrived - taken >= r.n
             /\ taken' = taken + r.n
             /\ size' = IF r.op = "header" THEN LengthAt(taken) ELSE size
             /\ ready' = Append(ready, Got(r.op, IF taken = 1 /\ r.n = Packet
                                            THEN "packet" ELSE "bytes"))
    <3>1. ready' \in Seq(Handlers)
      BY <2>3, <2>4, Push
    <3>2. taken' \in 0 .. arrived
      <4> HIDE DEF r
      <4> QED BY <1>0, <2>2, <2>4
    <3>3. size' \in {0, Packet, Garbage}
      BY <2>4 DEF LengthAt
    <3> QED BY <1>0, <1>11, <1>s, <2>1, <3>1, <3>2, <3>3 DEF ReadDone
  <2>5. CASE /\ tcp # "up"
             /\ arrived - taken < r.n
             /\ ready' = Append(ready, Done(r.op, IF tcp = "fin" THEN "eof"
                                                  ELSE "error"))
             /\ taken' = arrived
             /\ size' = size
    <3>1. ready' \in Seq(Handlers)
      BY <2>3, <2>5, Push
    <3> QED BY <1>0, <1>11, <1>s, <2>1, <2>5, <3>1 DEF ReadDone
  <2> QED BY <1>11, <2>4, <2>5 DEF ReadDone
<1>t. ready # << >> => /\ Tail(ready) \in Seq(Handlers)
                       /\ Head(ready) \in Handlers
  BY Pop
<1>d. ASSUME IoDisconnect, ready # << >>,
             UNCHANGED <<dead, resolving, size, udpSocket, qt, info, history>>
      PROVE  TypeInv'
  <2>1. Tail(ready) \in Seq(Handlers) /\ Tail(ready) \o Aborted \in Seq(Handlers)
    BY <1>t, <1>d, CloseType
  <2>2. CASE IsOpen
    <3>1. /\ reads' \in Seq(Pending) /\ ready' \in Seq(Handlers)
          /\ writes' \in Seq({"connect", "write"}) /\ tcp' = "closed"
          /\ UNCHANGED <<gen, arrived, taken>> /\ io' = "disconnect"
      BY <1>d, <2>1, <2>2, CloseType DEF IoDisconnect
    <3> QED BY <1>0, <1>d, <1>s, <3>1
  <2>3. CASE ~IsOpen
    <3>1. UNCHANGED socket /\ ready' = Tail(ready) /\ io' = "disconnect"
      BY <1>d, <2>3 DEF IoDisconnect
    <3> QED BY <1>0, <1>d, <1>s, <2>1, <3>1
  <2> QED BY <2>2, <2>3
<1>12. CASE HandleResolve
  <2>1. Tail(ready) \in Seq(Handlers) /\ Tail(ready) \o Aborted \in Seq(Handlers)
    BY <1>12, <1>t, CloseType DEF HandleResolve, Handle
  <2>2. CASE /\ Handled.ec = "ok"
             /\ gen < MaxSockets
             /\ tcp' = "connecting" /\ gen' = gen + 1
             /\ arrived' = 0 /\ taken' = 0
             /\ reads' = << >> /\ writes' = <<"connect">>
             /\ ready' = Tail(ready) \o Aborted
             /\ UNCHANGED io
    <3>1. writes' \in Seq({"connect", "write"}) /\ writes' # << >>
      BY <2>2
    <3>2. reads' \in Seq(Pending)
      BY <2>2
    <3> QED BY <1>0, <1>12, <1>s, <2>1, <2>2, <3>1, <3>2 DEF HandleResolve
  <2>3. CASE IoDisconnect
    BY <1>12, <1>d, <2>3 DEF HandleResolve, Handle
  <2> QED BY <1>12, <2>2, <2>3 DEF HandleResolve
<1>r. ASSUME NEW rest \in Seq(Handlers), AsyncRead(rest)
      PROVE  /\ reads' \in Seq(Pending) /\ ready' \in Seq(Handlers)
             /\ UNCHANGED <<tcp, gen, arrived, taken, writes>>
  BY <1>r, StartType DEF AsyncRead
<1>13. CASE HandleConnect
  <2>1. CASE Handled.ec = "ok" /\ IsOpen
    <3>1. AsyncRead(Tail(ready)) /\ UNCHANGED io /\ ready # << >>
      BY <1>13, <2>1 DEF HandleConnect, Handle
    <3>2. /\ reads' \in Seq(Pending) /\ ready' \in Seq(Handlers)
          /\ UNCHANGED <<tcp, gen, arrived, taken, writes>>
      BY <1>r, <1>t, <3>1
    <3> QED BY <1>0, <1>13, <1>s, <3>1, <3>2 DEF HandleConnect
  <2>2. CASE ~(Handled.ec = "ok" /\ IsOpen)
    BY <1>13, <1>d, <2>2 DEF HandleConnect, Handle
  <2> QED BY <2>1, <2>2
<1>14. CASE HandleWrite
  <2>1. CASE Handled.ec = "ok"
    <3>1. ready' = Tail(ready) /\ UNCHANGED <<socket, io>> /\ ready # << >>
      BY <1>14, <2>1 DEF HandleWrite, Handle
    <3> QED BY <1>0, <1>14, <1>s, <1>t, <3>1 DEF HandleWrite
  <2>2. CASE Handled.ec # "ok"
    BY <1>14, <1>d, <2>2 DEF HandleWrite, Handle
  <2> QED BY <2>1, <2>2
<1>15. CASE HandleHeader
  <2>1. Tail(ready) \in Seq(Handlers)
    BY <1>15, <1>t DEF HandleHeader, Handle
  <2>2. CASE Handled.ec = "eof"
    <3>1. ready' = Tail(ready) /\ UNCHANGED socket
      BY <1>15, <2>2 DEF HandleHeader
    <3> QED BY <1>0, <1>15, <1>s, <2>1, <3>1 DEF HandleHeader
  <2>3. CASE Handled.ec # "eof"
    <3>1. StartRead("body", size, Tail(ready))
      BY <1>15, <2>3 DEF HandleHeader, BodySize
    <3>2. /\ reads' \in Seq(Pending) /\ ready' \in Seq(Handlers)
          /\ UNCHANGED <<tcp, gen, arrived, taken, writes>>
      BY <2>1, <3>1, StartType
    <3> QED BY <1>0, <1>15, <1>s, <3>2 DEF HandleHeader
  <2> QED BY <2>2, <2>3
<1>16. CASE HandleBodyError
  BY <1>0, <1>16, <1>s, <1>t DEF HandleBodyError, Handle
<1>17. CASE HandleNothing
  BY <1>0, <1>17, <1>s DEF HandleNothing
<1>18. CASE HandleBytes
  <2>1. AsyncRead(Tail(ready)) /\ Tail(ready) \in Seq(Handlers)
    BY <1>18, <1>t DEF HandleBytes, Handle
  <2>2. /\ reads' \in Seq(Pending) /\ ready' \in Seq(Handlers)
        /\ UNCHANGED <<tcp, gen, arrived, taken, writes>>
    BY <1>r, <2>1
  <2> QED BY <1>0, <1>18, <1>s, <2>2 DEF HandleBytes
<1>19. CASE HandleFirstData
  <2>1. Handled.of \in 0 .. MaxSockets
    BY <1>19, <1>t DEF HandleFirstData, Handle, Handled, Handlers
  <2> QED BY <1>0, <1>19, <1>s, <1>t, <2>1 DEF HandleFirstData, Handle
<1>20. CASE OpenUdp
  <2>1. CASE udp = "closed"
    BY <1>0, <1>20, <1>s, <2>1 DEF OpenUdp
  <2>2. CASE udp # "closed"
    BY <1>0, <1>20, <1>s, <2>2 DEF OpenUdp
  <2> QED BY <2>1, <2>2
<1>21. CASE BindUdp
  <2>1. CASE udp = "open"
    BY <1>0, <1>21, <1>s, <2>1 DEF BindUdp
  <2>2. CASE udp # "open"
    BY <1>0, <1>21, <1>s, <2>2 DEF BindUdp
  <2> QED BY <2>1, <2>2
<1>22. CASE ListenUdp
  BY <1>0, <1>22, <1>s DEF ListenUdp
<1>23. CASE ReadOn
  BY <1>0, <1>23, <1>r, <1>s DEF ReadOn
<1>24. CASE IoDisconnectUdp
  BY <1>0, <1>24, <1>s DEF IoDisconnectUdp, CloseUdp
<1>25. CASE UNCHANGED vars
  BY <1>25, <1>s DEF vars
<1> QED BY <1>1, <1>2, <1>3, <1>4, <1>5, <1>6, <1>7, <1>8, <1>9, <1>10, <1>11,
           <1>12, <1>13, <1>14, <1>15, <1>16, <1>17, <1>18, <1>19, <1>20, <1>21,
           <1>22, <1>23, <1>24, <1>25 DEF Next

-----------------------------------------------------------------------------
(* Orderly use: one lemma for each action *)

LEMMA InitOrderly == Init => Orderly
<1> SUFFICES ASSUME Init PROVE Orderly
  OBVIOUS
<1>1. Len(ready) = 0 /\ DOMAIN ready = {} /\ Len(reads) = 0
  BY DEF Init
<1> QED BY <1>1 DEF Init, Orderly, ReadyShape, ConnectInv, ReadsInv, ChainInv,
                    FreshInv, UdpInv, Linked, IsOpen, UdpSteps

\* The queues as sequences, before and after a step.
LEMMA Queues ==
    ASSUME TypeInv
    PROVE  /\ ready \in Seq(Handlers) /\ reads \in Seq(Pending)
           /\ Len(ready) \in Nat /\ DOMAIN ready = 1 .. Len(ready)
           /\ Len(ready) = 0 <=> ready = << >>
           /\ Len(reads) \in Nat /\ Len(reads) = 0 <=> reads = << >>
           /\ \A j \in 1 .. Len(ready) : ready[j] \in Handlers
           /\ \A j \in 1 .. Len(reads) : reads[j] \in Pending
           /\ Packet \in Nat \ {0} /\ arrived \in Nat /\ taken \in Nat
           /\ taken <= arrived /\ arrived <= Packet + 1
<1>1. ready \in Seq(Handlers) /\ reads \in Seq(Pending)
  BY DEF TypeInv
<1>2. Packet \in Nat \ {0} /\ arrived \in Nat /\ taken \in Nat
      /\ taken <= arrived /\ arrived <= Packet + 1
  BY SizeAssumption DEF TypeInv, TypeOK
<1> QED BY <1>1, <1>2, EmptySeq

LEMMA ConnectOrderly ==
    ASSUME TypeInv, Orderly, ~hasty, ~hasty', ClickConnect
    PROVE  Orderly'
<1>1. Settled /\ ~IsOpen /\ resolving = 0
  BY DEF ClickConnect, Settled
<1>2. reads = << >> /\ ready = << >> /\ qt = "idle" /\ io = "idle" /\ tcp = "closed"
  BY <1>1 DEF Orderly, ConnectInv, Settled, IsOpen
<1>3. /\ resolving' = 1
      /\ UNCHANGED <<dead, socket, ready, size, udpSocket, thread, garbled>>
  BY <1>1 DEF ClickConnect, Click
<1>4. DOMAIN ready = {}
  BY <1>2
<1> QED BY <1>2, <1>3, <1>4
        DEF Orderly, ReadyShape, ConnectInv, ReadsInv, ChainInv, FreshInv, UdpInv,
            Linked, IsOpen, UdpSteps, socket, udpSocket, thread

LEMMA SendOrderly ==
    ASSUME TypeInv, Orderly, ~hasty, ~hasty', ClickSend
    PROVE  Orderly'
<1>1. /\ resolving = 0 /\ ready = << >> /\ writes = << >>
      /\ qt = "idle" /\ io = "idle" /\ (reads = << >> \/ listening) /\ ~dead
  BY DEF ClickSend, Click, Settled
<1>2. tcp # "connecting" /\ tcp # "refused"
  BY <1>1 DEF Orderly, ConnectInv
<1>3. /\ writes' = IF IsOpen THEN <<"write">> ELSE << >>
      /\ qt' = "send"
      /\ UNCHANGED <<dead, resolving, tcp, gen, arrived, taken, reads, ready,
                     size, udpSocket, io, info, garbled>>
  BY <1>1 DEF ClickSend, Click
<1>4. DOMAIN ready = {}
  BY <1>1
<1>5. IsOpen => Linked
  BY <1>2 DEF TypeInv, TypeOK, IsOpen, Linked
<1> QED BY <1>1, <1>2, <1>3, <1>4, <1>5
        DEF Orderly, ReadyShape, ConnectInv, ReadsInv, ChainInv, FreshInv, UdpInv,
            Linked, IsOpen, UdpSteps, udpSocket

LEMMA DisconnectOrderly ==
    ASSUME TypeInv, Orderly, ~hasty, ~hasty', ClickDisconnect
    PROVE  Orderly'
<1> USE DEF Orderly, ReadyShape, ConnectInv, ReadsInv, ChainInv, FreshInv, UdpInv,
            Linked, IsOpen, UdpSteps, udpSocket, Reading
<1>1. /\ resolving = 0 /\ ready = << >> /\ writes = << >>
      /\ qt = "idle" /\ io = "idle" /\ (reads = << >> \/ listening) /\ ~dead
  BY DEF ClickDisconnect, Click, Settled
<1>2. /\ qt' = "disconnect"
      /\ UNCHANGED <<dead, resolving, size, udpSocket, io, info, garbled>>
  BY DEF ClickDisconnect, Click
<1>3. CASE ~IsOpen
  <2>1. UNCHANGED <<socket, ready>>
    BY <1>3 DEF ClickDisconnect, DisconnectTcp
  <2>2. DOMAIN ready = {}
    BY <1>1
  <2> QED BY <1>1, <1>2, <1>3, <2>1, <2>2 DEF socket
<1>4. CASE IsOpen
  <2>1. /\ tcp' = "closed" /\ reads' = << >> /\ writes' = << >>
        /\ ready' = ready \o Aborted /\ UNCHANGED <<gen, arrived, taken>>
    BY <1>4 DEF ClickDisconnect, DisconnectTcp, CloseTcp
  <2>2. ready' = Aborted /\ Len(writes) = 0
    BY <1>1, <2>1, AbortedType
  <2>3. Len(ready') = Len(reads) /\ Len(reads) \in {0, 1}
        /\ DOMAIN ready' = 1 .. Len(ready')
    BY <2>2, AbortedType, Queues, EmptySeq
  <2>4. ASSUME NEW j \in DOMAIN ready'
        PROVE  /\ Len(ready') = 1 /\ reads # << >> /\ ready'[j].op \in {"header", "body"}
               /\ ready'[j].ec = "aborted"
    <3>1. j = 1 /\ Len(reads) = 1
      BY <2>3
    <3>2. ready'[1] = Done(reads[1].op, "aborted") /\ reads[1] \in Pending
      BY <2>2, <3>1, AbortedType, Queues
    <3> QED BY <2>3, <3>1, <3>2, Queues DEF Done, Pending
  <2>5. Len(ready') = 0 \/ Len(ready') = 1
    BY <2>3
  <2>6. reads # << >> => size = Packet
    BY <1>1
  <2>7. ReadyShape'
    BY <2>5
  <2>8. ConnectInv'
    BY <1>1, <1>2, <2>1, <2>4, <2>5
  <2>9. ReadsInv'
    BY <1>1, <1>2, <2>1
  <2>10. ChainInv'
    BY <1>1, <1>2, <2>1, <2>4, <2>6
  <2>11. FreshInv' /\ UdpInv'
    BY <1>1, <1>2, <2>1, <2>4
  <2> QED BY <1>1, <1>2, <2>7, <2>8, <2>9, <2>10, <2>11
<1> QED BY <1>3, <1>4

LEMMA DisconnectUdpOrderly ==
    ASSUME TypeInv, Orderly, ~hasty, DisconnectUdp \/ IoDisconnectUdp
    PROVE  Orderly'
<1> USE DEF Orderly, ReadyShape, ConnectInv, ReadsInv, ChainInv, FreshInv, UdpInv,
            Linked, IsOpen, UdpSteps, Reading, Alone
<1>1. /\ tcp = "closed" /\ udp' = "closed" /\ listening' = FALSE
      /\ UNCHANGED <<dead, resolving, socket, ready, size, udpOf, info, garbled>>
  BY DEF DisconnectUdp, IoDisconnectUdp, CloseUdp, history
<1>2. CASE qt = "disconnect" /\ io = "idle" /\ qt' = "idle" /\ io' = io
  BY <1>1, <1>2 DEF socket
<1>3. CASE io = "disconnect" /\ qt # "disconnect" /\ io' = "idle" /\ qt' = qt
  BY <1>1, <1>3 DEF socket
<1> QED BY <1>2, <1>3 DEF DisconnectUdp, IoDisconnectUdp

LEMMA SendUdpOrderly ==
    ASSUME TypeInv, Orderly, ~hasty, SendUdp
    PROVE  Orderly'
<1> USE DEF Orderly, ReadyShape, ConnectInv, ReadsInv, ChainInv, FreshInv, UdpInv,
            Linked, IsOpen, UdpSteps, Reading, Alone
<1>1. udp # "open"
  BY DEF SendUdp, TypeInv, TypeOK
<1>2. /\ qt = "send" /\ qt' = "idle"
      /\ UNCHANGED <<dead, resolving, socket, ready, size, udpSocket, io, info, garbled>>
  BY <1>1 DEF SendUdp, history, udpSocket
<1> QED BY <1>2 DEF socket, udpSocket

LEMMA ResolvedOrderly ==
    ASSUME TypeInv, Orderly, ~hasty, Resolved
    PROVE  Orderly'
<1> USE DEF Orderly, ReadyShape, ConnectInv, ReadsInv, ChainInv, FreshInv, UdpInv,
            Linked, IsOpen, UdpSteps, Reading, Alone
<1>1. /\ resolving = 1 /\ resolving' = 0 /\ tcp = "closed" /\ ready = << >>
      /\ reads = << >> /\ qt = "idle" /\ io = "idle"
      /\ UNCHANGED <<dead, socket, size, udpSocket, thread, garbled>>
  BY DEF Resolved, TypeInv, TypeOK, history
<1>2. PICK ec \in {"ok", "error"} : ready' = <<Done("resolve", ec)>>
  BY <1>1 DEF Resolved
<1>3. Len(ready') = 1 /\ DOMAIN ready' = {1} /\ ready'[1].op = "resolve"
  BY <1>2 DEF Done
<1> QED BY <1>1, <1>3 DEF socket, udpSocket, thread

LEMMA EstablishedOrderly ==
    ASSUME TypeInv, Orderly, ~hasty, Established
    PROVE  Orderly'
<1> USE DEF Orderly, ReadyShape, ConnectInv, ReadsInv, ChainInv, FreshInv, UdpInv,
            Linked, IsOpen, UdpSteps, Reading, Alone
<1>1. /\ tcp = "connecting" /\ Alone /\ writes = <<"connect">> /\ ready = << >>
      /\ taken = 0
      /\ UNCHANGED <<dead, resolving, gen, arrived, taken, reads, size, udpSocket,
                     thread, garbled>>
  BY DEF Established, history
<1>2. writes' = << >>
  BY <1>1 DEF Established
<1>3. PICK ok \in BOOLEAN :
         /\ tcp' = IF ok THEN "up" ELSE "refused"
         /\ ready' = <<Done("connect", IF ok THEN "ok" ELSE "error")>>
  BY <1>1 DEF Established
<1>4. Len(ready') = 1 /\ DOMAIN ready' = {1} /\ ready'[1].op = "connect"
      /\ \/ tcp' = "up" /\ ready'[1].ec = "ok"
         \/ tcp' = "refused" /\ ready'[1].ec = "error"
  BY <1>3 DEF Done
<1> QED BY <1>1, <1>2, <1>4 DEF udpSocket, thread

LEMMA ArriveOrderly ==
    ASSUME TypeInv, Orderly, ~hasty, Arrive
    PROVE  Orderly'
<1> USE DEF Orderly, ReadyShape, ConnectInv, ReadsInv, ChainInv, FreshInv, UdpInv,
            Linked, IsOpen, UdpSteps, Reading, Alone
<1>1. /\ tcp = "up"
      /\ UNCHANGED <<dead, resolving, tcp, gen, taken, reads, writes, ready, size,
                     udpSocket, thread, garbled>>
  BY DEF Arrive, history
<1> QED BY <1>1 DEF udpSocket, thread

LEMMA ServerEndsOrderly ==
    ASSUME TypeInv, Orderly, ~hasty, ServerEnds
    PROVE  Orderly'
<1> USE DEF Orderly, ReadyShape, ConnectInv, ReadsInv, ChainInv, FreshInv, UdpInv,
            Linked, IsOpen, UdpSteps, Reading, Alone
<1>1. /\ tcp \in {"up", "fin"} /\ tcp' \in {"fin", "rst"}
      /\ UNCHANGED <<dead, resolving, gen, arrived, taken, reads, writes, ready,
                     size, udpSocket, thread, garbled>>
  BY DEF ServerEnds, history
<1> QED BY <1>1 DEF udpSocket, thread

\* A completed operation joins a queue of at most one handler.
LEMMA Joins ==
    ASSUME TypeInv, Len(ready) <= 1, NEW h \in Handlers, ready' = Append(ready, h)
    PROVE  /\ Len(ready') = Len(ready) + 1 /\ DOMAIN ready' = 1 .. Len(ready')
           /\ Len(ready) = 0 => ready'[1] = h
           /\ Len(ready) = 1 => ready'[1] = ready[1] /\ ready'[2] = h
           /\ Len(ready) \in {0, 1}
<1>1. ready \in Seq(Handlers) /\ Len(ready) \in Nat
  BY Queues
<1>2. ready' \in Seq(Handlers)
  BY <1>1, Push
<1>3. Len(ready) \in {0, 1}
  <2>1. PICK n \in Nat : n = Len(ready)
    BY <1>1
  <2> QED BY <2>1
<1> QED BY <1>1, <1>2, <1>3, Push, EmptySeq

LEMMA WriteDoneOrderly ==
    ASSUME TypeInv, Orderly, ~hasty, WriteDone
    PROVE  Orderly'
<1> USE DEF Orderly, ReadyShape, ConnectInv, ReadsInv, ChainInv, FreshInv, UdpInv,
            Linked, IsOpen, UdpSteps, Reading, Alone
<1>1. /\ Linked /\ writes = <<"write">> /\ resolving = 0 /\ ~dead
      /\ UNCHANGED <<dead, resolving, tcp, gen, arrived, taken, reads, size,
                     udpSocket, thread, garbled>>
  BY DEF WriteDone, history, TypeInv, TypeOK
<1>2. writes' = << >>
  BY <1>1 DEF WriteDone
<1>3. PICK ec \in {"ok", "error"} : ready' = Append(ready, Done("write", ec))
  BY DEF WriteDone
<1>4. Done("write", ec) \in Handlers /\ Done("write", ec).op = "write"
  BY DoneType DEF Ops, Done
<1>5. ASSUME NEW j \in DOMAIN ready
      PROVE  ready[j].op \in Reading /\ (listening \/ ~Linked)
  <2>1. ready[j] \in Handlers
    BY Queues
  <2>2. ready[j].op \in {"resolve", "connect", "write", "header", "body"}
    BY <2>1 DEF Handlers, Ops
  <2> QED BY <1>1, <2>2
<1>6. Len(ready) \in Nat /\ DOMAIN ready = 1 .. Len(ready)
  BY Queues
<1>7. Len(ready) <= 1
  BY <1>5, <1>6
<1>8. /\ Len(ready') = Len(ready) + 1 /\ DOMAIN ready' = 1 .. Len(ready')
      /\ Len(ready) = 0 => ready'[1].op = "write"
      /\ Len(ready) = 1 => ready'[1] = ready[1] /\ ready'[2].op = "write"
      /\ Len(ready) \in {0, 1}
  BY <1>3, <1>4, <1>7, Joins
<1>9. CASE Len(ready) = 0
  <2>1. Len(ready') = 1 /\ DOMAIN ready' = {1} /\ ready'[1].op = "write"
    BY <1>8, <1>9
  <2> QED BY <1>1, <1>2, <2>1 DEF udpSocket, thread
<1>10. CASE Len(ready) = 1
  <2>1. /\ Len(ready') = 2 /\ DOMAIN ready' = {1, 2}
        /\ ready'[1] = ready[1] /\ ready'[2].op = "write"
        /\ 1 \in DOMAIN ready /\ ready[1].op \in Reading /\ listening
    BY <1>1, <1>5, <1>6, <1>8, <1>10
  <2> QED BY <1>1, <1>2, <2>1 DEF udpSocket, thread
<1> QED BY <1>8, <1>9, <1>10

LEMMA ReadDoneOrderly ==
    ASSUME TypeInv, Orderly, ~hasty, ReadDone
    PROVE  Orderly'
<1> USE DEF Orderly, ReadyShape, ConnectInv, ReadsInv, ChainInv, FreshInv, UdpInv,
            Linked, IsOpen, UdpSteps, Reading, Alone
<1>0. /\ Packet \in Nat \ {0} /\ arrived \in Nat /\ taken \in Nat
      /\ taken <= arrived /\ arrived <= Packet + 1
  BY Queues
<1>1. /\ Linked /\ reads # << >> /\ Len(reads) = 1 /\ resolving = 0 /\ ~dead
      /\ UNCHANGED <<dead, resolving, tcp, gen, arrived, writes, udpSocket,
                     thread, garbled>>
  <2>1. reads # << >> /\ ~dead
    BY DEF ReadDone
  <2>2. Linked
    BY <2>1
  <2>3. resolving = 0
    BY <2>2 DEF TypeInv, TypeOK
  <2>4. Len(reads) = 1
    <3>1. PICK n \in Nat : n = Len(reads)
      BY Queues
    <3>2. n # 0 /\ n <= 1
      BY <2>1, <3>1, Queues
    <3> QED BY <3>1, <3>2
  <2> QED BY <2>1, <2>2, <2>3, <2>4 DEF ReadDone, history
<1> DEFINE r == Head(reads)
<1>2. r = reads[1] /\ reads[1] \in Pending /\ reads' = << >>
  <2>1. Len(reads') = 0 /\ reads' \in Seq(Pending)
    BY <1>1, Queues, Pop DEF ReadDone
  <2> QED BY <1>1, <2>1, Queues, Pop, EmptySeq
<1>3. ASSUME NEW j \in DOMAIN ready
      PROVE  ready[j].op = "write"
  <2>1. ready[j] \in Handlers
    BY Queues
  <2>2. ready[j].op \in {"resolve", "connect", "write", "header", "body"}
    BY <2>1 DEF Handlers, Ops
  <2> QED BY <1>1, <2>2
<1>4. Len(ready) \in Nat /\ DOMAIN ready = 1 .. Len(ready)
  BY Queues
<1>5. Len(ready) <= 1
  BY <1>3, <1>4
<1>6. r.op \in Ops
  BY <1>2 DEF Pending, Ops
\* What the operation that is done puts into the queue, in both cases.
<1>7. ASSUME NEW h \in Handlers, ready' = Append(ready, h), h.op = r.op,
             taken' \in Nat, size' \in {0, Packet},
             listening => size' = Packet /\ taken' = Packet + 1,
             h.ec = "ok" => ~listening,
             h.ec = "ok" /\ h.op = "header" => size' = Packet /\ taken' = 1,
             h.ec = "ok" /\ h.op = "body" =>
                 /\ h.got = "packet" /\ h.of = gen
                 /\ taken' = Packet + 1 /\ size' = Packet,
             h.ec \in {"error", "aborted"} /\ h.op = "header" =>
                 /\ size' = Packet \/ ~listening
                 /\ tcp = "rst" /\ taken' = arrived
      PROVE  Orderly'
  <2>1. /\ Len(ready') = Len(ready) + 1 /\ DOMAIN ready' = 1 .. Len(ready')
        /\ Len(ready) = 0 => ready'[1] = h
        /\ Len(ready) = 1 => ready'[1] = ready[1] /\ ready'[2] = h
        /\ Len(ready) \in {0, 1}
    BY <1>5, <1>7, Joins
  <2>2. h.op \in {"header", "body"}
    BY <1>2, <1>7 DEF Pending
  <2>3. listening \/ (qt = "idle" /\ writes = << >> /\ io # "disconnect")
    BY <1>1
  <2>4. CASE Len(ready) = 0
    <3>1. Len(ready') = 1 /\ DOMAIN ready' = {1} /\ ready'[1] = h
      BY <2>1, <2>4
    <3>2. ReadyShape' /\ ConnectInv' /\ ReadsInv' /\ FreshInv'
      BY <1>1, <1>2, <2>2, <2>3, <3>1 DEF udpSocket, thread
    <3>3. ChainInv'
      BY <1>1, <1>7, <2>2, <2>3, <3>1 DEF udpSocket, thread
    <3>4. UdpInv'
      BY <1>1, <1>2, <1>7, <3>1 DEF udpSocket, thread
    <3>5. ~garbled' /\ ~dead' /\ size' \in {0, Packet}
      BY <1>1, <1>7
    <3> HIDE DEF ReadyShape, ConnectInv, ReadsInv, ChainInv, FreshInv, UdpInv
    <3> QED BY <3>2, <3>3, <3>4, <3>5
  <2>5. CASE Len(ready) = 1
    <3>1. /\ Len(ready') = 2 /\ DOMAIN ready' = {1, 2}
          /\ ready'[1] = ready[1] /\ ready'[2] = h
          /\ 1 \in DOMAIN ready /\ ready[1].op = "write" /\ writes = << >>
      BY <1>3, <1>4, <2>1, <2>5
    <3>2. ReadyShape' /\ ConnectInv' /\ ReadsInv'
      BY <1>1, <1>2, <2>2, <3>1 DEF udpSocket, thread
    <3>3. ChainInv'
      BY <1>1, <1>7, <2>2, <2>3, <3>1 DEF udpSocket, thread
    <3>4. listening
      BY <1>1, <1>4, <3>1
    <3>5. FreshInv' /\ UdpInv'
      BY <1>1, <1>2, <1>7, <3>1, <3>4 DEF udpSocket, thread
    <3>6. ~garbled' /\ ~dead' /\ size' \in {0, Packet}
      BY <1>1, <1>7
    <3> HIDE DEF ReadyShape, ConnectInv, ReadsInv, ChainInv, FreshInv, UdpInv
    <3> QED BY <3>2, <3>3, <3>5, <3>6
  <2> QED BY <2>1, <2>4, <2>5
<1>8. \A op \in Ops, got \in {"nothing", "packet", "bytes"} :
          Got(op, got) \in Handlers /\ Got(op, got).op = op
          /\ Got(op, got).ec = "ok" /\ Got(op, got).got = got /\ Got(op, got).of = gen
  BY GotType DEF Got
<1>9. \A op \in Ops, ec \in {"ok", "error", "aborted", "eof"} :
          Done(op, ec) \in Handlers /\ Done(op, ec).op = op /\ Done(op, ec).ec = ec
  BY DoneType DEF Done
<1>10. CASE /\ arrived - taken >= r.n
            /\ taken' = taken + r.n
            /\ size' = IF r.op = "header" THEN LengthAt(taken) ELSE size
            /\ ready' = Append(ready, Got(r.op, IF taken = 1 /\ r.n = Packet
                                           THEN "packet" ELSE "bytes"))
  <2>1. CASE reads[1].op = "header" /\ reads[1].n = 1
    <3>1. taken = 0 /\ ~listening
      BY <1>0, <1>1, <1>2, <1>10, <2>1
    <3>2. taken' = 1 /\ size' = Packet
      BY <1>0, <1>2, <1>10, <2>1, <3>1 DEF LengthAt
    <3>3. ready' = Append(ready, Got("header", "bytes"))
      BY <1>2, <1>10, <2>1, <3>1
    <3> QED BY <1>2, <1>7, <1>8, <2>1, <3>1, <3>2, <3>3 DEF Ops
  <2>2. CASE reads[1].op = "body" /\ reads[1].n = Packet /\ size = Packet
    <3>1. taken = 1 /\ ~listening
      BY <1>0, <1>1, <1>2, <1>10, <2>2
    <3>2. taken' = Packet + 1 /\ size' = Packet
      BY <1>0, <1>2, <1>10, <2>2, <3>1
    <3>3. ready' = Append(ready, Got("body", "packet"))
      BY <1>2, <1>10, <2>2, <3>1
    <3> QED BY <1>0, <1>2, <1>7, <1>8, <2>2, <3>1, <3>2, <3>3 DEF Ops
  <2> QED BY <1>1, <2>1, <2>2
<1>11. CASE /\ tcp # "up"
            /\ arrived - taken < r.n
            /\ ready' = Append(ready, Done(r.op, IF tcp = "fin" THEN "eof"
                                                 ELSE "error"))
            /\ taken' = arrived
            /\ size' = size
  <2> DEFINE ec == IF tcp = "fin" THEN "eof" ELSE "error"
  <2>1. ec \in {"eof", "error"} /\ (ec = "error" => tcp = "rst")
    BY <1>1, <1>11
  <2>2. listening => size' = Packet /\ taken' = Packet + 1
    BY <1>0, <1>1, <1>11
  <2> HIDE DEF ec
  <2>3. Done(r.op, ec) \in Handlers /\ Done(r.op, ec).op = r.op
        /\ Done(r.op, ec).ec = ec
    BY <1>6, <1>9, <2>1
  <2>4. ready' = Append(ready, Done(r.op, ec))
    BY <1>11 DEF ec
  <2>5. taken' \in Nat /\ size' \in {0, Packet} /\ taken' = arrived
    BY <1>0, <1>11
  <2>6. PICK h \in Handlers : h = Done(r.op, ec)
    BY <2>3
  <2>7. h.op = r.op /\ h.ec \in {"eof", "error"} /\ (h.ec = "error" => tcp = "rst")
    BY <2>1, <2>3, <2>6
  <2>8. size' = Packet \/ ~listening
    BY <2>2
  <2>9. /\ h.ec # "ok" /\ h.ec # "aborted"
        /\ h.ec \in {"error", "aborted"} => tcp = "rst"
    BY <2>7
  <2>10. ready' = Append(ready, h)
    BY <2>4, <2>6
  <2> QED BY ONLY <1>7, <2>2, <2>5, <2>7, <2>8, <2>9, <2>10
<1> QED BY <1>10, <1>11 DEF ReadDone

\* The handler that is run, and those that are left: another one or none.
LEMMA Leaves ==
    ASSUME TypeInv, ReadyShape, NEW op \in Ops, Handle(op)
    PROVE  /\ ~dead /\ io = "idle" /\ ready # << >>
           /\ Handled = ready[1] /\ ready[1] \in Handlers /\ ready[1].op = op
           /\ Tail(ready) \in Seq(Handlers)
           /\ \/ /\ Len(ready) = 1 /\ DOMAIN ready = {1}
                 /\ Tail(ready) = << >>
              \/ /\ Len(ready) = 2 /\ DOMAIN ready = {1, 2} /\ ready[2] \in Handlers
                 /\ Len(Tail(ready)) = 1 /\ DOMAIN Tail(ready) = {1}
                 /\ Tail(ready)[1] = ready[2]
<1>1. ready # << >> /\ ~dead /\ io = "idle" /\ Handled = Head(ready)
      /\ Head(ready).op = op
  BY DEF Handle, Handled
<1>2. ready \in Seq(Handlers)
  BY Queues
<1>3. /\ Len(ready) \in Nat \ {0} /\ Head(ready) = ready[1] /\ ready[1] \in Handlers
      /\ Tail(ready) \in Seq(Handlers) /\ Len(Tail(ready)) = Len(ready) - 1
      /\ \A j \in 1 .. Len(ready) - 1 : Tail(ready)[j] = ready[j + 1]
  BY <1>1, <1>2, Pop
<1>4. PICK n \in Nat : n = Len(ready)
  BY <1>3
<1>5. n = 1 \/ n = 2
  BY <1>3, <1>4 DEF ReadyShape
<1>6. DOMAIN ready = 1 .. n /\ DOMAIN Tail(ready) = 1 .. n - 1
  BY <1>2, <1>3, <1>4, EmptySeq
<1>7. CASE n = 1
  <2>1. Tail(ready) = << >>
    BY <1>3, <1>4, <1>7, EmptySeq
  <2> QED BY <1>1, <1>3, <1>4, <1>6, <1>7, <2>1
<1>8. CASE n = 2
  <2>1. ready[2] \in Handlers
    <3>1. 2 \in 1 .. Len(ready)
      BY <1>4, <1>8
    <3> QED BY <1>2, <3>1, EmptySeq
  <2> QED BY <1>1, <1>3, <1>4, <1>6, <1>8, <2>1
<1> QED BY <1>5, <1>7, <1>8

\* doDisconnect in a handler, run while no handler of a read can succeed.
LEMMA IoDisconnectOrderly ==
    ASSUME TypeInv, Orderly, ~hasty, NEW op \in {"resolve", "connect", "write"},
           Handle(op), IoDisconnect,
           UNCHANGED <<dead, resolving, size, udpSocket, qt, info, history>>
    PROVE  Orderly'
<1> USE DEF Orderly, ReadyShape, ConnectInv, ReadsInv, ChainInv, FreshInv, UdpInv,
            Linked, IsOpen, UdpSteps, Reading, Alone
<1>0. op \in Ops
  BY DEF Ops
<1>1. /\ ~dead /\ io = "idle" /\ ready[1].op = op
      /\ Tail(ready) \in Seq(Handlers)
      /\ \/ /\ Len(ready) = 1 /\ DOMAIN ready = {1}
            /\ Tail(ready) = << >>
         \/ /\ Len(ready) = 2 /\ DOMAIN ready = {1, 2} /\ ready[2] \in Handlers
            /\ Len(Tail(ready)) = 1 /\ DOMAIN Tail(ready) = {1}
            /\ Tail(ready)[1] = ready[2]
  BY <1>0, Leaves
<1>2. resolving = 0 /\ writes = << >> /\ io' = "disconnect" /\ 1 \in DOMAIN ready
  BY <1>1 DEF IoDisconnect
<1>3. qt # "disconnect"
  BY <1>1, <1>2
<1>4. CASE IsOpen
  <2>0. Linked \/ tcp = "connecting" \/ tcp = "refused"
    BY <1>4 DEF TypeInv, TypeOK
  <2>1. /\ tcp' = "closed" /\ reads' = << >> /\ writes' = << >>
        /\ ready' = Tail(ready) \o Aborted /\ UNCHANGED <<gen, arrived, taken>>
    BY <1>4 DEF IoDisconnect
  <2>2. Len(Aborted) = Len(reads) /\ Aborted \in Seq(Handlers)
    <3>1. Len(writes) = 0 /\ Len(reads) \in Nat
      BY <1>2, Queues
    <3> QED BY <3>1, AbortedType
  <2>3. CASE Len(ready) = 2
    <3>1. /\ ready[2].op \in Reading /\ ready[1].op = "write" /\ reads = << >>
      BY <1>1, <2>3
    <3>2. Len(reads) = 0
      BY <3>1
    <3>3. Aborted = << >>
      BY <2>2, <3>2, EmptySeq
    <3>4. ready' = Tail(ready)
      BY <1>1, <2>1, <3>3
    <3>5. Len(ready') = 1 /\ DOMAIN ready' = {1} /\ ready'[1] = ready[2]
      BY <1>1, <2>3, <3>4
    <3>6. tcp # "connecting" /\ tcp # "refused"
      BY <1>1, <2>3
    <3>7. listening
      BY <1>1, <1>2, <2>0, <2>3, <3>1, <3>6
    <3>8. size = Packet /\ ready[2].ec # "ok"
      BY <1>1, <2>3, <3>1, <3>7
    <3>9. ReadyShape' /\ ConnectInv' /\ ReadsInv'
      BY <1>1, <1>2, <2>1, <3>1, <3>5
    <3>10. ChainInv' /\ FreshInv'
      BY <1>1, <1>2, <2>1, <3>1, <3>5, <3>8
    <3>11. UdpInv'
      BY <1>1, <1>2, <1>3, <2>1, <3>5, <3>7 DEF udpSocket
    <3> HIDE DEF ReadyShape, ConnectInv, ReadsInv, ChainInv, FreshInv, UdpInv
    <3> QED BY <1>1, <3>9, <3>10, <3>11 DEF history
  <2>4. CASE Len(ready) = 1 /\ reads = << >>
    <3>1. Aborted = << >> /\ Tail(ready) = << >>
      BY <1>1, <2>2, <2>4, EmptySeq
    <3>2. Tail(ready) \o Aborted = << >>
      BY <3>1
    <3>3. ready' = << >>
      BY ONLY <2>1, <3>2
    <3>4. DOMAIN ready' = {} /\ Len(ready') = 0
      BY ONLY <3>3
    <3> QED BY <1>1, <1>2, <1>3, <2>1, <3>3, <3>4 DEF udpSocket, history
  <2>5. CASE Len(ready) = 1 /\ reads # << >>
    <3>1. Len(reads) = 1 /\ Tail(ready) = << >>
      <4>1. PICK n \in Nat : n = Len(reads)
        BY Queues
      <4>2. n # 0 /\ n <= 1
        BY <2>5, <4>1, Queues
      <4> QED BY <1>1, <2>5, <4>1, <4>2
    <3>2. ready' = Aborted /\ ready' \in Seq(Handlers)
      <4>1. ready' = << >> \o Aborted /\ Aborted \in Seq(Handlers)
        BY <2>1, <2>2, <3>1
      <4> QED BY ONLY <4>1
    <3>3. Aborted[1] = Done(reads[1].op, "aborted") /\ reads[1].op \in Reading
      BY <3>1, AbortedType, Queues DEF Pending
    <3>4. Len(ready') = 1 /\ DOMAIN ready' = {1} /\ ready'[1].ec = "aborted"
          /\ ready'[1].op \in {"header", "body"}
      BY <2>2, <3>1, <3>2, <3>3, EmptySeq DEF Done
    <3>5. listening /\ size = Packet
      BY <1>1, <1>2, <1>4, <2>5
    <3> QED BY <1>1, <1>2, <1>3, <2>1, <3>4, <3>5 DEF udpSocket, history
  <2> QED BY <1>1, <2>3, <2>4, <2>5
<1>5. CASE ~IsOpen
  <2>1. UNCHANGED socket /\ ready' = Tail(ready)
    BY <1>5 DEF IoDisconnect
  <2>2. CASE Len(ready) = 1
    <3>1. ready' = << >> /\ DOMAIN ready' = {} /\ Len(ready') = 0
      BY <1>1, <2>1, <2>2
    <3> QED BY <1>1, <1>2, <1>3, <1>5, <2>1, <3>1, SMTT(30) DEF udpSocket, history, socket
  <2>3. CASE Len(ready) = 2
    <3>1. Len(ready') = 1 /\ DOMAIN ready' = {1} /\ ready'[1] = ready[2]
      BY <1>1, <2>1, <2>3
    <3> QED BY <1>1, <1>2, <1>3, <1>5, <2>1, <2>3, <3>1 DEF udpSocket, history, socket
  <2> QED BY <1>1, <2>2, <2>3
<1> QED BY <1>4, <1>5

LEMMA HandleResolveOrderly ==
    ASSUME TypeInv, Orderly, ~hasty, HandleResolve
    PROVE  Orderly'
<1> USE DEF Orderly, ReadyShape, ConnectInv, ReadsInv, ChainInv, FreshInv, UdpInv,
            Linked, IsOpen, UdpSteps, Reading, Alone
<1>0. /\ Handle("resolve") /\ "resolve" \in Ops
      /\ UNCHANGED <<dead, resolving, size, udpSocket, qt, info, history>>
  BY DEF HandleResolve, Ops
<1>1. /\ ~dead /\ io = "idle" /\ ready[1].op = "resolve" /\ 1 \in DOMAIN ready
      /\ Len(ready) = 1 => Tail(ready) = << >>
  BY <1>0, Leaves
<1>2. /\ Alone /\ Len(ready) = 1 /\ tcp = "closed" /\ Tail(ready) = << >>
      /\ reads = << >> /\ writes = << >> /\ udp = "closed" /\ ~listening
  BY <1>1
<1>3. CASE /\ Handled.ec = "ok"
           /\ gen < MaxSockets
           /\ tcp' = "connecting" /\ gen' = gen + 1
           /\ arrived' = 0 /\ taken' = 0
           /\ reads' = << >> /\ writes' = <<"connect">>
           /\ ready' = Tail(ready) \o Aborted
           /\ UNCHANGED io
  <2>1. Aborted = << >>
    BY <1>2 DEF Aborted
  <2>2. ready' = << >>
    BY <1>2, <1>3, <2>1
  <2>3. DOMAIN ready' = {} /\ Len(ready') = 0
    BY ONLY <2>2
  <2> QED BY <1>0, <1>1, <1>2, <1>3, <2>2, <2>3 DEF udpSocket, history
<1>4. CASE IoDisconnect
  BY <1>0, <1>4, IoDisconnectOrderly
<1> QED BY <1>3, <1>4 DEF HandleResolve

LEMMA HandleConnectOrderly ==
    ASSUME TypeInv, Orderly, ~hasty, HandleConnect
    PROVE  Orderly'
<1> USE DEF Orderly, ReadyShape, ConnectInv, ReadsInv, ChainInv, FreshInv, UdpInv,
            Linked, IsOpen, UdpSteps, Reading, Alone
<1>0. /\ Handle("connect") /\ "connect" \in Ops
      /\ UNCHANGED <<dead, resolving, size, udpSocket, qt, info, history>>
  BY DEF HandleConnect, Ops
<1>1. /\ ~dead /\ io = "idle" /\ ready[1].op = "connect" /\ 1 \in DOMAIN ready
      /\ Len(ready) = 1 => Tail(ready) = << >>
      /\ Handled = ready[1]
  BY <1>0, Leaves
<1>2. /\ Alone /\ Len(ready) = 1 /\ taken = 0 /\ Tail(ready) = << >>
      /\ reads = << >> /\ writes = << >>
  BY <1>1
<1>3. CASE Handled.ec = "ok" /\ IsOpen
  <2>1. Linked /\ ~listening
    <3>1. Linked
      BY <1>1, <1>2, <1>3
    <3>2. taken # Packet + 1
      BY <1>2, Queues
    <3> QED BY <3>1, <3>2
  <2>2. AsyncRead(Tail(ready)) /\ UNCHANGED io
    BY <1>3 DEF HandleConnect
  <2>3. /\ reads' = <<[op |-> "header", n |-> 1]>> /\ ready' = << >>
        /\ UNCHANGED <<tcp, gen, arrived, taken, writes>>
    BY <1>2, <1>3, <2>2 DEF AsyncRead, StartRead
  <2>4. DOMAIN ready' = {} /\ Len(ready') = 0 /\ Len(reads') = 1
        /\ reads'[1].op = "header" /\ reads'[1].n = 1
    BY ONLY <2>3
  <2> QED BY <1>0, <1>1, <1>2, <2>1, <2>2, <2>3, <2>4 DEF udpSocket, history
<1>4. CASE IoDisconnect
  BY <1>0, <1>4, IoDisconnectOrderly
<1> QED BY <1>3, <1>4 DEF HandleConnect

\* What is left when a handler only ends, and the read it belonged to with it.
LEMMA EndOrderly ==
    ASSUME TypeInv, Orderly, ~hasty, NEW op \in {"write", "header", "body"},
           Handle(op), ready' = Tail(ready),
           UNCHANGED <<dead, resolving, socket, size, udpSocket, thread, garbled>>
    PROVE  Orderly'
<1> USE DEF Orderly, ReadyShape, ConnectInv, ReadsInv, ChainInv, FreshInv, UdpInv,
            Linked, IsOpen, UdpSteps, Reading, Alone
<1>1. /\ ~dead /\ io = "idle" /\ ready[1].op = op /\ ready # << >>
      /\ \/ /\ Len(ready) = 1 /\ DOMAIN ready = {1}
            /\ Tail(ready) = << >>
         \/ /\ Len(ready) = 2 /\ DOMAIN ready = {1, 2}
            /\ Len(Tail(ready)) = 1 /\ DOMAIN Tail(ready) = {1}
            /\ Tail(ready)[1] = ready[2]
  BY Leaves DEF Ops
<1>2. CASE Len(ready) = 1
  <2>1. ready' = << >>
    BY <1>1, <1>2
  <2>2. DOMAIN ready' = {} /\ Len(ready') = 0
    BY ONLY <2>1
  <2>3. tcp # "connecting" /\ tcp # "refused" /\ resolving # 1
    BY <1>1
  <2>4. ReadyShape' /\ ReadsInv' /\ ChainInv'
    BY <1>1, <2>1, <2>2 DEF udpSocket, socket, thread
  <2>5. ConnectInv'
    BY <1>1, <2>1, <2>2, <2>3 DEF udpSocket, socket, thread
  <2>6. FreshInv' /\ UdpInv'
    BY <1>1, <2>1, <2>2, <2>3 DEF udpSocket, socket, thread
  <2> HIDE DEF ReadyShape, ConnectInv, ReadsInv, ChainInv, FreshInv, UdpInv
  <2> QED BY <1>1, <2>4, <2>6, <2>5
<1>3. CASE Len(ready) = 2
  <2>1. Len(ready') = 1 /\ DOMAIN ready' = {1} /\ ready'[1] = ready[2]
        /\ 2 \in DOMAIN ready /\ 1 \in DOMAIN ready
    BY <1>1, <1>3
  <2>2. tcp # "connecting" /\ tcp # "refused" /\ resolving # 1
    BY <1>1, <1>3
  <2>3. \/ ready[1].op \in Reading /\ ready[2].op = "write"
        \/ ready[2].op \in Reading /\ ready[1].op = "write"
    BY <1>3
  <2>4. ReadyShape' /\ ReadsInv'
    BY <1>1, <2>1, <2>2, <2>3, SMTT(30) DEF udpSocket, socket, thread
  <2>5. ConnectInv'
    BY <1>1, <2>1, <2>2, <2>3 DEF udpSocket, socket, thread
  <2>6. ChainInv'
    BY <2>1, <2>3 DEF udpSocket, socket, thread
  <2>7. FreshInv' /\ UdpInv'
    BY <1>1, <2>1, <2>2, <2>3 DEF udpSocket, socket, thread
  <2> HIDE DEF ReadyShape, ConnectInv, ReadsInv, ChainInv, FreshInv, UdpInv
  <2> QED BY <1>1, <2>4, <2>6, <2>7, <2>5
<1> QED BY <1>1, <1>2, <1>3

LEMMA HandleWriteOrderly ==
    ASSUME TypeInv, Orderly, ~hasty, HandleWrite
    PROVE  Orderly'
<1>1. CASE Handled.ec = "ok"
  BY <1>1, EndOrderly DEF HandleWrite, thread, history
<1>2. CASE Handled.ec # "ok"
  BY <1>2, IoDisconnectOrderly DEF HandleWrite
<1> QED BY <1>1, <1>2

LEMMA HandleBodyErrorOrderly ==
    ASSUME TypeInv, Orderly, ~hasty, HandleBodyError
    PROVE  Orderly'
BY EndOrderly DEF HandleBodyError, history

LEMMA HandleHeaderOrderly ==
    ASSUME TypeInv, Orderly, ~hasty, HandleHeader
    PROVE  Orderly'
<1> USE DEF Orderly, ReadyShape, ConnectInv, ReadsInv, ChainInv, FreshInv, UdpInv,
            Linked, IsOpen, UdpSteps, Reading, Alone
<1>0. /\ Handle("header") /\ "header" \in Ops
      /\ UNCHANGED <<dead, resolving, size, udpSocket, thread, history>>
  BY DEF HandleHeader, Ops
<1>1. CASE Handled.ec = "eof"
  BY <1>0, <1>1, EndOrderly DEF HandleHeader, history
<1>2. CASE Handled.ec # "eof"
  <2> DEFINE rest == Tail(ready)
  <2>1. /\ ~dead /\ io = "idle" /\ ready[1].op = "header" /\ ready # << >>
        /\ ready[1].ec # "eof" /\ ready[1] \in Handlers /\ rest \in Seq(Handlers)
        /\ \/ Len(ready) = 1 /\ DOMAIN ready = {1} /\ rest = << >>
           \/ /\ Len(ready) = 2 /\ DOMAIN ready = {1, 2}
              /\ Len(rest) = 1 /\ DOMAIN rest = {1} /\ rest[1] = ready[2]
    BY <1>0, <1>2, Leaves
  <2>2. 1 \in DOMAIN ready /\ reads = << >> /\ resolving # 1
        /\ tcp # "connecting" /\ tcp # "refused"
    BY <2>1
  <2>3. StartRead("body", size, rest)
    BY <1>2 DEF HandleHeader, BodySize
  <2>4. UNCHANGED <<tcp, gen, arrived, taken, writes>>
    BY <2>3 DEF StartRead
  <2>5. \/ rest = << >>
        \/ /\ Len(rest) = 1 /\ DOMAIN rest = {1} /\ rest[1].op = "write"
           /\ writes = << >> /\ resolving = 0 /\ (listening \/ tcp = "closed")
    <3>1. CASE Len(ready) = 2
      <4>1. ready[2].op = "write" /\ 2 \in DOMAIN ready
        BY <2>1, <3>1
      <4>2. Linked \/ tcp = "closed"
        BY <2>2 DEF TypeInv, TypeOK
      <4> QED BY <2>1, <2>2, <3>1, <4>1, <4>2
    <3> QED BY <2>1, <3>1
  <2>6. ready[1].ec \in {"ok", "error", "aborted"}
    BY <2>1 DEF Handlers
  <2>7. Packet \in Nat \ {0}
    BY Queues
  <2>8. listening \/ tcp = "closed" \/ (qt = "idle" /\ writes = << >>)
    BY <2>1, <2>2 DEF TypeInv, TypeOK
  <2> HIDE DEF rest
  <2>9. CASE size = Packet /\ IsOpen
    <3>1. reads' = <<[op |-> "body", n |-> Packet]>> /\ ready' = rest
      BY <2>2, <2>3, <2>7, <2>9 DEF StartRead
    <3>2. reads' # << >> /\ Len(reads') = 1 /\ reads'[1].op = "body"
          /\ reads'[1].n = Packet
      BY ONLY <3>1
    <3>3. Linked
      BY <2>2, <2>9 DEF TypeInv, TypeOK
    <3>4. (taken = 1 /\ ~listening) \/ (tcp = "rst" /\ taken = arrived)
      BY <2>1, <2>2, <2>6, <2>9
    <3>5. \/ ready' = << >> /\ DOMAIN ready' = {} /\ Len(ready') = 0
          \/ /\ Len(ready') = 1 /\ DOMAIN ready' = {1} /\ ready'[1].op = "write"
             /\ writes = << >> /\ resolving = 0 /\ listening
      BY <2>5, <2>9, <3>1
    <3>6. ReadyShape'
      <4>1. PICK n \in {0, 1} : Len(ready') = n
        BY <3>5
      <4>2. n <= 2 /\ n # 2
        BY ONLY <4>1
      <4> QED BY <4>1, <4>2
    <3>7. ConnectInv'
      BY <1>0, <2>2, <2>4, <3>3, <3>5
    <3>8. ReadsInv'
      BY <1>0, <2>1, <2>4, <2>9, <3>2, <3>3, <3>4, <3>5 DEF udpSocket, thread, history
    <3>9. ChainInv' /\ UdpInv'
      BY <1>0, <2>1, <2>2, <2>4, <2>9, <3>3, <3>5 DEF udpSocket, thread, history
    <3>10. FreshInv'
      BY <1>0, <2>1, <2>4, <2>8, <3>3, <3>5 DEF udpSocket, thread, history
    <3> HIDE DEF ReadyShape, ConnectInv, ReadsInv, ChainInv, FreshInv, UdpInv
    <3> QED BY <1>0, <2>1, <3>7, <3>8, <3>9, <3>10, <3>6 DEF history
  <2>10. CASE size = Packet /\ ~IsOpen
    <3>1. PICK h \in Handlers : h = Done("body", "error")
      BY DoneType DEF Ops
    <3>2. h.op = "body" /\ h.ec = "error"
      BY <3>1 DEF Done
    <3>3. reads' = << >> /\ ready' = Append(rest, h)
      BY <2>2, <2>3, <2>7, <2>10, <3>1 DEF StartRead
    <3>4. \/ Len(ready') = 1 /\ DOMAIN ready' = {1} /\ ready'[1] = h
          \/ /\ Len(ready') = 2 /\ DOMAIN ready' = {1, 2}
             /\ ready'[1].op = "write" /\ ready'[2] = h /\ resolving = 0
             /\ qt # "disconnect"
      <4>1. ready' \in Seq(Handlers) /\ Len(ready') = Len(rest) + 1
            /\ \A j \in 1 .. Len(rest) : ready'[j] = rest[j]
            /\ ready'[Len(rest) + 1] = h
        BY <2>1, <3>3, Push
      <4>2. CASE rest = << >>
        <5>1. ready' = <<h>>
          BY <3>3, <4>2
        <5>2. Len(ready') = 1 /\ DOMAIN ready' = {1} /\ ready'[1] = h
          BY ONLY <5>1
        <5> QED BY <5>2
      <4>3. CASE Len(rest) = 1 /\ rest[1].op = "write" /\ resolving = 0
        <5>1. qt # "disconnect"
          BY <2>1, <2>5, <4>3 DEF rest
        <5> QED BY <4>1, <4>3, <5>1, EmptySeq
      <4> QED BY <2>5, <4>2, <4>3
    <3>5. tcp = "closed" /\ writes = << >>
      BY <2>10
    <3>6. ReadyShape' /\ ConnectInv' /\ ReadsInv' /\ FreshInv'
      BY <1>0, <2>1, <2>2, <2>4, <3>2, <3>3, <3>4, <3>5 DEF udpSocket, thread, history
    <3>7. ChainInv' /\ UdpInv'
      BY <1>0, <2>1, <2>2, <2>4, <2>10, <3>2, <3>3, <3>4, <3>5
      DEF udpSocket, thread, history
    <3> HIDE DEF ReadyShape, ConnectInv, ReadsInv, ChainInv, FreshInv, UdpInv
    <3> QED BY <1>0, <2>1, <3>6, <3>7 DEF history
  <2>11. CASE size # Packet
    <3>1. size = 0 /\ tcp = "rst" /\ ~listening
      BY <2>1, <2>2, <2>6, <2>11
    <3>2. rest = << >>
      BY <2>5, <3>1
    <3>3. PICK h \in Handlers : h = Got("body", "nothing")
      BY GotType DEF Ops
    <3>4. h.op = "body" /\ h.ec = "ok" /\ h.got = "nothing"
      BY <3>3 DEF Got
    <3>5. reads' = << >> /\ ready' = <<h>>
      BY <2>2, <2>3, <3>1, <3>2, <3>3 DEF StartRead
    <3>6. Len(ready') = 1 /\ DOMAIN ready' = {1} /\ ready'[1] = h
      BY ONLY <3>5
    <3>7. qt = "idle" /\ writes = << >>
      BY <2>8, <3>1
    <3> QED BY <1>0, <2>1, <2>2, <2>4, <3>1, <3>4, <3>5, <3>6, <3>7
            DEF udpSocket, thread, history
  <2> QED BY <2>9, <2>10, <2>11
<1> QED BY <1>1, <1>2

\* The only handler of an orderly client that ends it is that of a read of
\* nothing, on a connection reset before its first length.
LEMMA HandleNothingOrderly ==
    ASSUME TypeInv, Orderly, ~hasty, HandleNothing
    PROVE  Orderly'
<1> USE DEF Orderly, ReadyShape, ConnectInv, ReadsInv, ChainInv, FreshInv, UdpInv,
            Linked, IsOpen, UdpSteps, Reading, Alone
<1>1. /\ Handle("body") /\ "body" \in Ops
      /\ Handled.ec = "ok" /\ Handled.got = "nothing"
      /\ UNCHANGED <<resolving, socket, ready, size, udpSocket, thread, history>>
  BY DEF HandleNothing, Ops
<1>2. /\ ready[1].op = "body" /\ ready[1].ec = "ok" /\ ready[1].got = "nothing"
      /\ 1 \in DOMAIN ready
  BY <1>1, Leaves
<1>3. tcp = "rst" /\ size = 0
  BY <1>2
<1> QED BY <1>1, <1>3 DEF socket, udpSocket, thread, history

LEMMA HandleBytesNever ==
    ASSUME TypeInv, Orderly, HandleBytes
    PROVE  FALSE
<1>1. /\ Handle("body") /\ "body" \in Ops
      /\ Handled.ec = "ok" /\ Handled.got = "bytes"
  BY DEF HandleBytes, Ops
<1>2. /\ ready[1].op = "body" /\ ready[1].ec = "ok" /\ ready[1].got = "bytes"
      /\ 1 \in DOMAIN ready
  BY <1>1, Leaves DEF Orderly
<1> QED BY <1>2 DEF Orderly, ChainInv

LEMMA HandleFirstDataOrderly ==
    ASSUME TypeInv, Orderly, ~hasty, HandleFirstData
    PROVE  Orderly'
<1> USE DEF Orderly, ReadyShape, ConnectInv, ReadsInv, ChainInv, FreshInv, UdpInv,
            Linked, IsOpen, UdpSteps, Reading, Alone
<1>1. /\ Handle("body") /\ "body" \in Ops
      /\ Handled.ec = "ok" /\ Handled.got = "packet"
      /\ io' = "open" /\ info' = Handled.of /\ ready' = Tail(ready)
      /\ UNCHANGED <<dead, resolving, socket, size, udpSocket, qt, history>>
  BY DEF HandleFirstData, Ops
<1>2. /\ ready[1].op = "body" /\ ready[1].ec = "ok" /\ ready[1].got = "packet"
      /\ Handled = ready[1] /\ 1 \in DOMAIN ready /\ ~dead /\ io = "idle"
      /\ \/ Len(ready) = 1 /\ DOMAIN ready = {1} /\ Tail(ready) = << >>
         \/ Len(ready) = 2 /\ DOMAIN ready = {1, 2}
  BY <1>1, Leaves
<1>3. /\ Linked /\ ~listening /\ qt = "idle" /\ writes = << >> /\ reads = << >>
      /\ Handled.of = gen /\ taken = Packet + 1 /\ size = Packet /\ udp = "closed"
      /\ resolving # 1
  BY <1>2
<1>4. Len(ready) # 2
  BY <1>2, <1>3
<1>5. ready' = << >> /\ resolving = 0
  BY <1>1, <1>2, <1>3, <1>4 DEF TypeInv, TypeOK
<1>6. DOMAIN ready' = {} /\ Len(ready') = 0
  BY ONLY <1>5
<1>7. ReadyShape' /\ ReadsInv' /\ ChainInv' /\ ~garbled' /\ ~dead'
      /\ size' \in {0, Packet}
  BY <1>1, <1>2, <1>3, <1>6 DEF socket, history
<1>8. ConnectInv' /\ FreshInv' /\ UdpInv'
  BY <1>1, <1>3, <1>5, <1>6 DEF socket, udpSocket, history
<1> HIDE DEF ReadyShape, ConnectInv, ReadsInv, ChainInv, FreshInv, UdpInv
<1> QED BY <1>7, <1>8

LEMMA UdpOrderly ==
    ASSUME TypeInv, Orderly, ~hasty, OpenUdp \/ BindUdp \/ ListenUdp
    PROVE  Orderly'
<1> USE DEF Orderly, ReadyShape, ConnectInv, ReadsInv, ChainInv, FreshInv, UdpInv,
            Linked, IsOpen, UdpSteps, Reading, Alone
<1>1. /\ UNCHANGED <<resolving, socket, ready, size, qt, info, history>>
      /\ ~dead /\ io \in UdpSteps
  BY DEF OpenUdp, BindUdp, ListenUdp, history
<1>2. DOMAIN ready = {} /\ Len(ready) = 0 /\ Len(reads) = 0
  BY <1>1
<1>3. CASE OpenUdp
  <2>1. udp' = "open" /\ io' = "bind" /\ UNCHANGED <<dead, udpOf, listening>>
        /\ io = "open"
    BY <1>3 DEF OpenUdp
  <2> QED BY <1>1, <1>2, <2>1 DEF socket, history
<1>4. CASE BindUdp
  <2>1. udp' = "bound" /\ udpOf' = info /\ io' = "listen"
        /\ UNCHANGED <<dead, listening>> /\ io = "bind"
    BY <1>4 DEF BindUdp
  <2> QED BY <1>1, <1>2, <2>1 DEF socket, history
<1>5. CASE ListenUdp
  <2>1. listening' = TRUE /\ io' = "read" /\ UNCHANGED <<dead, udp, udpOf>>
        /\ io = "listen"
    BY <1>5 DEF ListenUdp
  <2> QED BY <1>1, <1>2, <2>1 DEF socket, history
<1> QED BY <1>3, <1>4, <1>5

LEMMA ReadOnOrderly ==
    ASSUME TypeInv, Orderly, ~hasty, ReadOn
    PROVE  Orderly'
<1> USE DEF Orderly, ReadyShape, ConnectInv, ReadsInv, ChainInv, FreshInv, UdpInv,
            Linked, IsOpen, UdpSteps, Reading, Alone
<1>1. /\ io = "read" /\ io' = "idle" /\ ~dead
      /\ UNCHANGED <<dead, resolving, size, udpSocket, qt, info, history>>
      /\ AsyncRead(ready)
  BY DEF ReadOn
<1>2. ready = << >> /\ reads = << >> /\ writes = << >> /\ Linked /\ listening
  BY <1>1
<1>3. /\ reads' = <<[op |-> "header", n |-> 1]>> /\ ready' = << >>
      /\ UNCHANGED <<tcp, gen, arrived, taken, writes>>
  BY <1>1, <1>2 DEF AsyncRead, StartRead
<1>4. DOMAIN ready' = {} /\ Len(ready') = 0 /\ Len(reads') = 1
      /\ reads'[1].op = "header" /\ reads'[1].n = 1
  BY ONLY <1>3
<1> QED BY <1>1, <1>2, <1>3, <1>4 DEF udpSocket, history

LEMMA OrderlyStep ==
    ASSUME TypeInv, Orderly, ~hasty, ~hasty', [Next]_vars
    PROVE  Orderly'
<1>1. CASE Next
  BY <1>1, ConnectOrderly, DisconnectOrderly, SendOrderly, DisconnectUdpOrderly,
     SendUdpOrderly, ResolvedOrderly, EstablishedOrderly, ArriveOrderly,
     ServerEndsOrderly, WriteDoneOrderly, ReadDoneOrderly, HandleResolveOrderly,
     HandleConnectOrderly, HandleWriteOrderly, HandleHeaderOrderly,
     HandleBodyErrorOrderly, HandleNothingOrderly, HandleBytesNever,
     HandleFirstDataOrderly, UdpOrderly, ReadOnOrderly
  DEF Next
<1>2. CASE UNCHANGED vars
  BY <1>2 DEF vars, socket, udpSocket, thread, history, Orderly, ReadyShape,
     ConnectInv, ReadsInv, ChainInv, FreshInv, UdpInv, Linked, IsOpen, Alone
<1> QED BY <1>1, <1>2

-----------------------------------------------------------------------------
(* A connection that is up *)

\* What a queue holds after one more handler has joined it.
LEMMA Grows ==
    ASSUME TypeInv, NEW h \in Handlers, ready' = Append(ready, h)
    PROVE  /\ \A j \in DOMAIN ready' :
                  (j \in DOMAIN ready /\ ready'[j] = ready[j]) \/ ready'[j] = h
           /\ \A j \in DOMAIN ready : j \in DOMAIN ready' /\ ready'[j] = ready[j]
           /\ \E j \in DOMAIN ready' : ready'[j] = h
<1>1. PICK n \in Nat : n = Len(ready) /\ DOMAIN ready = 1 .. n
  BY Queues
<1>2. ready' \in Seq(Handlers) /\ Len(ready') = n + 1
      /\ (\A j \in 1 .. n : ready'[j] = ready[j]) /\ ready'[n + 1] = h
  BY <1>1, Queues, Push
<1>3. DOMAIN ready' = 1 .. n + 1
  BY <1>2, EmptySeq
<1> QED BY <1>1, <1>2, <1>3

LEMMA UpStep ==
    ASSUME TypeInv, Orderly, UpInv, ~hasty, ~hasty', [Next]_vars
    PROVE  UpInv'
<1> USE DEF UpInv
<1>1. ASSUME tcp' # "up" PROVE UpInv'
  BY <1>1
<1>2. CASE ClickConnect
  BY <1>1, <1>2 DEF ClickConnect, IsOpen, socket
<1>3. CASE ClickDisconnect
  BY <1>1, <1>3 DEF ClickDisconnect, DisconnectTcp, CloseTcp, IsOpen, socket
<1>4. CASE ClickSend
  BY <1>4 DEF ClickSend, udpSocket
<1>5. CASE DisconnectUdp \/ IoDisconnectUdp
  BY <1>1, <1>5 DEF DisconnectUdp, IoDisconnectUdp, Orderly, UdpInv, socket
<1>6. CASE SendUdp
  BY <1>6 DEF SendUdp, socket
<1>7. CASE Resolved
  <2>1. resolving = 1
    BY <1>7 DEF Resolved, Orderly, ConnectInv, TypeInv, TypeOK
  <2> QED BY <1>1, <1>7, <2>1 DEF Resolved, Orderly, ConnectInv, socket
<1>8. CASE Established
  <2>1. PICK ok \in BOOLEAN :
           /\ tcp' = IF ok THEN "up" ELSE "refused"
           /\ ready' = Append(ready, Done("connect", IF ok THEN "ok" ELSE "error"))
    BY <1>8 DEF Established
  <2>2. CASE ok
    <3>1. ready = << >>
      BY <1>8 DEF Established, Orderly, ConnectInv
    <3>2. ready' = <<Done("connect", "ok")>>
      BY <2>1, <2>2, <3>1
    <3>3. DOMAIN ready' = {1} /\ ready'[1] = Done("connect", "ok")
      BY ONLY <3>2
    <3> QED BY <3>3 DEF Done
  <2>3. CASE ~ok
    BY <1>1, <2>1, <2>3
  <2> QED BY <2>2, <2>3
<1>9. CASE Arrive
  BY <1>9 DEF Arrive, udpSocket, thread
<1>10. CASE ServerEnds
  BY <1>1, <1>10 DEF ServerEnds
<1>11. CASE WriteDone
  <2>1. PICK ec \in {"ok", "error"} : /\ ready' = Append(ready, Done("write", ec))
                                      /\ tcp = "up" => ec = "ok"
    BY <1>11 DEF WriteDone
  <2>2. PICK h \in Handlers : h = Done("write", ec)
    BY DoneType DEF Ops
  <2>3. ready' = Append(ready, h) /\ h.ec = ec
    BY <2>1, <2>2 DEF Done
  <2> QED BY <1>11, <2>1, <2>3, Grows DEF WriteDone, udpSocket, thread
<1>12. CASE ReadDone
  <2> SUFFICES ASSUME tcp = "up" PROVE UpInv'
    BY <1>1, <1>12 DEF ReadDone
  <2>1. Head(reads) = reads[1] /\ reads[1] \in Pending
    BY <1>12, Queues, Pop DEF ReadDone
  <2>2. PICK got \in {"packet", "bytes"} :
             ready' = Append(ready, Got(reads[1].op, got))
    BY <1>12, <2>1 DEF ReadDone
  <2>3. PICK h \in Handlers : h = Got(reads[1].op, got)
    BY <2>1, GotType DEF Ops, Pending
  <2>4. h.ec = "ok" /\ h.op \in Reading /\ ready' = Append(ready, h)
    BY <2>1, <2>2, <2>3 DEF Got, Pending, Reading
  <2> QED BY <1>12, <2>4, Grows DEF ReadDone
<1>13. CASE HandleResolve
  <2>1. tcp = "closed"
    <3>1. 1 \in DOMAIN ready /\ ready[1].op = "resolve"
      BY <1>13, Leaves DEF HandleResolve, Orderly, Ops
    <3> QED BY <3>1 DEF Orderly, ConnectInv
  <2>2. tcp' \in {"connecting", "closed"}
    BY <1>13, <2>1 DEF HandleResolve, IoDisconnect, IsOpen, socket
  <2> QED BY <1>1, <2>2
<1>14. ASSUME IoDisconnect PROVE UpInv'
  BY <1>1, <1>14 DEF IoDisconnect, IsOpen, socket
<1>15. CASE HandleConnect
  <2>1. CASE Handled.ec = "ok" /\ IsOpen
    <3>1. /\ AsyncRead(Tail(ready)) /\ IsOpen
          /\ UNCHANGED <<io, udpSocket>> /\ Handle("connect")
      BY <1>15, <2>1 DEF HandleConnect
    <3>2. reads' = Append(reads, [op |-> "header", n |-> 1]) /\ ready' = Tail(ready)
          /\ tcp' = tcp
      BY <3>1 DEF AsyncRead, StartRead
    <3>3. reads' # << >>
      <4>1. [op |-> "header", n |-> 1] \in Pending
        BY DEF Pending
      <4> QED BY <3>2, <4>1, Queues, Push
    <3>4. 1 \in DOMAIN ready /\ ready[1].op = "connect"
          /\ (Len(ready) = 1 => Tail(ready) = << >>)
      BY <3>1, Leaves DEF Orderly, Ops
    <3>5. ready' = << >>
      BY <3>2, <3>4 DEF Orderly, ConnectInv
    <3>6. DOMAIN ready' = {}
      BY ONLY <3>5
    <3> QED BY <3>3, <3>6
  <2> QED BY <1>14, <1>15, <2>1 DEF HandleConnect
<1>16. CASE HandleWrite
  <2>1. CASE Handled.ec = "ok"
    <3>1. /\ Handle("write") /\ ready' = Tail(ready)
          /\ UNCHANGED <<socket, io, udpSocket>>
      BY <1>16, <2>1 DEF HandleWrite
    <3>2. /\ ready[1].op = "write"
          /\ \/ Len(ready) = 1 /\ DOMAIN ready = {1} /\ Tail(ready) = << >>
             \/ /\ Len(ready) = 2 /\ DOMAIN ready = {1, 2}
                /\ DOMAIN Tail(ready) = {1} /\ Tail(ready)[1] = ready[2]
      BY <3>1, Leaves DEF Orderly, Ops
    <3>3. CASE Len(ready) = 1
      <4>1. DOMAIN ready' = {} /\ DOMAIN ready = {1}
        <5>1. ready' = << >> /\ DOMAIN ready = {1}
          BY <3>1, <3>2, <3>3
        <5> QED BY ONLY <5>1
      <4> QED BY <3>1, <3>2, <4>1 DEF socket, udpSocket, Reading
    <3>4. CASE Len(ready) = 2
      <4>1. DOMAIN ready' = {1} /\ DOMAIN ready = {1, 2} /\ ready'[1] = ready[2]
        BY <3>1, <3>2, <3>4
      <4> QED BY <3>1, <3>2, <4>1 DEF socket, udpSocket, Reading
    <3> QED BY <3>2, <3>3, <3>4
  <2> QED BY <1>14, <1>16, <2>1 DEF HandleWrite
<1>17. CASE HandleHeader
  <2> SUFFICES ASSUME tcp = "up" PROVE UpInv'
    BY <1>1, <1>17 DEF HandleHeader, StartRead, socket
  <2>1. /\ ready[1].op = "header" /\ 1 \in DOMAIN ready /\ Handled = ready[1]
        /\ \/ Len(ready) = 1 /\ DOMAIN ready = {1} /\ Tail(ready) = << >>
           \/ /\ Len(ready) = 2 /\ DOMAIN ready = {1, 2}
              /\ DOMAIN Tail(ready) = {1} /\ Tail(ready)[1] = ready[2]
    BY <1>17, Leaves DEF HandleHeader, Orderly, Ops
  <2>2. ready[1].ec = "ok" /\ size = Packet /\ Packet \in Nat \ {0}
    BY <2>1, Queues DEF Orderly, ChainInv
  <2>3. StartRead("body", size, Tail(ready))
    BY <1>17, <2>1, <2>2 DEF HandleHeader, BodySize
  <2>4. reads' = Append(reads, [op |-> "body", n |-> Packet]) /\ ready' = Tail(ready)
    BY <2>2, <2>3 DEF StartRead, IsOpen
  <2>5. reads' # << >>
    <3>1. [op |-> "body", n |-> Packet] \in Pending
      BY DEF Pending
    <3> QED BY <2>4, <3>1, Queues, Push
  <2>6. ASSUME NEW j \in DOMAIN ready' PROVE ready'[j].ec = "ok"
    <3>1. CASE Tail(ready) = << >>
      <4>1. DOMAIN ready' = {}
        BY ONLY <2>4, <3>1
      <4> QED BY <4>1
    <3> QED BY <2>1, <2>4, <2>6, <3>1
  <2> QED BY <2>5, <2>6
<1>18. CASE HandleBodyError
  <2>1. ready[1].op = "body" /\ ready[1].ec # "ok" /\ 1 \in DOMAIN ready
    BY <1>18, Leaves DEF HandleBodyError, Orderly, Ops
  <2> QED BY <1>1, <1>18, <2>1 DEF HandleBodyError, socket
<1>19. CASE HandleNothing
  BY <1>19 DEF HandleNothing, socket, udpSocket, thread
<1>20. CASE HandleBytes
  BY <1>20, HandleBytesNever
<1>21. CASE HandleFirstData
  <2> SUFFICES ASSUME tcp = "up" PROVE UpInv'
    BY <1>1, <1>21 DEF HandleFirstData, socket
  <2>1. /\ ready' = Tail(ready) /\ io' = "open"
        /\ \/ Len(ready) = 1 /\ DOMAIN ready = {1} /\ Tail(ready) = << >>
           \/ /\ Len(ready) = 2 /\ DOMAIN ready = {1, 2}
              /\ DOMAIN Tail(ready) = {1} /\ Tail(ready)[1] = ready[2]
    BY <1>21, Leaves DEF HandleFirstData, Orderly, Ops
  <2>2. ASSUME NEW j \in DOMAIN ready' PROVE ready'[j].ec = "ok"
    <3>1. CASE Tail(ready) = << >>
      <4>1. DOMAIN ready' = {}
        BY ONLY <2>1, <3>1
      <4> QED BY <4>1
    <3> QED BY <2>1, <2>2, <3>1
  <2> QED BY <2>1, <2>2 DEF UdpSteps
<1>22. CASE OpenUdp
  <2>1. udp = "closed" /\ io' = "bind" /\ UNCHANGED <<socket, ready>>
    BY <1>22 DEF OpenUdp, Orderly, UdpInv, UdpSteps
  <2> QED BY <2>1 DEF socket, UdpSteps
<1>23. CASE BindUdp
  <2>1. udp = "open" /\ io' = "listen" /\ UNCHANGED <<socket, ready>>
    BY <1>23 DEF BindUdp, Orderly, UdpInv, UdpSteps
  <2> QED BY <2>1 DEF socket, UdpSteps
<1>24. CASE ListenUdp
  BY <1>24 DEF ListenUdp, socket, UdpSteps
<1>25. CASE ReadOn
  <2>1. listening /\ ready = << >> /\ tcp # "closed" /\ listening' = listening
    BY <1>25 DEF ReadOn, Orderly, UdpInv, UdpSteps, Linked, udpSocket
  <2>2. ready' = << >>
    BY <1>25, <2>1 DEF ReadOn, AsyncRead, StartRead, IsOpen
  <2>3. DOMAIN ready' = {}
    BY ONLY <2>2
  <2> QED BY <2>1, <2>3
<1>26. CASE UNCHANGED vars
  BY <1>26 DEF vars, socket, udpSocket, thread
<1> QED BY <1>2, <1>3, <1>4, <1>5, <1>6, <1>7, <1>8, <1>9, <1>10, <1>11, <1>12,
           <1>13, <1>15, <1>16, <1>17, <1>18, <1>19, <1>20, <1>21, <1>22, <1>23,
           <1>24, <1>25, <1>26 DEF Next

-----------------------------------------------------------------------------
(* Theorems *)

\* Once hasty, always hasty: what an orderly user may rely on is lost for good.
LEMMA HastyStays ==
    ASSUME TypeInv, hasty, [Next]_vars
    PROVE  hasty'
BY DEF Next, vars, history, thread, TypeInv, TypeOK,
   ClickConnect, ClickDisconnect, ClickSend, DisconnectUdp, SendUdp, Resolved,
   Established, Arrive, ServerEnds, WriteDone, ReadDone, HandleResolve,
   HandleConnect, HandleWrite, HandleHeader, HandleBodyError, HandleNothing,
   HandleBytes, HandleFirstData, OpenUdp, BindUdp, ListenUdp, ReadOn, IoDisconnectUdp

LEMMA InitIInv == Init => IInv
BY InitType, InitOrderly DEF IInv, Init, UpInv

LEMMA InvStep ==
    ASSUME IInv, [Next]_vars
    PROVE  IInv'
BY TypeStep, OrderlyStep, UpStep, HastyStays DEF IInv

\* The client's types, and the few shapes of a client that is used with
\* patience, for packets of any size and any number of buttons and connections.
THEOREM OrderlyShapes == Spec => []IInv
BY InitIInv, InvStep, PTL DEF Spec

\* Every variable keeps its type (connection.h:60-140, connection.cpp:103-287).
THEOREM ClientTypeOK == Spec => []TypeOK
<1>1. IInv => TypeOK
  BY DEF IInv, TypeInv
<1> QED BY <1>1, OrderlyShapes, PTL

\* A user who waits loses the client only to a connection that was reset before
\* the first length of the client's life (connection.cpp:156-164, 228).
THEOREM PatienceSurvives == Spec => []OrderlyUseSurvives
<1>1. IInv => OrderlyUseSurvives
  BY DEF IInv, Orderly, OrderlyUseSurvives
<1> QED BY <1>1, OrderlyShapes, PTL

\* For a user who waits, framing starts anew on each connection
\* (connection.cpp:154-168).
THEOREM PatienceFrames == Spec => []OrderlyFraming
<1>1. IInv => OrderlyFraming
  BY DEF IInv, Orderly, OrderlyFraming
<1> QED BY <1>1, OrderlyShapes, PTL

\* For a user who waits, one chain of reads runs on a connection
\* (connection.cpp:143, 168).
THEOREM PatienceReadsOnce == Spec => []OrderlyReading
<1>1. ASSUME IInv, ~hasty
      PROVE  ReadLoops \in {0, 1}
  <2> DEFINE chained == {j \in DOMAIN ready : ready[j].op \in {"header", "body"}}
             udpStep == IF io \in {"open", "bind", "listen", "read"} THEN 1 ELSE 0
  <2>1. TypeInv /\ ReadyShape /\ ReadsInv /\ ChainInv /\ UdpInv
    BY <1>1 DEF IInv, Orderly
  <2>2. Len(reads) \in {0, 1} /\ (Len(reads) = 0 <=> reads = << >>)
    <3>1. PICK n \in Nat : n = Len(reads)
      BY <2>1, Queues
    <3>2. n <= 1
      BY <2>1, <3>1 DEF ReadsInv
    <3> QED BY <2>1, <3>1, <3>2, Queues
  <2>3. reads # << >> => udpStep = 0 /\ chained = {}
    BY <2>1 DEF ReadsInv, UdpSteps, Reading
  <2>4. ASSUME NEW j \in chained
        PROVE  chained = {j} /\ udpStep = 0
    <3>1. udpStep = 0
      BY <2>1 DEF ChainInv, UdpSteps, Reading
    <3>2. ASSUME NEW k \in chained PROVE k = j
      <4>1. PICK n \in Nat : n = Len(ready) /\ DOMAIN ready = 1 .. n
        BY <2>1, Queues
      <4>2. n <= 2 /\ j \in 1 .. n /\ k \in 1 .. n
        BY <2>1, <4>1 DEF ReadyShape
      <4>3. n = 2 => ready[1].op = "write" \/ ready[2].op = "write"
        BY <2>1, <4>1 DEF ReadyShape
      <4> QED BY <4>2, <4>3
    <3> QED BY <3>1, <3>2
  <2>5. CASE chained = {}
    <3>1. Cardinality(chained) = 0
      BY <2>5, FS_EmptySet
    <3>2. udpStep \in {0, 1} /\ (Len(reads) = 1 => udpStep = 0)
      BY <2>2, <2>3
    <3>3. ReadLoops = Len(reads) + Cardinality(chained) + udpStep
      BY DEF ReadLoops
    <3> HIDE DEF chained, udpStep
    <3>4. PICK n \in {0, 1}, m \in {0, 1} : n = Len(reads) /\ m = udpStep
      BY <2>2, <3>2
    <3>5. ReadLoops = n + 0 + m /\ (n = 1 => m = 0)
      BY <3>1, <3>2, <3>3, <3>4
    <3> QED BY <3>5
  <2>6. CASE chained # {}
    <3>1. PICK j \in chained : chained = {j} /\ udpStep = 0
      BY <2>4, <2>6
    <3>2. Cardinality(chained) = 1
      BY <3>1, FS_Singleton
    <3>3. Len(reads) = 0
      BY <2>2, <2>3, <2>6
    <3>4. ReadLoops = Len(reads) + Cardinality(chained) + udpStep
      BY DEF ReadLoops
    <3> HIDE DEF chained, udpStep
    <3> QED BY <3>1, <3>2, <3>3, <3>4
  <2> QED BY <2>5, <2>6
<1>2. IInv => OrderlyReading
  BY <1>1 DEF OrderlyReading
<1> QED BY <1>2, OrderlyShapes, PTL

\* For a user who waits, the UDP socket is that of the connection, and a
\* disconnect leaves nothing open (connection.cpp:224-231, 236-245).
THEOREM PatienceKeepsSockets == Spec => []OrderlySockets
<1>1. IInv => OrderlySockets
  BY DEF IInv, Orderly, OrderlySockets, UdpInv, Settled, IsOpen
<1> QED BY <1>1, OrderlyShapes, PTL

\* SameParameters, which a hasty user can break, holds for one who waits: a
\* connection that is up and has nothing under way listens for images on the
\* address its own FirstData gave (Server.h:11, connection.cpp:224-231).
THEOREM PatienceSameParameters == Spec => [](hasty \/ SameParameters)
<1>1. ASSUME IInv, ~hasty PROVE SameParameters
  <2>1. SUFFICES ASSUME Settled, tcp = "up" PROVE udp = "bound" /\ udpOf = gen
    BY DEF SameParameters
  <2>2. UpInv /\ UdpInv /\ ready = << >> /\ io = "idle" /\ (reads = << >> \/ listening)
    BY <1>1, <2>1 DEF IInv, Orderly, Settled
  <2>3. DOMAIN ready = {}
    BY <2>2
  <2>4. listening
    BY <2>1, <2>2, <2>3 DEF UpInv, UdpSteps
  <2> QED BY <2>1, <2>2, <2>4 DEF UdpInv, IsOpen
<1>2. IInv => hasty \/ SameParameters
  BY <1>1
<1> QED BY <1>2, OrderlyShapes, PTL
=============================================================================
