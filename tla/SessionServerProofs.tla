------------------------- MODULE SessionServerProofs -------------------------
(***************************************************************************)
(* Theorems about SessionServer for every set of connections, every set of *)
(* endpoints and every number of messages.  The inductive invariant IInv   *)
(* adds to the properties what they rest on: which ids are taken, that a   *)
(* pending read belongs to the table entry of its session, and where on    *)
(* the stream each read stands.                                            *)
(***************************************************************************)
EXTENDS SessionServer, FiniteSetTheorems, TLAPS

\* The id counter counts the accepted connections, and no id has run ahead.
IdInv ==
    /\ nextId = Cardinality(Accepted)
    /\ \A c \in Conns : sid[c] # NoId => sid[c] < nextId

\* A session with a pending read is the one its id names in the table.
SessionInv ==
    \A c \in Conns :
        rd[c] # "none" => sid[c] \in DOMAIN tcpCl /\ tcpCl[sid[c]] = c

\* A connection waits in the backlog after it was made and before its session.
BacklogInv ==
    /\ \A c \in backlog : sid[c] = NoId /\ peer[c] # "none"
    /\ \A c \in Conns : peer[c] = "none" => sid[c] = NoId

\* Two peers that are both connected do not share an endpoint.
EndpointInv ==
    \A c, d \in Conns :
        c # d /\ peer[c] = "open" /\ peer[d] = "open" => ep[c] # ep[d]

\* Where the reads of a session stand on its stream.
StreamAt(c) ==
    /\ got[c] <= put[c]
    /\ sid[c] = NoId => delivered[c] = << >> /\ got[c] = 0 /\ size[c] = 0
    /\ rd[c] = "header" => /\ got[c] = 2 * Len(delivered[c])
                           /\ size[c] = Len(delivered[c])
    /\ rd[c] = "body" =>
         \/ /\ got[c] = 2 * Len(delivered[c]) + 1
            /\ size[c] = Len(delivered[c]) + 1
         \/ /\ got[c] = 2 * Len(delivered[c])
            /\ size[c] \in {Len(delivered[c]), Len(delivered[c]) + 1}
            /\ peer[c] = "rst"
            /\ got[c] = put[c]

StreamInv == \A c \in Conns : StreamAt(c)

IInv ==
    /\ TypeOK
    /\ RegistriesAgree
    /\ IdInv
    /\ SessionInv
    /\ BacklogInv
    /\ EndpointInv
    /\ StreamInv
    /\ ReadLoopAlive
    /\ FramesInOrder
    /\ DiesOnlyOfEmptyRead

-----------------------------------------------------------------------------
\* The initial states satisfy the inductive invariant.
LEMMA InitIInv == Init => IInv
<1> SUFFICES ASSUME Init PROVE IInv
  OBVIOUS
<1> USE DEF Init, Empty
<1>1. Accepted = {}
  BY DEF Accepted
<1>2. IdSpace \in Nat /\ IdSpace > 0
  BY IdAssumption, FS_CardinalityType
<1>3. TypeOK
  BY <1>2, MsgAssumption DEF TypeOK, Ids, NoId
<1>4. RegistriesAgree /\ SessionInv /\ BacklogInv /\ EndpointInv
  BY DEF RegistriesAgree, SessionInv, BacklogInv, EndpointInv
<1>5. IdInv
  BY <1>1, FS_EmptySet DEF IdInv
<1>6. StreamInv /\ ReadLoopAlive /\ FramesInOrder /\ DiesOnlyOfEmptyRead
  BY DEF StreamInv, StreamAt, ReadLoopAlive, FramesInOrder, DiesOnlyOfEmptyRead,
         Registered, Range
<1> QED
  BY <1>3, <1>4, <1>5, <1>6 DEF IInv

\* While there is a connection to accept, the next id exists and is not in use.
LEMMA FreshId ==
    ASSUME IInv, NEW c \in Conns, sid[c] = NoId
    PROVE  /\ nextId + 1 \in Ids
           /\ (nextId + 1) % IdSpace = nextId + 1
           /\ nextId \notin DOMAIN tcpCl
<1> USE IdAssumption
<1>1. Accepted \subseteq Conns /\ c \notin Accepted
  BY DEF Accepted
<1>2. IsFiniteSet(Accepted) /\ Cardinality(Accepted) \in Nat
  BY <1>1, FS_Subset, FS_CardinalityType
<1>3. Cardinality(Accepted \cup {c}) = Cardinality(Accepted) + 1
  BY <1>1, <1>2, FS_AddElement
<1>4. Accepted \cup {c} \subseteq Conns
  BY <1>1
<1>5. Cardinality(Accepted \cup {c}) <= Cardinality(Conns)
  BY <1>4, FS_Subset
<1>6. nextId + 1 <= Cardinality(Conns) /\ nextId \in Nat
  BY <1>2, <1>3, <1>5 DEF IInv, IdInv
<1>7. Cardinality(Conns) \in Nat
  BY FS_CardinalityType
<1>8. nextId + 1 \in Ids
  BY <1>6, <1>7 DEF Ids
<1>9. (nextId + 1) % IdSpace = nextId + 1
  BY <1>8 DEF Ids
<1>10. nextId \notin DOMAIN tcpCl
  <2> SUFFICES ASSUME nextId \in DOMAIN tcpCl PROVE FALSE
    OBVIOUS
  <2>1. tcpCl[nextId] \in Conns /\ sid[tcpCl[nextId]] = nextId
    BY DEF IInv, TypeOK, RegistriesAgree
  <2>2. nextId # NoId
    BY DEF IInv, TypeOK, Ids, NoId
  <2> QED
    BY <1>6, <2>1, <2>2 DEF IInv, IdInv
<1> QED
  BY <1>8, <1>9, <1>10

-----------------------------------------------------------------------------
\* A step changes no variable to a value outside its type.
LEMMA TypeStep ==
    ASSUME IInv, [Next]_vars
    PROVE  TypeOK'
<1> USE MsgAssumption DEF IInv, TypeOK
<1>1. ASSUME NEW c \in Conns, NEW e \in Endpoints, Connect(c, e)
      PROVE  TypeOK'
  BY <1>1 DEF Connect, server
<1>2. ASSUME NEW c \in Conns, Write(c)
      PROVE  TypeOK'
  BY <1>2 DEF Write, server
<1>3. ASSUME NEW c \in Conns, Close(c)
      PROVE  TypeOK'
  BY <1>3 DEF Close, server
<1>4. ASSUME NEW c \in Conns, Reset(c)
      PROVE  TypeOK'
  BY <1>4 DEF Reset, server
<1>5. ASSUME NEW c \in Conns, Accept(c)
      PROVE  TypeOK'
  <2>1. sid[c] = NoId
    BY <1>5 DEF Accept, BacklogInv
  <2>2. nextId \in Ids /\ nextId' \in Ids
    BY <1>5, <2>1, FreshId DEF Accept
  <2>3. /\ DOMAIN tcpCl' = DOMAIN tcpCl \cup {nextId}
        /\ tcpCl' \in [DOMAIN tcpCl \cup {nextId} -> Conns]
    BY <1>5 DEF Accept, With
  <2>4. /\ DOMAIN udpCl' = DOMAIN udpCl \cup {nextId}
        /\ udpCl' \in [DOMAIN udpCl \cup {nextId} -> Endpoints \cup {NoEndpoint}]
    BY <1>5 DEF Accept, With, ClientInfo
  <2> QED
    BY <1>5, <2>2, <2>3, <2>4 DEF Accept, Listen, DoSend, DoRead
<1>6. ASSUME NEW c \in Conns, AcceptDead(c)
      PROVE  TypeOK'
  BY <1>6 DEF AcceptDead, Listen
<1>7. CASE Tick
  BY <1>7 DEF Tick, StartTest, network, Range
<1>8. ASSUME NEW c \in Conns, HeaderRead(c)
      PROVE  TypeOK'
  <2>1. got[c] + 1 \in 0 .. 2 * MaxMsgs
    BY <1>8 DEF HeaderRead, Drained, StreamInv, StreamAt
  <2>2. LengthAt(got[c]) \in Nat
    BY DEF LengthAt
  <2> QED
    BY <1>8, <2>1, <2>2 DEF HeaderRead
<1>9. ASSUME NEW c \in Conns, HeaderEof(c)
      PROVE  TypeOK'
  BY <1>9 DEF HeaderEof, RemoveTcpClient, RemoveUdpClient, Without, Restrict,
              network
<1>10. ASSUME NEW c \in Conns, HeaderError(c)
       PROVE  TypeOK'
  <2>1. LengthAt(got[c]) \in Nat
    BY DEF LengthAt
  <2>2. size' \in [Conns -> Nat]
    BY <1>10, <2>1 DEF HeaderError
  <2> QED
    BY <1>10, <2>2 DEF HeaderError, network
<1>11. ASSUME NEW c \in Conns, BodyRead(c)
       PROVE  TypeOK'
  <2>1. got[c] + 1 \in 0 .. 2 * MaxMsgs
    BY <1>11 DEF BodyRead, Drained, StreamInv, StreamAt
  <2>2. Append(delivered[c], PacketAt(c)) \in Seq(Nat)
    BY DEF PacketAt, Garbled
  <2> QED
    BY <1>11, <2>1, <2>2 DEF BodyRead, DoRead
<1>12. ASSUME NEW c \in Conns, BodyError(c)
       PROVE  TypeOK'
  BY <1>12 DEF BodyError, network
<1>13. ASSUME NEW c \in Conns, EmptyBody(c)
       PROVE  TypeOK'
  BY <1>13 DEF EmptyBody, network
<1>14. CASE UNCHANGED vars
  BY <1>14 DEF vars, server, network
<1> QED
  BY <1>1, <1>2, <1>3, <1>4, <1>5, <1>6, <1>7, <1>8, <1>9, <1>10, <1>11,
     <1>12, <1>13, <1>14 DEF Next, Session

-----------------------------------------------------------------------------
\* The two tables stay in step, ids are counted and never shared, and reads
\* and backlog stay tied to the sessions they belong to.
LEMMA RegistryStep ==
    ASSUME IInv, [Next]_vars
    PROVE  RegistriesAgree' /\ IdInv' /\ SessionInv' /\ BacklogInv'
<1> DEFINE Goal == RegistriesAgree /\ IdInv /\ SessionInv /\ BacklogInv
<1> USE DEF IInv, TypeOK
<1>1. ASSUME UNCHANGED <<nextId, sid>>
      PROVE  IdInv'
  BY <1>1 DEF IdInv, Accepted
<1>2. ASSUME NEW c \in Conns, NEW e \in Endpoints, Connect(c, e)
      PROVE  Goal'
  <2>1. sid[c] = NoId
    BY <1>2 DEF Connect, BacklogInv
  <2>2. RegistriesAgree'
    BY <1>2, <2>1 DEF Connect, server, RegistriesAgree, Ids, NoId
  <2> QED
    BY <1>1, <1>2, <2>1, <2>2 DEF Connect, server, SessionInv, BacklogInv
<1>3. ASSUME NEW c \in Conns, Write(c)
      PROVE  Goal'
  BY <1>1, <1>3
     DEF Write, server, RegistriesAgree, SessionInv, BacklogInv
<1>4. ASSUME NEW c \in Conns, Close(c)
      PROVE  Goal'
  BY <1>1, <1>4
     DEF Close, server, RegistriesAgree, SessionInv, BacklogInv
<1>5. ASSUME NEW c \in Conns, Reset(c)
      PROVE  Goal'
  BY <1>1, <1>5
     DEF Reset, server, RegistriesAgree, SessionInv, BacklogInv
<1>6. ASSUME NEW c \in Conns, Accept(c)
      PROVE  Goal'
  <2>1. sid[c] = NoId /\ nextId # NoId
    BY <1>6 DEF Accept, BacklogInv, Ids, NoId
  <2>2. nextId' = nextId + 1 /\ nextId \notin DOMAIN tcpCl
    BY <1>6, <2>1, FreshId DEF Accept
  <2>3. /\ DOMAIN tcpCl' = DOMAIN tcpCl \cup {nextId}
        /\ tcpCl'[nextId] = c
        /\ \A i \in DOMAIN tcpCl : tcpCl'[i] = tcpCl[i]
    BY <1>6, <2>2 DEF Accept, With
  <2>4. /\ DOMAIN udpCl' = DOMAIN udpCl \cup {nextId}
        /\ udpCl'[nextId] = ep[c]
        /\ \A i \in DOMAIN udpCl : udpCl'[i] = udpCl[i]
    BY <1>6, <2>2 DEF Accept, With, ClientInfo, RegistriesAgree
  <2>5. \A i \in DOMAIN tcpCl : tcpCl[i] # c
    BY <2>1 DEF RegistriesAgree, Ids, NoId
  <2>6. sid' = [sid EXCEPT ![c] = nextId] /\ ep' = ep
    BY <1>6 DEF Accept
  <2>7. RegistriesAgree'
    BY <2>3, <2>4, <2>5, <2>6 DEF RegistriesAgree
  <2>8. IdInv'
    <3>1. Accepted' = Accepted \cup {c} /\ c \notin Accepted
      BY <2>1, <2>6 DEF Accepted, NoId
    <3>2. IsFiniteSet(Accepted)
      BY IdAssumption, FS_Subset DEF Accepted
    <3>3. Cardinality(Accepted') = nextId + 1
      BY <3>1, <3>2, FS_AddElement DEF IdInv
    <3> QED
      BY <2>2, <2>6, <3>3 DEF IdInv, Ids, NoId
  <2>9. SessionInv'
    BY <1>6, <2>1, <2>2, <2>3, <2>6 DEF Accept, DoRead, SessionInv
  <2>10. BacklogInv'
    BY <1>6, <2>1, <2>6 DEF Accept, BacklogInv, DoSend
  <2> QED
    BY <2>7, <2>8, <2>9, <2>10
<1>7. ASSUME NEW c \in Conns, AcceptDead(c)
      PROVE  Goal'
  BY <1>1, <1>7
     DEF AcceptDead, RegistriesAgree, SessionInv, BacklogInv
<1>8. CASE Tick
  BY <1>1, <1>8
     DEF Tick, network, RegistriesAgree, SessionInv, BacklogInv
<1>9. ASSUME NEW c \in Conns, HeaderRead(c)
      PROVE  Goal'
  BY <1>1, <1>9
     DEF HeaderRead, RegistriesAgree, SessionInv, BacklogInv
<1>10. ASSUME NEW c \in Conns, HeaderEof(c)
       PROVE  Goal'
  <2>1. /\ DOMAIN tcpCl' = DOMAIN tcpCl \ {sid[c]}
        /\ \A i \in DOMAIN tcpCl' : tcpCl'[i] = tcpCl[i]
        /\ DOMAIN udpCl' = DOMAIN udpCl \ {sid[c]}
        /\ \A i \in DOMAIN udpCl' : udpCl'[i] = udpCl[i]
    BY <1>10 DEF HeaderEof, RemoveTcpClient, RemoveUdpClient, Without, Restrict
  <2>2. RegistriesAgree'
    BY <1>10, <2>1 DEF HeaderEof, network, RegistriesAgree
  <2>3. SessionInv'
    BY <1>10, <2>1 DEF HeaderEof, SessionInv
  <2> QED
    BY <1>1, <1>10, <2>2, <2>3 DEF HeaderEof, network, BacklogInv
<1>11. ASSUME NEW c \in Conns, HeaderError(c)
       PROVE  Goal'
  BY <1>1, <1>11
     DEF HeaderError, network, RegistriesAgree, SessionInv, BacklogInv
<1>12. ASSUME NEW c \in Conns, BodyRead(c)
       PROVE  Goal'
  BY <1>1, <1>12
     DEF BodyRead, DoRead, RegistriesAgree, SessionInv, BacklogInv
<1>13. ASSUME NEW c \in Conns, BodyError(c)
       PROVE  Goal'
  BY <1>1, <1>13
     DEF BodyError, network, RegistriesAgree, SessionInv, BacklogInv
<1>14. ASSUME NEW c \in Conns, EmptyBody(c)
       PROVE  Goal'
  BY <1>1, <1>14
     DEF EmptyBody, network, RegistriesAgree, SessionInv, BacklogInv
<1>15. CASE UNCHANGED vars
  BY <1>1, <1>15
     DEF vars, server, network, RegistriesAgree, SessionInv, BacklogInv
<1> QED
  BY <1>2, <1>3, <1>4, <1>5, <1>6, <1>7, <1>8, <1>9, <1>10, <1>11, <1>12,
     <1>13, <1>14, <1>15 DEF Next, Session

-----------------------------------------------------------------------------
\* An insertion under a new key adds its value to a table and keeps the rest.
LEMMA RangeWith ==
    ASSUME NEW f, NEW k, k \notin DOMAIN f, NEW v
    PROVE  Range(With(f, k, v)) = Range(f) \cup {v}
<1> DEFINE g == With(f, k, v)
<1>1. /\ DOMAIN g = DOMAIN f \cup {k}
      /\ g[k] = v
      /\ \A i \in DOMAIN f : g[i] = f[i]
  BY DEF With
<1> HIDE DEF g
<1>2. ASSUME NEW x \in Range(g) PROVE x \in Range(f) \cup {v}
  <2>1. PICK i \in DOMAIN g : x = g[i]
    BY DEF Range
  <2> QED
    BY <1>1, <2>1 DEF Range
<1>3. ASSUME NEW x \in Range(f) \cup {v} PROVE x \in Range(g)
  BY <1>1 DEF Range
<1> QED
  BY <1>2, <1>3 DEF g

\* A removal takes the value of its key, held by no other key, out of a table.
LEMMA RangeWithout ==
    ASSUME NEW f, NEW k \in DOMAIN f, \A i \in DOMAIN f : f[i] = f[k] => i = k
    PROVE  Range(Without(f, k)) = Range(f) \ {f[k]}
<1> DEFINE g == Without(f, k)
<1>1. /\ DOMAIN g = DOMAIN f \ {k}
      /\ \A i \in DOMAIN g : g[i] = f[i]
  BY DEF Without, Restrict
<1> HIDE DEF g
<1>2. ASSUME NEW x \in Range(g) PROVE x \in Range(f) \ {f[k]}
  <2>1. PICK i \in DOMAIN g : x = g[i]
    BY DEF Range
  <2> QED
    BY <1>1, <2>1 DEF Range
<1>3. ASSUME NEW x \in Range(f) \ {f[k]} PROVE x \in Range(g)
  <2>1. PICK i \in DOMAIN f : x = f[i]
    BY DEF Range
  <2> QED
    BY <1>1, <2>1 DEF Range
<1> QED
  BY <1>2, <1>3 DEF g

\* Accepting adds the connection to the table and displaces no other client.
LEMMA AcceptJoins ==
    ASSUME IInv, NEW c \in Conns, Accept(c)
    PROVE  Registered' = Registered \cup {c} /\ c \notin Registered
<1> USE DEF IInv, TypeOK
<1>1. sid[c] = NoId
  BY DEF Accept, BacklogInv
<1>2. nextId \notin DOMAIN tcpCl
  BY <1>1, FreshId
<1>3. tcpCl' = With(tcpCl, nextId, c)
  BY DEF Accept
<1>4. c \notin Registered
  BY <1>1 DEF Registered, Range, RegistriesAgree, Ids, NoId
<1>5. Registered' = Registered \cup {c}
  BY <1>2, <1>3, RangeWith DEF Registered
<1> QED
  BY <1>4, <1>5

\* The two removeClient calls of an end of file take out the session's own
\* connection and no other.
LEMMA EofLeaves ==
    ASSUME IInv, NEW c \in Conns, HeaderEof(c)
    PROVE  Registered' = Registered \ {c} /\ c \in Registered
<1> USE DEF IInv, TypeOK
<1>1. sid[c] \in DOMAIN tcpCl /\ tcpCl[sid[c]] = c
  BY DEF HeaderEof, SessionInv
<1>2. tcpCl' = Without(tcpCl, sid[c])
  BY DEF HeaderEof, RemoveTcpClient
<1>3. \A i \in DOMAIN tcpCl : tcpCl[i] = tcpCl[sid[c]] => i = sid[c]
  BY <1>1 DEF RegistriesAgree
<1>4. Range(tcpCl') = Range(tcpCl) \ {c}
  BY <1>1, <1>2, <1>3, RangeWithout
<1>5. c \in Registered
  BY <1>1 DEF Registered, Range
<1> QED
  BY <1>4, <1>5 DEF Registered

\* Only those two handlers change who is registered.
LEMMA RegisteredSame ==
    ASSUME UNCHANGED tcpCl
    PROVE  Registered' = Registered
BY DEF Registered

\* A registered connection has been accepted and so has been made.
LEMMA RegisteredAccepted ==
    ASSUME IInv, NEW c \in Registered
    PROVE  c \in Conns /\ sid[c] # NoId /\ peer[c] # "none" /\ c \notin backlog
<1> USE DEF IInv, TypeOK
<1>1. PICK i \in DOMAIN tcpCl : tcpCl[i] = c
  BY DEF Registered, Range
<1>2. c \in Conns /\ sid[c] = i
  BY <1>1 DEF RegistriesAgree
<1> QED
  BY <1>1, <1>2 DEF BacklogInv, Ids, NoId

-----------------------------------------------------------------------------
\* Connected peers keep distinct endpoints: only Connect gives one out.
LEMMA EndpointStep ==
    ASSUME IInv, [Next]_vars
    PROVE  EndpointInv'
<1> USE DEF IInv, TypeOK
<1>1. ASSUME NEW c \in Conns, NEW e \in Endpoints, Connect(c, e)
      PROVE  EndpointInv'
  BY <1>1 DEF Connect, EndpointInv
<1>2. ASSUME UNCHANGED ep,
             \A c \in Conns : peer'[c] = "open" => peer[c] = "open"
      PROVE  EndpointInv'
  BY <1>2 DEF EndpointInv
<1>3. ASSUME NEW c \in Conns, Write(c) \/ Close(c) \/ Reset(c)
      PROVE  EndpointInv'
  BY <1>2, <1>3 DEF Write, Close, Reset
<1>4. ASSUME NEW c \in Conns, Accept(c) \/ AcceptDead(c)
      PROVE  EndpointInv'
  BY <1>2, <1>4 DEF Accept, AcceptDead, DoSend
<1>5. ASSUME NEW c \in Conns, Session(c)
      PROVE  EndpointInv'
  BY <1>2, <1>5 DEF Session, HeaderRead, HeaderEof, HeaderError, BodyRead,
                    BodyError, EmptyBody, network
<1>6. CASE Tick \/ UNCHANGED vars
  BY <1>2, <1>6 DEF Tick, vars, network
<1> QED
  BY <1>1, <1>3, <1>4, <1>5, <1>6 DEF Next

\* Who is in the table and not read was reset, or cut off within a message.
LeftBehind(c) ==
    c \in Registered /\ rd[c] = "none"
        => peer[c] = "rst" \/ (peer[c] = "fin" /\ put[c] % 2 = 1)

\* Only a failed body read leaves a client in the table without a read.
LEMMA LeftStep ==
    ASSUME IInv, [Next]_vars, NEW d \in Conns
    PROVE  LeftBehind(d)'
<1> USE DEF IInv, TypeOK
<1>1. LeftBehind(d)
  BY DEF ReadLoopAlive, LeftBehind
<1>2. ASSUME UNCHANGED <<tcpCl, rd>>,
             d \in Registered => \/ peer'[d] = peer[d] /\ put'[d] = put[d]
                                 \/ peer'[d] = "rst"
                                 \/ peer[d] = "open"
      PROVE  LeftBehind(d)'
  BY <1>1, <1>2, RegisteredSame DEF LeftBehind
<1>3. ASSUME NEW c \in Conns, Accept(c)
      PROVE  LeftBehind(d)'
  <2>1. Registered' = Registered \cup {c}
    BY <1>3, AcceptJoins
  <2>2. /\ rd' = [rd EXCEPT ![c] = "header"]
        /\ \E s \in DoSend(peer[c]) : peer' = [peer EXCEPT ![c] = s]
        /\ UNCHANGED put
    BY <1>3 DEF Accept, DoRead
  <2> QED
    BY <1>1, <2>1, <2>2 DEF LeftBehind
<1>4. ASSUME NEW c \in Conns, HeaderEof(c)
      PROVE  LeftBehind(d)'
  BY <1>1, <1>4, EofLeaves DEF HeaderEof, network, LeftBehind
<1>5. ASSUME NEW c \in Conns,
             Write(c) \/ Close(c) \/ Reset(c) \/ EmptyBody(c)
               \/ AcceptDead(c) \/ \E e \in Endpoints : Connect(c, e)
      PROVE  LeftBehind(d)'
  <2>1. d \in Registered => \/ peer'[d] = peer[d] /\ put'[d] = put[d]
                            \/ peer'[d] = "rst"
                            \/ peer[d] = "open"
    BY <1>5, RegisteredAccepted
       DEF Write, Close, Reset, EmptyBody, AcceptDead, Connect, network
  <2>2. UNCHANGED <<tcpCl, rd>>
    BY <1>5 DEF Write, Close, Reset, EmptyBody, AcceptDead, Connect, server
  <2> QED
    BY <1>2, <2>1, <2>2
<1>6. ASSUME NEW c \in Conns, HeaderRead(c) \/ HeaderError(c) \/ BodyRead(c)
      PROVE  LeftBehind(d)'
  <2>1. rd' = [rd EXCEPT ![c] = "body"] \/ rd' = [rd EXCEPT ![c] = "header"]
    BY <1>6 DEF HeaderRead, HeaderError, BodyRead, DoRead
  <2>2. UNCHANGED <<tcpCl, peer, put>>
    BY <1>6 DEF HeaderRead, HeaderError, BodyRead, network
  <2> QED
    BY <1>1, <2>1, <2>2, RegisteredSame DEF LeftBehind
<1>7. ASSUME NEW c \in Conns, BodyError(c)
      PROVE  LeftBehind(d)'
  <2>1. /\ rd' = [rd EXCEPT ![c] = "none"]
        /\ UNCHANGED <<tcpCl, peer, put>>
    BY <1>7 DEF BodyError, network
  <2>2. peer[c] = "rst" \/ (peer[c] = "fin" /\ put[c] % 2 = 1)
    <3>1. Len(delivered[c]) \in Nat
      OBVIOUS
    <3>2. peer[c] = "rst" \/ put[c] = 2 * Len(delivered[c]) + 1
      BY <1>7 DEF BodyError, Drained, StreamInv, StreamAt
    <3> QED
      BY <1>7, <3>1, <3>2 DEF BodyError, Gone
  <2> QED
    BY <1>1, <2>1, <2>2, RegisteredSame DEF LeftBehind
<1>8. CASE Tick \/ UNCHANGED vars
  BY <1>2, <1>8 DEF Tick, vars, server, network
<1> QED
  BY <1>3, <1>4, <1>5, <1>6, <1>7, <1>8 DEF Next, Session

\* No step leaves a read behind without its table entry, nor an entry without
\* its read but for a cut.
LEMMA ReadLoopStep ==
    ASSUME IInv, [Next]_vars
    PROVE  ReadLoopAlive'
<1>1. SessionInv'
  BY RegistryStep
<1>2. ASSUME NEW d \in Conns, rd'[d] # "none"
      PROVE  d \in Registered'
  BY <1>1, <1>2 DEF SessionInv, Registered, Range
<1>3. \A d \in Conns : LeftBehind(d)'
  BY LeftStep
<1> QED
  BY <1>2, <1>3 DEF ReadLoopAlive, LeftBehind

\* The process goes down only at an empty read, and stays down.
LEMMA DieStep ==
    ASSUME IInv, [Next]_vars
    PROVE  DiesOnlyOfEmptyRead'
<1> USE DEF IInv, TypeOK
<1>1. ASSUME NEW c \in Conns, EmptyBody(c)
      PROVE  DiesOnlyOfEmptyRead'
  <2>1. c \in Registered
    BY <1>1 DEF EmptyBody, SessionInv, Registered, Range
  <2>2. peer[c] = "rst" /\ got[c] = 0
    BY <1>1 DEF EmptyBody, StreamInv, StreamAt
  <2> QED
    BY <1>1, <2>1, <2>2, RegisteredSame
       DEF EmptyBody, network, DiesOnlyOfEmptyRead
<1>2. CASE UNCHANGED vars
  BY <1>2, RegisteredSame DEF vars, server, network, DiesOnlyOfEmptyRead
<1>3. ASSUME up, up'
      PROVE  DiesOnlyOfEmptyRead'
  BY <1>3 DEF DiesOnlyOfEmptyRead
<1>4. Next => up /\ (up' \/ \E c \in Conns : EmptyBody(c))
  BY DEF Next, Session, Connect, Write, Close, Reset, Accept, AcceptDead,
         Tick, HeaderRead, HeaderEof, HeaderError, BodyRead, BodyError,
         EmptyBody, server
<1> QED
  BY <1>1, <1>2, <1>3, <1>4
-----------------------------------------------------------------------------
\* Only a session of the table has a read pending.
LEMMA ReadingAccepted ==
    ASSUME IInv, NEW c \in Conns, rd[c] # "none"
    PROVE  sid[c] # NoId
BY DEF IInv, TypeOK, SessionInv, Ids, NoId

\* The body read that completes with bytes is that of the next whole packet.
LEMMA NextPacket ==
    ASSUME IInv, NEW c \in Conns, BodyRead(c)
    PROVE  /\ got[c] = 2 * Len(delivered[c]) + 1
           /\ size[c] = Len(delivered[c]) + 1
           /\ PacketAt(c) = Len(delivered[c]) + 1
<1> USE DEF IInv, TypeOK
<1>1. Len(delivered[c]) \in Nat
  OBVIOUS
<1>2. /\ got[c] = 2 * Len(delivered[c]) + 1
      /\ size[c] = Len(delivered[c]) + 1
  BY DEF BodyRead, Drained, StreamInv, StreamAt
<1>3. got[c] + 1 = 2 * size[c]
  BY <1>1, <1>2
<1> QED
  BY <1>2, <1>3 DEF PacketAt

\* Each read stands where its message begins, or between its two units.
LEMMA StreamStep ==
    ASSUME IInv, [Next]_vars
    PROVE  StreamInv'
<1> USE DEF IInv, TypeOK
<1>1. ASSUME NEW c \in Conns, NEW e \in Endpoints, Connect(c, e)
      PROVE  StreamInv'
  <2>1. rd[c] = "none"
    BY <1>1, ReadingAccepted DEF Connect, BacklogInv
  <2> QED
    BY <1>1, <2>1 DEF Connect, server, StreamInv, StreamAt
<1>2. ASSUME NEW c \in Conns, Write(c)
      PROVE  StreamInv'
  BY <1>2, MsgAssumption DEF Write, server, StreamInv, StreamAt
<1>3. ASSUME NEW c \in Conns, Close(c)
      PROVE  StreamInv'
  BY <1>3 DEF Close, server, StreamInv, StreamAt
<1>4. ASSUME NEW c \in Conns, Reset(c)
      PROVE  StreamInv'
  BY <1>4, MsgAssumption DEF Reset, server, StreamInv, StreamAt
<1>5. ASSUME NEW c \in Conns, Accept(c)
      PROVE  StreamInv'
  <2>1. sid[c] = NoId
    BY <1>5 DEF Accept, BacklogInv
  <2>2. /\ rd' = [rd EXCEPT ![c] = "header"]
        /\ \E s \in DoSend(peer[c]) : peer' = [peer EXCEPT ![c] = s]
        /\ sid' = [sid EXCEPT ![c] = nextId]
        /\ UNCHANGED <<size, delivered, put, got>>
    BY <1>5 DEF Accept, DoRead
  <2>3. got[c] = 2 * Len(delivered[c]) /\ size[c] = Len(delivered[c])
    BY <2>1 DEF StreamInv, StreamAt
  <2> QED
    BY <2>1, <2>2, <2>3 DEF StreamInv, StreamAt
<1>6. ASSUME NEW c \in Conns, AcceptDead(c)
      PROVE  StreamInv'
  BY <1>6 DEF AcceptDead, StreamInv, StreamAt
<1>7. ASSUME NEW c \in Conns, HeaderRead(c)
      PROVE  StreamInv'
  <2> DEFINE n == Len(delivered[c])
  <2>1. n \in Nat /\ got[c] = 2 * n
    BY <1>7 DEF HeaderRead, StreamInv, StreamAt
  <2>2. LengthAt(got[c]) = n + 1
    BY <2>1 DEF LengthAt
  <2>3. got[c] < put[c]
    BY <1>7, MsgAssumption DEF HeaderRead, Drained, StreamInv, StreamAt
  <2>4. sid[c] # NoId
    BY <1>7, ReadingAccepted DEF HeaderRead
  <2> HIDE DEF n
  <2>5. /\ got' = [got EXCEPT ![c] = 2 * n + 1]
        /\ size' = [size EXCEPT ![c] = n + 1]
        /\ rd' = [rd EXCEPT ![c] = "body"]
        /\ UNCHANGED <<sid, delivered, peer, put>>
    BY <1>7, <2>1, <2>2 DEF HeaderRead
  <2> QED
    <3>1. ASSUME NEW d \in Conns, d # c PROVE StreamAt(d)'
      BY <2>5, <3>1 DEF StreamInv, StreamAt
    <3>2. StreamAt(c)'
      <4>1. got'[c] = 2 * n + 1 /\ size'[c] = n + 1 /\ rd'[c] = "body"
        BY <2>5
      <4>2. 2 * n + 1 <= put[c]
        BY <2>1, <2>3, MsgAssumption
      <4> QED
        BY <2>4, <2>5, <4>1, <4>2 DEF StreamAt, n
    <3> QED
      BY <3>1, <3>2 DEF StreamInv
<1>8. ASSUME NEW c \in Conns, HeaderEof(c)
      PROVE  StreamInv'
  BY <1>8 DEF HeaderEof, network, StreamInv, StreamAt
<1>9. ASSUME NEW c \in Conns, HeaderError(c)
      PROVE  StreamInv'
  <2> DEFINE n == Len(delivered[c])
  <2>1. n \in Nat /\ got[c] = 2 * n /\ size[c] = n
    BY <1>9 DEF HeaderError, StreamInv, StreamAt
  <2>2. LengthAt(got[c]) = n + 1
    BY <2>1 DEF LengthAt
  <2>3. peer[c] = "rst" /\ got[c] = put[c]
    BY <1>9 DEF HeaderError, Drained, Gone, IsEof
  <2>4. sid[c] # NoId
    BY <1>9, ReadingAccepted DEF HeaderError
  <2> HIDE DEF n
  <2>5. /\ \E m \in {n, n + 1} : size' = [size EXCEPT ![c] = m]
        /\ rd' = [rd EXCEPT ![c] = "body"]
        /\ UNCHANGED <<sid, delivered, got, peer, put>>
    BY <1>9, <2>1, <2>2 DEF HeaderError, network
  <2>6. ASSUME NEW d \in Conns, d # c PROVE StreamAt(d)'
    BY <2>5, <2>6 DEF StreamInv, StreamAt
  <2>7. StreamAt(c)'
    BY <2>1, <2>3, <2>4, <2>5 DEF StreamInv, StreamAt, n
  <2> QED
    BY <2>6, <2>7 DEF StreamInv
<1>10. ASSUME NEW c \in Conns, BodyRead(c)
       PROVE  StreamInv'
  <2> DEFINE n == Len(delivered[c])
  <2>1. n \in Nat /\ got[c] = 2 * n + 1 /\ size[c] = n + 1
    BY <1>10, NextPacket
  <2>2. Len(Append(delivered[c], PacketAt(c))) = n + 1
    BY DEF PacketAt, Garbled
  <2>3. got[c] < put[c]
    BY <1>10, MsgAssumption DEF BodyRead, Drained, StreamInv, StreamAt
  <2>4. sid[c] # NoId
    BY <1>10, ReadingAccepted DEF BodyRead
  <2> HIDE DEF n
  <2>5. /\ got' = [got EXCEPT ![c] = 2 * n + 2]
        /\ delivered' = [delivered EXCEPT ![c] = Append(@, PacketAt(c))]
        /\ rd' = [rd EXCEPT ![c] = "header"]
        /\ UNCHANGED <<sid, size, peer, put>>
    <3>1. got[c] + 1 = 2 * n + 2
      BY <2>1
    <3> QED
      BY <1>10, <3>1 DEF BodyRead, DoRead
  <2> QED
    <3>1. ASSUME NEW d \in Conns, d # c PROVE StreamAt(d)'
      BY <2>5, <3>1 DEF StreamInv, StreamAt
    <3>2. StreamAt(c)'
      <4>1. /\ got'[c] = 2 * n + 2
            /\ Len(delivered'[c]) = n + 1
            /\ rd'[c] = "header"
        BY <2>2, <2>5
      <4>2. 2 * n + 2 <= put[c]
        BY <2>1, <2>3, MsgAssumption
      <4>3. 2 * n + 2 = 2 * (n + 1)
        BY <2>1
      <4> QED
        BY <2>1, <2>4, <2>5, <4>1, <4>2, <4>3 DEF StreamAt
    <3> QED
      BY <3>1, <3>2 DEF StreamInv
<1>11. ASSUME NEW c \in Conns, BodyError(c)
       PROVE  StreamInv'
  BY <1>11 DEF BodyError, network, StreamInv, StreamAt
<1>12. ASSUME NEW c \in Conns, EmptyBody(c)
       PROVE  StreamInv'
  BY <1>12 DEF EmptyBody, network, StreamInv, StreamAt
<1>13. CASE Tick \/ UNCHANGED vars
  BY <1>13 DEF Tick, vars, server, network, StreamInv, StreamAt
<1> QED
  BY <1>1, <1>2, <1>3, <1>4, <1>5, <1>6, <1>7, <1>8, <1>9, <1>10, <1>11,
     <1>12, <1>13 DEF Next, Session

\* A step that hands a packet on hands on the one that is next.
LEMMA FramesStep ==
    ASSUME IInv, [Next]_vars
    PROVE  FramesInOrder'
<1> USE DEF IInv, TypeOK
<1>1. ASSUME NEW c \in Conns, BodyRead(c)
      PROVE  FramesInOrder'
  <2>1. delivered' = [delivered EXCEPT ![c] = Append(@, PacketAt(c))]
    BY <1>1 DEF BodyRead
  <2>2. PacketAt(c) = Len(delivered[c]) + 1 /\ PacketAt(c) \in Nat
    BY <1>1, NextPacket
  <2>3. ASSUME NEW k \in 1 .. Len(delivered'[c])
        PROVE  delivered'[c][k] = k
    BY <2>1, <2>2 DEF FramesInOrder
  <2> QED
    BY <2>1, <2>3 DEF FramesInOrder
<1>2. ASSUME UNCHANGED delivered
      PROVE  FramesInOrder'
  BY <1>2 DEF FramesInOrder
<1>3. [Next]_vars => (UNCHANGED delivered \/ \E c \in Conns : BodyRead(c))
  BY DEF Next, Session, vars, server, Connect, Write, Close, Reset, Accept,
         AcceptDead, Tick, HeaderRead, HeaderEof, HeaderError, BodyError,
         EmptyBody
<1> QED
  BY <1>1, <1>2, <1>3

-----------------------------------------------------------------------------
LEMMA InvStep ==
    ASSUME IInv, [Next]_vars
    PROVE  IInv'
BY TypeStep, RegistryStep, EndpointStep, ReadLoopStep, DieStep, StreamStep,
   FramesStep DEF IInv

\* The inductive invariant holds in every reachable state, for every number of
\* connections, endpoints and messages.
THEOREM InductiveInvariant == Spec => []IInv
BY InitIInv, InvStep, PTL DEF Spec

\* Every variable keeps its type (AsioTcpServer.cpp, ClientSession.cpp).
THEOREM TypeCorrect == Spec => []TypeOK
<1>1. IInv => TypeOK
  BY DEF IInv
<1> QED
  BY <1>1, InductiveInvariant, PTL

\* The TCP and the UDP table hold the same clients under the same ids, for any
\* number of clients (AsioTcpServer.cpp:54-57, 66-80).
THEOREM TablesAgree == Spec => []RegistriesAgree
<1>1. IInv => RegistriesAgree
  BY DEF IInv
<1> QED
  BY <1>1, InductiveInvariant, PTL

\* The read loop of every session lives as long as its table entry, but for a
\* client that was reset or cut off within a message (ClientSession.cpp:16-33).
THEOREM ReadLoopsLive == Spec => []ReadLoopAlive
<1>1. IInv => ReadLoopAlive
  BY DEF IInv
<1> QED
  BY <1>1, InductiveInvariant, PTL

\* Packets are handed on whole and in order (ClientSession.cpp:17-32).
THEOREM FramesAreInOrder == Spec => []FramesInOrder
<1>1. IInv => FramesInOrder
  BY DEF IInv
<1> QED
  BY <1>1, InductiveInvariant, PTL

\* A broadcast repeats an endpoint only for a client that is gone
\* (AsioUdpServer.cpp:51-53).
THEOREM TwinsGone == Spec => []TwinsAreGone
<1>1. IInv => TwinsAreGone
  <2> SUFFICES ASSUME IInv, NEW i \in DOMAIN udpCl, NEW j \in DOMAIN udpCl,
                      i # j, udpCl[i] = udpCl[j]
               PROVE  peer[tcpCl[i]] \in Gone \/ peer[tcpCl[j]] \in Gone
    BY DEF TwinsAreGone
  <2> DEFINE c == tcpCl[i]
             d == tcpCl[j]
  <2>1. c \in Conns /\ d \in Conns /\ c # d /\ ep[c] = ep[d]
    BY DEF IInv, TypeOK, RegistriesAgree
  <2>2. c \in Registered /\ d \in Registered
    BY DEF IInv, RegistriesAgree, Registered, Range
  <2>3. peer[c] # "none" /\ peer[d] # "none"
    BY <2>2, RegisteredAccepted
  <2>4. peer[c] # "open" \/ peer[d] # "open"
    BY <2>1 DEF IInv, EndpointInv
  <2> QED
    BY <2>1, <2>3, <2>4 DEF IInv, TypeOK, Gone
<1> QED
  BY <1>1, InductiveInvariant, PTL

\* The process dies only of a connection reset before its first length prefix
\* was read (ClientSession.cpp:17-31).
THEOREM DeathsExplained == Spec => []DiesOnlyOfEmptyRead
<1>1. IInv => DiesOnlyOfEmptyRead
  BY DEF IInv
<1> QED
  BY <1>1, InductiveInvariant, PTL

\* Two stream units make a message.
LEMMA Halves ==
    ASSUME NEW n \in Nat
    PROVE  (2 * n) \div 2 = n
OBVIOUS

\* A client is removed only after an orderly close, with all it wrote processed
\* (ClientSession.cpp:19-22).
THEOREM RemovalIsOrderly == Spec => RemovedOnlyWhenDone
<1> DEFINE Done(i) == /\ peer[tcpCl[i]] = "fin"
                      /\ Len(delivered[tcpCl[i]]) = put[tcpCl[i]] \div 2
<1>1. ASSUME IInv, [Next]_vars, NEW i \in DOMAIN tcpCl, i \notin DOMAIN tcpCl'
      PROVE  Done(i)
  <2> USE DEF IInv, TypeOK
  <2>1. PICK c \in Conns : HeaderEof(c)
    <3>1. [Next]_vars => \/ UNCHANGED tcpCl
                         \/ \E c \in Conns : Accept(c) \/ HeaderEof(c)
      BY DEF Next, Session, vars, server, Connect, Write, Close, Reset,
             AcceptDead, Tick, HeaderRead, HeaderError, BodyRead, BodyError,
             EmptyBody
    <3>2. ASSUME NEW c \in Conns, Accept(c)
          PROVE  DOMAIN tcpCl \subseteq DOMAIN tcpCl'
      BY <3>2 DEF Accept, With
    <3> QED
      BY <1>1, <3>1, <3>2
  <2>2. tcpCl' = Without(tcpCl, sid[c])
    BY <2>1 DEF HeaderEof, RemoveTcpClient
  <2>3. i = sid[c]
    BY <1>1, <2>2 DEF Without, Restrict
  <2>4. tcpCl[i] = c
    BY <1>1, <2>1, <2>3 DEF HeaderEof, SessionInv
  <2>5. peer[c] = "fin" /\ got[c] = put[c] /\ rd[c] = "header"
    BY <2>1 DEF HeaderEof, IsEof, Drained
  <2>6. put[c] = 2 * Len(delivered[c]) /\ Len(delivered[c]) \in Nat
    BY <1>1, <2>5 DEF StreamInv, StreamAt
  <2>7. put[c] \div 2 = Len(delivered[c])
    BY <2>6, Halves
  <2> QED
    BY <2>4, <2>5, <2>7
<1>2. IInv /\ [Next]_vars =>
        [\A i \in DOMAIN tcpCl : i \notin DOMAIN tcpCl' =>
           LET c == tcpCl[i]
           IN  peer[c] = "fin" /\ Len(delivered[c]) = put[c] \div 2]_vars
  BY <1>1
<1> QED
  BY <1>2, InductiveInvariant, PTL DEF Spec, RemovedOnlyWhenDone

-----------------------------------------------------------------------------
(* SessionServer implements ClientDirectory *)

HungUp == {c \in Conns : peer[c] \in Gone}

\* The directory's view is unchanged by a step that leaves its five parts.
LEMMA DirectoryStutter ==
    ASSUME UNCHANGED <<up, Registered, Accepted, HungUp, delivered>>
    PROVE  UNCHANGED Directory!vars
BY DEF Directory!vars, HungUp

\* The set of accepted connections depends on the ids given out.
LEMMA AcceptedSame ==
    ASSUME UNCHANGED sid
    PROVE  Accepted' = Accepted
BY DEF Accepted

\* Who has hung up depends on the states of the peers.
LEMMA HungUpSame ==
    ASSUME UNCHANGED peer
    PROVE  HungUp' = HungUp
BY DEF HungUp

\* Every handler of the server and every step of a peer is a step of the
\* directory or is invisible to it.
LEMMA DirectoryStep ==
    ASSUME IInv, [Next]_vars
    PROVE  [Directory!Next]_(Directory!vars)
<1> DEFINE Goal == [Directory!Next]_(Directory!vars)
<1> USE DEF IInv, TypeOK
<1>1. ASSUME UNCHANGED <<up, tcpCl, sid, delivered>>, HungUp' = HungUp
      PROVE  Goal
  BY <1>1, RegisteredSame, AcceptedSame, DirectoryStutter
<1>2. ASSUME NEW c \in Conns, UNCHANGED <<up, tcpCl, sid, delivered>>,
             HungUp' = HungUp \cup {c}
      PROVE  Goal
  <2>1. Directory!HangUp(c)
    BY <1>2, RegisteredSame, AcceptedSame DEF Directory!HangUp, HungUp
  <2> QED
    BY <2>1 DEF Directory!Next
<1>3. ASSUME NEW c \in Conns, NEW e \in Endpoints, Connect(c, e)
      PROVE  Goal
  <2>1. HungUp' = HungUp
    BY <1>3 DEF Connect, HungUp, Gone
  <2> QED
    BY <1>1, <1>3, <2>1 DEF Connect, server
<1>4. ASSUME NEW c \in Conns, Write(c)
      PROVE  Goal
  BY <1>1, <1>4, HungUpSame DEF Write, server
<1>5. ASSUME NEW c \in Conns, Close(c) \/ Reset(c)
      PROVE  Goal
  <2>1. HungUp' = HungUp \cup {c}
    BY <1>5 DEF Close, Reset, HungUp, Gone
  <2> QED
    BY <1>2, <1>5, <2>1 DEF Close, Reset, server
<1>6. ASSUME NEW c \in Conns, Accept(c)
      PROVE  Goal
  <2>1. Registered' = Registered \cup {c} /\ c \notin Registered
    BY <1>6, AcceptJoins
  <2>2. c \notin Accepted
    BY <1>6 DEF Accept, BacklogInv, Accepted
  <2>3. Accepted' = Accepted \cup {c}
    <3>1. sid' = [sid EXCEPT ![c] = nextId] /\ nextId # NoId
      BY <1>6 DEF Accept, Ids, NoId
    <3> QED
      BY <3>1 DEF Accepted, NoId
  <2>4. HungUp' = HungUp
    BY <1>6 DEF Accept, DoSend, HungUp, Gone
  <2>5. up /\ up' = up /\ delivered' = delivered
    BY <1>6 DEF Accept
  <2>6. Directory!Join(c)
    BY <2>1, <2>2, <2>3, <2>4, <2>5 DEF Directory!Join, HungUp
  <2> QED
    BY <2>6 DEF Directory!Next
<1>7. ASSUME NEW c \in Conns, AcceptDead(c)
      PROVE  Goal
  BY <1>1, <1>7, HungUpSame DEF AcceptDead
<1>8. ASSUME NEW c \in Conns, HeaderRead(c) \/ HeaderError(c) \/ BodyError(c)
      PROVE  Goal
  BY <1>1, <1>8, HungUpSame DEF HeaderRead, HeaderError, BodyError, network
<1>9. ASSUME NEW c \in Conns, HeaderEof(c)
      PROVE  Goal
  <2>1. Registered' = Registered \ {c} /\ c \in Registered
    BY <1>9, EofLeaves
  <2>2. Accepted' = Accepted /\ c \in Accepted
    BY <1>9, <2>1, AcceptedSame, RegisteredAccepted DEF HeaderEof, Accepted
  <2>3. HungUp' = HungUp /\ c \in HungUp
    BY <1>9, HungUpSame DEF HeaderEof, network, HungUp
  <2>4. up /\ up' = up /\ delivered' = delivered
    BY <1>9 DEF HeaderEof
  <2>5. Directory!Leave(c)
    BY <2>1, <2>2, <2>3, <2>4 DEF Directory!Leave, HungUp
  <2> QED
    BY <2>5 DEF Directory!Next
<1>10. ASSUME NEW c \in Conns, BodyRead(c)
       PROVE  Goal
  <2>1. c \in Registered
    BY <1>10 DEF BodyRead, SessionInv, Registered, Range
  <2>2. delivered' = [delivered EXCEPT ![c] = Append(@, Len(@) + 1)]
    BY <1>10, NextPacket DEF BodyRead
  <2>3. up /\ UNCHANGED <<up, Registered, Accepted, HungUp>>
    BY <1>10, RegisteredSame, AcceptedSame, HungUpSame DEF BodyRead
  <2>4. Directory!Receive(c)
    BY <2>1, <2>2, <2>3 DEF Directory!Receive, HungUp
  <2> QED
    BY <2>4 DEF Directory!Next
<1>11. ASSUME NEW c \in Conns, EmptyBody(c)
       PROVE  Goal
  <2>1. c \in Registered
    BY <1>11 DEF EmptyBody, SessionInv, Registered, Range
  <2>2. c \in HungUp
    BY <1>11 DEF EmptyBody, StreamInv, StreamAt, HungUp, Gone
  <2>3. /\ up' = FALSE
        /\ UNCHANGED <<Registered, Accepted, HungUp, delivered>>
    BY <1>11, RegisteredSame, AcceptedSame, HungUpSame DEF EmptyBody, network
  <2>4. Directory!Die
    BY <2>1, <2>2, <2>3 DEF Directory!Die, HungUp
  <2> QED
    BY <2>4 DEF Directory!Next
<1>12. CASE Tick \/ UNCHANGED vars
  BY <1>1, <1>12, HungUpSame DEF Tick, vars, server, network
<1> QED
  BY <1>3, <1>4, <1>5, <1>6, <1>7, <1>8, <1>9, <1>10, <1>11, <1>12
     DEF Next, Session

\* The server keeps the promises of the abstract directory: connections join
\* once, only members are heard, in order, and members leave only after they
\* hung up.
THEOREM ServerImplementsDirectory == Spec => ImplementsDirectory
<1>1. Init => Directory!Init
  <2> SUFFICES ASSUME Init PROVE Directory!Init
    OBVIOUS
  <2>1. Registered = {} /\ Accepted = {} /\ HungUp = {}
    BY DEF Init, Registered, Range, Empty, Accepted, HungUp, Gone
  <2> QED
    BY <2>1 DEF Init, Directory!Init, HungUp
<1>2. IInv /\ [Next]_vars => [Directory!Next]_(Directory!vars)
  BY DirectoryStep
<1> QED
  BY <1>1, <1>2, InductiveInvariant, PTL
     DEF Spec, ImplementsDirectory, Directory!Spec
-----------------------------------------------------------------------------
(* Liveness.  What the prover cannot say for itself is when an action is    *)
(* enabled: the three state formulas below say it, from the guards of the   *)
(* actions, and are hypotheses of the theorems.                             *)

\* The accept handler takes a connection off the backlog either way.
AcceptHandler(c) == Accept(c) \/ AcceptDead(c)

AcceptEnabled ==
    \A c \in Conns :
        up /\ "accept" \in armed /\ c \in backlog
            => ENABLED <<AcceptHandler(c)>>_vars

TickEnabled ==
    up /\ "timer" \in armed /\ ~(Range(udpCl) \subseteq reached)
        => ENABLED <<Tick>>_vars

SessionEnabled ==
    \A c \in Conns :
        up /\ rd[c] # "none" /\ (~Drained(c) \/ peer[c] \in Gone)
            => ENABLED <<Session(c)>>_vars

\* The accept and the timer are pending between any two handlers.
BothArmed == armed = {"accept", "timer"}

LEMMA ArmedAlways == Spec => []BothArmed
<1>1. Init => BothArmed
  BY DEF Init, BothArmed
<1>2. BothArmed /\ [Next]_vars => BothArmed'
  <2> SUFFICES ASSUME BothArmed, [Next]_vars PROVE BothArmed'
    OBVIOUS
  <2>1. \/ UNCHANGED armed
        \/ armed' = Listen(armed \ {"accept"})
        \/ armed' = StartTest(armed \ {"timer"})
    BY DEF Next, Session, vars, server, Connect, Write, Close, Reset, Accept,
           AcceptDead, Tick, HeaderRead, HeaderEof, HeaderError, BodyRead,
           BodyError, EmptyBody
  <2> QED
    BY <2>1 DEF BothArmed, Listen, StartTest
<1> QED
  BY <1>1, <1>2, PTL DEF Spec

\* The fairness of one connection's operations, for the prover to instantiate.
AcceptFair(c) == WF_vars(AcceptHandler(c))
SessionFair(c) == WF_vars(Session(c))

LEMMA FairParts ==
    FairSpec => /\ Spec
                /\ \A c \in Conns : AcceptFair(c)
                /\ \A c \in Conns : SessionFair(c)
                /\ WF_vars(Tick)
BY PTL DEF FairSpec, Fairness, AcceptFair, AcceptHandler, SessionFair

LEMMA FairEach ==
    ASSUME NEW d \in Conns
    PROVE  FairSpec => AcceptFair(d) /\ SessionFair(d)
<1>1. (\A c \in Conns : AcceptFair(c)) => AcceptFair(d)
  OBVIOUS
<1>2. (\A c \in Conns : SessionFair(c)) => SessionFair(d)
  OBVIOUS
<1> QED BY <1>1, <1>2, FairParts, PTL

\* Every connection that reaches the listening socket is taken off the
\* backlog: no accept handler ends without the next accept
\* (AsioTcpServer.cpp:61).
THEOREM BacklogIsServed == FairSpec /\ []AcceptEnabled => BacklogServed
<1> SUFFICES ASSUME NEW c \in Conns
             PROVE  FairSpec /\ []AcceptEnabled
                      => (c \in backlog ~> c \notin backlog \/ ~up)
  BY DEF BacklogServed
<1> DEFINE Waits == c \in backlog /\ up
<1>1. BothArmed /\ AcceptEnabled /\ Waits
        => ENABLED <<AcceptHandler(c)>>_vars
  BY DEF BothArmed, AcceptEnabled
<1>2. <<AcceptHandler(c)>>_vars => ~Waits'
  BY DEF AcceptHandler, Accept, AcceptDead
<1>3. ~Waits => c \notin backlog \/ ~up
  OBVIOUS
<1>4. FairSpec => AcceptFair(c)
  BY FairEach
<1>5. AcceptFair(c) => WF_vars(AcceptHandler(c))
  BY PTL DEF AcceptFair
<1>6. FairSpec => WF_vars(AcceptHandler(c))
  BY <1>4, <1>5, PTL
<1>7. FairSpec => []BothArmed
  BY FairParts, ArmedAlways, PTL
<1> HIDE DEF Waits
<1>8. FairSpec /\ []AcceptEnabled => []<>~Waits
  BY <1>1, <1>2, <1>6, <1>7, PTL
<1> QED
  BY <1>3, <1>8, PTL

\* Every client that stays is reached by the periodic broadcast: no timer
\* handler ends without the next one (AsioTcpServer.cpp:139-151).
THEOREM BroadcastsReachAll == FairSpec /\ []TickEnabled => BroadcastReachesAll
<1> SUFFICES ASSUME NEW c \in Conns
             PROVE  FairSpec /\ []TickEnabled
                      => (c \in Registered
                            ~> ep[c] \in reached \/ c \notin Registered \/ ~up)
  BY DEF BroadcastReachesAll
<1> DEFINE Unreached == c \in Registered /\ ep[c] \notin reached /\ up
<1>1. IInv /\ Unreached => ep[c] \in Range(udpCl)
  <2> SUFFICES ASSUME IInv, Unreached PROVE ep[c] \in Range(udpCl)
    OBVIOUS
  <2>1. PICK i \in DOMAIN tcpCl : tcpCl[i] = c
    BY DEF Registered, Range
  <2> QED
    BY <2>1 DEF IInv, RegistriesAgree, Range
<1>2. IInv /\ BothArmed /\ TickEnabled /\ Unreached => ENABLED <<Tick>>_vars
  BY <1>1 DEF BothArmed, TickEnabled
<1>3. IInv /\ Unreached /\ <<Tick>>_vars => ~Unreached'
  BY <1>1 DEF Tick, network
<1>4. ~Unreached => ep[c] \in reached \/ c \notin Registered \/ ~up
  OBVIOUS
<1> HIDE DEF Unreached
<1> QED
  BY <1>2, <1>3, <1>4, FairParts, ArmedAlways, InductiveInvariant, PTL

\* A client that closed between two messages and of whose stream n units are
\* not read yet.
Departing(c, n) ==
    /\ up /\ c \in Registered
    /\ peer[c] = "fin" /\ put[c] % 2 = 0
    /\ put[c] - got[c] = n

\* It has come closer to its removal, or is removed, or was reset.
Departed(c, n) ==
    \/ c \notin Registered \/ peer[c] = "rst" \/ ~up
    \/ \E m \in 0 .. n - 1 : Departing(c, m)

\* What is next for such a client is a unit of its stream, or its end.
LEMMA DepartingReads ==
    ASSUME IInv, NEW c \in Conns, NEW n \in Nat, Departing(c, n)
    PROVE  /\ rd[c] # "none" /\ peer[c] \in Gone
           /\ rd[c] = "body" => ~Drained(c)
<1>1. Len(delivered[c]) \in Nat /\ put[c] \in Nat
  BY MsgAssumption DEF IInv, TypeOK
<1>2. rd[c] # "none"
  BY DEF IInv, ReadLoopAlive, Departing
<1>3. rd[c] = "body" => ~Drained(c)
  BY <1>1 DEF IInv, StreamInv, StreamAt, Departing, Drained
<1> QED
  BY <1>2, <1>3 DEF Departing, Gone

\* No step of anyone takes it further from its removal.
LEMMA DepartingStays ==
    ASSUME IInv, NEW c \in Conns, NEW n \in Nat, Departing(c, n), [Next]_vars
    PROVE  Departing(c, n)' \/ Departed(c, n)'
<1> DEFINE Goal == Departing(c, n)' \/ Departed(c, n)'
<1> USE DEF IInv, TypeOK
<1>1. ASSUME Registered' = Registered, UNCHANGED <<up, peer, put, got>>
      PROVE  Goal
  BY <1>1 DEF Departing
<1>2. ASSUME NEW d \in Conns, Accept(d)
      PROVE  Goal
  <2>1. Registered' = Registered \cup {d} /\ d \notin Registered
    BY <1>2, AcceptJoins
  <2>2. peer'[c] = peer[c] /\ UNCHANGED <<up, put, got>>
    BY <1>2, <2>1 DEF Accept, Departing
  <2> QED
    BY <2>1, <2>2 DEF Departing
<1>3. ASSUME NEW d \in Conns, HeaderEof(d)
      PROVE  Goal
  BY <1>3, EofLeaves DEF HeaderEof, network, Departing, Departed
<1>4. ASSUME NEW d \in Conns,
             Write(d) \/ Close(d) \/ \E e \in Endpoints : Connect(d, e)
      PROVE  Goal
  <2>1. d # c
    BY <1>4 DEF Write, Close, Connect, Departing
  <2>2. UNCHANGED <<up, tcpCl, got>> /\ peer'[c] = peer[c] /\ put'[c] = put[c]
    BY <1>4, <2>1 DEF Write, Close, Connect, server
  <2> QED
    BY <2>2, RegisteredSame DEF Departing
<1>5. ASSUME NEW d \in Conns, Reset(d)
      PROVE  Goal
  <2>1. CASE d = c
    BY <1>5, <2>1 DEF Reset, Departed
  <2>2. CASE d # c
    <3>1. UNCHANGED <<up, tcpCl, got>> /\ peer'[c] = peer[c] /\ put'[c] = put[c]
      BY <1>5, <2>2 DEF Reset, server
    <3> QED
      BY <3>1, RegisteredSame DEF Departing
  <2> QED
    BY <2>1, <2>2
<1>6. ASSUME NEW d \in Conns, HeaderRead(d) \/ BodyRead(d)
      PROVE  Goal
  <2>1. /\ UNCHANGED <<up, tcpCl, peer, put>>
        /\ got' = [got EXCEPT ![d] = @ + 1] /\ got[d] # put[d]
    BY <1>6 DEF HeaderRead, BodyRead, Drained
  <2>2. CASE d = c
    <3>1. put[c] - got'[c] \in 0 .. n - 1
      <4>1. put[c] - got[c] = n /\ put[c] \in Nat /\ got[c] \in Nat
        BY MsgAssumption DEF Departing
      <4>2. got'[c] = got[c] + 1 /\ n # 0
        BY <2>1, <2>2, <4>1
      <4> QED
        BY <4>1, <4>2
    <3>2. PICK m \in 0 .. n - 1 : put[c] - got'[c] = m
      BY <3>1
    <3>3. Departing(c, m)'
      BY <2>1, <3>2, RegisteredSame DEF Departing
    <3> QED
      BY <3>2, <3>3 DEF Departed
  <2>3. CASE d # c
    BY <2>1, <2>3, RegisteredSame DEF Departing
  <2> QED
    BY <2>2, <2>3
<1>7. ASSUME NEW d \in Conns, EmptyBody(d)
      PROVE  Goal
  BY <1>7 DEF EmptyBody, Departed
<1>8. ASSUME NEW d \in Conns, AcceptDead(d) \/ HeaderError(d) \/ BodyError(d)
      PROVE  Goal
  BY <1>1, <1>8, RegisteredSame DEF AcceptDead, HeaderError, BodyError, network
<1>9. CASE Tick \/ UNCHANGED vars
  BY <1>1, <1>9, RegisteredSame DEF Tick, vars, server, network
<1> QED
  BY <1>2, <1>3, <1>4, <1>5, <1>6, <1>7, <1>8, <1>9 DEF Next, Session

\* Each step of its own session brings it closer.
LEMMA DepartingMoves ==
    ASSUME IInv, NEW c \in Conns, NEW n \in Nat, Departing(c, n), Session(c)
    PROVE  Departed(c, n)'
<1> USE DEF IInv, TypeOK
<1>1. CASE HeaderRead(c) \/ BodyRead(c)
  <2>1. /\ UNCHANGED <<up, tcpCl, peer, put>>
        /\ got' = [got EXCEPT ![c] = @ + 1] /\ got[c] # put[c]
    BY <1>1 DEF HeaderRead, BodyRead, Drained
  <2>2. put[c] - got'[c] \in 0 .. n - 1
    <3>1. put[c] - got[c] = n /\ put[c] \in Nat /\ got[c] \in Nat
      BY MsgAssumption DEF Departing
    <3>2. got'[c] = got[c] + 1 /\ n # 0
      BY <2>1, <3>1
    <3> QED
      BY <3>1, <3>2
  <2>3. PICK m \in 0 .. n - 1 : put[c] - got'[c] = m
    BY <2>2
  <2>4. Departing(c, m)'
    BY <2>1, <2>3, RegisteredSame DEF Departing
  <2> QED
    BY <2>3, <2>4 DEF Departed
<1>2. CASE HeaderEof(c)
  BY <1>2, EofLeaves DEF Departed
<1>3. ~HeaderError(c)
  BY DEF HeaderError, IsEof, Departing
<1>4. ~BodyError(c)
  BY DepartingReads DEF BodyError
<1>5. CASE EmptyBody(c)
  BY <1>5 DEF EmptyBody, Departed
<1> QED
  BY <1>1, <1>2, <1>3, <1>4, <1>5 DEF Session

\* A client that closes between two messages comes ever closer to its removal:
\* whatever is left of its stream, less is left later (ClientSession.cpp:16-33).
THEOREM DepartureAdvances ==
    FairSpec /\ []SessionEnabled
        => \A c \in Conns, n \in Nat : Departing(c, n) ~> Departed(c, n)
<1> SUFFICES ASSUME NEW c \in Conns, NEW n \in Nat
             PROVE  FairSpec /\ []SessionEnabled
                      => (Departing(c, n) ~> Departed(c, n))
  OBVIOUS
<1>1. IInv /\ SessionEnabled /\ Departing(c, n)
        => ENABLED <<Session(c)>>_vars
  BY DepartingReads DEF SessionEnabled, Departing
<1>2. IInv /\ Departing(c, n) /\ [Next]_vars
        => Departing(c, n)' \/ Departed(c, n)'
  BY DepartingStays
<1>3. IInv /\ Departing(c, n) /\ <<Session(c)>>_vars
        => Departed(c, n)'
  BY DepartingMoves
<1>4. FairSpec => SessionFair(c)
  BY FairEach
<1>5. SessionFair(c) => WF_vars(Session(c))
  BY PTL DEF SessionFair
<1>6. FairSpec => WF_vars(Session(c))
  BY <1>4, <1>5, PTL
<1>7. FairSpec => []IInv /\ [][Next]_vars
  BY FairParts, InductiveInvariant, PTL DEF Spec
<1> QED
  BY <1>1, <1>2, <1>3, <1>6, <1>7, PTL
=============================================================================
