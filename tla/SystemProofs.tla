---------------------------- MODULE SystemProofs ----------------------------
(***************************************************************************)
(* Theorems about System for any number of connections, buttons, endpoints *)
(* and kills.  Each end brings its own inductive invariant along: every    *)
(* step of the system is a step of ClientLink or leaves the client alone,  *)
(* and a step of SessionServer unless the server is killed or started      *)
(* again.  What is left to prove is what relates the two ends.             *)
(***************************************************************************)
EXTENDS System, FiniteSetTheorems, TLAPS

SP == INSTANCE SessionServerProofs
          WITH IdSpace <- MaxSockets + 1, MaxMsgs <- MaxClicks
CP == INSTANCE ClientLinkProofs WITH size <- told

-----------------------------------------------------------------------------
(* The invariant *)

\* A server that was not killed, dead or alive, is as SessionServer says.
ServerInv ==
    /\ SP!TypeOK
    /\ killed => ~up /\ kills > 0
    /\ killed \/ SP!IInv

BetweenType ==
    /\ greeted \subseteq Conns /\ early \subseteq Conns
    /\ sent \in [Conns -> 0 .. MaxClicks]
    /\ kills \in 0 .. MaxKills
    /\ killed \in BOOLEAN

\* Sockets are opened in turn, and nothing comes before it was written.
CountInv ==
    /\ tcp # "closed" => gen >= 1
    /\ \A g \in Conns :
         /\ sent[g] <= clicks
         /\ put[g] <= 2 * sent[g]
         /\ g > gen => sent[g] = 0 /\ peer[g] = "none"
         /\ peer[g] = "none" => put[g] = 0
         /\ g \in greeted => peer[g] # "none"
    /\ tcp \in {"connecting", "refused"} => peer[gen] = "none"
    /\ tcp = "connecting" /\ ~hasty => sent[gen] = 0

\* A connection that is open at the server is the client's, and up.
OneOpen ==
    up => \A g \in Conns : peer[g] = "open" => g = gen /\ tcp = "up"

\* Only FirstData on a connection left early makes a reset.
ResetInv ==
    /\ \A g \in Conns : peer[g] = "rst" => g \in early \cap greeted
    /\ early # {} => hasty

\* What arrives was written, by a session that is in the tables while its
\* connection lasts.
GreetedInv ==
    /\ arrived > 0 => gen \in greeted
    /\ up => \A g \in greeted : peer[g] = "open" => g \in Members

\* Without a kill an orderly user's connection fails at neither end.
LiveInv ==
    ~hasty /\ kills = 0 =>
        /\ up
        /\ tcp \notin {"fin", "rst"}
        /\ tcp = "up" => peer[gen] = "open"

\* All that an orderly user sent is on its way but the write that is pending,
\* and on a connection that the user has closed there is none.
SentInv ==
    ~hasty /\ up =>
        /\ \A g \in Conns : peer[g] = "open" =>
              put[g] >= 2 * (sent[g] - Len(writes))
        /\ \A g \in Members \cup backlog : peer[g] = "fin" =>
              /\ put[g] = 2 * sent[g]
              /\ g = gen => tcp = "closed"

Between ==
    /\ BetweenType /\ CountInv /\ OneOpen
    /\ ResetInv /\ GreetedInv /\ LiveInv /\ SentInv

SysInv == CP!IInv /\ ServerInv /\ Between

-----------------------------------------------------------------------------
(* The assumptions of the two ends *)

LEMMA ClientAssumptions == CP!SizeAssumption /\ CP!BoundAssumption
BY SizesAssumption, BoundsAssumption DEF CP!SizeAssumption, CP!BoundAssumption

LEMMA ServerAssumptions ==
    SP!IdAssumption /\ SP!MsgAssumption /\ SP!EndpointAssumption
<1>1. MaxSockets \in Nat /\ MaxClicks \in Nat
  BY BoundsAssumption
<1>2. IsFiniteSet(Conns) /\ Cardinality(Conns) = MaxSockets
  BY <1>1, FS_Interval DEF Conns
<1>3. SP!IsFiniteSet(Conns) /\ SP!Cardinality(Conns) = MaxSockets
  BY <1>2 DEF SP!IsFiniteSet, IsFiniteSet, SP!Cardinality, Cardinality
<1>4. SP!IdAssumption
  BY <1>1, <1>3 DEF SP!IdAssumption
<1> QED
  BY <1>1, <1>4, NoEndpointAssumption DEF SP!MsgAssumption, SP!EndpointAssumption

-----------------------------------------------------------------------------
(* The client's steps *)

\* The client's actions are the same in either instance of ClientLink.
LEMMA ClientActions == C!Next => CP!Next
<1> USE DEF C!Click, CP!Click, C!Settled, CP!Settled, C!IsOpen, CP!IsOpen,
            C!CloseTcp, CP!CloseTcp, C!DisconnectTcp, CP!DisconnectTcp,
            C!Aborted, CP!Aborted, C!Done, CP!Done, C!Got, CP!Got,
            C!CloseUdp, CP!CloseUdp, C!Handle, CP!Handle, C!Handled, CP!Handled,
            C!StartRead, CP!StartRead, C!AsyncRead, CP!AsyncRead,
            C!IoDisconnect, CP!IoDisconnect, C!BodySize, CP!BodySize,
            C!LengthAt, CP!LengthAt, C!udpSocket, CP!udpSocket,
            C!socket, CP!socket, C!history, CP!history, C!thread, CP!thread
<1>1. C!ClickConnect => CP!ClickConnect
  BY Zenon DEF C!ClickConnect, CP!ClickConnect
<1>2. C!ClickDisconnect => CP!ClickDisconnect
  BY Zenon DEF C!ClickDisconnect, CP!ClickDisconnect
<1>3. C!ClickSend => CP!ClickSend
  BY Zenon DEF C!ClickSend, CP!ClickSend
<1>4. C!DisconnectUdp => CP!DisconnectUdp
  BY Zenon DEF C!DisconnectUdp, CP!DisconnectUdp
<1>5. C!SendUdp => CP!SendUdp
  BY Zenon DEF C!SendUdp, CP!SendUdp
<1>6. C!Resolved => CP!Resolved
  BY Zenon DEF C!Resolved, CP!Resolved
<1>7. C!Established => CP!Established
  BY Zenon DEF C!Established, CP!Established
<1>8. C!Arrive => CP!Arrive
  BY Zenon DEF C!Arrive, CP!Arrive
<1>9. C!ServerEnds => CP!ServerEnds
  BY Zenon DEF C!ServerEnds, CP!ServerEnds
<1>10. C!WriteDone => CP!WriteDone
  BY Zenon DEF C!WriteDone, CP!WriteDone
<1>11. C!ReadDone => CP!ReadDone
  BY Zenon DEF C!ReadDone, CP!ReadDone
<1>12. C!HandleResolve => CP!HandleResolve
  BY Zenon DEF C!HandleResolve, CP!HandleResolve
<1>13. C!HandleConnect => CP!HandleConnect
  BY Zenon DEF C!HandleConnect, CP!HandleConnect
<1>14. C!HandleWrite => CP!HandleWrite
  BY Zenon DEF C!HandleWrite, CP!HandleWrite
<1>15. C!HandleHeader => CP!HandleHeader
  BY Zenon DEF C!HandleHeader, CP!HandleHeader
<1>16. C!HandleBodyError => CP!HandleBodyError
  BY Zenon DEF C!HandleBodyError, CP!HandleBodyError
<1>17. C!HandleNothing => CP!HandleNothing
  BY Zenon DEF C!HandleNothing, CP!HandleNothing
<1>18. C!HandleBytes => CP!HandleBytes
  BY Zenon DEF C!HandleBytes, CP!HandleBytes
<1>19. C!HandleFirstData => CP!HandleFirstData
  BY Zenon DEF C!HandleFirstData, CP!HandleFirstData
<1>20. C!OpenUdp => CP!OpenUdp
  BY Zenon DEF C!OpenUdp, CP!OpenUdp
<1>21. C!BindUdp => CP!BindUdp
  BY Zenon DEF C!BindUdp, CP!BindUdp
<1>22. C!ListenUdp => CP!ListenUdp
  BY Zenon DEF C!ListenUdp, CP!ListenUdp
<1>23. C!ReadOn => CP!ReadOn
  BY Zenon DEF C!ReadOn, CP!ReadOn
<1>24. C!IoDisconnectUdp => CP!IoDisconnectUdp
  BY Zenon DEF C!IoDisconnectUdp, CP!IoDisconnectUdp
<1> QED
  BY <1>1, <1>2, <1>3, <1>4, <1>5, <1>6, <1>7, <1>8, <1>9, <1>10, <1>11, <1>12, <1>13, <1>14, <1>15, <1>16, <1>17, <1>18, <1>19, <1>20, <1>21, <1>22, <1>23, <1>24, Zenon
     DEF C!Next, CP!Next

LEMMA ClientSame == UNCHANGED client => UNCHANGED CP!vars
BY DEF client, CP!vars, CP!socket, CP!udpSocket, CP!history, CP!thread

LEMMA ClientVars == UNCHANGED CP!vars <=> UNCHANGED C!vars
BY DEF C!vars, C!socket, C!udpSocket, C!history, C!thread,
       CP!vars, CP!socket, CP!udpSocket, CP!history, CP!thread

\* No step of the system does to the client what ClientLink does not.
LEMMA ClientStep ==
    ASSUME [Next]_vars
    PROVE  C!Next \/ UNCHANGED client
<1>1. ClientMoves \/ ClientSends => C!Next
  BY Zenon DEF ClientMoves, Moves, ClientSends, C!Next
<1>2. Establish \/ ToClient \/ ClientWritten \/ ServerGone => C!Next
  BY Zenon DEF Establish, ToClient, ClientWritten, ServerGone, C!Next
<1>3. ClientEnds \/ ToServer \/ Kill \/ Restart => UNCHANGED client
  BY Zenon DEF ClientEnds, ToServer, Kill, Restart, client
<1>4. ASSUME NEW g \in Conns, Refuse(g) \/ Greet(g) \/ Serve(g)
      PROVE  UNCHANGED client
  BY <1>4, Zenon DEF Refuse, Greet, Serve
<1>5. UNCHANGED vars => UNCHANGED client
  BY DEF vars
<1> QED BY <1>1, <1>2, <1>3, <1>4, <1>5 DEF Next

\* The system's client is a client as ClientLink describes it: whatever holds
\* of that one, here with a server that can be killed, holds of this one
\* (connection.cpp, mainclient.cpp).
THEOREM SystemRunsClientLink == Spec => C!Spec
<1>1. Init => C!Init
  BY DEF Init
<1>2. [Next]_vars => [C!Next]_(C!vars)
  BY ClientStep, ClientSame, ClientVars
<1> QED BY <1>1, <1>2, PTL DEF Spec, C!Spec

LEMMA ClientInv ==
    ASSUME CP!IInv, [Next]_vars
    PROVE  CP!IInv'
<1>1. [CP!Next]_(CP!vars)
  BY ClientStep, ClientActions, ClientSame
<1> QED BY <1>1, ClientAssumptions, CP!InvStep DEF CP!InvStep

LEMMA ClientInit == C!Init => CP!IInv
<1>1. C!Init => CP!Init
  BY Zenon DEF C!Init, CP!Init
<1> QED BY <1>1, ClientAssumptions, CP!InitIInv DEF CP!InitIInv

-----------------------------------------------------------------------------
(* The server's steps *)

LEMMA ServerActions ==
    ASSUME NEW g \in Conns
    PROVE  /\ \A e : S!Connect(g, e) => SP!Connect(g, e)
           /\ S!Write(g) => SP!Write(g)
           /\ S!Close(g) => SP!Close(g)
           /\ S!Reset(g) => SP!Reset(g)
           /\ S!Accept(g) => SP!Accept(g)
           /\ S!Session(g) => SP!Session(g)
<1> USE DEF S!With, SP!With, S!Without, SP!Without, S!NoId, SP!NoId, S!server,
            SP!server, S!network, SP!network, S!Drained, SP!Drained,
            S!Gone, SP!Gone, S!IsEof, SP!IsEof, S!DoRead, SP!DoRead
<1>1. \A e : S!Connect(g, e) => SP!Connect(g, e)
  BY Zenon DEF S!Connect, SP!Connect
<1>2. S!Write(g) => SP!Write(g)
  BY Zenon DEF S!Write, SP!Write
<1>3. S!Close(g) => SP!Close(g)
  BY Zenon DEF S!Close, SP!Close
<1>4. S!Reset(g) => SP!Reset(g)
  BY Zenon DEF S!Reset, SP!Reset
<1>5. S!Accept(g) => SP!Accept(g)
  BY Zenon DEF S!Accept, SP!Accept, S!ClientInfo, SP!ClientInfo, S!DoSend,
               SP!DoSend, S!Listen, SP!Listen
<1>6. S!HeaderRead(g) => SP!HeaderRead(g)
  BY Zenon DEF S!HeaderRead, SP!HeaderRead, S!LengthAt, SP!LengthAt
<1>7. S!HeaderEof(g) => SP!HeaderEof(g)
  BY Zenon DEF S!HeaderEof, SP!HeaderEof, S!RemoveUdpClient, SP!RemoveUdpClient,
               S!RemoveTcpClient, SP!RemoveTcpClient, S!Restrict, SP!Restrict
<1>8. S!HeaderError(g) => SP!HeaderError(g)
  BY Zenon DEF S!HeaderError, SP!HeaderError, S!LengthAt, SP!LengthAt
<1>9. S!BodyRead(g) => SP!BodyRead(g)
  BY Zenon DEF S!BodyRead, SP!BodyRead, S!PacketAt, SP!PacketAt, S!Garbled, SP!Garbled
<1>10. S!BodyError(g) => SP!BodyError(g)
  BY Zenon DEF S!BodyError, SP!BodyError
<1>11. S!EmptyBody(g) => SP!EmptyBody(g)
  BY Zenon DEF S!EmptyBody, SP!EmptyBody
<1>12. S!Session(g) => SP!Session(g)
  BY <1>6, <1>7, <1>8, <1>9, <1>10, <1>11, Zenon DEF S!Session, SP!Session
<1> QED BY <1>1, <1>2, <1>3, <1>4, <1>5, <1>12, Zenon

LEMMA ServerSame == UNCHANGED server => UNCHANGED SP!vars
BY DEF server, SP!vars, SP!server, SP!network

\* Who is in the tables.
LEMMA MembersRegistered == Members = SP!Registered
BY DEF Members, SP!Registered, SP!Range

LEMMA MembersRegisteredNext == Members' = SP!Registered'
BY DEF Members, SP!Registered, SP!Range

\* A number of a socket that is not closed is a connection's.
LEMMA GenConn ==
    ASSUME CP!TypeInv, gen >= 1
    PROVE  gen \in Conns
BY BoundsAssumption DEF CP!TypeInv, CP!TypeOK, Conns

\* The client's leaving is the server's peer closing, or nothing.
LEMMA LeaveServer ==
    ASSUME CP!TypeInv, CountInv, Leave
    PROVE  \/ UNCHANGED server
           \/ gen \in Conns /\ SP!Close(gen)
<1>1. CASE tcp \in {"up", "fin", "rst"} /\ up /\ peer[gen] = "open"
  <2>1. gen \in Conns
    BY <1>1, GenConn DEF CountInv
  <2> QED BY <1>1, <2>1, ServerActions DEF Leave
<1>2. CASE ~(tcp \in {"up", "fin", "rst"} /\ up /\ peer[gen] = "open")
  BY <1>2 DEF Leave
<1> QED BY <1>1, <1>2

\* The server takes a step of SessionServer, or is killed, or starts again.
LEMMA ServerStep ==
    ASSUME CP!TypeInv, CountInv, [Next]_vars
    PROVE  [SP!Next]_(SP!vars) \/ Kill \/ Restart
<1> SUFFICES ASSUME ~Kill, ~Restart PROVE [SP!Next]_(SP!vars)
  OBVIOUS
<1>1. CASE ClientMoves \/ ClientEnds
  <2>1. UNCHANGED server \/ Leave
    BY <1>1 DEF ClientMoves, ClientEnds
  <2> QED BY <2>1, LeaveServer, ServerSame DEF SP!Next
<1>2. CASE Establish
  <2>1. CASE UNCHANGED server
    BY <2>1, ServerSame
  <2>2. CASE \E e \in Endpoints : S!Connect(gen, e)
    <3>1. gen \in Conns
      BY <1>2, GenConn DEF Establish, C!Established, CountInv
    <3> QED BY <2>2, <3>1, ServerActions DEF SP!Next
  <2> QED BY <1>2, <2>1, <2>2 DEF Establish
<1>3. CASE ToServer
  <2>1. gen \in Conns
    BY <1>3, GenConn DEF ToServer, CountInv
  <2> QED BY <1>3, <2>1, ServerActions DEF ToServer, SP!Next
<1>4. ASSUME NEW g \in Conns, Refuse(g) \/ Greet(g) \/ Serve(g)
      PROVE  SP!Next
  BY <1>4, ServerActions DEF Refuse, Greet, Serve, SP!Next
<1>5. CASE ClientSends \/ ToClient \/ ClientWritten \/ ServerGone \/ UNCHANGED vars
  BY <1>5, ServerSame DEF ClientSends, ToClient, ClientWritten, ServerGone, vars
<1> QED BY <1>1, <1>2, <1>3, <1>4, <1>5 DEF Next

\* A server that starts has no session, no client and nothing to read.
LEMMA RestartInv ==
    ASSUME SP!TypeOK, Restart
    PROVE  SP!IInv'
<1> USE DEF Restart
<1>1. MaxSockets \in Nat /\ MaxClicks \in Nat
  BY BoundsAssumption
<1>2. /\ sid' = [g \in Conns |-> MaxSockets + 1]
      /\ tcpCl' = [i \in {} |-> i] /\ udpCl' = [i \in {} |-> i]
  BY DEF S!NoId, S!Empty
<1>3. SP!TypeOK'
  BY <1>1, <1>2 DEF SP!TypeOK, SP!Ids, SP!NoId
<1>4. SP!RegistriesAgree' /\ SP!SessionInv' /\ SP!BacklogInv' /\ SP!EndpointInv'
  BY <1>1, <1>2 DEF SP!RegistriesAgree, SP!SessionInv, SP!BacklogInv,
                    SP!EndpointInv, SP!NoId
<1>5. SP!IdInv'
  <2>1. SP!Accepted' = {}
    BY <1>2 DEF SP!Accepted, SP!NoId
  <2>2. SP!Cardinality({}) = 0
    BY FS_EmptySet DEF SP!Cardinality, Cardinality
  <2> QED BY <1>2, <2>1, <2>2 DEF SP!IdInv, SP!NoId
<1>6. SP!StreamInv' /\ SP!FramesInOrder'
  BY <1>1, <1>2 DEF SP!StreamInv, SP!StreamAt, SP!FramesInOrder, SP!NoId
<1>7. SP!ReadLoopAlive' /\ SP!DiesOnlyOfEmptyRead'
  BY <1>2 DEF SP!ReadLoopAlive, SP!DiesOnlyOfEmptyRead, SP!Registered, SP!Range
<1> QED BY <1>3, <1>4, <1>5, <1>6, <1>7 DEF SP!IInv

LEMMA ServerRuns ==
    ASSUME SP!IInv, [SP!Next]_(SP!vars)
    PROVE  SP!IInv'
BY ServerAssumptions, SP!InvStep DEF SP!InvStep

\* A server that is down does nothing.
LEMMA ServerDown ==
    ASSUME ~up, [SP!Next]_(SP!vars)
    PROVE  UNCHANGED SP!vars
BY DEF SP!Next, SP!Session, SP!Connect, SP!Write, SP!Close, SP!Reset, SP!Accept,
       SP!AcceptDead, SP!Tick, SP!HeaderRead, SP!HeaderEof, SP!HeaderError,
       SP!BodyRead, SP!BodyError, SP!EmptyBody

\* Only a kill and a restart change whether the server was killed.
LEMMA KilledSame ==
    ASSUME [Next]_vars, ~Kill, ~Restart
    PROVE  UNCHANGED <<kills, killed>>
BY DEF Next, vars, between, ClientMoves, ClientSends, ClientEnds, Establish,
       ToClient, ToServer, ClientWritten, ServerGone, Refuse, Greet, Serve

LEMMA ServerInvStep ==
    ASSUME SysInv, [Next]_vars
    PROVE  ServerInv'
<1>1. CP!TypeInv /\ CountInv /\ ServerInv /\ BetweenType
  BY DEF SysInv, Between, CP!IInv
<1>2. kills \in Nat
  BY <1>1, BoundsAssumption DEF BetweenType
<1>3. CASE Kill
  <2>1. SP!TypeOK'
    BY <1>1, <1>3 DEF ServerInv, Kill, SP!TypeOK
  <2> QED BY <1>2, <1>3, <2>1 DEF ServerInv, Kill
<1>4. CASE Restart
  <2>1. SP!IInv'
    BY <1>1, <1>4, RestartInv DEF ServerInv
  <2>2. SP!TypeOK'
    BY <2>1 DEF SP!IInv
  <2> QED BY <1>4, <2>1, <2>2 DEF ServerInv, Restart
<1>5. CASE ~Kill /\ ~Restart
  <2>1. [SP!Next]_(SP!vars)
    BY <1>1, <1>5, ServerStep
  <2>2. UNCHANGED <<kills, killed>>
    BY <1>5, KilledSame
  <2>3. CASE killed
    <3>1. UNCHANGED SP!vars
      BY <1>1, <2>1, <2>3, ServerDown DEF ServerInv
    <3>2. SP!TypeOK' /\ up' = up
      BY <1>1, <3>1 DEF ServerInv, SP!vars, SP!server, SP!network, SP!TypeOK
    <3> QED BY <1>1, <2>2, <2>3, <3>2 DEF ServerInv
  <2>4. CASE ~killed
    <3>1. SP!IInv'
      BY <1>1, <2>1, <2>4, ServerRuns DEF ServerInv
    <3>2. SP!TypeOK'
      BY <3>1 DEF SP!IInv
    <3> QED BY <1>1, <2>2, <2>4, <3>1, <3>2 DEF ServerInv
  <2> QED BY <2>3, <2>4
<1> QED BY <1>3, <1>4, <1>5

-----------------------------------------------------------------------------
(* What a step does to what is between the two ends *)

\* The types of what the steps below are about.
LEMMA Facts ==
    ASSUME SysInv
    PROVE  /\ peer \in [Conns -> {"none", "open", "fin", "rst"}]
           /\ put \in [Conns -> 0 .. 2 * MaxClicks]
           /\ sent \in [Conns -> 0 .. MaxClicks]
           /\ gen \in 0 .. MaxSockets /\ (gen >= 1 => gen \in Conns)
           /\ backlog \subseteq Conns /\ Members \subseteq Conns
           /\ greeted \subseteq Conns /\ early \subseteq Conns
           /\ up \in BOOLEAN /\ hasty \in BOOLEAN /\ dead \in BOOLEAN
           /\ arrived \in Nat /\ kills \in Nat /\ clicks \in 0 .. MaxClicks
           /\ tcp \in {"closed", "connecting", "up", "refused", "fin", "rst"}
           /\ writes \in Seq({"connect", "write"}) /\ Len(writes) \in Nat
           /\ MaxSockets \in Nat /\ MaxClicks \in Nat
           /\ up => \A g \in Members \cup backlog : peer[g] # "none"
           /\ up => \A g \in Members : g \notin backlog
<1>1. CP!TypeInv /\ ServerInv /\ BetweenType
  BY DEF SysInv, Between, CP!IInv
<1>2. MaxSockets \in Nat /\ MaxClicks \in Nat /\ MaxKills \in Nat /\ Packet \in Nat
  BY BoundsAssumption, SizesAssumption
<1>3. /\ gen \in 0 .. MaxSockets /\ hasty \in BOOLEAN /\ dead \in BOOLEAN
      /\ arrived \in Nat /\ clicks \in 0 .. MaxClicks
      /\ tcp \in {"closed", "connecting", "up", "refused", "fin", "rst"}
      /\ writes \in Seq({"connect", "write"})
  BY <1>1, <1>2 DEF CP!TypeInv, CP!TypeOK
<1>4. Len(writes) \in Nat
  BY <1>3
<1>5. gen >= 1 => gen \in Conns
  BY <1>1, GenConn
<1>6. /\ peer \in [Conns -> {"none", "open", "fin", "rst"}]
      /\ put \in [Conns -> 0 .. 2 * MaxClicks]
      /\ backlog \subseteq Conns /\ Members \subseteq Conns /\ up \in BOOLEAN
  BY <1>1 DEF ServerInv, SP!TypeOK, Members
<1>7. ASSUME up
      PROVE  /\ \A g \in Members \cup backlog : peer[g] # "none"
             /\ \A g \in Members : g \notin backlog
  <2>1. SP!IInv
    BY <1>1, <1>7 DEF ServerInv
  <2>2. \A g \in SP!Registered : peer[g] # "none" /\ g \notin backlog
    BY <2>1, ServerAssumptions, SP!RegisteredAccepted DEF SP!RegisteredAccepted
  <2>3. \A g \in backlog : peer[g] # "none"
    BY <2>1 DEF SP!IInv, SP!BacklogInv
  <2> QED BY <2>2, <2>3, MembersRegistered
<1> QED BY <1>1, <1>2, <1>3, <1>4, <1>5, <1>6, <1>7 DEF BetweenType

\* What the user and the client's handlers do to its sockets.
LEMMA MovesFacts ==
    ASSUME CP!TypeInv, Moves
    PROVE  /\ \/ gen' = gen /\ tcp' \in {tcp, "closed"} /\ arrived' = arrived
                 /\ (tcp' = tcp => writes' = writes)
              \/ gen' = gen + 1 /\ tcp' = "connecting" /\ arrived' = 0
           /\ clicks' \in {clicks, clicks + 1}
<1> USE DEF C!socket, C!udpSocket, C!history, C!thread
<1>1. CASE C!ClickConnect \/ C!DisconnectUdp \/ C!SendUdp \/ C!Resolved
  BY <1>1 DEF C!ClickConnect, C!Click, C!DisconnectUdp, C!SendUdp, C!Resolved
<1>2. CASE C!ClickDisconnect
  BY <1>2 DEF C!ClickDisconnect, C!Click, C!DisconnectTcp, C!CloseTcp, C!IsOpen
<1>3. CASE C!ReadDone
  BY <1>3 DEF C!ReadDone
<1>4. C!IoDisconnect =>
        /\ gen' = gen /\ arrived' = arrived /\ tcp' \in {tcp, "closed"}
        /\ tcp' = tcp => writes' = writes
  BY DEF C!IoDisconnect, C!IsOpen
<1>5. \A rest : C!AsyncRead(rest) => UNCHANGED <<tcp, gen, arrived, writes>>
  BY DEF C!AsyncRead, C!StartRead
<1>6. CASE C!HandleResolve
  BY <1>4, <1>6 DEF C!HandleResolve
<1>7. CASE C!HandleConnect
  BY <1>4, <1>5, <1>7 DEF C!HandleConnect
<1>8. CASE C!HandleWrite
  BY <1>4, <1>8 DEF C!HandleWrite
<1>9. CASE C!HandleHeader
  BY <1>9 DEF C!HandleHeader, C!StartRead
<1>10. CASE C!HandleBytes
  BY <1>5, <1>10 DEF C!HandleBytes
<1>11. CASE C!ReadOn
  BY <1>5, <1>11 DEF C!ReadOn
<1>12. CASE C!HandleBodyError \/ C!HandleNothing \/ C!HandleFirstData
            \/ C!OpenUdp \/ C!BindUdp \/ C!ListenUdp \/ C!IoDisconnectUdp
  BY <1>12 DEF C!HandleBodyError, C!HandleNothing, C!HandleFirstData, C!OpenUdp,
               C!BindUdp, C!ListenUdp, C!IoDisconnectUdp
<1> QED BY <1>1, <1>2, <1>3, <1>6, <1>7, <1>8, <1>9, <1>10, <1>11, <1>12 DEF Moves

\* A user who waits leaves a connection that is up only by Disconnect, and when
\* FirstData was read there and all writes are done.
LEMMA OrderlyLeave ==
    ASSUME CP!IInv, Moves, ~hasty, ~hasty', tcp = "up",
           tcp' = "closed" \/ gen' # gen
    PROVE  taken = Packet + 1 /\ writes = << >>
<1> USE DEF C!socket, C!udpSocket, C!history, C!thread
<1>1. CP!TypeInv /\ CP!ConnectInv /\ CP!UdpInv /\ CP!UpInv
  BY DEF CP!IInv, CP!Orderly
<1>2. ready \in Seq(CP!Handlers) /\ gen \in Nat
  BY <1>1, BoundsAssumption DEF CP!TypeInv, CP!TypeOK
<1>3. ready # << >> => 1 \in DOMAIN ready /\ Head(ready) = ready[1]
  BY <1>2
<1>4. CASE C!ClickDisconnect
  <2>1. C!Settled
    BY <1>4 DEF C!ClickDisconnect
  <2>2. ready = << >> /\ writes = << >> /\ io = "idle" /\ (reads = << >> \/ listening)
    BY <2>1 DEF C!Settled
  <2>3. listening
    <3>1. DOMAIN ready = {}
      BY <2>2
    <3> QED BY <1>1, <2>2, <3>1 DEF CP!UpInv, CP!UdpSteps
  <2> QED BY <1>1, <2>2, <2>3 DEF CP!UdpInv, CP!IsOpen
<1>5. CASE C!HandleResolve
  <2>1. ready # << >> /\ Head(ready).op = "resolve"
    BY <1>5 DEF C!HandleResolve, C!Handle
  <2> QED BY <1>1, <1>3, <2>1 DEF CP!ConnectInv
<1>6. CASE C!HandleConnect
  <2>1. ready # << >> /\ Head(ready).op = "connect"
    BY <1>6 DEF C!HandleConnect, C!Handle
  <2>2. Head(ready).ec = "ok"
    BY <1>1, <1>3, <2>1 DEF CP!ConnectInv
  <2>3. C!AsyncRead(Tail(ready))
    BY <1>6, <2>2 DEF C!HandleConnect, C!Handled, C!IsOpen
  <2> QED BY <2>3 DEF C!AsyncRead, C!StartRead
<1>7. CASE C!HandleWrite
  <2>1. ready # << >> /\ Head(ready).op = "write"
    BY <1>7 DEF C!HandleWrite, C!Handle
  <2>2. Head(ready).ec = "ok"
    BY <1>1, <1>3, <2>1 DEF CP!UpInv
  <2> QED BY <1>7, <2>2 DEF C!HandleWrite, C!Handled
<1>8. CASE \/ C!ClickConnect \/ C!DisconnectUdp \/ C!SendUdp \/ C!Resolved
           \/ C!ReadDone \/ C!HandleBodyError \/ C!HandleNothing
           \/ C!HandleFirstData \/ C!OpenUdp \/ C!BindUdp \/ C!ListenUdp
           \/ C!IoDisconnectUdp
  BY <1>8 DEF C!ClickConnect, C!Click, C!DisconnectUdp, C!SendUdp, C!Resolved,
              C!ReadDone, C!HandleBodyError, C!HandleNothing, C!HandleFirstData,
              C!OpenUdp, C!BindUdp, C!ListenUdp, C!IoDisconnectUdp
<1>9. CASE C!HandleHeader \/ C!HandleBytes \/ C!ReadOn
  BY <1>9 DEF C!HandleHeader, C!HandleBytes, C!ReadOn, C!AsyncRead, C!StartRead
<1> QED BY <1>4, <1>5, <1>6, <1>7, <1>8, <1>9 DEF Moves

LEMMA HastyStays ==
    ASSUME CP!IInv, hasty, [Next]_vars
    PROVE  hasty'
<1>1. CP!TypeInv /\ [CP!Next]_(CP!vars)
  BY ClientStep, ClientActions, ClientSame DEF CP!IInv
<1> QED BY <1>1, ClientAssumptions, CP!HastyStays DEF CP!HastyStays

\* A process that has died closes nothing an orderly user left open.
LEMMA DeadIsHasty ==
    ASSUME CP!IInv, dead, tcp = "up"
    PROVE  hasty
BY DEF CP!IInv, CP!Orderly

LEMMA LeaveFacts ==
    ASSUME SysInv, Leave
    PROVE  /\ UNCHANGED <<put, backlog, tcpCl, up>>
           /\ \/ /\ UNCHANGED <<peer, early>>
                 /\ ~(tcp = "up" /\ up /\ peer[gen] = "open")
              \/ /\ tcp = "up" /\ up /\ peer[gen] = "open" /\ gen \in Conns
                 /\ peer' = [peer EXCEPT ![gen] = "fin"]
                 /\ early' = IF taken < Packet + 1 THEN early \cup {gen} ELSE early
<1>1. CASE tcp \in {"up", "fin", "rst"} /\ up /\ peer[gen] = "open"
  <2>1. gen \in Conns
    BY <1>1, Facts DEF SysInv, Between, CountInv
  <2>2. tcp = "up"
    BY <1>1, <2>1 DEF SysInv, Between, OneOpen
  <2> QED BY <1>1, <2>1, <2>2 DEF Leave, S!Close, S!server
<1>2. CASE ~(tcp \in {"up", "fin", "rst"} /\ up /\ peer[gen] = "open")
  BY <1>2 DEF Leave, server
<1> QED BY <1>1, <1>2

LEMMA ServeFacts ==
    ASSUME SysInv, NEW g \in Conns, Serve(g)
    PROVE  /\ up
           /\ UNCHANGED <<peer, put, backlog, client, between>>
           /\ Members' \subseteq Members
           /\ \A h \in Members : h \in Members' \/ peer[h] = "fin"
<1>1. UNCHANGED <<client, between>> /\ S!Session(g)
  BY DEF Serve
<1>2. CASE S!HeaderEof(g)
  <2>1. SP!IInv
    BY <1>2 DEF SysInv, ServerInv, S!HeaderEof
  <2>2. SP!HeaderEof(g)
    BY <1>2, Zenon DEF S!HeaderEof, SP!HeaderEof, S!RemoveUdpClient,
         SP!RemoveUdpClient, S!RemoveTcpClient, SP!RemoveTcpClient, S!Restrict,
         SP!Restrict, S!Without, SP!Without, S!network, SP!network,
         S!Drained, SP!Drained, S!Gone, SP!Gone, S!IsEof, SP!IsEof
  <2>3. SP!Registered' = SP!Registered \ {g}
    BY <2>1, <2>2, ServerAssumptions, SP!EofLeaves DEF SP!EofLeaves
  <2>4. Members' = Members \ {g}
    BY <2>3, MembersRegistered, MembersRegisteredNext
  <2>5. peer[g] = "fin" /\ up /\ UNCHANGED <<peer, put, backlog>>
    BY <1>2 DEF S!HeaderEof, S!IsEof, S!network
  <2> QED BY <1>1, <2>4, <2>5
<1>3. CASE ~S!HeaderEof(g)
  <2>1. up /\ UNCHANGED <<peer, put, backlog, tcpCl>>
    BY <1>1, <1>3 DEF S!Session, S!HeaderRead, S!HeaderError, S!BodyRead,
                      S!BodyError, S!EmptyBody, S!network
  <2>2. Members' = Members
    BY <2>1 DEF Members
  <2> QED BY <1>1, <2>1, <2>2
<1> QED BY <1>2, <1>3

LEMMA GreetFacts ==
    ASSUME SysInv, NEW g \in Conns, Greet(g)
    PROVE  /\ up /\ g \in backlog
           /\ UNCHANGED <<up, put, client, sent, early, kills, killed>>
           /\ \/ peer' = peer
              \/ peer[g] = "rst" /\ peer' = [peer EXCEPT ![g] = "fin"]
           /\ backlog' = backlog \ {g} /\ greeted' = greeted \cup {g}
           /\ Members' = Members \cup {g}
<1>1. /\ S!Accept(g) /\ greeted' = greeted \cup {g}
      /\ UNCHANGED <<client, sent, early, kills, killed>>
  BY DEF Greet
<1>2. /\ up /\ g \in backlog /\ UNCHANGED <<up, put>> /\ backlog' = backlog \ {g}
      /\ \E s \in S!DoSend(peer[g]) : peer' = [peer EXCEPT ![g] = s]
  BY <1>1 DEF S!Accept
<1>3. peer' = peer \/ (peer[g] = "rst" /\ peer' = [peer EXCEPT ![g] = "fin"])
  BY <1>2, Facts DEF S!DoSend
<1>4. SP!IInv /\ SP!Accept(g)
  BY <1>1, <1>2, ServerActions DEF SysInv, ServerInv
<1>5. SP!Registered' = SP!Registered \cup {g}
  BY <1>4, ServerAssumptions, SP!AcceptJoins DEF SP!AcceptJoins
<1> QED BY <1>1, <1>2, <1>3, <1>5, MembersRegistered, MembersRegisteredNext

-----------------------------------------------------------------------------
(* Each action keeps what is between the two ends *)

\* Where neither end's part in it changes.
LEMMA BetweenSame ==
    ASSUME SysInv, ServerInv', hasty => hasty',
           UNCHANGED <<up, peer, put, tcpCl, backlog, between, tcp, gen, arrived,
                       writes>>,
           clicks' \in {clicks, clicks + 1}
    PROVE  Between'
<1> USE Facts DEF between
<1>1. Between /\ Members' = Members
  BY DEF SysInv, Members
<1>2. BetweenType'
  BY <1>1 DEF Between, BetweenType
<1>3. CountInv'
  BY <1>1 DEF Between, CountInv
<1>4. OneOpen' /\ ResetInv'
  BY <1>1 DEF Between, OneOpen, ResetInv
<1>5. GreetedInv' /\ LiveInv' /\ SentInv'
  BY <1>1 DEF Between, GreetedInv, LiveInv, SentInv
<1> QED BY <1>2, <1>3, <1>4, <1>5 DEF Between

LEMMA MovesBetween ==
    ASSUME SysInv, CP!IInv', ServerInv', hasty => hasty', ClientMoves
    PROVE  Between'
<1>1. Moves /\ UNCHANGED <<greeted, sent, kills, killed>>
  BY DEF ClientMoves
<1>2. CP!TypeInv /\ CP!IInv /\ Between
  BY DEF SysInv, CP!IInv
<1>3. gen' \in 0 .. MaxSockets /\ hasty' \in BOOLEAN /\ clicks' \in 0 .. MaxClicks
  BY DEF CP!IInv, CP!TypeInv, CP!TypeOK
<1>4. CASE ~(tcp' = "closed" \/ gen' # gen)
  <2>1. UNCHANGED <<server, early>>
    BY <1>4 DEF ClientMoves
  <2>2. UNCHANGED <<tcp, gen, arrived, writes>> /\ clicks' \in {clicks, clicks + 1}
    BY <1>1, <1>2, <1>4, MovesFacts, Facts
  <2> QED BY <1>1, <2>1, <2>2, BetweenSame DEF server, between
<1>5. CASE tcp' = "closed" \/ gen' # gen
  <2>1. Leave
    BY <1>5 DEF ClientMoves
  <2>2. /\ \/ gen' = gen /\ tcp' = "closed" /\ arrived' = arrived
           \/ gen' = gen + 1 /\ tcp' = "connecting" /\ arrived' = 0
        /\ clicks' \in {clicks, clicks + 1}
    BY <1>1, <1>2, <1>5, MovesFacts
  <2>3. UNCHANGED <<put, backlog, tcpCl, up>> /\ Members' = Members
    BY <2>1, LeaveFacts DEF Members
  <2>4. \A g \in Conns : peer'[g] # peer[g] =>
              /\ g = gen /\ tcp = "up" /\ up /\ peer[g] = "open" /\ peer'[g] = "fin"
    BY <2>1, LeaveFacts, Facts
  <2>5. up => \A g \in Conns : peer'[g] # "open"
    <3>1. ASSUME up, NEW g \in Conns, peer[g] = "open"
          PROVE  peer'[g] # "open"
      <4>1. g = gen /\ tcp = "up"
        BY <1>2, <3>1 DEF Between, OneOpen
      <4> QED BY <2>1, <3>1, <4>1, LeaveFacts, Facts
    <3> QED BY <2>4, <3>1
  <2>6. tcp = "up" /\ ~hasty' => taken = Packet + 1 /\ writes = << >>
    BY <1>1, <1>2, <1>5, OrderlyLeave
  <2>7. early' = early \/ (early' = early \cup {gen} /\ gen \in Conns /\ hasty')
    BY <1>3, <2>1, <2>6, LeaveFacts, Facts, SizesAssumption
  <2>8. BetweenType'
    BY <1>1, <1>2, <2>7 DEF Between, BetweenType
  <2>9. CountInv'
    <3>1. tcp' # "closed" => gen' >= 1
      BY <2>2, Facts
    <3>2. ASSUME NEW g \in Conns
          PROVE  /\ sent'[g] <= clicks' /\ put'[g] <= 2 * sent'[g]
                 /\ g > gen' => sent'[g] = 0 /\ peer'[g] = "none"
                 /\ peer'[g] = "none" => put'[g] = 0
                 /\ g \in greeted' => peer'[g] # "none"
      <4>1. /\ sent[g] <= clicks /\ put[g] <= 2 * sent[g]
            /\ g > gen => sent[g] = 0 /\ peer[g] = "none"
            /\ peer[g] = "none" => put[g] = 0
            /\ g \in greeted => peer[g] # "none"
        BY <1>2 DEF Between, CountInv
      <4>2. peer'[g] = peer[g] \/ (g = gen /\ peer[g] = "open" /\ peer'[g] = "fin")
        BY <2>4
      <4>3. sent[g] \in Nat /\ clicks \in Nat /\ gen \in Nat /\ g \in Nat
        BY Facts DEF Conns
      <4> QED BY <1>1, <2>2, <2>3, <4>1, <4>2, <4>3
    <3>3. gen' = gen + 1 => /\ sent'[gen'] = 0
                            /\ peer'[gen'] = "none"
      <4>1. ASSUME gen' = gen + 1
            PROVE  gen' \in Conns /\ gen' > gen /\ gen' # gen
        BY <1>3, <4>1, Facts DEF Conns
      <4>2. ASSUME gen' = gen + 1
            PROVE  sent[gen'] = 0 /\ peer[gen'] = "none"
        BY <1>2, <4>1, <4>2 DEF Between, CountInv
      <4> QED BY <1>1, <2>4, <4>1, <4>2
    <3> QED BY <2>2, <3>1, <3>2, <3>3 DEF CountInv
  <2>10. OneOpen' /\ ResetInv'
    <3>1. OneOpen'
      BY <2>3, <2>5 DEF OneOpen
    <3>2. ResetInv'
      BY <1>1, <1>2, <2>4, <2>7, HastyStays DEF Between, ResetInv
    <3> QED BY <3>1, <3>2
  <2>11. GreetedInv'
    BY <1>1, <1>2, <2>2, <2>3, <2>5, Facts DEF Between, GreetedInv
  <2>12. LiveInv'
    BY <1>1, <1>2, <2>2, <2>3 DEF Between, LiveInv
  <2>13. SentInv'
    <3> SUFFICES ASSUME ~hasty', up', NEW g \in Members \cup backlog, peer'[g] = "fin"
                 PROVE  put[g] = 2 * sent[g] /\ (g = gen' => tcp' = "closed")
      BY <1>1, <2>3, <2>5 DEF SentInv
    <3>1. ~hasty /\ up /\ g \in Conns /\ peer[g] # "none"
      BY <2>3, Facts
    <3>2. gen' = gen + 1 => g # gen'
      <4>1. ASSUME gen' = gen + 1, g = gen'
            PROVE  g > gen
        BY <4>1, Facts
      <4> QED BY <1>2, <3>1, <4>1 DEF Between, CountInv
    <3>3. CASE peer[g] = "fin"
      BY <1>2, <2>2, <3>1, <3>2, <3>3 DEF Between, SentInv
    <3>4. CASE peer[g] # "fin"
      <4>1. g = gen /\ tcp = "up" /\ peer[g] = "open"
        BY <2>4, <3>1, <3>4
      <4>2. put[g] >= 2 * (sent[g] - Len(writes)) /\ Len(writes) = 0
        BY <1>2, <2>6, <3>1, <4>1 DEF Between, SentInv
      <4>3. put[g] <= 2 * sent[g] /\ put[g] \in Nat /\ sent[g] \in Nat
        BY <1>2, <3>1, Facts DEF Between, CountInv
      <4>4. put[g] = 2 * sent[g]
        BY <4>2, <4>3
      <4> QED BY <2>2, <3>2, <4>1, <4>4
    <3> QED BY <3>3, <3>4
  <2> QED BY <2>8, <2>9, <2>10, <2>11, <2>12, <2>13 DEF Between
<1> QED BY <1>4, <1>5

LEMMA SendsBetween ==
    ASSUME SysInv, CP!IInv', ServerInv', hasty => hasty', ClientSends
    PROVE  Between'
<1>1. Between /\ CP!IInv
  BY DEF SysInv
<1>2. /\ UNCHANGED <<server, greeted, early, kills, killed, tcp, gen, arrived>>
      /\ clicks' = clicks + 1 /\ clicks' \in 0 .. MaxClicks
      /\ writes' = IF tcp # "closed" THEN Append(writes, "write") ELSE writes
      /\ sent' = IF writes' # writes THEN [sent EXCEPT ![gen] = @ + 1] ELSE sent
      /\ hasty' = (hasty \/ ~C!Settled)
  BY Facts DEF ClientSends, C!ClickSend, C!Click, C!IsOpen
<1>3. UNCHANGED <<up, peer, put, tcpCl, backlog>> /\ Members' = Members
  BY <1>2 DEF server, Members
<1>4. /\ writes' # writes => tcp # "closed" /\ gen \in Conns
      /\ tcp # "closed" => writes' # writes /\ Len(writes') = Len(writes) + 1
  <2>1. Len(Append(writes, "write")) = Len(writes) + 1
    BY Facts
  <2>2. Append(writes, "write") # writes
    BY <2>1, Facts
  <2> QED BY <1>1, <1>2, <2>1, <2>2, Facts DEF Between, CountInv
<1>5. ASSUME NEW g \in Conns
      PROVE  /\ sent'[g] \in {sent[g], sent[g] + 1}
             /\ sent'[g] # sent[g] <=> g = gen /\ tcp # "closed"
  <2>1. sent[g] \in Nat /\ sent[g] + 1 # sent[g]
    BY Facts
  <2>2. CASE tcp = "closed"
    <3>1. sent' = sent
      BY <1>2, <2>2
    <3> QED BY <2>1, <2>2, <3>1
  <2>3. CASE tcp # "closed"
    <3>1. sent' = [sent EXCEPT ![gen] = @ + 1]
      BY <1>2, <1>4, <2>3
    <3>2. sent'[g] = IF g = gen THEN sent[g] + 1 ELSE sent[g]
      BY <3>1, Facts
    <3> QED BY <2>1, <2>3, <3>2
  <2> QED BY <2>2, <2>3
<1>6. CountInv'
  <2>1. ASSUME NEW g \in Conns
        PROVE  /\ sent'[g] <= clicks' /\ put'[g] <= 2 * sent'[g]
               /\ g > gen' => sent'[g] = 0 /\ peer'[g] = "none"
               /\ peer'[g] = "none" => put'[g] = 0
               /\ g \in greeted' => peer'[g] # "none"
    <3>1. /\ sent[g] <= clicks /\ put[g] <= 2 * sent[g]
          /\ g > gen => sent[g] = 0 /\ peer[g] = "none"
          /\ peer[g] = "none" => put[g] = 0
          /\ g \in greeted => peer[g] # "none"
      BY <1>1 DEF Between, CountInv
    <3>2. /\ sent[g] \in Nat /\ clicks \in Nat /\ gen \in Nat /\ g \in Nat
          /\ put[g] \in Nat
      BY Facts DEF Conns
    <3> QED BY <1>2, <1>3, <1>5, <3>1, <3>2
  <2>2. tcp = "connecting" => hasty'
    <3>1. tcp = "connecting" /\ ~hasty => writes # << >>
      BY <1>1 DEF CP!IInv, CP!TypeInv
    <3> QED BY <1>2, <3>1 DEF C!Settled
  <2> QED BY <1>1, <1>2, <1>3, <2>1, <2>2, Facts DEF Between, CountInv
<1>7. BetweenType'
  <2>1. sent' \in [Conns -> Nat]
    <3>1. sent \in [Conns -> Nat]
      BY Facts
    <3>2. CASE writes' = writes
      BY <1>2, <3>1, <3>2
    <3>3. CASE writes' # writes
      <4>1. sent[gen] + 1 \in Nat /\ gen \in Conns
        BY <1>4, <3>1, <3>3
      <4> QED BY <1>2, <3>1, <3>3, <4>1
    <3> QED BY <3>2, <3>3
  <2>2. \A g \in Conns : sent'[g] <= MaxClicks
    BY <1>2, <1>6, <2>1, Facts DEF CountInv
  <2> QED BY <1>1, <1>2, <2>1, <2>2, Facts DEF Between, BetweenType
<1>8. OneOpen' /\ ResetInv' /\ GreetedInv' /\ LiveInv'
  <2>1. OneOpen' /\ ResetInv'
    BY <1>1, <1>2, <1>3 DEF Between, OneOpen, ResetInv
  <2> QED BY <1>1, <1>2, <1>3, <2>1 DEF Between, GreetedInv, LiveInv
<1>9. SentInv'
  <2> SUFFICES ASSUME ~hasty', up, NEW g \in Conns
               PROVE  /\ peer[g] = "open" => put[g] >= 2 * (sent'[g] - Len(writes'))
                      /\ g \in Members \cup backlog /\ peer[g] = "fin" =>
                           put[g] = 2 * sent'[g] /\ (g = gen => tcp = "closed")
    BY <1>2, <1>3, Facts DEF SentInv
  <2>1. ~hasty
    BY <1>2, Facts
  <2>2. CASE peer[g] = "open"
    <3>1. g = gen /\ tcp = "up" /\ put[g] >= 2 * (sent[g] - Len(writes))
      BY <1>1, <2>1, <2>2 DEF Between, OneOpen, SentInv
    <3>2. sent[g] \in Nat /\ put[g] \in Nat /\ Len(writes) \in Nat
      BY Facts
    <3>3. sent'[g] = sent[g] + 1 /\ Len(writes') = Len(writes) + 1
      BY <1>4, <1>5, <3>1, <3>2
    <3> QED BY <2>2, <3>1, <3>2, <3>3
  <2>3. CASE peer[g] = "fin" /\ g \in Members \cup backlog
    <3>1. put[g] = 2 * sent[g] /\ (g = gen => tcp = "closed")
      BY <1>1, <2>1, <2>3 DEF Between, SentInv
    <3> QED BY <1>5, <2>3, <3>1
  <2> QED BY <2>2, <2>3
<1> QED BY <1>6, <1>7, <1>8, <1>9 DEF Between

LEMMA EndsBetween ==
    ASSUME SysInv, ServerInv', ClientEnds
    PROVE  Between'
<1>1. Between /\ CP!IInv
  BY DEF SysInv
<1>2. Leave /\ UNCHANGED <<client, greeted, sent, kills, killed>>
  BY DEF ClientEnds
<1>3. UNCHANGED <<tcp, gen, arrived, taken, writes, hasty, clicks>>
  BY <1>2 DEF client
<1>4. /\ UNCHANGED <<put, backlog, tcpCl, up>> /\ Members' = Members
      /\ tcp = "up" /\ up /\ peer[gen] = "open" /\ gen \in Conns
      /\ peer' = [peer EXCEPT ![gen] = "fin"]
      /\ early' \in {early, early \cup {gen}}
  <2>1. up /\ peer[gen] = "open" /\ gen \in Conns /\ tcp = "up"
    BY <1>1, Facts DEF ClientEnds, Between, CountInv, OneOpen
  <2> QED BY <1>2, <2>1, LeaveFacts DEF Members
<1>5. hasty
  BY <1>1, <1>4, DeadIsHasty DEF ClientEnds
<1>6. BetweenType'
  BY <1>1, <1>2, <1>4 DEF Between, BetweenType
<1>7. CountInv'
  BY <1>1, <1>2, <1>3, <1>4, Facts DEF Between, CountInv
<1>8. OneOpen' /\ ResetInv'
  BY <1>1, <1>2, <1>3, <1>4, <1>5, Facts DEF Between, OneOpen, ResetInv
<1>9. GreetedInv' /\ LiveInv' /\ SentInv'
  BY <1>1, <1>2, <1>3, <1>4, <1>5, Facts DEF Between, GreetedInv, LiveInv, SentInv
<1> QED BY <1>6, <1>7, <1>8, <1>9 DEF Between

LEMMA EstablishBetween ==
    ASSUME SysInv, CP!IInv', ServerInv', Establish
    PROVE  Between'
<1>1. Between /\ CP!IInv
  BY DEF SysInv
<1>2. /\ UNCHANGED <<between, gen, arrived, hasty, clicks>>
      /\ tcp = "connecting" /\ writes' = Tail(writes)
  BY DEF Establish, C!Established, C!history
<1>3. gen \in Conns /\ peer[gen] = "none" /\ put[gen] = 0 /\ gen \notin greeted
      /\ (~hasty => sent[gen] = 0)
  <2>1. gen \in Conns
    BY <1>1, <1>2, Facts DEF Between, CountInv
  <2> QED BY <1>1, <1>2, <2>1 DEF Between, CountInv
<1>4. Len(writes') \in Nat
  <2>1. writes' \in Seq({"connect", "write"})
    BY DEF CP!IInv, CP!TypeInv, CP!TypeOK
  <2> QED BY <2>1
<1>5. CASE tcp' = "up"
  <2>1. /\ up /\ peer' = [peer EXCEPT ![gen] = "open"] /\ backlog' = backlog \cup {gen}
        /\ UNCHANGED <<up, put, tcpCl>> /\ Members' = Members
    BY <1>5 DEF Establish, S!Connect, S!server, Members
  <2>2. BetweenType'
    BY <1>1, <1>2 DEF Between, BetweenType, between
  <2>3. CountInv'
    BY <1>1, <1>2, <1>3, <1>5, <2>1, Facts DEF Between, CountInv, between
  <2>4. OneOpen' /\ ResetInv'
    BY <1>1, <1>2, <1>3, <1>5, <2>1, Facts DEF Between, OneOpen, ResetInv, between
  <2>5. GreetedInv' /\ LiveInv'
    BY <1>1, <1>2, <1>3, <1>5, <2>1, Facts DEF Between, GreetedInv, LiveInv, between
  <2>6. SentInv'
    <3>1. \A g \in Conns : peer[g] # "open"
      BY <1>1, <1>2, <2>1 DEF Between, OneOpen
    <3>2. ~hasty => 0 >= 2 * (0 - Len(writes'))
      BY <1>4
    <3> QED BY <1>1, <1>2, <1>3, <2>1, <3>1, <3>2, Facts DEF Between, SentInv, between
  <2> QED BY <2>2, <2>3, <2>4, <2>5, <2>6 DEF Between
<1>6. CASE tcp' = "refused"
  <2>1. ~up /\ UNCHANGED <<up, peer, put, tcpCl, backlog>> /\ Members' = Members
    BY <1>6 DEF Establish, server, Members
  <2>2. BetweenType'
    BY <1>1, <1>2 DEF Between, BetweenType, between
  <2>3. CountInv'
    BY <1>1, <1>2, <1>3, <1>6, <2>1, Facts DEF Between, CountInv, between
  <2>4. OneOpen' /\ ResetInv'
    BY <1>1, <1>2, <2>1 DEF Between, OneOpen, ResetInv, between
  <2>5. GreetedInv' /\ LiveInv' /\ SentInv'
    BY <1>1, <1>2, <2>1 DEF Between, GreetedInv, LiveInv, SentInv, between
  <2> QED BY <2>2, <2>3, <2>4, <2>5 DEF Between
<1> QED BY <1>5, <1>6 DEF Establish

LEMMA ToClientBetween ==
    ASSUME SysInv, ServerInv', ToClient
    PROVE  Between'
<1>1. Between
  BY DEF SysInv
<1>2. /\ UNCHANGED <<server, between, tcp, gen, writes, hasty, clicks>>
      /\ gen \in greeted
  BY DEF ToClient, C!Arrive, C!history
<1>3. UNCHANGED <<up, peer, put, tcpCl, backlog>> /\ Members' = Members
  BY <1>2 DEF server, Members
<1>4. BetweenType' /\ CountInv'
  BY <1>1, <1>2, <1>3 DEF Between, BetweenType, CountInv, between
<1>5. OneOpen' /\ ResetInv' /\ GreetedInv'
  BY <1>1, <1>2, <1>3 DEF Between, OneOpen, ResetInv, GreetedInv, between
<1>6. LiveInv' /\ SentInv'
  BY <1>1, <1>2, <1>3 DEF Between, LiveInv, SentInv, between
<1> QED BY <1>4, <1>5, <1>6 DEF Between

LEMMA ToServerBetween ==
    ASSUME SysInv, ServerInv', ToServer
    PROVE  Between'
<1>1. Between
  BY DEF SysInv
<1>2. /\ UNCHANGED <<between, tcp, gen, arrived, writes, hasty, clicks>>
      /\ up /\ tcp = "up" /\ gen \in Conns
      /\ UNCHANGED <<up, peer, tcpCl, backlog>> /\ Members' = Members
      /\ peer[gen] = "open"
      /\ put' = [put EXCEPT ![gen] = @ + 1] /\ put[gen] < 2 * sent[gen]
  BY Facts DEF ToServer, S!Write, S!server, client, Members
<1>3. ASSUME NEW g \in Conns
      PROVE  /\ put'[g] >= put[g] /\ put'[g] <= 2 * sent[g] /\ put'[g] \in Nat
             /\ peer[g] # "open" => put'[g] = put[g]
  <2>1. put[g] \in Nat /\ sent[g] \in Nat /\ put[g] <= 2 * sent[g]
    BY <1>1, Facts DEF Between, CountInv
  <2>2. put'[g] = IF g = gen THEN put[g] + 1 ELSE put[g]
    BY <1>2, Facts
  <2>3. g = gen => put[g] < 2 * sent[g] /\ peer[g] = "open"
    BY <1>2
  <2> QED BY <2>1, <2>2, <2>3
<1>4. BetweenType'
  BY <1>1, <1>2 DEF Between, BetweenType, between
<1>5. CountInv'
  <2>1. CountInv /\ UNCHANGED <<tcp, gen, writes, hasty, clicks, sent, greeted, peer>>
    BY <1>1, <1>2, Facts DEF Between, between
  <2>2. ASSUME NEW g \in Conns
        PROVE  put'[g] <= 2 * sent[g] /\ (peer[g] = "none" => put'[g] = 0)
    BY <1>3, <2>1 DEF CountInv
  <2> QED BY <2>1, <2>2 DEF CountInv
<1>6. OneOpen' /\ ResetInv' /\ GreetedInv' /\ LiveInv'
  <2>1. OneOpen' /\ ResetInv'
    BY <1>1, <1>2 DEF Between, OneOpen, ResetInv, between
  <2> QED BY <1>1, <1>2, <2>1 DEF Between, GreetedInv, LiveInv, between
<1>7. SentInv'
  <2> SUFFICES ASSUME ~hasty, up, NEW g \in Conns
               PROVE  /\ peer[g] = "open" => put'[g] >= 2 * (sent[g] - Len(writes))
                      /\ g \in Members \cup backlog /\ peer[g] = "fin" =>
                           put'[g] = 2 * sent[g] /\ (g = gen => tcp = "closed")
    BY <1>2, Facts DEF SentInv, between
  <2>1. put[g] \in Nat /\ sent[g] \in Nat /\ Len(writes) \in Nat
    BY Facts
  <2> QED BY <1>1, <1>3, <2>1 DEF Between, SentInv
<1> QED BY <1>4, <1>5, <1>6, <1>7 DEF Between

LEMMA WrittenBetween ==
    ASSUME SysInv, CP!IInv', ServerInv', ClientWritten
    PROVE  Between'
<1>1. Between /\ CP!TypeInv
  BY DEF SysInv, CP!IInv
<1>2. /\ UNCHANGED <<server, between, tcp, gen, arrived, hasty, clicks>>
      /\ \E ec \in (IF tcp = "up" THEN {"ok"}
                    ELSE IF tcp = "fin" THEN {"ok", "error"} ELSE {"error"}) :
             ready' = Append(ready, C!Done("write", ec))
      /\ up /\ peer[gen] = "open" /\ ready'[Len(ready')].ec = "ok"
           => put[gen] >= 2 * (sent[gen] - Len(writes'))
  BY DEF ClientWritten, C!WriteDone, C!history
<1>3. UNCHANGED <<up, peer, put, tcpCl, backlog>> /\ Members' = Members
  BY <1>2 DEF server, Members
<1>4. tcp = "up" => ready'[Len(ready')].ec = "ok"
  <2> SUFFICES ASSUME tcp = "up" PROVE ready'[Len(ready')].ec = "ok"
    OBVIOUS
  <2>1. ready \in Seq(CP!Handlers)
    BY <1>1 DEF CP!TypeInv
  <2>2. PICK h : h = C!Done("write", "ok") /\ ready' = Append(ready, h)
    BY <1>2
  <2>3. Len(ready') = Len(ready) + 1 /\ ready'[Len(ready) + 1] = h
    BY <2>1, <2>2
  <2>4. h.ec = "ok"
    BY <2>2 DEF C!Done
  <2> QED BY <2>3, <2>4
<1>5. BetweenType' /\ CountInv'
  BY <1>1, <1>2, <1>3 DEF Between, BetweenType, CountInv, between
<1>6. OneOpen' /\ ResetInv'
  BY <1>1, <1>2, <1>3 DEF Between, OneOpen, ResetInv, between
<1>7. GreetedInv' /\ LiveInv'
  BY <1>1, <1>2, <1>3 DEF Between, GreetedInv, LiveInv, between
<1>8. SentInv'
  BY <1>1, <1>2, <1>3, <1>4 DEF Between, OneOpen, SentInv, between
<1> QED BY <1>5, <1>6, <1>7, <1>8 DEF Between

LEMMA GoneBetween ==
    ASSUME SysInv, CP!IInv', ServerInv', ServerGone
    PROVE  Between'
<1>1. Between
  BY DEF SysInv
<1>2. /\ UNCHANGED <<server, between, gen, arrived, writes, hasty, clicks>>
      /\ tcp \in {"up", "fin"} /\ tcp' \in {"fin", "rst"}
      /\ ~up \/ peer[gen] # "open"
  BY DEF ServerGone, C!ServerEnds, C!history
<1>3. UNCHANGED <<up, peer, put, tcpCl, backlog>> /\ Members' = Members
  BY <1>2 DEF server, Members
<1>4. BetweenType' /\ CountInv'
  BY <1>1, <1>2, <1>3 DEF Between, BetweenType, CountInv, between
<1>5. OneOpen' /\ ResetInv'
  BY <1>1, <1>2, <1>3 DEF Between, OneOpen, ResetInv, between
<1>6. GreetedInv' /\ LiveInv'
  BY <1>1, <1>2, <1>3 DEF Between, GreetedInv, LiveInv, between
<1>7. SentInv'
  BY <1>1, <1>2, <1>3 DEF Between, OneOpen, SentInv, between
<1> QED BY <1>4, <1>5, <1>6, <1>7 DEF Between

LEMMA RefuseBetween ==
    ASSUME SysInv, ServerInv', NEW g \in Conns, Refuse(g)
    PROVE  Between'
<1>1. Between
  BY DEF SysInv
<1>2. /\ UNCHANGED <<between, tcp, gen, arrived, writes, hasty, clicks>>
      /\ g \in early \cap greeted /\ hasty
  BY <1>1 DEF Refuse, client, Between, ResetInv
<1>3. /\ up /\ UNCHANGED <<up, tcpCl, backlog>> /\ Members' = Members
      /\ peer' = [peer EXCEPT ![g] = "rst"]
      /\ \E n \in got[g] .. put[g] : put' = [put EXCEPT ![g] = n]
  BY DEF Refuse, S!Reset, S!server, Members
<1>4. ASSUME NEW h \in Conns
      PROVE  put'[h] <= put[h] /\ put'[h] \in Nat
  <2>1. got[g] \in Nat /\ put[h] \in Nat
    BY Facts DEF SysInv, ServerInv, SP!TypeOK
  <2>2. PICK n \in got[g] .. put[g] : put' = [put EXCEPT ![g] = n]
    BY <1>3
  <2>3. put \in [Conns -> Nat]
    <3>1. put \in [Conns -> 0 .. 2 * MaxClicks] /\ 0 .. 2 * MaxClicks \subseteq Nat
      BY Facts
    <3> QED BY <3>1
  <2>4. n \in Nat /\ n <= put[g]
    BY <2>1, <2>2, <2>3
  <2> QED BY <2>2, <2>3, <2>4
<1>5. BetweenType'
  BY <1>1, <1>2 DEF Between, BetweenType, between
<1>6. CountInv'
  <2>1. ASSUME NEW h \in Conns
        PROVE  /\ sent[h] <= clicks /\ put'[h] <= 2 * sent[h]
               /\ h > gen => sent[h] = 0 /\ peer'[h] = "none"
               /\ peer'[h] = "none" => put'[h] = 0
               /\ h \in greeted => peer'[h] # "none"
    <3>1. /\ sent[h] <= clicks /\ put[h] <= 2 * sent[h]
          /\ h > gen => sent[h] = 0 /\ peer[h] = "none"
          /\ peer[h] = "none" => put[h] = 0
          /\ h \in greeted => peer[h] # "none"
      BY <1>1 DEF Between, CountInv
    <3>2. put[h] \in Nat /\ sent[h] \in Nat
      BY Facts
    <3>3. peer[g] # "none"
      BY <1>1, <1>2 DEF Between, CountInv
    <3>4. put'[h] \in Nat /\ put'[h] <= put[h]
      BY <1>4
    <3>5. put'[h] <= 2 * sent[h] /\ (put[h] = 0 => put'[h] = 0)
      BY <3>1, <3>2, <3>4
    <3>6. peer'[h] = "none" <=> peer[h] = "none"
      <4>1. peer \in [Conns -> {"none", "open", "fin", "rst"}]
        BY Facts
      <4> QED BY <1>3, <3>3, <4>1
    <3> QED BY <3>1, <3>5, <3>6
  <2>2. peer[g] # "none"
    BY <1>1, <1>2 DEF Between, CountInv
  <2> QED BY <1>1, <1>2, <1>3, <2>1, <2>2, Facts DEF Between, CountInv, between
<1>7. OneOpen' /\ ResetInv' /\ GreetedInv'
  BY <1>1, <1>2, <1>3, Facts DEF Between, OneOpen, ResetInv, GreetedInv, between
<1>8. LiveInv' /\ SentInv'
  BY <1>2 DEF LiveInv, SentInv
<1> QED BY <1>5, <1>6, <1>7, <1>8 DEF Between

LEMMA GreetBetween ==
    ASSUME SysInv, ServerInv', NEW g \in Conns, Greet(g)
    PROVE  Between'
<1>1. Between
  BY DEF SysInv
<1>2. /\ UNCHANGED <<tcp, gen, arrived, writes, hasty, clicks>>
      /\ UNCHANGED <<up, put, sent, early, kills, killed>>
      /\ up /\ g \in backlog
      /\ backlog' = backlog \ {g} /\ greeted' = greeted \cup {g}
      /\ Members' = Members \cup {g}
  BY GreetFacts DEF client
<1>3. /\ peer[g] # "none"
      /\ ~hasty => peer' = peer
      /\ \A h \in Conns : peer'[h] = peer[h]
                          \/ (h = g /\ peer[h] = "rst" /\ peer'[h] = "fin")
  BY <1>1, <1>2, GreetFacts, Facts DEF Between, ResetInv
<1>4. BetweenType'
  BY <1>1, <1>2 DEF Between, BetweenType
<1>5. CountInv'
  BY <1>1, <1>2, <1>3, Facts DEF Between, CountInv
<1>6. OneOpen' /\ ResetInv' /\ GreetedInv'
  BY <1>1, <1>2, <1>3, Facts DEF Between, OneOpen, ResetInv, GreetedInv
<1>7. LiveInv'
  BY <1>1, <1>2, <1>3 DEF Between, LiveInv
<1>8. SentInv'
  BY <1>1, <1>2, <1>3 DEF Between, SentInv
<1> QED BY <1>4, <1>5, <1>6, <1>7, <1>8 DEF Between

\* A server that dies of itself does so of a reset connection.
LEMMA DownMeansReset ==
    /\ ServerInv /\ ~up /\ ~killed
         => \E g \in Conns : peer[g] = "rst" /\ got[g] = 0 /\ g \in Members
    /\ ServerInv' /\ ~up' /\ ~killed'
         => \E g \in Conns : peer'[g] = "rst" /\ got'[g] = 0 /\ g \in Members'
<1>1. ServerInv => Members \subseteq Conns
  BY DEF ServerInv, SP!TypeOK, Members
<1>2. ServerInv' => Members' \subseteq Conns
  BY DEF ServerInv, SP!TypeOK, Members
<1> QED
  BY <1>1, <1>2, MembersRegistered, MembersRegisteredNext
     DEF ServerInv, SP!IInv, SP!DiesOnlyOfEmptyRead

LEMMA ServeBetween ==
    ASSUME SysInv, ServerInv', NEW g \in Conns, Serve(g)
    PROVE  Between'
<1>1. Between
  BY DEF SysInv
<1>2. /\ up /\ UNCHANGED <<tcp, gen, arrived, writes, hasty, clicks>>
      /\ UNCHANGED <<greeted, sent, early, kills, killed>>
      /\ UNCHANGED <<peer, put, backlog>>
      /\ Members' \subseteq Members
      /\ \A h \in Members : h \in Members' \/ peer[h] = "fin"
  BY ServeFacts DEF client, between
<1>3. BetweenType' /\ CountInv'
  BY <1>1, <1>2 DEF Between, BetweenType, CountInv
<1>4. OneOpen' /\ ResetInv' /\ GreetedInv'
  BY <1>1, <1>2 DEF Between, OneOpen, ResetInv, GreetedInv
<1>5. LiveInv'
  <2>1. ~hasty => up'
    <3> SUFFICES ASSUME ~up' PROVE hasty
      OBVIOUS
    <3>1. ~killed'
      BY <1>2 DEF SysInv, ServerInv
    <3>2. \E h \in Conns : peer'[h] = "rst"
      BY <3>1, DownMeansReset
    <3> QED BY <1>1, <1>2, <3>2 DEF Between, ResetInv
  <2> QED BY <1>1, <1>2, <2>1 DEF Between, LiveInv
<1>6. SentInv'
  BY <1>1, <1>2 DEF Between, SentInv
<1> QED BY <1>3, <1>4, <1>5, <1>6 DEF Between

LEMMA KillBetween ==
    ASSUME SysInv, Kill
    PROVE  Between'
<1>1. Between /\ kills \in Nat /\ MaxKills \in Nat
  BY Facts, BoundsAssumption DEF SysInv
<1>2. /\ UNCHANGED <<peer, put, tcpCl, backlog, greeted, sent, early>>
      /\ UNCHANGED <<tcp, gen, arrived, writes, hasty, clicks>>
      /\ ~up' /\ kills' = kills + 1 /\ kills < MaxKills /\ killed' = TRUE
  BY DEF Kill, client
<1>3. BetweenType' /\ CountInv'
  BY <1>1, <1>2 DEF Between, BetweenType, CountInv
<1>4. OneOpen' /\ ResetInv' /\ GreetedInv'
  BY <1>1, <1>2 DEF Between, OneOpen, ResetInv, GreetedInv
<1>5. LiveInv' /\ SentInv'
  BY <1>1, <1>2 DEF LiveInv, SentInv
<1> QED BY <1>3, <1>4, <1>5 DEF Between

LEMMA RestartBetween ==
    ASSUME SysInv, Restart
    PROVE  Between'
<1>1. Between
  BY DEF SysInv
<1>2. /\ UNCHANGED <<greeted, sent, early, kills>> /\ killed' = FALSE
      /\ UNCHANGED <<tcp, gen, arrived, writes, hasty, clicks>>
      /\ ~up /\ up' /\ backlog' = {}
      /\ \A g \in Conns : put'[g] = 0
      /\ \A g \in Conns : peer'[g] = IF peer[g] = "none" THEN "none" ELSE "fin"
  BY DEF Restart, client
<1>3. Members' = {}
  BY DEF Restart, Members, S!Empty
<1>4. BetweenType'
  BY <1>1, <1>2 DEF Between, BetweenType
<1>5. CountInv'
  <2>1. \A g \in Conns : 0 <= 2 * sent[g]
    BY Facts
  <2> QED BY <1>1, <1>2, <2>1, Facts DEF Between, CountInv
<1>6. OneOpen' /\ ResetInv'
  BY <1>1, <1>2 DEF Between, OneOpen, ResetInv
<1>7. GreetedInv' /\ LiveInv' /\ SentInv'
  BY <1>1, <1>2, <1>3 DEF Between, BetweenType, GreetedInv, LiveInv, SentInv
<1> QED BY <1>4, <1>5, <1>6, <1>7 DEF Between

-----------------------------------------------------------------------------
(* The theorems *)

LEMMA SysInit == Init => SysInv
<1> SUFFICES ASSUME Init PROVE SysInv
  OBVIOUS
<1>1. CP!IInv
  BY ClientInit DEF Init
<1>2. SP!IInv
  <2>1. SP!Init
    BY Zenon DEF Init, S!Init, SP!Init, S!Empty, SP!Empty, S!NoId, SP!NoId
  <2> QED BY <2>1, ServerAssumptions, SP!InitIInv DEF SP!InitIInv
<1>3. ServerInv
  BY <1>2 DEF ServerInv, SP!IInv, Init
<1>4. /\ tcp = "closed" /\ gen = 0 /\ arrived = 0 /\ hasty = FALSE /\ clicks = 0
      /\ writes = << >>
  BY DEF Init, C!Init
<1>5. /\ up = TRUE /\ backlog = {} /\ Members = {}
      /\ peer = [g \in Conns |-> "none"] /\ put = [g \in Conns |-> 0]
  BY DEF Init, S!Init, S!Empty, Members
<1>6. /\ greeted = {} /\ early = {} /\ kills = 0 /\ killed = FALSE
      /\ sent = [g \in Conns |-> 0]
  BY DEF Init
<1>7. BetweenType
  <2>1. 0 \in 0 .. MaxClicks /\ 0 \in 0 .. MaxKills
    BY BoundsAssumption
  <2>2. sent \in [Conns -> 0 .. MaxClicks]
    BY <1>6, <2>1
  <2> QED BY <1>6, <2>1, <2>2 DEF BetweenType
<1>8. CountInv
  BY <1>4, <1>5, <1>6 DEF CountInv
<1>9. OneOpen /\ ResetInv /\ GreetedInv /\ LiveInv /\ SentInv
  BY <1>4, <1>5, <1>6 DEF OneOpen, ResetInv, GreetedInv, LiveInv, SentInv
<1> QED BY <1>1, <1>3, <1>7, <1>8, <1>9 DEF SysInv, Between

LEMMA SysStep ==
    ASSUME SysInv, [Next]_vars
    PROVE  SysInv'
<1>1. CP!IInv' /\ ServerInv' /\ (hasty => hasty')
  BY ClientInv, ServerInvStep, HastyStays DEF SysInv
<1>2. ClientMoves \/ ClientSends \/ ClientEnds => Between'
  BY <1>1, MovesBetween, SendsBetween, EndsBetween
<1>3. Establish \/ ToClient \/ ToServer => Between'
  BY <1>1, EstablishBetween, ToClientBetween, ToServerBetween
<1>4. ClientWritten \/ ServerGone => Between'
  BY <1>1, WrittenBetween, GoneBetween
<1>5. ASSUME NEW g \in Conns, Refuse(g) \/ Greet(g) \/ Serve(g)
      PROVE  Between'
  BY <1>1, <1>5, RefuseBetween, GreetBetween, ServeBetween
<1>6. Kill \/ Restart => Between'
  BY KillBetween, RestartBetween
<1>7. UNCHANGED vars => Between'
  BY <1>1, BetweenSame DEF vars, server, client
<1> QED BY <1>1, <1>2, <1>3, <1>4, <1>5, <1>6, <1>7 DEF Next, SysInv

\* What relates the two ends, for any number of connections, buttons and kills.
THEOREM SystemInvariant == Spec => []SysInv
BY SysInit, SysStep, PTL DEF Spec

\* Every variable of both ends keeps its type (AsioTcpServer.cpp,
\* ClientSession.cpp, connection.cpp).
THEOREM SystemTypeOK == Spec => []TypeOK
<1>1. SysInv => S!TypeOK
  BY Zenon DEF SysInv, ServerInv, SP!TypeOK, S!TypeOK, SP!Ids, S!Ids, SP!NoId, S!NoId
<1>2. SysInv => C!TypeOK
  BY Zenon DEF SysInv, CP!IInv, CP!TypeInv, CP!TypeOK, C!TypeOK, CP!Ops, C!Ops
<1>3. SysInv => TypeOK
  BY <1>1, <1>2, Zenon DEF SysInv, Between, BetweenType, TypeOK
<1> QED BY <1>3, SystemInvariant, PTL

\* The server process ends, without being killed, only when a user left a
\* connection before FirstData was read there (AsioTcpServer.cpp:67-71,
\* ClientSession.cpp:19-24, connection.cpp:236-242).
THEOREM ServerDiesOfEarlyLeaver == Spec => []DiesOfEarlyLeaver
<1>1. SysInv => DiesOfEarlyLeaver
  BY DownMeansReset DEF SysInv, Between, ResetInv, DiesOfEarlyLeaver
<1> QED BY <1>1, SystemInvariant, PTL

\* With a server that was never killed, an orderly user's client lives
\* (connection.cpp:156-164, 228).
THEOREM OrderlyClientsLive == Spec => []OrderlyClientLives
<1>1. SysInv => OrderlyClientLives
  <2> SUFFICES ASSUME SysInv, dead, ~hasty, ~(kills > 0) PROVE FALSE
    BY DEF OrderlyClientLives
  <2>1. kills = 0
    BY Facts
  <2>2. tcp = "rst"
    BY DEF SysInv, CP!IInv, CP!Orderly
  <2> QED BY <2>1, <2>2 DEF SysInv, Between, LiveInv
<1> QED BY <1>1, SystemInvariant, PTL

\* What an orderly user's client listens on is where the server's tables say it
\* is (AsioTcpServer.cpp:55-57, 70; connection.cpp:228).
THEOREM OrderlyClientsListenInPlace == Spec => []ListensWhereRegistered
<1>1. ASSUME SysInv, ~hasty, listening, tcp = "up", up, peer[gen] = "open"
      PROVE  \E i \in DOMAIN udpCl : tcpCl[i] = gen /\ udpCl[i] = ep[udpOf]
  <2>1. Between /\ SP!IInv /\ CP!TypeInv /\ CP!UdpInv
    BY <1>1 DEF SysInv, ServerInv, CP!IInv, CP!Orderly
  <2>2. udpOf = gen /\ taken = Packet + 1
    BY <1>1, <2>1 DEF CP!UdpInv, CP!IsOpen
  <2>3. arrived > 0
    BY <2>1, <2>2, SizesAssumption DEF CP!TypeInv, CP!TypeOK
  <2>4. gen \in Members
    BY <1>1, <2>1, <2>3 DEF Between, GreetedInv
  <2>5. PICK i \in DOMAIN tcpCl : tcpCl[i] = gen
    BY <2>4 DEF Members
  <2>6. i \in DOMAIN udpCl /\ udpCl[i] = ep[gen]
    BY <2>1, <2>5 DEF SP!IInv, SP!RegistriesAgree
  <2> QED BY <2>2, <2>5, <2>6
<1>2. SysInv => ListensWhereRegistered
  BY <1>1 DEF ListensWhereRegistered
<1> QED BY <1>2, SystemInvariant, PTL

LEMMA Twice ==
    ASSUME NEW m \in Nat, NEW n \in Nat, 2 * m = 2 * n
    PROVE  m = n
OBVIOUS

\* An orderly user's connection leaves the server's tables when every message
\* that was sent there has been processed (ClientSession.cpp:19-32).
THEOREM OrderlyRemoval == Spec => RemovedWhenAllRead
<1> DEFINE Read(g) == Len(delivered[g]) = sent[g]
<1>1. ASSUME SysInv, [Next]_vars, NEW g \in Members, up, g \notin Members', ~hasty
      PROVE  Read(g)
  <2>1. Between /\ SP!IInv /\ CP!TypeInv /\ CountInv
    BY <1>1 DEF SysInv, ServerInv, CP!IInv, Between
  <2>2. ~Kill /\ ~Restart
    BY <1>1 DEF Kill, Restart, Members
  <2>3. [SP!Next]_(SP!vars)
    BY <1>1, <2>1, <2>2, ServerStep
  <2>4. g \in SP!Registered /\ g \notin SP!Registered'
    BY <1>1, MembersRegistered, MembersRegisteredNext
  <2>5. PICK c \in Conns : SP!HeaderEof(c)
    <3>1. SP!Registered' = SP!Registered \/ \E c \in Conns : SP!Accept(c) \/ SP!HeaderEof(c)
      BY <2>3 DEF SP!Next, SP!Session, SP!vars, SP!server, SP!network, SP!Registered,
         SP!Connect, SP!Write, SP!Close, SP!Reset, SP!AcceptDead, SP!Tick,
         SP!HeaderRead, SP!HeaderError, SP!BodyRead, SP!BodyError, SP!EmptyBody
    <3>2. ASSUME NEW c \in Conns, SP!Accept(c)
          PROVE  SP!Registered' = SP!Registered \cup {c}
      BY <2>1, <3>2, ServerAssumptions, SP!AcceptJoins DEF SP!AcceptJoins
    <3> QED BY <2>4, <3>1, <3>2
  <2>6. SP!Registered' = SP!Registered \ {c}
    BY <2>1, <2>5, ServerAssumptions, SP!EofLeaves DEF SP!EofLeaves
  <2>7. g = c
    BY <2>4, <2>6
  <2>8. peer[g] = "fin" /\ got[g] = put[g] /\ rd[g] = "header"
    BY <2>5, <2>7 DEF SP!HeaderEof, SP!IsEof, SP!Drained
  <2>9. got[g] = 2 * Len(delivered[g]) /\ Len(delivered[g]) \in Nat
    BY <2>1, <2>5, <2>7, <2>8 DEF SP!IInv, SP!StreamInv, SP!StreamAt, SP!TypeOK
  <2>10. put[g] = 2 * sent[g] /\ sent[g] \in Nat
    BY <1>1, <2>1, <2>8, Facts DEF Between, SentInv
  <2> QED BY <2>8, <2>9, <2>10, Twice
<1>2. SysInv /\ [Next]_vars =>
        [\A g \in Members : up /\ g \notin Members' /\ ~hasty
             => Len(delivered[g]) = sent[g]]_vars
  BY <1>1
<1> QED BY <1>2, SystemInvariant, PTL DEF Spec, RemovedWhenAllRead
\* Between two starts of its process the server of the system keeps every
\* promise of the abstract directory, whatever the client, the stack and the
\* kills make of it: connections join once, only members are heard, in order,
\* and members leave only after they hung up (AsioTcpServer.cpp:54-80,
\* ClientSession.cpp:16-33).
THEOREM SystemKeepsDirectory ==
    Spec => /\ SP!Directory!Init
            /\ [][SP!Directory!Next \/ Kill \/ Restart]_(SP!Directory!vars)
<1>1. Init => SP!Directory!Init
  <2> SUFFICES ASSUME Init PROVE SP!Directory!Init
    OBVIOUS
  <2>1. S!Init
    BY DEF Init
  <2>2. SP!Registered = {} /\ SP!Accepted = {} /\ SP!HungUp = {}
    BY <2>1 DEF S!Init, S!Empty, S!NoId, SP!Registered, SP!Range, SP!NoId,
       SP!Accepted, SP!HungUp, SP!Gone
  <2> QED
    BY <2>1, <2>2 DEF S!Init, SP!Directory!Init, SP!HungUp
<1>2. ASSUME SysInv, [Next]_vars
      PROVE  [SP!Directory!Next \/ Kill \/ Restart]_(SP!Directory!vars)
  <2>1. CASE Kill \/ Restart
    BY <2>1
  <2>2. CASE [SP!Next]_(SP!vars) /\ SP!IInv
    <3>1. [SP!Directory!Next]_(SP!Directory!vars)
      BY <2>2, ServerAssumptions, SP!DirectoryStep DEF SP!DirectoryStep
    <3> QED BY <3>1
  <2>3. CASE [SP!Next]_(SP!vars) /\ ~SP!IInv
    <3>1. UNCHANGED SP!vars
      BY <1>2, <2>3, ServerDown DEF SysInv, ServerInv
    <3>2. UNCHANGED SP!Directory!vars
      BY <3>1 DEF SP!vars, SP!server, SP!network, SP!Directory!vars, SP!Registered,
         SP!Accepted, SP!NoId
    <3> QED BY <3>2
  <2>4. [SP!Next]_(SP!vars) \/ Kill \/ Restart
    BY <1>2, ServerStep DEF SysInv, Between, CP!IInv
  <2> QED BY <2>1, <2>2, <2>3, <2>4
<1> QED BY <1>1, <1>2, SystemInvariant, PTL DEF Spec
=============================================================================
