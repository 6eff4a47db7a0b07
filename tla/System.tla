------------------------------- MODULE System -------------------------------
(***************************************************************************)
(* The server (SessionServer) and one client (ClientLink) over the TCP     *)
(* stack of one host, with the server killed and started again.            *)
(*                                                                         *)
(* Every step of the client is a step of ClientLink, every step of the     *)
(* server one of SessionServer or its end and its start; what one of them  *)
(* takes for a free choice of its environment is here the doing of the     *)
(* other.  The client's socket number g is the server's connection g.  The *)
(* broadcast timer and a reset in the backlog have no part in this: on one *)
(* host nothing is reset that the server did not write to.                 *)
(***************************************************************************)
EXTENDS Naturals, Sequences

CONSTANTS
    Packet, Garbage, MaxSockets, MaxClicks,     \* ClientLink's
    Endpoints, NoEndpoint,                      \* SessionServer's
    MaxKills    \* bound: times the server process is killed

ASSUME SizesAssumption ==
    /\ Packet \in Nat \ {0}
    /\ Garbage \in Nat
    /\ Garbage > Packet + 1

ASSUME BoundsAssumption ==
    MaxSockets \in Nat /\ MaxClicks \in Nat /\ MaxKills \in Nat

ASSUME NoEndpointAssumption == NoEndpoint \notin Endpoints

VARIABLES
    up, armed, nextId, tcpCl, udpCl, sid, rd, size, delivered, reached,
    backlog, peer, ep, put, got,                \* SessionServer's
    dead, resolving, tcp, gen, arrived, taken, reads, writes, ready, told,
    udp, udpOf, listening, qt, io, info, clicks, hasty, garbled,
                                                \* ClientLink's, told: its size
    greeted,    \* connections that FirstData was written to
    sent,       \* sent[g]: messages the client began to write on socket g
    early,      \* connections the client left before it had read FirstData
    kills,      \* times the server was killed
    killed      \* the server is down because it was killed

Conns == 1 .. MaxSockets

S == INSTANCE SessionServer WITH IdSpace <- MaxSockets + 1, MaxMsgs <- MaxClicks
C == INSTANCE ClientLink WITH size <- told

server == <<up, armed, nextId, tcpCl, udpCl, sid, rd, size, delivered, reached,
            backlog, peer, ep, put, got>>
client == <<dead, resolving, tcp, gen, arrived, taken, reads, writes, ready,
            told, udp, udpOf, listening, qt, io, info, clicks, hasty, garbled>>
between == <<greeted, sent, early, kills, killed>>
vars == <<server, client, between>>

Init ==
    /\ S!Init
    /\ C!Init
    /\ greeted = {} /\ early = {}
    /\ sent = [g \in Conns |-> 0]
    /\ kills = 0 /\ killed = FALSE

-----------------------------------------------------------------------------
(* The client *)

\* The client's end of an established connection is closed.  The server's
\* kernel learns of it, if it still has the other end.
Leave ==
    IF tcp \in {"up", "fin", "rst"} /\ up /\ peer[gen] = "open"
    THEN /\ S!Close(gen)
         /\ early' = IF taken < Packet + 1 THEN early \cup {gen} ELSE early
    ELSE UNCHANGED <<server, early>>

Moves ==
    \/ C!ClickConnect \/ C!ClickDisconnect \/ C!DisconnectUdp \/ C!SendUdp
    \/ C!Resolved \/ C!ReadDone
    \/ C!HandleResolve \/ C!HandleConnect \/ C!HandleWrite
    \/ C!HandleHeader \/ C!HandleBodyError \/ C!HandleNothing \/ C!HandleBytes
    \/ C!HandleFirstData \/ C!OpenUdp \/ C!BindUdp \/ C!ListenUdp \/ C!ReadOn
    \/ C!IoDisconnectUdp

ClientMoves ==
    /\ Moves
    /\ IF tcp' = "closed" \/ gen' # gen THEN Leave
                                        ELSE UNCHANGED <<server, early>>
    /\ UNCHANGED <<greeted, sent, kills, killed>>

ClientSends ==
    /\ C!ClickSend
    /\ sent' = IF writes' # writes THEN [sent EXCEPT ![gen] = @ + 1] ELSE sent
    /\ UNCHANGED <<server, greeted, early, kills, killed>>

\* The process is gone, and its sockets with it.
ClientEnds ==
    /\ dead
    /\ tcp \in {"up", "fin", "rst"} /\ up /\ peer[gen] = "open"
    /\ Leave
    /\ UNCHANGED <<client, greeted, sent, kills, killed>>

-----------------------------------------------------------------------------
(* The TCP stack *)

\* A connect succeeds if the server runs, and is refused if it does not.
Establish ==
    /\ C!Established
    /\ \/ tcp' = "up" /\ \E e \in Endpoints : S!Connect(gen, e)
       \/ tcp' = "refused" /\ ~up /\ UNCHANGED server
    /\ UNCHANGED between

\* What the server wrote comes to the client.
ToClient ==
    /\ C!Arrive
    /\ gen \in greeted
    /\ UNCHANGED <<server, between>>

\* What the client wrote comes to the server, one unit at a time.
ToServer ==
    /\ gen > 0
    /\ tcp = "up"
    /\ put[gen] < 2 * sent[gen]
    /\ S!Write(gen)
    /\ UNCHANGED <<client, between>>

\* A write is done when all of it is on its way.
ClientWritten ==
    /\ C!WriteDone
    /\ up /\ peer[gen] = "open" /\ ready'[Len(ready')].ec = "ok"
           => put[gen] >= 2 * (sent[gen] - Len(writes'))
    /\ UNCHANGED <<server, between>>

\* The server's process has ended, and with it the connection.
ServerGone ==
    /\ C!ServerEnds
    /\ ~up \/ peer[gen] # "open"
    /\ UNCHANGED <<server, between>>

\* FirstData, or what is left of it, meets a socket that the client closed.
Refuse(g) ==
    /\ g \in early \cap greeted
    /\ S!Reset(g)
    /\ UNCHANGED <<client, between>>

-----------------------------------------------------------------------------
(* The server *)

Greet(g) ==
    /\ S!Accept(g)
    /\ greeted' = greeted \cup {g}
    /\ UNCHANGED <<client, sent, early, kills, killed>>

Serve(g) == S!Session(g) /\ UNCHANGED <<client, between>>

Kill ==
    /\ up
    /\ kills < MaxKills
    /\ up' = FALSE /\ killed' = TRUE
    /\ kills' = kills + 1
    /\ UNCHANGED <<armed, nextId, tcpCl, udpCl, sid, rd, size, delivered,
                   reached, backlog, peer, ep, put, got, client, greeted, sent, early>>

\* main runs again.  Nothing is kept but the connections' other ends, which
\* are closed as seen from here, and of which nothing can arrive any more; the
\* address can be bound at once.
Restart ==
    /\ ~up
    /\ up' = TRUE /\ killed' = FALSE
    /\ armed' = {"accept", "timer"}
    /\ nextId' = 0
    /\ tcpCl' = S!Empty /\ udpCl' = S!Empty
    /\ sid' = [g \in Conns |-> S!NoId]
    /\ rd' = [g \in Conns |-> "none"]
    /\ size' = [g \in Conns |-> 0]
    /\ delivered' = [g \in Conns |-> << >>]
    /\ reached' = {} /\ backlog' = {}
    /\ peer' = [g \in Conns |-> IF peer[g] = "none" THEN "none" ELSE "fin"]
    /\ put' = [g \in Conns |-> 0] /\ got' = [g \in Conns |-> 0]
    /\ UNCHANGED <<ep, client, greeted, sent, early, kills>>

-----------------------------------------------------------------------------
Next ==
    \/ ClientMoves \/ ClientSends \/ ClientEnds
    \/ Establish \/ ToClient \/ ToServer \/ ClientWritten \/ ServerGone
    \/ \E g \in Conns : Refuse(g) \/ Greet(g) \/ Serve(g)
    \/ Kill \/ Restart

Spec == Init /\ [][Next]_vars

\* The user waits until each button has taken effect.
Patient == Next /\ ~hasty'

\* The handlers of both processes run, and the host's TCP stack delivers.
\* Nobody has to press a button, and nobody has to start the server.
ClientRuns == ClientMoves /\ clicks' = clicks

Fairness ==
    /\ WF_vars(ClientRuns) /\ WF_vars(ClientEnds)
    /\ WF_vars(Establish) /\ WF_vars(ToClient) /\ WF_vars(ToServer)
    /\ WF_vars(ClientWritten)
    /\ \A g \in Conns : WF_vars(Greet(g)) /\ WF_vars(Serve(g))

PatientSpec == Init /\ [][Patient]_vars /\ Fairness

-----------------------------------------------------------------------------
(* Properties *)

Members == {tcpCl[i] : i \in DOMAIN tcpCl}

TypeOK ==
    /\ S!TypeOK
    /\ C!TypeOK
    /\ greeted \subseteq Conns /\ early \subseteq Conns
    /\ sent \in [Conns -> 0 .. MaxClicks]
    /\ kills \in 0 .. MaxKills
    /\ killed \in BOOLEAN

\* A user who waits for each button to take effect never brings the server
\* down.  Whoever does has left a connection before FirstData was read there,
\* and before the server had read anything of it: pressing Disconnect soon
\* after Connect is enough (AsioTcpServer.cpp:67-71, ClientSession.cpp:19-24,
\* connection.cpp:236-242).
DiesOfEarlyLeaver ==
    ~up /\ ~killed
        => hasty /\ \E g \in early \cap greeted : g \in Members /\ got[g] = 0

\* For an orderly user the client lives as long as the server was never killed
\* (connection.cpp:156-164, 228).
OrderlyClientLives == dead => hasty \/ kills > 0

\* While an orderly user's connection is up at both ends and the client listens
\* for images, the server broadcasts to the very address it listens on
\* (AsioTcpServer.cpp:55-57, 70; connection.cpp:228).
ListensWhereRegistered ==
    ~hasty /\ listening /\ tcp = "up" /\ up /\ peer[gen] = "open"
        => \E i \in DOMAIN udpCl : tcpCl[i] = gen /\ udpCl[i] = ep[udpOf]

\* The server takes an orderly user's connection out of its tables only when it
\* has processed every message that was sent there (ClientSession.cpp:19-32).
RemovedWhenAllRead ==
    [][\A g \in Members : up /\ g \notin Members' /\ ~hasty
           => Len(delivered[g]) = sent[g]]_vars

\* A connection that an orderly user has closed leaves the server's tables:
\* no image is sent to its address for ever (ClientSession.cpp:19-22).
OrderlyDeparture ==
    \A g \in Conns :
        g \in Members /\ peer[g] = "fin" /\ ~hasty
            ~> g \notin Members \/ hasty \/ ~up

\* A connection that is up makes an orderly client listen for images, also
\* after the server was killed and started again (AsioTcpServer.cpp:67-71,
\* connection.cpp:137-145, 224-231).
ConnectedIsServed ==
    tcp = "up" /\ up /\ peer[gen] = "open" /\ ~hasty
        ~> (listening /\ udpOf = gen) \/ tcp # "up" \/ ~up \/ hasty
=============================================================================
