# p2p_watcher: a verification project

The repository is a small screen-sharing system: clients connect to a server
over TCP, the server tells each client its own address, the client opens a UDP
socket on it, and a screenshot that one client sends over UDP is put together by
the server and sent on to every client. This directory holds TLA+ models of
that system, the TLC runs that check them, and TLAPS proofs about each of them.

Paths below are relative to the repository; line numbers are those of the
source files. The definitions in the modules keep the names of the code where
TLA+ allows it, and `PROJECT.json` ("map") names the lines of each.

## 1. Inventory

### TCP server and client registry
`Server/source/AsioTcpServer.cpp`, `Server/include/Server.h`

* State: the acceptor; `cl_`, a map from id to session; the static id counter
  of `listen`; a timer; the UDP manager it owns, whose own `cl_` maps the same
  ids to `{address, port}`.
* Operations: `open`, `listen` (accept a connection, make a session, enter it
  in both tables, `createClient`, listen again), `createClient` (connect the
  three slots, send `FirstData`, start reading), `removeClient`,
  `processPacket` (prints), `startTest` (every 5 s broadcast a text).
* Interaction: the session's `signal_deleting` runs `removeClient` of the UDP
  and of the TCP manager; `signal_process_packet` runs `processPacket`. One
  thread runs all handlers.
* Hard: the two tables must stay in step over any order of accepts and
  departures; the accept and the timer must be re-armed on every path; a failed
  connection must not take the others down.

### TCP session
`Server/source/ClientSession.cpp`

* State: the socket, `size_`, `buffer_`, `cur_client_id_`.
* Operations: `doRead` (read 4 bytes of length, then the packet, hand it on,
  read again), `doSend`.
* Hard: how reads end. The header handler looks for end of file only; after any
  other error it goes on with the old `size_`. The body handler logs every
  error, end of file included, and stops. So what becomes of a client depends
  on where in its stream it was cut, and how.

### UDP relay
`Server/source/AsioUdpServer.cpp`, and the same code in
`Client/source/connection.cpp`

* State: one receive buffer, one static `assembly_buffer`, the client table.
* Operations: `sendData`/`broadCast` cut a message into packets; the receive
  handler copies a packet into the assembly buffer; after the last packet the
  server broadcasts the image and the client shows it.
* Hard: loss, one assembly buffer for all senders, packet sizes against buffer
  sizes, 16-bit packet numbers, stale bytes of earlier datagrams, a copy that
  is not bounded by the assembly buffer.

### Client connection
`Client/source/connection.cpp`, `Client/source/mainclient.cpp`

* State: the TCP socket, `size`, `buffer`, the UDP socket.
* Operations: `doConnect`, `doDisconnect`, `asyncWrite`, `sendUdpData` (on the
  Qt thread), and the handlers of resolve, connect, read and write, which open
  the UDP socket when `FirstData` comes (on the io thread).
* Hard: two threads use the same sockets without a lock; connect and disconnect
  at any moment of a pending read; reconnecting; the UDP socket that stays open
  when the server is gone.

### Messages on the wire
`GroupData.h` and the `Packet` of `ClientSession.h` and `connection.h`, on both
sides; the `prcsPacket`/`processPacket` functions; `asyncWrite`, `doSend`

* State: none of their own, but the receive buffers they read from keep the
  tail of the datagram before.
* Operations: `serialize`/`deserialize` of `TestMessage`, `FirstData`,
  `TestStruct` and `Packet`; a length in front of each TCP packet.
* Hard: fields in network order inside headers, ports and lengths in host
  order; stale bytes behind a short datagram; a composed write of two local
  variables that are gone before it ends.

### CRC-16
`Server/source/crc.cpp`, `crc.py`, `crc.dat`: `hexToBytes` and `CalcCrc` in two
modes, bit by bit and with a table read from a file. No code calls it; `main.cpp`
has the calls in comments.

### The rest
The logger, `main` and the factory, the window. QCustomPlot is vendored and
unused: its two files are 43,303 of the 45,199 lines. `Server/.cache` is
generated.

### What makes the components correct
* Registry: the tables agree; a removal takes exactly the session that ended;
  each connected client keeps its read loop; the server keeps accepting and
  broadcasting; one client's failure does not end the others.
* Session: every packet handed on is whole, in order, none left out; removal
  comes after the last whole packet.
* Relay: a byte arrives where it was, or not at all; an image is shown whole;
  a process survives what the network does to the packets, but for the loss of
  an image's first one.
* Client: at any moment at most one read is pending on the connection it was
  meant for; the UDP socket is open exactly while there is a session.
* Messages: what is read is what was written, or nothing; a message is whole,
  and neither lost nor out of order, on one TCP connection.
* The two together: a user who waits for each button to take effect loses
  neither the client nor, for everybody, the server; the server sends images to
  where the client listens, also after it was started again.
* CRC: both modes agree; data followed by their own CRC give 0 and no other two
  bytes do.

## 2. Modules

| module | what it is |
|---|---|
| `ClientDirectory` | abstract specification of the registry: join, receive, hang up, leave, die |
| `SessionServer` | the registry and the sessions, as one process with its peers |
| `MCSessionServer` | its instances for TLC |
| `SessionServerProofs` | the inductive invariant and the theorems |
| `Fragments` | cutting an image into packets and copying a packet into the assembly buffer |
| `ImageRelay` | clients, server and sockets around `Fragments` |
| `MCImageRelay` | its instances for TLC |
| `ClientLink` | the client's connection: the Qt thread and the io thread over its two sockets |
| `MCClientLink` | its instances for TLC |
| `System` | `SessionServer` and `ClientLink` composed over one TCP stack, with the server killed and started again |
| `MessageChannel` | abstract specification of a connection: whole messages, in order, up to the one it broke on |
| `TcpFraming` | asio's writes, the kernels' buffers and `doRead` in between, unit by unit |
| `Codec` | `serialize` and `deserialize` as functions from messages to bytes and back, for hosts of either byte order |
| `Wire` | a sender and a receiver around `Codec`, over TCP and UDP |
| `Crc` | `testCrc`: `hexToBytes` and the two modes of `CalcCrc` |
| `ImageRelayProofs`, `WireProofs`, `CrcProofs`, `TcpFramingProofs`, `ClientLinkProofs` | the invariants and theorems of those five |
| `ImageOrderProofs` | the order of an image's packets, on top of `ImageRelayProofs` |
| `SystemProofs` | what relates the two ends, on top of the invariants of `SessionServerProofs` and `ClientLinkProofs` |
| `MCSystem`, `MCTcpFraming`, `MCWire`, `MCCrc` | instances for TLC |

### SessionServer
One action per completion handler, since one thread runs them: `Accept` and
`AcceptDead` are the two outcomes of the accept handler, `Tick` the timer's,
`HeaderRead`, `HeaderEof`, `HeaderError`, `BodyRead`, `BodyError` and
`EmptyBody` those of the two reads of `doRead`. `Connect`, `Write`, `Close` and
`Reset` are the peer and the TCP stack.

* A connection's stream is counted in units: the length prefix of a message is
  one, its packet another. A peer can be cut after any unit. A prefix or packet
  of which only some bytes came before the cut ends its read in the same way as
  one of which none came, so a cut inside a unit is the cut before it; but
  the one to three bytes of a prefix that came before a reset have overwritten
  part of `size_`, and `HeaderError` has both outcomes.
* `armed` holds the manager's pending operations, `rd[c]` the pending read of
  c's session, `size[c]` its `size_` (the message it was last told about),
  `delivered[c]` what `processPacket` was given. `got` and `put` are the
  positions of the server and of the peer on the stream.
* `reached` is a history variable: endpoints broadcast to since a client last
  joined from there.
* An accepted connection whose peer has already reset it may show the session
  end of file or the reset: the failed write of `FirstData` clears the pending
  error on some systems and not on others (`DoSend`).
* `up` becomes false when `processPacket` is given an empty vector
  (AsioTcpServer.cpp:90, 109). The first `memcpy` reads from a null or freed
  pointer and the `assign` has a negative length, so no build goes on.

### ClientDirectory and the refinement
A connection is a member for at most one stretch of time; only members'
messages are processed, in order, none left out; a member leaves only after it
hung up; the process dies only while a member's connection is broken.
`SessionServer!Directory` maps the table's range to the members, the accepted
connections outside it to the departed, and `delivered` to the inboxes.

### Fragments and ImageRelay
`Fragments` has an operator per expression of `broadCast` and `processPacket`
(`PacketCount` is `cnt`, `ChunkSize` is `chunk`, `ChunkOffset` is
`chunk_offset`, and so on), with sizes as constants. `ImageRelay` runs them in
clients and server. `SlotSend` puts the packets of one press of the button in
the client's `outbox`; `Send` sends them one by one, so that two clients
interleave; the server sends a whole broadcast before it receives again, since
it has one thread, while the clients receive on theirs. A UDP socket holds
`SocketSize` packets and loses what comes when it is full. There is no
reordering and no duplication: the server binds to 127.0.0.1, so all processes
are on one host.

Bytes are tuples that say whose screenshot they are from and where in it, so a
property can tell a byte in its place from a byte elsewhere. A copy past the
allocated part of the assembly buffer is undefined: the process dies or goes on
(`Outcomes`); into a buffer never allocated it is a write through a null
pointer, and the process dies. What such a copy does to other memory is not
modelled. `lost`, `headless` (the processes that the first packet of an image
was lost to) and `mixed` are history variables.

### ClientLink
The Qt thread runs the slots of the buttons (`ClickConnect`, `ClickDisconnect`,
`ClickSend` and their second halves `DisconnectUdp`, `SendUdp`), the io thread
the handlers in `ready`, first come first served (`Handle...`, then `OpenUdp`,
`BindUdp`, `ListenUdp`, `ReadOn` for the steps after `FirstData` and
`IoDisconnectUdp` for the second half of `doDisconnect`). A step is one call
that changes a socket, so the threads interleave between such calls; two calls
inside one socket at the same moment are not modelled. `Resolved`,
`Established`, `Arrive`, `ServerEnds`, `WriteDone` and `ReadDone` are asio, the
TCP stack and the server.

* `size` keeps its value from one connection to the next, as `tcp_var_->size`
  does. A body read of 0 bytes is done at once, on a closed socket too; every
  other read of a closed socket fails; closing a socket completes what is
  pending on it with `operation_aborted`; `async_connect` closes the socket,
  opens a new one, and leaves a refused one open. The name resolves to one
  endpoint.
* The server sends only `FirstData`, so the stream of a connection is one
  length (one unit) and `Packet` units. Bytes taken from another place of it
  are not a packet: their first two are not the hash (`HandleBytes`), and as a
  length they ask for more than will come (`Garbage`). The four bytes of a
  length count as one: its low byte comes first and is all of a length below 256,
  so a reset behind it leaves `size` as a length that came whole does. Only if
  the stream *ends* there does the model keep the old `size` where the code has the
  new one; a `size` of 0, of which alone a process dies, then stays longer than
  in the code.
* An open UDP socket may be bound by a send before `bind` (`SendUdp`,
  `"ephemeral"`). `open` of an open socket and `bind` of a bound or a closed one
  throw, nothing in the io thread catches the exception, which terminates the
  process (`dead`); so it is after `prcsPacket` of an empty buffer.
* `hasty` becomes true when a button is pressed before the last one has
  settled, or Connect without Disconnect. The `Orderly...` properties are about
  users who never do that: what the code promises them is exact, and what it
  does to the others is in the violation run and under "hazards".

### System
`System` instantiates `SessionServer` and `ClientLink` on disjoint variables and
lets each do what the other takes for a free choice of its environment. The
client's socket number g is the server's connection g. `ClientMoves` is any step
of the client; when it closes the socket, the server's kernel learns of it
(`Leave`). `Establish`, `ToClient`, `ToServer`, `ClientWritten`, `ServerGone`
and `Refuse` are the TCP stack between the two: bytes of `FirstData` arrive only
on a connection whose accept handler wrote them (`greeted`), a unit reaches the
server only if the client has begun to write it (`sent`), and a connection is
reset only if the server wrote to a socket that was already closed (`early`).
`Kill` ends the server between any two of its handlers; `Restart` is `main` run
again, with empty tables and nothing read, while the connections' other ends
are still there.

The composition has one client with several connections in turn; clients meet
in `SessionServer` and `ImageRelay`. The broadcast timer and a reset that was
not provoked are left to `SessionServer`.

### TcpFraming and MessageChannel
`asyncWrite` gives `async_write` two buffers that are local variables. asio
makes a first attempt before `asyncWrite` returns; what the kernel takes of it
is right. The rest is written later from freed memory, unit by unit either as it
was or as `Junk` (`LateAttempt`). Attempts of one socket wait in a queue; a
write that was cut short goes behind the others (`Requeue`). The reader is
`doRead`: `Prefix` units make a length, which may be any number if they are not
a length, and then as many units make a packet; it may be a packet, something
with a packet's header, or bytes that `processPacket` drops (`BodyRead`). Freed
memory may hold the header of another packet (`MayHaveHeader`).

`MessageChannel` says what is promised: messages arrive whole, in order, none
left out, up to the first one that an `asyncWrite` left unfinished (`broken`).
`TcpFraming!Channel` instantiates it with `TcpFraming`'s own `sent`,
`delivered` and `broken`, and the run checks the implication, liveness
included.

### Codec and Wire
A byte is a number, a word a sequence of bytes from the most significant one. A
host has a byte order; `Mem` and `Load` are what a `memcpy` of a word gives.
Each `...Bytes` operator is a `serialize`, each `...Of` a `deserialize`, with
the fields at the offsets the code gives them. `Wire` puts them between two
hosts of any byte orders. A datagram is received over the one before it
(`Overlay`), and the whole buffer is given to `UdpMessage`, as the code does; a
TCP frame is read by the length in front of it. A foreign length is 65536 times
too large or more, and the session waits for ever (`starved`).

### Crc
A word is the set of its bits that are 1, so `Xor` is symmetric difference.
`FuncByte` is the loop over a byte's bits, `TableByte` the table's step, `Rows`
the 256 numbers of `crc.dat`. The state is where `testCrc` is and the values
the register has had in each mode. `hexToBytes` does with
each two characters what `stoi` does: it skips a blank, takes a sign, reads a
digit without a second one for a byte, and throws if there is no number
(`Refused`, `Pair`). The file may be missing.

Mutated forms of definitions, marked `\* mutant`, are used by no specification.
Each is the definition with a likely mistake, and the property it stands
against is violated when it takes the definition's place.

## 3. Runs

| run | instance | checks |
|---|---|---|
| `server-safety` | 3 connections, 2 endpoints, 1 message each | `TypeOK`, `RegistriesAgree`, `ReadLoopAlive`, `TwinsAreGone`, `DiesOnlyOfEmptyRead` |
| `server-live` | 2 connections, 2 endpoints, 2 messages each | `FramesInOrder`, `RemovedOnlyWhenDone`, `BacklogServed`, `DepartureNoticed`, `BroadcastReachesAll`, `ImplementsDirectory` |
| `relay-lossy` | 2 clients, equal displays of 2 packets of which the last is short, 2 screenshots (of one client, 1 of the other), sockets of 2 packets | `TypeOK`, `BytesStayInPlace`, `StripesAreBlack`, `LoneImagesArrive`, `WholePictures`, `DeathsExplained`, `NeverBackInTime` |
| `relay-odd` | 2 clients, displays of 4 and 11 bytes (2 and 4 packets, numbers below 3), 1 screenshot each, 1 timer text, no loss | `BytesStayInPlace`, `LoneImagesAreSeen` |
| `relay-exact` | 1 client, 1 screenshot, no loss | `AssembledIsSent`, violated |
| `client-orderly` | 2 connections, 4 buttons, packets of 2 units | `OrderlyUseSurvives`, `OrderlyFraming`, `OrderlyReading`, `OrderlySockets` |
| `client-parameters` | 2 connections, 3 buttons | `SameParameters`, violated |
| `system-any` | any user: 3 buttons, 2 connections, 1 kill of the server | `TypeOK` (of both components too), `DiesOfEarlyLeaver` |
| `system-patient` | a user who waits: 4 buttons, 2 connections from 2 ports, 1 kill, fairness | `OrderlyClientLives`, `ListensWhereRegistered`, `RemovedWhenAllRead`, `OrderlyDeparture`, `ConnectedIsServed` |
| `tcp-framing` | 3 messages of 2 + 2 units, 5 units in the kernels | `TypeOK`, `DamageHasACause`, `WritesEnd`, `ImplementsChannel` |
| `wire` | 2 messages each of 3 TCP and 4 UDP ones, all pairs of byte orders, a buffer of 26 bytes | `LikeHostsUnderstand`, `NothingMisread` |
| `crc` | 17,000 strings: two bytes, a byte with its CRC, malformed ones, the documented one | `ModesAgree`, `OwnCrcOnly`, `DocumentedCrc` |

What the runs show, beyond "it holds":

* The registry is sound for every order of accepts, cuts and closes, but
  *presence is not*: a client whose close cuts a message stays in both tables
  (`BodyError`), which is why `DepartureNoticed` speaks only of clients that
  close between two messages, and why `TwinsAreGone` allows a doubled endpoint
  when one of the two clients is gone. `ReadLoopAlive` says that no other client
  stays like this: a session's read and its entry go together.
* TCP ends the server process only after a connection was reset before its first
  length was read (`DiesOnlyOfEmptyRead`). It need not: one to three bytes of
  the length are enough for `size_` not to be 0. The relay has its own causes of
  death, which end the same process:
* A process dies of an image's packet only if it never got the first packet of
  some image, or of a packet that the code's sizes do not fit
  (`DeathsExplained`, a property of the step in which the process dies and of the
  packet it takes). One of these is the display the code is written for: 2880 *
  1800 * 4 bytes end in a chunk of 1408, and 1455 are copied. The copy passes
  the buffer by less than one packet's body, never by more. So whether the
  programs work at all on that display is up to the allocator, and
  `relay-lossy` has such a display.
* Framing survives every cut: the stale `size_` after a reset is never used on
  bytes, since nothing can follow a reset (`FramesInOrder`).
* `relay-exact` is a disagreement with the code's own comment: the receive
  buffer has the size of a chunk and not of a chunk with its header, so the
  last 17 bytes of each full chunk are lost on every network, and twice-relayed
  images have black stripes there (`StripesAreBlack`, `LoneImagesArrive`).
* Losses and mixed senders replace parts of an image by black or by another
  image's bytes, but never shift a byte between chunk places (and never at all
  among equal displays) and never change the size of what is shown. The proof
  covers packet numbers that wrap and chunks that land on each other too; what
  is lost then is the image (`LoneImagesAreSeen` is about numbers that fit).
* Losses and mixed senders may tear an image, but among equal displays they
  never turn time back: a byte of a user's screenshot is only ever replaced on a
  display by bytes of the same screenshot or of later ones (`NeverBackInTime`).
  What makes it true is that the assembly buffer is empty after a broadcast; if
  it kept its bytes, a later image with a packet lost would bring back what
  displays have long replaced.
* A client whose user waits is lost in one case only: the server resets the
  connection before the first length of the client's life, when `size` is still
  0 (`OrderlyUseSurvives`; the server has the same hazard). On later connections
  the stale `size` asks a closed or reset socket for bytes and fails.
* A user who does not wait can lose the client or its framing.
  `client-parameters` shows one way: Connect on a connection that is up lets the
  aborted header read start a body read on the new connection, and the client
  goes on with the UDP parameters of the old one.

* The server's cause of death, an empty body, is within reach of an ordinary
  user: Disconnect pressed soon after Connect closes a socket that `FirstData` is
  still being written to, the answer is a reset, the read of the first length
  fails with `size_` 0, and the server ends for every client
  (`DiesOfEarlyLeaver`). A user who waits never does it, and nothing else
  brings the server down.
* For a user who waits the two halves fit, restarts included: what the client
  sent is processed before it is removed, it is removed once it has left, and it
  is served again after a restart.
* Writes are sound as long as each `async_write` is done at once. A message that
  is not taken at once may be damaged, and so may everything behind it; one alone
  of the two causes, overlapping sends or reused memory, is enough
  (`DamageHasACause`). Nothing ever deadlocks: writer and reader go on until the
  server's process ends (`WritesEnd`).
* Hosts of one byte order understand each other. Hosts of different ones never
  misread a message, but they do not understand it either: the header is copied
  in host order, so the hash does not match and every packet is dropped, and a
  TCP length makes the reader wait for ever. A comment (`GroupData.h:17`) says
  that `htonl` and `ntohl` are there for devices of another architecture; they
  are not enough for it.

### Bounds and why they are enough
* Three connections over two endpoints are the least in which an endpoint is
  reused while another client is connected and a dead entry is still in the
  table; two connections are the least with an overlap. `IdSpace` is larger
  than the number of connections: `IdAssumption`, 2^32 in the code.
* One message per connection has the cuts before the prefix, between prefix
  and packet, and after the packet; two messages add a stale `size_` that is
  not 0. The proofs remove both bounds.
* Chunks of 3 bytes, a header of 1 and a buffer of 3 keep the relations of
  1472, 17 and 1472: a full chunk does not fit, a last chunk may be shorter
  than, equal to or longer than the 2 bytes copied. Any packet can be lost while
  its neighbours arrive: sockets hold two packets, and two senders and a
  broadcast fill them.
* Two connections of a client show what one leaves to the next (`size`, the UDP
  socket, reads that were aborted); four buttons are connect, disconnect,
  connect and one more at any moment. A resolve that
  would open a third socket (`MaxSockets`) is not handled: such a behaviour
  stops there, and within four buttons only a hasty user gets to it. Packets of two units can be taken out
  of step with their length, in part or as a whole.
* `System` has packets of one unit: a cut in the middle of `FirstData` is
  `ClientLink`'s matter. Two connections and one kill are the least with a
  connection before and one after the restart; the patient user has one button
  more, for connect, disconnect, connect and send.
* `TcpFraming`'s kernels hold one unit more than a message, so that a write is
  cut in the length, between length and packet, and in the packet, and three
  messages are the least with one queued behind an overlapping pair.
* `Wire` sends two messages each way, so that a short datagram follows a long one
  into the buffer; its words read differently from both ends. `Crc` needs two
  bytes to show that the second depends on the first. The proofs remove these
  bounds.
* Two screenshots each are the least of which one can be the older one, and two
  senders the least that mix. `FewPics` keeps the second client to one when the
  first has sent two: with sockets of two packets `relay-lossy` has 222,000 states,
  and every way in which the first packet, the last one or both of an image
  are lost between those of others.
* In `relay-odd` packet numbers stop at 2, as they do at 65,535: the third packet
  has number 0, the fourth the number of the first.
* Connections are interchangeable, and so are clients with equal displays; the
  safety runs use that symmetry. Runs with liveness properties do not.
* `CHECK_DEADLOCK` is off: peers may be done, nobody has to press Send, and a
  process may die.

### Fairness
`io_context::run` dispatches each operation that has become ready, so each
session's next handler, the accept of each waiting connection and the timer are
weakly fair (`SessionServer!Fairness`). In `ImageRelay` a loop that sends goes
on and a socket with packets is read: `Send` and `Receive` of each process are
weakly fair. In `System` both processes run their handlers and the TCP stack of
the one host delivers, completes and closes; that the user waits for each button
is a condition on steps (`Patient`), not fairness. In `TcpFraming` writes go on
while there is room (`Writable`, `Continue`), and the reader's handlers run.
`ClientLink`, `Wire` and `Crc` have safety properties only. Nothing is assumed
of people, peers and the network: `Connect`, `Write`, `Close`, `Reset`,
`SlotSend`, buttons, `Kill` and `Restart` have no fairness.

## 4. Proofs

`SessionServerProofs` proves, for any finite set of connections, any set of
endpoints and any number of messages, from `IdAssumption` (fewer connections
than ids), `MsgAssumption` and the choice of constants only:

| theorem | statement |
|---|---|
| `InductiveInvariant` | `Spec => []IInv` |
| `TypeCorrect`, `TablesAgree`, `ReadLoopsLive`, `FramesAreInOrder`, `TwinsGone`, `DeathsExplained` | each invariant of `server-safety` and `FramesInOrder` |
| `RemovalIsOrderly` | the action property `RemovedOnlyWhenDone` |
| `ServerImplementsDirectory` | `Spec => Directory!Spec` |
| `BacklogIsServed`, `BroadcastsReachAll` | `FairSpec /\ []AcceptEnabled => BacklogServed`, `FairSpec /\ []TickEnabled => BroadcastReachesAll` |
| `DepartureAdvances` | `FairSpec /\ []SessionEnabled =>` for every c and n, `Departing(c, n) ~> Departed(c, n)` |

The argument. `RegistriesAgree` alone is not inductive: an accept could
overwrite an entry if an id came back. `IdInv` says that the counter is the
number of accepted connections and that every id given out is below it; with
`IdAssumption` the next id is new (`FreshId`, by counting). `SessionInv` ties a
pending read to the table entry of its session's id, so that an end of file
removes that entry and no other (`EofLeaves`). `BacklogInv` keeps connections
from being accepted twice. `StreamInv` says where the reads stand: before a
prefix both positions and `size_` count the delivered messages; before a packet
they are one further, or the connection was reset and drained, and `size_` is
the old one or the next. From it follow
the framing, the one cause of death, and the removal only after everything was
processed. `EndpointInv` (connected peers have different endpoints) gives
`TwinsAreGone`. There is one lemma for each part, with a step for each action.
For the refinement each action is shown to be one action of `ClientDirectory`
or to leave its variables alone (`DirectoryStep`).

The last three theorems are about liveness. The prover cannot work out when an
action is enabled, so each has a hypothesis that says it for the handler it
needs: `AcceptEnabled`, that the accept handler can run while a connection waits
and the accept is pending; `TickEnabled` and `SessionEnabled` likewise. They are
what the guards of the actions say, and TLC found all three to hold in every
state of the instances of `server-safety` and `server-live`. What is left is
proved: that the accept and the timer are pending between any two handlers
(`ArmedAlways`), that no other step undoes the waiting or ends it in another way,
and that weak fairness of one connection's handler is enough. `Departing(c, n)`
is the premise of `DepartureNoticed` with n units of the stream unread: the
connection closed between two messages and is still in the table. `Departed(c,
n)` says that it left the table, was reset, that the process ended, or that fewer
units are unread. It needs `ReadLoopAlive`, which is a part of `IInv`: a client of the table
without a pending read was reset, or closed within a message (`LeftStep` keeps
it). That n cannot go down for ever is an
induction over n, which the provers cannot instantiate; `DepartureNoticed`
itself stays with TLC.

`ImageRelayProofs` proves, for any finite set of clients, displays of any sizes,
any number of screenshots and sockets of any size, from `FragmentAssumption`,
`RelayAssumption` and `SizeAssumption` (a text fits into a packet, a receive
holds at most a chunk and a header, 2^16 packets have 32-bit offsets, no display
comes near 4 GiB):

| theorem | statement |
|---|---|
| `RelayKeepsOrder` | `Spec => []Relayed` |
| `BytesKeepPlaces`, `StripesStayBlack`, `PicturesAreWhole` | `BytesStayInPlace`, `StripesAreBlack`, `WholePictures` |
| `RelayTypeOK` | `TypeOK`, by `RelayKeepsBounds` (no socket holds more than it can, what is assembled is allocated) |

The first three are about what is assembled and shown, which depends on what is
on its way and on what a receive left in the buffer. `Relayed` says of every packet
that its bytes stand at their place of a chunk, and among equal displays that its
number says which chunk and that only the image's end cuts it short; of every
buffer that its bytes stand at their place, stale ones too; of every image that
it has a screenshot's size or none. `PacketSound` and `CopiedPlaced` are the two
halves, cutting and copying; they rest on division by a chunk's size
(`ChunkInside`, `Place`, `Offset`).

`ImageOrderProofs` proves, from the same assumptions:

| theorem | statement |
|---|---|
| `PacketsComeInOrder` | `Spec => []IInv` |
| `LoneImagesComeThrough` | `LoneImagesArrive` |
| `DeathsHaveCauses` | the action property `DeathsExplained` |
| `ImagesComeInTurn` | `Spec => [](Regular => TimeInv)` |
| `DisplaysGoForward` | the action property `NeverBackInTime` |
| `RoomMakesExact` | `Spec => [](Payload = MaxChunk /\ Fitting = Clients => AssembledIsSent)` |
| `LongImagesAreCut` | no screenshot longer than `Payload` is ever shown as it was taken, if `Payload < MaxChunk` |

`LoneImagesArrive` is not inductive, nor is any statement
about the packet a process is about to take alone: what it takes has to fit what was assembled before, and
what follows in its socket and in everybody's outbox has to follow on that. So
`OrderInv` says of every packet of an image that is on its way to a process
that it begins an image (`Starts`), or continues the last packet of an image
before it in the socket or the outbox (`Continues`), or that all before it are
texts and the assembly buffer is just as far (`Ready`); texts may stand
anywhere. It says so twice. Not `exact`, of a client to which no image's first
packet was lost, however screenshots were mixed at the server: its images come
from one sender, so their sizes follow each other, and other packets may be
missing between them (`LedInstead`). `exact`, of every process if no
two screenshots were sent at once and none of their packets was lost on the way
to the server or to it: then the packets are `Packet(image, idx)` of one image
that was taken, and the buffer is `Part(image, idx)`, its first `idx` packets.
That packets of two images are different (`SamePacket`), that one packet more
extends a part (`PartGrows`) and that the last completes it (`PartAll`) gives
`LoneImagesArrive`. The server assembles packets of several clients, and packets
that are not `exact`; what keeps it alive is `BegunInv`: whoever sends, the first
packet of an image comes before the others of its size, or as many bytes are
allocated already. With `Inside` (a packet is copied past its image's end only if
its number may not fit or it is the last one with a short chunk, and then by less
than a body) this bounds every copy, and with the sizes that `OrderInv` gives what
a client shows; from both follows `DeathsExplained`
(`ReceiveImageDeaths`). The queue lemmas (`LedAppend`,
`LedBehind`, `LedTail`, `Leads...`, `Open...`) say what a send, a send of
somebody else and a receive do to the two; `Sent` and `Taken` what `Send` and
`ReceiveImage` do to the variables. TLC found every part of `IInv` to hold in the
three instances of `MCImageRelay`.

`NeverBackInTime` compares two displays, and what is shown next may be anywhere
on its way. `TimeInv` therefore speaks of the bytes themselves (`Marks`: whose
screenshot, and which one) in all the places of one way: what client d shows,
what it has assembled, what waits in its socket (`Waiting`), what the server
still sends it (`Sending`) and what the server has assembled or not yet received
(`Upstream`). `Ahead(P, Q)` says that no mark in P is of a later screenshot
than one in Q of the same user. A display is ahead of everything behind it, and
all that is at the client or on the way to it is ahead of `Upstream`, since the
server sends a whole broadcast before it receives again (`ShownInv`). Inside one
image packets are in no such order: two senders' packets mix in the server's
buffer, and a packet holds marks of both. So packets in a client's socket are
compared only where an image ends between them (`Turns`, `Closed`: what a packet
goes into is ahead of what comes behind the next last packet). A receive that
does not end an image merges two neighbours which nothing separates; one that
does shows what was assembled, and there the buffer must become empty, or the
next image would be behind it. `SentInv`, `OneEach` and `IntakeInv` say what the
senders and the server's socket contribute. TLC found `TimeInv` to hold in the
instance of `relay-lossy` before it was proved.

`RoomMakesExact` and `LongImagesAreCut` are about the finding of `relay-exact`.
The first shows that the size of the receive buffer is its only cause, besides
losses, mixed senders and packet numbers: with 17 bytes more of it the property
would hold. The second shows that it is no rare case: as the code is, `Payload`
is 1455 bytes and every screenshot is longer.

`WireProofs` proves, for messages of any content and length that the formats can
hold, any byte orders and any number of messages, from `WireAssumption`:

| theorem | statement |
|---|---|
| `WireInOrder` | `Spec => []InOrder` |
| `WireTypeOK` | types, and that nothing is lost or made up |
| `HostsUnderstand`, `NoneMisread` | `LikeHostsUnderstand`, `NothingMisread` |

`InOrder` says that what was heard and what is under way are together what was
said, in order, as `Histories`, `TcpInOrder` and `UdpInOrder`. The lemmas before
it show for each format that `deserialize` finds what `serialize` wrote wherever
the bytes begin a buffer, whatever stands behind them (`Holds`), which is why the
stale tail of the receive buffer cannot show.

`CrcProofs` proves, for every set of strings, from `HexesAssumption` (they
consist of digits and other characters) and `TableOfPolynomial` (each row of
`crc.dat` is what the bitwise loop makes of its index, which TLC evaluates on
the 256 rows):

| theorem | statement |
|---|---|
| `CrcTrails` | `Spec => []Trails` |
| `CrcTypeOK` | registers of sixteen bits, loops within the bytes |
| `SameCrc`, `OwnCrcClears` | `ModesAgree`, `OwnCrcOnly` |
| `DocumentedCrcHolds` | `DocumentedCrc` |

The step of the table mode equals that of the bitwise mode because a shift is
linear (`ShiftByteXor`) and the low byte leaves a register unchanged by the
polynomial (`ShiftByteLow`); that only the register's own bytes clear it is the
injectivity of the shift (`ShiftByteInjective`). For the documented string `Trails`
also says that the bytes are those of the string (`DocumentedBytes` works them
out) and how long the trails are at the end; `DocumentedFuncs` follows the
register over the fourteen bytes, eight shifts each.

`TcpFramingProofs` proves, for messages of any size, kernels that hold any
number of units and any number of messages, from `FramingAssumption` only:

| theorem | statement |
|---|---|
| `StreamInStep` | `Spec => []IInv` |
| `FramingTypeOK`, `DamageExplained` | `TypeOK`, `DamageHasACause` |
| `FramingKeepsPromises` | `Spec => Channel!Safety`: the initial states and steps of `TcpFraming` are those of `MessageChannel` |

The reader cuts the stream where it believes the messages to end, so the argument
is about the stream and not about the reader's state. What the pending read has
(`acc`) and what the kernels hold (`pipe`) are taken as one stretch of the
stream of all messages, which begins behind what was delivered; `Right(w, b, s)`
says that a stretch is what it should be up to place `w`. `PromiseInv` says that
it is right up to the last message that is promised, whatever was written behind
it; `SoundInv` that all of it is right as long as no write overlapped another and
no memory was reused; `QueueInv` that nothing waits before the first unfinished
write. Each step of the reader moves units from one part of the stretch to the
other, and each write adds to its end (`RightBefore`, `RightGrows` and `RightHead`).

`ClientLinkProofs` proves, for packets of any size and any number of buttons and
connections, from `SizeAssumption` and `BoundAssumption` (a length made of other
bytes asks for more than will come; the bounds are numbers):

| theorem | statement |
|---|---|
| `OrderlyShapes` | `Spec => []IInv` |
| `ClientTypeOK` | `TypeOK` |
| `PatienceSurvives`, `PatienceFrames`, `PatienceReadsOnce`, `PatienceKeepsSockets` | `OrderlyUseSurvives`, `OrderlyFraming`, `OrderlyReading`, `OrderlySockets` |
| `PatienceSameParameters` | `Spec => [](hasty \/ SameParameters)` |

None of the four `Orderly...` properties is inductive: each speaks of a moment, and what a pending read
or a waiting handler will do depends on the connection it was started on and on
what has been read there. `Orderly` says which few shapes an orderly client can
have: at most one handler of the chain of reads and one of a write wait
(`ReadyShape`); a resolve or a connect is alone (`ConnectInv`); a pending read is a
header at the start of a packet, a body behind its length, or a read of a
connection that was reset (`ReadsInv`); a handler that waits tells of such a read
(`ChainInv`); until the UDP socket listens the first chain runs alone
(`FreshInv`); and the UDP socket follows the TCP socket through the steps of both
threads (`UdpInv`). `UpInv`, which only `System` needs, says that nothing has
failed on a connection that is up, and that something leads to the UDP socket.
`hasty` never becomes false again, so each action is considered for an orderly
user only. `PatienceSameParameters` says of the property that `client-parameters`
refutes that only a user who does not wait can break it.

`SystemProofs` proves, for any number of connections, buttons, endpoints and
kills, from `SizesAssumption`, `BoundsAssumption` and `NoEndpointAssumption`, of
which the assumptions of the two ends are consequences (`ClientAssumptions`,
`ServerAssumptions`):

| theorem | statement |
|---|---|
| `SystemRunsClientLink` | `Spec => C!Spec`: the composition's client is `ClientLink` |
| `SystemInvariant` | `Spec => []SysInv` |
| `SystemTypeOK`, `ServerDiesOfEarlyLeaver`, `OrderlyClientsLive`, `OrderlyClientsListenInPlace` | `TypeOK`, `DiesOfEarlyLeaver`, `OrderlyClientLives`, `ListensWhereRegistered` |
| `OrderlyRemoval` | the action property `RemovedWhenAllRead` |
| `SystemKeepsDirectory` | `Spec => Directory!Init /\ [][Directory!Next \/ Kill \/ Restart]_(Directory!vars)`, `Directory` being that of the server |

The two proof modules are instantiated (`CP`, `SP`) and their invariants used as
they are: a step of the system is a step of `ClientLink` or leaves the client
alone, and a step of `SessionServer` but for `Kill` and `Restart` (`ServerInv`
asks the server's invariant of a server that was not killed, and `Restart` sets
it up anew). `Between` is what neither end knows: sockets are opened in turn and
nothing arrives before it was sent (`CountInv`); only the newest connection can
be open at the server (`OneOpen`); a reset comes of a connection left early
(`ResetInv`); what arrives was written by a session in the tables
(`GreetedInv`); without a kill an orderly user's connection fails at neither end
(`LiveInv`); and all that such a user has sent is at the server but for the one
write that is pending (`SentInv`).

`SystemKeepsDirectory` says what is left of the server's abstract specification
when its environment is not a free choice any more and its process may be killed:
each step is a step of `ClientDirectory`, a kill or a restart.

Model-checked only:

* `DepartureNoticed` (`server-live`), but for the induction it is
  `DepartureAdvances`; `BacklogServed` and `BroadcastReachesAll` are proved but
  for the enabledness of one action, see above;
* `LoneImagesAreSeen` (`relay-odd`), `OrderlyDeparture` and `ConnectedIsServed`
  (`system-patient`), `WritesEnd` and the fairness part of `ImplementsChannel`
  (`tcp-framing`): each is a chain of many steps under fairness, whose length
  depends on the packets, connections or units there are, hence an induction over
  data with the enabledness of several actions in each step;
* that the rows of `crc.dat` are those of the polynomial (`TableOfPolynomial`),
  an assumption that TLC evaluates.

## 5. What is not modelled

* QCustomPlot: vendored, never created, and more than nineteen lines in twenty
  of the repository; the logger, which only prints; the layout of the window.
* `close` of the managers: it runs in the destructor, when the event loop has
  ended. What is left of it, the end of the process, is `System!Kill`.
* A wrap of the 32-bit id counter (excluded by `IdAssumption`); a length so large
  that `resize` throws.
* Errors of an open UDP socket; an `async_send_to` that completes late and reads
  a buffer that no longer exists; two threads inside one socket at the same
  moment; the exceptions of `slotSend` and `showImage` when there is no screen
  to capture; two clients on one host whose UDP sockets share an address through
  `reuse_address`.
* `UnixCreator`: its branch in `main` cannot run (`argv[0]` is not null).

## 6. Plan

Done: `ClientDirectory`, `SessionServer`, `Fragments`, `ImageRelay`,
`ClientLink`, `System`, `MessageChannel`, `TcpFraming`, `Codec`, `Wire`, `Crc`,
and proofs about each.

Every invariant and action property of the passing runs has its theorem, and of
the seven leads-to properties two are proved but for the enabledness of an action.
What is left is beyond the proof system (section 4) or listed in section 5.
