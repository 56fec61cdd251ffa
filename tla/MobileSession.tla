--------------------------- MODULE MobileSession ---------------------------
(***************************************************************************)
(* Sessions of the Android app: SessionController.kt and the connections   *)
(* of transport/: USB serial, Bluetooth SPP and BLE, UDP, TCP client with  *)
(* and without automatic reconnection, TCP server.                         *)
(*                                                                         *)
(* Calls of connect, disconnect and send are coroutines that wait for      *)
(* operationLock in the order of their calls; connect and disconnect draw  *)
(* the next generation before they wait.  A connection reports bytes, its  *)
(* end and its status from threads of its own, possibly while connect has  *)
(* not returned, or long after the connection was replaced.                *)
(*                                                                         *)
(* A call of connect, the connection it opens and the callbacks bound to   *)
(* it are all named by the generation the call drew (token).               *)
(***************************************************************************)
EXTENDS Integers, Sequences, FiniteSets

CONSTANTS
  Kinds,               \* kinds of connections the user may open
  Senders,             \* coroutines of send
  MaxGeneration        \* bound: calls of connect and disconnect

AllKinds == {"usb", "spp", "ble", "udp", "tcp", "tcpReconnect", "tcpServer"}

ASSUME MobileAssumption ==
  /\ Kinds \subseteq AllKinds
  /\ MaxGeneration \in Nat \ {0}
  /\ Senders \cap Int = {}

Tokens == 1 .. MaxGeneration
Ops == Tokens \cup Senders

VARIABLES
  generation,          \* SessionController.generation
  queue,               \* operationLock: its holder and those who wait
  connection,          \* the token of the connection, 0 is null; also
                       \* connectionGeneration, assigned together with it
  state,               \* mutableState: [name, of], of is a token
  op,                  \* the calls: [pc, call, kind, target]
  conn,                \* the connections, see NoConn
  shown                \* history: the packets given to onPacket, with their
                       \* connection and the state on show

vars == <<generation, queue, connection, state, op, conn, shown>>

\* closed, main and server are the AtomicBoolean, the socket (port, gatt) that
\* close() reaches and the ServerSocket; fresh is a socket only the reader knows.
\* early and status are closedDuringOpen and pendingStatus of the connect call.
NoConn == [kind |-> "none", closed |-> FALSE, main |-> "none", server |-> "none",
           fresh |-> "none", reader |-> "ended", receiver |-> "off",
           cancelled |-> FALSE, early |-> FALSE, status |-> "none"]
NoOp == [pc |-> "idle", call |-> "none", kind |-> "none", target |-> 0]

Show(name, of) == [name |-> name, of |-> of]
\* A packet of a connection reaches the capture while the window shows `state'.
Packet(c) == [of |-> c, during |-> state]

Init ==
  /\ generation = 0
  /\ queue = <<>>
  /\ connection = 0
  /\ state = Show("Disconnected", 0)
  /\ op = [o \in Ops |-> NoOp]
  /\ conn = [c \in Tokens |-> NoConn]
  /\ shown = {}

---------------------------------------------------------------------------
(* Calls *)

Holds(o, pc) == queue # <<>> /\ Head(queue) = o /\ op[o].pc = pc

Goto(o, pc) == op' = [op EXCEPT ![o].pc = pc]
\* The call has connection c in its hands, or none.
Aim(o, c, pc) == op' = [op EXCEPT ![o].target = c, ![o].pc = pc]

\* The call returns: withLock releases operationLock.
Return(o) == /\ queue' = Tail(queue)
             /\ op' = [op EXCEPT ![o] = [NoOp EXCEPT !.pc = IF o \in Tokens THEN "returned"
                                                           ELSE "idle"]]

Call(call, kind) ==
  /\ generation < MaxGeneration
  /\ generation' = generation + 1
  /\ op' = [op EXCEPT ![generation + 1] = [pc |-> "wait", call |-> call,
                                           kind |-> kind, target |-> 0]]
  /\ queue' = Append(queue, generation + 1)
  /\ UNCHANGED <<connection, state, conn, shown>>

CallConnect == \E k \in Kinds : Call("connect", k)
CallDisconnect == Call("disconnect", "none")

CallSend(s) ==
  /\ op[s].pc = "idle"
  /\ op' = [op EXCEPT ![s] = [NoOp EXCEPT !.pc = "wait", !.call = "send"]]
  /\ queue' = Append(queue, s)
  /\ UNCHANGED <<generation, connection, state, conn, shown>>

ConnectClosesLater(o) ==   \* mutant: the new connection is opened first
  /\ Holds(o, "wait") /\ op[o].call = "connect"
  /\ connection' = 0
  /\ Aim(o, connection, "check")
  /\ UNCHANGED <<generation, queue, state, conn, shown>>

\* connect has the lock and takes the old connection.
ConnectTakes(o) ==
  /\ Holds(o, "wait") /\ op[o].call = "connect"
  /\ connection' = 0
  /\ Aim(o, connection, IF connection = 0 THEN "check" ELSE "close")
  /\ UNCHANGED <<generation, queue, state, conn, shown>>

DisconnectTakes(o) ==
  /\ Holds(o, "wait") /\ op[o].call = "disconnect"
  /\ connection' = 0
  /\ state' = Show("Disconnected", o)
  /\ IF connection = 0 THEN Return(o)
     ELSE /\ Aim(o, connection, "close")
          /\ UNCHANGED queue
  /\ UNCHANGED <<generation, conn, shown>>

\* generation.get() != token: a later call has replaced this one.
Superseded(o) ==
  /\ Holds(o, "check")
  /\ generation # o
  /\ Return(o)
  /\ UNCHANGED <<generation, connection, state, conn, shown>>

StillWanted(o) ==
  /\ Holds(o, "check")
  /\ generation = o
  /\ Goto(o, "announce")
  /\ UNCHANGED <<generation, queue, connection, state, conn, shown>>

\* The state changes whether or not the call has been replaced meanwhile.
Announce(o) ==
  /\ Holds(o, "announce")
  /\ state' = Show("Connecting", o)
  /\ Goto(o, "open")
  /\ UNCHANGED <<generation, queue, connection, conn, shown>>

\* factory.open returns; what reads the connection runs already.
Opened(k) ==
  [NoConn EXCEPT !.kind = k,
                 !.main = IF k = "tcpServer" THEN "none" ELSE "open",
                 !.server = IF k = "tcpServer" THEN "open" ELSE "none",
                 !.reader = IF k = "tcpServer" THEN "accept" ELSE "read",
                 !.receiver = IF k = "usb" THEN "on" ELSE "off"]

OpenSucceeds(o) ==
  /\ Holds(o, "open")
  /\ conn' = [conn EXCEPT ![o] = Opened(op[o].kind)]
  /\ Goto(o, "opened")
  /\ UNCHANGED <<generation, queue, connection, state, shown>>

\* What an opening that fails leaves: the socket that was made before its address
\* was bound or looked up, or the gatt that was given up.
Left(k) ==
  [NoConn EXCEPT !.kind = k,
                 !.main = CASE k = "udp" -> "open" [] k = "ble" -> "closed" [] OTHER -> "none",
                 !.server = IF k = "tcpServer" THEN "open" ELSE "none"]
NeverOpened(r) == r.kind \in {"ble", "udp", "tcpServer"} /\ ~r.closed /\ r.reader = "ended"

\* Nobody closes the socket of a UDP connection or a TCP server that was made.
OpenFails(o) ==
  /\ Holds(o, "open")
  /\ \/ conn' = conn
     \/ /\ op[o].kind \in {"udp", "tcpServer"}
        /\ conn' = [conn EXCEPT ![o] = Left(op[o].kind)]
  /\ state' = IF generation = o THEN Show("Failed", o) ELSE state
  /\ Return(o)
  /\ UNCHANGED <<generation, connection, shown>>

\* withTimeout throws a CancellationException, which connect takes for its own
\* cancellation and throws on.
OpenTimesOut(o) ==
  /\ Holds(o, "open") /\ op[o].kind = "ble"
  /\ conn' = [conn EXCEPT ![o] = Left("ble")]
  /\ Return(o)
  /\ UNCHANGED <<generation, connection, state, shown>>

AcceptEnded(o) ==      \* mutant: closedDuringOpen is not asked
  /\ Holds(o, "opened")
  /\ IF generation = o
     THEN connection' = o /\ state' = Show("Connected", o) /\ Return(o)
     ELSE /\ Aim(o, o, "close")
          /\ UNCHANGED <<queue, connection, state>>
  /\ UNCHANGED <<generation, conn, shown>>

AcceptForgets(o) ==    \* mutant: a connection that is not wanted is not closed
  /\ Holds(o, "opened")
  /\ IF generation = o /\ ~conn[o].early
     THEN connection' = o /\ state' = Show("Connected", o)
     ELSE UNCHANGED <<connection, state>>
  /\ Return(o)
  /\ UNCHANGED <<generation, conn, shown>>

Accept(o) ==
  /\ Holds(o, "opened")
  /\ IF generation = o /\ ~conn[o].early
     THEN /\ connection' = o
          /\ state' = Show(IF conn[o].status = "Reconnecting" THEN "Reconnecting"
                           ELSE "Connected", o)
          /\ Return(o)
     ELSE /\ Aim(o, o, "close")
          /\ UNCHANGED <<queue, connection, state>>
  /\ UNCHANGED <<generation, conn, shown>>

---------------------------------------------------------------------------
(* Connection.close of the connection a call has taken or opened *)

Target(o) == op[o].target
\* A connection that has run is closed next to its reader; BLE has none.
Joins(k) == k # "ble"

\* closed is set.  The connections that report their end here do so to a
\* callback whose generation is over, or of which `closed' was set before.
CloseMarks(o) ==
  /\ Holds(o, "close")
  /\ conn' = [conn EXCEPT ![Target(o)].closed = TRUE]
  /\ Goto(o, "shut")
  /\ UNCHANGED <<generation, queue, connection, state, shown>>

Shut(handle) == IF handle = "open" THEN "closed" ELSE handle
\* A receiver that runs already goes on.
Unregister(receiver) == IF receiver = "on" THEN "off" ELSE receiver
ShutAll(r) == [r EXCEPT !.main = Shut(@), !.server = Shut(@), !.receiver = Unregister(@)]

\* What the call does after close(): connect goes on if it has closed the
\* connection before its own, and returns if it has closed what it opened.
AfterClose(o) ==
  IF op[o].call = "connect" /\ Target(o) # o
  THEN Aim(o, 0, "check") /\ UNCHANGED queue
  ELSE Return(o)

CloseShutsFirst(o) ==  \* mutant: close() does not know a redialled socket
  /\ Holds(o, "shut")
  /\ conn' = [conn EXCEPT ![Target(o)] =
                IF @.kind = "tcpReconnect" THEN @ ELSE ShutAll(@)]
  /\ IF Joins(conn[Target(o)].kind) THEN Goto(o, "cancel") /\ UNCHANGED queue
     ELSE AfterClose(o)
  /\ UNCHANGED <<generation, connection, state, shown>>

CloseShuts(o) ==
  /\ Holds(o, "shut")
  /\ conn' = [conn EXCEPT ![Target(o)] = ShutAll(@)]
  /\ IF Joins(conn[Target(o)].kind) THEN Goto(o, "cancel") /\ UNCHANGED queue
     ELSE AfterClose(o)
  /\ UNCHANGED <<generation, connection, state, shown>>

\* socket.close throws: connect gives up, the reader is not waited for.
CloseThrows(o) ==
  /\ Holds(o, "shut")
  /\ conn[Target(o)].kind = "spp"
  /\ op[o].call = "connect"
  /\ conn' = [conn EXCEPT ![Target(o)].main = Shut(@)]
  /\ state' = IF generation = o THEN Show("Failed", o) ELSE state
  /\ Return(o)
  /\ UNCHANGED <<generation, connection, shown>>

\* cancelAndJoin: first of acceptJob, then of the reader it may have started.
CloseCancels(o) ==
  /\ Holds(o, "cancel")
  /\ conn[Target(o)].reader \notin {"accept", "accepted"}
  /\ conn' = [conn EXCEPT ![Target(o)].cancelled = TRUE]
  /\ Goto(o, "join")
  /\ UNCHANGED <<generation, queue, connection, state, shown>>

CloseJoins(o) ==
  /\ Holds(o, "join")
  /\ conn[Target(o)].reader = "ended"
  /\ AfterClose(o)
  /\ UNCHANGED <<generation, connection, state, conn, shown>>

---------------------------------------------------------------------------
(* send *)

SendTakes(s) ==
  /\ Holds(s, "wait") /\ s \in Senders
  /\ IF connection = 0 \/ connection # generation THEN Return(s)
     ELSE /\ Aim(s, connection, "write")
          /\ UNCHANGED queue
  /\ UNCHANGED <<generation, connection, state, conn, shown>>

\* Writes to USB, BLE and UDP have a limit or do not wait; a stream waits for
\* its peer to read.
Bounded(k) == k \in {"usb", "ble", "udp"}

Written(s) ==
  /\ Holds(s, "write")
  /\ conn[Target(s)].main = "open"
  /\ Goto(s, "record")
  /\ UNCHANGED <<generation, queue, connection, state, conn, shown>>

WriteFails(s) ==
  /\ Holds(s, "write")
  /\ Return(s)
  /\ UNCHANGED <<generation, connection, state, conn, shown>>

RecordSent(s) ==
  /\ Holds(s, "record")
  /\ shown' = IF generation = Target(s) /\ connection = Target(s)
              THEN shown \cup {Packet(Target(s))} ELSE shown
  /\ Return(s)
  /\ UNCHANGED <<generation, connection, state, conn>>

---------------------------------------------------------------------------
(* Callbacks, each under stateLock *)

OnBytesEarly(c) ==     \* mutant: bytes of a connection not yet accepted
  /\ conn[c].reader = "read" /\ conn[c].main = "open"
  /\ shown' = IF generation = c THEN shown \cup {Packet(c)} ELSE shown
  /\ UNCHANGED <<generation, queue, connection, state, op, conn>>

OnBytes(c) ==
  /\ conn[c].reader = "read" /\ conn[c].main = "open"
  /\ conn[c].kind = "ble" => ~conn[c].closed
  /\ shown' = IF generation = c /\ connection = c
              THEN shown \cup {Packet(c)} ELSE shown
  /\ UNCHANGED <<generation, queue, connection, state, op, conn>>

\* onClosed, and what becomes of the connection's own state.
OnClosed(c, after) ==
  IF generation = c
  THEN /\ conn' = [conn EXCEPT ![c] = [after EXCEPT !.early = @ \/ connection = 0]]
       /\ connection' = 0
       /\ \E name \in {"Failed", "Disconnected"} : state' = Show(name, c)
  ELSE /\ conn' = [conn EXCEPT ![c] = after]
       /\ UNCHANGED <<connection, state>>

OnStatus(c, name, after) ==
  IF generation = c /\ connection = c
  THEN /\ state' = Show(name, c)
       /\ conn' = [conn EXCEPT ![c] = after]
  ELSE /\ conn' = [conn EXCEPT ![c] = [after EXCEPT !.status =
                                         IF generation = c THEN name ELSE @]]
       /\ UNCHANGED state

---------------------------------------------------------------------------
(* Readers *)

Reader(c, from, to) ==
  /\ conn[c].reader = from
  /\ conn' = [conn EXCEPT ![c].reader = to]
  /\ UNCHANGED <<generation, queue, connection, state, op, shown>>

\* read returns without bytes: the socket was closed here, or by the peer, or
\* failed; a USB read has a limit, after which the loop sees that it is over.
ReadEnds(c) ==
  /\ conn[c].kind \in {"usb", "spp", "udp", "tcp", "tcpServer"}
  /\ Reader(c, "read", "final")

\* The loop of a UDP reader may also end after a datagram, without cleaning up.
UdpLoopEnds(c) ==
  /\ conn[c].kind = "udp" /\ conn[c].cancelled
  /\ Reader(c, "read", "ended")

FinalCloses(c) ==
  /\ conn[c].reader = "final"
  /\ conn' = [conn EXCEPT ![c] = [ShutAll(@) EXCEPT !.reader = "notify"]]
  /\ UNCHANGED <<generation, queue, connection, state, op, shown>>

\* closed.compareAndSet
FinalMarks(c) ==
  /\ conn[c].reader = "notify"
  /\ conn' = [conn EXCEPT ![c] = [@ EXCEPT !.closed = TRUE,
                                           !.reader = IF conn[c].closed THEN "ended" ELSE "callback"]]
  /\ UNCHANGED <<generation, queue, connection, state, op, shown>>

FinalReports(c) ==
  /\ conn[c].reader = "callback"
  /\ OnClosed(c, [conn[c] EXCEPT !.reader = "ended"])
  /\ UNCHANGED <<generation, queue, op, shown>>

\* A BLE link ends: nothing closes the gatt but close().
BleDrops(c) ==
  /\ conn[c].kind = "ble" /\ conn[c].reader = "read" /\ ~conn[c].closed
  /\ conn' = [conn EXCEPT ![c] = [@ EXCEPT !.closed = TRUE, !.reader = "callback"]]
  /\ UNCHANGED <<generation, queue, connection, state, op, shown>>

\* detachReceiver: the device is unplugged.
UsbDetached(c) ==
  /\ conn[c].receiver = "on" /\ ~conn[c].closed
  /\ conn' = [conn EXCEPT ![c] = [@ EXCEPT !.closed = TRUE, !.main = Shut(conn[c].main),
                                           !.receiver = "callback"]]
  /\ UNCHANGED <<generation, queue, connection, state, op, shown>>

UsbReports(c) ==
  /\ conn[c].receiver = "callback"
  /\ OnClosed(c, [conn[c] EXCEPT !.receiver = "off"])
  /\ UNCHANGED <<generation, queue, op, shown>>

\* The accept job of a TCP server.
ServerAccepts(c) ==
  /\ conn[c].reader = "accept" /\ conn[c].server = "open"
  /\ conn' = [conn EXCEPT ![c] = [@ EXCEPT !.fresh = "open", !.reader = "accepted"]]
  /\ UNCHANGED <<generation, queue, connection, state, op, shown>>

ServerFails(c) == Reader(c, "accept", "final")

\* attach: close() reaches the socket, and the reader is launched; it never
\* runs if it is cancelled before.
ServerAttaches(c) ==
  /\ conn[c].reader = "accepted"
  /\ conn' = [conn EXCEPT ![c] = [@ EXCEPT !.main = conn[c].fresh, !.fresh = "none",
                                           !.reader = "launched"]]
  /\ UNCHANGED <<generation, queue, connection, state, op, shown>>

ReaderStarts(c) == ~conn[c].cancelled /\ Reader(c, "launched", "read")
ReaderNeverRuns(c) == conn[c].cancelled /\ Reader(c, "launched", "ended")

---------------------------------------------------------------------------
(* The reader of a TCP client that reconnects *)

Over(c) == conn[c].closed \/ conn[c].cancelled

\* The read fails; the catch block closes the socket.
LinkLost(c) ==
  /\ conn[c].kind = "tcpReconnect" /\ conn[c].reader = "read"
  /\ conn' = [conn EXCEPT ![c] = [@ EXCEPT !.main = Shut(conn[c].main),
                                           !.reader = IF Over(c) THEN "notify" ELSE "lost"]]
  /\ UNCHANGED <<generation, queue, connection, state, op, shown>>

\* The loop condition fails; nothing is closed.
LoopEnds(c) == Over(c) /\ \E from \in {"loop", "retry"} : Reader(c, from, "notify")
LoopGoesOn(c) == ~Over(c) /\ Reader(c, "loop", "read")

\* The same after bytes have come.
LoopEndsAfterBytes(c) ==
  /\ conn[c].kind = "tcpReconnect" /\ Over(c)
  /\ Reader(c, "read", "notify")

ReportsLoss(c) ==
  /\ conn[c].reader = "lost"
  /\ OnStatus(c, "Reconnecting", [conn[c] EXCEPT !.reader = "retry"])
  /\ UNCHANGED <<generation, queue, connection, op, shown>>

\* A failed attempt waits and tries again: no change.
Redials(c) ==
  /\ conn[c].reader = "retry" /\ ~Over(c)
  /\ conn' = [conn EXCEPT ![c] = [@ EXCEPT !.fresh = "open", !.reader = "dialed"]]
  /\ UNCHANGED <<generation, queue, connection, state, op, shown>>

DropsRedialed(c) ==
  /\ conn[c].reader = "dialed" /\ Over(c)
  /\ conn' = [conn EXCEPT ![c] = [@ EXCEPT !.fresh = "none", !.reader = "notify"]]
  /\ UNCHANGED <<generation, queue, connection, state, op, shown>>

KeepsRedialed(c) == ~Over(c) /\ Reader(c, "dialed", "adopt")

\* activeClient.set
Adopts(c) ==
  /\ conn[c].reader = "adopt"
  /\ conn' = [conn EXCEPT ![c] = [@ EXCEPT !.main = conn[c].fresh, !.fresh = "none",
                                           !.reader = "regained"]]
  /\ UNCHANGED <<generation, queue, connection, state, op, shown>>

ReportsRegained(c) ==
  /\ conn[c].reader = "regained"
  /\ OnStatus(c, "Connected", [conn[c] EXCEPT !.reader = "loop"])
  /\ UNCHANGED <<generation, queue, connection, op, shown>>

---------------------------------------------------------------------------
OpStep(o) ==
  \/ Superseded(o) \/ StillWanted(o) \/ Announce(o)
  \/ OpenSucceeds(o) \/ OpenFails(o) \/ OpenTimesOut(o) \/ Accept(o)
  \/ ConnectTakes(o) \/ DisconnectTakes(o)
  \/ CloseMarks(o) \/ CloseShuts(o) \/ CloseThrows(o) \/ CloseCancels(o) \/ CloseJoins(o)

SendStep(s) == SendTakes(s) \/ Written(s) \/ WriteFails(s) \/ RecordSent(s)

\* Steps of the reader that do not depend on the peer.
ReaderStep(c) ==
  \/ FinalCloses(c) \/ FinalMarks(c) \/ FinalReports(c) \/ UsbReports(c)
  \/ ServerAttaches(c) \/ ReaderStarts(c) \/ ReaderNeverRuns(c)
  \/ LoopEnds(c) \/ LoopGoesOn(c) \/ ReportsLoss(c) \/ DropsRedialed(c) \/ KeepsRedialed(c)
  \/ Adopts(c) \/ ReportsRegained(c)

PeerStep(c) ==
  \/ OnBytes(c) \/ ReadEnds(c) \/ UdpLoopEnds(c) \/ BleDrops(c) \/ UsbDetached(c)
  \/ ServerAccepts(c) \/ ServerFails(c) \/ LinkLost(c) \/ Redials(c) \/ LoopEndsAfterBytes(c)

Next ==
  \/ CallConnect \/ CallDisconnect
  \/ \E s \in Senders : CallSend(s) \/ SendStep(s)
  \/ \E o \in Tokens : OpStep(o)
  \/ \E c \in Tokens : ReaderStep(c) \/ PeerStep(c)

\* Coroutines go on; opening and USB, BLE and UDP writes have time limits, but for
\* the user who is asked for the permission to use a USB device.  A read of a
\* closed socket returns, that of a USB port always does in the end, and a write
\* to a socket that is closed fails, even if another is dialled at once.  Nothing
\* is assumed of the peer.
AsksUser(o) == op[o].pc = "open" /\ op[o].kind = "usb"
Proceeds(o) == ~AsksUser(o) /\ OpStep(o)
Returns(c) == /\ conn[c].main # "open" \/ (conn[c].kind = "usb" /\ Over(c))
              /\ ReadEnds(c) \/ LinkLost(c)
AcceptReturns(c) == conn[c].server # "open" /\ ServerFails(c)
Blocks(s) == /\ op[s].pc = "write" /\ conn[Target(s)].main = "open"
             /\ ~Bounded(conn[Target(s)].kind)
BoundedWrite(s) == ~Blocks(s) /\ SendStep(s)

Fairness ==
  /\ \A o \in Tokens : WF_vars(Proceeds(o))
  /\ \A s \in Senders : SF_vars(BoundedWrite(s))
  /\ \A c \in Tokens : /\ WF_vars(ReaderStep(c))
                       /\ WF_vars(Returns(c))
                       /\ WF_vars(AcceptReturns(c))

Spec == Init /\ [][Next]_vars /\ Fairness

---------------------------------------------------------------------------
(* Properties *)

CallType ==
  [pc : {"idle", "wait", "check", "announce", "open", "opened", "close",
         "shut", "cancel", "join", "write", "record", "returned"},
   call : {"none", "connect", "disconnect", "send"},
   kind : Kinds \cup {"none"},
   target : 0 .. MaxGeneration]

Handle == {"none", "open", "closed"}
Fresh == {"none", "open"}
Receiver == {"off", "on", "callback"}
Status == {"none", "Reconnecting", "Connected"}
ReaderAt == {"ended", "read", "final", "notify", "callback", "accept", "accepted",
             "launched", "lost", "retry", "dialed", "adopt", "regained", "loop"}

ConnType ==
  [kind : Kinds \cup {"none"}, closed : BOOLEAN, main : Handle, server : Handle,
   fresh : Fresh, reader : ReaderAt, receiver : Receiver,
   cancelled : BOOLEAN, early : BOOLEAN, status : Status]

TypeOK ==
  /\ generation \in 0 .. MaxGeneration
  /\ queue \in Seq(Ops)
  /\ connection \in 0 .. MaxGeneration
  /\ state \in [name : {"Disconnected", "Connecting", "Connected", "Reconnecting", "Failed"},
                of : 0 .. MaxGeneration]
  /\ op \in [Ops -> CallType]
  /\ conn \in [Tokens -> ConnType]

EndedSilently(c) ==
  conn[c].closed /\ conn[c].reader # "callback" /\ conn[c].receiver # "callback"

\* The last opening was that of a BLE link which did not come about in time.
TimedOut == generation # 0 /\ conn[generation].kind = "ble" /\ NeverOpened(conn[generation])

\* When no call is under way the window tells the truth: it shows a connected
\* or reconnecting session exactly if there is a connection, that one, and its
\* end is not yet known or about to be reported.  A connection that ends while
\* it is opened, or after it was replaced, must not leave "Connected" or
\* "Connecting" behind; only a BLE opening that timed out does, until the next
\* call: SessionController.connect.
QuietStateIsTrue ==
  queue = <<>> =>
    IF connection = 0
    THEN \/ state.name \in {"Disconnected", "Failed"}
         \/ TimedOut /\ state = Show("Connecting", generation)
    ELSE /\ state.name \in {"Connected", "Reconnecting"}
         /\ state.of = connection /\ connection = generation
         /\ ~EndedSilently(connection)

\* A packet reaches the capture only while the window shows the session it
\* belongs to, never while another is being opened or after a disconnect took
\* effect: the callbacks of connect and the end of send.
PacketsBelongToTheSessionShown ==
  \A p \in shown : p.during.of = p.of /\ p.during.name \in {"Connected", "Reconnecting"}

Open(c) == "open" \in {conn[c].main, conn[c].server, conn[c].fresh}

\* Somebody will close what c has open: the user, a call, or its reader.
Owned(c) ==
  \/ connection = c
  \/ \E o \in Tokens : op[o].target = c \/ (o = c /\ op[o].pc = "opened")
  \/ conn[c].reader \in {"final", "dialed"}

\* The handles the code does lose: the gatt of a BLE link that ended by itself, a
\* socket accepted or redialled while close() runs, and the socket of an opening
\* that failed, which has no address.
Lost(c) == \/ conn[c].closed /\ conn[c].kind \in {"ble", "tcpServer", "tcpReconnect"}
           \/ NeverOpened(conn[c])

\* No socket, port or server is forgotten, whichever of the user, a connection
\* that fails and a replacement comes first: onClosed drops the controller's
\* reference without closing, so the connection must have closed itself.
NoHandleLeaks == \A c \in Tokens : Open(c) => Owned(c) \/ Lost(c)

\* At most one connection is open at a time, so the replacement can open the
\* same device or bind the same port: connect closes the old one first.
OneLink ==
  \A c, d \in Tokens :
    c # d /\ Open(c) /\ Open(d) =>
      \/ ~Owned(c) /\ Lost(c)
      \/ ~Owned(d) /\ Lost(d)

\* A TCP server accepts while close() runs: the reader reads a socket that
\* close() has not seen.
AcceptedTooLate(o) ==
  op[o].pc = "join" /\ conn[Target(o)].kind = "tcpServer" /\ conn[Target(o)].main = "open"

\* connect and disconnect return, so that the user can go on: no connection
\* keeps its close() waiting for a reader, whatever its peer does, if only each
\* write to a stream ends that waits for the peer, the user answers the question
\* for a permission, and a peer that was accepted too late goes in the end.
CallsReturn ==
  /\ \A s \in Senders : []<>~Blocks(s)
  /\ \A o \in Tokens : []<>~AcceptedTooLate(o) /\ []<>~AsksUser(o)
  => \A o \in Tokens : op[o].pc = "wait" ~> op[o].pc = "returned"

=============================================================================
