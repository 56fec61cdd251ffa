--------------------------- MODULE PacketCapture ---------------------------
(***************************************************************************)
(* How packets travel through the engine (core/engine.go,                   *)
(* core/connections.go): from a reader or a caller of Send, over a socket,  *)
(* through the bridge, into the store, while the user replaces the session. *)
(*                                                                         *)
(* A thread is a goroutine that runs one call: an iteration of a reader's   *)
(* loop or a Send.  It is cut at every critical section of e.Lock, every    *)
(* call of the store and every write to a handle.  `EngineSession' has the  *)
(* life of a session in detail; here Disconnect and Connect are the few     *)
(* steps that packets can tell apart, and the session is named by its       *)
(* epoch.  A serial port or UDP socket is named by its session too; 0 is    *)
(* nil.  Contents are left out: what counts is which session's handle a     *)
(* packet passed, and which session it is filed under.                      *)
(***************************************************************************)
EXTENDS Integers, FiniteSets

CONSTANTS
    Threads,      \* goroutines that read or send at the same time
    Conns,        \* TCP connections, each accepted or dialled once
    Peers,        \* UDP addresses
    NoConn, NoPeer,
    Configs,      \* what the user may connect with
    MaxSession    \* bound on epoch

Modes == {"serial", "bridge", "tcp", "udp", "http"}

Config == [mode   : Modes,
           net    : {"none", "listener", "tcp", "udp"},
           dialed : BOOLEAN]     \* a UDP client, with its one target

\* What a mode may have on the network side.
NetOf == [serial |-> {"none"}, bridge |-> {"listener", "tcp", "udp"},
          tcp |-> {"listener", "tcp"}, udp |-> {"udp"}, http |-> {"none"}]

ASSUME CaptureAssumption ==
    /\ Configs \subseteq Config
    /\ \A cfg \in Configs : cfg.net \in NetOf[cfg.mode]
    /\ MaxSession \in Nat \ {0}
    /\ NoConn \notin Conns
    /\ NoPeer \notin Peers

VARIABLES
    epoch, life,            \* the session and how far Connect/Disconnect are
    mode, eng,              \* e.mode, the fields of a session
    peers,                  \* e.udpPeers: which call's session put an address there
    captureKey, sessionID,  \* Store
    born, closed, shut,     \* connections and sessions whose handles are closed
    asked,                  \* history: connections that sent a request
    th                      \* the calls in progress

session == <<epoch, life, mode, eng, captureKey, sessionID, shut>>
conns   == <<born, closed, asked>>
vars    == <<session, peers, conns, th>>

Sessions == 0..MaxSession

\* What Disconnect clears.
NoHandles == [port |-> 0, endpoint |-> 0, listener |-> 0, clients |-> {}, latest |-> NoConn,
              udp |-> 0, dialed |-> FALSE, udpPeer |-> NoPeer, http |-> 0, bridge |-> FALSE]

\* A call: its local variables, and as history the session in which it began
\* (from), the session whose handle carried the packet (of), the session it was
\* recorded in (row), and how many more packets it moved than it recorded (due).
Idle == [op |-> "none", at |-> "idle", via |-> "rx", e |-> 0, h |-> NoConn, peer |-> NoPeer,
         rest |-> {}, key |-> 0, label |-> 0, from |-> 0, of |-> 0, row |-> 0,
         bridge |-> FALSE, failed |-> FALSE, due |-> 0]

Init ==
    /\ epoch = 1 /\ life = "closed" /\ mode = "serial"
    /\ eng = NoHandles
    /\ peers = [p \in Peers |-> 0]
    /\ captureKey = 0 /\ sessionID = 0 /\ shut = 0
    /\ born = [c \in Conns |-> 0] /\ closed = {} /\ asked = {}
    /\ th = [t \in Threads |-> Idle]

-----------------------------------------------------------------------------
(* The session                                                               *)

\* Disconnect up to the end of its critical section.
Disconnect ==
    /\ life = "up" /\ epoch < MaxSession
    /\ epoch' = epoch + 1
    /\ eng' = NoHandles
    /\ peers' = [p \in Peers |-> 0]
    /\ life' = "down"
    /\ UNCHANGED <<mode, captureKey, sessionID, shut, conns, th>>

EndSession ==
    /\ life = "down"
    /\ sessionID' = 0 /\ life' = "ended"
    /\ UNCHANGED <<epoch, mode, eng, captureKey, shut, peers, conns, th>>

CloseHandles ==
    /\ life = "ended"
    /\ shut' = epoch - 1 /\ life' = "closed"
    /\ closed' = {c \in Conns : born[c] # 0}
    /\ UNCHANGED <<epoch, mode, eng, captureKey, sessionID, peers, born, asked, th>>

SetCaptureKey ==
    /\ life = "closed"
    /\ captureKey' = epoch /\ life' = "keyed"
    /\ UNCHANGED <<epoch, mode, eng, sessionID, shut, peers, conns, th>>

\* The critical section of Connect or connectHTTP, and for a UDP client the
\* udpPeerFor that follows it.
Install(cfg, c, p) ==
    /\ life = "keyed"
    /\ cfg.net = "tcp" => born[c] = 0
    /\ mode' = cfg.mode
    /\ eng' = [NoHandles EXCEPT
                 !.port     = IF cfg.mode \in {"serial", "bridge"} THEN epoch ELSE 0,
                 !.endpoint = IF cfg.mode \in {"serial", "bridge"} THEN epoch ELSE 0,
                 !.listener = IF cfg.net = "listener" THEN epoch ELSE 0,
                 !.clients  = IF cfg.net = "tcp" THEN {c} ELSE {},
                 !.udp      = IF cfg.net = "udp" THEN epoch ELSE 0,
                 !.dialed   = cfg.net = "udp" /\ cfg.dialed,
                 !.udpPeer  = IF cfg.net = "udp" /\ cfg.dialed THEN p ELSE NoPeer,
                 !.http     = IF cfg.mode = "http" THEN epoch ELSE 0,
                 !.bridge   = cfg.mode = "bridge"]
    /\ born' = IF cfg.net = "tcp" THEN [born EXCEPT ![c] = epoch] ELSE born
    /\ peers' = IF cfg.net = "udp" /\ cfg.dialed THEN [peers EXCEPT ![p] = epoch] ELSE peers
    /\ life' = "installed"
    /\ UNCHANGED <<epoch, captureKey, sessionID, shut, closed, asked, th>>

StartSession ==
    /\ life = "installed"
    /\ sessionID' = epoch /\ life' = "up"
    /\ UNCHANGED <<epoch, mode, eng, captureKey, shut, peers, conns, th>>

\* SetBridgeReplyLatest: the user may switch e.bridgeReplyLatest at any moment and
\* forwardNetwork alone reads it, so what it reads may be either.
BridgeReplyLatest == BOOLEAN

\* A bug: whoever connects counts as the one that asked last.
AcceptAsLatest(c) ==
    /\ life = "up" /\ eng.listener # 0 /\ born[c] = 0
    /\ born' = [born EXCEPT ![c] = epoch]
    /\ eng' = [eng EXCEPT !.clients = @ \cup {c}, !.latest = c]
    /\ UNCHANGED <<epoch, life, mode, captureKey, sessionID, shut, peers,
                   closed, asked, th>>

\* acceptLoop adds a client.
Accept(c) ==
    /\ life = "up" /\ eng.listener # 0 /\ born[c] = 0
    /\ born' = [born EXCEPT ![c] = epoch]
    /\ eng' = [eng EXCEPT !.clients = @ \cup {c}]
    /\ UNCHANGED <<epoch, life, mode, captureKey, sessionID, shut, peers,
                   closed, asked, th>>

\* The deferred function of readTCP: the connection is closed and forgotten.
Reading(c) == \E t \in Threads : th[t].op = "readTCP" /\ th[t].h = c

Leave(c) ==
    /\ c \in eng.clients /\ ~Reading(c)
    /\ closed' = closed \cup {c}
    /\ eng' = [eng EXCEPT !.clients = @ \ {c},
                          !.latest = IF @ = c THEN NoConn ELSE @]
    /\ UNCHANGED <<epoch, life, mode, captureKey, sessionID, shut, peers,
                   born, asked, th>>

SessionStep ==
    \/ Disconnect \/ EndSession \/ CloseHandles \/ SetCaptureKey \/ StartSession
    \/ \E cfg \in Configs, c \in Conns, p \in Peers : Install(cfg, c, p)
    \/ \E c \in Conns : Accept(c) \/ Leave(c)

-----------------------------------------------------------------------------
(* Calls                                                                     *)

At(t, step) == th[t].at = step
Set(t, r) == th' = [th EXCEPT ![t] = r]
Goto(t, step) == Set(t, [th[t] EXCEPT !.at = step])

OnlyThreads == UNCHANGED <<session, peers, conns>>

\* The call returns; what it still holds does not matter any more.
Done(r) == [Idle EXCEPT !.op = IF r.op = "send" THEN "send" ELSE "none",
                        !.at = "done", !.from = r.from, !.due = r.due]

Return(t) == Set(t, Done(th[t]))

\* A call that begins while the window is connected.
Begin(t, op, step) ==
    [Idle EXCEPT !.op = op, !.at = step, !.e = epoch, !.from = epoch, !.bridge = eng.bridge]

CanBegin(t) == At(t, "idle") /\ life = "up"

\* The packet has been moved over a handle of session s.
Moved(r, s) == [r EXCEPT !.of = s, !.due = @ + 1, !.row = 0]

\* A handle of session s takes a write: it may, until it is closed.
Takes(s) == s > shut

-----------------------------------------------------------------------------
(* Readers, from the critical section after Read to the bridge               *)

\* The session's own reader is in an iteration.
Iterating(op) == \E u \in Threads : th[u].op = op /\ th[u].from = epoch

ReadTCP(t, c) ==
    /\ CanBegin(t) /\ c \in eng.clients /\ ~Reading(c)
    /\ IF eng.bridge
         THEN eng' = [eng EXCEPT !.latest = c] /\ asked' = asked \cup {c}
         ELSE UNCHANGED <<eng, asked>>
    /\ Set(t, [Moved(Begin(t, "readTCP", "check"), epoch) EXCEPT
                   !.h = c, !.label = epoch, !.key = epoch])
    /\ UNCHANGED <<epoch, life, mode, captureKey, sessionID, shut, peers,
                   born, closed>>

ReadUDP(t, p) ==
    /\ CanBegin(t) /\ eng.udp = epoch
    /\ ~Iterating("readUDP")
    /\ eng.dialed => p = eng.udpPeer
    /\ eng' = [eng EXCEPT !.udpPeer = p]
    /\ Set(t, [Moved(Begin(t, "readUDP", "peer"), epoch) EXCEPT
                   !.peer = p, !.label = epoch, !.key = epoch])
    /\ UNCHANGED <<epoch, life, mode, captureKey, sessionID, shut, peers, conns>>

ReadSerial(t) ==
    /\ CanBegin(t) /\ eng.port = epoch
    /\ ~Iterating("readSerial")
    /\ Set(t, [Moved(Begin(t, "readSerial", "label"), epoch) EXCEPT !.key = epoch])
    /\ OnlyThreads

\* readSerial and readUDP end on an error.  While their session lasts they take the
\* handle away from the engine and leave everything else as it is, the rest of the
\* session goes on without it until the user ends it.
LoseSerial ==
    /\ life = "up" /\ eng.port = epoch /\ ~Iterating("readSerial")
    /\ eng' = [eng EXCEPT !.port = 0]
    /\ UNCHANGED <<epoch, life, mode, captureKey, sessionID, shut, peers,
                   conns, th>>

\* The port is closed by the reader's deferred call, the socket by nobody.
LoseUDP ==
    /\ life = "up" /\ eng.udp = epoch /\ ~Iterating("readUDP")
    /\ eng' = [eng EXCEPT !.udp = 0, !.udpPeer = NoPeer, !.dialed = FALSE]
    /\ UNCHANGED <<epoch, life, mode, captureKey, sessionID, shut, peers, conns, th>>

\* udpPeerFor: an address already there stays as it is.
NotePeer(t) ==
    /\ At(t, "peer")
    /\ peers' = [peers EXCEPT ![th[t].peer] = IF @ = 0 THEN th[t].from ELSE @]
    /\ Goto(t, CASE th[t].op = "readUDP" /\ th[t].via = "rx" -> "check"
                 [] th[t].op = "readUDP" /\ th[t].via = "bridge" -> "label"
                 [] OTHER -> "new")
    /\ UNCHANGED <<session, conns>>

\* serialAddress, for a packet that passed the serial port.
SerialLabel(t) ==
    /\ At(t, "label")
    /\ Set(t, [th[t] EXCEPT !.label = eng.endpoint,
                              !.at = IF th[t].via = "rx" THEN "check" ELSE "active"])
    /\ OnlyThreads

\* receivePacket: the epoch of the reader is still the engine's.
CheckEpoch(t) ==
    /\ At(t, "check")
    /\ Goto(t, IF epoch = th[t].key THEN "active" ELSE "after")
    /\ OnlyThreads

\* emitPacket looks again ...
EmitPacket(t) ==
    /\ At(t, "active")
    /\ Goto(t, IF epoch = th[t].key THEN "store" ELSE "after")
    /\ OnlyThreads

\* A bug: the store does not compare the key.
RecordUnkeyed(t) ==
    /\ At(t, "store")
    /\ LET ok == sessionID # 0
       IN Set(t, [th[t] EXCEPT !.row = IF ok THEN sessionID ELSE 0,
                                 !.due = IF ok THEN @ - 1 ELSE @, !.at = "after"])
    /\ OnlyThreads

\* ... and calls Store.Record and the callbacks.
Record(t) ==
    /\ At(t, "store")
    /\ LET ok == sessionID # 0 /\ th[t].key = captureKey
       IN Set(t, [th[t] EXCEPT !.row = IF ok THEN sessionID ELSE 0,
                                 !.due = IF ok THEN @ - 1 ELSE @, !.at = "after"])
    /\ OnlyThreads

\* What a call does when its packet is recorded.  The reader remembers from its
\* critical section whether it bridges.
Continue(r) ==
    CASE r.via = "rx" /\ r.bridge -> IF r.op = "readSerial" THEN "toNet" ELSE "toSerial"
      [] r.via = "broadcast"                 -> "each"
      [] r.op = "http" /\ r.via = "sent"     -> "response"
      [] OTHER                               -> "done"

AfterRecord(t) ==
    /\ At(t, "after")
    /\ Set(t, IF Continue(th[t]) = "done" THEN Done(th[t])
              ELSE [th[t] EXCEPT !.at = Continue(th[t]), !.key = 0, !.label = 0, !.row = 0,
                                 !.h = IF th[t].via = "broadcast" THEN NoConn ELSE @])
    /\ OnlyThreads

Finish(t) ==
    /\ At(t, "done")
    /\ Set(t, Idle)
    /\ OnlyThreads

ReaderStep(t) ==
    \/ \E c \in Conns : ReadTCP(t, c)
    \/ \E p \in Peers : ReadUDP(t, p)
    \/ ReadSerial(t) \/ NotePeer(t) \/ SerialLabel(t) \/ CheckEpoch(t) \/ EmitPacket(t)
    \/ Record(t) \/ AfterRecord(t) \/ Finish(t)

-----------------------------------------------------------------------------
(* Writes                                                                    *)

\* A bug: any port will do.
CheckAnyPort(t) ==
    /\ At(t, "toSerial")
    /\ ~\E u \in Threads : At(u, "portWrite")
    /\ IF eng.port # 0
         THEN Set(t, [th[t] EXCEPT !.of = eng.port, !.at = "portWrite"]) ELSE Return(t)
    /\ OnlyThreads

\* writeSerialAt: under serialWrite, the port of session e.
CheckPort(t) ==
    /\ At(t, "toSerial")
    /\ ~\E u \in Threads : At(u, "portWrite")
    /\ IF eng.port # 0 /\ epoch = th[t].e
         THEN Set(t, [th[t] EXCEPT !.of = eng.port, !.at = "portWrite"]) ELSE Return(t)
    /\ OnlyThreads

\* The bridge goes on with a packet for session e, Send with storeSent.
WritePort(t) ==
    /\ At(t, "portWrite")
    /\ LET r == th[t]
       IN \/ /\ Takes(r.of)
             /\ Set(t, [Moved(r, r.of) EXCEPT
                          !.via = IF r.op = "send" THEN "sent" ELSE "bridge",
                          !.key = r.e,
                          !.at  = CASE r.op = "send"    -> "storeSent"
                                    [] r.op = "readUDP" -> "peer"
                                    [] OTHER            -> "label"])
          \/ Return(t)
    /\ OnlyThreads

\* forwardNetwork: the most recent requester, all clients or the UDP peer.
ForwardNetwork(t) ==
    /\ At(t, "toNet")
    /\ LET r == th[t]
       IN \E latestOnly \in BridgeReplyLatest :
            Set(t, CASE epoch # r.e -> Done(r)
                     [] epoch = r.e /\ eng.clients # {} /\ latestOnly
                          -> [r EXCEPT !.h = eng.latest, !.via = "latest", !.at = "lookup"]
                     [] epoch = r.e /\ eng.clients # {} /\ ~latestOnly
                          -> [r EXCEPT !.via = "broadcast", !.at = "snapshot"]
                     [] epoch = r.e /\ eng.clients = {} /\ eng.udp # 0
                          -> [r EXCEPT !.via = "udpBridge", !.at = "udpTarget"]
                     [] OTHER -> Done(r))
    /\ OnlyThreads

\* connectionByID, and the epoch of what it found.
LookupConn(t) ==
    /\ At(t, "lookup")
    /\ LET c == th[t].h
       IN IF c \in eng.clients /\ born[c] = epoch /\ born[c] = th[t].e
            THEN Goto(t, "tcpCheck") ELSE Return(t)
    /\ OnlyThreads

\* broadcastPackets: without a client it is an error, or nothing.
SnapshotClients(t) ==
    /\ At(t, "snapshot")
    /\ LET clients == IF epoch = th[t].e THEN eng.clients ELSE {}
       IN IF clients = {} THEN Return(t)
          ELSE Set(t, [th[t] EXCEPT !.rest = clients, !.at = "each"])
    /\ OnlyThreads

NextClient(t) ==
    /\ At(t, "each")
    /\ \/ \E c \in th[t].rest :
             Set(t, [th[t] EXCEPT !.h = c, !.rest = @ \ {c}, !.at = "tcpCheck"])
       \/ /\ th[t].rest = {}
          /\ IF th[t].op = "send" /\ ~th[t].failed THEN Goto(t, "storeSent") ELSE Return(t)
    /\ OnlyThreads

\* A broadcast goes on with the next client and returns the error at its end.
Fail(t) == IF th[t].via = "broadcast"
             THEN Set(t, [th[t] EXCEPT !.h = NoConn, !.failed = TRUE, !.at = "each"])
             ELSE Return(t)

\* writeTCP: isActiveConnection ...
CheckConn(t) ==
    /\ At(t, "tcpCheck")
    /\ LET c == th[t].h
       IN IF c \in eng.clients /\ born[c] = epoch THEN Goto(t, "tcpWrite") ELSE Fail(t)
    /\ OnlyThreads

\* ... and the write, which fails once the connection is closed and may before.
\* SendToConnection goes on with newPacket, the others with recordPacketAt.
WriteConn(t) ==
    /\ At(t, "tcpWrite")
    /\ LET r == th[t]
       IN \/ /\ r.h \notin closed
             /\ Set(t, [Moved(r, born[r.h]) EXCEPT
                          !.label = born[r.h], !.key = r.e,
                          !.at = IF r.op = "toConn" THEN "new" ELSE "active"])
          \/ Fail(t)
    /\ OnlyThreads

\* sendUDPBridge
UDPTarget(t) ==
    /\ At(t, "udpTarget")
    /\ Set(t, IF epoch = th[t].e /\ eng.udp # 0 /\ eng.udpPeer # NoPeer
                THEN [th[t] EXCEPT !.of = eng.udp, !.peer = eng.udpPeer, !.at = "udpCheck"]
                ELSE Done(th[t]))
    /\ OnlyThreads

\* writeUDP: under networkWrite, the socket of session e and its one target.
CheckUDP(t) ==
    /\ At(t, "udpCheck")
    /\ ~\E u \in Threads : th[u].at \in {"udpWrite", "udpNote"}
    /\ IF eng.udp = th[t].of /\ epoch = th[t].e /\ (eng.dialed => th[t].peer = eng.udpPeer)
         THEN Goto(t, "udpWrite") ELSE Return(t)
    /\ OnlyThreads

\* Whether a write that is under way succeeds does not depend on its session: a
\* socket that LoseUDP took from the engine is never closed.
WriteUDP(t) ==
    /\ At(t, "udpWrite")
    /\ \/ Set(t, [Moved(th[t], th[t].of) EXCEPT !.at = "udpNote"])
       \/ Return(t)
    /\ OnlyThreads

\* writeUDP counts the packet for its peer; sendUDPBridge and SendToUDP look the
\* peer up once more, Send goes on with storeSent.
NoteSent(t) ==
    /\ At(t, "udpNote")
    /\ peers' = [peers EXCEPT ![th[t].peer] = IF @ = 0 THEN th[t].from ELSE @]
    /\ Set(t, [th[t] EXCEPT !.label = th[t].of,
                            !.at = IF th[t].op = "send" THEN "storeSent" ELSE "peer"])
    /\ UNCHANGED <<session, conns>>

WriteStep(t) ==
    \/ CheckPort(t) \/ WritePort(t) \/ ForwardNetwork(t) \/ LookupConn(t)
    \/ SnapshotClients(t) \/ NextClient(t) \/ CheckConn(t) \/ WriteConn(t)
    \/ UDPTarget(t) \/ CheckUDP(t) \/ WriteUDP(t) \/ NoteSent(t)

-----------------------------------------------------------------------------
(* What the user sends                                                       *)

\* Send asks for the mode ...
Send(t) ==
    /\ CanBegin(t)
    /\ Set(t, IF mode = "http" THEN Begin(t, "http", "request") ELSE Begin(t, "send", "route"))
    /\ OnlyThreads

\* ... looks where to send ...
Route(t) ==
    /\ At(t, "route")
    /\ LET tcp == eng.listener # 0 \/ eng.clients # {}
       IN CASE eng.port # 0                          -> Goto(t, "sendSerial")
            [] eng.port = 0 /\ tcp                   -> Goto(t, "sendTCP")
            [] eng.port = 0 /\ ~tcp /\ eng.udp # 0  -> Goto(t, "sendUDP")
            [] OTHER                                 -> Return(t)
    /\ OnlyThreads

\* ... and takes the epoch again: writeSerial, broadcast, sendUDP.
SendRouted(t) ==
    /\ \/ /\ At(t, "sendSerial")
          /\ Set(t, [th[t] EXCEPT !.e = epoch, !.at = "toSerial"])
       \/ /\ At(t, "sendTCP")
          /\ Set(t, [th[t] EXCEPT !.e = epoch, !.via = "broadcast", !.at = "snapshot"])
       \/ /\ At(t, "sendUDP")
          /\ IF eng.udp # 0 /\ eng.udpPeer # NoPeer
               THEN Set(t, [th[t] EXCEPT !.e = epoch, !.of = eng.udp, !.via = "sent",
                                         !.peer = eng.udpPeer, !.at = "udpCheck"])
               ELSE Return(t)
    /\ OnlyThreads

\* A bug: what was broadcast is recorded once more.
StoreSentTwice(t) ==
    /\ At(t, "storeSent")
    /\ Set(t, [th[t] EXCEPT
                 !.via   = "sent",
                 !.label = eng.endpoint,
                 !.at    = "new"])
    /\ OnlyThreads

\* storeSent: mode and endpoint as they are now.  A TCP packet has been recorded
\* by broadcastPackets and is only counted here.
StoreSent(t) ==
    /\ At(t, "storeSent")
    /\ Set(t, [th[t] EXCEPT
                 !.via   = "sent",
                 !.label = CASE mode \in {"serial", "bridge"}             -> eng.endpoint
                             [] mode = "udp" /\ eng.udpPeer # NoPeer      -> epoch
                             [] OTHER                                     -> 0,
                 !.at    = IF mode = "tcp" THEN "after" ELSE "new"])
    /\ OnlyThreads

\* newPacket: the key is that of the engine's session now.
NewPacket(t) ==
    /\ At(t, "new")
    /\ Set(t, [th[t] EXCEPT !.key = epoch, !.at = "active"])
    /\ OnlyThreads

SendNetwork(t) ==
    /\ CanBegin(t)
    /\ Set(t, [Begin(t, "sendNet", "snapshot") EXCEPT !.via = "broadcast"])
    /\ OnlyThreads

SendToConnection(t, c) ==
    /\ CanBegin(t) /\ c \in eng.clients /\ born[c] = epoch
    /\ Set(t, [Begin(t, "toConn", "tcpCheck") EXCEPT !.via = "sent", !.h = c])
    /\ OnlyThreads

\* SendUDP answers the last peer, SendInputToUDP names one.
SendToPeer(t, p) ==
    /\ CanBegin(t)
    /\ Set(t, [Begin(t, "toUDP", "socket") EXCEPT !.via = "sent", !.peer = p])
    /\ OnlyThreads

SendUDP(t) == eng.udpPeer # NoPeer /\ SendToPeer(t, eng.udpPeer)

\* SendToUDP takes the socket and the epoch.
SendToUDP(t) ==
    /\ At(t, "socket")
    /\ IF eng.udp # 0
         THEN Set(t, [th[t] EXCEPT !.e = epoch, !.of = eng.udp, !.at = "udpCheck"])
         ELSE Return(t)
    /\ OnlyThreads

\* HTTPRequest takes URL and client; the request is recorded before it is made.
HTTPRequest(t) ==
    /\ At(t, "request")
    /\ Set(t, IF eng.http = 0 THEN Done(th[t])
                ELSE [Moved(th[t], eng.http) EXCEPT !.via = "sent", !.at = "storeSent"])
    /\ OnlyThreads

\* The response: receive files it under the epoch of its arrival.
Receive(t) ==
    /\ At(t, "response")
    /\ \/ Set(t, [Moved(th[t], th[t].of) EXCEPT !.via = "http", !.label = 0,
                                                !.key = epoch, !.at = "check"])
       \/ Return(t)
    /\ OnlyThreads

SendStep(t) ==
    \/ Send(t) \/ Route(t) \/ SendRouted(t) \/ StoreSent(t) \/ NewPacket(t)
    \/ SendNetwork(t) \/ SendUDP(t) \/ SendToUDP(t) \/ HTTPRequest(t) \/ Receive(t)
    \/ \E c \in Conns : SendToConnection(t, c)
    \/ \E p \in Peers : SendToPeer(t, p)

Next == SessionStep \/ LoseSerial \/ LoseUDP \/ \E t \in Threads : ReaderStep(t) \/ WriteStep(t) \/ SendStep(t)

Spec == Init /\ [][Next]_vars

-----------------------------------------------------------------------------
(* Properties                                                                *)

Steps == {"idle", "peer", "label", "check", "active", "store", "after", "done", "toSerial",
          "portWrite", "toNet", "lookup", "snapshot", "each", "tcpCheck", "tcpWrite",
          "udpTarget", "udpCheck", "udpWrite", "udpNote", "route", "sendSerial", "sendTCP",
          "sendUDP", "storeSent", "new", "socket", "request", "response"}

Ops == {"none", "readTCP", "readUDP", "readSerial", "send", "sendNet", "toConn", "toUDP", "http"}

Vias == {"rx", "bridge", "broadcast", "latest", "udpBridge", "sent", "http"}

Call == [op : Ops, at : Steps, via : Vias, e : Sessions, h : Conns \cup {NoConn},
         peer : Peers \cup {NoPeer}, rest : SUBSET Conns, key : Sessions, label : Sessions,
         from : Sessions, of : Sessions, row : Sessions, bridge : BOOLEAN,
         failed : BOOLEAN, due : Int]

\* The types of the variables.
TypeOK ==
    /\ epoch \in 1..MaxSession
    /\ life \in {"up", "down", "ended", "closed", "keyed", "installed"}
    /\ mode \in Modes
    /\ eng \in [port : Sessions, endpoint : Sessions, listener : Sessions,
                clients : SUBSET Conns, latest : Conns \cup {NoConn}, udp : Sessions,
                dialed : BOOLEAN, udpPeer : Peers \cup {NoPeer}, http : Sessions,
                bridge : BOOLEAN]
    /\ peers \in [Peers -> Sessions]
    /\ captureKey \in Sessions /\ sessionID \in Sessions /\ shut \in Sessions
    /\ born \in [Conns -> Sessions] /\ closed \subseteq Conns /\ asked \subseteq Conns
    /\ th \in [Threads -> Call]

\* Packets whose code carries the epoch of their reader or of the broadcast.
Bound(r) == r.via \in {"rx", "bridge", "broadcast", "latest"}

\* A packet that carries the epoch of its transfer is filed under the session
\* whose handle it passed, or not at all, and names the endpoint of that session:
\* the checks in receivePacket, emitPacket and Store.Record together, none of
\* them under the lock of the next.
RecordsStayInTheirSession ==
    \A t \in Threads : Bound(th[t]) /\ th[t].row # 0
        => th[t].row = th[t].of /\ th[t].label = th[t].row

\* Every chunk that was read and every write that succeeded is one row of the
\* store, unless the session ends meanwhile: a broadcast is one row for each
\* connection it reached, and storeSent does not add another.  One case is left
\* out, in which the code does add one: a serial server that has lost its port
\* sends to its TCP clients, and storeSent goes by the mode.
LostPort == mode = "bridge" /\ eng.port = 0

EveryTransferIsRecordedOnce ==
    \A t \in Threads : At(t, "done") /\ epoch = th[t].from
        => \/ th[t].due = 0
           \/ th[t].due = -1 /\ th[t].op = "send" /\ LostPort

\* What a reader got is bridged over handles of its own session only, whatever is
\* connected by the time it writes.
BridgingStaysInSession ==
    \A t \in Threads : th[t].op \in {"readTCP", "readUDP", "readSerial"} /\ th[t].of # 0
        => th[t].of = th[t].from

\* With SetBridgeReplyLatest the serial side answers only a connection that asked
\* in this session.
RepliesReachRequesters ==
    \A t \in Threads : th[t].via = "latest" /\ th[t].at \in {"tcpCheck", "tcpWrite"}
        => th[t].h \in asked /\ born[th[t].h] = th[t].from
=============================================================================
