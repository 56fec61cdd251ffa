------------------------ MODULE PacketCaptureProofs ------------------------
(***************************************************************************)
(* Proofs about PacketCapture, for any number of goroutines, connections,   *)
(* addresses and sessions: types, the session a packet is filed under, the  *)
(* session it is bridged in, and that it is recorded once.                  *)
(***************************************************************************)
EXTENDS PacketCapture, TLAPS

USE CaptureAssumption

-----------------------------------------------------------------------------
(* Types                                                                     *)

EngType == [port : Sessions, endpoint : Sessions, listener : Sessions,
            clients : SUBSET Conns, latest : Conns \cup {NoConn}, udp : Sessions,
            dialed : BOOLEAN, udpPeer : Peers \cup {NoPeer}, http : Sessions,
            bridge : BOOLEAN]

\* What a call does is known from where it is.
Readers == {"readTCP", "readUDP", "readSerial"}

Shape(r) ==
    /\ r.at = "idle" => r.op = "none" /\ r.via = "rx"
    /\ r.at = "done" => r.op \in {"none", "send"} /\ r.via = "rx"
    /\ r.at = "idle" => r.from = 0
    /\ r.at \in {"route", "sendSerial", "sendTCP", "sendUDP"} => r.op = "send" /\ r.via = "rx"
    /\ r.at \in {"request", "response"} => r.op = "http"
    /\ r.at = "socket" => r.op = "toUDP" /\ r.via = "sent"
    /\ r.at \in {"toNet", "lookup", "udpTarget"} => r.op = "readSerial"
    /\ r.at \in {"toSerial", "portWrite"} => r.op \in {"readTCP", "readUDP", "send"}
    /\ r.at = "udpTarget" => r.via = "udpBridge"
    /\ r.at \in {"udpCheck", "udpWrite", "udpNote"} => /\ r.via \in {"udpBridge", "sent"}
                                                       /\ r.op \in {"readSerial", "send", "toUDP"}
    /\ r.at = "new" => r.via \in {"udpBridge", "sent"}
    /\ r.at = "lookup" => r.via = "latest"
    /\ r.at \in {"snapshot", "each"} => r.via = "broadcast"
    /\ r.via = "broadcast" => r.op \in {"send", "sendNet", "readSerial"}
    /\ r.at \in {"tcpCheck", "tcpWrite"} => \/ r.via \in {"broadcast", "latest"}
                                            \/ r.op = "toConn" /\ r.via = "sent"
    /\ r.op = "toConn" => r.via = "sent"
    /\ r.at = "tcpWrite" => r.h \in Conns
    /\ r.at = "storeSent" => r.op \in {"send", "http"}
    /\ r.at = "peer" => \/ r.op = "readUDP" /\ r.via \in {"rx", "bridge"}
                        \/ r.op # "readUDP" /\ r.via \in {"udpBridge", "sent"}
    /\ r.at = "label" => r.op \in Readers /\ r.via \in {"rx", "bridge"}
    /\ r.at = "check" => r.via \in {"rx", "http"}
    /\ r.at \in {"check", "active", "store", "after"} /\ r.via = "rx" => r.op \in Readers

\* How the engine's fields belong to the session that the window shows.
SessionInv ==
    /\ life \in {"ended", "closed", "keyed", "installed"} => sessionID = 0
    /\ sessionID # 0 => sessionID = captureKey
    /\ life \in {"keyed", "installed", "up"} => captureKey = epoch
    /\ life = "up" => sessionID = epoch
    /\ life \in {"down", "ended", "closed", "keyed"} => eng = NoHandles
    /\ eng.port \in {0, epoch} /\ eng.udp \in {0, epoch}
    /\ eng.port # 0 => eng.endpoint = epoch /\ mode \in {"serial", "bridge"}
    /\ \A c \in eng.clients : born[c] = epoch
    /\ eng.latest \in asked \cup {NoConn}
    /\ eng.listener # 0 \/ eng.clients # {} => mode \in {"tcp", "bridge"}
    /\ eng.udp # 0 => mode # "tcp"
    /\ eng.http # 0 => mode = "http"

\* Which session a call belongs to: a call that carries an epoch passes handles
\* of that session only, and its label is that session's as long as it lasts.
Filed(r) ==
    /\ r.key <= epoch /\ r.e <= epoch /\ r.from <= epoch
    /\ r.row # 0 => r.at = "after" /\ (Bound(r) => r.row = r.of /\ r.label = r.row)
    /\ Bound(r) /\ r.at \in {"check", "active"}
         => r.of = r.key /\ (r.key = epoch => r.label = r.key)
    /\ Bound(r) /\ r.at = "store" => r.of = r.key /\ r.label = r.key
    /\ r.at = "label" \/ (r.at = "peer" /\ r.via = "bridge")
         => r.of = r.key /\ (r.key = epoch => eng.endpoint = epoch)
    /\ r.at = "peer" /\ r.via = "rx" => r.of = r.key /\ r.label = r.key
    /\ r.at = "portWrite" => r.of = r.e /\ (r.e = epoch => eng.endpoint = epoch)
    /\ r.via = "broadcast" /\ r.at # "snapshot" => \A c \in r.rest : born[c] = r.e /\ r.e # 0
    /\ r.via \in {"broadcast", "latest"} /\ r.at \in {"tcpCheck", "tcpWrite"}
         => r.h \in Conns /\ born[r.h] = r.e /\ r.e # 0
    /\ r.via = "latest" /\ r.at \in {"lookup", "tcpCheck", "tcpWrite"}
         => r.h \in asked \cup {NoConn} /\ r.op = "readSerial"
    /\ r.op \in Readers => r.e = r.from /\ (r.of # 0 => r.of = r.from)

\* A packet has been moved and is not recorded yet.
Pending(r) ==
    \/ r.at \in {"peer", "label", "check", "active", "store", "new", "udpNote"}
    \/ r.at = "storeSent" /\ r.via # "broadcast"

Owed(r) == IF Pending(r) THEN 1 ELSE 0

\* What Send has broadcast for a serial server without its port is recorded again.
Again(r) ==
    /\ r.op = "send" /\ LostPort
    /\ r.at = "done" \/ (r.via = "sent" /\ r.at \in {"new", "active", "store", "after"})

\* As long as the session of a call lasts, it owes a record for the packet it has
\* just moved and for no other, and its epoch is the engine's.
Once(r) ==
    r.from = epoch =>
        /\ life = "up"
        /\ r.at # "done" => r.e = epoch
        /\ r.due = Owed(r) \/ (Again(r) /\ r.due = Owed(r) - 1)
        /\ r.at \in {"check", "active", "store", "label"} \/ (r.at = "peer" /\ Bound(r))
             => r.key = epoch
        /\ r.at = "storeSent" /\ r.via # "broadcast" => mode # "tcp"
        /\ r.at \in {"snapshot", "each", "tcpCheck", "tcpWrite", "active", "store", "after",
                     "storeSent"}
           /\ r.via = "broadcast" /\ r.op = "send" => mode = "tcp" \/ LostPort
        /\ r.at = "sendTCP" => mode = "tcp" \/ LostPort
        /\ r.op = "send" /\ r.at \in {"portWrite", "udpCheck", "udpWrite", "udpNote"}
             => mode # "tcp"

CallInv(r) == Shape(r) /\ Filed(r) /\ Once(r)

Inv == TypeOK /\ SessionInv /\ \A t \in Threads : CallInv(th[t])

LEMMA SessionsFacts == /\ 0 \in Sessions /\ 1 \in Sessions
                       /\ \A s \in Sessions : s \in Nat /\ s <= MaxSession
  BY DEF Sessions

LEMMA TypesBegin ==
  ASSUME TypeOK
  PROVE  /\ epoch \in Sessions /\ epoch \in Nat /\ epoch >= 1 /\ eng \in EngType
         /\ \A t \in Threads : th[t] \in Call
  BY DEF TypeOK, EngType, Sessions

LEMMA IdleType == Idle \in Call /\ NoHandles \in EngType
  BY SessionsFacts DEF Idle, Call, NoHandles, EngType, Ops, Steps, Vias

LEMMA InitTypes == Init => TypeOK
<1> SUFFICES ASSUME Init PROVE TypeOK
  OBVIOUS
<1>1. eng \in EngType /\ th \in [Threads -> Call]
  BY IdleType DEF Init
<1>2. /\ epoch \in 1..MaxSession /\ mode \in Modes
      /\ life \in {"up", "down", "ended", "closed", "keyed", "installed"}
  <2>1. 1 \in 1..MaxSession
    OBVIOUS
  <2> QED
    BY <2>1 DEF Init, Modes
<1>3. /\ peers \in [Peers -> Sessions] /\ born \in [Conns -> Sessions]
      /\ captureKey \in Sessions /\ sessionID \in Sessions /\ shut \in Sessions
      /\ closed \subseteq Conns /\ asked \subseteq Conns
  BY SessionsFacts DEF Init
<1> QED
  BY <1>1, <1>2, <1>3 DEF TypeOK, EngType

\* A call that only goes on leaves the types of everything else.
LEMMA CallKeepsTypes ==
  ASSUME TypeOK, NEW t \in Threads, NEW r \in Call, Set(t, r), OnlyThreads
  PROVE  TypeOK'
  BY DEF TypeOK, Set, OnlyThreads, session, conns

LEMMA DoneType == ASSUME NEW r \in Call PROVE Done(r) \in Call
<1>1. /\ (IF r.op = "send" THEN "send" ELSE "none") \in Ops /\ "done" \in Steps
      /\ r.from \in Sessions /\ r.due \in Int
  BY DEF Ops, Steps, Call
<1> QED
  BY <1>1, IdleType DEF Done, Call

LEMMA ReturnType ==
  ASSUME TypeOK, NEW t \in Threads, Return(t), OnlyThreads
  PROVE  TypeOK'
  BY DoneType, TypesBegin, CallKeepsTypes DEF Return

LEMMA GotoType ==
  ASSUME TypeOK, NEW t \in Threads, NEW s \in Steps, Goto(t, s), OnlyThreads
  PROVE  TypeOK'
<1>1. [th[t] EXCEPT !.at = s] \in Call
  BY TypesBegin DEF Call
<1> QED
  BY <1>1, CallKeepsTypes DEF Goto

LEMMA FailType ==
  ASSUME TypeOK, NEW t \in Threads, Fail(t), OnlyThreads
  PROVE  TypeOK'
<1>1. [th[t] EXCEPT !.h = NoConn, !.failed = TRUE, !.at = "each"] \in Call
  <2>1. th[t] \in Call /\ "each" \in Steps
    BY TypesBegin DEF Steps
  <2> QED
    BY <2>1 DEF Call
<1> QED
  BY <1>1, ReturnType, CallKeepsTypes DEF Fail

LEMMA BeginType ==
  ASSUME TypeOK, NEW t \in Threads, NEW op \in Ops, NEW s \in Steps
  PROVE  Begin(t, op, s) \in Call
  BY TypesBegin, IdleType DEF Begin, Call, EngType

LEMMA MovedType ==
  ASSUME NEW r \in Call, NEW s \in Sessions
  PROVE  Moved(r, s) \in Call
<1>1. r.due + 1 \in Int /\ 0 \in Sessions
  BY SessionsFacts DEF Call
<1> QED
  BY <1>1 DEF Moved, Call

LEMMA SessionStepTypes == ASSUME TypeOK, SessionStep PROVE TypeOK'
<1>1. CASE Disconnect
  BY <1>1, IdleType, SessionsFacts DEF Disconnect, TypeOK, EngType, conns
<1>2. CASE EndSession \/ SetCaptureKey \/ StartSession
  BY <1>2, SessionsFacts, TypesBegin DEF EndSession, SetCaptureKey, StartSession, TypeOK, session, conns
<1>3. CASE CloseHandles
  BY <1>3, SessionsFacts DEF CloseHandles, TypeOK, Sessions
<1>4. ASSUME NEW cfg \in Configs, NEW c \in Conns, NEW p \in Peers, Install(cfg, c, p)
      PROVE  TypeOK'
  <2>1. cfg \in Config /\ cfg.mode \in Modes /\ cfg.dialed \in BOOLEAN
    BY DEF Config
  <2>2. eng' \in EngType
    <3>1. ASSUME NEW a \in Sessions, NEW b \in Sessions, NEW d \in Sessions, NEW h \in Sessions,
                 NEW s \in SUBSET Conns, NEW q \in Peers \cup {NoPeer},
                 NEW x \in BOOLEAN, NEW y \in BOOLEAN
          PROVE  [NoHandles EXCEPT !.port = a, !.endpoint = a, !.listener = b, !.clients = s,
                                   !.udp = d, !.dialed = x, !.udpPeer = q, !.http = h,
                                   !.bridge = y] \in EngType
      BY IdleType DEF EngType
    <3>2. epoch \in Sessions /\ 0 \in Sessions /\ {} \in SUBSET Conns /\ {c} \in SUBSET Conns
      BY TypesBegin, SessionsFacts
    <3> DEFINE a == IF cfg.mode \in {"serial", "bridge"} THEN epoch ELSE 0
               b == IF cfg.net = "listener" THEN epoch ELSE 0
               s == IF cfg.net = "tcp" THEN {c} ELSE {}
               d == IF cfg.net = "udp" THEN epoch ELSE 0
               x == cfg.net = "udp" /\ cfg.dialed
               q == IF cfg.net = "udp" /\ cfg.dialed THEN p ELSE NoPeer
               h == IF cfg.mode = "http" THEN epoch ELSE 0
               y == cfg.mode = "bridge"
    <3>3. /\ a \in Sessions /\ b \in Sessions /\ d \in Sessions /\ h \in Sessions
          /\ s \in SUBSET Conns /\ q \in Peers \cup {NoPeer}
          /\ x \in BOOLEAN /\ y \in BOOLEAN
      BY <2>1, <3>2
    <3>4. eng' = [NoHandles EXCEPT !.port = a, !.endpoint = a, !.listener = b, !.clients = s,
                                   !.udp = d, !.dialed = x, !.udpPeer = q, !.http = h,
                                   !.bridge = y]
      BY <1>4 DEF Install
    <3> HIDE DEF a, b, s, d, x, q, h, y
    <3> QED
      BY <3>1, <3>3, <3>4
  <2>3. born' \in [Conns -> Sessions] /\ peers' \in [Peers -> Sessions]
    BY <1>4, TypesBegin DEF Install, TypeOK
  <2> QED
    BY <1>4, <2>1, <2>2, <2>3 DEF Install, TypeOK, EngType
<1>5. ASSUME NEW c \in Conns, Accept(c) PROVE TypeOK'
  BY <1>5, TypesBegin DEF Accept, TypeOK
<1>6. ASSUME NEW c \in Conns, Leave(c) PROVE TypeOK'
  BY <1>6 DEF Leave, TypeOK
<1> QED
  BY <1>1, <1>2, <1>3, <1>4, <1>5, <1>6 DEF SessionStep

LEMMA ReaderStepTypes == ASSUME TypeOK, NEW t \in Threads, ReaderStep(t) PROVE TypeOK'
<1>0. th[t] \in Call /\ epoch \in Sessions
  BY TypesBegin
<1>1. ASSUME NEW c \in Conns, ReadTCP(t, c) PROVE TypeOK'
  <2> DEFINE r == [Moved(Begin(t, "readTCP", "check"), epoch) EXCEPT
                     !.h = c, !.label = epoch, !.key = epoch]
  <2>1. Moved(Begin(t, "readTCP", "check"), epoch) \in Call
    BY <1>0, BeginType, MovedType DEF Ops, Steps
  <2>2. r \in Call
    BY <1>0, <2>1 DEF Call
  <2>3. eng' \in EngType /\ asked' \subseteq Conns
    BY <1>1, TypesBegin DEF ReadTCP, EngType, TypeOK
  <2> QED
    BY <1>1, <2>2, <2>3 DEF ReadTCP, Set, TypeOK, EngType
<1>2. ASSUME NEW p \in Peers, ReadUDP(t, p) PROVE TypeOK'
  <2> DEFINE r == [Moved(Begin(t, "readUDP", "peer"), epoch) EXCEPT
                     !.peer = p, !.label = epoch, !.key = epoch]
  <2>1. Moved(Begin(t, "readUDP", "peer"), epoch) \in Call
    BY <1>0, BeginType, MovedType DEF Ops, Steps
  <2>2. r \in Call
    BY <1>0, <2>1 DEF Call
  <2>3. eng' \in EngType
    BY <1>2, TypesBegin DEF ReadUDP, EngType
  <2> QED
    BY <1>2, <2>2, <2>3 DEF ReadUDP, Set, TypeOK, EngType, conns
<1>3. CASE ReadSerial(t)
  <2>1. Moved(Begin(t, "readSerial", "label"), epoch) \in Call
    BY <1>0, BeginType, MovedType DEF Ops, Steps
  <2>2. [Moved(Begin(t, "readSerial", "label"), epoch) EXCEPT !.key = epoch] \in Call
    BY <1>0, <2>1 DEF Call
  <2> QED
    BY <1>3, <2>2, CallKeepsTypes DEF ReadSerial
<1>4. CASE NotePeer(t)
  <2>1. PICK s \in {"check", "label", "new"} : Goto(t, s)
    BY <1>4, Zenon DEF NotePeer
  <2>2. [th[t] EXCEPT !.at = s] \in Call
    BY <1>0 DEF Call, Steps
  <2>3. peers' \in [Peers -> Sessions]
    BY <1>0, <1>4 DEF NotePeer, TypeOK, Call
  <2> QED
    BY <1>4, <2>1, <2>2, <2>3 DEF NotePeer, Goto, Set, TypeOK, session, conns
<1>5. CASE SerialLabel(t)
  <2>1. eng.endpoint \in Sessions
    BY TypesBegin DEF EngType
  <2>2. (IF th[t].via = "rx" THEN "check" ELSE "active") \in Steps
    BY DEF Steps
  <2>3. [th[t] EXCEPT !.label = eng.endpoint,
                      !.at = IF th[t].via = "rx" THEN "check" ELSE "active"] \in Call
    BY <1>0, <2>1, <2>2 DEF Call
  <2> QED
    BY <1>5, <2>3, CallKeepsTypes DEF SerialLabel
<1>6. CASE CheckEpoch(t) \/ EmitPacket(t)
  <2>1. PICK s \in {"active", "store", "after"} : Goto(t, s)
    BY <1>6 DEF CheckEpoch, EmitPacket
  <2> QED
    BY <1>6, <2>1, GotoType DEF Steps, CheckEpoch, EmitPacket
<1>7. CASE Record(t)
  <2> DEFINE ok == sessionID # 0 /\ th[t].key = captureKey
  <2>0. /\ (IF ok THEN sessionID ELSE 0) \in Sessions
        /\ (IF ok THEN th[t].due - 1 ELSE th[t].due) \in Int
        /\ "after" \in Steps
    BY <1>0, SessionsFacts DEF Call, Steps, TypeOK
  <2>1. [th[t] EXCEPT !.row = IF ok THEN sessionID ELSE 0,
                      !.due = IF ok THEN th[t].due - 1 ELSE th[t].due, !.at = "after"] \in Call
    BY <1>0, <2>0 DEF Call
  <2> QED
    BY <1>7, <2>1, CallKeepsTypes DEF Record
<1>8. CASE AfterRecord(t)
  <2>1. Continue(th[t]) \in Steps
    BY DEF Continue, Steps
  <2>3. (IF th[t].via = "broadcast" THEN NoConn ELSE th[t].h) \in Conns \cup {NoConn}
    BY <1>0 DEF Call
  <2>2. [th[t] EXCEPT !.at = Continue(th[t]), !.key = 0, !.label = 0, !.row = 0,
                      !.h = IF th[t].via = "broadcast" THEN NoConn ELSE @] \in Call
    BY <1>0, <2>1, <2>3, SessionsFacts DEF Call
  <2> QED
    BY <1>0, <1>8, <2>2, DoneType, CallKeepsTypes DEF AfterRecord
<1>9. CASE Finish(t)
  BY <1>9, IdleType, CallKeepsTypes DEF Finish
<1> QED
  BY <1>1, <1>2, <1>3, <1>4, <1>5, <1>6, <1>7, <1>8, <1>9 DEF ReaderStep

\* The calls in WriteStep change nothing but themselves.
LEMMA WriteStepTypes == ASSUME TypeOK, NEW t \in Threads, Shape(th[t]), WriteStep(t) PROVE TypeOK'
<1>0. /\ th[t] \in Call /\ epoch \in Sessions /\ epoch # 0
      /\ eng.port \in Sessions /\ eng.udp \in Sessions
      /\ eng.clients \in SUBSET Conns /\ {} \in SUBSET Conns
      /\ eng.latest \in Conns \cup {NoConn} /\ eng.udpPeer \in Peers \cup {NoPeer}
  BY TypesBegin DEF EngType
<1>1. CASE CheckPort(t)
  <2>1. [th[t] EXCEPT !.of = eng.port, !.at = "portWrite"] \in Call
    BY <1>0 DEF Call, Steps
  <2> QED
    BY <1>1, <2>1, CallKeepsTypes, ReturnType DEF CheckPort
<1>2. CASE WritePort(t)
  <2>1. PICK v \in Vias, s \in Steps :
          \/ Return(t)
          \/ Set(t, [Moved(th[t], th[t].of) EXCEPT !.via = v, !.key = th[t].e, !.at = s])
    <3>1. /\ (IF th[t].op = "send" THEN "sent" ELSE "bridge") \in Vias
          /\ (CASE th[t].op = "send" -> "storeSent" [] th[t].op = "readUDP" -> "peer"
                [] OTHER -> "label") \in Steps
      BY DEF Vias, Steps
    <3> QED
      BY <1>2, <3>1 DEF WritePort
  <2>2. Moved(th[t], th[t].of) \in Call /\ th[t].e \in Sessions
    BY <1>0, MovedType DEF Call
  <2>3. [Moved(th[t], th[t].of) EXCEPT !.via = v, !.key = th[t].e, !.at = s] \in Call
    BY <2>2 DEF Call
  <2> QED
    BY <1>2, <2>1, <2>3, CallKeepsTypes, ReturnType DEF WritePort
<1>3. CASE ForwardNetwork(t)
  <2> DEFINE r == th[t]
  <2>1. [r EXCEPT !.h = eng.latest, !.via = "latest", !.at = "lookup"] \in Call
    BY <1>0 DEF Call, Steps, Vias
  <2>2. [r EXCEPT !.via = "broadcast", !.at = "snapshot"] \in Call
    BY <1>0 DEF Call, Steps, Vias
  <2>3. [r EXCEPT !.via = "udpBridge", !.at = "udpTarget"] \in Call
    BY <1>0 DEF Call, Steps, Vias
  <2>4. Done(r) \in Call
    BY <1>0, DoneType
  <2> QED
    BY <1>3, <2>1, <2>2, <2>3, <2>4, CallKeepsTypes DEF ForwardNetwork
<1>4. CASE LookupConn(t) \/ CheckConn(t) \/ CheckUDP(t)
  BY <1>4, GotoType, ReturnType, FailType DEF LookupConn, CheckConn, CheckUDP, Steps
<1>5. CASE SnapshotClients(t)
  <2>1. [th[t] EXCEPT !.rest = IF epoch = th[t].e THEN eng.clients ELSE {}, !.at = "each"] \in Call
    BY <1>0 DEF Call, Steps
  <2> QED
    BY <1>5, <2>1, CallKeepsTypes, ReturnType DEF SnapshotClients
<1>6. CASE NextClient(t)
  <2>1. ASSUME NEW c \in th[t].rest
        PROVE  [th[t] EXCEPT !.h = c, !.rest = th[t].rest \ {c}, !.at = "tcpCheck"] \in Call
    BY <1>0 DEF Call, Steps
  <2> QED
    BY <1>6, <2>1, CallKeepsTypes, GotoType, ReturnType DEF NextClient, Steps
<1>7. CASE WriteConn(t)
  <2>1. CASE Fail(t)
    BY <1>7, <2>1, FailType DEF WriteConn
  <2>2. CASE ~Fail(t)
    <3> DEFINE R == [Moved(th[t], born[th[t].h]) EXCEPT
                       !.label = born[th[t].h], !.key = th[t].e,
                       !.at = IF th[t].op = "toConn" THEN "new" ELSE "active"]
    <3>1. Set(t, R) /\ OnlyThreads /\ At(t, "tcpWrite")
      BY <1>7, <2>2 DEF WriteConn
    <3>2. born[th[t].h] \in Sessions
      BY <3>1 DEF Shape, At, TypeOK
    <3>3. (IF th[t].op = "toConn" THEN "new" ELSE "active") \in Steps
      BY DEF Steps
    <3>4. Moved(th[t], born[th[t].h]) \in Call
      BY <1>0, <3>2, MovedType
    <3>5. R \in Call
      BY <1>0, <3>2, <3>3, <3>4 DEF Call
    <3> QED
      BY <3>1, <3>5, CallKeepsTypes
  <2> QED
    BY <2>1, <2>2
<1>8. CASE UDPTarget(t)
  <2>1. [th[t] EXCEPT !.of = eng.udp, !.peer = eng.udpPeer, !.at = "udpCheck"] \in Call
    BY <1>0 DEF Call, Steps
  <2> QED
    BY <1>0, <1>8, <2>1, CallKeepsTypes, DoneType DEF UDPTarget
<1>9. CASE WriteUDP(t)
  <2>1. Moved(th[t], th[t].of) \in Call
    BY <1>0, MovedType DEF Call
  <2>2. [Moved(th[t], th[t].of) EXCEPT !.at = "udpNote"] \in Call
    BY <2>1 DEF Call, Steps
  <2> QED
    BY <1>9, <2>2, CallKeepsTypes, ReturnType DEF WriteUDP
<1>10. CASE NoteSent(t)
  <2>1. PICK s \in {"storeSent", "peer"} : Set(t, [th[t] EXCEPT !.label = th[t].of, !.at = s])
    BY <1>10 DEF NoteSent
  <2>2. [th[t] EXCEPT !.label = th[t].of, !.at = s] \in Call
    BY <1>0 DEF Call, Steps
  <2>3. peers' \in [Peers -> Sessions]
    BY <1>0, <1>10 DEF NoteSent, TypeOK, Call
  <2> QED
    BY <1>10, <2>1, <2>2, <2>3 DEF NoteSent, Set, TypeOK, session, conns
<1> QED
  BY <1>1, <1>2, <1>3, <1>4, <1>5, <1>6, <1>7, <1>8, <1>9, <1>10 DEF WriteStep

LEMMA SendStepTypes == ASSUME TypeOK, NEW t \in Threads, SendStep(t) PROVE TypeOK'
<1>0. /\ th[t] \in Call /\ epoch \in Sessions /\ 0 \in Sessions
      /\ eng.udp \in Sessions /\ eng.http \in Sessions /\ eng.endpoint \in Sessions
      /\ eng.udpPeer \in Peers \cup {NoPeer}
  BY TypesBegin, SessionsFacts DEF EngType
<1>1. CASE Send(t)
  BY <1>1, BeginType, CallKeepsTypes DEF Send, Ops, Steps
<1>2. CASE Route(t)
  BY <1>2, GotoType, ReturnType DEF Route, Steps
<1>3. CASE SendRouted(t)
  <2>1. /\ [th[t] EXCEPT !.e = epoch, !.at = "toSerial"] \in Call
        /\ [th[t] EXCEPT !.e = epoch, !.via = "broadcast", !.at = "snapshot"] \in Call
        /\ [th[t] EXCEPT !.e = epoch, !.of = eng.udp, !.via = "sent",
                         !.peer = eng.udpPeer, !.at = "udpCheck"] \in Call
    BY <1>0 DEF Call, Steps, Vias
  <2> QED
    BY <1>3, <2>1, CallKeepsTypes, ReturnType DEF SendRouted
<1>4. CASE StoreSent(t)
  <2>1. PICK l \in Sessions, s \in Steps :
          Set(t, [th[t] EXCEPT !.via = "sent", !.label = l, !.at = s])
    <3> DEFINE l == CASE mode \in {"serial", "bridge"}             -> eng.endpoint
                      [] mode = "udp" /\ eng.udpPeer # NoPeer      -> epoch
                      [] OTHER                                     -> 0
               s == IF mode = "tcp" THEN "after" ELSE "new"
    <3>1. l \in Sessions /\ s \in Steps
      BY <1>0 DEF Steps
    <3>2. Set(t, [th[t] EXCEPT !.via = "sent", !.label = l, !.at = s])
      BY <1>4 DEF StoreSent
    <3> QED
      BY <3>1, <3>2
  <2>2. [th[t] EXCEPT !.via = "sent", !.label = l, !.at = s] \in Call
    BY <1>0, <2>1 DEF Call, Vias
  <2> QED
    BY <1>4, <2>1, <2>2, CallKeepsTypes DEF StoreSent
<1>5. CASE NewPacket(t)
  <2>1. [th[t] EXCEPT !.key = epoch, !.at = "active"] \in Call
    BY <1>0 DEF Call, Steps
  <2> QED
    BY <1>5, <2>1, CallKeepsTypes DEF NewPacket
<1>6. CASE SendNetwork(t)
  <2>1. Begin(t, "sendNet", "snapshot") \in Call
    BY BeginType DEF Ops, Steps
  <2>2. [Begin(t, "sendNet", "snapshot") EXCEPT !.via = "broadcast"] \in Call
    BY <2>1 DEF Call, Vias
  <2> QED
    BY <1>6, <2>2, CallKeepsTypes DEF SendNetwork
<1>7. ASSUME NEW c \in Conns, SendToConnection(t, c) PROVE TypeOK'
  <2>1. Begin(t, "toConn", "tcpCheck") \in Call
    BY BeginType DEF Ops, Steps
  <2>2. [Begin(t, "toConn", "tcpCheck") EXCEPT !.via = "sent", !.h = c] \in Call
    BY <2>1 DEF Call, Vias
  <2> QED
    BY <1>7, <2>2, CallKeepsTypes DEF SendToConnection
<1>8. ASSUME NEW p \in Peers \cup {NoPeer}, SendToPeer(t, p) PROVE TypeOK'
  <2>1. Begin(t, "toUDP", "socket") \in Call
    BY BeginType DEF Ops, Steps
  <2>2. [Begin(t, "toUDP", "socket") EXCEPT !.via = "sent", !.peer = p] \in Call
    BY <2>1 DEF Call, Vias
  <2> QED
    BY <1>8, <2>2, CallKeepsTypes DEF SendToPeer
<1>9. CASE SendUDP(t)
  BY <1>0, <1>8, <1>9 DEF SendUDP
<1>10. CASE SendToUDP(t)
  <2>1. [th[t] EXCEPT !.e = epoch, !.of = eng.udp, !.at = "udpCheck"] \in Call
    BY <1>0 DEF Call, Steps
  <2> QED
    BY <1>10, <2>1, CallKeepsTypes, ReturnType DEF SendToUDP
<1>11. CASE HTTPRequest(t)
  <2>1. Moved(th[t], eng.http) \in Call
    BY <1>0, MovedType
  <2>2. [Moved(th[t], eng.http) EXCEPT !.via = "sent", !.at = "storeSent"] \in Call
    BY <2>1 DEF Call, Steps, Vias
  <2> QED
    BY <1>0, <1>11, <2>2, CallKeepsTypes, DoneType DEF HTTPRequest
<1>12. CASE Receive(t)
  <2>1. Moved(th[t], th[t].of) \in Call
    BY <1>0, MovedType DEF Call
  <2>2. [Moved(th[t], th[t].of) EXCEPT !.via = "http", !.label = 0, !.key = epoch, !.at = "check"]
          \in Call
    BY <1>0, <2>1 DEF Call, Steps, Vias
  <2> QED
    BY <1>12, <2>2, CallKeepsTypes, ReturnType DEF Receive
<1> QED
  BY <1>1, <1>2, <1>3, <1>4, <1>5, <1>6, <1>7, <1>8, <1>9, <1>10, <1>11, <1>12 DEF SendStep

LEMMA LossTypes == ASSUME TypeOK, LoseSerial \/ LoseUDP PROVE TypeOK'
<1>1. eng' \in EngType
  BY TypesBegin, SessionsFacts DEF LoseSerial, LoseUDP, EngType
<1> QED
  BY <1>1 DEF LoseSerial, LoseUDP, TypeOK, EngType, conns

LEMMA NextTypes == TypeOK /\ (\A t \in Threads : Shape(th[t])) /\ [Next]_vars => TypeOK'
<1> SUFFICES ASSUME TypeOK, \A t \in Threads : Shape(th[t]), [Next]_vars PROVE TypeOK'
  OBVIOUS
<1>1. CASE UNCHANGED vars
  BY <1>1 DEF vars, session, conns, TypeOK
<1> QED
  BY <1>1, SessionStepTypes, LossTypes, ReaderStepTypes, WriteStepTypes, SendStepTypes DEF Next

-----------------------------------------------------------------------------
(* The session, and the calls that a step leaves alone                       *)

LEMMA InitInv == Init => Inv
<1> SUFFICES ASSUME Init PROVE Inv
  OBVIOUS
<1>1. TypeOK
  BY InitTypes
<1>2. SessionInv
  BY DEF Init, SessionInv, NoHandles
<1>3. ASSUME NEW t \in Threads PROVE CallInv(th[t])
  <2>1. th[t] = Idle /\ epoch = 1
    BY DEF Init
  <2>2. Shape(Idle)
    BY DEF Shape, Idle, Readers
  <2>3. Filed(Idle) /\ Once(Idle)
    BY <2>1 DEF Filed, Once, Idle, Bound, Readers
  <2> QED
    BY <2>1, <2>2, <2>3 DEF CallInv
<1> QED
  BY <1>1, <1>2, <1>3 DEF Inv

\* What every call's part of the invariant reads is the same after the step.
SameSession ==
    /\ epoch' = epoch /\ life' = life /\ mode' = mode /\ eng'.endpoint = eng.endpoint
    /\ born' = born /\ asked \subseteq asked' /\ (LostPort => LostPort')

LEMMA SameCall ==
  ASSUME NEW r, NEW t \in Threads, CallInv(r), SameSession, th'[t] = r
  PROVE  CallInv(th[t])'
  BY DEF CallInv, Shape, Filed, Once, Bound, Pending, Owed, Again, SameSession

LEMMA OnlyCall ==
  ASSUME Inv, NEW t \in Threads, NEW r, CallInv(r), Set(t, r), SameSession
  PROVE  \A u \in Threads : CallInv(th[u])'
<1>1. ASSUME NEW u \in Threads PROVE th'[u] = (IF u = t THEN r ELSE th[u])
  BY DEF Inv, TypeOK, Set
<1>2. CallInv(th[t])'
  BY <1>1, SameCall
<1>3. ASSUME NEW u \in Threads, u # t PROVE CallInv(th[u])'
  BY <1>1, <1>3, SameCall DEF Inv
<1> QED
  BY <1>2, <1>3

\* A step of one call that changes nothing but the call.
LEMMA OnlyThreadsCall ==
  ASSUME Inv, NEW t \in Threads, NEW r, CallInv(r), Set(t, r), OnlyThreads
  PROVE  SessionInv' /\ \A u \in Threads : CallInv(th[u])'
<1>1. SameSession /\ SessionInv'
  BY DEF OnlyThreads, session, conns, SameSession, SessionInv, Inv, LostPort
<1> QED
  BY <1>1, OnlyCall

\* The user replaces the session, or a connection comes or goes.
LEMMA SessionStepInv ==
  ASSUME Inv, SessionStep
  PROVE  SessionInv' /\ \A u \in Threads : CallInv(th[u])'
<1> USE DEF Inv
<1>0. epoch \in Nat /\ epoch >= 1 /\ th' = th
  BY TypesBegin DEF SessionStep, Disconnect, EndSession, CloseHandles, SetCaptureKey, Install,
     StartSession, Accept, Leave, session, conns
<1>1. CASE Disconnect
  <2>1. SessionInv'
    BY <1>0, <1>1 DEF Disconnect, SessionInv, NoHandles, conns
  <2>2. ASSUME NEW u \in Threads PROVE CallInv(th[u])'
    <3>1. /\ CallInv(th[u]) /\ epoch' = epoch + 1 /\ born' = born /\ asked' = asked
          /\ th'[u] = th[u] /\ th[u].key \in Nat /\ th[u].e \in Nat /\ th[u].from \in Nat
      BY <1>0, <1>1, TypesBegin DEF Disconnect, conns, Call, Sessions
    <3> QED
      BY <1>0, <3>1 DEF CallInv, Shape, Filed, Once, Bound
  <2> QED
    BY <2>1, <2>2
<1>2. CASE EndSession \/ CloseHandles \/ SetCaptureKey
  <2>1. SessionInv'
    BY <1>0, <1>2 DEF EndSession, CloseHandles, SetCaptureKey, SessionInv, conns
  <2>2. ASSUME NEW u \in Threads PROVE CallInv(th[u])'
    <3>1. /\ CallInv(th[u]) /\ epoch' = epoch /\ born' = born /\ asked' = asked /\ eng' = eng
          /\ th'[u] = th[u] /\ life # "up"
      BY <1>0, <1>2 DEF EndSession, CloseHandles, SetCaptureKey, conns
    <3> QED
      BY <3>1 DEF CallInv, Shape, Filed, Once, Bound
  <2> QED
    BY <2>1, <2>2
<1>3. CASE StartSession
  <2>1. SessionInv'
    BY <1>0, <1>3 DEF StartSession, SessionInv, conns
  <2>2. ASSUME NEW u \in Threads PROVE CallInv(th[u])'
    <3>1. /\ CallInv(th[u]) /\ epoch' = epoch /\ born' = born /\ asked' = asked /\ eng' = eng
          /\ th'[u] = th[u] /\ life # "up"
      BY <1>0, <1>3 DEF StartSession, conns
    <3> QED
      BY <3>1 DEF CallInv, Shape, Filed, Once, Bound
  <2> QED
    BY <2>1, <2>2
<1>4. ASSUME NEW cfg \in Configs, NEW c \in Conns, NEW p \in Peers, Install(cfg, c, p)
      PROVE  SessionInv' /\ \A u \in Threads : CallInv(th[u])'
  <2>0. life = "keyed" /\ eng = NoHandles /\ epoch' = epoch /\ asked' = asked /\ cfg \in Config
        /\ cfg.net \in NetOf[cfg.mode]
    BY <1>4 DEF Install, SessionInv
  <2>1. SessionInv'
    <3>1. /\ eng'.port = (IF cfg.mode \in {"serial", "bridge"} THEN epoch ELSE 0)
          /\ eng'.endpoint = (IF cfg.mode \in {"serial", "bridge"} THEN epoch ELSE 0)
          /\ eng'.listener = (IF cfg.net = "listener" THEN epoch ELSE 0)
          /\ eng'.clients = (IF cfg.net = "tcp" THEN {c} ELSE {})
          /\ eng'.latest = NoConn
          /\ eng'.udp = (IF cfg.net = "udp" THEN epoch ELSE 0)
          /\ eng'.http = (IF cfg.mode = "http" THEN epoch ELSE 0)
          /\ mode' = cfg.mode /\ life' = "installed"
          /\ sessionID' = sessionID /\ captureKey' = captureKey
      BY <1>4 DEF Install, NoHandles
    <3>2. \A d \in eng'.clients : born'[d] = epoch
      BY <1>4, <3>1 DEF Install, TypeOK
    <3>3. /\ cfg.net = "tcp" \/ cfg.net = "listener" => cfg.mode \in {"bridge", "tcp"}
          /\ cfg.net = "udp" => cfg.mode # "tcp"
      BY <2>0 DEF NetOf, Config, Modes
    <3> QED
      BY <1>0, <2>0, <3>1, <3>2, <3>3 DEF SessionInv
  <2>2. ASSUME NEW u \in Threads PROVE CallInv(th[u])'
    <3>1. /\ CallInv(th[u]) /\ th'[u] = th[u] /\ th[u] \in Call
      BY <1>0, TypesBegin
    <3>2. ASSUME NEW d \in Conns, born[d] # 0 PROVE born'[d] = born[d]
      BY <1>4, <3>2 DEF Install, TypeOK
    <3>3. eng.endpoint = 0 /\ life # "up"
      BY <2>0 DEF NoHandles
    <3>4. Shape(th[u])' /\ Once(th[u])'
      BY <1>0, <2>0, <3>1, <3>3 DEF CallInv, Shape, Once
    <3>5. Filed(th[u])'
      BY <1>0, <2>0, <3>1, <3>2, <3>3 DEF CallInv, Filed, Bound, Call
    <3> QED
      BY <3>4, <3>5 DEF CallInv
  <2> QED
    BY <2>1, <2>2
<1>5. ASSUME NEW c \in Conns, Accept(c) PROVE SessionInv' /\ \A u \in Threads : CallInv(th[u])'
  <2>1. /\ \A d \in Conns : born'[d] = IF d = c THEN epoch ELSE born[d]
        /\ eng' = [eng EXCEPT !.clients = @ \cup {c}] /\ born[c] = 0 /\ eng \in EngType
        /\ epoch' = epoch /\ asked' = asked /\ life' = life /\ mode' = mode
        /\ sessionID' = sessionID /\ captureKey' = captureKey
    BY <1>5, TypesBegin DEF Accept, TypeOK
  <2>2. SessionInv'
    BY <1>0, <1>5, <2>1 DEF SessionInv, EngType, Accept
  <2>3. ASSUME NEW u \in Threads PROVE CallInv(th[u])'
    <3>1. CallInv(th[u]) /\ th'[u] = th[u] /\ th[u] \in Call /\ eng'.endpoint = eng.endpoint
      BY <1>0, <2>1, TypesBegin DEF EngType
    <3>2. Shape(th[u])' /\ Once(th[u])'
      BY <2>1, <3>1 DEF CallInv, Shape, Once, Pending, Owed, Again, Bound, LostPort, EngType
    <3>3. Filed(th[u])'
      BY <2>1, <3>1 DEF CallInv, Filed, Bound, Call
    <3> QED
      BY <3>2, <3>3 DEF CallInv
  <2> QED
    BY <2>2, <2>3
<1>6. ASSUME NEW c \in Conns, Leave(c) PROVE SessionInv' /\ \A u \in Threads : CallInv(th[u])'
  <2>1. SessionInv' /\ SameSession
    BY <1>0, <1>6, TypesBegin DEF Leave, SessionInv, SameSession, EngType, LostPort, NoHandles
  <2> QED
    BY <1>0, <2>1, SameCall
<1> QED
  BY <1>1, <1>2, <1>3, <1>4, <1>5, <1>6 DEF SessionStep

\* A session that loses its port or its socket stays the calls' session.
LEMMA LossInv ==
  ASSUME Inv, LoseSerial \/ LoseUDP
  PROVE  SessionInv' /\ \A u \in Threads : CallInv(th[u])'
<1> USE DEF Inv
<1>0. /\ eng' = [eng EXCEPT !.port = 0]
         \/ eng' = [eng EXCEPT !.udp = 0, !.udpPeer = NoPeer, !.dialed = FALSE]
      /\ eng \in EngType /\ life = "up" /\ th' = th
      /\ epoch' = epoch /\ life' = life /\ mode' = mode /\ born' = born /\ asked' = asked
      /\ sessionID' = sessionID /\ captureKey' = captureKey
  BY TypesBegin DEF LoseSerial, LoseUDP, conns
<1>1. /\ eng'.port \in {0, eng.port} /\ eng'.udp \in {0, eng.udp}
      /\ eng'.endpoint = eng.endpoint /\ eng'.listener = eng.listener
      /\ eng'.clients = eng.clients /\ eng'.latest = eng.latest /\ eng'.http = eng.http
  BY <1>0 DEF EngType
<1>2. SameSession
  BY <1>0, <1>1, SessionsFacts DEF SameSession, LostPort, EngType
<1>3. SessionInv'
  BY <1>0, <1>1 DEF SessionInv
<1> QED
  BY <1>0, <1>2, <1>3, SameCall

-----------------------------------------------------------------------------
(* The steps of a call                                                       *)

\* A call that has returned claims nothing but that its packets are recorded.
LEMMA ReturnInv ==
  ASSUME Inv, NEW t \in Threads, ~Pending(th[t]), th[t].at # "done", Return(t), OnlyThreads
  PROVE  SessionInv' /\ \A u \in Threads : CallInv(th[u])'
<1>1. /\ th[t] \in Call /\ CallInv(th[t]) /\ epoch \in Nat /\ 0 \in Sessions
  BY TypesBegin, SessionsFacts DEF Inv
<1>2. CallInv(Done(th[t]))
  BY <1>1 DEF Done, Idle, CallInv, Shape, Filed, Once, Pending, Owed, Again, Bound, Readers, Call
<1> QED
  BY <1>2, OnlyThreadsCall DEF Return

LEMMA ReadInv ==
  ASSUME Inv, NEW t \in Threads,
         \/ \E c \in Conns : ReadTCP(t, c)
         \/ \E p \in Peers : ReadUDP(t, p)
         \/ ReadSerial(t)
  PROVE  SessionInv' /\ \A u \in Threads : CallInv(th[u])'
<1> USE DEF Inv
<1>0. epoch \in Nat /\ epoch >= 1 /\ eng \in EngType
  BY TypesBegin
<1>9. life = "up"
  BY DEF ReadTCP, ReadUDP, ReadSerial, CanBegin
<1>1. ASSUME NEW c \in Conns, ReadTCP(t, c)
      PROVE  SessionInv' /\ \A u \in Threads : CallInv(th[u])'
  <2> DEFINE r == [Moved(Begin(t, "readTCP", "check"), epoch) EXCEPT
                     !.h = c, !.label = epoch, !.key = epoch]
  <2>0. /\ r.op = "readTCP" /\ r.at = "check" /\ r.via = "rx" /\ r.e = epoch /\ r.rest = {}
        /\ r.key = epoch /\ r.label = epoch /\ r.from = epoch /\ r.of = epoch /\ r.row = 0
        /\ r.due = 0 + 1
    BY DEF Moved, Begin, Idle
  <2> HIDE DEF r
  <2>1. CallInv(r)
    BY <1>0, <1>9, <2>0 DEF CallInv, Shape, Filed, Once, Pending, Owed, Again, Bound, Readers
  <2>2. SessionInv' /\ SameSession
    BY <1>0, <1>1 DEF ReadTCP, SessionInv, SameSession, EngType, LostPort, NoHandles, CanBegin
  <2> QED
    BY <1>1, <2>1, <2>2, OnlyCall DEF ReadTCP, r
<1>2. ASSUME NEW p \in Peers, ReadUDP(t, p)
      PROVE  SessionInv' /\ \A u \in Threads : CallInv(th[u])'
  <2> DEFINE r == [Moved(Begin(t, "readUDP", "peer"), epoch) EXCEPT
                     !.peer = p, !.label = epoch, !.key = epoch]
  <2>0. /\ r.op = "readUDP" /\ r.at = "peer" /\ r.via = "rx" /\ r.e = epoch /\ r.rest = {}
        /\ r.key = epoch /\ r.label = epoch /\ r.from = epoch /\ r.of = epoch /\ r.row = 0
        /\ r.due = 0 + 1
    BY DEF Moved, Begin, Idle
  <2> HIDE DEF r
  <2>1. CallInv(r)
    BY <1>0, <1>9, <2>0 DEF CallInv, Shape, Filed, Once, Pending, Owed, Again, Bound, Readers
  <2>2. SessionInv' /\ SameSession
    BY <1>0, <1>2 DEF ReadUDP, SessionInv, SameSession, EngType, LostPort, NoHandles, CanBegin, conns
  <2> QED
    BY <1>2, <2>1, <2>2, OnlyCall DEF ReadUDP, r
<1>3. CASE ReadSerial(t)
  <2> DEFINE r == [Moved(Begin(t, "readSerial", "label"), epoch) EXCEPT !.key = epoch]
  <2>0. /\ r.op = "readSerial" /\ r.at = "label" /\ r.via = "rx" /\ r.e = epoch /\ r.rest = {}
        /\ r.key = epoch /\ r.from = epoch /\ r.of = epoch /\ r.row = 0 /\ r.due = 0 + 1
    BY DEF Moved, Begin, Idle
  <2>1. eng.endpoint = epoch
    BY <1>0, <1>3 DEF ReadSerial, SessionInv
  <2> HIDE DEF r
  <2>2. CallInv(r)
    BY <1>0, <1>9, <2>0, <2>1 DEF CallInv, Shape, Filed, Once, Pending, Owed, Again, Bound, Readers
  <2> QED
    BY <1>3, <2>2, OnlyThreadsCall DEF ReadSerial, r
<1> QED
  BY <1>1, <1>2, <1>3

LEMMA ReaderStepInv ==
  ASSUME Inv, NEW t \in Threads, ReaderStep(t)
  PROVE  SessionInv' /\ \A u \in Threads : CallInv(th[u])'
<1> USE DEF Inv
<1>0. /\ epoch \in Nat /\ epoch >= 1 /\ eng \in EngType /\ th[t] \in Call /\ CallInv(th[t])
      /\ \A s \in Sessions : s \in Nat
  BY TypesBegin, SessionsFacts
<1>1. CASE \/ \E c \in Conns : ReadTCP(t, c)
           \/ \E p \in Peers : ReadUDP(t, p)
           \/ ReadSerial(t)
  BY <1>1, ReadInv
<1>2. CASE NotePeer(t)
  <2> DEFINE s == CASE th[t].op = "readUDP" /\ th[t].via = "rx" -> "check"
                    [] th[t].op = "readUDP" /\ th[t].via = "bridge" -> "label"
                    [] OTHER -> "new"
             r == [th[t] EXCEPT !.at = s]
  <2>0. /\ At(t, "peer")
        /\ \/ th[t].op = "readUDP" /\ th[t].via = "rx" /\ s = "check"
           \/ th[t].op = "readUDP" /\ th[t].via = "bridge" /\ s = "label"
           \/ th[t].op # "readUDP" /\ s = "new"
    BY <1>0, <1>2 DEF NotePeer, CallInv, Shape, At
  <2> HIDE DEF s
  <2>1. CallInv(r)
    BY <1>0, <2>0 DEF At, CallInv, Shape, Filed, Once, Pending, Owed, Again, Bound, Readers, Call
  <2>2. SessionInv' /\ SameSession
    BY <1>0, <1>2 DEF NotePeer, SessionInv, SameSession, session, conns, LostPort
  <2> QED
    BY <1>2, <2>1, <2>2, OnlyCall DEF NotePeer, Goto, s
<1>3. CASE SerialLabel(t)
  <2> DEFINE r == [th[t] EXCEPT !.label = eng.endpoint,
                                !.at = IF th[t].via = "rx" THEN "check" ELSE "active"]
  <2>1. CallInv(r)
    BY <1>0, <1>3 DEF SerialLabel, At, CallInv, Shape, Filed, Once, Pending, Owed, Again, Bound, Readers, Call
  <2> QED
    BY <1>3, <2>1, OnlyThreadsCall DEF SerialLabel
<1>4. CASE CheckEpoch(t)
  <2> DEFINE r == [th[t] EXCEPT !.at = IF epoch = th[t].key THEN "active" ELSE "after"]
  <2>1. CallInv(r)
    BY <1>0, <1>4 DEF CheckEpoch, At, CallInv, Shape, Filed, Once, Pending, Owed, Again, Bound, Readers, Call
  <2> QED
    BY <1>4, <2>1, OnlyThreadsCall DEF CheckEpoch, Goto
<1>5. CASE EmitPacket(t)
  <2> DEFINE r == [th[t] EXCEPT !.at = IF epoch = th[t].key THEN "store" ELSE "after"]
  <2>1. CallInv(r)
    BY <1>0, <1>5 DEF EmitPacket, At, CallInv, Shape, Filed, Once, Pending, Owed, Again, Bound, Readers, Call
  <2> QED
    BY <1>5, <2>1, OnlyThreadsCall DEF EmitPacket, Goto
<1>6. CASE Record(t)
  <2> DEFINE ok == sessionID # 0 /\ th[t].key = captureKey
             r == [th[t] EXCEPT !.row = IF ok THEN sessionID ELSE 0,
                                !.due = IF ok THEN @ - 1 ELSE @, !.at = "after"]
  <2>1. CallInv(r)
    BY <1>0, <1>6 DEF Record, At, CallInv, Shape, Filed, Once, Pending, Owed, Again, Bound, Readers, Call,
                      SessionInv
  <2> QED
    BY <1>6, <2>1, OnlyThreadsCall DEF Record
<1>7. CASE AfterRecord(t)
  <2>1. CASE Continue(th[t]) = "done"
    BY <1>0, <1>7, <2>1, ReturnInv DEF AfterRecord, Return, Pending, At
  <2>2. CASE Continue(th[t]) # "done"
    <3> DEFINE s == Continue(th[t])
               c == IF th[t].via = "broadcast" THEN NoConn ELSE th[t].h
               r == [th[t] EXCEPT !.at = s, !.key = 0, !.label = 0, !.row = 0, !.h = c]
    <3>0. /\ At(t, "after")
          /\ \/ th[t].op = "readSerial" /\ th[t].via = "rx" /\ s = "toNet"
             \/ th[t].op # "readSerial" /\ th[t].via = "rx" /\ s = "toSerial"
             \/ th[t].via = "broadcast" /\ s = "each"
             \/ th[t].op = "http" /\ th[t].via = "sent" /\ s = "response"
      BY <1>7, <2>2, Zenon DEF AfterRecord, Continue
    <3> HIDE DEF s, c
    <3>1. Shape(r)
      BY <1>0, <3>0 DEF At, CallInv, Shape, Readers, Call
    <3>2. Filed(r)
      BY <1>0, <3>0 DEF At, CallInv, Shape, Filed, Bound, Readers, Call
    <3>3. Once(r)
      BY <1>0, <3>0 DEF At, CallInv, Shape, Once, Pending, Owed, Again, Bound, Readers, Call
    <3> QED
      BY <1>7, <2>2, <3>1, <3>2, <3>3, OnlyThreadsCall DEF AfterRecord, s, c, CallInv
  <2> QED
    BY <2>1, <2>2
<1>8. CASE Finish(t)
  <2>1. CallInv(Idle)
    BY <1>0 DEF Idle, CallInv, Shape, Filed, Once, Pending, Owed, Again, Bound, Readers
  <2> QED
    BY <1>8, <2>1, OnlyThreadsCall DEF Finish
<1> QED
  BY <1>1, <1>2, <1>3, <1>4, <1>5, <1>6, <1>7, <1>8 DEF ReaderStep

LEMMA GotoInv ==
  ASSUME Inv, NEW t \in Threads, NEW s, CallInv([th[t] EXCEPT !.at = s]), Goto(t, s), OnlyThreads
  PROVE  SessionInv' /\ \A u \in Threads : CallInv(th[u])'
  BY OnlyThreadsCall DEF Goto

\* A broadcast goes on when a write fails, another call returns.
LEMMA FailInv ==
  ASSUME Inv, NEW t \in Threads, At(t, "tcpCheck") \/ At(t, "tcpWrite"), Fail(t), OnlyThreads
  PROVE  SessionInv' /\ \A u \in Threads : CallInv(th[u])'
<1>0. th[t] \in Call /\ CallInv(th[t])
  BY TypesBegin DEF Inv
<1>1. CASE th[t].via = "broadcast"
  <2>1. CallInv([th[t] EXCEPT !.h = NoConn, !.failed = TRUE, !.at = "each"])
    BY <1>0, <1>1 DEF At, CallInv, Shape, Filed, Once, Pending, Owed, Again, Bound, Readers, Call
  <2> QED
    BY <1>1, <2>1, OnlyThreadsCall DEF Fail
<1>2. CASE th[t].via # "broadcast"
  BY <1>2, ReturnInv DEF Fail, At, Pending
<1> QED
  BY <1>1, <1>2

LEMMA WriteStepInv ==
  ASSUME Inv, NEW t \in Threads, WriteStep(t)
  PROVE  SessionInv' /\ \A u \in Threads : CallInv(th[u])'
<1> USE DEF Inv
<1>0. /\ epoch \in Nat /\ epoch >= 1 /\ eng \in EngType /\ th[t] \in Call /\ CallInv(th[t])
      /\ \A s \in Sessions : s \in Nat
  BY TypesBegin, SessionsFacts
<1>1. CASE CheckPort(t)
  <2>1. CASE eng.port # 0 /\ epoch = th[t].e
    <3> DEFINE r == [th[t] EXCEPT !.of = eng.port, !.at = "portWrite"]
    <3>0. eng.port = epoch /\ eng.endpoint = epoch /\ mode # "tcp" /\ At(t, "toSerial")
      BY <1>1, <2>1 DEF CheckPort, SessionInv
    <3>1. CallInv(r)
      BY <1>0, <2>1, <3>0 DEF At, CallInv, Shape, Filed, Once, Pending, Owed, Again, Bound, Readers, Call
    <3> QED
      BY <1>1, <2>1, <3>1, OnlyThreadsCall DEF CheckPort
  <2>2. CASE ~(eng.port # 0 /\ epoch = th[t].e)
    BY <1>1, <2>2, ReturnInv DEF CheckPort, At, Pending
  <2> QED
    BY <2>1, <2>2
<1>2. CASE WritePort(t)
  <2>1. CASE Return(t)
    BY <1>2, <2>1, ReturnInv DEF WritePort, At, Pending
  <2>2. CASE ~Return(t)
    <3> DEFINE v == IF th[t].op = "send" THEN "sent" ELSE "bridge"
               s == CASE th[t].op = "send" -> "storeSent" [] th[t].op = "readUDP" -> "peer"
                      [] OTHER -> "label"
               r == [Moved(th[t], th[t].of) EXCEPT !.via = v, !.key = th[t].e, !.at = s]
    <3>0. At(t, "portWrite") /\ OnlyThreads /\ Set(t, r)
      BY <1>2, <2>2 DEF WritePort
    <3>1. \/ th[t].op = "send" /\ v = "sent" /\ s = "storeSent"
          \/ th[t].op = "readUDP" /\ v = "bridge" /\ s = "peer"
          \/ th[t].op = "readTCP" /\ v = "bridge" /\ s = "label"
      BY <1>0, <3>0 DEF CallInv, Shape, At
    <3> HIDE DEF v, s
    <3>2. Shape(r)
      BY <1>0, <3>0, <3>1 DEF At, CallInv, Shape, Readers, Call, Moved
    <3>3. Filed(r)
      BY <1>0, <3>0, <3>1 DEF At, CallInv, Shape, Filed, Bound, Readers, Call, Moved
    <3>4. Once(r)
      BY <1>0, <3>0, <3>1 DEF At, CallInv, Once, Pending, Owed, Again, Bound, Call, Moved
    <3> QED
      BY <3>0, <3>2, <3>3, <3>4, OnlyThreadsCall DEF CallInv
  <2> QED
    BY <2>1, <2>2
<1>3. CASE ForwardNetwork(t)
  <2> DEFINE r == th[t]
  <2>0. At(t, "toNet") /\ OnlyThreads /\ eng.latest \in asked \cup {NoConn}
    BY <1>3 DEF ForwardNetwork, SessionInv
  <2>1. CASE Return(t)
    BY <2>0, <2>1, ReturnInv DEF At, Pending
  <2>2. CASE Set(t, [r EXCEPT !.h = eng.latest, !.via = "latest", !.at = "lookup"])
    <3>1. CallInv([r EXCEPT !.h = eng.latest, !.via = "latest", !.at = "lookup"])
      BY <1>0, <2>0 DEF At, CallInv, Shape, Filed, Once, Pending, Owed, Again, Bound, Readers, Call
    <3> QED
      BY <2>0, <2>2, <3>1, OnlyThreadsCall
  <2>3. CASE Set(t, [r EXCEPT !.via = "broadcast", !.at = "snapshot"])
    <3>1. CallInv([r EXCEPT !.via = "broadcast", !.at = "snapshot"])
      BY <1>0, <2>0 DEF At, CallInv, Shape, Filed, Once, Pending, Owed, Again, Bound, Readers, Call
    <3> QED
      BY <2>0, <2>3, <3>1, OnlyThreadsCall
  <2>4. CASE Set(t, [r EXCEPT !.via = "udpBridge", !.at = "udpTarget"])
    <3>1. CallInv([r EXCEPT !.via = "udpBridge", !.at = "udpTarget"])
      BY <1>0, <2>0 DEF At, CallInv, Shape, Filed, Once, Pending, Owed, Again, Bound, Readers, Call
    <3> QED
      BY <2>0, <2>4, <3>1, OnlyThreadsCall
  <2> QED
    BY <1>3, <2>1, <2>2, <2>3, <2>4 DEF ForwardNetwork, Return
<1>4. CASE LookupConn(t)
  <2> DEFINE c == th[t].h
  <2>1. CASE c \in eng.clients /\ born[c] = epoch /\ born[c] = th[t].e
    <3>0. At(t, "lookup") /\ c \in Conns
      BY <1>0, <1>4, <2>1 DEF LookupConn, EngType
    <3>1. CallInv([th[t] EXCEPT !.at = "tcpCheck"])
      BY <1>0, <2>1, <3>0 DEF At, CallInv, Shape, Filed, Once, Pending, Owed, Again, Bound, Readers, Call
    <3> QED
      BY <1>4, <2>1, <3>1, GotoInv DEF LookupConn
  <2>2. CASE ~(c \in eng.clients /\ born[c] = epoch /\ born[c] = th[t].e)
    BY <1>4, <2>2, ReturnInv DEF LookupConn, At, Pending
  <2> QED
    BY <2>1, <2>2
<1>5. CASE SnapshotClients(t)
  <2> DEFINE r == [th[t] EXCEPT !.rest = IF epoch = th[t].e THEN eng.clients ELSE {}, !.at = "each"]
  <2>1. CallInv(r)
    BY <1>0, <1>5 DEF SnapshotClients, At, CallInv, Shape, Filed, Once, Pending, Owed, Again, Bound,
                      Readers, Call, SessionInv
  <2>2. CASE Return(t)
    BY <1>5, <2>2, ReturnInv DEF SnapshotClients, At, Pending
  <2> QED
    BY <1>5, <2>1, <2>2, OnlyThreadsCall DEF SnapshotClients
<1>6. CASE NextClient(t)
  <2>0. At(t, "each") /\ OnlyThreads
    BY <1>6 DEF NextClient
  <2>1. ASSUME NEW c \in th[t].rest,
               Set(t, [th[t] EXCEPT !.h = c, !.rest = @ \ {c}, !.at = "tcpCheck"])
        PROVE  SessionInv' /\ \A u \in Threads : CallInv(th[u])'
    <3> DEFINE r == [th[t] EXCEPT !.h = c, !.rest = @ \ {c}, !.at = "tcpCheck"]
    <3>1. CallInv(r)
      BY <1>0, <2>0 DEF At, CallInv, Shape, Filed, Once, Pending, Owed, Again, Bound, Readers, Call
    <3> QED
      BY <2>0, <2>1, <3>1, OnlyThreadsCall
  <2>2. CASE Goto(t, "storeSent") /\ th[t].op = "send"
    <3>1. CallInv([th[t] EXCEPT !.at = "storeSent"])
      BY <1>0, <2>0, <2>2 DEF At, CallInv, Shape, Filed, Once, Pending, Owed, Again, Bound, Readers, Call
    <3> QED
      BY <2>0, <2>2, <3>1, GotoInv
  <2>3. CASE Return(t)
    BY <2>0, <2>3, ReturnInv DEF At, Pending
  <2> QED
    BY <1>6, <2>1, <2>2, <2>3 DEF NextClient
<1>7. CASE CheckConn(t)
  <2>1. CASE Fail(t)
    BY <1>7, <2>1, FailInv DEF CheckConn
  <2>2. CASE ~Fail(t)
    <3>0. At(t, "tcpCheck") /\ Goto(t, "tcpWrite") /\ th[t].h \in Conns /\ OnlyThreads
      BY <1>0, <1>7, <2>2 DEF CheckConn, EngType
    <3>1. CallInv([th[t] EXCEPT !.at = "tcpWrite"])
      BY <1>0, <3>0 DEF At, CallInv, Shape, Filed, Once, Pending, Owed, Again, Bound, Readers, Call
    <3> QED
      BY <3>0, <3>1, GotoInv
  <2> QED
    BY <2>1, <2>2
<1>8. CASE WriteConn(t)
  <2>1. CASE Fail(t)
    BY <1>8, <2>1, FailInv DEF WriteConn
  <2>2. CASE ~Fail(t)
    <3> DEFINE b == born[th[t].h]
               s == IF th[t].op = "toConn" THEN "new" ELSE "active"
               r == [Moved(th[t], b) EXCEPT !.label = b, !.key = th[t].e, !.at = s]
    <3>0. At(t, "tcpWrite") /\ Set(t, r) /\ OnlyThreads
      BY <1>8, <2>2 DEF WriteConn
    <3>1. \/ th[t].op = "toConn" /\ th[t].via = "sent" /\ s = "new"
          \/ th[t].op # "toConn" /\ th[t].via \in {"broadcast", "latest"} /\ s = "active" /\ b = th[t].e
      BY <1>0, <3>0 DEF At, CallInv, Shape, Filed
    <3> HIDE DEF s, b
    <3>2. Shape(r)
      BY <1>0, <3>0, <3>1 DEF At, CallInv, Shape, Readers, Call, Moved
    <3>4. Filed(r)
      BY <1>0, <3>0, <3>1 DEF At, CallInv, Shape, Filed, Bound, Readers, Call, Moved
    <3>5. Once(r)
      BY <1>0, <3>0, <3>1 DEF At, CallInv, Once, Pending, Owed, Again, Bound, Call, Moved
    <3> QED
      BY <3>0, <3>2, <3>4, <3>5, OnlyThreadsCall DEF CallInv
  <2> QED
    BY <2>1, <2>2
<1>9. CASE UDPTarget(t)
  <2> DEFINE r == [th[t] EXCEPT !.of = eng.udp, !.peer = eng.udpPeer, !.at = "udpCheck"]
  <2>1. CASE Return(t)
    BY <1>9, <2>1, ReturnInv DEF UDPTarget, At, Pending
  <2>2. CASE ~Return(t)
    <3>0. /\ At(t, "udpTarget") /\ Set(t, r) /\ OnlyThreads /\ epoch = th[t].e /\ eng.udp = epoch
          /\ mode # "tcp"
      BY <1>9, <2>2 DEF UDPTarget, Return, SessionInv
    <3>1. CallInv(r)
      BY <1>0, <3>0 DEF At, CallInv, Shape, Filed, Once, Pending, Owed, Again, Bound, Readers, Call
    <3> QED
      BY <3>0, <3>1, OnlyThreadsCall
  <2> QED
    BY <2>1, <2>2
<1>10. CASE CheckUDP(t)
  <2>1. CASE Return(t)
    BY <1>10, <2>1, ReturnInv DEF CheckUDP, At, Pending
  <2>2. CASE Goto(t, "udpWrite")
    <3>1. CallInv([th[t] EXCEPT !.at = "udpWrite"])
      BY <1>0, <1>10 DEF CheckUDP, At, CallInv, Shape, Filed, Once, Pending, Owed, Again, Bound, Readers, Call
    <3> QED
      BY <1>10, <2>2, <3>1, GotoInv DEF CheckUDP
  <2> QED
    BY <1>10, <2>1, <2>2 DEF CheckUDP
<1>11. CASE WriteUDP(t)
  <2>1. CASE Return(t)
    BY <1>11, <2>1, ReturnInv DEF WriteUDP, At, Pending
  <2>2. CASE ~Return(t)
    <3> DEFINE r == [Moved(th[t], th[t].of) EXCEPT !.at = "udpNote"]
    <3>0. At(t, "udpWrite") /\ Set(t, r) /\ OnlyThreads
      BY <1>11, <2>2 DEF WriteUDP
    <3>1. CallInv(r)
      BY <1>0, <3>0 DEF At, CallInv, Shape, Filed, Once, Pending, Owed, Again, Bound, Readers, Call, Moved
    <3> QED
      BY <3>0, <3>1, OnlyThreadsCall
  <2> QED
    BY <2>1, <2>2
<1>12. CASE NoteSent(t)
  <2> DEFINE s == IF th[t].op = "send" THEN "storeSent" ELSE "peer"
             r == [th[t] EXCEPT !.label = th[t].of, !.at = s]
  <2>0. At(t, "udpNote") /\ Set(t, r)
    BY <1>12 DEF NoteSent
  <2>1. CallInv(r)
    BY <1>0, <2>0 DEF At, CallInv, Shape, Filed, Once, Pending, Owed, Again, Bound, Readers, Call
  <2>2. SessionInv' /\ SameSession
    BY <1>12 DEF NoteSent, SessionInv, SameSession, session, conns, LostPort
  <2> QED
    BY <2>0, <2>1, <2>2, OnlyCall
<1> QED
  BY <1>1, <1>2, <1>3, <1>4, <1>5, <1>6, <1>7, <1>8, <1>9, <1>10, <1>11, <1>12 DEF WriteStep

LEMMA BeginInv ==
  ASSUME Inv, NEW t \in Threads, CanBegin(t), NEW r \in Call, Set(t, r), OnlyThreads,
         r.e = epoch, r.from = epoch, r.of = 0, r.row = 0, r.key = 0, r.rest = {}, r.due = 0,
         \/ r.op = "http" /\ r.via = "rx" /\ r.at = "request"
         \/ r.op = "send" /\ r.via = "rx" /\ r.at = "route"
         \/ r.op = "sendNet" /\ r.via = "broadcast" /\ r.at = "snapshot"
         \/ r.op = "toConn" /\ r.via = "sent" /\ r.at = "tcpCheck"
         \/ r.op = "toUDP" /\ r.via = "sent" /\ r.at = "socket"
  PROVE  SessionInv' /\ \A u \in Threads : CallInv(th[u])'
<1>0. epoch \in Nat /\ epoch >= 1
  BY TypesBegin DEF Inv
<1>1. CallInv(r)
  BY <1>0 DEF CanBegin, CallInv, Shape, Filed, Once, Pending, Owed, Again, Bound, Readers
<1> QED
  BY <1>1, OnlyThreadsCall

LEMMA SendStepInv ==
  ASSUME Inv, NEW t \in Threads, SendStep(t)
  PROVE  SessionInv' /\ \A u \in Threads : CallInv(th[u])'
<1> USE DEF Inv
<1>0. /\ epoch \in Nat /\ epoch >= 1 /\ eng \in EngType /\ th[t] \in Call /\ CallInv(th[t])
      /\ \A s \in Sessions : s \in Nat
  BY TypesBegin, SessionsFacts
<1>1. CASE Send(t)
  <2>1. /\ Begin(t, "http", "request") \in Call /\ Begin(t, "send", "route") \in Call
    BY BeginType DEF Ops, Steps
  <2> QED
    BY <1>1, <2>1, BeginInv DEF Send, Begin, Idle
<1>2. CASE Route(t)
  <2>0. At(t, "route") /\ OnlyThreads
    BY <1>2 DEF Route
  <2>1. CASE Return(t)
    BY <2>0, <2>1, ReturnInv DEF At, Pending
  <2>2. CASE Goto(t, "sendSerial") \/ Goto(t, "sendUDP")
    <3>1. CallInv([th[t] EXCEPT !.at = "sendSerial"]) /\ CallInv([th[t] EXCEPT !.at = "sendUDP"])
      BY <1>0, <2>0 DEF At, CallInv, Shape, Filed, Once, Pending, Owed, Again, Bound, Readers, Call
    <3> QED
      BY <2>0, <2>2, <3>1, GotoInv
  <2>3. CASE Goto(t, "sendTCP") /\ eng.port = 0 /\ (eng.listener # 0 \/ eng.clients # {})
    <3>1. CallInv([th[t] EXCEPT !.at = "sendTCP"])
      BY <1>0, <2>0, <2>3 DEF At, CallInv, Shape, Filed, Once, Pending, Owed, Again, Bound, Readers, Call,
                              SessionInv, LostPort
    <3> QED
      BY <2>0, <2>3, <3>1, GotoInv
  <2> QED
    BY <1>2, <2>1, <2>2, <2>3 DEF Route
<1>3. CASE SendRouted(t)
  <2>1. CASE At(t, "sendSerial")
    <3> DEFINE r == [th[t] EXCEPT !.e = epoch, !.at = "toSerial"]
    <3>1. CallInv(r)
      BY <1>0, <2>1 DEF At, CallInv, Shape, Filed, Once, Pending, Owed, Again, Bound, Readers, Call
    <3> QED
      BY <1>3, <2>1, <3>1, OnlyThreadsCall DEF SendRouted, At
  <2>2. CASE At(t, "sendTCP")
    <3> DEFINE r == [th[t] EXCEPT !.e = epoch, !.via = "broadcast", !.at = "snapshot"]
    <3>1. CallInv(r)
      BY <1>0, <2>2 DEF At, CallInv, Shape, Filed, Once, Pending, Owed, Again, Bound, Readers, Call
    <3> QED
      BY <1>3, <2>2, <3>1, OnlyThreadsCall DEF SendRouted, At
  <2>3. CASE At(t, "sendUDP") /\ ~Return(t)
    <3> DEFINE r == [th[t] EXCEPT !.e = epoch, !.of = eng.udp, !.via = "sent",
                                  !.peer = eng.udpPeer, !.at = "udpCheck"]
    <3>0. Set(t, r) /\ OnlyThreads /\ mode # "tcp"
      BY <1>3, <2>3 DEF SendRouted, At, SessionInv
    <3>1. CallInv(r)
      BY <1>0, <2>3, <3>0 DEF At, CallInv, Shape, Filed, Once, Pending, Owed, Again, Bound, Readers, Call
    <3> QED
      BY <3>0, <3>1, OnlyThreadsCall
  <2>4. CASE At(t, "sendUDP") /\ Return(t)
    BY <1>3, <2>4, ReturnInv DEF SendRouted, At, Pending
  <2> QED
    BY <1>3, <2>1, <2>2, <2>3, <2>4 DEF SendRouted
<1>4. CASE StoreSent(t)
  <2> DEFINE l == CASE mode \in {"serial", "bridge"}        -> eng.endpoint
                    [] mode = "udp" /\ eng.udpPeer # NoPeer -> epoch
                    [] OTHER                                -> 0
             s == IF mode = "tcp" THEN "after" ELSE "new"
             r == [th[t] EXCEPT !.via = "sent", !.label = l, !.at = s]
  <2>0. At(t, "storeSent") /\ Set(t, r) /\ OnlyThreads
    BY <1>4 DEF StoreSent
  <2>1. CallInv(r)
    <3> HIDE DEF l
    <3> QED
      BY <1>0, <2>0 DEF At, CallInv, Shape, Filed, Once, Pending, Owed, Again, Bound, Readers, Call
  <2> QED
    BY <2>0, <2>1, OnlyThreadsCall
<1>5. CASE NewPacket(t)
  <2> DEFINE r == [th[t] EXCEPT !.key = epoch, !.at = "active"]
  <2>1. CallInv(r)
    BY <1>0, <1>5 DEF NewPacket, At, CallInv, Shape, Filed, Once, Pending, Owed, Again, Bound, Readers, Call
  <2> QED
    BY <1>5, <2>1, OnlyThreadsCall DEF NewPacket
<1>6. CASE SendNetwork(t)
  <2>1. Begin(t, "sendNet", "snapshot") \in Call
    BY BeginType DEF Ops, Steps
  <2>2. [Begin(t, "sendNet", "snapshot") EXCEPT !.via = "broadcast"] \in Call
    BY <2>1 DEF Call, Vias
  <2> QED
    BY <1>6, <2>2, BeginInv DEF SendNetwork, Begin, Idle
<1>7. ASSUME NEW c \in Conns, SendToConnection(t, c)
      PROVE  SessionInv' /\ \A u \in Threads : CallInv(th[u])'
  <2>1. Begin(t, "toConn", "tcpCheck") \in Call
    BY BeginType DEF Ops, Steps
  <2>2. [Begin(t, "toConn", "tcpCheck") EXCEPT !.via = "sent", !.h = c] \in Call
    BY <2>1 DEF Call, Vias
  <2> QED
    BY <1>7, <2>2, BeginInv DEF SendToConnection, Begin, Idle
<1>8. ASSUME NEW p \in Peers \cup {NoPeer}, SendToPeer(t, p)
      PROVE  SessionInv' /\ \A u \in Threads : CallInv(th[u])'
  <2>1. Begin(t, "toUDP", "socket") \in Call
    BY BeginType DEF Ops, Steps
  <2>2. [Begin(t, "toUDP", "socket") EXCEPT !.via = "sent", !.peer = p] \in Call
    BY <2>1 DEF Call, Vias
  <2> QED
    BY <1>8, <2>2, BeginInv DEF SendToPeer, Begin, Idle
<1>9. CASE SendUDP(t)
  BY <1>0, <1>8, <1>9 DEF SendUDP, EngType
<1>10. CASE SendToUDP(t)
  <2>1. CASE Return(t)
    BY <1>10, <2>1, ReturnInv DEF SendToUDP, At, Pending
  <2>2. CASE ~Return(t)
    <3> DEFINE r == [th[t] EXCEPT !.e = epoch, !.of = eng.udp, !.at = "udpCheck"]
    <3>0. At(t, "socket") /\ Set(t, r) /\ OnlyThreads
      BY <1>10, <2>2 DEF SendToUDP
    <3>1. CallInv(r)
      BY <1>0, <3>0 DEF At, CallInv, Shape, Filed, Once, Pending, Owed, Again, Bound, Readers, Call
    <3> QED
      BY <3>0, <3>1, OnlyThreadsCall
  <2> QED
    BY <2>1, <2>2
<1>11. CASE HTTPRequest(t)
  <2>1. CASE Return(t)
    BY <1>11, <2>1, ReturnInv DEF HTTPRequest, At, Pending
  <2>2. CASE ~Return(t)
    <3> DEFINE r == [Moved(th[t], eng.http) EXCEPT !.via = "sent", !.at = "storeSent"]
    <3>0. At(t, "request") /\ Set(t, r) /\ OnlyThreads /\ mode = "http"
      BY <1>11, <2>2 DEF HTTPRequest, Return, SessionInv
    <3>1. CallInv(r)
      BY <1>0, <3>0 DEF At, CallInv, Shape, Filed, Once, Pending, Owed, Again, Bound, Readers, Call, Moved
    <3> QED
      BY <3>0, <3>1, OnlyThreadsCall
  <2> QED
    BY <2>1, <2>2
<1>12. CASE Receive(t)
  <2>1. CASE Return(t)
    BY <1>12, <2>1, ReturnInv DEF Receive, At, Pending
  <2>2. CASE ~Return(t)
    <3> DEFINE r == [Moved(th[t], th[t].of) EXCEPT !.via = "http", !.label = 0, !.key = epoch,
                                                   !.at = "check"]
    <3>0. At(t, "response") /\ Set(t, r) /\ OnlyThreads
      BY <1>12, <2>2 DEF Receive
    <3>1. CallInv(r)
      BY <1>0, <3>0 DEF At, CallInv, Shape, Filed, Once, Pending, Owed, Again, Bound, Readers, Call, Moved
    <3> QED
      BY <3>0, <3>1, OnlyThreadsCall
  <2> QED
    BY <2>1, <2>2
<1> QED
  BY <1>1, <1>2, <1>3, <1>4, <1>5, <1>6, <1>7, <1>8, <1>9, <1>10, <1>11, <1>12 DEF SendStep

-----------------------------------------------------------------------------
(* Theorems                                                                  *)

LEMMA NextInv == Inv /\ [Next]_vars => Inv'
<1> SUFFICES ASSUME Inv, [Next]_vars PROVE Inv'
  OBVIOUS
<1>1. TypeOK'
  BY NextTypes DEF Inv, CallInv
<1>2. CASE UNCHANGED vars
  <2>1. SameSession /\ SessionInv' /\ th' = th
    BY <1>2 DEF vars, session, conns, SameSession, Inv, SessionInv, LostPort
  <2> QED
    BY <1>1, <2>1, SameCall DEF Inv
<1> QED
  BY <1>1, <1>2, SessionStepInv, LossInv, ReaderStepInv, WriteStepInv, SendStepInv DEF Next, Inv

LEMMA SpecInv == Spec => []Inv
  BY InitInv, NextInv, PTL DEF Spec

\* The variables keep their types, whatever is called in whichever order.
THEOREM TypeCorrect == Spec => []TypeOK
<1>1. Inv => TypeOK
  BY DEF Inv
<1> QED
  BY <1>1, SpecInv, PTL

\* However many goroutines read and send while sessions are replaced, a packet that
\* carries the epoch of its transfer is filed under the session whose handle it
\* passed: receivePacket, emitPacket and Record each look at the epoch alone.
THEOREM RecordsStay == Spec => []RecordsStayInTheirSession
<1>1. Inv => RecordsStayInTheirSession
  BY DEF Inv, CallInv, Filed, RecordsStayInTheirSession
<1> QED
  BY <1>1, SpecInv, PTL

\* What a reader got is bridged in its own session: writeSerialAt, broadcastPackets,
\* connectionByID and writeUDP compare the epoch that the reader began with.
THEOREM BridgingStays == Spec => []BridgingStaysInSession
<1>1. Inv => BridgingStaysInSession
  BY DEF Inv, CallInv, Filed, Readers, BridgingStaysInSession
<1> QED
  BY <1>1, SpecInv, PTL

\* A reply to the latest requester goes to a connection that asked, in the session
\* that is answered: bridgeRequester is one of the clients or nobody.
THEOREM RepliesReach == Spec => []RepliesReachRequesters
<1>1. Inv => RepliesReachRequesters
  <2> SUFFICES ASSUME Inv, NEW t \in Threads, th[t].via = "latest",
                      th[t].at \in {"tcpCheck", "tcpWrite"}
               PROVE  th[t].h \in asked /\ born[th[t].h] = th[t].from
    BY DEF RepliesReachRequesters
  <2>1. Filed(th[t])
    BY DEF Inv, CallInv
  <2> QED
    BY <2>1 DEF Filed, Readers
<1> QED
  BY <1>1, SpecInv, PTL

\* As long as its session lasts, every chunk that is read and every write that
\* succeeds becomes one row: broadcastPackets records what Send would record in
\* storeSent, and for no other mode.
THEOREM RecordedOnce == Spec => []EveryTransferIsRecordedOnce
<1>1. Inv => EveryTransferIsRecordedOnce
  BY DEF Inv, CallInv, Once, Pending, Owed, Again, At, EveryTransferIsRecordedOnce
<1> QED
  BY <1>1, SpecInv, PTL
=============================================================================
