----------------------- MODULE MobileSessionProofs -----------------------
(***************************************************************************)
(* Proofs about MobileSession, for any number of calls and of coroutines   *)
(* of send, and any set of kinds.  The inductive invariant says who holds  *)
(* operationLock and what a call has in its hands (Calls), in which order  *)
(* calls wait (Line), who replaces whom (Newest), what the state shows     *)
(* (Session, Told), that a sender that writes has a connection (Sending),  *)
(* and who closes what a connection has open (Links).                      *)
(***************************************************************************)
EXTENDS MobileSession, TLAPS

Still == {"idle", "wait", "returned"}
Opening == {"check", "announce", "open", "opened"}
Closing == {"close", "shut", "cancel", "join"}

\* What a call of connect or disconnect has in its hands: while it acts there is no
\* connection, and what it closes is its own or one a call that has returned left.
CallFits(o) ==
  /\ op[o].pc \in Still \cup Opening \cup Closing
  /\ op[o].pc \in Opening => op[o].call = "connect" /\ op[o].target = 0
  /\ op[o].call = "connect" => op[o].kind \in Kinds
  /\ op[o].pc \in Opening \cup Closing => connection = 0
  /\ op[o].pc \in Closing =>
       /\ op[o].target \in Tokens
       /\ op[o].target = o \/ op[op[o].target].pc = "returned"
       /\ op[o].target = o => op[o].call = "connect"
       /\ op[o].call \in {"connect", "disconnect"}
  /\ op[o].pc \in Still => op[o].target = 0
  /\ op[o].pc = "idle" <=> o > generation

\* One call acts at a time, the first of the queue.
Calls ==
  /\ \A o \in Ops : op[o].pc \notin Still => queue # <<>> /\ Head(queue) = o
  /\ \A o \in Tokens : CallFits(o)
  /\ connection # 0 => op[connection].pc = "returned"

\* Calls of connect and disconnect wait in the order of their generations.
Line ==
  /\ \A o \in Tokens : op[o].pc \notin {"idle", "returned"} =>
        \E i \in 1 .. Len(queue) : queue[i] = o
  /\ \A i, j \in 1 .. Len(queue) :
        i < j /\ queue[i] \in Tokens /\ queue[j] \in Tokens => queue[i] < queue[j]
  /\ \A i \in 1 .. Len(queue) : queue[i] \in Tokens => queue[i] <= generation

\* A call or a connection that has been replaced has its replacement waiting.
Newest ==
  /\ \A o \in Tokens : op[o].pc \notin {"idle", "returned"} /\ o # generation =>
        op[generation].pc = "wait"
  /\ connection \notin {0, generation} => op[generation].pc = "wait"

Session ==
  connection # 0 => state.of = connection /\ state.name \in {"Connected", "Reconnecting"}

-----------------------------------------------------------------------------
(* What the threads of a connection touch *)

\* Callbacks and readers leave the calls alone, and may only drop the connection.
LEMMA RunAlone ==
    ASSUME NEW c \in Tokens, ReaderStep(c) \/ PeerStep(c)
    PROVE  /\ UNCHANGED <<generation, queue, op>>
           /\ connection' = connection \/ (generation = c /\ connection' = 0)
<1> USE DEF Reader
<1>1. CASE PeerStep(c)
  BY <1>1 DEF PeerStep, OnBytes, ReadEnds, UdpLoopEnds, BleDrops, UsbDetached, ServerAccepts,
       ServerFails, LinkLost, Redials, LoopEndsAfterBytes
<1>2. CASE FinalReports(c) \/ UsbReports(c)
  BY <1>2 DEF FinalReports, UsbReports, OnClosed
<1>3. CASE ReaderStep(c) /\ ~FinalReports(c) /\ ~UsbReports(c)
  BY <1>3 DEF ReaderStep, FinalCloses, FinalMarks, ServerAttaches, ReaderStarts, ReaderNeverRuns,
       LoopEnds, LoopGoesOn, ReportsLoss, DropsRedialed, KeepsRedialed, Adopts, ReportsRegained
<1> QED
  BY <1>1, <1>2, <1>3

-----------------------------------------------------------------------------
(* Types *)

LEMMA InitTypes == Init => TypeOK
BY MobileAssumption DEF Init, TypeOK, NoOp, NoConn, CallType, ConnType, Handle, Fresh, ReaderAt,
     Receiver, Status, Show, Ops, Tokens


OpTyped == op \in [Ops -> CallType]
ConnTyped == conn \in [Tokens -> ConnType]
RestTyped ==
  /\ generation \in 0 .. MaxGeneration
  /\ queue \in Seq(Ops)
  /\ connection \in 0 .. MaxGeneration
  /\ state \in [name : {"Disconnected", "Connecting", "Connected", "Reconnecting", "Failed"},
                of : 0 .. MaxGeneration]

LEMMA ReturnTypes ==
    ASSUME OpTyped, queue \in Seq(Ops), NEW o \in Ops, Return(o), queue # <<>>
    PROVE  OpTyped' /\ queue' \in Seq(Ops)
BY MobileAssumption DEF OpTyped, Return, NoOp, CallType

LEMMA GotoTypes ==
    ASSUME OpTyped, NEW o \in Ops,
           NEW pc \in {"check", "announce", "open", "opened", "close", "shut", "cancel", "join",
                       "record"}, Goto(o, pc)
    PROVE  OpTyped'
BY DEF OpTyped, Goto, CallType

LEMMA TargetTypes ==
    ASSUME OpTyped, NEW o \in Ops, NEW t \in 0 .. MaxGeneration,
           NEW pc \in {"check", "close", "write"},
           Aim(o, t, pc)
    PROVE  OpTyped'
<1>1. op[o] \in CallType
  BY DEF OpTyped
<1>2. [op[o] EXCEPT !.target = t, !.pc = pc] \in CallType
  BY <1>1, ZenonT(30) DEF CallType
<1>3. op' = [op EXCEPT ![o] = [op[o] EXCEPT !.target = t, !.pc = pc]]
  BY DEF OpTyped, Aim
<1> QED
  BY <1>2, <1>3 DEF OpTyped

LEMMA OpTypes ==
    ASSUME TypeOK, Next
    PROVE  OpTyped' /\ queue' \in Seq(Ops)
<1> USE DEF TypeOK
<1> OpTyped
  BY DEF OpTyped
<1>1. CASE CallConnect \/ CallDisconnect
  <2>1. PICK call \in {"connect", "disconnect"}, kind \in Kinds \cup {"none"} : Call(call, kind)
    BY <1>1 DEF CallConnect, CallDisconnect
  <2>2. generation + 1 \in Ops
    BY <2>1, MobileAssumption DEF Call, Tokens, Ops
  <2>3. [pc |-> "wait", call |-> call, kind |-> kind, target |-> 0] \in CallType
    BY MobileAssumption DEF CallType
  <2> QED
    BY <2>1, <2>2, <2>3 DEF Call, OpTyped
<1>2. ASSUME NEW s \in Senders, CallSend(s)
      PROVE  OpTyped' /\ queue' \in Seq(Ops)
  <2>1. NoOp \in CallType
    BY MobileAssumption DEF CallType, NoOp
  <2>2. \A r \in CallType : [r EXCEPT !.pc = "wait", !.call = "send"] \in CallType
    BY DEF CallType
  <2>3. s \in Ops /\ queue' = Append(queue, s)
    BY <1>2 DEF CallSend, Ops
  <2>4. PICK r \in CallType : op' = [op EXCEPT ![s] = r]
    BY <1>2, <2>1, <2>2 DEF CallSend
  <2> QED
    BY <2>3, <2>4 DEF OpTyped
<1>3. ASSUME NEW s \in Senders, SendStep(s)
      PROVE  OpTyped' /\ queue' \in Seq(Ops)
  <2> s \in Ops
    BY DEF Ops
  <2>1. CASE SendTakes(s)
    BY <2>1, ReturnTypes, TargetTypes DEF SendTakes, Holds
  <2>2. CASE Written(s)
    BY <2>2, GotoTypes DEF Written
  <2>3. CASE WriteFails(s) \/ RecordSent(s)
    BY <2>3, ReturnTypes DEF WriteFails, RecordSent, Holds
  <2> QED
    BY <1>3, <2>1, <2>2, <2>3 DEF SendStep
<1>4. ASSUME NEW o \in Tokens, OpStep(o)
      PROVE  OpTyped' /\ queue' \in Seq(Ops)
  <2> o \in Ops /\ o \in 0 .. MaxGeneration
    BY DEF Ops, Tokens
  <2>1. CASE Superseded(o) \/ OpenFails(o) \/ OpenTimesOut(o) \/ CloseThrows(o)
    BY <2>1, ReturnTypes DEF Superseded, OpenFails, OpenTimesOut, CloseThrows, Holds
  <2>2. CASE StillWanted(o) \/ Announce(o) \/ OpenSucceeds(o) \/ CloseMarks(o) \/ CloseCancels(o)
    BY <2>2, GotoTypes DEF StillWanted, Announce, OpenSucceeds, CloseMarks, CloseCancels
  <2>3. CASE Accept(o)
    BY <2>3, ReturnTypes, TargetTypes DEF Accept, Holds
  <2>4. CASE ConnectTakes(o)
    BY <2>4, TargetTypes DEF ConnectTakes
  <2>5. CASE DisconnectTakes(o)
    BY <2>5, ReturnTypes, TargetTypes DEF DisconnectTakes, Holds
  <2>6. ASSUME AfterClose(o), queue # <<>>
        PROVE  OpTyped' /\ queue' \in Seq(Ops)
    BY <2>6, ReturnTypes, TargetTypes, MobileAssumption DEF AfterClose
  <2>7. CASE CloseShuts(o)
    <3>1. queue # <<>> /\ (AfterClose(o) \/ (Goto(o, "cancel") /\ UNCHANGED queue))
      BY <2>7 DEF CloseShuts, Holds
    <3>2. CASE Goto(o, "cancel") /\ UNCHANGED queue
      BY <3>2, GotoTypes
    <3> QED
      BY <2>6, <3>1, <3>2
  <2>8. CASE CloseJoins(o)
    BY <2>6, <2>8 DEF CloseJoins, Holds
  <2> QED
    BY <1>4, <2>1, <2>2, <2>3, <2>4, <2>5, <2>7, <2>8 DEF OpStep
<1>5. ASSUME NEW c \in Tokens, ReaderStep(c) \/ PeerStep(c)
      PROVE  OpTyped' /\ queue' \in Seq(Ops)
  BY <1>5, RunAlone DEF OpTyped
<1> QED
  BY <1>1, <1>2, <1>3, <1>4, <1>5 DEF Next

\* A connection with a field changed is a connection.
LEMMA ConnEdit ==
    ASSUME NEW r \in ConnType
    PROVE  /\ \A b \in BOOLEAN :
              [r EXCEPT !.closed = b] \in ConnType
           /\ \A b \in BOOLEAN :
              [r EXCEPT !.cancelled = b] \in ConnType
           /\ \A b \in BOOLEAN :
              [r EXCEPT !.early = b] \in ConnType
           /\ \A t \in Status :
              [r EXCEPT !.status = t] \in ConnType
           /\ \A m \in Handle :
              [r EXCEPT !.main = m] \in ConnType
           /\ \A x \in ReaderAt :
              [r EXCEPT !.reader = x] \in ConnType
           /\ \A v \in Receiver :
              [r EXCEPT !.receiver = v] \in ConnType
           /\ \A b \in BOOLEAN, x \in ReaderAt :
              [r EXCEPT !.closed = b, !.reader = x] \in ConnType
           /\ \A f \in Fresh, x \in ReaderAt :
              [r EXCEPT !.fresh = f, !.reader = x] \in ConnType
           /\ \A m \in Handle, x \in ReaderAt :
              [r EXCEPT !.main = m, !.reader = x] \in ConnType
           /\ \A m \in Handle, f \in Fresh, x \in ReaderAt :
              [r EXCEPT !.main = m, !.fresh = f, !.reader = x] \in ConnType
           /\ \A b \in BOOLEAN, m \in Handle, v \in Receiver :
              [r EXCEPT !.closed = b, !.main = m, !.receiver = v] \in ConnType
           /\ \A m \in Handle, s \in Handle, v \in Receiver :
              [r EXCEPT !.main = m, !.server = s, !.receiver = v] \in ConnType
<1>1. \A b \in BOOLEAN :
          [r EXCEPT !.closed = b] \in ConnType
  BY ZenonT(30) DEF ConnType, Handle, Fresh, ReaderAt, Receiver, Status
<1>2. \A b \in BOOLEAN :
          [r EXCEPT !.cancelled = b] \in ConnType
  BY ZenonT(30) DEF ConnType, Handle, Fresh, ReaderAt, Receiver, Status
<1>3. \A b \in BOOLEAN :
          [r EXCEPT !.early = b] \in ConnType
  BY ZenonT(30) DEF ConnType, Handle, Fresh, ReaderAt, Receiver, Status
<1>4. \A t \in Status :
          [r EXCEPT !.status = t] \in ConnType
  BY ZenonT(30) DEF ConnType, Handle, Fresh, ReaderAt, Receiver, Status
<1>5. \A m \in Handle :
          [r EXCEPT !.main = m] \in ConnType
  BY ZenonT(30) DEF ConnType, Handle, Fresh, ReaderAt, Receiver, Status
<1>6. \A x \in ReaderAt :
          [r EXCEPT !.reader = x] \in ConnType
  BY ZenonT(30) DEF ConnType, Handle, Fresh, ReaderAt, Receiver, Status
<1>7. \A v \in Receiver :
          [r EXCEPT !.receiver = v] \in ConnType
  BY ZenonT(30) DEF ConnType, Handle, Fresh, ReaderAt, Receiver, Status
<1>8. \A b \in BOOLEAN, x \in ReaderAt :
          [r EXCEPT !.closed = b, !.reader = x] \in ConnType
  BY ZenonT(30) DEF ConnType, Handle, Fresh, ReaderAt, Receiver, Status
<1>9. \A f \in Fresh, x \in ReaderAt :
          [r EXCEPT !.fresh = f, !.reader = x] \in ConnType
  BY ZenonT(30) DEF ConnType, Handle, Fresh, ReaderAt, Receiver, Status
<1>10. \A m \in Handle, x \in ReaderAt :
          [r EXCEPT !.main = m, !.reader = x] \in ConnType
  BY ZenonT(30) DEF ConnType, Handle, Fresh, ReaderAt, Receiver, Status
<1>11. \A m \in Handle, f \in Fresh, x \in ReaderAt :
          [r EXCEPT !.main = m, !.fresh = f, !.reader = x] \in ConnType
  BY ZenonT(30) DEF ConnType, Handle, Fresh, ReaderAt, Receiver, Status
<1>12. \A b \in BOOLEAN, m \in Handle, v \in Receiver :
          [r EXCEPT !.closed = b, !.main = m, !.receiver = v] \in ConnType
  BY ZenonT(30) DEF ConnType, Handle, Fresh, ReaderAt, Receiver, Status
<1>13. \A m \in Handle, s \in Handle, v \in Receiver :
          [r EXCEPT !.main = m, !.server = s, !.receiver = v] \in ConnType
  BY ZenonT(30) DEF ConnType, Handle, Fresh, ReaderAt, Receiver, Status
<1> QED
  BY <1>1, <1>2, <1>3, <1>4, <1>5, <1>6, <1>7, <1>8, <1>9, <1>10, <1>11, <1>12, <1>13

\* What a failed opening leaves is closed or has no address, and nobody reads it.
LEMMA LeftFits ==
    ASSUME NEW k \in Kinds \cap {"ble", "udp", "tcpServer"}
    PROVE  /\ Left(k) \in ConnType
           /\ Left(k).kind = k /\ ~Left(k).closed /\ Left(k).reader = "ended"
           /\ Left(k).fresh = "none" /\ Left(k).receiver = "off" /\ ~Left(k).early
           /\ Left(k).server = (IF k = "tcpServer" THEN "open" ELSE "none")
<1>1. /\ (CASE k = "udp" -> "open" [] k = "ble" -> "closed" [] OTHER -> "none") \in Handle
      /\ (IF k = "tcpServer" THEN "open" ELSE "none") \in Handle
  BY DEF Handle
<1> DEFINE m == CASE k = "udp" -> "open" [] k = "ble" -> "closed" [] OTHER -> "none"
           v == IF k = "tcpServer" THEN "open" ELSE "none"
<1>2. Left(k) = [NoConn EXCEPT !.kind = k, !.main = m, !.server = v]
  BY DEF Left
<1>3. m \in Handle /\ v \in Handle
  BY <1>1
<1> HIDE DEF m, v
<1>4. Left(k) = [kind |-> k, closed |-> FALSE, main |-> m, server |-> v,
                 fresh |-> "none", reader |-> "ended", receiver |-> "off",
                 cancelled |-> FALSE, early |-> FALSE, status |-> "none"]
  BY <1>2 DEF NoConn
<1>5. Left(k) \in ConnType
  BY <1>3, <1>4 DEF ConnType, Fresh, ReaderAt, Receiver, Status
<1> QED
  BY <1>4, <1>5 DEF v

LEMMA ConnTypesOfCalls ==
    ASSUME TypeOK, Calls, NEW o \in Tokens, OpStep(o)
    PROVE  ConnTyped'
<1> USE DEF ConnTyped
<1> ConnTyped /\ o \in Ops
  BY DEF TypeOK, Ops
<1>1. CASE OpenSucceeds(o)
  <2>1. \A k \in Kinds : Opened(k) \in ConnType
    BY MobileAssumption DEF Opened, NoConn, ConnType, Handle, Fresh, ReaderAt, Receiver, Status
  <2>2. op[o].kind \in Kinds
    BY <1>1 DEF OpenSucceeds, Holds, Calls, CallFits, Opening
  <2> QED
    BY <1>1, <2>1, <2>2 DEF OpenSucceeds
<1>2. ASSUME op[o].pc \in Closing, CloseMarks(o) \/ CloseShuts(o) \/ CloseThrows(o) \/ CloseCancels(o)
      PROVE  ConnTyped'
  <2>1. Target(o) \in Tokens
    BY <1>2 DEF Calls, CallFits, Target
  <2>2. conn[Target(o)] \in ConnType
    BY <2>1
  <2>3. conn[Target(o)].main \in Handle /\ conn[Target(o)].server \in Handle
        /\ conn[Target(o)].receiver \in Receiver
    BY <2>2 DEF ConnType
  <2>4. Shut(conn[Target(o)].main) \in Handle /\ Shut(conn[Target(o)].server) \in Handle
        /\ Unregister(conn[Target(o)].receiver) \in Receiver
    BY <2>3 DEF Shut, Unregister, Handle, Receiver
  <2>6. CASE CloseMarks(o)
    BY <2>1, <2>2, <2>6, ConnEdit DEF CloseMarks
  <2>7. CASE CloseCancels(o)
    BY <2>1, <2>2, <2>7, ConnEdit DEF CloseCancels
  <2>8. CASE CloseThrows(o)
    BY <2>1, <2>2, <2>4, <2>8, ConnEdit DEF CloseThrows
  <2>9. CASE CloseShuts(o)
    <3>1. ShutAll(conn[Target(o)]) \in ConnType
      BY <2>2, <2>4, ConnEdit, Zenon DEF ShutAll
    <3> QED
      BY <2>1, <2>9, <3>1 DEF CloseShuts
  <2> QED
    BY <1>2, <2>6, <2>7, <2>8, <2>9
<1>3. CASE UNCHANGED conn
  BY <1>3
<1>4. CASE OpenFails(o) \/ OpenTimesOut(o)
  <2>1. op[o].kind \in Kinds
    BY <1>4 DEF OpenFails, OpenTimesOut, Holds, Calls, CallFits, Opening
  <2>2. PICK k \in Kinds : k = op[o].kind
    BY <2>1
  <2>3. conn' = conn \/ (k \in {"ble", "udp", "tcpServer"} /\ conn' = [conn EXCEPT ![o] = Left(k)])
    BY <1>4, <2>2 DEF OpenFails, OpenTimesOut
  <2> QED
    BY <2>3, LeftFits
<1> QED
  BY <1>1, <1>2, <1>3, <1>4 DEF OpStep, Superseded, StillWanted, Announce, Accept, ConnectTakes,
       DisconnectTakes, CloseMarks, CloseShuts, CloseThrows, CloseCancels, CloseJoins, Holds, Closing

LEMMA ConnTypesOfReaders ==
    ASSUME TypeOK, NEW c \in Tokens, ReaderStep(c) \/ PeerStep(c)
    PROVE  ConnTyped'
<1> USE DEF ConnTyped
<1>1. ConnTyped /\ conn[c] \in ConnType
  BY DEF TypeOK
<1>2. conn[c].main \in Handle /\ conn[c].server \in Handle /\ conn[c].fresh \in Fresh
      /\ conn[c].receiver \in Receiver /\ conn[c].early \in BOOLEAN
  BY <1>1 DEF ConnType
<1>3. Shut(conn[c].main) \in Handle /\ Shut(conn[c].server) \in Handle
      /\ Unregister(conn[c].receiver) \in Receiver /\ conn[c].fresh \in Handle
  BY <1>2 DEF Shut, Unregister, Handle, Receiver, Fresh
<1> HIDE DEF ConnTyped
<1>4. ASSUME NEW r \in ConnType, conn' = [conn EXCEPT ![c] = r]
      PROVE  ConnTyped'
  BY <1>1, <1>4 DEF ConnTyped
<1>5. ASSUME NEW from, NEW to \in ReaderAt, Reader(c, from, to)
      PROVE  ConnTyped'
  BY <1>1, <1>4, <1>5, ConnEdit DEF Reader
<1>6. CASE ReadEnds(c) \/ UdpLoopEnds(c) \/ ServerFails(c) \/ LoopEndsAfterBytes(c)
           \/ ReaderStarts(c) \/ ReaderNeverRuns(c) \/ LoopEnds(c) \/ LoopGoesOn(c) \/ KeepsRedialed(c)
  BY <1>5, <1>6 DEF ReadEnds, UdpLoopEnds, ServerFails, LoopEndsAfterBytes, ReaderStarts,
       ReaderNeverRuns, LoopEnds, LoopGoesOn, KeepsRedialed, ReaderAt
<1>7. CASE BleDrops(c) \/ FinalMarks(c)
  BY <1>1, <1>4, <1>7, ConnEdit DEF BleDrops, FinalMarks, ReaderAt
<1>8. CASE ServerAccepts(c) \/ Redials(c) \/ DropsRedialed(c)
  BY <1>1, <1>4, <1>8, ConnEdit DEF ServerAccepts, Redials, DropsRedialed, ReaderAt, Fresh
<1>9. CASE ServerAttaches(c) \/ Adopts(c)
  BY <1>1, <1>3, <1>4, <1>9, ConnEdit DEF ServerAttaches, Adopts, ReaderAt, Fresh
<1>10. CASE LinkLost(c)
  <2>1. \A x \in ReaderAt : [conn[c] EXCEPT !.main = Shut(conn[c].main), !.reader = x] \in ConnType
    BY <1>1, <1>3, ConnEdit, Zenon
  <2> QED
    BY <1>4, <1>10, <2>1 DEF LinkLost, ReaderAt
<1>11. CASE UsbDetached(c)
  <2>1. TRUE \in BOOLEAN /\ "callback" \in Receiver
    BY DEF Receiver
  <2>2. [conn[c] EXCEPT !.closed = TRUE, !.main = Shut(conn[c].main), !.receiver = "callback"] \in ConnType
    BY <1>1, <1>3, <2>1, ConnEdit, Zenon
  <2> QED
    BY <1>4, <1>11, <2>2 DEF UsbDetached
<1>12. CASE FinalCloses(c)
  <2>1. "notify" \in ReaderAt
    BY DEF ReaderAt
  <2>2. ShutAll(conn[c]) \in ConnType
    BY <1>1, <1>3, ConnEdit, Zenon DEF ShutAll
  <2>3. [ShutAll(conn[c]) EXCEPT !.reader = "notify"] \in ConnType
    BY <2>1, <2>2, ConnEdit, Zenon
  <2> QED
    BY <1>4, <1>12, <2>3 DEF FinalCloses
<1>13. CASE OnBytes(c)
  BY <1>1, <1>13 DEF OnBytes, ConnTyped
<1>14. ASSUME NEW r \in ConnType, OnClosed(c, r)
       PROVE  ConnTyped'
  BY <1>4, <1>14, ConnEdit DEF OnClosed
<1>15. CASE FinalReports(c) \/ UsbReports(c)
  BY <1>1, <1>14, <1>15, ConnEdit DEF FinalReports, UsbReports, ReaderAt, Receiver
<1>16. ASSUME NEW r \in ConnType, NEW name \in Status, OnStatus(c, name, r)
       PROVE  ConnTyped'
  <2>1. r.status \in Status
    BY DEF ConnType
  <2>2. \A t \in Status : [r EXCEPT !.status = t] \in ConnType
    BY ConnEdit
  <2>3. [r EXCEPT !.status = IF generation = c THEN name ELSE @] \in ConnType
    BY <1>16, <2>1, <2>2
  <2> QED
    BY <1>4, <1>16, <2>3 DEF OnStatus
<1>17. CASE ReportsLoss(c) \/ ReportsRegained(c)
  BY <1>1, <1>16, <1>17, ConnEdit DEF ReportsLoss, ReportsRegained, ReaderAt, Status
<1> QED
  BY <1>6, <1>7, <1>8, <1>9, <1>10, <1>11, <1>12, <1>13, <1>15, <1>17 DEF ReaderStep, PeerStep

Names == {"Disconnected", "Connecting", "Connected", "Reconnecting", "Failed"}

LEMMA RestTypes ==
    ASSUME TypeOK, Next
    PROVE  /\ generation' \in 0 .. MaxGeneration
           /\ connection' \in 0 .. MaxGeneration
           /\ state' \in [name : Names, of : 0 .. MaxGeneration]
<1> USE MobileAssumption DEF TypeOK, Names
<1>1. CASE CallConnect \/ CallDisconnect
  <2>1. generation < MaxGeneration /\ generation' = generation + 1 /\ UNCHANGED <<connection, state>>
    BY <1>1 DEF CallConnect, CallDisconnect, Call
  <2> QED
    BY <2>1
<1>2. ASSUME NEW s \in Senders, CallSend(s) \/ SendStep(s)
      PROVE  UNCHANGED <<generation, connection, state>>
  BY <1>2 DEF CallSend, SendStep, SendTakes, Written, WriteFails, RecordSent
<1>3. ASSUME NEW o \in Tokens, OpStep(o)
      PROVE  /\ generation' = generation
             /\ connection' \in {connection, 0, o}
             /\ state' = state \/ \E n \in Names : state' = Show(n, o)
  BY <1>3 DEF OpStep, Superseded, StillWanted, Announce, OpenSucceeds, OpenFails, OpenTimesOut,
       Accept, ConnectTakes, DisconnectTakes, CloseMarks, CloseShuts, CloseThrows, CloseCancels,
       CloseJoins
<1>4. ASSUME NEW c \in Tokens, ReaderStep(c) \/ PeerStep(c)
      PROVE  state' = state \/ \E n \in Names : state' = Show(n, c)
  <2>1. CASE PeerStep(c)
    BY <2>1 DEF PeerStep, OnBytes, ReadEnds, UdpLoopEnds, BleDrops, UsbDetached, ServerAccepts,
         ServerFails, LinkLost, Redials, LoopEndsAfterBytes, Reader
  <2>2. CASE ReaderStep(c)
    BY <2>2 DEF ReaderStep, FinalCloses, FinalMarks, FinalReports, UsbReports, ServerAttaches,
         ReaderStarts, ReaderNeverRuns, LoopEnds, LoopGoesOn, ReportsLoss, DropsRedialed,
         KeepsRedialed, Adopts, ReportsRegained, OnClosed, OnStatus, Reader
  <2> QED
    BY <1>4, <2>1, <2>2
<1>5. \A t \in Tokens : /\ t \in 0 .. MaxGeneration
                        /\ \A n \in Names : Show(n, t) \in [name : Names, of : 0 .. MaxGeneration]
  BY DEF Tokens, Show
<1>6. state \in [name : Names, of : 0 .. MaxGeneration]
  OBVIOUS
<1> QED
  <2> HIDE DEF Names
  <2>1. CASE CallConnect \/ CallDisconnect
    BY <1>1, <1>6, <2>1
  <2>2. ASSUME NEW s \in Senders, CallSend(s) \/ SendStep(s)
        PROVE  UNCHANGED <<generation, connection, state>>
    BY <1>2, <2>2
  <2>3. ASSUME NEW o \in Tokens, OpStep(o)
        PROVE  /\ generation' = generation
               /\ connection' \in 0 .. MaxGeneration
               /\ state' \in [name : Names, of : 0 .. MaxGeneration]
    BY <1>3, <1>5, <1>6, <2>3
  <2>4. ASSUME NEW c \in Tokens, ReaderStep(c) \/ PeerStep(c)
        PROVE  /\ generation' = generation
               /\ connection' \in 0 .. MaxGeneration
               /\ state' \in [name : Names, of : 0 .. MaxGeneration]
    BY <1>4, <1>5, <1>6, <2>4, RunAlone
  <2> QED
    BY <1>6, <2>1, <2>2, <2>3, <2>4, <1>1 DEF Next

LEMMA Types == TypeOK /\ Calls /\ [Next]_vars => TypeOK'
<1>1. ASSUME TypeOK, Calls, Next
      PROVE  ConnTyped'
  <2>1. CASE CallConnect \/ CallDisconnect
    BY <1>1, <2>1 DEF CallConnect, CallDisconnect, Call, ConnTyped, TypeOK
  <2>2. ASSUME NEW s \in Senders, CallSend(s) \/ SendStep(s)
        PROVE  ConnTyped'
    BY <1>1, <2>2 DEF CallSend, SendStep, SendTakes, Written, WriteFails, RecordSent, ConnTyped, TypeOK
  <2> QED
    BY <1>1, <2>1, <2>2, ConnTypesOfCalls, ConnTypesOfReaders DEF Next
<1>2. ASSUME TypeOK, Calls, Next
      PROVE  TypeOK'
  BY <1>1, <1>2, OpTypes, RestTypes DEF TypeOK, ConnTyped, OpTyped, Names
<1> QED
  BY <1>2 DEF vars, TypeOK

-----------------------------------------------------------------------------
(* The lock and the order of the calls *)

\* A step of a call moves that call and no other: it goes on or returns.
Moves(o) ==
  /\ queue # <<>> /\ Head(queue) = o
  /\ \A p \in Ops : p # o => op'[p] = op[p]
  /\ \/ queue' = queue /\ op'[o].pc \notin Still
     \/ queue' = Tail(queue) /\ op'[o].pc = IF o \in Tokens THEN "returned" ELSE "idle"

LEMMA ReturnMoves ==
    ASSUME OpTyped, NEW o \in Ops, queue # <<>>, Head(queue) = o, Return(o)
    PROVE  /\ Moves(o)
           /\ op'[o].pc = IF o \in Tokens THEN "returned" ELSE "idle"
           /\ op'[o].target = 0 /\ op'[o].call = "none"
BY DEF Moves, Return, NoOp, OpTyped

LEMMA GotoMoves ==
    ASSUME OpTyped, NEW o \in Ops, queue # <<>>, Head(queue) = o, queue' = queue,
           NEW pc, pc \notin Still, Goto(o, pc)
    PROVE  /\ Moves(o)
           /\ op'[o].pc = pc /\ op'[o].target = op[o].target
           /\ op'[o].call = op[o].call /\ op'[o].kind = op[o].kind
BY DEF Moves, Goto, OpTyped, CallType

LEMMA TargetMoves ==
    ASSUME OpTyped, NEW o \in Ops, queue # <<>>, Head(queue) = o, queue' = queue,
           NEW t, NEW pc, pc \notin Still, Aim(o, t, pc)
    PROVE  /\ Moves(o)
           /\ op'[o].pc = pc /\ op'[o].target = t
           /\ op'[o].call = op[o].call /\ op'[o].kind = op[o].kind
BY DEF Moves, Aim, OpTyped, CallType

LEMMA AfterCloseMoves ==
    ASSUME OpTyped, NEW o \in Tokens, queue # <<>>, Head(queue) = o, AfterClose(o)
    PROVE  /\ Moves(o)
           /\ op'[o].target = 0
           /\ \/ op'[o].pc = "returned" /\ op'[o].call = "none"
              \/ /\ op'[o].pc = "check" /\ op[o].call = "connect" /\ op'[o].call = op[o].call
                 /\ op'[o].kind = op[o].kind /\ op[o].target # o
<1> o \in Ops
  BY DEF Ops
<1>1. CASE op[o].call = "connect" /\ Target(o) # o
  BY <1>1, TargetMoves DEF AfterClose, Still, Target
<1>2. CASE ~(op[o].call = "connect" /\ Target(o) # o)
  BY <1>2, ReturnMoves DEF AfterClose, Moves, Still
<1> QED
  BY <1>1, <1>2

LEMMA AfterCloseReturns ==
    ASSUME OpTyped, NEW o \in Tokens, queue # <<>>, Head(queue) = o, AfterClose(o)
    PROVE  \/ op'[o].pc = "check"
           \/ op'[o].pc = "returned" /\ ~(op[o].call = "connect" /\ op[o].target # o)
<1> o \in Ops
  BY DEF Ops
<1>1. CASE op[o].call = "connect" /\ Target(o) # o
  BY <1>1, TargetMoves DEF AfterClose, Still, Target
<1>2. CASE ~(op[o].call = "connect" /\ Target(o) # o)
  BY <1>2, ReturnMoves DEF AfterClose, Target
<1> QED
  BY <1>1, <1>2

LEMMA CallMoves ==
    ASSUME TypeOK, Calls, NEW o \in Tokens, OpStep(o)
    PROVE  /\ Moves(o)
           /\ CallFits(o)'
           /\ generation' = generation
           /\ op[o].pc \notin {"idle", "returned"}
           /\ \/ connection' = 0
              \/ connection' = o /\ o = generation /\ op'[o].pc = "returned"
           /\ op'[o].pc \in Opening \cup Closing \cup {"returned"}
<1> o \in Ops /\ OpTyped /\ CallFits(o) /\ o # 0
  BY DEF Ops, TypeOK, OpTyped, Calls, Tokens
<1> USE DEF Still, Opening, Closing
<1>0. ASSUME Moves(o), NEW c \in Tokens, op[c].pc = "returned", c # o
      PROVE  op'[c].pc = "returned"
  BY <1>0 DEF Moves, Ops
<1>a. connection # 0 => connection \in Tokens /\ op[connection].pc = "returned"
  BY DEF TypeOK, Tokens, Calls
<1>1. CASE Superseded(o)
  BY <1>1, ReturnMoves DEF Superseded, Holds, CallFits, Moves
<1>2. CASE OpenFails(o) \/ OpenTimesOut(o) \/ CloseThrows(o)
  BY <1>2, ReturnMoves DEF OpenFails, OpenTimesOut, CloseThrows, Holds, CallFits, Moves
<1>3. CASE StillWanted(o) \/ Announce(o) \/ OpenSucceeds(o)
  BY <1>3, GotoMoves DEF StillWanted, Announce, OpenSucceeds, Holds, CallFits
<1>4. CASE CloseMarks(o) \/ CloseCancels(o)
  BY <1>0, <1>4, GotoMoves DEF CloseMarks, CloseCancels, Holds, CallFits
<1>5. CASE Accept(o)
  BY <1>5, ReturnMoves, TargetMoves DEF Accept, Holds, CallFits
<1>6. CASE ConnectTakes(o)
  BY <1>0, <1>a, <1>6, TargetMoves DEF ConnectTakes, Holds, CallFits
<1>7. CASE DisconnectTakes(o)
  BY <1>0, <1>a, <1>7, ReturnMoves, TargetMoves DEF DisconnectTakes, Holds, CallFits
<1>8. CASE CloseShuts(o)
  BY <1>0, <1>8, GotoMoves, AfterCloseMoves DEF CloseShuts, Holds, CallFits
<1>9. CASE CloseJoins(o)
  BY <1>9, AfterCloseMoves DEF CloseJoins, Holds, CallFits
<1> QED
  BY <1>1, <1>2, <1>3, <1>4, <1>5, <1>6, <1>7, <1>8, <1>9 DEF OpStep

LEMMA SendMoves ==
    ASSUME TypeOK, Calls, NEW s \in Senders, SendStep(s)
    PROVE  Moves(s) /\ UNCHANGED <<generation, connection, state, conn>>
<1> s \in Ops /\ OpTyped
  BY DEF Ops, TypeOK, OpTyped
<1>1. CASE SendTakes(s)
  BY <1>1, ReturnMoves, TargetMoves DEF SendTakes, Holds, Still
<1>2. CASE Written(s)
  BY <1>2, GotoMoves DEF Written, Holds, Still
<1>3. CASE WriteFails(s) \/ RecordSent(s)
  BY <1>3, ReturnMoves DEF WriteFails, RecordSent, Holds
<1> QED
  BY <1>1, <1>2, <1>3 DEF SendStep

Order == Calls /\ Line /\ Newest

\* A call that acts or waits is in the queue, so no other acts, and what waits
\* behind it has a later generation.
LEMMA OthersWait ==
    ASSUME TypeOK, Order, queue # <<>>, NEW p \in Tokens, p # Head(queue),
           op[p].pc \notin {"idle", "returned"}
    PROVE  /\ op[p].pc = "wait"
           /\ \E i \in 2 .. Len(queue) : queue[i] = p
           /\ Head(queue) \in Tokens => Head(queue) < generation
<1>1. op[p].pc = "wait"
  BY DEF Order, Calls, Still, Ops
<1>2. PICK i \in 1 .. Len(queue) : queue[i] = p
  BY DEF Order, Line
<1>3. queue \in Seq(Ops) /\ Head(queue) = queue[1]
  BY DEF TypeOK
<1>4. i \in 2 .. Len(queue)
  BY <1>2, <1>3
<1>5. ASSUME Head(queue) \in Tokens
      PROVE  Head(queue) < generation
  <2>1. 1 < i /\ 1 \in 1 .. Len(queue)
    BY <1>3, <1>4
  <2>2. queue[1] < p /\ p <= generation
    BY <1>2, <1>3, <1>5, <2>1 DEF Order, Line
  <2>3. queue[1] \in Int /\ p \in Int /\ generation \in Int
    BY <1>3, <1>5, MobileAssumption DEF TypeOK, Tokens
  <2> QED
    BY <1>3, <2>2, <2>3
<1> QED
  BY <1>1, <1>2, <1>4, <1>5

LEMMA CallsMoved ==
    ASSUME TypeOK, Order, NEW o \in Ops, Moves(o), generation' = generation,
           \/ connection' = connection
           \/ connection' = 0
           \/ connection' = o /\ op'[o].pc = "returned",
           o \in Tokens => CallFits(o)' /\ op[o].pc # "returned"
    PROVE  Calls'
<1>1. ASSUME NEW p \in Ops, op'[p].pc \notin Still
      PROVE  queue' # <<>> /\ Head(queue') = p
  BY <1>1 DEF Moves, Order, Calls, Still
<1>2. ASSUME NEW p \in Tokens, p # o
      PROVE  CallFits(p)'
  <2>1. op'[p] = op[p] /\ CallFits(p) /\ op[p].pc \in Still
    BY <1>2 DEF Moves, Order, Calls, Ops
  <2> QED
    BY <2>1 DEF CallFits, Still, Opening, Closing
<1>3. ASSUME connection' # 0
      PROVE  op'[connection'].pc = "returned"
  <2>1. CASE connection' = connection
    <3>1. connection \in Tokens /\ op[connection].pc = "returned"
      BY <1>3, <2>1 DEF TypeOK, Tokens, Order, Calls
    <3>2. connection # o
      BY <3>1
    <3> QED
      BY <2>1, <3>1, <3>2 DEF Moves, Ops
  <2> QED
    BY <1>3, <2>1
<1> QED
  BY <1>1, <1>2, <1>3 DEF Calls

LEMMA LineMoved ==
    ASSUME TypeOK, Order, NEW o \in Ops, Moves(o), generation' = generation,
           o \in Tokens => op[o].pc \notin {"idle", "returned"}
    PROVE  Line'
<1>1. queue \in Seq(Ops) /\ queue # <<>> /\ Head(queue) = o
  BY DEF TypeOK, Moves
<1>2. ASSUME NEW p \in Tokens, op'[p].pc \notin {"idle", "returned"}
      PROVE  \E i \in 1 .. Len(queue') : queue'[i] = p
  <2>1. op[p].pc \notin {"idle", "returned"}
    BY <1>2 DEF Moves, Ops
  <2>2. CASE queue' = queue
    BY <2>1, <2>2 DEF Order, Line
  <2>3. CASE queue' = Tail(queue) /\ op'[o].pc = IF o \in Tokens THEN "returned" ELSE "idle"
    <3>1. p # o
      BY <1>2, <2>3
    <3>2. PICK i \in 2 .. Len(queue) : queue[i] = p
      BY <1>1, <2>1, <3>1, OthersWait
    <3>3. i - 1 \in 1 .. Len(queue') /\ queue'[i - 1] = p
      BY <1>1, <2>3, <3>2
    <3> QED
      BY <3>3
  <2> QED
    BY <2>2, <2>3 DEF Moves
<1>3. /\ \A i, j \in 1 .. Len(queue') :
            i < j /\ queue'[i] \in Tokens /\ queue'[j] \in Tokens => queue'[i] < queue'[j]
      /\ \A i \in 1 .. Len(queue') : queue'[i] \in Tokens => queue'[i] <= generation
  <2>1. CASE queue' = queue
    BY <2>1 DEF Order, Line
  <2>2. CASE queue' = Tail(queue)
    <3>1. \A i \in 1 .. Len(queue') : i + 1 \in 1 .. Len(queue) /\ queue'[i] = queue[i + 1]
      BY <1>1, <2>2
    <3>2. \A i, j \in 1 .. Len(queue') : i < j => i + 1 < j + 1
      BY <1>1, <2>2
    <3> QED
      BY <3>1, <3>2 DEF Order, Line
  <2> QED
    BY <2>1, <2>2 DEF Moves
<1> QED
  BY <1>2, <1>3 DEF Line

LEMMA NewestMoved ==
    ASSUME TypeOK, Order, NEW o \in Ops, Moves(o), generation' = generation,
           o \in Tokens => /\ op[o].pc \notin {"idle", "returned"}
                           /\ connection' \in {0, generation},
           o \notin Tokens => connection' = connection
    PROVE  Newest'
<1>1. ASSUME NEW p \in Tokens, op'[p].pc \notin {"idle", "returned"}, p # generation
      PROVE  op'[generation].pc = "wait"
  <2>1. op[p].pc \notin {"idle", "returned"}
    BY <1>1 DEF Moves, Ops
  <2>2. op[generation].pc = "wait" /\ generation \in Tokens
    <3>1. p <= generation
      BY <2>1, MobileAssumption DEF Order, Calls, CallFits, TypeOK, Tokens
    <3> QED
      BY <1>1, <2>1, <3>1, MobileAssumption DEF Order, Newest, TypeOK, Tokens
  <2>3. CASE generation = o
    <3>1. queue # <<>> /\ Head(queue) = o
      BY DEF Moves
    <3>2. o < o
      BY <1>1, <2>1, <2>2, <2>3, <3>1, OthersWait
    <3> QED
      BY <2>2, <2>3, <3>2 DEF Tokens
  <2>4. CASE generation # o
    BY <2>2, <2>4 DEF Moves, Ops
  <2> QED
    BY <2>3, <2>4
<1>2. ASSUME connection' \notin {0, generation}
      PROVE  op'[generation].pc = "wait"
  <2>1. o \notin Tokens /\ connection' = connection
    BY <1>2
  <2>2. op[generation].pc = "wait"
    BY <1>2, <2>1 DEF Order, Newest
  <2>3. generation \in Tokens
    <3>1. connection \in Tokens /\ op[connection].pc = "returned"
      BY <1>2, <2>1 DEF TypeOK, Tokens, Order, Calls
    <3>2. connection <= generation
      BY <3>1, MobileAssumption DEF Order, Calls, CallFits, TypeOK, Tokens
    <3> QED
      BY <3>1, <3>2, MobileAssumption DEF TypeOK, Tokens
  <2> QED
    BY <2>1, <2>2, <2>3 DEF Moves, Ops
<1> QED
  BY <1>1, <1>2 DEF Newest

\* A call joins the end of the queue.
Joining(o) ==
  /\ op[o].pc = "idle" /\ op'[o].pc = "wait"
  /\ \A p \in Ops : p # o => op'[p] = op[p]
  /\ queue' = Append(queue, o)
  /\ connection' = connection
  /\ generation' = IF o \in Tokens THEN o ELSE generation
  /\ o \in Tokens => o = generation + 1

LEMMA OrderJoined ==
    ASSUME TypeOK, Order, NEW o \in Ops, Joining(o), o \in Tokens => CallFits(o)'
    PROVE  Order'
<1>1. queue \in Seq(Ops) /\ generation \in Nat /\ generation' \in Nat /\ generation <= generation'
  BY MobileAssumption DEF TypeOK, Joining, Tokens
<1>2. ASSUME NEW p \in Ops, op'[p].pc \notin Still
      PROVE  queue' # <<>> /\ Head(queue') = p
  <2>1. op[p].pc \notin Still
    BY <1>2 DEF Joining, Still
  <2>2. queue # <<>> /\ Head(queue) = p
    BY <2>1 DEF Order, Calls
  <2> QED
    BY <1>1, <2>2 DEF Joining
<1>3. ASSUME NEW p \in Tokens, op[p].pc = "returned"
      PROVE  op'[p].pc = "returned"
  BY <1>3 DEF Joining, Ops
<1>4. ASSUME NEW p \in Tokens, p # o
      PROVE  CallFits(p)'
  <2>1. op'[p] = op[p] /\ CallFits(p)
    BY <1>4 DEF Joining, Ops, Order, Calls
  <2>2. op'[p].pc = "idle" <=> p > generation'
    <3>1. generation' = generation \/ (generation' = o /\ o = generation + 1)
      BY DEF Joining
    <3> QED
      BY <1>1, <1>4, <2>1, <3>1 DEF CallFits, Tokens
  <2>3. connection' = connection
    BY DEF Joining
  <2> QED
    BY <1>3, <2>1, <2>2, <2>3 DEF CallFits
<1>5. connection' # 0 => op'[connection'].pc = "returned"
  BY <1>3 DEF Joining, TypeOK, Tokens, Order, Calls
<1>6. Calls'
  BY <1>2, <1>4, <1>5 DEF Calls
<1>7. /\ Len(queue') = Len(queue) + 1
      /\ queue'[Len(queue) + 1] = o
      /\ \A i \in 1 .. Len(queue) : i \in 1 .. Len(queue') /\ queue'[i] = queue[i]
      /\ \A i \in 1 .. Len(queue') : i = Len(queue) + 1 \/ i \in 1 .. Len(queue)
      /\ Len(queue) \in Nat
  BY <1>1 DEF Joining
<1>8. ASSUME NEW p \in Tokens, op'[p].pc \notin {"idle", "returned"}
      PROVE  \E i \in 1 .. Len(queue') : queue'[i] = p
  <2>1. CASE p = o
    BY <1>7, <2>1
  <2>2. CASE p # o
    <3>1. PICK i \in 1 .. Len(queue) : queue[i] = p
      BY <1>8, <2>2 DEF Joining, Ops, Order, Line
    <3> QED
      BY <1>7, <3>1
  <2> QED
    BY <2>1, <2>2
<1>9. ASSUME NEW i \in 1 .. Len(queue'), queue'[i] \in Tokens
      PROVE  queue'[i] <= generation'
  <2>1. CASE i = Len(queue) + 1
    BY <1>1, <1>7, <1>9, <2>1 DEF Joining, Tokens
  <2>2. CASE i \in 1 .. Len(queue)
    BY <1>1, <1>7, <1>9, <2>2 DEF Order, Line, Tokens
  <2> QED
    BY <1>7, <2>1, <2>2
<1>10. ASSUME NEW i \in 1 .. Len(queue'), NEW j \in 1 .. Len(queue'), i < j,
              queue'[i] \in Tokens, queue'[j] \in Tokens
       PROVE  queue'[i] < queue'[j]
  <2>1. i \in 1 .. Len(queue)
    BY <1>7, <1>10
  <2>2. CASE j = Len(queue) + 1
    <3>1. queue'[j] = generation + 1
      BY <1>7, <1>10, <2>2 DEF Joining
    <3>2. queue'[i] <= generation
      BY <1>7, <1>10, <2>1 DEF Order, Line
    <3> QED
      BY <1>1, <1>10, <3>1, <3>2 DEF Tokens
  <2>3. CASE j \in 1 .. Len(queue)
    BY <1>7, <1>10, <2>1, <2>3 DEF Order, Line
  <2> QED
    BY <1>7, <2>2, <2>3
<1>11. Line'
  BY <1>8, <1>9, <1>10 DEF Line
<1>12. Newest'
  <2>1. CASE o \in Tokens
    BY <2>1 DEF Joining, Newest
  <2>2. CASE o \notin Tokens
    <3>1. UNCHANGED <<generation, connection>> /\ \A p \in Tokens : op'[p] = op[p]
      BY <2>2 DEF Joining, Ops
    <3>2. generation \in Tokens \/ generation = 0
      BY MobileAssumption DEF TypeOK, Tokens
    <3>3. generation = 0 => \A p \in Tokens : op[p].pc = "idle"
      BY DEF Order, Calls, CallFits, Tokens
    <3>4. generation = 0 => connection = 0
      BY <3>3 DEF Order, Calls, TypeOK, Tokens
    <3> QED
      BY <3>1, <3>2, <3>3, <3>4 DEF Order, Newest
  <2> QED
    BY <2>1, <2>2
<1> QED
  BY <1>6, <1>11, <1>12 DEF Order

LEMMA OrderKept ==
    ASSUME TypeOK, Order, Next
    PROVE  Order'
<1> Calls
  BY DEF Order
<1>1. ASSUME NEW call \in {"connect", "disconnect"}, NEW kind, call = "connect" => kind \in Kinds,
             Call(call, kind)
      PROVE  Order'
  <2>0. PICK o \in Tokens : o = generation + 1
    BY <1>1, MobileAssumption DEF Call, TypeOK, Tokens
  <2>1. o \in Ops /\ op[o].pc = "idle" /\ generation \in Nat
    BY <2>0, MobileAssumption DEF TypeOK, Tokens, Ops, Calls, CallFits
  <2>2. op'[o] = [pc |-> "wait", call |-> call, kind |-> kind, target |-> 0]
    BY <1>1, <2>0, <2>1 DEF Call, TypeOK
  <2>3. Joining(o)
    BY <1>1, <2>0, <2>1, <2>2 DEF Call, TypeOK, Joining
  <2>4. CallFits(o)'
    BY <1>1, <2>0, <2>1, <2>2 DEF Call, CallFits, Opening, Closing, Still
  <2> QED
    BY <2>1, <2>3, <2>4, OrderJoined
<1>2. ASSUME NEW s \in Senders, CallSend(s)
      PROVE  Order'
  <2>1. s \in Ops /\ s \notin Tokens
    BY MobileAssumption DEF Ops, Tokens
  <2>2. op'[s].pc = "wait"
    BY <1>2, <2>1 DEF CallSend, TypeOK, NoOp
  <2>3. Joining(s)
    BY <1>2, <2>1, <2>2 DEF CallSend, TypeOK, Joining
  <2> QED
    BY <2>1, <2>3, OrderJoined
<1>3. ASSUME NEW s \in Senders, SendStep(s)
      PROVE  Order'
  <2>1. s \in Ops /\ s \notin Tokens
    BY MobileAssumption DEF Ops, Tokens
  <2>2. Moves(s) /\ UNCHANGED <<generation, connection>>
    BY <1>3, SendMoves
  <2> QED
    BY <2>1, <2>2, CallsMoved, LineMoved, NewestMoved DEF Order
<1>4. ASSUME NEW o \in Tokens, OpStep(o)
      PROVE  Order'
  <2>1. o \in Ops
    BY DEF Ops
  <2>2. /\ Moves(o) /\ CallFits(o)' /\ generation' = generation
        /\ op[o].pc \notin {"idle", "returned"}
        /\ connection' = 0 \/ (connection' = o /\ o = generation /\ op'[o].pc = "returned")
    BY <1>4, CallMoves
  <2> QED
    BY <2>1, <2>2, CallsMoved, LineMoved, NewestMoved DEF Order
<1>5. ASSUME NEW c \in Tokens, ReaderStep(c) \/ PeerStep(c)
      PROVE  Order'
  <2>1. UNCHANGED <<generation, queue, op>> /\ connection' \in {connection, 0}
    BY <1>5, RunAlone
  <2>2. \A o \in Tokens : CallFits(o)'
    BY <2>1 DEF Calls, CallFits
  <2> QED
    BY <2>1, <2>2 DEF Order, Calls, Line, Newest
<1> QED
  BY <1>1, <1>2, <1>3, <1>4, <1>5 DEF Next, CallConnect, CallDisconnect

-----------------------------------------------------------------------------
(* Who closes what a connection has open *)

Plain == {"usb", "spp", "udp", "tcp"}

\* The call named c has not come to open its connection.
Unopened(c) ==
  \/ op[c].pc \in {"idle", "wait", "check", "announce", "open"}
  \/ op[c].pc \in Closing /\ op[c].target # c

\* What a connection keeps to by itself: a plain one has one handle, closed before
\* its end is reported.
Sane(r) ==
  /\ r.kind = "none" => r = NoConn
  /\ r.kind \in Plain \cup {"ble"} => r.server = "none" /\ r.fresh = "none"
  /\ r.reader = "callback" \/ r.receiver = "callback" => r.closed
  /\ r.kind \in Plain /\ (r.reader \in {"notify", "callback"} \/ r.receiver = "callback")
       => r.main # "open"
  /\ r.kind \in Plain => r.reader \in {"read", "final", "notify", "callback", "ended"}
  /\ r.kind = "ble" => r.reader \in {"read", "callback", "ended"}
  /\ r.receiver # "off" => r.kind = "usb"

\* The controller or a call has the connection in its hands.
Held(c) ==
  \/ connection = c
  \/ \E o \in Tokens : op[o].target = c \/ (o = c /\ op[o].pc = "opened")

Shutting(c) == \E o \in Tokens : op[o].target = c /\ op[o].pc = "shut"

\* A connection that nobody holds is closed, or was never opened.
LinkFits(c) ==
  /\ Sane(conn[c])
  /\ Unopened(c) => conn[c] = NoConn
  /\ Held(c) => conn[c].kind # "none"
  /\ conn[c].kind # "none" => Held(c) \/ conn[c].closed \/ NeverOpened(conn[c])
  /\ conn[c].closed /\ conn[c].kind \in Plain /\ conn[c].main = "open" => Shutting(c)
  /\ conn[c].kind \in {"tcpServer", "tcpReconnect"} /\ ~Held(c) => conn[c].reader = "ended"

Links ==
  /\ \A c \in Tokens : LinkFits(c)
  /\ \A o \in Tokens : op[o].pc \in {"shut", "cancel", "join"} => conn[op[o].target].closed

\* Only the call at the head of the queue has a connection in its hands.
LEMMA HeadHolds ==
    ASSUME TypeOK, Calls, NEW o \in Tokens, queue # <<>>, Head(queue) = o, NEW c \in Tokens
    PROVE  /\ Held(c) <=> connection = c \/ op[o].target = c \/ (o = c /\ op[o].pc = "opened")
           /\ Shutting(c) <=> op[o].target = c /\ op[o].pc = "shut"
<1>1. \A p \in Tokens : p # o => op[p].pc \in Still /\ op[p].target = 0
  BY DEF Calls, CallFits, Ops
<1>2. c # 0
  BY DEF Tokens
<1> QED
  BY <1>1, <1>2 DEF Held, Shutting, Still

LEMMA HeadWillHold ==
    ASSUME TypeOK, Calls, NEW o \in Tokens, Moves(o), NEW c \in Tokens
    PROVE  /\ Held(c)' <=> connection' = c \/ op'[o].target = c \/ (o = c /\ op'[o].pc = "opened")
           /\ Shutting(c)' <=> op'[o].target = c /\ op'[o].pc = "shut"
<1>1. \A p \in Tokens : p # o => op[p].pc \in Still /\ op[p].target = 0 /\ op'[p] = op[p]
  BY DEF Calls, CallFits, Ops, Moves
<1>2. c # 0
  BY DEF Tokens
<1> QED
  BY <1>1, <1>2 DEF Held, Shutting, Still

LEMMA LinkKept ==
    ASSUME NEW c \in Tokens, LinkFits(c), conn'[c] = conn[c], Held(c)' <=> Held(c),
           Shutting(c) => Shutting(c)', Unopened(c)' => Unopened(c)
    PROVE  LinkFits(c)'
BY DEF LinkFits

\* The hands change, no connection does.
LEMMA LinksHandedOver ==
    ASSUME TypeOK, Calls, Links, NEW o \in Tokens, Moves(o), conn' = conn,
           Unopened(o)' => Unopened(o),
           op[o].pc # "shut", op'[o].pc \notin {"shut", "cancel", "join"},
           \A c \in Tokens :
             (connection' = c \/ op'[o].target = c \/ (o = c /\ op'[o].pc = "opened"))
               <=> (connection = c \/ op[o].target = c \/ (o = c /\ op[o].pc = "opened"))
    PROVE  Links'
<1>1. queue # <<>> /\ Head(queue) = o /\ \A p \in Tokens : p # o => op'[p] = op[p]
  BY DEF Moves, Ops
<1>2. ASSUME NEW c \in Tokens
      PROVE  LinkFits(c)'
  <2>1. Held(c)' <=> Held(c)
    BY <1>1, HeadHolds, HeadWillHold
  <2>2. ~Shutting(c)
    BY <1>1, HeadHolds
  <2>3. Unopened(c)' => Unopened(c)
    BY <1>1 DEF Unopened
  <2> QED
    BY <2>1, <2>2, <2>3, LinkKept DEF Links
<1> QED
  BY <1>1, <1>2 DEF Links

\* One connection changes, and the others stay in the same hands.
LEMMA LinksButOne ==
    ASSUME TypeOK, Calls, Links, NEW o \in Tokens, Moves(o), NEW t \in Tokens, LinkFits(t)',
           \A c \in Tokens : c # t => conn'[c] = conn[c],
           o # t /\ Unopened(o)' => Unopened(o),
           \A c \in Tokens : c # t =>
             /\ connection' # c /\ op'[o].target # c /\ ~(o = c /\ op'[o].pc = "opened")
             /\ connection # c /\ op[o].target # c /\ ~(o = c /\ op[o].pc = "opened"),
           op'[o].pc \in {"shut", "cancel", "join"} => op'[o].target = t /\ conn'[t].closed
    PROVE  Links'
<1>1. queue # <<>> /\ Head(queue) = o /\ \A p \in Tokens : p # o => op'[p] = op[p]
  BY DEF Moves, Ops
<1>2. ASSUME NEW c \in Tokens, c # t
      PROVE  LinkFits(c)'
  <2>1. ~Held(c)' /\ ~Held(c) /\ ~Shutting(c)
    BY <1>1, <1>2, HeadHolds, HeadWillHold
  <2>2. Unopened(c)' => Unopened(c)
    BY <1>1, <1>2 DEF Unopened
  <2> QED
    BY <1>2, <2>1, <2>2, LinkKept DEF Links
<1>3. \A p \in Tokens : op'[p].pc \in {"shut", "cancel", "join"} => p = o
  BY <1>1 DEF Calls, Still, Ops
<1> QED
  BY <1>2, <1>3 DEF Links

LEMMA MarkedFits ==
    ASSUME NEW r \in ConnType, Sane(r), r.kind # "none"
    PROVE  LET s == [r EXCEPT !.closed = TRUE] IN
           /\ Sane(s) /\ s.closed = TRUE /\ s.kind = r.kind /\ s.main = r.main
           /\ s.reader = r.reader
<1> DEFINE s == [r EXCEPT !.closed = TRUE]
<1>1. /\ s.closed = TRUE /\ s.kind = r.kind /\ s.main = r.main /\ s.server = r.server
      /\ s.fresh = r.fresh /\ s.reader = r.reader /\ s.receiver = r.receiver
  BY DEF ConnType
<1> HIDE DEF s
<1>2. Sane(s)
  BY <1>1 DEF Sane
<1> QED
  BY <1>1, <1>2 DEF s

LEMMA CancelledFits ==
    ASSUME NEW r \in ConnType, Sane(r), r.kind # "none"
    PROVE  LET s == [r EXCEPT !.cancelled = TRUE] IN
           /\ Sane(s) /\ s.closed = r.closed /\ s.kind = r.kind /\ s.main = r.main
           /\ s.reader = r.reader
<1> DEFINE s == [r EXCEPT !.cancelled = TRUE]
<1>1. /\ s.closed = r.closed /\ s.kind = r.kind /\ s.main = r.main /\ s.server = r.server
      /\ s.fresh = r.fresh /\ s.reader = r.reader /\ s.receiver = r.receiver
  BY DEF ConnType
<1> HIDE DEF s
<1>2. Sane(s)
  BY <1>1 DEF Sane
<1> QED
  BY <1>1, <1>2 DEF s

LEMMA ShutFits ==
    ASSUME NEW r \in ConnType, Sane(r), r.kind # "none"
    PROVE  /\ Sane(ShutAll(r))
           /\ ShutAll(r).closed = r.closed /\ ShutAll(r).kind = r.kind
           /\ ShutAll(r).main # "open" /\ ShutAll(r).server # "open"
           /\ ShutAll(r).fresh = r.fresh /\ ShutAll(r).reader = r.reader
           /\ ShutAll(r).early = r.early
           /\ ShutAll(r).receiver = Unregister(r.receiver)
<1> DEFINE s == ShutAll(r)
<1>1. /\ s.closed = r.closed /\ s.kind = r.kind /\ s.main = Shut(r.main)
      /\ s.server = Shut(r.server) /\ s.fresh = r.fresh /\ s.reader = r.reader
      /\ s.receiver = Unregister(r.receiver) /\ s.early = r.early
  BY DEF ConnType, ShutAll
<1> HIDE DEF s
<1>2. Sane(s)
  BY <1>1 DEF Sane, Shut, Unregister
<1>3. s.main # "open" /\ s.server # "open"
  BY <1>1 DEF Shut
<1> QED
  BY <1>1, <1>2, <1>3 DEF s

LEMMA ShutMainFits ==
    ASSUME NEW r \in ConnType, Sane(r), r.kind # "none"
    PROVE  LET s == [r EXCEPT !.main = Shut(@)] IN
           /\ Sane(s) /\ s.closed = r.closed /\ s.kind = r.kind /\ s.main # "open"
           /\ s.reader = r.reader
<1> DEFINE s == [r EXCEPT !.main = Shut(@)]
<1>1. /\ s.closed = r.closed /\ s.kind = r.kind /\ s.main = Shut(r.main) /\ s.server = r.server
      /\ s.fresh = r.fresh /\ s.reader = r.reader /\ s.receiver = r.receiver
  BY DEF ConnType
<1> HIDE DEF s
<1>2. Sane(s) /\ s.main # "open"
  BY <1>1 DEF Sane, Shut
<1> QED
  BY <1>1, <1>2 DEF s

LEMMA LinksOfCalls ==
    ASSUME TypeOK, Calls, Links, NEW o \in Tokens, OpStep(o)
    PROVE  Links'
<1>a. Moves(o) /\ CallFits(o)' /\ queue # <<>> /\ Head(queue) = o
  BY CallMoves DEF Moves
<1>b. OpTyped /\ o \in Ops /\ o # 0 /\ CallFits(o) /\ conn[o] \in ConnType
  BY DEF TypeOK, OpTyped, Ops, Tokens, Calls
<1>0. /\ OpTyped /\ o \in Ops /\ o # 0 /\ CallFits(o)
      /\ Moves(o) /\ CallFits(o)' /\ queue # <<>> /\ Head(queue) = o
      /\ conn[o] \in ConnType
  BY <1>a, <1>b
<1> USE DEF Still, Opening, Closing
<1>f. CASE OpenFails(o) \/ OpenTimesOut(o)
  <2>1. /\ op'[o].pc = "returned" /\ op'[o].target = 0 /\ op[o].pc = "open" /\ op[o].target = 0
        /\ connection = 0 /\ connection' = 0
    BY <1>0, <1>f, ReturnMoves DEF OpenFails, OpenTimesOut, Holds, CallFits
  <2>2. CASE conn' = conn
    BY <1>0, <2>1, <2>2, LinksHandedOver DEF Unopened
  <2>3. CASE conn' # conn
    <3>1. PICK k \in Kinds \cap {"ble", "udp", "tcpServer"} : conn' = [conn EXCEPT ![o] = Left(k)]
      <4>1. op[o].kind \in Kinds
        BY <1>0, <2>1 DEF CallFits
      <4>2. op[o].kind \in {"ble", "udp", "tcpServer"} /\ conn' = [conn EXCEPT ![o] = Left(op[o].kind)]
        BY <1>f, <2>3 DEF OpenFails, OpenTimesOut
      <4> QED
        BY <4>1, <4>2
    <3> DEFINE r == Left(k)
    <3>2. /\ r.kind = k /\ ~r.closed /\ r.reader = "ended" /\ r.fresh = "none"
          /\ r.receiver = "off"
          /\ r.server = (IF k = "tcpServer" THEN "open" ELSE "none")
      BY LeftFits
    <3>3. conn'[o] = r /\ \A c \in Tokens : c # o => conn'[c] = conn[c]
      BY <3>1 DEF TypeOK
    <3> HIDE DEF r
    <3>4. Sane(r) /\ NeverOpened(r) /\ r.kind # "none"
      BY <3>2 DEF Sane, NeverOpened, Plain
    <3>5. ~Held(o)' /\ ~Unopened(o)'
      BY <1>0, <2>1, HeadWillHold DEF Unopened
    <3>6. LinkFits(o)'
      BY <3>2, <3>3, <3>4, <3>5 DEF LinkFits
    <3> QED
      BY <1>0, <2>1, <3>3, <3>6, LinksButOne DEF Tokens
  <2> QED
    BY <2>2, <2>3
<1>1. CASE Superseded(o)
  <2>1. op'[o].pc = "returned" /\ op'[o].target = 0
    BY <1>0, <1>1, ReturnMoves DEF Superseded, Holds
  <2>2. UNCHANGED <<connection, conn>> /\ op[o].pc = "check" /\ op[o].target = 0
    BY <1>0, <1>1 DEF Superseded, Holds, CallFits
  <2> QED
    BY <1>0, <2>1, <2>2, LinksHandedOver DEF Unopened
<1>2. CASE StillWanted(o) \/ Announce(o)
  <2>1. /\ UNCHANGED <<connection, conn>> /\ op[o].pc \in {"check", "announce"}
        /\ op'[o].target = op[o].target /\ op'[o].pc \in {"announce", "open"}
    BY <1>0, <1>2, GotoMoves DEF StillWanted, Announce, Holds
  <2> QED
    BY <1>0, <2>1, LinksHandedOver DEF Unopened
<1>3. CASE OpenSucceeds(o)
  <2>1. /\ op[o].pc = "open" /\ op'[o].pc = "opened" /\ op[o].target = 0 /\ op'[o].target = 0
        /\ connection = 0 /\ connection' = 0 /\ op[o].kind \in Kinds
        /\ conn' = [conn EXCEPT ![o] = Opened(op[o].kind)]
    BY <1>0, <1>3, GotoMoves DEF OpenSucceeds, Holds, CallFits
  <2>2. conn'[o] = Opened(op[o].kind) /\ \A c \in Tokens : c # o => conn'[c] = conn[c]
    BY <2>1 DEF TypeOK
  <2>3. \A k \in AllKinds :
          /\ Opened(k).kind = k /\ Opened(k).fresh = "none" /\ ~Opened(k).closed
          /\ Opened(k).server = (IF k = "tcpServer" THEN "open" ELSE "none")
          /\ Opened(k).reader = (IF k = "tcpServer" THEN "accept" ELSE "read")
          /\ Opened(k).receiver = (IF k = "usb" THEN "on" ELSE "off")
    BY DEF Opened, NoConn
  <2>a. op[o].kind \in AllKinds
    BY <2>1, MobileAssumption
  <2>b. ASSUME NEW k \in AllKinds
        PROVE  Sane(Opened(k)) /\ Opened(k).kind # "none"
    <3> DEFINE r == Opened(k)
    <3>1. /\ r.kind = k /\ r.fresh = "none"
          /\ r.server = (IF k = "tcpServer" THEN "open" ELSE "none")
          /\ r.reader = (IF k = "tcpServer" THEN "accept" ELSE "read")
          /\ r.receiver = (IF k = "usb" THEN "on" ELSE "off")
      BY <2>3
    <3> HIDE DEF r
    <3>2. r.kind # "none" /\ Sane(r)
      BY <3>1 DEF Sane, AllKinds, Plain
    <3> QED
      BY <3>2 DEF r
  <2>4. Sane(Opened(op[o].kind)) /\ Opened(op[o].kind).kind # "none" /\ ~Opened(op[o].kind).closed
    BY <2>a, <2>b, <2>3
  <2>5. Held(o)'
    BY <1>0, <2>1, HeadWillHold
  <2>6. LinkFits(o)'
    BY <2>1, <2>2, <2>4, <2>5 DEF LinkFits, Unopened
  <2> QED
    BY <1>0, <2>1, <2>2, <2>6, LinksButOne DEF Tokens
<1>4. CASE Accept(o)
  <2>1. /\ conn' = conn /\ op[o].pc = "opened" /\ op[o].target = 0 /\ connection = 0
        /\ \/ connection' = o /\ op'[o].pc = "returned" /\ op'[o].target = 0
           \/ connection' = 0 /\ op'[o].pc = "close" /\ op'[o].target = o
    BY <1>0, <1>4, ReturnMoves, TargetMoves DEF Accept, Holds, CallFits
  <2> QED
    BY <1>0, <2>1, LinksHandedOver DEF Unopened, Tokens
<1>5. CASE ConnectTakes(o) \/ DisconnectTakes(o)
  <2>1. /\ conn' = conn /\ op[o].pc = "wait" /\ op[o].target = 0 /\ connection' = 0
        /\ op'[o].pc \in {"check", "close", "returned"} /\ op'[o].target = connection
    BY <1>0, <1>5, ReturnMoves, TargetMoves DEF ConnectTakes, DisconnectTakes, Holds, CallFits
  <2> QED
    BY <1>0, <2>1, LinksHandedOver DEF Unopened, Tokens
<1>6. ASSUME op[o].pc \in Closing, NEW t \in Tokens, t = op[o].target
      PROVE  /\ connection = 0 /\ conn[t] \in ConnType /\ Sane(conn[t]) /\ conn[t].kind # "none"
             /\ LinkFits(t)
             /\ ~Unopened(t)
             /\ op[o].pc \in {"shut", "cancel", "join"} => conn[t].closed
  <2>1. connection = 0 /\ (t = o \/ op[t].pc = "returned")
    BY <1>0, <1>6 DEF CallFits
  <2>2. LinkFits(t) /\ Held(t)
    BY <1>0, <1>6, HeadHolds DEF Links
  <2> QED
    BY <1>6, <2>1, <2>2 DEF LinkFits, Unopened, TypeOK, Links
<1>7. CASE CloseMarks(o)
  <2>1. PICK t \in Tokens : t = op[o].target
    BY <1>0, <1>7 DEF CloseMarks, Holds, CallFits
  <2>2. /\ op[o].pc = "close" /\ op'[o].pc = "shut" /\ op'[o].target = t /\ connection' = connection
        /\ conn' = [conn EXCEPT ![t].closed = TRUE]
    BY <1>0, <1>7, <2>1, GotoMoves DEF CloseMarks, Holds, Target
  <2>3. conn'[t] = [conn[t] EXCEPT !.closed = TRUE] /\ \A c \in Tokens : c # t => conn'[c] = conn[c]
    BY <2>2 DEF TypeOK
  <2>4. Held(t)' /\ Shutting(t)' /\ ~Unopened(t)'
    BY <1>0, <1>6, <2>1, <2>2, HeadWillHold DEF Moves, Ops, Unopened
  <2>5. Sane(conn'[t]) /\ conn'[t].closed /\ conn'[t].kind # "none"
    <3>1. conn[t] \in ConnType /\ Sane(conn[t]) /\ conn[t].kind # "none"
      BY <1>6, <2>1, <2>2
    <3> QED
      BY <2>2, <2>3, <3>1, MarkedFits
  <2>6. LinkFits(t)'
    BY <2>4, <2>5 DEF LinkFits
  <2> QED
    BY <1>0, <1>6, <2>1, <2>2, <2>3, <2>5, <2>6, LinksButOne DEF Tokens, Unopened
<1>8. CASE CloseCancels(o)
  <2>1. PICK t \in Tokens : t = op[o].target
    BY <1>0, <1>8 DEF CloseCancels, Holds, CallFits
  <2>2. /\ op[o].pc = "cancel" /\ op'[o].pc = "join" /\ op'[o].target = t /\ connection' = connection
        /\ conn' = [conn EXCEPT ![t].cancelled = TRUE]
    BY <1>0, <1>8, <2>1, GotoMoves DEF CloseCancels, Holds, Target
  <2>3. conn'[t] = [conn[t] EXCEPT !.cancelled = TRUE] /\ \A c \in Tokens : c # t => conn'[c] = conn[c]
    BY <2>2 DEF TypeOK
  <2>4. Held(t)' /\ ~Shutting(t) /\ ~Unopened(t)'
    BY <1>0, <1>6, <2>1, <2>2, HeadHolds, HeadWillHold DEF Moves, Ops, Unopened
  <2>5. /\ Sane(conn'[t]) /\ conn'[t].closed /\ conn'[t].kind # "none"
        /\ conn'[t].kind = conn[t].kind /\ conn'[t].main = conn[t].main /\ conn[t].closed
    BY <1>6, <2>1, <2>2, <2>3, CancelledFits
  <2>6. LinkFits(t)'
    BY <1>6, <2>1, <2>2, <2>4, <2>5 DEF LinkFits
  <2> QED
    BY <1>0, <1>6, <2>1, <2>2, <2>3, <2>5, <2>6, LinksButOne DEF Tokens, Unopened
<1>9. CASE CloseShuts(o)
  <2>1. PICK t \in Tokens : t = op[o].target
    BY <1>0, <1>9 DEF CloseShuts, Holds, CallFits
  <2>2. /\ op[o].pc = "shut" /\ connection' = connection
        /\ conn' = [conn EXCEPT ![t] = ShutAll(@)]
        /\ \/ op'[o].pc = "cancel" /\ op'[o].target = t
           \/ /\ op'[o].pc \in {"returned", "check"} /\ op'[o].target = 0 /\ conn[t].kind = "ble"
              /\ op'[o].pc = "check" => t # o
    BY <1>0, <1>9, <2>1, GotoMoves, AfterCloseMoves DEF CloseShuts, Holds, Target, Joins
  <2>3. conn'[t] = ShutAll(conn[t]) /\ \A c \in Tokens : c # t => conn'[c] = conn[c]
    BY <2>2 DEF TypeOK
  <2>4. ~Unopened(t)'
    BY <1>0, <1>6, <2>1, <2>2 DEF Moves, Ops, Unopened
  <2>5. /\ Sane(conn'[t]) /\ conn'[t].closed /\ conn'[t].kind # "none"
        /\ conn'[t].kind = conn[t].kind /\ conn'[t].main # "open"
    BY <1>6, <2>1, <2>2, <2>3, ShutFits
  <2>6. conn[t].kind = "ble" \/ Held(t)'
    BY <1>0, <2>1, <2>2, HeadWillHold
  <2>7. LinkFits(t)'
    BY <2>4, <2>5, <2>6 DEF LinkFits
  <2> QED
    BY <1>0, <1>6, <2>1, <2>2, <2>3, <2>5, <2>7, LinksButOne DEF Tokens, Unopened
<1>10. CASE CloseThrows(o)
  <2>1. PICK t \in Tokens : t = op[o].target
    BY <1>0, <1>10 DEF CloseThrows, Holds, CallFits
  <2>2. /\ op[o].pc = "shut" /\ connection' = connection /\ conn[t].kind = "spp"
        /\ conn' = [conn EXCEPT ![t].main = Shut(@)]
        /\ op'[o].pc = "returned" /\ op'[o].target = 0
    BY <1>0, <1>10, <2>1, ReturnMoves DEF CloseThrows, Holds, Target
  <2>3. conn'[t] = [conn[t] EXCEPT !.main = Shut(@)] /\ \A c \in Tokens : c # t => conn'[c] = conn[c]
    BY <2>2 DEF TypeOK
  <2>4. ~Unopened(t)'
    BY <1>0, <1>6, <2>1, <2>2 DEF Moves, Ops, Unopened
  <2>5. /\ Sane(conn'[t]) /\ conn'[t].closed = conn[t].closed /\ conn'[t].kind = "spp"
        /\ conn'[t].main # "open"
    <3>1. conn[t] \in ConnType /\ Sane(conn[t]) /\ conn[t].kind # "none"
      BY <1>6, <2>1, <2>2
    <3> QED
      BY <2>2, <2>3, <3>1, ShutMainFits
  <2>6. LinkFits(t)' /\ conn'[t].closed
    BY <1>6, <2>1, <2>2, <2>4, <2>5 DEF LinkFits
  <2> QED
    BY <1>0, <1>6, <2>1, <2>2, <2>3, <2>6, LinksButOne DEF Tokens, Unopened
<1>11. CASE CloseJoins(o)
  <2>1. PICK t \in Tokens : t = op[o].target
    BY <1>0, <1>11 DEF CloseJoins, Holds, CallFits
  <2>2. /\ op[o].pc = "join" /\ UNCHANGED <<connection, conn>> /\ conn[t].reader = "ended"
        /\ op'[o].pc \in {"returned", "check"} /\ op'[o].target = 0
        /\ op'[o].pc = "check" => t # o
    BY <1>0, <1>11, <2>1, AfterCloseMoves DEF CloseJoins, Holds, Target
  <2>3. ~Unopened(t)'
    BY <1>0, <1>6, <2>1, <2>2 DEF Moves, Ops, Unopened
  <2>4. ~Shutting(t)
    BY <1>0, <2>2, HeadHolds
  <2>5. ~Held(t)'
    BY <1>0, <1>6, <2>1, <2>2, HeadWillHold DEF Tokens
  <2>6. LinkFits(t)'
    BY <1>6, <2>1, <2>2, <2>3, <2>4, <2>5 DEF LinkFits
  <2> QED
    BY <1>0, <1>6, <2>1, <2>2, <2>6, LinksButOne DEF Tokens, Unopened
<1> QED
  BY <1>f, <1>1, <1>2, <1>3, <1>4, <1>5, <1>7, <1>8, <1>9, <1>10, <1>11 DEF OpStep

\* What a step of a connection's threads may do to it.
Grows(r, s) ==
  /\ s.kind = r.kind /\ r.kind # "none" /\ Sane(s)
  /\ r.closed => s.closed
  /\ s.closed /\ s.kind \in Plain /\ s.main = "open" => r.closed /\ r.main = "open"
  /\ r.kind \in {"tcpServer", "tcpReconnect"} => s.reader = "ended" \/ r.reader # "ended"

Silent(r) == r.closed /\ r.reader # "callback" /\ r.receiver # "callback"

\* Only a callback ends the silence about a connection that is over.
Quiet(r, s) == s.early = r.early /\ (Silent(s) => Silent(r))

\* Which step it is depends on the fields the invariant reads.
LEMMA Edited ==
    ASSUME NEW r \in ConnType, Sane(r)
    PROVE  /\ r.reader = "read" /\ r.kind # "ble" =>
                Grows(r, [r EXCEPT !.reader = "final"])
                /\ Quiet(r, [r EXCEPT !.reader = "final"])
           /\ r.reader = "read" /\ r.kind = "udp" =>
                Grows(r, [r EXCEPT !.reader = "ended"])
                /\ Quiet(r, [r EXCEPT !.reader = "ended"])
           /\ r.reader = "accept" =>
                Grows(r, [r EXCEPT !.reader = "final"])
                /\ Quiet(r, [r EXCEPT !.reader = "final"])
           /\ r.reader = "read" /\ r.kind = "tcpReconnect" =>
                Grows(r, [r EXCEPT !.reader = "notify"])
                /\ Quiet(r, [r EXCEPT !.reader = "notify"])
           /\ r.reader = "launched" =>
                Grows(r, [r EXCEPT !.reader = "read"])
                /\ Quiet(r, [r EXCEPT !.reader = "read"])
           /\ r.reader = "launched" =>
                Grows(r, [r EXCEPT !.reader = "ended"])
                /\ Quiet(r, [r EXCEPT !.reader = "ended"])
           /\ r.reader \in {"loop", "retry"} =>
                Grows(r, [r EXCEPT !.reader = "notify"])
                /\ Quiet(r, [r EXCEPT !.reader = "notify"])
           /\ r.reader = "loop" =>
                Grows(r, [r EXCEPT !.reader = "read"])
                /\ Quiet(r, [r EXCEPT !.reader = "read"])
           /\ r.reader = "dialed" =>
                Grows(r, [r EXCEPT !.reader = "adopt"])
                /\ Quiet(r, [r EXCEPT !.reader = "adopt"])
           /\ r.kind = "ble" =>
                Grows(r, [r EXCEPT !.closed = TRUE, !.reader = "callback"])
                /\ Quiet(r, [r EXCEPT !.closed = TRUE, !.reader = "callback"])
           /\ r.reader = "notify" =>
                Grows(r, [r EXCEPT !.closed = TRUE, !.reader = IF r.closed THEN "ended" ELSE "callback"])
                /\ Quiet(r, [r EXCEPT !.closed = TRUE, !.reader = IF r.closed THEN "ended" ELSE "callback"])
           /\ r.reader = "accept" =>
                Grows(r, [r EXCEPT !.fresh = "open", !.reader = "accepted"])
                /\ Quiet(r, [r EXCEPT !.fresh = "open", !.reader = "accepted"])
           /\ r.reader = "retry" =>
                Grows(r, [r EXCEPT !.fresh = "open", !.reader = "dialed"])
                /\ Quiet(r, [r EXCEPT !.fresh = "open", !.reader = "dialed"])
           /\ r.reader = "dialed" =>
                Grows(r, [r EXCEPT !.fresh = "none", !.reader = "notify"])
                /\ Quiet(r, [r EXCEPT !.fresh = "none", !.reader = "notify"])
           /\ r.reader = "accepted" =>
                Grows(r, [r EXCEPT !.main = r.fresh, !.fresh = "none", !.reader = "launched"])
                /\ Quiet(r, [r EXCEPT !.main = r.fresh, !.fresh = "none", !.reader = "launched"])
           /\ r.reader = "adopt" =>
                Grows(r, [r EXCEPT !.main = r.fresh, !.fresh = "none", !.reader = "regained"])
                /\ Quiet(r, [r EXCEPT !.main = r.fresh, !.fresh = "none", !.reader = "regained"])
           /\ r.receiver = "on" =>
                Grows(r, [r EXCEPT !.closed = TRUE, !.main = Shut(r.main), !.receiver = "callback"])
                /\ Quiet(r, [r EXCEPT !.closed = TRUE, !.main = Shut(r.main), !.receiver = "callback"])
<1>0. r.kind = "none" => r.reader = "ended" /\ r.receiver = "off"
  BY DEF Sane, NoConn
<1>1. ASSUME r.reader = "read" /\ r.kind # "ble"
      PROVE  Grows(r, [r EXCEPT !.reader = "final"])
             /\ Quiet(r, [r EXCEPT !.reader = "final"])
  <2> DEFINE s == [r EXCEPT !.reader = "final"]
  <2>1. /\ s.kind = r.kind /\ s.closed = r.closed /\ s.main = r.main
        /\ s.server = r.server /\ s.fresh = r.fresh /\ s.reader = "final"
        /\ s.receiver = r.receiver /\ s.early = r.early
    BY DEF ConnType
  <2> HIDE DEF s
  <2>2. Grows(r, s) /\ Quiet(r, s)
    BY <1>0, <1>1, <2>1 DEF Grows, Quiet, Silent, Sane, Plain, Shut
  <2> QED
    BY <2>2 DEF s
<1>2. ASSUME r.reader = "read" /\ r.kind = "udp"
      PROVE  Grows(r, [r EXCEPT !.reader = "ended"])
             /\ Quiet(r, [r EXCEPT !.reader = "ended"])
  <2> DEFINE s == [r EXCEPT !.reader = "ended"]
  <2>1. /\ s.kind = r.kind /\ s.closed = r.closed /\ s.main = r.main
        /\ s.server = r.server /\ s.fresh = r.fresh /\ s.reader = "ended"
        /\ s.receiver = r.receiver /\ s.early = r.early
    BY DEF ConnType
  <2> HIDE DEF s
  <2>2. Grows(r, s) /\ Quiet(r, s)
    BY <1>0, <1>2, <2>1 DEF Grows, Quiet, Silent, Sane, Plain, Shut
  <2> QED
    BY <2>2 DEF s
<1>3. ASSUME r.reader = "accept"
      PROVE  Grows(r, [r EXCEPT !.reader = "final"])
             /\ Quiet(r, [r EXCEPT !.reader = "final"])
  <2> DEFINE s == [r EXCEPT !.reader = "final"]
  <2>1. /\ s.kind = r.kind /\ s.closed = r.closed /\ s.main = r.main
        /\ s.server = r.server /\ s.fresh = r.fresh /\ s.reader = "final"
        /\ s.receiver = r.receiver /\ s.early = r.early
    BY DEF ConnType
  <2> HIDE DEF s
  <2>2. Grows(r, s) /\ Quiet(r, s)
    BY <1>0, <1>3, <2>1 DEF Grows, Quiet, Silent, Sane, Plain, Shut
  <2> QED
    BY <2>2 DEF s
<1>4. ASSUME r.reader = "read" /\ r.kind = "tcpReconnect"
      PROVE  Grows(r, [r EXCEPT !.reader = "notify"])
             /\ Quiet(r, [r EXCEPT !.reader = "notify"])
  <2> DEFINE s == [r EXCEPT !.reader = "notify"]
  <2>1. /\ s.kind = r.kind /\ s.closed = r.closed /\ s.main = r.main
        /\ s.server = r.server /\ s.fresh = r.fresh /\ s.reader = "notify"
        /\ s.receiver = r.receiver /\ s.early = r.early
    BY DEF ConnType
  <2> HIDE DEF s
  <2>2. Grows(r, s) /\ Quiet(r, s)
    BY <1>0, <1>4, <2>1 DEF Grows, Quiet, Silent, Sane, Plain, Shut
  <2> QED
    BY <2>2 DEF s
<1>5. ASSUME r.reader = "launched"
      PROVE  Grows(r, [r EXCEPT !.reader = "read"])
             /\ Quiet(r, [r EXCEPT !.reader = "read"])
  <2> DEFINE s == [r EXCEPT !.reader = "read"]
  <2>1. /\ s.kind = r.kind /\ s.closed = r.closed /\ s.main = r.main
        /\ s.server = r.server /\ s.fresh = r.fresh /\ s.reader = "read"
        /\ s.receiver = r.receiver /\ s.early = r.early
    BY DEF ConnType
  <2> HIDE DEF s
  <2>2. Grows(r, s) /\ Quiet(r, s)
    BY <1>0, <1>5, <2>1 DEF Grows, Quiet, Silent, Sane, Plain, Shut
  <2> QED
    BY <2>2 DEF s
<1>6. ASSUME r.reader = "launched"
      PROVE  Grows(r, [r EXCEPT !.reader = "ended"])
             /\ Quiet(r, [r EXCEPT !.reader = "ended"])
  <2> DEFINE s == [r EXCEPT !.reader = "ended"]
  <2>1. /\ s.kind = r.kind /\ s.closed = r.closed /\ s.main = r.main
        /\ s.server = r.server /\ s.fresh = r.fresh /\ s.reader = "ended"
        /\ s.receiver = r.receiver /\ s.early = r.early
    BY DEF ConnType
  <2> HIDE DEF s
  <2>2. Grows(r, s) /\ Quiet(r, s)
    BY <1>0, <1>6, <2>1 DEF Grows, Quiet, Silent, Sane, Plain, Shut
  <2> QED
    BY <2>2 DEF s
<1>7. ASSUME r.reader \in {"loop", "retry"}
      PROVE  Grows(r, [r EXCEPT !.reader = "notify"])
             /\ Quiet(r, [r EXCEPT !.reader = "notify"])
  <2> DEFINE s == [r EXCEPT !.reader = "notify"]
  <2>1. /\ s.kind = r.kind /\ s.closed = r.closed /\ s.main = r.main
        /\ s.server = r.server /\ s.fresh = r.fresh /\ s.reader = "notify"
        /\ s.receiver = r.receiver /\ s.early = r.early
    BY DEF ConnType
  <2> HIDE DEF s
  <2>2. Grows(r, s) /\ Quiet(r, s)
    BY <1>0, <1>7, <2>1 DEF Grows, Quiet, Silent, Sane, Plain, Shut
  <2> QED
    BY <2>2 DEF s
<1>8. ASSUME r.reader = "loop"
      PROVE  Grows(r, [r EXCEPT !.reader = "read"])
             /\ Quiet(r, [r EXCEPT !.reader = "read"])
  <2> DEFINE s == [r EXCEPT !.reader = "read"]
  <2>1. /\ s.kind = r.kind /\ s.closed = r.closed /\ s.main = r.main
        /\ s.server = r.server /\ s.fresh = r.fresh /\ s.reader = "read"
        /\ s.receiver = r.receiver /\ s.early = r.early
    BY DEF ConnType
  <2> HIDE DEF s
  <2>2. Grows(r, s) /\ Quiet(r, s)
    BY <1>0, <1>8, <2>1 DEF Grows, Quiet, Silent, Sane, Plain, Shut
  <2> QED
    BY <2>2 DEF s
<1>9. ASSUME r.reader = "dialed"
      PROVE  Grows(r, [r EXCEPT !.reader = "adopt"])
             /\ Quiet(r, [r EXCEPT !.reader = "adopt"])
  <2> DEFINE s == [r EXCEPT !.reader = "adopt"]
  <2>1. /\ s.kind = r.kind /\ s.closed = r.closed /\ s.main = r.main
        /\ s.server = r.server /\ s.fresh = r.fresh /\ s.reader = "adopt"
        /\ s.receiver = r.receiver /\ s.early = r.early
    BY DEF ConnType
  <2> HIDE DEF s
  <2>2. Grows(r, s) /\ Quiet(r, s)
    BY <1>0, <1>9, <2>1 DEF Grows, Quiet, Silent, Sane, Plain, Shut
  <2> QED
    BY <2>2 DEF s
<1>10. ASSUME r.kind = "ble"
      PROVE  Grows(r, [r EXCEPT !.closed = TRUE, !.reader = "callback"])
             /\ Quiet(r, [r EXCEPT !.closed = TRUE, !.reader = "callback"])
  <2> DEFINE s == [r EXCEPT !.closed = TRUE, !.reader = "callback"]
  <2>1. /\ s.kind = r.kind /\ s.closed = TRUE /\ s.main = r.main
        /\ s.server = r.server /\ s.fresh = r.fresh /\ s.reader = "callback"
        /\ s.receiver = r.receiver /\ s.early = r.early
    BY DEF ConnType
  <2> HIDE DEF s
  <2>2. Grows(r, s) /\ Quiet(r, s)
    BY <1>0, <1>10, <2>1 DEF Grows, Quiet, Silent, Sane, Plain, Shut
  <2> QED
    BY <2>2 DEF s
<1>11. ASSUME r.reader = "notify"
      PROVE  Grows(r, [r EXCEPT !.closed = TRUE, !.reader = IF r.closed THEN "ended" ELSE "callback"])
             /\ Quiet(r, [r EXCEPT !.closed = TRUE, !.reader = IF r.closed THEN "ended" ELSE "callback"])
  <2> DEFINE s == [r EXCEPT !.closed = TRUE, !.reader = IF r.closed THEN "ended" ELSE "callback"]
  <2>1. /\ s.kind = r.kind /\ s.closed = TRUE /\ s.main = r.main
        /\ s.server = r.server /\ s.fresh = r.fresh /\ s.reader = IF r.closed THEN "ended" ELSE "callback"
        /\ s.receiver = r.receiver /\ s.early = r.early
    BY DEF ConnType
  <2> HIDE DEF s
  <2>2. Grows(r, s) /\ Quiet(r, s)
    BY <1>0, <1>11, <2>1 DEF Grows, Quiet, Silent, Sane, Plain, Shut
  <2> QED
    BY <2>2 DEF s
<1>12. ASSUME r.reader = "accept"
      PROVE  Grows(r, [r EXCEPT !.fresh = "open", !.reader = "accepted"])
             /\ Quiet(r, [r EXCEPT !.fresh = "open", !.reader = "accepted"])
  <2> DEFINE s == [r EXCEPT !.fresh = "open", !.reader = "accepted"]
  <2>1. /\ s.kind = r.kind /\ s.closed = r.closed /\ s.main = r.main
        /\ s.server = r.server /\ s.fresh = "open" /\ s.reader = "accepted"
        /\ s.receiver = r.receiver /\ s.early = r.early
    BY DEF ConnType
  <2> HIDE DEF s
  <2>2. Grows(r, s) /\ Quiet(r, s)
    BY <1>0, <1>12, <2>1 DEF Grows, Quiet, Silent, Sane, Plain, Shut
  <2> QED
    BY <2>2 DEF s
<1>13. ASSUME r.reader = "retry"
      PROVE  Grows(r, [r EXCEPT !.fresh = "open", !.reader = "dialed"])
             /\ Quiet(r, [r EXCEPT !.fresh = "open", !.reader = "dialed"])
  <2> DEFINE s == [r EXCEPT !.fresh = "open", !.reader = "dialed"]
  <2>1. /\ s.kind = r.kind /\ s.closed = r.closed /\ s.main = r.main
        /\ s.server = r.server /\ s.fresh = "open" /\ s.reader = "dialed"
        /\ s.receiver = r.receiver /\ s.early = r.early
    BY DEF ConnType
  <2> HIDE DEF s
  <2>2. Grows(r, s) /\ Quiet(r, s)
    BY <1>0, <1>13, <2>1 DEF Grows, Quiet, Silent, Sane, Plain, Shut
  <2> QED
    BY <2>2 DEF s
<1>14. ASSUME r.reader = "dialed"
      PROVE  Grows(r, [r EXCEPT !.fresh = "none", !.reader = "notify"])
             /\ Quiet(r, [r EXCEPT !.fresh = "none", !.reader = "notify"])
  <2> DEFINE s == [r EXCEPT !.fresh = "none", !.reader = "notify"]
  <2>1. /\ s.kind = r.kind /\ s.closed = r.closed /\ s.main = r.main
        /\ s.server = r.server /\ s.fresh = "none" /\ s.reader = "notify"
        /\ s.receiver = r.receiver /\ s.early = r.early
    BY DEF ConnType
  <2> HIDE DEF s
  <2>2. Grows(r, s) /\ Quiet(r, s)
    BY <1>0, <1>14, <2>1 DEF Grows, Quiet, Silent, Sane, Plain, Shut
  <2> QED
    BY <2>2 DEF s
<1>15. ASSUME r.reader = "accepted"
      PROVE  Grows(r, [r EXCEPT !.main = r.fresh, !.fresh = "none", !.reader = "launched"])
             /\ Quiet(r, [r EXCEPT !.main = r.fresh, !.fresh = "none", !.reader = "launched"])
  <2> DEFINE s == [r EXCEPT !.main = r.fresh, !.fresh = "none", !.reader = "launched"]
  <2>1. /\ s.kind = r.kind /\ s.closed = r.closed /\ s.main = r.fresh
        /\ s.server = r.server /\ s.fresh = "none" /\ s.reader = "launched"
        /\ s.receiver = r.receiver /\ s.early = r.early
    BY DEF ConnType
  <2> HIDE DEF s
  <2>2. Grows(r, s) /\ Quiet(r, s)
    BY <1>0, <1>15, <2>1 DEF Grows, Quiet, Silent, Sane, Plain, Shut
  <2> QED
    BY <2>2 DEF s
<1>16. ASSUME r.reader = "adopt"
      PROVE  Grows(r, [r EXCEPT !.main = r.fresh, !.fresh = "none", !.reader = "regained"])
             /\ Quiet(r, [r EXCEPT !.main = r.fresh, !.fresh = "none", !.reader = "regained"])
  <2> DEFINE s == [r EXCEPT !.main = r.fresh, !.fresh = "none", !.reader = "regained"]
  <2>1. /\ s.kind = r.kind /\ s.closed = r.closed /\ s.main = r.fresh
        /\ s.server = r.server /\ s.fresh = "none" /\ s.reader = "regained"
        /\ s.receiver = r.receiver /\ s.early = r.early
    BY DEF ConnType
  <2> HIDE DEF s
  <2>2. Grows(r, s) /\ Quiet(r, s)
    BY <1>0, <1>16, <2>1 DEF Grows, Quiet, Silent, Sane, Plain, Shut
  <2> QED
    BY <2>2 DEF s
<1>17. ASSUME r.receiver = "on"
      PROVE  Grows(r, [r EXCEPT !.closed = TRUE, !.main = Shut(r.main), !.receiver = "callback"])
             /\ Quiet(r, [r EXCEPT !.closed = TRUE, !.main = Shut(r.main), !.receiver = "callback"])
  <2> DEFINE s == [r EXCEPT !.closed = TRUE, !.main = Shut(r.main), !.receiver = "callback"]
  <2>1. /\ s.kind = r.kind /\ s.closed = TRUE /\ s.main = Shut(r.main)
        /\ s.server = r.server /\ s.fresh = r.fresh /\ s.reader = r.reader
        /\ s.receiver = "callback" /\ s.early = r.early
    BY DEF ConnType
  <2> HIDE DEF s
  <2>2. Grows(r, s) /\ Quiet(r, s)
    BY <1>0, <1>17, <2>1 DEF Grows, Quiet, Silent, Sane, Plain, Shut
  <2> QED
    BY <2>2 DEF s
<1> QED
  BY <1>1, <1>2, <1>3, <1>4, <1>5, <1>6, <1>7, <1>8, <1>9, <1>10, <1>11, <1>12, <1>13, <1>14, <1>15, <1>16, <1>17

LEMMA LinkLostEdit ==
    ASSUME NEW r \in ConnType, Sane(r), r.kind = "tcpReconnect", r.reader = "read",
           NEW x \in {"notify", "lost"}
    PROVE  /\ Grows(r, [r EXCEPT !.main = Shut(r.main), !.reader = x])
           /\ Quiet(r, [r EXCEPT !.main = Shut(r.main), !.reader = x])
<1> DEFINE s == [r EXCEPT !.main = Shut(r.main), !.reader = x]
<1>1. /\ s.kind = r.kind /\ s.closed = r.closed /\ s.main = Shut(r.main)
      /\ s.server = r.server /\ s.fresh = r.fresh /\ s.reader = x
      /\ s.receiver = r.receiver /\ s.early = r.early
  BY DEF ConnType
<1> HIDE DEF s
<1>2. Grows(r, s) /\ Quiet(r, s)
  BY <1>1 DEF Grows, Quiet, Silent, Sane, Plain, Shut
<1> QED
  BY <1>2 DEF s

LEMMA FinalEdit ==
    ASSUME NEW r \in ConnType, Sane(r), r.reader = "final"
    PROVE  /\ Grows(r, [ShutAll(r) EXCEPT !.reader = "notify"])
           /\ Quiet(r, [ShutAll(r) EXCEPT !.reader = "notify"])
<1> DEFINE q == ShutAll(r)
           s == [q EXCEPT !.reader = "notify"]
<1>1. r.kind # "none"
  BY DEF Sane, NoConn
<1>2. /\ q.kind = r.kind /\ q.closed = r.closed /\ q.main = Shut(r.main)
      /\ q.server = Shut(r.server) /\ q.fresh = r.fresh /\ q.reader = r.reader
      /\ q.receiver = Unregister(r.receiver) /\ q.early = r.early
  BY DEF ConnType, ShutAll
<1>3. q \in ConnType
  <2>1. r.main \in Handle /\ r.server \in Handle /\ r.receiver \in Receiver
    BY DEF ConnType
  <2>2. Shut(r.main) \in Handle /\ Shut(r.server) \in Handle /\ Unregister(r.receiver) \in Receiver
    BY <2>1 DEF Shut, Unregister, Handle, Receiver
  <2> QED
    BY <2>2, ConnEdit, Zenon DEF ShutAll
<1> HIDE DEF q
<1>4. /\ s.kind = q.kind /\ s.closed = q.closed /\ s.main = q.main
      /\ s.server = q.server /\ s.fresh = q.fresh /\ s.reader = "notify"
      /\ s.receiver = q.receiver /\ s.early = q.early
  BY <1>3 DEF ConnType
<1> HIDE DEF s
<1>5. Grows(r, s) /\ Quiet(r, s)
  BY <1>1, <1>2, <1>4 DEF Grows, Quiet, Silent, Sane, Plain, Shut, Unregister
<1> QED
  BY <1>5 DEF s, q

\* A status is kept for connect: no other field changes.
LEMMA StatusEdit ==
    ASSUME NEW r \in ConnType, Sane(r), NEW q \in ConnType, Grows(r, q), Quiet(r, q), NEW t
    PROVE  Grows(r, [q EXCEPT !.status = t]) /\ Quiet(r, [q EXCEPT !.status = t])
<1> DEFINE s == [q EXCEPT !.status = t]
<1>1. /\ s.kind = q.kind /\ s.closed = q.closed /\ s.main = q.main
      /\ s.server = q.server /\ s.fresh = q.fresh /\ s.reader = q.reader
      /\ s.receiver = q.receiver /\ s.early = q.early
  BY DEF ConnType
<1>2. q.kind # "none"
  BY DEF Grows
<1> HIDE DEF s
<1>3. Sane(s)
  BY <1>1, <1>2 DEF Grows, Sane
<1>4. Grows(r, s) /\ Quiet(r, s)
  BY <1>1, <1>3 DEF Grows, Quiet, Silent
<1> QED
  BY <1>4 DEF s

LEMMA RedialEdit ==
    ASSUME NEW r \in ConnType, Sane(r), NEW x \in ReaderAt,
           (r.reader = "lost" /\ x = "retry") \/ (r.reader = "regained" /\ x = "loop")
    PROVE  Grows(r, [r EXCEPT !.reader = x]) /\ Quiet(r, [r EXCEPT !.reader = x])
<1> DEFINE s == [r EXCEPT !.reader = x]
<1>1. r.kind # "none"
  BY DEF Sane, NoConn
<1>2. /\ s.kind = r.kind /\ s.closed = r.closed /\ s.main = r.main
      /\ s.server = r.server /\ s.fresh = r.fresh /\ s.reader = x
      /\ s.receiver = r.receiver /\ s.early = r.early
  BY DEF ConnType
<1> HIDE DEF s
<1>3. Grows(r, s) /\ Quiet(r, s)
  BY <1>1, <1>2 DEF Grows, Quiet, Silent, Sane, Plain
<1> QED
  BY <1>3 DEF s

\* What is left of a connection that has reported its end.
LEMMA ReportEdit ==
    ASSUME NEW r \in ConnType, Sane(r), NEW q,
           \/ r.reader = "callback" /\ q = [r EXCEPT !.reader = "ended"]
           \/ r.receiver = "callback" /\ q = [r EXCEPT !.receiver = "off"]
    PROVE  /\ q \in ConnType /\ Grows(r, q) /\ q.early = r.early /\ q.closed = TRUE
           /\ r.kind \in {"tcpServer", "tcpReconnect"} => q.reader = "ended"
<1>0. r.kind # "none" /\ r.closed /\ r.closed \in BOOLEAN
  BY DEF Sane, NoConn, ConnType
<1>1. /\ q.kind = r.kind /\ q.closed = r.closed /\ q.main = r.main
      /\ q.server = r.server /\ q.fresh = r.fresh /\ q.early = r.early
      /\ \/ r.reader = "callback" /\ q.reader = "ended" /\ q.receiver = r.receiver
         \/ r.receiver = "callback" /\ q.reader = r.reader /\ q.receiver = "off"
  BY DEF ConnType
<1>2. q \in ConnType
  BY ConnEdit DEF ReaderAt, Receiver
<1>3. q.closed = TRUE
  BY <1>0, <1>1
<1>4. r.kind \in {"tcpServer", "tcpReconnect"} => q.reader = "ended"
  BY <1>1 DEF Sane
<1>5. Sane(q)
  BY <1>0, <1>1, <1>3 DEF Sane, Plain
<1>6. Grows(r, q)
  BY <1>0, <1>1, <1>3, <1>4, <1>5 DEF Grows
<1> QED
  BY <1>1, <1>2, <1>3, <1>4, <1>6

LEMMA EarlyEdit ==
    ASSUME NEW r \in ConnType, NEW q \in ConnType, Grows(r, q), NEW b \in BOOLEAN
    PROVE  LET s == [q EXCEPT !.early = b] IN
           Grows(r, s) /\ s.early = b /\ s.closed = q.closed /\ s.reader = q.reader
<1> DEFINE s == [q EXCEPT !.early = b]
<1>1. /\ s.kind = q.kind /\ s.closed = q.closed /\ s.main = q.main
      /\ s.server = q.server /\ s.fresh = q.fresh /\ s.early = b
      /\ s.reader = q.reader /\ s.receiver = q.receiver
  BY DEF ConnType
<1>2. q.kind # "none"
  BY DEF Grows
<1> HIDE DEF s
<1>3. Sane(s)
  BY <1>1, <1>2 DEF Grows, Sane
<1>4. Grows(r, s)
  BY <1>1, <1>3 DEF Grows
<1> QED
  BY <1>1, <1>4 DEF s

\* Connection c changes by a legal edit and the others do not.
Edits(c) ==
  /\ \A d \in Tokens : d # c => conn'[d] = conn[d]
  /\ Grows(conn[c], conn'[c])

StateKept(c) ==
  \/ state' = state
  \/ /\ generation = c /\ connection = c
     /\ \E name \in {"Connected", "Reconnecting"} : state' = Show(name, c)

LEMMA ReadersEdit ==
    ASSUME TypeOK, Links, NEW c \in Tokens, ReaderStep(c) \/ PeerStep(c),
           ~FinalReports(c), ~UsbReports(c)
    PROVE  /\ connection' = connection /\ StateKept(c)
           /\ conn' = conn \/ (Edits(c) /\ Quiet(conn[c], conn'[c]))
<1> DEFINE r == conn[c]
<1>1. r \in ConnType /\ Sane(r)
  BY DEF TypeOK, Links, LinkFits
<1>2. ASSUME NEW s, conn' = [conn EXCEPT ![c] = s], Grows(r, s), Quiet(r, s)
      PROVE  Edits(c) /\ Quiet(conn[c], conn'[c])
  BY <1>2 DEF Edits, TypeOK
<1>3. ASSUME NEW x, conn' = [conn EXCEPT ![c].reader = x],
             Grows(r, [r EXCEPT !.reader = x]), Quiet(r, [r EXCEPT !.reader = x])
      PROVE  Edits(c) /\ Quiet(conn[c], conn'[c])
  BY <1>2, <1>3
<1> HIDE DEF r
<1>4. CASE ReadEnds(c) \/ ServerFails(c)
  <2>1. /\ UNCHANGED <<connection, state>> /\ conn' = [conn EXCEPT ![c].reader = "final"]
        /\ (r.reader = "read" /\ r.kind # "ble") \/ r.reader = "accept"
    BY <1>4 DEF ReadEnds, ServerFails, Reader, r
  <2> QED
    BY <1>1, <1>3, <2>1, Edited DEF StateKept
<1>5. CASE UdpLoopEnds(c) \/ ReaderNeverRuns(c)
  <2>1. /\ UNCHANGED <<connection, state>> /\ conn' = [conn EXCEPT ![c].reader = "ended"]
        /\ (r.reader = "read" /\ r.kind = "udp") \/ r.reader = "launched"
    BY <1>5 DEF UdpLoopEnds, ReaderNeverRuns, Reader, r
  <2> QED
    BY <1>1, <1>3, <2>1, Edited DEF StateKept
<1>6. CASE LoopEnds(c) \/ LoopEndsAfterBytes(c)
  <2>1. /\ UNCHANGED <<connection, state>> /\ conn' = [conn EXCEPT ![c].reader = "notify"]
        /\ (r.reader = "read" /\ r.kind = "tcpReconnect") \/ r.reader \in {"loop", "retry"}
    BY <1>6 DEF LoopEnds, LoopEndsAfterBytes, Reader, r
  <2> QED
    BY <1>1, <1>3, <2>1, Edited DEF StateKept
<1>7. CASE ReaderStarts(c) \/ LoopGoesOn(c)
  <2>1. /\ UNCHANGED <<connection, state>> /\ conn' = [conn EXCEPT ![c].reader = "read"]
        /\ r.reader \in {"launched", "loop"}
    BY <1>7 DEF ReaderStarts, LoopGoesOn, Reader, r
  <2> QED
    BY <1>1, <1>3, <2>1, Edited DEF StateKept
<1>8. CASE KeepsRedialed(c)
  <2>1. /\ UNCHANGED <<connection, state>> /\ conn' = [conn EXCEPT ![c].reader = "adopt"]
        /\ r.reader = "dialed"
    BY <1>8 DEF KeepsRedialed, Reader, r
  <2> QED
    BY <1>1, <1>3, <2>1, Edited DEF StateKept
<1>9. CASE BleDrops(c)
  BY <1>1, <1>2, <1>9, Edited DEF BleDrops, StateKept, r
<1>10. CASE FinalMarks(c)
  BY <1>1, <1>2, <1>10, Edited DEF FinalMarks, StateKept, r
<1>11. CASE ServerAccepts(c)
  BY <1>1, <1>2, <1>11, Edited DEF ServerAccepts, StateKept, r
<1>12. CASE Redials(c)
  BY <1>1, <1>2, <1>12, Edited DEF Redials, StateKept, r
<1>13. CASE DropsRedialed(c)
  BY <1>1, <1>2, <1>13, Edited DEF DropsRedialed, StateKept, r
<1>14. CASE ServerAttaches(c)
  BY <1>1, <1>2, <1>14, Edited DEF ServerAttaches, StateKept, r
<1>15. CASE Adopts(c)
  BY <1>1, <1>2, <1>15, Edited DEF Adopts, StateKept, r
<1>16. CASE UsbDetached(c)
  BY <1>1, <1>2, <1>16, Edited DEF UsbDetached, StateKept, r
<1>17. CASE LinkLost(c)
  BY <1>1, <1>2, <1>17, LinkLostEdit DEF LinkLost, StateKept, r
<1>18. CASE FinalCloses(c)
  BY <1>1, <1>2, <1>18, FinalEdit DEF FinalCloses, StateKept, r
<1>19. CASE OnBytes(c)
  BY <1>19 DEF OnBytes, StateKept
<1>20. ASSUME NEW name \in {"Connected", "Reconnecting"}, NEW q \in ConnType,
              Grows(r, q), Quiet(r, q), OnStatus(c, name, q), connection' = connection
       PROVE  /\ connection' = connection /\ StateKept(c)
              /\ conn' = conn \/ (Edits(c) /\ Quiet(conn[c], conn'[c]))
  <2>1. CASE generation = c /\ connection = c
    BY <1>2, <1>20, <2>1 DEF OnStatus, StateKept
  <2>2. CASE ~(generation = c /\ connection = c)
    <3>1. PICK t : conn' = [conn EXCEPT ![c] = [q EXCEPT !.status = t]] /\ state' = state
      BY <1>20, <2>2 DEF OnStatus
    <3>2. Grows(r, [q EXCEPT !.status = t]) /\ Quiet(r, [q EXCEPT !.status = t])
      BY <1>1, <1>20, StatusEdit
    <3> QED
      BY <1>2, <1>20, <3>1, <3>2 DEF StateKept
  <2> QED
    BY <2>1, <2>2
<1>21. CASE ReportsLoss(c)
  <2>1. "retry" \in ReaderAt
    BY DEF ReaderAt
  <2>2. r.reader = "lost" /\ connection' = connection
        /\ OnStatus(c, "Reconnecting", [r EXCEPT !.reader = "retry"])
    BY <1>21 DEF ReportsLoss, r
  <2>3. [r EXCEPT !.reader = "retry"] \in ConnType
    BY <1>1, <2>1, ConnEdit, Zenon
  <2>4. Grows(r, [r EXCEPT !.reader = "retry"]) /\ Quiet(r, [r EXCEPT !.reader = "retry"])
    BY <1>1, <2>1, <2>2, RedialEdit
  <2> QED
    BY <1>20, <2>2, <2>3, <2>4
<1>22. CASE ReportsRegained(c)
  <2>1. "loop" \in ReaderAt
    BY DEF ReaderAt
  <2>2. r.reader = "regained" /\ connection' = connection
        /\ OnStatus(c, "Connected", [r EXCEPT !.reader = "loop"])
    BY <1>22 DEF ReportsRegained, r
  <2>3. [r EXCEPT !.reader = "loop"] \in ConnType
    BY <1>1, <2>1, ConnEdit, Zenon
  <2>4. Grows(r, [r EXCEPT !.reader = "loop"]) /\ Quiet(r, [r EXCEPT !.reader = "loop"])
    BY <1>1, <2>1, <2>2, RedialEdit
  <2> QED
    BY <1>20, <2>2, <2>3, <2>4
<1> QED
  BY <1>4, <1>5, <1>6, <1>7, <1>8, <1>9, <1>10, <1>11, <1>12, <1>13, <1>14, <1>15, <1>16, <1>17,
     <1>18, <1>19, <1>21, <1>22 DEF ReaderStep, PeerStep

Ended == {"Disconnected", "Failed"}

\* The end of a connection is news to the controller only of the newest generation.
LEMMA ReportsEdit ==
    ASSUME TypeOK, Links, NEW c \in Tokens, FinalReports(c) \/ UsbReports(c)
    PROVE  /\ Edits(c) /\ conn'[c].closed
           /\ conn[c].kind \in {"tcpServer", "tcpReconnect"} => conn'[c].reader = "ended"
           /\ generation = c => /\ connection' = 0 /\ state'.name \in Ended
                                /\ conn'[c].early <=> conn[c].early \/ connection = 0
           /\ generation # c => UNCHANGED <<connection, state>> /\ conn'[c].early = conn[c].early
<1> DEFINE r == conn[c]
<1>1. r \in ConnType /\ Sane(r)
  BY DEF TypeOK, Links, LinkFits
<1> HIDE DEF r
<1>2. PICK q : /\ OnClosed(c, q)
               /\ \/ r.reader = "callback" /\ q = [r EXCEPT !.reader = "ended"]
                  \/ r.receiver = "callback" /\ q = [r EXCEPT !.receiver = "off"]
  BY DEF FinalReports, UsbReports, r
<1>3. q \in ConnType /\ Grows(r, q) /\ q.early = r.early /\ q.closed = TRUE
      /\ (r.kind \in {"tcpServer", "tcpReconnect"} => q.reader = "ended")
  BY <1>1, <1>2, ReportEdit
<1>4. CASE generation # c
  <2>1. conn'[c] = q /\ \A d \in Tokens : d # c => conn'[d] = conn[d]
    BY <1>2, <1>4 DEF OnClosed, TypeOK
  <2> QED
    BY <1>2, <1>3, <1>4, <2>1 DEF OnClosed, Edits, r
<1>5. CASE generation = c
  <2>1. PICK b \in BOOLEAN : b <=> r.early \/ connection = 0
    OBVIOUS
  <2>2. conn' = [conn EXCEPT ![c] = [q EXCEPT !.early = b]]
    BY <1>1, <1>2, <1>3, <1>5, <2>1 DEF OnClosed, ConnType
  <2>3. conn'[c] = [q EXCEPT !.early = b] /\ \A d \in Tokens : d # c => conn'[d] = conn[d]
    BY <2>2 DEF TypeOK
  <2>4. /\ Grows(r, conn'[c]) /\ conn'[c].early = b /\ conn'[c].closed = TRUE
        /\ r.kind \in {"tcpServer", "tcpReconnect"} => conn'[c].reader = "ended"
    <3>1. LET t == [q EXCEPT !.early = b] IN
          Grows(r, t) /\ t.early = b /\ t.closed = q.closed /\ t.reader = q.reader
      BY <1>1, <1>3, EarlyEdit
    <3> QED
      BY <1>3, <2>3, <3>1
  <2>5. connection' = 0 /\ state'.name \in Ended
    BY <1>2, <1>5 DEF OnClosed, Show, Ended
  <2> QED
    BY <1>5, <2>1, <2>3, <2>4, <2>5 DEF Edits, r
<1> QED
  BY <1>4, <1>5

\* What was never opened has no threads.
LEMMA NeverOpenedRests ==
    ASSUME Links, NEW c \in Tokens, ReaderStep(c) \/ PeerStep(c)
    PROVE  ~NeverOpened(conn[c])
<1> DEFINE r == conn[c]
<1>1. Sane(r)
  BY DEF Links, LinkFits
<1>2. r.reader # "ended" \/ r.receiver # "off"
  <2>1. CASE PeerStep(c)
    BY <2>1 DEF PeerStep, OnBytes, ReadEnds, UdpLoopEnds, BleDrops, UsbDetached, ServerAccepts,
         ServerFails, LinkLost, Redials, LoopEndsAfterBytes, Reader
  <2>2. CASE ReaderStep(c)
    BY <2>2 DEF ReaderStep, FinalCloses, FinalMarks, FinalReports, UsbReports, ServerAttaches,
         ReaderStarts, ReaderNeverRuns, LoopEnds, LoopGoesOn, ReportsLoss, DropsRedialed,
         KeepsRedialed, Adopts, ReportsRegained, Reader
  <2> QED
    BY <2>1, <2>2
<1> QED
  BY <1>1, <1>2 DEF Sane, NeverOpened

\* A connection is let go by the controller only when it has closed itself.
LEMMA LinksEdited ==
    ASSUME TypeOK, Order, Links, NEW c \in Tokens, Edits(c), UNCHANGED <<op, generation>>,
           ~NeverOpened(conn[c]),
           \/ connection' = connection
           \/ /\ generation = c /\ connection' = 0 /\ conn'[c].closed
              /\ conn[c].kind \in {"tcpServer", "tcpReconnect"} => conn'[c].reader = "ended"
    PROVE  Links'
<1>1. LinkFits(c) /\ conn[c].kind # "none" /\ ~Unopened(c)
  BY DEF Links, LinkFits, Edits, Grows, NoConn
<1>2. connection' = connection \/ connection = c \/ connection = 0
  <2>1. ASSUME generation = c, connection \notin {0, c}
        PROVE  FALSE
    BY <1>1, <2>1 DEF Order, Newest, Unopened
  <2> QED
    BY <2>1
<1>3. ASSUME NEW d \in Tokens, d # c
      PROVE  LinkFits(d)'
  <2>1. /\ conn'[d] = conn[d] /\ (Held(d)' <=> Held(d)) /\ (Shutting(d) => Shutting(d)')
        /\ Unopened(d)' => Unopened(d)
    BY <1>2, <1>3 DEF Edits, Held, Shutting, Unopened, Tokens
  <2> QED
    BY <2>1, LinkKept DEF Links
<1>4. LinkFits(c)'
  <2>1. Shutting(c)' <=> Shutting(c)
    BY DEF Shutting
  <2>2. ~Unopened(c)'
    BY <1>1 DEF Unopened
  <2>3. CASE connection' = connection
    <3>1. Held(c)' <=> Held(c)
      BY <2>3 DEF Held
    <3> QED
      BY <1>1, <2>1, <2>2, <3>1 DEF LinkFits, Edits, Grows
  <2>4. CASE connection' # connection
    <3>1. Held(c)' => Held(c)
      BY <2>4 DEF Held, Tokens
    <3> QED
      BY <1>1, <2>1, <2>2, <2>4, <3>1 DEF LinkFits, Edits, Grows
  <2> QED
    BY <2>3, <2>4
<1>5. ASSUME NEW o \in Tokens, op'[o].pc \in {"shut", "cancel", "join"}
      PROVE  conn'[op'[o].target].closed
  <2>1. op[o].target \in Tokens /\ conn[op[o].target].closed
    BY <1>5 DEF Links, Order, Calls, CallFits, Closing
  <2> QED
    BY <2>1 DEF Edits, Grows
<1> QED
  BY <1>3, <1>4, <1>5 DEF Links

LEMMA LinksKept ==
    ASSUME TypeOK, Order, Links, Next
    PROVE  Links'
<1> Calls
  BY DEF Order
<1>1. ASSUME UNCHANGED <<connection, conn>>,
             \A o \in Tokens : op'[o] = op[o] \/ (op[o].pc = "idle" /\ op'[o].pc = "wait"
                                                 /\ op'[o].target = op[o].target)
      PROVE  Links'
  <2>1. ASSUME NEW c \in Tokens
        PROVE  LinkFits(c)'
    <3>1. /\ Held(c)' <=> Held(c)
          /\ Shutting(c)' <=> Shutting(c)
          /\ Unopened(c)' => Unopened(c)
      BY <1>1 DEF Held, Shutting, Unopened, Closing
    <3> QED
      BY <1>1, <3>1, LinkKept DEF Links
  <2> QED
    BY <1>1, <2>1 DEF Links
<1>2. CASE CallConnect \/ CallDisconnect
  <2>1. PICK call, kind : Call(call, kind)
    BY <1>2 DEF CallConnect, CallDisconnect
  <2>2. \A o \in Tokens : op'[o] = op[o] \/ (o = generation + 1 /\ op'[o].pc = "wait" /\ op'[o].target = 0)
    BY <2>1 DEF Call, TypeOK
  <2>3. \A o \in Tokens : o = generation + 1 => op[o].pc = "idle" /\ op[o].target = 0
    BY MobileAssumption DEF Calls, CallFits, Still, TypeOK, Tokens
  <2> QED
    BY <1>1, <2>1, <2>2, <2>3 DEF Call
<1>3. ASSUME NEW s \in Senders, CallSend(s) \/ SendStep(s)
      PROVE  Links'
  <2>1. s \in Ops /\ s \notin Tokens
    BY MobileAssumption DEF Ops, Tokens
  <2>2. UNCHANGED <<connection, conn>> /\ \A o \in Tokens : op'[o] = op[o]
    BY <1>3, <2>1, SendMoves DEF CallSend, Moves, Ops, TypeOK
  <2> QED
    BY <1>1, <2>2
<1>4. ASSUME NEW o \in Tokens, OpStep(o)
      PROVE  Links'
  BY <1>4, LinksOfCalls
<1>5. ASSUME NEW c \in Tokens, ReaderStep(c) \/ PeerStep(c)
      PROVE  Links'
  <2>1. UNCHANGED <<generation, op>>
    BY <1>5, RunAlone
  <2>2. CASE FinalReports(c) \/ UsbReports(c)
    BY <1>5, <2>1, <2>2, ReportsEdit, LinksEdited, NeverOpenedRests
  <2>3. CASE ~FinalReports(c) /\ ~UsbReports(c)
    <3>1. connection' = connection /\ (conn' = conn \/ Edits(c))
      BY <1>5, <2>3, ReadersEdit
    <3> QED
      BY <1>1, <1>5, <2>1, <3>1, LinksEdited, NeverOpenedRests
  <2> QED
    BY <2>2, <2>3
<1> QED
  BY <1>2, <1>3, <1>4, <1>5 DEF Next

-----------------------------------------------------------------------------
(* What the window shows *)

\* Without a connection, and with the newest call done or about to be, the state
\* says so, unless that call has run into its time limit; a silent end is one that
\* connect or the controller has been told of.
Told ==
  /\ connection = 0 /\ (generation = 0 \/ op[generation].pc = "returned") =>
        state.name \in Ended \/ (TimedOut /\ state = Show("Connecting", generation))
  /\ generation # 0 /\ op[generation].pc = "open" => state = Show("Connecting", generation)
  /\ \A o \in Tokens :
        op[o].pc \in Closing /\ o = generation /\ (op[o].call = "disconnect" \/ op[o].target = o)
          => state.name \in Ended
  /\ \A c \in Tokens : conn[c].early /\ generation = c => connection = 0 /\ state.name \in Ended
  /\ \A c \in Tokens : Silent(conn[c]) /\ generation = c =>
        conn[c].early \/ (connection # c /\ op[c].pc # "opened")

\* A call that has been replaced acts: its replacement waits.
LEMMA Replaced ==
    ASSUME TypeOK, Order, Links, NEW o \in Tokens, op[o].pc \notin {"idle", "returned"},
           o # generation
    PROVE  generation \in Tokens /\ op[generation].pc = "wait" /\ conn[generation] = NoConn
<1>1. op[generation].pc = "wait"
  BY DEF Order, Newest
<1>2. generation \in Tokens
  <2>1. o <= generation
    BY MobileAssumption DEF Order, Calls, CallFits, TypeOK, Tokens
  <2> QED
    BY <2>1, MobileAssumption DEF TypeOK, Tokens
<1> QED
  BY <1>1, <1>2 DEF Links, LinkFits, Unopened

LEMMA ToldOfCalls ==
    ASSUME TypeOK, Order, Links, Told, NEW o \in Tokens, OpStep(o)
    PROVE  Told'
<1>0. /\ OpTyped /\ o \in Ops /\ o # 0 /\ CallFits(o) /\ Calls
      /\ Moves(o) /\ generation' = generation /\ queue # <<>> /\ Head(queue) = o
      /\ op[o].pc \notin {"idle", "returned"}
      /\ op'[o].pc \in Opening \cup Closing \cup {"returned"}
      /\ \A p \in Tokens : p # o => op'[p] = op[p] /\ op[p].pc \in Still
  BY CallMoves DEF TypeOK, OpTyped, Ops, Tokens, Order, Calls, Moves
<1>1. generation # o => generation \in Tokens /\ op[generation].pc = "wait"
                        /\ op'[generation].pc = "wait" /\ conn[generation] = NoConn
  BY <1>0, Replaced
<1>2. generation # 0
  BY <1>0, <1>1 DEF Tokens
<1> USE DEF Still, Opening, Closing
\* A step that leaves no connection and no call that has just opened one.
<1>3. ASSUME connection' = 0, op'[o].pc # "opened",
             o = generation /\ op'[o].pc = "open" => state' = Show("Connecting", o),
             \A c \in Tokens : conn'[c].early => conn[c].early,
             o = generation =>
               \/ state'.name \in Ended
               \/ /\ op'[o].pc # "returned"
                  /\ state' = state \/ ~conn[o].early
                  /\ op'[o].pc \in Closing /\ (op'[o].call = "disconnect" \/ op'[o].target = o)
                       => state'.name \in Ended
      PROVE  Told'
  <2>1. \A c \in Tokens : op'[c].pc # "opened"
    BY <1>0, <1>3
  <2>2. ASSUME NEW c \in Tokens, conn'[c].early, generation = c
        PROVE  state'.name \in Ended
    <3>1. conn[c].early /\ state.name \in Ended
      BY <1>3, <2>2 DEF Told
    <3>2. c = o
      BY <1>1, <2>2, <3>1 DEF NoConn
    <3> QED
      BY <1>3, <2>2, <3>1, <3>2
  <2> QED
    BY <1>0, <1>1, <1>2, <1>3, <2>1, <2>2 DEF Told, Tokens
<1>4. CASE conn' = conn /\ connection' = 0 /\ state'.name \in Ended
             /\ op'[o].pc \notin {"open", "opened"}
  BY <1>3, <1>4
<1>5. CASE Superseded(o)
  <2>1. UNCHANGED <<connection, conn>> /\ op[o].pc = "check" /\ generation # o
        /\ op'[o].pc = "returned"
    BY <1>0, <1>5, ReturnMoves DEF Superseded, Holds
  <2> QED
    BY <1>0, <1>3, <2>1 DEF CallFits
<1>6. CASE StillWanted(o) \/ Announce(o)
  <2>1. /\ UNCHANGED <<connection, conn>> /\ op[o].pc \in {"check", "announce"}
        /\ op'[o].pc \in {"announce", "open"}
        /\ state' = state \/ op[o].pc = "announce"
        /\ op'[o].pc = "open" => state' = Show("Connecting", o)
    BY <1>0, <1>6, GotoMoves DEF StillWanted, Announce, Holds
  <2>2. conn[o] = NoConn
    BY <2>1 DEF Links, LinkFits, Unopened
  <2> QED
    BY <1>0, <1>3, <2>1, <2>2 DEF CallFits, NoConn
<1>7. CASE OpenSucceeds(o)
  <2>1. /\ op[o].pc = "open" /\ op'[o].pc = "opened" /\ connection = 0 /\ connection' = 0
        /\ conn' = [conn EXCEPT ![o] = Opened(op[o].kind)] /\ state' = state
    BY <1>0, <1>7, GotoMoves DEF OpenSucceeds, Holds, CallFits
  <2>2. conn'[o] = Opened(op[o].kind) /\ \A c \in Tokens : c # o => conn'[c] = conn[c]
    BY <2>1 DEF TypeOK
  <2>3. ~conn'[o].early /\ ~conn'[o].closed
    BY <2>2 DEF Opened, NoConn
  <2> QED
    BY <1>0, <1>1, <1>2, <2>1, <2>2, <2>3 DEF Told, Silent, Tokens
<1>f. ASSUME OpenFails(o) \/ OpenTimesOut(o)
      PROVE  /\ connection' = 0 /\ op[o].pc = "open" /\ op'[o].pc = "returned"
             /\ \A c \in Tokens : conn'[c] = conn[c] \/ (c = o /\ NeverOpened(conn'[c]) /\ ~conn'[c].early)
  <2>1. /\ connection' = 0 /\ op[o].pc = "open" /\ op'[o].pc = "returned" /\ op[o].kind \in Kinds
    BY <1>0, <1>f, ReturnMoves DEF OpenFails, OpenTimesOut, Holds, CallFits
  <2>2. PICK k \in Kinds : k = op[o].kind
    BY <2>1
  <2>3. conn' = conn \/ (k \in {"ble", "udp", "tcpServer"} /\ conn' = [conn EXCEPT ![o] = Left(k)])
    BY <1>f, <2>2 DEF OpenFails, OpenTimesOut
  <2> QED
    BY <2>1, <2>3, LeftFits DEF NeverOpened, TypeOK
<1>8. CASE OpenFails(o)
  <2>1. generation = o => state'.name \in Ended
    BY <1>8 DEF OpenFails, Show, Ended
  <2>2. \A c \in Tokens : conn'[c].early => conn[c].early
    BY <1>8, <1>f
  <2> QED
    BY <1>3, <1>8, <1>f, <2>1, <2>2
<1>t. CASE OpenTimesOut(o)
  <2>1. /\ state' = state
        /\ generation = o => state' = Show("Connecting", o)
    BY <1>0, <1>t, <1>f DEF OpenTimesOut, Told
  <2>2. generation = o => TimedOut'
    <3>1. op[o].kind = "ble" /\ conn' = [conn EXCEPT ![o] = Left("ble")] /\ "ble" \in Kinds
      BY <1>0, <1>t DEF OpenTimesOut, Holds, CallFits
    <3>2. conn'[o] = Left("ble")
      BY <3>1 DEF TypeOK
    <3> QED
      BY <1>0, <3>1, <3>2, LeftFits DEF TimedOut, NeverOpened
  <2>3. \A c \in Tokens : /\ conn'[c].early => conn[c].early
                          /\ Silent(conn'[c]) => Silent(conn[c])
                          /\ c = o => ~Silent(conn'[c])
    <3>1. conn' = [conn EXCEPT ![o] = Left("ble")] /\ "ble" \in Kinds
      BY <1>0, <1>t DEF OpenTimesOut, Holds, CallFits
    <3>2. conn'[o] = Left("ble") /\ \A c \in Tokens : c # o => conn'[c] = conn[c]
      BY <3>1 DEF TypeOK
    <3>3. ~Left("ble").early /\ ~Left("ble").closed
      BY <3>1, LeftFits
    <3> QED
      BY <3>2, <3>3 DEF Silent
  <2>4. \A c \in Tokens : op'[c].pc \notin Closing \cup {"open", "opened"}
    BY <1>0, <1>f, <1>t
  <2>5. ASSUME NEW c \in Tokens, conn'[c].early, generation = c
        PROVE  connection' = 0 /\ state'.name \in Ended
    <3>1. c = o
      BY <1>1, <2>3, <2>5 DEF NoConn
    <3> QED
      BY <1>t, <1>f, <2>1, <2>3, <2>5 DEF Told
  <2>6. ASSUME NEW c \in Tokens, Silent(conn'[c]), generation = c
        PROVE  FALSE
    BY <1>1, <2>3, <2>6 DEF NoConn, Silent
  <2>7. generation \in Tokens
    BY <1>0, <1>1
  <2> QED
    BY <1>0, <1>1, <1>2, <1>t, <1>f, <2>1, <2>2, <2>4, <2>5, <2>6, <2>7 DEF Told
<1>9. CASE Accept(o)
  <2>1. conn' = conn /\ op[o].pc = "opened" /\ connection = 0
    BY <1>0, <1>9 DEF Accept, Holds, CallFits
  <2>2. CASE generation = o /\ ~conn[o].early
    <3>1. connection' = o /\ op'[o].pc = "returned"
      BY <1>0, <1>9, <2>2, ReturnMoves DEF Accept, Holds
    <3>2. ~Silent(conn[o])
      BY <2>1, <2>2 DEF Told
    <3> QED
      BY <1>0, <2>1, <2>2, <3>1, <3>2 DEF Told
  <2>3. CASE ~(generation = o /\ ~conn[o].early)
    <3>1. connection' = 0 /\ state' = state /\ op'[o].pc = "close"
      BY <1>0, <1>9, <2>1, <2>3, TargetMoves DEF Accept, Holds
    <3>2. generation = o => state'.name \in Ended
      BY <2>3, <3>1 DEF Told
    <3> QED
      BY <1>3, <2>1, <3>1, <3>2
  <2> QED
    BY <2>2, <2>3
<1>10. CASE ConnectTakes(o)
  <2>1. /\ UNCHANGED <<conn, state>> /\ connection' = 0 /\ op[o].pc = "wait"
        /\ op'[o].pc \in {"check", "close"} /\ op'[o].target = connection
        /\ op'[o].call = "connect"
    BY <1>0, <1>10, TargetMoves DEF ConnectTakes, Holds
  <2>2. connection # o
    BY <1>0, <2>1 DEF Calls
  <2> QED
    BY <1>3, <2>1, <2>2
<1>11. CASE DisconnectTakes(o)
  <2>1. /\ conn' = conn /\ connection' = 0 /\ state'.name \in Ended
        /\ op'[o].pc \in {"close", "returned"}
    BY <1>0, <1>11, ReturnMoves, TargetMoves DEF DisconnectTakes, Holds, Show, Ended
  <2> QED
    BY <1>4, <2>1
<1>12. ASSUME op[o].pc \in Closing, NEW t \in Tokens, t = op[o].target, NEW r,
              conn' = [conn EXCEPT ![t] = r], r.early = conn[t].early,
              UNCHANGED <<connection, state>>,
              \/ op'[o].pc \in Closing /\ op'[o].call = op[o].call /\ op'[o].target = op[o].target
              \/ op'[o].pc = "check"
              \/ op'[o].pc = "returned" /\ ~(op[o].call = "connect" /\ op[o].target # o)
       PROVE  Told'
  <2>1. connection' = 0
    BY <1>0, <1>12 DEF CallFits
  <2>2. \A c \in Tokens : conn'[c].early => conn[c].early
    BY <1>12 DEF TypeOK
  <2>3. op[o].call \in {"connect", "disconnect"}
    BY <1>0, <1>12 DEF CallFits
  <2>4. o = generation /\ (op[o].call = "disconnect" \/ op[o].target = o) => state.name \in Ended
    BY <1>12 DEF Told
  <2> QED
    BY <1>3, <1>12, <2>1, <2>2, <2>3, <2>4
<1>13. CASE CloseMarks(o) \/ CloseCancels(o)
  <2>1. PICK t \in Tokens : t = op[o].target
    BY <1>0, <1>13 DEF CloseMarks, CloseCancels, Holds, CallFits
  <2>2. /\ op[o].pc \in {"close", "cancel"} /\ op'[o].pc \in Closing /\ UNCHANGED <<connection, state>>
        /\ op'[o].call = op[o].call /\ op'[o].target = op[o].target
    BY <1>0, <1>13, <2>1, GotoMoves DEF CloseMarks, CloseCancels, Holds
  <2>3. \/ conn' = [conn EXCEPT ![t].closed = TRUE]
        \/ conn' = [conn EXCEPT ![t].cancelled = TRUE]
    BY <1>13, <2>1 DEF CloseMarks, CloseCancels, Target
  <2>4. /\ [conn[t] EXCEPT !.closed = TRUE].early = conn[t].early
        /\ [conn[t] EXCEPT !.cancelled = TRUE].early = conn[t].early
    BY DEF TypeOK, ConnType
  <2> QED
    BY <1>12, <2>1, <2>2, <2>3, <2>4
<1>14. CASE CloseShuts(o)
  <2>1. PICK t \in Tokens : t = op[o].target
    BY <1>0, <1>14 DEF CloseShuts, Holds, CallFits
  <2>2. conn[t] \in ConnType /\ Sane(conn[t]) /\ conn[t].kind # "none"
    <3>1. Held(t)
      BY <1>0, <2>1, HeadHolds
    <3> QED
      BY <3>1 DEF TypeOK, Links, LinkFits
  <2>3. ShutAll(conn[t]).early = conn[t].early
    BY <2>2, ShutFits
  <2>4. /\ op[o].pc = "shut" /\ UNCHANGED <<connection, state>>
        /\ conn' = [conn EXCEPT ![t] = ShutAll(conn[t])]
    BY <1>0, <1>14, <2>1 DEF CloseShuts, Holds, Target
  <2>5. \/ op'[o].pc \in Closing /\ op'[o].call = op[o].call /\ op'[o].target = op[o].target
        \/ op'[o].pc = "check"
        \/ op'[o].pc = "returned" /\ ~(op[o].call = "connect" /\ op[o].target # o)
    BY <1>0, <1>14, GotoMoves, AfterCloseReturns DEF CloseShuts, Holds
  <2> QED
    BY <1>12, <2>1, <2>3, <2>4, <2>5
<1>15. CASE CloseThrows(o)
  <2>1. PICK t \in Tokens : t = op[o].target
    BY <1>0, <1>15 DEF CloseThrows, Holds, CallFits
  <2>2. /\ op[o].pc = "shut" /\ connection' = connection /\ op'[o].pc = "returned"
        /\ conn' = [conn EXCEPT ![t].main = Shut(@)]
        /\ generation = o => state'.name \in Ended
    BY <1>0, <1>15, <2>1, ReturnMoves DEF CloseThrows, Holds, Show, Ended, Target
  <2>3. \A c \in Tokens : conn'[c].early => conn[c].early
    <3>1. [conn[t] EXCEPT !.main = Shut(@)].early = conn[t].early
      BY DEF TypeOK, ConnType
    <3> QED
      BY <2>2, <3>1 DEF TypeOK
  <2> QED
    BY <1>0, <1>3, <2>2, <2>3 DEF CallFits
<1>16. CASE CloseJoins(o)
  <2>1. PICK t \in Tokens : t = op[o].target
    BY <1>0, <1>16 DEF CloseJoins, Holds, CallFits
  <2>2. op[o].pc = "join" /\ UNCHANGED <<connection, state>> /\ conn' = [conn EXCEPT ![t] = conn[t]]
    BY <1>0, <1>16 DEF CloseJoins, Holds, TypeOK
  <2>3. \/ op'[o].pc = "check"
        \/ op'[o].pc = "returned" /\ ~(op[o].call = "connect" /\ op[o].target # o)
    BY <1>0, <1>16, AfterCloseReturns DEF CloseJoins
  <2> QED
    BY <1>12, <2>1, <2>2, <2>3
<1> QED
  BY <1>5, <1>6, <1>7, <1>8, <1>t, <1>9, <1>10, <1>11, <1>13, <1>14, <1>15, <1>16 DEF OpStep

LEMMA ToldKept ==
    ASSUME TypeOK, Order, Links, Told, Next
    PROVE  Told'
<1>1. CASE CallConnect \/ CallDisconnect
  <2>1. PICK call, kind : Call(call, kind)
    BY <1>1 DEF CallConnect, CallDisconnect
  <2>2. PICK o \in Tokens : o = generation + 1
    BY <2>1, MobileAssumption DEF Call, TypeOK, Tokens
  <2>a. op' = [op EXCEPT ![o] = [pc |-> "wait", call |-> call, kind |-> kind, target |-> 0]]
    BY <2>1, <2>2 DEF Call
  <2>b. o \in Ops
    BY DEF Ops
  <2>c. op'[o].pc = "wait" /\ \A p \in Tokens : p # o => op'[p] = op[p]
    BY <2>a, <2>b DEF TypeOK
  <2>3. /\ op'[o].pc = "wait" /\ generation' = o /\ UNCHANGED <<connection, state, conn>>
        /\ \A p \in Tokens : p # o => op'[p] = op[p]
    BY <2>1, <2>2, <2>c DEF Call
  <2>4. conn[o] = NoConn
    <3>1. op[o].pc = "idle"
      BY <2>2, MobileAssumption DEF Order, Calls, CallFits, TypeOK, Tokens
    <3> QED
      BY <3>1 DEF Links, LinkFits, Unopened
  <2> QED
    BY <2>2, <2>3, <2>4 DEF Told, Silent, NoConn, Closing, Tokens
<1>2. ASSUME NEW s \in Senders, CallSend(s) \/ SendStep(s)
      PROVE  Told'
  <2>1. s \in Ops /\ s \notin Tokens
    BY MobileAssumption DEF Ops, Tokens
  <2>2. /\ UNCHANGED <<generation, connection, state, conn>>
        /\ \A o \in Tokens : op'[o] = op[o]
    BY <1>2, <2>1, SendMoves DEF CallSend, Moves, Ops, TypeOK, Order
  <2>3. generation = 0 \/ generation \in Tokens
    BY MobileAssumption DEF TypeOK, Tokens
  <2> QED
    BY <2>2, <2>3 DEF Told, TimedOut
<1>3. ASSUME NEW o \in Tokens, OpStep(o)
      PROVE  Told'
  BY <1>3, ToldOfCalls
<1>4. ASSUME NEW c \in Tokens, ReaderStep(c) \/ PeerStep(c)
      PROVE  Told'
  <2>1. UNCHANGED <<generation, op>>
    BY <1>4, RunAlone
  <2>n. (generation = 0 \/ generation \in Tokens) /\ ~NeverOpened(conn[c])
    BY <1>4, NeverOpenedRests, MobileAssumption DEF TypeOK, Tokens
  <2>2. CASE ~FinalReports(c) /\ ~UsbReports(c)
    <3>1. /\ connection' = connection /\ StateKept(c)
          /\ conn' = conn \/ (Edits(c) /\ Quiet(conn[c], conn'[c]))
      BY <1>4, <2>2, ReadersEdit
    <3>2. \A d \in Tokens : /\ conn'[d].early = conn[d].early
                            /\ Silent(conn'[d]) => Silent(conn[d])
      BY <3>1 DEF Edits, Quiet
    <3>3. state' = state \/ connection # 0
      BY <3>1 DEF StateKept, Tokens
    <3>4. \A o \in Tokens : op[o].pc \in Closing \cup {"open"} => connection = 0
      BY DEF Order, Calls, CallFits, Opening
    <3>5. TimedOut => TimedOut'
      BY <2>1, <2>n, <3>1 DEF TimedOut, Edits
    <3> QED
      BY <2>1, <2>n, <3>1, <3>2, <3>3, <3>4, <3>5 DEF Told
  <2>3. CASE FinalReports(c) \/ UsbReports(c)
    <3>1. /\ Edits(c)
          /\ generation = c => /\ connection' = 0 /\ state'.name \in Ended
                               /\ conn'[c].early <=> conn[c].early \/ connection = 0
          /\ generation # c => UNCHANGED <<connection, state>> /\ conn'[c].early = conn[c].early
      BY <2>3, ReportsEdit
    <3>2. CASE generation # c
      <4>1. \A d \in Tokens : d # c => conn'[d] = conn[d]
        BY <3>1 DEF Edits
      <4> QED
        BY <2>1, <2>n, <3>1, <3>2, <4>1 DEF Told, TimedOut
    <3>3. CASE generation = c
      <4>1. ~Unopened(c)
        BY <3>1 DEF Links, LinkFits, Edits, Grows, NoConn
      <4>2. connection \in {0, c}
        BY <3>3, <4>1 DEF Order, Newest, Unopened
      <4>3. connection = c => op[c].pc = "returned"
        BY DEF Order, Calls, Tokens
      <4>4. c # 0 /\ op[c].pc # "open"
        BY <4>1 DEF Tokens, Unopened
      <4> QED
        BY <2>1, <3>1, <3>3, <4>2, <4>3, <4>4 DEF Told
    <3> QED
      BY <3>2, <3>3
  <2> QED
    BY <2>2, <2>3
<1> QED
  BY <1>1, <1>2, <1>3, <1>4 DEF Next

LEMMA SessionKept ==
    ASSUME TypeOK, Order, Links, Session, Next
    PROVE  Session'
<1>1. CASE CallConnect \/ CallDisconnect
  BY <1>1 DEF CallConnect, CallDisconnect, Call, Session
<1>2. ASSUME NEW s \in Senders, CallSend(s) \/ SendStep(s)
      PROVE  Session'
  BY <1>2, SendMoves DEF CallSend, Session, Order
<1>3. ASSUME NEW o \in Tokens, OpStep(o)
      PROVE  Session'
  <2>1. connection' = 0 \/ (connection' = o /\ op'[o].pc = "returned")
    BY <1>3, CallMoves DEF Order
  <2>2. ASSUME connection' = o
        PROVE  state'.of = o /\ state'.name \in {"Connected", "Reconnecting"}
    <3>1. op[o].pc \in Opening \cup Closing => connection = 0
      BY DEF Order, Calls, CallFits
    <3>2. (o # 0 /\ connection # o) \/ op[o].pc = "returned"
      BY DEF Tokens, Order, Calls
    <3>3. Accept(o) /\ generation = o /\ ~conn[o].early
      BY <1>3, <2>2, <3>1, <3>2 DEF OpStep, Superseded, StillWanted, Announce, OpenSucceeds,
           OpenFails, OpenTimesOut, Accept, ConnectTakes, DisconnectTakes, CloseMarks, CloseShuts, CloseThrows,
           CloseCancels, CloseJoins, Holds, Opening, Closing, Tokens
    <3> QED
      BY <3>3 DEF Accept, Show
  <2> QED
    BY <2>1, <2>2 DEF Session
<1>4. ASSUME NEW c \in Tokens, ReaderStep(c) \/ PeerStep(c)
      PROVE  Session'
  <2>1. CASE ~FinalReports(c) /\ ~UsbReports(c)
    BY <1>4, <2>1, ReadersEdit DEF StateKept, Show, Session
  <2>2. CASE FinalReports(c) \/ UsbReports(c)
    BY <2>2, ReportsEdit DEF Session
  <2> QED
    BY <2>1, <2>2
<1> QED
  BY <1>1, <1>2, <1>3, <1>4 DEF Next

\* What is being sent goes to a connection.
Sending == \A s \in Senders : op[s].pc \in {"write", "record"} => op[s].target # 0

LEMMA SendingKept ==
    ASSUME TypeOK, Order, Sending, Next
    PROVE  Sending'
<1>0. OpTyped /\ Calls /\ \A s \in Senders : s \in Ops /\ s \notin Tokens
  BY MobileAssumption DEF TypeOK, OpTyped, Order, Ops, Tokens
<1>1. CASE CallConnect \/ CallDisconnect
  <2>1. \A s \in Senders : s # generation + 1
    BY MobileAssumption DEF TypeOK
  <2>2. \A s \in Senders : op'[s] = op[s]
    BY <1>0, <1>1, <2>1 DEF CallConnect, CallDisconnect, Call, OpTyped
  <2> QED
    BY <2>2 DEF Sending
<1>2. ASSUME NEW s \in Senders, CallSend(s)
      PROVE  Sending'
  <2>1. op'[s].pc = "wait" /\ \A q \in Senders : q # s => op'[q] = op[q]
    BY <1>0, <1>2 DEF CallSend, OpTyped, NoOp
  <2> QED
    BY <2>1 DEF Sending
<1>3. ASSUME NEW s \in Senders, SendStep(s)
      PROVE  Sending'
  <2>1. \A q \in Senders : q # s => op'[q] = op[q]
    BY <1>0, <1>3, SendMoves DEF Moves
  <2>2. op'[s].pc \in {"write", "record"} => op'[s].target # 0
    <3>1. CASE SendTakes(s) \/ WriteFails(s) \/ RecordSent(s)
      BY <1>0, <3>1, ReturnMoves, TargetMoves DEF SendTakes, WriteFails, RecordSent, Holds, Still
    <3>2. CASE Written(s)
      BY <1>0, <3>2, GotoMoves DEF Written, Holds, Still, Sending
    <3> QED
      BY <1>3, <3>1, <3>2 DEF SendStep
  <2> QED
    BY <2>1, <2>2 DEF Sending
<1>4. ASSUME NEW o \in Tokens, OpStep(o)
      PROVE  Sending'
  BY <1>0, <1>4, CallMoves DEF Moves, Sending
<1>5. ASSUME NEW c \in Tokens, ReaderStep(c) \/ PeerStep(c)
      PROVE  Sending'
  BY <1>5, RunAlone DEF Sending
<1> QED
  BY <1>1, <1>2, <1>3, <1>4, <1>5 DEF Next

LEMMA PacketsKept ==
    ASSUME TypeOK, Session, Sending, PacketsBelongToTheSessionShown, Next
    PROVE  PacketsBelongToTheSessionShown'
<1> DEFINE Good(p) == p.during.of = p.of /\ p.during.name \in {"Connected", "Reconnecting"}
<1>1. ASSUME NEW c, c # 0, connection = c
      PROVE  Good(Packet(c))
  BY <1>1 DEF Session, Packet
<1>2. shown' = shown \/ (connection # 0 /\ shown' = shown \cup {Packet(connection)})
  <2>1. CASE CallConnect \/ CallDisconnect
    BY <2>1 DEF CallConnect, CallDisconnect, Call
  <2>2. ASSUME NEW s \in Senders, CallSend(s) \/ SendStep(s)
        PROVE  shown' = shown \/ (connection # 0 /\ shown' = shown \cup {Packet(connection)})
    <3>1. CASE RecordSent(s) /\ connection # 0
      BY <3>1 DEF RecordSent, Packet
    <3>2. CASE RecordSent(s) /\ connection = 0
      BY <3>2 DEF RecordSent, Holds, Sending, Target
    <3> QED
      BY <2>2, <3>1, <3>2 DEF CallSend, SendStep, SendTakes, Written, WriteFails
  <2>3. ASSUME NEW o \in Tokens, OpStep(o)
        PROVE  shown' = shown
    BY <2>3 DEF OpStep, Superseded, StillWanted, Announce, OpenSucceeds, OpenFails, OpenTimesOut, Accept,
         ConnectTakes, DisconnectTakes, CloseMarks, CloseShuts, CloseThrows, CloseCancels, CloseJoins
  <2>4. ASSUME NEW c \in Tokens, ReaderStep(c) \/ PeerStep(c)
        PROVE  shown' = shown \/ (connection # 0 /\ shown' = shown \cup {Packet(connection)})
    <3>1. CASE OnBytes(c)
      BY <3>1 DEF OnBytes, Tokens
    <3>2. CASE PeerStep(c) /\ ~OnBytes(c)
      BY <3>2 DEF PeerStep, ReadEnds, UdpLoopEnds, BleDrops, UsbDetached, ServerAccepts,
           ServerFails, LinkLost, Redials, LoopEndsAfterBytes, Reader
    <3>3. CASE ReaderStep(c)
      BY <3>3 DEF ReaderStep, FinalCloses, FinalMarks, FinalReports, UsbReports, ServerAttaches,
           ReaderStarts, ReaderNeverRuns, LoopEnds, LoopGoesOn, ReportsLoss, DropsRedialed,
           KeepsRedialed, Adopts, ReportsRegained, Reader
    <3> QED
      BY <2>4, <3>1, <3>2, <3>3
  <2> QED
    BY <2>1, <2>2, <2>3, <2>4 DEF Next
<1> QED
  BY <1>1, <1>2 DEF PacketsBelongToTheSessionShown

-----------------------------------------------------------------------------
(* The invariant *)

Inv ==
  /\ TypeOK /\ Order /\ Links /\ Told /\ Session /\ Sending
  /\ PacketsBelongToTheSessionShown

LEMMA InitInv == Init => Inv
<1> SUFFICES ASSUME Init
             PROVE  Inv
  OBVIOUS
<1>1. \A o \in Ops : op[o].pc = "idle" /\ op[o].target = 0 /\ op[o].call = "none"
  BY DEF Init, NoOp
<1>2. \A c \in Tokens : conn[c] = NoConn
  BY DEF Init
<1>3. Order
  BY <1>1 DEF Init, Order, Calls, CallFits, Line, Newest, Still, Opening, Closing, Ops, Tokens
<1>4. Links
  BY <1>1, <1>2 DEF Init, Links, LinkFits, Sane, NoConn, Held, Plain, Ops, Tokens
<1>5. Told
  BY <1>1, <1>2 DEF Init, Told, Silent, NoConn, Show, Ended, Closing, Ops, Tokens
<1>6. Session /\ Sending /\ PacketsBelongToTheSessionShown
  BY <1>1 DEF Init, Session, Sending, PacketsBelongToTheSessionShown, Ops
<1> QED
  BY <1>3, <1>4, <1>5, <1>6, InitTypes DEF Inv

LEMMA Unchanged ==
    ASSUME Inv, UNCHANGED vars
    PROVE  Inv'
<1> USE DEF vars, Inv
<1>1. Order'
  BY DEF Order, Calls, CallFits, Line, Newest
<1>2. Links'
  BY DEF Links, LinkFits, Held, Shutting, Unopened
<1>3. Told' /\ Session' /\ Sending' /\ PacketsBelongToTheSessionShown'
  BY DEF Told, TimedOut, Session, Sending, PacketsBelongToTheSessionShown
<1> QED
  BY <1>1, <1>2, <1>3, Types DEF Order

LEMMA Inductive == Spec => []Inv
<1>1. Inv /\ [Next]_vars => Inv'
  <2> SUFFICES ASSUME Inv, [Next]_vars
               PROVE  Inv'
    OBVIOUS
  <2>1. CASE Next
    BY <2>1, Types, OrderKept, LinksKept, ToldKept, SessionKept, SendingKept, PacketsKept
       DEF Inv, Order
  <2> QED
    BY <2>1, Unchanged
<1> QED
  BY InitInv, <1>1, PTL DEF Spec

\* An open connection is in the hands of somebody who will close it, or lost.
LEMMA OpenIsHeldOrLost ==
    ASSUME Inv, NEW c \in Tokens, Open(c)
    PROVE  Held(c) \/ Lost(c)
<1>1. LinkFits(c) /\ conn[c] \in ConnType
  BY DEF Inv, Links, TypeOK
<1>2. conn[c].kind \in AllKinds
  <2>1. conn[c].kind # "none"
    BY <1>1 DEF LinkFits, Sane, Open, NoConn
  <2> QED
    BY <1>1, <2>1, MobileAssumption DEF ConnType
<1>3. CASE ~conn[c].closed
  BY <1>1, <1>2, <1>3 DEF LinkFits, AllKinds, Lost
<1>4. CASE conn[c].closed /\ conn[c].kind \in Plain
  <2>1. conn[c].main = "open"
    BY <1>1, <1>4 DEF LinkFits, Sane, Open
  <2>2. Shutting(c)
    BY <1>1, <1>4, <2>1 DEF LinkFits
  <2> QED
    BY <2>2 DEF Shutting, Held
<1>5. CASE conn[c].closed /\ conn[c].kind \notin Plain
  BY <1>2, <1>5 DEF Lost, AllKinds, Plain
<1> QED
  BY <1>3, <1>4, <1>5

\* Nothing but its reader closes a connection nobody holds, and such a reader has
\* shut it already, or has ended.
LEMMA OwnedIsHeld ==
    ASSUME Inv, NEW c \in Tokens, Open(c), Owned(c)
    PROVE  Held(c)
<1> SUFFICES ASSUME ~Held(c)
             PROVE  FALSE
  OBVIOUS
<1>1. LinkFits(c) /\ conn[c].reader \in {"final", "dialed"} /\ Lost(c)
  BY OpenIsHeldOrLost DEF Inv, Links, Owned, Held
<1> QED
  BY <1>1 DEF LinkFits, Sane, Lost, NeverOpened

LEMMA OneIsHeld ==
    ASSUME Inv, NEW c \in Tokens, NEW d \in Tokens, Held(c), Held(d)
    PROVE  c = d
<1>1. Calls /\ TypeOK /\ c # 0 /\ d # 0
  BY DEF Inv, Order, Tokens
<1>2. CASE \E o \in Tokens : op[o].pc \notin Still
  <2>1. PICK o \in Tokens : op[o].pc \notin Still
    BY <1>2
  <2>2. queue # <<>> /\ Head(queue) = o
    BY <1>1, <2>1 DEF Calls, Ops
  <2>3. op[o].pc \in Opening \cup Closing => connection = 0
    BY <1>1, <2>1 DEF Calls, CallFits
  <2>4. op[o].pc = "opened" => op[o].target = 0
    BY <1>1, <2>1 DEF Calls, CallFits, Opening
  <2>5. op[o].pc \in Opening \cup Closing
    BY <1>1, <2>1 DEF Calls, CallFits
  <2>6. \A e \in {c, d} : op[o].target = e \/ (o = e /\ op[o].pc = "opened")
    <3>1. ASSUME NEW e \in Tokens, Held(e)
          PROVE  op[o].target = e \/ (o = e /\ op[o].pc = "opened")
      <4>1. connection = e \/ op[o].target = e \/ (o = e /\ op[o].pc = "opened")
        BY <1>1, <2>1, <2>2, <3>1, HeadHolds
      <4> QED
        BY <2>3, <2>5, <4>1 DEF Tokens
    <3> QED
      BY <3>1
  <2> QED
    BY <1>1, <2>4, <2>6
<1>3. CASE \A o \in Tokens : op[o].pc \in Still
  <2>1. \A o \in Tokens : op[o].target = 0 /\ op[o].pc # "opened"
    BY <1>1, <1>3 DEF Calls, CallFits, Still
  <2> QED
    BY <1>1, <2>1 DEF Held
<1> QED
  BY <1>2, <1>3

-----------------------------------------------------------------------------
(* Theorems *)

\* The variables of the sessions keep to their types.
THEOREM MobileTypeCorrect == Spec => []TypeOK
BY Inductive, PTL DEF Inv

\* However the calls, the end of a connection and its late reports come, what the
\* window shows when no call is under way is true, except that a BLE opening which
\* timed out stays "Connecting": the generation of each call and the flag of an
\* early end in SessionController.connect.
THEOREM QuietStateTells == Spec => []QuietStateIsTrue
<1>1. Inv => QuietStateIsTrue
  <2> SUFFICES ASSUME Inv, queue = <<>>
               PROVE  IF connection = 0
                      THEN \/ state.name \in {"Disconnected", "Failed"}
                           \/ TimedOut /\ state = Show("Connecting", generation)
                      ELSE /\ state.name \in {"Connected", "Reconnecting"}
                           /\ state.of = connection /\ connection = generation
                           /\ ~EndedSilently(connection)
    BY DEF QuietStateIsTrue
  <2>1. \A o \in Tokens : op[o].pc \in {"idle", "returned"}
    BY DEF Inv, Order, Line
  <2>2. generation = 0 \/ (generation \in Tokens /\ op[generation].pc = "returned")
    <3>1. generation = 0 \/ generation \in Tokens
      BY MobileAssumption DEF Inv, TypeOK, Tokens
    <3>2. generation \in Tokens => op[generation].pc # "idle"
      BY DEF Inv, Order, Calls, CallFits, Tokens
    <3> QED
      BY <2>1, <3>1, <3>2
  <2>3. CASE connection = 0
    BY <2>2, <2>3 DEF Inv, Told, Ended
  <2>4. CASE connection # 0
    <3>1. connection \in Tokens /\ op[connection].pc = "returned"
      BY <2>4 DEF Inv, TypeOK, Tokens, Order, Calls
    <3>2. connection = generation
      <4>1. generation # 0
        BY <3>1, MobileAssumption DEF Inv, Order, Calls, CallFits, TypeOK, Tokens
      <4> QED
        BY <2>2, <2>4, <4>1 DEF Inv, Order, Newest
    <3>3. ~EndedSilently(connection)
      BY <2>4, <3>1, <3>2 DEF Inv, Told, EndedSilently, Silent
    <3> QED
      BY <2>4, <3>2, <3>3 DEF Inv, Session
  <2> QED
    BY <2>3, <2>4
<1> QED
  BY Inductive, <1>1, PTL

\* No packet of one session is given to the capture as if it were of another: the
\* comparison of generation and connectionGeneration under stateLock.
THEOREM PacketsStayInTheirSession == Spec => []PacketsBelongToTheSessionShown
BY Inductive, PTL DEF Inv

\* The controller never drops the last reference to something open, but for the
\* handles that Lost names.
THEOREM NoHandleIsForgotten == Spec => []NoHandleLeaks
<1>1. Inv => NoHandleLeaks
  BY OpenIsHeldOrLost DEF NoHandleLeaks, Held, Owned
<1> QED
  BY Inductive, <1>1, PTL

\* A new connection is opened only after the old one is closed, so two never compete
\* for one device or port: connect closes under operationLock before it opens.
THEOREM OneConnection == Spec => []OneLink
<1>1. Inv => OneLink
  <2> SUFFICES ASSUME Inv, NEW c \in Tokens, NEW d \in Tokens, c # d, Open(c), Open(d)
               PROVE  (~Owned(c) /\ Lost(c)) \/ (~Owned(d) /\ Lost(d))
    BY DEF OneLink
  <2>1. ~Held(c) \/ ~Held(d)
    BY OneIsHeld
  <2> QED
    BY <2>1, OpenIsHeldOrLost, OwnedIsHeld
<1> QED
  BY Inductive, <1>1, PTL

=============================================================================
