------------------------ MODULE VSerialBridgeProofs ------------------------
(* Proofs about VSerialBridge, for any number of connections and chunks.     *)
EXTENDS VSerialBridge, TLAPS

\* Where a goroutine is determines whether it holds a connection; the goroutines
\* are started last.
Holders ==
    /\ dial.c # NoConn <=> dial.pc \in {"check", "reject", "read", "give", "clear", "close"}
    /\ pty.pc # "write" => pty.c = NoConn
    /\ rem.pc # "close" => rem.c = NoConn
    /\ add # "done" => dial.pc = "none" /\ pty.pc = "none"

\* The removal closes stop first, and takes the connection after that.
RemovalInOrder ==
    /\ stop <=> rem.pc \notin {"idle", "stop"}
    /\ rem.pc \in {"close", "device", "end", "done"} => conn = NoConn

LinkInv == TypeOK /\ Holders /\ RemovalInOrder /\ NoConnectionLeaks

LEMMA LinkInit == Init => LinkInv
<1> SUFFICES ASSUME Init PROVE LinkInv
  OBVIOUS
<1>1. fate \in Seq({"sent", "dropped"})
  BY DEF Init
<1> QED
  BY <1>1, ConnsAssumption DEF Init, LinkInv, TypeOK, Holders, RemovalInOrder, NoConnectionLeaks

LEMMA TypeNext == TypeOK /\ Holders /\ [Next]_vars => TypeOK'
<1> SUFFICES ASSUME TypeOK, Holders, [Next]_vars PROVE TypeOK'
  OBVIOUS
<1> USE DEF TypeOK
<1>1. CASE Add
  BY <1>1 DEF Add, NewSession, Register, Spawn, bridge, chunks
<1>2. CASE Loop
  <2>1. CASE DialOk
    BY <2>1 DEF DialOk, Dialling, chunks
  <2>2. CASE DialFails \/ Timer \/ Stopped \/ Receive \/ Give \/ ReadFails
    BY <2>2 DEF DialFails, Timer, Stopped, Receive, Give, ReadFails, Dialling, chunks
  <2>3. CASE Install \/ Clear
    BY <2>3 DEF Install, Clear, Dialling, chunks
  <2>4. CASE Reject
    <3>1. dial' \in [pc : {"done"}, c : {NoConn}]
      BY <2>4 DEF Reject
    <3>2. link' \in [Conns -> {"up", "lost", "closed"}]
      BY <2>4 DEF Reject
    <3> QED
      BY <2>4, <3>1, <3>2 DEF Reject, Dialling, chunks
  <2>5. CASE CloseLost
    <3>1. dial' \in [pc : {"done", "wait"}, c : {NoConn}]
      BY <2>5 DEF CloseLost
    <3>2. link' \in [Conns -> {"up", "lost", "closed"}]
      BY <2>5 DEF CloseLost
    <3> QED
      BY <2>5, <3>1, <3>2 DEF CloseLost, Dialling, chunks
  <2> QED
    BY <1>2, <2>1, <2>2, <2>3, <2>4, <2>5 DEF Loop
<1>3. CASE Reader
  <2>1. Len(fate) \in Nat /\ Chunk \in Nat
    BY DEF Chunk
  <2>2. CASE ReadChunk \/ ReadEnds \/ RecordSent \/ PickConn
    BY <2>1, <2>2 DEF ReadChunk, ReadEnds, RecordSent, PickConn, Reading, bridge, chunks
  <2>3. CASE WriteOk
    <3>1. fate' \in Seq({"sent", "dropped"})
      BY <2>3 DEF WriteOk
    <3>2. pty' \in [pc : {"read"}, c : {NoConn}] /\ dropping' \in BOOLEAN
      BY <2>3 DEF WriteOk
    <3>3. UNCHANGED <<add, bridge, link, dial, rem, recorded, alarms>>
      BY <2>3 DEF WriteOk, Reading
    <3> QED
      BY <3>1, <3>2, <3>3 DEF bridge
  <2>4. CASE WriteFails
    BY <2>1, <2>4 DEF WriteFails, Reading, bridge
  <2> QED
    BY <1>3, <2>2, <2>3, <2>4 DEF Reader
<1>4. CASE Remove
  <2>1. CASE Delist \/ CloseStop
    BY <2>1 DEF Delist, CloseStop, Removing, chunks
  <2>2. CASE TakeConn
    BY <2>2 DEF TakeConn, Removing, chunks
  <2>3. CASE CloseConn
    BY <2>3 DEF CloseConn, Removing, bridge, chunks
  <2>4. CASE CloseDevice \/ EndSessionID
    BY <2>4 DEF CloseDevice, EndSessionID, Removing, chunks
  <2> QED
    BY <1>4, <2>1, <2>2, <2>3, <2>4 DEF Remove
<1>5. ASSUME NEW c \in Conns, PeerFails(c) PROVE TypeOK'
  BY <1>5 DEF PeerFails, bridge, chunks
<1>6. CASE UNCHANGED vars
  BY <1>6 DEF vars, bridge, chunks
<1> QED
  BY <1>1, <1>2, <1>3, <1>4, <1>5, <1>6 DEF Next

LEMMA LinkNext == LinkInv /\ [Next]_vars => LinkInv'
<1> SUFFICES ASSUME LinkInv, [Next]_vars
             PROVE  Holders' /\ RemovalInOrder' /\ NoConnectionLeaks'
  BY TypeNext DEF LinkInv
<1> USE ConnsAssumption DEF LinkInv, Holders, RemovalInOrder
<1>1. CASE Add
  <2>1. UNCHANGED <<stop, conn, link, rem, dial.c, pty.c>> /\ add # "done"
    BY <1>1 DEF Add, NewSession, Register, Spawn, bridge, TypeOK
  <2>2. \/ UNCHANGED <<dial, pty>>
        \/ add' = "done" /\ dial'.pc = "dial" /\ pty'.pc = "read"
    BY <1>1 DEF Add, NewSession, Register, Spawn, TypeOK
  <2> QED
    BY <2>1, <2>2 DEF NoConnectionLeaks
<1>2. CASE Reader
  <2>1. UNCHANGED <<add, stop, conn, link, rem, dial>> /\ add = "done"
    BY <1>2 DEF Reader, ReadChunk, ReadEnds, RecordSent, PickConn, WriteOk, WriteFails,
                Reading, bridge
  <2>2. pty'.pc # "write" => pty'.c = NoConn
    BY <1>2 DEF Reader, ReadChunk, ReadEnds, RecordSent, PickConn, WriteOk, WriteFails,
                Reading, TypeOK
  <2> QED
    BY <2>1, <2>2 DEF NoConnectionLeaks
<1>3. CASE Loop
  <2>1. CASE DialOk
    BY <2>1 DEF DialOk, Dialling, NoConnectionLeaks, TypeOK
  <2>2. CASE DialFails \/ Timer \/ Stopped \/ Receive \/ Give \/ ReadFails
    BY <2>2 DEF DialFails, Timer, Stopped, Receive, Give, ReadFails, Dialling,
                NoConnectionLeaks, TypeOK
  <2>3. CASE Install
    BY <2>3 DEF Install, Dialling, NoConnectionLeaks, TypeOK
  <2>4. CASE Clear
    BY <2>4 DEF Clear, Dialling, NoConnectionLeaks, TypeOK
  <2>5. CASE Reject \/ CloseLost
    BY <2>5 DEF Reject, CloseLost, Dialling, NoConnectionLeaks, TypeOK
  <2> QED
    BY <1>3, <2>1, <2>2, <2>3, <2>4, <2>5 DEF Loop
<1>4. CASE Remove
  <2>1. CASE Delist \/ CloseStop \/ CloseDevice \/ EndSessionID
    BY <2>1 DEF Delist, CloseStop, CloseDevice, EndSessionID, Removing, NoConnectionLeaks, TypeOK
  <2>2. CASE TakeConn
    BY <2>2 DEF TakeConn, Removing, NoConnectionLeaks, TypeOK
  <2>3. CASE CloseConn
    BY <2>3 DEF CloseConn, Removing, bridge, NoConnectionLeaks, TypeOK
  <2> QED
    BY <1>4, <2>1, <2>2, <2>3 DEF Remove
<1>5. ASSUME NEW c \in Conns, PeerFails(c)
      PROVE  Holders' /\ RemovalInOrder' /\ NoConnectionLeaks'
  BY <1>5 DEF PeerFails, bridge, NoConnectionLeaks, TypeOK
<1>6. CASE UNCHANGED vars
  BY <1>6 DEF vars, bridge, NoConnectionLeaks
<1> QED
  BY <1>1, <1>2, <1>3, <1>4, <1>5, <1>6 DEF Next

\* Type correctness of the bridge.
THEOREM BridgeTypeCorrect == Spec => []TypeOK
<1>1. Spec => []LinkInv
  BY LinkInit, LinkNext, PTL DEF Spec
<1>2. LinkInv => TypeOK
  BY DEF LinkInv
<1> QED
  BY <1>1, <1>2, PTL

\* However dials, losses and the removal interleave, somebody is going to close
\* every open connection.
THEOREM NoConnectionIsLost == Spec => []NoConnectionLeaks
<1>1. Spec => []LinkInv
  BY LinkInit, LinkNext, PTL DEF Spec
<1>2. LinkInv => NoConnectionLeaks
  BY DEF LinkInv
<1> QED
  BY <1>1, <1>2, PTL

-----------------------------------------------------------------------------
(* What is sent is recorded                                                  *)

\* No chunk is sent or lost before AddVirtualSerial starts the reader.
NothingBeforeSpawn == add # "done" => fate = <<>>

\* A chunk that was not recorded came after the end of the session, hence after
\* the removal took the connection: there is none to write it to.
LateChunkIsLost ==
    /\ session = "ended" => rem.pc = "done"
    /\ session # "none" /\ pty.pc \in {"pick", "write"} /\ Chunk \notin recorded =>
          session = "ended" /\ pty.c = NoConn

SentInv == LinkInv /\ NothingBeforeSpawn /\ LateChunkIsLost /\ SentIsRecorded

LEMMA SentNext ==
    SentInv /\ [Next]_vars => NothingBeforeSpawn' /\ LateChunkIsLost' /\ SentIsRecorded'
<1> SUFFICES ASSUME SentInv, [Next]_vars
             PROVE  NothingBeforeSpawn' /\ LateChunkIsLost' /\ SentIsRecorded'
  OBVIOUS
<1> USE DEF SentInv, NothingBeforeSpawn, LateChunkIsLost
<1>1. CASE Add
  <2>1. CASE NewSession
    BY <2>1 DEF NewSession, chunks, SentIsRecorded, Chunk, LinkInv, Holders, TypeOK
  <2>2. CASE Register \/ Spawn
    BY <2>2 DEF Register, Spawn, bridge, chunks, SentIsRecorded, Chunk, LinkInv, TypeOK
  <2> QED
    BY <1>1, <2>1, <2>2 DEF Add
<1>2. CASE Loop
  <2>1. UNCHANGED <<add, session, pty, rem, fate, recorded>>
    BY <1>2 DEF Loop, DialOk, DialFails, Timer, Stopped, Install, Reject, Receive, Give,
                ReadFails, Clear, CloseLost, Dialling, chunks
  <2> QED
    BY <2>1 DEF SentIsRecorded, Chunk
<1>3. CASE Reader
  <2>1. UNCHANGED <<add, session, conn, rem>> /\ add = "done"
    BY <1>3 DEF Reader, ReadChunk, ReadEnds, RecordSent, PickConn, WriteOk, WriteFails,
                Reading, bridge, LinkInv, Holders
  <2>2. CASE ReadChunk \/ ReadEnds
    BY <2>1, <2>2 DEF ReadChunk, ReadEnds, chunks, SentIsRecorded, LinkInv, TypeOK
  <2>3. CASE RecordSent
    <3>1. pty.c = NoConn /\ pty'.c = pty.c /\ pty'.pc = "pick" /\ fate' = fate
      BY <2>3 DEF RecordSent, Reading, LinkInv, Holders, TypeOK
    <3>2. recorded \subseteq recorded' /\ (session = "open" => Chunk' \in recorded')
      BY <2>3, <3>1 DEF RecordSent, Chunk
    <3>3. session \in {"none", "open", "ended"}
      BY DEF LinkInv, TypeOK
    <3> QED
      BY <2>1, <3>1, <3>2, <3>3 DEF SentIsRecorded
  <2>4. CASE PickConn
    <3>1. pty'.pc = "write" /\ pty'.c = conn /\ pty.pc = "pick" /\ UNCHANGED <<fate, recorded>>
      BY <2>4 DEF PickConn, Reading, chunks
    <3>2. rem.pc = "done" => conn = NoConn
      BY DEF LinkInv, RemovalInOrder
    <3> QED
      BY <2>1, <3>1, <3>2 DEF SentIsRecorded, Chunk
  <2>5. CASE WriteOk
    <3>1. fate \in Seq({"sent", "dropped"}) /\ fate' = Append(fate, "sent") /\ recorded' = recorded
      BY <2>5 DEF WriteOk, LinkInv, TypeOK
    <3>2. session # "none" => Len(fate) + 1 \in recorded
      BY <2>5 DEF WriteOk, Reading, Chunk
    <3>3. SentIsRecorded'
      <4> SUFFICES ASSUME session # "none", NEW i \in DOMAIN fate', fate'[i] = "sent"
                   PROVE  i \in recorded
        BY <2>1, <3>1 DEF SentIsRecorded
      <4>1. CASE i = Len(fate) + 1
        BY <3>2, <4>1
      <4>2. CASE i # Len(fate) + 1
        BY <3>1, <4>2 DEF SentIsRecorded
      <4> QED
        BY <4>1, <4>2
    <3> QED
      BY <2>1, <2>5, <3>3 DEF WriteOk
  <2>6. CASE WriteFails
    <3>1. fate \in Seq({"sent", "dropped"}) /\ fate' = Append(fate, "dropped")
          /\ recorded' = recorded
      BY <2>6 DEF WriteFails, LinkInv, TypeOK
    <3>2. SentIsRecorded'
      <4> SUFFICES ASSUME session # "none", NEW i \in DOMAIN fate', fate'[i] = "sent"
                   PROVE  i \in recorded
        BY <2>1, <3>1 DEF SentIsRecorded
      <4>1. i \in DOMAIN fate /\ fate[i] = "sent"
        BY <3>1
      <4> QED
        BY <4>1 DEF SentIsRecorded
    <3> QED
      BY <2>1, <2>6, <3>2 DEF WriteFails
  <2> QED
    BY <1>3, <2>2, <2>3, <2>4, <2>5, <2>6 DEF Reader
<1>4. CASE Remove
  <2>1. UNCHANGED <<add, pty, fate, recorded>>
    BY <1>4 DEF Remove, Delist, CloseStop, TakeConn, CloseConn, CloseDevice, EndSessionID,
                Removing, chunks
  <2>2. (session' = "ended" => rem'.pc = "done") /\ (session = "none" <=> session' = "none")
        /\ (session = "ended" => session' = "ended")
    BY <1>4 DEF Remove, Delist, CloseStop, TakeConn, CloseConn, CloseDevice, EndSessionID,
                Removing, bridge, LinkInv, TypeOK
  <2> QED
    BY <2>1, <2>2 DEF SentIsRecorded, Chunk
<1>5. ASSUME NEW c \in Conns, PeerFails(c)
      PROVE  NothingBeforeSpawn' /\ LateChunkIsLost' /\ SentIsRecorded'
  BY <1>5 DEF PeerFails, bridge, chunks, SentIsRecorded, Chunk
<1>6. CASE UNCHANGED vars
  BY <1>6 DEF vars, bridge, chunks, SentIsRecorded, Chunk
<1> QED
  BY <1>1, <1>2, <1>3, <1>4, <1>5, <1>6 DEF Next

\* What reached the network is in the session of the bridge, also around its
\* removal.
THEOREM SentChunksAreRecorded == Spec => []SentIsRecorded
<1>1. Init => SentInv
  BY LinkInit DEF Init, SentInv, NothingBeforeSpawn, LateChunkIsLost, SentIsRecorded
<1>2. SentInv /\ [Next]_vars => SentInv'
  BY LinkNext, SentNext DEF SentInv
<1>3. SentInv => SentIsRecorded
  BY DEF SentInv
<1> QED
  BY <1>1, <1>2, <1>3, PTL DEF Spec

-----------------------------------------------------------------------------
(* Losses are reported                                                       *)

DroppingIsLast == dropping <=> fate # <<>> /\ fate[Len(fate)] = "dropped"

LossInv == LinkInv /\ DroppingIsLast /\ EachLossIsReported

LEMMA LossNext == LossInv /\ [Next]_vars => DroppingIsLast' /\ EachLossIsReported'
<1> SUFFICES ASSUME LossInv, [Next]_vars PROVE DroppingIsLast' /\ EachLossIsReported'
  OBVIOUS
<1> USE DEF LossInv
<1>1. CASE UNCHANGED <<dropping, fate, alarms>>
  BY <1>1 DEF DroppingIsLast, EachLossIsReported
<1>2. fate \in Seq({"sent", "dropped"}) /\ Len(fate) \in Nat /\ alarms \subseteq Nat
  BY DEF LinkInv, TypeOK
<1>3. CASE WriteOk
  <2>1. fate' = Append(fate, "sent") /\ dropping' = FALSE /\ alarms' = alarms
    BY <1>3 DEF WriteOk
  <2>2. /\ Len(fate') = Len(fate) + 1 /\ fate'[Len(fate) + 1] = "sent"
        /\ DOMAIN fate' = DOMAIN fate \cup {Len(fate) + 1}
        /\ \A i \in DOMAIN fate : i \in 1..Len(fate) /\ fate'[i] = fate[i]
    BY <1>2, <2>1
  <2>3. \A i \in DOMAIN fate : i > 1 => i - 1 \in DOMAIN fate
    BY <1>2
  <2> QED
    BY <2>1, <2>2, <2>3 DEF DroppingIsLast, EachLossIsReported
<1>4. CASE WriteFails
  <2>1. fate' = Append(fate, "dropped") /\ dropping' = TRUE
        /\ alarms' = IF dropping THEN alarms ELSE alarms \cup {Len(fate) + 1}
    BY <1>4 DEF WriteFails, Chunk
  <2>2. /\ Len(fate') = Len(fate) + 1 /\ fate'[Len(fate) + 1] = "dropped"
        /\ DOMAIN fate' = DOMAIN fate \cup {Len(fate) + 1}
        /\ \A i \in DOMAIN fate : i \in 1..Len(fate) /\ fate'[i] = fate[i]
    BY <1>2, <2>1
  <2>3. \A i \in DOMAIN fate : i > 1 => i - 1 \in DOMAIN fate
    BY <1>2
  <2>4. DroppingIsLast'
    BY <1>2, <2>1, <2>2 DEF DroppingIsLast
  <2>5. ~dropping <=> (Len(fate) + 1 > 1 => fate[Len(fate)] = "sent")
    BY <1>2 DEF DroppingIsLast
  <2>6. Len(fate) + 1 > 1 => fate'[(Len(fate) + 1) - 1] = fate[Len(fate)]
    BY <1>2, <2>2
  <2> QED
    BY <1>2, <2>1, <2>2, <2>3, <2>4, <2>5, <2>6 DEF EachLossIsReported
<1>5. WriteOk \/ WriteFails \/ UNCHANGED <<dropping, fate, alarms>>
  BY DEF Next, Add, NewSession, Register, Spawn, Loop, DialOk, DialFails, Timer, Stopped,
         Install, Reject, Receive, Give, ReadFails, Clear, CloseLost, Dialling, Reader,
         ReadChunk, ReadEnds, RecordSent, PickConn, Reading, Remove, Delist, CloseStop,
         TakeConn, CloseConn, CloseDevice, EndSessionID, Removing, PeerFails, vars, chunks
<1> QED
  BY <1>1, <1>3, <1>4, <1>5

\* Each row of lost chunks is reported once, at its first chunk.
THEOREM NoSilentLoss == Spec => []EachLossIsReported
<1>1. Init => LossInv
  BY LinkInit DEF Init, LossInv, DroppingIsLast, EachLossIsReported
<1>2. LossInv /\ [Next]_vars => LossInv'
  BY LinkNext, LossNext DEF LossInv
<1>3. LossInv => EachLossIsReported
  BY DEF LossInv
<1> QED
  BY <1>1, <1>2, <1>3, PTL DEF Spec
=============================================================================
