--------------------------- MODULE VSerialBridge ---------------------------
(***************************************************************************)
(* A virtual serial port bridged to a TCP endpoint (core/vserial.go): the    *)
(* goroutine that carries the network to the device and dials again when the *)
(* connection is lost (vDialLoop), the one that carries the device to the    *)
(* network (vPtmxReader), and the removal of the bridge beside them.         *)
(*                                                                         *)
(* The bridges of an engine share nothing but the store, so this is one of   *)
(* them.  A connection is a member of Conns and is used again once it is     *)
(* closed and nobody holds it.                                              *)
(***************************************************************************)
EXTENDS Naturals, Sequences

CONSTANTS
    Conns,      \* TCP connections
    NoConn,     \* nil
    MaxChunks   \* bound on the chunks the application writes to the device

ASSUME ConnsAssumption == NoConn \notin Conns /\ MaxChunks \in Nat

VARIABLES
    add,        \* where AddVirtualSerial is
    listed,     \* the bridge is in e.vbridges
    stop,       \* b.stop is closed
    conn,       \* b.conn
    session,    \* the session of the bridge in the store
    device,     \* whether the device is open
    link,       \* of each connection: up, lost by the peer, or closed by us
    dial,       \* vDialLoop: where it is, and its connection
    pty,        \* vPtmxReader: where it is, and the connection it writes to
    rem,        \* RemoveVirtualSerial: where it is, and the connection it took
    dropping,   \* the local variable of vPtmxReader
    fate,       \* of the chunks of the application: sent or dropped
    recorded,   \* the chunks that were stored in the session
    alarms      \* the chunks at which a loss was reported

bridge == <<listed, stop, conn, session, device>>
chunks == <<dropping, fate, recorded, alarms>>
vars   == <<add, bridge, link, dial, pty, rem, chunks>>

Init ==
    /\ add = "start" /\ listed = FALSE /\ stop = FALSE /\ conn = NoConn
    /\ session = "none" /\ device = "open"
    /\ link = [c \in Conns |-> "closed"]
    /\ dial = [pc |-> "none", c |-> NoConn]
    /\ pty = [pc |-> "none", c |-> NoConn]
    /\ rem = [pc |-> "idle", c |-> NoConn]
    /\ dropping = FALSE /\ fate = <<>> /\ recorded = {} /\ alarms = {}

-----------------------------------------------------------------------------
(* AddVirtualSerial                                                          *)

\* NewSession may fail: the bridge then works unrecorded.
NewSession ==
    /\ add = "start" /\ add' = "created"
    /\ session' \in {"none", "open"}
    /\ UNCHANGED <<listed, stop, conn, device, link, dial, pty, rem, chunks>>

Register ==
    /\ add = "created" /\ add' = "listed"
    /\ listed' = TRUE
    /\ UNCHANGED <<stop, conn, session, device, link, dial, pty, rem, chunks>>

Spawn ==
    /\ add = "listed" /\ add' = "done"
    /\ dial' = [dial EXCEPT !.pc = "dial"] /\ pty' = [pty EXCEPT !.pc = "read"]
    /\ UNCHANGED <<bridge, link, rem, chunks>>

-----------------------------------------------------------------------------
(* vDialLoop, with vConnect                                                  *)

Dialling(at) == dial.pc = at /\ UNCHANGED <<add, listed, stop, session, device, pty, rem, chunks>>

DialOk ==
    /\ Dialling("dial")
    /\ \E c \in Conns \ {pty.c, rem.c} :
          /\ link[c] = "closed" /\ link' = [link EXCEPT ![c] = "up"]
          /\ dial' = [pc |-> "check", c |-> c]
    /\ UNCHANGED conn

\* A bug: the loop ends with the first dial that fails.
DialFailsOnce ==
    /\ Dialling("dial")
    /\ dial' = [dial EXCEPT !.pc = "done"]
    /\ UNCHANGED <<conn, link>>

DialFails ==
    /\ Dialling("dial")
    /\ dial' = [dial EXCEPT !.pc = "wait"]
    /\ UNCHANGED <<conn, link>>

\* Both waits, after a failed dial and after a lost connection.
Timer ==
    /\ Dialling("wait")
    /\ dial' = [dial EXCEPT !.pc = "dial"]
    /\ UNCHANGED <<conn, link>>

Stopped ==
    /\ Dialling("wait") /\ stop
    /\ dial' = [dial EXCEPT !.pc = "done"]
    /\ UNCHANGED <<conn, link>>

\* A bug: the connection is installed without a look at stop.
InstallAlways ==
    /\ Dialling("check")
    /\ conn' = dial.c /\ dial' = [dial EXCEPT !.pc = "read"]
    /\ UNCHANGED link

\* Under b.mu: stop is asked for before the connection is installed.
Install ==
    /\ Dialling("check")
    /\ \/ stop /\ dial' = [dial EXCEPT !.pc = "reject"] /\ UNCHANGED conn
       \/ ~stop /\ dial' = [dial EXCEPT !.pc = "read"] /\ conn' = dial.c
    /\ UNCHANGED link

Reject ==
    /\ Dialling("reject")
    /\ link' = [link EXCEPT ![dial.c] = "closed"]
    /\ dial' = [pc |-> "done", c |-> NoConn]
    /\ UNCHANGED conn

Receive ==
    /\ Dialling("read") /\ link[dial.c] = "up"
    /\ dial' = [dial EXCEPT !.pc = "give"]
    /\ UNCHANGED <<conn, link>>

\* The write to the device ends when the application reads, and fails once it
\* is closed.  Storing what was received changes nothing here.
Give ==
    /\ Dialling("give")
    /\ dial' = [dial EXCEPT !.pc = "read"]
    /\ UNCHANGED <<conn, link>>
GiveFails == device = "closed" /\ Give

ReadFails ==
    /\ Dialling("read") /\ link[dial.c] # "up"
    /\ dial' = [dial EXCEPT !.pc = "clear"]
    /\ UNCHANGED <<conn, link>>

Clear ==
    /\ Dialling("clear")
    /\ conn' = IF conn = dial.c THEN NoConn ELSE conn
    /\ dial' = [dial EXCEPT !.pc = "close"]
    /\ UNCHANGED link

CloseLost ==
    /\ Dialling("close")
    /\ link' = [link EXCEPT ![dial.c] = "closed"]
    /\ dial' = [pc |-> IF stop THEN "done" ELSE "wait", c |-> NoConn]
    /\ UNCHANGED conn

-----------------------------------------------------------------------------
(* vPtmxReader                                                               *)

Reading(at) == pty.pc = at /\ UNCHANGED <<add, bridge, link, dial, rem>>

Chunk == Len(fate) + 1

ReadChunk ==
    /\ Reading("read") /\ device = "open" /\ Chunk <= MaxChunks
    /\ pty' = [pty EXCEPT !.pc = "record"]
    /\ UNCHANGED chunks

ReadEnds ==
    /\ Reading("read") /\ device = "closed"
    /\ pty' = [pty EXCEPT !.pc = "done"]
    /\ UNCHANGED chunks

\* ReceivedForSession; the store ignores a session that has ended.
RecordSent ==
    /\ Reading("record")
    /\ recorded' = IF session = "open" THEN recorded \cup {Chunk} ELSE recorded
    /\ pty' = [pty EXCEPT !.pc = "pick"]
    /\ UNCHANGED <<dropping, fate, alarms>>

PickConn ==
    /\ Reading("pick")
    /\ pty' = [pc |-> "write", c |-> conn]
    /\ UNCHANGED chunks

\* A bug: the flag is only set.
WriteOkDropping ==
    /\ Reading("write") /\ pty.c # NoConn /\ link[pty.c] # "closed"
    /\ fate' = Append(fate, "sent")
    /\ pty' = [pc |-> "read", c |-> NoConn]
    /\ UNCHANGED <<dropping, recorded, alarms>>

\* The connection takes the chunk, even if the peer is gone by now.
WriteOk ==
    /\ Reading("write") /\ pty.c # NoConn /\ link[pty.c] # "closed"
    /\ fate' = Append(fate, "sent") /\ dropping' = FALSE
    /\ pty' = [pc |-> "read", c |-> NoConn]
    /\ UNCHANGED <<recorded, alarms>>

\* There is no connection or it fails: the chunk is counted, and the first one
\* of a row is reported.
WriteFails ==
    /\ Reading("write") /\ (pty.c # NoConn => link[pty.c] # "up")
    /\ fate' = Append(fate, "dropped") /\ dropping' = TRUE
    /\ alarms' = IF dropping THEN alarms ELSE alarms \cup {Chunk}
    /\ pty' = [pc |-> "read", c |-> NoConn]
    /\ UNCHANGED recorded

-----------------------------------------------------------------------------
(* RemoveVirtualSerial                                                       *)

Removing(at) == rem.pc = at /\ UNCHANGED <<add, dial, pty, chunks>>

\* A bug: the session ends first.
DelistAndEnd ==
    /\ Removing("idle") /\ listed
    /\ listed' = FALSE
    /\ session' = IF session = "open" THEN "ended" ELSE session
    /\ rem' = [rem EXCEPT !.pc = "stop"]
    /\ UNCHANGED <<stop, conn, device, link>>

Delist ==
    /\ Removing("idle") /\ listed
    /\ listed' = FALSE
    /\ rem' = [rem EXCEPT !.pc = "stop"]
    /\ UNCHANGED <<stop, conn, session, device, link>>

CloseStop ==
    /\ Removing("stop")
    /\ stop' = TRUE
    /\ rem' = [rem EXCEPT !.pc = "take"]
    /\ UNCHANGED <<listed, conn, session, device, link>>

TakeConn ==
    /\ Removing("take")
    /\ conn' = NoConn
    /\ rem' = [pc |-> "close", c |-> conn]
    /\ UNCHANGED <<listed, stop, session, device, link>>

\* A bug: b.conn is only forgotten.
CloseConnNot ==
    /\ Removing("close")
    /\ rem' = [pc |-> "device", c |-> NoConn]
    /\ UNCHANGED <<bridge, link>>

CloseConn ==
    /\ Removing("close")
    /\ link' = IF rem.c # NoConn THEN [link EXCEPT ![rem.c] = "closed"] ELSE link
    /\ rem' = [pc |-> "device", c |-> NoConn]
    /\ UNCHANGED bridge

CloseDevice ==
    /\ Removing("device")
    /\ device' = "closed"
    /\ rem' = [rem EXCEPT !.pc = "end"]
    /\ UNCHANGED <<listed, stop, conn, session, link>>

EndSessionID ==
    /\ Removing("end")
    /\ session' = IF session = "open" THEN "ended" ELSE session
    /\ rem' = [rem EXCEPT !.pc = "done"]
    /\ UNCHANGED <<listed, stop, conn, device, link>>

-----------------------------------------------------------------------------
\* The peer closes a connection, or the network loses it.
PeerFails(c) ==
    /\ link[c] = "up"
    /\ link' = [link EXCEPT ![c] = "lost"]
    /\ UNCHANGED <<add, bridge, dial, pty, rem, chunks>>

Add    == NewSession \/ Register \/ Spawn
Loop   == DialOk \/ DialFails \/ Timer \/ Stopped \/ Install \/ Reject \/ Receive \/ Give
          \/ ReadFails \/ Clear \/ CloseLost
Reader == ReadChunk \/ ReadEnds \/ RecordSent \/ PickConn \/ WriteOk \/ WriteFails
Remove == Delist \/ CloseStop \/ TakeConn \/ CloseConn \/ CloseDevice \/ EndSessionID

Next == Add \/ Loop \/ Reader \/ Remove \/ \E c \in Conns : PeerFails(c)

Spec == Init /\ [][Next]_vars

\* Every goroutine goes on, a dial ends, a wait ends at once when stop is closed,
\* and a server that is dialled again and again answers at last.  The peer and
\* the application have to do nothing: a read of the network, a read of the device
\* or a write to it may last until the connection or the device is closed.
Fairness ==
    /\ WF_vars(Add)
    /\ WF_vars(DialOk \/ DialFails \/ Install \/ Reject \/ ReadFails \/ Clear \/ CloseLost)
    /\ SF_vars(DialOk) /\ WF_vars(Timer) /\ SF_vars(Stopped) /\ WF_vars(GiveFails)
    /\ WF_vars(ReadEnds \/ RecordSent \/ PickConn \/ WriteFails)
    /\ WF_vars(CloseStop \/ TakeConn \/ CloseConn \/ CloseDevice \/ EndSessionID)

FairSpec == Spec /\ Fairness

-----------------------------------------------------------------------------
(* Properties                                                                *)

\* Every variable holds values of its kind.
TypeOK ==
    /\ add \in {"start", "created", "listed", "done"}
    /\ listed \in BOOLEAN /\ stop \in BOOLEAN /\ dropping \in BOOLEAN
    /\ conn \in Conns \cup {NoConn}
    /\ session \in {"none", "open", "ended"} /\ device \in {"open", "closed"}
    /\ link \in [Conns -> {"up", "lost", "closed"}]
    /\ dial \in [pc : {"none", "dial", "check", "reject", "read", "give", "clear", "close",
                       "wait", "done"}, c : Conns \cup {NoConn}]
    /\ pty \in [pc : {"none", "read", "record", "pick", "write", "done"},
                c : Conns \cup {NoConn}]
    /\ rem \in [pc : {"idle", "stop", "take", "close", "device", "end", "done"},
                c : Conns \cup {NoConn}]
    /\ fate \in Seq({"sent", "dropped"})
    /\ recorded \subseteq Nat /\ alarms \subseteq Nat

\* vserial.go:130: no connection is left that nobody closes.  An open one is that
\* of vDialLoop, and while this is blocked in a read of it or in a write to the
\* device, the removal can still find it in b.conn, or has it in hand.
NoConnectionLeaks ==
    \A c \in Conns : link[c] # "closed" =>
        /\ dial.c = c
        /\ dial.pc \in {"read", "give"} =>
              \/ conn = c /\ rem.pc \in {"idle", "stop", "take"}
              \/ rem.c = c /\ rem.pc = "close"

\* What reached the network is in the session of the bridge, also around its
\* removal: the session ends after the last connection was closed.
SentIsRecorded ==
    session # "none" => \A i \in DOMAIN fate : fate[i] = "sent" => i \in recorded

\* vserial.go:87: nothing is lost in silence.  Each time the bridge begins to
\* lose chunks this is reported, and only then.
EachLossIsReported ==
    alarms = {i \in DOMAIN fate : fate[i] = "dropped" /\ (i > 1 => fate[i - 1] = "sent")}

\* Once a bridge is being removed both goroutines end and all connections are
\* closed, whatever the peer and the application do.
RemovedComesToRest ==
    stop ~> [](dial.pc = "done" /\ pty.pc = "done" /\ \A c \in Conns : link[c] = "closed")

\* vserial.go:56: a lost connection is replaced until the bridge is removed, if
\* the application does not leave the loop in a write to the device for ever.
LostLinkIsReplaced ==
    []<>(dial.pc # "give") =>
        /\ \A c \in Conns : conn = c /\ link[c] = "lost" ~> conn = NoConn
        /\ add = "done" /\ conn = NoConn ~> conn # NoConn \/ stop
=============================================================================
