--------------------------- MODULE EngineSession ---------------------------
(***************************************************************************)
(* The life of a communication session: Engine.Connect and Engine.Disconnect *)
(* (core/engine.go) step by step, the goroutines they leave behind (one     *)
(* reader per socket, the accept loop, the reconnect loop), the session of  *)
(* the SQLite store and the desktop window that drives it all.              *)
(*                                                                         *)
(* Connect and Disconnect are split where other threads can come in: at     *)
(* every atomic access to e.state, every critical section of e.Lock and     *)
(* every call of the store.  Traffic is left out: a reader is either        *)
(* blocked in Read or on its way out.                                       *)
(*                                                                         *)
(* A handle is a socket, listener or serial port together with the          *)
(* goroutine that reads it.  `owned' stands for the fields e.port,          *)
(* e.listener, e.udp and e.clients: a handle is in it while the field of    *)
(* its kind holds it.  reconnectAddr and reconnectStop are always set and   *)
(* cleared together, so one variable stands for both; a stop channel is     *)
(* named by the epoch that made it, 0 is nil.                               *)
(***************************************************************************)
EXTENDS Naturals, Sequences, FiniteSets

CONSTANTS
    Handles,              \* pool of handles, reused once closed and forgotten
    Configs,              \* the configurations the user may connect with
    MaxEpoch,             \* bound on epoch: the user stops connecting there
    MaxConnections,       \* SetMaxConnections; 0 is unlimited
    InsertMayFail,        \* the INSERT of a session row may fail
    RemembersEarlyClose   \* the macOS window remembers a close that arrives
                          \* while it is connecting, the Windows one does not

Kinds == {"serial", "listener", "tcp", "udp"}

Config == [mode   : {"serial", "tcpClient", "tcpServer", "udp", "bridge", "http"},
           serial : BOOLEAN,                          \* opens a serial port
           net    : {"none", "listener", "tcp", "udp"}, \* and this socket
           auto   : BOOLEAN]                          \* AutoReconnect

ASSUME ConfigsAssumption == Configs \subseteq Config

\* A TCP client dials, and nothing else.
ASSUME ClientAssumption == \A c \in Configs : c.mode = "tcpClient" => c.net = "tcp"

ASSUME BoundsAssumption == /\ MaxEpoch \in Nat
                           /\ MaxConnections \in Nat
                           /\ InsertMayFail \in BOOLEAN
                           /\ RemembersEarlyClose \in BOOLEAN

States == {"Disconnected", "Connecting", "Connected", "Reconnecting", "Error"}

VARIABLES
    epoch, state, cfg, owned, reconnectStop,  \* Engine
    captureKey, sessionID, rows,              \* Store
    pc, kind, born, open, manual, then,       \* handles and their readers
    rc,                                       \* reconnectTCP, by epoch
    call,                                     \* the running Connect/Disconnect
    ui, early, queue                          \* the window and its main queue

engine  == <<epoch, state, cfg, owned, reconnectStop>>
store   == <<captureKey, sessionID, rows>>
handles == <<pc, kind, born, open, manual, then>>
window  == <<ui, early, queue>>
vars    == <<engine, store, handles, rc, call, window>>

Epochs == 0..MaxEpoch

NoConfig == [mode |-> "http", serial |-> FALSE, net |-> "none", auto |-> FALSE]

\* A call in progress: who made it, where it is, Connect's configuration and
\* Disconnect's local variables (previous, stop and the handles it took).
NoCall == [op |-> "none", at |-> "none", cfg |-> NoConfig,
           previous |-> "Disconnected", taken |-> {}, stop |-> 0]

Init ==
    /\ epoch = 0 /\ state = "Disconnected" /\ cfg = NoConfig
    /\ owned = {} /\ reconnectStop = 0
    /\ captureKey = 0 /\ sessionID = 0 /\ rows = {}
    /\ pc = [i \in Handles |-> "idle"] /\ kind = [i \in Handles |-> "tcp"]
    /\ born = [i \in Handles |-> 0]
    /\ open = {} /\ manual = {} /\ then = [i \in Handles |-> "idle"]
    /\ rc = [e \in Epochs |-> "none"]
    /\ call = NoCall
    /\ ui = "idle" /\ early = FALSE /\ queue = <<>>

-----------------------------------------------------------------------------
(* Operators of the engine and the store                                     *)

\* The field of i's kind still holds i and the session is still i's session.
IsActive(i) == i \in owned /\ born[i] = epoch

\* A bug: the key of the row is not compared.
RecordUnkeyed(key, what) ==
    rows' = IF sessionID # 0
              THEN rows \cup {[session |-> sessionID, key |-> key, what |-> what]}
              ELSE rows

\* Store.Record: the row goes to the current session if its key is the key
\* the store captures for; otherwise it is dropped without an error.
Record(key, what) ==
    rows' = IF sessionID # 0 /\ key = captureKey
              THEN rows \cup {[session |-> sessionID, key |-> key, what |-> what]}
              ELSE rows

\* No goroutine, field or running call knows this handle any more.
Unused(i) == pc[i] = "idle" /\ i \notin open /\ i \notin owned /\ i \notin call.taken

\* A new handle of kind k for session e, at step `at' of its owner.
Open(i, k, e, at) ==
    /\ Unused(i)
    /\ pc' = [pc EXCEPT ![i] = at]
    /\ kind' = [kind EXCEPT ![i] = k]
    /\ born' = [born EXCEPT ![i] = e]
    /\ open' = open \cup {i}
    /\ UNCHANGED <<manual, then>>

\* The goroutine of i returns; step is "idle", or "orphan" when it forgets
\* a handle that is still open.
Return(i, step) ==
    /\ pc' = [pc EXCEPT ![i] = step]
    /\ kind' = [kind EXCEPT ![i] = "tcp"]
    /\ born' = [born EXCEPT ![i] = 0]
    /\ manual' = manual \ {i}
    /\ then' = [then EXCEPT ![i] = "idle"]

GoTo(i, step) ==
    /\ pc' = [pc EXCEPT ![i] = step]
    /\ UNCHANGED <<kind, born, manual, then>>

\* <-stop can be received: Disconnect has executed close(stop).
Stopped(e) == reconnectStop # e /\ call.stop # e

-----------------------------------------------------------------------------
(* Engine.Disconnect                                                         *)

At(step) == call.at = step
Proceed(step) == call' = [call EXCEPT !.at = step]

SwapState ==
    /\ At("swap")
    /\ state' = "Disconnected"
    /\ call' = [call EXCEPT !.previous = state, !.at = "lock"]
    /\ UNCHANGED <<epoch, cfg, owned, reconnectStop, store, handles, rc, window>>

TakeResources ==
    /\ At("lock")
    /\ epoch' = epoch + 1
    /\ owned' = {} /\ reconnectStop' = 0
    /\ call' = [call EXCEPT !.taken = owned, !.stop = reconnectStop, !.at = "record"]
    /\ UNCHANGED <<state, cfg, store, handles, rc, window>>

\* Disconnect logs and records that the user disconnected.
Reported == call.previous \in {"Connected", "Connecting", "Reconnecting"}

\* close(stop), the log line and recordEvent, whose packet carries the new epoch.
RecordLocalDisconnect ==
    /\ At("record")
    /\ IF Reported THEN Record(epoch, "local") ELSE UNCHANGED rows
    /\ call' = [call EXCEPT !.stop = 0, !.at = "end"]
    /\ UNCHANGED <<engine, captureKey, sessionID, handles, rc, window>>

\* A bug: only a Disconnect that reports itself ends the session.
EndSessionIfReported ==
    /\ At("end")
    /\ sessionID' = IF Reported THEN 0 ELSE sessionID
    /\ Proceed("close")
    /\ UNCHANGED <<engine, captureKey, rows, handles, rc, window>>

EndSession ==
    /\ At("end")
    /\ sessionID' = 0
    /\ Proceed("close")
    /\ UNCHANGED <<engine, captureKey, rows, handles, rc, window>>

\* Closes what it took; then Connect goes on, or the window is reset.
CloseTaken ==
    /\ At("close")
    /\ open' = open \ call.taken
    /\ IF call.op = "connect"
         THEN /\ call' = [call EXCEPT !.taken = {}, !.at = "rekey"]
              /\ UNCHANGED ui
         ELSE /\ call' = NoCall
              /\ ui' = "idle"
    /\ UNCHANGED <<engine, store, pc, kind, born, manual, then, rc, early, queue>>

DisconnectStep == SwapState \/ TakeResources \/ RecordLocalDisconnect \/ EndSession \/ CloseTaken

-----------------------------------------------------------------------------
(* Engine.Connect, after its call of Disconnect                              *)

SetCaptureKey ==
    /\ At("rekey")
    /\ captureKey' = epoch
    /\ Proceed("connecting")
    /\ UNCHANGED <<engine, sessionID, rows, handles, rc, window>>

MarkConnecting ==
    /\ At("connecting")
    /\ state' = "Connecting"
    /\ Proceed("serial")
    /\ UNCHANGED <<epoch, cfg, owned, reconnectStop, store, handles, rc, window>>

Opening == {i \in Handles : pc[i] = "opening"}

\* OpenSerialPort; an invalid configuration fails here too.
OpenSerial ==
    /\ At("serial")
    /\ \/ /\ ~call.cfg.serial
          /\ Proceed("net")
          /\ UNCHANGED handles
       \/ /\ call.cfg.serial
          /\ \E i \in Handles : Open(i, "serial", epoch, "opening")
          /\ Proceed("net")
       \/ /\ Proceed("fail")
          /\ UNCHANGED handles
    /\ UNCHANGED <<engine, store, rc, window>>

\* Listen, dial or bind.
OpenNet ==
    /\ At("net")
    /\ \/ /\ call.cfg.net = "none"
          /\ Proceed("install")
          /\ UNCHANGED handles
       \/ /\ call.cfg.net # "none"
          /\ \E i \in Handles : Open(i, call.cfg.net, epoch, "opening")
          /\ Proceed("install")
    /\ UNCHANGED <<engine, store, rc, window>>

\* Connect returns an error and knows nothing more of what it was opening.
DropOpening ==
    /\ At("net") /\ call.cfg.net # "none"
    /\ Proceed("fail")
    /\ pc' = [i \in Handles |-> IF i \in Opening THEN "idle" ELSE pc[i]]
    /\ kind' = [i \in Handles |-> IF i \in Opening THEN "tcp" ELSE kind[i]]
    /\ born' = [i \in Handles |-> IF i \in Opening THEN 0 ELSE born[i]]
    /\ UNCHANGED <<engine, manual, then, store, rc, window>>

\* A bug: the serial port stays open.
OpenNetFailsQuietly == DropOpening /\ UNCHANGED open

\* The socket cannot be had; the serial port opened before is closed.
OpenNetFails == DropOpening /\ open' = open \ Opening

\* The critical section that fills the fields of the engine.
Install ==
    /\ At("install")
    /\ owned' = Opening
    /\ cfg' = call.cfg
    /\ reconnectStop' = IF call.cfg.mode = "tcpClient" /\ call.cfg.auto THEN epoch ELSE 0
    /\ pc' = [i \in Handles |-> IF i \in Opening THEN "installed" ELSE pc[i]]
    /\ Proceed("session")
    /\ UNCHANGED <<epoch, state, store, kind, born, open, manual, then, rc, window>>

\* Store.StartSession: the row of the session is named by its epoch.  The
\* insert may fail; Connect only logs that.
StartSession ==
    /\ At("session")
    /\ \/ sessionID' = epoch
       \/ InsertMayFail /\ sessionID' = 0
    /\ Proceed("connected")
    /\ UNCHANGED <<engine, captureKey, rows, handles, rc, window>>

MarkConnected ==
    /\ At("connected")
    /\ state' = "Connected"
    /\ Proceed("spawn")
    /\ UNCHANGED <<epoch, cfg, owned, reconnectStop, store, handles, rc, window>>

SpawnReaders ==
    /\ At("spawn")
    /\ pc' = [i \in Handles |-> IF pc[i] = "installed" THEN "read" ELSE pc[i]]
    /\ Proceed("connectOk")
    /\ UNCHANGED <<engine, store, kind, born, open, manual, then, rc, window>>

\* The deferred function of Connect on an error.
MarkError ==
    /\ At("fail")
    /\ state' = "Error"
    /\ Proceed("connectErr")
    /\ UNCHANGED <<epoch, cfg, owned, reconnectStop, store, handles, rc, window>>

\* Connect has returned; its goroutine posts the outcome to the main thread.
ReportConnect ==
    /\ call.at \in {"connectOk", "connectErr"}
    /\ queue' = Append(queue, call.at)
    /\ call' = NoCall
    /\ UNCHANGED <<engine, store, handles, rc, ui, early>>

ConnectStep ==
    \/ SetCaptureKey \/ MarkConnecting \/ OpenSerial \/ OpenNet \/ OpenNetFails
    \/ Install \/ StartSession \/ MarkConnected \/ SpawnReaders \/ MarkError \/ ReportConnect

-----------------------------------------------------------------------------
(* Readers: readTCP, readSerial, readUDP and acceptLoop                      *)

\* Read (or Accept) fails because the peer closed, the device went away ...
PeerFails(i) ==
    /\ pc[i] = "read" /\ i \in open
    /\ GoTo(i, "cleanup")
    /\ UNCHANGED <<engine, store, open, rc, call, window>>

\* ... or because this side closed the handle.
SeesClosed(i) ==
    /\ pc[i] = "read" /\ i \notin open
    /\ GoTo(i, "cleanup")
    /\ UNCHANGED <<engine, store, open, rc, call, window>>

\* After a failed read: continue with the log line and the event, remembering
\* what comes after them, or return if the session is not the reader's any more.
RecordThen(i, step) ==
    /\ pc' = [pc EXCEPT ![i] = "record"]
    /\ then' = [then EXCEPT ![i] = step]
    /\ UNCHANGED <<kind, born, manual>>

\* The deferred function of readTCP up to the end of its critical section.
CleanupTCP(i) ==
    /\ pc[i] = "cleanup" /\ kind[i] = "tcp"
    /\ open' = open \ {i}
    /\ IF IsActive(i)
         THEN /\ owned' = owned \ {i}
              /\ RecordThen(i, CASE cfg.mode # "tcpClient" -> "idle"
                                 [] cfg.mode = "tcpClient" /\ reconnectStop # 0
                                      /\ i \notin manual -> "reconnect"
                                 [] OTHER -> "mark")
         ELSE /\ Return(i, "idle")
              /\ UNCHANGED owned
    /\ UNCHANGED <<epoch, state, cfg, reconnectStop, store, rc, call, window>>

\* acceptLoop leaves the listener in its field, open.
CleanupListener(i) ==
    /\ pc[i] = "cleanup" /\ kind[i] = "listener"
    /\ IF IsActive(i) THEN RecordThen(i, "mark") ELSE Return(i, "idle")
    /\ UNCHANGED <<engine, store, open, rc, call, window>>

\* readUDP clears the field but does not close the socket.
CleanupUDP(i) ==
    /\ pc[i] = "cleanup" /\ kind[i] = "udp"
    /\ IF IsActive(i)
         THEN owned' = owned \ {i} /\ RecordThen(i, "mark")
         ELSE Return(i, "idle") /\ UNCHANGED owned
    /\ UNCHANGED <<epoch, state, cfg, reconnectStop, store, open, rc, call, window>>

\* readSerial marks the engine disconnected inside the critical section and
\* closes the port when it returns.
CleanupSerial(i) ==
    /\ pc[i] = "cleanup" /\ kind[i] = "serial"
    /\ IF IsActive(i)
         THEN /\ owned' = owned \ {i} /\ state' = "Disconnected"
              /\ RecordThen(i, "notify")
              /\ UNCHANGED open
         ELSE /\ Return(i, "idle")
              /\ open' = open \ {i}
              /\ UNCHANGED <<owned, state>>
    /\ UNCHANGED <<epoch, cfg, reconnectStop, store, rc, call, window>>

\* recordEventAt: the epoch is checked under the lock that is held while the
\* store writes.
RecordEventAt(i) ==
    /\ pc[i] = "record"
    /\ IF born[i] = epoch THEN Record(born[i], "passive") ELSE UNCHANGED rows
    /\ IF then[i] = "idle" THEN Return(i, "idle") ELSE GoTo(i, then[i])
    /\ UNCHANGED <<engine, captureKey, sessionID, open, rc, call, window>>

MarkPassiveClosed(i) ==
    /\ pc[i] = "mark"
    /\ state' = "Disconnected"
    /\ GoTo(i, "notify")
    /\ UNCHANGED <<epoch, cfg, owned, reconnectStop, store, open, rc, call, window>>

\* A bug: while Connect runs the window is left to wait for its outcome.
NotifyClosedUnlessConnecting(i) ==
    /\ pc[i] = "notify"
    /\ queue' = IF call.op = "connect" THEN queue ELSE Append(queue, "closed")
    /\ Return(i, IF kind[i] = "udp" THEN "orphan" ELSE "idle")
    /\ open' = IF kind[i] = "serial" THEN open \ {i} ELSE open
    /\ UNCHANGED <<engine, store, rc, call, ui, early>>

\* onClosed posts to the main thread; then the goroutine returns.
NotifyClosed(i) ==
    /\ pc[i] = "notify"
    /\ queue' = Append(queue, "closed")
    /\ Return(i, IF kind[i] = "udp" THEN "orphan" ELSE "idle")
    /\ open' = IF kind[i] = "serial" THEN open \ {i} ELSE open
    /\ UNCHANGED <<engine, store, rc, call, ui, early>>

\* state = Reconnecting and go reconnectTCP(connection.epoch, stop).
BeginReconnect(i) ==
    /\ pc[i] = "reconnect"
    /\ state' = "Reconnecting"
    /\ rc' = [rc EXCEPT ![born[i]] = "start"]
    /\ Return(i, "idle")
    /\ UNCHANGED <<epoch, cfg, owned, reconnectStop, store, open, call, window>>

ReaderStep(i) ==
    \/ SeesClosed(i) \/ CleanupTCP(i) \/ CleanupListener(i) \/ CleanupUDP(i)
    \/ CleanupSerial(i) \/ RecordEventAt(i) \/ MarkPassiveClosed(i)
    \/ NotifyClosed(i) \/ BeginReconnect(i)

\* The finalizer of the Go runtime closes a socket that nothing refers to.
Finalize(i) ==
    /\ pc[i] = "orphan"
    /\ open' = open \ {i}
    /\ GoTo(i, "idle")
    /\ UNCHANGED <<engine, store, rc, call, window>>

-----------------------------------------------------------------------------
(* acceptLoop: a client arrives, and is admitted under the lock              *)

Accept(i) ==
    /\ pc[i] = "read" /\ kind[i] = "listener" /\ i \in open
    /\ \E j \in Handles :
          /\ Unused(j)
          /\ pc' = [pc EXCEPT ![i] = "admit", ![j] = "accepted"]
          /\ born' = [born EXCEPT ![j] = born[i]]
          /\ open' = open \cup {j}
    /\ UNCHANGED <<engine, store, kind, manual, then, rc, call, window>>

Clients == {j \in owned : kind[j] = "tcp"}
Full    == MaxConnections > 0 /\ Cardinality(Clients) >= MaxConnections

\* The accept loop of i decides about the connection j it has just accepted.
Admit(i, j) ==
    /\ pc[i] = "admit" /\ pc[j] = "accepted" /\ born[i] = born[j]
    /\ \/ /\ ~IsActive(i)
          /\ open' = open \ {j}
          /\ pc' = [pc EXCEPT ![i] = "idle", ![j] = "idle"]
          /\ kind' = [kind EXCEPT ![i] = "tcp"]
          /\ born' = [born EXCEPT ![i] = 0, ![j] = 0]
          /\ UNCHANGED owned
       \/ /\ IsActive(i) /\ Full
          /\ open' = open \ {j}
          /\ pc' = [pc EXCEPT ![i] = "read", ![j] = "idle"]
          /\ born' = [born EXCEPT ![j] = 0]
          /\ UNCHANGED <<owned, kind>>
       \/ /\ IsActive(i) /\ ~Full
          /\ owned' = owned \cup {j}
          /\ pc' = [pc EXCEPT ![i] = "read", ![j] = "read"]
          /\ UNCHANGED <<open, kind, born>>
    /\ UNCHANGED <<epoch, state, cfg, reconnectStop, store, manual, then, rc, call, window>>

-----------------------------------------------------------------------------
(* reconnectTCP(e, stop of e)                                                *)

\* A bug: the loop waits for an address instead of returning without one.
ReconnectStartWaits(e) ==
    /\ rc[e] = "start" /\ reconnectStop # 0
    /\ rc' = [rc EXCEPT ![e] = "wait"]
    /\ UNCHANGED <<engine, store, handles, call, window>>

ReconnectStart(e) ==
    /\ rc[e] = "start"
    /\ rc' = [rc EXCEPT ![e] = IF reconnectStop = 0 THEN "none" ELSE "wait"]
    /\ UNCHANGED <<engine, store, handles, call, window>>

ReconnectCancelled(e) ==
    /\ rc[e] \in {"wait", "dial"} /\ Stopped(e)
    /\ rc' = [rc EXCEPT ![e] = "none"]
    /\ UNCHANGED <<engine, store, handles, call, window>>

\* The backoff timer; it may win the select against a closed stop.
ReconnectTimer(e) ==
    /\ rc[e] = "wait"
    /\ rc' = [rc EXCEPT ![e] = "dial"]
    /\ UNCHANGED <<engine, store, handles, call, window>>

\* A bug: one failed dial ends the loop.
RedialFailsOnce(e) ==
    /\ rc[e] = "dial"
    /\ rc' = [rc EXCEPT ![e] = "none"]
    /\ UNCHANGED <<engine, store, handles, call, window>>

RedialFails(e) ==
    /\ rc[e] = "dial"
    /\ rc' = [rc EXCEPT ![e] = "wait"]
    /\ UNCHANGED <<engine, store, handles, call, window>>

RedialSucceeds(e) ==
    /\ rc[e] = "dial"
    /\ \E i \in Handles : Open(i, "tcp", e, "dialed")
    /\ rc' = [rc EXCEPT ![e] = "install"]
    /\ UNCHANGED <<engine, store, call, window>>

\* A bug: the loop goes on after it has installed a connection.
ReinstallAndDialOn(e, i) ==
    /\ rc[e] = "install" /\ pc[i] = "dialed" /\ born[i] = e
    /\ epoch = e /\ reconnectStop = e
    /\ owned' = owned \cup {i}
    /\ state' = "Connected"
    /\ GoTo(i, "read")
    /\ rc' = [rc EXCEPT ![e] = "wait"]
    /\ UNCHANGED <<epoch, cfg, reconnectStop, store, open, call, window>>

\* A bug: a dial that ends after its session is not told apart.
NeverSuperseded(e) == e \notin Epochs

\* The session or the stop channel of this loop is not the engine's any more.
Superseded(e) == epoch # e \/ reconnectStop # e

\* The critical section that takes the new connection in, and go readTCP.
Reinstall(e, i) ==
    /\ rc[e] = "install" /\ pc[i] = "dialed" /\ born[i] = e
    /\ IF Superseded(e)
         THEN /\ open' = open \ {i}
              /\ Return(i, "idle")
              /\ UNCHANGED <<owned, state>>
         ELSE /\ owned' = owned \cup {i}
              /\ state' = "Connected"
              /\ GoTo(i, "read")
              /\ UNCHANGED open
    /\ rc' = [rc EXCEPT ![e] = "none"]
    /\ UNCHANGED <<epoch, cfg, reconnectStop, store, call, window>>

ReconnectStep(e) ==
    \/ ReconnectStart(e) \/ ReconnectCancelled(e) \/ ReconnectTimer(e)
    \/ \E i \in Handles : Reinstall(e, i)

-----------------------------------------------------------------------------
(* The window: one main thread, blocked while it runs Disconnect             *)

MainThreadFree == call.op \notin {"user", "closed"}

UserConnects ==
    /\ MainThreadFree /\ ui = "idle" /\ epoch + 2 <= MaxEpoch
    /\ \E c \in Configs : call' = [NoCall EXCEPT !.op = "connect", !.at = "swap", !.cfg = c]
    /\ ui' = "connecting" /\ early' = FALSE
    /\ UNCHANGED <<engine, store, handles, rc, queue>>

UserDisconnects ==
    /\ MainThreadFree /\ ui = "connected"
    /\ call' = [NoCall EXCEPT !.op = "user", !.at = "swap"]
    /\ UNCHANGED <<engine, store, handles, rc, window>>

\* DisconnectConnection: one client is closed on purpose.
UserDropsClient(i) ==
    /\ MainThreadFree
    /\ IsActive(i) /\ kind[i] = "tcp"
    /\ manual' = manual \cup {i}
    /\ open' = open \ {i}
    /\ UNCHANGED <<engine, store, pc, kind, born, then, rc, call, window>>

\* The window's reaction to a passive close.
React == call' = [NoCall EXCEPT !.op = "closed", !.at = "swap"]

HandleClosed ==
    /\ MainThreadFree /\ queue # <<>> /\ Head(queue) = "closed"
    /\ queue' = Tail(queue)
    /\ IF ui = "connected" THEN React ELSE UNCHANGED call
    /\ early' = (early \/ (ui = "connecting" /\ RemembersEarlyClose))
    /\ UNCHANGED <<engine, store, handles, rc, ui>>

HandleConnectOk ==
    /\ MainThreadFree /\ queue # <<>> /\ Head(queue) = "connectOk"
    /\ queue' = Tail(queue)
    /\ ui' = "connected" /\ early' = FALSE
    /\ IF early THEN React ELSE UNCHANGED call
    /\ UNCHANGED <<engine, store, handles, rc>>

HandleConnectErr ==
    /\ MainThreadFree /\ queue # <<>> /\ Head(queue) = "connectErr"
    /\ queue' = Tail(queue)
    /\ ui' = "idle"
    /\ UNCHANGED <<engine, store, handles, rc, call, early>>

WindowStep == HandleClosed \/ HandleConnectOk \/ HandleConnectErr

-----------------------------------------------------------------------------
Next ==
    \/ DisconnectStep \/ ConnectStep \/ WindowStep
    \/ UserConnects \/ UserDisconnects
    \/ \E i \in Handles :
          \/ ReaderStep(i) \/ PeerFails(i) \/ Accept(i) \/ Finalize(i) \/ UserDropsClient(i)
          \/ \E j \in Handles : Admit(i, j)
    \/ \E e \in Epochs : ReconnectStep(e) \/ RedialFails(e) \/ RedialSucceeds(e)

Spec == Init /\ [][Next]_vars

\* The Go scheduler runs every goroutine, the main thread drains its queue and
\* every call of the operating system returns.  A server that is to be
\* reconnected to comes back: the dial succeeds if it is tried for ever.
Fairness ==
    /\ WF_vars(DisconnectStep \/ ConnectStep) /\ WF_vars(WindowStep)
    /\ \A i \in Handles :
          /\ WF_vars(ReaderStep(i)) /\ WF_vars(Finalize(i))
          /\ WF_vars(\E j \in Handles : Admit(i, j))
    /\ \A e \in Epochs :
          /\ WF_vars(ReconnectStep(e) \/ RedialFails(e))
          /\ WF_vars(ReconnectCancelled(e))
          /\ SF_vars(RedialSucceeds(e))

FairSpec == Spec /\ Fairness

-----------------------------------------------------------------------------
(* Properties                                                                *)

Steps == {"none", "swap", "lock", "record", "end", "close", "rekey", "connecting",
          "serial", "net", "install", "session", "connected", "spawn", "fail",
          "connectOk", "connectErr"}

Call == [op : {"none", "user", "closed", "connect"}, at : Steps, cfg : Config,
         previous : States, taken : SUBSET Handles, stop : Epochs]

Places == {"idle", "opening", "dialed", "accepted", "installed", "read", "admit",
           "cleanup", "record", "mark", "notify", "reconnect", "orphan"}

Row == [session : Epochs, key : Epochs, what : {"local", "passive"}]

EngineTypes == /\ epoch \in Epochs /\ state \in States /\ cfg \in Config
               /\ owned \subseteq Handles /\ reconnectStop \in Epochs

StoreTypes  == captureKey \in Epochs /\ sessionID \in Epochs /\ rows \subseteq Row

HandleTypes == /\ pc \in [Handles -> Places] /\ kind \in [Handles -> Kinds]
               /\ born \in [Handles -> Epochs]
               /\ open \subseteq Handles /\ manual \subseteq Handles
               /\ then \in [Handles -> {"idle", "mark", "notify", "reconnect"}]

WindowTypes == /\ ui \in {"idle", "connecting", "connected"} /\ early \in BOOLEAN
               /\ queue \in Seq({"closed", "connectOk", "connectErr"})

\* Every variable holds values of its kind.
TypeOK ==
    /\ EngineTypes /\ StoreTypes /\ HandleTypes /\ WindowTypes
    /\ rc \in [Epochs -> {"none", "start", "wait", "dial", "install"}]
    /\ call \in Call

\* Somebody will still close i: a field of the engine, the running call, the
\* goroutine that made i, or its reader.  The one exception is in the code: a
\* UDP socket whose read failed is dropped from e.udp and left to the runtime.
HasOwner(i) ==
    \/ i \in owned \cup call.taken
    \/ pc[i] \in {"opening", "dialed", "accepted", "orphan"}
    \/ pc[i] = "cleanup" /\ kind[i] \in {"tcp", "serial"}
    \/ pc[i] \in {"record", "mark", "notify"} /\ kind[i] \in {"serial", "udp"}

\* No socket, listener or port is left open with nobody to close it, whatever
\* Disconnect, the reconnect loop and the accept loop race for.
NoHandleLeaks == \A i \in open : HasOwner(i)

\* A TCP client session has one link at a time: a connection being opened, in
\* use or torn down, or one reconnect loop, never two of these.
LinkOf(i) ==
    /\ kind[i] = "tcp" /\ born[i] = epoch
    /\ \/ pc[i] \in {"opening", "dialed", "installed", "read", "cleanup", "reconnect"}
       \/ pc[i] = "record" /\ then[i] = "reconnect"

OneLink ==
    cfg.mode = "tcpClient" =>
       /\ \A i, j \in Handles : LinkOf(i) /\ LinkOf(j) => i = j
       /\ rc[epoch] \in {"start", "wait", "dial"} => \A i \in Handles : ~LinkOf(i)

\* Store.Record: an old reader cannot enter a replacement session, and no row
\* of one session is filed under another.
RowsStayInSession == \A r \in rows : r.session = r.key

\* While a reader of the current session runs, the store captures for this
\* session, so that the close it will report is not dropped (unless the row of
\* the session could not be inserted).
ReaderHasSession ==
    \A i \in Handles : born[i] = epoch /\ pc[i] \in {"read", "admit", "cleanup", "record"} =>
        /\ captureKey = epoch
        /\ sessionID = epoch \/ (InsertMayFail /\ sessionID = 0)

\* The promise of the store (CaptureLog): sessions are opened one at a time and
\* never again, and events go to the session that is open.  A key is prepared
\* from SetCaptureKey until Connect starts the session or fails.
Preparing == call.at \in {"connecting", "serial", "net", "install", "session"}

Phase == IF sessionID # 0 THEN "open" ELSE IF Preparing THEN "ready" ELSE "closed"

Capture == INSTANCE CaptureLog WITH phase <- Phase, key <- captureKey, log <- rows

RefinesCaptureLog == Capture!Spec

\* A reconnect loop never gives up: it ends by installing a connection, or
\* because its session has ended.
ReconnectNeverGivesUp ==
    [][\A e \in Epochs : rc[e] # "none" /\ rc'[e] = "none" =>
          epoch # e \/ \E i \in owned' \ owned : born[i] = e]_vars

\* What a session leaves behind when it ends - its readers, its accept loop and
\* a connection being dialled - returns, and its handles are closed.
OldSessionsDrain ==
    \A i \in Handles :
        (pc[i] # "idle" /\ born[i] # epoch) ~> (pc[i] = "idle" /\ i \notin open)

\* The reconnect loop of a session comes to an end: the server is back, or
\* the session is over.
ReconnectEnds == \A e \in Epochs : rc[e] # "none" ~> rc[e] = "none"

\* README: when the other side closes, the window follows.  A window that says
\* "connected" over a disconnected engine does not stay that way, also if the close
\* is reported before Connect has returned: the macOS window, connectionClosed in
\* app.m.  Said of the window that remembers an early close; the other one stays.
WindowFollowsEngine ==
    (ui = "connected" /\ state = "Disconnected") ~> (ui # "connected" \/ state # "Disconnected")

-----------------------------------------------------------------------------
(* What comments, tests and documents say and the code does not do           *)

\* engine.go:158 and README: the line that says who disconnected is a record
\* of the session that ends, also when it is the user.
LocalDisconnectIsStored ==
    [][At("record") /\ call'.at = "end" /\ Reported /\ sessionID # 0 =>
          \E r \in rows' : r.session = sessionID /\ r.what = "local"]_vars

\* engine.go:142: the Disconnect with which a window answers a passive close
\* does not report that the user disconnected.
ReactionNeverBlamesUser == call.op = "closed" /\ At("record") => ~Reported

=============================================================================
