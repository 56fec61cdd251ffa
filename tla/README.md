# A verification project for CommBox (serial-tool)

CommBox is a communication debugging tool: it opens a serial port, a TCP or UDP
socket or an HTTP endpoint, shows and records what passes, sends data by hand, on a
timer or in a loop, bridges a serial port to the network and creates virtual serial
ports. `core/` is a Go engine shared by the Windows, macOS and Linux programs; the
Android and Harmony apps are separate implementations.

This directory holds TLA+ modules translated from that code, TLC configurations that
check them on small instances, and TLAPS proofs of what holds for every instance.
`PROJECT.json` lists the components, the runs, the source lines behind every
definition, the hazards and the findings.

## 1. Inventory

| Component | State it keeps | Operations | Interacts with | Hard behaviour |
|---|---|---|---|---|
| Engine session (`core/engine.go`, `reconnect.go`, `connections.go`) | `epoch`, `state`, the fields that own sockets (`port`, `listener`, `clients`, `udp`), `reconnectAddr/Stop` | `Connect`, `Disconnect`, `acceptLoop`, `readTCP/UDP/Serial`, `reconnectTCP`, `DisconnectConnection` | store (session rows, events), window (`onClosed`) | a goroutine per socket races with Disconnect; reads a fact under `e.Lock` and acts on it after the unlock; dials that end after their session |
| Packet capture and sending (`engine.go`, `targeted_send.go`) | `latestConnection`, `udpPeer`, `udpPeers`, `bridgeReplyLatest` | `receivePacket`, `recordPacketAt`, `emitPacket`, `forwardNetwork`, `Send*`, `HTTPRequest` | readers, store, window | the epoch is taken at another time than the data; a bridge writes after the unlock |
| Session store (`core/storage.go`, `storage_packet.go`) | current file and date, `sessionID`, `captureKey`, background sessions | `StartSession`, `EndSession`, `Record`, `NewSession`, `EndSessionID`, `ReceivedForSession`, rotation, cleanup | engine, virtual serials | row ids are per file; rotation with several live sessions and a failure in the middle |
| Virtual serials (`core/vserial*.go`) | `vbridges`, per bridge `conn`, `stop`, `dropped` | `AddVirtualSerial`, `RemoveVirtualSerial`, `vDialLoop`, `vPtmxReader` | store, the pty, a TCP peer | removal races with a dial and with a chunk being written |
| VirtualCOM access (`core/serial_port_windows.go`) | overlapped I/O, close flag | `Read`, `Write`, `Close` | engine | Close against a pending read |
| Update (`core/update.go`, `update_install.go`, `apps/windows/update_ui.go`) | partial file with its hash and length, `moved` files, the list of old files | check, download with resume, install, roll back, clean up | file system, HTTP mirrors, other processes of the program | resume after failure, roll back, crash between two renames |
| Favorites, history, secrets | settings table | remember, list, protect | store | bounded list without duplicates |
| HTTP mode and cURL (`core/curl.go`, `http_request.go`, `apps/*/http*`) | fields of the workspace, the last import | import, edit, send, generate | engine, files | what was imported against what is on show; quoting there and back |
| Windows and macOS windows | `connected`, `connecting`, timers, loops | button handlers, `onClosed`, message queue | engine | the order of notifications on the main thread; a timer or loop that ends while the next begins |
| Android app | `generation`, `operationLock`, `connection`, the state on show | `connect`, `disconnect`, `send`, callbacks | sockets, BLE, USB | coroutines and callbacks of an old connection |
| Harmony app | the same in another language, on one event loop | the same | sockets | the same |
| AI chat (`apps/windows/ai_chat.go`, `analysis_ui.go`) | turns, attachments, the request in progress | attach, ask, stop, new conversation | the service, the UI thread | closures posted late, cancellation against an answer |
| Linux command line, analysis, toolbox, database reports | none shared with a session | - | - | sequential or pure |

What makes each correct: **session** - no handle is forgotten, one link per client
session, nothing of an old session touches the next, everything an old session leaves
behind ends, the window agrees with the engine; **capture** - each transfer is filed
once, in its session, and a bridge does not carry it into another; **store** - a row
hangs on a session of its owner, in the same file, and every session is ended once;
**virtual serial** - no connection is left open, a removed bridge comes to rest, bytes
are sent or counted; **update** - what is installed is the whole verified package, and
the program is always either the old or the new one; **windows** - a timer or loop is
ended by its own end, and the buttons tell what runs; **mobile sessions** - the last
call wins and the state on show is true; **chat** - no question is lost; **cURL** - a
text means to the program what it means to a shell, and what is imported is sent.

## 2. Plan

| Module | Content | State |
|---|---|---|
| `CaptureLog` | abstract: what the store promises about sessions and rows | done |
| `EngineSession` | Connect, Disconnect, readers, accept loop, reconnect loop, window; implements `CaptureLog` | done, proved |
| `SessionTable` | abstract: what the store promises to its program and its readers | done |
| `StoreRotation` | files, dates, session rows, background sessions, a failing INSERT; implements `SessionTable` | done, proved |
| `VSerialBridge` | bridges, their two goroutines, removal, background session | done, proved |
| `PacketCapture` | the paths of packets between readers, senders, bridge and store, against a change of session | done, proved |
| `PackageFetch` | abstract: what a download promises | done |
| `UpdateDownload`, `UpdateInstall` | check and download across sources; installation, roll back, crash, clean-up; the first implements `PackageFetch` | done, proved |
| `MobileSession` | the Android app's sessions | done, proved |
| `DesktopSending` | single sends, timers and loops of both desktop windows | done, proved |
| `AiChat` | the chat of the Windows program | done, proved |
| `CurlCommand`, `HttpWorkspace` | cURL commands; the HTTP workspaces of both windows | done, proved |

`UpdateInstall` EXTENDS `UpdateDownload`, `HttpWorkspace` EXTENDS `CurlCommand`.
`EngineSession` composes engine, store and window. The other modules take of their
neighbours what they can tell apart: `PacketCapture` and `DesktopSending` have a session
that opens and ends in a few steps, which is what `EngineSession` says of it.

Left for later: the VirtualCOM driver, if its contract becomes part of the repository.

What stays with TLC because the prover cannot state it: liveness under fairness and
`ENABLED`. What a recursive function over numbers computes is within reach: the lemmas
`LeastNatural`, `Induction` and `Recursion` of `UpdateProofs` state induction and
recursion for sets and functions instead of operators, from the well-foundedness of the
numbers, and the choice among sources and the list of mirrors are proved with them.
`DesktopProofs` does the same along sequences (`SeqInduction`, and `Fold`, which says
what a function defined by recursion along a sequence is): the scan of a command line
and the texts joined by `FlattenSeq` are proved with them. What is written with
`FoldLeft` takes an operator, so no lemma can speak of all its uses at once. The operator
of each use is made a function first; `SetFold` and `FoldedSteps` then say what
`FoldLeft` computes with any function, and a short lemma per use (`OptionFold`, `ArgFold`,
`SplittingFold`, `CollectingFold`) ties the two together. Every safety property that a run
checks is now a theorem.

## 3. EngineSession

### State

| Variable | Code |
|---|---|
| `epoch`, `state`, `cfg` | `e.epoch`, `e.state`, the configuration Connect installed (`e.mode`, `e.bridge`) |
| `owned` | a handle is in it while `e.port`, `e.listener`, `e.udp` or `e.clients` holds it |
| `reconnectStop` | `e.reconnectStop` and `e.reconnectAddr`, always set together; named by the epoch that made the channel |
| `captureKey`, `sessionID`, `rows` | the fields of the store and the event rows it holds |
| `pc`, `kind`, `born`, `open`, `manual`, `then` | per handle: where its goroutine is, what it is, the epoch it was given, whether the descriptor is open, `manualClose`, and what the goroutine does after recording |
| `rc` | `reconnectTCP` of each epoch |
| `call` | the Connect or Disconnect in progress, with its local variables |
| `ui`, `early`, `queue` | the window: idle / connecting / connected, the remembered early close (macOS), the main-thread queue |

### Steps

`Connect` and `Disconnect` are cut at every atomic access to `e.state`, every critical
section of `e.Lock` and every call of the store, because there the other goroutines
come in. `Disconnect` is `SwapState`, `TakeResources` (the critical section),
`RecordLocalDisconnect`, `EndSession`, `CloseTaken`. `Connect` runs these five first
and then `SetCaptureKey`, `MarkConnecting`, `OpenSerial`, `OpenNet` (or
`OpenNetFails`), `Install` (the critical section), `StartSession`, `MarkConnected`,
`SpawnReaders`; an error goes to `MarkError`. A reader is blocked in Read (`"read"`)
until the peer fails (`PeerFails`) or its handle is closed (`SeesClosed`); the
`Cleanup` actions are the critical sections at the end of `readTCP`, `acceptLoop`,
`readUDP` and `readSerial`, followed by `RecordEventAt`, `MarkPassiveClosed`,
`NotifyClosed` or `BeginReconnect`. `RecordEventAt` is one step because the code holds
`e.Lock` across the write of the store, on purpose.

The window is the main thread of the Windows or macOS program: it runs the button
handlers and the closures posted to it one at a time, Disconnect on the main thread
and Connect in a goroutine whose outcome is posted. `RemembersEarlyClose` selects the
window: the macOS one keeps a close that arrives while it is connecting.

### Abstractions

Payloads, log texts and counters are left out, so a reader that carries traffic stays
in `"read"`. An invalid configuration and a port that cannot be opened are one
failure. The search for a connection by id and its `Close` in `DisconnectConnection`
are one step: both act on one connection object, and a stale object is only closed
again. `SetMaxConnections` at run time and `Engine.Close` during a Connect are left
out. `Finalize` stands for the Go runtime: `readUDP` drops a failed socket without
closing it, and the finalizer of the connection does so some time later.

### Runs

| Run | Question | Result |
|---|---|---|
| `SessionSafety` | all eight kinds of configuration, three handles, four bumps of the epoch, a connection limit of one | 1.1 million states, no error |
| `SessionLiveness` | a reconnecting client and one that does not reconnect, two handles, four bumps, a failing INSERT allowed | 86 thousand states, no error |
| `LocalDisconnect` | is the line "the user disconnected" stored in the session it ends? | violated |
| `StaleClose` | can the window's reaction to a passive close be reported as the user's? | violated |

`MaxEpoch` = 4 is two connections with their disconnections: Connect bumps the epoch
once on its own (it calls Disconnect) and Disconnect once more. So an old session, its
end, its replacement and the end of that all occur, with the old session's goroutines
anywhere. Three handles are one of the old session, one of the new and one being dialled
or accepted; a bridge takes two at once. A connection limit of one makes the limit bite
as soon as one client is there. The handles are interchangeable, so the safety runs use
symmetry; the liveness run does not. It has two clients because a lost link ends in two
ways: the reconnecting client goes to its loop, and only the other one tells the window
that the peer has closed. `WindowFollowsEngine` is about the window that remembers an
early close, the macOS one; the Windows window does not (section 10). `CHECK_DEADLOCK
FALSE` is there because the user stops at `MaxEpoch`, and everything may then be at
rest.

### Fairness

The Go scheduler runs every goroutine, so the steps of Connect, Disconnect, the
readers and the loops are weakly fair; Windows and AppKit run what is posted to the
main thread, so the handlers are weakly fair too. A blocked Read ends only if somebody
closes the handle or the peer fails: the peer's failure is not fair. `ReconnectCancelled`
has a fairness of its own because a closed stop channel stays receivable and the dial
is cancelled by its context. `RedialSucceeds` is strongly fair: this is an assumption
about the network (a server that is dialled for ever comes back), needed only for
`ReconnectEnds`. Nothing is assumed of the user.

### Findings

1. `Disconnect` increments the epoch before `recordEvent` builds its packet, so the
   packet carries a session key the store does not capture for and `Store.Record`
   drops it. The comment of `recordEvent`, the comment in `Disconnect` and the
   repository's README say it is stored.
2. A reader that found itself active may be delayed before it marks and notifies. If
   the user reconnects meanwhile, the notification ends the new session, and
   `Disconnect` reports that the user did it.

### Proofs

`EngineSessionProofs` proves, for every set of handles, every set of configurations and
every bound (`ConfigsAssumption`, `BoundsAssumption`), the theorems `TypeCorrect`,
`RowsKeepTheirSession`, `ReadersHaveSession`, `NoHandleIsLost`,
`EngineRefinesCaptureLog`, `ClientsHaveOneLink` and `ReconnectKeepsTrying`. All rest on
one inductive invariant, `IInv`, which was checked with TLC before it was proved:

- `TypeOK`;
- `WindowInv`: the window is connecting exactly while a Connect runs or its outcome is
  queued, so there is one Connect or Disconnect at a time;
- `Room`: the epoch leaves room for the bump the running call still has to make;
- `Past`: nothing - a handle, a loop, a key - carries an epoch of the future;
- `SessionInv`: where Connect is determines whether the store has a session and a key.
  This is what makes `RowsStayInSession` inductive: a row is written only when its key
  equals the capture key, and an open session always has the key of its own epoch;
- `HandleInv`: where a handle is determines whether it is open, owned or taken, which
  gives `NoHandleLeaks`.

`EngineRefinesCaptureLog` maps `sessionID` and the position of Connect to the phase of
`CaptureLog`; each step of the engine is a step of it or a stutter. The lemma for each
invariant has one step per action.

`ClientsHaveOneLink` is the theorem of `OneLink`. It needs `ClientAssumption` (a client
configuration is on the network side a TCP socket) and, on top of `IInv`, `LinkInv`: from
the critical section of Disconnect to that of Connect the session has only handles that
are being opened, at most one of them a socket; a reconnect loop dials only when the
session has no link, and a loop that is about to install holds the handle it dialled.
So the moment in which a second link could appear - a dial that ends while the old link
is still being cleaned up, or after the user has connected again - does not exist.

`ReconnectKeepsTrying` is the theorem of `ReconnectNeverGivesUp`, and adds `LoopInv`: a
loop that is at work in the current session still has its stop channel, the state is
connected or reconnecting, and nobody else holds a link. Without it the branches that end
a loop because its place was taken, or its channel removed, could be reached while the
session goes on. The liveness properties are only model-checked.

## 4. StoreRotation

The rows of the store are in a file per day, and a new one when a file reaches 100 MiB.
`EngineSession` takes the store as one table; this module has the files.

| Variable | Code |
|---|---|
| `clock`, `disk` | the day of `time.Now()` and the data files in the directory |
| `cur` | `s.db`, `s.path`, `s.date`, `s.index`; `NoFile` is the nil `s.db` after a failed open |
| `main`, `sessionID` | the mode, endpoint and parameters of the main session (numbered), `s.sessionID` |
| `bg`, `rowID` | `s.bg`: which background sessions are there, and the `rowID` of each |
| `sessions`, `count`, `ended`, `data` | the tables of all files; `count` is what AUTOINCREMENT remembers |
| `started`, `abandoned` | history: main sessions so far, and rows a dead process left without an end |

Every operation of the store holds its lock from its beginning to its end, so each is
one step: `StartSession`, `EndSession`, `NewSession`, `EndSessionID`, `Record` and
`ReceivedForSession`. The last two begin with `rotateIfNeededLocked`, which is part of
them: the file stays (`StayInFile`), another one is opened and the sessions get their
rows in it (`Rotate`), or something on this way fails (`RotationFails`). The packet of
`Record` carries its own time stamp, which may be that of yesterday; the data of
`ReceivedForSession` is stamped with the clock. `Restart` is a crash, or `Engine.Close`
with the end of its sessions, followed by `OpenStore` with the clean-up of old files.
Whom `Record` accepts a packet from (the capture key) is in `EngineSession`.

Abstractions. The size of a file, and the cache of it (`sizeHeadroom`, `sizeWrites`),
are left out: a file may turn out to be full at any write, and the newest file of a day
at any opening. A background session is named by its task and begins once. `Tasks` have
nothing in common with numbers, which are the main sessions (`TasksAssumption`). The
clock does not go back.

| Run | Question | Result |
|---|---|---|
| `StoreRotation` | two background sessions and a main one, two days of two files, two rows a file and session, failing opens, crashes | 419 thousand states, no error |

What the files are for is said by `SessionTable`: one table without files, where a session
begins, runs and ends once, a packet is kept under a running session and its day, nothing
that was kept changes, the store may go down, and only a restart deletes, the oldest days
first. `RefinesSessionTable` maps the files to it as a reader sees them: `Running` are the
owners of the session rows without an end in any file, `Kept` is the data of every file
joined with the session rows of that file, on the day in the file's name. A rotation, with
its old rows ended and new ones begun, must not be seen at all. The packet of `Record`
may be of yesterday, so `SessionTable` allows a main session that stamp.

Two files a day and two days make both kinds of rotation happen, there and back around
midnight; two background sessions share a rotation, and `MaxRow` = 2 lets a session get
a second row in a file it comes back to. The rotation orders the background sessions in
every way, as the range over a Go map does. The larger bounds we tried (three rows, two
main sessions) show nothing new in the time they run. Deadlock is checked: a restart is
always possible.

Proofs (`StoreRotationProofs`), for every number of tasks, days, files and rows:

- `StoreTypeCorrect`, `DataIsInItsDay` and `MainDataKeepsItsSession` without an
  assumption on failures (the last says of the main session what no run checks alone);
- `DataKeepsItsSession`, `MainSessionGoesOn` and `EverySessionEndsOnce` as long as no
  INSERT of a session row fails (`~InsertMayFail`); section 10 says what happens if one does;
- `FilesAreOneTable`, the refinement of `SessionTable`, under the same assumption. One
  lemma per kind of step (`BeginsMain`, `BeginsTask`, `EndsMain`, `EndsTask`,
  `KeepsOrGoesDown`, `RestartsTable`) shows which step of the table it is.

`RowsHangOnTheirSession` is not inductive. `RowInv` adds that the ids of a file are given
once and are at most its `count` (`UniqueIds`), that whoever writes has a row of its own
in the current file (`WritersHaveRows`), and that each datum has the row of its owner
(`DataHasRows`). The lemma `ReopenRows` is the heart of it: the rows of a rotation have
new ids, different from each other, and each session finds its own. `EverySessionEndsOnce`
adds `ClosedWereGiven`, that no row was ended whose id is still to be given; without it a
new row could be born ended. The refinement rests on all of these together (`TableInv`),
with `RowsInTheirDay`, proved as `DataIsInItsDay` (no run checks it alone), and `DiskInv`:
the files there are have a day that has come, and what is read lies in one of them. That a
clean-up deletes the oldest days needs that the file a restart opens is the last of all
(`LastFile`), for which the day's files must have a greatest index (`GreatestIndex`).

## 5. VSerialBridge

A bridge of a virtual serial port to a TCP endpoint (`core/vserial.go`). Bridges share
nothing but the store, so the module is about one of them.

| Variable | Code |
|---|---|
| `add` | where `AddVirtualSerial` is |
| `listed`, `stop`, `conn`, `session`, `device` | the entry of `e.vbridges`, `b.stop`, `b.conn`, the background session, the pty |
| `link` | of each connection: up, lost by the peer, or closed by this program |
| `dial`, `pty`, `rem` | where `vDialLoop`, `vPtmxReader` and `RemoveVirtualSerial` are, and the connection each has in its local variable |
| `dropping`, `fate`, `recorded`, `alarms` | the local flag, and as history what became of each chunk of the application, which are in the store, and where a loss was reported |

The goroutines are cut at every critical section of `b.mu`, every call that may block
and every call of the store. `Install` is the critical section that looks at `stop`
before it keeps a connection; `TakeConn` is its counterpart in the removal. `PickConn`
copies `b.conn` under the lock and `WriteOk` or `WriteFails` use the copy after it. A
write to a connection that the peer has left may succeed, as it does in TCP: "sent" means
that the connection took the chunk. `RemoveVirtualSerial` deletes the entry of the map
first, under `e.Lock`, so of several calls one goes on; the model has that one. What the
loop stores of the network's data changes nothing here (it is `ReceivedForSession(t)` of
`StoreRotation`).

One run, `VSerialBridge`: three connections (one being dialled, one that the reader of
the device still has in hand, one the removal took) and four chunks (sent, lost, sent,
lost: two losses to report); 55 thousand states, no error. `CHECK_DEADLOCK FALSE` is
there because a removed bridge is at rest.

Fairness. Goroutines run, a dial ends by its timeout, timers fire. `Stopped` is strongly
fair: a `select` that begins with `stop` closed takes it at once, however often the loop
comes by. `DialOk` is strongly fair, an assumption about the network that only
`LostLinkIsReplaced` needs. Nothing is assumed of the peer, of the application or of
the user: a read or write lasts until its connection or device is closed. That closing
the device ends a read of it and a write to it is an assumption about the pty.
`LostLinkIsReplaced` has a premise: while nobody reads the device and its buffer is full,
the loop is blocked in `b.master.Write`, does not see that the connection is lost and
does not dial.

Proofs (`VSerialBridgeProofs`), for any number of connections and chunks:
`BridgeTypeCorrect`, `NoConnectionIsLost`, `SentChunksAreRecorded`, `NoSilentLoss`. The
first two rest on `LinkInv`: who holds a connection follows from where the goroutine is
(`Holders`), and the removal closes `stop` before it takes the connection
(`RemovalInOrder`), so `Install` either sees `stop` or is seen by `TakeConn`.
`SentChunksAreRecorded` adds `LateChunkIsLost`: a chunk that came too late to be
recorded finds no connection, because the session ends after the connection is taken.
The liveness properties are only model-checked.

## 6. PacketCapture

How a packet travels (`core/engine.go`, `connections.go`, `targeted_send.go`): from a
reader or a caller of Send, over a socket, through the bridge, into the store, while the
user replaces the session.

| Variable | Code |
|---|---|
| `epoch`, `life` | `e.epoch`, and how far Disconnect and Connect are |
| `mode` | `e.mode` |
| `eng` | the fields of a session: `port`, `endpoint`, `listener`, `clients`, `latestConnection`, `udp`, `udpPeer`, the HTTP client, `bridge` |
| `peers` | `e.udpPeers`; of each address, the session whose call put it there |
| `captureKey`, `sessionID` | the fields of the store |
| `born`, `closed`, `shut` | the session of each TCP connection; which connections, and which sessions' ports and UDP sockets, are closed |
| `asked` | history: connections that sent a request to the serial side |
| `th` | the calls in progress: where each is, its local variables, and as history the session it began in (`from`), whose handle carried the packet (`of`), where it was recorded (`row`) and how many transfers are still to be recorded (`due`) |

A thread is a goroutine that runs one call: an iteration of `readTCP`, `readUDP` or
`readSerial`, or `Send`, `SendNetwork`, `SendToConnection`, `SendUDP`, `SendToUDP`,
`HTTPRequest`. It is cut at every critical section of `e.Lock`, every call of the store
and every write to a handle, which are the places where a Disconnect can overtake it.
A reader goes through `NotePeer` or `SerialLabel`, `CheckEpoch`, `EmitPacket` and `Record`
(`receivePacket`, `recordPacketAt`), then over the bridge with `CheckPort` and `WritePort`
(`writeSerialAt`) or `ForwardNetwork` and the writes to TCP and UDP; a broadcast is one
`CheckConn` and `WriteConn` per client of the copy that `SnapshotClients` took. A thread
makes one call after another; that two calls and a change of session meet is what the
properties are about.

`LoseSerial` and `LoseUDP` are the ends of `readSerial` and `readUDP` by an error. While
the session lasts they take the port, or the UDP socket with its peer, away from the
engine and change nothing else, so what the user and the bridge send goes on without it.
The deferred call of `readSerial` closes the port; nobody closes the UDP socket, so a
write that had it already may still succeed. `EveryTransferIsRecordedOnce` has the one
exception this leads to: `LostPort`, a serial server whose port is lost and which sends to
its TCP clients (section 10).

Abstractions. Contents and counters are left out: a packet is told apart by the session
whose handle it passed. A serial port or UDP socket is named by its session; 0 is nil.
Of Disconnect and Connect there are the steps packets can tell apart; the rest is in
`EngineSession`. The user may switch `e.bridgeReplyLatest` at any moment and only
`forwardNetwork` reads it, so there is no variable for it: `ForwardNetwork` goes either
way (`BridgeReplyLatest`). The formatting of a request and the rendering of a response
are left out.

The run `PacketCapture` has six configurations (serial, a serial server over a listener
and one over a UDP target, TCP, UDP, HTTP), two sessions, two threads, two connections and
one UDP address: 5.3 million states, no error. Two sessions are the old and its
replacement; two threads are all that one property relates; two connections are the
requester and another. Threads and connections are interchangeable. The engine may be at
rest at `MaxSession`, therefore `CHECK_DEADLOCK FALSE`.

Proofs (`PacketCaptureProofs`), for every number of threads, connections, peers and
sessions: `TypeCorrect` and the four properties of the run. The invariant is `TypeOK`,
`SessionInv` (the engine's fields are of the current session or empty, and follow `life`
and `mode`) and, for each call, `CallInv`: `Shape` (what its local variables can be where
it is), `Filed` (what it holds of a session is of its own, so a record made from it goes
there or nowhere) and `Once` (with `Pending`: what is due is recorded by a step still
ahead, and by one only). A step of one call leaves the `CallInv` of the others because it
speaks of closed sessions and connections, which stay closed. `CaptureAssumption` says
with `NetOf` what a mode may have on its network side, as `Connect` installs it.

`RecordsStayInTheirSession` speaks of the records that carry the epoch of their
transfer. That is not all of them: see `LateRecord` in section 10.

## 7. Update

`UpdateDownload` is `core/update.go`; `UpdateInstall` is `core/update_install.go` with
the dialog and the restart of `apps/windows/update_ui.go`, and several processes.

| Variable | Code |
|---|---|
| `answers`, `info` | the results of `checkUpdateSources`, the `UpdateInfo` on offer |
| `served`, `body` | which file each source serves, what the response has still to deliver |
| `pc`, `cancelled`, `attempt` | `downloadAsset`: where it is, its context, the attempts made |
| `tmp`, `file`, `hash`, `done` | the temporary file and the fields of `resumableDownload` |
| `delivered`, `package` | what `DownloadUpdate` renamed into place |
| `dir`, `old`, `stage`, `listed` | the program directory, its `*.old` files, the staging directory, `updateOldList` |
| `image`, `runs`, `sweep`, `left`, `installed` | per process: the file it runs from, its version, its `CleanupUpdate`, `installedUpdate` |
| `owner`, `ipc`, `index`, `moved` | the goroutine of the dialog: `installZip` with its loop and its `done` |
| `before`, `disturbed`, `held` | history for `AllOrNothing`: the directory before, whether a process started or cleaned up since, the files the roll back could not put back |

A file is a sequence of blocks, and the SHA256 of a file is the file. `hash` and `done`
are kept apart from `file`, as in the code: a source that answers a range request with
the whole file makes the code start over, and the three must agree then. A source may
report no size, no checksum, serve another file under the name, ignore the range, break
off at any block or refuse.

`installZip` moves the file in place out of the way (`SwapOut`, `SwapNone`), puts the
new one there (`Put`) and undoes everything if a step fails (`RollBack`, `RolledBack`).
The roll back ignores the errors of `os.Remove` and `os.Rename`: `RestoreFails` is a
round in which another program holds one of the two files, `held` remembers its name,
and the file stays as it is, or is gone with its old content at `*.old`. Windows renames
the file a process runs from but neither deletes nor replaces it: `image` follows that.
A process may end at any step and another may start at any step, with `CleanupUpdate` in
three steps that meet a running installation.

| Bound | Value | Why it is enough |
|---|---|---|
| versions | a release and a pre-release | comparison, and an update over an update |
| sources | 2 | one that resumes after the other; source 2 reports sizes and notes the pre-release's checksum |
| files | the program and one more | one file is swapped in when the next fails |
| processes, starts | 2, 2 | one updates while the other starts or cleans up |
| `MaxAttempts` | 3 | a failure after a resume |
| `MaxUpdates` | 2 | a download after one that was left behind |

The archive is flat, as the packages are made; no name occurs twice in one
(`InstallAssumption`). Two processes that install at the same time are excluded: the
dialog has one `owner`. Installing on macOS and Linux is another program's work.

The run `Update`: 3.3 million states, no error. `AllOrNothing` says that a failed
installation that nobody disturbed leaves each file as it was before; a file in `held` is
the exception, and of it that what it was is at `*.old` (`Restored`; section 10).
`PackageIsWhole` says of a package with a checksum that it is the promised one; without a
checksum only that it is the file the sources serve, if all that may be asked serve the
same one. `RefinesPackageFetch` is the refinement
of `PackageFetch`: a package is delivered whole and in one step, or nothing is left.
`DownloadAdvances` takes the place of a liveness property: every step of the download
makes a measure smaller that cannot fall for ever, so it ends under any scheduling.

Proofs (`UpdateProofs`), for every number of processes, files, sources, versions:

- `ExeNeverLost`: wherever an installation fails or dies, the program or the file
  renamed away from it is there. `ExeInv` adds that a process runs from a file that
  exists and that only a running process cleans up: what a cleanup may delete is not
  what somebody runs from.
- `FailedInstallIsUndone`: an undisturbed installation that fails leaves each file
  `Restored`. With `LoopInv` (where the loop is, given `moved`) and
  `UndoInv` (undisturbed, a file noted in `moved` can be restored, every other is as it
  was, and nothing runs from the name of a renamed program; a file in `held` is done with).
- `InstallIsOfOneVersion`: an installation that reports success has put every file of
  one package in place (`VersionInv`), also while other processes start and clean up.
- `UpdateTypes` and `PackageIsPromised`: the types, and that a package with a checksum is
  delivered only if it is the one promised (`DownloadInv`: where `downloadAsset` is fixes
  the attempt, the source and what may be on the disk, and bytes, checksum and count agree).
- `NewestIsOffered`: the release on offer is the newest that any source answered with, as
  new as any other with a package if one has it, and every source the download may ask
  has the package of this release (`OfferIsNewest`). For this `CompareVersions` is shown
  to be a strict weak order on all versions (`NewerOrder`, `PreferredOrder`), and `Best`
  and `From` to be what the loops over the sources compute. `VersionAssumption` says that
  a version is a list of parts, each a number and the rank of its suffix.
- `DownloadIsBounded`: the theorem of `DownloadAdvances`.
- `FetchImplemented`: the theorem of `RefinesPackageFetch`; each step of the download maps
  to a step of `PackageFetch` or to a stutter, and each step of installations and
  processes to a stutter or to the clean-up.
- `PackageIsDeliveredWhole`: the theorem of `PackageIsWhole`, with `MixInv`: what was
  written, and what a response has still to deliver behind it, are blocks of served files
  at their places. It is what a resumption must keep when another source answers.
- `InstallIsAllOrNothing`: the theorem of `AllOrNothing`. That an installation is of one
  version is `VersionInv`; that this is the version of the dialog needs `OfferedInv` (who
  installs works on the `UpdateInfo` on show) and the hypothesis `Unmixable`: no package of
  another version can be put together, block by block, from the package of the one on
  offer and the stray files a source may serve. With a checksum it is not needed; without
  one the code compares the length at most, so a theorem without it would be false. The
  instance of the run satisfies it (`MCUnmixable`).

Nothing of this component is only model-checked.

## 8. MobileSession and DesktopSending

### MobileSession

`SessionController.kt` with the connections of `transport/`.

| Variable | Code |
|---|---|
| `generation`, `queue` | `generation`; the holder of `operationLock` and those who wait, in order |
| `connection` | `connection` and `connectionGeneration` |
| `state` | `mutableState`, with the session it speaks of |
| `op` | the calls of `connect`, `disconnect`, `send`: where each is, and its arguments |
| `conn` | per connection: `closed`, the socket, port or gatt, the server socket, a socket only the reader has, where the reader and its coroutine are, `closedDuringOpen`, `pendingStatus` |
| `shown` | history: packets given to the capture, with the state on show |

A call of connect, the connection it opens and the callbacks bound to it have the number
that the call drew from `generation`. The seven kinds differ in what a reader does with
an end: USB, SPP and UDP report it, BLE reports through its callback, a TCP client ends
or redials, a TCP server accepts the next.

An opening succeeds, fails or, of a BLE link, times out. `OpenTimesOut` shows nothing to
the user: `withTimeout` throws a `CancellationException`, which connect takes for its own
and throws on. `Left` is what a failed opening leaves behind: the `DatagramSocket` or
`ServerSocket` that was made before the step that failed, which nobody closes then.

Run `Mobile`: two calls, one sender, all kinds; 132 thousand states, no error. Two calls
are a connection and its replacement or its end, with the callbacks of the first
anywhere. Three calls were tried without liveness (9.8 million states, no error).

Fairness: coroutines go on, opening and the writes of USB, BLE and UDP have time limits,
a read of a closed socket returns. The exception is the question whether the app may use a
USB device, which waits for the user and holds `operationLock` meanwhile: `Proceeds`
leaves it out. The writes of a coroutine of send are strongly fair where they do not wait
for the peer (`BoundedWrite`): a write to a socket that was closed fails, even if the
reader dials another at once. Nothing is assumed of the peer or the user, so `CallsReturn`
has three premises: each write to a stream that waits for its peer ends, the user answers
the question, and the peer of a socket that was accepted while `close()` ran goes in the
end (section 10 says why). None of them keeps these waits out of the behaviours; they
only may not last for ever.

`Lost` names the handles that the code is known to leave to the garbage collector: the
gatt of a BLE link that ended by itself, a socket redialled or accepted while `close()`
runs, and the socket of a UDP connection or a server whose opening failed;
`NoHandleLeaks` and `OneLink` speak of all others. `QuietStateIsTrue` has one exception,
`TimedOut`: after a BLE opening that timed out "Connecting" stays on show until the next
call. A packet is given to the capture in one step; that the app stores packets by one
coroutine each, possibly out of order, is left out.

Proofs (`MobileSessionProofs`), for any number of calls and senders and any set of
kinds: `MobileTypeCorrect`, `QuietStateTells`, `PacketsStayInTheirSession`,
`NoHandleIsForgotten` and `OneConnection`, all from one inductive invariant:

- `Calls`: only the head of `queue` acts; while connect or disconnect acts there is no
  `connection`, and what it closes is what it opened or what a call that has returned
  left. This is what `operationLock` is for.
- `Line`: calls wait in the order of their generations, so a later call wins.
- `Newest`: a call or a connection that is not the newest has the newest waiting behind
  it. With an empty queue the connection is therefore that of the last call, which is
  why the state on show may be believed then.
- `Links`: what each kind of connection keeps to by itself, and that an open one which
  nobody holds is one of those `Lost` names, or is closed by its reader.
- `Told`, `Session`: what the window shows while a call acts, after the end of a
  connection and after an early one; `Sending`: a coroutine of
  send that writes has a connection.

`OneLink` is not inductive: it needs that the connection which nobody holds is not open
(`Links`) and that at most one is held (`Calls`). `CallsReturn` stays with TLC.

### DesktopSending

Single sends, the timer and the loop of the Windows and the macOS window
(`apps/windows/main.go`, `apps/macos/main.go`, `app.m`).

| Variable | Code |
|---|---|
| `live`, `sessions` | the engine's session |
| `connected`, `connecting`, `sending`, `early`, `timerSending`, `loopButton`, `window` | fields of the window; `early` is `_closedWhileConnecting` |
| `timer`, `loop` | `timerCancel` or `_timerGen`, `loopCancel`: which run they are for |
| `posted` | functions waiting for the main thread (Synchronize, dispatch_async) |
| `dialing`, `sender`, `run` | the goroutines of Connect, of a single send, and of each timer or loop with what it has left to send |
| `started`, `stopped` | history |

The main thread handles one click or one posted function at a time (`Handle`), and every
goroutine posts what it has to say. A run is a timer or a loop that was started; stopping
it closes its channel, and it may send once more.

Run `DesktopSending`: both windows, loops of one send and without end, two runs, two
sessions; 1.4 million states, no error. Two runs are an earlier one whose report is on
its way and a later one. Fairness: the main thread runs what is posted, a send ends (it
has a deadline), goroutines go on. The reply that a loop step may wait for is left out.

Proofs (`DesktopProofs`, first half), for any number of runs and sessions, any loop counts,
both windows: `RunsEndForTheirOwnReason`, `OneSendAfterStop`, `ButtonsTellWhatRuns`. The
invariant `RunInv` is `Typed`, `Current` (the fields of the window name runs of their
kind that nobody has cancelled; a run that is cancelled was stopped or has failed),
`Ends` (what a posted function says of a run is true for ever: `Truthful`, because what
is over stays over) and `Sends` (a send after the stop is the last). `Buttons` adds that
what is on show is what runs. `Ends` is what makes a late report harmless: the handler
compares the run with the field, and a run that reported is never in the field again.

## 9. AiChat, CurlCommand and HttpWorkspace

### AiChat

One conversation of the Windows program, in the panel of the main window or beside the
report of an analysis window.

| Variable | Code |
|---|---|
| `input`, `files`, `loading`, `loadID`, `loaders` | `c.input`, `c.filePaths`, `c.loading`, `c.loadID` and the goroutines that read files |
| `turns`, `context` | `c.turns`, `c.context` |
| `busy`, `requestID`, `req`, `cancelled` | `c.busy`, `c.requestID`, the request in progress and its context |
| `stream` | `pending`, `posted` and the timer of a streamed answer, and what is shown |
| `working`, `reports` | `analysisWindow.busy`, the local reports |

All fields belong to the UI thread; a goroutine works on what it was given at its start
and posts a closure when it ends. A question is a number and an answer the number of its
pieces that have arrived.

Run `AiChat`: two questions, three loads, two pieces, one report, a limit of two
attachments (six in the code) and two files; 757 thousand states, no error. With as many
files as the limit allows a question can have too many only by having one of them twice,
so the run shows that no file is attached twice; that the limit holds for any number of
files is the theorem `QuestionsFit`. Fairness: timers fire, the UI thread runs what is
posted, a request whose context is cancelled returns, local work ends. The service need
not answer: an answer may stop coming after any piece, and `PiecesAppear` asks that the
pieces there are be shown.

`AiChatProofs` proves the type invariant, `AttachmentsFit` and
`FailedQuestionComesBack` for any number of files, questions, loads, reports and
pieces. The limit on attachments is checked when a load ends against files that were
counted when it began, so the inductive invariant says what holds between: `Loads`
(the load whose files will be taken knows what is attached now and how much room there
is, since nothing is attached or removed while it reads), `Question` (while an answer
is awaited nothing is attached or loading, so what a failure puts back fits), and for
the types `Room` (what a running job may still count; the pieces shown and pending are
those that came). `PiecesAppear` stays with TLC.

### CurlCommand and HttpWorkspace

`CurlCommand` has `core/curl.go` as operators on texts: `splitCurlCommand`, `ParseCURL`,
`FormatCURL`. A text is a sequence of atoms; what means something to a shell is an atom
of its own, and a function that may fail returns the set of its result, which is empty
for an error. `HttpWorkspace` has the fields of both windows, and as `SentRequests` the
request that `DoHTTPRequest` makes of them; the response changes nothing the window keeps.

| Variable | Code |
|---|---|
| `program` | which of the two programs |
| `curl` | the curl box |
| `imported`, `fields` | `base` of `httpWorkspaceFields`, the controls |
| `typed`, `source`, `edits` | history: the pieces that were typed, the import since which nothing was edited; the bound on edits |

What is typed into the curl box is a sequence of pieces, which is how a shell sees a
line: part of a word in one quotation (none, `'`, `"` or `$'`), white space, a continued
line, or something that takes a shell (an expansion, an operator). The part of a word
consists of units, each an atom that means nothing special in its quotation or an escape
that a shell undoes there. `IsPiece` says which pieces there are and the assumption
`PiecesAssumption` that the constant has no others; `TextsAssumption` says that what may
be pasted or written into the fields are texts. The text of a line is that of its
pieces, one after the other; its meaning, `Reading`, is gathered from what they stand
for, without a scanner.

Run `HttpWorkspace`: every text of up to three pieces (seventeen pieces with units of
each kind), twenty-two commands with each group of options, two edits; 233 thousand
states, no error. Three pieces are enough for one quotation to end against another and for a
word on each side of a separator. `ImportIsSent` speaks of the imports whose request the
fields can hold: `WindowsHolds` leaves out a blank method, a header of several lines, blanks
around the URL and a time of more than 86400 seconds, all of which the window changes or
refuses (section 10); `MacHolds` leaves out what the macOS window has no field for. Some
of the commands have each of these, so that what is left out is met by the run.
`GeneratedCommandIsTheRequest` compares two ways to
the same request: sending the fields, and sending what their generated command means.
Both modules are pure or sequential: no fairness.

Proofs (`DesktopProofs`, second half):

- `TextsMeanTheirWords`: `TextMeansItsWords` for any pieces and texts of any length. The
  invariant says that the curl box holds the text of what was typed (`WorkspaceInv`);
  the rest is `ShellWords`, about `splitCurlCommand` alone. It goes by induction along
  the pieces, and in each along its units: between pieces the scanner is outside any
  quotation and has exactly what a shell has read by then (`At`), a unit adds what it
  stands for (`UnitsAreRead`), and a piece that takes a shell makes the scan fail for good
  (`ShellFails`, `FailedStays`).
- `QuotationIsUndone`: what `curlQuote` makes of any text is read back as that text,
  wherever no quotation is open, so no text leaves its quotation.
- `CommandIsItsWords`, `FormattedIsSplit`: a command of option names and quoted texts,
  which is all that `FormatCURL` writes, is split into the words it was made of, empty
  ones included. `Requests` are all specs of the right types.
- `ParsedRequests`: whatever text is imported, `ParseCURL` makes no request or a member of
  `Imported`: no body beside the data or the form, never both of them, headers trimmed and
  of names that `curl.go` allows, a cookie with its sign of equality, a user without a
  colon, a form field with a name. It is proved along the words, and in a word along its
  cluster of options, from what each option makes of a state of the parser
  (`ParseStates`).
- `FormattedMeansItself`: any request of these shapes with one kind of body, written by
  `FormatCURL` and read by `ParseCURL`, is the request `Meant`: the same but for the method
  it is sent with and a body that became data. One lemma per group of options says what
  reading its words adds (`MethodRead`, `FormRead`, `UrlRead` and others); they are put
  together in the order in which the command has them (`FirstRead`, `MoreRead`,
  `LastRead`). The hypotheses are that `X_T` is no header, as in `Expressible`, and that
  there is one kind of body, which `RequestType` proves of every request the fields make.
- `GeneratedCommandsAreTheirRequests`: `GeneratedCommandIsTheRequest`, from the former and
  from `MeantIsSent`: what the command means leaves as the request itself does.
- `ImportsAreSentAsTheySay`: `ImportIsSent`. The fields show headers as lines, so it
  takes that lines that `headerLines` writes are read back as the same headers
  (`TidyAll`, `TidyMeans`: along the values of a name and along the names), on Windows
  `WindowsHolds`, and on macOS that the one text for the body is what the data make
  (`PlainData`).
- `WorkspaceKeepsItsRequests`: the inductive invariant of the last two, `FieldsInv`. The
  boxes hold texts, `imported` is a member of `Imported`, and while nothing was edited
  since an import, the fields hold of its request what they can (`FieldsHold`). Without
  the second part an edit that ticks the box for the body could send data and a form at
  once; without the third nothing ties what is sent to what was imported.

The texts of the proofs are sequences over `Atoms`, all strings and the atoms that the
modules write out. The proof of `ImportIsSent` found an exception that no run had shown:
a blank `-X` stands for POST in a command with data, while `httpWorkspaceFields.spec`
makes a GET of it. `WindowsHolds` excludes it and a command of the run has it.

## 10. Observed with runs that are not kept

These were found while the modules were written, with runs that the project does not
keep: the properties below are violated by the code, or hold only under the premise
named in sections 4 to 9.

| What | Where | Says otherwise |
|---|---|---|
| `WindowsEarlyClose`: the Windows window ignores a close that comes between the end of Connect and its posted outcome, and stays "connected" over an engine that is not. macOS remembers it. | `apps/windows/main.go:867` | the README: when the other side closes, the window follows |
| `BridgeReconnect`: a serial server in the TCP client role does not dial again; Connect arms the loop for the TCP client mode only. | `core/engine.go:605` | the manual |
| `LateRecord`: records of what was sent, replies sent by a bridge and HTTP responses take the epoch when they are written. A reader of a bridge that writes a reply, is overtaken by Disconnect and Connect and then records, puts the record into the new session. | `core/engine.go:219`, `:1000`, `:1199` | `docs/superpowers/plans/2026-10-15-desktop-stability.md:17` |
| An old session's reader puts its UDP peer into the new session's `udpPeers`: `udpPeerFor` is called after the unlock. | `core/connections.go` | the comment at `connections.go:199` |
| Traffic counted between Connect's snapshot of the counters and the end of an old reader counts for the new session. | `core/engine.go`, Connect | - |
| `StaleRowId`: an INSERT that fails while a rotation makes the rows of the background sessions again leaves those not reached under the row id of the old file; their data hangs on no session or another's. The main session is safe (`MainDataKeepsItsSession`). | `core/storage.go:221` | the comment at `storage.go:42` |
| Undisturbed roll back: a process started from the program just swapped in makes `Remove` and `Rename` of the roll back fail, their errors are ignored, and the installation stays mixed. `AllOrNothing` therefore has `~disturbed`. | `core/update_install.go:117` | the comment at `update_install.go:73` |
| Roll back against another program (a virus scanner, an open viewer) that holds a file while it is put back: the same errors are ignored, the file stays new or is gone, the installation is mixed and reported as failed. The old content stays at `X.old`, which `updateOldList` does not name, until the next installation takes its place. `AllOrNothing` therefore has `held`. | `core/update_install.go:117` | the comment at `update_install.go:73` |
| `LostPort`: a serial server whose port is lost keeps its clients and its mode. `Send` then broadcasts, one row per client, and `storeSent` adds a row "SERIAL TX" for bytes that no serial port carried. | `core/engine.go:753`, `:191`, `:977` | the comment at `engine.go:186` |
| A UDP socket whose reader ends by an error within its session is taken out of the engine and closed by nobody but its finalizer. | `core/engine.go:938` | - |
| A file of the user's own with the name `X.old` is deleted. | `core/update_install.go:134` | - |
| Android: a send to a peer that does not read holds `operationLock`, and disconnect waits for it as long as the peer likes. | `SessionController.kt` | `docs/superpowers/specs/2026-10-15-stability-android-design.md:26` |
| Android: a BLE opening that times out leaves "Connecting" on show until the next call: `withTimeout` throws a `CancellationException`, which connect rethrows without setting `Failed`. `QuietStateIsTrue` therefore has `TimedOut`. | `BleConnection.kt:155`, `SessionController.kt:90` | - |
| Android: the socket of a UDP connection whose bind or lookup fails, and that of a server that cannot bind, is closed by nobody. | `NetworkConnections.kt:143` | - |
| Android: connect to a USB device waits without a limit for the answer to the permission question and holds `operationLock`; disconnect waits as well. | `UsbConnection.kt:35`, `:90` | - |
| Android: a socket that the reader dials or accepts while `close()` runs is not closed by it; a server's reader then waits on it, and `close()` for the reader. | `NetworkConnections.kt:98` | - |
| `MacLoopButton`: `finishLoop` clears `loopCancel` before `UILoopDone` reaches the main thread; a click in between starts a new loop, and the report then resets its button while it runs. A disconnect looks at the title and does not stop it. | `apps/macos/main.go:583`, `app.m:3208` | the comment at `main.go:581` |
| `LateReport`: the closure of a local analysis sets the context while a question is in progress; the answer then replaces the turns, and the new report is never sent with a question. | `apps/windows/analysis_ui.go:217` | the comment at `ai_chat.go:245` |
| `FormatCURL` writes a typed body as `--data-binary`: one that begins with `@` becomes the name of a file, and a body without a type gets that of a form. | `core/curl.go` | - |
| A header of several lines (`$'X: v\nY: w'`) is refused when its command is run, but imported on Windows it is written into the field as lines, read back as several headers and sent. `ImportIsSent` therefore has `OneLine`. | `apps/windows/http_workspace_helpers.go:37` | - |
| A command with `-m` or `--connect-timeout` of more than 86400 seconds is imported, but the Windows window refuses to send it though the command itself would be sent. | `apps/windows/http_workspace_helpers.go:53` | - |
| The Windows window drops the blanks around the URL, so it sends a command whose quoted URL has them and which is refused by itself. | `apps/windows/http_workspace_helpers.go:27` | - |
| Between double quotes `splitCurlCommand` drops every backslash, also before a character where a shell keeps it (`"a\b"`). `Escapes` therefore leaves these texts out. | `core/curl.go:315` | - |
| The workspace accepts header names with `_`, which `ParseCURL` refuses, so the generated command cannot be imported again. | `core/curl.go`, `http_workspace_helpers.go` | - |
| The macOS window drops authentication, cookies, the user agent, kinds of data and forms of an import without a word, and keeps the former method for one that is not in its menu. | `apps/macos/main.go` | - |

## 11. Not modelled

- **VirtualCOM and serial port access** (`serial_port_windows.go`): the order of
  overlapped reads, writes and `CancelIoEx` is that of the Win32 API, and the repository
  has nothing to check a model of it against.
- **Favorites, history and secrets**: lists under one lock, written in whole, and calls
  of the system's key store. Sequential code within the reach of unit tests.
- **Analysis, toolbox, database reports**: pure functions on bytes (checksums, Modbus,
  statistics) and read-only SQL. Their correctness is that of formulas and formats.
- **Linux command line**: one session per process on the same engine, which is
  `EngineSession` without a window.
- **Harmony app**: a third implementation of network sessions, on one event loop, with
  the generation guard of the Android app; it has fewer interleavings than
  `MobileSession`, and nothing in the repository that runs it.
- **macOS AI chat**: its state is in Objective-C objects with the same fields as
  `AiChat`.
- Of the modelled components: the bytes of the traffic and the counters, formatting and
  layout, preferences, the packet table, `Engine.Close` at shutdown and
  `SetMaxConnections` at run time, scanning for devices, the end of the Android app's
  activity and view model (`MainActivity.kt:182`), and the storage of the apps.
