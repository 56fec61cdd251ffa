------------------------ MODULE EngineSessionProofs ------------------------
(***************************************************************************)
(* Theorems about EngineSession, for every set of handles and               *)
(* configurations and every bound.                                          *)
(*                                                                         *)
(* The inductive invariant IInv is the conjunction of TypeOK and five named *)
(* parts, each kept by every step once the parts before it are known:       *)
(*    WindowInv   who runs Connect and Disconnect, and what is queued       *)
(*    Room        epoch stays below its bound                               *)
(*    Past        nothing carries the number of a session to come           *)
(*    SessionInv  the key and the row of the store follow the epoch         *)
(*    HandleInv   the fields of the engine, the call and the readers        *)
(*                account for every open handle                             *)
(* LinkInv, kept by every step once IInv is known, is about the one         *)
(* connection of a client; LoopInv, kept once both are known, about the     *)
(* stop channel of its reconnect loop.                                      *)
(***************************************************************************)
EXTENDS EngineSession, TLAPS

Disconnecting == {"swap", "lock", "record", "end", "close"}

\* There is at most one outcome of a Connect in the queue, while the window
\* waits for it and nothing runs.
WindowInv ==
    /\ call.op = "none" <=> call.at = "none"
    /\ call.op = "connect" => ui = "connecting"
    /\ call.op \in {"user", "closed"} => call.at \in Disconnecting /\ ui = "connected"
    /\ \A m \in 1..Len(queue) : queue[m] # "closed" => ui = "connecting" /\ call.op = "none"
    /\ \A m, n \in 1..Len(queue) : queue[m] # "closed" /\ queue[n] # "closed" => m = n

\* Whoever is to bump epoch finds room for it.
Room ==
    /\ call.op = "connect" /\ call.at \in {"swap", "lock"} => epoch + 2 <= MaxEpoch
    /\ call.op \in {"user", "closed"} /\ call.at \in {"swap", "lock"} => epoch + 1 <= MaxEpoch
    /\ call.op \in {"none", "connect"} /\ ui # "idle" => epoch + 1 <= MaxEpoch

Past ==
    /\ \A i \in Handles : born[i] <= epoch
    /\ \A e \in Epochs : rc[e] # "none" => e <= epoch

\* The store captures for the current session.
SessionLive ==
    /\ captureKey = epoch
    /\ sessionID = epoch \/ (InsertMayFail /\ sessionID = 0)

\* Places in which a handle of the current session may be, or may yet get, a
\* reader that records an event.
Living == {"dialed", "accepted", "read", "admit", "cleanup", "record", "mark",
           "notify", "reconnect"}

SessionInv ==
    /\ captureKey <= epoch
    /\ sessionID # 0 => sessionID = captureKey
    /\ call.at \in {"record", "end", "close", "rekey"} => captureKey < epoch
    /\ call.at \in {"close", "rekey", "fail", "connectErr"} => sessionID = 0
    /\ Preparing => captureKey = epoch /\ epoch > 0 /\ sessionID = 0
    /\ call.at \in {"connected", "spawn"} => SessionLive
    /\ \A i \in Handles : born[i] = epoch /\ pc[i] \in Living => SessionLive
    /\ rc[epoch] # "none" => SessionLive
    /\ RowsStayInSession

\* From the critical section of Disconnect to that of Connect the engine holds
\* no handle; Disconnect has taken them.
HandleInv ==
    /\ call.taken # {} => call.at \in {"record", "end", "close"}
    /\ call.at \in {"record", "end", "close", "rekey", "connecting", "serial", "net", "install"}
         => owned = {} /\ reconnectStop = 0
    /\ \A i \in Handles : pc[i] = "opening" => call.at \in {"net", "install"} /\ born[i] = epoch
    /\ \A i \in owned : born[i] = epoch \/ pc[i] \in {"idle", "orphan"}
    /\ \A i \in Handles : pc[i] = "record" /\ kind[i] \in {"udp", "serial"}
                            => then[i] \in {"mark", "notify"}
    /\ NoHandleLeaks

IInv == TypeOK /\ WindowInv /\ Room /\ Past /\ SessionInv /\ HandleInv

-----------------------------------------------------------------------------
(* What the operators of EngineSession do to the types                       *)

\* The record that stands for no call is one of the calls.
LEMMA NoCallType == NoCall \in Call
<1>1. NoConfig \in Config BY DEF NoConfig, Config
<1>2. 0 \in Epochs BY BoundsAssumption DEF Epochs
<1> QED BY <1>1, <1>2 DEF NoCall, Call, Steps, States

\* So is a call that the window has just started.
LEMMA NewCallType ==
  ASSUME NEW o \in {"user", "closed", "connect"}, NEW c \in Config
  PROVE /\ [NoCall EXCEPT !.op = o, !.at = "swap"] \in Call
        /\ [NoCall EXCEPT !.op = o, !.at = "swap", !.cfg = c] \in Call
  BY NoCallType DEF Call, Steps

\* Store.Record writes rows.
LEMMA RecordType ==
  ASSUME StoreTypes, NEW key \in Epochs, NEW what \in {"local", "passive"}, Record(key, what)
  PROVE rows' \subseteq Row
  BY DEF StoreTypes, Record, Row

\* Return, GoTo, RecordThen and Open keep the types of the handles.
LEMMA ReturnType ==
  ASSUME HandleTypes, NEW i \in Handles, NEW step \in Places, Return(i, step), open' \subseteq Handles
  PROVE HandleTypes'
<1>1. 0 \in Epochs BY BoundsAssumption DEF Epochs
<1> QED BY <1>1 DEF HandleTypes, Return, Kinds

LEMMA GoToType ==
  ASSUME HandleTypes, NEW i \in Handles, NEW step \in Places, GoTo(i, step), open' \subseteq Handles
  PROVE HandleTypes'
  BY DEF HandleTypes, GoTo

LEMMA RecordThenType ==
  ASSUME HandleTypes, NEW i \in Handles, NEW step \in {"idle", "mark", "notify", "reconnect"},
         RecordThen(i, step), open' \subseteq Handles
  PROVE HandleTypes'
  BY DEF HandleTypes, RecordThen, Places

LEMMA OpenType ==
  ASSUME HandleTypes, NEW i \in Handles, NEW k \in Kinds, NEW e \in Epochs, NEW at \in Places, Open(i, k, e, at)
  PROVE HandleTypes'
  BY DEF HandleTypes, Open

-----------------------------------------------------------------------------
(* What the steps of readers and of the reconnect loop leave alone           *)

LEMMA ReaderFrame ==
  ASSUME NEW i \in Handles,
         \/ ReaderStep(i) \/ PeerFails(i) \/ Accept(i) \/ Finalize(i) \/ UserDropsClient(i)
         \/ \E j \in Handles : Admit(i, j)
  PROVE  UNCHANGED <<epoch, reconnectStop, captureKey, sessionID, call, ui>>
<1>1. CASE PeerFails(i) \/ SeesClosed(i)
  BY <1>1 DEF PeerFails, SeesClosed, engine, store, window
<1>2. CASE CleanupTCP(i) \/ CleanupListener(i)
  BY <1>2 DEF CleanupTCP, CleanupListener, engine, store, window
<1>3. CASE CleanupUDP(i) \/ CleanupSerial(i)
  BY <1>3 DEF CleanupUDP, CleanupSerial, store, window
<1>4. CASE RecordEventAt(i) \/ MarkPassiveClosed(i) \/ NotifyClosed(i) \/ BeginReconnect(i)
  BY <1>4 DEF RecordEventAt, MarkPassiveClosed, NotifyClosed, BeginReconnect, engine, store, window
<1>5. CASE Accept(i) \/ Finalize(i) \/ UserDropsClient(i)
  BY <1>5 DEF Accept, Finalize, UserDropsClient, engine, store, window
<1>6. ASSUME NEW j \in Handles, Admit(i, j)
      PROVE  UNCHANGED <<epoch, reconnectStop, captureKey, sessionID, call, ui>>
  BY <1>6 DEF Admit, store, window
<1> QED BY <1>1, <1>2, <1>3, <1>4, <1>5, <1>6 DEF ReaderStep

\* Their only message to the window is that the session was closed.
LEMMA ReaderQueue ==
  ASSUME NEW i \in Handles,
         \/ ReaderStep(i) \/ PeerFails(i) \/ Accept(i) \/ Finalize(i) \/ UserDropsClient(i)
         \/ \E j \in Handles : Admit(i, j)
  PROVE  queue' = queue \/ queue' = Append(queue, "closed")
<1>1. CASE PeerFails(i) \/ SeesClosed(i)
  BY <1>1 DEF PeerFails, SeesClosed, window
<1>2. CASE CleanupTCP(i) \/ CleanupListener(i)
  BY <1>2 DEF CleanupTCP, CleanupListener, window
<1>3. CASE CleanupUDP(i) \/ CleanupSerial(i)
  BY <1>3 DEF CleanupUDP, CleanupSerial, window
<1>4. CASE RecordEventAt(i) \/ MarkPassiveClosed(i) \/ NotifyClosed(i) \/ BeginReconnect(i)
  BY <1>4 DEF RecordEventAt, MarkPassiveClosed, NotifyClosed, BeginReconnect, window
<1>5. CASE Accept(i) \/ Finalize(i) \/ UserDropsClient(i)
  BY <1>5 DEF Accept, Finalize, UserDropsClient, window
<1>6. ASSUME NEW j \in Handles, Admit(i, j)
      PROVE  queue' = queue
  BY <1>6 DEF Admit, window
<1> QED BY <1>1, <1>2, <1>3, <1>4, <1>5, <1>6 DEF ReaderStep

\* The reconnect loop talks to nobody.
LEMMA ReconnectFrame ==
  ASSUME NEW e \in Epochs, ReconnectStep(e) \/ RedialFails(e) \/ RedialSucceeds(e)
  PROVE  UNCHANGED <<epoch, reconnectStop, captureKey, sessionID, rows, call, ui, queue>>
<1>1. ASSUME NEW i \in Handles, Reinstall(e, i)
      PROVE  UNCHANGED <<epoch, reconnectStop, captureKey, sessionID, rows, call, ui, queue>>
  BY <1>1 DEF Reinstall, store, window
<1> QED BY <1>1 DEF ReconnectStep, ReconnectStart, ReconnectCancelled, ReconnectTimer,
                    RedialFails, RedialSucceeds, engine, store, window

\* Only RecordEventAt writes a row, only BeginReconnect starts a loop.
LEMMA ReaderRows ==
  ASSUME NEW i \in Handles,
         \/ ReaderStep(i) \/ PeerFails(i) \/ Accept(i) \/ Finalize(i) \/ UserDropsClient(i)
         \/ \E j \in Handles : Admit(i, j)
  PROVE  RecordEventAt(i) \/ UNCHANGED rows
<1>1. ASSUME NEW j \in Handles, Admit(i, j) PROVE UNCHANGED rows
  BY <1>1 DEF Admit, store
<1> QED BY <1>1 DEF ReaderStep, SeesClosed, CleanupTCP, CleanupListener, CleanupUDP, CleanupSerial,
           MarkPassiveClosed, NotifyClosed, BeginReconnect, PeerFails, Accept, Finalize, UserDropsClient, store

LEMMA ReaderRC ==
  ASSUME NEW i \in Handles,
         \/ ReaderStep(i) \/ PeerFails(i) \/ Accept(i) \/ Finalize(i) \/ UserDropsClient(i)
         \/ \E j \in Handles : Admit(i, j)
  PROVE  BeginReconnect(i) \/ UNCHANGED rc
<1>1. ASSUME NEW j \in Handles, Admit(i, j) PROVE UNCHANGED rc
  BY <1>1 DEF Admit
<1> QED BY <1>1 DEF ReaderStep, SeesClosed, CleanupTCP, CleanupListener, CleanupUDP, CleanupSerial,
           RecordEventAt, MarkPassiveClosed, NotifyClosed, PeerFails, Accept, Finalize, UserDropsClient

\* A reader of the current session comes from one that was there before.
LEMMA LivingFrame ==
  ASSUME TypeOK, NEW i \in Handles,
         \/ ReaderStep(i) \/ PeerFails(i) \/ Accept(i) \/ Finalize(i) \/ UserDropsClient(i)
         \/ \E j \in Handles : Admit(i, j),
         NEW k \in Handles, pc'[k] \in Living, born'[k] = epoch
  PROVE  \E m \in Handles : pc[m] \in Living /\ born[m] = epoch
<1>0. pc \in [Handles -> Places] /\ born \in [Handles -> Epochs]
  BY DEF TypeOK, HandleTypes
<1>1. ASSUME NEW step \in {"idle", "orphan"}, Return(i, step) PROVE pc[k] \in Living /\ born[k] = epoch
  BY <1>0, <1>1 DEF Return, Living
<1>2. ASSUME NEW step, GoTo(i, step), pc[i] \in Living \/ step \notin Living
      PROVE  pc[k] \in Living /\ born[k] = epoch
  BY <1>0, <1>2 DEF GoTo
<1>3. ASSUME NEW step, RecordThen(i, step), pc[i] \in Living PROVE pc[k] \in Living /\ born[k] = epoch
  BY <1>0, <1>3 DEF RecordThen
<1>4. CASE PeerFails(i) \/ SeesClosed(i) \/ Finalize(i) \/ MarkPassiveClosed(i)
  BY <1>2, <1>4 DEF PeerFails, SeesClosed, Finalize, MarkPassiveClosed, Living
<1>5. CASE CleanupTCP(i) \/ CleanupListener(i) \/ CleanupUDP(i) \/ CleanupSerial(i)
  BY <1>1, <1>3, <1>5 DEF CleanupTCP, CleanupListener, CleanupUDP, CleanupSerial, Living
<1>6. CASE RecordEventAt(i)
  BY <1>1, <1>2, <1>6 DEF RecordEventAt, Living
<1>7. CASE NotifyClosed(i) \/ BeginReconnect(i)
  BY <1>1, <1>7 DEF NotifyClosed, BeginReconnect
<1>8. CASE Accept(i)
  <2>1. PICK j \in Handles : /\ pc' = [pc EXCEPT ![i] = "admit", ![j] = "accepted"]
                             /\ born' = [born EXCEPT ![j] = born[i]] /\ pc[i] = "read"
    BY <1>8 DEF Accept
  <2>2. CASE k = j \/ k = i
    BY <1>0, <2>1, <2>2 DEF Living
  <2>3. CASE k # j /\ k # i
    BY <1>0, <2>1, <2>3
  <2> QED BY <2>2, <2>3
<1>9. ASSUME NEW j \in Handles, Admit(i, j) PROVE pc[k] \in Living /\ born[k] = epoch
  BY <1>0, <1>9 DEF Admit, Living
<1>10. CASE UserDropsClient(i)
  BY <1>10 DEF UserDropsClient
<1> QED BY <1>4, <1>5, <1>6, <1>7, <1>8, <1>9, <1>10 DEF ReaderStep

\* A row is written for the open session or not at all.
LEMMA RecordStays ==
  ASSUME NEW key, NEW what, Record(key, what), sessionID # 0 => sessionID = captureKey,
         RowsStayInSession
  PROVE  RowsStayInSession'
  BY DEF Record, RowsStayInSession

-----------------------------------------------------------------------------
(* Every step keeps the parts of IInv                                        *)

\* TypeOK, one step per action; Room bounds the epoch of TakeResources.
LEMMA TypeOKKept == ASSUME TypeOK, WindowInv, Room, Next PROVE TypeOK'
<1>1. CASE SwapState
  <2>1. call' \in Call
    BY <1>1 DEF SwapState, States, TypeOK, EngineTypes, Call, Steps, At
  <2> QED BY <1>1, <2>1 DEF SwapState, States, TypeOK, EngineTypes, StoreTypes, HandleTypes, WindowTypes, engine, store, handles, window
<1>2. CASE TakeResources
  <2>1. call' \in Call
    BY <1>2 DEF TakeResources, TypeOK, EngineTypes, HandleTypes, Call, Steps
  <2>2. epoch' \in Epochs /\ 0 \in Epochs
    <3>1. call.op \in {"user", "closed", "connect"}
      BY <1>2 DEF TakeResources, At, TypeOK, Call, WindowInv
    <3> QED BY <1>2, <3>1, BoundsAssumption DEF TakeResources, At, Room, Epochs, TypeOK, EngineTypes
  <2> QED BY <1>2, <2>1, <2>2 DEF TakeResources, TypeOK, EngineTypes, StoreTypes, HandleTypes, WindowTypes, engine, store, handles, window
<1>3. CASE RecordLocalDisconnect
  <2>1. call' \in Call
    <3>1. 0 \in Epochs BY BoundsAssumption DEF Epochs
    <3> QED BY <1>3, <3>1 DEF RecordLocalDisconnect, TypeOK, Call, Steps
  <2>2. rows' \subseteq Row
    BY <1>3, RecordType DEF RecordLocalDisconnect, TypeOK, EngineTypes, StoreTypes
  <2> QED BY <1>3, <2>1, <2>2 DEF RecordLocalDisconnect, TypeOK, EngineTypes, StoreTypes, HandleTypes, WindowTypes, engine, store, handles, window
<1>4. CASE EndSession
  <2>1. call' \in Call
    BY <1>4 DEF EndSession, Proceed, TypeOK, Call, Steps
  <2>2. 0 \in Epochs
    BY BoundsAssumption DEF Epochs
  <2> QED BY <1>4, <2>1, <2>2 DEF EndSession, TypeOK, EngineTypes, StoreTypes, HandleTypes, WindowTypes, engine, store, handles, window
<1>5. CASE CloseTaken
  <2>1. call' \in Call
    BY <1>5, NoCallType DEF CloseTaken, TypeOK, Call, Steps
  <2>2. ui' \in {"idle", "connecting", "connected"}
    BY <1>5 DEF CloseTaken, TypeOK, WindowTypes
  <2>3. open' \subseteq Handles
    BY <1>5 DEF CloseTaken, TypeOK, HandleTypes
  <2> QED BY <1>5, <2>1, <2>2, <2>3 DEF CloseTaken, TypeOK, EngineTypes, StoreTypes, HandleTypes, WindowTypes, engine, store, handles, window
<1>6. CASE SetCaptureKey
  <2>1. call' \in Call
    BY <1>6 DEF SetCaptureKey, Proceed, TypeOK, EngineTypes, Call, Steps, At
  <2> QED BY <1>6, <2>1 DEF SetCaptureKey, TypeOK, EngineTypes, StoreTypes, HandleTypes, WindowTypes, engine, store, handles, window
<1>7. CASE MarkConnecting
  <2>1. call' \in Call
    BY <1>7 DEF MarkConnecting, Proceed, TypeOK, EngineTypes, Call, Steps, At
  <2> QED BY <1>7, <2>1 DEF MarkConnecting, States, TypeOK, EngineTypes, StoreTypes, HandleTypes, WindowTypes, engine, store, handles, window
<1>8. CASE OpenSerial
  <2>1. call' \in Call
    BY <1>8 DEF OpenSerial, Proceed, TypeOK, Call, Steps
  <2>2. HandleTypes'
    <3>1. CASE UNCHANGED handles
      BY <3>1 DEF handles, HandleTypes, TypeOK
    <3>2. ASSUME NEW i \in Handles, Open(i, "serial", epoch, "opening"), "serial" \in Kinds
          PROVE  HandleTypes'
      BY <3>2, OpenType DEF TypeOK, EngineTypes, Places
    <3>3. "serial" \in Kinds \/ call.cfg.net = "none"
      BY DEF TypeOK, Call, Config, Kinds
    <3> QED BY <1>8, <3>1, <3>2, <3>3 DEF OpenSerial, Kinds
  <2> QED BY <1>8, <2>1, <2>2 DEF OpenSerial, TypeOK, EngineTypes, StoreTypes, WindowTypes, engine, store, window
<1>9. CASE OpenNet
  <2>1. call' \in Call
    BY <1>9 DEF OpenNet, Proceed, TypeOK, Call, Steps
  <2>2. HandleTypes'
    <3>1. CASE UNCHANGED handles
      BY <3>1 DEF handles, HandleTypes, TypeOK
    <3>2. ASSUME NEW i \in Handles, Open(i, call.cfg.net, epoch, "opening"), call.cfg.net \in Kinds
          PROVE  HandleTypes'
      BY <3>2, OpenType DEF TypeOK, EngineTypes, Places
    <3>3. call.cfg.net \in Kinds \/ call.cfg.net = "none"
      BY DEF TypeOK, Call, Config, Kinds
    <3> QED BY <1>9, <3>1, <3>2, <3>3 DEF OpenNet
  <2> QED BY <1>9, <2>1, <2>2 DEF OpenNet, TypeOK, EngineTypes, StoreTypes, WindowTypes, engine, store, window
<1>10. CASE OpenNetFails
  <2>1. call' \in Call
    BY <1>10 DEF OpenNetFails, DropOpening, Proceed, TypeOK, Call, Steps
  <2>2. HandleTypes'
    <3>1. 0 \in Epochs BY BoundsAssumption DEF Epochs
    <3> QED BY <1>10, <3>1 DEF OpenNetFails, DropOpening, TypeOK, HandleTypes, Places, Kinds
  <2> QED BY <1>10, <2>1, <2>2 DEF OpenNetFails, DropOpening, TypeOK, EngineTypes, StoreTypes, WindowTypes, engine, store, window
<1>11. CASE Install
  <2>1. call' \in Call
    BY <1>11 DEF Install, Proceed, TypeOK, Call, Steps
  <2>2. HandleTypes'
    BY <1>11 DEF Install, TypeOK, HandleTypes, Places
  <2>3. EngineTypes'
    <3>1. 0 \in Epochs BY BoundsAssumption DEF Epochs
    <3>2. call.cfg \in Config BY DEF TypeOK, Call
    <3> QED BY <1>11, <3>1, <3>2 DEF Install, TypeOK, EngineTypes, Opening
  <2> QED BY <1>11, <2>1, <2>2, <2>3 DEF Install, TypeOK, StoreTypes, WindowTypes, store, window
<1>12. CASE StartSession
  <2>1. call' \in Call
    BY <1>12 DEF StartSession, Proceed, TypeOK, Call, Steps
  <2>2. 0 \in Epochs
    BY BoundsAssumption DEF Epochs
  <2> QED BY <1>12, <2>1, <2>2 DEF StartSession, TypeOK, EngineTypes, StoreTypes, HandleTypes, WindowTypes, engine, store, handles, window
<1>13. CASE MarkConnected
  <2>1. call' \in Call
    BY <1>13 DEF MarkConnected, Proceed, TypeOK, EngineTypes, Call, Steps, At
  <2> QED BY <1>13, <2>1 DEF MarkConnected, States, TypeOK, EngineTypes, StoreTypes, HandleTypes, WindowTypes, engine, store, handles, window
<1>14. CASE SpawnReaders
  <2>1. call' \in Call
    BY <1>14 DEF SpawnReaders, Proceed, TypeOK, EngineTypes, Call, Steps, At
  <2> QED BY <1>14, <2>1 DEF SpawnReaders, Places, TypeOK, EngineTypes, StoreTypes, HandleTypes, WindowTypes, engine, store, handles, window
<1>15. CASE MarkError
  <2>1. call' \in Call
    BY <1>15 DEF MarkError, Proceed, TypeOK, EngineTypes, Call, Steps, At
  <2> QED BY <1>15, <2>1 DEF MarkError, States, TypeOK, EngineTypes, StoreTypes, HandleTypes, WindowTypes, engine, store, handles, window
<1>16. CASE ReportConnect
  <2>1. call' \in Call
    BY <1>16, NoCallType DEF ReportConnect
  <2>2. queue' \in Seq({"closed", "connectOk", "connectErr"})
    BY <1>16 DEF ReportConnect, TypeOK, WindowTypes
  <2> QED BY <1>16, <2>1, <2>2 DEF ReportConnect, TypeOK, EngineTypes, StoreTypes, HandleTypes, WindowTypes, engine, store, handles, window
<1>17. CASE HandleClosed
  <2>1. call' \in Call
    <3>1. NoConfig \in Config BY DEF NoConfig, Config
    <3> QED BY <1>17, <3>1, NewCallType DEF HandleClosed, React, TypeOK
  <2>2. WindowTypes'
    BY <1>17 DEF HandleClosed, TypeOK, WindowTypes
  <2> QED BY <1>17, <2>1, <2>2 DEF HandleClosed, TypeOK, EngineTypes, StoreTypes, HandleTypes, engine, store, handles, window
<1>18. CASE HandleConnectOk
  <2>1. call' \in Call
    <3>1. NoConfig \in Config BY DEF NoConfig, Config
    <3> QED BY <1>18, <3>1, NewCallType DEF HandleConnectOk, React, TypeOK
  <2>2. queue' \in Seq({"closed", "connectOk", "connectErr"})
    BY <1>18 DEF HandleConnectOk, TypeOK, WindowTypes
  <2> QED BY <1>18, <2>1, <2>2 DEF HandleConnectOk, TypeOK, EngineTypes, StoreTypes, HandleTypes, WindowTypes, engine, store, handles, window
<1>19. CASE HandleConnectErr
  BY <1>19 DEF HandleConnectErr, TypeOK, EngineTypes, StoreTypes, HandleTypes, WindowTypes, engine, store, handles, window
<1>20. CASE UserConnects
  <2>1. call' \in Call
    BY <1>20, NewCallType, ConfigsAssumption DEF UserConnects
  <2> QED BY <1>20, <2>1 DEF UserConnects, TypeOK, EngineTypes, StoreTypes, HandleTypes, WindowTypes, engine, store, handles, window
<1>21. CASE UserDisconnects
  <2>1. call' \in Call
    <3>1. NoConfig \in Config BY DEF NoConfig, Config
    <3> QED BY <1>21, <3>1, NewCallType DEF UserDisconnects
  <2> QED BY <1>21, <2>1 DEF UserDisconnects, TypeOK, EngineTypes, StoreTypes, HandleTypes, WindowTypes, engine, store, handles, window
<1>22. ASSUME NEW i \in Handles, SeesClosed(i) PROVE TypeOK'
  <2>1. HandleTypes'
    BY <1>22, GoToType DEF SeesClosed, TypeOK, HandleTypes, Places
  <2> QED BY <1>22, <2>1 DEF SeesClosed, TypeOK, EngineTypes, StoreTypes, WindowTypes, engine, store, window
<1>23. ASSUME NEW i \in Handles, CleanupTCP(i) PROVE TypeOK'
  <2>1. open' \subseteq Handles /\ owned' \subseteq Handles
    BY <1>23 DEF CleanupTCP, TypeOK, HandleTypes, EngineTypes
  <2>2. HandleTypes'
    <3>1. CASE Return(i, "idle")
      BY <2>1, <3>1, ReturnType DEF TypeOK, Places
    <3>2. ASSUME NEW s \in {"idle", "mark", "notify", "reconnect"}, RecordThen(i, s)
          PROVE  HandleTypes'
      BY <2>1, <3>2, RecordThenType DEF TypeOK
    <3> QED BY <1>23, <3>1, <3>2 DEF CleanupTCP
  <2> QED BY <1>23, <2>1, <2>2 DEF CleanupTCP, TypeOK, EngineTypes, StoreTypes, WindowTypes, engine, store, window
<1>24. ASSUME NEW i \in Handles, CleanupListener(i) PROVE TypeOK'
  <2>1. open' \subseteq Handles /\ owned' \subseteq Handles
    BY <1>24 DEF CleanupListener, TypeOK, HandleTypes, EngineTypes, engine
  <2>2. HandleTypes'
    <3>1. CASE Return(i, "idle")
      BY <2>1, <3>1, ReturnType DEF TypeOK, Places
    <3>2. CASE RecordThen(i, "mark")
      BY <2>1, <3>2, RecordThenType DEF TypeOK
    <3> QED BY <1>24, <3>1, <3>2 DEF CleanupListener
  <2> QED BY <1>24, <2>1, <2>2 DEF CleanupListener, TypeOK, EngineTypes, StoreTypes, WindowTypes, engine, store, window
<1>25. ASSUME NEW i \in Handles, CleanupUDP(i) PROVE TypeOK'
  <2>1. open' \subseteq Handles /\ owned' \subseteq Handles
    BY <1>25 DEF CleanupUDP, TypeOK, HandleTypes, EngineTypes, engine
  <2>2. HandleTypes'
    <3>1. CASE Return(i, "idle")
      BY <2>1, <3>1, ReturnType DEF TypeOK, Places
    <3>2. CASE RecordThen(i, "mark")
      BY <2>1, <3>2, RecordThenType DEF TypeOK
    <3> QED BY <1>25, <3>1, <3>2 DEF CleanupUDP
  <2> QED BY <1>25, <2>1, <2>2 DEF CleanupUDP, TypeOK, EngineTypes, StoreTypes, WindowTypes, engine, store, window
<1>26. ASSUME NEW i \in Handles, CleanupSerial(i) PROVE TypeOK'
  <2>1. open' \subseteq Handles /\ owned' \subseteq Handles
    BY <1>26 DEF CleanupSerial, TypeOK, HandleTypes, EngineTypes, engine
  <2>2. HandleTypes'
    <3>1. CASE Return(i, "idle")
      BY <2>1, <3>1, ReturnType DEF TypeOK, Places
    <3>2. CASE RecordThen(i, "notify")
      BY <2>1, <3>2, RecordThenType DEF TypeOK
    <3> QED BY <1>26, <3>1, <3>2 DEF CleanupSerial
  <2> QED BY <1>26, <2>1, <2>2 DEF CleanupSerial, TypeOK, EngineTypes, StoreTypes, WindowTypes, engine, store, window, States
<1>27. ASSUME NEW i \in Handles, RecordEventAt(i) PROVE TypeOK'
  <2>1. rows' \subseteq Row
    BY <1>27, RecordType DEF RecordEventAt, TypeOK, StoreTypes, HandleTypes
  <2>2. HandleTypes'
    BY <1>27, ReturnType, GoToType DEF RecordEventAt, TypeOK, HandleTypes, Places
  <2> QED BY <1>27, <2>1, <2>2 DEF RecordEventAt, TypeOK, EngineTypes, StoreTypes, WindowTypes, engine, store, window
<1>28. ASSUME NEW i \in Handles, MarkPassiveClosed(i) PROVE TypeOK'
  <2>1. HandleTypes'
    BY <1>28, GoToType DEF MarkPassiveClosed, TypeOK, HandleTypes, Places
  <2> QED BY <1>28, <2>1 DEF MarkPassiveClosed, TypeOK, States, EngineTypes, StoreTypes, WindowTypes, engine, store, window
<1>29. ASSUME NEW i \in Handles, NotifyClosed(i) PROVE TypeOK'
  <2>1. HandleTypes'
    BY <1>29, ReturnType DEF NotifyClosed, TypeOK, HandleTypes, Places
  <2>2. WindowTypes'
    BY <1>29 DEF NotifyClosed, TypeOK, WindowTypes
  <2> QED BY <1>29, <2>1, <2>2 DEF NotifyClosed, TypeOK, EngineTypes, StoreTypes, engine, store
<1>30. ASSUME NEW i \in Handles, BeginReconnect(i) PROVE TypeOK'
  <2>1. HandleTypes'
    BY <1>30, ReturnType DEF BeginReconnect, TypeOK, HandleTypes, Places
  <2>2. born[i] \in Epochs
    BY DEF TypeOK, HandleTypes
  <2> QED BY <1>30, <2>1, <2>2 DEF BeginReconnect, TypeOK, States, EngineTypes, StoreTypes, WindowTypes, engine, store, window
<1>31. ASSUME NEW i \in Handles, PeerFails(i) PROVE TypeOK'
  <2>1. HandleTypes'
    BY <1>31, GoToType DEF PeerFails, TypeOK, HandleTypes, Places
  <2> QED BY <1>31, <2>1 DEF PeerFails, TypeOK, EngineTypes, StoreTypes, WindowTypes, engine, store, window
<1>32. ASSUME NEW i \in Handles, Accept(i) PROVE TypeOK'
  <2>1. HandleTypes'
    BY <1>32 DEF Accept, TypeOK, HandleTypes, Places
  <2> QED BY <1>32, <2>1 DEF Accept, TypeOK, EngineTypes, StoreTypes, WindowTypes, engine, store, window
<1>33. ASSUME NEW i \in Handles, Finalize(i) PROVE TypeOK'
  <2>1. HandleTypes'
    BY <1>33, GoToType DEF Finalize, TypeOK, HandleTypes, Places
  <2> QED BY <1>33, <2>1 DEF Finalize, TypeOK, EngineTypes, StoreTypes, WindowTypes, engine, store, window
<1>34. ASSUME NEW i \in Handles, UserDropsClient(i) PROVE TypeOK'
  BY <1>34 DEF UserDropsClient, TypeOK, EngineTypes, StoreTypes, HandleTypes, WindowTypes, engine, store, handles, window
<1>35. ASSUME NEW i \in Handles, NEW j \in Handles, Admit(i, j) PROVE TypeOK'
  <2>1. 0 \in Epochs BY BoundsAssumption DEF Epochs
  <2>2. HandleTypes' /\ owned' \subseteq Handles
    BY <1>35, <2>1 DEF Admit, TypeOK, EngineTypes, HandleTypes, Places, Kinds
  <2> QED BY <1>35, <2>2 DEF Admit, TypeOK, EngineTypes, StoreTypes, WindowTypes, engine, store, window
<1>36. ASSUME NEW e \in Epochs, ReconnectStart(e) PROVE TypeOK'
  BY <1>36 DEF ReconnectStart, TypeOK, EngineTypes, StoreTypes, HandleTypes, WindowTypes, engine, store, handles, window
<1>37. ASSUME NEW e \in Epochs, ReconnectCancelled(e) PROVE TypeOK'
  BY <1>37 DEF ReconnectCancelled, TypeOK, EngineTypes, StoreTypes, HandleTypes, WindowTypes, engine, store, handles, window
<1>38. ASSUME NEW e \in Epochs, ReconnectTimer(e) PROVE TypeOK'
  BY <1>38 DEF ReconnectTimer, TypeOK, EngineTypes, StoreTypes, HandleTypes, WindowTypes, engine, store, handles, window
<1>39. ASSUME NEW e \in Epochs, RedialFails(e) PROVE TypeOK'
  BY <1>39 DEF RedialFails, TypeOK, EngineTypes, StoreTypes, HandleTypes, WindowTypes, engine, store, handles, window
<1>40. ASSUME NEW e \in Epochs, RedialSucceeds(e) PROVE TypeOK'
  <2>1. HandleTypes'
    BY <1>40, OpenType DEF RedialSucceeds, TypeOK, Places, Kinds
  <2> QED BY <1>40, <2>1 DEF RedialSucceeds, TypeOK, EngineTypes, StoreTypes, WindowTypes, engine, store, window
<1>41. ASSUME NEW e \in Epochs, NEW i \in Handles, Reinstall(e, i) PROVE TypeOK'
  <2>1. HandleTypes'
    BY <1>41, ReturnType, GoToType DEF Reinstall, TypeOK, HandleTypes, Places
  <2> QED BY <1>41, <2>1 DEF Reinstall, TypeOK, States, EngineTypes, StoreTypes, WindowTypes, engine, store, window
<1> QED
  BY <1>1, <1>2, <1>3, <1>4, <1>5, <1>6, <1>7, <1>8, <1>9, <1>10, <1>11,
     <1>12, <1>13, <1>14, <1>15, <1>16, <1>17, <1>18, <1>19, <1>20, <1>21,
     <1>22, <1>23, <1>24, <1>25, <1>26, <1>27, <1>28, <1>29, <1>30, <1>31,
     <1>32, <1>33, <1>34, <1>35, <1>36, <1>37, <1>38, <1>39, <1>40, <1>41 DEF
     Next, DisconnectStep, ConnectStep, WindowStep, ReaderStep, ReconnectStep

\* The elements of a queue after its head is taken, or a message is added.
LEMMA TailElements ==
  ASSUME NEW T, NEW q \in Seq(T), q # <<>>
  PROVE  /\ Len(Tail(q)) = Len(q) - 1 /\ Len(q) >= 1
         /\ \A m \in 1..Len(Tail(q)) : m + 1 \in 1..Len(q) /\ Tail(q)[m] = q[m + 1]
  OBVIOUS

LEMMA AppendElements ==
  ASSUME NEW T, NEW q \in Seq(T), NEW x
  PROVE  /\ Len(Append(q, x)) = Len(q) + 1
         /\ \A m \in 1..Len(q) : Append(q, x)[m] = q[m]
         /\ Append(q, x)[Len(q) + 1] = x
  OBVIOUS

\* The main thread starts a call only when none runs.
LEMMA WindowInvKept == ASSUME TypeOK, WindowInv, Next PROVE WindowInv'
<1> DEFINE Msgs == {"closed", "connectOk", "connectErr"}
<1>0. queue \in Seq(Msgs) /\ call \in Call
  BY DEF TypeOK, WindowTypes
<1>1. CASE UNCHANGED <<call, ui, queue>>
  BY <1>1 DEF WindowInv
<1>2. CASE queue' = Append(queue, "closed") /\ UNCHANGED <<call, ui>>
  <2>1. /\ Len(queue') = Len(queue) + 1 /\ Len(queue) \in Nat
        /\ \A m \in 1..Len(queue') : queue'[m] # "closed" => m \in 1..Len(queue) /\ queue[m] # "closed"
    BY <1>0, <1>2, AppendElements
  <2> QED BY <1>2, <2>1 DEF WindowInv
<1>3. CASE DisconnectStep
  <2>1. CASE SwapState
    BY <1>0, <2>1 DEF SwapState, At, WindowInv, Disconnecting, window, Call
  <2>2. CASE TakeResources
    BY <1>0, <2>2 DEF TakeResources, At, WindowInv, Disconnecting, window, Call
  <2>3. CASE RecordLocalDisconnect
    BY <1>0, <2>3 DEF RecordLocalDisconnect, At, WindowInv, Disconnecting, window, Call
  <2>4. CASE EndSession
    BY <1>0, <2>4 DEF EndSession, At, Proceed, WindowInv, Disconnecting, window, Call
  <2>5. CASE CloseTaken /\ call.op = "connect"
    BY <1>0, <2>5 DEF CloseTaken, At, WindowInv, Disconnecting, Call
  <2>6. CASE CloseTaken /\ call.op # "connect"
    BY <1>0, <2>6 DEF CloseTaken, At, WindowInv, NoCall
  <2> QED BY <1>3, <2>1, <2>2, <2>3, <2>4, <2>5, <2>6 DEF DisconnectStep
<1>4. CASE ConnectStep /\ ~ReportConnect
  BY <1>0, <1>4 DEF ConnectStep, SetCaptureKey, MarkConnecting, OpenSerial, OpenNet, OpenNetFails, DropOpening,
              Install, StartSession, MarkConnected, SpawnReaders, MarkError, At, Proceed, WindowInv,
              Disconnecting, window, Call
<1>5. CASE ReportConnect
  <2>1. /\ call.op = "connect" /\ call' = NoCall /\ ui = "connecting" /\ ui' = ui
        /\ \A m \in 1..Len(queue) : queue[m] = "closed"
    BY <1>0, <1>5 DEF ReportConnect, WindowInv, Disconnecting, Call
  <2>2. /\ Len(queue') = Len(queue) + 1 /\ Len(queue) \in Nat
        /\ \A m \in 1..Len(queue) : queue'[m] = queue[m]
    BY <1>0, <1>5, AppendElements DEF ReportConnect
  <2> QED BY <2>1, <2>2 DEF WindowInv, NoCall
<1>6. CASE WindowStep
  <2>1. /\ queue # <<>> /\ queue' = Tail(queue) /\ Head(queue) = queue[1]
        /\ call.op \in {"none", "connect"}
    BY <1>0, <1>6 DEF WindowStep, HandleClosed, HandleConnectOk, HandleConnectErr, MainThreadFree, Call
  <2>2. /\ Len(queue') = Len(queue) - 1 /\ Len(queue) \in Nat /\ Len(queue) >= 1
        /\ \A m \in 1..Len(queue') : m + 1 \in 1..Len(queue) /\ queue'[m] = queue[m + 1]
    BY <1>0, <2>1, TailElements
  <2>3. CASE HandleClosed
    <3>1. CASE ui = "connected"
      BY <2>1, <2>2, <2>3, <3>1 DEF HandleClosed, React, NoCall, WindowInv, Disconnecting
    <3>2. CASE ui # "connected"
      BY <2>1, <2>2, <2>3, <3>2 DEF HandleClosed, WindowInv
    <3> QED BY <3>1, <3>2
  <2>4. ASSUME Head(queue) # "closed"
        PROVE  /\ ui = "connecting" /\ call.op = "none"
               /\ \A m \in 1..Len(queue') : queue'[m] = "closed"
    BY <2>1, <2>2, <2>4 DEF WindowInv
  <2>5. CASE HandleConnectOk
    BY <2>4, <2>5 DEF HandleConnectOk, React, NoCall, WindowInv, Disconnecting
  <2>6. CASE HandleConnectErr
    BY <2>4, <2>6 DEF HandleConnectErr, WindowInv
  <2> QED BY <1>6, <2>3, <2>5, <2>6 DEF WindowStep
<1>7. CASE UserConnects
  BY <1>0, <1>7 DEF UserConnects, MainThreadFree, NoCall, WindowInv, Disconnecting, Call
<1>8. CASE UserDisconnects
  BY <1>0, <1>8 DEF UserDisconnects, MainThreadFree, NoCall, WindowInv, Disconnecting, window, Call
<1> QED BY <1>1, <1>2, <1>3, <1>4, <1>5, <1>6, <1>7, <1>8, ReaderFrame, ReaderQueue, ReconnectFrame
        DEF Next

\* UserConnects leaves room for its own Disconnect and for the next one.
LEMMA RoomKept == ASSUME TypeOK, WindowInv, Room, Next PROVE Room'
<1>0. call \in Call /\ epoch \in Nat /\ MaxEpoch \in Nat
  BY BoundsAssumption DEF TypeOK, EngineTypes, Epochs
<1>1. CASE UNCHANGED <<epoch, call, ui>>
  BY <1>1 DEF Room
<1>2. call.op \in {"none", "user", "closed", "connect"}
  BY <1>0 DEF Call
<1>3. CASE SwapState \/ RecordLocalDisconnect \/ EndSession
  BY <1>0, <1>3 DEF SwapState, RecordLocalDisconnect, EndSession, At, Proceed, Room, engine, window, Call
<1>4. CASE TakeResources
  BY <1>0, <1>2, <1>4 DEF TakeResources, At, Room, WindowInv, window, Call
<1>5. CASE CloseTaken
  <2>1. CASE call.op = "connect"
    BY <1>0, <1>5, <2>1 DEF CloseTaken, At, Room, engine, Call
  <2>2. CASE call.op # "connect"
    BY <1>5, <2>2 DEF CloseTaken, Room, NoCall
  <2> QED BY <2>1, <2>2
<1>6. CASE ConnectStep /\ ~ReportConnect
  <2>1. /\ call'.op = call.op /\ call'.at \notin {"swap", "lock"}
        /\ UNCHANGED <<epoch, ui>>
    BY <1>0, <1>6 DEF ConnectStep, SetCaptureKey, MarkConnecting, OpenSerial, OpenNet, OpenNetFails, DropOpening,
              Install, StartSession, MarkConnected, SpawnReaders, MarkError, Proceed, engine, window, Call
  <2> QED BY <2>1 DEF Room
<1>7. CASE ReportConnect
  <2>1. call.op = "connect"
    BY <1>2, <1>7 DEF ReportConnect, WindowInv, Disconnecting
  <2> QED BY <1>7, <2>1 DEF ReportConnect, Room, NoCall, engine
<1>8. CASE HandleClosed
  <2>1. call.op \in {"none", "connect"}
    BY <1>2, <1>8 DEF HandleClosed, MainThreadFree
  <2> QED BY <1>8, <2>1 DEF HandleClosed, React, NoCall, Room, engine
<1>9. CASE HandleConnectOk \/ HandleConnectErr
  <2>1. /\ queue # <<>> /\ Head(queue) = queue[1] /\ queue[1] # "closed"
        /\ 1 \in 1..Len(queue)
    BY <1>9 DEF HandleConnectOk, HandleConnectErr, TypeOK, WindowTypes
  <2>2. ui = "connecting" /\ call.op = "none"
    BY <2>1 DEF WindowInv
  <2> QED BY <1>9, <2>2 DEF HandleConnectOk, HandleConnectErr, React, NoCall, Room, engine
<1>10. CASE UserConnects
  BY <1>0, <1>10 DEF UserConnects, NoCall, Room, engine
<1>11. CASE UserDisconnects
  BY <1>2, <1>11 DEF UserDisconnects, MainThreadFree, NoCall, Room, engine, window
<1> QED BY <1>1, <1>3, <1>4, <1>5, <1>6, <1>7, <1>8, <1>9, <1>10, <1>11, ReaderFrame, ReconnectFrame
        DEF Next, DisconnectStep, WindowStep

\* Handles and loops are numbered with the epoch of their making.
LEMMA PastKept == ASSUME TypeOK, TypeOK', Past, Next PROVE Past'
<1>0. /\ epoch \in Nat /\ epoch' \in Nat /\ 0 <= epoch
      /\ born \in [Handles -> Epochs] /\ born' \in [Handles -> Epochs]
      /\ rc \in [Epochs -> {"none", "start", "wait", "dial", "install"}]
  BY BoundsAssumption DEF TypeOK, EngineTypes, HandleTypes, Epochs
<1>1. CASE UNCHANGED <<born, rc>> /\ epoch' \in {epoch, epoch + 1}
  BY <1>0, <1>1 DEF Past, Epochs
<1>2. CASE OpenSerial \/ OpenNet
  <2>1. ASSUME NEW i \in Handles, NEW k, Open(i, k, epoch, "opening"), UNCHANGED <<epoch, rc>>
        PROVE  Past'
    BY <1>0, <2>1 DEF Open, Past
  <2> QED BY <1>1, <1>2, <2>1 DEF OpenSerial, OpenNet, engine, handles
<1>3. CASE OpenNetFails
  BY <1>0, <1>3 DEF OpenNetFails, DropOpening, engine, Past
<1>4. ASSUME NEW i \in Handles, NEW step, Return(i, step), UNCHANGED <<epoch, rc>>
      PROVE  Past'
  BY <1>0, <1>4 DEF Return, Past
<1>5. ASSUME NEW i \in Handles, NEW step, GoTo(i, step), UNCHANGED <<epoch, rc>>
      PROVE  Past'
  BY <1>1, <1>5 DEF GoTo
<1>6. ASSUME NEW i \in Handles, NEW step, RecordThen(i, step), UNCHANGED <<epoch, rc>>
      PROVE  Past'
  BY <1>1, <1>6 DEF RecordThen
<1>7. ASSUME NEW i \in Handles, Accept(i) PROVE Past'
  BY <1>0, <1>7 DEF Accept, Past, engine
<1>8. ASSUME NEW i \in Handles, NEW j \in Handles, Admit(i, j) PROVE Past'
  BY <1>0, <1>8 DEF Admit, Past
<1>9. ASSUME NEW i \in Handles, BeginReconnect(i) PROVE Past'
  <2>1. born[i] \in Epochs /\ born[i] <= epoch
    BY <1>0 DEF Past
  <2>2. /\ born' = [born EXCEPT ![i] = 0] /\ rc' = [rc EXCEPT ![born[i]] = "start"]
        /\ epoch' = epoch
    BY <1>9 DEF BeginReconnect, Return
  <2> QED BY <1>0, <2>1, <2>2 DEF Past
<1>10. ASSUME NEW i \in Handles, ReaderStep(i) \/ PeerFails(i) \/ Finalize(i) \/ UserDropsClient(i)
       PROVE  Past'
  <2>1. CASE SeesClosed(i) \/ PeerFails(i) \/ Finalize(i) \/ MarkPassiveClosed(i)
    BY <1>5, <2>1 DEF SeesClosed, PeerFails, Finalize, MarkPassiveClosed, engine
  <2>2. CASE CleanupTCP(i)
    BY <1>4, <1>6, <2>2 DEF CleanupTCP
  <2>3. CASE CleanupListener(i) \/ CleanupUDP(i) \/ CleanupSerial(i)
    BY <1>4, <1>6, <2>3 DEF CleanupListener, CleanupUDP, CleanupSerial, engine
  <2>4. CASE RecordEventAt(i)
    BY <1>4, <1>5, <2>4 DEF RecordEventAt, engine
  <2>5. CASE NotifyClosed(i)
    BY <1>4, <2>5 DEF NotifyClosed, engine
  <2>6. CASE UserDropsClient(i)
    BY <1>1, <2>6 DEF UserDropsClient, engine
  <2> QED BY <1>9, <1>10, <2>1, <2>2, <2>3, <2>4, <2>5, <2>6 DEF ReaderStep
<1>11. ASSUME NEW e \in Epochs, ReconnectStep(e) \/ RedialFails(e) \/ RedialSucceeds(e)
       PROVE  Past'
  <2>1. CASE ReconnectStart(e) \/ ReconnectCancelled(e) \/ ReconnectTimer(e) \/ RedialFails(e)
    BY <1>0, <2>1 DEF ReconnectStart, ReconnectCancelled, ReconnectTimer, RedialFails, engine, handles, Past
  <2>2. CASE RedialSucceeds(e)
    BY <1>0, <2>2 DEF RedialSucceeds, Open, engine, Past
  <2>3. ASSUME NEW i \in Handles, Reinstall(e, i)
        PROVE  Past'
    BY <1>0, <2>3 DEF Reinstall, Return, GoTo, Past
  <2> QED BY <1>11, <2>1, <2>2, <2>3 DEF ReconnectStep
<1>12. CASE DisconnectStep
  BY <1>0, <1>1, <1>12 DEF DisconnectStep, SwapState, TakeResources, RecordLocalDisconnect, EndSession,
              CloseTaken, engine, handles
<1>13. CASE ConnectStep
  BY <1>0, <1>1, <1>2, <1>3, <1>13 DEF ConnectStep, SetCaptureKey, MarkConnecting, Install, StartSession,
              MarkConnected, SpawnReaders, MarkError, ReportConnect, engine, handles
<1>14. CASE WindowStep \/ UserConnects \/ UserDisconnects
  BY <1>0, <1>1, <1>14 DEF WindowStep, HandleClosed, HandleConnectOk, HandleConnectErr, UserConnects,
              UserDisconnects, engine, handles
<1> QED BY <1>7, <1>8, <1>10, <1>11, <1>12, <1>13, <1>14 DEF Next

\* The key and the row are set before the first reader of a session runs, and
\* cleared after its epoch has passed.
LEMMA SessionInvKept ==
  ASSUME TypeOK, TypeOK', WindowInv, Past, SessionInv, Next
  PROVE  SessionInv'
<1>0. /\ epoch \in Nat /\ captureKey \in Nat /\ sessionID \in Nat /\ epoch \in Epochs
      /\ call \in Call /\ pc \in [Handles -> Places] /\ born \in [Handles -> Epochs]
      /\ rc \in [Epochs -> {"none", "start", "wait", "dial", "install"}]
  BY BoundsAssumption DEF TypeOK, EngineTypes, StoreTypes, HandleTypes, Epochs
\* A step that leaves the session, the call and the rows alone.
<1>1. ASSUME UNCHANGED <<epoch, captureKey, sessionID, call, rows>>,
             \A k \in Handles : pc'[k] \in Living /\ born'[k] = epoch => SessionLive,
             rc'[epoch] # "none" => SessionLive
      PROVE  SessionInv'
  BY <1>1 DEF SessionInv, SessionLive, Preparing, RowsStayInSession
<1>2. ASSUME NEW i \in Handles,
             \/ ReaderStep(i) \/ PeerFails(i) \/ Accept(i) \/ Finalize(i) \/ UserDropsClient(i)
             \/ \E j \in Handles : Admit(i, j)
      PROVE  SessionInv'
  <2>1. UNCHANGED <<epoch, captureKey, sessionID, call>>
    BY <1>2, ReaderFrame
  <2>2. ASSUME NEW k \in Handles, pc'[k] \in Living, born'[k] = epoch
        PROVE  SessionLive
    <3>1. PICK m \in Handles : pc[m] \in Living /\ born[m] = epoch
      BY <1>2, <2>2, LivingFrame
    <3> QED BY <3>1 DEF SessionInv
  <2>3. rc'[epoch] # "none" => SessionLive
    <3>1. CASE BeginReconnect(i)
      BY <1>0, <3>1 DEF BeginReconnect, SessionInv, Living
    <3>2. CASE ~BeginReconnect(i)
      BY <1>2, <3>2, ReaderRC DEF SessionInv
    <3> QED BY <3>1, <3>2
  <2>4. CASE UNCHANGED rows
    BY <1>1, <2>1, <2>2, <2>3, <2>4
  <2>5. CASE RecordEventAt(i)
    <3>1. RowsStayInSession'
      BY <2>5, RecordStays DEF RecordEventAt, SessionInv, RowsStayInSession
    <3> QED BY <2>1, <2>2, <2>3, <3>1 DEF SessionInv, SessionLive, Preparing
  <2> QED BY <1>2, <2>4, <2>5, ReaderRows
<1>3. ASSUME NEW e \in Epochs, ReconnectStep(e) \/ RedialFails(e) \/ RedialSucceeds(e)
      PROVE  SessionInv'
  <2>1. UNCHANGED <<epoch, captureKey, sessionID, call, rows>>
    BY <1>3, ReconnectFrame
  <2>2. CASE ReconnectStart(e) \/ ReconnectCancelled(e) \/ ReconnectTimer(e) \/ RedialFails(e)
    BY <1>0, <1>1, <2>1, <2>2 DEF ReconnectStart, ReconnectCancelled, ReconnectTimer, RedialFails, handles,
                SessionInv
  <2>3. CASE RedialSucceeds(e)
    BY <1>0, <1>1, <2>1, <2>3 DEF RedialSucceeds, Open, SessionInv
  <2>4. ASSUME NEW i \in Handles, Reinstall(e, i)
        PROVE  SessionInv'
    BY <1>0, <1>1, <2>1, <2>4 DEF Reinstall, Return, GoTo, SessionInv, Living
  <2> QED BY <1>3, <2>2, <2>3, <2>4 DEF ReconnectStep
<1>4. CASE SwapState
  BY <1>0, <1>4 DEF SwapState, At, SessionInv, SessionLive, Preparing, RowsStayInSession, store, handles, Call
<1>5. CASE TakeResources
  <2>1. /\ epoch' = epoch + 1 /\ epoch' \in Epochs /\ call'.at = "record"
        /\ UNCHANGED <<captureKey, sessionID, rows, pc, born, rc>>
    BY <1>0, <1>5 DEF TakeResources, TypeOK, EngineTypes, store, handles, Call
  <2>2. rc'[epoch'] = "none" /\ \A i \in Handles : born'[i] # epoch'
    BY <1>0, <2>1 DEF Past
  <2> QED BY <1>0, <2>1, <2>2 DEF SessionInv, Preparing, RowsStayInSession
<1>6. CASE RecordLocalDisconnect
  <2>1. /\ call'.at = "end" /\ captureKey < epoch
        /\ UNCHANGED <<epoch, captureKey, sessionID, pc, born, rc>>
    BY <1>0, <1>6 DEF RecordLocalDisconnect, At, SessionInv, engine, handles, Call
  <2>2. rows' = rows
    BY <1>0, <1>6, <2>1 DEF RecordLocalDisconnect, Record
  <2> QED BY <2>1, <2>2 DEF SessionInv, SessionLive, Preparing, RowsStayInSession
<1>7. CASE EndSession
  BY <1>0, <1>7 DEF EndSession, At, Proceed, SessionInv, SessionLive, Preparing, RowsStayInSession, engine,
              handles, Call
<1>8. CASE CloseTaken
  <2>1. /\ call'.at \in {"rekey", "none"} /\ sessionID = 0 /\ captureKey < epoch
        /\ UNCHANGED <<epoch, captureKey, sessionID, rows, pc, born, rc>>
    <3>1. call.at = "close" /\ call'.at \in {"rekey", "none"}
      <4>1. CASE call.op = "connect"
        BY <1>0, <1>8, <4>1 DEF CloseTaken, At, Call
      <4>2. CASE call.op # "connect"
        BY <1>8, <4>2 DEF CloseTaken, At, NoCall
      <4> QED BY <4>1, <4>2
    <3> QED BY <1>8, <3>1 DEF CloseTaken, SessionInv, engine, store
  <2> QED BY <1>0, <2>1 DEF SessionInv, SessionLive, Preparing, RowsStayInSession
<1>9. CASE SetCaptureKey
  <2>1. /\ call'.at = "connecting" /\ sessionID = 0 /\ captureKey < epoch /\ captureKey' = epoch
        /\ UNCHANGED <<epoch, sessionID, rows, pc, born, rc>>
    BY <1>0, <1>9 DEF SetCaptureKey, At, Proceed, SessionInv, engine, handles, Call
  <2> QED BY <1>0, <2>1 DEF SessionInv, SessionLive, Preparing, RowsStayInSession
<1>10. CASE MarkConnecting
  BY <1>0, <1>10 DEF MarkConnecting, At, Proceed, SessionInv, SessionLive, Preparing, RowsStayInSession,
              store, handles, Call
\* A step of Connect that opens, drops or installs handles.
<1>11. ASSUME call.at \in {"serial", "net", "install"},
              call'.at \in {"net", "install", "session", "fail"},
              UNCHANGED <<epoch, captureKey, sessionID, rows, rc>>,
              \A k \in Handles : pc'[k] \in Living => pc'[k] = pc[k] /\ born'[k] = born[k]
       PROVE  SessionInv'
  BY <1>0, <1>11 DEF SessionInv, SessionLive, Preparing, RowsStayInSession
<1>12. CASE OpenSerial \/ OpenNet
  <2>1. /\ call.at \in {"serial", "net"} /\ call'.at \in {"net", "install", "fail"}
        /\ UNCHANGED <<epoch, captureKey, sessionID, rows, rc>>
    BY <1>0, <1>12 DEF OpenSerial, OpenNet, At, Proceed, engine, store, Call
  <2>2. ASSUME NEW i \in Handles, NEW k, Open(i, k, epoch, "opening")
        PROVE  SessionInv'
    BY <1>0, <1>11, <2>1, <2>2 DEF Open, Living
  <2>3. CASE UNCHANGED handles
    BY <1>11, <2>1, <2>3 DEF handles
  <2> QED BY <1>12, <2>2, <2>3 DEF OpenSerial, OpenNet
<1>13. CASE OpenNetFails
  <2>1. /\ call.at = "net" /\ call'.at = "fail"
        /\ UNCHANGED <<epoch, captureKey, sessionID, rows, rc>>
    BY <1>0, <1>13 DEF OpenNetFails, DropOpening, At, Proceed, engine, store, Call
  <2> QED BY <1>0, <1>11, <1>13, <2>1 DEF OpenNetFails, DropOpening, Living
<1>14. CASE Install
  <2>1. /\ call.at = "install" /\ call'.at = "session"
        /\ UNCHANGED <<epoch, captureKey, sessionID, rows, rc>>
    BY <1>0, <1>14 DEF Install, At, Proceed, store, Call
  <2> QED BY <1>0, <1>11, <1>14, <2>1 DEF Install, Living
<1>15. CASE StartSession
  <2>1. /\ call.at = "session" /\ call'.at = "connected" /\ captureKey = epoch
        /\ SessionLive' /\ (sessionID' # 0 => sessionID' = captureKey)
        /\ UNCHANGED <<epoch, captureKey, rows, pc, born, rc>>
    BY <1>0, <1>15 DEF StartSession, At, Proceed, SessionInv, SessionLive, Preparing, engine, handles, Call
  <2> QED BY <1>0, <2>1 DEF SessionInv, Preparing, RowsStayInSession
<1>16. CASE MarkConnected
  BY <1>0, <1>16 DEF MarkConnected, At, Proceed, SessionInv, SessionLive, Preparing, RowsStayInSession,
              store, handles, Call
<1>17. CASE SpawnReaders
  <2>1. /\ call.at = "spawn" /\ call'.at = "connectOk" /\ SessionLive
        /\ UNCHANGED <<epoch, captureKey, sessionID, rows, born, rc>>
    BY <1>0, <1>17 DEF SpawnReaders, At, Proceed, SessionInv, engine, store, Call
  <2> QED BY <1>0, <2>1 DEF SessionInv, SessionLive, Preparing, RowsStayInSession
<1>18. CASE MarkError
  BY <1>0, <1>18 DEF MarkError, At, Proceed, SessionInv, SessionLive, Preparing, RowsStayInSession,
              store, handles, Call
\* The window only starts a Disconnect or a Connect, or ends a call.
<1>19. ASSUME UNCHANGED <<engine, store, handles, rc>>,
              call' = call \/ call'.at \in {"swap", "none"}
       PROVE  SessionInv'
  BY <1>19 DEF SessionInv, SessionLive, Preparing, RowsStayInSession, engine, store, handles
<1>20. CASE ReportConnect
  BY <1>19, <1>20 DEF ReportConnect, NoCall
<1>21. CASE WindowStep
  BY <1>19, <1>21 DEF WindowStep, HandleClosed, HandleConnectOk, HandleConnectErr, React, NoCall
<1>22. CASE UserConnects \/ UserDisconnects
  BY <1>19, <1>22 DEF UserConnects, UserDisconnects, NoCall
<1> QED BY <1>2, <1>3, <1>4, <1>5, <1>6, <1>7, <1>8, <1>9, <1>10, <1>12, <1>13, <1>14, <1>15, <1>16,
           <1>17, <1>18, <1>20, <1>21, <1>22 DEF Next, DisconnectStep, ConnectStep

\* Every handle passes from Connect to a field of the engine and from there to
\* Disconnect, or is closed by its reader.
LEMMA HandleInvKept ==
  ASSUME TypeOK, WindowInv, SessionInv, HandleInv, Next
  PROVE  HandleInv'
<1>0. /\ epoch \in Nat /\ captureKey \in Nat /\ call \in Call /\ owned \subseteq Handles /\ open \subseteq Handles
      /\ pc \in [Handles -> Places] /\ kind \in [Handles -> Kinds] /\ born \in [Handles -> Epochs]
      /\ then \in [Handles -> {"idle", "mark", "notify", "reconnect"}]
      /\ rc \in [Epochs -> {"none", "start", "wait", "dial", "install"}]
  BY BoundsAssumption DEF TypeOK, EngineTypes, StoreTypes, HandleTypes, Epochs
<1>2. ASSUME NEW i \in Handles, ReaderStep(i) \/ PeerFails(i) \/ Accept(i) \/ Finalize(i) \/ UserDropsClient(i)
      PROVE  HandleInv'
  <2>1. UNCHANGED <<epoch, reconnectStop, call>>
    BY <1>2, ReaderFrame
  <2>2. CASE SeesClosed(i) \/ PeerFails(i)
    BY <1>0, <2>1, <2>2 DEF SeesClosed, PeerFails, GoTo, engine, HandleInv, NoHandleLeaks, HasOwner
  <2>3. CASE CleanupTCP(i)
    BY <1>0, <2>1, <2>3 DEF CleanupTCP, Return, RecordThen, HandleInv, NoHandleLeaks, HasOwner
  <2>4. CASE CleanupListener(i)
    BY <1>0, <2>1, <2>4 DEF CleanupListener, IsActive, Return, RecordThen, engine, HandleInv, NoHandleLeaks, HasOwner
  <2>5. CASE CleanupUDP(i)
    BY <1>0, <2>1, <2>5 DEF CleanupUDP, IsActive, Return, RecordThen, HandleInv, NoHandleLeaks, HasOwner
  <2>6. CASE CleanupSerial(i)
    BY <1>0, <2>1, <2>6 DEF CleanupSerial, IsActive, Return, RecordThen, HandleInv, NoHandleLeaks, HasOwner
  <2>7. CASE RecordEventAt(i)
    BY <1>0, <2>1, <2>7 DEF RecordEventAt, Return, GoTo, engine, HandleInv, NoHandleLeaks, HasOwner, Kinds
  <2>8. CASE MarkPassiveClosed(i)
    BY <1>0, <2>1, <2>8 DEF MarkPassiveClosed, GoTo, HandleInv, NoHandleLeaks, HasOwner
  <2>9. CASE NotifyClosed(i)
    BY <1>0, <2>1, <2>9 DEF NotifyClosed, Return, engine, HandleInv, NoHandleLeaks, HasOwner, Kinds
  <2>10. CASE BeginReconnect(i)
    BY <1>0, <2>1, <2>10 DEF BeginReconnect, Return, HandleInv, NoHandleLeaks, HasOwner
  <2>11. CASE Accept(i)
    BY <1>0, <2>1, <2>11 DEF Accept, Unused, engine, HandleInv, NoHandleLeaks, HasOwner
  <2>12. CASE Finalize(i)
    BY <1>0, <2>1, <2>12 DEF Finalize, GoTo, engine, HandleInv, NoHandleLeaks, HasOwner
  <2>13. CASE UserDropsClient(i)
    BY <1>0, <2>1, <2>13 DEF UserDropsClient, engine, HandleInv, NoHandleLeaks, HasOwner
  <2> QED BY <1>2, <2>2, <2>3, <2>4, <2>5, <2>6, <2>7, <2>8, <2>9, <2>10, <2>11, <2>12, <2>13 DEF ReaderStep
<1>3. ASSUME NEW i \in Handles, NEW j \in Handles, Admit(i, j)
      PROVE  HandleInv'
  BY <1>0, <1>3 DEF Admit, IsActive, HandleInv, NoHandleLeaks, HasOwner
<1>4. ASSUME NEW e \in Epochs, ReconnectStep(e) \/ RedialFails(e) \/ RedialSucceeds(e)
      PROVE  HandleInv'
  <2>1. CASE ReconnectStart(e) \/ ReconnectCancelled(e) \/ ReconnectTimer(e) \/ RedialFails(e)
    BY <2>1 DEF ReconnectStart, ReconnectCancelled, ReconnectTimer, RedialFails, engine, handles,
                HandleInv, NoHandleLeaks, HasOwner
  <2>2. CASE RedialSucceeds(e)
    BY <1>0, <2>2 DEF RedialSucceeds, Open, Unused, engine, HandleInv, NoHandleLeaks, HasOwner
  <2>3. ASSUME NEW i \in Handles, Reinstall(e, i)
        PROVE  HandleInv'
    <3>1. CASE Superseded(e)
      BY <1>0, <2>3, <3>1 DEF Reinstall, Return, HandleInv, NoHandleLeaks, HasOwner
    <3>2. CASE ~Superseded(e)
      <4>1. reconnectStop = epoch
        BY <3>2 DEF Superseded
      <4>2. reconnectStop = 0 => ~Preparing /\ call.at \notin {"record", "end", "close", "rekey"}
        BY <1>0, <4>1 DEF SessionInv
      <4>3. call.at \notin {"record", "end", "close", "rekey", "connecting", "serial", "net", "install"}
        BY <4>2 DEF HandleInv, Preparing
      <4> QED BY <1>0, <2>3, <3>2, <4>3 DEF Reinstall, Superseded, GoTo, HandleInv, NoHandleLeaks, HasOwner
    <3> QED BY <3>1, <3>2
  <2> QED BY <1>4, <2>1, <2>2, <2>3 DEF ReconnectStep
<1>5. CASE SwapState
  BY <1>0, <1>5 DEF SwapState, At, HandleInv, NoHandleLeaks, HasOwner, handles, Call
<1>6. CASE TakeResources
  BY <1>0, <1>6 DEF TakeResources, At, HandleInv, NoHandleLeaks, HasOwner, handles, Call
<1>7. CASE RecordLocalDisconnect \/ EndSession
  BY <1>0, <1>7 DEF RecordLocalDisconnect, EndSession, At, Proceed, HandleInv, NoHandleLeaks, HasOwner, handles,
              engine, Call
<1>8. CASE CloseTaken
  <2>1. call'.taken = {} /\ call'.at \in {"rekey", "none"}
    <3>1. CASE call.op = "connect"
      BY <1>0, <1>8, <3>1 DEF CloseTaken, Call
    <3>2. CASE call.op # "connect"
      BY <1>8, <3>2 DEF CloseTaken, NoCall
    <3> QED BY <3>1, <3>2
  <2>2. /\ open' = open \ call.taken /\ owned = {} /\ reconnectStop = 0
        /\ \A i \in Handles : pc[i] # "opening"
        /\ UNCHANGED <<epoch, owned, reconnectStop, pc, kind, born, then>>
    BY <1>8 DEF CloseTaken, At, HandleInv, engine
  <2> QED BY <2>1, <2>2 DEF HandleInv, NoHandleLeaks, HasOwner
<1>9. CASE SetCaptureKey \/ MarkConnecting
  BY <1>0, <1>9 DEF SetCaptureKey, MarkConnecting, At, Proceed, HandleInv, NoHandleLeaks, HasOwner, handles,
              engine, Call
<1>10. CASE OpenSerial
  BY <1>0, <1>10 DEF OpenSerial, Open, Unused, At, Proceed, HandleInv, NoHandleLeaks, HasOwner, handles,
              engine, Call
<1>11. CASE OpenNet
  BY <1>0, <1>11 DEF OpenNet, Open, Unused, At, Proceed, HandleInv, NoHandleLeaks, HasOwner, handles,
              engine, Call
<1>12. CASE OpenNetFails
  BY <1>0, <1>12 DEF OpenNetFails, DropOpening, Opening, At, Proceed, HandleInv, NoHandleLeaks, HasOwner,
              engine, Call
<1>13. CASE Install
  BY <1>0, <1>13 DEF Install, Opening, At, Proceed, HandleInv, NoHandleLeaks, HasOwner, Call
<1>14. CASE StartSession \/ MarkConnected \/ MarkError
  BY <1>0, <1>14 DEF StartSession, MarkConnected, MarkError, At, Proceed, HandleInv, NoHandleLeaks, HasOwner,
              handles, engine, Call
<1>15. CASE SpawnReaders
  BY <1>0, <1>15 DEF SpawnReaders, At, Proceed, HandleInv, NoHandleLeaks, HasOwner, engine, Call
<1>16. CASE ReportConnect
  BY <1>0, <1>16 DEF ReportConnect, NoCall, HandleInv, NoHandleLeaks, HasOwner, handles, engine, Call
<1>17. ASSUME UNCHANGED <<engine, handles>>,
              \/ call' = call
              \/ call.op = "none" /\ call'.taken = {} /\ call'.at = "swap"
       PROVE  HandleInv'
  <2>1. CASE call' = call
    BY <1>17, <2>1 DEF engine, handles, HandleInv, NoHandleLeaks, HasOwner
  <2>2. CASE call' # call
    <3>1. call.at = "none" /\ call.taken = {}
      BY <1>17, <2>2 DEF WindowInv, HandleInv
    <3> QED BY <1>17, <2>2, <3>1 DEF engine, handles, HandleInv, NoHandleLeaks, HasOwner
  <2> QED BY <2>1, <2>2
<1>18. CASE HandleClosed
  <2>1. ui = "connected" => call.op = "none"
    BY <1>0, <1>18 DEF HandleClosed, MainThreadFree, WindowInv, Call
  <2>2. UNCHANGED <<engine, handles, rc>> /\ (call' = call \/ (React /\ ui = "connected"))
    BY <1>18 DEF HandleClosed
  <2>3. React => call'.at = "swap" /\ call'.op = "closed" /\ call'.taken = {}
    BY DEF React, NoCall
  <2> QED BY <1>17, <2>1, <2>2, <2>3
<1>19. CASE HandleConnectOk \/ HandleConnectErr
  <2>1. queue[1] # "closed" /\ 1 \in 1..Len(queue)
    BY <1>19 DEF HandleConnectOk, HandleConnectErr, TypeOK, WindowTypes
  <2>2. call.op = "none"
    BY <2>1 DEF WindowInv
  <2>3. UNCHANGED <<engine, handles, rc>> /\ (call' = call \/ React)
    BY <1>19 DEF HandleConnectOk, HandleConnectErr
  <2>4. React => call'.at = "swap" /\ call'.op = "closed" /\ call'.taken = {}
    BY DEF React, NoCall
  <2> QED BY <1>17, <2>2, <2>3, <2>4
<1>20. CASE UserConnects \/ UserDisconnects
  <2>1. call.op = "none"
    BY <1>0, <1>20 DEF UserConnects, UserDisconnects, MainThreadFree, WindowInv, Call
  <2> QED BY <1>17, <1>20, <2>1 DEF UserConnects, UserDisconnects, NoCall
<1> QED BY <1>2, <1>3, <1>4, <1>5, <1>6, <1>7, <1>8, <1>9, <1>10, <1>11, <1>12, <1>13, <1>14, <1>15, <1>16,
           <1>18, <1>19, <1>20 DEF Next, DisconnectStep, ConnectStep, WindowStep

\* The initial state, and a step that changes nothing.
LEMMA InitIInv == Init => IInv
<1> SUFFICES ASSUME Init PROVE IInv
  OBVIOUS
<1>0. 0 \in Epochs /\ MaxEpoch \in Nat
  BY BoundsAssumption DEF Epochs
<1>1. TypeOK
  <2>1. call \in Call
    BY NoCallType DEF Init
  <2>2. cfg \in Config
    BY DEF Init, NoConfig, Config
  <2>3. queue \in Seq({"closed", "connectOk", "connectErr"})
    BY DEF Init
  <2> QED BY <1>0, <2>1, <2>2, <2>3 DEF Init, TypeOK, EngineTypes, StoreTypes, HandleTypes, WindowTypes,
                  States, Kinds, Places
<1>2. WindowInv
  BY DEF Init, WindowInv, NoCall
<1>3. Room
  BY DEF Init, Room, NoCall
<1>4. Past
  BY <1>0 DEF Init, Past
<1>5. SessionInv
  BY <1>0 DEF Init, SessionInv, NoCall, Preparing, Living, RowsStayInSession
<1>6. HandleInv
  BY DEF Init, HandleInv, NoCall, NoHandleLeaks
<1> QED BY <1>1, <1>2, <1>3, <1>4, <1>5, <1>6 DEF IInv

LEMMA StutterIInv == IInv /\ UNCHANGED vars => IInv'
<1> SUFFICES ASSUME IInv, UNCHANGED vars PROVE IInv'
  OBVIOUS
<1>1. UNCHANGED <<epoch, state, cfg, owned, reconnectStop, captureKey, sessionID, rows, pc, kind, born, open,
                  manual, then, rc, call, ui, early, queue>>
  BY DEF vars, engine, store, handles, window
<1>2. TypeOK'
  BY <1>1 DEF IInv, TypeOK, EngineTypes, StoreTypes, HandleTypes, WindowTypes
<1>3. WindowInv' /\ Room' /\ Past'
  BY <1>1 DEF IInv, WindowInv, Room, Past
<1>4. SessionInv'
  BY <1>1 DEF IInv, SessionInv, SessionLive, Preparing, RowsStayInSession
<1>5. HandleInv'
  BY <1>1 DEF IInv, HandleInv, NoHandleLeaks, HasOwner
<1> QED BY <1>2, <1>3, <1>4, <1>5 DEF IInv

\* IInv is an invariant of the specification.
LEMMA Inductive == Spec => []IInv
<1>1. IInv /\ [Next]_vars => IInv'
  <2> SUFFICES ASSUME IInv, Next PROVE IInv'
    BY StutterIInv
  <2>1. TypeOK' BY TypeOKKept DEF IInv
  <2>2. WindowInv' BY WindowInvKept DEF IInv
  <2>3. Room' BY RoomKept DEF IInv
  <2>4. Past' BY <2>1, PastKept DEF IInv
  <2>5. SessionInv' BY <2>1, SessionInvKept DEF IInv
  <2>6. HandleInv' BY HandleInvKept DEF IInv
  <2> QED BY <2>1, <2>2, <2>3, <2>4, <2>5, <2>6 DEF IInv
<1> QED BY InitIInv, <1>1, PTL DEF Spec

-----------------------------------------------------------------------------
(* One link: a TCP client session is one connection or one reconnect loop    *)

\* From Disconnect's critical section to Connect's, the session has nothing but
\* the handles that Connect is opening.
Fresh ==
    call.at \in {"record", "end", "close", "rekey", "connecting", "serial", "net", "install"} =>
        /\ \A i \in Handles : pc[i] \in {"idle", "orphan", "opening"} \/ born[i] # epoch
        /\ rc[epoch] = "none"

\* Connect opens at most one socket, of the kind it was asked for.
Opened ==
    /\ call.op = "connect" => call.cfg \in Configs
    /\ \A i \in Opening : kind[i] # "serial" => call.at = "install" /\ kind[i] = call.cfg.net
    /\ \A i, j \in Opening : kind[i] # "serial" /\ kind[j] # "serial" => i = j

\* Where only a connection, or only a listener, can be.
KindsOfPlaces ==
    \A i \in Handles :
        /\ pc[i] \in {"dialed", "reconnect"} => kind[i] = "tcp"
        /\ pc[i] = "record" /\ then[i] = "reconnect" => kind[i] = "tcp"
        /\ pc[i] = "admit" => kind[i] = "listener"

\* A client session has no listener, and a loop that installs has what it dialled.
ClientInv ==
    /\ cfg.mode = "tcpClient" =>
          \A i \in Handles : pc[i] \in {"installed", "read", "admit"} /\ born[i] = epoch
                                => kind[i] # "listener"
    /\ \A e \in Epochs : rc[e] = "install" => \E i \in Handles : pc[i] = "dialed" /\ born[i] = e

LinkInv == Fresh /\ Opened /\ KindsOfPlaces /\ ClientInv /\ OneLink

LEMMA LinkInvKept ==
  ASSUME IInv, TypeOK', LinkInv, Next
  PROVE  LinkInv'
<1> USE DEF LinkInv, Fresh, Opened, KindsOfPlaces, ClientInv, OneLink, LinkOf
<1>0. /\ epoch \in Nat /\ epoch \in Epochs /\ call \in Call /\ owned \subseteq Handles
      /\ pc \in [Handles -> Places] /\ kind \in [Handles -> Kinds] /\ born \in [Handles -> Epochs]
      /\ then \in [Handles -> {"idle", "mark", "notify", "reconnect"}]
      /\ rc \in [Epochs -> {"none", "start", "wait", "dial", "install"}]
      /\ \A e \in Epochs : e \in Nat
  BY BoundsAssumption DEF IInv, TypeOK, EngineTypes, StoreTypes, HandleTypes, Epochs
<1>2. ASSUME NEW i \in Handles, ReaderStep(i) \/ PeerFails(i) \/ Accept(i) \/ Finalize(i) \/ UserDropsClient(i)
      PROVE  LinkInv'
  <2>1. UNCHANGED <<epoch, reconnectStop, call>>
    BY <1>2, ReaderFrame
  <2>2. CASE SeesClosed(i) \/ PeerFails(i)
    BY <1>0, <2>1, <2>2 DEF SeesClosed, PeerFails, GoTo, engine, Opening
  <2>3. CASE CleanupTCP(i)
    BY <1>0, <2>1, <2>3 DEF CleanupTCP, Return, RecordThen, Opening
  <2>4. CASE CleanupListener(i)
    BY <1>0, <2>1, <2>4 DEF CleanupListener, IsActive, Return, RecordThen, engine, Opening
  <2>5. CASE CleanupUDP(i)
    BY <1>0, <2>1, <2>5 DEF CleanupUDP, IsActive, Return, RecordThen, Opening
  <2>6. CASE CleanupSerial(i)
    BY <1>0, <2>1, <2>6 DEF CleanupSerial, IsActive, Return, RecordThen, Opening
  <2>7. CASE RecordEventAt(i)
    BY <1>0, <2>1, <2>7 DEF RecordEventAt, Return, GoTo, engine, Opening
  <2>8. CASE MarkPassiveClosed(i)
    BY <1>0, <2>1, <2>8 DEF MarkPassiveClosed, GoTo, Opening
  <2>9. CASE NotifyClosed(i)
    <3>1. PICK step \in {"idle", "orphan"} : Return(i, step) /\ UNCHANGED <<cfg, rc>>
      BY <2>9 DEF NotifyClosed, engine
    <3>2. /\ \A j \in Handles \ {i} : pc'[j] = pc[j] /\ kind'[j] = kind[j] /\ born'[j] = born[j] /\ then'[j] = then[j]
          /\ pc'[i] = step /\ kind'[i] = "tcp" /\ then'[i] = "idle"
          /\ UNCHANGED <<cfg, rc>>
          /\ pc[i] = "notify"
      BY <1>0, <2>9, <3>1 DEF NotifyClosed, Return
    <3>3. Fresh' /\ Opened'
      BY <1>0, <2>1, <3>2 DEF Opening
    <3>4. KindsOfPlaces' /\ ClientInv'
      BY <1>0, <2>1, <3>2
    <3>5. OneLink'
      BY <1>0, <2>1, <3>2
    <3> QED BY <3>3, <3>4, <3>5
  <2>10. CASE BeginReconnect(i)
    BY <1>0, <2>1, <2>10 DEF BeginReconnect, Return, Opening
  <2>11. CASE Accept(i)
    BY <1>0, <2>1, <2>11 DEF Accept, Unused, engine, Opening
  <2>12. CASE Finalize(i)
    BY <1>0, <2>1, <2>12 DEF Finalize, GoTo, engine, Opening
  <2>13. CASE UserDropsClient(i)
    BY <1>0, <2>1, <2>13 DEF UserDropsClient, engine, Opening
  <2> QED BY <1>2, <2>2, <2>3, <2>4, <2>5, <2>6, <2>7, <2>8, <2>9, <2>10, <2>11, <2>12, <2>13 DEF ReaderStep
<1>3. ASSUME NEW i \in Handles, NEW j \in Handles, Admit(i, j)
      PROVE  LinkInv'
  BY <1>0, <1>3 DEF Admit, IsActive, Opening
<1>4. ASSUME NEW e \in Epochs, ReconnectStep(e) \/ RedialFails(e) \/ RedialSucceeds(e)
      PROVE  LinkInv'
  <2>1. CASE ReconnectStart(e) \/ ReconnectCancelled(e) \/ ReconnectTimer(e) \/ RedialFails(e)
    BY <1>0, <2>1 DEF ReconnectStart, ReconnectCancelled, ReconnectTimer, RedialFails, engine, handles, Opening
  <2>2. CASE RedialSucceeds(e)
    BY <1>0, <2>2 DEF RedialSucceeds, Open, Unused, engine, Opening
  <2>3. ASSUME NEW i \in Handles, Reinstall(e, i)
        PROVE  LinkInv'
    <3>1. CASE Superseded(e)
      BY <1>0, <2>3, <3>1 DEF Reinstall, Return, Opening
    <3>2. CASE ~Superseded(e)
      BY <1>0, <2>3, <3>2 DEF Reinstall, Superseded, GoTo, Opening
    <3> QED BY <3>1, <3>2
  <2> QED BY <1>4, <2>1, <2>2, <2>3 DEF ReconnectStep
<1>5. CASE SwapState
  BY <1>0, <1>5 DEF SwapState, At, handles, Call, Opening
<1>6. CASE TakeResources
  <2>1. epoch' = epoch + 1 /\ epoch + 1 \in Epochs
    BY <1>6 DEF TakeResources, TypeOK, EngineTypes
  <2> QED BY <1>0, <1>6, <2>1 DEF TakeResources, At, handles, Call, Opening, IInv, Past
<1>7. CASE RecordLocalDisconnect \/ EndSession
  <2>1. /\ call.at \in {"record", "end"} /\ call'.at \in {"end", "close"}
        /\ call'.op = call.op /\ call'.cfg = call.cfg
        /\ UNCHANGED <<epoch, cfg, pc, kind, born, then, rc>>
    <3>1. CASE RecordLocalDisconnect
      BY <1>0, <3>1 DEF RecordLocalDisconnect, At, handles, engine, Call
    <3>2. CASE EndSession
      BY <1>0, <3>2 DEF EndSession, At, Proceed, handles, engine, Call
    <3> QED BY <1>7, <3>1, <3>2
  <2>2. Opening = {}
    BY <2>1 DEF IInv, HandleInv, Opening
  <2> QED BY <2>1, <2>2 DEF Opening
<1>8. CASE CloseTaken
  <2>1. /\ call.at = "close" /\ call'.at \in {"rekey", "none"}
        /\ call'.op = "connect" => call.op = "connect" /\ call'.cfg = call.cfg
        /\ UNCHANGED <<epoch, cfg, pc, kind, born, then, rc>>
    <3>1. CASE call.op = "connect"
      <4>1. call' = [call EXCEPT !.taken = {}, !.at = "rekey"] /\ call.at = "close"
        BY <1>8, <3>1 DEF CloseTaken, At
      <4>2. call'.at = "rekey" /\ call'.cfg = call.cfg
        BY <1>0, <4>1 DEF Call
      <4> QED BY <1>8, <3>1, <4>1, <4>2 DEF CloseTaken, engine
    <3>2. CASE call.op # "connect"
      BY <1>8, <3>2 DEF CloseTaken, At, engine, NoCall
    <3> QED BY <3>1, <3>2
  <2>2. Opening = {}
    BY <2>1 DEF IInv, HandleInv, Opening
  <2> QED BY <2>1, <2>2 DEF Opening
<1>9. CASE SetCaptureKey \/ MarkConnecting
  BY <1>0, <1>9 DEF SetCaptureKey, MarkConnecting, At, Proceed, handles, engine, Call, Opening
<1>10. CASE OpenSerial
  BY <1>0, <1>10 DEF OpenSerial, Open, Unused, At, Proceed, handles, engine, Call, Opening
<1>11. CASE OpenNet
  BY <1>0, <1>11 DEF OpenNet, Open, Unused, At, Proceed, handles, engine, Call, Opening
<1>12. CASE OpenNetFails
  BY <1>0, <1>12 DEF OpenNetFails, DropOpening, Opening, At, Proceed, engine, Call
<1>13. CASE Install
  <2>1. call.op = "connect" /\ call.cfg \in Configs
    BY <1>0, <1>13 DEF Install, At, IInv, WindowInv, Disconnecting, Call
  <2> QED BY <1>0, <1>13, <2>1, ClientAssumption DEF Install, Opening, At, Proceed, Call
<1>14. CASE StartSession \/ MarkConnected \/ MarkError
  BY <1>0, <1>14 DEF StartSession, MarkConnected, MarkError, At, Proceed, handles, engine, Call, Opening
<1>15. CASE SpawnReaders
  BY <1>0, <1>15 DEF SpawnReaders, At, Proceed, engine, Call, Opening
<1>16. CASE ReportConnect
  BY <1>0, <1>16 DEF ReportConnect, NoCall, handles, engine, Call, Opening
<1>17. ASSUME UNCHANGED <<engine, handles, rc>>,
              \/ call' = call
              \/ /\ call.op = "none" /\ call'.at = "swap"
                 /\ call'.op = "connect" => call'.cfg \in Configs
       PROVE  LinkInv'
  <2>1. CASE call' = call
    BY <1>17, <2>1 DEF engine, handles, Opening
  <2>2. CASE call' # call
    <3>1. call.at = "none"
      BY <1>17, <2>2 DEF IInv, WindowInv
    <3>2. \A i \in Handles : pc[i] # "opening"
      BY <3>1 DEF IInv, HandleInv
    <3> QED BY <1>17, <2>2, <3>1, <3>2 DEF engine, handles, Opening
  <2> QED BY <2>1, <2>2
<1>18. CASE HandleClosed
  <2>1. ui = "connected" => call.op = "none"
    BY <1>0, <1>18 DEF HandleClosed, MainThreadFree, IInv, WindowInv, Call
  <2>2. UNCHANGED <<engine, handles, rc>> /\ (call' = call \/ (React /\ ui = "connected"))
    BY <1>18 DEF HandleClosed
  <2>3. React => call'.at = "swap" /\ call'.op = "closed" /\ call'.taken = {}
    BY DEF React, NoCall
  <2> QED BY <1>17, <2>1, <2>2, <2>3
<1>19. CASE HandleConnectOk \/ HandleConnectErr
  <2>1. queue[1] # "closed" /\ 1 \in 1..Len(queue)
    BY <1>19 DEF HandleConnectOk, HandleConnectErr, IInv, TypeOK, WindowTypes
  <2>2. call.op = "none"
    BY <2>1 DEF IInv, WindowInv
  <2>3. UNCHANGED <<engine, handles, rc>> /\ (call' = call \/ React)
    BY <1>19 DEF HandleConnectOk, HandleConnectErr
  <2>4. React => call'.at = "swap" /\ call'.op = "closed" /\ call'.taken = {}
    BY DEF React, NoCall
  <2> QED BY <1>17, <2>2, <2>3, <2>4
<1>20. CASE UserConnects \/ UserDisconnects
  <2>1. call.op = "none"
    BY <1>0, <1>20 DEF UserConnects, UserDisconnects, MainThreadFree, IInv, WindowInv, Call
  <2> QED BY <1>17, <1>20, <2>1 DEF UserConnects, UserDisconnects, NoCall
<1> QED BY <1>2, <1>3, <1>4, <1>5, <1>6, <1>7, <1>8, <1>9, <1>10, <1>11, <1>12, <1>13, <1>14, <1>15, <1>16,
           <1>18, <1>19, <1>20 DEF Next, DisconnectStep, ConnectStep, WindowStep

LEMMA LinkInductive == Spec => []LinkInv
<1>1. Init => LinkInv
  BY DEF Init, LinkInv, Fresh, Opened, Opening, KindsOfPlaces, ClientInv, OneLink, LinkOf, NoCall, NoConfig
<1>2. IInv /\ IInv' /\ LinkInv /\ [Next]_vars => LinkInv'
  <2> SUFFICES ASSUME IInv, IInv', LinkInv, [Next]_vars PROVE LinkInv'
    OBVIOUS
  <2>1. CASE UNCHANGED vars
    BY <2>1 DEF vars, engine, store, handles, window, LinkInv, Fresh, Opened, Opening, KindsOfPlaces,
                ClientInv, OneLink, LinkOf
  <2>2. CASE Next
    BY <2>2, LinkInvKept DEF IInv
  <2> QED BY <2>1, <2>2
<1> QED BY Inductive, <1>1, <1>2, PTL DEF Spec

-----------------------------------------------------------------------------
(* The reconnect loop has the stop channel of its session                    *)

\* A reader about to start the loop.
Leaving(i) == pc[i] = "reconnect" \/ (pc[i] = "record" /\ then[i] = "reconnect")

\* The stop channel is that of the current session, and the engine has one as long
\* as a loop of this session runs or is about to; only real sessions have readers.
LoopInv ==
    /\ reconnectStop \in {0, epoch}
    /\ rc[0] = "none"
    /\ rc[epoch] # "none" => reconnectStop = epoch
    /\ \A i \in Handles :
          /\ pc[i] \notin {"idle", "orphan"} => born[i] # 0
          /\ born[i] = epoch /\ Leaving(i) => reconnectStop = epoch
          /\ pc[i] = "dialed" => i \notin owned

LEMMA LoopInvKept ==
  ASSUME IInv, LinkInv, LoopInv, Next
  PROVE  LoopInv'
<1> USE DEF LoopInv, Leaving
<1>0. /\ epoch \in Nat /\ epoch \in Epochs /\ owned \subseteq Handles
      /\ pc \in [Handles -> Places] /\ kind \in [Handles -> Kinds] /\ born \in [Handles -> Epochs]
      /\ then \in [Handles -> {"idle", "mark", "notify", "reconnect"}]
      /\ rc \in [Epochs -> {"none", "start", "wait", "dial", "install"}]
      /\ call \in Call /\ 0 \in Epochs /\ \A e \in Epochs : e \in Nat
  BY BoundsAssumption DEF IInv, TypeOK, EngineTypes, StoreTypes, HandleTypes, Epochs
<1>1. ASSUME UNCHANGED <<epoch, reconnectStop, owned, pc, born, then, rc>>
      PROVE  LoopInv'
  BY <1>1
<1>2. ASSUME NEW i \in Handles, ReaderStep(i) \/ PeerFails(i) \/ Accept(i) \/ Finalize(i) \/ UserDropsClient(i)
      PROVE  LoopInv'
  <2>1. UNCHANGED <<epoch, reconnectStop>>
    BY <1>2, ReaderFrame
  <2>2. CASE SeesClosed(i) \/ PeerFails(i)
    BY <1>0, <2>1, <2>2 DEF SeesClosed, PeerFails, GoTo, engine
  <2>3. CASE CleanupTCP(i)
    <3>1. CASE IsActive(i)
      BY <1>0, <2>1, <2>3, <3>1 DEF CleanupTCP, IsActive, RecordThen
    <3>2. CASE ~IsActive(i)
      BY <1>0, <2>1, <2>3, <3>2 DEF CleanupTCP, Return
    <3> QED BY <3>1, <3>2
  <2>4. CASE CleanupListener(i)
    BY <1>0, <2>1, <2>4 DEF CleanupListener, Return, RecordThen, engine
  <2>5. CASE CleanupUDP(i) \/ CleanupSerial(i)
    BY <1>0, <2>1, <2>5 DEF CleanupUDP, CleanupSerial, Return, RecordThen
  <2>6. CASE RecordEventAt(i)
    BY <1>0, <2>1, <2>6 DEF RecordEventAt, Return, GoTo, engine
  <2>7. CASE MarkPassiveClosed(i)
    BY <1>0, <2>1, <2>7 DEF MarkPassiveClosed, GoTo
  <2>8. CASE NotifyClosed(i)
    <3>1. PICK step \in {"idle", "orphan"} : Return(i, step) /\ UNCHANGED <<owned, rc>>
      BY <2>8 DEF NotifyClosed, engine
    <3> QED BY <1>0, <2>1, <3>1 DEF Return
  <2>9. CASE BeginReconnect(i)
    BY <1>0, <2>1, <2>9 DEF BeginReconnect, Return
  <2>10. CASE Accept(i)
    BY <1>0, <2>1, <2>10 DEF Accept, Unused, engine
  <2>11. CASE Finalize(i)
    BY <1>0, <2>1, <2>11 DEF Finalize, GoTo, engine
  <2>12. CASE UserDropsClient(i)
    BY <1>1, <2>12 DEF UserDropsClient, engine
  <2> QED BY <1>2, <2>2, <2>3, <2>4, <2>5, <2>6, <2>7, <2>8, <2>9, <2>10, <2>11, <2>12 DEF ReaderStep
<1>3. ASSUME NEW i \in Handles, NEW j \in Handles, Admit(i, j)
      PROVE  LoopInv'
  BY <1>0, <1>3 DEF Admit
<1>4. ASSUME NEW e \in Epochs, ReconnectStep(e) \/ RedialFails(e) \/ RedialSucceeds(e)
      PROVE  LoopInv'
  <2>1. CASE ReconnectStart(e) \/ ReconnectCancelled(e) \/ ReconnectTimer(e) \/ RedialFails(e)
    BY <1>0, <2>1 DEF ReconnectStart, ReconnectCancelled, ReconnectTimer, RedialFails, engine, handles
  <2>2. CASE RedialSucceeds(e)
    BY <1>0, <2>2 DEF RedialSucceeds, Open, Unused, engine
  <2>3. ASSUME NEW i \in Handles, Reinstall(e, i)
        PROVE  LoopInv'
    BY <1>0, <2>3 DEF Reinstall, Return, GoTo
  <2> QED BY <1>4, <2>1, <2>2, <2>3 DEF ReconnectStep
<1>5. CASE TakeResources
  <2>1. /\ epoch' = epoch + 1 /\ epoch + 1 \in Epochs /\ reconnectStop' = 0 /\ owned' = {}
        /\ UNCHANGED <<pc, born, then, rc>>
    BY <1>5 DEF TakeResources, At, handles, IInv, Room, TypeOK, EngineTypes, Epochs, Call, WindowInv, Disconnecting
  <2>2. rc[epoch + 1] = "none" /\ \A i \in Handles : born[i] # epoch + 1
    BY <1>0, <2>1 DEF IInv, Past
  <2> QED BY <1>0, <2>1, <2>2
<1>6. CASE SwapState \/ RecordLocalDisconnect \/ EndSession \/ CloseTaken
  BY <1>1, <1>6 DEF SwapState, RecordLocalDisconnect, EndSession, CloseTaken, engine, handles
<1>7. CASE SetCaptureKey \/ MarkConnecting \/ StartSession \/ MarkConnected \/ MarkError \/ ReportConnect
  BY <1>1, <1>7 DEF SetCaptureKey, MarkConnecting, StartSession, MarkConnected, MarkError, ReportConnect,
         engine, handles
<1>8. CASE OpenSerial \/ OpenNet
  <2>1. epoch # 0
    BY <1>0, <1>8 DEF OpenSerial, OpenNet, At, IInv, SessionInv, Preparing
  <2>2. UNCHANGED <<epoch, reconnectStop, owned, rc>>
    BY <1>8 DEF OpenSerial, OpenNet, engine
  <2>3. CASE UNCHANGED handles
    BY <1>1, <2>2, <2>3 DEF handles
  <2>4. ASSUME NEW i \in Handles, NEW k, Open(i, k, epoch, "opening")
        PROVE  LoopInv'
    BY <1>0, <2>1, <2>2, <2>4 DEF Open
  <2> QED BY <1>8, <2>3, <2>4 DEF OpenSerial, OpenNet
<1>9. CASE OpenNetFails
  BY <1>0, <1>9 DEF OpenNetFails, DropOpening, Opening, engine
<1>10. CASE Install
  <2>1. /\ reconnectStop' \in {0, epoch} /\ owned' = Opening
        /\ UNCHANGED <<epoch, born, then, rc>>
        /\ pc' = [i \in Handles |-> IF i \in Opening THEN "installed" ELSE pc[i]]
    BY <1>10 DEF Install
  <2>2. /\ rc[epoch] = "none"
        /\ \A i \in Handles : pc[i] \in {"idle", "orphan", "opening"} \/ born[i] # epoch
    BY <1>10 DEF Install, At, LinkInv, Fresh
  <2> QED BY <1>0, <2>1, <2>2 DEF Opening
<1>11. CASE SpawnReaders
  BY <1>0, <1>11 DEF SpawnReaders, engine
<1>12. CASE WindowStep \/ UserConnects \/ UserDisconnects
  BY <1>1, <1>12 DEF WindowStep, HandleClosed, HandleConnectOk, HandleConnectErr, UserConnects,
         UserDisconnects, engine, handles
<1> QED BY <1>2, <1>3, <1>4, <1>5, <1>6, <1>7, <1>8, <1>9, <1>10, <1>11, <1>12
        DEF Next, DisconnectStep, ConnectStep

LEMMA LoopInductive == Spec => []LoopInv
<1>1. Init => LoopInv
  BY BoundsAssumption DEF Init, LoopInv, Leaving, Epochs
<1>2. IInv /\ LinkInv /\ LoopInv /\ [Next]_vars => LoopInv'
  <2> SUFFICES ASSUME IInv, LinkInv, LoopInv, [Next]_vars PROVE LoopInv'
    OBVIOUS
  <2>1. CASE UNCHANGED vars
    BY <2>1 DEF vars, engine, handles, LoopInv, Leaving
  <2>2. CASE Next
    BY <2>2, LoopInvKept
  <2> QED BY <2>1, <2>2
<1> QED BY Inductive, LinkInductive, <1>1, <1>2, PTL DEF Spec

-----------------------------------------------------------------------------
(* Theorems                                                                  *)

\* Every variable of Engine, store, readers and window keeps its type; epoch
\* in particular stays within its bound.
THEOREM TypeCorrect == Spec => []TypeOK
<1>1. IInv => TypeOK BY DEF IInv
<1> QED BY Inductive, <1>1, PTL

\* Store.Record never files an event under another session than the one it
\* happened in, whatever readers of old sessions are still on their way out.
THEOREM RowsKeepTheirSession == Spec => []RowsStayInSession
<1>1. IInv => RowsStayInSession BY DEF IInv, SessionInv
<1> QED BY Inductive, <1>1, PTL

\* Connect has the store ready before the first reader of a session, or a
\* connection of its reconnect loop, can report anything.
THEOREM ReadersHaveSession == Spec => []ReaderHasSession
<1>1. IInv => ReaderHasSession
  BY DEF IInv, SessionInv, SessionLive, Living, ReaderHasSession
<1> QED BY Inductive, <1>1, PTL

\* Whatever Connect, Disconnect, the readers, the accept loop and the reconnect
\* loop race for, no open handle is forgotten.
THEOREM NoHandleIsLost == Spec => []NoHandleLeaks
<1>1. IInv => NoHandleLeaks BY DEF IInv, HandleInv
<1> QED BY Inductive, <1>1, PTL

\* A client session has one connection or one reconnect loop: the loop dials only
\* when readTCP has given up its connection, and what it dialled is installed by
\* the loop that ends with it.
THEOREM ClientsHaveOneLink == Spec => []OneLink
<1>1. LinkInv => OneLink
  BY DEF LinkInv
<1> QED BY LinkInductive, <1>1, PTL

\* A reconnect loop ends only with a connection that it has put in its place, or
\* with its session: reconnectTCP, and the stop channel that Disconnect takes and
\* Connect makes anew.
THEOREM ReconnectKeepsTrying == Spec => ReconnectNeverGivesUp
<1>1. ASSUME IInv, LoopInv, Next, NEW e \in Epochs, rc[e] # "none", rc'[e] = "none", epoch = e
      PROVE  \E i \in owned' \ owned : born[i] = e
  <2>1. rc \in [Epochs -> {"none", "start", "wait", "dial", "install"}]
    BY <1>1 DEF IInv, TypeOK
  <2>2. reconnectStop = e /\ e # 0
    BY <1>1 DEF LoopInv
  <2>3. ASSUME UNCHANGED rc PROVE FALSE
    BY <1>1, <2>3
  <2>4. ASSUME NEW i \in Handles, BeginReconnect(i) PROVE FALSE
    BY <1>1, <2>1, <2>4 DEF BeginReconnect
  <2>5. ASSUME NEW f \in Epochs, \/ ReconnectStart(f) \/ ReconnectCancelled(f) \/ ReconnectTimer(f)
                                 \/ RedialFails(f) \/ RedialSucceeds(f)
        PROVE  FALSE
    BY <1>1, <2>1, <2>2, <2>5
    DEF ReconnectStart, ReconnectCancelled, ReconnectTimer, RedialFails, RedialSucceeds, Stopped
  <2>6. ASSUME NEW f \in Epochs, NEW i \in Handles, Reinstall(f, i)
        PROVE  \E j \in owned' \ owned : born[j] = e
    <3>1. f = e
      BY <1>1, <2>1, <2>6 DEF Reinstall
    <3>2. owned' = owned \cup {i} /\ born[i] = e /\ pc[i] = "dialed"
      BY <1>1, <2>2, <2>6, <3>1 DEF Reinstall, Superseded
    <3>3. i \notin owned
      BY <1>1, <3>2 DEF LoopInv
    <3> QED BY <3>2, <3>3
  <2>7. CASE DisconnectStep
    BY <2>3, <2>7 DEF DisconnectStep, SwapState, TakeResources, RecordLocalDisconnect, EndSession, CloseTaken
  <2>8. CASE ConnectStep
    BY <2>3, <2>8 DEF ConnectStep, SetCaptureKey, MarkConnecting, OpenSerial, OpenNet, OpenNetFails,
           DropOpening, Install, StartSession, MarkConnected, SpawnReaders, MarkError, ReportConnect
  <2>9. CASE WindowStep \/ UserConnects \/ UserDisconnects
    BY <2>3, <2>9 DEF WindowStep, HandleClosed, HandleConnectOk, HandleConnectErr, UserConnects, UserDisconnects
  <2>10. ASSUME NEW i \in Handles,
                \/ ReaderStep(i) \/ PeerFails(i) \/ Accept(i) \/ Finalize(i) \/ UserDropsClient(i)
                \/ \E j \in Handles : Admit(i, j)
         PROVE  FALSE
    BY <2>3, <2>4, <2>10, ReaderRC
  <2> QED BY <1>1, <2>5, <2>6, <2>7, <2>8, <2>9, <2>10 DEF Next, ReconnectStep
<1>2. IInv /\ LoopInv /\ [Next]_vars
        => [\A e \in Epochs : rc[e] # "none" /\ rc'[e] = "none" =>
              epoch # e \/ \E i \in owned' \ owned : born[i] = e]_vars
  BY <1>1
<1> QED BY <1>2, Inductive, LoopInductive, PTL DEF Spec, ReconnectNeverGivesUp

\* Every step is a step of CaptureLog or leaves its variables alone.
LEMMA RefinedStep ==
  ASSUME IInv, Next
  PROVE  Capture!Next \/ UNCHANGED <<Phase, captureKey, rows>>
<1>0. /\ epoch \in Nat /\ captureKey \in Nat /\ sessionID \in Nat /\ call \in Call
      /\ SessionInv /\ WindowInv
  BY BoundsAssumption DEF IInv, TypeOK, EngineTypes, StoreTypes, Epochs
<1>1. ASSUME UNCHANGED <<sessionID, captureKey, rows>>, Preparing' = Preparing
      PROVE  UNCHANGED <<Phase, captureKey, rows>>
  BY <1>1 DEF Phase
<1>2. ASSUME NEW i \in Handles,
             \/ ReaderStep(i) \/ PeerFails(i) \/ Accept(i) \/ Finalize(i) \/ UserDropsClient(i)
             \/ \E j \in Handles : Admit(i, j)
      PROVE  Capture!Next \/ UNCHANGED <<Phase, captureKey, rows>>
  <2>1. UNCHANGED <<sessionID, captureKey, call>>
    BY <1>2, ReaderFrame
  <2>2. CASE UNCHANGED rows
    BY <1>1, <2>1, <2>2 DEF Preparing
  <2>3. CASE RecordEventAt(i) /\ ~UNCHANGED rows
    <3>1. /\ sessionID # 0 /\ sessionID = captureKey
          /\ rows' = rows \cup {[session |-> captureKey, key |-> captureKey, what |-> "passive"]}
      BY <1>0, <2>3 DEF RecordEventAt, Record, SessionInv
    <3>2. Phase = "open" /\ Phase' = "open"
      BY <2>1, <3>1 DEF Phase
    <3> QED BY <2>1, <3>1, <3>2 DEF Capture!Next, Capture!Write, Capture!Rows
  <2> QED BY <1>2, <2>2, <2>3, ReaderRows
<1>3. ASSUME NEW e \in Epochs, ReconnectStep(e) \/ RedialFails(e) \/ RedialSucceeds(e)
      PROVE  UNCHANGED <<Phase, captureKey, rows>>
  BY <1>1, <1>3, ReconnectFrame DEF Preparing
<1>4. CASE SwapState
  BY <1>0, <1>1, <1>4 DEF SwapState, At, Preparing, store, Call
<1>5. CASE TakeResources
  BY <1>0, <1>1, <1>5 DEF TakeResources, At, Preparing, store, Call
<1>6. CASE RecordLocalDisconnect
  <2>1. rows' = rows
    BY <1>0, <1>6 DEF RecordLocalDisconnect, At, Record, SessionInv
  <2> QED BY <1>0, <1>1, <1>6, <2>1 DEF RecordLocalDisconnect, At, Preparing, Call
<1>7. CASE EndSession
  <2>1. sessionID' = 0 /\ ~Preparing /\ ~Preparing' /\ UNCHANGED <<captureKey, rows>>
    BY <1>0, <1>7 DEF EndSession, At, Proceed, Preparing, Call
  <2> QED BY <2>1 DEF Phase, Capture!Next, Capture!End
<1>8. CASE CloseTaken
  <2>1. CASE call.op = "connect"
    <3>1. call.at = "close" /\ call'.at = "rekey"
      BY <1>0, <1>8, <2>1 DEF CloseTaken, At, Call
    <3> QED BY <1>1, <1>8, <3>1 DEF CloseTaken, Preparing, store
  <2>2. CASE call.op # "connect"
    BY <1>1, <1>8, <2>2 DEF CloseTaken, At, Preparing, store, NoCall
  <2> QED BY <2>1, <2>2
<1>9. CASE SetCaptureKey
  <2>1. /\ ~Preparing /\ Preparing' /\ sessionID = 0 /\ captureKey < captureKey' /\ captureKey' \in Nat
        /\ UNCHANGED <<sessionID, rows>>
    BY <1>0, <1>9 DEF SetCaptureKey, At, Proceed, SessionInv, Preparing, Call
  <2> QED BY <2>1 DEF Phase, Capture!Next, Capture!Prepare
<1>10. CASE MarkConnecting
  BY <1>0, <1>1, <1>10 DEF MarkConnecting, At, Proceed, Preparing, store, Call
\* Connect goes on preparing or gives up.
<1>11. ASSUME Preparing, UNCHANGED store
       PROVE  Capture!Next \/ UNCHANGED <<Phase, captureKey, rows>>
  <2>1. sessionID = 0 /\ UNCHANGED <<sessionID, captureKey, rows>>
    BY <1>0, <1>11 DEF SessionInv, store
  <2> QED BY <1>11, <2>1 DEF Phase, Capture!Next, Capture!Abandon
<1>12. CASE OpenSerial \/ OpenNet \/ OpenNetFails \/ Install
  BY <1>11, <1>12 DEF OpenSerial, OpenNet, OpenNetFails, DropOpening, Install, At, Preparing
<1>13. CASE StartSession
  <2>1. /\ Preparing /\ ~Preparing' /\ sessionID = 0 /\ UNCHANGED <<captureKey, rows>>
    BY <1>0, <1>13 DEF StartSession, At, Proceed, SessionInv, Preparing, Call
  <2> QED BY <2>1 DEF Phase, Capture!Next, Capture!Begin, Capture!Abandon
<1>14. CASE MarkConnected \/ SpawnReaders \/ MarkError
  BY <1>0, <1>1, <1>14 DEF MarkConnected, SpawnReaders, MarkError, At, Proceed, Preparing, store, Call
<1>15. CASE ReportConnect
  BY <1>1, <1>15 DEF ReportConnect, NoCall, Preparing, store
\* The window starts a call only when none runs, or leaves it alone.
<1>16. ASSUME UNCHANGED store, call' = call \/ (~Preparing /\ call'.at = "swap")
       PROVE  UNCHANGED <<Phase, captureKey, rows>>
  BY <1>1, <1>16 DEF Preparing, store
<1>17. CASE HandleClosed
  <2>1. ui = "connected" => call.op = "none"
    BY <1>0, <1>17 DEF HandleClosed, MainThreadFree, WindowInv, Call
  <2> QED BY <1>0, <1>16, <1>17, <2>1 DEF HandleClosed, React, NoCall, Preparing, WindowInv
<1>18. CASE HandleConnectOk \/ HandleConnectErr
  <2>1. queue[1] # "closed" /\ 1 \in 1..Len(queue)
    BY <1>18 DEF HandleConnectOk, HandleConnectErr, IInv, TypeOK, WindowTypes
  <2>2. call.op = "none"
    BY <1>0, <2>1 DEF WindowInv
  <2> QED BY <1>0, <1>16, <1>18, <2>2 DEF HandleConnectOk, HandleConnectErr, React, NoCall, Preparing, WindowInv
<1>19. CASE UserConnects \/ UserDisconnects
  <2>1. call.op = "none"
    BY <1>0, <1>19 DEF UserConnects, UserDisconnects, MainThreadFree, WindowInv, Call
  <2> QED BY <1>0, <1>16, <1>19, <2>1 DEF UserConnects, UserDisconnects, NoCall, Preparing, WindowInv
<1> QED BY <1>2, <1>3, <1>4, <1>5, <1>6, <1>7, <1>8, <1>9, <1>10, <1>12, <1>13, <1>14, <1>15, <1>17,
           <1>18, <1>19 DEF Next, DisconnectStep, ConnectStep, WindowStep

\* The engine drives the store through the sessions of CaptureLog.
THEOREM EngineRefinesCaptureLog == Spec => RefinesCaptureLog
<1>1. Init => Capture!Init
  BY DEF Init, Capture!Init, Phase, Preparing, NoCall
<1>2. IInv /\ [Next]_vars => [Capture!Next]_<<Phase, captureKey, rows>>
  <2> SUFFICES ASSUME IInv, [Next]_vars
               PROVE  Capture!Next \/ UNCHANGED <<Phase, captureKey, rows>>
    OBVIOUS
  <2>1. CASE UNCHANGED vars
    BY <2>1 DEF vars, store, Phase, Preparing
  <2> QED BY <2>1, RefinedStep
<1> QED BY <1>1, <1>2, Inductive, PTL DEF Spec, RefinesCaptureLog, Capture!Spec
=============================================================================
