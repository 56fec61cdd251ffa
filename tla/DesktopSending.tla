--------------------------- MODULE DesktopSending ---------------------------
(***************************************************************************)
(* Sending from the desktop windows: one shot, timer and loop, against the *)
(* connection they use.  apps/windows/main.go, and where mac holds         *)
(* apps/macos/app.m with GoToggleLoop of apps/macos/main.go.               *)
(*                                                                         *)
(* The main thread handles one click or one posted function at a time;     *)
(* Connect, every send and, on Windows, every timer and loop run on        *)
(* goroutines of their own and post what they have to say (Synchronize,    *)
(* dispatch_async).  A timer or loop that was started is a run.  The       *)
(* engine is what EngineSession says of it: a session that Connect opens,  *)
(* and Disconnect or the peer ends.                                        *)
(***************************************************************************)
EXTENDS Integers, Sequences, FiniteSets

CONSTANTS
  Windows,             \* the windows looked at: TRUE is that of macOS
  Counts,              \* loop counts the user enters, 0 is without end
  MaxRuns,             \* bound: timers and loops started
  MaxSession           \* bound: sessions connected

ASSUME SendingAssumption ==
  /\ Windows \subseteq BOOLEAN
  /\ Counts \subseteq Nat
  /\ MaxRuns \in Nat /\ MaxSession \in Nat

Runs == 1 .. MaxRuns

VARIABLES
  live,                \* the engine's session, 0 is none
  sessions,            \* sessions so far
  connected, connecting, sending,
  early,               \* _closedWhileConnecting
  timer, loop,         \* timerCancel or _timerGen, loopCancel: the run, 0 is nil
  timerSending,        \* _timerSending
  loopButton,          \* its title: "start" or "stop"
  window,              \* whether it is that of macOS, and whether it is gone
  posted,              \* functions waiting for the main thread
  dialing, sender,     \* goroutines of Connect and of a single send
  run,                 \* the runs
  started, stopped     \* history: runs so far, and those a user, a disconnect
                       \* or the end of the window has stopped

mac == window.mac
closed == window.closed

ui == <<connected, connecting, sending, early, timerSending, loopButton, window>>
engine == <<live, sessions>>
tasks == <<timer, loop, run, started, stopped>>
vars == <<ui, engine, tasks, posted, dialing, sender>>

\* left is what a loop has still to send; late counts the sends that begin after the run was stopped, up to 2.
Endless == -1
NoRun == [kind |-> "none", pc |-> "ended", left |-> 0, cancelled |-> FALSE,
          failed |-> FALSE, late |-> 0]

Init ==
  /\ live = 0 /\ sessions = 0
  /\ connected = FALSE /\ connecting = FALSE /\ sending = FALSE /\ early = FALSE
  /\ timer = 0 /\ loop = 0 /\ timerSending = FALSE /\ loopButton = "start"
  /\ window \in [mac : Windows, closed : {FALSE}]
  /\ posted = <<>>
  /\ dialing = FALSE /\ sender = FALSE
  /\ run = [r \in Runs |-> NoRun]
  /\ started = 0 /\ stopped = {}

Msg(kind, r, ok) == [kind |-> kind, run |-> r, ok |-> ok]

---------------------------------------------------------------------------
(* stopTimer, stopLoop *)

\* close(cancel); nobody else closes the same channel.
Cancelled(rs) == [r \in Runs |-> [run[r] EXCEPT !.cancelled = @ \/ r \in rs]]

\* The runs in rs are stopped because somebody wants it.
Stop(rs) ==
  /\ run' = Cancelled(rs)
  /\ timer' = IF timer \in rs THEN 0 ELSE timer
  /\ loop' = IF loop \in rs THEN 0 ELSE loop
  /\ stopped' = stopped \cup (rs \ {0})
  /\ UNCHANGED started

\* resetToDisconnected of app.m stops the loop only if the button says so.
StopBoth == Stop({timer} \cup IF mac /\ loopButton = "start" THEN {} ELSE {loop})

Start(kind, left) ==
  /\ started < MaxRuns
  /\ started' = started + 1
  /\ run' = [run EXCEPT ![started + 1] =
               [NoRun EXCEPT !.kind = kind, !.left = left,
                             !.pc = CASE kind = "loop" -> "check"
                                      [] kind = "timer" /\ mac -> "ended"
                                      [] OTHER -> "tick"]]
  /\ UNCHANGED stopped

---------------------------------------------------------------------------
(* Connecting: toggleConnection, toggleConnect *)

UIReady == ~closed

ClickConnect ==
  /\ UIReady /\ ~connecting /\ ~connected
  /\ sessions < MaxSession
  /\ connecting' = TRUE /\ dialing' = TRUE /\ early' = FALSE
  /\ UNCHANGED <<connected, sending, timerSending, loopButton, window, engine, tasks,
                 posted, sender>>

ConnectEnds ==
  /\ dialing
  /\ \E ok \in BOOLEAN :
       /\ IF ok /\ ~closed THEN live' = sessions + 1 /\ sessions' = sessions + 1
          ELSE UNCHANGED engine
       /\ posted' = IF closed THEN posted ELSE Append(posted, Msg("connect", 0, ok))
  /\ dialing' = FALSE
  /\ UNCHANGED <<ui, tasks, sender>>

\* What a disconnect does to the window, whoever began it.
Reset ==
  /\ live' = 0
  /\ connected' = FALSE
  /\ StopBoth
  /\ loopButton' = "start"

ClickDisconnect ==
  /\ UIReady /\ ~connecting /\ connected
  /\ Reset
  /\ UNCHANGED <<connecting, sending, early, timerSending, window, sessions, posted, dialing,
                 sender>>

\* The peer ends the session; onClosed is posted.
PeerCloses ==
  /\ live # 0
  /\ live' = 0
  /\ posted' = IF closed THEN posted ELSE Append(posted, Msg("closed", 0, TRUE))
  /\ UNCHANGED <<ui, tasks, sessions, dialing, sender>>

---------------------------------------------------------------------------
(* Clicks that send *)

\* sendOnce; the window of app.m does not ask whether it is connected.
ClickSend ==
  /\ UIReady /\ ~sending /\ (connected \/ mac)
  /\ sending' = TRUE /\ sender' = TRUE
  /\ UNCHANGED <<connected, connecting, early, timerSending, loopButton, window, engine, tasks,
                 posted, dialing>>

ClickTimer ==
  /\ UIReady
  /\ IF timer # 0 THEN Stop({timer})
     ELSE /\ connected
          /\ mac => loopButton = "start"
          /\ Start("timer", 0)
          /\ timer' = started + 1
          /\ UNCHANGED loop
  /\ UNCHANGED <<ui, engine, posted, dialing, sender>>

StartLoop ==
  /\ \E n \in Counts : Start("loop", IF n = 0 THEN Endless ELSE n)
  /\ loop' = started + 1
  /\ loopButton' = "stop"
  /\ UNCHANGED timer

StopLoop == Stop({loop}) /\ loopButton' = "start"

\* toggleLoop of app.m looks at the title, GoToggleLoop at loopCancel.
ClickLoop ==
  /\ UIReady
  /\ IF mac THEN /\ loopButton = "start" => timer = 0 /\ connected
                 /\ IF loop # 0 THEN StopLoop ELSE StartLoop
     ELSE IF loop # 0 THEN StopLoop ELSE connected /\ StartLoop
  /\ UNCHANGED <<connected, connecting, sending, early, timerSending, window, engine, posted,
                 dialing, sender>>

\* Closing the window of Windows; the process of app.m ends with it.
CloseWindow ==
  /\ UIReady /\ ~mac
  /\ window' = [window EXCEPT !.closed = TRUE]
  /\ Stop({timer, loop})
  /\ loopButton' = "start"
  /\ UNCHANGED <<connected, connecting, sending, early, timerSending, engine, posted, dialing,
                 sender>>

---------------------------------------------------------------------------
(* Goroutines *)

\* A send succeeds only while the engine has a session; it may fail at any time.
Outcome(ok) == ok => live # 0

\* sendCaptured of a single send.
SendEnds ==
  /\ sender
  /\ sender' = FALSE
  /\ \E ok \in BOOLEAN :
       /\ Outcome(ok)
       /\ posted' = IF closed THEN posted ELSE Append(posted, Msg("sent", 0, ok))
  /\ UNCHANGED <<ui, engine, tasks, dialing>>

Step(r, kind, from, to) ==
  /\ run[r].kind = kind /\ run[r].pc = from
  /\ run' = [run EXCEPT ![r].pc = to]
  /\ UNCHANGED <<ui, engine, timer, loop, started, stopped, posted, dialing, sender>>

\* The goroutine waits for the ticker or for cancel; select chooses at random
\* if both are ready, so it looks at cancel once more.
TimerStops(r) == ~mac /\ run[r].cancelled /\ Step(r, "timer", "tick", "ended")
TimerTicks(r) == ~mac /\ Step(r, "timer", "tick", "check")

TimerChecksNot(r) == ~mac /\ Step(r, "timer", "check", "send")   \* mutant: one select
TimerBreaks(r) ==      \* mutant: break leaves the select and not the loop
  ~mac /\ Step(r, "timer", "check", IF run[r].cancelled THEN "tick" ELSE "send")
TimerChecks(r) ==
  ~mac /\ Step(r, "timer", "check", IF run[r].cancelled THEN "ended" ELSE "send")

\* timerFired of app.m, on the main thread: a timer of macOS has a goroutine only
\* while it sends, and a tick is skipped while the one before is being sent.
MacTimerFires ==
  /\ mac /\ timer # 0 /\ ~timerSending
  /\ timerSending' = TRUE
  /\ run' = [run EXCEPT ![timer].pc = "send"]
  /\ UNCHANGED <<connected, connecting, sending, early, loopButton, window, engine, timer, loop,
                 started, stopped, posted, dialing, sender>>

AfterSend(r, ok) ==
  IF run[r].kind = "timer" THEN (IF ok /\ ~mac THEN "tick" ELSE "ended")
  ELSE IF ok THEN "pause" ELSE "finish"

\* What a send of a run posts.
Report(r, ok) ==
  CASE run[r].kind = "timer" /\ mac -> Append(posted, Msg("timerSent", r, ok))
    [] run[r].kind = "timer" /\ ~mac /\ ~ok /\ ~closed -> Append(posted, Msg("timerFailed", r, ok))
    [] OTHER -> posted

\* One send fewer is left; one that began after the run was stopped is counted.
Counted(r, ok) ==
  [run[r] EXCEPT !.pc = AfterSend(r, ok),
                 !.failed = @ \/ ~ok,
                 !.left = IF @ > 0 THEN @ - 1 ELSE @,
                 !.late = IF run[r].cancelled /\ @ < 2 THEN @ + 1 ELSE @]

RunSends(r) ==
  /\ run[r].pc = "send"
  /\ \E ok \in BOOLEAN :
       /\ Outcome(ok)
       /\ run' = [run EXCEPT ![r] = Counted(r, ok)]
       /\ posted' = Report(r, ok)
  /\ UNCHANGED <<ui, engine, timer, loop, started, stopped, dialing, sender>>

LoopChecks(r) ==
  Step(r, "loop", "check", IF ~run[r].cancelled THEN "send" ELSE IF mac THEN "ended" ELSE "finish")

\* After the pause: n sends are done, or the loop goes on.
Done(r) == run[r].left = 0
LoopPauses(r) == Step(r, "loop", "pause", IF Done(r) THEN "finish" ELSE "check")
LoopStops(r) ==
  run[r].cancelled /\ Step(r, "loop", "pause", IF mac THEN "ended" ELSE "finish")

\* The deferred function on Windows posts; finishLoop clears loopCancel first.
LoopFinishes(r) ==
  /\ run[r].kind = "loop" /\ run[r].pc = "finish"
  /\ run' = [run EXCEPT ![r].pc = "ended"]
  /\ IF mac
     THEN /\ loop' = IF loop = r THEN 0 ELSE loop
          /\ posted' = IF loop = r THEN Append(posted, Msg("loopDone", r, TRUE)) ELSE posted
     ELSE /\ posted' = IF closed THEN posted ELSE Append(posted, Msg("loopDone", r, TRUE))
          /\ UNCHANGED loop
  /\ UNCHANGED <<ui, engine, timer, started, stopped, dialing, sender>>

---------------------------------------------------------------------------
(* Posted functions *)

Handles(kind) == posted # <<>> /\ Head(posted).kind = kind /\ posted' = Tail(posted)
Of == Head(posted).run

Connected ==
  /\ Handles("connect")
  /\ connecting' = FALSE
  /\ IF closed \/ ~Head(posted).ok
     THEN UNCHANGED <<connected, loopButton, early, live, tasks>>
     ELSE IF early
     THEN early' = FALSE /\ Reset
     ELSE /\ connected' = TRUE
          /\ UNCHANGED <<loopButton, early, live, tasks>>
  /\ UNCHANGED <<sending, timerSending, window, sessions, dialing, sender>>

OnClosed ==
  /\ Handles("closed")
  /\ IF mac /\ connecting THEN early' = TRUE /\ UNCHANGED <<live, connected, loopButton, tasks>>
     ELSE /\ IF closed \/ ~connected THEN UNCHANGED <<live, connected, loopButton, tasks>>
             ELSE Reset
          /\ UNCHANGED early
  /\ UNCHANGED <<connecting, sending, timerSending, window, sessions, dialing, sender>>

Sent ==
  /\ Handles("sent")
  /\ sending' = FALSE
  /\ UNCHANGED <<connected, connecting, early, timerSending, loopButton, window, engine, tasks,
                 dialing, sender>>

StopAnyTimer(r) ==             \* mutant: the timer that runs is stopped
  /\ timer' = 0
  /\ run' = Cancelled({timer})
  /\ UNCHANGED <<loop, started, stopped>>

\* Stops the timer that failed, not one that was started since.
StopFailed(r) ==
  /\ timer' = IF timer = r THEN 0 ELSE timer
  /\ run' = Cancelled({timer} \cap {r})
  /\ UNCHANGED <<loop, started, stopped>>

TimerFailed ==
  /\ Handles("timerFailed")
  /\ StopFailed(Of)
  /\ UNCHANGED <<ui, engine, dialing, sender>>

MacTimerSent ==
  /\ Handles("timerSent")
  /\ timerSending' = FALSE
  /\ IF Head(posted).ok THEN UNCHANGED tasks ELSE StopFailed(Of)
  /\ UNCHANGED <<connected, connecting, sending, early, loopButton, window, engine, dialing,
                 sender>>

LoopDoneQuietly ==             \* mutant: the button is left as it is
  /\ Handles("loopDone")
  /\ loop' = IF loop = Of THEN 0 ELSE loop
  /\ UNCHANGED <<ui, engine, timer, run, started, stopped, dialing, sender>>

\* On Windows only the current loop is cleared, with its button; loopDone of
\* app.m resets the button whatever runs.
LoopDone ==
  /\ Handles("loopDone")
  /\ loop' = IF ~mac /\ loop = Of THEN 0 ELSE loop
  /\ loopButton' = IF mac \/ loop = Of THEN "start" ELSE loopButton
  /\ UNCHANGED <<connected, connecting, sending, early, timerSending, window, engine, timer, run,
                 started, stopped, dialing, sender>>

---------------------------------------------------------------------------
RunStep(r) ==
  \/ TimerStops(r) \/ TimerTicks(r) \/ TimerChecks(r) \/ RunSends(r)
  \/ LoopChecks(r) \/ LoopPauses(r) \/ LoopStops(r) \/ LoopFinishes(r)

Handle ==
  \/ Connected \/ OnClosed \/ Sent \/ TimerFailed \/ MacTimerSent \/ LoopDone

Click == ClickConnect \/ ClickDisconnect \/ ClickSend \/ ClickTimer \/ ClickLoop \/ CloseWindow

Next ==
  \/ Click \/ Handle
  \/ ConnectEnds \/ PeerCloses \/ SendEnds \/ MacTimerFires
  \/ \E r \in Runs : RunStep(r)

\* The main thread handles what is posted; dials and sends have time limits.
Fairness ==
  /\ WF_vars(Handle)
  /\ WF_vars(SendEnds)
  /\ \A r \in Runs : WF_vars(RunStep(r))

Spec == Init /\ [][Next]_vars /\ Fairness

---------------------------------------------------------------------------
(* Properties *)

\* Every timer and loop ever started either is the current one, or was stopped
\* by the user, a disconnect or the end of the window, or has failed or
\* finished itself: what an earlier run reports late never ends a later one.
\* (The comparison of timerCancel and loopCancel with the run's own channel.)
EachRunEndsForItsOwnReason ==
  \A r \in 1 .. started :
    \/ r \in {timer, loop} \cup stopped
    \/ run[r].failed
    \/ run[r].kind = "loop" /\ Done(r) /\ run[r].pc \in {"finish", "ended"}

\* A run that was stopped sends at most once more, the one it was about to.
AtMostOneSendAfterStop == \A r \in Runs : run[r].late <= 1

Waiting(kind) == \E i \in 1 .. Len(posted) : posted[i].kind = kind

\* Once the end of a loop has reached the window it tells what runs: the loop
\* button says "stop" exactly while there is a loop to stop, and neither a timer
\* nor a loop is left over in a window that is not connected, to send into the
\* next connection.  Sending is refused only while a send is on its way.
\* (finishLoop, stopLoop, resetToDisconnected; sending, _timerSending.)
WindowShowsWhatRuns ==
  /\ ~Waiting("loopDone") => ((loopButton = "stop") <=> (loop # 0))
  /\ ~Waiting("loopDone") /\ ~connected => timer = 0 /\ loop = 0
  /\ sending => sender \/ Waiting("sent") \/ closed
  /\ timerSending => (\E r \in Runs : run[r].pc = "send") \/ Waiting("timerSent")

\* The same of the window of Windows, where the end of a loop and its button are
\* one step of the main thread.
WindowsShowsWhatRuns == ~mac => WindowShowsWhatRuns

\* The goroutine of a stopped run ends, whatever was posted, stopped or
\* restarted meanwhile.
StoppedRunsEnd == \A r \in Runs : run[r].cancelled ~> run[r].pc = "ended"
=============================================================================
