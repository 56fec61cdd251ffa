---------------------------- MODULE DesktopProofs ----------------------------
(***************************************************************************)
(* Theorems about the desktop windows: DesktopSending, for every number of *)
(* runs and sessions and both windows, and HttpWorkspace with CurlCommand, *)
(* for every text that may be typed.                                       *)
(*                                                                         *)
(* The inductive invariant of DesktopSending has these parts:              *)
(*    Typed     types, and the runs that were not started yet              *)
(*    Current   what timer and loop may hold, and what a cancelled run is  *)
(*    Ends      why a loop is at its end, and what the messages say        *)
(*    Sends     the sends of a stopped run                                 *)
(*    Buttons   the window of Windows                                      *)
(* HttpWorkspace has two: what the curl box holds, the texts of the pieces *)
(* that were typed (WorkspaceInv), and what the fields hold, what they can *)
(* of the request that was imported (FieldsInv).  What the scanner makes   *)
(* of a text, ParseCURL of the words of a command, and a window of the     *)
(* lines of its headers are functions along a sequence; what is said of    *)
(* them is proved by induction over sequences.                             *)
(***************************************************************************)
EXTENDS DesktopSending, HttpWorkspace, SequenceTheorems, WellFoundedInduction, TLAPS

-----------------------------------------------------------------------------
(* DesktopSending                                                            *)

Messages == [kind : {"connect", "closed", "sent", "timerFailed", "timerSent", "loopDone"},
             run : 0 .. MaxRuns, ok : BOOLEAN]
RunStates == [kind : {"none", "timer", "loop"},
              pc : {"tick", "check", "send", "pause", "finish", "ended"},
              left : Nat \cup {Endless}, cancelled : BOOLEAN, failed : BOOLEAN, late : 0 .. 2]

Typed ==
  /\ started \in 0 .. MaxRuns
  /\ timer \in 0 .. started /\ loop \in 0 .. started
  /\ stopped \subseteq 1 .. started
  /\ run \in [Runs -> RunStates]
  /\ posted \in Seq(Messages)
  /\ window \in [mac : BOOLEAN, closed : BOOLEAN]
  /\ \A r \in Runs : r > started => run[r] = NoRun

\* The fields hold runs of their kind, and none that was cancelled.
Current ==
  /\ timer # 0 => run[timer].kind = "timer"
  /\ loop # 0 => run[loop].kind = "loop"
  /\ \A r \in Runs : run[r].cancelled => r # timer /\ r # loop /\ (r \in stopped \/ run[r].failed)

\* Why a run may be over.
Over(r) == r \in stopped \/ run[r].failed
LoopOver(r) == Over(r) \/ Done(r)

\* A message that ends a run comes from a run that is over.
Truthful(m) ==
  /\ m.kind = "timerFailed" \/ (m.kind = "timerSent" /\ ~m.ok) => m.run \in 1 .. started /\ run[m.run].failed
  /\ m.kind = "loopDone" => /\ m.run \in 1 .. started /\ run[m.run].kind = "loop"
                            /\ run[m.run].pc = "ended" /\ LoopOver(m.run)

Ends ==
  /\ \A r \in Runs : run[r].kind = "loop" /\ run[r].pc = "finish" => LoopOver(r)
  /\ \A i \in 1 .. Len(posted) : Truthful(posted[i])
  /\ EachRunEndsForItsOwnReason

\* A send after the stop was the last one.
Sends ==
  \A r \in Runs :
    /\ run[r].late <= 1
    /\ run[r].late # 0 => run[r].cancelled /\ run[r].pc # "send"

Shown ==
  ~mac => /\ loopButton = "stop" <=> loop # 0
          /\ ~connected => timer = 0 /\ loop = 0
          /\ ~timerSending /\ ~early

SendShown == sending => sender \/ Waiting("sent") \/ closed

Buttons == Shown /\ SendShown

RunInv == Typed /\ Current /\ Ends /\ Sends
Inv == RunInv /\ Buttons

-----------------------------------------------------------------------------
LEMMA InitInv == Init => Inv
<1> SUFFICES ASSUME Init PROVE Inv
  OBVIOUS
<1>1. \A r \in Runs : run[r] = NoRun
  BY DEF Init
<1>2. NoRun \in RunStates
  BY DEF NoRun, RunStates
<1>3. Typed
  <2>1. window \in [mac : BOOLEAN, closed : BOOLEAN]
    BY SendingAssumption DEF Init
  <2>2. run \in [Runs -> RunStates]
    BY <1>1, <1>2 DEF Init
  <2>3. posted \in Seq(Messages)
    BY DEF Init
  <2> QED
    BY <1>1, <2>1, <2>2, <2>3, SendingAssumption DEF Init, Typed
<1>4. Current /\ Sends /\ Ends
  BY <1>1 DEF Init, Current, Sends, Ends, EachRunEndsForItsOwnReason, NoRun
<1>5. Buttons
  BY DEF Init, Buttons, Shown, SendShown
<1> QED
  BY <1>3, <1>4, <1>5 DEF Inv, RunInv

\* What a step may do to the messages: add one, or take the first.
LEMMA Taken ==
  ASSUME NEW S, NEW q \in Seq(S), q # <<>>
  PROVE  /\ Tail(q) \in Seq(S) /\ Len(Tail(q)) = Len(q) - 1 /\ Len(q) > 0 /\ Head(q) \in S
         /\ Head(q) = q[1] /\ \A i \in 1 .. Len(Tail(q)) : Tail(q)[i] = q[i + 1]
  OBVIOUS

LEMMA Added ==
  ASSUME NEW S, NEW q \in Seq(S), NEW m \in S
  PROVE  /\ Append(q, m) \in Seq(S) /\ Len(Append(q, m)) = Len(q) + 1
         /\ Append(q, m)[Len(q) + 1] = m
         /\ \A i \in 1 .. Len(q) : Append(q, m)[i] = q[i]
  OBVIOUS

\* What is over stays so, and a run keeps its kind.
Onward ==
  /\ started' \in started .. MaxRuns /\ stopped \subseteq stopped'
  /\ \A r \in 1 .. started :
       /\ run'[r].kind = run[r].kind
       /\ run[r].failed => run'[r].failed
       /\ Done(r) => run'[r].left = 0
       /\ run[r].kind = "loop" /\ run[r].pc = "ended" => run'[r].pc = "ended"
       /\ run[r].kind = "loop" /\ run[r].pc = "finish" => run'[r].pc \in {"finish", "ended"}

RunTypes == Typed /\ Current

LEMMA Fields ==
  ASSUME NEW x \in RunStates, NEW b \in BOOLEAN, NEW y, y = [x EXCEPT !.cancelled = b]
  PROVE  /\ y \in RunStates /\ y.cancelled = b /\ y.kind = x.kind /\ y.pc = x.pc
         /\ y.left = x.left /\ y.failed = x.failed /\ y.late = x.late
  BY DEF RunStates

\* stopTimer, stopLoop and what calls them.
LEMMA CancelledRuns ==
  ASSUME RunTypes, NEW rs, rs \subseteq {0, timer, loop}, run' = Cancelled(rs)
  PROVE  /\ run' \in [Runs -> RunStates]
         /\ \A r \in Runs : /\ run'[r].cancelled = (run[r].cancelled \/ r \in rs)
                           /\ run'[r].kind = run[r].kind /\ run'[r].pc = run[r].pc
                           /\ run'[r].left = run[r].left /\ run'[r].failed = run[r].failed
                           /\ run'[r].late = run[r].late
         /\ \A r \in Runs : r > started => run'[r] = NoRun
<1>1. \A r \in Runs : run'[r] = [run[r] EXCEPT !.cancelled = run[r].cancelled \/ r \in rs]
  BY DEF Cancelled
<1>2. ASSUME NEW r \in Runs
      PROVE  run[r] \in RunStates /\ (run[r].cancelled \/ r \in rs) \in BOOLEAN
  BY DEF RunTypes, Typed
<1>3. ASSUME NEW r \in Runs
      PROVE  /\ run'[r] \in RunStates
             /\ run'[r].cancelled = (run[r].cancelled \/ r \in rs)
             /\ run'[r].kind = run[r].kind /\ run'[r].pc = run[r].pc
             /\ run'[r].left = run[r].left /\ run'[r].failed = run[r].failed
             /\ run'[r].late = run[r].late
  <2> DEFINE b == run[r].cancelled \/ r \in rs
  <2>1. run[r] \in RunStates /\ b \in BOOLEAN /\ run'[r] = [run[r] EXCEPT !.cancelled = b]
    BY <1>1, <1>2
  <2> HIDE DEF b
  <2>2. /\ run'[r] \in RunStates /\ run'[r].cancelled = b
        /\ run'[r].kind = run[r].kind /\ run'[r].pc = run[r].pc
        /\ run'[r].left = run[r].left /\ run'[r].failed = run[r].failed
        /\ run'[r].late = run[r].late
    BY <2>1, Fields
  <2> QED
    BY <2>2 DEF b
<1>4. run' \in [Runs -> RunStates]
  BY <1>3 DEF Cancelled
<1>5. ASSUME NEW r \in Runs, r > started
      PROVE  run'[r] = NoRun
  <2>1. r \notin rs /\ run[r] = NoRun
    BY <1>5, SendingAssumption DEF RunTypes, Typed, Runs
  <2>2. run'[r] = [NoRun EXCEPT !.cancelled = NoRun.cancelled \/ r \in rs]
    BY <1>1, <2>1
  <2> QED
    BY <2>1, <2>2 DEF NoRun
<1> QED
  BY <1>3, <1>4, <1>5

LEMMA StopMoves ==
  ASSUME RunTypes, NEW rs, rs \subseteq {0, timer, loop}, Stop(rs), window' \in [mac : BOOLEAN, closed : BOOLEAN],
         posted' \in Seq(Messages)
  PROVE  Typed' /\ Onward
<1>1. 1 .. started \subseteq Runs
  BY SendingAssumption DEF RunTypes, Typed, Runs
<1>2. run' = Cancelled(rs) /\ started' = started
  BY DEF Stop
<1>3. /\ run' \in [Runs -> RunStates]
      /\ \A r \in Runs : /\ run'[r].kind = run[r].kind /\ run'[r].pc = run[r].pc
                        /\ run'[r].left = run[r].left /\ run'[r].failed = run[r].failed
      /\ \A r \in Runs : r > started => run'[r] = NoRun
  BY <1>2, CancelledRuns
<1>4. Onward
  BY <1>1, <1>2, <1>3, SendingAssumption DEF RunTypes, Typed, Onward, Stop, Done
<1>5. stopped' \subseteq 1 .. started
  BY SendingAssumption DEF RunTypes, Typed, Stop
<1> QED
  BY <1>1, <1>2, <1>3, <1>4, <1>5, SendingAssumption DEF RunTypes, Typed, Stop

\* A run that was started goes on to p.
LEMMA RunMoves ==
  ASSUME RunTypes, NEW r \in Runs, run[r].kind # "none",
         NEW p \in {"tick", "check", "send", "pause", "finish", "ended"},
         run[r].kind = "loop" => run[r].pc # "ended" /\ (run[r].pc = "finish" => p = "ended"),
         run' = [run EXCEPT ![r].pc = p], UNCHANGED <<started, stopped, window>>,
         timer' \in 0 .. started, loop' \in 0 .. started, posted' \in Seq(Messages)
  PROVE  /\ Typed' /\ Onward /\ r <= started
         /\ \A q \in Runs : /\ run'[q].kind = run[q].kind /\ run'[q].failed = run[q].failed
                           /\ run'[q].left = run[q].left /\ run'[q].cancelled = run[q].cancelled
                           /\ run'[q].late = run[q].late
                           /\ run'[q].pc = IF q = r THEN p ELSE run[q].pc
<1>1. r <= started /\ 1 .. started \subseteq Runs
  BY SendingAssumption DEF RunTypes, Typed, NoRun, Runs
<1>2. run[r] \in RunStates
  BY DEF RunTypes, Typed
<1>3. /\ run' \in [Runs -> RunStates]
      /\ \A q \in Runs : q # r => run'[q] = run[q]
      /\ run'[r] = [run[r] EXCEPT !.pc = p]
  BY <1>2 DEF RunTypes, Typed, RunStates
<1>4. /\ run'[r].kind = run[r].kind /\ run'[r].failed = run[r].failed
      /\ run'[r].left = run[r].left /\ run'[r].cancelled = run[r].cancelled
      /\ run'[r].late = run[r].late /\ run'[r].pc = p
  BY <1>2, <1>3 DEF RunStates
<1>5. Onward
  BY <1>1, <1>3, <1>4, SendingAssumption DEF RunTypes, Typed, Onward, Done
<1>6. \A q \in Runs : q > started => run'[q] = NoRun
  BY <1>1, <1>3 DEF RunTypes, Typed, Runs
<1> QED
  BY <1>1, <1>3, <1>4, <1>5, <1>6 DEF RunTypes, Typed

LEMMA StartMoves ==
  ASSUME RunTypes, NEW k \in {"timer", "loop"}, NEW n \in Nat \cup {Endless}, Start(k, n),
         window' = window, posted' \in Seq(Messages),
         timer' \in {timer, started + 1}, loop' \in {loop, started + 1}
  PROVE  /\ Typed' /\ Onward /\ started + 1 \in Runs /\ started' = started + 1 /\ stopped' = stopped
         /\ \A q \in Runs : q # started + 1 => run'[q] = run[q]
         /\ LET x == run'[started + 1]
            IN  /\ x.kind = k /\ x.cancelled = FALSE /\ x.failed = FALSE /\ x.late = 0 /\ x.pc # "finish"
<1>1. started + 1 \in Runs /\ 1 .. started \subseteq Runs
  BY SendingAssumption DEF RunTypes, Typed, Start, Runs
<1>2. PICK p \in {"check", "tick", "ended"} : run' = [run EXCEPT ![started + 1] = [NoRun EXCEPT !.kind = k, !.left = n, !.pc = p]]
  BY DEF Start
<1> DEFINE x == [NoRun EXCEPT !.kind = k, !.left = n, !.pc = p]
<1>3. /\ x \in RunStates /\ x.kind = k /\ x.cancelled = FALSE /\ x.failed = FALSE /\ x.late = 0 /\ x.pc = p
  <2>1. NoRun \in RunStates /\ NoRun.cancelled = FALSE /\ NoRun.failed = FALSE /\ NoRun.late = 0
    BY DEF NoRun, RunStates
  <2> QED
    BY <2>1 DEF RunStates
<1>4. run'[started + 1] = x /\ (\A q \in Runs : q # started + 1 => run'[q] = run[q])
  BY <1>1, <1>2 DEF RunTypes, Typed
<1> HIDE DEF x
<1>5. run' \in [Runs -> RunStates]
  BY <1>1, <1>2, <1>3 DEF RunTypes, Typed, x
<1>6. Onward
  BY <1>1, <1>4 DEF RunTypes, Typed, Onward, Start, Done, Runs
<1>7. started' = started + 1 /\ stopped' = stopped /\ started' \in 0 .. MaxRuns
  BY SendingAssumption DEF Start, RunTypes, Typed
<1>8. Typed'
  BY <1>1, <1>4, <1>5, <1>7, SendingAssumption DEF RunTypes, Typed, Runs
<1> QED
  BY <1>1, <1>3, <1>4, <1>6, <1>7, <1>8

LEMMA SendMoves ==
  ASSUME RunTypes, NEW r \in Runs, RunSends(r)
  PROVE  /\ Typed' /\ Onward /\ r \in 1 .. started
         /\ \A q \in Runs : q # r => run'[q] = run[q]
         /\ run'[r].kind = run[r].kind /\ run'[r].cancelled = run[r].cancelled
         /\ run'[r].late = IF run[r].cancelled /\ run[r].late < 2 THEN run[r].late + 1 ELSE run[r].late
         /\ run'[r].pc \in {"tick", "pause", "finish", "ended"}
         /\ run'[r].pc = "finish" => run'[r].failed
         /\ \/ posted' = posted
            \/ \E m \in Messages : /\ posted' = Append(posted, m) /\ m.kind # "loopDone"
                                   /\ m.run = r /\ (~m.ok => run'[r].failed)
                                   /\ (m.kind = "timerFailed" => ~m.ok)
<1>1. r \in 1 .. started /\ 1 .. started \subseteq Runs
  BY SendingAssumption DEF RunTypes, Typed, NoRun, Runs, RunSends
<1>2. run[r] \in RunStates
  BY DEF RunTypes, Typed
<1>3. PICK ok \in BOOLEAN : run' = [run EXCEPT ![r] = Counted(r, ok)] /\ posted' = Report(r, ok)
  BY DEF RunSends
<1> DEFINE f == run[r].failed \/ ~ok
           l == IF run[r].left > 0 THEN run[r].left - 1 ELSE run[r].left
           c == IF run[r].cancelled /\ run[r].late < 2 THEN run[r].late + 1 ELSE run[r].late
           p == AfterSend(r, ok)
           x == [run[r] EXCEPT !.pc = p, !.failed = f, !.left = l, !.late = c]
<1>4. run' = [run EXCEPT ![r] = x]
  BY <1>3 DEF Counted
<1>5. f \in BOOLEAN
  BY <1>2 DEF RunStates
<1>6. l \in Nat \cup {Endless} /\ c \in 0 .. 2 /\ (Done(r) => l = 0)
  BY <1>2 DEF RunStates, Endless, Done
<1>7. p \in {"tick", "pause", "finish", "ended"} /\ (p = "finish" => f)
  BY DEF AfterSend
<1> HIDE DEF f, l, c, p
<1>8. /\ x \in RunStates /\ x.kind = run[r].kind /\ x.cancelled = run[r].cancelled
      /\ x.pc = p /\ x.failed = f /\ x.left = l /\ x.late = c
  BY <1>2, <1>5, <1>6, <1>7 DEF RunStates
<1> HIDE DEF x
<1>9. /\ run' \in [Runs -> RunStates]
      /\ run'[r] = x /\ \A q \in Runs : q # r => run'[q] = run[q]
  BY <1>4, <1>8 DEF RunTypes, Typed
<1>14. run[r].failed => f
  BY <1>2 DEF f, RunStates
<1>10. Onward
  <2>1. run'[r].failed = f /\ run'[r].kind = run[r].kind /\ (run[r].left = 0 => run'[r].left = 0)
    BY <1>6, <1>8, <1>9 DEF Done
  <2>2. run[r].pc = "send" /\ started' = started /\ stopped' = stopped
    BY DEF RunSends
  <2>3. run[r].failed => run'[r].failed
    BY <2>1, <1>14
  <2> QED
    BY <1>1, <1>9, <2>1, <2>2, <2>3 DEF RunTypes, Typed, Onward, Done
<1>11. \/ posted' = posted
       \/ \E m \in Messages : /\ posted' = Append(posted, m) /\ m.kind # "loopDone" /\ m.run = r
                              /\ (~m.ok => ~ok) /\ (m.kind = "timerFailed" => ~m.ok)
  <2>1. \A k \in {"timerSent", "timerFailed"} : Msg(k, r, ok) \in Messages
    BY <1>1, SendingAssumption DEF Msg, Messages, RunTypes, Typed
  <2>2. posted' = posted \/ posted' = Append(posted, Msg("timerSent", r, ok))
          \/ (~ok /\ posted' = Append(posted, Msg("timerFailed", r, ok)))
    BY <1>3 DEF Report
  <2> QED
    BY <2>1, <2>2 DEF Msg
<1>12. posted' \in Seq(Messages)
  BY <1>11 DEF RunTypes, Typed
<1>13. Typed'
  BY <1>1, <1>9, <1>12, SendingAssumption DEF RunTypes, Typed, RunSends, Runs, ui
<1> QED
  BY <1>1, <1>9, <1>7, <1>8, <1>10, <1>11, <1>13 DEF c, f

-----------------------------------------------------------------------------
(* What each kind of step keeps *)

\* A step posts one truthful message, handles one, or does neither.
Posts ==
  \/ posted' = posted
  \/ posted # <<>> /\ posted' = Tail(posted)
  \/ \E m \in Messages : posted' = Append(posted, m) /\ Truthful(m)'

LEMMA PostedType ==
  ASSUME posted \in Seq(Messages), Posts
  PROVE  posted' \in Seq(Messages)
  BY DEF Posts

LEMMA TruthStays ==
  ASSUME Typed, Onward, NEW m \in Messages, Truthful(m)
  PROVE  Truthful(m)'
<1>1. ASSUME NEW r \in 1 .. started
      PROVE  /\ r \in 1 .. started' /\ run'[r].kind = run[r].kind
             /\ run[r].failed => run'[r].failed
             /\ LoopOver(r) => LoopOver(r)'
             /\ run[r].kind = "loop" /\ run[r].pc = "ended" => run'[r].pc = "ended"
  <2>1. /\ run'[r].kind = run[r].kind /\ r \in 1 .. started'
        /\ run[r].failed => run'[r].failed
        /\ run[r].kind = "loop" /\ run[r].pc = "ended" => run'[r].pc = "ended"
        /\ r \in stopped => r \in stopped'
        /\ Done(r) => Done(r)'
    BY SendingAssumption DEF Typed, Onward, Done
  <2> QED
    BY <2>1 DEF LoopOver, Over
<1> QED
  BY <1>1 DEF Truthful

LEMMA MessagesKept ==
  ASSUME Typed, Onward, Ends, Posts
  PROVE  (\A i \in 1 .. Len(posted) : Truthful(posted[i]))'
<1> DEFINE True(x) == \E m \in Messages : m = x /\ Truthful(m)'
<1>1. ASSUME NEW i \in 1 .. Len(posted)
      PROVE  True(posted[i])
  <2>1. posted[i] \in Messages /\ Truthful(posted[i])
    BY DEF Typed, Ends
  <2>2. PICK m \in Messages : m = posted[i] /\ Truthful(m)
    BY <2>1
  <2> QED
    BY <2>2, TruthStays
<1>2. posted \in Seq(Messages)
  BY DEF Typed
<1> HIDE DEF True
<1>3. \A i \in 1 .. Len(posted') : True(posted'[i])
  <2>1. CASE posted' = posted
    BY <1>1, <2>1
  <2>2. CASE posted # <<>> /\ posted' = Tail(posted)
    BY <1>1, <1>2, <2>2, Taken
  <2>3. ASSUME NEW m \in Messages, posted' = Append(posted, m), Truthful(m)'
        PROVE  \A i \in 1 .. Len(posted') : True(posted'[i])
    <3>1. True(m)
      BY <2>3 DEF True
    <3> QED
      BY <1>1, <1>2, <2>3, <3>1, Added
  <2> QED
    BY <2>1, <2>2, <2>3 DEF Posts
<1>4. ASSUME NEW i \in 1 .. Len(posted')
      PROVE  Truthful(posted[i])'
  <2>1. PICK m \in Messages : m = posted'[i] /\ Truthful(m)'
    BY <1>3 DEF True
  <2> QED
    BY <2>1 DEF Truthful
<1> QED
  BY <1>4

LEMMA QuietKeeps ==
  ASSUME RunInv, UNCHANGED tasks, window' \in [mac : BOOLEAN, closed : BOOLEAN], Posts
  PROVE  RunInv'
<1>1. posted' \in Seq(Messages)
  BY PostedType DEF RunInv, Typed
<1>2. Typed' /\ Onward
  BY <1>1, SendingAssumption DEF RunInv, Typed, Onward, Done, Runs, tasks
<1>3. (\A i \in 1 .. Len(posted) : Truthful(posted[i]))'
  BY <1>2, MessagesKept DEF RunInv
<1>4. Current' /\ Sends' /\ EachRunEndsForItsOwnReason'
  BY DEF RunInv, Current, Sends, Ends, EachRunEndsForItsOwnReason, tasks, Done
<1>5. (\A r \in Runs : run[r].kind = "loop" /\ run[r].pc = "finish" => LoopOver(r))'
  BY DEF RunInv, Ends, LoopOver, Over, Done, tasks
<1> QED
  BY <1>2, <1>3, <1>4, <1>5 DEF RunInv, Ends

LEMMA StopKeeps ==
  ASSUME RunInv, NEW rs, rs \subseteq {0, timer, loop}, Stop(rs),
         window' \in [mac : BOOLEAN, closed : BOOLEAN], Posts
  PROVE  RunInv'
<1>1. posted' \in Seq(Messages)
  BY PostedType DEF RunInv, Typed
<1>2. Typed' /\ Onward
  BY <1>1, StopMoves DEF RunInv, RunTypes
<1>3. (\A i \in 1 .. Len(posted) : Truthful(posted[i]))'
  BY <1>2, MessagesKept DEF RunInv
<1>4. /\ \A r \in Runs : /\ run'[r].cancelled = (run[r].cancelled \/ r \in rs)
                        /\ run'[r].kind = run[r].kind /\ run'[r].pc = run[r].pc
                        /\ run'[r].left = run[r].left /\ run'[r].failed = run[r].failed
                        /\ run'[r].late = run[r].late
      /\ timer' = (IF timer \in rs THEN 0 ELSE timer) /\ loop' = (IF loop \in rs THEN 0 ELSE loop)
      /\ stopped' = stopped \cup (rs \ {0}) /\ started' = started
  BY CancelledRuns DEF RunInv, RunTypes, Stop
<1>5. 0 \notin Runs /\ 1 .. started \subseteq Runs /\ timer \in {0} \cup Runs /\ loop \in {0} \cup Runs
  BY SendingAssumption DEF RunInv, Typed, Runs
<1>6. Current'
  BY <1>4, <1>5 DEF RunInv, Current
<1>7. Sends'
  BY <1>4 DEF RunInv, Sends
<1>8. EachRunEndsForItsOwnReason'
  BY <1>4, <1>5 DEF RunInv, Ends, EachRunEndsForItsOwnReason, Done
<1>9. (\A r \in Runs : run[r].kind = "loop" /\ run[r].pc = "finish" => LoopOver(r))'
  BY <1>4 DEF RunInv, Ends, LoopOver, Over, Done
<1> QED
  BY <1>2, <1>3, <1>6, <1>7, <1>8, <1>9 DEF RunInv, Ends

LEMMA FailKeeps ==
  ASSUME RunInv, NEW f \in 1 .. started, run[f].failed, StopFailed(f), window' = window, Posts
  PROVE  RunInv'
<1> DEFINE rs == {timer} \cap {f}
<1>1. posted' \in Seq(Messages)
  BY PostedType DEF RunInv, Typed
<1>2. rs \subseteq {0, timer, loop} /\ run' = Cancelled(rs)
  BY DEF StopFailed
<1>3. /\ run' \in [Runs -> RunStates]
      /\ \A r \in Runs : /\ run'[r].cancelled = (run[r].cancelled \/ r \in rs)
                        /\ run'[r].kind = run[r].kind /\ run'[r].pc = run[r].pc
                        /\ run'[r].left = run[r].left /\ run'[r].failed = run[r].failed
                        /\ run'[r].late = run[r].late
      /\ \A r \in Runs : r > started => run'[r] = NoRun
  BY <1>2, CancelledRuns DEF RunInv, RunTypes
<1>4. /\ timer' = (IF timer = f THEN 0 ELSE timer) /\ UNCHANGED <<loop, started, stopped>>
      /\ f # 0 /\ f \in Runs /\ 0 \notin Runs /\ 1 .. started \subseteq Runs
  BY SendingAssumption DEF StopFailed, RunInv, Typed, Runs
<1>5. Typed' /\ Onward
  BY <1>1, <1>3, <1>4, SendingAssumption DEF RunInv, Typed, Onward, Done
<1>6. (\A i \in 1 .. Len(posted) : Truthful(posted[i]))'
  BY <1>5, MessagesKept DEF RunInv
<1>7. timer \in {0} \cup Runs /\ loop \in {0} \cup Runs
  BY SendingAssumption DEF RunInv, Typed, Runs
<1>8. Current'
  BY <1>3, <1>4, <1>7 DEF RunInv, Current
<1>9. Sends'
  BY <1>3 DEF RunInv, Sends
<1>10. EachRunEndsForItsOwnReason'
  BY <1>3, <1>4 DEF RunInv, Ends, EachRunEndsForItsOwnReason, Done
<1>11. (\A r \in Runs : run[r].kind = "loop" /\ run[r].pc = "finish" => LoopOver(r))'
  BY <1>3, <1>4 DEF RunInv, Ends, LoopOver, Over, Done
<1> QED
  BY <1>5, <1>6, <1>8, <1>9, <1>10, <1>11 DEF RunInv, Ends

\* The field of the kind takes the new run.
LEMMA StartKeeps ==
  ASSUME RunInv, NEW k \in {"timer", "loop"}, NEW n \in Nat \cup {Endless}, Start(k, n),
         window' = window, Posts,
         \/ k = "timer" /\ timer = 0 /\ timer' = started + 1 /\ loop' = loop
         \/ k = "loop" /\ loop = 0 /\ loop' = started + 1 /\ timer' = timer
  PROVE  RunInv'
<1>1. posted' \in Seq(Messages)
  BY PostedType DEF RunInv, Typed
<1> DEFINE x == run'[started + 1]
<1>2. /\ Typed' /\ Onward /\ started + 1 \in Runs /\ started' = started + 1 /\ stopped' = stopped
      /\ \A q \in Runs : q # started + 1 => run'[q] = run[q]
      /\ x.kind = k /\ x.cancelled = FALSE /\ x.failed = FALSE /\ x.late = 0 /\ x.pc # "finish"
  BY <1>1, StartMoves DEF RunInv, RunTypes
<1>3. (\A i \in 1 .. Len(posted) : Truthful(posted[i]))'
  BY <1>2, MessagesKept DEF RunInv
<1>4. 0 \notin Runs /\ timer \in {0} \cup 1 .. started /\ loop \in {0} \cup 1 .. started /\ started + 1 # 0
      /\ started + 1 \notin 1 .. started /\ 1 .. started \subseteq Runs
      /\ 1 .. started' = 1 .. started \cup {started + 1}
  <2>1. started \in Nat /\ timer \in 0 .. started /\ loop \in 0 .. started /\ started' = started + 1
    BY <1>2, SendingAssumption DEF RunInv, Typed
  <2>2. 1 .. (started + 1) = 1 .. started \cup {started + 1}
    BY <2>1
  <2>3. 0 \notin Runs /\ 1 .. started \subseteq Runs
    BY SendingAssumption DEF RunInv, Typed, Runs
  <2> QED
    BY <2>1, <2>2, <2>3
<1>5. Current'
  BY <1>2, <1>4 DEF RunInv, Current
<1>6. Sends'
  BY <1>2 DEF RunInv, Sends
<1>7. EachRunEndsForItsOwnReason'
  BY <1>2, <1>4 DEF RunInv, Ends, EachRunEndsForItsOwnReason, Done
<1>8. (\A r \in Runs : run[r].kind = "loop" /\ run[r].pc = "finish" => LoopOver(r))'
  BY <1>2 DEF RunInv, Ends, LoopOver, Over, Done
<1> QED
  BY <1>2, <1>3, <1>5, <1>6, <1>7, <1>8 DEF RunInv, Ends

\* A goroutine takes a step that sends nothing.
LEMMA MoveKeeps ==
  ASSUME RunInv, NEW r \in Runs, run[r].kind # "none",
         NEW p \in {"tick", "check", "send", "pause", "finish", "ended"},
         run[r].kind = "loop" => run[r].pc # "ended" /\ (run[r].pc = "finish" => p = "ended"),
         p = "send" => ~run[r].cancelled,
         run[r].kind = "loop" /\ p = "finish" => LoopOver(r),
         run' = [run EXCEPT ![r].pc = p], UNCHANGED <<started, stopped, window, timer>>,
         loop' = loop \/ (loop = r /\ loop' = 0 /\ run[r].pc = "finish"),
         Posts
  PROVE  RunInv'
<1>1. posted' \in Seq(Messages) /\ timer' \in 0 .. started /\ loop' \in 0 .. started
  BY PostedType, SendingAssumption DEF RunInv, Typed
<1>2. /\ Typed' /\ Onward /\ r <= started
      /\ \A q \in Runs : /\ run'[q].kind = run[q].kind /\ run'[q].failed = run[q].failed
                        /\ run'[q].left = run[q].left /\ run'[q].cancelled = run[q].cancelled
                        /\ run'[q].late = run[q].late
                        /\ run'[q].pc = IF q = r THEN p ELSE run[q].pc
  BY <1>1, RunMoves DEF RunInv, RunTypes
<1>3. (\A i \in 1 .. Len(posted) : Truthful(posted[i]))'
  BY <1>2, MessagesKept DEF RunInv
<1>4. timer \in {0} \cup Runs /\ loop \in {0} \cup Runs /\ 0 \notin Runs /\ 1 .. started \subseteq Runs
  BY SendingAssumption DEF RunInv, Typed, Runs
<1>5. Current'
  BY <1>2, <1>4 DEF RunInv, Current
<1>6. Sends'
  BY <1>2 DEF RunInv, Sends
<1>7. EachRunEndsForItsOwnReason'
  <2>1. ASSUME NEW q \in 1 .. started, q # r
        PROVE  \/ q \in {timer', loop'} \cup stopped \/ run[q].failed
               \/ run[q].kind = "loop" /\ Done(q) /\ run[q].pc \in {"finish", "ended"}
    BY <2>1 DEF RunInv, Ends, EachRunEndsForItsOwnReason
  <2>2. r \in {timer', loop'} \cup stopped \/ run[r].failed
          \/ (run[r].kind = "loop" /\ Done(r) /\ p \in {"finish", "ended"})
    <3>1. CASE loop' = loop
      <4>1. r \in 1 .. started
        BY <1>2, SendingAssumption DEF RunInv, Typed, Runs
      <4>2. CASE run[r].kind = "loop" /\ Done(r) /\ run[r].pc \in {"finish", "ended"}
        BY <4>2
      <4> QED
        BY <3>1, <4>1, <4>2 DEF RunInv, Ends, EachRunEndsForItsOwnReason
    <3>2. CASE loop = r /\ loop' = 0 /\ run[r].pc = "finish"
      <4>1. run[r].kind = "loop" /\ p = "ended"
        BY <1>4, <3>2 DEF RunInv, Current
      <4>2. LoopOver(r)
        BY <3>2, <4>1 DEF RunInv, Ends
      <4> QED
        BY <4>1, <4>2 DEF LoopOver, Over
    <3> QED
      BY <3>1, <3>2
  <2> QED
    BY <1>2, <1>4, <2>1, <2>2 DEF EachRunEndsForItsOwnReason, Done
<1>8. (\A q \in Runs : run[q].kind = "loop" /\ run[q].pc = "finish" => LoopOver(q))'
  BY <1>2 DEF RunInv, Ends, LoopOver, Over, Done
<1> QED
  BY <1>2, <1>3, <1>5, <1>6, <1>7, <1>8 DEF RunInv, Ends

LEMMA SendKeeps ==
  ASSUME RunInv, NEW r \in Runs, RunSends(r)
  PROVE  RunInv'
<1>1. /\ Typed' /\ Onward /\ r \in 1 .. started
      /\ \A q \in Runs : q # r => run'[q] = run[q]
      /\ run'[r].kind = run[r].kind /\ run'[r].cancelled = run[r].cancelled
      /\ run'[r].late = IF run[r].cancelled /\ run[r].late < 2 THEN run[r].late + 1 ELSE run[r].late
      /\ run'[r].pc \in {"tick", "pause", "finish", "ended"}
      /\ run'[r].pc = "finish" => run'[r].failed
      /\ \/ posted' = posted
         \/ \E m \in Messages : /\ posted' = Append(posted, m) /\ m.kind # "loopDone"
                                /\ m.run = r /\ (~m.ok => run'[r].failed)
                                /\ (m.kind = "timerFailed" => ~m.ok)
  BY SendMoves DEF RunInv, RunTypes
<1>2. UNCHANGED <<timer, loop, started, stopped, window>> /\ run[r].pc = "send"
  BY DEF RunSends, ui
<1>3. Posts
  BY <1>1, <1>2 DEF Posts, Truthful
<1>4. (\A i \in 1 .. Len(posted) : Truthful(posted[i]))'
  BY <1>1, <1>3, MessagesKept DEF RunInv
<1>5. timer \in {0} \cup Runs /\ loop \in {0} \cup Runs /\ 0 \notin Runs /\ 1 .. started \subseteq Runs
  BY SendingAssumption DEF RunInv, Typed, Runs
<1>6. run[r].failed => run'[r].failed
  BY <1>1 DEF Onward
<1>7. Current'
  BY <1>1, <1>2, <1>5, <1>6 DEF RunInv, Current
<1>8. Sends'
  <2>1. run[r].late = 0
    BY <1>2 DEF RunInv, Sends
  <2> QED
    BY <1>1, <2>1 DEF RunInv, Sends
<1>9. EachRunEndsForItsOwnReason'
  <2>1. r \in {timer, loop} \cup stopped \/ run'[r].failed
    BY <1>1, <1>2, <1>6 DEF RunInv, Ends, EachRunEndsForItsOwnReason
  <2> QED
    BY <1>1, <1>2, <1>5, <2>1 DEF RunInv, Ends, EachRunEndsForItsOwnReason, Done
<1>10. (\A q \in Runs : run[q].kind = "loop" /\ run[q].pc = "finish" => LoopOver(q))'
  BY <1>1, <1>2 DEF RunInv, Ends, LoopOver, Over, Done
<1> QED
  BY <1>1, <1>4, <1>7, <1>8, <1>9, <1>10 DEF RunInv, Ends

\* The message that is handled says the truth.
LEMMA HeadIsTrue ==
  ASSUME RunInv, NEW k, Handles(k)
  PROVE  /\ Head(posted) \in Messages /\ Head(posted).kind = k /\ Truthful(Head(posted))
         /\ posted # <<>> /\ posted' = Tail(posted)
  BY Taken DEF RunInv, Typed, Ends, Handles

LEMMA LoopDoneKeeps ==
  ASSUME RunInv, LoopDone
  PROVE  RunInv'
<1>1. /\ Of \in 1 .. started /\ run[Of].kind = "loop" /\ run[Of].pc = "ended" /\ LoopOver(Of)
      /\ posted # <<>> /\ posted' = Tail(posted)
  BY HeadIsTrue DEF LoopDone, Truthful, Of
<1>2. UNCHANGED <<timer, started, stopped, window, run>> /\ (loop' = loop \/ (loop = Of /\ loop' = 0))
  BY DEF LoopDone
<1>3. Posts /\ posted' \in Seq(Messages)
  BY <1>1, PostedType DEF RunInv, Typed, Posts
<1>4. Typed' /\ Onward
  BY <1>2, <1>3, SendingAssumption DEF RunInv, Typed, Onward, Done, Runs
<1>5. (\A i \in 1 .. Len(posted) : Truthful(posted[i]))'
  BY <1>3, <1>4, MessagesKept DEF RunInv
<1>6. 0 \notin Runs
  BY DEF Runs
<1>7. Current' /\ Sends'
  BY <1>2, <1>6 DEF RunInv, Current, Sends
<1>8. EachRunEndsForItsOwnReason'
  BY <1>1, <1>2 DEF RunInv, Ends, EachRunEndsForItsOwnReason, Done, LoopOver, Over
<1>9. (\A q \in Runs : run[q].kind = "loop" /\ run[q].pc = "finish" => LoopOver(q))'
  BY <1>2 DEF RunInv, Ends, LoopOver, Over, Done
<1> QED
  BY <1>4, <1>5, <1>7, <1>8, <1>9 DEF RunInv, Ends

-----------------------------------------------------------------------------
(* Every step *)

LEMMA QuietPosts ==
  ASSUME NEW k \in {"connect", "closed", "sent"}, NEW ok \in BOOLEAN,
         posted' = Append(posted, Msg(k, 0, ok)) \/ posted' = posted
  PROVE  Posts
<1>1. Msg(k, 0, ok) \in Messages /\ Truthful(Msg(k, 0, ok))'
  BY SendingAssumption DEF Msg, Messages, Truthful
<1> QED
  BY <1>1 DEF Posts

LEMMA ResetKeeps ==
  ASSUME RunInv, Reset, window' = window, Posts
  PROVE  RunInv'
<1> DEFINE rs == {timer} \cup IF mac /\ loopButton = "start" THEN {} ELSE {loop}
<1>1. Stop(rs) /\ rs \subseteq {0, timer, loop} /\ window' \in [mac : BOOLEAN, closed : BOOLEAN]
  BY DEF Reset, StopBoth, RunInv, Typed
<1> HIDE DEF rs
<1> QED
  BY <1>1, StopKeeps

LEMMA RunStepKeeps ==
  ASSUME RunInv, NEW r \in Runs, RunStep(r)
  PROVE  RunInv'
<1>1. CASE RunSends(r)
  BY <1>1, SendKeeps
<1>2. CASE LoopFinishes(r)
  <2>1. Posts
    <3>1. Msg("loopDone", r, TRUE) \in Messages
      BY SendingAssumption DEF Msg, Messages, Runs
    <3>2. Truthful(Msg("loopDone", r, TRUE))'
      <4>1. r \in 1 .. started /\ run[r] \in RunStates
        BY <1>2, SendingAssumption DEF LoopFinishes, RunInv, Typed, NoRun, Runs
      <4>2. /\ run'[r].kind = "loop" /\ run'[r].pc = "ended" /\ run'[r].left = run[r].left
            /\ run'[r].failed = run[r].failed /\ started' = started /\ stopped' = stopped
        BY <1>2, <4>1 DEF LoopFinishes, RunInv, Typed, RunStates
      <4>3. LoopOver(r)
        BY <1>2 DEF LoopFinishes, RunInv, Ends
      <4> QED
        BY <4>1, <4>2, <4>3 DEF Truthful, Msg, LoopOver, Over, Done
    <3> QED
      BY <1>2, <3>1, <3>2 DEF LoopFinishes, Posts
  <2>2. /\ run[r].kind = "loop" /\ run[r].pc = "finish" /\ run' = [run EXCEPT ![r].pc = "ended"]
        /\ UNCHANGED <<started, stopped, window, timer>>
        /\ loop' = loop \/ (loop = r /\ loop' = 0)
    BY <1>2 DEF LoopFinishes, ui
  <2> QED
    BY <2>1, <2>2, MoveKeeps
<1>3. ASSUME NEW p \in {"tick", "check", "send", "pause", "finish", "ended"}, NEW k \in {"timer", "loop"},
             NEW from \in {"tick", "check", "pause"}, Step(r, k, from, p),
             p = "send" => ~run[r].cancelled,
             k = "loop" /\ p = "finish" => LoopOver(r)
      PROVE  RunInv'
  <2>1. /\ run[r].kind = k /\ run[r].pc = from /\ run' = [run EXCEPT ![r].pc = p]
        /\ UNCHANGED <<started, stopped, window, timer, loop, posted>>
    BY <1>3 DEF Step, ui
  <2> QED
    BY <1>3, <2>1, MoveKeeps DEF Posts
<1>4. run[r].cancelled => LoopOver(r)
  BY DEF RunInv, Current, LoopOver, Over
<1>5. CASE TimerStops(r) \/ TimerTicks(r) \/ TimerChecks(r)
  BY <1>3, <1>5 DEF TimerStops, TimerTicks, TimerChecks
<1>6. CASE LoopChecks(r) \/ LoopStops(r)
  BY <1>3, <1>4, <1>6 DEF LoopChecks, LoopStops
<1>7. CASE LoopPauses(r)
  BY <1>3, <1>7 DEF LoopPauses, LoopOver
<1> QED
  BY <1>1, <1>2, <1>5, <1>6, <1>7 DEF RunStep

LEMMA ClickKeeps ==
  ASSUME RunInv, Click
  PROVE  RunInv'
<1>0. window \in [mac : BOOLEAN, closed : BOOLEAN] /\ (posted' = posted => Posts)
  BY DEF RunInv, Typed, Posts
<1>1. CASE ClickConnect \/ ClickSend
  BY <1>0, <1>1, QuietKeeps DEF ClickConnect, ClickSend
<1>2. CASE ClickDisconnect
  BY <1>0, <1>2, ResetKeeps DEF ClickDisconnect
<1>3. CASE ClickTimer
  <2>1. CASE timer # 0
    <3>1. Stop({timer}) /\ window' = window /\ posted' = posted
      BY <1>3, <2>1 DEF ClickTimer, ui
    <3> QED
      BY <1>0, <3>1, StopKeeps
  <2>2. CASE timer = 0
    <3>1. /\ Start("timer", 0) /\ timer' = started + 1 /\ loop' = loop /\ window' = window
          /\ posted' = posted
      BY <1>3, <2>2 DEF ClickTimer, ui
    <3> QED
      BY <1>0, <2>2, <3>1, StartKeeps
  <2> QED
    BY <2>1, <2>2
<1>4. CASE ClickLoop
  <2>1. /\ window' = window /\ posted' = posted
        /\ (loop # 0 /\ StopLoop) \/ (loop = 0 /\ StartLoop)
    BY <1>4 DEF ClickLoop
  <2>2. CASE StopLoop
    BY <1>0, <2>1, <2>2, StopKeeps DEF StopLoop
  <2>3. CASE loop = 0 /\ StartLoop
    <3>1. PICK n \in Nat \cup {Endless} : Start("loop", n)
      BY <2>3, SendingAssumption DEF StartLoop
    <3>2. loop' = started + 1 /\ timer' = timer
      BY <2>3 DEF StartLoop
    <3> QED
      BY <1>0, <2>1, <2>3, <3>1, <3>2, StartKeeps
  <2> QED
    BY <2>1, <2>2, <2>3
<1>5. CASE CloseWindow
  <2>1. Stop({timer, loop}) /\ window' \in [mac : BOOLEAN, closed : BOOLEAN] /\ posted' = posted
    BY <1>0, <1>5 DEF CloseWindow
  <2> QED
    BY <1>0, <2>1, StopKeeps
<1> QED
  BY <1>1, <1>2, <1>3, <1>4, <1>5 DEF Click

LEMMA HandleKeeps ==
  ASSUME RunInv, Handle
  PROVE  RunInv'
<1>0. window \in [mac : BOOLEAN, closed : BOOLEAN]
  BY DEF RunInv, Typed
<1>1. ASSUME NEW k, Handles(k)
      PROVE  Posts
  BY <1>1 DEF Handles, Posts
<1>2. CASE Connected
  <2>1. Posts /\ window' = window /\ (UNCHANGED tasks \/ Reset)
    BY <1>1, <1>2 DEF Connected
  <2> QED
    BY <1>0, <2>1, QuietKeeps, ResetKeeps
<1>3. CASE OnClosed
  <2>1. Posts /\ window' = window /\ (UNCHANGED tasks \/ Reset)
    BY <1>1, <1>3 DEF OnClosed
  <2> QED
    BY <1>0, <2>1, QuietKeeps, ResetKeeps
<1>4. CASE Sent
  BY <1>0, <1>1, <1>4, QuietKeeps DEF Sent
<1>5. CASE TimerFailed
  <2>1. Of \in 1 .. started /\ run[Of].failed /\ Posts
    BY <1>5, <1>1, HeadIsTrue DEF TimerFailed, Truthful, Of
  <2> QED
    BY <1>5, <2>1, FailKeeps DEF TimerFailed, ui
<1>6. CASE MacTimerSent
  <2>1. Posts /\ window' = window
    BY <1>1, <1>6 DEF MacTimerSent
  <2>2. CASE Head(posted).ok
    BY <1>0, <1>6, <2>1, <2>2, QuietKeeps DEF MacTimerSent
  <2>3. CASE ~Head(posted).ok
    <3>1. Of \in 1 .. started /\ run[Of].failed
      BY <1>6, <2>3, HeadIsTrue DEF MacTimerSent, Truthful, Of
    <3> QED
      BY <1>6, <2>1, <2>3, <3>1, FailKeeps DEF MacTimerSent
  <2> QED
    BY <2>2, <2>3
<1>7. CASE LoopDone
  BY <1>7, LoopDoneKeeps
<1> QED
  BY <1>2, <1>3, <1>4, <1>5, <1>6, <1>7 DEF Handle

LEMMA StepKeeps ==
  ASSUME RunInv, Next
  PROVE  RunInv'
<1>0. window \in [mac : BOOLEAN, closed : BOOLEAN]
  BY DEF RunInv, Typed
<1>1. CASE ConnectEnds
  <2>1. UNCHANGED tasks /\ window' = window /\ \E ok \in BOOLEAN : posted' = Append(posted, Msg("connect", 0, ok)) \/ posted' = posted
    BY <1>1 DEF ConnectEnds, ui
  <2> QED
    BY <1>0, <2>1, QuietPosts, QuietKeeps
<1>2. CASE PeerCloses
  <2>1. UNCHANGED tasks /\ window' = window /\ (posted' = Append(posted, Msg("closed", 0, TRUE)) \/ posted' = posted)
    BY <1>2 DEF PeerCloses, ui
  <2> QED
    BY <1>0, <2>1, QuietPosts, QuietKeeps
<1>3. CASE SendEnds
  <2>1. UNCHANGED tasks /\ window' = window /\ \E ok \in BOOLEAN : posted' = Append(posted, Msg("sent", 0, ok)) \/ posted' = posted
    BY <1>3 DEF SendEnds, ui
  <2> QED
    BY <1>0, <2>1, QuietPosts, QuietKeeps
<1>4. CASE MacTimerFires
  <2>1. /\ timer \in Runs /\ run[timer].kind = "timer" /\ ~run[timer].cancelled
        /\ run' = [run EXCEPT ![timer].pc = "send"]
        /\ UNCHANGED <<started, stopped, window, timer, loop, posted>>
    BY <1>4, SendingAssumption DEF MacTimerFires, RunInv, Typed, Current, Runs
  <2> QED
    BY <2>1, MoveKeeps DEF Posts
<1>5. ASSUME NEW r \in Runs, RunStep(r)
      PROVE  RunInv'
  BY <1>5, RunStepKeeps
<1> QED
  BY <1>1, <1>2, <1>3, <1>4, <1>5, ClickKeeps, HandleKeeps DEF Next

LEMMA StepInv ==
  ASSUME RunInv, [Next]_vars
  PROVE  RunInv'
<1>1. CASE Next
  BY <1>1, StepKeeps
<1>2. CASE UNCHANGED vars
  <2>1. UNCHANGED tasks /\ window' = window /\ posted' = posted
    BY <1>2 DEF vars, ui
  <2> QED
    BY <2>1, QuietKeeps DEF Posts, RunInv, Typed
<1> QED
  BY <1>1, <1>2

-----------------------------------------------------------------------------
(* The window of Windows *)

\* A message of kind k that waits is handled by nobody but its own handler.
LEMMA StillWaiting ==
  ASSUME Typed, NEW k, Waiting(k),
         \/ posted' = posted
         \/ posted # <<>> /\ posted' = Tail(posted) /\ Head(posted).kind # k
         \/ \E m \in Messages : posted' = Append(posted, m)
  PROVE  Waiting(k)'
<1>1. PICK i \in 1 .. Len(posted) : posted[i].kind = k
  BY DEF Waiting
<1>2. posted \in Seq(Messages)
  BY DEF Typed
<1>3. CASE posted' = posted
  BY <1>1, <1>3 DEF Waiting
<1>4. CASE posted # <<>> /\ posted' = Tail(posted) /\ Head(posted).kind # k
  <2>1. i # 1 /\ i - 1 \in 1 .. Len(posted') /\ posted'[i - 1] = posted[i]
    BY <1>1, <1>2, <1>4, Taken
  <2> QED
    BY <1>1, <2>1 DEF Waiting
<1>5. ASSUME NEW m \in Messages, posted' = Append(posted, m)
      PROVE  Waiting(k)'
  <2>1. i \in 1 .. Len(posted') /\ posted'[i] = posted[i]
    BY <1>1, <1>2, <1>5, Added
  <2> QED
    BY <1>1, <2>1 DEF Waiting
<1> QED
  BY <1>3, <1>4, <1>5

LEMMA ShownKept ==
  ASSUME RunInv, Shown, Next
  PROVE  Shown'
<1>0. /\ window \in [mac : BOOLEAN, closed : BOOLEAN]
      /\ timer \in Nat /\ loop \in Nat /\ started \in Nat
      /\ timer # 0 => timer # loop
  BY SendingAssumption DEF RunInv, Typed, Current
<1>1. mac' = mac
  <2>1. window' = window \/ window' = [window EXCEPT !.closed = TRUE]
    BY DEF Next, Click, Handle, ClickConnect, ClickDisconnect, ClickSend, ClickTimer, ClickLoop,
           CloseWindow, Connected, OnClosed, Sent, TimerFailed, MacTimerSent, LoopDone, ConnectEnds,
           PeerCloses, SendEnds, MacTimerFires, RunStep, TimerStops, TimerTicks, TimerChecks, Step,
           RunSends, LoopChecks, LoopPauses, LoopStops, LoopFinishes, ui
  <2> QED
    BY <1>0, <2>1 DEF mac
<1> SUFFICES ASSUME ~mac
             PROVE  Shown'
  BY <1>1 DEF Shown
<1>2. ASSUME Reset, early' = early \/ early' = FALSE, timerSending' = timerSending
      PROVE  Shown'
  <2>1. timer' = 0 /\ loop' = 0 /\ loopButton' = "start"
    BY <1>2 DEF Reset, StopBoth, Stop
  <2> QED
    BY <1>2, <2>1 DEF Shown
<1>3. CASE ClickConnect \/ ClickSend \/ Sent \/ ConnectEnds \/ PeerCloses \/ SendEnds \/ MacTimerFires
  BY <1>3 DEF ClickConnect, ClickSend, Sent, ConnectEnds, PeerCloses, SendEnds, MacTimerFires, Shown, ui,
             tasks
<1>4. CASE ClickDisconnect
  BY <1>2, <1>4 DEF ClickDisconnect
<1>5. CASE ClickTimer
  <2>1. UNCHANGED ui
    BY <1>5 DEF ClickTimer
  <2>2. CASE timer # 0
    <3>1. timer' = 0 /\ loop' = loop
      BY <1>0, <1>5, <2>2 DEF ClickTimer, Stop
    <3> QED
      BY <2>1, <3>1 DEF Shown, ui
  <2>3. CASE timer = 0
    <3>1. connected /\ loop' = loop
      BY <1>5, <2>3 DEF ClickTimer
    <3> QED
      BY <2>1, <3>1 DEF Shown, ui
  <2> QED
    BY <2>2, <2>3
<1>6. CASE ClickLoop
  <2>1. /\ UNCHANGED <<connected, early, timerSending>>
        /\ (loop # 0 /\ StopLoop) \/ (loop = 0 /\ connected /\ StartLoop)
    BY <1>6 DEF ClickLoop
  <2>2. CASE StopLoop /\ loop # 0
    <3>1. loop' = 0 /\ timer' = timer /\ loopButton' = "start"
      BY <1>0, <2>2 DEF StopLoop, Stop
    <3> QED
      BY <2>1, <3>1 DEF Shown
  <2>3. CASE StartLoop /\ connected
    <3>1. loop' = started + 1 /\ started + 1 # 0 /\ loopButton' = "stop"
      BY <1>0, <2>3 DEF StartLoop
    <3> QED
      BY <2>1, <2>3, <3>1 DEF Shown
  <2> QED
    BY <2>1, <2>2, <2>3
<1>7. CASE CloseWindow
  BY <1>0, <1>7 DEF CloseWindow, Stop, Shown
<1>8. CASE Connected
  BY <1>8 DEF Connected, Shown, tasks
<1>9. CASE OnClosed
  <2>1. CASE Reset
    BY <1>2, <1>9, <2>1 DEF OnClosed
  <2>2. CASE ~Reset
    BY <1>9, <2>2 DEF OnClosed, Shown, tasks
  <2> QED
    BY <2>1, <2>2
<1>10. CASE TimerFailed \/ MacTimerSent
  BY <1>10 DEF TimerFailed, MacTimerSent, StopFailed, Shown, ui, tasks
<1>11. CASE LoopDone
  <2>1. Of # 0
    BY <1>11, HeadIsTrue DEF LoopDone, Truthful, Of
  <2> QED
    BY <1>11, <2>1 DEF LoopDone, Shown
<1>12. ASSUME NEW r \in Runs, RunStep(r)
       PROVE  Shown'
  <2>1. UNCHANGED <<ui, timer, loop>>
    BY <1>12 DEF RunStep, TimerStops, TimerTicks, TimerChecks, Step, RunSends, LoopChecks, LoopPauses,
                 LoopStops, LoopFinishes
  <2> QED
    BY <2>1 DEF Shown, ui
<1> QED
  BY <1>3, <1>4, <1>5, <1>6, <1>7, <1>8, <1>9, <1>10, <1>11, <1>12 DEF Next, Click, Handle

LEMMA SendShownKept ==
  ASSUME RunInv, RunInv', SendShown, Next
  PROVE  SendShown'
<1>0. window \in [mac : BOOLEAN, closed : BOOLEAN]
  BY DEF RunInv, Typed
<1>1. CASE ClickSend
  <2>1. sender' = TRUE
    BY <1>1 DEF ClickSend
  <2> QED
    BY <2>1 DEF SendShown
<1>2. CASE SendEnds
  <2>1. CASE closed
    BY <1>2, <2>1 DEF SendEnds, SendShown, ui, closed
  <2>2. CASE ~closed
    <3>1. PICK ok \in BOOLEAN : posted' = Append(posted, Msg("sent", 0, ok))
      BY <1>2, <2>2 DEF SendEnds
    <3>2. Msg("sent", 0, ok) \in Messages /\ Msg("sent", 0, ok).kind = "sent" /\ posted \in Seq(Messages)
      BY SendingAssumption DEF Msg, Messages, RunInv, Typed
    <3>3. Waiting("sent")'
      BY <3>1, <3>2, Added DEF Waiting
    <3> QED
      BY <3>3 DEF SendShown
  <2> QED
    BY <2>1, <2>2
<1>3. CASE Sent
  BY <1>3 DEF Sent, SendShown
<1>4. ASSUME UNCHANGED <<sending, sender>>, window' = window \/ window' = [window EXCEPT !.closed = TRUE],
             \/ posted' = posted
             \/ posted # <<>> /\ posted' = Tail(posted) /\ Head(posted).kind # "sent"
             \/ \E m \in Messages : posted' = Append(posted, m)
      PROVE  SendShown'
  <2>1. closed => closed'
    BY <1>0, <1>4 DEF closed
  <2>2. Waiting("sent") => Waiting("sent")'
    BY <1>4, StillWaiting DEF RunInv
  <2> QED
    BY <1>4, <2>1, <2>2 DEF SendShown
<1>5. CASE ClickConnect \/ ClickDisconnect \/ ClickTimer \/ ClickLoop \/ CloseWindow \/ MacTimerFires
  BY <1>4, <1>5 DEF ClickConnect, ClickDisconnect, ClickTimer, ClickLoop, CloseWindow, MacTimerFires, ui
<1>6. CASE Connected \/ OnClosed \/ TimerFailed \/ MacTimerSent \/ LoopDone
  <2>1. UNCHANGED <<sending, sender, window>>
    BY <1>6 DEF Connected, OnClosed, TimerFailed, MacTimerSent, LoopDone, ui
  <2>2. posted # <<>> /\ posted' = Tail(posted) /\ Head(posted).kind # "sent"
    BY <1>6 DEF Connected, OnClosed, TimerFailed, MacTimerSent, LoopDone, Handles
  <2> QED
    BY <1>4, <2>1, <2>2
<1>7. CASE ConnectEnds \/ PeerCloses
  <2>1. \A ok \in BOOLEAN : Msg("connect", 0, ok) \in Messages /\ Msg("closed", 0, TRUE) \in Messages
    BY SendingAssumption DEF Msg, Messages
  <2>2. /\ UNCHANGED <<sending, sender, window>>
        /\ posted' = posted \/ \E m \in Messages : posted' = Append(posted, m)
    BY <1>7, <2>1 DEF ConnectEnds, PeerCloses, ui
  <2> QED
    BY <1>4, <2>2
<1>8. ASSUME NEW r \in Runs, RunStep(r)
      PROVE  SendShown'
  <2>1. UNCHANGED <<sending, sender, window>>
    BY <1>8 DEF RunStep, TimerStops, TimerTicks, TimerChecks, Step, RunSends, LoopChecks, LoopPauses,
                LoopStops, LoopFinishes, ui
  <2>2. CASE RunSends(r)
    <3>1. posted' = posted \/ \E m \in Messages : posted' = Append(posted, m)
      BY <2>2, SendMoves DEF RunInv, RunTypes
    <3> QED
      BY <1>4, <2>1, <3>1
  <2>3. CASE LoopFinishes(r)
    <3>1. Msg("loopDone", r, TRUE) \in Messages
      BY SendingAssumption DEF Msg, Messages, Runs
    <3>2. posted' = posted \/ \E m \in Messages : posted' = Append(posted, m)
      BY <2>3, <3>1 DEF LoopFinishes
    <3> QED
      BY <1>4, <2>1, <3>2
  <2>4. CASE ~RunSends(r) /\ ~LoopFinishes(r)
    <3>1. posted' = posted
      BY <1>8, <2>4 DEF RunStep, TimerStops, TimerTicks, TimerChecks, Step, LoopChecks, LoopPauses, LoopStops
    <3> QED
      BY <1>4, <2>1, <3>1
  <2> QED
    BY <2>2, <2>3, <2>4
<1> QED
  BY <1>1, <1>2, <1>3, <1>5, <1>6, <1>7, <1>8 DEF Next, Click, Handle

LEMMA Inductive == Spec => []Inv
<1>1. Inv /\ [Next]_vars => Inv'
  <2> SUFFICES ASSUME Inv, [Next]_vars
               PROVE  Inv'
    OBVIOUS
  <2>1. CASE Next
    BY <2>1, StepInv, ShownKept, SendShownKept DEF Inv, Buttons
  <2>2. CASE UNCHANGED vars
    <3>1. RunInv'
      BY <2>2, StepInv DEF Inv
    <3>2. UNCHANGED <<sending, sender, posted, window, loopButton, loop, connected, timer, timerSending, early>>
      BY <2>2 DEF vars, ui, tasks
    <3> QED
      BY <2>2, <3>1, <3>2 DEF Inv, Buttons, Shown, SendShown, Waiting, mac, closed
  <2> QED
    BY <2>1, <2>2
<1> QED
  BY InitInv, <1>1, PTL DEF Spec

-----------------------------------------------------------------------------
(* Theorems *)

\* What an earlier timer or loop reports late never ends a later one, however the
\* goroutines, the posted functions and the user interleave: the comparison with
\* the run's own channel in the closures of startTimer and startLoop.
THEOREM RunsEndForTheirOwnReason == Spec => []EachRunEndsForItsOwnReason
<1>1. Inv => EachRunEndsForItsOwnReason
  BY DEF Inv, RunInv, Ends
<1> QED
  BY Inductive, <1>1, PTL

\* A stopped timer or loop sends at most what it was about to send: the second
\* look at cancel after the ticker, and the first of the loop.
THEOREM OneSendAfterStop == Spec => []AtMostOneSendAfterStop
<1>1. Inv => AtMostOneSendAfterStop
  BY DEF Inv, RunInv, Sends, AtMostOneSendAfterStop
<1> QED
  BY Inductive, <1>1, PTL

\* The window of Windows tells what runs, in every state: the end of a loop and
\* its button are one function of the main thread.
THEOREM ButtonsTellWhatRuns == Spec => []WindowsShowsWhatRuns
<1>1. Inv => WindowsShowsWhatRuns
  BY DEF Inv, Buttons, Shown, SendShown, WindowsShowsWhatRuns, WindowShowsWhatRuns
<1> QED
  BY Inductive, <1>1, PTL

-----------------------------------------------------------------------------
(* HttpWorkspace.  First, sequences in general.                             *)

\* A set of natural numbers has a least element.
LEMMA LeastNatural ==
  ASSUME NEW X, X # {}, X \subseteq Nat
  PROVE  \E x \in X : \A y \in X : x <= y
<1> DEFINE R == OpToRel(<, Nat)
<1>1. IsWellFoundedOn(R, Nat)
  BY NatLessThanWellFounded
<1> HIDE DEF R
<1>2. PICK x \in X : \A y \in X : ~(<<y, x>> \in R)
  BY <1>1, WFMin
<1>3. ASSUME NEW y \in X
      PROVE  x <= y
  <2>1. ~(<<y, x>> \in R) /\ x \in Nat /\ y \in Nat
    BY <1>2
  <2>2. y < x => <<y, x>> \in R
    BY <2>1 DEF R, OpToRel
  <2> QED
    BY <2>1, <2>2
<1> QED
  BY <1>3

\* A set of sequences that has the empty one, and with each one every longer one by
\* one element, has them all: if it did not, the shortest one it lacks would have a
\* shorter one that it has.
LEMMA SeqInduction ==
  ASSUME NEW X, NEW T, <<>> \in T, \A s \in Seq(X), x \in X : s \in T => Append(s, x) \in T
  PROVE  \A s \in Seq(X) : s \in T
<1> SUFFICES ASSUME NEW out \in Seq(X), out \notin T
             PROVE  FALSE
  OBVIOUS
<1> DEFINE Lacks(n) == \E s \in Seq(X) : s \notin T /\ Len(s) = n
           N == {n \in Nat : Lacks(n)}
<1>1. N # {} /\ N \subseteq Nat
  <2>1. Len(out) \in Nat /\ Lacks(Len(out))
    BY LenProperties
  <2> QED
    BY <2>1
<1>2. PICK n \in N : \A m \in N : n <= m
  <2> HIDE DEF N
  <2> QED
    BY <1>1, LeastNatural
<1>3. PICK s \in Seq(X) : s \notin T /\ Len(s) = n
  BY <1>2
<1>4. PICK t \in Seq(X), x \in X : s = Append(t, x)
  BY <1>3, SequenceEmptyOrAppend
<1>5. t \notin T /\ Len(t) \in Nat /\ Len(s) = Len(t) + 1
  BY <1>3, <1>4, LenProperties, AppendProperties
<1>6. Len(t) \in N
  BY <1>5
<1> QED
  BY <1>2, <1>3, <1>5, <1>6

\* Two functions that begin alike and, wherever they agree, go on alike.
LEMMA AgreeFromZero ==
  ASSUME NEW n \in Nat, NEW f, NEW g, f[0] = g[0],
         \A i \in 1 .. n : f[i - 1] = g[i - 1] => f[i] = g[i]
  PROVE  \A i \in 0 .. n : f[i] = g[i]
<1> SUFFICES ASSUME NEW k \in 0 .. n, f[k] # g[k]
             PROVE  FALSE
  OBVIOUS
<1> DEFINE N == {i \in 0 .. n : f[i] # g[i]}
<1>1. N # {} /\ N \subseteq Nat
  OBVIOUS
<1>2. PICK i \in N : \A j \in N : i <= j
  <2> HIDE DEF N
  <2> QED
    BY <1>1, LeastNatural
<1>3. i # 0
  BY <1>2
<1>4. i \in 1 .. n /\ i - 1 \in 0 .. n /\ ~(i <= i - 1)
  BY <1>2, <1>3
<1>5. f[i - 1] = g[i - 1]
  BY <1>2, <1>4
<1> QED
  BY <1>2, <1>4, <1>5

\* A sequence of one or two elements is what it is written as.
LEMMA OneOrTwo ==
  ASSUME NEW X, NEW t \in Seq(X)
  PROVE  /\ Len(t) = 1 => t = <<t[1]>> /\ t[1] \in X
         /\ Len(t) = 2 => t = <<t[1], t[2]>> /\ t[1] \in X /\ t[2] \in X
<1>1. Len(t) = 1 => t = <<t[1]>> /\ t[1] \in X
  <2> SUFFICES ASSUME Len(t) = 1
               PROVE  t = <<t[1]>> /\ t[1] \in X
    OBVIOUS
  <2>1. t[1] \in X
    <3>1. 1 \in 1 .. Len(t)
      OBVIOUS
    <3> QED
      BY <3>1, ElementOfSeq
  <2>2. <<t[1]>> \in Seq(X) /\ Len(<<t[1]>>) = 1 /\ <<t[1]>>[1] = t[1]
    BY <2>1
  <2>3. \A i \in 1 .. Len(t) : t[i] = <<t[1]>>[i]
    BY <2>2
  <2> QED
    BY <2>1, <2>2, <2>3, SeqEqual
<1>2. Len(t) = 2 => t = <<t[1], t[2]>> /\ t[1] \in X /\ t[2] \in X
  OBVIOUS
<1> QED
  BY <1>1, <1>2

\* A sequence is what comes before its last element, and that element.
LEMMA LastOfSeq ==
  ASSUME NEW X, NEW t \in Seq(X), t # <<>>
  PROVE  \E u \in Seq(X), x \in X :
            /\ t = Append(u, x)
            /\ x = t[Len(t)]
            /\ \A i \in 1 .. Len(u) : u[i] = t[i] /\ i \in 1 .. Len(t) - 1
<1>1. PICK u \in Seq(X), x \in X : t = Append(u, x)
  BY SequenceEmptyOrAppend
<1>2. /\ Len(u) \in Nat /\ Len(t) = Len(u) + 1
      /\ \A i \in 1 .. Len(u) : u[i] = t[i]
      /\ x = t[Len(u) + 1]
  BY <1>1, AppendProperties, LenProperties
<1>3. \A i \in 1 .. Len(u) : i \in 1 .. Len(t) - 1
  BY <1>2
<1>4. x = t[Len(t)]
  BY <1>2
<1> QED
  BY <1>1, <1>2, <1>3, <1>4

\* Sequences of one and of two elements.
LEMMA Short ==
  ASSUME NEW X, NEW c \in X, NEW d \in X
  PROVE  /\ <<c>> \in Seq(X) /\ <<c, d>> \in Seq(X)
         /\ Append(<<>>, c) = <<c>> /\ Append(<<c>>, d) = <<c, d>>
<1>1. <<>> \in Seq(X) /\ Len(<<>>) = 0
  BY EmptySeq
<1>2. <<c>> \in Seq(X)
  OBVIOUS
<1>3. <<c, d>> \in Seq(X)
  OBVIOUS
<1>4. Append(<<>>, c) = <<c>>
  <2>1. Append(<<>>, c) = <<>> \o <<c>>
    BY <1>1, AppendIsConcat
  <2> QED
    BY <1>2, <2>1, ConcatEmptySeq
<1>5. Append(<<c>>, d) = <<c, d>>
  <2>1. /\ Len(<<c>>) = 1 /\ <<c>>[1] = c
        /\ Len(<<c, d>>) = 2 /\ <<c, d>>[1] = c /\ <<c, d>>[2] = d
    OBVIOUS
  <2>2. /\ Append(<<c>>, d) \in Seq(X) /\ Len(Append(<<c>>, d)) = 2
        /\ Append(<<c>>, d)[1] = c /\ Append(<<c>>, d)[2] = d
    BY <1>2, <2>1, AppendProperties
  <2>3. \A i \in 1 .. 2 : Append(<<c>>, d)[i] = <<c, d>>[i]
    BY <2>1, <2>2
  <2> QED
    BY <1>3, <2>1, <2>2, <2>3, SeqEqual
<1> QED
  BY <1>2, <1>3, <1>4, <1>5

\* One element more on the right.
LEMMA ConcatAppend ==
  ASSUME NEW X, NEW s \in Seq(X), NEW t \in Seq(X), NEW x \in X
  PROVE  /\ s \o t \in Seq(X) /\ Append(t, x) \in Seq(X)
         /\ s \o Append(t, x) = Append(s \o t, x)
<1>1. <<x>> \in Seq(X)
  BY Short
<1>2. Append(t, x) = t \o <<x>> /\ s \o t \in Seq(X)
  BY AppendIsConcat, ConcatProperties
<1>3. Append(s \o t, x) = (s \o t) \o <<x>>
  BY <1>2, AppendIsConcat
<1>4. (s \o t) \o <<x>> = s \o (t \o <<x>>)
  BY <1>1, ConcatAssociative
<1> QED
  BY <1>2, <1>3, <1>4, AppendProperties

-----------------------------------------------------------------------------
(* Folds: functions that are defined by recursion along a sequence           *)

Fold(g, seq, S, base, Op) ==
  /\ g \in [0 .. Len(seq) -> S]
  /\ g[0] = base
  /\ \A i \in 1 .. Len(seq) : g[i] = Op[g[i - 1]][seq[i]]

\* There is such a function, by induction along the sequence.
LEMMA FoldExists ==
  ASSUME NEW X, NEW S, NEW base \in S, NEW Op \in [S -> [X -> S]], NEW seq \in Seq(X)
  PROVE  \E g : Fold(g, seq, S, base, Op)
<1> DEFINE T == {s \in Seq(X) : \E g : Fold(g, s, S, base, Op)}
<1>1. <<>> \in T
  <2>1. Fold([i \in 0 .. 0 |-> base], <<>>, S, base, Op)
    BY DEF Fold
  <2> HIDE DEF Fold
  <2> QED
    BY <2>1, EmptySeq
<1>2. ASSUME NEW s \in Seq(X), NEW x \in X, s \in T
      PROVE  Append(s, x) \in T
  <2>1. PICK g : Fold(g, s, S, base, Op)
    BY <1>2
  <2> DEFINE n == Len(s)
             h == [i \in 0 .. n + 1 |-> IF i = n + 1 THEN Op[g[n]][x] ELSE g[i]]
  <2>0. n \in Nat
    BY LenProperties
  <2>2. g[n] \in S /\ Op[g[n]][x] \in S
    <3>1. n \in 0 .. n
      BY <2>0
    <3>2. g[n] \in S
      BY <2>1, <3>1 DEF Fold
    <3> QED
      BY <3>1, <3>2
  <2>3. /\ Append(s, x) \in Seq(X) /\ Len(Append(s, x)) = n + 1
        /\ \A i \in 1 .. n : Append(s, x)[i] = s[i]
        /\ Append(s, x)[n + 1] = x
    BY AppendProperties
  <2>4. h \in [0 .. n + 1 -> S] /\ h[0] = base
    BY <2>0, <2>1, <2>2 DEF Fold
  <2>5. ASSUME NEW i \in 1 .. n + 1
        PROVE  h[i] = Op[h[i - 1]][Append(s, x)[i]]
    <3>1. CASE i = n + 1
      <4>1. h[i] = Op[g[n]][x] /\ h[i - 1] = g[n] /\ Append(s, x)[i] = x
        BY <2>0, <2>3, <3>1
      <4> QED
        BY <4>1
    <3>2. CASE i \in 1 .. n
      <4>0. i \in 0 .. n + 1 /\ i - 1 \in 0 .. n + 1 /\ i # n + 1 /\ i - 1 # n + 1
        BY <2>0, <3>2
      <4>1. h[i] = g[i] /\ h[i - 1] = g[i - 1] /\ Append(s, x)[i] = s[i]
        BY <2>3, <3>2, <4>0
      <4> QED
        BY <2>1, <3>2, <4>1 DEF Fold
    <3>3. i = n + 1 \/ i \in 1 .. n
      BY <2>0
    <3> QED
      BY <3>1, <3>2, <3>3
  <2>6. Fold(h, Append(s, x), S, base, Op)
    <3> HIDE DEF h
    <3> QED
      BY <2>3, <2>4, <2>5 DEF Fold
  <2> HIDE DEF h
  <2> QED
    BY <2>3, <2>6
<1>3. \A s \in Seq(X) : s \in T
  <2> HIDE DEF T
  <2> QED
    BY <1>1, <1>2, SeqInduction
<1> QED
  BY <1>3

\* The fold of a longer sequence takes one step more.
LEMMA FoldAppend ==
  ASSUME NEW X, NEW S, NEW base, NEW Op, NEW s \in Seq(X), NEW x \in X, NEW g, NEW h,
         Fold(g, s, S, base, Op), Fold(h, Append(s, x), S, base, Op)
  PROVE  h[Len(Append(s, x))] = Op[g[Len(s)]][x]
<1> DEFINE n == Len(s)
<1>1. /\ n \in Nat /\ Len(Append(s, x)) = n + 1
      /\ \A i \in 1 .. n : Append(s, x)[i] = s[i]
      /\ Append(s, x)[n + 1] = x
  BY AppendProperties, LenProperties
<1>2. \A i \in 0 .. n : h[i] = g[i]
  <2>1. ASSUME NEW i \in 1 .. n, h[i - 1] = g[i - 1]
        PROVE  h[i] = g[i]
    <3>1. i \in 1 .. n + 1
      BY <1>1
    <3> QED
      BY <1>1, <2>1, <3>1 DEF Fold
  <2>2. h[0] = g[0]
    BY DEF Fold
  <2>3. n \in Nat
    BY <1>1
  <2> HIDE DEF n
  <2> QED
    BY <2>1, <2>2, <2>3, AgreeFromZero, SMTT(30)
<1>3. n + 1 \in 1 .. n + 1 /\ n + 1 - 1 = n /\ n \in 0 .. n
  BY <1>1
<1> QED
  BY <1>1, <1>2, <1>3 DEF Fold
-----------------------------------------------------------------------------
(* FlattenSeq                                                                *)

\* FlattenSeq joins the sequences one after the other, as such a fold.
Joining(X) == [q \in Seq(X) |-> [x \in Seq(X) |-> q \o x]]

LEMMA FlattenFold ==
  ASSUME NEW X, NEW seqs \in Seq(Seq(X)), NEW g, Fold(g, seqs, Seq(X), <<>>, Joining(X))
  PROVE  FlattenSeq(seqs) = g[Len(seqs)] /\ g[Len(seqs)] \in Seq(X)
<1> DEFINE n == Len(seqs)
           Eq(f) == f = [i \in 1 .. n |-> IF i = 1 THEN seqs[i] ELSE f[i - 1] \o seqs[i]]
           r == [i \in 1 .. n |-> g[i]]
<1>1. n \in Nat /\ \A i \in 1 .. n : seqs[i] \in Seq(X)
  BY LenProperties
<1>2. g \in [0 .. n -> Seq(X)] /\ g[0] = <<>>
  BY DEF Fold
<1>3. ASSUME NEW i \in 1 .. n
      PROVE  g[i] = g[i - 1] \o seqs[i]
  <2>1. i - 1 \in 0 .. n
    BY <1>1
  <2>2. g[i - 1] \in Seq(X) /\ seqs[i] \in Seq(X)
    BY <1>1, <1>2, <2>1
  <2>3. g[i] = Joining(X)[g[i - 1]][seqs[i]]
    BY DEF Fold
  <2> QED
    BY <2>2, <2>3 DEF Joining
<1>4. CASE n = 0
  <2>1. seqs = <<>>
    BY <1>4, EmptySeq
  <2> QED
    BY <1>2, <1>4, <2>1 DEF FlattenSeq
<1>5. CASE n # 0
  <2>0. g[1] = seqs[1]
    <3>1. 1 \in 1 .. n /\ 1 - 1 = 0
      BY <1>1, <1>5
    <3>2. g[1] = g[0] \o seqs[1]
      BY <1>3, <3>1
    <3> QED
      BY <1>1, <1>2, <3>1, <3>2, ConcatEmptySeq
  <2>1. ASSUME NEW i \in 1 .. n
        PROVE  r[i] = IF i = 1 THEN seqs[i] ELSE r[i - 1] \o seqs[i]
    <3>1. CASE i = 1
      BY <2>0, <3>1
    <3>2. CASE i # 1
      <4>1. i - 1 \in 1 .. n
        BY <1>1, <3>2
      <4> QED
        BY <1>3, <3>2, <4>1
    <3> QED
      BY <3>1, <3>2
  <2>2. Eq(r)
    <3> HIDE DEF r
    <3>1. r = [i \in 1 .. n |-> r[i]]
      BY DEF r
    <3> QED
      BY <2>1, <3>1
  <2> DEFINE f == CHOOSE f : Eq(f)
  <2>3. Eq(f)
    <3> HIDE DEF Eq, r
    <3> QED
      BY <2>2, Zenon
  <2>4. FlattenSeq(seqs) = f[n]
    BY <1>5 DEF FlattenSeq
  <2> HIDE DEF f, r
  <2>5. \A i \in 1 .. n : f[i] = g[i]
    <3> SUFFICES ASSUME NEW k \in 1 .. n, f[k] # g[k]
                 PROVE  FALSE
      OBVIOUS
    <3> DEFINE N == {i \in 1 .. n : f[i] # g[i]}
    <3>1. N # {} /\ N \subseteq Nat
      OBVIOUS
    <3>2. PICK i \in N : \A j \in N : i <= j
      <4> HIDE DEF N
      <4> QED
        BY <3>1, LeastNatural
    <3>3. CASE i = 1
      <4>1. f[1] = seqs[1]
        BY <2>3, <3>2, <3>3
      <4> QED
        BY <2>0, <3>2, <3>3, <4>1
    <3>4. CASE i # 1
      <4>1. i - 1 \in 1 .. n /\ i \in 1 .. n /\ ~(i <= i - 1)
        BY <1>1, <3>2, <3>4
      <4>2. f[i - 1] = g[i - 1]
        BY <3>2, <4>1
      <4>3. f[i] = f[i - 1] \o seqs[i]
        BY <2>3, <3>4, <4>1
      <4> QED
        BY <1>3, <3>2, <4>1, <4>2, <4>3
    <3> QED
      BY <3>3, <3>4
  <2>6. n \in 1 .. n /\ n \in 0 .. n
    BY <1>1, <1>5
  <2> QED
    BY <1>2, <2>4, <2>5, <2>6
<1> QED
  BY <1>4, <1>5

LEMMA Flatten ==
  ASSUME NEW X
  PROVE  /\ FlattenSeq(<<>>) = <<>>
         /\ \A s \in Seq(Seq(X)) : FlattenSeq(s) \in Seq(X)
         /\ \A s \in Seq(Seq(X)), x \in Seq(X) : FlattenSeq(Append(s, x)) = FlattenSeq(s) \o x
<1>1. FlattenSeq(<<>>) = <<>>
  BY DEF FlattenSeq
<1>2. /\ <<>> \in Seq(X)
      /\ Joining(X) \in [Seq(X) -> [Seq(X) -> Seq(X)]]
  BY ConcatProperties, EmptySeq DEF Joining
<1>3. ASSUME NEW s \in Seq(Seq(X))
      PROVE  \E g : Fold(g, s, Seq(X), <<>>, Joining(X))
  <2> DEFINE Y == Seq(X)
             J == Joining(X)
  <2>1. <<>> \in Y /\ J \in [Y -> [Y -> Y]] /\ s \in Seq(Y)
    BY <1>2
  <2> HIDE DEF Y, J
  <2>2. \E g : Fold(g, s, Y, <<>>, J)
    BY <2>1, FoldExists
  <2> QED
    BY <2>2 DEF Y, J
<1>4. ASSUME NEW s \in Seq(Seq(X))
      PROVE  FlattenSeq(s) \in Seq(X)
  BY <1>3, FlattenFold
<1>5. ASSUME NEW s \in Seq(Seq(X)), NEW x \in Seq(X)
      PROVE  FlattenSeq(Append(s, x)) = FlattenSeq(s) \o x
  <2>1. Append(s, x) \in Seq(Seq(X))
    BY AppendProperties
  <2>2. PICK g : Fold(g, s, Seq(X), <<>>, Joining(X))
    BY <1>3
  <2>3. PICK h : Fold(h, Append(s, x), Seq(X), <<>>, Joining(X))
    BY <1>3, <2>1
  <2>4. h[Len(Append(s, x))] = Joining(X)[g[Len(s)]][x]
    BY <2>2, <2>3, FoldAppend
  <2>5. FlattenSeq(s) = g[Len(s)] /\ g[Len(s)] \in Seq(X)
    BY <2>2, FlattenFold
  <2>6. FlattenSeq(Append(s, x)) = h[Len(Append(s, x))]
    BY <2>1, <2>3, FlattenFold
  <2> QED
    BY <2>4, <2>5, <2>6 DEF Joining
<1> QED
  BY <1>1, <1>4, <1>5

\* The images of the elements of a sequence.
Images(f, s) == [i \in DOMAIN s |-> f[s[i]]]

LEMMA ImagesSteps ==
  ASSUME NEW X, NEW Y, NEW f \in [X -> Y]
  PROVE  /\ Images(f, <<>>) = <<>>
         /\ \A s \in Seq(X) : Images(f, s) \in Seq(Y)
         /\ \A s \in Seq(X), x \in X : Images(f, Append(s, x)) = Append(Images(f, s), f[x])
<1>1. Images(f, <<>>) = <<>>
  BY DEF Images
<1>2. ASSUME NEW s \in Seq(X)
      PROVE  Images(f, s) \in Seq(Y)
  <2>1. DOMAIN s = 1 .. Len(s) /\ Len(s) \in Nat /\ \A i \in 1 .. Len(s) : s[i] \in X
    BY LenProperties
  <2>2. \A i \in 1 .. Len(s) : f[s[i]] \in Y
    BY <2>1
  <2>3. [i \in 1 .. Len(s) |-> f[s[i]]] \in Seq(Y)
    BY <2>1, <2>2, IsASeq
  <2> QED
    BY <2>1, <2>3 DEF Images
<1>3. ASSUME NEW s \in Seq(X), NEW x \in X
      PROVE  Images(f, Append(s, x)) = Append(Images(f, s), f[x])
  <2> DEFINE n == Len(s)
             t == Append(s, x)
             a == Images(f, t)
             b == Images(f, s)
             c == Append(b, f[x])
  <2>1. n \in Nat /\ DOMAIN s = 1 .. n
    BY LenProperties
  <2>2. /\ t \in Seq(X) /\ Len(t) = n + 1 /\ DOMAIN t = 1 .. n + 1
        /\ \A i \in 1 .. n : t[i] = s[i]
        /\ t[n + 1] = x
    BY AppendProperties, LenProperties
  <2> HIDE DEF t
  <2>3. a \in Seq(Y) /\ b \in Seq(Y) /\ f[x] \in Y
    BY <1>2, <2>2
  <2>4. Len(a) = n + 1 /\ Len(b) = n
    BY <2>1, <2>2 DEF Images
  <2>5. /\ \A i \in 1 .. n : a[i] = f[s[i]] /\ b[i] = f[s[i]]
        /\ a[n + 1] = f[x]
    BY <2>1, <2>2 DEF Images
  <2> HIDE DEF a, b
  <2>6. /\ c \in Seq(Y) /\ Len(c) = n + 1
        /\ \A i \in 1 .. n : c[i] = b[i]
        /\ c[n + 1] = f[x]
    BY <2>3, <2>4, AppendProperties
  <2> HIDE DEF c
  <2>7. \A i \in 1 .. n + 1 : a[i] = c[i]
    <3>1. \A i \in 1 .. n + 1 : i \in 1 .. n \/ i = n + 1
      BY <2>1
    <3> QED
      BY <2>5, <2>6, <3>1
  <2>8. a = c
    BY <2>3, <2>4, <2>6, <2>7, SeqEqual
  <2> QED
    BY <2>8 DEF a, b, c, t
<1> QED
  BY <1>1, <1>2, <1>3

\* The images of the elements, flattened.
LEMMA FlattenMap ==
  ASSUME NEW X, NEW Y, NEW f \in [X -> Seq(Y)]
  PROVE  /\ FlattenSeq(Images(f, <<>>)) = <<>>
         /\ \A s \in Seq(X) : FlattenSeq(Images(f, s)) \in Seq(Y)
         /\ \A s \in Seq(X), x \in X :
              FlattenSeq(Images(f, Append(s, x))) = FlattenSeq(Images(f, s)) \o f[x]
<1> DEFINE Z == Seq(Y)
<1>1. f \in [X -> Z]
  OBVIOUS
<1> HIDE DEF Z
<1>2. /\ Images(f, <<>>) = <<>>
      /\ \A s \in Seq(X) : Images(f, s) \in Seq(Z)
      /\ \A s \in Seq(X), x \in X : Images(f, Append(s, x)) = Append(Images(f, s), f[x])
  BY <1>1, ImagesSteps, ZenonT(60)
<1>3. ASSUME NEW s \in Seq(X), NEW x \in X
      PROVE  FlattenSeq(Append(Images(f, s), f[x])) = FlattenSeq(Images(f, s)) \o f[x]
  <2>1. Images(f, s) \in Seq(Z) /\ f[x] \in Z
    BY <1>1, <1>2
  <2> QED
    BY <2>1, Flatten DEF Z
<1>4. \A s \in Seq(X) : FlattenSeq(Images(f, s)) \in Seq(Y)
  BY <1>2, Flatten DEF Z
<1> QED
  BY <1>2, <1>3, <1>4, Flatten

-----------------------------------------------------------------------------
(* The scanner                                                               *)

\* Strings; that a constant is one is said here because the provers do not see it.
OptionNames == {"-X", "-H", "--data", "--data-raw", "--data-binary", "--data-urlencode", "--form",
                "--cookie", "--user", "--user-agent", "--connect-timeout", "--max-time",
                "--insecure", "--location", "--"}
Atoms == STRING \cup {"SP", "NL", "SQ", "DQ", "$", "BS", ":", "=", "@", "&", "curl"}
                \cup {"GET", "POST", "PUT", "http://a", "JSON", "application/json", "-?", "-"}
                \cup OptionNames \cup ToSet(HeaderNames) \cup DOMAIN Seconds
                \cup {Dashed[c] : c \in DOMAIN Dashed}
Text  == Seq(Atoms)
ScanStates == [quote : {"", "SQ", "DQ", "$"}, pending : {"", "BS", "$"}, inToken : BOOLEAN,
               current : Text, args : Seq(Text), failed : BOOLEAN]
Scanner == [s \in ScanStates |-> [c \in Atoms |-> Scan(s, c)]]

\* Scan and the operators it consists of keep the types of the state.
LEMMA ScanType == ASSUME NEW s \in ScanStates, NEW c \in Atoms PROVE Scan(s, c) \in ScanStates
<1>1. Fail(s) \in ScanStates
  BY DEF ScanStates, Fail
<1>2. ASSUME NEW t \in Text
      PROVE  Write(s, t) \in ScanStates
  <2>1. s.current \o t \in Text
    BY ConcatProperties DEF ScanStates, Text
  <2> QED
    BY <2>1 DEF ScanStates, Write
<1>3. Flush(s) \in ScanStates
  <2>1. Append(s.args, s.current) \in Seq(Text) /\ <<>> \in Text
    BY AppendProperties, EmptySeq DEF ScanStates, Text
  <2> QED
    BY <2>1 DEF ScanStates, Flush
<1>4. /\ <<c>> \in Text /\ <<"NL">> \in Text /\ <<"SQ">> \in Text /\ <<"BS", c>> \in Text
  <2>1. "NL" \in Atoms /\ "SQ" \in Atoms /\ "BS" \in Atoms
    BY DEF Atoms
  <2> QED
    BY <2>1, Short DEF Text
<1>5. AnsiEscape(c) \in Text
  BY <1>4 DEF AnsiEscape
<1>6. AfterBackslash(s, c) \in ScanStates
  <2>1. [s EXCEPT !.pending = ""] \in ScanStates
    BY DEF ScanStates
  <2> QED
    BY <1>2, <1>4, <1>5, <2>1 DEF AfterBackslash
<1>7. AfterDollar(s, c) \in ScanStates
  <2>1. [s EXCEPT !.quote = "$", !.pending = "", !.inToken = TRUE] \in ScanStates
    BY DEF ScanStates
  <2> QED
    BY <1>1, <2>1 DEF AfterDollar
<1>8. Unquoted(s, c) \in ScanStates
  <2>1. c \in {"SQ", "DQ"} => [s EXCEPT !.quote = c, !.inToken = TRUE] \in ScanStates
    BY DEF ScanStates
  <2>2. c \in {"$", "BS"} => [s EXCEPT !.pending = c] \in ScanStates
    BY DEF ScanStates
  <2> QED
    BY <1>1, <1>2, <1>3, <1>4, <2>1, <2>2 DEF Unquoted
<1>9. Quoted(s, c) \in ScanStates
  <2>1. [s EXCEPT !.quote = ""] \in ScanStates
    BY DEF ScanStates
  <2>2. c = "BS" => [s EXCEPT !.pending = c] \in ScanStates
    BY DEF ScanStates
  <2> QED
    BY <1>1, <1>2, <1>4, <2>1, <2>2 DEF Quoted
<1>10. s.pending \in {"", "BS", "$"}
  BY DEF ScanStates
<1> QED
  BY <1>6, <1>7, <1>8, <1>9, <1>10 DEF Scan

\* ScanFrom is the fold of Scan.
LEMMA ScanFold ==
  ASSUME NEW s \in ScanStates, NEW t \in Text, NEW g, Fold(g, t, ScanStates, s, Scanner)
  PROVE  ScanFrom(s, t) = g[Len(t)] /\ g[Len(t)] \in ScanStates
<1> DEFINE n == Len(t)
           Eq(f) == f = [i \in 0 .. n |-> IF i = 0 THEN s ELSE Scan(f[i - 1], t[i])]
<1>1. n \in Nat /\ \A i \in 1 .. n : t[i] \in Atoms
  BY LenProperties DEF Text
<1>2. g \in [0 .. n -> ScanStates] /\ g[0] = s
  BY DEF Fold
<1>3. ASSUME NEW i \in 1 .. n
      PROVE  g[i] = Scan(g[i - 1], t[i])
  <2>1. i - 1 \in 0 .. n
    BY <1>1
  <2>2. g[i - 1] \in ScanStates /\ t[i] \in Atoms
    BY <1>1, <1>2, <2>1
  <2>3. g[i] = Scanner[g[i - 1]][t[i]]
    BY DEF Fold
  <2> QED
    BY <2>2, <2>3 DEF Scanner
<1>4. Eq(g)
  <2>1. g = [i \in 0 .. n |-> g[i]]
    BY <1>2
  <2>2. \A i \in 0 .. n : i = 0 \/ i \in 1 .. n
    BY <1>1
  <2>3. \A i \in 0 .. n : g[i] = IF i = 0 THEN s ELSE Scan(g[i - 1], t[i])
    BY <1>2, <1>3, <2>2
  <2> QED
    BY <2>1, <2>3
<1> DEFINE f == CHOOSE f : Eq(f)
<1>5. Eq(f)
  <2> HIDE DEF Eq
  <2> QED
    BY <1>4, Zenon
<1>6. ScanFrom(s, t) = f[n]
  BY DEF ScanFrom
<1> HIDE DEF f
<1>7. \A i \in 0 .. n : f[i] = g[i]
  <2>1. f[0] = g[0]
    BY <1>1, <1>2, <1>5
  <2>2. \A i \in 1 .. n : f[i] = Scan(f[i - 1], t[i])
    <3>1. \A i \in 1 .. n : i \in 0 .. n /\ i # 0
      BY <1>1
    <3> QED
      BY <1>5, <3>1
  <2>3. ASSUME NEW i \in 1 .. n, f[i - 1] = g[i - 1]
        PROVE  f[i] = g[i]
    BY <1>3, <2>2, <2>3
  <2> HIDE DEF n
  <2> QED
    BY <1>1, <2>1, <2>3, AgreeFromZero
<1>8. n \in 0 .. n
  BY <1>1
<1> QED
  BY <1>2, <1>6, <1>7, <1>8

\* One atom after the other.
LEMMA ScanSteps ==
  ASSUME NEW s \in ScanStates
  PROVE  /\ ScanFrom(s, <<>>) = s
         /\ \A t \in Text : ScanFrom(s, t) \in ScanStates
         /\ \A t \in Text, c \in Atoms : ScanFrom(s, Append(t, c)) = Scan(ScanFrom(s, t), c)
<1>1. Scanner \in [ScanStates -> [Atoms -> ScanStates]]
  BY ScanType DEF Scanner
<1>2. ASSUME NEW t \in Text
      PROVE  \E g : Fold(g, t, ScanStates, s, Scanner)
  BY <1>1, FoldExists DEF Text
<1>3. ScanFrom(s, <<>>) = s
  <2>1. <<>> \in Text /\ Len(<<>>) = 0
    BY EmptySeq DEF Text
  <2>2. PICK g : Fold(g, <<>>, ScanStates, s, Scanner)
    BY <1>2, <2>1
  <2>3. ScanFrom(s, <<>>) = g[0]
    BY <2>1, <2>2, ScanFold
  <2> QED
    BY <2>2, <2>3 DEF Fold
<1>4. ASSUME NEW t \in Text
      PROVE  ScanFrom(s, t) \in ScanStates
  BY <1>2, ScanFold
<1>5. ASSUME NEW t \in Text, NEW c \in Atoms
      PROVE  ScanFrom(s, Append(t, c)) = Scan(ScanFrom(s, t), c)
  <2>1. Append(t, c) \in Text
    BY AppendProperties DEF Text
  <2>2. PICK g : Fold(g, t, ScanStates, s, Scanner)
    BY <1>2
  <2>3. PICK h : Fold(h, Append(t, c), ScanStates, s, Scanner)
    BY <1>2, <2>1
  <2>4. h[Len(Append(t, c))] = Scanner[g[Len(t)]][c]
    <3> DEFINE X == Atoms
               S == ScanStates
               Op == Scanner
    <3>1. t \in Seq(X) /\ c \in X /\ Fold(g, t, S, s, Op) /\ Fold(h, Append(t, c), S, s, Op)
      BY <2>2, <2>3 DEF Text
    <3> HIDE DEF X, S, Op
    <3> QED
      BY <3>1, FoldAppend DEF S, Op
  <2>5. ScanFrom(s, t) = g[Len(t)] /\ g[Len(t)] \in ScanStates
    BY <2>2, ScanFold
  <2>6. ScanFrom(s, Append(t, c)) = h[Len(Append(t, c))]
    BY <2>1, <2>3, ScanFold
  <2> QED
    BY <2>4, <2>5, <2>6 DEF Scanner
<1> QED
  BY <1>3, <1>4, <1>5

\* One text after the other.
LEMMA ScanConcat ==
  ASSUME NEW s \in ScanStates, NEW t \in Text, NEW u \in Text
  PROVE  ScanFrom(s, t \o u) = ScanFrom(ScanFrom(s, t), u)
<1> DEFINE T == {v \in Text : ScanFrom(s, t \o v) = ScanFrom(ScanFrom(s, t), v)}
<1>0. ScanFrom(s, t) \in ScanStates
  BY ScanSteps
<1>1. <<>> \in T
  BY <1>0, ScanSteps, EmptySeq, ConcatEmptySeq DEF Text
<1>2. ASSUME NEW v \in Seq(Atoms), NEW c \in Atoms, v \in T
      PROVE  Append(v, c) \in T
  <2>1. t \o v \in Text /\ Append(v, c) \in Text /\ t \o Append(v, c) = Append(t \o v, c)
    BY ConcatAppend DEF Text
  <2>2. ScanFrom(s, t \o Append(v, c)) = Scan(ScanFrom(s, t \o v), c)
    <3>1. ScanFrom(s, Append(t \o v, c)) = Scan(ScanFrom(s, t \o v), c)
      BY <2>1, ScanSteps
    <3> QED
      BY <2>1, <3>1
  <2>3. ScanFrom(ScanFrom(s, t), Append(v, c)) = Scan(ScanFrom(ScanFrom(s, t), v), c)
    BY <1>0, ScanSteps DEF Text
  <2> QED
    BY <1>2, <2>1, <2>2, <2>3
<1>3. \A v \in Seq(Atoms) : v \in T
  <2> HIDE DEF T
  <2> QED
    BY <1>1, <1>2, SeqInduction
<1> QED
  BY <1>3 DEF Text

\* Texts of one and two atoms.
LEMMA ScanShort ==
  ASSUME NEW s \in ScanStates, NEW c \in Atoms, NEW d \in Atoms
  PROVE  /\ ScanFrom(s, <<c>>) = Scan(s, c)
         /\ ScanFrom(s, <<c, d>>) = Scan(Scan(s, c), d)
<1>1. <<>> \in Text /\ <<c>> \in Text
  BY EmptySeq, Short DEF Text
<1>2. Append(<<>>, c) = <<c>> /\ Append(<<c>>, d) = <<c, d>>
  BY Short
<1>3. ScanFrom(s, Append(<<>>, c)) = Scan(s, c)
  <2>1. ScanFrom(s, Append(<<>>, c)) = Scan(ScanFrom(s, <<>>), c)
    BY <1>1, ScanSteps
  <2> QED
    BY <2>1, ScanSteps
<1>4. ScanFrom(s, Append(<<c>>, d)) = Scan(ScanFrom(s, <<c>>), d)
  BY <1>1, ScanSteps
<1> QED
  BY <1>2, <1>3, <1>4

-----------------------------------------------------------------------------
(* Units and pieces                                                         *)

\* What IsPiece says of a unit, as a set.
Units  == [text : Seq(STRING), adds : Seq(STRING)]
Quotes == {"", "SQ", "DQ", "$"}

\* The scanner within a word, at the beginning of a unit.
Reads(q) == {s \in ScanStates : s.quote = q /\ s.pending = "" /\ s.failed = FALSE /\ (q # "" => s.inToken = TRUE)}
\* What a unit does to the state: the word that is read grows.
Grow(s, t) == [s EXCEPT !.current = @ \o t, !.inToken = TRUE]

\* What a unit holds is text.
LEMMA StringsAreText ==
  /\ Seq(STRING) \subseteq Text
  /\ \A c \in STRING : c \in Atoms
<1>1. \A c \in STRING : c \in Atoms
  BY DEF Atoms
<1>2. Seq(STRING) \subseteq Text
  <2> DEFINE T == Text
  <2>1. <<>> \in T
    BY EmptySeq DEF Text
  <2>2. ASSUME NEW s \in Seq(STRING), NEW c \in STRING, s \in T
        PROVE  Append(s, c) \in T
    BY <1>1, <2>2, AppendProperties DEF Text
  <2> HIDE DEF T
  <2>3. \A s \in Seq(STRING) : s \in T
    BY <2>1, <2>2, SeqInduction
  <2> QED
    BY <2>3 DEF T
<1> QED
  BY <1>1, <1>2

\* The scanner is then at the beginning of the next unit.
LEMMA GrowType ==
  ASSUME NEW q \in Quotes, NEW s \in Reads(q), NEW t \in Text
  PROVE  Grow(s, t) \in Reads(q)
<1>1. s.current \o t \in Text
  BY ConcatProperties DEF Reads, ScanStates, Text
<1> QED
  BY <1>1 DEF Reads, ScanStates, Grow

\* A unit adds to the word what it stands for: the code reads an atom that means
\* nothing, and each escape of the four quotations, as the grammar of units has them.
LEMMA UnitIsRead ==
  ASSUME NEW q \in Quotes, NEW s \in Reads(q), NEW u \in Units, IsUnit(q, u)
  PROVE  ScanFrom(s, u.text) = Grow(s, u.adds)
<1>1. s \in ScanStates /\ s.quote = q /\ s.pending = "" /\ s.failed = FALSE /\ (q # "" => s.inToken = TRUE)
  BY DEF Reads
<1>2. u.text \in Seq(STRING) /\ u.adds \in Seq(STRING)
  BY DEF Units
<1>3. "BS" \in Atoms
  BY DEF Atoms
<1>4. CASE Len(u.text) = 1 /\ u.text[1] \notin Meta(q) /\ u.adds = u.text
  <2> DEFINE c == u.text[1]
  <2>1. c \in Atoms /\ u.text = <<c>>
    <3>1. c \in STRING /\ u.text = <<c>>
      BY <1>2, <1>4
    <3> QED
      BY <3>1, StringsAreText
  <2>2. ScanFrom(s, u.text) = Scan(s, c)
    <3> HIDE DEF c
    <3>1. ScanFrom(s, <<c>>) = Scan(s, c)
      BY <1>1, <2>1, ScanShort
    <3> QED
      BY <2>1, <3>1
  <2> HIDE DEF c
  <2>3. c \notin Meta(q)
    BY <1>4 DEF c
  <2>4. Scan(s, c) = Write(s, <<c>>)
    <3>1. CASE q = ""
      BY <1>1, <2>3, <3>1 DEF Meta, Operators, Scan, Unquoted
    <3>2. CASE q # ""
      <4>1. Scan(s, c) = Quoted(s, c)
        BY <1>1, <3>2 DEF Scan
      <4>2. CASE q = "SQ"
        BY <1>1, <2>3, <4>1, <4>2 DEF Meta, Quoted
      <4>3. CASE q = "DQ"
        BY <1>1, <2>3, <4>1, <4>3 DEF Meta, Quoted
      <4>4. CASE q = "$"
        BY <1>1, <2>3, <4>1, <4>4 DEF Meta, Quoted
      <4> QED
        BY <3>2, <4>2, <4>3, <4>4 DEF Quotes
    <3> QED
      BY <3>1, <3>2
  <2>5. Write(s, <<c>>) = Grow(s, <<c>>)
    BY <1>1 DEF Write, Grow, ScanStates
  <2> QED
    BY <1>4, <2>1, <2>2, <2>4, <2>5
<1>5. CASE Len(u.text) = 2 /\ u.text[1] = "BS" /\ Escapes(q, u.text[2]) /\ u.adds = Escaped(q, u.text[2])
  <2> DEFINE c == u.text[2]
             e == [s EXCEPT !.pending = "BS"]
  <2>1. c \in Atoms /\ u.text = <<"BS", c>>
    <3>1. c \in STRING /\ u.text = <<"BS", c>>
      BY <1>2, <1>5
    <3> QED
      BY <3>1, StringsAreText
  <2>2. ScanFrom(s, u.text) = Scan(Scan(s, "BS"), c)
    <3> HIDE DEF c
    <3>1. ScanFrom(s, <<"BS", c>>) = Scan(Scan(s, "BS"), c)
      BY <1>1, <1>3, <2>1, ScanShort
    <3> QED
      BY <2>1, <3>1
  <2> HIDE DEF c
  <2>3. Escapes(q, c) /\ u.adds = Escaped(q, c)
    BY <1>5 DEF c
  <2>4. Scan(s, "BS") = e
    <3>1. q \in {"", "DQ", "$"}
      BY <2>3 DEF Escapes
    <3>2. CASE q = ""
      BY <1>1, <3>2 DEF Scan, Unquoted
    <3>3. CASE q # ""
      <4>1. Scan(s, "BS") = Quoted(s, "BS")
        BY <1>1, <3>3 DEF Scan
      <4> QED
        BY <1>1, <3>1, <3>3, <4>1 DEF Quoted
    <3> QED
      BY <3>2, <3>3
  <2>5. e.quote = q /\ e.pending = "BS" /\ e.failed = FALSE
    BY <1>1 DEF ScanStates
  <2>6. Scan(e, c) = AfterBackslash(e, c)
    <3> HIDE DEF e
    <3> QED
      BY <2>5 DEF Scan
  <2>7. \A t : Write(e, t) = Grow(s, t)
    BY <1>1 DEF Write, Grow, ScanStates
  <2>8. AfterBackslash(e, c) = Grow(s, Escaped(q, c))
    <3> HIDE DEF e
    <3>1. CASE q = "$"
      <4>1. Escaped(q, c) = AnsiEscape(c)
        BY <3>1 DEF Escaped, AnsiEscape
      <4> QED
        BY <2>5, <2>7, <3>1, <4>1 DEF AfterBackslash
    <3>2. CASE q # "$" /\ c # "NL"
      <4>1. Escaped(q, c) = <<c>>
        BY <3>2 DEF Escaped
      <4> QED
        BY <2>5, <2>7, <3>2, <4>1 DEF AfterBackslash
    <3>3. CASE q # "$" /\ c = "NL"
      <4>1. q = "DQ"
        BY <2>3, <3>3 DEF Escapes
      <4>2. Escaped(q, c) = <<>>
        BY <3>3, <4>1 DEF Escaped
      <4>3. AfterBackslash(e, c) = [e EXCEPT !.pending = ""]
        BY <2>5, <3>3 DEF AfterBackslash
      <4>4. [e EXCEPT !.pending = ""] = s
        BY <1>1 DEF e, ScanStates
      <4>5. s.current \o <<>> = s.current
        BY <1>1, ConcatEmptySeq DEF ScanStates, Text
      <4>6. Grow(s, <<>>) = s
        BY <1>1, <4>1, <4>5 DEF Grow, ScanStates
      <4> QED
        BY <4>2, <4>3, <4>4, <4>6
    <3> QED
      BY <3>1, <3>2, <3>3
  <2> QED
    BY <2>2, <2>3, <2>4, <2>6, <2>8
<1> QED
  BY <1>4, <1>5 DEF IsUnit

\* The texts of the units, and what they stand for, one after the other.
Texts(us) == FlattenSeq([i \in DOMAIN us |-> us[i].text])
Adds(us)  == FlattenSeq([i \in DOMAIN us |-> us[i].adds])

LEMMA UnitsGathered ==
  /\ Texts(<<>>) = <<>> /\ Adds(<<>>) = <<>>
  /\ \A us \in Seq(Units) : Texts(us) \in Text /\ Adds(us) \in Text
  /\ \A us \in Seq(Units), u \in Units :
        /\ Texts(Append(us, u)) = Texts(us) \o u.text
        /\ Adds(Append(us, u)) = Adds(us) \o u.adds
<1> DEFINE text == [u \in Units |-> u.text]
           adds == [u \in Units |-> u.adds]
<1>1. text \in [Units -> Seq(STRING)] /\ adds \in [Units -> Seq(STRING)]
  BY DEF Units
<1>2. ASSUME NEW us \in Seq(Units)
      PROVE  /\ Texts(us) = FlattenSeq(Images(text, us))
             /\ Adds(us) = FlattenSeq(Images(adds, us))
  <2>1. \A i \in DOMAIN us : us[i] \in Units
    OBVIOUS
  <2>2. \A i \in DOMAIN us : us[i].text = text[us[i]] /\ us[i].adds = adds[us[i]]
    BY <2>1
  <2>3. /\ [i \in DOMAIN us |-> us[i].text] = Images(text, us)
        /\ [i \in DOMAIN us |-> us[i].adds] = Images(adds, us)
    BY <2>2 DEF Images
  <2> HIDE DEF text, adds
  <2> QED
    BY <2>3 DEF Texts, Adds
<1>3. \A u \in Units : text[u] = u.text /\ adds[u] = u.adds
  OBVIOUS
<1> HIDE DEF text, adds
<1>4. Texts(<<>>) = <<>> /\ Adds(<<>>) = <<>>
  <2>1. <<>> \in Seq(Units)
    BY EmptySeq
  <2> QED
    BY <1>1, <1>2, <2>1, FlattenMap
<1>5. ASSUME NEW us \in Seq(Units)
      PROVE  Texts(us) \in Text /\ Adds(us) \in Text
  <2>1. FlattenSeq(Images(text, us)) \in Seq(STRING) /\ FlattenSeq(Images(adds, us)) \in Seq(STRING)
    BY <1>1, FlattenMap
  <2> QED
    BY <1>2, <2>1, StringsAreText
<1>6. ASSUME NEW us \in Seq(Units), NEW u \in Units
      PROVE  /\ Texts(Append(us, u)) = Texts(us) \o u.text
             /\ Adds(Append(us, u)) = Adds(us) \o u.adds
  <2>1. Append(us, u) \in Seq(Units)
    BY AppendProperties
  <2>2. FlattenSeq(Images(text, Append(us, u))) = FlattenSeq(Images(text, us)) \o text[u]
    BY <1>1, FlattenMap, ZenonT(60)
  <2>3. FlattenSeq(Images(adds, Append(us, u))) = FlattenSeq(Images(adds, us)) \o adds[u]
    BY <1>1, FlattenMap, ZenonT(60)
  <2> QED
    BY <1>2, <1>3, <2>1, <2>2, <2>3
<1> QED
  BY <1>4, <1>5, <1>6

LEMMA GrowTwice ==
  ASSUME NEW s \in ScanStates, NEW t \in Text, NEW u \in Text
  PROVE  Grow(Grow(s, t), u) = Grow(s, t \o u)
<1>1. (s.current \o t) \o u = s.current \o (t \o u)
  <2> DEFINE a == s.current
  <2>1. a \in Seq(Atoms) /\ t \in Seq(Atoms) /\ u \in Seq(Atoms)
    BY DEF ScanStates, Text
  <2> HIDE DEF a
  <2>2. (a \o t) \o u = a \o (t \o u)
    BY <2>1, ConcatAssociative
  <2> QED
    BY <2>2 DEF a
<1>2. Grow(s, t).current = s.current \o t
  BY DEF Grow, ScanStates
<1> QED
  BY <1>1, <1>2 DEF Grow, ScanStates

\* So do several units, by induction along them.
LEMMA UnitsAreRead ==
  ASSUME NEW q \in Quotes, NEW s \in Reads(q), NEW us \in Seq(Units),
         \A i \in 1 .. Len(us) : IsUnit(q, us[i])
  PROVE  ScanFrom(s, Texts(us)) = IF us = <<>> THEN s ELSE Grow(s, Adds(us))
<1> DEFINE Right(vs) == (\A i \in 1 .. Len(vs) : IsUnit(q, vs[i]))
                         => ScanFrom(s, Texts(vs)) = IF vs = <<>> THEN s ELSE Grow(s, Adds(vs))
           T == {vs \in Seq(Units) : Right(vs)}
<1>0. s \in ScanStates
  BY DEF Reads
<1>1. <<>> \in T
  <2>1. ScanFrom(s, Texts(<<>>)) = s
    BY <1>0, ScanSteps, UnitsGathered
  <2> QED
    BY <2>1, EmptySeq
<1>2. ASSUME NEW vs \in Seq(Units), NEW u \in Units, vs \in T
      PROVE  Append(vs, u) \in T
  <2> DEFINE ws == Append(vs, u)
  <2>1. /\ ws \in Seq(Units) /\ Len(vs) \in Nat /\ Len(ws) = Len(vs) + 1
        /\ \A i \in 1 .. Len(vs) : ws[i] = vs[i]
        /\ ws[Len(vs) + 1] = u
    BY AppendProperties, LenProperties
  <2>2. ws # <<>>
    <3>1. Len(ws) # 0
      BY <2>1
    <3> HIDE DEF ws
    <3> QED
      BY <3>1, EmptySeq
  <2>3. /\ Texts(ws) = Texts(vs) \o u.text /\ Adds(ws) = Adds(vs) \o u.adds
        /\ Texts(vs) \in Text /\ Adds(vs) \in Text /\ u.text \in Text /\ u.adds \in Text
    <3>1. u.text \in Seq(STRING) /\ u.adds \in Seq(STRING)
      BY DEF Units
    <3> QED
      BY <3>1, StringsAreText, UnitsGathered
  <2> HIDE DEF ws
  <2>4. SUFFICES ASSUME \A i \in 1 .. Len(ws) : IsUnit(q, ws[i])
                 PROVE  ScanFrom(s, Texts(ws)) = Grow(s, Adds(ws))
    BY <2>1, <2>2 DEF ws
  <2>5. IsUnit(q, u) /\ \A i \in 1 .. Len(vs) : IsUnit(q, vs[i])
    <3>1. Len(vs) + 1 \in 1 .. Len(ws) /\ \A i \in 1 .. Len(vs) : i \in 1 .. Len(ws)
      BY <2>1
    <3> QED
      BY <2>1, <2>4, <3>1
  <2>6. ScanFrom(s, Texts(ws)) = ScanFrom(ScanFrom(s, Texts(vs)), u.text)
    BY <1>0, <2>3, ScanConcat
  <2>7. ScanFrom(s, Texts(vs)) = IF vs = <<>> THEN s ELSE Grow(s, Adds(vs))
    BY <1>2, <2>5
  <2>8. CASE vs = <<>>
    <3>1. ScanFrom(s, Texts(ws)) = Grow(s, u.adds)
      BY <2>5, <2>6, <2>7, <2>8, UnitIsRead
    <3>2. Adds(vs) = <<>>
      BY <2>8, UnitsGathered
    <3>3. <<>> \o u.adds = u.adds
      BY <2>3, ConcatEmptySeq DEF Text
    <3> QED
      BY <2>3, <3>1, <3>2, <3>3
  <2>9. CASE vs # <<>>
    <3> DEFINE g == Grow(s, Adds(vs))
    <3>1. g \in Reads(q)
      BY <2>3, GrowType
    <3>2. ScanFrom(g, u.text) = Grow(g, u.adds)
      <4> HIDE DEF g
      <4> QED
        BY <2>5, <3>1, UnitIsRead
    <3>3. Grow(g, u.adds) = Grow(s, Adds(ws))
      BY <1>0, <2>3, GrowTwice
    <3> QED
      BY <2>6, <2>7, <2>9, <3>2, <3>3
  <2> QED
    BY <2>8, <2>9
<1>3. \A vs \in Seq(Units) : vs \in T
  <2> HIDE DEF T
  <2> QED
    BY <1>1, <1>2, SeqInduction
<1>4. Right(us)
  BY <1>3
<1> QED
  BY <1>4

\* An error is the end of the scan.
LEMMA FailedStays ==
  ASSUME NEW s \in ScanStates, s.failed = TRUE, NEW t \in Text
  PROVE  ScanFrom(s, t).failed = TRUE
<1> DEFINE T == {u \in Text : ScanFrom(s, u).failed = TRUE}
<1>1. <<>> \in T
  BY ScanSteps, EmptySeq DEF Text
<1>2. ASSUME NEW u \in Seq(Atoms), NEW c \in Atoms, u \in T
      PROVE  Append(u, c) \in T
  <2>1. Append(u, c) \in Text /\ u \in Text
    BY AppendProperties DEF Text
  <2>2. ScanFrom(s, Append(u, c)) = Scan(ScanFrom(s, u), c)
    BY <2>1, ScanSteps
  <2>3. ScanFrom(s, u).failed = TRUE
    BY <1>2
  <2>4. Scan(ScanFrom(s, u), c) = ScanFrom(s, u)
    BY <2>3 DEF Scan
  <2> QED
    BY <2>1, <2>2, <2>3, <2>4
<1>3. \A u \in Seq(Atoms) : u \in T
  <2> HIDE DEF T
  <2> QED
    BY <1>1, <1>2, SeqInduction
<1> QED
  BY <1>3 DEF Text

\* The state behind a quotation mark.
Open(s, q) == IF q = "" THEN s ELSE [s EXCEPT !.quote = q, !.inToken = TRUE]

\* The mark that opens a quotation adds nothing but begins a word.
LEMMA QuotationOpens ==
  ASSUME NEW q \in Quotes, NEW s \in Reads("")
  PROVE  /\ Opening(q) \in Text /\ Closing(q) \in Text
         /\ ScanFrom(s, Opening(q)) = Open(s, q)
         /\ Open(s, q) \in Reads(q)
<1>1. s \in ScanStates /\ s.quote = "" /\ s.pending = "" /\ s.failed = FALSE
  BY DEF Reads
<1>2. "SQ" \in Atoms /\ "DQ" \in Atoms /\ "$" \in Atoms
  BY DEF Atoms
<1>3. <<>> \in Text /\ <<"SQ">> \in Text /\ <<"DQ">> \in Text /\ <<"$", "SQ">> \in Text
  BY <1>2, EmptySeq, Short DEF Text
<1>4. Open(s, q) \in Reads(q)
  BY <1>1 DEF Open, Reads, ScanStates, Quotes
<1>5. CASE q = ""
  <2>1. Opening(q) = <<>> /\ Closing(q) = <<>>
    BY <1>5 DEF Opening, Closing
  <2> QED
    BY <1>1, <1>3, <1>4, <1>5, <2>1, ScanSteps DEF Open
<1>6. CASE q = "SQ" \/ q = "DQ"
  <2>1. Opening(q) = <<q>> /\ Closing(q) = <<q>>
    BY <1>6 DEF Opening, Closing
  <2>2. q \in Atoms
    BY <1>2, <1>6
  <2>3. ScanFrom(s, <<q>>) = Scan(s, q)
    BY <1>1, <2>2, ScanShort
  <2>4. Scan(s, q) = Open(s, q)
    BY <1>1, <1>6 DEF Scan, Unquoted, Open
  <2> QED
    BY <1>3, <1>4, <1>6, <2>1, <2>3, <2>4
<1>7. CASE q = "$"
  <2>1. Opening(q) = <<"$", "SQ">> /\ Closing(q) = <<"SQ">>
    BY <1>7 DEF Opening, Closing
  <2>2. ScanFrom(s, <<"$", "SQ">>) = Scan(Scan(s, "$"), "SQ")
    BY <1>1, <1>2, ScanShort
  <2> DEFINE e == [s EXCEPT !.pending = "$"]
  <2>3. Scan(s, "$") = e
    BY <1>1 DEF Scan, Unquoted
  <2>4. e.pending = "$" /\ e.failed = FALSE
    BY <1>1 DEF ScanStates
  <2>5. Scan(e, "SQ") = AfterDollar(e, "SQ")
    <3> HIDE DEF e
    <3> QED
      BY <2>4 DEF Scan
  <2>6. AfterDollar(e, "SQ") = [e EXCEPT !.quote = "$", !.pending = "", !.inToken = TRUE]
    BY DEF AfterDollar
  <2>7. [e EXCEPT !.quote = "$", !.pending = "", !.inToken = TRUE] = Open(s, q)
    BY <1>1, <1>7 DEF Open, ScanStates
  <2> QED
    BY <1>3, <1>4, <2>1, <2>2, <2>3, <2>5, <2>6, <2>7
<1> QED
  BY <1>5, <1>6, <1>7 DEF Quotes

\* The mark that closes it leaves what was read.
LEMMA QuotationCloses ==
  ASSUME NEW q \in Quotes, NEW s \in Reads(q)
  PROVE  ScanFrom(s, Closing(q)) = [s EXCEPT !.quote = ""]
<1>1. s \in ScanStates /\ s.quote = q /\ s.pending = "" /\ s.failed = FALSE
  BY DEF Reads
<1>2. "SQ" \in Atoms /\ "DQ" \in Atoms
  BY DEF Atoms
<1>3. CASE q = ""
  <2>1. Closing(q) = <<>> /\ [s EXCEPT !.quote = ""] = s
    BY <1>1, <1>3 DEF Closing, ScanStates
  <2> QED
    BY <1>1, <2>1, ScanSteps
<1>4. CASE q # ""
  <2> DEFINE c == IF q = "$" THEN "SQ" ELSE q
  <2>1. Closing(q) = <<c>> /\ c \in Atoms
    BY <1>2, <1>4 DEF Closing, Quotes
  <2>2. ScanFrom(s, <<c>>) = Scan(s, c)
    <3> HIDE DEF c
    <3> QED
      BY <1>1, <2>1, ScanShort
  <2>3. Scan(s, c) = Quoted(s, c)
    BY <1>1, <1>4 DEF Scan
  <2>4. Quoted(s, c) = [s EXCEPT !.quote = ""]
    <3>1. c = IF s.quote = "$" THEN "SQ" ELSE s.quote
      BY <1>1
    <3>2. c = "SQ" \/ c = "DQ"
      BY <1>4 DEF Quotes
    <3> HIDE DEF c
    <3> QED
      BY <3>1, <3>2 DEF Quoted
  <2> QED
    BY <2>1, <2>2, <2>3, <2>4
<1> QED
  BY <1>3, <1>4

\* The text of a piece, one part after the other.
LEMMA TextIsScanned ==
  ASSUME NEW p, p.units \in Seq(Units), p.quote \in Quotes, NEW s \in Reads("")
  PROVE  /\ TextOf(p) \in Text /\ AddsOf(p) \in Text
         /\ ScanFrom(s, TextOf(p)) =
              ScanFrom(ScanFrom(Open(s, p.quote), Texts(p.units)), Closing(p.quote))
<1>1. s \in ScanStates
  BY DEF Reads
<1>2. /\ Opening(p.quote) \in Text /\ Closing(p.quote) \in Text
      /\ ScanFrom(s, Opening(p.quote)) = Open(s, p.quote)
  BY QuotationOpens
<1>3. Texts(p.units) \in Text /\ Adds(p.units) \in Text
  BY UnitsGathered
<1>4. TextOf(p) = (Opening(p.quote) \o Texts(p.units)) \o Closing(p.quote) /\ AddsOf(p) = Adds(p.units)
  BY DEF TextOf, Texts, AddsOf, Adds
<1>5. Opening(p.quote) \o Texts(p.units) \in Text
  BY <1>2, <1>3, ConcatProperties DEF Text
<1>6. TextOf(p) \in Text
  BY <1>2, <1>4, <1>5, ConcatProperties DEF Text
<1>7. ScanFrom(s, TextOf(p)) = ScanFrom(ScanFrom(s, Opening(p.quote) \o Texts(p.units)), Closing(p.quote))
  BY <1>1, <1>2, <1>4, <1>5, ScanConcat, ZenonT(60)
<1>8. ScanFrom(s, Opening(p.quote) \o Texts(p.units)) = ScanFrom(Open(s, p.quote), Texts(p.units))
  <2>1. ScanFrom(s, Opening(p.quote) \o Texts(p.units)) = ScanFrom(ScanFrom(s, Opening(p.quote)), Texts(p.units))
    BY <1>1, <1>2, <1>3, ScanConcat
  <2> QED
    BY <1>2, <2>1
<1> QED
  BY <1>3, <1>4, <1>6, <1>7, <1>8

\* A word adds to the word that is read.
LEMMA WordIsRead ==
  ASSUME NEW p, IsPiece(p), p.is = "word", NEW s \in Reads("")
  PROVE  ScanFrom(s, TextOf(p)) = Grow(s, AddsOf(p))
<1> DEFINE q == p.quote
           us == p.units
           o == Open(s, q)
           g == Grow(o, Adds(us))
<1>1. /\ us \in Seq(Units) /\ q \in Quotes /\ (q = "" => us # <<>>)
      /\ \A i \in 1 .. Len(us) : IsUnit(q, us[i])
  BY DEF IsPiece, Units, Quotes
<1>2. ScanFrom(s, TextOf(p)) = ScanFrom(ScanFrom(o, Texts(us)), Closing(q))
  BY <1>1, TextIsScanned
<1>3. o \in Reads(q)
  BY <1>1, QuotationOpens
<1>4. ScanFrom(o, Texts(us)) = IF us = <<>> THEN o ELSE g
  <2> HIDE DEF o, q, us
  <2> QED
    BY <1>1, <1>3, UnitsAreRead DEF g
<1>5. Adds(us) \in Text /\ AddsOf(p) = Adds(us)
  BY <1>1, UnitsGathered DEF AddsOf, Adds
<1>6. g \in Reads(q)
  <2> HIDE DEF o, q, us
  <2> QED
    BY <1>1, <1>3, <1>5, GrowType
<1>7. us = <<>> => g = o
  <2> SUFFICES ASSUME us = <<>> PROVE g = o
    OBVIOUS
  <2>1. Adds(us) = <<>> /\ q # ""
    BY <1>1, UnitsGathered
  <2>2. o.current \in Seq(Atoms) /\ o.inToken = TRUE /\ o \in ScanStates
    BY <1>3, <2>1 DEF Reads, ScanStates, Text
  <2> HIDE DEF o
  <2>3. o.current \o <<>> = o.current
    BY <2>2, ConcatEmptySeq
  <2> QED
    BY <2>1, <2>2, <2>3 DEF Grow, ScanStates
<1>8. ScanFrom(g, Closing(q)) = [g EXCEPT !.quote = ""]
  <2> HIDE DEF g, q
  <2> QED
    BY <1>1, <1>6, QuotationCloses
<1>9. [g EXCEPT !.quote = ""] = Grow(s, Adds(us))
  <2>1. s \in ScanStates /\ s.quote = ""
    BY DEF Reads
  <2> HIDE DEF q, us
  <2> QED
    BY <2>1 DEF Grow, Open, ScanStates
<1> QED
  BY <1>2, <1>4, <1>5, <1>7, <1>8, <1>9

\* White space ends the word.
LEMMA SpaceIsRead ==
  ASSUME NEW p, IsPiece(p), p.is = "space", NEW s \in Reads("")
  PROVE  ScanFrom(s, TextOf(p)) = Flush(s)
<1>1. PICK c \in {"SP", "NL"} : TextOf(p) = <<c>>
  <2>1. TextOf(p) \in {<<"SP">>, <<"NL">>}
    BY DEF IsPiece
  <2> QED
    BY <2>1
<1>2. c \in Atoms
  BY DEF Atoms
<1>3. s \in ScanStates /\ s.quote = "" /\ s.pending = "" /\ s.failed = FALSE
  BY DEF Reads
<1>4. ScanFrom(s, <<c>>) = Scan(s, c)
  BY <1>2, <1>3, ScanShort
<1>5. Scan(s, c) = Flush(s)
  BY <1>3 DEF Scan, Unquoted
<1> QED
  BY <1>1, <1>4, <1>5

\* A backslash at the end of a line does nothing.
LEMMA ContinuedIsRead ==
  ASSUME NEW p, IsPiece(p), p.is = "continued", NEW s \in Reads("")
  PROVE  ScanFrom(s, TextOf(p)) = s
<1>1. TextOf(p) = <<"BS", "NL">>
  BY DEF IsPiece
<1>2. "BS" \in Atoms /\ "NL" \in Atoms
  BY DEF Atoms
<1>3. s \in ScanStates /\ s.quote = "" /\ s.pending = "" /\ s.failed = FALSE
  BY DEF Reads
<1>4. ScanFrom(s, <<"BS", "NL">>) = Scan(Scan(s, "BS"), "NL")
  BY <1>2, <1>3, ScanShort
<1> DEFINE e == [s EXCEPT !.pending = "BS"]
<1>5. Scan(s, "BS") = e
  BY <1>3 DEF Scan, Unquoted
<1>6. e.pending = "BS" /\ e.failed = FALSE /\ e.quote = ""
  BY <1>3 DEF ScanStates
<1>7. Scan(e, "NL") = [e EXCEPT !.pending = ""]
  <2> HIDE DEF e
  <2> QED
    BY <1>6 DEF Scan, AfterBackslash
<1>8. [e EXCEPT !.pending = ""] = s
  BY <1>3 DEF ScanStates
<1> QED
  BY <1>1, <1>4, <1>5, <1>7, <1>8

\* What needs a shell is refused where it stands.
LEMMA ShellUnitFails ==
  ASSUME NEW q \in {"", "DQ"}, NEW s \in Reads(q), NEW u \in Units, NeedsShell(q, u)
  PROVE  ScanFrom(s, u.text).failed = TRUE
<1>1. s \in ScanStates /\ s.quote = q /\ s.pending = "" /\ s.failed = FALSE
  BY DEF Reads
<1>2. u.text \in Seq(STRING)
  BY DEF Units
<1>3. \A t \in ScanStates : Fail(t) \in ScanStates /\ Fail(t).failed = TRUE
  BY DEF ScanStates, Fail
<1>4. CASE Len(u.text) = 1 /\ u.text[1] \in (IF q = "" THEN Operators ELSE {"BQ"})
  <2>1. PICK c \in STRING : u.text = <<c>> /\ c = u.text[1]
    <3>0. Len(u.text) = 1
      BY <1>4
    <3>1. u.text = <<u.text[1]>> /\ u.text[1] \in STRING
      BY <1>2, <3>0, OneOrTwo, Zenon
    <3> QED
      BY <3>1, Zenon
  <2>2. ScanFrom(s, <<c>>) = Scan(s, c)
    BY <1>1, <2>1, ScanShort, StringsAreText
  <2>3. Scan(s, c) = Fail(s)
    <3>0. c \in (IF q = "" THEN Operators ELSE {"BQ"})
      BY <1>4, <2>1
    <3>1. CASE q = ""
      BY <1>1, <3>0, <3>1 DEF Operators, Scan, Unquoted
    <3>2. CASE q = "DQ"
      BY <1>1, <3>0, <3>2 DEF Scan, Quoted
    <3> QED
      BY <3>1, <3>2
  <2> QED
    BY <1>1, <1>3, <2>1, <2>2, <2>3
<1>5. CASE Len(u.text) = 2 /\ u.text[1] = "$" /\ u.text[2] \notin Meta("")
  <2>1. PICK c \in STRING : u.text = <<"$", c>> /\ c = u.text[2]
    <3>0. Len(u.text) = 2 /\ u.text[1] = "$"
      BY <1>5
    <3>1. u.text = <<"$", u.text[2]>> /\ u.text[2] \in STRING
      BY <1>2, <3>0, OneOrTwo, Zenon
    <3> QED
      BY <3>1, Zenon
  <2>2. ScanFrom(s, <<"$", c>>) = Scan(Scan(s, "$"), c)
    <3>1. "$" \in Atoms /\ c \in Atoms
      BY <2>1, StringsAreText DEF Atoms
    <3> QED
      BY <1>1, <3>1, ScanShort
  <2>3. CASE q = ""
    <3> DEFINE e == [s EXCEPT !.pending = "$"]
    <3>1. Scan(s, "$") = e
      BY <1>1, <2>3 DEF Scan, Unquoted
    <3>2. e.pending = "$" /\ e.failed = FALSE /\ e \in ScanStates
      BY <1>1 DEF ScanStates
    <3>3. c # "SQ"
      BY <1>5, <2>1 DEF Meta
    <3> HIDE DEF e
    <3>4. Scan(e, c) = Fail(e)
      BY <3>2, <3>3 DEF Scan, AfterDollar
    <3> QED
      BY <1>3, <2>1, <2>2, <3>1, <3>2, <3>4
  <2>4. CASE q = "DQ"
    <3> DEFINE e == Fail(s)
    <3>1. Scan(s, "$") = e
      BY <1>1, <2>4 DEF Scan, Quoted
    <3>2. e.failed = TRUE
      BY <1>1, <1>3
    <3> HIDE DEF e
    <3>3. Scan(e, c) = e
      BY <3>2 DEF Scan
    <3> QED
      BY <2>1, <2>2, <3>1, <3>2, <3>3
  <2> QED
    BY <2>3, <2>4
<1> QED
  BY <1>4, <1>5 DEF NeedsShell

\* So is the piece it ends.
LEMMA ShellFails ==
  ASSUME NEW p, IsPiece(p), p.is = "shell", NEW s \in Reads("")
  PROVE  ScanFrom(s, TextOf(p)).failed = TRUE
<1> DEFINE q == p.quote
           us == p.units
           o == Open(s, q)
<1>1. /\ us \in Seq(Units) /\ q \in {"", "DQ"} /\ q \in Quotes /\ us # <<>>
      /\ NeedsShell(q, us[Len(us)])
      /\ \A i \in 1 .. Len(us) - 1 : IsUnit(q, us[i])
  BY DEF IsPiece, Units, Quotes
<1>2. ScanFrom(s, TextOf(p)) = ScanFrom(ScanFrom(o, Texts(us)), Closing(q))
  BY <1>1, TextIsScanned
<1>3. o \in Reads(q) /\ Closing(q) \in Text
  BY <1>1, QuotationOpens
<1> HIDE DEF q, us, o
<1>4. PICK vs \in Seq(Units), u \in Units :
        /\ us = Append(vs, u)
        /\ u = us[Len(us)]
        /\ \A i \in 1 .. Len(vs) : vs[i] = us[i] /\ i \in 1 .. Len(us) - 1
  BY <1>1, LastOfSeq
<1>6. NeedsShell(q, u) /\ \A i \in 1 .. Len(vs) : IsUnit(q, vs[i])
  BY <1>1, <1>4
<1> DEFINE e == ScanFrom(o, Texts(vs))
<1>7. e \in Reads(q)
  <2>1. e = IF vs = <<>> THEN o ELSE Grow(o, Adds(vs))
    BY <1>1, <1>3, <1>6, UnitsAreRead
  <2>2. Adds(vs) \in Text
    BY UnitsGathered
  <2>3. Grow(o, Adds(vs)) \in Reads(q)
    BY <1>1, <1>3, <2>2, GrowType
  <2> QED
    BY <1>3, <2>1, <2>3
<1>8. ScanFrom(o, Texts(us)) = ScanFrom(e, u.text)
  <2>1. u.text \in Text /\ Texts(vs) \in Text
    <3>1. u.text \in Seq(STRING)
      BY DEF Units
    <3> QED
      BY <3>1, StringsAreText, UnitsGathered
  <2>2. Texts(us) = Texts(vs) \o u.text
    BY <1>4, UnitsGathered
  <2>3. o \in ScanStates
    BY <1>3 DEF Reads
  <2> QED
    BY <2>1, <2>2, <2>3, ScanConcat, ZenonT(60)
<1>9. ScanFrom(e, u.text).failed = TRUE /\ ScanFrom(e, u.text) \in ScanStates
  <2> HIDE DEF e
  <2>1. e \in ScanStates /\ u.text \in Text
    <3>1. u.text \in Seq(STRING)
      BY DEF Units
    <3> QED
      BY <1>7, <3>1, StringsAreText DEF Reads
  <2> QED
    BY <1>1, <1>6, <1>7, <2>1, ShellUnitFails, ScanSteps
<1> QED
  BY <1>2, <1>3, <1>8, <1>9, FailedStays

-----------------------------------------------------------------------------
(* What a shell reads                                                       *)

\* What Reading has read, and Read as a function.
Readings == [words : Seq(Text), word : Text, in : BOOLEAN]
Reader   == [r \in Readings |-> [p \in Pieces |-> Read(r, p)]]

\* What PiecesAssumption says of a piece.
LEMMA PieceTexts ==
  ASSUME NEW p \in Pieces
  PROVE  /\ IsPiece(p) /\ p.units \in Seq(Units) /\ p.quote \in Quotes
         /\ TextOf(p) \in Text /\ AddsOf(p) \in Text
         /\ p.is \in {"word", "shell", "space", "continued"}
<1>1. IsPiece(p)
  BY PiecesAssumption
<1>2. p.units \in Seq(Units)
  BY <1>1 DEF IsPiece, Units
<1>3. p.is \in {"word", "shell", "space", "continued"} /\ p.quote \in Quotes
  BY <1>1 DEF IsPiece, Quotes
<1> DEFINE s == [Scanning EXCEPT !.failed = FALSE]
<1>4. s \in Reads("")
  <2>1. <<>> \in Text /\ <<>> \in Seq(Text)
    BY EmptySeq DEF Text
  <2> QED
    BY <2>1 DEF Scanning, Reads, ScanStates
<1> HIDE DEF s
<1> QED
  BY <1>1, <1>2, <1>3, <1>4, TextIsScanned

LEMMA ReadType ==
  ASSUME NEW r \in Readings, NEW p \in Pieces
  PROVE  Read(r, p) \in Readings
<1>1. <<>> \in Text /\ <<>> \in Seq(Text) /\ r.word \in Text /\ r.words \in Seq(Text)
  BY EmptySeq DEF Text, Readings
<1>2. r.word \o AddsOf(p) \in Text
  BY <1>1, PieceTexts, ConcatProperties DEF Text
<1>3. Words(r) \in Seq(Text)
  BY <1>1, AppendProperties DEF Words
<1>4. /\ [r EXCEPT !.word = @ \o AddsOf(p), !.in = TRUE] \in Readings
      /\ [Unread EXCEPT !.words = Words(r)] \in Readings
  BY <1>1, <1>2, <1>3 DEF Readings, Unread
<1> QED
  BY <1>4 DEF Read

\* ReadAll is the fold of Read.
LEMMA ReadFold ==
  ASSUME NEW ps \in Seq(Pieces), NEW g, Fold(g, ps, Readings, Unread, Reader)
  PROVE  ReadAll(ps) = g[Len(ps)] /\ g[Len(ps)] \in Readings
<1> DEFINE n == Len(ps)
           Eq(f) == f = [i \in 0 .. n |-> IF i = 0 THEN Unread ELSE Read(f[i - 1], ps[i])]
<1>1. n \in Nat /\ \A i \in 1 .. n : ps[i] \in Pieces
  BY LenProperties
<1>2. g \in [0 .. n -> Readings] /\ g[0] = Unread
  BY DEF Fold
<1>3. ASSUME NEW i \in 1 .. n
      PROVE  g[i] = Read(g[i - 1], ps[i])
  <2>1. i - 1 \in 0 .. n
    BY <1>1
  <2>2. g[i - 1] \in Readings /\ ps[i] \in Pieces
    BY <1>1, <1>2, <2>1
  <2>3. g[i] = Reader[g[i - 1]][ps[i]]
    BY DEF Fold
  <2> QED
    BY <2>2, <2>3 DEF Reader
<1>4. Eq(g)
  <2>1. g = [i \in 0 .. n |-> g[i]]
    BY <1>2
  <2>2. \A i \in 0 .. n : i = 0 \/ i \in 1 .. n
    BY <1>1
  <2>3. \A i \in 0 .. n : g[i] = IF i = 0 THEN Unread ELSE Read(g[i - 1], ps[i])
    BY <1>2, <1>3, <2>2
  <2> QED
    BY <2>1, <2>3
<1> DEFINE f == CHOOSE f : Eq(f)
<1>5. Eq(f)
  <2> HIDE DEF Eq
  <2> QED
    BY <1>4, Zenon
<1>6. ReadAll(ps) = f[n]
  BY DEF ReadAll
<1> HIDE DEF f
<1>7. \A i \in 0 .. n : f[i] = g[i]
  <2>1. f[0] = g[0]
    BY <1>1, <1>2, <1>5
  <2>2. \A i \in 1 .. n : f[i] = Read(f[i - 1], ps[i])
    <3>1. \A i \in 1 .. n : i \in 0 .. n /\ i # 0
      BY <1>1
    <3> QED
      BY <1>5, <3>1
  <2>3. ASSUME NEW i \in 1 .. n, f[i - 1] = g[i - 1]
        PROVE  f[i] = g[i]
    BY <1>3, <2>2, <2>3
  <2> HIDE DEF n
  <2> QED
    BY <1>1, <2>1, <2>3, AgreeFromZero, ZenonT(60)
<1>8. n \in 0 .. n
  BY <1>1
<1> QED
  BY <1>2, <1>6, <1>7, <1>8

\* One piece after the other.
LEMMA ReadSteps ==
  /\ ReadAll(<<>>) = Unread
  /\ \A ps \in Seq(Pieces) : ReadAll(ps) \in Readings
  /\ \A ps \in Seq(Pieces), p \in Pieces : ReadAll(Append(ps, p)) = Read(ReadAll(ps), p)
<1>1. Unread \in Readings /\ Reader \in [Readings -> [Pieces -> Readings]]
  <2>1. <<>> \in Text /\ <<>> \in Seq(Text)
    BY EmptySeq DEF Text
  <2> QED
    BY <2>1, ReadType DEF Reader, Unread, Readings
<1>2. ASSUME NEW ps \in Seq(Pieces)
      PROVE  \E g : Fold(g, ps, Readings, Unread, Reader)
  BY <1>1, FoldExists
<1>3. ReadAll(<<>>) = Unread
  <2>1. <<>> \in Seq(Pieces) /\ Len(<<>>) = 0
    BY EmptySeq
  <2>2. PICK g : Fold(g, <<>>, Readings, Unread, Reader)
    BY <1>2, <2>1
  <2>3. ReadAll(<<>>) = g[0]
    BY <2>1, <2>2, ReadFold
  <2> QED
    BY <2>2, <2>3 DEF Fold
<1>4. ASSUME NEW ps \in Seq(Pieces)
      PROVE  ReadAll(ps) \in Readings
  BY <1>2, ReadFold
<1>5. ASSUME NEW ps \in Seq(Pieces), NEW p \in Pieces
      PROVE  ReadAll(Append(ps, p)) = Read(ReadAll(ps), p)
  <2>1. Append(ps, p) \in Seq(Pieces)
    BY AppendProperties
  <2>2. PICK g : Fold(g, ps, Readings, Unread, Reader)
    BY <1>2
  <2>3. PICK h : Fold(h, Append(ps, p), Readings, Unread, Reader)
    BY <1>2, <2>1
  <2>4. h[Len(Append(ps, p))] = Reader[g[Len(ps)]][p]
    <3> DEFINE S == Readings
               base == Unread
               Op == Reader
    <3>1. Fold(g, ps, S, base, Op) /\ Fold(h, Append(ps, p), S, base, Op)
      BY <2>2, <2>3
    <3> HIDE DEF base, S, Op
    <3> QED
      BY <3>1, FoldAppend DEF base, S, Op
  <2>5. ReadAll(ps) = g[Len(ps)] /\ g[Len(ps)] \in Readings
    BY <2>2, ReadFold
  <2>6. ReadAll(Append(ps, p)) = h[Len(Append(ps, p))]
    BY <2>1, <2>3, ReadFold
  <2> QED
    BY <2>4, <2>5, <2>6 DEF Reader
<1> QED
  BY <1>3, <1>4, <1>5

\* The text that was typed, piece by piece.
LineOf(ps) == FlattenSeq([i \in DOMAIN ps |-> TextOf(ps[i])])

\* It is the text of the pieces before and that of the last one.
LEMMA LineSteps ==
  /\ LineOf(<<>>) = <<>>
  /\ \A ps \in Seq(Pieces) : LineOf(ps) \in Text
  /\ \A ps \in Seq(Pieces), p \in Pieces : LineOf(Append(ps, p)) = LineOf(ps) \o TextOf(p)
<1> DEFINE text == [p \in Pieces |-> TextOf(p)]
<1>1. text \in [Pieces -> Seq(Atoms)]
  BY PieceTexts DEF Text
<1>2. ASSUME NEW ps \in Seq(Pieces)
      PROVE  LineOf(ps) = FlattenSeq(Images(text, ps))
  <2>1. \A i \in DOMAIN ps : ps[i] \in Pieces
    OBVIOUS
  <2>2. \A i \in DOMAIN ps : TextOf(ps[i]) = text[ps[i]]
    BY <2>1
  <2>3. [i \in DOMAIN ps |-> TextOf(ps[i])] = Images(text, ps)
    BY <2>2 DEF Images
  <2> HIDE DEF text
  <2> QED
    BY <2>3 DEF LineOf
<1>3. \A p \in Pieces : text[p] = TextOf(p)
  OBVIOUS
<1> HIDE DEF text
<1>4. LineOf(<<>>) = <<>>
  <2>1. <<>> \in Seq(Pieces)
    BY EmptySeq
  <2> QED
    BY <1>1, <1>2, <2>1, FlattenMap
<1>5. ASSUME NEW ps \in Seq(Pieces)
      PROVE  LineOf(ps) \in Text
  BY <1>1, <1>2, FlattenMap DEF Text
<1>6. ASSUME NEW ps \in Seq(Pieces), NEW p \in Pieces
      PROVE  LineOf(Append(ps, p)) = LineOf(ps) \o TextOf(p)
  <2>1. Append(ps, p) \in Seq(Pieces)
    BY AppendProperties
  <2>2. FlattenSeq(Images(text, Append(ps, p))) = FlattenSeq(Images(text, ps)) \o text[p]
    BY <1>1, FlattenMap
  <2> QED
    BY <1>2, <1>3, <2>1, <2>2
<1> QED
  BY <1>4, <1>5, <1>6

-----------------------------------------------------------------------------
\* The scanner between pieces, and what a shell has read by then.
At(r) == [Scanning EXCEPT !.args = r.words, !.current = r.word, !.inToken = r.in]
Clean(r) == r.in = FALSE => r.word = <<>>
HasShell(ps) == \E i \in DOMAIN ps : ps[i].is = "shell"

LEMMA AtType ==
  ASSUME NEW r \in Readings
  PROVE  At(r) \in Reads("")
BY DEF At, Scanning, Readings, Reads, ScanStates

\* The scanner and the reading take every piece alike.
LEMMA PieceIsRead ==
  ASSUME NEW r \in Readings, Clean(r), NEW p \in Pieces
  PROVE  IF p.is = "shell"
         THEN ScanFrom(At(r), TextOf(p)).failed = TRUE
         ELSE ScanFrom(At(r), TextOf(p)) = At(Read(r, p)) /\ Clean(Read(r, p))
<1> DEFINE s == At(r)
<1>1. s \in Reads("")
  BY AtType
<1>2. IsPiece(p) /\ p.is \in {"word", "shell", "space", "continued"} /\ AddsOf(p) \in Text
  BY PieceTexts
<1>3. CASE p.is = "word"
  <2>1. ScanFrom(s, TextOf(p)) = Grow(s, AddsOf(p))
    <3> HIDE DEF s
    <3> QED
      BY <1>1, <1>2, <1>3, WordIsRead
  <2>2. Read(r, p) = [r EXCEPT !.word = r.word \o AddsOf(p), !.in = TRUE]
    BY <1>3 DEF Read
  <2> DEFINE w == r.word \o AddsOf(p)
  <2>3. s.current = r.word
    BY DEF At, Scanning
  <2>4. Grow(s, AddsOf(p)) = [s EXCEPT !.current = w, !.inToken = TRUE]
    BY <2>3 DEF Grow
  <2> HIDE DEF w
  <2>5. [s EXCEPT !.current = w, !.inToken = TRUE] = At([r EXCEPT !.word = w, !.in = TRUE])
    BY DEF At, Scanning, Readings
  <2>6. Clean([r EXCEPT !.word = w, !.in = TRUE])
    BY DEF Clean, Readings
  <2> QED
    BY <1>3, <2>1, <2>2, <2>4, <2>5, <2>6 DEF w
<1>4. CASE p.is = "space"
  <2>1. ScanFrom(s, TextOf(p)) = Flush(s)
    <3> HIDE DEF s
    <3> QED
      BY <1>1, <1>2, <1>4, SpaceIsRead
  <2>2. Read(r, p) = [Unread EXCEPT !.words = Words(r)]
    BY <1>4 DEF Read
  <2>3. Flush(s) = At([Unread EXCEPT !.words = Words(r)])
    <3>1. CASE r.in = TRUE
      BY <3>1 DEF Flush, At, Scanning, Unread, Words
    <3>2. CASE r.in = FALSE
      BY <3>2 DEF Flush, At, Scanning, Unread, Words, Clean
    <3> QED
      BY <3>1, <3>2 DEF Readings
  <2>4. Clean([Unread EXCEPT !.words = Words(r)])
    BY DEF Clean, Unread
  <2> QED
    BY <1>4, <2>1, <2>2, <2>3, <2>4
<1>5. CASE p.is = "continued"
  <2>1. ScanFrom(s, TextOf(p)) = s
    <3> HIDE DEF s
    <3> QED
      BY <1>1, <1>2, <1>5, ContinuedIsRead
  <2>2. Read(r, p) = r
    BY <1>5 DEF Read
  <2> QED
    BY <1>5, <2>1, <2>2
<1>6. CASE p.is = "shell"
  <2> HIDE DEF s
  <2>1. ScanFrom(s, TextOf(p)).failed = TRUE
    BY <1>1, <1>2, <1>6, ShellFails
  <2> QED
    BY <1>6, <2>1 DEF s
<1> QED
  BY <1>2, <1>3, <1>4, <1>5, <1>6

\* So they take the whole text alike, by induction along the pieces.
LEMMA LineIsRead ==
  ASSUME NEW ps \in Seq(Pieces)
  PROVE  IF HasShell(ps)
         THEN ScanFrom(Scanning, LineOf(ps)).failed = TRUE
         ELSE ScanFrom(Scanning, LineOf(ps)) = At(ReadAll(ps)) /\ Clean(ReadAll(ps))
<1> DEFINE Right(qs) == IF HasShell(qs)
                        THEN ScanFrom(Scanning, LineOf(qs)).failed = TRUE
                        ELSE ScanFrom(Scanning, LineOf(qs)) = At(ReadAll(qs)) /\ Clean(ReadAll(qs))
           T == {qs \in Seq(Pieces) : Right(qs)}
<1>0. Scanning \in ScanStates
  <2>1. <<>> \in Text /\ <<>> \in Seq(Text)
    BY EmptySeq DEF Text
  <2> QED
    BY <2>1 DEF Scanning, ScanStates
<1>1. <<>> \in T
  <2>1. ScanFrom(Scanning, LineOf(<<>>)) = Scanning
    BY <1>0, LineSteps, ScanSteps
  <2>2. At(Unread) = Scanning /\ Clean(Unread)
    <3>1. At(Unread) = [Scanning EXCEPT !.args = <<>>, !.current = <<>>, !.inToken = FALSE]
      BY DEF At, Unread
    <3>2. [Scanning EXCEPT !.args = <<>>, !.current = <<>>, !.inToken = FALSE] = Scanning
      <4>1. Scanning.args = <<>> /\ Scanning.current = <<>> /\ Scanning.inToken = FALSE
        BY DEF Scanning
      <4>2. \A s \in ScanStates : s.inToken = FALSE =>
              [s EXCEPT !.args = s.args, !.current = s.current, !.inToken = FALSE] = s
        BY DEF ScanStates
      <4> QED
        BY <1>0, <4>1, <4>2
    <3>3. Clean(Unread)
      BY DEF Unread, Clean
    <3> QED
      BY <3>1, <3>2, <3>3
  <2>3. ~HasShell(<<>>)
    BY DEF HasShell
  <2>4. ReadAll(<<>>) = Unread
    BY ReadSteps
  <2>5. Right(<<>>)
    BY <2>1, <2>2, <2>3, <2>4
  <2> QED
    BY <2>5, EmptySeq
<1>2. ASSUME NEW qs \in Seq(Pieces), NEW p \in Pieces, qs \in T
      PROVE  Append(qs, p) \in T
  <2> DEFINE rs == Append(qs, p)
             e == ScanFrom(Scanning, LineOf(qs))
  <2>1. /\ rs \in Seq(Pieces) /\ Len(qs) \in Nat
        /\ DOMAIN qs = 1 .. Len(qs) /\ DOMAIN rs = 1 .. Len(qs) + 1
        /\ \A i \in 1 .. Len(qs) : rs[i] = qs[i]
        /\ rs[Len(qs) + 1] = p
    BY AppendProperties, LenProperties
  <2>2. HasShell(rs) <=> (HasShell(qs) \/ p.is = "shell")
    <3> HIDE DEF rs
    <3>1. \A i \in 1 .. Len(qs) + 1 : i \in 1 .. Len(qs) \/ i = Len(qs) + 1
      BY <2>1
    <3>2. Len(qs) + 1 \in 1 .. Len(qs) + 1 /\ \A i \in 1 .. Len(qs) : i \in 1 .. Len(qs) + 1
      BY <2>1
    <3> QED
      BY <2>1, <3>1, <3>2, Zenon DEF HasShell
  <2>3. /\ LineOf(rs) = LineOf(qs) \o TextOf(p)
        /\ LineOf(qs) \in Text /\ TextOf(p) \in Text
    BY LineSteps, PieceTexts
  <2>4. ReadAll(rs) = Read(ReadAll(qs), p) /\ ReadAll(qs) \in Readings
    BY ReadSteps
  <2>5. ScanFrom(Scanning, LineOf(rs)) = ScanFrom(e, TextOf(p)) /\ e \in ScanStates
    <3> HIDE DEF rs
    <3> QED
      BY <1>0, <2>3, ScanConcat, ScanSteps
  <2> HIDE DEF rs
  <2>6. CASE HasShell(qs)
    <3>1. e.failed = TRUE
      BY <1>2, <2>6
    <3> HIDE DEF e
    <3>2. ScanFrom(e, TextOf(p)).failed = TRUE
      BY <2>3, <2>5, <3>1, FailedStays
    <3>3. Right(rs)
      BY <2>2, <2>5, <2>6, <3>2
    <3> QED
      BY <2>1, <3>3 DEF rs
  <2>7. CASE ~HasShell(qs)
    <3>1. e = At(ReadAll(qs)) /\ Clean(ReadAll(qs))
      BY <1>2, <2>7
    <3> HIDE DEF e
    <3>2. IF p.is = "shell"
          THEN ScanFrom(e, TextOf(p)).failed = TRUE
          ELSE ScanFrom(e, TextOf(p)) = At(Read(ReadAll(qs), p)) /\ Clean(Read(ReadAll(qs), p))
      <4> DEFINE r == ReadAll(qs)
      <4> HIDE DEF r
      <4>1. IF p.is = "shell"
            THEN ScanFrom(At(r), TextOf(p)).failed = TRUE
            ELSE ScanFrom(At(r), TextOf(p)) = At(Read(r, p)) /\ Clean(Read(r, p))
        <5>1. r \in Readings /\ Clean(r)
          BY <2>4, <3>1 DEF r
        <5> QED
          BY <5>1, PieceIsRead
      <4> QED
        BY <3>1, <4>1 DEF r
    <3>3. Right(rs)
      BY <2>2, <2>4, <2>5, <2>7, <3>2
    <3> QED
      BY <2>1, <3>3 DEF rs
  <2> QED
    BY <2>6, <2>7
<1>3. \A qs \in Seq(Pieces) : qs \in T
  <2> HIDE DEF T
  <2> QED
    BY <1>1, <1>2, SeqInduction
<1>4. Right(ps)
  BY <1>3
<1> QED
  BY <1>4

\* Whatever is typed of pieces, splitCurlCommand splits it into the words a shell
\* would pass to curl, and refuses it if it takes a shell: for every sequence of
\* pieces, each of any length.
THEOREM ShellWords ==
  \A ps \in Seq(Pieces) : splitCurlCommand(LineOf(ps)) = Reading(ps)
<1> SUFFICES ASSUME NEW ps \in Seq(Pieces)
             PROVE  splitCurlCommand(LineOf(ps)) = Reading(ps)
  OBVIOUS
<1> DEFINE e == ScanFrom(Scanning, LineOf(ps))
<1>1. splitCurlCommand(LineOf(ps)) =
        IF e.failed = FALSE /\ e.quote = "" /\ e.pending = "" THEN {Flush(e).args} ELSE {}
  <2>1. e.failed \in BOOLEAN
    <3>1. Scanning \in ScanStates
      <4>1. <<>> \in Text /\ <<>> \in Seq(Text)
        BY EmptySeq DEF Text
      <4> QED
        BY <4>1 DEF Scanning, ScanStates
    <3>2. e \in ScanStates
      BY <3>1, LineSteps, ScanSteps
    <3> HIDE DEF e
    <3> QED
      BY <3>2 DEF ScanStates
  <2> HIDE DEF e
  <2>2. splitCurlCommand(LineOf(ps)) =
          {Flush(s).args : s \in {end \in {e} : ~end.failed /\ end.quote = "" /\ end.pending = ""}}
    BY DEF splitCurlCommand, e
  <2> QED
    BY <2>1, <2>2
<1>2. CASE HasShell(ps)
  <2>1. e.failed = TRUE
    BY <1>2, LineIsRead
  <2>2. Reading(ps) = {}
    BY <1>2 DEF Reading, HasShell
  <2> HIDE DEF e
  <2> QED
    BY <1>1, <2>1, <2>2
<1>3. CASE ~HasShell(ps)
  <2> DEFINE r == ReadAll(ps)
  <2>1. e = At(r) /\ r \in Readings
    BY <1>3, LineIsRead, ReadSteps
  <2>2. Reading(ps) = {Words(r)}
    BY <1>3 DEF Reading, HasShell
  <2> HIDE DEF e, r
  <2>3. e.failed = FALSE /\ e.quote = "" /\ e.pending = ""
    BY <2>1 DEF At, Scanning
  <2>4. Flush(e).args = Words(r)
    <3>1. CASE r.in = TRUE
      BY <2>1, <3>1 DEF Flush, At, Scanning, Words
    <3>2. CASE r.in = FALSE
      BY <2>1, <3>2 DEF Flush, At, Scanning, Words
    <3> QED
      BY <2>1, <3>1, <3>2 DEF Readings
  <2> QED
    BY <1>1, <2>2, <2>3, <2>4
<1> QED
  BY <1>2, <1>3

-----------------------------------------------------------------------------
(* The curl box                                                             *)

\* The inductive invariant: while the box holds what was typed, it holds its text.
WorkspaceInv == typed = <<>> \/ \E ps \in Seq(Pieces) : typed = <<ps>> /\ curl = LineOf(ps)

\* In the windows: what was typed into the curl box is read as it is written.
THEOREM TextsMeanTheirWords == WorkspaceSpec => []TextMeansItsWords
<1>1. WorkspaceInit => WorkspaceInv
  <2>1. <<>> \in Seq(Pieces) /\ LineOf(<<>>) = <<>>
    BY EmptySeq, LineSteps
  <2> QED
    BY <2>1 DEF WorkspaceInit, WorkspaceInv
<1>2. WorkspaceInv /\ [WorkspaceNext]_workspaceVars => WorkspaceInv'
  <2> SUFFICES ASSUME WorkspaceInv, [WorkspaceNext]_workspaceVars
               PROVE  WorkspaceInv'
    OBVIOUS
  <2>1. CASE UNCHANGED <<curl, typed>>
    BY <2>1 DEF WorkspaceInv
  <2>2. CASE typed' = <<>>
    BY <2>2 DEF WorkspaceInv
  <2>3. ASSUME NEW p \in Pieces, Type(p)
        PROVE  WorkspaceInv'
    <3>1. PICK ps \in Seq(Pieces) : typed = <<ps>> /\ curl = LineOf(ps)
      BY <2>3 DEF Type, WorkspaceInv
    <3> DEFINE qs == Append(ps, p)
    <3>2. typed' = <<qs>> /\ curl' = LineOf(ps) \o TextOf(p)
      BY <2>3, <3>1 DEF Type
    <3>3. qs \in Seq(Pieces) /\ LineOf(qs) = LineOf(ps) \o TextOf(p)
      BY AppendProperties, LineSteps
    <3> HIDE DEF qs
    <3> QED
      BY <3>2, <3>3 DEF WorkspaceInv
  <2>4. CASE \E c \in Commands : Paste(c)
    BY <2>2, <2>4 DEF Paste
  <2>5. CASE ImportWindows \/ ImportMac
    BY <2>1, <2>5 DEF ImportWindows, ImportMac
  <2>6. CASE EditBody \/ EditHeaders \/ EditMethod \/ EditURL \/ TogglePreserve
    BY <2>1, <2>6 DEF EditBody, EditHeaders, EditMethod, EditURL, TogglePreserve, Edit
  <2>7. CASE Generate
    BY <2>2, <2>7 DEF Generate
  <2>8. CASE UNCHANGED workspaceVars
    BY <2>1, <2>8 DEF workspaceVars
  <2> QED
    BY <2>3, <2>4, <2>5, <2>6, <2>7, <2>8 DEF WorkspaceNext
<1>3. WorkspaceInv => TextMeansItsWords
  BY ShellWords DEF WorkspaceInv, TextMeansItsWords
<1> QED
  BY <1>1, <1>2, <1>3, PTL DEF WorkspaceSpec

-----------------------------------------------------------------------------
(* What FormatCURL writes                                                   *)

\* curlQuote writes an apostrophe as four atoms, which end the quotation, stand for
\* an apostrophe and begin it again.
LEMMA QuotedAtom ==
  ASSUME NEW s \in Reads("SQ"), NEW c \in Atoms
  PROVE  LET x == IF c = "SQ" THEN <<"SQ", "BS", "SQ", "SQ">> ELSE <<c>>
         IN  x \in Text /\ ScanFrom(s, x) = Grow(s, <<c>>)
<1>1. s \in ScanStates /\ s.quote = "SQ" /\ s.pending = "" /\ s.failed = FALSE /\ s.inToken = TRUE
  BY DEF Reads
<1>2. "SQ" \in Atoms /\ "BS" \in Atoms
  BY DEF Atoms
<1>3. CASE c = "SQ"
  <2> DEFINE open == <<"SQ", "BS">>
             shut == <<"SQ", "SQ">>
             e == [s EXCEPT !.quote = "", !.pending = "BS"]
  <2>1. open \in Text /\ shut \in Text /\ <<"SQ", "BS", "SQ", "SQ">> \in Text
    <3>1. <<"SQ", "BS", "SQ", "SQ">> \in Seq(Atoms)
      BY <1>2
    <3> QED
      BY <1>2, <3>1, Short DEF Text
  <2>2. <<"SQ", "BS", "SQ", "SQ">> = open \o shut
    OBVIOUS
  <2>3. ScanFrom(s, open) = e
    <3>1. ScanFrom(s, open) = Scan(Scan(s, "SQ"), "BS")
      BY <1>1, <1>2, ScanShort
    <3> DEFINE d == [s EXCEPT !.quote = ""]
    <3>2. Scan(s, "SQ") = d
      BY <1>1 DEF Scan, Quoted
    <3>3. d.pending = "" /\ d.failed = FALSE /\ d.quote = ""
      BY <1>1 DEF ScanStates
    <3>4. [d EXCEPT !.pending = "BS"] = e
      BY <1>1 DEF ScanStates
    <3> HIDE DEF d, e
    <3>5. Scan(d, "BS") = [d EXCEPT !.pending = "BS"]
      BY <3>3 DEF Scan, Unquoted
    <3> QED
      BY <3>1, <3>2, <3>4, <3>5
  <2>4. e \in ScanStates /\ e.pending = "BS" /\ e.failed = FALSE /\ e.quote = ""
    BY <1>1 DEF ScanStates
  <2> DEFINE w == Write(e, <<"SQ">>)
  <2>5. w.pending = "" /\ w.failed = FALSE /\ w.quote = ""
    BY <1>1 DEF Write, ScanStates
  <2>6. [w EXCEPT !.quote = "SQ", !.inToken = TRUE] = Grow(s, <<"SQ">>)
    BY <1>1 DEF Write, Grow, ScanStates
  <2> HIDE DEF e
  <2>7. ScanFrom(e, shut) = Scan(Scan(e, "SQ"), "SQ")
    BY <1>2, <2>4, ScanShort
  <2>8. Scan(e, "SQ") = w
    BY <2>4 DEF Scan, AfterBackslash
  <2> HIDE DEF w
  <2>9. Scan(w, "SQ") = [w EXCEPT !.quote = "SQ", !.inToken = TRUE]
    BY <2>5 DEF Scan, Unquoted
  <2>10. ScanFrom(s, open \o shut) = ScanFrom(ScanFrom(s, open), shut)
    <3> HIDE DEF open, shut
    <3> QED
      BY <1>1, <2>1, ScanConcat
  <2> QED
    BY <1>3, <2>1, <2>2, <2>3, <2>6, <2>7, <2>8, <2>9, <2>10
<1>4. CASE c # "SQ"
  <2>1. ScanFrom(s, <<c>>) = Scan(s, c)
    BY <1>1, <1>2, ScanShort
  <2>2. Scan(s, c) = Write(s, <<c>>)
    BY <1>1, <1>4 DEF Scan, Quoted
  <2>3. Write(s, <<c>>) = Grow(s, <<c>>)
    BY <1>1 DEF Write, Grow, ScanStates
  <2>4. <<c>> \in Text
    BY <1>2, Short DEF Text
  <2> QED
    BY <1>4, <2>1, <2>2, <2>3, <2>4
<1> QED
  BY <1>3, <1>4

\* The inside of the quotation curlQuote writes.
Inside(t) == LET escaped(c) == IF c = "SQ" THEN <<"SQ", "BS", "SQ", "SQ">> ELSE <<c>>
             IN  FlattenSeq([i \in DOMAIN t |-> escaped(t[i])])

\* The inside of a longer text.
LEMMA InsideSteps ==
  /\ Inside(<<>>) = <<>>
  /\ \A t \in Text : Inside(t) \in Text
  /\ \A t \in Text, c \in Atoms :
        Inside(Append(t, c)) = Inside(t) \o IF c = "SQ" THEN <<"SQ", "BS", "SQ", "SQ">> ELSE <<c>>
<1> DEFINE X == Atoms
           escaped == [c \in X |-> IF c = "SQ" THEN <<"SQ", "BS", "SQ", "SQ">> ELSE <<c>>]
<1>1. escaped \in [X -> Seq(Atoms)]
  <2>1. "SQ" \in Atoms /\ "BS" \in Atoms /\ \A c \in X : c \in Atoms
    BY DEF Atoms
  <2>2. <<"SQ", "BS", "SQ", "SQ">> \in Seq(Atoms)
    BY <2>1
  <2>3. \A c \in X : <<c>> \in Seq(Atoms)
    BY <2>1, Short
  <2> HIDE DEF X
  <2> QED
    BY <2>2, <2>3
<1>2. ASSUME NEW t \in Seq(X)
      PROVE  Inside(t) = FlattenSeq(Images(escaped, t))
  <2> DEFINE plain(c) == IF c = "SQ" THEN <<"SQ", "BS", "SQ", "SQ">> ELSE <<c>>
  <2>1. \A i \in DOMAIN t : t[i] \in X
    <3> HIDE DEF X
    <3> QED
      OBVIOUS
  <2>2. \A i \in DOMAIN t : plain(t[i]) = escaped[t[i]]
    BY <2>1
  <2>3. Inside(t) = FlattenSeq([i \in DOMAIN t |-> plain(t[i])])
    BY DEF Inside
  <2> HIDE DEF plain, escaped
  <2>4. [i \in DOMAIN t |-> plain(t[i])] = Images(escaped, t)
    BY <2>2 DEF Images
  <2> QED
    BY <2>3, <2>4
<1>3. \A c \in X : escaped[c] = IF c = "SQ" THEN <<"SQ", "BS", "SQ", "SQ">> ELSE <<c>>
  OBVIOUS
<1> HIDE DEF escaped, X
<1>4. Inside(<<>>) = <<>>
  <2>1. <<>> \in Seq(X)
    BY EmptySeq
  <2> QED
    BY <1>1, <1>2, <2>1, FlattenMap
<1>5. ASSUME NEW t \in Seq(X)
      PROVE  Inside(t) \in Text
  BY <1>1, <1>2, FlattenMap DEF Text
<1>6. ASSUME NEW t \in Seq(X), NEW c \in X
      PROVE  Inside(Append(t, c)) = Inside(t) \o escaped[c]
  <2>1. Append(t, c) \in Seq(X)
    BY AppendProperties
  <2>2. FlattenSeq(Images(escaped, Append(t, c))) = FlattenSeq(Images(escaped, t)) \o escaped[c]
    BY <1>1, FlattenMap
  <2> QED
    BY <1>2, <2>1, <2>2
<1> QED
  BY <1>3, <1>4, <1>5, <1>6 DEF X, Text

\* Within the quotation every text is read as itself.
LEMMA InsideIsRead ==
  ASSUME NEW s \in Reads("SQ"), NEW t \in Text
  PROVE  ScanFrom(s, Inside(t)) = Grow(s, t)
<1> DEFINE T == {u \in Text : ScanFrom(s, Inside(u)) = Grow(s, u)}
<1>0. s \in ScanStates /\ s.inToken = TRUE
  BY DEF Reads
<1>1. <<>> \in T
  <2>1. ScanFrom(s, Inside(<<>>)) = s
    BY <1>0, InsideSteps, ScanSteps
  <2>2. s.current \o <<>> = s.current
    <3>1. s.current \in Seq(Atoms)
      BY <1>0 DEF ScanStates, Text
    <3> QED
      BY <3>1, ConcatEmptySeq
  <2>3. Grow(s, <<>>) = s
    BY <1>0, <2>2 DEF Grow, ScanStates
  <2> QED
    BY <2>1, <2>3, EmptySeq DEF Text
<1>2. ASSUME NEW u \in Text, NEW c \in Atoms, u \in T
      PROVE  Append(u, c) \in T
  <2> DEFINE x == IF c = "SQ" THEN <<"SQ", "BS", "SQ", "SQ">> ELSE <<c>>
             g == Grow(s, u)
  <2>1. u \in Text /\ <<c>> \in Text /\ Inside(u) \in Text
    BY InsideSteps, Short DEF Text
  <2>2. g \in Reads("SQ")
    BY <2>1, GrowType DEF Quotes
  <2>3. x \in Text /\ ScanFrom(g, x) = Grow(g, <<c>>)
    <3> HIDE DEF g
    <3> QED
      BY <2>2, QuotedAtom
  <2>4. Inside(Append(u, c)) = Inside(u) \o x
    BY InsideSteps
  <2> HIDE DEF x
  <2>5. ScanFrom(s, Inside(u) \o x) = ScanFrom(ScanFrom(s, Inside(u)), x)
    BY <1>0, <2>1, <2>3, ScanConcat
  <2>6. ScanFrom(s, Inside(u)) = g
    BY <1>2
  <2>7. Grow(g, <<c>>) = Grow(s, u \o <<c>>)
    BY <1>0, <2>1, GrowTwice
  <2>8. Append(u, c) = u \o <<c>> /\ Append(u, c) \in Text
    BY AppendIsConcat, AppendProperties DEF Text
  <2> HIDE DEF g
  <2>9. ScanFrom(s, Inside(Append(u, c))) = Grow(s, Append(u, c))
    BY <2>3, <2>4, <2>5, <2>6, <2>7, <2>8
  <2> QED
    BY <2>8, <2>9
<1>3. \A u \in Text : u \in T
  <2> HIDE DEF T
  <2> QED
    BY <1>1, <1>2, SeqInduction DEF Text
<1> QED
  BY <1>3

\* Any text that curlQuote puts in quotation is read as itself, wherever in a
\* command it stands: no text can leave its quotation.
THEOREM QuotationIsUndone ==
  ASSUME NEW s \in Reads(""), NEW t \in Text
  PROVE  curlQuote(t) \in Text /\ ScanFrom(s, curlQuote(t)) = Grow(s, t)
<1> DEFINE o == Open(s, "SQ")
           g == Grow(o, t)
<1>1. <<"SQ">> \in Text /\ Opening("SQ") = <<"SQ">> /\ Closing("SQ") = <<"SQ">>
  <2>1. "SQ" \in Atoms
    BY DEF Atoms
  <2> QED
    BY <2>1, Short DEF Text, Opening, Closing
<1>2. curlQuote(t) = (<<"SQ">> \o Inside(t)) \o <<"SQ">>
  BY DEF curlQuote, Inside
<1>3. Inside(t) \in Text /\ t \in Text /\ s \in ScanStates
  BY InsideSteps DEF Reads
<1>4. <<"SQ">> \o Inside(t) \in Text /\ curlQuote(t) \in Text
  <2>1. <<"SQ">> \o Inside(t) \in Text
    BY <1>1, <1>3, ConcatProperties DEF Text
  <2> QED
    BY <1>1, <1>2, <2>1, ConcatProperties DEF Text
<1>5. o \in Reads("SQ") /\ ScanFrom(s, <<"SQ">>) = o
  BY <1>1, QuotationOpens DEF Quotes
<1>6. ScanFrom(s, curlQuote(t)) = ScanFrom(ScanFrom(s, <<"SQ">> \o Inside(t)), <<"SQ">>)
  <2> DEFINE x == <<"SQ">> \o Inside(t)
             y == <<"SQ">>
  <2>1. x \in Text /\ y \in Text /\ curlQuote(t) = x \o y
    BY <1>1, <1>2, <1>4
  <2> HIDE DEF x, y
  <2>2. ScanFrom(s, x \o y) = ScanFrom(ScanFrom(s, x), y)
    BY <1>3, <2>1, ScanConcat
  <2> QED
    BY <2>1, <2>2 DEF x, y
<1>7. ScanFrom(s, <<"SQ">> \o Inside(t)) = ScanFrom(ScanFrom(s, <<"SQ">>), Inside(t))
  BY <1>1, <1>3, ScanConcat
<1>8. ScanFrom(o, Inside(t)) = g
  <2> HIDE DEF o
  <2> QED
    BY <1>5, InsideIsRead
<1>9. g \in Reads("SQ")
  <2> HIDE DEF o
  <2> QED
    BY <1>3, <1>5, GrowType DEF Quotes
<1>10. ScanFrom(g, <<"SQ">>) = [g EXCEPT !.quote = ""]
  <2> HIDE DEF g
  <2> QED
    BY <1>1, <1>9, QuotationCloses DEF Quotes
<1>11. [g EXCEPT !.quote = ""] = Grow(s, t)
  <2>1. s.quote = ""
    BY DEF Reads
  <2> QED
    BY <1>3, <2>1 DEF Grow, Open, ScanStates
<1> QED
  BY <1>4, <1>5, <1>6, <1>7, <1>8, <1>10, <1>11

\* What may be written as a word of a command: the name of an option, which a shell
\* reads as itself, or any text in quotation.
CommandWord == {w \in [atoms : Text, quoted : BOOLEAN] :
                  w.quoted = FALSE => \E o \in OptionNames : w.atoms = <<o>>}

\* The scanner between two words.
LEMMA FlushType ==
  ASSUME NEW s \in Reads("")
  PROVE  Flush(s) \in Reads("")
<1>1. s.args \in Seq(Text) /\ s.current \in Text /\ <<>> \in Text
  BY EmptySeq DEF Reads, ScanStates, Text
<1>2. Append(s.args, s.current) \in Seq(Text)
  BY <1>1, AppendProperties
<1> QED
  BY <1>1, <1>2 DEF Reads, ScanStates, Flush

\* A word of a command, with the space before it, is read as itself.
LEMMA WrittenIsRead ==
  ASSUME NEW s \in Reads(""), NEW w \in CommandWord
  PROVE  /\ <<"SP">> \o Written(w) \in Text
         /\ ScanFrom(s, <<"SP">> \o Written(w)) = Grow(Flush(s), w.atoms)
<1> DEFINE f == Flush(s)
<1>1. w.atoms \in Text /\ w.quoted \in BOOLEAN
  BY DEF CommandWord
<1>2. f \in Reads("")
  BY FlushType
<1> HIDE DEF f
<1>3. Written(w) \in Text /\ ScanFrom(f, Written(w)) = Grow(f, w.atoms)
  <2>1. CASE w.quoted = TRUE
    <3>1. Written(w) = curlQuote(w.atoms)
      BY <2>1 DEF Written
    <3> QED
      BY <1>1, <1>2, <3>1, QuotationIsUndone
  <2>2. CASE w.quoted = FALSE
    <3>1. PICK c \in OptionNames : w.atoms = <<c>>
      BY <2>2 DEF CommandWord
    <3>2. Written(w) = <<c>>
      BY <2>2, <3>1 DEF Written
    <3>3. c \in Atoms
      BY DEF Atoms
    <3>4. c \notin Meta("")
      BY DEF OptionNames, Meta, Operators
    <3>5. f \in ScanStates /\ f.quote = "" /\ f.pending = "" /\ f.failed = FALSE
      BY <1>2 DEF Reads
    <3>6. ScanFrom(f, <<c>>) = Scan(f, c)
      BY <3>3, <3>5, ScanShort
    <3>7. Scan(f, c) = Write(f, <<c>>)
      BY <3>4, <3>5 DEF Meta, Operators, Scan, Unquoted
    <3>8. Write(f, <<c>>) = Grow(f, <<c>>)
      BY <3>5 DEF Write, Grow, ScanStates
    <3> QED
      BY <1>1, <3>1, <3>2, <3>6, <3>7, <3>8
  <2> QED
    BY <1>1, <2>1, <2>2
<1>4. <<"SP">> \in Text /\ ScanFrom(s, <<"SP">>) = f
  <2>1. "SP" \in Atoms
    BY DEF Atoms
  <2>2. s \in ScanStates /\ s.quote = "" /\ s.pending = "" /\ s.failed = FALSE
    BY DEF Reads
  <2>3. ScanFrom(s, <<"SP">>) = Scan(s, "SP")
    BY <2>1, <2>2, ScanShort
  <2>4. Scan(s, "SP") = f
    BY <2>2 DEF Scan, Unquoted, f
  <2>5. <<"SP">> \in Text
    BY <2>1, Short DEF Text
  <2> QED
    BY <2>3, <2>4, <2>5
<1>5. <<"SP">> \o Written(w) \in Text
  BY <1>3, <1>4, ConcatProperties DEF Text
<1>6. ScanFrom(s, <<"SP">> \o Written(w)) = ScanFrom(f, Written(w))
  <2> DEFINE x == <<"SP">>
             y == Written(w)
  <2>1. s \in ScanStates /\ x \in Text /\ y \in Text
    BY <1>3, <1>4 DEF Reads
  <2> HIDE DEF x, y
  <2>2. ScanFrom(s, x \o y) = ScanFrom(ScanFrom(s, x), y)
    BY <2>1, ScanConcat
  <2> QED
    BY <1>4, <2>2 DEF x, y
<1> QED
  BY <1>3, <1>5, <1>6 DEF f

\* A command as FormatCURL joins it from its words.
Plainly(ws) == [i \in DOMAIN ws |-> ws[i].atoms]
Rest(ws) == FlattenSeq([i \in DOMAIN ws |-> <<"SP">> \o Written(ws[i])])

\* One word after the other.
LEMMA RestSteps ==
  /\ Rest(<<>>) = <<>> /\ Plainly(<<>>) = <<>>
  /\ \A ws \in Seq(CommandWord) : Rest(ws) \in Text /\ Plainly(ws) \in Seq(Text)
  /\ \A ws \in Seq(CommandWord), w \in CommandWord :
        /\ Rest(Append(ws, w)) = Rest(ws) \o (<<"SP">> \o Written(w))
        /\ Plainly(Append(ws, w)) = Append(Plainly(ws), w.atoms)
<1> DEFINE text == [w \in CommandWord |-> <<"SP">> \o Written(w)]
           atoms == [w \in CommandWord |-> w.atoms]
<1>1. text \in [CommandWord -> Seq(Atoms)] /\ atoms \in [CommandWord -> Text]
  <2> DEFINE s == Scanning
  <2>1. s \in Reads("")
    <3>1. <<>> \in Text /\ <<>> \in Seq(Text)
      BY EmptySeq DEF Text
    <3> QED
      BY <3>1 DEF Scanning, Reads, ScanStates
  <2> HIDE DEF s
  <2>2. \A w \in CommandWord : <<"SP">> \o Written(w) \in Text /\ w.atoms \in Text
    BY <2>1, WrittenIsRead DEF CommandWord
  <2> QED
    BY <2>2 DEF Text
<1>2. ASSUME NEW ws \in Seq(CommandWord)
      PROVE  /\ Rest(ws) = FlattenSeq(Images(text, ws))
             /\ Plainly(ws) = Images(atoms, ws)
  <2> DEFINE plain(w) == <<"SP">> \o Written(w)
  <2>1. \A i \in DOMAIN ws : ws[i] \in CommandWord
    OBVIOUS
  <2>2. \A i \in DOMAIN ws : plain(ws[i]) = text[ws[i]] /\ ws[i].atoms = atoms[ws[i]]
    BY <2>1
  <2>3. Rest(ws) = FlattenSeq([i \in DOMAIN ws |-> plain(ws[i])])
    BY DEF Rest
  <2> HIDE DEF plain, text, atoms
  <2>4. [i \in DOMAIN ws |-> plain(ws[i])] = Images(text, ws)
    BY <2>2 DEF Images
  <2>5. Plainly(ws) = Images(atoms, ws)
    BY <2>2 DEF Images, Plainly
  <2> QED
    BY <2>3, <2>4, <2>5
<1>3. \A w \in CommandWord : text[w] = <<"SP">> \o Written(w) /\ atoms[w] = w.atoms
  OBVIOUS
<1> HIDE DEF text, atoms
<1>4. Rest(<<>>) = <<>> /\ Plainly(<<>>) = <<>>
  <2>1. <<>> \in Seq(CommandWord)
    BY EmptySeq
  <2>2. FlattenSeq(Images(text, <<>>)) = <<>>
    BY <1>1, FlattenMap
  <2>3. Images(atoms, <<>>) = <<>>
    BY <1>1, ImagesSteps
  <2> QED
    BY <1>2, <2>1, <2>2, <2>3
<1>5. ASSUME NEW ws \in Seq(CommandWord)
      PROVE  Rest(ws) \in Text /\ Plainly(ws) \in Seq(Text)
  <2>1. FlattenSeq(Images(text, ws)) \in Seq(Atoms)
    BY <1>1, FlattenMap
  <2>2. Images(atoms, ws) \in Seq(Text)
    BY <1>1, ImagesSteps
  <2> QED
    BY <1>2, <2>1, <2>2 DEF Text
<1>6. ASSUME NEW ws \in Seq(CommandWord), NEW w \in CommandWord
      PROVE  /\ Rest(Append(ws, w)) = Rest(ws) \o (<<"SP">> \o Written(w))
             /\ Plainly(Append(ws, w)) = Append(Plainly(ws), w.atoms)
  <2>1. Append(ws, w) \in Seq(CommandWord)
    BY AppendProperties
  <2>2. FlattenSeq(Images(text, Append(ws, w))) = FlattenSeq(Images(text, ws)) \o text[w]
    BY <1>1, FlattenMap
  <2>3. Images(atoms, Append(ws, w)) = Append(Images(atoms, ws), atoms[w])
    <3> DEFINE W == CommandWord
               Y == Text
    <3>1. atoms \in [W -> Y] /\ ws \in Seq(W) /\ w \in W
      BY <1>1
    <3> HIDE DEF W, Y
    <3>2. \A s \in Seq(W), x \in W : Images(atoms, Append(s, x)) = Append(Images(atoms, s), atoms[x])
      BY <3>1, ImagesSteps, ZenonT(60)
    <3> QED
      BY <3>1, <3>2
  <2> QED
    BY <1>2, <1>3, <2>1, <2>2, <2>3
<1> QED
  BY <1>4, <1>5, <1>6

\* The scanner behind "curl".
Begun == Grow(Scanning, <<"curl">>)

\* The words of a command are read one by one, by induction along them.
LEMMA RestIsRead ==
  ASSUME NEW ws \in Seq(CommandWord)
  PROVE  LET e == ScanFrom(Begun, Rest(ws))
         IN  /\ e \in Reads("") /\ e.inToken = TRUE
             /\ Append(e.args, e.current) = <<<<"curl">>>> \o Plainly(ws)
<1> DEFINE E(vs) == ScanFrom(Begun, Rest(vs))
           Right(vs) == /\ E(vs) \in Reads("") /\ E(vs).inToken = TRUE
                        /\ Append(E(vs).args, E(vs).current) = <<<<"curl">>>> \o Plainly(vs)
           T == {vs \in Seq(CommandWord) : Right(vs)}
<1>0. <<"curl">> \in Text /\ <<<<"curl">>>> \in Seq(Text) /\ <<>> \in Text /\ <<>> \in Seq(Text)
  <2>1. "curl" \in Atoms
    BY DEF Atoms
  <2>2. <<"curl">> \in Text
    BY <2>1, Short DEF Text
  <2> HIDE DEF Text
  <2>3. <<<<"curl">>>> \in Seq(Text)
    BY <2>2, Short
  <2>4. <<>> \in Text /\ <<>> \in Seq(Text)
    BY EmptySeq DEF Text
  <2> QED
    BY <2>2, <2>3, <2>4
<1>1. /\ Begun \in Reads("") /\ Begun \in ScanStates /\ Begun.inToken = TRUE
      /\ Begun.args = <<>> /\ Begun.current = <<"curl">>
  <2>1. Scanning.current = <<>>
    BY DEF Scanning
  <2>2. <<>> \o <<"curl">> = <<"curl">>
    BY <1>0, ConcatEmptySeq DEF Text
  <2>3. Begun = [Scanning EXCEPT !.current = <<"curl">>, !.inToken = TRUE]
    BY <2>1, <2>2 DEF Begun, Grow
  <2> QED
    BY <1>0, <2>3 DEF Scanning, Reads, ScanStates
<1>2. <<>> \in T
  <2>1. E(<<>>) = Begun
    BY <1>1, RestSteps, ScanSteps
  <2>2. Append(<<>>, <<"curl">>) = <<<<"curl">>>>
    BY <1>0, Short
  <2>3. <<<<"curl">>>> \o Plainly(<<>>) = <<<<"curl">>>>
    BY <1>0, RestSteps, ConcatEmptySeq
  <2>4. Right(<<>>)
    BY <1>1, <2>1, <2>2, <2>3
  <2> QED
    BY <2>4, EmptySeq
<1>3. ASSUME NEW vs \in Seq(CommandWord), NEW w \in CommandWord, vs \in T
      PROVE  Append(vs, w) \in T
  <2> DEFINE e == E(vs)
             f == Flush(e)
             g == E(Append(vs, w))
             x == <<"SP">> \o Written(w)
  <2>1. /\ e \in Reads("") /\ e.inToken = TRUE
        /\ Append(e.args, e.current) = <<<<"curl">>>> \o Plainly(vs)
    BY <1>3
  <2>2. Rest(Append(vs, w)) = Rest(vs) \o x /\ Rest(vs) \in Text
    BY RestSteps
  <2> HIDE DEF e
  <2>3. x \in Text /\ ScanFrom(e, x) = Grow(f, w.atoms)
    BY <2>1, WrittenIsRead
  <2> HIDE DEF x
  <2>4. g = Grow(f, w.atoms)
    <3>1. ScanFrom(Begun, Rest(vs) \o x) = ScanFrom(e, x)
      BY <1>1, <2>2, <2>3, ScanConcat DEF e
    <3> QED
      BY <2>2, <2>3, <3>1
  <2>5. w.atoms \in Text
    BY DEF CommandWord
  <2>6. f = [e EXCEPT !.args = Append(e.args, e.current), !.current = <<>>, !.inToken = FALSE]
    BY <2>1 DEF Flush
  <2>7. <<>> \o w.atoms = w.atoms
    BY <2>5, ConcatEmptySeq DEF Text
  <2> DEFINE args == Append(e.args, e.current)
  <2>8. g = [e EXCEPT !.args = args, !.current = w.atoms, !.inToken = TRUE]
    <3>1. f.current = <<>>
      BY <2>1, <2>6 DEF Reads, ScanStates
    <3>2. g = [f EXCEPT !.current = w.atoms, !.inToken = TRUE]
      BY <2>4, <2>7, <3>1 DEF Grow
    <3> HIDE DEF args, g, f
    <3>3. f = [e EXCEPT !.args = args, !.current = <<>>, !.inToken = FALSE]
      BY <2>6 DEF args
    <3> QED
      BY <2>1, <3>2, <3>3 DEF Reads, ScanStates
  <2>9. f \in Reads("") /\ g \in Reads("")
    <3>1. f \in Reads("")
      BY <2>1, FlushType
    <3> HIDE DEF f
    <3> QED
      BY <2>4, <2>5, <3>1, GrowType DEF Quotes
  <2> HIDE DEF f, g
  <2>10. g.inToken = TRUE /\ g.args = args /\ g.current = w.atoms
    <3> HIDE DEF args
    <3> QED
      BY <2>1, <2>8 DEF Reads, ScanStates
  <2>11. Append(g.args, g.current) = <<<<"curl">>>> \o Plainly(Append(vs, w))
    <3> DEFINE c == <<<<"curl">>>>
               p == Plainly(vs)
               a == w.atoms
    <3>1. c \in Seq(Text) /\ p \in Seq(Text) /\ a \in Text /\ args = c \o p
      BY <1>0, <2>1, <2>5, RestSteps
    <3>2. Plainly(Append(vs, w)) = Append(p, a)
      BY RestSteps
    <3> HIDE DEF c, p, a, args
    <3>3. Append(c \o p, a) = c \o Append(p, a)
      <4> DEFINE Y == Text
      <4>1. c \in Seq(Y) /\ p \in Seq(Y) /\ a \in Y
        BY <3>1
      <4> HIDE DEF Y
      <4> QED
        <5>1. \A s \in Seq(Y), t \in Seq(Y), y \in Y : s \o Append(t, y) = Append(s \o t, y)
          BY ConcatAppend
        <5> QED
          BY <4>1, <5>1
    <3> QED
      BY <2>10, <3>1, <3>2, <3>3 DEF a, c
  <2>12. Right(Append(vs, w))
    BY <2>9, <2>10, <2>11 DEF g
  <2> QED
    BY <2>12, AppendProperties
<1>4. \A vs \in Seq(CommandWord) : vs \in T
  <2> HIDE DEF T
  <2> QED
    BY <1>2, <1>3, SeqInduction
<1>5. Right(ws)
  BY <1>4
<1> QED
  BY <1>5

\* Any command that consists of names of options and of quoted texts is split into
\* exactly these words: none is refused, joined with the next or lost, and an empty
\* one is kept.
THEOREM CommandIsItsWords ==
  \A ws \in Seq(CommandWord) : splitCurlCommand(CommandText(ws)) = {<<<<"curl">>>> \o Plainly(ws)}
<1> SUFFICES ASSUME NEW ws \in Seq(CommandWord)
             PROVE  splitCurlCommand(CommandText(ws)) = {<<<<"curl">>>> \o Plainly(ws)}
  OBVIOUS
<1> DEFINE e == ScanFrom(Scanning, CommandText(ws))
<1>1. "curl" \in Atoms /\ <<"curl">> \in Text
  <2>1. "curl" \in Atoms
    BY DEF Atoms
  <2> QED
    BY <2>1, Short DEF Text
<1>2. Scanning \in ScanStates
  <2>1. <<>> \in Text /\ <<>> \in Seq(Text)
    BY EmptySeq DEF Text
  <2> QED
    BY <2>1 DEF Scanning, ScanStates
<1>3. ScanFrom(Scanning, <<"curl">>) = Begun
  <2>1. ScanFrom(Scanning, <<"curl">>) = Scan(Scanning, "curl")
    BY <1>1, <1>2, ScanShort
  <2>2. Scan(Scanning, "curl") = Write(Scanning, <<"curl">>)
    <3>1. Scanning.failed = FALSE /\ Scanning.pending = "" /\ Scanning.quote = ""
      BY DEF Scanning
    <3> QED
      BY <3>1 DEF Scan, Unquoted
  <2>3. Write(Scanning, <<"curl">>) = Begun
    <3>1. \A s \in ScanStates : s.pending = "" => Write(s, <<"curl">>) = Grow(s, <<"curl">>)
      BY DEF Write, Grow, ScanStates
    <3>2. Scanning.pending = ""
      BY DEF Scanning
    <3> QED
      BY <1>2, <3>1, <3>2 DEF Begun
  <2> QED
    BY <2>1, <2>2, <2>3
<1>4. e = ScanFrom(Begun, Rest(ws))
  <2> DEFINE x == <<"curl">>
             y == Rest(ws)
  <2>1. CommandText(ws) = x \o y /\ x \in Text /\ y \in Text
    BY <1>1, RestSteps DEF CommandText, Rest
  <2> HIDE DEF x, y
  <2>2. ScanFrom(Scanning, x \o y) = ScanFrom(ScanFrom(Scanning, x), y)
    BY <1>2, <2>1, ScanConcat
  <2> QED
    BY <1>3, <2>1, <2>2 DEF x, y
<1>5. /\ e \in Reads("") /\ e.inToken = TRUE
      /\ Append(e.args, e.current) = <<<<"curl">>>> \o Plainly(ws)
  BY <1>4, RestIsRead
<1>6. splitCurlCommand(CommandText(ws)) =
        {Flush(s).args : s \in {end \in {e} : ~end.failed /\ end.quote = "" /\ end.pending = ""}}
  BY DEF splitCurlCommand
<1> HIDE DEF e
<1>7. e.failed = FALSE /\ e.quote = "" /\ e.pending = "" /\ e \in ScanStates
  BY <1>5 DEF Reads
<1>8. Flush(e).args = Append(e.args, e.current)
  BY <1>5, <1>7 DEF Flush, ScanStates
<1> QED
  BY <1>5, <1>6, <1>7, <1>8

\* The requests that FormatCURL is given.
Kinds == {"--data", "--data-raw", "--data-binary", "--data-urlencode"}
Times == {0} \cup {Seconds[t] : t \in DOMAIN Seconds}
Requests ==
  [method : Text, url : Text, headers : [ToSet(HeaderNames) -> Seq(Text)], body : Text,
   data : Seq([kind : Kinds, value : Text]), form : Seq([name : Text, value : Text, file : Text]),
   auth : {<<>>} \cup (Text \X Text), cookies : Seq(Text), agent : Text,
   connect : Times, max : Times, follow : BOOLEAN, insecure : BOOLEAN]

\* What strings.TrimSpace leaves of a text is text.
LEMMA TrimType ==
  ASSUME NEW s \in Text
  PROVE  TrimSpace(s) \in Text
<1> DEFINE ink == {i \in DOMAIN s : s[i] \notin {"SP", "NL"}}
           n == Len(s)
<1>1. n \in Nat /\ DOMAIN s = 1 .. n
  BY LenProperties DEF Text
<1>2. TrimSpace(s) = IF ink = {} THEN <<>> ELSE SubSeq(s, Min(ink), Max(ink))
  BY DEF TrimSpace
<1>3. ink \subseteq 1 .. n
  BY <1>1
<1> HIDE DEF ink
<1>4. CASE ink = {}
  BY <1>2, <1>4, EmptySeq DEF Text
<1>5. CASE ink # {}
  <2>1. Min(ink) \in ink
    <3>1. ink \subseteq Nat
      BY <1>1, <1>3
    <3>2. \E x \in ink : \A y \in ink : x <= y
      BY <1>5, <3>1, LeastNatural
    <3> QED
      BY <3>2 DEF Min
  <2>2. Max(ink) \in ink
    <3> DEFINE far == {d \in 0 .. n : \E x \in ink : d = n - x}
    <3>0. n \in Nat
      BY <1>1
    <3> HIDE DEF n
    <3>1. \A x \in ink : x \in Int /\ n - x \in 0 .. n
      <4>1. \A x \in 1 .. n : x \in Int /\ n - x \in 0 .. n
        BY <3>0
      <4> QED
        BY <1>3, <4>1
    <3>2. PICK d \in far : \A e \in far : d <= e
      <4>1. far \subseteq Nat /\ far # {}
        BY <1>5, <3>0, <3>1
      <4> HIDE DEF far
      <4> QED
        BY <4>1, LeastNatural
    <3>3. PICK x \in ink : d = n - x
      BY <3>2
    <3>4. ASSUME NEW y \in ink
          PROVE  x >= y
      <4>1. n - y \in far
        BY <3>1
      <4>2. n - x <= n - y
        BY <3>2, <3>3, <4>1
      <4> QED
        BY <3>0, <3>1, <4>2
    <3> QED
      BY <3>4 DEF Max
  <2>3. Min(ink) \in 1 .. n /\ Max(ink) \in 1 .. n
    BY <1>3, <2>1, <2>2
  <2> DEFINE i == Min(ink)
             j == Max(ink)
  <2>4. i \in 1 .. n /\ j \in 1 .. n
    BY <2>3
  <2> HIDE DEF i, j
  <2>5. SubSeq(s, i, j) \in Seq(Atoms)
    <3>1. i \in Int /\ j \in Int
      BY <2>4
    <3>2. \A k \in i .. j : s[k] \in Atoms
      <4>1. \A k \in i .. j : k \in 1 .. Len(s)
        BY <1>1, <2>4
      <4> QED
        BY <4>1, ElementOfSeq DEF Text
    <3> QED
      BY <3>1, <3>2, SubSeqProperties
  <2> QED
    BY <1>2, <1>5, <2>5 DEF i, j, Text
<1> QED
  BY <1>4, <1>5

\* The words of an option that may be given several times.
Each(option, s) == FlattenSeq([i \in DOMAIN s |-> <<Plain(option), Value(s[i])>>])

\* Names of options and values are words of a command.
LEMMA WordTypes ==
  /\ \A o \in OptionNames : Plain(o) \in CommandWord
  /\ \A v \in Text : Value(v) \in CommandWord
<1>1. ASSUME NEW o \in OptionNames
      PROVE  Plain(o) \in CommandWord
  <2>1. o \in Atoms
    BY DEF Atoms
  <2>2. <<o>> \in Text
    BY <2>1, Short DEF Text
  <2> QED
    BY <2>2 DEF Plain, CommandWord
<1>2. \A v \in Text : Value(v) \in CommandWord
  BY DEF Value, CommandWord
<1> QED
  BY <1>1, <1>2

\* An option and its value.
LEMMA PairType ==
  ASSUME NEW o \in OptionNames, NEW v \in Text
  PROVE  <<Plain(o), Value(v)>> \in Seq(CommandWord)
<1> DEFINE a == Plain(o)
           b == Value(v)
           W == CommandWord
<1>1. a \in W /\ b \in W
  BY WordTypes
<1> HIDE DEF a, b, W
<1>2. <<a, b>> \in Seq(W)
  BY <1>1, Short
<1> QED
  BY <1>2 DEF a, b, W

\* An option for each of several values.
LEMMA EachType ==
  ASSUME NEW o \in OptionNames, NEW s \in Seq(Text)
  PROVE  Each(o, s) \in Seq(CommandWord)
<1> DEFINE f == [v \in Text |-> <<Plain(o), Value(v)>>]
           W == CommandWord
           T == Text
<1>1. f \in [T -> Seq(W)]
  BY PairType
<1>2. \A i \in DOMAIN s : <<Plain(o), Value(s[i])>> = f[s[i]]
  <2>1. \A i \in DOMAIN s : s[i] \in Text
    <3> HIDE DEF T
    <3>1. s \in Seq(T)
      BY DEF T
    <3>2. \A i \in DOMAIN s : s[i] \in T
      BY <3>1
    <3> QED
      BY <3>2 DEF T
  <2> QED
    BY <2>1
<1> HIDE DEF f, W
<1>3. Each(o, s) = FlattenSeq(Images(f, s))
  BY <1>2 DEF Each, Images
<1>4. FlattenSeq(Images(f, s)) \in Seq(W)
  <2>1. s \in Seq(T)
    OBVIOUS
  <2> HIDE DEF T
  <2> QED
    BY <1>1, <2>1, FlattenMap
<1> QED
  BY <1>3, <1>4 DEF W
\* The parts of CommandWords.
Some(option, v) == Each(option, IF v = <<>> THEN <<>> ELSE <<v>>)
Switch(option, b) == IF b THEN <<Plain(option)>> ELSE <<>>
Time(option, t) == IF t = 0 THEN <<>> ELSE Some(option, curlDuration(t))
HeaderOf(spec, n) == LET h == spec.headers[n] IN Each("-H", [i \in DOMAIN h |-> <<n, ":", "SP">> \o h[i]])
DataOf(spec) == FlattenSeq([i \in DOMAIN spec.data |-> <<Plain(spec.data[i].kind), Value(spec.data[i].value)>>])
FieldOf(f) == f.name \o <<"=">> \o IF f.file # <<>> THEN <<"@">> \o f.file ELSE f.value

LEMMA SomeType ==
  ASSUME NEW o \in OptionNames, NEW v \in Text
  PROVE  Some(o, v) \in Seq(CommandWord)
<1>1. <<>> \in Seq(Text) /\ <<v>> \in Seq(Text)
  <2> DEFINE T == Text
  <2> HIDE DEF T
  <2>1. v \in T => <<>> \in Seq(T) /\ <<v>> \in Seq(T)
    BY EmptySeq, Short
  <2> QED
    BY <2>1 DEF T
<1>2. (IF v = <<>> THEN <<>> ELSE <<v>>) \in Seq(Text)
  BY <1>1
<1> QED
  BY <1>2, EachType DEF Some

LEMMA SwitchType ==
  ASSUME NEW o \in OptionNames, NEW b \in BOOLEAN
  PROVE  Switch(o, b) \in Seq(CommandWord)
<1> DEFINE w == Plain(o)
           W == CommandWord
<1>1. w \in W
  BY WordTypes
<1> HIDE DEF w, W
<1>2. <<w>> \in Seq(W) /\ <<>> \in Seq(W)
  BY <1>1, Short, EmptySeq
<1> QED
  BY <1>2 DEF Switch, w, W

LEMMA TimeType ==
  ASSUME NEW o \in OptionNames, NEW t \in Times
  PROVE  Time(o, t) \in Seq(CommandWord)
<1>1. CASE t = 0
  BY <1>1, EmptySeq DEF Time
<1>2. CASE t # 0
  <2>1. \E d \in DOMAIN Seconds : Seconds[d] = t
    BY <1>2 DEF Times
  <2> DEFINE c == CHOOSE d \in DOMAIN Seconds : Seconds[d] = t
  <2>2. c \in DOMAIN Seconds
    BY <2>1
  <2>3. c \in Atoms
    BY <2>2 DEF Atoms
  <2>4. curlDuration(t) = <<c>>
    BY DEF curlDuration
  <2> HIDE DEF c
  <2>5. <<c>> \in Text
    BY <2>3, Short DEF Text
  <2> QED
    BY <1>2, <2>4, <2>5, SomeType DEF Time
<1> QED
  BY <1>1, <1>2

\* Two sequences of words, one after the other.
LEMMA Longer ==
  ASSUME NEW a \in Seq(CommandWord), NEW b \in Seq(CommandWord)
  PROVE  a \o b \in Seq(CommandWord)
BY ConcatProperties

\* The headers of one name.
LEMMA HeaderOfType ==
  ASSUME NEW spec \in Requests, NEW n \in ToSet(HeaderNames)
  PROVE  HeaderOf(spec, n) \in Seq(CommandWord)
<1> DEFINE h == spec.headers[n]
           s == [j \in DOMAIN h |-> <<n, ":", "SP">> \o h[j]]
           T == Text
<1>1. h \in Seq(T)
  BY DEF Requests
<1>2. n \in Atoms /\ ":" \in Atoms /\ "SP" \in Atoms
  BY DEF Atoms
<1>3. HeaderOf(spec, n) = Each("-H", s)
  BY DEF HeaderOf
<1> HIDE DEF h
<1>4. <<n, ":", "SP">> \in T
  BY <1>2 DEF Text
<1>5. \A j \in DOMAIN h : <<n, ":", "SP">> \o h[j] \in T
  <2>1. \A j \in DOMAIN h : h[j] \in T
    <3> HIDE DEF T
    <3> QED
      BY <1>1
  <2> QED
    BY <1>4, <2>1, ConcatProperties DEF Text
<1>6. s \in Seq(T)
  <2>1. DOMAIN h = 1 .. Len(h) /\ Len(h) \in Nat
    BY <1>1, LenProperties
  <2>2. [j \in 1 .. Len(h) |-> <<n, ":", "SP">> \o h[j]] \in Seq(T)
    <3> HIDE DEF T
    <3> QED
      BY <1>5, <2>1, IsASeq
  <2> QED
    BY <2>1, <2>2
<1>7. "-H" \in OptionNames
  BY DEF OptionNames
<1> HIDE DEF s
<1>8. Each("-H", s) \in Seq(CommandWord)
  BY <1>6, <1>7, EachType
<1> QED
  BY <1>3, <1>8

\* The headers, by their names.
LEMMA HeadersType ==
  ASSUME NEW spec \in Requests
  PROVE  FlattenSeq([i \in DOMAIN HeaderNames |-> HeaderOf(spec, HeaderNames[i])]) \in Seq(CommandWord)
<1>1. ASSUME NEW i \in DOMAIN HeaderNames
      PROVE  HeaderOf(spec, HeaderNames[i]) \in Seq(CommandWord)
  <2>1. HeaderNames[i] \in ToSet(HeaderNames)
    BY DEF ToSet
  <2> QED
    BY <2>1, HeaderOfType
<1> DEFINE Z == Seq(CommandWord)
           m == Len(HeaderNames)
<1>2. DOMAIN HeaderNames = 1 .. m /\ m \in Nat
  BY DEF HeaderNames
<1>3. [i \in 1 .. m |-> HeaderOf(spec, HeaderNames[i])] \in Seq(Z)
  <2> HIDE DEF Z, m
  <2> QED
    BY <1>1, <1>2, IsASeq DEF Z
<1>4. \A q \in Seq(Z) : FlattenSeq(q) \in Z
  BY Flatten
<1> HIDE DEF Z, m
<1>5. FlattenSeq([i \in 1 .. m |-> HeaderOf(spec, HeaderNames[i])]) \in Z
  BY <1>3, <1>4
<1> QED
  BY <1>2, <1>5 DEF Z

\* The data, by their kinds.
LEMMA DataType ==
  ASSUME NEW spec \in Requests
  PROVE  DataOf(spec) \in Seq(CommandWord)
<1> DEFINE D == [kind : Kinds, value : Text]
           W == CommandWord
           d == spec.data
           f == [x \in D |-> <<Plain(x.kind), Value(x.value)>>]
<1>1. d \in Seq(D)
  BY DEF Requests
<1>2. \A x \in D : x.kind \in OptionNames /\ x.value \in Text
  BY DEF Kinds, OptionNames
<1>3. f \in [D -> Seq(W)]
  BY <1>2, PairType
<1>4. DataOf(spec) = FlattenSeq(Images(f, d))
  <2>1. \A i \in DOMAIN d : d[i] \in D
    <3> HIDE DEF D, d
    <3> QED
      BY <1>1
  <2>2. \A i \in DOMAIN d : <<Plain(d[i].kind), Value(d[i].value)>> = f[d[i]]
    BY <2>1
  <2>3. DataOf(spec) = FlattenSeq([i \in DOMAIN d |-> <<Plain(d[i].kind), Value(d[i].value)>>])
    BY DEF DataOf
  <2> HIDE DEF f, D, d
  <2>4. [i \in DOMAIN d |-> <<Plain(d[i].kind), Value(d[i].value)>>] = Images(f, d)
    BY <2>2 DEF Images
  <2> QED
    BY <2>3, <2>4
<1> HIDE DEF f, D, W, d
<1>5. FlattenSeq(Images(f, d)) \in Seq(W)
  BY <1>1, <1>3, FlattenMap
<1> QED
  BY <1>4, <1>5 DEF W

\* The fields of a form.
LEMMA FormType ==
  ASSUME NEW spec \in Requests
  PROVE  Each("--form", [i \in DOMAIN spec.form |-> FieldOf(spec.form[i])]) \in Seq(CommandWord)
<1> DEFINE F == [name : Text, value : Text, file : Text]
           d == spec.form
           T == Text
<1>1. d \in Seq(F)
  BY DEF Requests
<1>2. <<"=">> \in T /\ <<"@">> \in T
  <2>1. "=" \in Atoms /\ "@" \in Atoms
    BY DEF Atoms
  <2> QED
    BY <2>1, Short DEF Text
<1>3. ASSUME NEW x \in F
      PROVE  FieldOf(x) \in T
  <2>1. x.name \in T /\ x.value \in T /\ x.file \in T
    OBVIOUS
  <2>2. \A a \in T, b \in T : a \o b \in T
    BY ConcatProperties DEF Text
  <2> HIDE DEF T
  <2> QED
    BY <1>2, <2>1, <2>2 DEF FieldOf
<1> HIDE DEF F, T, d
<1>4. DOMAIN d = 1 .. Len(d) /\ Len(d) \in Nat /\ \A i \in 1 .. Len(d) : d[i] \in F
  BY <1>1, LenProperties
<1>5. [i \in 1 .. Len(d) |-> FieldOf(d[i])] \in Seq(T)
  <2>1. \A i \in 1 .. Len(d) : FieldOf(d[i]) \in T
    BY <1>3, <1>4
  <2> QED
    BY <1>4, <2>1, IsASeq
<1>6. "--form" \in OptionNames
  BY DEF OptionNames
<1> DEFINE s == [i \in DOMAIN d |-> FieldOf(d[i])]
<1>7. s \in Seq(T)
  BY <1>4, <1>5
<1> HIDE DEF s
<1>8. Each("--form", s) \in Seq(CommandWord)
  BY <1>6, <1>7, EachType DEF T
<1> QED
  BY <1>8 DEF s, d

\* The parts of the command.
MethodPart(spec) == Some("-X", TrimSpace(spec.method))
HeadersPart(spec) == FlattenSeq([i \in DOMAIN HeaderNames |-> HeaderOf(spec, HeaderNames[i])])
BodyPart(spec) == IF spec.data = <<>> THEN Some("--data-binary", spec.body) ELSE <<>>
FieldWords(fs) == Each("--form", [i \in DOMAIN fs |-> FieldOf(fs[i])])
FieldsPart(spec) == FieldWords(spec.form)
CookiesPart(spec) == Each("--cookie", spec.cookies)
UserPart(spec) == IF spec.auth = <<>> THEN <<>> ELSE Some("--user", spec.auth[1] \o <<":">> \o spec.auth[2])
AgentPart(spec) == Some("--user-agent", spec.agent)
ConnectPart(spec) == Time("--connect-timeout", spec.connect)
MaxPart(spec) == Time("--max-time", spec.max)
InsecurePart(spec) == Switch("--insecure", spec.insecure)
FollowPart(spec) == Switch("--location", spec.follow)
DashesPart(spec) == Switch("--", IsOption(spec.url))
UrlPart(spec) == <<Value(spec.url)>>

LEMMA PartsType ==
  ASSUME NEW spec \in Requests
  PROVE  /\ MethodPart(spec) \in Seq(CommandWord) /\ HeadersPart(spec) \in Seq(CommandWord)
         /\ DataOf(spec) \in Seq(CommandWord) /\ BodyPart(spec) \in Seq(CommandWord)
         /\ FieldsPart(spec) \in Seq(CommandWord) /\ CookiesPart(spec) \in Seq(CommandWord)
         /\ UserPart(spec) \in Seq(CommandWord) /\ AgentPart(spec) \in Seq(CommandWord)
         /\ ConnectPart(spec) \in Seq(CommandWord) /\ MaxPart(spec) \in Seq(CommandWord)
         /\ InsecurePart(spec) \in Seq(CommandWord) /\ FollowPart(spec) \in Seq(CommandWord)
         /\ DashesPart(spec) \in Seq(CommandWord) /\ UrlPart(spec) \in Seq(CommandWord)
<1> DEFINE Z == Seq(CommandWord)
           a == Some("-X", TrimSpace(spec.method))
           b == FlattenSeq([i \in DOMAIN HeaderNames |-> HeaderOf(spec, HeaderNames[i])])
           c == DataOf(spec)
           d == IF spec.data = <<>> THEN Some("--data-binary", spec.body) ELSE <<>>
           e == Each("--form", [i \in DOMAIN spec.form |-> FieldOf(spec.form[i])])
           f == Each("--cookie", spec.cookies)
           g == IF spec.auth = <<>> THEN <<>> ELSE Some("--user", spec.auth[1] \o <<":">> \o spec.auth[2])
           h == Some("--user-agent", spec.agent)
           i == Time("--connect-timeout", spec.connect)
           j == Time("--max-time", spec.max)
           k == Switch("--insecure", spec.insecure)
           l == Switch("--location", spec.follow)
           m == Switch("--", IsOption(spec.url))
           n == <<Value(spec.url)>>
<1>0. {"-X", "--data-binary", "--cookie", "--user", "--user-agent", "--connect-timeout",
       "--max-time", "--insecure", "--location", "--"} \subseteq OptionNames
  BY DEF OptionNames
<1>1. /\ spec.method \in Text /\ spec.url \in Text /\ spec.body \in Text /\ spec.agent \in Text
      /\ spec.cookies \in Seq(Text) /\ spec.connect \in Times /\ spec.max \in Times
  BY DEF Requests
<1>2. spec.insecure \in BOOLEAN /\ spec.follow \in BOOLEAN /\ IsOption(spec.url) \in BOOLEAN
  BY DEF Requests, IsOption
<1>3. <<>> \in Z
  BY EmptySeq
<1>4. a \in Z /\ d \in Z /\ h \in Z
  BY <1>0, <1>1, <1>3, TrimType, SomeType
<1>5. b \in Z /\ c \in Z /\ e \in Z
  BY HeadersType, DataType, FormType
<1>6. f \in Z
  BY <1>0, <1>1, EachType
<1>7. g \in Z
  <2> DEFINE au == spec.auth
  <2>1. au = <<>> \/ (au[1] \in Text /\ au[2] \in Text)
    BY DEF Requests
  <2>2. <<":">> \in Text
    <3>1. ":" \in Atoms
      BY DEF Atoms
    <3> QED
      BY <3>1, Short DEF Text
  <2>3. au # <<>> => au[1] \o <<":">> \o au[2] \in Text
    <3>1. \A x \in Text, y \in Text : x \o y \in Text
      BY ConcatProperties DEF Text
    <3> HIDE DEF au
    <3> QED
      BY <2>1, <2>2, <3>1
  <2> QED
    BY <1>0, <1>3, <2>3, SomeType
<1>8. i \in Z /\ j \in Z
  BY <1>0, <1>1, TimeType
<1>9. k \in Z /\ l \in Z /\ m \in Z
  BY <1>0, <1>2, SwitchType
<1>10. n \in Z
  <2> DEFINE v == Value(spec.url)
             W == CommandWord
  <2>1. v \in W
    BY <1>1, WordTypes
  <2> HIDE DEF v, W
  <2>2. <<v>> \in Seq(W)
    BY <2>1, Short
  <2> QED
    BY <2>2 DEF v, W
<1> QED
  BY <1>4, <1>5, <1>6, <1>7, <1>8, <1>9, <1>10
     DEF MethodPart, HeadersPart, BodyPart, FieldsPart, FieldWords, CookiesPart, UserPart, AgentPart, ConnectPart,
         MaxPart, InsecurePart, FollowPart, DashesPart, UrlPart

\* CommandWords gives words of a command, one part after the other.
FirstWords(spec) == MethodPart(spec) \o HeadersPart(spec) \o DataOf(spec) \o BodyPart(spec)
MoreWords(spec)  == FirstWords(spec) \o FieldsPart(spec) \o CookiesPart(spec) \o UserPart(spec) \o AgentPart(spec)
LastWords(spec)  == MoreWords(spec) \o ConnectPart(spec) \o MaxPart(spec) \o InsecurePart(spec) \o FollowPart(spec)

LEMMA CommandWordsType ==
  ASSUME NEW spec \in Requests
  PROVE  /\ FirstWords(spec) \in Seq(CommandWord) /\ MoreWords(spec) \in Seq(CommandWord)
         /\ LastWords(spec) \in Seq(CommandWord) /\ CommandWords(spec) \in Seq(CommandWord)
         /\ CommandWords(spec) = LastWords(spec) \o DashesPart(spec) \o UrlPart(spec)
<1>1. FirstWords(spec) \in Seq(CommandWord)
  BY PartsType, Longer DEF FirstWords
<1>2. MoreWords(spec) \in Seq(CommandWord)
  BY <1>1, PartsType, Longer DEF MoreWords
<1>3. LastWords(spec) \in Seq(CommandWord)
  BY <1>2, PartsType, Longer DEF LastWords
<1>4. CommandWords(spec) = LastWords(spec) \o DashesPart(spec) \o UrlPart(spec)
  BY DEF CommandWords, Some, Each, Time, Switch, HeaderOf, DataOf, FieldOf, FirstWords, MoreWords, LastWords,
         MethodPart, HeadersPart, BodyPart, FieldsPart, FieldWords, CookiesPart, UserPart, AgentPart, ConnectPart,
         MaxPart, InsecurePart, FollowPart, DashesPart, UrlPart
<1>5. LastWords(spec) \o DashesPart(spec) \o UrlPart(spec) \in Seq(CommandWord)
  BY <1>3, PartsType, Longer
<1> QED
  BY <1>1, <1>2, <1>3, <1>4, <1>5

\* What FormatCURL writes of any request is split into the words it was made of:
\* the first half of importing what was generated.
THEOREM FormattedIsSplit ==
  ASSUME NEW spec \in Requests, NEW text \in FormatCURL(spec)
  PROVE  splitCurlCommand(text) = {<<<<"curl">>>> \o Plainly(CommandWords(spec))}
<1>1. text = CommandText(CommandWords(spec))
  BY DEF FormatCURL
<1> QED
  BY <1>1, CommandWordsType, CommandIsItsWords

LEMMA MaxOf ==
  ASSUME NEW n \in Nat, NEW A \in SUBSET (1 .. n), A # {}
  PROVE  Max(A) \in A /\ \A a \in A : a <= Max(A)
<1> DEFINE B == {n - a : a \in A}
<1>1. B \subseteq Nat /\ B # {}
  <2>1. \A a \in A : a \in 1 .. n
    OBVIOUS
  <2>2. \A a \in 1 .. n : n - a \in Nat
    OBVIOUS
  <2> QED
    BY <2>1, <2>2
<1>2. PICK b \in B : \A c \in B : b <= c
  <2> HIDE DEF B
  <2> QED
    BY <1>1, LeastNatural
<1>3. PICK x \in A : b = n - x
  BY <1>2
<1>4. ASSUME NEW a \in A
      PROVE  x >= a
  <2>1. n - a \in B /\ a \in 1 .. n /\ x \in 1 .. n
    BY <1>3
  <2>2. n - x <= n - a
    BY <1>2, <1>3, <2>1
  <2> QED
    BY <2>1, <2>2
<1>5. \E y \in A : \A a \in A : y >= a
  BY <1>4
<1>6. Max(A) \in A /\ \A a \in A : Max(A) >= a
  BY <1>5 DEF Max
<1> QED
  BY <1>6

\* What the folds of FoldLeft are made of: a function on the sets of places, which
\* takes the place that is last off its argument.
SetFold(f, seq, S, base, Op) ==
  /\ f \in [SUBSET (1 .. Len(seq)) -> S]
  /\ f[{}] = base
  /\ \A A \in SUBSET (1 .. Len(seq)) : A # {} => f[A] = Op[f[A \ {Max(A)}]][seq[Max(A)]]

LEMMA SetFoldExists ==
  ASSUME NEW X, NEW S, NEW base \in S, NEW Op \in [S -> [X -> S]], NEW seq \in Seq(X)
  PROVE  \E f : SetFold(f, seq, S, base, Op)
<1> DEFINE T == {s \in Seq(X) : \E f : SetFold(f, s, S, base, Op)}
<1>1. <<>> \in T
  <2> DEFINE f == [A \in SUBSET (1 .. 0) |-> base]
  <2>1. SetFold(f, <<>>, S, base, Op)
    <3>1. Len(<<>>) = 0 /\ \A A \in SUBSET (1 .. 0) : A = {}
      OBVIOUS
    <3> QED
      BY <3>1 DEF SetFold
  <2> HIDE DEF SetFold
  <2> QED
    BY <2>1, EmptySeq
<1>2. ASSUME NEW s \in Seq(X), NEW x \in X, s \in T
      PROVE  Append(s, x) \in T
  <2>1. PICK f : SetFold(f, s, S, base, Op)
    BY <1>2
  <2> DEFINE n == Len(s)
             P(A) == A \ {n + 1}
             h == [A \in SUBSET (1 .. n + 1) |-> IF n + 1 \in A THEN Op[f[P(A)]][x] ELSE f[A]]
  <2>0. n \in Nat
    BY LenProperties
  <2>2. /\ Append(s, x) \in Seq(X) /\ Len(Append(s, x)) = n + 1
        /\ \A i \in 1 .. n : Append(s, x)[i] = s[i]
        /\ Append(s, x)[n + 1] = x
    BY AppendProperties
  <2>3. /\ f \in [SUBSET (1 .. n) -> S] /\ f[{}] = base
        /\ \A A \in SUBSET (1 .. n) : A # {} => f[A] = Op[f[A \ {Max(A)}]][s[Max(A)]]
    BY <2>1 DEF SetFold
  <2>4. \A A \in SUBSET (1 .. n + 1) : /\ P(A) \in SUBSET (1 .. n)
                                       /\ n + 1 \notin A => A \in SUBSET (1 .. n)
    <3>1. \A i \in 1 .. n + 1 : i = n + 1 \/ i \in 1 .. n
      BY <2>0
    <3> HIDE DEF n
    <3>2. ASSUME NEW A \in SUBSET (1 .. n + 1)
          PROVE  /\ P(A) \in SUBSET (1 .. n)
                 /\ n + 1 \notin A => A \in SUBSET (1 .. n)
      BY <3>1
    <3> QED
      BY <3>2
  <2> HIDE DEF n
  <2>5. h \in [SUBSET (1 .. n + 1) -> S]
    <3>1. ASSUME NEW A \in SUBSET (1 .. n + 1)
          PROVE  (IF n + 1 \in A THEN Op[f[P(A)]][x] ELSE f[A]) \in S
      <4>1. P(A) \in SUBSET (1 .. n) /\ (n + 1 \notin A => A \in SUBSET (1 .. n))
        BY <2>4
      <4>2. f[P(A)] \in S /\ (n + 1 \notin A => f[A] \in S)
        BY <2>3, <4>1
      <4>3. Op[f[P(A)]][x] \in S
        BY <4>2
      <4> QED
        BY <4>2, <4>3
    <3> QED
      BY <3>1
  <2>6. h[{}] = base
    BY <2>3
  <2>7. ASSUME NEW A \in SUBSET (1 .. n + 1), A # {}
        PROVE  h[A] = Op[h[A \ {Max(A)}]][Append(s, x)[Max(A)]]
    <3>1. Max(A) \in A /\ \A a \in A : a <= Max(A)
      <4>1. n + 1 \in Nat
        BY <2>0
      <4> QED
        BY <2>7, <4>1, MaxOf
    <3>2. CASE n + 1 \in A
      <4>1. Max(A) = n + 1
        <5>1. n + 1 <= Max(A) /\ Max(A) \in 1 .. n + 1
          BY <3>1, <3>2
        <5> QED
          BY <2>0, <5>1
      <4>2. P(A) \in SUBSET (1 .. n + 1) /\ n + 1 \notin P(A)
        OBVIOUS
      <4>3. h[P(A)] = f[P(A)] /\ h[A] = Op[f[P(A)]][x]
        BY <3>2, <4>2
      <4> QED
        BY <2>2, <4>1, <4>3
    <3>3. CASE n + 1 \notin A
      <4>1. A \in SUBSET (1 .. n) /\ Max(A) \in 1 .. n
        BY <2>4, <3>1, <3>3
      <4>2. h[A] = f[A] /\ h[A \ {Max(A)}] = f[A \ {Max(A)}]
        BY <3>3
      <4>3. f[A] = Op[f[A \ {Max(A)}]][s[Max(A)]] /\ Append(s, x)[Max(A)] = s[Max(A)]
        BY <2>2, <2>3, <2>7, <4>1
      <4> QED
        BY <4>2, <4>3
    <3> QED
      BY <3>2, <3>3
  <2> HIDE DEF h
  <2>8. SetFold(h, Append(s, x), S, base, Op)
    BY <2>2, <2>5, <2>6, <2>7 DEF SetFold
  <2> QED
    BY <2>2, <2>8
<1>3. \A s \in Seq(X) : s \in T
  <2> HIDE DEF T
  <2> QED
    BY <1>1, <1>2, SeqInduction
<1> QED
  BY <1>3

\* The last place of all up to k.
LEMMA LastPlace ==
  ASSUME NEW n \in Nat
  PROVE  /\ 1 .. 0 = {}
         /\ \A k \in 1 .. n : /\ 1 .. k \in SUBSET (1 .. n) /\ 1 .. k # {}
                              /\ Max(1 .. k) = k /\ (1 .. k) \ {k} = 1 .. k - 1
<1>1. ASSUME NEW k \in 1 .. n
      PROVE  1 .. k \in SUBSET (1 .. n) /\ 1 .. k # {} /\ (1 .. k) \ {k} = 1 .. k - 1
  OBVIOUS
<1>2. ASSUME NEW k \in 1 .. n
      PROVE  Max(1 .. k) = k
  <2>1. Max(1 .. k) \in 1 .. k /\ \A a \in 1 .. k : a <= Max(1 .. k)
    BY <1>1, MaxOf
  <2> QED
    BY <2>1
<1> QED
  BY <1>1, <1>2

\* Whatever solves the equations of such a function has the value of the fold.
Solves(f, seq, S, base, Op) ==
  /\ f[{}] = base
  /\ \A A \in SUBSET (1 .. Len(seq)) :
        A # {} /\ f[A \ {Max(A)}] \in S => f[A] = Op[f[A \ {Max(A)}]][seq[Max(A)]]

LEMMA SetFoldMeans ==
  ASSUME NEW X, NEW S, NEW base \in S, NEW Op \in [S -> [X -> S]], NEW seq \in Seq(X), NEW g,
         Fold(g, seq, S, base, Op), NEW f, Solves(f, seq, S, base, Op)
  PROVE  f[1 .. Len(seq)] = g[Len(seq)]
<1> DEFINE n == Len(seq)
           h == [k \in 0 .. n |-> f[1 .. k]]
<1>1. n \in Nat
  BY LenProperties
<1>2. /\ g \in [0 .. n -> S] /\ g[0] = base
      /\ \A i \in 1 .. n : g[i] = Op[g[i - 1]][seq[i]]
  BY DEF Fold
<1>3. \A A \in SUBSET (1 .. n) :
        A # {} /\ f[A \ {Max(A)}] \in S => f[A] = Op[f[A \ {Max(A)}]][seq[Max(A)]]
  BY DEF Solves
<1>0. f[{}] = base
  BY DEF Solves
<1> HIDE DEF n
<1>4. \A k \in 0 .. n : h[k] = f[1 .. k]
  OBVIOUS
<1>5. h[0] = g[0]
  BY <1>0, <1>1, <1>2, <1>4, LastPlace
<1>6. ASSUME NEW i \in 1 .. n, h[i - 1] = g[i - 1]
      PROVE  h[i] = g[i]
  <2>1. i \in 0 .. n /\ i - 1 \in 0 .. n
    BY <1>1
  <2>2. h[i] = f[1 .. i] /\ h[i - 1] = f[1 .. i - 1] /\ g[i - 1] \in S
    BY <1>2, <1>4, <2>1
  <2>3. 1 .. i \in SUBSET (1 .. n) /\ 1 .. i # {} /\ Max(1 .. i) = i /\ (1 .. i) \ {i} = 1 .. i - 1
    BY <1>1, LastPlace
  <2>4. f[1 .. i] = Op[f[1 .. i - 1]][seq[i]]
    <3> DEFINE A == 1 .. i
    <3>1. A \in SUBSET (1 .. n) /\ A # {} /\ Max(A) = i /\ A \ {Max(A)} = 1 .. i - 1
      BY <2>3
    <3>2. f[A \ {Max(A)}] \in S
      BY <1>6, <2>2, <3>1
    <3> HIDE DEF A
    <3>3. f[A] = Op[f[A \ {Max(A)}]][seq[Max(A)]]
      BY <1>3, <3>1, <3>2
    <3>4. f[A] = Op[f[1 .. i - 1]][seq[i]]
      BY <3>1, <3>3
    <3> QED
      BY <3>4 DEF A
  <2> QED
    BY <1>2, <1>6, <2>2, <2>4
<1> HIDE DEF h
<1>7. ASSUME NEW k \in 0 .. n, h[k] # g[k]
      PROVE  FALSE
  <2> DEFINE N == {i \in 0 .. n : h[i] # g[i]}
  <2>1. N # {} /\ N \subseteq Nat
    <3>1. k \in N
      BY <1>7
    <3>2. \A i \in 0 .. n : i \in Nat
      BY <1>1
    <3> QED
      BY <3>1, <3>2
  <2>2. PICK i \in N : \A j \in N : i <= j
    <3> HIDE DEF N
    <3> QED
      BY <2>1, LeastNatural
  <2>3. i \in 1 .. n /\ i - 1 \in 0 .. n /\ ~(i <= i - 1)
    BY <1>1, <1>5, <2>2
  <2>4. h[i - 1] = g[i - 1] /\ h[i] # g[i]
    BY <2>2, <2>3
  <2> QED
    BY <1>6, <2>3, <2>4
<1>8. n \in 0 .. n
  BY <1>1
<1>9. h[n] = f[1 .. n] /\ h[n] = g[n]
  BY <1>4, <1>7, <1>8
<1> QED
  BY <1>9 DEF n

\* A function on sequences whose values are those of a fold goes step by step.
Computes(V, X, S, base, Op) == \A t \in Seq(X) : \A g : Fold(g, t, S, base, Op) => V[t] = g[Len(t)]

Steps(V, X, S, base, Op) ==
  /\ V[<<>>] = base
  /\ \A t \in Seq(X) : V[t] \in S
  /\ \A t \in Seq(X), x \in X : V[Append(t, x)] = Op[V[t]][x]

LEMMA FoldedSteps ==
  ASSUME NEW X, NEW S, NEW base \in S, NEW Op \in [S -> [X -> S]], NEW V, Computes(V, X, S, base, Op)
  PROVE  Steps(V, X, S, base, Op)
<1>1. \A t \in Seq(X) : \E g : Fold(g, t, S, base, Op)
  BY FoldExists
<1>2. V[<<>>] = base
  <2>1. <<>> \in Seq(X) /\ Len(<<>>) = 0
    BY EmptySeq
  <2>2. PICK g : Fold(g, <<>>, S, base, Op)
    BY <1>1, <2>1
  <2>3. V[<<>>] = g[0]
    BY <2>1, <2>2 DEF Computes
  <2> QED
    BY <2>2, <2>3 DEF Fold
<1>3. ASSUME NEW t \in Seq(X)
      PROVE  V[t] \in S
  <2>1. PICK g : Fold(g, t, S, base, Op)
    BY <1>1
  <2>2. Len(t) \in 0 .. Len(t) /\ g \in [0 .. Len(t) -> S]
    <3>1. Len(t) \in Nat
      BY LenProperties
    <3> QED
      BY <2>1, <3>1 DEF Fold
  <2> QED
    BY <2>1, <2>2 DEF Computes
<1>4. ASSUME NEW t \in Seq(X), NEW x \in X
      PROVE  V[Append(t, x)] = Op[V[t]][x]
  <2>1. Append(t, x) \in Seq(X)
    BY AppendProperties
  <2>2. PICK g : Fold(g, t, S, base, Op)
    BY <1>1
  <2>3. PICK h : Fold(h, Append(t, x), S, base, Op)
    BY <1>1, <2>1
  <2>4. h[Len(Append(t, x))] = Op[g[Len(t)]][x]
    BY <2>2, <2>3, FoldAppend
  <2>5. V[t] = g[Len(t)] /\ V[Append(t, x)] = h[Len(Append(t, x))]
    BY <2>1, <2>2, <2>3 DEF Computes
  <2> QED
    BY <2>4, <2>5
<1> QED
  BY <1>2, <1>3, <1>4 DEF Steps

\* The least of some places.
LEMMA MinOf ==
  ASSUME NEW A, A \subseteq Nat, A # {}
  PROVE  Min(A) \in A /\ \A a \in A : Min(A) <= a
<1>1. \E x \in A : \A y \in A : x <= y
  BY LeastNatural
<1> QED
  BY <1>1 DEF Min

\* strings.Cut cuts at the first place where the text has c.
CutsAt(s, c, n) ==
  /\ Cut(s, c) = [found  |-> n # 0,
                  before |-> IF n = 0 THEN s ELSE SubSeq(s, 1, n - 1),
                  after  |-> IF n = 0 THEN <<>> ELSE SubSeq(s, n + 1, Len(s))]
  /\ n = 0 => \A i \in 1 .. Len(s) : s[i] # c
  /\ n # 0 => s[n] = c /\ \A i \in 1 .. n - 1 : s[i] # c

LEMMA CutShape ==
  ASSUME NEW X, NEW s \in Seq(X), NEW c
  PROVE  \E n \in 0 .. Len(s) : CutsAt(s, c, n)
<1> DEFINE I == {i \in 1 .. Len(s) : s[i] = c}
<1>1. Len(s) \in Nat /\ I \subseteq Nat
  BY LenProperties
<1>2. PICK n : n = IF I # {} THEN Min(I) ELSE 0
  OBVIOUS
<1>3. Cut(s, c) = [found  |-> n # 0,
                   before |-> IF n = 0 THEN s ELSE SubSeq(s, 1, n - 1),
                   after  |-> IF n = 0 THEN <<>> ELSE SubSeq(s, n + 1, Len(s))]
  BY <1>2 DEF Cut, SelectInSeq
<1>4. CASE I = {}
  <2>1. n = 0 /\ \A i \in 1 .. Len(s) : s[i] # c
    BY <1>2, <1>4
  <2>2. n \in 0 .. Len(s)
    BY <1>1, <2>1
  <2> HIDE DEF I
  <2> QED
    BY <1>3, <2>1, <2>2 DEF CutsAt
<1>5. CASE I # {}
  <2>1. Min(I) \in I /\ \A a \in I : Min(I) <= a
    <3> HIDE DEF I
    <3> QED
      BY <1>1, <1>5, MinOf
  <2>2. n \in 1 .. Len(s) /\ s[n] = c
    BY <1>2, <1>5, <2>1
  <2>3. ASSUME NEW i \in 1 .. n - 1
        PROVE  s[i] # c
    <3>1. i \in 1 .. Len(s) /\ ~(n <= i)
      BY <1>1, <2>2
    <3> QED
      BY <1>2, <1>5, <2>1, <3>1
  <2>4. n \in 0 .. Len(s) /\ n # 0
    BY <1>1, <2>2
  <2> HIDE DEF I
  <2> QED
    BY <1>3, <2>2, <2>3, <2>4 DEF CutsAt
<1> QED
  BY <1>4, <1>5

\* A part of a sequence.
LEMMA PartOf ==
  ASSUME NEW X, NEW s, NEW m \in Int, NEW n \in Int, NEW k \in Nat, k = n - m + 1,
         \A i \in m .. n : s[i] \in X
  PROVE  /\ SubSeq(s, m, n) \in Seq(X)
         /\ Len(SubSeq(s, m, n)) = k
         /\ \A i \in 1 .. k : SubSeq(s, m, n)[i] = s[m + i - 1]
<1> DEFINE B == SubSeq(s, m, n)
<1>1. /\ B \in Seq(X)
      /\ Len(B) = IF m <= n THEN n - m + 1 ELSE 0
      /\ \A i \in 1 .. n - m + 1 : B[i] = s[m + i - 1]
  BY SubSeqProperties
<1> HIDE DEF B
<1> QED
  BY <1>1 DEF B

\* Cut, of any text: what is before the first c has no c.
LEMMA CutType ==
  ASSUME NEW X, NEW s \in Seq(X), NEW c
  PROVE  /\ Cut(s, c).found \in BOOLEAN
         /\ Cut(s, c).before \in Seq(X)
         /\ Cut(s, c).after \in Seq(X)
         /\ \A i \in DOMAIN Cut(s, c).before : Cut(s, c).before[i] # c
<1>2. PICK n \in 0 .. Len(s) : CutsAt(s, c, n)
  BY CutShape
<1> DEFINE k == [found  |-> n # 0,
                 before |-> IF n = 0 THEN s ELSE SubSeq(s, 1, n - 1),
                 after  |-> IF n = 0 THEN <<>> ELSE SubSeq(s, n + 1, Len(s))]
<1>1. Cut(s, c) = k
  BY <1>2 DEF CutsAt
<1>3. Len(s) \in Nat /\ DOMAIN s = 1 .. Len(s) /\ \A i \in 1 .. Len(s) : s[i] \in X
  BY LenProperties
<1>4. k.found \in BOOLEAN
  OBVIOUS
<1>5. CASE n = 0
  <2>1. k.before = s /\ k.after = <<>>
    BY <1>5
  <2>2. \A i \in DOMAIN s : s[i] # c
    BY <1>2, <1>3, <1>5 DEF CutsAt
  <2> HIDE DEF k
  <2> QED
    BY <1>1, <1>4, <2>1, <2>2, EmptySeq
<1>6. CASE n # 0
  <2>1. k.before = SubSeq(s, 1, n - 1) /\ k.after = SubSeq(s, n + 1, Len(s))
    BY <1>6
  <2>2. /\ n \in 1 .. Len(s) /\ 1 \in Int /\ n - 1 \in Nat /\ n + 1 \in Int /\ Len(s) \in Int
        /\ \A i \in 1 .. n - 1 : i \in 1 .. Len(s)
        /\ \A i \in n + 1 .. Len(s) : i \in 1 .. Len(s)
    BY <1>2, <1>3, <1>6 DEF CutsAt
  <2> DEFINE b == SubSeq(s, 1, n - 1)
             a == SubSeq(s, n + 1, Len(s))
             m == n - 1
  <2>3. a \in Seq(X)
    <3>1. \A i \in n + 1 .. Len(s) : s[i] \in X
      BY <1>3, <2>2
    <3> QED
      BY <2>2, <3>1, SubSeqProperties
  <2>4. /\ b \in Seq(X) /\ Len(b) = n - 1
        /\ \A i \in 1 .. n - 1 : b[i] = s[i]
    <3>1. \A i \in 1 .. m : s[i] \in X
      BY <1>3, <2>2
    <3>2. m \in Nat /\ 1 \in Int /\ m \in Int
      BY <2>2
    <3> HIDE DEF m
    <3> DEFINE B == SubSeq(s, 1, m)
    <3>3. /\ B \in Seq(X)
          /\ Len(B) = IF 1 <= m THEN m - 1 + 1 ELSE 0
          /\ \A i \in 1 .. m - 1 + 1 : B[i] = s[1 + i - 1]
      BY <3>1, <3>2, SubSeqProperties
    <3> HIDE DEF B
    <3>4. Len(B) = m /\ \A i \in 1 .. m : B[i] = s[i]
      BY <3>2, <3>3
    <3> QED
      BY <3>3, <3>4 DEF B, m
  <2> HIDE DEF a, b, m
  <2>5. \A i \in DOMAIN b : b[i] # c
    <3>1. DOMAIN b = 1 .. n - 1
      BY <2>4, LenProperties
    <3> QED
      BY <1>2, <1>6, <2>4, <3>1 DEF CutsAt
  <2> HIDE DEF k
  <2> QED
    BY <1>1, <1>4, <2>1, <2>3, <2>4, <2>5 DEF a, b
<1> QED
  BY <1>5, <1>6

\* Cut, of a text that was made of two parts and what it is cut at.
LEMMA CutAt ==
  ASSUME NEW X, NEW a \in Seq(X), NEW b \in Seq(X), NEW c \in X, \A i \in DOMAIN a : a[i] # c
  PROVE  Cut(a \o <<c>> \o b, c) = [found |-> TRUE, before |-> a, after |-> b]
<1> DEFINE s == a \o <<c>> \o b
           l == Len(a)
           m == Len(b)
<1>1. /\ l \in Nat /\ m \in Nat /\ DOMAIN a = 1 .. l
      /\ \A i \in 1 .. l : a[i] # c
  BY LenProperties
<1>2. /\ s \in Seq(X) /\ Len(s) = l + 1 + m
      /\ \A i \in 1 .. l : s[i] = a[i]
      /\ s[l + 1] = c
      /\ \A i \in 1 .. m : s[l + 1 + i] = b[i]
  <2> DEFINE t == a \o <<c>>
  <2>1. t = Append(a, c)
    BY AppendIsConcat
  <2> HIDE DEF t
  <2>2. /\ t \in Seq(X) /\ Len(t) = l + 1
        /\ \A i \in 1 .. l : t[i] = a[i]
        /\ t[l + 1] = c
    BY <2>1, AppendProperties
  <2>3. /\ t \o b \in Seq(X) /\ Len(t \o b) = l + 1 + m
        /\ \A i \in 1 .. l + 1 + m : (t \o b)[i] = IF i <= l + 1 THEN t[i] ELSE b[i - (l + 1)]
    <3>1. /\ t \o b \in Seq(X) /\ Len(t \o b) = Len(t) + Len(b)
          /\ \A i \in 1 .. Len(t) + Len(b) : (t \o b)[i] = IF i <= Len(t) THEN t[i] ELSE b[i - Len(t)]
      BY <2>2, ConcatProperties
    <3> QED
      BY <2>2, <3>1
  <2>4. s = t \o b
    BY DEF t
  <2> HIDE DEF s, l, m
  <2>5. \A i \in 1 .. l : s[i] = a[i]
    BY <1>1, <2>2, <2>3, <2>4
  <2>6. s[l + 1] = c
    BY <1>1, <2>2, <2>3, <2>4
  <2>7. ASSUME NEW i \in 1 .. m
        PROVE  s[l + 1 + i] = b[i]
    <3> DEFINE j == l + 1 + i
    <3>1. j \in 1 .. l + 1 + m /\ ~(j <= l + 1) /\ j - (l + 1) = i
      BY <1>1
    <3> HIDE DEF j
    <3>2. s[j] = b[j - (l + 1)]
      BY <2>3, <2>4, <3>1
    <3> QED
      BY <3>1, <3>2 DEF j
  <2> QED
    BY <2>3, <2>4, <2>5, <2>6, <2>7
<1> HIDE DEF s, l, m
<1>3. PICK n \in 0 .. Len(s) : CutsAt(s, c, n)
  BY <1>2, CutShape
<1>4. n \in 0 .. Len(s)
  BY <1>3
<1>5. n = l + 1
  <2>1. l + 1 \in 1 .. Len(s)
    BY <1>1, <1>2
  <2>2. n # 0
    BY <1>2, <1>3, <2>1 DEF CutsAt
  <2>3. ~(n <= l)
    <3>1. n <= l => n \in 1 .. l
      BY <1>1, <1>4, <2>2
    <3> QED
      BY <1>1, <1>2, <1>3, <2>2, <3>1 DEF CutsAt
  <2>4. ~(l + 1 < n)
    <3>1. l + 1 < n => l + 1 \in 1 .. n - 1
      BY <1>1, <1>2, <1>4
    <3> QED
      BY <1>2, <1>3, <2>2, <3>1 DEF CutsAt
  <2> QED
    BY <1>1, <1>2, <1>4, <2>3, <2>4
<1>6. n # 0 /\ n - 1 = l /\ n + 1 = l + 2
  BY <1>1, <1>5
<1>7. SubSeq(s, 1, l) = a
  <2>1. /\ 1 \in Int /\ l \in Int /\ \A i \in 1 .. l : s[i] \in X
    <3>1. \A i \in 1 .. l : a[i] \in X
      BY DEF l
    <3> QED
      BY <1>1, <1>2, <3>1
  <2> DEFINE B == SubSeq(s, 1, l)
  <2>2. /\ B \in Seq(X)
        /\ Len(B) = IF 1 <= l THEN l - 1 + 1 ELSE 0
        /\ \A i \in 1 .. l - 1 + 1 : B[i] = s[1 + i - 1]
    BY <2>1, SubSeqProperties
  <2> HIDE DEF B
  <2>3. Len(B) = l /\ \A i \in 1 .. l : B[i] = a[i]
    BY <1>1, <1>2, <2>2
  <2>4. B = a
    BY <2>2, <2>3, SeqEqual DEF l
  <2> QED
    BY <2>4 DEF B
<1>8. SubSeq(s, l + 2, Len(s)) = b
  <2>1. /\ l + 2 \in Int /\ l + 1 + m \in Int
        /\ \A i \in l + 2 .. l + 1 + m : i - (l + 1) \in 1 .. m /\ l + 1 + (i - (l + 1)) = i
    BY <1>1
  <2>2. \A i \in l + 2 .. l + 1 + m : s[i] \in X
    <3>1. \A i \in 1 .. m : b[i] \in X
      BY DEF m
    <3>2. ASSUME NEW i \in l + 2 .. l + 1 + m
          PROVE  s[i] \in X
      <4>1. s[l + 1 + (i - (l + 1))] = b[i - (l + 1)]
        BY <1>2, <2>1
      <4> QED
        BY <2>1, <3>1, <4>1
    <3> QED
      BY <3>2
  <2> DEFINE B == SubSeq(s, l + 2, l + 1 + m)
  <2>3. B \in Seq(X) /\ Len(B) = m /\ \A i \in 1 .. m : B[i] = s[l + 2 + i - 1]
    <3> DEFINE p == l + 2
               q == l + 1 + m
    <3>1. p \in Int /\ q \in Int /\ m = q - p + 1
      BY <1>1, <2>1
    <3>3. \A i \in p .. q : s[i] \in X
      BY <2>2
    <3> HIDE DEF p, q
    <3>2. /\ SubSeq(s, p, q) \in Seq(X)
          /\ Len(SubSeq(s, p, q)) = m
          /\ \A i \in 1 .. m : SubSeq(s, p, q)[i] = s[p + i - 1]
      BY <1>1, <3>1, <3>3, PartOf
    <3> QED
      BY <3>2, Zenon DEF p, q
  <2> HIDE DEF B
  <2>5. ASSUME NEW i \in 1 .. m
        PROVE  B[i] = b[i]
    <3>1. l + 2 + i - 1 = l + 1 + i
      BY <1>1
    <3>2. B[i] = s[l + 2 + i - 1]
      BY <2>3
    <3>3. B[i] = s[l + 1 + i]
      BY <3>1, <3>2
    <3> QED
      BY <1>2, <3>3
  <2>6. B = b
    BY <2>3, <2>5, SeqEqual DEF m
  <2> QED
    BY <1>2, <2>6 DEF B
<1> QED
  BY <1>3, <1>6, <1>7, <1>8 DEF s, CutsAt

\* What strings.TrimSpace looks for, and a text that it leaves as it is.
Ink(c) == c \notin {"SP", "NL"}
NoMargin(v) == v = <<>> \/ (Ink(v[1]) /\ Ink(v[Len(v)]))

\* strings.TrimSpace leaves nothing of a blank text, and of any other what is
\* between its first and its last ink.
LEMMA TrimTo ==
  ASSUME NEW s \in Text
  PROVE  /\ (\A k \in 1 .. Len(s) : ~Ink(s[k])) => TrimSpace(s) = <<>>
         /\ \A i \in 1 .. Len(s), j \in 1 .. Len(s) :
              /\ Ink(s[i]) /\ Ink(s[j])
              /\ \A k \in 1 .. Len(s) : Ink(s[k]) => i <= k /\ k <= j
              => TrimSpace(s) = SubSeq(s, i, j)
         /\ (\E k \in 1 .. Len(s) : Ink(s[k])) =>
              \E i \in 1 .. Len(s), j \in 1 .. Len(s) :
                 Ink(s[i]) /\ Ink(s[j]) /\ i <= j /\ TrimSpace(s) = SubSeq(s, i, j)
<1> DEFINE ink == {i \in 1 .. Len(s) : s[i] \notin {"SP", "NL"}}
<1>1. Len(s) \in Nat /\ DOMAIN s = 1 .. Len(s)
  BY LenProperties DEF Text
<1>2. TrimSpace(s) = IF ink = {} THEN <<>> ELSE SubSeq(s, Min(ink), Max(ink))
  BY <1>1 DEF TrimSpace
<1>3. \A k : k \in ink <=> k \in 1 .. Len(s) /\ Ink(s[k])
  BY DEF Ink
<1> HIDE DEF ink
<1>4. ASSUME ink # {}
      PROVE  /\ Min(ink) \in ink /\ \A k \in ink : Min(ink) <= k
             /\ Max(ink) \in ink /\ \A k \in ink : k <= Max(ink)
  <2>1. ink \in SUBSET (1 .. Len(s)) /\ ink \subseteq Nat
    BY <1>1, <1>3
  <2>2. Min(ink) \in ink /\ \A k \in ink : Min(ink) <= k
    BY <1>4, <2>1, MinOf
  <2>3. Max(ink) \in ink /\ \A k \in ink : k <= Max(ink)
    BY <1>1, <1>4, <2>1, MaxOf
  <2> QED
    BY <2>2, <2>3
<1>5. (\A k \in 1 .. Len(s) : ~Ink(s[k])) => TrimSpace(s) = <<>>
  BY <1>2, <1>3
<1>6. ASSUME NEW i \in 1 .. Len(s), NEW j \in 1 .. Len(s), Ink(s[i]), Ink(s[j]),
             \A k \in 1 .. Len(s) : Ink(s[k]) => i <= k /\ k <= j
      PROVE  TrimSpace(s) = SubSeq(s, i, j)
  <2>1. i \in ink /\ j \in ink
    BY <1>3, <1>6
  <2>2. Min(ink) \in 1 .. Len(s) /\ Max(ink) \in 1 .. Len(s)
    BY <1>3, <1>4, <2>1
  <2>3. i <= Min(ink) /\ Min(ink) <= i /\ Max(ink) <= j /\ j <= Max(ink)
    BY <1>3, <1>4, <1>6, <2>1
  <2>4. Min(ink) = i /\ Max(ink) = j
    BY <1>1, <2>2, <2>3
  <2> QED
    BY <1>2, <2>1, <2>4
<1>7. ASSUME NEW k \in 1 .. Len(s), Ink(s[k])
      PROVE  \E i \in 1 .. Len(s), j \in 1 .. Len(s) :
                Ink(s[i]) /\ Ink(s[j]) /\ i <= j /\ TrimSpace(s) = SubSeq(s, i, j)
  <2>1. ink # {}
    BY <1>3, <1>7
  <2>2. Min(ink) \in ink /\ Max(ink) \in ink /\ Min(ink) <= Max(ink)
    BY <1>4, <2>1
  <2>3. TrimSpace(s) = SubSeq(s, Min(ink), Max(ink))
    BY <1>2, <2>1
  <2> QED
    BY <1>3, <2>2, <2>3
<1> QED
  BY <1>5, <1>6, <1>7

\* What is left has no margin.
LEMMA Trims ==
  ASSUME NEW s \in Text
  PROVE  TrimSpace(s) \in Text /\ NoMargin(TrimSpace(s))
<1>0. TrimSpace(s) \in Text
  BY TrimType
<1>1. CASE \A k \in 1 .. Len(s) : ~Ink(s[k])
  BY <1>0, <1>1, TrimTo DEF NoMargin
<1>2. CASE \E k \in 1 .. Len(s) : Ink(s[k])
  <2>1. PICK i \in 1 .. Len(s), j \in 1 .. Len(s) :
           Ink(s[i]) /\ Ink(s[j]) /\ i <= j /\ TrimSpace(s) = SubSeq(s, i, j)
    BY <1>2, TrimTo
  <2>2. Len(s) \in Nat /\ \A k \in 1 .. Len(s) : s[k] \in Atoms
    BY LenProperties DEF Text
  <2> DEFINE n == j - i + 1
  <2>3. i \in Int /\ j \in Int /\ n \in Nat /\ 1 \in 1 .. n /\ n \in 1 .. n /\ i + 1 - 1 = i /\ i + n - 1 = j
    BY <2>1, <2>2
  <2>4. \A k \in i .. j : s[k] \in Atoms
    BY <2>2
  <2> DEFINE B == SubSeq(s, i, j)
  <2>5. Len(B) = n /\ \A k \in 1 .. n : B[k] = s[i + k - 1]
    <3>1. n = j - i + 1
      OBVIOUS
    <3> HIDE DEF n
    <3> QED
      BY <2>3, <2>4, <3>1, PartOf
  <2> HIDE DEF B, n
  <2>6. B[1] = s[i] /\ B[Len(B)] = s[j]
    BY <2>3, <2>5
  <2> QED
    BY <1>0, <2>1, <2>6 DEF NoMargin, B
<1> QED
  BY <1>1, <1>2

\* A text without a margin is left as it is, also behind a space.
LEMMA TrimKeeps ==
  ASSUME NEW v \in Text, NoMargin(v)
  PROVE  TrimSpace(v) = v /\ TrimSpace(<<"SP">> \o v) = v
<1> DEFINE n == Len(v)
           w == <<"SP">> \o v
<1>1. n \in Nat /\ \A k \in 1 .. n : v[k] \in Atoms
  BY LenProperties DEF Text
<1>2. /\ w \in Text /\ Len(w) = n + 1 /\ ~Ink(w[1])
      /\ \A k \in 1 .. n : w[k + 1] = v[k]
  <2>1. "SP" \in Atoms
    BY DEF Atoms
  <2>2. <<"SP">> \in Text
    BY <2>1, Short DEF Text
  <2>3. /\ w \in Text /\ Len(w) = 1 + n
        /\ \A i \in 1 .. 1 + n : w[i] = IF i <= 1 THEN <<"SP">>[i] ELSE v[i - 1]
    <3>1. Len(<<"SP">>) = 1
      OBVIOUS
    <3> QED
      BY <2>2, <3>1, ConcatProperties DEF Text
  <2> HIDE DEF w, n
  <2>4. w[1] = "SP"
    BY <1>1, <2>3
  <2>5. ASSUME NEW k \in 1 .. n
        PROVE  w[k + 1] = v[k]
    <3>1. k + 1 \in 1 .. 1 + n /\ ~(k + 1 <= 1) /\ k + 1 - 1 = k
      BY <1>1
    <3> QED
      BY <2>3, <3>1
  <2> QED
    BY <1>1, <2>3, <2>4, <2>5 DEF Ink
<1> HIDE DEF w
<1>3. CASE v = <<>>
  <2>1. n = 0
    BY <1>3
  <2>2. TrimSpace(v) = <<>>
    <3>1. \A k \in 1 .. Len(v) : ~Ink(v[k])
      BY <2>1
    <3> QED
      BY <3>1, TrimTo
  <2>3. TrimSpace(w) = <<>>
    <3>1. \A k \in 1 .. Len(w) : ~Ink(w[k])
      BY <1>2, <2>1
    <3> QED
      BY <1>2, <3>1, TrimTo
  <2> QED
    BY <1>3, <2>2, <2>3 DEF w
<1>4. CASE v # <<>>
  <2>1. Ink(v[1]) /\ Ink(v[n])
    BY <1>4 DEF NoMargin
  <2>2. 1 \in 1 .. n /\ n \in 1 .. n
    <3>1. n # 0
      BY <1>4, EmptySeq DEF Text
    <3> QED
      BY <1>1, <3>1
  <2>3. TrimSpace(v) = SubSeq(v, 1, n)
    <3>1. \A k \in 1 .. n : Ink(v[k]) => 1 <= k /\ k <= n
      BY <1>1
    <3> QED
      BY <2>1, <2>2, <3>1, TrimTo
  <2>4. SubSeq(v, 1, n) = v
    BY SubSeqFull DEF Text
  <2>5. TrimSpace(w) = SubSeq(w, 2, n + 1)
    <3> DEFINE i == 2
               j == n + 1
    <3> HIDE DEF n
    <3>1. i \in 1 .. Len(w) /\ j \in 1 .. Len(w) /\ i = 1 + 1
      BY <1>1, <1>2, <2>2
    <3>2. w[i] = v[1] /\ w[j] = v[n]
      BY <1>2, <2>2, <3>1
    <3>3. \A k \in 1 .. Len(w) : k = 1 \/ (i <= k /\ k <= j)
      BY <1>1, <1>2
    <3>4. \A k \in 1 .. Len(w) : Ink(w[k]) => i <= k /\ k <= j
      BY <1>2, <3>3
    <3>5. Ink(w[i]) /\ Ink(w[j])
      BY <2>1, <3>2
    <3> HIDE DEF i, j
    <3>6. TrimSpace(w) = SubSeq(w, i, j)
      BY <1>2, <3>1, <3>4, <3>5, TrimTo
    <3> QED
      BY <3>6 DEF i, j
  <2>6. SubSeq(w, 2, n + 1) = v
    <3> DEFINE j == n + 1
               B == SubSeq(w, 2, j)
    <3> HIDE DEF n
    <3>1. j \in Int /\ 2 \in Int /\ n = j - 2 + 1
      BY <1>1
    <3>2. \A k \in 2 .. j : w[k] \in Atoms
      <4>1. \A k \in 2 .. j : k \in 1 .. Len(w)
        BY <1>1, <1>2
      <4> QED
        BY <1>2, <4>1, ElementOfSeq DEF Text
    <3> HIDE DEF j
    <3>3. B \in Seq(Atoms) /\ Len(B) = n /\ \A k \in 1 .. n : B[k] = w[2 + k - 1]
      BY <1>1, <3>1, <3>2, PartOf
    <3> HIDE DEF B
    <3>4. ASSUME NEW k \in 1 .. n
          PROVE  B[k] = v[k]
      <4>1. 2 + k - 1 = k + 1
        BY <1>1
      <4>2. B[k] = w[k + 1]
        BY <3>3, <4>1
      <4> QED
        BY <1>2, <4>2
    <3>5. B = v
      <4>1. v \in Seq(Atoms) /\ Len(v) = n
        BY DEF Text, n
      <4> QED
        BY <3>3, <3>4, <4>1, SeqEqual
    <3> QED
      BY <3>5 DEF B, j
  <2> QED
    BY <2>3, <2>4, <2>5, <2>6 DEF w
<1> QED
  BY <1>3, <1>4

\* A text that has no white space at its ends.
Trimmed == {v \in Text : TrimSpace(v) = v}

LEMMA TrimmedAre ==
  /\ <<>> \in Trimmed
  /\ \A s \in Text : TrimSpace(s) \in Trimmed
  /\ \A v \in Trimmed : v \in Text /\ NoMargin(v) /\ TrimSpace(v) = v /\ TrimSpace(<<"SP">> \o v) = v
  /\ \A c \in Atoms : Ink(c) => <<c>> \in Trimmed
<1>1. \A s \in Text : TrimSpace(s) \in Trimmed
  BY Trims, TrimKeeps DEF Trimmed
<1>2. ASSUME NEW v \in Trimmed
      PROVE  v \in Text /\ NoMargin(v) /\ TrimSpace(v) = v /\ TrimSpace(<<"SP">> \o v) = v
  <2>1. v \in Text /\ TrimSpace(v) = v
    BY DEF Trimmed
  <2>2. NoMargin(v)
    BY <2>1, Trims
  <2> QED
    BY <2>1, <2>2, TrimKeeps
<1>3. <<>> \in Trimmed
  <2>1. <<>> \in Text /\ NoMargin(<<>>)
    BY EmptySeq DEF Text, NoMargin
  <2> QED
    BY <2>1, TrimKeeps DEF Trimmed
<1>4. ASSUME NEW c \in Atoms, Ink(c)
      PROVE  <<c>> \in Trimmed
  <2>1. <<c>> \in Text
    BY Short DEF Text
  <2>2. NoMargin(<<c>>)
    BY <1>4 DEF NoMargin
  <2> QED
    BY <2>1, <2>2, TrimKeeps DEF Trimmed
<1> QED
  BY <1>1, <1>2, <1>3, <1>4

-----------------------------------------------------------------------------
(* ParseCURL: what it makes of any text                                      *)

Names     == ToSet(HeaderNames)
Headers   == [Names -> Seq(Trimmed)]
Datum     == [kind : Kinds, value : Text]
FormField == {f \in [name : Text, value : Text, file : Text] :
                /\ f.name # <<>> /\ \A i \in DOMAIN f.name : f.name[i] # "="
                /\ f.file # <<>> => f.value = <<>>
                /\ f.file = <<>> => ~StartsWith(f.value, "@")}
Cookie    == {v \in Text : "=" \in ToSet(v)}
User      == {<<>>} \cup {a \in Text \X Text : \A i \in DOMAIN a[1] : a[1][i] # ":"}

\* The requests that the fields and the imports make, and those that are imported.
WellFormed ==
  [method : Text, url : Text, headers : Headers, body : Text, data : Seq(Datum), form : Seq(FormField),
   auth : User, cookies : Seq(Cookie), agent : Text, connect : Times, max : Times,
   follow : BOOLEAN, insecure : BOOLEAN]
Parsed ==
  [method : Text, url : Text, headers : {h \in Headers : h["X_T"] = <<>>}, body : {<<>>}, data : Seq(Datum),
   form : Seq(FormField), auth : User, cookies : Seq(Cookie), agent : Text, connect : Times, max : Times,
   follow : BOOLEAN, insecure : BOOLEAN]

Wanted == Kinds \cup {"method", "header", "--json", "form", "cookie", "user", "agent", "max", "connect"}
ParseStates == [spec : Parsed, methodSet : BOOLEAN, options : BOOLEAN, json : BOOLEAN,
                need : {""} \cup Wanted, failed : BOOLEAN]

LEMMA MeaningType ==
  ASSUME NEW o
  PROVE  Meaning(o) \in Wanted \cup Flags \cup {"unknown"} /\ Wanted \cap Flags = {} /\ "" \notin Wanted
BY DEF Meaning, Wanted, Flags, Kinds

\* What may change in a request.
LEMMA ParsedParts ==
  ASSUME NEW s \in Parsed
  PROVE  /\ \A v \in Text : [s EXCEPT !.method = v] \in Parsed
         /\ \A v \in Text : [s EXCEPT !.url = v] \in Parsed
         /\ \A v \in Text : [s EXCEPT !.agent = v] \in Parsed
         /\ \A h \in Headers : h["X_T"] = <<>> => [s EXCEPT !.headers = h] \in Parsed
         /\ \A d \in Seq(Datum) : [s EXCEPT !.data = d] \in Parsed
         /\ \A f \in Seq(FormField) : [s EXCEPT !.form = f] \in Parsed
         /\ \A c \in Seq(Cookie) : [s EXCEPT !.cookies = c] \in Parsed
         /\ \A a \in User : [s EXCEPT !.auth = a] \in Parsed
         /\ \A t \in Times : [s EXCEPT !.max = t] \in Parsed
         /\ \A t \in Times : [s EXCEPT !.connect = t] \in Parsed
         /\ [s EXCEPT !.follow = TRUE] \in Parsed
         /\ [s EXCEPT !.insecure = TRUE] \in Parsed
<1>1. \A v \in Text : [s EXCEPT !.method = v] \in Parsed
  BY DEF Parsed
<1>2. \A v \in Text : [s EXCEPT !.url = v] \in Parsed
  BY DEF Parsed
<1>3. \A v \in Text : [s EXCEPT !.agent = v] \in Parsed
  BY DEF Parsed
<1>4. \A h \in Headers : h["X_T"] = <<>> => [s EXCEPT !.headers = h] \in Parsed
  BY DEF Parsed
<1>5. \A d \in Seq(Datum) : [s EXCEPT !.data = d] \in Parsed
  BY DEF Parsed
<1>6. \A f \in Seq(FormField) : [s EXCEPT !.form = f] \in Parsed
  BY DEF Parsed
<1>7. \A c \in Seq(Cookie) : [s EXCEPT !.cookies = c] \in Parsed
  BY DEF Parsed
<1>8. \A a \in User : [s EXCEPT !.auth = a] \in Parsed
  BY DEF Parsed
<1>9. \A t \in Times : [s EXCEPT !.max = t] \in Parsed
  BY DEF Parsed
<1>10. \A t \in Times : [s EXCEPT !.connect = t] \in Parsed
  BY DEF Parsed
<1>11. [s EXCEPT !.follow = TRUE] \in Parsed
  BY DEF Parsed
<1>12. [s EXCEPT !.insecure = TRUE] \in Parsed
  BY DEF Parsed
<1> QED
  BY <1>1, <1>2, <1>3, <1>4, <1>5, <1>6, <1>7, <1>8, <1>9, <1>10, <1>11, <1>12

\* What may change while words are read.
LEMMA ParsingParts ==
  ASSUME NEW p \in ParseStates
  PROVE  /\ p.spec \in Parsed
         /\ \A s \in Parsed : [p EXCEPT !.spec = s] \in ParseStates
         /\ [p EXCEPT !.methodSet = TRUE] \in ParseStates
         /\ [p EXCEPT !.options = FALSE] \in ParseStates
         /\ [p EXCEPT !.json = TRUE] \in ParseStates
         /\ \A n \in {""} \cup Wanted : [p EXCEPT !.need = n] \in ParseStates
         /\ Fail(p) \in ParseStates
<1>1. p.spec \in Parsed
  BY DEF ParseStates
<1>2. \A s \in Parsed : [p EXCEPT !.spec = s] \in ParseStates
  BY DEF ParseStates
<1>3. [p EXCEPT !.methodSet = TRUE] \in ParseStates
  BY DEF ParseStates
<1>4. [p EXCEPT !.options = FALSE] \in ParseStates
  BY DEF ParseStates
<1>5. [p EXCEPT !.json = TRUE] \in ParseStates
  BY DEF ParseStates
<1>6. \A n \in {""} \cup Wanted : [p EXCEPT !.need = n] \in ParseStates
  BY DEF ParseStates
<1>7. Fail(p) \in ParseStates
  BY DEF ParseStates, Fail
<1> QED
  BY <1>1, <1>2, <1>3, <1>4, <1>5, <1>6, <1>7

\* Bodies and the method that they imply.
LEMMA WithBodyType ==
  ASSUME NEW p \in ParseStates, NEW s \in Parsed
  PROVE  WithBody(p, s) \in ParseStates
<1>1. "POST" \in Atoms
  BY DEF Atoms
<1>2. <<"POST">> \in Text
  BY <1>1, Short DEF Text
<1>3. [s EXCEPT !.method = <<"POST">>] \in Parsed
  BY <1>2, ParsedParts
<1>4. (IF p.methodSet THEN s ELSE [s EXCEPT !.method = <<"POST">>]) \in Parsed
  BY <1>3
<1>5. WithBody(p, s) = [p EXCEPT !.spec = IF p.methodSet THEN s ELSE [s EXCEPT !.method = <<"POST">>]]
  BY DEF WithBody
<1> DEFINE t == IF p.methodSet THEN s ELSE [s EXCEPT !.method = <<"POST">>]
<1> HIDE DEF t
<1>6. t \in Parsed /\ WithBody(p, s) = [p EXCEPT !.spec = t]
  BY <1>4, <1>5 DEF t
<1> QED
  BY <1>6, ParsingParts

LEMMA AddDataType ==
  ASSUME NEW p \in ParseStates, NEW k \in Kinds, NEW v \in Text
  PROVE  AddData(p, k, v) \in ParseStates
<1> DEFINE d == [kind |-> k, value |-> v]
           D == Datum
           e == Append(p.spec.data, d)
           s == [p.spec EXCEPT !.data = e]
<1>1. p.spec \in Parsed
  BY ParsingParts
<1>2. p.spec.data \in Seq(D)
  BY <1>1 DEF Parsed
<1>3. d \in D
  BY DEF Datum
<1> HIDE DEF D, d
<1>4. e \in Seq(D)
  BY <1>2, <1>3, AppendProperties
<1> HIDE DEF e
<1>5. s \in Parsed
  BY <1>1, <1>4, ParsedParts DEF D
<1>6. AddData(p, k, v) = WithBody(p, s)
  BY DEF AddData, e, d
<1> HIDE DEF s
<1> QED
  BY <1>5, <1>6, WithBodyType

\* The fields of forms have names.
LEMMA FormFields ==
  ASSUME NEW v \in Text
  PROVE  parseCurlForm(v) \subseteq FormField
<1> DEFINE c == Cut(v, "=")
           field == IF c.after # <<>> /\ c.after[1] = "@"
                    THEN [name |-> c.before, value |-> <<>>, file |-> Tail(c.after)]
                    ELSE [name |-> c.before, value |-> c.after, file |-> <<>>]
<1>1. parseCurlForm(v) \subseteq {field} /\ (c.found = FALSE \/ c.before = <<>> => parseCurlForm(v) = {})
  BY DEF parseCurlForm
<1>2. /\ c.before \in Text /\ c.after \in Text /\ \A i \in DOMAIN c.before : c.before[i] # "="
      /\ c.found \in BOOLEAN
  BY CutType DEF Text
<1>3. <<>> \in Text /\ (c.after # <<>> => Tail(c.after) \in Text)
  BY <1>2, EmptySeq, HeadTailProperties DEF Text
<1> HIDE DEF c
<1>4. c.before # <<>> => field \in FormField
  <2>1. CASE c.after # <<>> /\ c.after[1] = "@"
    BY <1>2, <1>3, <2>1 DEF FormField, StartsWith
  <2>2. CASE ~(c.after # <<>> /\ c.after[1] = "@")
    BY <1>2, <1>3, <2>2 DEF FormField, StartsWith
  <2> QED
    BY <2>1, <2>2
<1> HIDE DEF field
<1> QED
  BY <1>1, <1>4

\* Times are those that can be written.
LEMMA SecondsType ==
  ASSUME NEW v
  PROVE  curlSeconds(v) \subseteq Times
BY DEF curlSeconds, Times

\* A header has one of the names.
LEMMA AddHeaderType ==
  ASSUME NEW h \in Headers, NEW c, c.before \in Text, c.after \in Text
  PROVE  /\ AddHeader(h, c) \in Headers
         /\ isHeaderName(TrimSpace(c.before)) /\ h["X_T"] = <<>> => AddHeader(h, c)["X_T"] = <<>>
<1> DEFINE n == TrimSpace(c.before)[1]
           v == TrimSpace(c.after)
           T == Trimmed
<1>1. v \in T
  BY TrimmedAre
<1>2. AddHeader(h, c) = [h EXCEPT ![n] = Append(@, v)]
  BY DEF AddHeader
<1>3. h \in [Names -> Seq(T)]
  BY DEF Headers
<1>4. isHeaderName(TrimSpace(c.before)) => n # "X_T"
  BY DEF isHeaderName
<1> HIDE DEF T, n, v
<1>5. \A m \in Names : Append(h[m], v) \in Seq(T)
  BY <1>1, <1>3, AppendProperties
<1>6. [h EXCEPT ![n] = Append(@, v)] \in [Names -> Seq(T)]
  BY <1>3, <1>5
<1>7. n # "X_T" /\ h["X_T"] = <<>> => [h EXCEPT ![n] = Append(@, v)]["X_T"] = <<>>
  <2>1. "X_T" \in Names
    BY DEF Names, HeaderNames, ToSet
  <2> QED
    BY <1>3, <2>1
<1> QED
  BY <1>2, <1>4, <1>6, <1>7 DEF Headers, T

\* What an option makes of a value is a request again.
LEMMA SpecsType ==
  ASSUME NEW p \in ParseStates, NEW what \in Wanted, NEW v \in Text
  PROVE  Specs(p, what, v) \subseteq ParseStates
<1>0. p.spec \in Parsed
  BY ParsingParts
<1> DEFINE c == Cut(v, ":")
           s == p.spec
<1>c. c.before \in Text /\ c.after \in Text /\ c.found \in BOOLEAN /\ \A i \in DOMAIN c.before : c.before[i] # ":"
  BY CutType DEF Text
<1>f. /\ s.headers \in Headers /\ s.headers["X_T"] = <<>> /\ s.form \in Seq(FormField)
      /\ s.cookies \in Seq(Cookie)
  BY <1>0 DEF Parsed
<1>n. ASSUME NEW t \in Parsed
      PROVE  [p EXCEPT !.spec = t] \in ParseStates
  BY ParsingParts
<1>1. CASE what = "method"
  <2>1. Specs(p, what, v) = {[p EXCEPT !.spec.method = v, !.methodSet = TRUE]}
    BY <1>1 DEF Specs
  <2> DEFINE t == [s EXCEPT !.method = v]
  <2>2. t \in Parsed
    BY <1>0, ParsedParts
  <2> HIDE DEF t
  <2>3. [p EXCEPT !.spec = t] \in ParseStates
    BY <1>n, <2>2
  <2> DEFINE q == [p EXCEPT !.spec = t]
  <2>4. [q EXCEPT !.methodSet = TRUE] \in ParseStates
    BY <2>3, ParsingParts
  <2>5. [p EXCEPT !.spec.method = v, !.methodSet = TRUE] = [q EXCEPT !.methodSet = TRUE]
    BY DEF t
  <2> QED
    BY <2>1, <2>4, <2>5
<1>2. CASE what = "header"
  <2>1. \A q \in Specs(p, what, v) : q = [p EXCEPT !.spec.headers = AddHeader(@, c)] /\ isHeaderName(TrimSpace(c.before))
    BY <1>2 DEF Specs
  <2> DEFINE h == AddHeader(s.headers, c)
             t == [s EXCEPT !.headers = h]
  <2>2. isHeaderName(TrimSpace(c.before)) => h \in Headers /\ h["X_T"] = <<>>
    BY <1>c, <1>f, AddHeaderType
  <2> HIDE DEF h
  <2>3. isHeaderName(TrimSpace(c.before)) => t \in Parsed
    BY <1>0, <2>2, ParsedParts
  <2>4. [p EXCEPT !.spec.headers = AddHeader(@, c)] = [p EXCEPT !.spec = t]
    BY DEF h
  <2> HIDE DEF t, c
  <2> QED
    BY <1>n, <2>1, <2>3, <2>4
<1>3. CASE what = "--json"
  <2>1. Specs(p, what, v) = {[AddData(p, "--data-binary", v) EXCEPT !.json = TRUE]}
    BY <1>3 DEF Specs
  <2>2. AddData(p, "--data-binary", v) \in ParseStates
    BY AddDataType DEF Kinds
  <2> QED
    BY <2>1, <2>2, ParsingParts
<1>4. CASE what = "form"
  <2>1. Specs(p, what, v) = {WithBody(p, [p.spec EXCEPT !.form = Append(@, f)]) : f \in parseCurlForm(v)}
    BY <1>4 DEF Specs
  <2>2. ASSUME NEW f \in parseCurlForm(v)
        PROVE  WithBody(p, [p.spec EXCEPT !.form = Append(@, f)]) \in ParseStates
    <3> DEFINE g == Append(s.form, f)
               t == [s EXCEPT !.form = g]
               F == FormField
    <3>1. f \in F
      BY <2>2, FormFields
    <3>2. s.form \in Seq(F)
      BY <1>f
    <3> HIDE DEF F
    <3>3. g \in Seq(F)
      BY <3>1, <3>2, AppendProperties
    <3> HIDE DEF g
    <3>4. t \in Parsed
      BY <1>0, <3>3, ParsedParts DEF F
    <3> HIDE DEF t
    <3>5. WithBody(p, t) \in ParseStates
      BY <3>4, WithBodyType
    <3> QED
      BY <3>5 DEF t, g
  <2> QED
    BY <2>1, <2>2
<1>5. CASE what = "cookie"
  <2> DEFINE C == Cookie
             d == Append(s.cookies, v)
             t == [s EXCEPT !.cookies = d]
  <2>1. \A q \in Specs(p, what, v) : q = [p EXCEPT !.spec.cookies = Append(@, v)] /\ "=" \in ToSet(v)
    BY <1>5 DEF Specs
  <2>2. "=" \in ToSet(v) => v \in C
    BY DEF Cookie
  <2>3. s.cookies \in Seq(C)
    BY <1>f
  <2> HIDE DEF C
  <2>4. "=" \in ToSet(v) => d \in Seq(C)
    BY <2>2, <2>3, AppendProperties
  <2> HIDE DEF d
  <2>5. "=" \in ToSet(v) => t \in Parsed
    BY <1>0, <2>4, ParsedParts DEF C
  <2>6. [p EXCEPT !.spec.cookies = Append(@, v)] = [p EXCEPT !.spec = t]
    BY DEF d
  <2> HIDE DEF t
  <2> QED
    BY <1>n, <2>1, <2>5, <2>6
<1>6. CASE what = "user"
  <2> DEFINE a == <<c.before, c.after>>
             t == [s EXCEPT !.auth = a]
  <2>1. Specs(p, what, v) = {[p EXCEPT !.spec.auth = <<c.before, c.after>>]}
    BY <1>6 DEF Specs
  <2>2. a \in User
    <3> HIDE DEF c
    <3> QED
      BY <1>c DEF User
  <2>3. t \in Parsed
    <3> HIDE DEF a
    <3> QED
      BY <1>0, <2>2, ParsedParts
  <2>4. [p EXCEPT !.spec.auth = <<c.before, c.after>>] = [p EXCEPT !.spec = t]
    OBVIOUS
  <2> HIDE DEF t, c
  <2> QED
    BY <1>n, <2>1, <2>3, <2>4
<1>7. CASE what = "agent"
  <2> DEFINE t == [s EXCEPT !.agent = v]
  <2>1. Specs(p, what, v) = {[p EXCEPT !.spec.agent = v]}
    BY <1>7 DEF Specs
  <2>2. t \in Parsed
    BY <1>0, ParsedParts
  <2>3. [p EXCEPT !.spec.agent = v] = [p EXCEPT !.spec = t]
    OBVIOUS
  <2> HIDE DEF t
  <2> QED
    BY <1>n, <2>1, <2>2, <2>3
<1>8. CASE what = "max"
  <2> DEFINE t(x) == [s EXCEPT !.max = x]
  <2>1. Specs(p, what, v) = {[p EXCEPT !.spec.max = x] : x \in curlSeconds(v)}
    BY <1>8 DEF Specs
  <2>2. \A x \in curlSeconds(v) : t(x) \in Parsed
    BY <1>0, ParsedParts, SecondsType
  <2>3. \A x : [p EXCEPT !.spec.max = x] = [p EXCEPT !.spec = t(x)]
    OBVIOUS
  <2> HIDE DEF t
  <2>4. \A x \in curlSeconds(v) : [p EXCEPT !.spec = t(x)] \in ParseStates
    BY <1>n, <2>2
  <2>5. \A x \in curlSeconds(v) : [p EXCEPT !.spec.max = x] \in ParseStates
    BY <2>3, <2>4
  <2> QED
    BY <2>1, <2>5
<1>9. CASE what = "connect"
  <2> DEFINE t(x) == [s EXCEPT !.connect = x]
  <2>1. Specs(p, what, v) = {[p EXCEPT !.spec.connect = x] : x \in curlSeconds(v)}
    BY <1>9 DEF Specs
  <2>2. \A x \in curlSeconds(v) : t(x) \in Parsed
    BY <1>0, ParsedParts, SecondsType
  <2>3. \A x : [p EXCEPT !.spec.connect = x] = [p EXCEPT !.spec = t(x)]
    OBVIOUS
  <2> HIDE DEF t
  <2>4. \A x \in curlSeconds(v) : [p EXCEPT !.spec = t(x)] \in ParseStates
    BY <1>n, <2>2
  <2>5. \A x \in curlSeconds(v) : [p EXCEPT !.spec.connect = x] \in ParseStates
    BY <2>3, <2>4
  <2> QED
    BY <2>1, <2>5
<1>10. CASE what \in Kinds
  <2>1. Specs(p, what, v) = {AddData(p, what, v)}
    BY <1>10 DEF Specs, Kinds
  <2>2. AddData(p, what, v) \in ParseStates
    BY <1>10, AddDataType
  <2> QED
    BY <2>1, <2>2
<1> QED
  BY <1>1, <1>2, <1>3, <1>4, <1>5, <1>6, <1>7, <1>8, <1>9, <1>10 DEF Wanted

LEMMA TakeType ==
  ASSUME NEW p \in ParseStates, NEW what \in Wanted, NEW v \in Text
  PROVE  Take(p, what, v) \in ParseStates
<1> DEFINE q == [p EXCEPT !.need = ""]
           ps == Specs(q, what, v)
<1>1. q \in ParseStates
  BY ParsingParts
<1> HIDE DEF q
<1>2. ps \subseteq ParseStates
  BY <1>1, SpecsType
<1>3. Take(p, what, v) = IF ps = {} THEN Fail(p) ELSE CHOOSE r \in ps : TRUE
  BY DEF Take, q
<1> HIDE DEF ps
<1> QED
  BY <1>2, <1>3, ParsingParts

LEMMA FlagType ==
  ASSUME NEW p \in ParseStates, NEW what
  PROVE  Flag(p, what) \in ParseStates
<1> DEFINE s == [p.spec EXCEPT !.insecure = TRUE]
           t == [p.spec EXCEPT !.follow = TRUE]
<1>1. s \in Parsed /\ t \in Parsed
  BY ParsingParts, ParsedParts
<1>2. [p EXCEPT !.spec.insecure = TRUE] = [p EXCEPT !.spec = s]
  OBVIOUS
<1>3. [p EXCEPT !.spec.follow = TRUE] = [p EXCEPT !.spec = t]
  OBVIOUS
<1> HIDE DEF s, t
<1>4. [p EXCEPT !.spec = s] \in ParseStates /\ [p EXCEPT !.spec = t] \in ParseStates
  BY <1>1, ParsingParts
<1> QED
  BY <1>2, <1>3, <1>4 DEF Flag

\* Words that are not empty.
Word == {w \in Text : w # <<>>}

\* The value of an option in its own word.
LEMMA OptionValue ==
  ASSUME NEW a \in Word
  PROVE  curlOption(a) = <<>> \/ \E v \in Text : curlOption(a) = <<v>>
<1>1. a \in Text /\ a # <<>> /\ Len(a) \in Nat /\ Tail(a) \in Text
  BY LenProperties, HeadTailProperties DEF Word, Text
<1>2. SubSeq(a, 3, Len(a)) \in Text
  <2>1. \A i \in 3 .. Len(a) : a[i] \in Atoms
    BY <1>1, ElementOfSeq DEF Text
  <2> QED
    BY <1>1, <2>1, SubSeqProperties DEF Text
<1> DEFINE t == Tail(a)
           u == SubSeq(a, 3, Len(a))
<1>3. curlOption(a) \in {<<>>, <<t>>, <<u>>}
  <2>1. Len(a) = 1 \/ Len(a) > 1
    <3>1. Len(a) # 0
      BY <1>1, EmptySeq DEF Text
    <3>2. Len(a) \in Nat
      BY <1>1
    <3> QED
      BY <3>1, <3>2
  <2> HIDE DEF t, u
  <2> QED
    BY <2>1 DEF curlOption, t, u
<1> HIDE DEF t, u
<1> QED
  BY <1>1, <1>2, <1>3 DEF t, u

LEMMA OptionType ==
  ASSUME NEW p \in ParseStates, NEW a \in Word
  PROVE  Option(p, a) \in ParseStates
<1> DEFINE m == Meaning(a[1])
           v == curlOption(a)
<1>1. m \in Wanted \cup Flags \cup {"unknown"}
  BY MeaningType
<1>2. v = <<>> \/ (v # <<>> /\ v[1] \in Text)
  BY OptionValue
<1>c. CASE ~p.failed /\ a = <<"--">>
  BY <1>c, ParsingParts DEF Option
<1>3. ~(~p.failed /\ a = <<"--">>) => Option(p, a) = IF p.failed \/ m = "unknown" THEN Fail(p)
                     ELSE CASE m \in Flags /\ v = <<>>    -> Flag(p, m)
                            [] m \in Flags /\ v # <<>>    -> Fail(p)
                            [] m \notin Flags /\ v = <<>> -> [p EXCEPT !.need = m]
                            [] OTHER                      -> Take(p, m, v[1])
  BY DEF Option
<1> HIDE DEF m, v
<1> SUFFICES ASSUME ~(~p.failed /\ a = <<"--">>)
             PROVE  Option(p, a) \in ParseStates
  BY <1>c
<1>4. CASE p.failed \/ m = "unknown"
  BY <1>3, <1>4, ParsingParts
<1>5. CASE ~(p.failed \/ m = "unknown") /\ m \in Flags
  BY <1>3, <1>5, FlagType, ParsingParts
<1>6. CASE ~(p.failed \/ m = "unknown") /\ m \notin Flags
  <2>1. m \in Wanted
    BY <1>1, <1>6
  <2>2. CASE v = <<>>
    <3>1. Option(p, a) = [p EXCEPT !.need = m]
      BY <1>3, <1>6, <2>2
    <3> QED
      BY <2>1, <3>1, ParsingParts
  <2>3. CASE v # <<>>
    <3>1. Option(p, a) = Take(p, m, v[1])
      BY <1>3, <1>6, <2>3
    <3> QED
      BY <1>2, <2>1, <2>3, <3>1, TakeType
  <2> QED
    BY <2>2, <2>3
<1> QED
  BY <1>4, <1>5, <1>6

LEMMA MaxUpTo ==
  ASSUME NEW n \in Nat, NEW A \in SUBSET (0 .. n), A # {}
  PROVE  Max(A) \in A
<1> DEFINE B == {a + 1 : a \in A}
<1>1. B \in SUBSET (1 .. n + 1) /\ B # {} /\ n + 1 \in Nat
  <2>1. \A a \in 0 .. n : a + 1 \in 1 .. n + 1
    OBVIOUS
  <2>2. \A a \in A : a \in 0 .. n
    OBVIOUS
  <2>3. \A b \in B : b \in 1 .. n + 1
    BY <2>1, <2>2
  <2>4. B # {}
    OBVIOUS
  <2> HIDE DEF B
  <2> QED
    BY <2>3, <2>4
<1>2. Max(B) \in B /\ \A b \in B : b <= Max(B)
  <2> HIDE DEF B
  <2> QED
    BY <1>1, MaxOf
<1>3. PICK x \in A : Max(B) = x + 1
  BY <1>2
<1>4. ASSUME NEW a \in A
      PROVE  x >= a
  <2>1. a + 1 <= x + 1
    BY <1>2, <1>3
  <2>2. a \in 0 .. n /\ x \in 0 .. n
    OBVIOUS
  <2> QED
    BY <2>1, <2>2
<1>5. \E y \in A : \A a \in A : y >= a
  BY <1>4
<1> QED
  BY <1>5 DEF Max

\* A cluster of options is a sequence of options; one alone is itself.
LEMMA UnbundleType ==
  /\ \A a \in Word : Unbundle(a) \in Seq(Word)
  /\ \A o \in Atoms : <<o>> \in Word /\ Unbundle(<<o>>) = <<<<o>>>>
<1>1. ASSUME NEW a \in Word
      PROVE  \E n \in 0 .. Len(a), l \in [1 .. Len(a) -> Atoms] :
                /\ l[1] = a[1]
                /\ Unbundle(a) = [k \in 1 .. n |-> <<l[k]>>] \o
                       IF n = Len(a) THEN <<>> ELSE <<<<l[n + 1]>> \o SubSeq(a, n + 2, Len(a))>>
  <2> DEFINE L(i) == IF i = 1 THEN a[1] ELSE IF a[i] \in DOMAIN Dashed THEN Dashed[a[i]]
                     ELSE IF a[i] = "-" THEN "--" ELSE "-?"
             l == [i \in 1 .. Len(a) |-> L(i)]
             A == {k \in 0 .. Len(a) : \A i \in 1 .. k : L(i) \in curlShortNoArg}
             n == Max(A)
  <2>1. a \in Text /\ a # <<>> /\ Len(a) \in Nat /\ 1 \in 1 .. Len(a)
    <3>1. a \in Text /\ a # <<>>
      BY DEF Word
    <3>2. Len(a) \in Nat \ {0}
      BY <3>1, EmptySeq DEF Text
    <3> QED
      BY <3>1, <3>2
  <2>2. \A i \in 1 .. Len(a) : L(i) \in Atoms
    <3>1. \A i \in 1 .. Len(a) : a[i] \in Atoms
      BY <2>1, ElementOfSeq DEF Text
    <3>2. "-?" \in Atoms /\ "--" \in Atoms /\ \A c \in DOMAIN Dashed : Dashed[c] \in Atoms
      BY DEF Atoms, OptionNames
    <3> QED
      BY <2>1, <3>1, <3>2
  <2>3. n \in 0 .. Len(a)
    <3>1. A \in SUBSET (0 .. Len(a)) /\ 0 \in A
      BY <2>1
    <3> HIDE DEF A
    <3> QED
      BY <2>1, <3>1, MaxUpTo
  <2>4. Unbundle(a) = [k \in 1 .. n |-> <<L(k)>>] \o
                      IF n = Len(a) THEN <<>> ELSE <<<<L(n + 1)>> \o SubSeq(a, n + 2, Len(a))>>
    BY DEF Unbundle
  <2> HIDE DEF n
  <2>5. \A k \in 1 .. n : k \in 1 .. Len(a) /\ L(k) = l[k]
    BY <2>1, <2>3
  <2>6. n # Len(a) => n + 1 \in 1 .. Len(a) /\ L(n + 1) = l[n + 1]
    BY <2>1, <2>3
  <2>7. l \in [1 .. Len(a) -> Atoms] /\ l[1] = a[1]
    BY <2>1, <2>2
  <2> HIDE DEF l, L
  <2>8. Unbundle(a) = [k \in 1 .. n |-> <<l[k]>>] \o
                      IF n = Len(a) THEN <<>> ELSE <<<<l[n + 1]>> \o SubSeq(a, n + 2, Len(a))>>
    <3>1. [k \in 1 .. n |-> <<L(k)>>] = [k \in 1 .. n |-> <<l[k]>>]
      BY <2>5
    <3> QED
      BY <2>4, <2>6, <3>1
  <2> QED
    BY <2>3, <2>7, <2>8
<1>2. ASSUME NEW a \in Word
      PROVE  Unbundle(a) \in Seq(Word)
  <2>1. PICK n \in 0 .. Len(a), l \in [1 .. Len(a) -> Atoms] :
                /\ l[1] = a[1]
                /\ Unbundle(a) = [k \in 1 .. n |-> <<l[k]>>] \o
                       IF n = Len(a) THEN <<>> ELSE <<<<l[n + 1]>> \o SubSeq(a, n + 2, Len(a))>>
    BY <1>1
  <2> DEFINE x == [k \in 1 .. n |-> <<l[k]>>]
             b == <<l[n + 1]>> \o SubSeq(a, n + 2, Len(a))
             W == Word
  <2>2. a \in Text /\ Len(a) \in Nat /\ n \in Nat
    BY LenProperties DEF Word, Text
  <2>3. x \in Seq(W)
    <3>1. \A k \in 1 .. n : <<l[k]>> \in W
      <4>1. \A k \in 1 .. n : l[k] \in Atoms
        BY <2>2
      <4>2. \A c \in Atoms : <<c>> \in W
        BY Short DEF Word, Text
      <4> QED
        BY <4>1, <4>2
    <3> HIDE DEF W
    <3> QED
      BY <2>2, <3>1, IsASeq
  <2>4. n # Len(a) => b \in W
    <3>1. SUFFICES ASSUME n # Len(a)
                   PROVE  b \in W
      OBVIOUS
    <3>2. n + 1 \in 1 .. Len(a) /\ n + 2 \in Int /\ Len(a) \in Int
      BY <2>2, <3>1
    <3>3. <<l[n + 1]>> \in Text /\ <<l[n + 1]>> # <<>>
      BY <3>2, Short DEF Text
    <3>4. SubSeq(a, n + 2, Len(a)) \in Text
      <4>1. \A i \in n + 2 .. Len(a) : i \in 1 .. Len(a)
        BY <2>2
      <4>2. \A i \in n + 2 .. Len(a) : a[i] \in Atoms
        BY <2>2, <4>1, ElementOfSeq DEF Text
      <4> DEFINE m == n + 2
      <4> HIDE DEF m
      <4>3. m \in Int /\ \A i \in m .. Len(a) : a[i] \in Atoms
        BY <3>2, <4>2 DEF m
      <4>4. SubSeq(a, m, Len(a)) \in Seq(Atoms)
        BY <3>2, <4>3, SubSeqProperties
      <4> QED
        BY <4>4 DEF m, Text
    <3> DEFINE y == <<l[n + 1]>>
               z == SubSeq(a, n + 2, Len(a))
    <3> HIDE DEF y, z
    <3>5. y \in Seq(Atoms) /\ z \in Seq(Atoms) /\ y # <<>>
      BY <3>3, <3>4 DEF y, z, Text
    <3>6. y \o z \in Seq(Atoms) /\ y \o z # <<>>
      BY <3>5, ConcatProperties, ConcatSimplifications
    <3> QED
      BY <3>6 DEF y, z, Word, Text
  <2> HIDE DEF x, b, W
  <2>5. <<>> \in Seq(W) /\ (n # Len(a) => <<b>> \in Seq(W))
    BY <2>4, EmptySeq, Short
  <2>6. Unbundle(a) = x \o IF n = Len(a) THEN <<>> ELSE <<b>>
    BY <2>1 DEF x, b
  <2>7. x \o <<>> \in Seq(W) /\ (n # Len(a) => x \o <<b>> \in Seq(W))
    BY <2>3, <2>5, ConcatProperties
  <2> QED
    BY <2>6, <2>7 DEF W
<1>3. ASSUME NEW o \in Atoms
      PROVE  <<o>> \in Word /\ Unbundle(<<o>>) = <<<<o>>>>
  <2> DEFINE a == <<o>>
  <2>1. a \in Word /\ Len(a) = 1 /\ a[1] = o
    BY Short DEF Word, Text
  <2>2. PICK n \in 0 .. Len(a), l \in [1 .. Len(a) -> Atoms] :
                /\ l[1] = a[1]
                /\ Unbundle(a) = [k \in 1 .. n |-> <<l[k]>>] \o
                       IF n = Len(a) THEN <<>> ELSE <<<<l[n + 1]>> \o SubSeq(a, n + 2, Len(a))>>
    BY <1>1, <2>1
  <2> DEFINE w == <<o>>
             s == <<w>>
  <2>3. s \in Seq({w}) /\ <<>> \o s = s /\ s \o <<>> = s
    <3> HIDE DEF w
    <3>1. s \in Seq({w})
      BY Short
    <3> HIDE DEF s
    <3> QED
      BY <3>1, ConcatEmptySeq
  <2>4. CASE n = 0
    <3>1. [k \in 1 .. n |-> <<l[k]>>] = <<>> /\ n # Len(a) /\ n + 1 = 1 /\ n + 2 = 2
      BY <2>1, <2>4
    <3>2. Unbundle(a) = <<>> \o <<<<l[1]>> \o SubSeq(a, 2, 1)>>
      BY <2>1, <2>2, <3>1
    <3>3. SubSeq(a, 2, 1) = <<>>
      BY SubSeqEmpty
    <3>4. <<l[1]>> \o <<>> = w
      <4>1. w \in Seq(Atoms)
        BY Short
      <4> QED
        BY <2>1, <2>2, <4>1, ConcatEmptySeq
    <3> QED
      BY <2>1, <2>3, <3>2, <3>3, <3>4
  <2>5. CASE n = 1
    <3>1. [k \in 1 .. n |-> <<l[k]>>] = s /\ n = Len(a)
      BY <2>1, <2>2, <2>5
    <3>2. Unbundle(a) = s \o <<>>
      BY <2>2, <3>1
    <3> QED
      BY <2>1, <2>3, <3>2
  <2> QED
    BY <2>1, <2>4, <2>5
<1> QED
  BY <1>2, <1>3

\* The options of a cluster, one after the other.
Options == [p \in ParseStates |-> [a \in Word |-> Option(p, a)]]

LEMMA OptionFold ==
  ASSUME NEW p \in ParseStates, NEW seq \in Seq(Word), NEW g, Fold(g, seq, ParseStates, p, Options)
  PROVE  FoldLeft(Option, p, seq) = g[Len(seq)]
<1> DEFINE n == Len(seq)
           S == ParseStates
           X == Word
           Op == Options
           Eq(f) == f = [A \in SUBSET DOMAIN seq |-> IF A = {} THEN p ELSE Option(f[A \ {Max(A)}], seq[Max(A)])]
<1>1. Op \in [S -> [X -> S]] /\ \A q \in S, a \in X : Op[q][a] = Option(q, a)
  BY OptionType DEF Options
<1>2. n \in Nat /\ DOMAIN seq = 1 .. n /\ seq \in Seq(X) /\ p \in S /\ Fold(g, seq, S, p, Op)
  BY LenProperties
<1>3. \A i \in 1 .. n : seq[i] \in X
  BY ElementOfSeq
<1> HIDE DEF S, X, Op, n
<1>4. \A A \in SUBSET (1 .. n) : A # {} => Max(A) \in 1 .. n /\ A \ {Max(A)} \in SUBSET (1 .. n)
  BY <1>2, MaxOf
<1>5. PICK f : SetFold(f, seq, S, p, Op)
  BY <1>1, <1>2, SetFoldExists
<1>6. Eq(f)
  <2>1. /\ f \in [SUBSET (1 .. n) -> S] /\ f[{}] = p
        /\ \A A \in SUBSET (1 .. n) : A # {} => f[A] = Op[f[A \ {Max(A)}]][seq[Max(A)]]
    BY <1>5 DEF SetFold, n
  <2>2. \A A \in SUBSET (1 .. n) : A # {} => f[A] = Option(f[A \ {Max(A)}], seq[Max(A)])
    BY <1>1, <1>3, <1>4, <2>1
  <2>3. f = [A \in SUBSET (1 .. n) |-> f[A]]
    BY <2>1
  <2> QED
    BY <1>2, <2>1, <2>2, <2>3
<1> DEFINE c == CHOOSE h : Eq(h)
<1>7. Eq(c)
  <2> HIDE DEF Eq
  <2> QED
    BY <1>6, Zenon
<1>8. FoldLeft(Option, p, seq) = c[1 .. n]
  BY <1>2 DEF FoldLeft, MapThenFoldSet
<1> HIDE DEF c
<1>9. \A A \in SUBSET (1 .. n) : c[A] = IF A = {} THEN p ELSE Option(c[A \ {Max(A)}], seq[Max(A)])
  <2> DEFINE D == SUBSET (1 .. n)
  <2>1. c = [A \in D |-> IF A = {} THEN p ELSE Option(c[A \ {Max(A)}], seq[Max(A)])]
    BY <1>2, <1>7
  <2> HIDE DEF D
  <2>2. \A A \in D : c[A] = IF A = {} THEN p ELSE Option(c[A \ {Max(A)}], seq[Max(A)])
    BY <2>1
  <2> QED
    BY <2>2 DEF D
<1> HIDE DEF Eq
<1>10. c[{}] = p
  BY <1>9
<1>11. \A A \in SUBSET (1 .. n) :
          A # {} /\ c[A \ {Max(A)}] \in S => c[A] = Op[c[A \ {Max(A)}]][seq[Max(A)]]
  BY <1>1, <1>3, <1>4, <1>9
<1>12. Solves(c, seq, S, p, Op)
  BY <1>10, <1>11 DEF Solves, n
<1>13. c[1 .. Len(seq)] = g[Len(seq)]
  BY <1>1, <1>2, <1>12, SetFoldMeans
<1> QED
  BY <1>8, <1>13 DEF n

LEMMA OptionSteps ==
  ASSUME NEW p \in ParseStates
  PROVE  /\ FoldLeft(Option, p, <<>>) = p
         /\ \A t \in Seq(Word) : FoldLeft(Option, p, t) \in ParseStates
         /\ \A t \in Seq(Word), a \in Word :
              FoldLeft(Option, p, Append(t, a)) = Option(FoldLeft(Option, p, t), a)
<1> DEFINE S == ParseStates
           X == Word
           Op == Options
           V == [t \in Seq(Word) |-> FoldLeft(Option, p, t)]
<1>1. Op \in [S -> [X -> S]] /\ \A q \in S, a \in X : Op[q][a] = Option(q, a)
  BY OptionType DEF Options
<1>2. p \in S /\ Computes(V, X, S, p, Op)
  BY OptionFold DEF Computes
<1>3. \A t \in Seq(X) : V[t] = FoldLeft(Option, p, t)
  OBVIOUS
<1>4. <<>> \in Seq(X) /\ \A t \in Seq(X), a \in X : Append(t, a) \in Seq(X)
  BY EmptySeq, AppendProperties
<1> HIDE DEF S, X, Op, V
<1>5. /\ V[<<>>] = p
      /\ \A t \in Seq(X) : V[t] \in S
      /\ \A t \in Seq(X), x \in X : V[Append(t, x)] = Op[V[t]][x]
  <2>1. Steps(V, X, S, p, Op)
    BY <1>1, <1>2, FoldedSteps
  <2> QED
    BY <2>1 DEF Steps
<1>6. FoldLeft(Option, p, <<>>) = p
  BY <1>3, <1>4, <1>5
<1>7. \A t \in Seq(X) : FoldLeft(Option, p, t) \in S
  BY <1>3, <1>5
<1>8. ASSUME NEW t \in Seq(X), NEW a \in X
      PROVE  FoldLeft(Option, p, Append(t, a)) = Option(FoldLeft(Option, p, t), a)
  <2>1. V[Append(t, a)] = Op[V[t]][a] /\ V[t] \in S
    BY <1>5
  <2>2. V[Append(t, a)] = Option(V[t], a)
    BY <1>1, <2>1
  <2>3. V[t] = FoldLeft(Option, p, t) /\ V[Append(t, a)] = FoldLeft(Option, p, Append(t, a))
    BY <1>3, <1>4
  <2> QED
    BY <2>2, <2>3
<1> QED
  BY <1>6, <1>7, <1>8 DEF S, X

\* The next word.
LEMMA ParseArgType ==
  ASSUME NEW p \in ParseStates, NEW a \in Text
  PROVE  ParseArg(p, a) \in ParseStates
<1> DEFINE url == [p.spec EXCEPT !.url = a]
<1>0. p.need \in {""} \cup Wanted
  BY DEF ParseStates
<1>1. CASE p.failed
  BY <1>1 DEF ParseArg
<1>2. CASE ~p.failed /\ p.need # ""
  <2>1. ParseArg(p, a) = Take(p, p.need, a)
    BY <1>2 DEF ParseArg
  <2>2. p.need \in Wanted
    BY <1>0, <1>2
  <2> QED
    BY <2>1, <2>2, TakeType
<1>3. CASE ~p.failed /\ p.need = ""
  <2> DEFINE word == CASE p.options /\ a = <<"--">> -> [p EXCEPT !.options = FALSE]
                       [] p.options /\ a # <<"--">> /\ IsOption(a) -> FoldLeft(Option, p, Unbundle(a))
                       [] OTHER -> IF p.spec.url # <<>> THEN Fail(p) ELSE [p EXCEPT !.spec.url = a]
  <2>1. ParseArg(p, a) = word
    BY <1>3 DEF ParseArg
  <2>2. [p EXCEPT !.options = FALSE] \in ParseStates /\ Fail(p) \in ParseStates
    BY ParsingParts
  <2>3. IsOption(a) => FoldLeft(Option, p, Unbundle(a)) \in ParseStates
    <3>1. IsOption(a) => a \in Word
      BY DEF IsOption, Word
    <3> QED
      BY <3>1, UnbundleType, OptionSteps
  <2>4. [p EXCEPT !.spec.url = a] \in ParseStates
    <3>1. url \in Parsed
      BY ParsingParts, ParsedParts
    <3>2. [p EXCEPT !.spec.url = a] = [p EXCEPT !.spec = url]
      OBVIOUS
    <3> HIDE DEF url
    <3> QED
      BY <3>1, <3>2, ParsingParts
  <2> DEFINE f == FoldLeft(Option, p, Unbundle(a))
             u == [p EXCEPT !.spec.url = a]
             o == [p EXCEPT !.options = FALSE]
  <2>5. word \in {o, Fail(p), u} \/ (IsOption(a) /\ word = f)
    <3> HIDE DEF f, u, o
    <3>1. word = CASE p.options /\ a = <<"--">> -> o
                   [] p.options /\ a # <<"--">> /\ IsOption(a) -> f
                   [] OTHER -> IF p.spec.url # <<>> THEN Fail(p) ELSE u
      BY DEF f, u, o
    <3> HIDE DEF word
    <3> QED
      BY <3>1
  <2> HIDE DEF f, u, o, word
  <2> QED
    BY <2>1, <2>2, <2>3, <2>4, <2>5 DEF f, u, o
<1> QED
  BY <1>1, <1>2, <1>3

\* The words of a command, one after the other.
Args == [p \in ParseStates |-> [a \in Text |-> ParseArg(p, a)]]

LEMMA ArgFold ==
  ASSUME NEW p \in ParseStates, NEW seq \in Seq(Text), NEW g, Fold(g, seq, ParseStates, p, Args)
  PROVE  FoldLeft(ParseArg, p, seq) = g[Len(seq)]
<1> DEFINE n == Len(seq)
           S == ParseStates
           X == Text
           Op == Args
           Eq(f) == f = [A \in SUBSET DOMAIN seq |-> IF A = {} THEN p ELSE ParseArg(f[A \ {Max(A)}], seq[Max(A)])]
<1>1. Op \in [S -> [X -> S]] /\ \A q \in S, a \in X : Op[q][a] = ParseArg(q, a)
  BY ParseArgType DEF Args
<1>2. n \in Nat /\ DOMAIN seq = 1 .. n /\ seq \in Seq(X) /\ p \in S /\ Fold(g, seq, S, p, Op)
  BY LenProperties
<1>3. \A i \in 1 .. n : seq[i] \in X
  BY ElementOfSeq
<1> HIDE DEF S, X, Op, n
<1>4. \A A \in SUBSET (1 .. n) : A # {} => Max(A) \in 1 .. n /\ A \ {Max(A)} \in SUBSET (1 .. n)
  BY <1>2, MaxOf
<1>5. PICK f : SetFold(f, seq, S, p, Op)
  BY <1>1, <1>2, SetFoldExists
<1>6. Eq(f)
  <2>1. /\ f \in [SUBSET (1 .. n) -> S] /\ f[{}] = p
        /\ \A A \in SUBSET (1 .. n) : A # {} => f[A] = Op[f[A \ {Max(A)}]][seq[Max(A)]]
    BY <1>5 DEF SetFold, n
  <2>2. \A A \in SUBSET (1 .. n) : A # {} => f[A] = ParseArg(f[A \ {Max(A)}], seq[Max(A)])
    BY <1>1, <1>3, <1>4, <2>1
  <2>3. f = [A \in SUBSET (1 .. n) |-> f[A]]
    BY <2>1
  <2> QED
    BY <1>2, <2>1, <2>2, <2>3
<1> DEFINE c == CHOOSE h : Eq(h)
<1>7. Eq(c)
  <2> HIDE DEF Eq
  <2> QED
    BY <1>6, Zenon
<1>8. FoldLeft(ParseArg, p, seq) = c[1 .. n]
  BY <1>2 DEF FoldLeft, MapThenFoldSet
<1> HIDE DEF c
<1>9. \A A \in SUBSET (1 .. n) : c[A] = IF A = {} THEN p ELSE ParseArg(c[A \ {Max(A)}], seq[Max(A)])
  <2> DEFINE D == SUBSET (1 .. n)
  <2>1. c = [A \in D |-> IF A = {} THEN p ELSE ParseArg(c[A \ {Max(A)}], seq[Max(A)])]
    BY <1>2, <1>7
  <2> HIDE DEF D
  <2>2. \A A \in D : c[A] = IF A = {} THEN p ELSE ParseArg(c[A \ {Max(A)}], seq[Max(A)])
    BY <2>1
  <2> QED
    BY <2>2 DEF D
<1> HIDE DEF Eq
<1>10. c[{}] = p
  BY <1>9
<1>11. \A A \in SUBSET (1 .. n) :
          A # {} /\ c[A \ {Max(A)}] \in S => c[A] = Op[c[A \ {Max(A)}]][seq[Max(A)]]
  BY <1>1, <1>3, <1>4, <1>9
<1>12. Solves(c, seq, S, p, Op)
  BY <1>10, <1>11 DEF Solves, n
<1>13. c[1 .. Len(seq)] = g[Len(seq)]
  BY <1>1, <1>2, <1>12, SetFoldMeans
<1> QED
  BY <1>8, <1>13 DEF n

LEMMA ArgSteps ==
  ASSUME NEW p \in ParseStates
  PROVE  /\ FoldLeft(ParseArg, p, <<>>) = p
         /\ \A t \in Seq(Text) : FoldLeft(ParseArg, p, t) \in ParseStates
         /\ \A t \in Seq(Text), a \in Text :
              FoldLeft(ParseArg, p, Append(t, a)) = ParseArg(FoldLeft(ParseArg, p, t), a)
<1> DEFINE S == ParseStates
           X == Text
           Op == Args
           V == [t \in Seq(Text) |-> FoldLeft(ParseArg, p, t)]
<1>1. Op \in [S -> [X -> S]] /\ \A q \in S, a \in X : Op[q][a] = ParseArg(q, a)
  BY ParseArgType DEF Args
<1>2. p \in S /\ Computes(V, X, S, p, Op)
  BY ArgFold DEF Computes
<1>3. \A t \in Seq(X) : V[t] = FoldLeft(ParseArg, p, t)
  OBVIOUS
<1>4. <<>> \in Seq(X) /\ \A t \in Seq(X), a \in X : Append(t, a) \in Seq(X)
  BY EmptySeq, AppendProperties
<1> HIDE DEF S, X, Op, V
<1>5. /\ V[<<>>] = p
      /\ \A t \in Seq(X) : V[t] \in S
      /\ \A t \in Seq(X), x \in X : V[Append(t, x)] = Op[V[t]][x]
  <2>1. Steps(V, X, S, p, Op)
    BY <1>1, <1>2, FoldedSteps
  <2> QED
    BY <2>1 DEF Steps
<1>6. FoldLeft(ParseArg, p, <<>>) = p
  BY <1>3, <1>4, <1>5
<1>7. \A t \in Seq(X) : FoldLeft(ParseArg, p, t) \in S
  BY <1>3, <1>5
<1>8. ASSUME NEW t \in Seq(X), NEW a \in X
      PROVE  FoldLeft(ParseArg, p, Append(t, a)) = ParseArg(FoldLeft(ParseArg, p, t), a)
  <2>1. V[Append(t, a)] = Op[V[t]][a] /\ V[t] \in S
    BY <1>5
  <2>2. V[Append(t, a)] = ParseArg(V[t], a)
    BY <1>1, <2>1
  <2>3. V[t] = FoldLeft(ParseArg, p, t) /\ V[Append(t, a)] = FoldLeft(ParseArg, p, Append(t, a))
    BY <1>3, <1>4
  <2> QED
    BY <2>2, <2>3
<1> QED
  BY <1>6, <1>7, <1>8 DEF S, X

\* What splitCurlCommand gives are texts.
LEMMA SplitType ==
  ASSUME NEW text \in Text
  PROVE  splitCurlCommand(text) \subseteq Seq(Text)
<1> DEFINE e == ScanFrom(Scanning, text)
<1>1. Scanning \in ScanStates
  <2>1. <<>> \in Text /\ <<>> \in Seq(Text)
    BY EmptySeq DEF Text
  <2> QED
    BY <2>1 DEF Scanning, ScanStates
<1>2. e \in ScanStates
  BY <1>1, ScanSteps
<1>3. splitCurlCommand(text) \subseteq {Flush(e).args}
  BY DEF splitCurlCommand
<1> HIDE DEF e
<1>4. Flush(e).args \in Seq(Text)
  <2>1. e.args \in Seq(Text) /\ e.current \in Text
    BY <1>2 DEF ScanStates
  <2>2. Append(e.args, e.current) \in Seq(Text)
    BY <2>1, AppendProperties
  <2>3. CASE e.inToken
    <3>1. Flush(e).args = Append(e.args, e.current)
      BY <1>2, <2>3 DEF Flush, ScanStates
    <3> QED
      BY <2>2, <3>1
  <2>4. CASE ~e.inToken
    BY <2>1, <2>4 DEF Flush
  <2> QED
    BY <2>3, <2>4
<1> QED
  BY <1>3, <1>4

\* The request before the first word.
LEMMA ParsingType ==
  /\ NoHeaders \in Headers /\ \A n \in Names : NoHeaders[n] = <<>>
  /\ NoSpec \in Parsed
  /\ Parsing \in ParseStates
<1>1. NoHeaders \in Headers /\ \A n \in Names : NoHeaders[n] = <<>>
  <2>1. <<>> \in Seq(Trimmed)
    BY EmptySeq
  <2> QED
    BY <2>1 DEF NoHeaders, Headers, Names
<1>2. NoSpec \in Parsed
  <2>1. NoHeaders["X_T"] = <<>>
    BY <1>1 DEF Names, HeaderNames, ToSet
  <2>2. /\ <<>> \in Text /\ <<>> \in Seq(Datum) /\ <<>> \in Seq(FormField) /\ <<>> \in User
        /\ <<>> \in Seq(Cookie) /\ 0 \in Times
    BY EmptySeq DEF Text, User, Times
  <2>3. <<"GET">> \in Text
    <3>1. "GET" \in Atoms
      BY DEF Atoms
    <3> QED
      BY <3>1, Short DEF Text
  <2> QED
    BY <1>1, <2>1, <2>2, <2>3 DEF NoSpec, Parsed
<1>3. Parsing \in ParseStates
  BY <1>2 DEF Parsing, ParseStates
<1> QED
  BY <1>1, <1>2, <1>3

LEMMA DefaultHeaderType ==
  ASSUME NEW h \in Headers, NEW n \in Names, NEW v \in Trimmed
  PROVE  /\ DefaultHeader(h, n, v) \in Headers
         /\ n # "X_T" /\ h["X_T"] = <<>> => DefaultHeader(h, n, v)["X_T"] = <<>>
<1> DEFINE T == Trimmed
<1>1. h \in [Names -> Seq(T)] /\ v \in T
  BY DEF Headers
<1> HIDE DEF T
<1>2. <<v>> \in Seq(T)
  BY <1>1
<1>3. [h EXCEPT ![n] = <<v>>] \in [Names -> Seq(T)]
  BY <1>1, <1>2
<1>4. "X_T" \in Names
  BY DEF Names, HeaderNames, ToSet
<1>5. n # "X_T" => [h EXCEPT ![n] = <<v>>]["X_T"] = h["X_T"]
  BY <1>1, <1>4
<1> QED
  BY <1>1, <1>3, <1>5 DEF DefaultHeader, Headers, T

LEMMA JSONDefaultsType ==
  ASSUME NEW s \in Parsed
  PROVE  /\ JSONDefaults(s) \in Parsed
         /\ JSONDefaults(s).data = s.data /\ JSONDefaults(s).form = s.form
<1> DEFINE j == <<"application/json">>
           h == DefaultHeader(s.headers, "Content-Type", j)
           g == DefaultHeader(h, "Accept", j)
<1>1. j \in Trimmed
  <2>1. "application/json" \in Atoms
    BY DEF Atoms
  <2>2. Ink("application/json")
    BY DEF Ink
  <2> QED
    BY <2>1, <2>2, TrimmedAre
<1>2. {"Content-Type", "Accept"} \subseteq Names
  BY DEF Names, HeaderNames, ToSet
<1>3. s.headers \in Headers /\ s.headers["X_T"] = <<>>
  BY DEF Parsed
<1> HIDE DEF j
<1>4. h \in Headers /\ h["X_T"] = <<>>
  BY <1>1, <1>2, <1>3, DefaultHeaderType
<1> HIDE DEF h
<1>5. g \in Headers /\ g["X_T"] = <<>>
  BY <1>1, <1>2, <1>4, DefaultHeaderType
<1>6. JSONDefaults(s) = [s EXCEPT !.headers = g]
  BY DEF JSONDefaults, g, h, j
<1> HIDE DEF g
<1>7. [s EXCEPT !.headers = g] \in Parsed
  BY <1>5, ParsedParts
<1>8. [s EXCEPT !.headers = g].data = s.data /\ [s EXCEPT !.headers = g].form = s.form
  BY DEF Parsed
<1> QED
  BY <1>6, <1>7, <1>8

\* The requests that an import may give.
Imported == {s \in Parsed : s.data = <<>> \/ s.form = <<>>}

\* Whatever text is imported, the request has no body beside its data or its form,
\* never both of them, headers that are trimmed and have a name that curl.go allows,
\* cookies with a sign of equality, a user without a colon and form fields with a
\* name: ParseCURL.
THEOREM ParsedRequests == \A text \in Text : ParseCURL(text) \subseteq Imported
<1> SUFFICES ASSUME NEW text \in Text, NEW s \in ParseCURL(text)
             PROVE  s \in Imported
  OBVIOUS
<1>1. PICK args \in splitCurlCommand(text) : \E p :
         /\ args # <<>> /\ p = FoldLeft(ParseArg, Parsing, Tail(args))
         /\ p.spec.data = <<>> \/ p.spec.form = <<>>
         /\ s = IF p.json THEN JSONDefaults(p.spec) ELSE p.spec
  BY DEF ParseCURL
<1>p. PICK p :
         /\ args # <<>> /\ p = FoldLeft(ParseArg, Parsing, Tail(args))
         /\ p.spec.data = <<>> \/ p.spec.form = <<>>
         /\ s = IF p.json THEN JSONDefaults(p.spec) ELSE p.spec
  BY <1>1
<1>2. Tail(args) \in Seq(Text)
  <2>1. args \in Seq(Text)
    BY SplitType
  <2> QED
    BY <1>1, <2>1, HeadTailProperties
<1>3. p \in ParseStates
  BY <1>p, <1>2, ParsingType, ArgSteps
<1>4. p.spec \in Parsed
  BY <1>3, ParsingParts
<1> QED
  BY <1>p, <1>4, JSONDefaultsType DEF Imported

-----------------------------------------------------------------------------
(* What FormatCURL writes is what ParseCURL reads                            *)

\* ParseCURL behind the first words of a command.
Parse == [ws \in Seq(CommandWord) |-> FoldLeft(ParseArg, Parsing, Plainly(ws))]

LEMMA ParseSteps ==
  /\ Parse[<<>>] = Parsing
  /\ \A ws \in Seq(CommandWord) : Parse[ws] = FoldLeft(ParseArg, Parsing, Plainly(ws)) /\ Parse[ws] \in ParseStates
  /\ \A ws \in Seq(CommandWord), w \in CommandWord :
        ws \o <<w>> \in Seq(CommandWord) /\ Parse[ws \o <<w>>] = ParseArg(Parse[ws], w.atoms)
  /\ \A ws \in Seq(CommandWord), w \in CommandWord, x \in CommandWord :
        Parse[ws \o <<w, x>>] = ParseArg(ParseArg(Parse[ws], w.atoms), x.atoms)
<1> DEFINE W == CommandWord
<1>0. \A w \in W : w.atoms \in Text
  BY DEF CommandWord
<1>1. \A ws \in Seq(W) : Parse[ws] = FoldLeft(ParseArg, Parsing, Plainly(ws)) /\ Plainly(ws) \in Seq(Text)
  BY RestSteps DEF Parse
<1>2. <<>> \in Seq(W) /\ Plainly(<<>>) = <<>>
  BY EmptySeq, RestSteps
<1>3. Parse[<<>>] = Parsing
  BY <1>1, <1>2, ParsingType, ArgSteps
<1>4. ASSUME NEW ws \in Seq(W), NEW w \in W
      PROVE  /\ Append(ws, w) = ws \o <<w>> /\ Append(ws, w) \in Seq(W)
             /\ Parse[Append(ws, w)] = ParseArg(Parse[ws], w.atoms)
  <2>1. Append(ws, w) = ws \o <<w>> /\ Append(ws, w) \in Seq(W)
    <3> HIDE DEF W
    <3> QED
      BY AppendIsConcat, AppendProperties
  <2>2. Plainly(Append(ws, w)) = Append(Plainly(ws), w.atoms)
    BY RestSteps
  <2>3. Plainly(ws) \in Seq(Text) /\ w.atoms \in Text
    BY <1>0, <1>1
  <2>4. FoldLeft(ParseArg, Parsing, Append(Plainly(ws), w.atoms)) = ParseArg(FoldLeft(ParseArg, Parsing, Plainly(ws)), w.atoms)
    BY <2>3, ParsingType, ArgSteps
  <2> QED
    BY <1>1, <2>1, <2>2, <2>4
<1>5. ASSUME NEW ws \in Seq(W), NEW w \in W, NEW x \in W
      PROVE  Parse[ws \o <<w, x>>] = ParseArg(ParseArg(Parse[ws], w.atoms), x.atoms)
  <2> HIDE DEF W
  <2>1. <<w>> \in Seq(W) /\ <<w, x>> = Append(<<w>>, x)
    BY Short
  <2>2. ws \o <<w, x>> = Append(ws \o <<w>>, x)
    BY <2>1, ConcatAppend
  <2>3. ws \o <<w>> \in Seq(W) /\ Parse[ws \o <<w>>] = ParseArg(Parse[ws], w.atoms)
    BY <1>4
  <2> QED
    BY <1>4, <2>2, <2>3
<1>6. \A ws \in Seq(W) : Parse[ws] \in ParseStates
  BY <1>1, ParsingType, ArgSteps
<1> QED
  BY <1>1, <1>3, <1>4, <1>5, <1>6

\* Between an option with its value and the next one.
Ready(s, m) == [spec |-> s, methodSet |-> m, options |-> TRUE, json |-> FALSE, need |-> "", failed |-> FALSE]

LEMMA ReadyType ==
  ASSUME NEW s \in Parsed, NEW m \in BOOLEAN
  PROVE  Ready(s, m) \in ParseStates
BY DEF Ready, ParseStates

\* The name of an option, alone in its word.
LEMMA OptionRead ==
  ASSUME NEW s \in Parsed, NEW m \in BOOLEAN, NEW o \in Atoms, Meaning(o) # "unknown", o # "--"
  PROVE  ParseArg(Ready(s, m), <<o>>) =
           IF Meaning(o) \in Flags THEN Flag(Ready(s, m), Meaning(o)) ELSE [Ready(s, m) EXCEPT !.need = Meaning(o)]
<1> DEFINE p == Ready(s, m)
           a == <<o>>
<1>1. p \in ParseStates /\ p.options = TRUE /\ p.failed = FALSE /\ p.need = ""
  BY ReadyType DEF Ready
<1>2. a \in Word /\ Unbundle(a) = <<a>> /\ a # <<"--">> /\ a # <<>> /\ a[1] = o /\ Len(a) = 1
  BY UnbundleType
<1>3. IsOption(a)
  BY <1>2 DEF IsOption
<1> HIDE DEF p, a
<1>4. ParseArg(p, a) = FoldLeft(Option, p, Unbundle(a))
  BY <1>1, <1>2, <1>3 DEF ParseArg
<1>5. FoldLeft(Option, p, <<a>>) = Option(p, a)
  <2> DEFINE W == Word
  <2>1. <<>> \in Seq(W) /\ Append(<<>>, a) = <<a>>
    <3>1. a \in W
      BY <1>2
    <3> HIDE DEF W
    <3> QED
      BY <3>1, EmptySeq, Short
  <2>2. FoldLeft(Option, p, Append(<<>>, a)) = Option(FoldLeft(Option, p, <<>>), a)
    BY <1>1, <1>2, <2>1, OptionSteps
  <2> QED
    BY <1>1, <2>1, <2>2, OptionSteps
<1>6. curlOption(a) = <<>>
  BY <1>2 DEF curlOption
<1>7. Option(p, a) = IF Meaning(o) \in Flags THEN Flag(p, Meaning(o)) ELSE [p EXCEPT !.need = Meaning(o)]
  BY <1>1, <1>2, <1>6 DEF Option
<1> QED
  BY <1>2, <1>4, <1>5, <1>7 DEF p, a

\* An option makes only r of its value.
Yields(s, m, o, v, r) == Specs(Ready(s, m), Meaning(o), v) = {r}

\* An option and, in the next word, its value.
LEMMA ValueRead ==
  ASSUME NEW s \in Parsed, NEW m \in BOOLEAN, NEW o \in Atoms, Meaning(o) \in Wanted, o # "--", NEW v \in Text, NEW r,
         Yields(s, m, o, v, r)
  PROVE  ParseArg(ParseArg(Ready(s, m), <<o>>), v) = r
<1> DEFINE p == Ready(s, m)
           w == Meaning(o)
           q == [p EXCEPT !.need = w]
<1>1. w # "unknown" /\ w \notin Flags /\ w # ""
  <2>1. w \in Wanted
    OBVIOUS
  <2> HIDE DEF w
  <2> QED
    BY <2>1 DEF Wanted, Flags, Kinds
<1>2. ParseArg(p, <<o>>) = q
  BY <1>1, OptionRead
<1>3. q.failed = FALSE /\ q.need = w /\ [q EXCEPT !.need = ""] = p
  <2>1. p = Ready(s, m)
    OBVIOUS
  <2>2. q = [Ready(s, m) EXCEPT !.need = w]
    OBVIOUS
  <2> HIDE DEF p, q, w
  <2>3. q.failed = FALSE /\ q.need = w
    BY <2>2 DEF Ready
  <2>4. p \in ParseStates /\ p.need = ""
    BY <2>1, ReadyType DEF Ready
  <2>5. \A x \in ParseStates : x.need = "" => [[x EXCEPT !.need = w] EXCEPT !.need = ""] = x
    BY DEF ParseStates
  <2>6. q = [p EXCEPT !.need = w]
    BY <2>1, <2>2
  <2>7. [q EXCEPT !.need = ""] = p
    BY <2>4, <2>5, <2>6
  <2> QED
    BY <2>3, <2>7
<1> HIDE DEF q, p, w
<1>4. ParseArg(q, v) = Take(q, w, v)
  BY <1>1, <1>3 DEF ParseArg
<1>5. Specs(p, w, v) = {r}
  BY DEF p, w, Yields
<1>6. Take(q, w, v) = r
  BY <1>3, <1>5 DEF Take
<1> QED
  BY <1>2, <1>4, <1>6 DEF p

\* The same two, as words of a command.
LEMMA PairRead ==
  ASSUME NEW ws \in Seq(CommandWord), NEW s \in Parsed, NEW m \in BOOLEAN, Parse[ws] = Ready(s, m),
         NEW o \in OptionNames, Meaning(o) \in Wanted, NEW v \in Text, NEW r,
         Yields(s, m, o, v, r)
  PROVE  Parse[ws \o <<Plain(o), Value(v)>>] = r
<1>1. o \in Atoms
  BY DEF Atoms
<1>2. o # "--"
  <2>1. Meaning("--") = "unknown"
    BY DEF Meaning
  <2> QED
    BY <2>1 DEF Wanted, Kinds
<1>3. Plain(o) \in CommandWord /\ Value(v) \in CommandWord /\ Plain(o).atoms = <<o>> /\ Value(v).atoms = v
  BY WordTypes DEF Plain, Value
<1>4. Parse[ws \o <<Plain(o), Value(v)>>] = ParseArg(ParseArg(Ready(s, m), <<o>>), v)
  BY <1>3, ParseSteps
<1> QED
  BY <1>1, <1>2, <1>4, ValueRead

\* The last of several elements, each written as some words.
LEMMA FlattenNext ==
  ASSUME NEW X, NEW Y, NEW f \in [X -> Seq(Y)], NEW s \in Seq(X), NEW x \in X
  PROVE  FlattenSeq(Images(f, Append(s, x))) = FlattenSeq(Images(f, s)) \o f[x]
BY FlattenMap, ZenonT(60)

\* Behind the words f[y] of one more element the state is the one R has for it.
Carries(R, f, Y) ==
  \A u \in Seq(CommandWord), t \in Seq(Y), y \in Y : Parse[u] = R[t] => Parse[u \o f[y]] = R[Append(t, y)]

\* Several elements, each written as some words.
LEMMA AllRead ==
  ASSUME NEW Y, NEW f \in [Y -> Seq(CommandWord)], NEW R, NEW ws \in Seq(CommandWord), Parse[ws] = R[<<>>], Carries(R, f, Y)
  PROVE  \A t \in Seq(Y) : Parse[ws \o FlattenSeq(Images(f, t))] = R[t]
<1> DEFINE W == CommandWord
           F(t) == FlattenSeq(Images(f, t))
           T == {t \in Seq(Y) : Parse[ws \o F(t)] = R[t]}
<1>1. /\ F(<<>>) = <<>>
      /\ \A t \in Seq(Y) : F(t) \in Seq(W)
      /\ \A t \in Seq(Y), y \in Y : F(Append(t, y)) = F(t) \o f[y]
  <2>1. f \in [Y -> Seq(W)]
    OBVIOUS
  <2> HIDE DEF W, F
  <2>2. FlattenSeq(Images(f, <<>>)) = <<>>
    BY <2>1, FlattenMap
  <2>3. ASSUME NEW t \in Seq(Y)
        PROVE  FlattenSeq(Images(f, t)) \in Seq(W)
    BY <2>1, FlattenMap
  <2>4. ASSUME NEW t \in Seq(Y), NEW y \in Y
        PROVE  FlattenSeq(Images(f, Append(t, y))) = FlattenSeq(Images(f, t)) \o f[y]
    BY <2>1, FlattenNext
  <2> QED
    BY <2>2, <2>3, <2>4 DEF F
<1> HIDE DEF F
<1>2. <<>> \in T
  <2>1. ws \o <<>> = ws /\ <<>> \in Seq(Y)
    BY ConcatEmptySeq, EmptySeq
  <2> QED
    BY <1>1, <2>1
<1>3. ASSUME NEW t \in Seq(Y), NEW y \in Y, t \in T
      PROVE  Append(t, y) \in T
  <2>1. F(t) \in Seq(W) /\ f[y] \in Seq(W) /\ Append(t, y) \in Seq(Y)
    BY <1>1, AppendProperties
  <2>2. ws \o F(t) \in Seq(W) /\ ws \o (F(t) \o f[y]) = (ws \o F(t)) \o f[y]
    <3>1. ws \in Seq(W)
      OBVIOUS
    <3> HIDE DEF W
    <3> QED
      BY <2>1, <3>1, ConcatProperties, ConcatAssociative
  <2>3. Parse[(ws \o F(t)) \o f[y]] = R[Append(t, y)]
    BY <1>3, <2>2 DEF Carries
  <2> QED
    BY <1>1, <2>1, <2>2, <2>3
<1>4. \A t \in Seq(Y) : t \in T
  <2> HIDE DEF T
  <2> QED
    BY <1>2, <1>3, SeqInduction
<1> QED
  BY <1>4 DEF F

\* The state between two options is known by its parts.
LEMMA ReadyIs ==
  ASSUME NEW p \in ParseStates, p.options = TRUE, p.json = FALSE, p.need = "", p.failed = FALSE
  PROVE  p = Ready(p.spec, p.methodSet)
<1>1. p = [spec |-> p.spec, methodSet |-> p.methodSet, options |-> p.options, json |-> p.json, need |-> p.need,
           failed |-> p.failed]
  BY DEF ParseStates
<1> QED
  BY <1>1 DEF Ready

\* A request that is read further is read as before.
LEMMA ReadyParts ==
  ASSUME NEW s \in Parsed, NEW m \in BOOLEAN, NEW t \in Parsed
  PROVE  /\ Ready(s, m).spec = s /\ Ready(s, m).methodSet = m
         /\ [Ready(s, m) EXCEPT !.spec = t] = Ready(t, m)
<1> DEFINE p == Ready(s, m)
           q == [p EXCEPT !.spec = t]
<1>1. p \in ParseStates /\ p.spec = s /\ p.methodSet = m /\ p.options = TRUE /\ p.json = FALSE /\ p.need = "" /\ p.failed = FALSE
  BY ReadyType DEF Ready
<1> HIDE DEF p
<1>2. q \in ParseStates
  BY <1>1, ParsingParts
<1>3. q.spec = t /\ q.methodSet = m /\ q.options = TRUE /\ q.json = FALSE /\ q.need = "" /\ q.failed = FALSE
  BY <1>1 DEF ParseStates
<1> HIDE DEF q
<1>4. q = Ready(q.spec, q.methodSet)
  BY <1>2, <1>3, ReadyIs
<1> QED
  BY <1>1, <1>3, <1>4 DEF p, q

LEMMA ReadyMethod ==
  ASSUME NEW s \in Parsed, NEW m \in BOOLEAN
  PROVE  [Ready(s, m) EXCEPT !.methodSet = TRUE] = Ready(s, TRUE)
<1> DEFINE p == Ready(s, m)
           q == [p EXCEPT !.methodSet = TRUE]
<1>1. p \in ParseStates /\ p.spec = s /\ p.options = TRUE /\ p.json = FALSE /\ p.need = "" /\ p.failed = FALSE
  BY ReadyType DEF Ready
<1> HIDE DEF p
<1>2. q \in ParseStates
  BY <1>1, ParsingParts
<1>3. q.spec = s /\ q.methodSet = TRUE /\ q.options = TRUE /\ q.json = FALSE /\ q.need = "" /\ q.failed = FALSE
  BY <1>1 DEF ParseStates
<1> HIDE DEF q
<1>4. q = Ready(q.spec, q.methodSet)
  BY <1>2, <1>3, ReadyIs
<1> QED
  BY <1>3, <1>4 DEF p, q

\* What a body makes of the method.
Implied(m, s) == IF m THEN s ELSE [s EXCEPT !.method = <<"POST">>]

LEMMA ImpliedType ==
  ASSUME NEW s \in Parsed, NEW m \in BOOLEAN, NEW t \in Parsed
  PROVE  Implied(m, t) \in Parsed /\ WithBody(Ready(s, m), t) = Ready(Implied(m, t), m)
<1>1. <<"POST">> \in Text
  <2>1. "POST" \in Atoms
    BY DEF Atoms
  <2> QED
    BY <2>1, Short DEF Text
<1>2. Implied(m, t) \in Parsed
  BY <1>1, ParsedParts DEF Implied
<1>3. WithBody(Ready(s, m), t) = [Ready(s, m) EXCEPT !.spec = Implied(m, t)]
  BY ReadyParts DEF WithBody, Implied
<1> QED
  BY <1>2, <1>3, ReadyParts

\* The words of one option and its value.
LEMMA EachShort ==
  ASSUME NEW o \in OptionNames
  PROVE  /\ Each(o, <<>>) = <<>>
         /\ \A v \in Text : Each(o, <<v>>) = <<Plain(o), Value(v)>>
<1> DEFINE f == [v \in Text |-> <<Plain(o), Value(v)>>]
           W == CommandWord
           T == Text
<1>1. f \in [T -> Seq(W)]
  BY PairType
<1>2. \A v \in T : f[v] = <<Plain(o), Value(v)>>
  OBVIOUS
<1>3. Each(o, <<>>) = FlattenSeq(Images(f, <<>>))
  BY DEF Each, Images
<1>4. \A v \in T : Each(o, <<v>>) = FlattenSeq(Images(f, <<v>>))
  BY DEF Each, Images
<1>5. \A v \in T : <<v>> = Append(<<>>, v) /\ <<>> \in Seq(T)
  BY EmptySeq, Short
<1> HIDE DEF f, W, T
<1>6. FlattenSeq(Images(f, <<>>)) = <<>>
  BY <1>1, FlattenMap
<1>7. ASSUME NEW v \in T
      PROVE  FlattenSeq(Images(f, <<v>>)) = f[v]
  <2>1. FlattenSeq(Images(f, Append(<<>>, v))) = FlattenSeq(Images(f, <<>>)) \o f[v]
    BY <1>1, <1>5, FlattenNext
  <2>2. f[v] \in Seq(W)
    BY <1>1
  <2>3. <<>> \o f[v] = f[v]
    BY <2>2, ConcatEmptySeq
  <2> QED
    BY <1>5, <1>6, <2>1, <2>3
<1> QED
  BY <1>2, <1>3, <1>4, <1>6, <1>7 DEF T

\* An option that is written unless its value is empty.
LEMMA SomeRead ==
  ASSUME NEW ws \in Seq(CommandWord), NEW s \in Parsed, NEW m \in BOOLEAN, Parse[ws] = Ready(s, m),
         NEW o \in OptionNames, Meaning(o) \in Wanted, NEW v \in Text, NEW r,
         v # <<>> => Yields(s, m, o, v, r),
         v = <<>> => r = Ready(s, m)
  PROVE  Parse[ws \o Some(o, v)] = r
<1>1. CASE v = <<>>
  <2>1. Some(o, v) = <<>>
    BY <1>1, EachShort DEF Some
  <2>2. ws \o <<>> = ws
    <3> DEFINE W == CommandWord
    <3>1. ws \in Seq(W)
      OBVIOUS
    <3> HIDE DEF W
    <3> QED
      BY <3>1, ConcatEmptySeq
  <2> QED
    BY <1>1, <2>1, <2>2
<1>2. CASE v # <<>>
  <2>1. Some(o, v) = <<Plain(o), Value(v)>>
    BY <1>2, EachShort DEF Some
  <2>2. Yields(s, m, o, v, r)
    BY <1>2
  <2>3. Parse[ws \o <<Plain(o), Value(v)>>] = r
    BY <2>2, PairRead
  <2> QED
    BY <2>1, <2>3
<1> QED
  BY <1>1, <1>2

-----------------------------------------------------------------------------
(* The options that are written once                                         *)

\* A method is taken for one that was given; a blank one is not written.
Given(s, m, v, r, given) ==
  /\ v = <<>>  => r = s /\ given = m
  /\ v # <<>> => r = [s EXCEPT !.method = v] /\ given = TRUE

LEMMA MethodRead ==
  ASSUME NEW ws \in Seq(CommandWord), NEW s \in Parsed, NEW m \in BOOLEAN, Parse[ws] = Ready(s, m), NEW v \in Text,
         NEW g, NEW given \in BOOLEAN, Given(s, m, v, g, given)
  PROVE  Parse[ws \o Some("-X", v)] = Ready(g, given)
<1> DEFINE p == Ready(s, m)
           t == [s EXCEPT !.method = v]
           r == IF v = <<>> THEN p ELSE Ready(t, TRUE)
<1>1. Meaning("-X") = "method" /\ "-X" \in OptionNames /\ "method" \in Wanted
  BY DEF Meaning, OptionNames, Wanted
<1>2. t \in Parsed
  BY ParsedParts
<1>3. [p EXCEPT !.spec.method = v, !.methodSet = TRUE] = Ready(t, TRUE)
  <2>1. p.spec = s
    BY ReadyParts
  <2> HIDE DEF p
  <2>2. [p EXCEPT !.spec.method = v, !.methodSet = TRUE] = [[p EXCEPT !.spec = t] EXCEPT !.methodSet = TRUE]
    BY <2>1
  <2> HIDE DEF t
  <2>3. [p EXCEPT !.spec = t] = Ready(t, m)
    BY <1>2, ReadyParts DEF p
  <2> QED
    BY <1>2, <2>2, <2>3, ReadyMethod
<1>4. Specs(p, "method", v) = {Ready(t, TRUE)}
  BY <1>3 DEF Specs
<1>5. v # <<>> => Yields(s, m, "-X", v, r)
  BY <1>1, <1>4 DEF Yields
<1>6. v = <<>> => r = p
  OBVIOUS
<1> HIDE DEF r
<1>7. Parse[ws \o Some("-X", v)] = r
  BY <1>1, <1>5, <1>6, SomeRead
<1>8. CASE v = <<>>
  <2>1. g = s /\ given = m
    BY <1>8 DEF Given
  <2> QED
    BY <1>7, <1>8, <2>1 DEF r
<1>9. CASE v # <<>>
  <2>1. g = t /\ given = TRUE
    BY <1>9 DEF Given
  <2> QED
    BY <1>7, <1>9, <2>1 DEF r
<1> QED
  BY <1>8, <1>9

LEMMA AgentRead ==
  ASSUME NEW ws \in Seq(CommandWord), NEW s \in Parsed, NEW m \in BOOLEAN, Parse[ws] = Ready(s, m), NEW v \in Text,
         s.agent = <<>>
  PROVE  Parse[ws \o Some("--user-agent", v)] = Ready([s EXCEPT !.agent = v], m)
<1> DEFINE p == Ready(s, m)
           t == [s EXCEPT !.agent = v]
           r == Ready(t, m)
<1>1. Meaning("--user-agent") = "agent" /\ "--user-agent" \in OptionNames /\ "agent" \in Wanted
  BY DEF Meaning, OptionNames, Wanted
<1>2. t \in Parsed
  BY ParsedParts
<1>3. [p EXCEPT !.spec.agent = v] = r
  <2>1. p.spec = s
    BY ReadyParts
  <2> HIDE DEF p
  <2>2. [p EXCEPT !.spec.agent = v] = [p EXCEPT !.spec = t]
    BY <2>1
  <2> QED
    BY <1>2, <2>2, ReadyParts DEF p
<1>4. Specs(p, "agent", v) = {r}
  BY <1>3 DEF Specs
<1>5. v # <<>> => Yields(s, m, "--user-agent", v, r)
  BY <1>1, <1>4 DEF Yields
<1>6. v = <<>> => r = p
  <2>1. v = <<>> => t = s
    BY DEF Parsed
  <2> HIDE DEF t
  <2> QED
    BY <2>1
<1> HIDE DEF r
<1>7. Parse[ws \o Some("--user-agent", v)] = r
  BY <1>1, <1>5, <1>6, SomeRead
<1> QED
  BY <1>7 DEF r

\* A time is read as it was written.
LEMMA DurationRead ==
  ASSUME NEW t \in Times, t # 0
  PROVE  curlDuration(t) \in Text /\ curlDuration(t) # <<>> /\ curlSeconds(curlDuration(t)) = {t}
<1>1. \E d \in DOMAIN Seconds : Seconds[d] = t
  BY DEF Times
<1> DEFINE c == CHOOSE d \in DOMAIN Seconds : Seconds[d] = t
<1>2. c \in DOMAIN Seconds /\ Seconds[c] = t
  BY <1>1
<1>3. c \in Atoms
  BY <1>2 DEF Atoms
<1>4. curlDuration(t) = <<c>>
  BY DEF curlDuration
<1> HIDE DEF c
<1>5. <<c>> \in Text /\ <<c>> # <<>>
  BY <1>3, Short DEF Text
<1>6. curlSeconds(<<c>>) = {t}
  <2>1. \A n : <<c>> = <<n>> <=> n = c
    OBVIOUS
  <2>2. curlSeconds(<<c>>) = {Seconds[n] : n \in {x \in DOMAIN Seconds : <<c>> = <<x>>}}
    BY DEF curlSeconds
  <2>3. {x \in DOMAIN Seconds : <<c>> = <<x>>} = {c}
    BY <1>2, <2>1
  <2>4. {Seconds[n] : n \in {c}} = {Seconds[c]}
    OBVIOUS
  <2> QED
    BY <1>2, <2>2, <2>3, <2>4
<1> QED
  BY <1>4, <1>5, <1>6

LEMMA ConnectRead ==
  ASSUME NEW ws \in Seq(CommandWord), NEW s \in Parsed, NEW m \in BOOLEAN, Parse[ws] = Ready(s, m), NEW x \in Times,
         s.connect = 0
  PROVE  Parse[ws \o Time("--connect-timeout", x)] = Ready([s EXCEPT !.connect = x], m)
<1> DEFINE p == Ready(s, m)
           t == [s EXCEPT !.connect = x]
           r == Ready(t, m)
           v == curlDuration(x)
<1>1. Meaning("--connect-timeout") = "connect" /\ "--connect-timeout" \in OptionNames /\ "connect" \in Wanted
  BY DEF Meaning, OptionNames, Wanted
<1>2. t \in Parsed
  BY ParsedParts
<1>3. [p EXCEPT !.spec.connect = x] = r
  <2>1. p.spec = s
    BY ReadyParts
  <2> HIDE DEF p
  <2>2. [p EXCEPT !.spec.connect = x] = [p EXCEPT !.spec = t]
    BY <2>1
  <2> QED
    BY <1>2, <2>2, ReadyParts DEF p
<1>4. CASE x = 0
  <2>1. t = s
    BY <1>4 DEF Parsed
  <2>2. ws \o <<>> = ws
    <3> DEFINE W == CommandWord
    <3>1. ws \in Seq(W)
      OBVIOUS
    <3> HIDE DEF W
    <3> QED
      BY <3>1, ConcatEmptySeq
  <2> QED
    BY <1>4, <2>1, <2>2 DEF Time
<1>5. CASE x # 0
  <2>1. v \in Text /\ v # <<>> /\ curlSeconds(v) = {x}
    BY <1>5, DurationRead
  <2> HIDE DEF v
  <2>2. Specs(p, "connect", v) = {r}
    <3>1. Specs(p, "connect", v) = {[p EXCEPT !.spec.connect = y] : y \in curlSeconds(v)}
      BY DEF Specs
    <3> QED
      BY <1>3, <2>1, <3>1
  <2>3. Yields(s, m, "--connect-timeout", v, r)
    BY <1>1, <2>2 DEF Yields
  <2> HIDE DEF r
  <2>4. Parse[ws \o Some("--connect-timeout", v)] = r
    BY <1>1, <2>1, <2>3, SomeRead
  <2> QED
    BY <1>5, <2>4 DEF Time, v, r
<1> QED
  BY <1>4, <1>5

LEMMA MaxRead ==
  ASSUME NEW ws \in Seq(CommandWord), NEW s \in Parsed, NEW m \in BOOLEAN, Parse[ws] = Ready(s, m), NEW x \in Times,
         s.max = 0
  PROVE  Parse[ws \o Time("--max-time", x)] = Ready([s EXCEPT !.max = x], m)
<1> DEFINE p == Ready(s, m)
           t == [s EXCEPT !.max = x]
           r == Ready(t, m)
           v == curlDuration(x)
<1>1. Meaning("--max-time") = "max" /\ "--max-time" \in OptionNames /\ "max" \in Wanted
  BY DEF Meaning, OptionNames, Wanted
<1>2. t \in Parsed
  BY ParsedParts
<1>3. [p EXCEPT !.spec.max = x] = r
  <2>1. p.spec = s
    BY ReadyParts
  <2> HIDE DEF p
  <2>2. [p EXCEPT !.spec.max = x] = [p EXCEPT !.spec = t]
    BY <2>1
  <2> QED
    BY <1>2, <2>2, ReadyParts DEF p
<1>4. CASE x = 0
  <2>1. t = s
    BY <1>4 DEF Parsed
  <2>2. ws \o <<>> = ws
    <3> DEFINE W == CommandWord
    <3>1. ws \in Seq(W)
      OBVIOUS
    <3> HIDE DEF W
    <3> QED
      BY <3>1, ConcatEmptySeq
  <2> QED
    BY <1>4, <2>1, <2>2 DEF Time
<1>5. CASE x # 0
  <2>1. v \in Text /\ v # <<>> /\ curlSeconds(v) = {x}
    BY <1>5, DurationRead
  <2> HIDE DEF v
  <2>2. Specs(p, "max", v) = {r}
    <3>1. Specs(p, "max", v) = {[p EXCEPT !.spec.max = y] : y \in curlSeconds(v)}
      BY DEF Specs
    <3> QED
      BY <1>3, <2>1, <3>1
  <2>3. Yields(s, m, "--max-time", v, r)
    BY <1>1, <2>2 DEF Yields
  <2> HIDE DEF r
  <2>4. Parse[ws \o Some("--max-time", v)] = r
    BY <1>1, <2>1, <2>3, SomeRead
  <2> QED
    BY <1>5, <2>4 DEF Time, v, r
<1> QED
  BY <1>4, <1>5

\* Nothing more to read.
LEMMA NothingRead ==
  ASSUME NEW ws \in Seq(CommandWord)
  PROVE  ws \o <<>> = ws
<1> DEFINE W == CommandWord
<1>1. ws \in Seq(W)
  OBVIOUS
<1> HIDE DEF W
<1> QED
  BY <1>1, ConcatEmptySeq

LEMMA UserRead ==
  ASSUME NEW ws \in Seq(CommandWord), NEW s \in Parsed, NEW m \in BOOLEAN, Parse[ws] = Ready(s, m), NEW a \in User,
         s.auth = <<>>
  PROVE  Parse[ws \o (IF a = <<>> THEN <<>> ELSE Some("--user", a[1] \o <<":">> \o a[2]))] =
           Ready([s EXCEPT !.auth = a], m)
<1> DEFINE p == Ready(s, m)
           t == [s EXCEPT !.auth = a]
           r == Ready(t, m)
           v == a[1] \o <<":">> \o a[2]
<1>1. Meaning("--user") = "user" /\ "--user" \in OptionNames /\ "user" \in Wanted
  BY DEF Meaning, OptionNames, Wanted
<1>2. t \in Parsed
  BY ParsedParts
<1>3. CASE a = <<>>
  <2>1. t = s
    BY <1>3 DEF Parsed
  <2>2. Ready(s, m) = r
    <3> HIDE DEF t
    <3> QED
      BY <2>1
  <2> HIDE DEF r
  <2>3. Parse[ws \o <<>>] = r
    BY <2>2, NothingRead
  <2> QED
    BY <1>3, <2>3 DEF r
<1>4. CASE a # <<>>
  <2>1. a[1] \in Text /\ a[2] \in Text /\ a = <<a[1], a[2]>> /\ \A i \in DOMAIN a[1] : a[1][i] # ":"
    BY <1>4 DEF User
  <2>2. PICK x \in Text, y \in Text : x = a[1] /\ y = a[2]
    BY <2>1
  <2>3. ":" \in Atoms /\ \A i \in DOMAIN x : x[i] # ":"
    BY <2>1, <2>2 DEF Atoms
  <2>4. Cut(x \o <<":">> \o y, ":") = [found |-> TRUE, before |-> x, after |-> y]
    BY <2>3, CutAt DEF Text
  <2>5. v = x \o <<":">> \o y /\ v \in Text
    <3>1. <<":">> \in Text
      BY <2>3, Short DEF Text
    <3> QED
      BY <2>2, <3>1, ConcatProperties DEF Text
  <2> HIDE DEF v
  <2>6. Specs(p, "user", v) = {[p EXCEPT !.spec.auth = <<x, y>>]}
    <3>1. Specs(p, "user", v) = {[p EXCEPT !.spec.auth = <<c.before, c.after>>] : c \in {Cut(v, ":")}}
      BY DEF Specs
    <3>2. PICK k : k = [found |-> TRUE, before |-> x, after |-> y]
      OBVIOUS
    <3>3. Cut(v, ":") = k /\ k.before = x /\ k.after = y
      BY <2>4, <2>5, <3>2
    <3> HIDE DEF p
    <3> QED
      BY <3>1, <3>3
  <2>7. [p EXCEPT !.spec.auth = <<x, y>>] = r
    <3>1. p.spec = s
      BY ReadyParts
    <3> HIDE DEF p
    <3>2. <<x, y>> = a
      BY <2>1, <2>2
    <3> HIDE DEF r, t
    <3>3. [p EXCEPT !.spec.auth = a] = [p EXCEPT !.spec = t]
      BY <3>1 DEF t
    <3> QED
      BY <1>2, <3>2, <3>3, ReadyParts DEF p, r
  <2>8. Yields(s, m, "--user", v, r)
    BY <1>1, <2>6, <2>7 DEF Yields
  <2> HIDE DEF r
  <2>9. v # <<>>
    <3>1. <<x, y>> = a
      BY <2>1, <2>2
    <3>2. Len(x \o <<":">>) = Len(x) + 1 /\ x \o <<":">> \in Seq(Atoms) /\ Len(x) \in Nat /\ Len(y) \in Nat
      BY <2>3, AppendIsConcat, AppendProperties, LenProperties DEF Text
    <3>3. Len(v) = Len(x) + 1 + Len(y)
      BY <2>5, <3>2, ConcatProperties DEF Text
    <3>4. Len(v) # 0
      BY <3>2, <3>3
    <3> QED
      BY <3>4
  <2>10. v # <<>> => Yields(s, m, "--user", v, r)
    BY <2>8
  <2>11. v = <<>> => r = Ready(s, m)
    BY <2>9
  <2>12. v \in Text
    BY <2>5
  <2>13. Parse[ws \o Some("--user", v)] = r
    BY <1>1, <2>10, <2>11, <2>12, SomeRead
  <2> QED
    BY <1>4, <2>13 DEF v, r
<1> QED
  BY <1>3, <1>4

\* A flag alone.
LEMMA FlagRead ==
  ASSUME NEW ws \in Seq(CommandWord), NEW s \in Parsed, NEW m \in BOOLEAN, Parse[ws] = Ready(s, m),
         NEW o \in OptionNames, Meaning(o) \in Flags
  PROVE  Parse[ws \o <<Plain(o)>>] = Flag(Ready(s, m), Meaning(o))
<1>1. o \in Atoms
  BY DEF Atoms
<1>2. o # "--" /\ Meaning(o) # "unknown"
  <2>1. Meaning("--") = "unknown"
    BY DEF Meaning
  <2> QED
    BY <2>1 DEF Flags
<1>3. Plain(o) \in CommandWord /\ Plain(o).atoms = <<o>>
  BY WordTypes DEF Plain
<1>4. Parse[ws \o <<Plain(o)>>] = ParseArg(Parse[ws], Plain(o).atoms)
  BY <1>3, ParseSteps
<1>5. ParseArg(Ready(s, m), <<o>>) = Flag(Ready(s, m), Meaning(o))
  BY <1>1, <1>2, OptionRead
<1> QED
  BY <1>3, <1>4, <1>5

LEMMA InsecureRead ==
  ASSUME NEW ws \in Seq(CommandWord), NEW s \in Parsed, NEW m \in BOOLEAN, Parse[ws] = Ready(s, m), NEW b \in BOOLEAN,
         s.insecure = FALSE
  PROVE  Parse[ws \o Switch("--insecure", b)] = Ready([s EXCEPT !.insecure = b], m)
<1> DEFINE p == Ready(s, m)
           t == [s EXCEPT !.insecure = TRUE]
<1>1. Meaning("--insecure") = "insecure" /\ "--insecure" \in OptionNames /\ "insecure" \in Flags
  BY DEF Meaning, OptionNames, Flags
<1>2. t \in Parsed
  BY ParsedParts
<1>3. CASE b = FALSE
  <2>1. [s EXCEPT !.insecure = FALSE] = s
    BY DEF Parsed
  <2>2. Switch("--insecure", b) = <<>>
    BY <1>3 DEF Switch
  <2>3. [s EXCEPT !.insecure = b] = s
    BY <1>3, <2>1
  <2> QED
    BY <2>2, <2>3, NothingRead
<1>4. CASE b = TRUE
  <2>1. Switch("--insecure", b) = <<Plain("--insecure")>>
    BY <1>4 DEF Switch
  <2>2. Flag(p, "insecure") = [p EXCEPT !.spec.insecure = TRUE]
    BY DEF Flag
  <2>3. [p EXCEPT !.spec.insecure = TRUE] = Ready(t, m)
    <3>1. p.spec = s
      BY ReadyParts
    <3> HIDE DEF p
    <3>2. [p EXCEPT !.spec.insecure = TRUE] = [p EXCEPT !.spec = t]
      BY <3>1
    <3> HIDE DEF t
    <3> QED
      BY <1>2, <3>2, ReadyParts DEF p
  <2>4. Parse[ws \o <<Plain("--insecure")>>] = Flag(p, Meaning("--insecure"))
    BY <1>1, FlagRead
  <2>5. [s EXCEPT !.insecure = b] = t
    BY <1>4
  <2> HIDE DEF p, t
  <2> QED
    BY <1>1, <2>1, <2>2, <2>3, <2>4, <2>5
<1> QED
  BY <1>3, <1>4

LEMMA FollowRead ==
  ASSUME NEW ws \in Seq(CommandWord), NEW s \in Parsed, NEW m \in BOOLEAN, Parse[ws] = Ready(s, m), NEW b \in BOOLEAN,
         s.follow = FALSE
  PROVE  Parse[ws \o Switch("--location", b)] = Ready([s EXCEPT !.follow = b], m)
<1> DEFINE p == Ready(s, m)
           t == [s EXCEPT !.follow = TRUE]
<1>1. Meaning("--location") = "follow" /\ "--location" \in OptionNames /\ "follow" \in Flags
  BY DEF Meaning, OptionNames, Flags
<1>2. t \in Parsed
  BY ParsedParts
<1>3. CASE b = FALSE
  <2>1. [s EXCEPT !.follow = FALSE] = s
    BY DEF Parsed
  <2>2. Switch("--location", b) = <<>>
    BY <1>3 DEF Switch
  <2>3. [s EXCEPT !.follow = b] = s
    BY <1>3, <2>1
  <2> QED
    BY <2>2, <2>3, NothingRead
<1>4. CASE b = TRUE
  <2>1. Switch("--location", b) = <<Plain("--location")>>
    BY <1>4 DEF Switch
  <2>2. Flag(p, "follow") = [p EXCEPT !.spec.follow = TRUE]
    BY DEF Flag
  <2>3. [p EXCEPT !.spec.follow = TRUE] = Ready(t, m)
    <3>1. p.spec = s
      BY ReadyParts
    <3> HIDE DEF p
    <3>2. [p EXCEPT !.spec.follow = TRUE] = [p EXCEPT !.spec = t]
      BY <3>1
    <3> HIDE DEF t
    <3> QED
      BY <1>2, <3>2, ReadyParts DEF p
  <2>4. Parse[ws \o <<Plain("--location")>>] = Flag(p, Meaning("--location"))
    BY <1>1, FlagRead
  <2>5. [s EXCEPT !.follow = b] = t
    BY <1>4
  <2> HIDE DEF p, t
  <2> QED
    BY <1>1, <2>1, <2>2, <2>3, <2>4, <2>5
<1> QED
  BY <1>3, <1>4

\* The URL, behind -- if it has the look of an option, ends the command.
Addressed(ws, u, q) == q = Parse[ws \o Switch("--", IsOption(u)) \o <<Value(u)>>]

\* The command is at its end.
Ended(s, u, q) == q.spec = [s EXCEPT !.url = u] /\ q.failed = FALSE /\ q.need = "" /\ q.json = FALSE

LEMMA UrlRead ==
  ASSUME NEW ws \in Seq(CommandWord), NEW s \in Parsed, NEW m \in BOOLEAN, Parse[ws] = Ready(s, m), NEW u \in Text,
         u # <<>>, s.url = <<>>, NEW q, Addressed(ws, u, q)
  PROVE  Ended(s, u, q)
<1> DEFINE p == Ready(s, m)
           x == [p EXCEPT !.options = FALSE]
           t == [s EXCEPT !.url = u]
<1>0. "--" \in OptionNames
  BY DEF OptionNames
<1>1. /\ Plain("--") \in CommandWord /\ Value(u) \in CommandWord
      /\ Plain("--").atoms = <<"--">> /\ Value(u).atoms = u
  BY <1>0, WordTypes DEF Plain, Value
<1>2. /\ p \in ParseStates /\ p.spec = s /\ p.options = TRUE /\ p.json = FALSE /\ p.need = "" /\ p.failed = FALSE
  BY ReadyType DEF Ready
<1>p. Parse[ws] = p
  OBVIOUS
<1>q. q = Parse[ws \o Switch("--", IsOption(u)) \o <<Value(u)>>]
  BY DEF Addressed
<1> HIDE DEF p
<1>3. /\ x \in ParseStates /\ x.spec = s /\ x.options = FALSE /\ x.json = FALSE /\ x.need = "" /\ x.failed = FALSE
  BY <1>2 DEF ParseStates
<1> HIDE DEF x
<1>4. ASSUME NEW y \in ParseStates, y.spec = s, y.json = FALSE, y.need = "", y.failed = FALSE,
             y.options = FALSE \/ ~IsOption(u)
      PROVE  /\ ParseArg(y, u).spec = [s EXCEPT !.url = u] /\ ParseArg(y, u).failed = FALSE
             /\ ParseArg(y, u).need = "" /\ ParseArg(y, u).json = FALSE
  <2>1. IsOption(<<"--">>)
    BY DEF IsOption
  <2>2. ParseArg(y, u) = [y EXCEPT !.spec.url = u]
    <3>1. ~(y.options /\ u = <<"--">>) /\ ~(y.options /\ IsOption(u)) /\ ~(y.spec.url # <<>>)
      BY <1>4, <2>1
    <3> QED
      BY <1>4, <3>1 DEF ParseArg
  <2>3. [y EXCEPT !.spec.url = u] = [y EXCEPT !.spec = t]
    BY <1>4
  <2>4. [y EXCEPT !.spec = t].spec = t /\ [y EXCEPT !.spec = t].failed = y.failed
        /\ [y EXCEPT !.spec = t].need = y.need /\ [y EXCEPT !.spec = t].json = y.json
    <3> HIDE DEF t
    <3> QED
      BY DEF ParseStates
  <2> HIDE DEF t
  <2> QED
    BY <1>4, <2>2, <2>3, <2>4 DEF t
<1>5. CASE IsOption(u)
  <2>1. Switch("--", IsOption(u)) = <<Plain("--")>>
    BY <1>5 DEF Switch
  <2>2. ParseArg(p, <<"--">>) = x
    BY <1>2 DEF ParseArg, x
  <2> DEFINE w == Plain("--")
             v == Value(u)
             W == CommandWord
  <2>3. w \in W /\ v \in W /\ ws \in Seq(W) /\ w.atoms = <<"--">> /\ v.atoms = u
    BY <1>1
  <2> HIDE DEF w, v, W
  <2>4. (ws \o <<w>>) \o <<v>> = ws \o <<w, v>>
    <3>1. <<w>> \in Seq(W) /\ <<v>> \in Seq(W) /\ <<w>> \o <<v>> = <<w, v>>
      BY <2>3, Short, AppendIsConcat
    <3>2. (ws \o <<w>>) \o <<v>> = ws \o (<<w>> \o <<v>>)
      BY <2>3, <3>1, ConcatAssociative
    <3> QED
      BY <3>1, <3>2
  <2>5. Parse[ws \o <<w, v>>] = ParseArg(ParseArg(Parse[ws], w.atoms), v.atoms)
    BY <2>3, ParseSteps DEF W
  <2>6. q = ParseArg(x, u)
    BY <1>p, <1>q, <2>1, <2>2, <2>3, <2>4, <2>5 DEF w, v
  <2> QED
    BY <1>3, <1>4, <2>6 DEF Ended
<1>6. CASE ~IsOption(u)
  <2>1. Switch("--", IsOption(u)) = <<>>
    BY <1>6 DEF Switch
  <2>2. ws \o <<>> = ws
    BY NothingRead
  <2>3. Parse[ws \o <<Value(u)>>] = ParseArg(Parse[ws], Value(u).atoms)
    BY <1>1, ParseSteps
  <2>4. q = ParseArg(p, u)
    BY <1>1, <1>p, <1>q, <2>1, <2>2, <2>3
  <2> QED
    BY <1>2, <1>4, <1>6, <2>4 DEF Ended
<1> QED
  BY <1>5, <1>6

-----------------------------------------------------------------------------
(* The options that are written several times                                *)

LEMMA CookiesRead ==
  ASSUME NEW ws \in Seq(CommandWord), NEW s \in Parsed, NEW m \in BOOLEAN, Parse[ws] = Ready(s, m),
         NEW cs \in Seq(Cookie), s.cookies = <<>>
  PROVE  Parse[ws \o Each("--cookie", cs)] = Ready([s EXCEPT !.cookies = cs], m)
<1> DEFINE Y == Cookie
           f == [v \in Y |-> <<Plain("--cookie"), Value(v)>>]
           S(t) == [s EXCEPT !.cookies = t]
           R == [t \in Seq(Y) |-> Ready(S(t), m)]
<1>1. Meaning("--cookie") = "cookie" /\ "--cookie" \in OptionNames /\ "cookie" \in Wanted
  BY DEF Meaning, OptionNames, Wanted
<1>2. \A v \in Y : v \in Text /\ "=" \in ToSet(v)
  BY DEF Cookie
<1>3. \A v \in Y : <<Plain("--cookie"), Value(v)>> \in Seq(CommandWord)
  BY <1>1, <1>2, PairType
<1>4. f \in [Y -> Seq(CommandWord)] /\ \A v \in Y : f[v] = <<Plain("--cookie"), Value(v)>>
  BY <1>3
<1>5. \A t \in Seq(Y) : S(t) \in Parsed /\ S(t).cookies = t /\ R[t] = Ready(S(t), m)
  <2>1. \A t \in Seq(Y) : S(t) \in Parsed
    BY ParsedParts
  <2>2. \A t : S(t).cookies = t
    BY DEF Parsed
  <2> QED
    BY <2>1, <2>2
<1>6. \A t, u : [S(t) EXCEPT !.cookies = u] = S(u)
  BY DEF Parsed
<1>7. S(<<>>) = s
  BY DEF Parsed
<1>8. Each("--cookie", cs) = FlattenSeq(Images(f, cs))
  <2>1. \A i \in DOMAIN cs : cs[i] \in Y
    <3> HIDE DEF Y
    <3>1. cs \in Seq(Y)
      BY DEF Y
    <3> QED
      BY <3>1
  <2>2. \A i \in DOMAIN cs : <<Plain("--cookie"), Value(cs[i])>> = f[cs[i]]
    BY <1>4, <2>1
  <2>3. [i \in DOMAIN cs |-> <<Plain("--cookie"), Value(cs[i])>>] = [i \in DOMAIN cs |-> f[cs[i]]]
    <3> HIDE DEF f
    <3> QED
      BY <2>2
  <2> HIDE DEF f
  <2> QED
    BY <2>3 DEF Each, Images
<1>9. cs \in Seq(Y) /\ <<>> \in Seq(Y)
  BY EmptySeq
<1> HIDE DEF f, S, R, Y
<1>10. Carries(R, f, Y)
  <2> SUFFICES ASSUME NEW u \in Seq(CommandWord), NEW t \in Seq(Y), NEW y \in Y, Parse[u] = R[t]
               PROVE  Parse[u \o f[y]] = R[Append(t, y)]
    BY DEF Carries
  <2> DEFINE p == Ready(S(t), m)
             a == Append(t, y)
             r == Ready(S(a), m)
  <2>1. a \in Seq(Y)
    BY AppendProperties
  <2>2. [p EXCEPT !.spec.cookies = Append(@, y)] = r
    <3>1. p.spec = S(t) /\ S(t).cookies = t
      BY <1>5, ReadyParts
    <3> HIDE DEF p
    <3>2. [p EXCEPT !.spec.cookies = Append(@, y)] = [p EXCEPT !.spec = S(a)]
      <4>1. [p EXCEPT !.spec.cookies = Append(@, y)] = [p EXCEPT !.spec = [p.spec EXCEPT !.cookies = Append(p.spec.cookies, y)]]
        OBVIOUS
      <4>2. [p.spec EXCEPT !.cookies = Append(p.spec.cookies, y)] = S(a)
        <5>1. [S(t) EXCEPT !.cookies = a] = S(a)
          BY <1>6
        <5> QED
          BY <3>1, <5>1
      <4> QED
        BY <4>1, <4>2
    <3> HIDE DEF a
    <3> QED
      BY <1>5, <2>1, <3>2, ReadyParts DEF p
  <2> HIDE DEF a
  <2>3. Specs(p, "cookie", y) = {r}
    <3>1. Specs(p, "cookie", y) = {[p EXCEPT !.spec.cookies = Append(@, y)] : x \in {"="} \cap ToSet(y)}
      BY DEF Specs
    <3>2. {"="} \cap ToSet(y) = {"="}
      BY <1>2
    <3> DEFINE e == [p EXCEPT !.spec.cookies = Append(@, y)]
    <3>3. Specs(p, "cookie", y) = {e : x \in {"="}}
      BY <3>1, <3>2
    <3> HIDE DEF e
    <3>4. {e : x \in {"="}} = {e}
      OBVIOUS
    <3> QED
      BY <2>2, <3>3, <3>4 DEF e
  <2>4. Yields(S(t), m, "--cookie", y, r)
    BY <1>1, <2>3 DEF Yields
  <2> HIDE DEF r
  <2>5. y \in Text /\ S(t) \in Parsed /\ Parse[u] = Ready(S(t), m)
    BY <1>2, <1>5
  <2>6. Parse[u \o <<Plain("--cookie"), Value(y)>>] = r
    BY <1>1, <2>4, <2>5, PairRead
  <2> QED
    BY <1>4, <1>5, <2>1, <2>6 DEF r, a
<1>11. Parse[ws] = R[<<>>]
  BY <1>5, <1>7, <1>9
<1>12. Parse[ws \o FlattenSeq(Images(f, cs))] = R[cs]
  <2> DEFINE Z == Seq(CommandWord)
  <2>1. f \in [Y -> Z]
    BY <1>4
  <2> QED
    BY <1>9, <1>10, <1>11, <2>1, AllRead, ZenonT(60)
<1> QED
  BY <1>5, <1>8, <1>9, <1>12 DEF S

\* A field of a form is read as it was written.
LEMMA FieldRead ==
  ASSUME NEW f \in FormField
  PROVE  FieldOf(f) \in Text /\ parseCurlForm(FieldOf(f)) = {f}
<1> DEFINE name == f.name
           value == f.value
           file == f.file
           end == IF file # <<>> THEN <<"@">> \o file ELSE value
<1>1. /\ name \in Text /\ value \in Text /\ file \in Text /\ name # <<>>
      /\ \A i \in DOMAIN name : name[i] # "="
      /\ file # <<>> => value = <<>>
      /\ file = <<>> => ~StartsWith(value, "@")
      /\ f = [name |-> name, value |-> value, file |-> file]
  BY DEF FormField
<1>2. FieldOf(f) = name \o <<"=">> \o end
  BY DEF FieldOf
<1> HIDE DEF name, value, file
<1>3. "=" \in Atoms /\ <<"=">> \in Text /\ <<"@">> \in Text
  <2>1. "=" \in Atoms /\ "@" \in Atoms
    BY DEF Atoms
  <2> QED
    BY <2>1, Short DEF Text
<1>4. end \in Text
  <2>1. <<"@">> \o file \in Text
    BY <1>1, <1>3, ConcatProperties DEF Text
  <2> QED
    BY <1>1, <2>1
<1>5. file # <<>> => (<<"@">> \o file) # <<>> /\ (<<"@">> \o file)[1] = "@" /\ Tail(<<"@">> \o file) = file
  <2> DEFINE v == <<"@">> \o file
             n == Len(file)
             u == Tail(v)
  <2>1. /\ v \in Seq(Atoms) /\ Len(v) = 1 + n /\ n \in Nat
        /\ \A i \in 1 .. 1 + n : v[i] = IF i <= 1 THEN <<"@">>[i] ELSE file[i - 1]
    <3>1. Len(<<"@">>) = 1
      OBVIOUS
    <3> QED
      BY <1>1, <1>3, <3>1, ConcatProperties, LenProperties DEF Text
  <2>f. file \in Seq(Atoms) /\ Len(file) = n
    BY <1>1 DEF Text
  <2> HIDE DEF v, n
  <2>2. v[1] = "@" /\ v # <<>>
    <3>1. v[1] = "@"
      BY <2>1
    <3>2. Len(v) # 0
      BY <2>1
    <3> QED
      BY <3>1, <3>2
  <2>3. /\ u \in Seq(Atoms) /\ Len(u) = n
        /\ \A i \in 1 .. n : u[i] = v[i + 1]
    BY <2>1, <2>2, HeadTailProperties
  <2> HIDE DEF u
  <2>4. ASSUME NEW i \in 1 .. n
        PROVE  u[i] = file[i]
    <3>1. i + 1 \in 1 .. 1 + n /\ ~(i + 1 <= 1) /\ i + 1 - 1 = i
      BY <2>1
    <3>2. v[i + 1] = file[i + 1 - 1]
      BY <2>1, <3>1
    <3> QED
      BY <2>3, <3>1, <3>2
  <2>5. u = file
    BY <2>f, <2>3, <2>4, SeqEqual
  <2> QED
    BY <2>2, <2>5 DEF u, v
<1>6. \E k : Cut(FieldOf(f), "=") = k /\ k.found = TRUE /\ k.before = name /\ k.after = end
  <2> HIDE DEF end
  <2>1. Cut(name \o <<"=">> \o end, "=") = [found |-> TRUE, before |-> name, after |-> end]
    BY <1>1, <1>3, <1>4, CutAt DEF Text
  <2> QED
    BY <1>2, <2>1
<1>7. FieldOf(f) \in Text
  <2>1. \A a \in Text, b \in Text : a \o b \in Text
    BY ConcatProperties DEF Text
  <2> HIDE DEF end
  <2>2. name \o <<"=">> \in Text
    BY <1>1, <1>3, <2>1
  <2>3. (name \o <<"=">>) \o end \in Text
    BY <1>4, <2>1, <2>2
  <2> QED
    BY <1>2, <2>3
<1> DEFINE c == Cut(FieldOf(f), "=")
           field == IF c.after # <<>> /\ c.after[1] = "@"
                    THEN [name |-> c.before, value |-> <<>>, file |-> Tail(c.after)]
                    ELSE [name |-> c.before, value |-> c.after, file |-> <<>>]
<1>8. c.found = TRUE /\ c.before = name /\ c.after = end
  BY <1>6
<1>9. c.found /\ c.before # <<>> => parseCurlForm(FieldOf(f)) = {field}
  BY DEF parseCurlForm
<1> HIDE DEF c
<1>10. field = f
  <2>1. CASE file # <<>>
    <3>1. c.after # <<>> /\ c.after[1] = "@" /\ Tail(c.after) = file /\ value = <<>>
      BY <1>1, <1>5, <1>8, <2>1
    <3> HIDE DEF end
    <3> QED
      BY <1>1, <1>8, <3>1
  <2>2. CASE file = <<>>
    <3>1. c.after = value /\ ~(value # <<>> /\ value[1] = "@")
      BY <1>1, <1>8, <2>2 DEF StartsWith
    <3> HIDE DEF end
    <3> QED
      BY <1>1, <1>8, <2>2, <3>1
  <2> QED
    BY <2>1, <2>2
<1> QED
  BY <1>1, <1>7, <1>8, <1>9, <1>10

\* The request with some fields of a form.
Formed(s, m, t) == IF t = <<>> THEN s ELSE Implied(m, [s EXCEPT !.form = t])

LEMMA FormRead ==
  ASSUME NEW ws \in Seq(CommandWord), NEW s \in Parsed, NEW m \in BOOLEAN, Parse[ws] = Ready(s, m),
         NEW fs \in Seq(FormField), s.form = <<>>
  PROVE  Parse[ws \o FieldWords(fs)] = Ready(Formed(s, m, fs), m)
<1> DEFINE Y == FormField
           f == [v \in Y |-> <<Plain("--form"), Value(FieldOf(v))>>]
           S(t) == Formed(s, m, t)
           R == [t \in Seq(Y) |-> Ready(S(t), m)]
<1>1. Meaning("--form") = "form" /\ "--form" \in OptionNames /\ "form" \in Wanted
  BY DEF Meaning, OptionNames, Wanted
<1>2. \A v \in Y : FieldOf(v) \in Text /\ parseCurlForm(FieldOf(v)) = {v}
  BY FieldRead
<1>3. \A v \in Y : <<Plain("--form"), Value(FieldOf(v))>> \in Seq(CommandWord)
  BY <1>1, <1>2, PairType
<1>4. f \in [Y -> Seq(CommandWord)] /\ \A v \in Y : f[v] = <<Plain("--form"), Value(FieldOf(v))>>
  BY <1>3
<1>5. \A t \in Seq(Y) : S(t) \in Parsed /\ S(t).form = t /\ R[t] = Ready(S(t), m)
  <2>1. \A t \in Seq(Y) : [s EXCEPT !.form = t] \in Parsed
    BY ParsedParts
  <2>2. \A x \in Parsed : Implied(m, x) \in Parsed /\ Implied(m, x).form = x.form
    <3>1. \A x \in Parsed : Implied(m, x) \in Parsed
      BY ImpliedType
    <3>2. \A x \in Parsed : [x EXCEPT !.method = <<"POST">>].form = x.form
      BY DEF Parsed
    <3> QED
      BY <3>1, <3>2 DEF Implied
  <2>3. \A t : [s EXCEPT !.form = t].form = t
    BY DEF Parsed
  <2>4. \A t \in Seq(Y) : S(t) \in Parsed
    BY <2>1, <2>2 DEF Formed
  <2>5. \A t \in Seq(Y) : S(t).form = t
    BY <2>1, <2>2, <2>3 DEF Formed
  <2> QED
    BY <2>4, <2>5
<1>6. \A t, u : u # <<>> => Implied(m, [S(t) EXCEPT !.form = u]) = S(u)
  <2>1. \A t, u : [[s EXCEPT !.form = t] EXCEPT !.form = u] = [s EXCEPT !.form = u]
    BY DEF Parsed
  <2>2. \A t, u : [[[[s EXCEPT !.form = t] EXCEPT !.method = <<"POST">>] EXCEPT !.form = u] EXCEPT !.method = <<"POST">>]
                   = [[s EXCEPT !.form = u] EXCEPT !.method = <<"POST">>]
    BY DEF Parsed
  <2> QED
    BY <2>1, <2>2 DEF Formed, Implied
<1>7. S(<<>>) = s
  BY DEF Formed
<1>8. Each("--form", [i \in DOMAIN fs |-> FieldOf(fs[i])]) = FlattenSeq(Images(f, fs))
  <2>1. \A i \in DOMAIN fs : fs[i] \in Y
    <3> HIDE DEF Y
    <3>1. fs \in Seq(Y)
      BY DEF Y
    <3> QED
      BY <3>1
  <2>2. \A i \in DOMAIN fs : <<Plain("--form"), Value(FieldOf(fs[i]))>> = f[fs[i]]
    BY <1>4, <2>1
  <2>3. [i \in DOMAIN fs |-> <<Plain("--form"), Value(FieldOf(fs[i]))>>] = [i \in DOMAIN fs |-> f[fs[i]]]
    <3> HIDE DEF f
    <3> QED
      BY <2>2
  <2> DEFINE vs == [i \in DOMAIN fs |-> FieldOf(fs[i])]
  <2>4. [i \in DOMAIN vs |-> <<Plain("--form"), Value(vs[i])>>] = [i \in DOMAIN fs |-> <<Plain("--form"), Value(FieldOf(fs[i]))>>]
    OBVIOUS
  <2> HIDE DEF f, vs
  <2>5. Each("--form", vs) = FlattenSeq(Images(f, fs))
    BY <2>3, <2>4 DEF Each, Images
  <2> QED
    BY <2>5 DEF vs
<1>9. fs \in Seq(Y) /\ <<>> \in Seq(Y)
  BY EmptySeq
<1> HIDE DEF f, S, R, Y
<1>10. Carries(R, f, Y)
  <2> SUFFICES ASSUME NEW u \in Seq(CommandWord), NEW t \in Seq(Y), NEW y \in Y, Parse[u] = R[t]
               PROVE  Parse[u \o f[y]] = R[Append(t, y)]
    BY DEF Carries
  <2> DEFINE p == Ready(S(t), m)
             a == Append(t, y)
             r == Ready(S(a), m)
             v == FieldOf(y)
             b == [p.spec EXCEPT !.form = Append(p.spec.form, y)]
  <2>1. a \in Seq(Y) /\ a # <<>>
    <3>1. a \in Seq(Y) /\ Len(a) = Len(t) + 1 /\ Len(t) \in Nat
      BY AppendProperties, LenProperties
    <3> HIDE DEF a
    <3> QED
      BY <3>1
  <2>2. WithBody(p, b) = r
    <3>1. p.spec = S(t) /\ S(t).form = t /\ S(t) \in Parsed
      BY <1>5, ReadyParts
    <3>2. b = [S(t) EXCEPT !.form = a]
      BY <3>1
    <3>3. b \in Parsed
      <4>1. a \in Seq(FormField)
        BY <2>1 DEF Y
      <4> HIDE DEF a, p, b
      <4> QED
        BY <3>1, <3>2, <4>1, ParsedParts
    <3>4. WithBody(p, b) = Ready(Implied(m, b), m)
      <4> HIDE DEF b
      <4> QED
        BY <3>1, <3>3, ImpliedType
    <3> HIDE DEF a, b, p
    <3>5. Implied(m, b) = S(a)
      BY <1>6, <2>1, <3>2
    <3> QED
      BY <3>4, <3>5
  <2> HIDE DEF a
  <2>3. Specs(p, "form", v) = {r}
    <3>1. Specs(p, "form", v) = {WithBody(p, [p.spec EXCEPT !.form = Append(@, g)]) : g \in parseCurlForm(v)}
      BY DEF Specs
    <3>2. parseCurlForm(v) = {y}
      BY <1>2
    <3> DEFINE e(g) == WithBody(p, [p.spec EXCEPT !.form = Append(@, g)])
    <3>3. Specs(p, "form", v) = {e(g) : g \in {y}}
      BY <3>1, <3>2
    <3>4. e(y) = r
      BY <2>2
    <3> HIDE DEF e
    <3> QED
      BY <3>3, <3>4
  <2>4. Yields(S(t), m, "--form", v, r)
    BY <1>1, <2>3 DEF Yields
  <2>5. v \in Text /\ S(t) \in Parsed /\ Parse[u] = Ready(S(t), m)
    BY <1>2, <1>5
  <2>7. f[y] = <<Plain("--form"), Value(v)>>
    BY <1>4
  <2> HIDE DEF r, v
  <2>6. Parse[u \o <<Plain("--form"), Value(v)>>] = r
    BY <1>1, <2>4, <2>5, PairRead
  <2> QED
    BY <1>5, <2>1, <2>6, <2>7 DEF r, a
<1>11. Parse[ws] = R[<<>>]
  BY <1>5, <1>7, <1>9
<1>12. Parse[ws \o FlattenSeq(Images(f, fs))] = R[fs]
  <2> DEFINE Z == Seq(CommandWord)
  <2>1. f \in [Y -> Z]
    BY <1>4
  <2> QED
    BY <1>9, <1>10, <1>11, <2>1, AllRead, ZenonT(60)
<1> QED
  BY <1>5, <1>8, <1>9, <1>12 DEF S, FieldWords

\* Every request that the fields and the imports make is one that FormatCURL is
\* known to write.
LEMMA SeqOfMore ==
  ASSUME NEW X, NEW Y, X \subseteq Y, NEW s \in Seq(X)
  PROVE  s \in Seq(Y)
<1>1. DOMAIN s = 1 .. Len(s) /\ Len(s) \in Nat /\ \A i \in 1 .. Len(s) : s[i] \in Y
  BY LenProperties
<1>2. [i \in 1 .. Len(s) |-> s[i]] \in Seq(Y)
  BY <1>1, IsASeq
<1>3. s = [i \in 1 .. Len(s) |-> s[i]]
  BY <1>1
<1> QED
  BY <1>2, <1>3

LEMMA WellFormedAreRequests ==
  ASSUME NEW spec \in WellFormed
  PROVE  spec \in Requests
<1> DEFINE F == [name : Text, value : Text, file : Text]
           D == [kind : Kinds, value : Text]
<1>1. Trimmed \subseteq Text /\ Cookie \subseteq Text /\ FormField \subseteq F /\ Datum = D
  BY DEF Trimmed, Cookie, FormField, Datum
<1>2. spec.headers \in [Names -> Seq(Trimmed)] /\ spec.cookies \in Seq(Cookie) /\ spec.form \in Seq(FormField)
      /\ spec.data \in Seq(Datum) /\ spec.auth \in User
  BY DEF WellFormed, Headers
<1>3. spec.cookies \in Seq(Text) /\ spec.form \in Seq(F) /\ spec.data \in Seq(D)
  <2> HIDE DEF F, D
  <2>1. spec.cookies \in Seq(Text)
    BY <1>1, <1>2, SeqOfMore
  <2>2. spec.form \in Seq(F)
    BY <1>1, <1>2, SeqOfMore
  <2> QED
    BY <1>1, <1>2, <2>1, <2>2
<1>4. spec.headers \in [ToSet(HeaderNames) -> Seq(Text)]
  <2> DEFINE h == spec.headers
             T == Seq(Text)
  <2>1. \A n \in Names : h[n] \in Seq(Trimmed)
    BY <1>2
  <2>2. \A n \in Names : h[n] \in T
    <3> HIDE DEF h
    <3> QED
      BY <1>1, <2>1, SeqOfMore
  <2>3. h = [n \in Names |-> h[n]]
    BY <1>2
  <2> HIDE DEF h, T
  <2>4. h \in [Names -> T]
    BY <2>2, <2>3
  <2> QED
    BY <2>4 DEF h, T, Names
<1>5. spec.auth \in {<<>>} \cup (Text \X Text)
  BY <1>2 DEF User
<1>6. spec = [method |-> spec.method, url |-> spec.url, headers |-> spec.headers, body |-> spec.body, data |-> spec.data,
              form |-> spec.form, auth |-> spec.auth, cookies |-> spec.cookies, agent |-> spec.agent,
              connect |-> spec.connect, max |-> spec.max, follow |-> spec.follow, insecure |-> spec.insecure]
      /\ spec.method \in Text /\ spec.url \in Text /\ spec.body \in Text /\ spec.agent \in Text
      /\ spec.connect \in Times /\ spec.max \in Times /\ spec.follow \in BOOLEAN /\ spec.insecure \in BOOLEAN
  BY DEF WellFormed
<1> QED
  BY <1>3, <1>4, <1>5, <1>6 DEF Requests

\* The request with some data.
Filled(s, m, t) == IF t = <<>> THEN s ELSE Implied(m, [s EXCEPT !.data = t])

LEMMA DataRead ==
  ASSUME NEW ws \in Seq(CommandWord), NEW s \in Parsed, NEW m \in BOOLEAN, Parse[ws] = Ready(s, m),
         NEW ds \in Seq(Datum), s.data = <<>>
  PROVE  Parse[ws \o FlattenSeq([i \in DOMAIN ds |-> <<Plain(ds[i].kind), Value(ds[i].value)>>])] =
           Ready(Filled(s, m, ds), m)
<1> DEFINE Y == Datum
           f == [d \in Y |-> <<Plain(d.kind), Value(d.value)>>]
           S(t) == Filled(s, m, t)
           R == [t \in Seq(Y) |-> Ready(S(t), m)]
<1>1. \A k \in Kinds : Meaning(k) = k /\ k \in OptionNames /\ k \in Wanted
  BY DEF Meaning, OptionNames, Wanted, Kinds
<1>2. \A d \in Y : d.kind \in Kinds /\ d.value \in Text /\ d = [kind |-> d.kind, value |-> d.value]
  BY DEF Datum
<1>3. \A d \in Y : <<Plain(d.kind), Value(d.value)>> \in Seq(CommandWord)
  BY <1>1, <1>2, PairType
<1>4. f \in [Y -> Seq(CommandWord)] /\ \A d \in Y : f[d] = <<Plain(d.kind), Value(d.value)>>
  BY <1>3
<1>5. \A t \in Seq(Y) : S(t) \in Parsed /\ S(t).data = t /\ R[t] = Ready(S(t), m)
  <2>1. \A t \in Seq(Y) : [s EXCEPT !.data = t] \in Parsed
    BY ParsedParts
  <2>2. \A x \in Parsed : Implied(m, x) \in Parsed /\ Implied(m, x).data = x.data
    <3>1. \A x \in Parsed : Implied(m, x) \in Parsed
      BY ImpliedType
    <3>2. \A x \in Parsed : [x EXCEPT !.method = <<"POST">>].data = x.data
      BY DEF Parsed
    <3> QED
      BY <3>1, <3>2 DEF Implied
  <2>3. \A t : [s EXCEPT !.data = t].data = t
    BY DEF Parsed
  <2>4. \A t \in Seq(Y) : S(t) \in Parsed
    BY <2>1, <2>2 DEF Filled
  <2>5. \A t \in Seq(Y) : S(t).data = t
    BY <2>1, <2>2, <2>3 DEF Filled
  <2> QED
    BY <2>4, <2>5
<1>6. \A t, u : u # <<>> => Implied(m, [S(t) EXCEPT !.data = u]) = S(u)
  <2>1. \A t, u : [[s EXCEPT !.data = t] EXCEPT !.data = u] = [s EXCEPT !.data = u]
    BY DEF Parsed
  <2>2. \A t, u : [[[[s EXCEPT !.data = t] EXCEPT !.method = <<"POST">>] EXCEPT !.data = u] EXCEPT !.method = <<"POST">>]
                   = [[s EXCEPT !.data = u] EXCEPT !.method = <<"POST">>]
    BY DEF Parsed
  <2> QED
    BY <2>1, <2>2 DEF Filled, Implied
<1>7. S(<<>>) = s
  BY DEF Filled
<1>8. FlattenSeq([i \in DOMAIN ds |-> <<Plain(ds[i].kind), Value(ds[i].value)>>]) = FlattenSeq(Images(f, ds))
  <2>1. \A i \in DOMAIN ds : ds[i] \in Y
    <3> HIDE DEF Y
    <3>1. ds \in Seq(Y)
      BY DEF Y
    <3> QED
      BY <3>1
  <2>2. \A i \in DOMAIN ds : <<Plain(ds[i].kind), Value(ds[i].value)>> = f[ds[i]]
    BY <1>4, <2>1
  <2>3. [i \in DOMAIN ds |-> <<Plain(ds[i].kind), Value(ds[i].value)>>] = [i \in DOMAIN ds |-> f[ds[i]]]
    <3> HIDE DEF f
    <3> QED
      BY <2>2
  <2> HIDE DEF f
  <2> QED
    BY <2>3 DEF Images
<1>9. ds \in Seq(Y) /\ <<>> \in Seq(Y)
  BY EmptySeq
<1> HIDE DEF f, S, R, Y
<1>10. Carries(R, f, Y)
  <2> SUFFICES ASSUME NEW u \in Seq(CommandWord), NEW t \in Seq(Y), NEW y \in Y, Parse[u] = R[t]
               PROVE  Parse[u \o f[y]] = R[Append(t, y)]
    BY DEF Carries
  <2> DEFINE p == Ready(S(t), m)
             a == Append(t, y)
             r == Ready(S(a), m)
             k == y.kind
             v == y.value
             b == [p.spec EXCEPT !.data = Append(p.spec.data, y)]
  <2>1. a \in Seq(Y) /\ a # <<>>
    <3>1. a \in Seq(Y) /\ Len(a) = Len(t) + 1 /\ Len(t) \in Nat
      BY AppendProperties, LenProperties
    <3> HIDE DEF a
    <3> QED
      BY <3>1
  <2>2. WithBody(p, b) = r
    <3>1. p.spec = S(t) /\ S(t).data = t /\ S(t) \in Parsed
      BY <1>5, ReadyParts
    <3>2. b = [S(t) EXCEPT !.data = a]
      BY <3>1
    <3>3. b \in Parsed
      <4>1. a \in Seq(Datum)
        BY <2>1 DEF Y
      <4> HIDE DEF a, p, b
      <4> QED
        BY <3>1, <3>2, <4>1, ParsedParts
    <3>4. WithBody(p, b) = Ready(Implied(m, b), m)
      <4> HIDE DEF b
      <4> QED
        BY <3>1, <3>3, ImpliedType
    <3> HIDE DEF a, b, p
    <3>5. Implied(m, b) = S(a)
      BY <1>6, <2>1, <3>2
    <3> QED
      BY <3>4, <3>5
  <2>k. k \in Kinds /\ v \in Text /\ y = [kind |-> k, value |-> v]
    BY <1>2
  <2>8. f[y] = <<Plain(k), Value(v)>>
    BY <1>4
  <2> HIDE DEF a, k, v
  <2>3. Specs(p, k, v) = {r}
    <3>1. Specs(p, k, v) = {AddData(p, k, v)}
      BY <2>k DEF Specs, Kinds
    <3>2. AddData(p, k, v) = WithBody(p, b)
      BY <2>k DEF AddData
    <3> QED
      BY <2>2, <3>1, <3>2
  <2>4. Yields(S(t), m, k, v, r)
    BY <1>1, <2>k, <2>3 DEF Yields
  <2>5. S(t) \in Parsed /\ Parse[u] = Ready(S(t), m)
    BY <1>5
  <2>6. k \in OptionNames /\ Meaning(k) \in Wanted /\ v \in Text
    BY <1>1, <2>k
  <2> HIDE DEF r
  <2>7. Parse[u \o <<Plain(k), Value(v)>>] = r
    BY <2>4, <2>5, <2>6, PairRead
  <2> QED
    BY <1>5, <2>1, <2>7, <2>8 DEF r, a
<1>11. Parse[ws] = R[<<>>]
  BY <1>5, <1>7, <1>9
<1>12. Parse[ws \o FlattenSeq(Images(f, ds))] = R[ds]
  <2> DEFINE Z == Seq(CommandWord)
  <2>1. f \in [Y -> Z]
    BY <1>4
  <2> QED
    BY <1>9, <1>10, <1>11, <2>1, AllRead, ZenonT(60)
<1> QED
  BY <1>5, <1>8, <1>9, <1>12 DEF S

\* A body that is not data is written as the one datum that is left as it is.
Data(spec) == IF spec.data = <<>> /\ spec.body # <<>>
              THEN <<[kind |-> "--data-binary", value |-> spec.body]>> ELSE spec.data

LEMMA BodyRead ==
  ASSUME NEW ws \in Seq(CommandWord), NEW s \in Parsed, NEW m \in BOOLEAN, Parse[ws] = Ready(s, m),
         NEW spec \in WellFormed, s.data = <<>>
  PROVE  Parse[ws \o DataOf(spec) \o (IF spec.data = <<>> THEN Some("--data-binary", spec.body) ELSE <<>>)] =
           Ready(Filled(s, m, Data(spec)), m)
<1> DEFINE ds == spec.data
           v == spec.body
           d == [kind |-> "--data-binary", value |-> v]
           Y == Datum
           F(t) == FlattenSeq([i \in DOMAIN t |-> <<Plain(t[i].kind), Value(t[i].value)>>])
<1>1. spec.data \in Seq(Datum) /\ spec.body \in Text
  BY DEF WellFormed
<1>2. d \in Datum
  BY <1>1 DEF Datum, Kinds
<1>3. \A t \in Seq(Datum) : Parse[ws \o F(t)] = Ready(Filled(s, m, t), m)
  BY DataRead
<1>4. DataOf(spec) = F(ds) /\ DataOf(spec) \in Seq(CommandWord)
  <2>1. DataOf(spec) \in Seq(CommandWord)
    BY WellFormedAreRequests, DataType
  <2> QED
    BY <2>1 DEF DataOf
<1>5. ws \o <<>> = ws /\ (ws \o DataOf(spec)) \o <<>> = ws \o DataOf(spec)
  <2>1. ws \o DataOf(spec) \in Seq(CommandWord)
    BY <1>4, Longer
  <2> QED
    BY <2>1, NothingRead
<1>6. CASE ds # <<>>
  <2>1. Data(spec) = ds
    BY <1>6 DEF Data
  <2> HIDE DEF F, ds
  <2>2. Parse[ws \o DataOf(spec)] = Ready(Filled(s, m, ds), m)
    BY <1>1, <1>3, <1>4 DEF ds
  <2> QED
    BY <1>5, <1>6, <2>1, <2>2 DEF ds
<1>7. CASE ds = <<>>
  <2>1. DataOf(spec) = <<>>
    BY <1>7, EachShort DEF DataOf, Each, OptionNames
  <2>2. CASE v = <<>>
    <3>1. Some("--data-binary", v) = <<>>
      BY <2>2, EachShort DEF Some, OptionNames
    <3>2. Filled(s, m, Data(spec)) = s
      BY <1>7, <2>2 DEF Data, Filled
    <3> QED
      BY <1>5, <1>7, <2>1, <3>1, <3>2
  <2>3. CASE v # <<>>
    <3>1. Data(spec) = <<d>>
      BY <1>7, <2>3 DEF Data
    <3>2. Some("--data-binary", v) = F(<<d>>)
      <4>1. Some("--data-binary", v) = FlattenSeq([i \in {1} |-> <<Plain("--data-binary"), Value(v)>>])
        <5>1. [i \in DOMAIN <<v>> |-> <<Plain("--data-binary"), Value(<<v>>[i])>>] = [i \in {1} |-> <<Plain("--data-binary"), Value(v)>>]
          <6> HIDE DEF v
          <6> QED
            OBVIOUS
        <5> QED
          BY <2>3, <5>1 DEF Some, Each
      <4>2. [i \in DOMAIN <<d>> |-> <<Plain(<<d>>[i].kind), Value(<<d>>[i].value)>>] = [i \in {1} |-> <<Plain("--data-binary"), Value(v)>>]
        <5>1. d.kind = "--data-binary" /\ d.value = v
          OBVIOUS
        <5> HIDE DEF d, v
        <5>2. [i \in DOMAIN <<d>> |-> <<Plain(<<d>>[i].kind), Value(<<d>>[i].value)>>] = [i \in {1} |-> <<Plain(d.kind), Value(d.value)>>]
          OBVIOUS
        <5> QED
          BY <5>1, <5>2
      <4> QED
        BY <4>1, <4>2
    <3>3. <<d>> \in Seq(Datum)
      <4>1. d \in Y
        BY <1>2
      <4> HIDE DEF d, Y
      <4>2. <<d>> \in Seq(Y)
        BY <4>1, Short
      <4> QED
        BY <4>2 DEF Y
    <3>4. ws \o DataOf(spec) = ws
      BY <1>5, <2>1
    <3> HIDE DEF F, d
    <3>5. Parse[ws \o Some("--data-binary", v)] = Ready(Filled(s, m, <<d>>), m)
      BY <1>3, <3>2, <3>3
    <3> QED
      BY <1>7, <3>1, <3>4, <3>5
  <2> QED
    BY <2>2, <2>3
<1> QED
  BY <1>6, <1>7

\* The line of a header is read as it was written.
LEMMA LineOfHeader ==
  ASSUME NEW n \in Names, NEW v \in Trimmed
  PROVE  /\ <<n, ":", "SP">> \o v \in Text
         /\ \E c : /\ Cut(<<n, ":", "SP">> \o v, ":") = c /\ c.found = TRUE /\ c.before = <<n>> /\ c.after = <<"SP">> \o v
                   /\ TrimSpace(c.before) = <<n>> /\ TrimSpace(c.after) = v
<1> DEFINE b == <<"SP">> \o v
           t == <<n, ":", "SP">> \o v
<1>1. n \in Atoms /\ ":" \in Atoms /\ "SP" \in Atoms /\ n # ":" /\ Ink(n)
  BY DEF Atoms, Names, Ink, ToSet, HeaderNames
<1>2. v \in Text /\ TrimSpace(b) = v
  BY TrimmedAre
<1>3. TrimSpace(<<n>>) = <<n>> /\ <<n>> \in Text /\ <<":">> \in Text /\ <<"SP">> \in Text
  BY <1>1, TrimmedAre, Short DEF Text
<1>4. \A x \in Text, y \in Text : x \o y \in Text
  BY ConcatProperties DEF Text
<1>5. b \in Text /\ t = <<n>> \o <<":">> \o b
  <2>1. <<n>> \o <<":">> = <<n, ":">> /\ <<n, ":">> \o <<"SP">> = <<n, ":", "SP">>
    <3>1. <<n>> \in Seq(Atoms) /\ <<n, ":">> \in Seq(Atoms)
      BY <1>1, Short
    <3>2. Append(<<n>>, ":") = <<n, ":">> /\ Append(<<n, ":">>, "SP") = <<n, ":", "SP">>
      <4>1. Append(<<n>>, ":") = <<n, ":">>
        BY <1>1, Short
      <4> DEFINE a == Append(<<n, ":">>, "SP")
                 e == <<n, ":", "SP">>
      <4>2. Len(<<n, ":">>) = 2 /\ <<n, ":">>[1] = n /\ <<n, ":">>[2] = ":"
        OBVIOUS
      <4>3. a \in Seq(Atoms) /\ Len(a) = 3 /\ a[1] = n /\ a[2] = ":" /\ a[3] = "SP"
        BY <1>1, <3>1, <4>2, AppendProperties
      <4>4. e \in Seq(Atoms) /\ Len(e) = 3 /\ e[1] = n /\ e[2] = ":" /\ e[3] = "SP"
        BY <1>1
      <4> HIDE DEF a, e
      <4>5. \A i \in 1 .. 3 : i = 1 \/ i = 2 \/ i = 3
        OBVIOUS
      <4>6. a = e
        BY <4>3, <4>4, <4>5, SeqEqual
      <4> QED
        BY <4>1, <4>6 DEF a, e
    <3> QED
      BY <1>1, <3>1, <3>2, AppendIsConcat
  <2>2. <<n, ":">> \in Text
    BY <1>3, <1>4, <2>1
  <2>3. (<<n, ":">> \o <<"SP">>) \o v = <<n, ":">> \o (<<"SP">> \o v)
    BY <1>2, <1>3, <2>2, ConcatAssociative DEF Text
  <2> QED
    BY <1>2, <1>3, <1>4, <2>1, <2>3
<1>6. t \in Text
  BY <1>3, <1>4, <1>5
<1> HIDE DEF t, b
<1>7. Cut(<<n>> \o <<":">> \o b, ":") = [found |-> TRUE, before |-> <<n>>, after |-> b]
  <2> DEFINE a == <<n>>
  <2>1. a \in Text /\ \A i \in DOMAIN a : a[i] # ":"
    BY <1>1, <1>3
  <2> HIDE DEF a
  <2>2. Cut(a \o <<":">> \o b, ":") = [found |-> TRUE, before |-> a, after |-> b]
    BY <1>1, <1>5, <2>1, CutAt DEF Text
  <2> QED
    BY <2>2 DEF a
<1>8. PICK c : c = [found |-> TRUE, before |-> <<n>>, after |-> b]
  OBVIOUS
<1>9. /\ Cut(t, ":") = c /\ c.found = TRUE /\ c.before = <<n>> /\ c.after = b
      /\ TrimSpace(c.before) = <<n>> /\ TrimSpace(c.after) = v
  <2>1. c.found = TRUE /\ c.before = <<n>> /\ c.after = b
    BY <1>8
  <2>2. Cut(t, ":") = c
    BY <1>5, <1>7, <1>8
  <2> QED
    BY <1>2, <1>3, <2>1, <2>2
<1> QED
  BY <1>6, <1>9 DEF t, b

\* All values of one name.
HeaderWords(n, h) == Each("-H", [i \in DOMAIN h |-> <<n, ":", "SP">> \o h[i]])

LEMMA NameRead ==
  ASSUME NEW ws \in Seq(CommandWord), NEW s \in Parsed, NEW m \in BOOLEAN, Parse[ws] = Ready(s, m),
         NEW n \in Names, n # "X_T", NEW h \in Seq(Trimmed), s.headers[n] = <<>>
  PROVE  Parse[ws \o HeaderWords(n, h)] =
           Ready([s EXCEPT !.headers = [s.headers EXCEPT ![n] = h]], m)
<1> DEFINE Y == Trimmed
           L(v) == <<n, ":", "SP">> \o v
           f == [v \in Y |-> <<Plain("-H"), Value(L(v))>>]
           S(t) == [s EXCEPT !.headers = [s.headers EXCEPT ![n] = t]]
           R == [t \in Seq(Y) |-> Ready(S(t), m)]
<1>1. Meaning("-H") = "header" /\ "-H" \in OptionNames /\ "header" \in Wanted
  BY DEF Meaning, OptionNames, Wanted
<1>2. \A v \in Y : L(v) \in Text
  BY LineOfHeader
<1>0. s.headers \in [Names -> Seq(Y)] /\ s.headers["X_T"] = <<>>
  BY DEF Parsed, Headers
<1>3. \A v \in Y : <<Plain("-H"), Value(L(v))>> \in Seq(CommandWord)
  <2> HIDE DEF L
  <2> QED
    BY <1>1, <1>2, PairType
<1>4. f \in [Y -> Seq(CommandWord)] /\ \A v \in Y : f[v] = <<Plain("-H"), Value(L(v))>>
  BY <1>3
<1>5. \A t \in Seq(Y) : S(t) \in Parsed /\ S(t).headers[n] = t /\ R[t] = Ready(S(t), m)
  <2>1. ASSUME NEW t \in Seq(Y)
        PROVE  S(t) \in Parsed /\ S(t).headers[n] = t
    <3> DEFINE g == [s.headers EXCEPT ![n] = t]
    <3>1. g \in [Names -> Seq(Y)] /\ g["X_T"] = <<>> /\ g[n] = t
      BY <1>0
    <3>2. g \in Headers
      BY <3>1 DEF Headers
    <3> HIDE DEF g
    <3>3. [s EXCEPT !.headers = g] \in Parsed
      BY <3>1, <3>2, ParsedParts
    <3>4. [s EXCEPT !.headers = g].headers = g
      BY DEF Parsed
    <3> QED
      BY <3>1, <3>3, <3>4 DEF g
  <2> QED
    BY <2>1
<1>6. \A t, u : [S(t) EXCEPT !.headers = [S(t).headers EXCEPT ![n] = u]] = S(u)
  <2>1. \A g, k : [[s EXCEPT !.headers = g] EXCEPT !.headers = k] = [s EXCEPT !.headers = k] /\ [s EXCEPT !.headers = g].headers = g
    BY DEF Parsed
  <2>2. \A t, u : [[s.headers EXCEPT ![n] = t] EXCEPT ![n] = u] = [s.headers EXCEPT ![n] = u]
    BY <1>0
  <2> SUFFICES ASSUME NEW t, NEW u
               PROVE  [S(t) EXCEPT !.headers = [S(t).headers EXCEPT ![n] = u]] = S(u)
    OBVIOUS
  <2>3. PICK g, k : g = [s.headers EXCEPT ![n] = t] /\ k = [s.headers EXCEPT ![n] = u]
    OBVIOUS
  <2>4. S(t) = [s EXCEPT !.headers = g] /\ S(u) = [s EXCEPT !.headers = k]
    BY <2>3
  <2>5. [g EXCEPT ![n] = u] = k
    BY <2>2, <2>3
  <2>6. [S(t) EXCEPT !.headers = k] = S(u) /\ S(t).headers = g
    BY <2>1, <2>4
  <2> QED
    BY <2>5, <2>6
<1>7. S(<<>>) = s
  <2>1. [s.headers EXCEPT ![n] = <<>>] = s.headers
    BY <1>0
  <2>2. [s EXCEPT !.headers = s.headers] = s
    BY DEF Parsed
  <2> QED
    BY <2>1, <2>2
<1>8. Each("-H", [i \in DOMAIN h |-> L(h[i])]) = FlattenSeq(Images(f, h))
  <2>1. \A i \in DOMAIN h : h[i] \in Y
    <3> HIDE DEF Y
    <3>1. h \in Seq(Y)
      BY DEF Y
    <3> QED
      BY <3>1
  <2>2. \A i \in DOMAIN h : <<Plain("-H"), Value(L(h[i]))>> = f[h[i]]
    BY <1>4, <2>1
  <2>3. [i \in DOMAIN h |-> <<Plain("-H"), Value(L(h[i]))>>] = [i \in DOMAIN h |-> f[h[i]]]
    <3> HIDE DEF f, L
    <3> QED
      BY <2>2
  <2> HIDE DEF L
  <2> DEFINE vs == [i \in DOMAIN h |-> L(h[i])]
  <2>4. [i \in DOMAIN vs |-> <<Plain("-H"), Value(vs[i])>>] = [i \in DOMAIN h |-> <<Plain("-H"), Value(L(h[i]))>>]
    OBVIOUS
  <2> HIDE DEF f, vs
  <2>5. Each("-H", vs) = FlattenSeq(Images(f, h))
    BY <2>3, <2>4 DEF Each, Images
  <2> QED
    BY <2>5 DEF vs
<1>9. h \in Seq(Y) /\ <<>> \in Seq(Y)
  BY EmptySeq
<1> HIDE DEF f, S, R
<1>10. Carries(R, f, Y)
  <2> SUFFICES ASSUME NEW u \in Seq(CommandWord), NEW t \in Seq(Y), NEW y \in Y, Parse[u] = R[t]
               PROVE  Parse[u \o f[y]] = R[Append(t, y)]
    BY DEF Carries
  <2> DEFINE p == Ready(S(t), m)
             a == Append(t, y)
             r == Ready(S(a), m)
             v == L(y)
  <2>1. a \in Seq(Y)
    <3> HIDE DEF Y
    <3> QED
      BY AppendProperties
  <2>2. PICK c : /\ Cut(v, ":") = c /\ c.found = TRUE /\ c.before = <<n>> /\ c.after = <<"SP">> \o y
                 /\ TrimSpace(c.before) = <<n>> /\ TrimSpace(c.after) = y
    BY LineOfHeader
  <2>3. isHeaderName(TrimSpace(c.before))
    <3>1. isHeaderName(<<n>>)
      BY DEF isHeaderName, Names
    <3> QED
      BY <2>2, <3>1
  <2>4. p.spec = S(t) /\ S(t).headers[n] = t
    BY <1>5, ReadyParts
  <2>5. [p EXCEPT !.spec.headers = AddHeader(@, c)] = r
    <3>1. AddHeader(p.spec.headers, c) = [S(t).headers EXCEPT ![n] = a]
      <4>1. TrimSpace(c.before)[1] = n
        BY <2>2
      <4>2. AddHeader(p.spec.headers, c) = [p.spec.headers EXCEPT ![n] = Append(p.spec.headers[n], y)]
        BY <2>2, <4>1 DEF AddHeader
      <4> QED
        BY <2>4, <4>2
    <3> HIDE DEF p
    <3>2. [p EXCEPT !.spec.headers = AddHeader(@, c)] =
            [p EXCEPT !.spec = [p.spec EXCEPT !.headers = AddHeader(p.spec.headers, c)]]
      OBVIOUS
    <3>3. [p.spec EXCEPT !.headers = AddHeader(p.spec.headers, c)] = S(a)
      <4>1. [S(t) EXCEPT !.headers = [S(t).headers EXCEPT ![n] = a]] = S(a)
        BY <1>6
      <4> QED
        BY <2>4, <3>1, <4>1
    <3> HIDE DEF a
    <3> QED
      BY <1>5, <2>1, <3>2, <3>3, ReadyParts DEF p
  <2> HIDE DEF a, v
  <2>6. Specs(p, "header", v) = {r}
    <3> DEFINE e(x) == [p EXCEPT !.spec.headers = AddHeader(@, x)]
    <3>1. Specs(p, "header", v) = {e(x) : x \in {z \in {Cut(v, ":")} : z.found /\ isHeaderName(TrimSpace(z.before))}}
      BY DEF Specs
    <3>2. {z \in {Cut(v, ":")} : z.found /\ isHeaderName(TrimSpace(z.before))} = {c}
      BY <2>2, <2>3
    <3>3. e(c) = r
      BY <2>5
    <3> HIDE DEF e
    <3> QED
      BY <3>1, <3>2, <3>3
  <2>7. Yields(S(t), m, "-H", v, r)
    BY <1>1, <2>6 DEF Yields
  <2>8. S(t) \in Parsed /\ Parse[u] = Ready(S(t), m) /\ v \in Text
    BY <1>2, <1>5 DEF v
  <2>9. f[y] = <<Plain("-H"), Value(v)>>
    BY <1>4 DEF v
  <2> HIDE DEF r
  <2>10. Parse[u \o <<Plain("-H"), Value(v)>>] = r
    BY <1>1, <2>7, <2>8, PairRead
  <2> QED
    BY <1>5, <2>1, <2>9, <2>10 DEF r, a
<1>11. Parse[ws] = R[<<>>]
  BY <1>5, <1>7, <1>9
<1>12. Parse[ws \o FlattenSeq(Images(f, h))] = R[h]
  <2> DEFINE Z == Seq(CommandWord)
  <2>1. f \in [Y -> Z]
    BY <1>4
  <2> HIDE DEF Y
  <2> QED
    BY <1>9, <1>10, <1>11, <2>1, AllRead, ZenonT(60)
<1> QED
  BY <1>5, <1>8, <1>9, <1>12 DEF S, HeaderWords

-----------------------------------------------------------------------------
(* The names of headers, one after the other                                 *)

\* T has what one more name makes of what it has.
NamesAdded(T) == \A ns \in Seq(Names), n \in Names : ns \in T /\ n \notin ToSet(ns) => Append(ns, n) \in T

LEMMA SetOfSteps ==
  ASSUME NEW X
  PROVE  /\ ToSet(<<>>) = {}
         /\ \A s \in Seq(X), x \in X : ToSet(Append(s, x)) = ToSet(s) \cup {x}
<1>1. ToSet(<<>>) = {}
  BY DEF ToSet
<1>2. ASSUME NEW s \in Seq(X), NEW x \in X
      PROVE  ToSet(Append(s, x)) = ToSet(s) \cup {x}
  <2> DEFINE t == Append(s, x)
             n == Len(s)
  <2>1. /\ n \in Nat /\ DOMAIN s = 1 .. n /\ DOMAIN t = 1 .. n + 1
        /\ \A i \in 1 .. n : t[i] = s[i]
        /\ t[n + 1] = x
    BY AppendProperties, LenProperties
  <2> HIDE DEF t, n
  <2>2. \A i \in 1 .. n + 1 : i \in 1 .. n \/ i = n + 1
    BY <2>1
  <2>3. \A i \in 1 .. n : i \in 1 .. n + 1
    BY <2>1
  <2>4. n + 1 \in 1 .. n + 1
    BY <2>1
  <2>5. \A y : y \in ToSet(t) <=> y \in ToSet(s) \/ y = x
    BY <2>1, <2>2, <2>3, <2>4 DEF ToSet
  <2> QED
    BY <2>5 DEF t
<1> QED
  BY <1>1, <1>2

LEMMA NamesInOrder ==
  ASSUME NEW T, <<>> \in T, NamesAdded(T)
  PROVE  HeaderNames \in T
<1> DEFINE N == Names
           Once(ns) == \A i \in DOMAIN ns, j \in DOMAIN ns : ns[i] = ns[j] => i = j
           U == {ns \in Seq(N) : Once(ns) => ns \in T}
<1>1. <<>> \in U
  BY EmptySeq
<1>2. ASSUME NEW ns \in Seq(N), NEW n \in N, ns \in U
      PROVE  Append(ns, n) \in U
  <2> DEFINE t == Append(ns, n)
             l == Len(ns)
  <2>1. /\ l \in Nat /\ DOMAIN ns = 1 .. l /\ DOMAIN t = 1 .. l + 1
        /\ \A i \in 1 .. l : t[i] = ns[i]
        /\ t[l + 1] = n /\ t \in Seq(N)
    BY AppendProperties, LenProperties
  <2>2. ASSUME Once(t)
        PROVE  t \in T
    <3> HIDE DEF t, l
    <3>1. \A i \in 1 .. l : i \in 1 .. l + 1 /\ i # l + 1
      BY <2>1
    <3>2. Once(ns)
      BY <2>1, <2>2, <3>1
    <3>3. n \notin ToSet(ns)
      <4>1. l + 1 \in 1 .. l + 1
        BY <2>1
      <4>2. \A i \in 1 .. l : ns[i] # n
        BY <2>1, <2>2, <3>1, <4>1
      <4> QED
        BY <2>1, <4>2 DEF ToSet
    <3> QED
      BY <1>2, <3>2, <3>3 DEF NamesAdded, t
  <2> HIDE DEF Once
  <2> QED
    BY <2>1, <2>2
<1>3. \A ns \in Seq(N) : ns \in U
  <2> HIDE DEF U, N
  <2> QED
    BY <1>1, <1>2, SeqInduction
<1>4. HeaderNames \in Seq(N) /\ Once(HeaderNames)
  <2>1. Once(HeaderNames)
    BY DEF HeaderNames
  <2>2. HeaderNames \in Seq(N)
    <3>1. DOMAIN HeaderNames = 1 .. 7 /\ \A i \in 1 .. 7 : HeaderNames[i] \in N
      <4>1. DOMAIN HeaderNames = 1 .. 7
        BY DEF HeaderNames
      <4> QED
        BY <4>1 DEF Names, ToSet
    <3>2. [i \in 1 .. 7 |-> HeaderNames[i]] \in Seq(N)
      <4> HIDE DEF N
      <4> QED
        BY <3>1, IsASeq
    <3>3. HeaderNames = [i \in 1 .. 7 |-> HeaderNames[i]]
      BY DEF HeaderNames
    <3> QED
      BY <3>2, <3>3
  <2> QED
    BY <2>1, <2>2
<1> QED
  BY <1>3, <1>4

\* The headers of some names.
Partial(h, ns) == [n \in Names |-> IF n \in ToSet(ns) THEN h[n] ELSE <<>>]

LEMMA PartialSteps ==
  ASSUME NEW h \in Headers
  PROVE  /\ Partial(h, <<>>) = NoHeaders /\ Partial(h, HeaderNames) = h
         /\ \A ns \in Seq(Names) : Partial(h, ns) \in Headers
         /\ \A ns \in Seq(Names) : h["X_T"] = <<>> => Partial(h, ns)["X_T"] = <<>>
         /\ \A ns \in Seq(Names), n \in Names :
              n \notin ToSet(ns) => /\ Partial(h, ns)[n] = <<>>
                                    /\ Partial(h, Append(ns, n)) = [Partial(h, ns) EXCEPT ![n] = h[n]]
<1> DEFINE Y == Seq(Trimmed)
<1>0. h \in [Names -> Y] /\ <<>> \in Y /\ "X_T" \in Names
  BY EmptySeq DEF Headers, Names, ToSet, HeaderNames
<1> HIDE DEF Y
<1>1. Partial(h, <<>>) = NoHeaders
  BY SetOfSteps DEF Partial, NoHeaders, Names
<1>2. Partial(h, HeaderNames) = h
  BY <1>0 DEF Partial, Names
<1>3. ASSUME NEW ns \in Seq(Names)
      PROVE  Partial(h, ns) \in Headers
  BY <1>0 DEF Partial, Headers, Y
<1>4. ASSUME NEW ns \in Seq(Names), h["X_T"] = <<>>
      PROVE  Partial(h, ns)["X_T"] = <<>>
  BY <1>0, <1>4 DEF Partial
<1>5. ASSUME NEW ns \in Seq(Names), NEW n \in Names, n \notin ToSet(ns)
      PROVE  /\ Partial(h, ns)[n] = <<>>
             /\ Partial(h, Append(ns, n)) = [Partial(h, ns) EXCEPT ![n] = h[n]]
  <2>1. ToSet(Append(ns, n)) = ToSet(ns) \cup {n}
    BY SetOfSteps
  <2> QED
    BY <1>5, <2>1 DEF Partial
<1> QED
  BY <1>1, <1>2, <1>3, <1>4, <1>5

LEMMA HeadersRead ==
  ASSUME NEW ws \in Seq(CommandWord), NEW s \in Parsed, NEW m \in BOOLEAN, Parse[ws] = Ready(s, m),
         s.headers = NoHeaders, NEW spec \in WellFormed, spec.headers["X_T"] = <<>>
  PROVE  Parse[ws \o FlattenSeq([i \in DOMAIN HeaderNames |-> HeaderOf(spec, HeaderNames[i])])] =
           Ready([s EXCEPT !.headers = spec.headers], m)
<1> DEFINE h == spec.headers
           f == [n \in Names |-> HeaderOf(spec, n)]
           S(ns) == [s EXCEPT !.headers = Partial(h, ns)]
           F(ns) == FlattenSeq(Images(f, ns))
           T == {ns \in Seq(Names) : Parse[ws \o F(ns)] = Ready(S(ns), m)}
           W == CommandWord
<1>0. h \in Headers /\ h["X_T"] = <<>>
  BY DEF WellFormed
<1>1. f \in [Names -> Seq(W)] /\ \A n \in Names : f[n] = HeaderOf(spec, n) /\ f[n] \in Seq(W)
  BY WellFormedAreRequests, HeaderOfType DEF Names
<1>h. \A n \in Names : HeaderOf(spec, n) = HeaderWords(n, h[n])
  BY DEF HeaderOf, HeaderWords
<1>2. /\ F(<<>>) = <<>>
      /\ \A ns \in Seq(Names) : F(ns) \in Seq(W)
      /\ \A ns \in Seq(Names), n \in Names : F(Append(ns, n)) = F(ns) \o f[n]
  <2> HIDE DEF f, W, F
  <2>1. FlattenSeq(Images(f, <<>>)) = <<>>
    BY <1>1, FlattenMap
  <2>2. ASSUME NEW ns \in Seq(Names)
        PROVE  FlattenSeq(Images(f, ns)) \in Seq(W)
    BY <1>1, FlattenMap
  <2>3. ASSUME NEW ns \in Seq(Names), NEW n \in Names
        PROVE  FlattenSeq(Images(f, Append(ns, n))) = FlattenSeq(Images(f, ns)) \o f[n]
    BY <1>1, FlattenNext
  <2> QED
    BY <2>1, <2>2, <2>3 DEF F
<1>3. \A ns \in Seq(Names) : S(ns) \in Parsed /\ S(ns).headers = Partial(h, ns)
  <2>1. \A g : [s EXCEPT !.headers = g].headers = g
    BY DEF Parsed
  <2> SUFFICES ASSUME NEW ns \in Seq(Names)
               PROVE  S(ns) \in Parsed /\ S(ns).headers = Partial(h, ns)
    OBVIOUS
  <2> DEFINE g == Partial(h, ns)
  <2>2. g \in Headers /\ g["X_T"] = <<>>
    BY <1>0, PartialSteps
  <2>3. S(ns).headers = g
    BY <2>1
  <2> HIDE DEF g
  <2>4. [s EXCEPT !.headers = g] \in Parsed
    BY <2>2, ParsedParts
  <2> QED
    BY <2>3, <2>4 DEF g
<1>4. S(<<>>) = s /\ S(HeaderNames) = [s EXCEPT !.headers = h]
  <2>1. [s EXCEPT !.headers = s.headers] = s
    BY DEF Parsed
  <2> QED
    BY <1>0, <2>1, PartialSteps
<1>5. \A ns, g : [S(ns) EXCEPT !.headers = g] = [s EXCEPT !.headers = g]
  <2>1. \A g, k : [[s EXCEPT !.headers = g] EXCEPT !.headers = k] = [s EXCEPT !.headers = k]
    BY DEF Parsed
  <2> QED
    BY <2>1
<1>6. FlattenSeq([i \in DOMAIN HeaderNames |-> HeaderOf(spec, HeaderNames[i])]) = F(HeaderNames)
  <2>1. \A i \in DOMAIN HeaderNames : HeaderNames[i] \in Names
    BY DEF Names, ToSet
  <2>2. [i \in DOMAIN HeaderNames |-> HeaderOf(spec, HeaderNames[i])] = [i \in DOMAIN HeaderNames |-> f[HeaderNames[i]]]
    BY <1>1, <2>1
  <2> HIDE DEF f
  <2> QED
    BY <2>2 DEF Images
<1>e. \A n \in Names : S(<<>>) = s
  BY <1>4
<1> HIDE DEF f, F
<1>7. <<>> \in T
  <2>1. <<>> \in Seq(Names) /\ ws \o <<>> = ws
    BY EmptySeq, NothingRead
  <2> HIDE DEF S
  <2> QED
    BY <1>2, <1>4, <2>1
<1>8. ASSUME NEW ns \in Seq(Names), NEW n \in Names, ns \in T, n \notin ToSet(ns)
      PROVE  Append(ns, n) \in T
  <2> DEFINE a == Append(ns, n)
             u == ws \o F(ns)
  <2>1. a \in Seq(Names)
    BY AppendProperties
  <2>2. u \in Seq(CommandWord) /\ ws \o F(a) = u \o f[n]
    <3>1. ws \in Seq(W)
      OBVIOUS
    <3> HIDE DEF W, S
    <3>2. u \in Seq(W)
      BY <1>2, <3>1, ConcatProperties
    <3>3. (ws \o F(ns)) \o f[n] = ws \o (F(ns) \o f[n])
      BY <1>1, <1>2, <3>1, ConcatAssociative
    <3>4. F(a) = F(ns) \o f[n]
      BY <1>2
    <3> QED
      BY <3>2, <3>3, <3>4 DEF W
  <2>3. Parse[u] = Ready(S(ns), m)
    BY <1>8
  <2>4. /\ Partial(h, ns)[n] = <<>> /\ Partial(h, a) = [Partial(h, ns) EXCEPT ![n] = h[n]]
        /\ S(ns) \in Parsed /\ S(ns).headers = Partial(h, ns)
    BY <1>0, <1>3, <1>8, PartialSteps
  <2>5. [S(ns) EXCEPT !.headers = [S(ns).headers EXCEPT ![n] = h[n]]] = S(a)
    <3>1. [S(ns) EXCEPT !.headers = Partial(h, a)] = S(a)
      BY <1>5
    <3> QED
      BY <2>4, <3>1
  <2>h. h[n] \in Seq(Trimmed)
    BY <1>0 DEF Headers
  <2> HIDE DEF S, u, a, h
  <2>6. CASE n # "X_T"
    <3> DEFINE v == h[n]
    <3>1. v \in Seq(Trimmed)
      BY <2>h
    <3>2. f[n] = HeaderWords(n, v)
      BY <1>1, <1>h
    <3>3. [S(ns) EXCEPT !.headers = [S(ns).headers EXCEPT ![n] = v]] = S(a)
      BY <2>5
    <3> HIDE DEF v
    <3>4. Parse[u \o HeaderWords(n, v)] =
            Ready([S(ns) EXCEPT !.headers = [S(ns).headers EXCEPT ![n] = v]], m)
      BY <2>2, <2>3, <2>4, <2>6, <3>1, NameRead
    <3> QED
      BY <2>1, <2>2, <3>2, <3>3, <3>4 DEF a
  <2>7. CASE n = "X_T"
    <3>1. h[n] = <<>>
      BY <1>0, <2>7
    <3>2. f[n] = <<>>
      <4>1. f[n] = Each("-H", [i \in DOMAIN h[n] |-> <<n, ":", "SP">> \o h[n][i]])
        BY <1>1, <1>h DEF HeaderWords
      <4>2. [i \in DOMAIN h[n] |-> <<n, ":", "SP">> \o h[n][i]] = <<>>
        BY <3>1
      <4>3. Each("-H", <<>>) = <<>>
        BY EachShort DEF OptionNames
      <4> QED
        BY <4>1, <4>2, <4>3
    <3>3. S(a) = S(ns)
      <4>1. [Partial(h, ns) EXCEPT ![n] = <<>>] = Partial(h, ns)
        BY <2>4 DEF Partial
      <4>2. Partial(h, a) = Partial(h, ns)
        BY <2>4, <3>1, <4>1
      <4> QED
        BY <4>2 DEF S
    <3>4. u \o <<>> = u
      BY <2>2, NothingRead
    <3> QED
      BY <2>1, <2>2, <2>3, <3>2, <3>3, <3>4 DEF a
  <2> QED
    BY <2>6, <2>7
<1>9. HeaderNames \in T
  <2> HIDE DEF T
  <2>1. NamesAdded(T)
    BY <1>8 DEF NamesAdded
  <2> QED
    BY <1>7, <2>1, NamesInOrder
<1> QED
  BY <1>4, <1>6, <1>9

\* The request that the command of a request says: the method it is sent with, and
\* a body written as data.
Meant(spec) ==
  [spec EXCEPT !.method = IF TrimSpace(spec.method) # <<>> THEN TrimSpace(spec.method)
                          ELSE IF Data(spec) = <<>> /\ spec.form = <<>> THEN <<"GET">> ELSE <<"POST">>,
               !.data = Data(spec), !.body = <<>>]

\* One kind of body at the most.
OneBody(spec) == /\ spec.data = <<>> \/ spec.form = <<>>
                 /\ (spec.data = <<>> /\ spec.form = <<>>) \/ spec.body = <<>>

LEMMA WellFormedParts ==
  ASSUME NEW spec \in WellFormed
  PROVE  /\ spec.method \in Text /\ spec.url \in Text /\ spec.headers \in Headers /\ spec.body \in Text
         /\ spec.data \in Seq(Datum) /\ spec.form \in Seq(FormField) /\ spec.auth \in User
         /\ spec.cookies \in Seq(Cookie) /\ spec.agent \in Text /\ spec.connect \in Times /\ spec.max \in Times
         /\ spec.follow \in BOOLEAN /\ spec.insecure \in BOOLEAN
         /\ TrimSpace(spec.method) \in Text /\ Data(spec) \in Seq(Datum)
<1>1. /\ spec.method \in Text /\ spec.url \in Text /\ spec.headers \in Headers /\ spec.body \in Text
      /\ spec.data \in Seq(Datum) /\ spec.form \in Seq(FormField) /\ spec.auth \in User
      /\ spec.cookies \in Seq(Cookie) /\ spec.agent \in Text /\ spec.connect \in Times /\ spec.max \in Times
      /\ spec.follow \in BOOLEAN /\ spec.insecure \in BOOLEAN
  BY DEF WellFormed
<1>2. TrimSpace(spec.method) \in Text
  BY <1>1, TrimType
<1>3. Data(spec) \in Seq(Datum)
  <2>1. [kind |-> "--data-binary", value |-> spec.body] \in Datum
    BY <1>1 DEF Datum, Kinds
  <2>2. <<[kind |-> "--data-binary", value |-> spec.body]>> \in Seq(Datum)
    <3> DEFINE D == Datum
               x == [kind |-> "--data-binary", value |-> spec.body]
    <3>1. x \in D
      BY <2>1
    <3> HIDE DEF D, x
    <3>2. <<x>> \in Seq(D)
      BY <3>1, Short
    <3> QED
      BY <3>2 DEF D, x
  <2> QED
    BY <1>1, <2>2 DEF Data
<1> QED
  BY <1>1, <1>2, <1>3

\* What the data and the form change in a request.
LEMMA FilledParts ==
  ASSUME NEW s \in Parsed, NEW m \in BOOLEAN, NEW t \in Seq(Datum), s.data = <<>>
  PROVE  /\ Filled(s, m, t) \in Parsed
         /\ Filled(s, m, t) = [s EXCEPT !.data = t, !.method = IF m \/ t = <<>> THEN @ ELSE <<"POST">>]
<1> DEFINE u == [s EXCEPT !.data = t]
<1>1. u \in Parsed
  BY ParsedParts
<1>2. Filled(s, m, t) = IF t = <<>> THEN s ELSE IF m THEN u ELSE [u EXCEPT !.method = <<"POST">>]
  BY DEF Filled, Implied
<1>3. Filled(s, m, t) \in Parsed
  <2>1. Implied(m, u) \in Parsed
    <3> HIDE DEF u
    <3> QED
      BY <1>1, ImpliedType
  <2> QED
    BY <2>1 DEF Filled
<1>4. CASE t = <<>>
  <2>1. [s EXCEPT !.data = <<>>, !.method = s.method] = s
    BY DEF Parsed
  <2> QED
    BY <1>2, <1>3, <1>4, <2>1
<1>5. CASE t # <<>> /\ m
  <2>1. [s EXCEPT !.data = t, !.method = s.method] = [s EXCEPT !.data = t]
    BY DEF Parsed
  <2> QED
    BY <1>2, <1>3, <1>5, <2>1
<1>6. CASE t # <<>> /\ ~m
  <2>1. [s EXCEPT !.data = t, !.method = <<"POST">>] = [[s EXCEPT !.data = t] EXCEPT !.method = <<"POST">>]
    OBVIOUS
  <2> QED
    BY <1>2, <1>3, <1>6, <2>1
<1> QED
  BY <1>4, <1>5, <1>6

LEMMA FormedParts ==
  ASSUME NEW s \in Parsed, NEW m \in BOOLEAN, NEW t \in Seq(FormField), s.form = <<>>
  PROVE  /\ Formed(s, m, t) \in Parsed
         /\ Formed(s, m, t) = [s EXCEPT !.form = t, !.method = IF m \/ t = <<>> THEN @ ELSE <<"POST">>]
<1> DEFINE u == [s EXCEPT !.form = t]
<1>1. u \in Parsed
  BY ParsedParts
<1>2. Formed(s, m, t) = IF t = <<>> THEN s ELSE IF m THEN u ELSE [u EXCEPT !.method = <<"POST">>]
  BY DEF Formed, Implied
<1>3. Formed(s, m, t) \in Parsed
  <2>1. Implied(m, u) \in Parsed
    <3> HIDE DEF u
    <3> QED
      BY <1>1, ImpliedType
  <2> QED
    BY <2>1 DEF Formed
<1>4. CASE t = <<>>
  <2>1. [s EXCEPT !.form = <<>>, !.method = s.method] = s
    BY DEF Parsed
  <2> QED
    BY <1>2, <1>3, <1>4, <2>1
<1>5. CASE t # <<>> /\ m
  <2>1. [s EXCEPT !.form = t, !.method = s.method] = [s EXCEPT !.form = t]
    BY DEF Parsed
  <2> QED
    BY <1>2, <1>3, <1>5, <2>1
<1>6. CASE t # <<>> /\ ~m
  <2>1. [s EXCEPT !.form = t, !.method = <<"POST">>] = [[s EXCEPT !.form = t] EXCEPT !.method = <<"POST">>]
    OBVIOUS
  <2> QED
    BY <1>2, <1>3, <1>6, <2>1
<1> QED
  BY <1>4, <1>5, <1>6

\* The method, the headers and the data of a command.
LEMMA FirstRead ==
  ASSUME NEW spec \in WellFormed, spec.headers["X_T"] = <<>>
  PROVE  \E s \in Parsed, m \in BOOLEAN :
           /\ Parse[FirstWords(spec)] = Ready(s, m)
           /\ m = (TrimSpace(spec.method) # <<>>)
           /\ s = [NoSpec EXCEPT !.method = IF m THEN TrimSpace(spec.method)
                                            ELSE IF Data(spec) = <<>> THEN <<"GET">> ELSE <<"POST">>,
                                 !.headers = spec.headers, !.data = Data(spec)]
<1> DEFINE a == MethodPart(spec)
           b == HeadersPart(spec)
<1>0. spec \in Requests
  BY WellFormedAreRequests
<1>a. a \in Seq(CommandWord) /\ b \in Seq(CommandWord) /\ DataOf(spec) \in Seq(CommandWord)
      /\ BodyPart(spec) \in Seq(CommandWord) /\ <<>> \in Seq(CommandWord)
  BY <1>0, PartsType, EmptySeq
<1>1. PICK v \in Text : v = TrimSpace(spec.method)
  BY WellFormedParts
<1>2. PICK m \in BOOLEAN : m = (v # <<>>)
  OBVIOUS
<1>3. PICK s1 \in Parsed : s1 = [NoSpec EXCEPT !.method = IF v = <<>> THEN <<"GET">> ELSE v]
  <2>1. <<"GET">> \in Text
    <3>1. "GET" \in Atoms
      BY DEF Atoms
    <3> QED
      BY <3>1, Short DEF Text
  <2> QED
    BY <2>1, ParsingType, ParsedParts
<1>4. Parse[a] = Ready(s1, m)
  <2>1. Parse[<<>>] = Ready(NoSpec, FALSE)
    BY ParseSteps DEF Parsing, Ready
  <2>2. PICK no \in BOOLEAN : no = FALSE
    OBVIOUS
  <2>3. Parse[<<>>] = Ready(NoSpec, no)
    BY <2>1, <2>2
  <2>4. Parse[<<>> \o Some("-X", v)] = Ready(s1, m)
    <3>1. PICK ws : ws = <<>>
      OBVIOUS
    <3>2. PICK s : s = NoSpec
      OBVIOUS
    <3>3. ws \in Seq(CommandWord) /\ s \in Parsed /\ Parse[ws] = Ready(s, no)
      BY <1>a, <2>3, <3>1, <3>2, ParsingType
    <3>4. v = <<>> => m = no
      BY <1>2, <2>2
    <3>5. v = <<>> => s1 = s
      <4>1. [NoSpec EXCEPT !.method = <<"GET">>] = NoSpec
        <5>1. \A x \in Parsed : [x EXCEPT !.method = x.method] = x
          BY DEF Parsed
        <5>2. NoSpec \in Parsed /\ NoSpec.method = <<"GET">>
          BY ParsingType DEF NoSpec
        <5> QED
          BY <5>1, <5>2
      <4> QED
        BY <1>3, <3>2, <4>1
    <3>6. v # <<>> => s1 = [s EXCEPT !.method = v]
      BY <1>3, <3>2
    <3>8. Given(s, no, v, s1, m)
      BY <1>2, <3>4, <3>5, <3>6 DEF Given
    <3>7. Parse[ws \o Some("-X", v)] = Ready(s1, m)
      BY <3>3, <3>8, MethodRead
    <3> QED
      BY <3>1, <3>7
  <2>5. <<>> \o a = a /\ a = Some("-X", v)
    BY <1>1, <1>a, ConcatEmptySeq DEF MethodPart
  <2> QED
    BY <2>4, <2>5
<1>5. PICK s2 \in Parsed : s2 = [s1 EXCEPT !.headers = spec.headers]
  BY WellFormedParts, ParsedParts
<1>6. s1.headers = NoHeaders /\ s2.data = <<>>
  BY <1>3, <1>5 DEF NoSpec
<1> HIDE DEF a, b
<1>7. Parse[a \o b] = Ready(s2, m)
  BY <1>4, <1>5, <1>6, <1>a, HeadersRead DEF b, HeadersPart
<1>8. a \o b \in Seq(CommandWord)
  BY <1>a, Longer
<1>9. PICK s3 \in Parsed : s3 = Filled(s2, m, Data(spec))
  BY <1>6, FilledParts, WellFormedParts
<1>10. Parse[FirstWords(spec)] = Ready(s3, m)
  <2> DEFINE ws == a \o b
  <2>1. ws \in Seq(CommandWord) /\ Parse[ws] = Ready(s2, m)
    BY <1>7, <1>8
  <2>2. FirstWords(spec) = ws \o DataOf(spec) \o (IF spec.data = <<>> THEN Some("--data-binary", spec.body) ELSE <<>>)
    BY DEF FirstWords, BodyPart, a, b
  <2> HIDE DEF ws
  <2> QED
    BY <1>6, <1>9, <2>1, <2>2, BodyRead
<1>11. s3 = [NoSpec EXCEPT !.method = IF m THEN TrimSpace(spec.method)
                                      ELSE IF Data(spec) = <<>> THEN <<"GET">> ELSE <<"POST">>,
                           !.headers = spec.headers, !.data = Data(spec)]
  <2> DEFINE d == Data(spec)
             h == spec.headers
  <2>1. s3 = [s2 EXCEPT !.data = d, !.method = IF m \/ d = <<>> THEN s2.method ELSE <<"POST">>]
    <3>1. d \in Seq(Datum)
      BY WellFormedParts
    <3>2. s3 = Filled(s2, m, d)
      BY <1>9
    <3> HIDE DEF d
    <3> QED
      BY <1>6, <3>1, <3>2, FilledParts
  <2> HIDE DEF d, h
  <2>2. PICK g : g = s2.method
    OBVIOUS
  <2>3. PICK x : x = IF m \/ d = <<>> THEN g ELSE <<"POST">>
    OBVIOUS
  <2>4. s3 = [s2 EXCEPT !.data = d, !.method = x]
    BY <2>1, <2>2, <2>3
  <2>5. s2 = [[NoSpec EXCEPT !.method = IF v = <<>> THEN <<"GET">> ELSE v] EXCEPT !.headers = h]
    BY <1>3, <1>5 DEF h
  <2>6. g = IF v = <<>> THEN <<"GET">> ELSE v
    BY <2>2, <2>5 DEF NoSpec
  <2>7. x = IF m THEN v ELSE IF d = <<>> THEN <<"GET">> ELSE <<"POST">>
    BY <1>2, <2>3, <2>6
  <2>8. s2 = [[NoSpec EXCEPT !.method = g] EXCEPT !.headers = h]
    BY <2>5, <2>6
  <2>9. s3 = [NoSpec EXCEPT !.method = x, !.headers = h, !.data = d]
    BY <2>4, <2>8 DEF NoSpec
  <2> QED
    BY <1>1, <2>7, <2>9 DEF d, h
<1> QED
  BY <1>1, <1>2, <1>10, <1>11

\* What the command says without the times, the flags and the address.
Timeless(spec) ==
  [NoSpec EXCEPT !.method = Meant(spec).method, !.headers = spec.headers, !.data = Data(spec), !.form = spec.form,
                 !.cookies = spec.cookies, !.auth = spec.auth, !.agent = spec.agent]

LEMMA MoreRead ==
  ASSUME NEW spec \in WellFormed, spec.headers["X_T"] = <<>>
  PROVE  \E m \in BOOLEAN : Timeless(spec) \in Parsed /\ Parse[MoreWords(spec)] = Ready(Timeless(spec), m)
<1> DEFINE a == FirstWords(spec)
           b == FieldsPart(spec)
           c == CookiesPart(spec)
           d == UserPart(spec)
           e == AgentPart(spec)
<1>0. spec \in Requests
  BY WellFormedAreRequests
<1>a. a \in Seq(CommandWord) /\ b \in Seq(CommandWord) /\ c \in Seq(CommandWord)
      /\ d \in Seq(CommandWord) /\ e \in Seq(CommandWord)
  BY <1>0, PartsType, CommandWordsType
<1>b. /\ spec.form \in Seq(FormField) /\ spec.cookies \in Seq(Cookie) /\ spec.auth \in User /\ spec.agent \in Text
  BY WellFormedParts
<1>c. MoreWords(spec) = a \o b \o c \o d \o e
  BY DEF MoreWords
<1>1. PICK s \in Parsed, m \in BOOLEAN :
           /\ Parse[a] = Ready(s, m)
           /\ m = (TrimSpace(spec.method) # <<>>)
           /\ s = [NoSpec EXCEPT !.method = IF m THEN TrimSpace(spec.method)
                                            ELSE IF Data(spec) = <<>> THEN <<"GET">> ELSE <<"POST">>,
                                 !.headers = spec.headers, !.data = Data(spec)]
  BY FirstRead
<1>2. s.form = <<>> /\ s.cookies = <<>> /\ s.auth = <<>> /\ s.agent = <<>>
  BY <1>1 DEF NoSpec
<1>3. PICK s1 \in Parsed : s1 = Formed(s, m, spec.form)
  BY <1>2, <1>b, FormedParts
<1>4. s1 = [s EXCEPT !.form = spec.form, !.method = IF m \/ spec.form = <<>> THEN @ ELSE <<"POST">>]
  <2>1. PICK f \in Seq(FormField) : f = spec.form
    BY <1>b
  <2>2. Formed(s, m, f) = [s EXCEPT !.form = f, !.method = IF m \/ f = <<>> THEN @ ELSE <<"POST">>]
    <3>1. s.form = <<>>
      BY <1>2
    <3> QED
      BY <3>1, FormedParts
  <2> QED
    BY <1>3, <2>1, <2>2
<1>5. s1 = [NoSpec EXCEPT !.method = Meant(spec).method, !.headers = spec.headers, !.data = Data(spec), !.form = spec.form]
  <2>1. PICK v : v = TrimSpace(spec.method)
    OBVIOUS
  <2>2. PICK g : g = IF m THEN v ELSE IF Data(spec) = <<>> THEN <<"GET">> ELSE <<"POST">>
    OBVIOUS
  <2>3. PICK x : x = IF m \/ spec.form = <<>> THEN g ELSE <<"POST">>
    OBVIOUS
  <2>4. x = Meant(spec).method
    <3>1. Meant(spec).method = IF v # <<>> THEN v ELSE IF Data(spec) = <<>> /\ spec.form = <<>> THEN <<"GET">> ELSE <<"POST">>
      BY <2>1 DEF Meant, WellFormed
    <3> QED
      BY <1>1, <2>1, <2>2, <2>3, <3>1
  <2> DEFINE f == spec.form
             h == spec.headers
             t == Data(spec)
  <2>5. s = [NoSpec EXCEPT !.method = g, !.headers = h, !.data = t]
    BY <1>1, <2>1, <2>2
  <2>6. s.method = g
    BY <2>5 DEF NoSpec
  <2>7. s1 = [s EXCEPT !.form = f, !.method = x]
    BY <1>4, <2>3, <2>6
  <2> HIDE DEF f, h, t
  <2>8. s1 = [NoSpec EXCEPT !.method = x, !.headers = h, !.data = t, !.form = f]
    BY <2>5, <2>7 DEF NoSpec
  <2> QED
    BY <2>4, <2>8 DEF f, h, t
<1>6. s1.cookies = <<>> /\ s1.auth = <<>> /\ s1.agent = <<>>
  BY <1>5 DEF NoSpec
<1>7. PICK s2 \in Parsed : s2 = [s1 EXCEPT !.cookies = spec.cookies]
  BY <1>b, ParsedParts
<1>8. s2.auth = <<>> /\ s2.agent = <<>>
  BY <1>6, <1>7 DEF Parsed
<1>9. PICK s3 \in Parsed : s3 = [s2 EXCEPT !.auth = spec.auth]
  BY <1>b, ParsedParts
<1>10. s3.agent = <<>>
  BY <1>8, <1>9 DEF Parsed
<1>11. PICK s4 \in Parsed : s4 = [s3 EXCEPT !.agent = spec.agent]
  BY <1>b, ParsedParts
<1> HIDE DEF a, b, c, d, e
<1>12. a \o b \in Seq(CommandWord) /\ Parse[a \o b] = Ready(s1, m)
  <2>1. a \o b \in Seq(CommandWord)
    BY <1>a, Longer
  <2>2. PICK fs \in Seq(FormField) : fs = spec.form
    BY <1>b
  <2>3. b = FieldWords(fs)
    BY <2>2 DEF b, FieldsPart
  <2>4. Parse[a] = Ready(s, m) /\ s.form = <<>>
    BY <1>1, <1>2
  <2>5. Parse[a \o FieldWords(fs)] = Ready(Formed(s, m, fs), m)
    BY <1>a, <2>4, FormRead
  <2> QED
    BY <1>3, <2>1, <2>2, <2>3, <2>5
<1>13. PICK u \in Seq(CommandWord) : u = a \o b
  BY <1>12
<1>14. u \o c \in Seq(CommandWord) /\ Parse[u \o c] = Ready(s2, m)
  <2>1. u \o c \in Seq(CommandWord)
    BY <1>a, Longer
  <2>2. Parse[u] = Ready(s1, m)
    BY <1>12, <1>13
  <2>3. PICK cs \in Seq(Cookie) : cs = spec.cookies
    BY <1>b
  <2>4. Parse[u \o Each("--cookie", cs)] = Ready([s1 EXCEPT !.cookies = cs], m)
    BY <1>6, <2>2, CookiesRead
  <2>5. c = Each("--cookie", cs)
    BY <2>3 DEF c, CookiesPart
  <2> QED
    BY <1>7, <2>1, <2>3, <2>4, <2>5
<1>15. PICK w \in Seq(CommandWord) : w = u \o c
  BY <1>14
<1>16. w \o d \in Seq(CommandWord) /\ Parse[w \o d] = Ready(s3, m)
  <2>1. w \o d \in Seq(CommandWord)
    BY <1>a, Longer
  <2>2. Parse[w] = Ready(s2, m)
    BY <1>14, <1>15
  <2>3. PICK x \in User : x = spec.auth
    BY <1>b
  <2>4. Parse[w \o (IF x = <<>> THEN <<>> ELSE Some("--user", x[1] \o <<":">> \o x[2]))] = Ready([s2 EXCEPT !.auth = x], m)
    BY <1>8, <2>2, UserRead
  <2>5. d = IF x = <<>> THEN <<>> ELSE Some("--user", x[1] \o <<":">> \o x[2])
    BY <2>3 DEF d, UserPart
  <2> QED
    BY <1>9, <2>1, <2>3, <2>4, <2>5
<1>17. PICK y \in Seq(CommandWord) : y = w \o d
  BY <1>16
<1>18. Parse[y \o e] = Ready(s4, m)
  <2>1. Parse[y] = Ready(s3, m)
    BY <1>16, <1>17
  <2>2. PICK v \in Text : v = spec.agent
    BY <1>b
  <2>3. Parse[y \o Some("--user-agent", v)] = Ready([s3 EXCEPT !.agent = v], m)
    BY <1>10, <2>1, AgentRead
  <2> QED
    BY <1>11, <2>2, <2>3 DEF e, AgentPart
<1>19. s4 = Timeless(spec)
  <2> DEFINE x == Meant(spec).method
             h == spec.headers
             t == Data(spec)
             f == spec.form
             cs == spec.cookies
             au == spec.auth
             ag == spec.agent
  <2>1. s1 = [NoSpec EXCEPT !.method = x, !.headers = h, !.data = t, !.form = f]
    BY <1>5
  <2>2. s4 = [[[s1 EXCEPT !.cookies = cs] EXCEPT !.auth = au] EXCEPT !.agent = ag]
    BY <1>7, <1>9, <1>11
  <2>3. Timeless(spec) = [NoSpec EXCEPT !.method = x, !.headers = h, !.data = t, !.form = f, !.cookies = cs, !.auth = au, !.agent = ag]
    BY DEF Timeless
  <2> HIDE DEF x, h, t, f, cs, au, ag
  <2> QED
    BY <2>1, <2>2, <2>3 DEF NoSpec
<1> QED
  BY <1>c, <1>13, <1>15, <1>17, <1>18, <1>19

LEMMA LastRead ==
  ASSUME NEW spec \in WellFormed, spec.headers["X_T"] = <<>>
  PROVE  \E m \in BOOLEAN, s \in Parsed :
           /\ Parse[LastWords(spec)] = Ready(s, m)
           /\ s = [Timeless(spec) EXCEPT !.connect = spec.connect, !.max = spec.max,
                                         !.insecure = spec.insecure, !.follow = spec.follow]
<1> DEFINE a == MoreWords(spec)
           b == ConnectPart(spec)
           c == MaxPart(spec)
           d == InsecurePart(spec)
           e == FollowPart(spec)
<1>0. spec \in Requests
  BY WellFormedAreRequests
<1>a. a \in Seq(CommandWord) /\ b \in Seq(CommandWord) /\ c \in Seq(CommandWord)
      /\ d \in Seq(CommandWord) /\ e \in Seq(CommandWord)
  BY <1>0, PartsType, CommandWordsType
<1>b. spec.connect \in Times /\ spec.max \in Times /\ spec.insecure \in BOOLEAN /\ spec.follow \in BOOLEAN
  BY WellFormedParts
<1>c. LastWords(spec) = a \o b \o c \o d \o e
  BY DEF LastWords
<1>1. PICK m \in BOOLEAN : Timeless(spec) \in Parsed /\ Parse[a] = Ready(Timeless(spec), m)
  BY MoreRead
<1>2. PICK s \in Parsed : s = Timeless(spec)
  BY <1>1
<1>3. s.connect = 0 /\ s.max = 0 /\ s.insecure = FALSE /\ s.follow = FALSE
  BY <1>2 DEF Timeless, NoSpec
<1>4. \A x \in Parsed : /\ \A b1 \in BOOLEAN : [x EXCEPT !.insecure = b1] \in Parsed /\ [x EXCEPT !.insecure = b1].follow = x.follow
                        /\ \A b1 \in BOOLEAN : [x EXCEPT !.follow = b1] \in Parsed
                        /\ \A t \in Times : [x EXCEPT !.connect = t].insecure = x.insecure /\ [x EXCEPT !.connect = t].follow = x.follow
                                            /\ [x EXCEPT !.connect = t].max = x.max
                        /\ \A t \in Times : [x EXCEPT !.max = t].insecure = x.insecure /\ [x EXCEPT !.max = t].follow = x.follow
  BY DEF Parsed
<1>5. PICK s1 \in Parsed : s1 = [s EXCEPT !.connect = spec.connect]
  BY <1>b, ParsedParts
<1>6. s1.max = 0 /\ s1.insecure = FALSE /\ s1.follow = FALSE
  BY <1>3, <1>4, <1>5, <1>b
<1>7. PICK s2 \in Parsed : s2 = [s1 EXCEPT !.max = spec.max]
  BY <1>b, ParsedParts
<1>8. s2.insecure = FALSE /\ s2.follow = FALSE
  BY <1>4, <1>6, <1>7, <1>b
<1>9. PICK s3 \in Parsed : s3 = [s2 EXCEPT !.insecure = spec.insecure]
  BY <1>4, <1>b
<1>10. s3.follow = FALSE
  BY <1>4, <1>8, <1>9, <1>b
<1>11. PICK s4 \in Parsed : s4 = [s3 EXCEPT !.follow = spec.follow]
  BY <1>4, <1>b
<1> HIDE DEF a, b, c, d, e
<1>12. a \o b \in Seq(CommandWord) /\ Parse[a \o b] = Ready(s1, m)
  <2>1. a \o b \in Seq(CommandWord)
    BY <1>a, Longer
  <2>2. PICK x \in Times : x = spec.connect
    BY <1>b
  <2>3. Parse[a] = Ready(s, m)
    BY <1>1, <1>2
  <2>4. Parse[a \o Time("--connect-timeout", x)] = Ready([s EXCEPT !.connect = x], m)
    BY <1>3, <1>a, <2>3, ConnectRead
  <2> QED
    BY <1>5, <2>1, <2>2, <2>4 DEF b, ConnectPart
<1>13. PICK u \in Seq(CommandWord) : u = a \o b
  BY <1>12
<1>14. u \o c \in Seq(CommandWord) /\ Parse[u \o c] = Ready(s2, m)
  <2>1. u \o c \in Seq(CommandWord)
    BY <1>a, Longer
  <2>2. PICK x \in Times : x = spec.max
    BY <1>b
  <2>3. Parse[u] = Ready(s1, m)
    BY <1>12, <1>13
  <2>4. Parse[u \o Time("--max-time", x)] = Ready([s1 EXCEPT !.max = x], m)
    BY <1>6, <2>3, MaxRead
  <2> QED
    BY <1>7, <2>1, <2>2, <2>4 DEF c, MaxPart
<1>15. PICK w \in Seq(CommandWord) : w = u \o c
  BY <1>14
<1>16. w \o d \in Seq(CommandWord) /\ Parse[w \o d] = Ready(s3, m)
  <2>1. w \o d \in Seq(CommandWord)
    BY <1>a, Longer
  <2>2. PICK x \in BOOLEAN : x = spec.insecure
    BY <1>b
  <2>3. Parse[w] = Ready(s2, m)
    BY <1>14, <1>15
  <2>4. Parse[w \o Switch("--insecure", x)] = Ready([s2 EXCEPT !.insecure = x], m)
    <3>1. s2.insecure = FALSE
      BY <1>8
    <3>2. \A ws \in Seq(CommandWord), y \in Parsed :
             Parse[ws] = Ready(y, m) /\ y.insecure = FALSE
               => Parse[ws \o Switch("--insecure", x)] = Ready([y EXCEPT !.insecure = x], m)
      <4> SUFFICES ASSUME NEW ws \in Seq(CommandWord), NEW y \in Parsed, Parse[ws] = Ready(y, m), y.insecure = FALSE
                   PROVE  Parse[ws \o Switch("--insecure", x)] = Ready([y EXCEPT !.insecure = x], m)
        OBVIOUS
      <4> QED
        BY InsecureRead, ZenonT(60)
    <3> QED
      BY <2>3, <3>1, <3>2
  <2> QED
    BY <1>9, <2>1, <2>2, <2>4 DEF d, InsecurePart
<1>17. PICK y \in Seq(CommandWord) : y = w \o d
  BY <1>16
<1>18. Parse[y \o e] = Ready(s4, m)
  <2>1. Parse[y] = Ready(s3, m)
    BY <1>16, <1>17
  <2>2. PICK x \in BOOLEAN : x = spec.follow
    BY <1>b
  <2>3. Parse[y \o Switch("--location", x)] = Ready([s3 EXCEPT !.follow = x], m)
    BY <1>10, <2>1, FollowRead, ZenonT(60)
  <2> QED
    BY <1>11, <2>2, <2>3 DEF e, FollowPart
<1>19. s4 = [s EXCEPT !.connect = spec.connect, !.max = spec.max, !.insecure = spec.insecure, !.follow = spec.follow]
  BY <1>5, <1>7, <1>9, <1>11
<1> QED
  BY <1>2, <1>c, <1>13, <1>15, <1>17, <1>18, <1>19

LEMMA CommandRead ==
  ASSUME NEW spec \in WellFormed, spec.headers["X_T"] = <<>>, spec.url # <<>>,
         NEW q, q = Parse[CommandWords(spec)]
  PROVE  q.spec = Meant(spec) /\ q.failed = FALSE /\ q.need = "" /\ q.json = FALSE
<1>0. spec \in Requests
  BY WellFormedAreRequests
<1>1. PICK m \in BOOLEAN, s \in Parsed :
           /\ Parse[LastWords(spec)] = Ready(s, m)
           /\ s = [Timeless(spec) EXCEPT !.connect = spec.connect, !.max = spec.max,
                                         !.insecure = spec.insecure, !.follow = spec.follow]
  BY LastRead
<1>2. PICK ws \in Seq(CommandWord) : ws = LastWords(spec)
  BY <1>0, CommandWordsType
<1>3. PICK u \in Text : u = spec.url
  BY WellFormedParts
<1>4. q = Parse[ws \o Switch("--", IsOption(u)) \o <<Value(u)>>]
  BY <1>0, <1>2, <1>3, CommandWordsType DEF DashesPart, UrlPart
<1>5. s.url = <<>>
  BY <1>1 DEF Timeless, NoSpec
<1>6. u # <<>> /\ Parse[ws] = Ready(s, m)
  BY <1>1, <1>2, <1>3
<1>7. q.spec = [s EXCEPT !.url = u] /\ q.failed = FALSE /\ q.need = "" /\ q.json = FALSE
  <2>1. u # <<>>
    BY <1>6
  <2>2. Parse[ws] = Ready(s, m)
    BY <1>6
  <2>3. Addressed(ws, u, q)
    BY <1>4 DEF Addressed
  <2>4. Ended(s, u, q)
    BY <1>5, <2>1, <2>2, <2>3, UrlRead
  <2> QED
    BY <2>4 DEF Ended
<1>8. [s EXCEPT !.url = u] = Meant(spec)
  <2> DEFINE x == Meant(spec).method
             t == Data(spec)
  <2>1. Meant(spec) = [spec EXCEPT !.method = x, !.data = t, !.body = <<>>]
    BY DEF Meant, WellFormed
  <2>2. s = [[NoSpec EXCEPT !.method = x, !.headers = spec.headers, !.data = t, !.form = spec.form,
                            !.cookies = spec.cookies, !.auth = spec.auth, !.agent = spec.agent]
               EXCEPT !.connect = spec.connect, !.max = spec.max, !.insecure = spec.insecure, !.follow = spec.follow]
    BY <1>1 DEF Timeless
  <2> HIDE DEF x, t
  <2>3. PICK r : r = [spec EXCEPT !.method = x, !.data = t, !.body = <<>>]
    OBVIOUS
  <2>4. DOMAIN r = DOMAIN NoSpec /\ r = [f \in DOMAIN NoSpec |-> r[f]]
    BY <2>3 DEF WellFormed, NoSpec
  <2>5. /\ r.method = x /\ r.url = u /\ r.headers = spec.headers /\ r.body = <<>> /\ r.data = t /\ r.form = spec.form
        /\ r.auth = spec.auth /\ r.cookies = spec.cookies /\ r.agent = spec.agent /\ r.connect = spec.connect
        /\ r.max = spec.max
    BY <1>3, <2>3 DEF WellFormed
  <2>6. r.follow = spec.follow /\ r.insecure = spec.insecure
    BY <2>3 DEF WellFormed
  <2>7. PICK y : y = [s EXCEPT !.url = u]
    OBVIOUS
  <2>8. DOMAIN y = DOMAIN NoSpec /\ y = [f \in DOMAIN NoSpec |-> y[f]]
    BY <2>2, <2>7 DEF NoSpec
  <2>9. /\ y.method = x /\ y.url = u /\ y.headers = spec.headers /\ y.body = <<>> /\ y.data = t /\ y.form = spec.form
        /\ y.auth = spec.auth /\ y.cookies = spec.cookies /\ y.agent = spec.agent /\ y.connect = spec.connect
        /\ y.max = spec.max
    BY <2>2, <2>7 DEF NoSpec
  <2>10. y.follow = spec.follow /\ y.insecure = spec.insecure
    BY <2>2, <2>7 DEF NoSpec
  <2>11. \A f \in DOMAIN NoSpec : y[f] = r[f]
    BY <2>5, <2>6, <2>9, <2>10 DEF NoSpec
  <2>12. y = r
    BY <2>4, <2>8, <2>11
  <2> QED
    BY <2>1, <2>3, <2>7, <2>12
<1> QED
  BY <1>7, <1>8

\* A request with one kind of body, written by FormatCURL and read by ParseCURL, is
\* the request that the command says, whatever quotation marks, operators of the
\* shell, dashes and white space are in its values.
THEOREM FormattedMeansItself ==
  ASSUME NEW spec \in WellFormed, spec.headers["X_T"] = <<>>, OneBody(spec)
  PROVE  \A text \in FormatCURL(spec) : ParseCURL(text) = {Meant(spec)}
<1> SUFFICES ASSUME NEW text \in FormatCURL(spec)
             PROVE  ParseCURL(text) = {Meant(spec)}
  OBVIOUS
<1>0. spec \in Requests
  BY WellFormedAreRequests
<1>1. spec.url # <<>>
  BY DEF FormatCURL
<1>2. PICK ws \in Seq(CommandWord) : ws = CommandWords(spec)
  BY <1>0, CommandWordsType
<1>3. PICK ps \in Seq(Text) : ps = Plainly(ws)
  BY RestSteps
<1>4. PICK q : q = Parse[ws]
  OBVIOUS
<1>5. FoldLeft(ParseArg, Parsing, ps) = q
  BY <1>3, <1>4, ParseSteps
<1>6. q.spec = Meant(spec) /\ q.failed = FALSE /\ q.need = "" /\ q.json = FALSE
  BY <1>1, <1>2, <1>4, CommandRead
<1>7. PICK args : args = <<<<"curl">>>> \o ps
  OBVIOUS
<1>8. splitCurlCommand(text) = {args}
  BY <1>0, <1>2, <1>3, <1>7, FormattedIsSplit
<1>9. args # <<>> /\ args[1] = <<"curl">> /\ Tail(args) = ps
  <2> DEFINE w == <<"curl">>
             T == Text
  <2>1. w \in T
    <3>1. "curl" \in Atoms
      BY DEF Atoms
    <3> QED
      BY <3>1, Short DEF Text
  <2>2. ps \in Seq(T) /\ args = <<w>> \o ps
    BY <1>3, <1>7
  <2> HIDE DEF w, T
  <2>3. args \in Seq(T) /\ Len(args) = 1 + Len(ps) /\ args[1] = w /\ Len(ps) \in Nat
        /\ \A i \in 1 .. Len(ps) : args[i + 1] = ps[i]
    BY <2>1, <2>2, ConcatProperties, LenProperties
  <2>4. args # <<>>
    BY <2>3
  <2>5. Tail(args) \in Seq(T) /\ Len(Tail(args)) = Len(args) - 1 /\ \A i \in 1 .. Len(Tail(args)) : Tail(args)[i] = args[i + 1]
    BY <2>3, <2>4, HeadTailProperties
  <2>6. Tail(args) = ps
    BY <2>2, <2>3, <2>5, SeqEqual
  <2> QED
    BY <2>3, <2>4, <2>6 DEF w
<1> DEFINE complete(p) == /\ ~p.failed /\ p.need = "" /\ p.spec.url # <<>>
                          /\ p.spec.data = <<>> \/ p.spec.form = <<>>
           named == {as \in splitCurlCommand(text) : as # <<>> /\ as[1] = <<"curl">>}
           parsed == {FoldLeft(ParseArg, Parsing, Tail(as)) : as \in named}
           request(p) == IF p.json THEN JSONDefaults(p.spec) ELSE p.spec
<1>10. ParseCURL(text) = {request(p) : p \in {x \in parsed : complete(x)}}
  BY DEF ParseCURL
<1>11. named = {args}
  BY <1>8, <1>9
<1>12. parsed = {q}
  <2> HIDE DEF named
  <2>1. parsed = {FoldLeft(ParseArg, Parsing, Tail(args))}
    BY <1>11
  <2> QED
    BY <1>5, <1>9, <2>1
<1>13. complete(q)
  <2>1. Meant(spec).url = spec.url /\ Meant(spec).data = Data(spec) /\ Meant(spec).form = spec.form
    BY DEF Meant, WellFormed
  <2>2. Data(spec) = <<>> \/ spec.form = <<>>
    BY DEF OneBody, Data
  <2> QED
    BY <1>1, <1>6, <2>1, <2>2
<1>14. request(q) = Meant(spec)
  BY <1>6
<1> HIDE DEF parsed, complete, request
<1>15. {x \in parsed : complete(x)} = {q}
  BY <1>12, <1>13
<1> QED
  BY <1>10, <1>14, <1>15

\* What the command of a request says is sent as the request is.
LEMMA OneDatum ==
  ASSUME NEW v \in Text, ~StartsWith(v, "@")
  PROVE  All([i \in DOMAIN <<[kind |-> "--data-binary", value |-> v]>> |->
                dataPartBytes(<<[kind |-> "--data-binary", value |-> v]>>[i])], <<"&">>) = {v}
<1> DEFINE d == [kind |-> "--data-binary", value |-> v]
           ps == [i \in DOMAIN <<d>> |-> dataPartBytes(<<d>>[i])]
<1>1. dataPartBytes(d) = {v}
  BY DEF dataPartBytes, Content
<1>2. DOMAIN <<d>> = {1} /\ <<d>>[1] = d
  OBVIOUS
<1>3. ps = <<{v}>>
  <2> HIDE DEF d
  <2>1. ps = [i \in {1} |-> {v}]
    BY <1>1, <1>2
  <2>2. <<{v}>> = [i \in {1} |-> {v}]
    OBVIOUS
  <2> QED
    BY <2>1, <2>2
<1> HIDE DEF ps, d
<1> DEFINE ts == [i \in DOMAIN ps |-> CHOOSE t \in ps[i] : TRUE]
<1>4. ts = <<v>>
  <2>1. (CHOOSE t \in {v} : TRUE) = v
    OBVIOUS
  <2>2. ts = [i \in {1} |-> v]
    BY <1>3, <2>1
  <2>3. <<v>> = [i \in {1} |-> v]
    OBVIOUS
  <2> QED
    BY <2>2, <2>3
<1>5. Joined(<<v>>, <<"&">>) = v
  <2> DEFINE J == [i \in DOMAIN <<v>> |-> (IF i = 1 THEN <<>> ELSE <<"&">>) \o <<v>>[i]]
  <2>1. <<>> \o v = v
    BY ConcatEmptySeq DEF Text
  <2>2. J = <<v>>
    <3>1. J = [i \in {1} |-> v]
      BY <2>1
    <3>2. <<v>> = [i \in {1} |-> v]
      OBVIOUS
    <3> QED
      BY <3>1, <3>2
  <2>3. FlattenSeq(<<v>>) = v
    <3> DEFINE T == Seq(Atoms)
    <3>1. FlattenSeq(<<>>) = <<>> /\ \A s \in Seq(T), x \in T : FlattenSeq(Append(s, x)) = FlattenSeq(s) \o x
      BY Flatten
    <3>2. v \in T
      BY DEF Text
    <3> HIDE DEF T
    <3>3. <<>> \in Seq(T) /\ Append(<<>>, v) = <<v>>
      BY <3>2, Short, EmptySeq
    <3> QED
      BY <2>1, <3>1, <3>2, <3>3
  <2> HIDE DEF J
  <2> QED
    BY <2>2, <2>3 DEF Joined, J
<1>6. {} \notin ToSet(ps)
  BY <1>3 DEF ToSet
<1>7. All(ps, <<"&">>) = {Joined(ts, <<"&">>)}
  BY <1>6 DEF All
<1> QED
  BY <1>4, <1>5, <1>7 DEF ps, d

LEMMA MethodTwice ==
  ASSUME NEW spec \in WellFormed
  PROVE  TrimSpace(Meant(spec).method) = Meant(spec).method /\ Meant(spec).method # <<>>
<1>1. TrimSpace(TrimSpace(spec.method)) = TrimSpace(spec.method)
  BY WellFormedParts, TrimmedAre
<1>2. TrimSpace(<<"GET">>) = <<"GET">> /\ TrimSpace(<<"POST">>) = <<"POST">>
  <2>1. "GET" \in Atoms /\ "POST" \in Atoms /\ Ink("GET") /\ Ink("POST")
    BY DEF Atoms, Ink
  <2> QED
    BY <2>1, TrimmedAre
<1>3. Meant(spec).method = IF TrimSpace(spec.method) # <<>> THEN TrimSpace(spec.method)
                           ELSE IF Data(spec) = <<>> /\ spec.form = <<>> THEN <<"GET">> ELSE <<"POST">>
  BY DEF Meant, WellFormed
<1>4. <<"GET">> # <<>> /\ <<"POST">> # <<>>
  OBVIOUS
<1> QED
  BY <1>1, <1>2, <1>3, <1>4

\* The type of the body does not matter to a request that names one.
LEMMA NamedType ==
  ASSUME NEW spec, HasHeader(spec.headers, "Content-Type"), NEW type
  PROVE  HeadersOf(spec, type) = HeadersOf(spec, <<>>)
<1>1. DefaultHeader(spec.headers, "Content-Type", type) = spec.headers
  BY DEF DefaultHeader
<1> QED
  BY <1>1 DEF HeadersOf

LEMMA MeantHeaders ==
  ASSUME NEW spec \in WellFormed, NEW type
  PROVE  HeadersOf(Meant(spec), type) = HeadersOf(spec, type)
<1>1. /\ Meant(spec).headers = spec.headers /\ Meant(spec).auth = spec.auth
      /\ Meant(spec).cookies = spec.cookies /\ Meant(spec).agent = spec.agent
  BY DEF Meant, WellFormed
<1> QED
  BY <1>1 DEF HeadersOf

\* The request with a body and its type.
Leaving(spec, method, b) ==
  [url |-> spec.url, method |-> method, headers |-> HeadersOf(spec, b.type), body |-> b.bytes, max |-> spec.max,
   connect |-> spec.connect, follow |-> spec.follow, insecure |-> spec.insecure]

SentMethod(spec) ==
  CASE TrimSpace(spec.method) # <<>> -> TrimSpace(spec.method)
    [] TrimSpace(spec.method) = <<>> /\ spec.data \o spec.form \o spec.body # <<>> -> <<"POST">>
    [] OTHER -> <<"GET">>

LEMMA SentIs ==
  ASSUME NEW spec
  PROVE  DoHTTPRequest(spec) = IF spec.url \notin Absolute \/ ~OneLine(spec.headers) THEN {}
                               ELSE {Leaving(spec, SentMethod(spec), b) : b \in buildBody(spec)}
BY DEF DoHTTPRequest, Leaving, SentMethod

LEMMA MeantMethod ==
  ASSUME NEW spec \in WellFormed
  PROVE  SentMethod(Meant(spec)) = Meant(spec).method /\ SentMethod(spec) = Meant(spec).method
<1>1. SentMethod(Meant(spec)) = Meant(spec).method
  BY MethodTwice DEF SentMethod
<1>2. SentMethod(spec) = Meant(spec).method
  <2>1. Meant(spec).method = IF TrimSpace(spec.method) # <<>> THEN TrimSpace(spec.method)
                             ELSE IF Data(spec) = <<>> /\ spec.form = <<>> THEN <<"GET">> ELSE <<"POST">>
    BY DEF Meant, WellFormed
  <2>2. spec.data \o spec.form \o spec.body = <<>> <=> Data(spec) = <<>> /\ spec.form = <<>>
    <3> DEFINE d == spec.data
               f == spec.form
               b == spec.body
    <3>1. /\ d \in Seq(Datum) /\ f \in Seq(FormField) /\ b \in Seq(Atoms)
      BY WellFormedParts DEF Text
    <3>2. Data(spec) = <<>> <=> d = <<>> /\ b = <<>>
      BY DEF Data
    <3> DEFINE A == Datum \cup FormField \cup Atoms
    <3>3. d \in Seq(A) /\ f \in Seq(A) /\ b \in Seq(A)
      <4>1. Datum \subseteq A /\ FormField \subseteq A /\ Atoms \subseteq A
        OBVIOUS
      <4> HIDE DEF A, d, f, b
      <4> QED
        BY <3>1, <4>1, SeqOfMore
    <3> HIDE DEF A, d, f, b
    <3>4. \A x \in Seq(A), y \in Seq(A) : x \o y \in Seq(A) /\ (x \o y = <<>> <=> x = <<>> /\ y = <<>>)
      <4>1. \A x \in Seq(A) : x = <<>> <=> Len(x) = 0
        BY EmptySeq
      <4>2. \A x \in Seq(A), y \in Seq(A) : x \o y \in Seq(A) /\ Len(x \o y) = Len(x) + Len(y) /\ Len(x) \in Nat /\ Len(y) \in Nat
        BY ConcatProperties, LenProperties
      <4> QED
        BY <4>1, <4>2
    <3>5. d \o f \o b = <<>> <=> d = <<>> /\ f = <<>> /\ b = <<>>
      BY <3>3, <3>4
    <3> QED
      BY <3>2, <3>5 DEF d, f, b
  <2>3. CASE TrimSpace(spec.method) # <<>>
    BY <2>1, <2>3 DEF SentMethod
  <2>4. CASE TrimSpace(spec.method) = <<>> /\ spec.data \o spec.form \o spec.body # <<>>
    BY <2>1, <2>2, <2>4 DEF SentMethod
  <2>5. CASE TrimSpace(spec.method) = <<>> /\ spec.data \o spec.form \o spec.body = <<>>
    BY <2>1, <2>2, <2>5 DEF SentMethod
  <2> QED
    BY <2>3, <2>4, <2>5
<1> QED
  BY <1>1, <1>2

LEMMA MeantIsSent ==
  ASSUME NEW spec \in WellFormed, OneBody(spec), Expressible(spec)
  PROVE  DoHTTPRequest(Meant(spec)) = DoHTTPRequest(spec)
<1> DEFINE s == Meant(spec)
<1>1. /\ s.url = spec.url /\ s.headers = spec.headers /\ s.max = spec.max /\ s.connect = spec.connect
      /\ s.data = Data(spec) /\ s.form = spec.form /\ s.body = <<>>
  BY DEF Meant, WellFormed
<1>2. s.follow = spec.follow /\ s.insecure = spec.insecure
  BY DEF Meant, WellFormed
<1> HIDE DEF s
<1>3. \A type : HeadersOf(s, type) = HeadersOf(spec, type)
  BY MeantHeaders DEF s
<1>4. SentMethod(s) = SentMethod(spec)
  BY MeantMethod DEF s
<1>5. \A b, c, m : b.bytes = c.bytes /\ HeadersOf(spec, b.type) = HeadersOf(spec, c.type) => Leaving(s, m, b) = Leaving(spec, m, c)
  BY <1>1, <1>2, <1>3 DEF Leaving
<1>6. {Leaving(s, SentMethod(s), b) : b \in buildBody(s)} = {Leaving(spec, SentMethod(spec), b) : b \in buildBody(spec)}
  <2>1. CASE spec.body = <<>>
    <3>1. Data(spec) = spec.data
      BY <2>1 DEF Data
    <3>2. buildBody(s) = buildBody(spec)
      BY <1>1, <2>1, <3>1 DEF buildBody
    <3>3. \A b, m : Leaving(s, m, b) = Leaving(spec, m, b)
      BY <1>5
    <3> QED
      BY <1>4, <3>2, <3>3
  <2>2. CASE spec.body # <<>>
    <3> DEFINE v == spec.body
               h == HasHeader(spec.headers, "Content-Type")
               x == [type |-> <<>>, bytes |-> v]
               y == [type |-> <<"urlencoded">>, bytes |-> v]
               ds == <<[kind |-> "--data-binary", value |-> v]>>
    <3>1. spec.data = <<>> /\ spec.form = <<>> /\ v \in Text
      BY <2>2, WellFormedParts DEF OneBody
    <3>2. h /\ ~StartsWith(v, "@")
      BY <2>2 DEF Expressible
    <3>3. spec.data \o spec.form = <<>>
      BY <3>1, EmptySeq, ConcatEmptySeq
    <3>4. buildBody(spec) = {x}
      BY <3>1, <3>3 DEF buildBody
    <3>5. s.data = ds /\ s.data # <<>> /\ s.form = <<>>
      BY <1>1, <2>2, <3>1 DEF Data
    <3>6. All([i \in DOMAIN ds |-> dataPartBytes(ds[i])], <<"&">>) = {v}
      BY <3>1, <3>2, OneDatum
    <3>7. buildBody(s) = {[type |-> <<"urlencoded">>, bytes |-> t] : t \in {v}}
      <4> HIDE DEF ds, v
      <4>1. All([i \in DOMAIN s.data |-> dataPartBytes(s.data[i])], <<"&">>) = {v}
        BY <3>5, <3>6
      <4>2. buildBody(s) = {[type |-> <<"urlencoded">>, bytes |-> t] :
                              t \in All([i \in DOMAIN s.data |-> dataPartBytes(s.data[i])], <<"&">>)}
        BY <1>1, <3>5 DEF buildBody
      <4> QED
        BY <4>1, <4>2
    <3>8. buildBody(s) = {y}
      BY <3>7
    <3>9. HeadersOf(spec, y.type) = HeadersOf(spec, x.type)
      <4>1. x.type = <<>>
        OBVIOUS
      <4>2. HeadersOf(spec, y.type) = HeadersOf(spec, <<>>)
        <5>1. PICK type : type = y.type
          OBVIOUS
        <5> QED
          BY <3>2, <5>1, NamedType
      <4> QED
        BY <4>1, <4>2
    <3>10. y.bytes = x.bytes
      OBVIOUS
    <3> HIDE DEF x, y
    <3>11. \A m : Leaving(s, m, y) = Leaving(spec, m, x)
      BY <1>5, <3>9, <3>10
    <3> QED
      BY <1>4, <3>4, <3>8, <3>11
  <2> QED
    BY <2>1, <2>2
<1> QED
  BY <1>1, <1>6, SentIs DEF s

-----------------------------------------------------------------------------
(* The headers of a window                                                   *)

\* The lines so far; the last is not at its end.
LineLists == Seq(Text) \ {<<>>}

LEMMA FrontOfAppend ==
  ASSUME NEW X, NEW s \in Seq(X), NEW x \in X
  PROVE  Front(Append(s, x)) = s /\ Last(Append(s, x)) = x /\ Append(s, x) # <<>>
<1> DEFINE a == Append(s, x)
           n == Len(s)
<1>1. a \in Seq(X) /\ Len(a) = n + 1 /\ a[n + 1] = x /\ n \in Nat /\ \A i \in 1 .. n : a[i] = s[i] /\ a[i] \in X
  BY AppendProperties, LenProperties
<1> HIDE DEF a, n
<1>2. a # <<>>
  BY <1>1
<1>3. Last(a) = x
  BY <1>1 DEF Last
<1>4. Front(a) = SubSeq(a, 1, n)
  BY <1>1 DEF Front
<1>5. SubSeq(a, 1, n) \in Seq(X) /\ Len(SubSeq(a, 1, n)) = n /\ \A i \in 1 .. n : SubSeq(a, 1, n)[i] = a[1 + i - 1]
  BY <1>1, PartOf
<1>6. SubSeq(a, 1, n) = s
  <2> DEFINE b == SubSeq(a, 1, n)
  <2>1. b \in Seq(X) /\ Len(b) = n /\ \A i \in 1 .. n : b[i] = s[i]
    BY <1>1, <1>5
  <2> HIDE DEF b
  <2>2. b = s
    BY <2>1, SeqEqual DEF n
  <2> QED
    BY <2>2 DEF b
<1> QED
  BY <1>2, <1>3, <1>4, <1>6 DEF a

LEMMA NextLineType ==
  ASSUME NEW ls \in LineLists, NEW c \in Atoms
  PROVE  NextLine(ls, c) \in LineLists
<1> DEFINE T == Text
           n == Len(ls)
<1>1. <<>> \in T
  BY EmptySeq DEF Text
<1>2. ls \in Seq(T) /\ ls # <<>>
  BY DEF LineLists
<1>3. \A s \in Seq(T), t \in T : Append(s, t) \in Seq(T) /\ Append(s, t) # <<>>
  <2> HIDE DEF T
  <2> QED
    BY AppendProperties, FrontOfAppend
<1>4. \A t \in T : Append(t, c) \in T
  BY AppendProperties DEF Text
<1>5. Front(ls) \in Seq(T) /\ Last(ls) \in T
  <2> HIDE DEF T
  <2>1. n \in Nat /\ n > 0 /\ \A i \in 1 .. n : ls[i] \in T
    BY <1>2, LenProperties, EmptySeq
  <2>2. PICK m \in Nat : m = n - 1
    BY <2>1
  <2>3. SubSeq(ls, 1, m) \in Seq(T)
    <3>1. \A i \in 1 .. m : ls[i] \in T
      BY <2>1, <2>2
    <3>2. m \in Int /\ m = m - 1 + 1
      BY <2>2
    <3> QED
      BY <3>1, <3>2, PartOf
  <2> QED
    BY <2>1, <2>2, <2>3 DEF Front, Last
<1> HIDE DEF T
<1>6. CASE c = "NL"
  <2>1. NextLine(ls, c) = Append(ls, <<>>)
    BY <1>6 DEF NextLine
  <2> QED
    BY <1>1, <1>2, <1>3, <2>1 DEF LineLists, T
<1>7. CASE c # "NL"
  <2>1. NextLine(ls, c) = Append(Front(ls), Append(Last(ls), c))
    BY <1>7 DEF NextLine
  <2> QED
    BY <1>3, <1>4, <1>5, <2>1 DEF LineLists, T
<1> QED
  BY <1>6, <1>7

\* strings.Split, one atom after the other.
Splitting == [ls \in LineLists |-> [c \in Atoms |-> NextLine(ls, c)]]

LEMMA SplittingFold ==
  ASSUME NEW p \in LineLists, NEW seq \in Seq(Atoms), NEW g, Fold(g, seq, LineLists, p, Splitting)
  PROVE  FoldLeft(NextLine, p, seq) = g[Len(seq)]
<1> DEFINE n == Len(seq)
           S == LineLists
           X == Atoms
           Op == Splitting
           Eq(f) == f = [A \in SUBSET DOMAIN seq |-> IF A = {} THEN p ELSE NextLine(f[A \ {Max(A)}], seq[Max(A)])]
<1>1. Op \in [S -> [X -> S]] /\ \A q \in S, a \in X : Op[q][a] = NextLine(q, a)
  BY NextLineType DEF Splitting
<1>2. n \in Nat /\ DOMAIN seq = 1 .. n /\ seq \in Seq(X) /\ p \in S /\ Fold(g, seq, S, p, Op)
  BY LenProperties
<1>3. \A i \in 1 .. n : seq[i] \in X
  BY ElementOfSeq
<1> HIDE DEF S, X, Op, n
<1>4. \A A \in SUBSET (1 .. n) : A # {} => Max(A) \in 1 .. n /\ A \ {Max(A)} \in SUBSET (1 .. n)
  BY <1>2, MaxOf
<1>5. PICK f : SetFold(f, seq, S, p, Op)
  BY <1>1, <1>2, SetFoldExists
<1>6. Eq(f)
  <2>1. /\ f \in [SUBSET (1 .. n) -> S] /\ f[{}] = p
        /\ \A A \in SUBSET (1 .. n) : A # {} => f[A] = Op[f[A \ {Max(A)}]][seq[Max(A)]]
    BY <1>5 DEF SetFold, n
  <2>2. \A A \in SUBSET (1 .. n) : A # {} => f[A] = NextLine(f[A \ {Max(A)}], seq[Max(A)])
    BY <1>1, <1>3, <1>4, <2>1
  <2>3. f = [A \in SUBSET (1 .. n) |-> f[A]]
    BY <2>1
  <2> QED
    BY <1>2, <2>1, <2>2, <2>3
<1> DEFINE c == CHOOSE h : Eq(h)
<1>7. Eq(c)
  <2> HIDE DEF Eq
  <2> QED
    BY <1>6, Zenon
<1>8. FoldLeft(NextLine, p, seq) = c[1 .. n]
  BY <1>2 DEF FoldLeft, MapThenFoldSet
<1> HIDE DEF c
<1>9. \A A \in SUBSET (1 .. n) : c[A] = IF A = {} THEN p ELSE NextLine(c[A \ {Max(A)}], seq[Max(A)])
  <2> DEFINE D == SUBSET (1 .. n)
  <2>1. c = [A \in D |-> IF A = {} THEN p ELSE NextLine(c[A \ {Max(A)}], seq[Max(A)])]
    BY <1>2, <1>7
  <2> HIDE DEF D
  <2>2. \A A \in D : c[A] = IF A = {} THEN p ELSE NextLine(c[A \ {Max(A)}], seq[Max(A)])
    BY <2>1
  <2> QED
    BY <2>2 DEF D
<1> HIDE DEF Eq
<1>10. c[{}] = p
  BY <1>9
<1>11. \A A \in SUBSET (1 .. n) :
          A # {} /\ c[A \ {Max(A)}] \in S => c[A] = Op[c[A \ {Max(A)}]][seq[Max(A)]]
  BY <1>1, <1>3, <1>4, <1>9
<1>12. Solves(c, seq, S, p, Op)
  BY <1>10, <1>11 DEF Solves, n
<1>13. c[1 .. Len(seq)] = g[Len(seq)]
  BY <1>1, <1>2, <1>12, SetFoldMeans
<1> QED
  BY <1>8, <1>13 DEF n

LEMMA SplittingSteps ==
  ASSUME NEW p \in LineLists
  PROVE  /\ FoldLeft(NextLine, p, <<>>) = p
         /\ \A t \in Seq(Atoms) : FoldLeft(NextLine, p, t) \in LineLists
         /\ \A t \in Seq(Atoms), a \in Atoms :
              FoldLeft(NextLine, p, Append(t, a)) = NextLine(FoldLeft(NextLine, p, t), a)
<1> DEFINE S == LineLists
           X == Atoms
           Op == Splitting
           V == [t \in Seq(Atoms) |-> FoldLeft(NextLine, p, t)]
<1>1. Op \in [S -> [X -> S]] /\ \A q \in S, a \in X : Op[q][a] = NextLine(q, a)
  BY NextLineType DEF Splitting
<1>2. p \in S /\ Computes(V, X, S, p, Op)
  BY SplittingFold DEF Computes
<1>3. \A t \in Seq(X) : V[t] = FoldLeft(NextLine, p, t)
  OBVIOUS
<1>4. <<>> \in Seq(X) /\ \A t \in Seq(X), a \in X : Append(t, a) \in Seq(X)
  BY EmptySeq, AppendProperties
<1> HIDE DEF S, X, Op, V
<1>5. /\ V[<<>>] = p
      /\ \A t \in Seq(X) : V[t] \in S
      /\ \A t \in Seq(X), x \in X : V[Append(t, x)] = Op[V[t]][x]
  <2>1. Steps(V, X, S, p, Op)
    BY <1>1, <1>2, FoldedSteps
  <2> QED
    BY <2>1 DEF Steps
<1>6. FoldLeft(NextLine, p, <<>>) = p
  BY <1>3, <1>4, <1>5
<1>7. \A t \in Seq(X) : FoldLeft(NextLine, p, t) \in S
  BY <1>3, <1>5
<1>8. ASSUME NEW t \in Seq(X), NEW a \in X
      PROVE  FoldLeft(NextLine, p, Append(t, a)) = NextLine(FoldLeft(NextLine, p, t), a)
  <2>1. V[Append(t, a)] = Op[V[t]][a] /\ V[t] \in S
    BY <1>5
  <2>2. V[Append(t, a)] = NextLine(V[t], a)
    BY <1>1, <2>1
  <2>3. V[t] = FoldLeft(NextLine, p, t) /\ V[Append(t, a)] = FoldLeft(NextLine, p, Append(t, a))
    BY <1>3, <1>4
  <2> QED
    BY <2>2, <2>3
<1> QED
  BY <1>6, <1>7, <1>8 DEF S, X


LEMMA AddLineType ==
  ASSUME NEW h \in Headers, NEW line \in Text
  PROVE  AddLine(h, line) \in Headers
<1>1. TrimSpace(line) \in Text
  BY TrimType
<1>2. HeaderIn(line).before \in Text /\ HeaderIn(line).after \in Text
  BY <1>1, CutType DEF HeaderIn, Text
<1> QED
  BY <1>2, AddHeaderType DEF AddLine

\* parseHeaderLines, one line after the other.
Collecting == [h \in Headers |-> [line \in Text |-> AddLine(h, line)]]

LEMMA CollectingFold ==
  ASSUME NEW p \in Headers, NEW seq \in Seq(Text), NEW g, Fold(g, seq, Headers, p, Collecting)
  PROVE  FoldLeft(AddLine, p, seq) = g[Len(seq)]
<1> DEFINE n == Len(seq)
           S == Headers
           X == Text
           Op == Collecting
           Eq(f) == f = [A \in SUBSET DOMAIN seq |-> IF A = {} THEN p ELSE AddLine(f[A \ {Max(A)}], seq[Max(A)])]
<1>1. Op \in [S -> [X -> S]] /\ \A q \in S, a \in X : Op[q][a] = AddLine(q, a)
  BY AddLineType DEF Collecting
<1>2. n \in Nat /\ DOMAIN seq = 1 .. n /\ seq \in Seq(X) /\ p \in S /\ Fold(g, seq, S, p, Op)
  BY LenProperties
<1>3. \A i \in 1 .. n : seq[i] \in X
  BY ElementOfSeq
<1> HIDE DEF S, X, Op, n
<1>4. \A A \in SUBSET (1 .. n) : A # {} => Max(A) \in 1 .. n /\ A \ {Max(A)} \in SUBSET (1 .. n)
  BY <1>2, MaxOf
<1>5. PICK f : SetFold(f, seq, S, p, Op)
  BY <1>1, <1>2, SetFoldExists
<1>6. Eq(f)
  <2>1. /\ f \in [SUBSET (1 .. n) -> S] /\ f[{}] = p
        /\ \A A \in SUBSET (1 .. n) : A # {} => f[A] = Op[f[A \ {Max(A)}]][seq[Max(A)]]
    BY <1>5 DEF SetFold, n
  <2>2. \A A \in SUBSET (1 .. n) : A # {} => f[A] = AddLine(f[A \ {Max(A)}], seq[Max(A)])
    BY <1>1, <1>3, <1>4, <2>1
  <2>3. f = [A \in SUBSET (1 .. n) |-> f[A]]
    BY <2>1
  <2> QED
    BY <1>2, <2>1, <2>2, <2>3
<1> DEFINE c == CHOOSE h : Eq(h)
<1>7. Eq(c)
  <2> HIDE DEF Eq
  <2> QED
    BY <1>6, Zenon
<1>8. FoldLeft(AddLine, p, seq) = c[1 .. n]
  BY <1>2 DEF FoldLeft, MapThenFoldSet
<1> HIDE DEF c
<1>9. \A A \in SUBSET (1 .. n) : c[A] = IF A = {} THEN p ELSE AddLine(c[A \ {Max(A)}], seq[Max(A)])
  <2> DEFINE D == SUBSET (1 .. n)
  <2>1. c = [A \in D |-> IF A = {} THEN p ELSE AddLine(c[A \ {Max(A)}], seq[Max(A)])]
    BY <1>2, <1>7
  <2> HIDE DEF D
  <2>2. \A A \in D : c[A] = IF A = {} THEN p ELSE AddLine(c[A \ {Max(A)}], seq[Max(A)])
    BY <2>1
  <2> QED
    BY <2>2 DEF D
<1> HIDE DEF Eq
<1>10. c[{}] = p
  BY <1>9
<1>11. \A A \in SUBSET (1 .. n) :
          A # {} /\ c[A \ {Max(A)}] \in S => c[A] = Op[c[A \ {Max(A)}]][seq[Max(A)]]
  BY <1>1, <1>3, <1>4, <1>9
<1>12. Solves(c, seq, S, p, Op)
  BY <1>10, <1>11 DEF Solves, n
<1>13. c[1 .. Len(seq)] = g[Len(seq)]
  BY <1>1, <1>2, <1>12, SetFoldMeans
<1> QED
  BY <1>8, <1>13 DEF n

LEMMA CollectingSteps ==
  ASSUME NEW p \in Headers
  PROVE  /\ FoldLeft(AddLine, p, <<>>) = p
         /\ \A t \in Seq(Text) : FoldLeft(AddLine, p, t) \in Headers
         /\ \A t \in Seq(Text), a \in Text :
              FoldLeft(AddLine, p, Append(t, a)) = AddLine(FoldLeft(AddLine, p, t), a)
<1> DEFINE S == Headers
           X == Text
           Op == Collecting
           V == [t \in Seq(Text) |-> FoldLeft(AddLine, p, t)]
<1>1. Op \in [S -> [X -> S]] /\ \A q \in S, a \in X : Op[q][a] = AddLine(q, a)
  BY AddLineType DEF Collecting
<1>2. p \in S /\ Computes(V, X, S, p, Op)
  BY CollectingFold DEF Computes
<1>3. \A t \in Seq(X) : V[t] = FoldLeft(AddLine, p, t)
  OBVIOUS
<1>4. <<>> \in Seq(X) /\ \A t \in Seq(X), a \in X : Append(t, a) \in Seq(X)
  BY EmptySeq, AppendProperties
<1> HIDE DEF S, X, Op, V
<1>5. /\ V[<<>>] = p
      /\ \A t \in Seq(X) : V[t] \in S
      /\ \A t \in Seq(X), x \in X : V[Append(t, x)] = Op[V[t]][x]
  <2>1. Steps(V, X, S, p, Op)
    BY <1>1, <1>2, FoldedSteps
  <2> QED
    BY <2>1 DEF Steps
<1>6. FoldLeft(AddLine, p, <<>>) = p
  BY <1>3, <1>4, <1>5
<1>7. \A t \in Seq(X) : FoldLeft(AddLine, p, t) \in S
  BY <1>3, <1>5
<1>8. ASSUME NEW t \in Seq(X), NEW a \in X
      PROVE  FoldLeft(AddLine, p, Append(t, a)) = AddLine(FoldLeft(AddLine, p, t), a)
  <2>1. V[Append(t, a)] = Op[V[t]][a] /\ V[t] \in S
    BY <1>5
  <2>2. V[Append(t, a)] = AddLine(V[t], a)
    BY <1>1, <2>1
  <2>3. V[t] = FoldLeft(AddLine, p, t) /\ V[Append(t, a)] = FoldLeft(AddLine, p, Append(t, a))
    BY <1>3, <1>4
  <2> QED
    BY <2>2, <2>3
<1> QED
  BY <1>6, <1>7, <1>8 DEF S, X

LEMMA LinesSteps ==
  /\ LinesOf(<<>>) = Append(<<>>, <<>>)
  /\ \A t \in Text : LinesOf(t) \in LineLists
  /\ \A t \in Text, c \in Atoms, ls \in Seq(Text), l \in Text :
       LinesOf(t) = Append(ls, l) =>
         LinesOf(Append(t, c)) = IF c = "NL" THEN Append(Append(ls, l), <<>>) ELSE Append(ls, Append(l, c))
<1> DEFINE T == Text
<1>1. <<>> \in T
  BY EmptySeq DEF Text
<1>2. <<<<>>>> \in Seq(T) /\ <<<<>>>> = Append(<<>>, <<>>) /\ <<<<>>>> # <<>>
  <2> HIDE DEF T
  <2>1. \A x \in T : <<x>> \in Seq(T) /\ <<x>> = Append(<<>>, x) /\ <<x>> # <<>>
    BY Short
  <2> QED
    BY <1>1, <2>1
<1>3. PICK b : b = <<<<>>>>
  OBVIOUS
<1>4. b \in LineLists
  BY <1>2, <1>3 DEF LineLists
<1>5. \A t : LinesOf(t) = FoldLeft(NextLine, b, t)
  BY <1>3 DEF LinesOf
<1>6. /\ FoldLeft(NextLine, b, <<>>) = b
      /\ \A t \in Seq(Atoms) : FoldLeft(NextLine, b, t) \in LineLists
      /\ \A t \in Seq(Atoms), a \in Atoms :
           FoldLeft(NextLine, b, Append(t, a)) = NextLine(FoldLeft(NextLine, b, t), a)
  BY <1>4, SplittingSteps
<1>7. ASSUME NEW t \in Text, NEW c \in Atoms, NEW ls \in Seq(Text), NEW l \in Text, LinesOf(t) = Append(ls, l)
      PROVE  LinesOf(Append(t, c)) = IF c = "NL" THEN Append(Append(ls, l), <<>>) ELSE Append(ls, Append(l, c))
  <2>1. LinesOf(Append(t, c)) = NextLine(Append(ls, l), c)
    BY <1>5, <1>6, <1>7 DEF Text
  <2>2. Front(Append(ls, l)) = ls /\ Last(Append(ls, l)) = l
    <3>1. ls \in Seq(T) /\ l \in T
      OBVIOUS
    <3> HIDE DEF T
    <3> QED
      BY <3>1, FrontOfAppend
  <2> QED
    BY <2>1, <2>2 DEF NextLine
<1>8. \A t \in Text : LinesOf(t) \in LineLists
  BY <1>5, <1>6 DEF Text
<1>9. LinesOf(<<>>) = Append(<<>>, <<>>)
  BY <1>2, <1>3, <1>5, <1>6
<1> QED
  BY <1>7, <1>8, <1>9

\* A text without the end of a line goes into the last line.
Flat(v) == \A i \in DOMAIN v : v[i] # "NL"

LEMMA LineGrows ==
  ASSUME NEW t \in Text, NEW ls \in Seq(Text), LinesOf(t) = Append(ls, <<>>), NEW u \in Text, Flat(u)
  PROVE  LinesOf(t \o u) = Append(ls, u)
<1> DEFINE G == {v \in Text : Flat(v) => LinesOf(t \o v) = Append(ls, v)}
           A == Atoms
<1>1. <<>> \in G
  BY EmptySeq, ConcatEmptySeq DEF Text
<1>2. ASSUME NEW v \in Seq(A), NEW c \in A, v \in G
      PROVE  Append(v, c) \in G
  <2> DEFINE w == Append(v, c)
             n == Len(v)
  <2>1. /\ w \in Seq(A) /\ Len(w) = n + 1 /\ w[n + 1] = c /\ n \in Nat /\ \A i \in 1 .. n : w[i] = v[i]
        /\ DOMAIN w = 1 .. n + 1 /\ DOMAIN v = 1 .. n
    BY AppendProperties, LenProperties
  <2>2. t \o w = Append(t \o v, c)
    BY ConcatAppend DEF Text
  <2>3. t \o v \in Text /\ w \in Text /\ v \in Text
    BY <2>1, ConcatProperties DEF Text
  <2> HIDE DEF w, n
  <2>4. ASSUME Flat(w)
        PROVE  LinesOf(t \o w) = Append(ls, w)
    <3>1. c # "NL" /\ Flat(v)
      <4>1. c # "NL"
        BY <2>1, <2>4 DEF Flat
      <4>2. \A i \in 1 .. n : v[i] # "NL"
        BY <2>1, <2>4 DEF Flat
      <4> QED
        BY <2>1, <4>1, <4>2 DEF Flat
    <3>2. LinesOf(t \o v) = Append(ls, v)
      BY <1>2, <3>1
    <3>3. LinesOf(Append(t \o v, c)) = Append(ls, Append(v, c))
      BY <2>3, <3>1, <3>2, LinesSteps
    <3> QED
      BY <2>2, <3>3 DEF w
  <2> QED
    BY <2>3, <2>4 DEF w
<1>3. u \in Seq(A)
  BY DEF Text
<1> HIDE DEF G, A
<1>4. \A v \in Seq(A) : v \in G
  BY <1>1, <1>2, SeqInduction
<1> QED
  BY <1>3, <1>4 DEF G

LEMMA LineEnds ==
  ASSUME NEW t \in Text, NEW ls \in Seq(Text), LinesOf(t) = Append(ls, <<>>), NEW u \in Text, Flat(u)
  PROVE  LinesOf(t \o (u \o <<"NL">>)) = Append(Append(ls, u), <<>>)
<1>1. LinesOf(t \o u) = Append(ls, u)
  BY LineGrows
<1>2. t \o (u \o <<"NL">>) = Append(t \o u, "NL") /\ t \o u \in Text
  <2>1. "NL" \in Atoms
    BY DEF Atoms
  <2>2. u \o <<"NL">> = Append(u, "NL")
    BY <2>1, AppendIsConcat DEF Text
  <2>3. t \o Append(u, "NL") = Append(t \o u, "NL")
    BY <2>1, ConcatAppend DEF Text
  <2> QED
    BY <2>2, <2>3, ConcatProperties DEF Text
<1>3. "NL" \in Atoms
  BY DEF Atoms
<1>4. PICK w \in Text : w = t \o u
  BY <1>2
<1>5. LinesOf(w) = Append(ls, u)
  BY <1>1, <1>4
<1>6. LinesOf(Append(w, "NL")) = Append(Append(ls, u), <<>>)
  BY <1>3, <1>5, LinesSteps
<1> QED
  BY <1>2, <1>4, <1>6

\* The lines of a header, without their ends.
LineFor(n, v) == <<n, ":", "SP">> \o v

LEMMA LineIsHeader ==
  ASSUME NEW n \in Names, NEW v \in Trimmed, Flat(v)
  PROVE  /\ LineFor(n, v) \in Text /\ Flat(LineFor(n, v)) /\ IsHeader(LineFor(n, v))
         /\ \A h \in Headers : AddLine(h, LineFor(n, v)) = [h EXCEPT ![n] = Append(h[n], v)]
<1> DEFINE t == LineFor(n, v)
<1>0. n \in Atoms /\ ":" \in Atoms /\ "SP" \in Atoms /\ n # ":" /\ Ink(n) /\ Ink(":") /\ n # "NL"
  BY DEF Atoms, Names, Ink, ToSet, HeaderNames
<1>1. t \in Text
  BY LineOfHeader DEF LineFor
<1>2. v \in Text /\ NoMargin(v) /\ TrimSpace(v) = v
  BY TrimmedAre
<1>3. /\ Len(v) \in Nat /\ Len(t) = Len(v) + 3 /\ t[1] = n /\ t[2] = ":" /\ t[3] = "SP"
      /\ \A i \in 1 .. Len(v) : t[i + 3] = v[i]
      /\ DOMAIN v = 1 .. Len(v) /\ DOMAIN t = 1 .. Len(v) + 3
  <2> DEFINE e == <<n, ":", "SP">>
  <2>1. e \in Text /\ Len(e) = 3 /\ e[1] = n /\ e[2] = ":" /\ e[3] = "SP"
    BY <1>0 DEF Text
  <2>2. t = e \o v
    BY DEF LineFor
  <2> HIDE DEF e, t
  <2>3. /\ Len(v) \in Nat /\ Len(t) = 3 + Len(v) /\ \A i \in 1 .. 3 : t[i] = e[i]
        /\ \A i \in 1 .. Len(v) : t[3 + i] = v[i]
    <3>1. /\ Len(v) \in Nat /\ Len(e \o v) = Len(e) + Len(v) /\ \A i \in 1 .. Len(e) : (e \o v)[i] = e[i]
          /\ \A i \in 1 .. Len(v) : (e \o v)[Len(e) + i] = v[i]
      <4> DEFINE A == Atoms
      <4>1. e \in Seq(A) /\ v \in Seq(A)
        BY <1>2, <2>1 DEF Text
      <4> HIDE DEF A
      <4>2. Len(e) \in Nat /\ Len(v) \in Nat
        BY <4>1, LenProperties
      <4>3. /\ Len(e \o v) = Len(e) + Len(v)
            /\ \A i \in 1 .. Len(e) + Len(v) : (e \o v)[i] = IF i <= Len(e) THEN e[i] ELSE v[i - Len(e)]
        BY <4>1, ConcatProperties
      <4>4. \A i \in 1 .. Len(e) : (e \o v)[i] = e[i]
        BY <4>2, <4>3
      <4>5. ASSUME NEW i \in 1 .. Len(v)
            PROVE  (e \o v)[Len(e) + i] = v[i]
        <5>1. Len(e) + i \in 1 .. Len(e) + Len(v) /\ ~(Len(e) + i <= Len(e)) /\ Len(e) + i - Len(e) = i
          BY <4>2
        <5> QED
          BY <4>3, <5>1
      <4> QED
        BY <4>2, <4>3, <4>4, <4>5
    <3> QED
      BY <2>1, <2>2, <3>1
  <2>4. DOMAIN v = 1 .. Len(v) /\ DOMAIN t = 1 .. Len(t)
    BY <1>1, <1>2, LenProperties DEF Text
  <2> QED
    BY <2>1, <2>3, <2>4
<1>4. Flat(t)
  <2>1. \A i \in 1 .. Len(v) : v[i] # "NL"
    BY <1>3 DEF Flat
  <2>2. ASSUME NEW i \in 1 .. Len(v) + 3
        PROVE  t[i] # "NL"
    <3>1. i = 1 \/ i = 2 \/ i = 3 \/ (i - 3 \in 1 .. Len(v) /\ i = (i - 3) + 3)
      BY <1>3
    <3> QED
      BY <1>0, <1>3, <2>1, <3>1
  <2> QED
    BY <1>3, <2>2 DEF Flat
<1> HIDE DEF t
<1>5. \E c : /\ HeaderIn(t) = c /\ c.found = TRUE /\ TrimSpace(c.before) = <<n>> /\ TrimSpace(c.after) = v
  <2>1. CASE v = <<>>
    <3>1. TrimSpace(t) = <<n, ":">>
      <4>1. Len(v) = 0
        BY <2>1, EmptySeq
      <4>2. Len(t) = 3 /\ ~Ink("SP")
        BY <1>3, <4>1 DEF Ink
      <4>3. TrimSpace(t) = SubSeq(t, 1, 2)
        <5>1. \A k \in 1 .. Len(t) : Ink(t[k]) => 1 <= k /\ k <= 2
          <6>1. \A k \in 1 .. 3 : k = 3 \/ (1 <= k /\ k <= 2)
            OBVIOUS
          <6>2. ~Ink(t[3])
            BY <1>3, <4>2
          <6>3. \A k \in 1 .. 3 : ~Ink(t[k]) \/ (1 <= k /\ k <= 2)
            BY <6>1, <6>2
          <6> QED
            BY <4>2, <6>3
        <5>2. 1 \in 1 .. Len(t) /\ 2 \in 1 .. Len(t) /\ Ink(t[1]) /\ Ink(t[2])
          BY <1>0, <1>3, <4>2
        <5> QED
          BY <1>1, <5>1, <5>2, TrimTo
      <4>4. SubSeq(t, 1, 2) = <<n, ":">>
        <5>1. \A i \in 1 .. 2 : t[i] \in Atoms
          <6>1. \A i \in 1 .. 2 : i = 1 \/ i = 2
            OBVIOUS
          <6> QED
            BY <1>0, <1>3, <6>1
        <5> DEFINE b == SubSeq(t, 1, 2)
                   e == <<n, ":">>
        <5>2. b \in Seq(Atoms) /\ Len(b) = 2 /\ \A i \in 1 .. 2 : b[i] = t[1 + i - 1]
          BY <5>1, PartOf
        <5>3. e \in Seq(Atoms) /\ Len(e) = 2 /\ e[1] = n /\ e[2] = ":"
          BY <1>0
        <5>4. b[1] = n /\ b[2] = ":"
          BY <1>3, <5>2
        <5>5. \A i \in 1 .. 2 : i = 1 \/ i = 2
          OBVIOUS
        <5> HIDE DEF b, e
        <5>6. b = e
          BY <5>2, <5>3, <5>4, <5>5, SeqEqual
        <5> QED
          BY <5>6 DEF b, e
      <4> QED
        BY <4>3, <4>4
    <3>2. Cut(<<n, ":">>, ":") = [found |-> TRUE, before |-> <<n>>, after |-> <<>>]
      <4> DEFINE a == <<n>>
                 e == <<>>
      <4>1. a \in Text /\ e \in Text /\ \A i \in DOMAIN a : a[i] # ":"
        BY <1>0, Short, EmptySeq DEF Text
      <4>2. a \o <<":">> = <<n, ":">> /\ <<n, ":">> \o e = <<n, ":">>
        <5>1. <<n>> \in Seq(Atoms) /\ Append(<<n>>, ":") = <<n, ":">> /\ <<n, ":">> \in Seq(Atoms)
          BY <1>0, Short
        <5> QED
          BY <1>0, <5>1, AppendIsConcat, ConcatEmptySeq
      <4> HIDE DEF a, e
      <4>3. Cut(a \o <<":">> \o e, ":") = [found |-> TRUE, before |-> a, after |-> e]
        BY <1>0, <4>1, CutAt DEF Text
      <4>4. a \o <<":">> \o e = <<n, ":">>
        BY <4>2
      <4> QED
        BY <4>3, <4>4 DEF a, e
    <3>3. TrimSpace(<<n>>) = <<n>> /\ TrimSpace(<<>>) = <<>>
      BY <1>0, TrimmedAre
    <3>4. PICK c : c = HeaderIn(t)
      OBVIOUS
    <3>5. c = [found |-> TRUE, before |-> <<n>>, after |-> <<>>]
      BY <3>1, <3>2, <3>4 DEF HeaderIn
    <3>6. c.found = TRUE /\ c.before = <<n>> /\ c.after = <<>>
      BY <3>5
    <3> QED
      BY <2>1, <3>3, <3>4, <3>6
  <2>2. CASE v # <<>>
    <3>1. TrimSpace(t) = t
      <4>1. Len(v) > 0 /\ Ink(v[Len(v)])
        BY <1>2, <1>3, <2>2, EmptySeq DEF NoMargin, Text
      <4>2. t[Len(t)] = v[Len(v)]
        BY <1>3, <4>1
      <4>3. NoMargin(t)
        BY <1>0, <1>3, <4>1, <4>2 DEF NoMargin
      <4> QED
        BY <1>1, <4>3, TrimKeeps
    <3>2. HeaderIn(t) = Cut(<<n, ":", "SP">> \o v, ":")
      BY <3>1 DEF HeaderIn, t, LineFor
    <3>3. PICK c : /\ Cut(<<n, ":", "SP">> \o v, ":") = c /\ c.found = TRUE
                   /\ TrimSpace(c.before) = <<n>> /\ TrimSpace(c.after) = v
      BY LineOfHeader
    <3> QED
      BY <3>2, <3>3
  <2> QED
    BY <2>1, <2>2
<1>6. PICK c : /\ HeaderIn(t) = c /\ c.found = TRUE /\ TrimSpace(c.before) = <<n>> /\ TrimSpace(c.after) = v
  BY <1>5
<1>7. IsHeader(t)
  <2>1. Len(<<n>>) = 1
    OBVIOUS
  <2> QED
    BY <1>6, <2>1 DEF IsHeader
<1>8. \A h \in Headers : AddLine(h, t) = [h EXCEPT ![n] = Append(h[n], v)]
  <2>1. <<n>>[1] = n
    OBVIOUS
  <2> QED
    BY <1>6, <1>7, <2>1 DEF AddLine, AddHeader
<1> QED
  BY <1>1, <1>4, <1>7, <1>8 DEF t

\* A text of lines that are headers, and the headers they are.
Tidy(t, h) ==
  /\ t \in Text /\ h \in Headers
  /\ \E ls \in Seq(Text) : /\ LinesOf(t) = Append(ls, <<>>)
                           /\ FoldLeft(AddLine, NoHeaders, ls) = h
                           /\ \A line \in ToSet(ls) : IsHeader(line)

LEMMA TidyStart == Tidy(<<>>, NoHeaders)
<1>1. <<>> \in Text /\ <<>> \in Seq(Text) /\ NoHeaders \in Headers
  BY EmptySeq, ParsingType DEF Text
<1>2. FoldLeft(AddLine, NoHeaders, <<>>) = NoHeaders
  BY <1>1, CollectingSteps
<1>3. ToSet(<<>>) = {}
  BY SetOfSteps
<1>4. LinesOf(<<>>) = Append(<<>>, <<>>)
  BY LinesSteps
<1> QED
  BY <1>1, <1>2, <1>3, <1>4 DEF Tidy

LEMMA TidyNext ==
  ASSUME NEW t, NEW h, Tidy(t, h), NEW n \in Names, NEW v \in Trimmed, Flat(v)
  PROVE  Tidy(t \o (LineFor(n, v) \o <<"NL">>), [h EXCEPT ![n] = Append(h[n], v)])
<1>1. t \in Text /\ h \in Headers
  BY DEF Tidy
<1>2. PICK ls \in Seq(Text) : /\ LinesOf(t) = Append(ls, <<>>)
                              /\ FoldLeft(AddLine, NoHeaders, ls) = h
                              /\ \A line \in ToSet(ls) : IsHeader(line)
  BY DEF Tidy
<1>3. PICK u \in Text : u = LineFor(n, v)
  BY LineIsHeader
<1>4. Flat(u) /\ IsHeader(u) /\ AddLine(h, u) = [h EXCEPT ![n] = Append(h[n], v)]
  BY <1>1, <1>3, LineIsHeader
<1>5. LinesOf(t \o (u \o <<"NL">>)) = Append(Append(ls, u), <<>>)
  BY <1>1, <1>2, <1>4, LineEnds
<1> DEFINE X == Text
<1>6. Append(ls, u) \in Seq(X) /\ ToSet(Append(ls, u)) = ToSet(ls) \cup {u}
  <2>1. ls \in Seq(X) /\ u \in X
    OBVIOUS
  <2> HIDE DEF X
  <2> QED
    BY <2>1, AppendProperties, SetOfSteps
<1>7. FoldLeft(AddLine, NoHeaders, Append(ls, u)) = AddLine(h, u)
  <2>1. NoHeaders \in Headers
    BY ParsingType
  <2>2. FoldLeft(AddLine, NoHeaders, Append(ls, u)) = AddLine(FoldLeft(AddLine, NoHeaders, ls), u)
    BY <2>1, CollectingSteps
  <2> QED
    BY <1>2, <2>2
<1>8. AddLine(h, u) \in Headers
  BY <1>1, AddLineType
<1>9. t \o (u \o <<"NL">>) \in Text
  <2>1. "NL" \in Atoms
    BY DEF Atoms
  <2>2. <<"NL">> \in Text
    BY <2>1, Short DEF Text
  <2>3. \A x \in Text, y \in Text : x \o y \in Text
    BY ConcatProperties DEF Text
  <2> QED
    BY <1>1, <2>2, <2>3
<1>10. \A line \in ToSet(Append(ls, u)) : IsHeader(line)
  BY <1>2, <1>4, <1>6
<1>11. PICK k : k = AddLine(h, u)
  OBVIOUS
<1>12. Tidy(t \o (u \o <<"NL">>), k)
  <2>1. k \in Headers /\ FoldLeft(AddLine, NoHeaders, Append(ls, u)) = k
    BY <1>7, <1>8, <1>11
  <2> QED
    BY <1>5, <1>6, <1>9, <1>10, <2>1 DEF Tidy
<1> QED
  BY <1>3, <1>4, <1>11, <1>12

LEMMA NoLine ==
  ~IsHeader(<<>>) /\ TrimSpace(<<>>) = <<>>
<1>1. TrimSpace(<<>>) = <<>>
  BY TrimmedAre
<1>2. <<>> \in Seq(Atoms) /\ Len(<<>>) = 0
  BY EmptySeq
<1>3. PICK e : e = <<>>
  OBVIOUS
<1>4. PICK k \in 0 .. Len(e) : CutsAt(e, ":", k)
  <2>1. e \in Seq(Atoms)
    BY <1>2, <1>3
  <2> QED
    BY <2>1, CutShape
<1>5. k = 0
  BY <1>2, <1>3, <1>4
<1>6. Cut(e, ":").found = FALSE
  <2> DEFINE r == [found  |-> k # 0,
                   before |-> IF k = 0 THEN e ELSE SubSeq(e, 1, k - 1),
                   after  |-> IF k = 0 THEN <<>> ELSE SubSeq(e, k + 1, Len(e))]
  <2>1. Cut(e, ":") = r
    BY <1>4 DEF CutsAt
  <2>2. r.found = (k # 0)
    OBVIOUS
  <2> HIDE DEF r
  <2> QED
    BY <1>5, <2>1, <2>2
<1>7. HeaderIn(<<>>).found = FALSE
  BY <1>1, <1>3, <1>6 DEF HeaderIn
<1> QED
  BY <1>1, <1>7 DEF IsHeader

LEMMA TidyMeans ==
  ASSUME NEW t, NEW h, Tidy(t, h)
  PROVE  HeadersIn(t) = h /\ ValidHeaders(t)
<1>1. PICK ls \in Seq(Text) : /\ LinesOf(t) = Append(ls, <<>>)
                              /\ FoldLeft(AddLine, NoHeaders, ls) = h
                              /\ \A line \in ToSet(ls) : IsHeader(line)
  BY DEF Tidy
<1>2. PICK e \in Text : e = <<>>
  BY EmptySeq DEF Text
<1>3. NoHeaders \in Headers
  BY ParsingType
<1>4. FoldLeft(AddLine, NoHeaders, Append(ls, e)) = AddLine(FoldLeft(AddLine, NoHeaders, ls), e)
  BY <1>3, CollectingSteps
<1>5. AddLine(h, e) = h
  BY <1>2, NoLine DEF AddLine
<1>6. HeadersIn(t) = h
  BY <1>1, <1>2, <1>4, <1>5 DEF HeadersIn
<1> DEFINE X == Text
<1>7. ToSet(Append(ls, e)) = ToSet(ls) \cup {e}
  <2>1. ls \in Seq(X) /\ e \in X
    OBVIOUS
  <2> HIDE DEF X
  <2> QED
    BY <2>1, SetOfSteps
<1>8. ValidHeaders(t)
  BY <1>1, <1>2, <1>7, NoLine DEF ValidHeaders
<1> QED
  BY <1>6, <1>8

FlatValues == {v \in Trimmed : Flat(v)}
NameLines(n, vs) == FlattenSeq([i \in DOMAIN vs |-> <<n, ":", "SP">> \o vs[i] \o <<"NL">>])

LEMMA TidyName ==
  ASSUME NEW t, NEW h, Tidy(t, h), NEW n \in Names, h[n] = <<>>, NEW vs \in Seq(FlatValues)
  PROVE  NameLines(n, vs) \in Text /\ Tidy(t \o NameLines(n, vs), [h EXCEPT ![n] = vs])
<1> DEFINE Y == FlatValues
           f == [v \in Y |-> LineFor(n, v) \o <<"NL">>]
           F(s) == FlattenSeq(Images(f, s))
           G == {s \in Seq(Y) : Tidy(t \o F(s), [h EXCEPT ![n] = s])}
<1>0. t \in Text /\ h \in Headers
  BY DEF Tidy
<1>1. \A v \in Y : v \in Trimmed /\ Flat(v)
  BY DEF FlatValues
<1>2. f \in [Y -> Seq(Atoms)] /\ \A v \in Y : f[v] = LineFor(n, v) \o <<"NL">> /\ f[v] \in Text
  <2>1. "NL" \in Atoms
    BY DEF Atoms
  <2>2. <<"NL">> \in Text
    BY <2>1, Short DEF Text
  <2>3. \A x \in Text, y \in Text : x \o y \in Text
    BY ConcatProperties DEF Text
  <2>4. ASSUME NEW v \in Y
        PROVE  LineFor(n, v) \o <<"NL">> \in Text
    <3>1. v \in Trimmed /\ Flat(v)
      BY <1>1
    <3>2. LineFor(n, v) \in Text
      BY <3>1, LineIsHeader
    <3> QED
      BY <2>2, <2>3, <3>2
  <2>5. \A v \in Y : LineFor(n, v) \o <<"NL">> \in Seq(Atoms)
    BY <2>4 DEF Text
  <2> HIDE DEF Y
  <2> QED
    BY <2>4, <2>5
<1>3. NameLines(n, vs) = F(vs)
  <2>1. vs \in Seq(Y)
    OBVIOUS
  <2> HIDE DEF Y
  <2>2. \A i \in DOMAIN vs : vs[i] \in Y
    BY <2>1
  <2>3. \A i \in DOMAIN vs : <<n, ":", "SP">> \o vs[i] \o <<"NL">> = f[vs[i]]
    <3>1. \A i \in DOMAIN vs : f[vs[i]] = LineFor(n, vs[i]) \o <<"NL">>
      BY <1>2, <2>2
    <3> QED
      BY <3>1 DEF LineFor
  <2> HIDE DEF f
  <2>4. [i \in DOMAIN vs |-> <<n, ":", "SP">> \o vs[i] \o <<"NL">>] = [i \in DOMAIN vs |-> f[vs[i]]]
    BY <2>3
  <2> QED
    BY <2>4 DEF NameLines, Images
<1>4. /\ F(<<>>) = <<>>
      /\ \A s \in Seq(Y) : F(s) \in Seq(Atoms)
      /\ \A s \in Seq(Y), v \in Y : F(Append(s, v)) = F(s) \o f[v]
  <2> HIDE DEF f, F, Y
  <2>1. FlattenSeq(Images(f, <<>>)) = <<>>
    BY <1>2, FlattenMap
  <2>2. ASSUME NEW s \in Seq(Y)
        PROVE  FlattenSeq(Images(f, s)) \in Seq(Atoms)
    BY <1>2, FlattenMap
  <2>3. ASSUME NEW s \in Seq(Y), NEW v \in Y
        PROVE  FlattenSeq(Images(f, Append(s, v))) = FlattenSeq(Images(f, s)) \o f[v]
    BY <1>2, FlattenNext
  <2> QED
    BY <2>1, <2>2, <2>3 DEF F
<1>5. \A k : [h EXCEPT ![n] = k] = [[h EXCEPT ![n] = k] EXCEPT ![n] = k] /\ [h EXCEPT ![n] = k][n] = k
             /\ \A j : [[h EXCEPT ![n] = k] EXCEPT ![n] = j] = [h EXCEPT ![n] = j]
  BY <1>0 DEF Headers
<1>6. <<>> \in G
  <2>1. [h EXCEPT ![n] = <<>>] = h
    <3>1. [h EXCEPT ![n] = h[n]] = h
      BY <1>0 DEF Headers
    <3> QED
      BY <3>1
  <2>2. t \o <<>> = t /\ <<>> \in Seq(Y)
    BY <1>0, ConcatEmptySeq, EmptySeq DEF Text
  <2> HIDE DEF F, Y
  <2> QED
    BY <1>4, <2>1, <2>2
<1>7. ASSUME NEW s \in Seq(Y), NEW v \in Y, s \in G
      PROVE  Append(s, v) \in G
  <2> HIDE DEF F, f, Y
  <2>1. Append(s, v) \in Seq(Y)
    BY AppendProperties
  <2> DEFINE k == [h EXCEPT ![n] = s]
             u == t \o F(s)
             a == Append(s, v)
  <2>2. Tidy(u, k)
    BY <1>7
  <2>3. v \in Trimmed /\ Flat(v)
    BY <1>1
  <2>4. k[n] = s /\ [k EXCEPT ![n] = a] = [h EXCEPT ![n] = a]
    BY <1>5
  <2>5. t \o F(a) = u \o (LineFor(n, v) \o <<"NL">>)
    <3>1. F(a) = F(s) \o f[v] /\ f[v] = LineFor(n, v) \o <<"NL">> /\ f[v] \in Seq(Atoms) /\ F(s) \in Seq(Atoms)
      BY <1>2, <1>4 DEF Text
    <3>2. t \in Seq(Atoms)
      BY <1>0 DEF Text
    <3>3. PICK w : w = f[v]
      OBVIOUS
    <3>4. w \in Seq(Atoms)
      BY <3>1, <3>3
    <3>5. t \o (F(s) \o w) = (t \o F(s)) \o w
      <4>1. PICK x \in Seq(Atoms) : x = F(s)
        BY <3>1
      <4>2. t \o (x \o w) = (t \o x) \o w
        BY <3>2, <3>4, ConcatAssociative
      <4> QED
        BY <4>1, <4>2
    <3> QED
      BY <3>1, <3>3, <3>5
  <2> HIDE DEF k, u
  <2>6. Tidy(u \o (LineFor(n, v) \o <<"NL">>), [k EXCEPT ![n] = Append(k[n], v)])
    BY <2>2, <2>3, TidyNext
  <2>7. Tidy(t \o F(a), [h EXCEPT ![n] = a])
    BY <2>4, <2>5, <2>6
  <2> QED
    BY <2>1, <2>7
<1>8. vs \in G
  <2>1. vs \in Seq(Y)
    OBVIOUS
  <2> HIDE DEF G, Y
  <2>2. \A s \in Seq(Y) : s \in G
    BY <1>6, <1>7, SeqInduction
  <2> QED
    BY <2>1, <2>2
<1>9. F(vs) \in Text
  BY <1>4 DEF Text
<1> QED
  BY <1>3, <1>8, <1>9

LEMMA TidyAll ==
  ASSUME NEW h \in Headers, OneLine(h)
  PROVE  Tidy(headerLines(h), h)
<1> DEFINE f == [n \in Names |-> NameLines(n, h[n])]
           F(ns) == FlattenSeq(Images(f, ns))
           T == {ns \in Seq(Names) : Tidy(F(ns), Partial(h, ns))}
<1>0. \A n \in Names : h[n] \in Seq(FlatValues)
  <2> SUFFICES ASSUME NEW n \in Names
               PROVE  h[n] \in Seq(FlatValues)
    OBVIOUS
  <2> DEFINE vs == h[n]
             Y == FlatValues
  <2>1. vs \in Seq(Trimmed) /\ DOMAIN h = Names
    BY DEF Headers
  <2>2. \A i \in DOMAIN vs : "NL" \notin ToSet(vs[i])
    BY <2>1 DEF OneLine
  <2> HIDE DEF vs
  <2>3. Len(vs) \in Nat /\ DOMAIN vs = 1 .. Len(vs) /\ \A i \in 1 .. Len(vs) : vs[i] \in Trimmed
    BY <2>1, LenProperties, ElementOfSeq
  <2>4. \A i \in 1 .. Len(vs) : vs[i] \in Y
    BY <2>2, <2>3 DEF FlatValues, Flat, ToSet
  <2>5. vs = [i \in 1 .. Len(vs) |-> vs[i]]
    BY <2>1, <2>3
  <2> HIDE DEF Y
  <2>6. vs \in Seq(Y)
    BY <2>3, <2>4, <2>5, IsASeq
  <2> QED
    BY <2>6 DEF Y, vs
<1>s. Tidy(<<>>, NoHeaders) /\ NoHeaders \in Headers /\ \A n \in Names : NoHeaders[n] = <<>>
  BY TidyStart, ParsingType
<1>1. f \in [Names -> Seq(Atoms)] /\ \A n \in Names : f[n] = NameLines(n, h[n])
  <2> SUFFICES ASSUME NEW n \in Names
               PROVE  NameLines(n, h[n]) \in Seq(Atoms)
    OBVIOUS
  <2>1. PICK vs \in Seq(FlatValues) : vs = h[n]
    BY <1>0
  <2>2. NoHeaders[n] = <<>>
    BY <1>s
  <2>3. NameLines(n, vs) \in Text
    BY <1>s, <2>2, TidyName
  <2> QED
    BY <2>1, <2>3 DEF Text
<1>2. headerLines(h) = F(HeaderNames)
  <2>1. \A i \in DOMAIN HeaderNames : HeaderNames[i] \in Names
    BY DEF Names, ToSet
  <2>2. headerLines(h) = FlattenSeq([i \in DOMAIN HeaderNames |-> NameLines(HeaderNames[i], h[HeaderNames[i]])])
    BY DEF headerLines, NameLines
  <2>3. [i \in DOMAIN HeaderNames |-> NameLines(HeaderNames[i], h[HeaderNames[i]])] = [i \in DOMAIN HeaderNames |-> f[HeaderNames[i]]]
    BY <1>1, <2>1
  <2> HIDE DEF f
  <2> QED
    BY <2>2, <2>3 DEF Images
<1>3. /\ F(<<>>) = <<>>
      /\ \A ns \in Seq(Names), n \in Names : F(Append(ns, n)) = F(ns) \o f[n]
  <2> HIDE DEF f, F
  <2>1. FlattenSeq(Images(f, <<>>)) = <<>>
    BY <1>1, FlattenMap
  <2>3. ASSUME NEW ns \in Seq(Names), NEW n \in Names
        PROVE  FlattenSeq(Images(f, Append(ns, n))) = FlattenSeq(Images(f, ns)) \o f[n]
    BY <1>1, FlattenNext
  <2> QED
    BY <2>1, <2>3 DEF F
<1> HIDE DEF F, f
<1>4. <<>> \in T
  <2>1. <<>> \in Seq(Names) /\ Partial(h, <<>>) = NoHeaders
    BY EmptySeq, PartialSteps
  <2> QED
    BY <1>3, <1>s, <2>1
<1>5. ASSUME NEW ns \in Seq(Names), NEW n \in Names, ns \in T, n \notin ToSet(ns)
      PROVE  Append(ns, n) \in T
  <2> DEFINE a == Append(ns, n)
             k == Partial(h, ns)
  <2>1. a \in Seq(Names)
    BY AppendProperties
  <2>2. PICK vs \in Seq(FlatValues) : vs = h[n]
    BY <1>0
  <2>3. k[n] = <<>> /\ Partial(h, a) = [k EXCEPT ![n] = vs]
    BY <1>5, <2>2, PartialSteps
  <2>4. Tidy(F(ns), k)
    BY <1>5
  <2>5. F(a) = F(ns) \o NameLines(n, vs)
    BY <1>1, <1>3, <2>2
  <2> HIDE DEF k, a
  <2>6. Tidy(F(ns) \o NameLines(n, vs), [k EXCEPT ![n] = vs])
    BY <2>3, <2>4, TidyName
  <2> QED
    BY <2>1, <2>3, <2>5, <2>6 DEF a
<1>6. HeaderNames \in T
  <2> HIDE DEF T
  <2>1. NamesAdded(T)
    BY <1>5 DEF NamesAdded
  <2> QED
    BY <1>4, <2>1, NamesInOrder
<1>7. Partial(h, HeaderNames) = h
  BY PartialSteps
<1> QED
  BY <1>2, <1>6, <1>7

-----------------------------------------------------------------------------
(* The windows                                                               *)

FieldsType == [method : Text, url : Text, headers : Text, body : Text, preserve : BOOLEAN,
               max : Times, connect : Times, follow : BOOLEAN, insecure : BOOLEAN]

LEMMA TextClosed ==
  /\ <<>> \in Text
  /\ \A x \in Text, y \in Text : x \o y \in Text
  /\ \A c \in Atoms : <<c>> \in Text
<1>1. <<>> \in Text
  BY EmptySeq DEF Text
<1>2. \A x \in Text, y \in Text : x \o y \in Text
  BY ConcatProperties DEF Text
<1>3. \A c \in Atoms : <<c>> \in Text
  BY Short DEF Text
<1> QED
  BY <1>1, <1>2, <1>3

\* Texts one after the other.
LEMMA FlattenType ==
  ASSUME NEW s, NEW n \in Nat, DOMAIN s = 1 .. n, s = [i \in 1 .. n |-> s[i]], \A i \in 1 .. n : s[i] \in Text
  PROVE  FlattenSeq(s) \in Text
<1> DEFINE T == Seq(Atoms)
<1>1. \A i \in 1 .. n : s[i] \in T
  BY DEF Text
<1>2. s \in Seq(T)
  <2> HIDE DEF T
  <2> QED
    BY <1>1, IsASeq
<1> QED
  BY <1>2, Flatten DEF Text

LEMMA JoinedType ==
  ASSUME NEW X, NEW s \in Seq(X), NEW f, \A i \in DOMAIN s : f[i] \in Text, DOMAIN f = DOMAIN s, NEW by \in Text
  PROVE  Joined(f, by) \in Text
<1> DEFINE n == Len(s)
           g == [i \in DOMAIN f |-> (IF i = 1 THEN <<>> ELSE by) \o f[i]]
<1>1. n \in Nat /\ DOMAIN f = 1 .. n
  BY LenProperties
<1>2. \A i \in 1 .. n : (IF i = 1 THEN <<>> ELSE by) \o f[i] \in Text
  BY <1>1, TextClosed
<1>3. DOMAIN g = 1 .. n /\ g = [i \in 1 .. n |-> g[i]] /\ \A i \in 1 .. n : g[i] \in Text
  BY <1>1, <1>2
<1> HIDE DEF g
<1> QED
  BY <1>1, <1>3, FlattenType DEF Joined, g

LEMMA NameLinesType ==
  ASSUME NEW n \in Names, NEW vs \in Seq(Trimmed)
  PROVE  NameLines(n, vs) \in Text
<1> DEFINE g == [i \in DOMAIN vs |-> <<n, ":", "SP">> \o vs[i] \o <<"NL">>]
           l == Len(vs)
<1>1. l \in Nat /\ DOMAIN vs = 1 .. l /\ \A i \in 1 .. l : vs[i] \in Trimmed
  BY LenProperties, ElementOfSeq
<1>2. "NL" \in Atoms
  BY DEF Atoms
<1>3. \A i \in 1 .. l : <<n, ":", "SP">> \o vs[i] \o <<"NL">> \in Text
  <2>1. \A v \in Trimmed : <<n, ":", "SP">> \o v \in Text
    BY LineOfHeader
  <2>2. <<"NL">> \in Text
    BY <1>2, TextClosed
  <2> QED
    BY <1>1, <2>1, <2>2, TextClosed
<1>4. DOMAIN g = 1 .. l /\ g = [i \in 1 .. l |-> g[i]] /\ \A i \in 1 .. l : g[i] \in Text
  BY <1>1, <1>3
<1> HIDE DEF g
<1>5. FlattenSeq(g) \in Text
  BY <1>1, <1>4, FlattenType
<1> QED
  BY <1>5 DEF NameLines, g

LEMMA HeaderLinesType ==
  ASSUME NEW h \in Headers
  PROVE  headerLines(h) \in Text
<1> DEFINE g == [i \in DOMAIN HeaderNames |-> NameLines(HeaderNames[i], h[HeaderNames[i]])]
<1>1. headerLines(h) = FlattenSeq(g)
  BY DEF headerLines, NameLines
<1>2. DOMAIN HeaderNames = 1 .. 7 /\ 7 \in Nat
  BY DEF HeaderNames
<1>3. \A i \in 1 .. 7 : NameLines(HeaderNames[i], h[HeaderNames[i]]) \in Text
  <2> SUFFICES ASSUME NEW i \in 1 .. 7
               PROVE  NameLines(HeaderNames[i], h[HeaderNames[i]]) \in Text
    OBVIOUS
  <2>1. PICK n \in Names : n = HeaderNames[i]
    BY <1>2 DEF Names, ToSet
  <2>2. PICK vs \in Seq(Trimmed) : vs = h[n]
    BY DEF Headers
  <2>3. NameLines(n, vs) \in Text
    BY NameLinesType
  <2> QED
    BY <2>1, <2>2, <2>3
<1>4. DOMAIN g = 1 .. 7 /\ g = [i \in 1 .. 7 |-> g[i]] /\ \A i \in 1 .. 7 : g[i] \in Text
  BY <1>2, <1>3
<1> HIDE DEF g
<1> QED
  BY <1>1, <1>2, <1>4, FlattenType

LEMMA HeadersInType ==
  ASSUME NEW text \in Text
  PROVE  HeadersIn(text) \in Headers
<1>1. LinesOf(text) \in Seq(Text)
  BY LinesSteps DEF LineLists
<1>2. NoHeaders \in Headers
  BY ParsingType
<1> QED
  BY <1>1, <1>2, CollectingSteps DEF HeadersIn

LEMMA ParsedAreWellFormed ==
  ASSUME NEW s \in Parsed
  PROVE  s \in WellFormed /\ s.body = <<>> /\ s.headers["X_T"] = <<>>
<1>1. s.body = <<>> /\ s.headers["X_T"] = <<>>
  BY DEF Parsed
<1>2. {<<>>} \subseteq Text /\ {h \in Headers : h["X_T"] = <<>>} \subseteq Headers
  BY TextClosed
<1>3. s \in WellFormed
  BY <1>2 DEF Parsed, WellFormed
<1> QED
  BY <1>1, <1>3

\* What a window writes into a request.
Overwritten(base, u, m, h, mx, c, fo, i, d, fm, b) ==
  [base EXCEPT !.url = u, !.method = m, !.headers = h, !.max = mx, !.connect = c, !.follow = fo, !.insecure = i,
               !.data = d, !.form = fm, !.body = b]

LEMMA OverwrittenType ==
  ASSUME NEW base \in WellFormed, NEW u \in Text, NEW m \in Text, NEW h \in Headers, NEW mx \in Times, NEW c \in Times,
         NEW fo \in BOOLEAN, NEW i \in BOOLEAN, NEW d \in Seq(Datum), NEW fm \in Seq(FormField), NEW b \in Text,
         NEW r, r = Overwritten(base, u, m, h, mx, c, fo, i, d, fm, b)
  PROVE  r \in WellFormed /\ r.data = d /\ r.form = fm /\ r.body = b
BY DEF WellFormed, Overwritten

\* What the fields make is a request with one kind of body.
LEMMA RequestType ==
  ASSUME fields \in FieldsType, imported \in Imported
  PROVE  \A s \in Request : s \in WellFormed /\ OneBody(s)
<1>0. /\ fields.method \in Text /\ fields.url \in Text /\ fields.headers \in Text /\ fields.body \in Text
      /\ fields.max \in Times /\ fields.connect \in Times
  BY DEF FieldsType
<1>1. fields.preserve \in BOOLEAN /\ fields.follow \in BOOLEAN /\ fields.insecure \in BOOLEAN
  BY DEF FieldsType
<1>2. imported \in WellFormed /\ imported.body = <<>> /\ (imported.data = <<>> \/ imported.form = <<>>)
  BY ParsedAreWellFormed DEF Imported
<1>3. HeadersIn(fields.headers) \in Headers
  BY <1>0, HeadersInType
<1>4. PICK u \in Text, h \in Headers, mx \in Times, c \in Times :
         u = fields.url /\ h = HeadersIn(fields.headers) /\ mx = fields.max /\ c = fields.connect
  BY <1>0, <1>3
<1>f. PICK fo \in BOOLEAN, i \in BOOLEAN : fo = fields.follow /\ i = fields.insecure
  BY <1>1
<1>5. ASSUME NEW s \in WindowsSpec(fields, imported)
      PROVE  s \in WellFormed /\ OneBody(s)
  <2>u. PICK t \in Text : t = TrimSpace(fields.url)
    BY <1>0, TrimType
  <2>1. PICK m \in Text : m = IF TrimSpace(fields.method) = <<>> THEN <<"GET">> ELSE TrimSpace(fields.method)
    <3>1. "GET" \in Atoms
      BY DEF Atoms
    <3>2. <<"GET">> \in Text
      BY <3>1, TextClosed
    <3> QED
      BY <1>0, <3>2, TrimType
  <2>2. PICK d \in Seq(Datum) : d = IF fields.preserve THEN imported.data ELSE <<>>
    BY <1>2, WellFormedParts, EmptySeq
  <2>3. PICK fm \in Seq(FormField) : fm = IF fields.preserve THEN imported.form ELSE <<>>
    BY <1>2, WellFormedParts, EmptySeq
  <2>4. PICK b \in Text : b = IF fields.preserve THEN imported.body ELSE fields.body
    BY <1>0, <1>2, WellFormedParts
  <2>5. s = Overwritten(imported, t, m, h, mx, c, fo, i, d, fm, b)
    BY <1>4, <1>f, <2>u, <2>1, <2>2, <2>3, <2>4 DEF WindowsSpec, Imported, Parsed, Overwritten
  <2>6. s \in WellFormed /\ s.data = d /\ s.form = fm /\ s.body = b
    BY <1>2, <2>5, OverwrittenType
  <2> QED
    BY <1>2, <2>2, <2>3, <2>4, <2>6 DEF OneBody
<1>6. ASSUME NEW s \in MacSpec(fields)
      PROVE  s \in WellFormed /\ OneBody(s)
  <2>1. NoSpec \in WellFormed /\ NoSpec.data = <<>> /\ NoSpec.form = <<>>
    BY ParsingType, ParsedAreWellFormed DEF NoSpec
  <2>2. PICK d \in Seq(Datum) : d = <<>>
    BY EmptySeq
  <2>3. PICK fm \in Seq(FormField) : fm = <<>>
    BY EmptySeq
  <2>4. PICK m \in Text, b \in Text : m = fields.method /\ b = fields.body
    BY <1>0
  <2>5. s = Overwritten(NoSpec, u, m, h, mx, c, fo, i, d, fm, b)
    <3>1. s = [NoSpec EXCEPT !.url = u, !.method = m, !.body = b, !.headers = h,
                             !.max = mx, !.connect = c, !.follow = fo, !.insecure = i]
      BY <1>4, <1>f, <2>4 DEF MacSpec
    <3>2. PICK x \in WellFormed : x = NoSpec
      BY <2>1
    <3>3. x.data = d /\ x.form = fm
      BY <2>1, <2>2, <2>3, <3>2
    <3>4. [x EXCEPT !.url = u, !.method = m, !.body = b, !.headers = h,
                    !.max = mx, !.connect = c, !.follow = fo, !.insecure = i]
            = Overwritten(x, u, m, h, mx, c, fo, i, x.data, x.form, b)
      BY DEF WellFormed, Overwritten
    <3> QED
      BY <3>1, <3>2, <3>3, <3>4
  <2>6. s \in WellFormed /\ s.data = d /\ s.form = fm /\ s.body = b
    BY <2>1, <2>5, OverwrittenType
  <2> QED
    BY <2>2, <2>3, <2>6 DEF OneBody
<1> QED
  BY <1>5, <1>6 DEF Request

\* Running a command that was generated.
LEMMA GeneratedIsSent ==
  ASSUME fields \in FieldsType, imported \in Imported
  PROVE  GeneratedCommandIsTheRequest
<1> SUFFICES ASSUME NEW s \in Request, Expressible(s), NEW text \in FormatCURL(s)
             PROVE  Run(text) = DoHTTPRequest(s)
  BY DEF GeneratedCommandIsTheRequest
<1>1. s \in WellFormed /\ OneBody(s)
  BY RequestType
<1>2. s.headers["X_T"] = <<>>
  BY DEF Expressible
<1>3. ParseCURL(text) = {Meant(s)}
  BY <1>1, <1>2, FormattedMeansItself
<1>4. DoHTTPRequest(Meant(s)) = DoHTTPRequest(s)
  BY <1>1, MeantIsSent
<1>5. Run(text) = UNION {DoHTTPRequest(x) : x \in {Meant(s)}}
  BY <1>3 DEF Run
<1>6. UNION {DoHTTPRequest(x) : x \in {Meant(s)}} = DoHTTPRequest(Meant(s))
  OBVIOUS
<1> QED
  BY <1>4, <1>5, <1>6

-----------------------------------------------------------------------------
(* What the windows keep: texts, requests, and after an import what the      *)
(* fields can hold of the request                                            *)

WorkspaceType == curl \in Text /\ fields \in FieldsType /\ imported \in Imported

FieldsHold(s) ==
  /\ fields.url = s.url /\ fields.headers = headerLines(s.headers)
  /\ fields.follow = s.follow /\ fields.insecure = s.insecure
  /\ program = "windows" =>
       /\ imported = s
       /\ fields.method = s.method /\ fields.max = s.max /\ fields.connect = s.connect
       /\ fields.preserve = (s.data # <<>> \/ s.form # <<>>)
       /\ fields.preserve = FALSE => fields.body = <<>>
  /\ program = "macos" =>
       /\ s.method \in MacMethods => fields.method = s.method
       /\ fields.body = Joined([i \in DOMAIN s.data |-> s.data[i].value], <<"&">>)

FieldsInv ==
  /\ WorkspaceType
  /\ source # <<>> => \E s \in Imported : source = <<s>> /\ FieldsHold(s)

LEMMA TimesAre == {0, 2, 10, 30} \subseteq Times
BY DEF Times, Seconds

LEMMA WorkspaceStarts == WorkspaceInit => FieldsInv
<1> SUFFICES ASSUME WorkspaceInit
             PROVE  FieldsInv
  OBVIOUS
<1>1. curl \in Text
  BY TextClosed DEF WorkspaceInit
<1>2. imported \in Imported
  BY ParsingType DEF WorkspaceInit, Imported, NoSpec
<1>3. fields \in FieldsType
  <2>1. "GET" \in Atoms /\ "http://a" \in Atoms
    BY DEF Atoms
  <2>2. <<"GET">> \in Text /\ <<"http://a">> \in Text /\ <<>> \in Text
    BY <2>1, TextClosed
  <2>3. fields = Blank
    BY DEF WorkspaceInit
  <2> QED
    BY <2>2, <2>3, TimesAre DEF Blank, FieldsType
<1>4. source = <<>>
  BY DEF WorkspaceInit
<1> QED
  BY <1>1, <1>2, <1>3, <1>4 DEF FieldsInv, WorkspaceType

LEMMA ImportedParts ==
  ASSUME NEW s \in Imported
  PROVE  /\ s \in WellFormed /\ s.body = <<>>
         /\ s.method \in Text /\ s.url \in Text /\ s.headers \in Headers /\ s.data \in Seq(Datum) /\ s.form \in Seq(FormField)
         /\ s.max \in Times /\ s.connect \in Times /\ s.follow \in BOOLEAN /\ s.insecure \in BOOLEAN
         /\ headerLines(s.headers) \in Text
         /\ Joined([i \in DOMAIN s.data |-> s.data[i].value], <<"&">>) \in Text
<1>1. s \in WellFormed /\ s.body = <<>>
  BY ParsedAreWellFormed DEF Imported
<1>2. /\ s.method \in Text /\ s.url \in Text /\ s.headers \in Headers /\ s.data \in Seq(Datum) /\ s.form \in Seq(FormField)
      /\ s.max \in Times /\ s.connect \in Times /\ s.follow \in BOOLEAN /\ s.insecure \in BOOLEAN
  BY <1>1, WellFormedParts
<1>3. headerLines(s.headers) \in Text
  BY <1>2, HeaderLinesType
<1>4. Joined([i \in DOMAIN s.data |-> s.data[i].value], <<"&">>) \in Text
  <2> DEFINE X == Datum
             g == [i \in DOMAIN s.data |-> s.data[i].value]
             d == s.data
             by == <<"&">>
  <2>1. d \in Seq(X)
    BY <1>2
  <2>2. by \in Text
    <3>1. "&" \in Atoms
      BY DEF Atoms
    <3> QED
      BY <3>1, TextClosed
  <2>3. \A x \in X : x.value \in Text
    BY DEF Datum
  <2> HIDE DEF X
  <2>4. \A i \in DOMAIN d : d[i] \in X
    BY <2>1
  <2>5. DOMAIN g = DOMAIN d /\ \A i \in DOMAIN d : g[i] \in Text
    BY <2>3, <2>4
  <2> HIDE DEF g, d, by
  <2>6. Joined(g, by) \in Text
    BY <2>1, <2>2, <2>5, JoinedType
  <2> QED
    BY <2>6 DEF g, by
<1> QED
  BY <1>1, <1>2, <1>3, <1>4

\* Reading an imported command into the windows.
LEMMA ImportKeeps ==
  ASSUME FieldsInv, ImportWindows \/ ImportMac
  PROVE  FieldsInv'
<1>1. curl \in Text /\ fields \in FieldsType /\ imported \in Imported
  BY DEF FieldsInv, WorkspaceType
<1>2. \A s \in ParseCURL(curl) : s \in Imported
  BY <1>1, ParsedRequests
<1>3. CASE ImportWindows
  <2>1. PICK s \in Imported :
           /\ imported' = s /\ source' = <<s>>
           /\ LET structured == s.data # <<>> \/ s.form # <<>>
              IN fields' = [method |-> s.method, url |-> s.url, headers |-> headerLines(s.headers),
                            body |-> IF structured THEN <<"JSON">> ELSE s.body, preserve |-> structured,
                            max |-> s.max, connect |-> s.connect, follow |-> s.follow, insecure |-> s.insecure]
    BY <1>2, <1>3 DEF ImportWindows
  <2>2. program = "windows" /\ program' = program /\ curl' = curl
    BY <1>3 DEF ImportWindows
  <2>3. PICK st \in BOOLEAN : st = (s.data # <<>> \/ s.form # <<>>)
    OBVIOUS
  <2>4. PICK b \in Text : b = IF st THEN <<"JSON">> ELSE s.body
    <3>1. "JSON" \in Atoms
      BY DEF Atoms
    <3> QED
      BY <3>1, TextClosed, ImportedParts
  <2>5. PICK h \in Text : h = headerLines(s.headers)
    BY ImportedParts
  <2>6. PICK fo \in BOOLEAN, i \in BOOLEAN : fo = s.follow /\ i = s.insecure
    BY ImportedParts
  <2>7. PICK m \in Text, u \in Text, mx \in Times, c \in Times : m = s.method /\ u = s.url /\ mx = s.max /\ c = s.connect
    BY ImportedParts
  <2>8. fields' = [method |-> m, url |-> u, headers |-> h, body |-> b, preserve |-> st,
                   max |-> mx, connect |-> c, follow |-> fo, insecure |-> i]
    BY <2>1, <2>3, <2>4, <2>5, <2>6, <2>7
  <2>9. fields' \in FieldsType
    BY <2>8 DEF FieldsType
  <2>10. /\ fields'.method = m /\ fields'.url = u /\ fields'.headers = h /\ fields'.body = b /\ fields'.max = mx
         /\ fields'.connect = c /\ fields'.preserve = st /\ fields'.follow = fo /\ fields'.insecure = i
    BY <2>8
  <2>11. st = FALSE => b = <<>>
    BY <2>4, ImportedParts
  <2>12. FieldsHold(s)'
    BY <2>1, <2>2, <2>3, <2>5, <2>6, <2>7, <2>10, <2>11 DEF FieldsHold
  <2> QED
    BY <1>1, <2>1, <2>2, <2>9, <2>12 DEF FieldsInv, WorkspaceType
<1>4. CASE ImportMac
  <2>1. PICK s \in Imported :
         /\ source' = <<s>>
         /\ fields' = [fields EXCEPT !.method  = IF s.method \in MacMethods THEN s.method ELSE @,
                                     !.url = s.url, !.headers = headerLines(s.headers),
                                     !.body = Joined([i \in DOMAIN s.data |-> s.data[i].value], <<"&">>),
                                     !.max     = IF s.max > 0 THEN s.max ELSE @,
                                     !.connect = IF s.connect > 0 THEN s.connect ELSE @,
                                     !.follow = s.follow, !.insecure = s.insecure]
    BY <1>2, <1>4 DEF ImportMac
  <2>2. program = "macos" /\ program' = program /\ curl' = curl /\ imported' = imported
    BY <1>4 DEF ImportMac
  <2>a. /\ fields.method \in Text /\ fields.max \in Times /\ fields.connect \in Times
    BY <1>1 DEF FieldsType
  <2>3. PICK m \in Text : m = IF s.method \in MacMethods THEN s.method ELSE fields.method
    BY <2>a, ImportedParts
  <2>4. PICK b \in Text : b = Joined([i \in DOMAIN s.data |-> s.data[i].value], <<"&">>)
    BY ImportedParts
  <2>5. PICK h \in Text : h = headerLines(s.headers)
    BY ImportedParts
  <2>6. PICK fo \in BOOLEAN, i \in BOOLEAN : fo = s.follow /\ i = s.insecure
    BY ImportedParts
  <2>7. PICK mx \in Times : mx = IF s.max > 0 THEN s.max ELSE fields.max
    BY <2>a, ImportedParts
  <2>8. PICK c \in Times : c = IF s.connect > 0 THEN s.connect ELSE fields.connect
    BY <2>a, ImportedParts
  <2>9. PICK u \in Text : u = s.url
    BY ImportedParts
  <2>10. fields' = [fields EXCEPT !.method = m, !.url = u, !.headers = h, !.body = b, !.max = mx, !.connect = c,
                                  !.follow = fo, !.insecure = i]
    BY <2>1, <2>3, <2>4, <2>5, <2>6, <2>7, <2>8, <2>9
  <2>11. /\ fields' \in FieldsType /\ fields'.method = m /\ fields'.url = u /\ fields'.headers = h /\ fields'.body = b
         /\ fields'.follow = fo /\ fields'.insecure = i
    BY <1>1, <2>10 DEF FieldsType
  <2>12. FieldsHold(s)'
    BY <2>2, <2>3, <2>4, <2>5, <2>6, <2>9, <2>11 DEF FieldsHold
  <2> QED
    BY <1>1, <2>1, <2>2, <2>11, <2>12 DEF FieldsInv, WorkspaceType
<1> QED
  BY <1>3, <1>4

LEMMA EditKeeps ==
  ASSUME FieldsInv, EditBody \/ EditHeaders \/ EditMethod \/ EditURL \/ TogglePreserve
  PROVE  FieldsInv'
<1>1. curl \in Text /\ fields \in FieldsType /\ imported \in Imported
  BY DEF FieldsInv, WorkspaceType
<1>2. Bodies \subseteq Text /\ Lines \subseteq Text /\ Methods \subseteq Text /\ URLs \subseteq Text
  BY TextsAssumption, StringsAreText
<1>3. fields.headers \in Text /\ fields.body \in Text /\ fields.preserve \in BOOLEAN
  BY <1>1 DEF FieldsType
<1>4. /\ \A t \in Text : [fields EXCEPT !.body = t] \in FieldsType
      /\ \A t \in Text : [fields EXCEPT !.headers = t] \in FieldsType
      /\ \A t \in Text : [fields EXCEPT !.method = t] \in FieldsType
      /\ \A t \in Text : [fields EXCEPT !.url = t] \in FieldsType
      /\ \A t \in Text, b \in BOOLEAN : [fields EXCEPT !.preserve = b, !.body = t] \in FieldsType
  BY <1>1 DEF FieldsType
<1>5. ASSUME NEW f \in FieldsType, Edit(f)
      PROVE  FieldsInv'
  BY <1>1, <1>5 DEF Edit, FieldsInv, WorkspaceType
<1>6. CASE EditBody
  BY <1>2, <1>4, <1>5, <1>6 DEF EditBody
<1>7. CASE EditHeaders
  <2>1. PICK l \in Lines : Edit([fields EXCEPT !.headers = @ \o l \o <<"NL">>])
    BY <1>7 DEF EditHeaders
  <2>2. PICK t \in Text : t = fields.headers \o l \o <<"NL">>
    <3>1. "NL" \in Atoms
      BY DEF Atoms
    <3>2. l \in Text /\ <<"NL">> \in Text
      BY <1>2, <3>1, TextClosed
    <3> QED
      BY <1>3, <3>2, TextClosed
  <2>3. Edit([fields EXCEPT !.headers = t])
    BY <2>1, <2>2
  <2> QED
    BY <1>4, <1>5, <2>3
<1>8. CASE EditMethod
  BY <1>2, <1>4, <1>5, <1>8 DEF EditMethod
<1>9. CASE EditURL
  BY <1>2, <1>4, <1>5, <1>9 DEF EditURL
<1>10. CASE TogglePreserve
  <2>1. PICK b \in BOOLEAN : b = ~fields.preserve
    OBVIOUS
  <2>2. PICK t \in Text : t = IF fields.preserve THEN <<>> ELSE fields.body
    BY <1>3, TextClosed
  <2>3. Edit([fields EXCEPT !.preserve = b, !.body = t])
    BY <1>10, <2>1, <2>2 DEF TogglePreserve
  <2> QED
    BY <1>4, <1>5, <2>3
<1> QED
  BY <1>6, <1>7, <1>8, <1>9, <1>10

LEMMA CurlKeeps ==
  ASSUME FieldsInv, (\E c \in Commands : Paste(c)) \/ (\E p \in Pieces : Type(p)) \/ Generate
  PROVE  FieldsInv'
<1>1. curl \in Text /\ fields \in FieldsType /\ imported \in Imported
  BY DEF FieldsInv, WorkspaceType
<1>2. ASSUME curl' \in Text, UNCHANGED <<program, imported, fields, source>>
      PROVE  FieldsInv'
  BY <1>2 DEF FieldsInv, WorkspaceType, FieldsHold
<1>3. ASSUME NEW c \in Commands, Paste(c)
      PROVE  FieldsInv'
  <2>1. c \in Text
    BY TextsAssumption, StringsAreText
  <2> QED
    BY <1>2, <1>3, <2>1 DEF Paste
<1>4. ASSUME NEW p \in Pieces, Type(p)
      PROVE  FieldsInv'
  <2>1. TextOf(p) \in Text
    BY PieceTexts
  <2>2. curl \o TextOf(p) \in Text
    BY <1>1, <2>1, TextClosed
  <2> QED
    BY <1>2, <1>4, <2>2 DEF Type
<1>5. CASE Generate
  <2>1. PICK s \in Request : curl' \in FormatCURL(s)
    BY <1>5 DEF Generate
  <2>2. PICK ws \in Seq(CommandWord) : ws = CommandWords(s)
    BY <1>1, RequestType, WellFormedAreRequests, CommandWordsType
  <2>3. curl' = <<"curl">> \o Rest(ws)
    BY <2>1, <2>2 DEF FormatCURL, CommandText, Rest
  <2>4. "curl" \in Atoms
    BY DEF Atoms
  <2>5. <<"curl">> \in Text /\ Rest(ws) \in Text
    BY <2>4, TextClosed, RestSteps
  <2>6. curl' \in Text
    BY <2>3, <2>5, TextClosed
  <2> QED
    BY <1>2, <1>5, <2>6 DEF Generate
<1> QED
  BY <1>3, <1>4, <1>5

LEMMA WorkspaceKept == FieldsInv /\ [WorkspaceNext]_workspaceVars => FieldsInv'
<1> SUFFICES ASSUME FieldsInv, [WorkspaceNext]_workspaceVars
             PROVE  FieldsInv'
  OBVIOUS
<1>1. CASE WorkspaceNext
  <2>1. CASE (\E c \in Commands : Paste(c)) \/ (\E p \in Pieces : Type(p)) \/ Generate
    BY <2>1, CurlKeeps
  <2>2. CASE ImportWindows \/ ImportMac
    BY <2>2, ImportKeeps
  <2>3. CASE EditBody \/ EditHeaders \/ EditMethod \/ EditURL \/ TogglePreserve
    BY <2>3, EditKeeps
  <2> QED
    BY <1>1, <2>1, <2>2, <2>3 DEF WorkspaceNext
<1>2. CASE UNCHANGED workspaceVars
  BY <1>2 DEF workspaceVars, FieldsInv, WorkspaceType, FieldsHold
<1> QED
  BY <1>1, <1>2

\* Whatever is pasted, typed, imported, edited and generated, the boxes hold texts,
\* the base that WindowsSpec copies is a request ParseCURL can make, and until
\* something is edited the fields show the request of the last import: onImport of
\* the two windows.
THEOREM WorkspaceKeepsItsRequests == WorkspaceSpec => []FieldsInv
BY WorkspaceStarts, WorkspaceKept, PTL DEF WorkspaceSpec

\* Running the command that FormatCURL writes of the fields sends the request that
\* sending the fields does, from every state of the window.
THEOREM GeneratedCommandsAreTheirRequests == WorkspaceSpec => []GeneratedCommandIsTheRequest
<1>1. FieldsInv => GeneratedCommandIsTheRequest
  BY GeneratedIsSent DEF FieldsInv, WorkspaceType
<1> QED
  BY <1>1, WorkspaceKeepsItsRequests, PTL

-----------------------------------------------------------------------------
(* What was imported is what is sent                                         *)

\* The headers of one line each are read back from the lines they are shown as.
LEMMA HeadersReadBack ==
  ASSUME NEW h \in Headers, OneLine(h)
  PROVE  HeadersIn(headerLines(h)) = h /\ ValidHeaders(headerLines(h))
BY TidyAll, TidyMeans

\* Two requests that differ in what does not leave.
LEMMA SentAlike ==
  ASSUME NEW r, NEW s, r.url = s.url, r.headers = s.headers, r.auth = s.auth, r.cookies = s.cookies, r.agent = s.agent,
         r.max = s.max, r.connect = s.connect, r.follow = s.follow, r.insecure = s.insecure,
         SentMethod(r) = SentMethod(s), buildBody(r) = buildBody(s)
  PROVE  DoHTTPRequest(r) = DoHTTPRequest(s)
<1>1. \A type : HeadersOf(r, type) = HeadersOf(s, type)
  BY DEF HeadersOf
<1>2. \A b, m : Leaving(r, m, b) = Leaving(s, m, b)
  BY <1>1 DEF Leaving
<1>3. {Leaving(r, SentMethod(r), b) : b \in buildBody(r)} = {Leaving(s, SentMethod(s), b) : b \in buildBody(s)}
  BY <1>2
<1> QED
  BY <1>3, SentIs

LEMMA WindowsImport ==
  ASSUME FieldsInv, program = "windows", NEW s \in Imported, FieldsHold(s), WindowsHolds(s)
  PROVE  SentRequests = DoHTTPRequest(s)
<1>h. TrimSpace(s.method) # <<>> /\ OneLine(s.headers) /\ TrimSpace(s.url) = s.url
      /\ s.max <= MaxSeconds /\ s.connect <= MaxSeconds
  BY DEF WindowsHolds
<1>1. s \in WellFormed /\ s.body = <<>> /\ s.method \in Text /\ s.headers \in Headers
      /\ s.data \in Seq(Datum) /\ s.form \in Seq(FormField)
  BY ImportedParts
<1>2. /\ fields.url = s.url /\ fields.method = s.method /\ fields.max = s.max /\ fields.connect = s.connect
      /\ imported = s /\ HeadersIn(fields.headers) = s.headers /\ ValidHeaders(fields.headers)
  BY <1>1, <1>h, HeadersReadBack DEF FieldsHold
<1>a. TrimSpace(fields.url) = s.url /\ (Acceptable(fields) <=> s.url \in Absolute)
  BY <1>h, <1>2 DEF Acceptable
<1>3. fields.follow = s.follow /\ fields.insecure = s.insecure
  BY DEF FieldsHold
<1>4. Request = WindowsSpec(fields, s)
  BY <1>2 DEF Request
<1>5. CASE s.url \notin Absolute
  <2>1. Request = {}
    BY <1>a, <1>4, <1>5 DEF WindowsSpec
  <2>2. DoHTTPRequest(s) = {}
    BY <1>5, SentIs
  <2> QED
    BY <2>1, <2>2 DEF SentRequests
<1>6. CASE s.url \in Absolute
  <2>1. PICK m \in Text : m = TrimSpace(s.method)
    BY <1>1, TrimType
  <2>2. m # <<>> /\ TrimSpace(m) = m
    BY <1>1, <1>h, <2>1, TrimmedAre
  <2>3. PICK st \in BOOLEAN : st = fields.preserve
    BY DEF FieldsInv, WorkspaceType, FieldsType
  <2>4. /\ (IF st THEN s.data ELSE <<>>) = s.data /\ (IF st THEN s.form ELSE <<>>) = s.form
        /\ (IF st THEN s.body ELSE fields.body) = s.body
    BY <1>1, <2>3 DEF FieldsHold
  <2>5. PICK r : r = [s EXCEPT !.url = s.url, !.method = m, !.headers = s.headers, !.max = s.max, !.connect = s.connect,
                               !.follow = s.follow, !.insecure = s.insecure,
                               !.data = s.data, !.form = s.form, !.body = s.body]
    OBVIOUS
  <2>6. Request = {r}
    BY <1>2, <1>a, <1>3, <1>4, <1>6, <2>1, <2>2, <2>3, <2>4, <2>5 DEF WindowsSpec
  <2>7. \A x \in WellFormed :
          LET y == [x EXCEPT !.url = x.url, !.method = m, !.headers = x.headers, !.max = x.max, !.connect = x.connect,
                             !.follow = x.follow, !.insecure = x.insecure,
                             !.data = x.data, !.form = x.form, !.body = x.body]
          IN  /\ y.url = x.url /\ y.headers = x.headers /\ y.auth = x.auth /\ y.cookies = x.cookies /\ y.agent = x.agent
              /\ y.max = x.max /\ y.connect = x.connect /\ y.follow = x.follow /\ y.insecure = x.insecure
              /\ y.data = x.data /\ y.form = x.form /\ y.body = x.body /\ y.method = m
    BY DEF WellFormed
  <2>8. /\ r.url = s.url /\ r.headers = s.headers /\ r.auth = s.auth /\ r.cookies = s.cookies /\ r.agent = s.agent
        /\ r.max = s.max /\ r.connect = s.connect /\ r.follow = s.follow /\ r.insecure = s.insecure
        /\ r.data = s.data /\ r.form = s.form /\ r.body = s.body /\ r.method = m
    BY <1>1, <2>5, <2>7
  <2>9. SentMethod(r) = SentMethod(s)
    BY <2>1, <2>2, <2>8 DEF SentMethod
  <2>10. buildBody(r) = buildBody(s)
    BY <2>8 DEF buildBody
  <2>11. DoHTTPRequest(r) = DoHTTPRequest(s)
    BY <2>8, <2>9, <2>10, SentAlike
  <2> QED
    BY <2>6, <2>11 DEF SentRequests
<1> QED
  BY <1>5, <1>6

\* The data that the macOS window can hold are the texts they give.
LEMMA PlainData ==
  ASSUME NEW ds \in Seq(Datum),
         \A i \in DOMAIN ds : ds[i].kind # "--data-urlencode" /\ (StartsWith(ds[i].value, "@") => ds[i].kind = "--data-raw")
  PROVE  All([i \in DOMAIN ds |-> dataPartBytes(ds[i])], <<"&">>)
           = {Joined([i \in DOMAIN ds |-> ds[i].value], <<"&">>)}
<1> DEFINE ps == [i \in DOMAIN ds |-> dataPartBytes(ds[i])]
           ts == [i \in DOMAIN ps |-> CHOOSE t \in ps[i] : TRUE]
<1>1. \A i \in DOMAIN ds : dataPartBytes(ds[i]) = {ds[i].value}
  <2> SUFFICES ASSUME NEW i \in DOMAIN ds
               PROVE  dataPartBytes(ds[i]) = {ds[i].value}
    OBVIOUS
  <2>1. PICK d : d = ds[i]
    OBVIOUS
  <2>2. d.kind # "--data-urlencode" /\ (StartsWith(d.value, "@") => d.kind = "--data-raw")
    BY <2>1
  <2>3. ~StartsWith(d.value, "@") => Content(d.value) = {d.value}
    BY DEF Content
  <2>4. CASE StartsWith(d.value, "@")
    BY <2>1, <2>2, <2>4 DEF dataPartBytes
  <2>5. CASE ~StartsWith(d.value, "@") /\ d.kind = "--data-binary"
    BY <2>1, <2>2, <2>3, <2>5 DEF dataPartBytes
  <2>6. CASE ~StartsWith(d.value, "@") /\ d.kind # "--data-binary"
    BY <2>1, <2>2, <2>6 DEF dataPartBytes
  <2> QED
    BY <2>4, <2>5, <2>6
<1>2. DOMAIN ps = DOMAIN ds /\ \A i \in DOMAIN ds : ps[i] = {ds[i].value}
  BY <1>1
<1>3. {} \notin ToSet(ps)
  <2> HIDE DEF ps
  <2> QED
    BY <1>2 DEF ToSet
<1>4. ts = [i \in DOMAIN ds |-> ds[i].value]
  <2> HIDE DEF ps
  <2>1. \A v : (CHOOSE t \in {v} : TRUE) = v
    OBVIOUS
  <2>2. \A i \in DOMAIN ds : (CHOOSE t \in ps[i] : TRUE) = ds[i].value
    BY <1>2, <2>1
  <2> QED
    BY <1>2, <2>2
<1>5. All(ps, <<"&">>) = {Joined(ts, <<"&">>)}
  <2> HIDE DEF ps
  <2> QED
    BY <1>3 DEF All
<1> HIDE DEF ps, ts
<1>6. Joined(ts, <<"&">>) = Joined([i \in DOMAIN ds |-> ds[i].value], <<"&">>)
  BY <1>4
<1> QED
  BY <1>5, <1>6 DEF ps

LEMMA NothingJoined == Joined([i \in DOMAIN <<>> |-> <<>>[i].value], <<"&">>) = <<>>
<1> DEFINE g == [i \in DOMAIN <<>> |-> <<>>[i].value]
           j == [i \in DOMAIN g |-> (IF i = 1 THEN <<>> ELSE <<"&">>) \o g[i]]
<1>1. DOMAIN g = {} /\ DOMAIN j = {}
  OBVIOUS
<1>2. j = <<>>
  OBVIOUS
<1>3. FlattenSeq(<<>>) = <<>>
  BY Flatten
<1> HIDE DEF j, g
<1> QED
  BY <1>2, <1>3 DEF Joined, j, g

LEMMA MacMethodsAre == \A m \in MacMethods : m \in Text /\ TrimSpace(m) = m /\ m # <<>>
<1>1. "GET" \in Atoms /\ "POST" \in Atoms /\ "PUT" \in Atoms /\ Ink("GET") /\ Ink("POST") /\ Ink("PUT")
  BY DEF Atoms, Ink
<1>2. TrimSpace(<<"GET">>) = <<"GET">> /\ TrimSpace(<<"POST">>) = <<"POST">> /\ TrimSpace(<<"PUT">>) = <<"PUT">>
  BY <1>1, TrimmedAre
<1>3. <<"GET">> \in Text /\ <<"POST">> \in Text /\ <<"PUT">> \in Text
  BY <1>1, TextClosed
<1> QED
  BY <1>2, <1>3 DEF MacMethods

Untimed(rs) == {[r EXCEPT !.max = 0, !.connect = 0] : r \in rs}

\* The body of the window is the one the data of the request make, and the type
\* these imply is named by the headers.
LEMMA MacBody ==
  ASSUME NEW s \in WellFormed, s.body = <<>>, MacHolds(s),
         NEW r, r.data = <<>>, r.form = <<>>, r.body = Joined([i \in DOMAIN s.data |-> s.data[i].value], <<"&">>)
  PROVE  \E b, c : /\ buildBody(r) = {b} /\ buildBody(s) = {c} /\ b.bytes = c.bytes
                   /\ HeadersOf(s, b.type) = HeadersOf(s, c.type)
<1> DEFINE J == Joined([i \in DOMAIN s.data |-> s.data[i].value], <<"&">>)
           x == [type |-> <<>>, bytes |-> J]
           y == [type |-> <<"urlencoded">>, bytes |-> J]
<1>1. s.form = <<>> /\ s.data \in Seq(Datum)
  BY WellFormedParts DEF MacHolds
<1>2. PICK j : j = J
  OBVIOUS
<1>3. buildBody(r) = {x}
  <2>1. r.data \o r.form = <<>>
    BY EmptySeq, ConcatEmptySeq
  <2> QED
    BY <2>1 DEF buildBody
<1>4. CASE s.data = <<>>
  <2>1. J = <<>>
    BY <1>4, NothingJoined
  <2>2. s.data \o s.form = <<>>
    BY <1>1, <1>4, EmptySeq, ConcatEmptySeq
  <2>3. buildBody(s) = {[type |-> <<>>, bytes |-> <<>>]}
    <3> HIDE DEF J
    <3> QED
      BY <1>1, <1>4, <2>2 DEF buildBody
  <2>4. buildBody(s) = {x}
    <3> HIDE DEF J
    <3> QED
      BY <2>1, <2>3
  <2> HIDE DEF x
  <2> QED
    BY <1>3, <2>4
<1>5. CASE s.data # <<>>
  <2>1. \A i \in DOMAIN s.data : s.data[i].kind # "--data-urlencode" /\ (StartsWith(s.data[i].value, "@") => s.data[i].kind = "--data-raw")
    BY DEF MacHolds
  <2>2. PICK ds \in Seq(Datum) : ds = s.data
    BY <1>1
  <2>3. All([i \in DOMAIN ds |-> dataPartBytes(ds[i])], <<"&">>) = {Joined([i \in DOMAIN ds |-> ds[i].value], <<"&">>)}
    BY <2>1, <2>2, PlainData
  <2>4. buildBody(s) = {[type |-> <<"urlencoded">>, bytes |-> t] :
                          t \in All([i \in DOMAIN s.data |-> dataPartBytes(s.data[i])], <<"&">>)}
    BY <1>1, <1>5 DEF buildBody
  <2>5. buildBody(s) = {y}
    <3>1. All([i \in DOMAIN s.data |-> dataPartBytes(s.data[i])], <<"&">>) = {J}
      BY <2>2, <2>3
    <3> HIDE DEF J
    <3> QED
      BY <2>4, <3>1
  <2>6. HeadersOf(s, y.type) = HeadersOf(s, x.type)
    <3>1. HasHeader(s.headers, "Content-Type")
      BY <1>5 DEF MacHolds
    <3>2. PICK type : type = y.type
      OBVIOUS
    <3>3. HeadersOf(s, type) = HeadersOf(s, <<>>)
      BY <3>1, NamedType
    <3>4. x.type = <<>>
      OBVIOUS
    <3> QED
      BY <3>2, <3>3, <3>4
  <2>7. x.bytes = y.bytes
    OBVIOUS
  <2> HIDE DEF x, y
  <2> QED
    BY <1>3, <2>5, <2>6, <2>7
<1> QED
  BY <1>4, <1>5

\* Requests that differ in their times only.
LEMMA UntimedAlike ==
  ASSUME NEW U, NEW M, NEW H, NEW B, NEW X,
         NEW p \in [url : U, method : M, headers : H, body : B, max : X, connect : X, follow : BOOLEAN, insecure : BOOLEAN],
         NEW q \in [url : U, method : M, headers : H, body : B, max : X, connect : X, follow : BOOLEAN, insecure : BOOLEAN],
         p.url = q.url, p.method = q.method, p.headers = q.headers, p.body = q.body, p.follow = q.follow,
         p.insecure = q.insecure
  PROVE  [p EXCEPT !.max = 0, !.connect = 0] = [q EXCEPT !.max = 0, !.connect = 0]
OBVIOUS

LEMMA MacImport ==
  ASSUME FieldsInv, program = "macos", NEW s \in Imported, FieldsHold(s), MacHolds(s)
  PROVE  Untimed(SentRequests) = Untimed(DoHTTPRequest(s))
<1>1. s \in WellFormed /\ s.body = <<>> /\ s.headers \in Headers
  BY ImportedParts
<1>2. s.method \in MacMethods /\ OneLine(s.headers) /\ s.auth = <<>> /\ s.cookies = <<>> /\ s.agent = <<>>
  BY DEF MacHolds
<1>3. /\ fields.url = s.url /\ fields.method = s.method /\ HeadersIn(fields.headers) = s.headers
      /\ fields.body = Joined([i \in DOMAIN s.data |-> s.data[i].value], <<"&">>)
  BY <1>1, <1>2, HeadersReadBack DEF FieldsHold
<1>4. fields.follow = s.follow /\ fields.insecure = s.insecure
  BY DEF FieldsHold
<1>5. PICK x \in WellFormed : x = NoSpec /\ x.data = <<>> /\ x.form = <<>> /\ x.auth = <<>> /\ x.cookies = <<>> /\ x.agent = <<>>
  BY ParsingType, ParsedAreWellFormed DEF NoSpec
<1>6. PICK r : r = [x EXCEPT !.url = fields.url, !.method = fields.method, !.body = fields.body, !.headers = HeadersIn(fields.headers),
                             !.max = fields.max, !.connect = fields.connect, !.follow = fields.follow, !.insecure = fields.insecure]
  OBVIOUS
<1>7. Request = {r}
  BY <1>5, <1>6 DEF Request, MacSpec
<1>8. /\ r.url = s.url /\ r.method = s.method /\ r.headers = s.headers
      /\ r.body = Joined([i \in DOMAIN s.data |-> s.data[i].value], <<"&">>)
      /\ r.data = <<>> /\ r.form = <<>> /\ r.auth = s.auth /\ r.cookies = s.cookies /\ r.agent = s.agent
  BY <1>2, <1>3, <1>5, <1>6 DEF WellFormed
<1>9. r.follow = s.follow /\ r.insecure = s.insecure
  BY <1>4, <1>6 DEF WellFormed
<1>10. PICK m : m = s.method /\ SentMethod(r) = m /\ SentMethod(s) = m
  BY <1>2, <1>8, MacMethodsAre DEF SentMethod
<1>11. PICK b, c : /\ buildBody(r) = {b} /\ buildBody(s) = {c} /\ b.bytes = c.bytes
                   /\ HeadersOf(s, b.type) = HeadersOf(s, c.type)
  BY <1>1, <1>8, MacBody
<1>12. \A type : HeadersOf(r, type) = HeadersOf(s, type)
  BY <1>8 DEF HeadersOf
<1>13. [Leaving(r, m, b) EXCEPT !.max = 0, !.connect = 0] = [Leaving(s, m, c) EXCEPT !.max = 0, !.connect = 0]
  <2>1. HeadersOf(r, b.type) = HeadersOf(s, c.type)
    BY <1>11, <1>12
  <2>2. PICK fo \in BOOLEAN, i \in BOOLEAN : fo = s.follow /\ i = s.insecure /\ fo = r.follow /\ i = r.insecure
    BY <1>9, ImportedParts
  <2>3. PICK u, h, t : u = s.url /\ h = HeadersOf(s, c.type) /\ t = c.bytes
    OBVIOUS
  <2>4. PICK x1, x2, y1, y2 : x1 = r.max /\ x2 = r.connect /\ y1 = s.max /\ y2 = s.connect
    OBVIOUS
  <2>5. PICK p : p = [url |-> u, method |-> m, headers |-> h, body |-> t, max |-> x1, connect |-> x2,
                      follow |-> fo, insecure |-> i]
    OBVIOUS
  <2>6. PICK q : q = [url |-> u, method |-> m, headers |-> h, body |-> t, max |-> y1, connect |-> y2,
                      follow |-> fo, insecure |-> i]
    OBVIOUS
  <2>7. p = Leaving(r, m, b)
    <3>1. Leaving(r, m, b) = [url |-> r.url, method |-> m, headers |-> HeadersOf(r, b.type), body |-> b.bytes, max |-> r.max,
                              connect |-> r.connect, follow |-> r.follow, insecure |-> r.insecure]
      BY DEF Leaving
    <3> QED
      BY <1>8, <1>11, <2>1, <2>2, <2>3, <2>4, <2>5, <3>1
  <2>8. q = Leaving(s, m, c)
    BY <2>2, <2>3, <2>4, <2>6 DEF Leaving
  <2>9. PICK U, M, H, B, X : U = {u} /\ M = {m} /\ H = {h} /\ B = {t} /\ X = {x1, x2, y1, y2}
    OBVIOUS
  <2>10. p \in [url : U, method : M, headers : H, body : B, max : X, connect : X, follow : BOOLEAN, insecure : BOOLEAN]
    BY <2>5, <2>9
  <2>11. q \in [url : U, method : M, headers : H, body : B, max : X, connect : X, follow : BOOLEAN, insecure : BOOLEAN]
    BY <2>6, <2>9
  <2>12. /\ p.url = q.url /\ p.method = q.method /\ p.headers = q.headers /\ p.body = q.body
         /\ p.follow = q.follow /\ p.insecure = q.insecure
    BY <2>5, <2>6
  <2>13. [p EXCEPT !.max = 0, !.connect = 0] = [q EXCEPT !.max = 0, !.connect = 0]
    BY <2>10, <2>11, <2>12, UntimedAlike
  <2> QED
    BY <2>7, <2>8, <2>13
<1>14. CASE s.url \notin Absolute
  <2>1. DoHTTPRequest(r) = {} /\ DoHTTPRequest(s) = {}
    BY <1>8, <1>14, SentIs
  <2> QED
    BY <1>7, <2>1 DEF SentRequests
<1>15. CASE s.url \in Absolute
  <2>1. DoHTTPRequest(r) = {Leaving(r, m, b)}
    BY <1>2, <1>8, <1>10, <1>11, <1>15, SentIs
  <2>2. DoHTTPRequest(s) = {Leaving(s, m, c)}
    BY <1>2, <1>10, <1>11, <1>15, SentIs
  <2>3. SentRequests = {Leaving(r, m, b)}
    BY <1>7, <2>1 DEF SentRequests
  <2> QED
    BY <1>13, <2>2, <2>3 DEF Untimed
<1> QED
  BY <1>14, <1>15

\* A command that was imported and not edited is sent as it says, or refused where it
\* would be itself, if its request is one that the window can hold: httpWorkspaceFields
\* (WindowsHolds) and the fields of the macOS window (MacHolds), there but for the times.
THEOREM ImportsAreSentAsTheySay == WorkspaceSpec => []ImportIsSent
<1>1. FieldsInv => ImportIsSent
  <2> SUFFICES ASSUME FieldsInv, source # <<>>
               PROVE  ImportIsSent
    BY DEF ImportIsSent
  <2>1. PICK s \in Imported : source = <<s>> /\ FieldsHold(s)
    BY DEF FieldsInv
  <2>2. source[1] = s
    BY <2>1
  <2>3. CASE program = "windows" /\ WindowsHolds(s)
    <3>1. SentRequests = DoHTTPRequest(s)
      BY <2>1, <2>3, WindowsImport
    <3> QED
      BY <2>2, <2>3, <3>1 DEF ImportIsSent
  <2>4. CASE program = "macos" /\ MacHolds(s)
    <3>1. Untimed(SentRequests) = Untimed(DoHTTPRequest(s))
      BY <2>1, <2>4, MacImport
    <3> QED
      BY <2>2, <2>4, <3>1 DEF ImportIsSent, Untimed
  <2>5. CASE /\ ~(program = "windows" /\ WindowsHolds(s))
             /\ ~(program = "macos" /\ MacHolds(s))
    BY <2>2, <2>5 DEF ImportIsSent
  <2> QED
    BY <2>3, <2>4, <2>5
<1> QED
  BY <1>1, WorkspaceKeepsItsRequests, PTL
==============================================================================
