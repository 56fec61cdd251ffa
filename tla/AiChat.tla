------------------------------- MODULE AiChat -------------------------------
(***************************************************************************)
(* The AI chat of the Windows program (apps/windows/ai_chat.go): one       *)
(* conversation, in the assistant panel of the main window or beside the   *)
(* report of an analysis window (apps/windows/analysis_ui.go).             *)
(*                                                                         *)
(* All fields belong to the UI thread.  Goroutines read attachments, ask the *)
(* service and analyse data; each posts a closure to the UI thread when it *)
(* ends and works meanwhile on what it was given at its start.  Texts are  *)
(* abstract: a question is a number, the packets or report sent with it    *)
(* another, an answer the number of pieces that have arrived.              *)
(***************************************************************************)
EXTENDS Integers, Sequences, SequencesExt, FiniteSetsExt

CONSTANTS
    Windows,      \* which of "assistant", "analysis" exist
    Paths,        \* files the user may attach
    Limit,        \* how many attachments a question may have (6)
    MaxQuestion,  \* bound on requestID and on the questions typed
    MaxLoad,      \* bound on loadID
    MaxReport,    \* bound on the local reports
    MaxPiece      \* bound on the pieces of an answer

ASSUME ChatAssumption ==
    /\ Windows \subseteq {"assistant", "analysis"}
    /\ IsFiniteSet(Paths)
    /\ Limit \in Nat /\ MaxQuestion \in Nat /\ MaxLoad \in Nat
    /\ MaxReport \in Nat /\ MaxPiece \in Nat

VARIABLES
    window, closed,            \* the kind of the window; it has been disposed of
    input, files,              \* c.input, c.filePaths
    loading, loadID, loaders,  \* c.loading, c.loadID, the goroutines that read files
    turns, context,            \* c.turns, c.context: answered questions, current report
    busy, requestID, req,      \* c.busy, c.requestID, the request in progress
    cancelled,                 \* its context
    stream,                    \* pending and posted of request, its timer, text shown
    working, reports           \* analysisWindow.busy; how many reports there were

loads  == <<loading, loadID, loaders>>
round  == <<turns, context>>
asking == <<busy, requestID, req, cancelled>>
work   == <<working, reports>>
vars   == <<window, closed, input, files, loads, round, asking, stream, work>>

NoRequest == [kind |-> "none", at |-> "over", turns |-> <<>>, q |-> 0, files |-> <<>>,
              got |-> 0, end |-> "none"]

NoStream == [pending |-> 0, posted |-> FALSE, timer |-> FALSE, shown |-> 0]

Init ==
    /\ window \in Windows /\ closed = FALSE
    /\ input = 0 /\ files = <<>>
    /\ loading = FALSE /\ loadID = 0 /\ loaders = {}
    /\ turns = <<>> /\ context = 0
    /\ busy = FALSE /\ requestID = 0 /\ req = NoRequest /\ cancelled = FALSE
    /\ stream = NoStream
    /\ working = FALSE /\ reports = 0

-----------------------------------------------------------------------------
(* What the user writes and attaches                                         *)

\* The input stays open while an answer is awaited.
Edit ==
    /\ ~closed
    /\ input' \in {0, requestID + 1} \ {input}
    /\ UNCHANGED <<window, closed, files, loads, round, asking, stream, work>>

\* A bug: what is attached already is not skipped.
StartLoaderUnseen(s) ==
    /\ loading' = TRUE /\ loadID' = loadID + 1
    /\ loaders' = loaders \cup
         {[id |-> loadID + 1, chosen |-> s, seen |-> {}, room |-> Limit - Len(files)]}

StartLoader(s) ==
    /\ loading' = TRUE /\ loadID' = loadID + 1
    /\ loaders' = loaders \cup
         {[id |-> loadID + 1, chosen |-> s, seen |-> ToSet(files), room |-> Limit - Len(files)]}

\* A bug: files can be added while an answer is awaited.
LoadFilesAnyTime(s) ==
    /\ ~closed /\ ~loading /\ s # {} /\ loadID < MaxLoad
    /\ StartLoader(s)
    /\ UNCHANGED <<window, closed, input, files, round, asking, stream, work>>

LoadFiles(s) ==
    /\ ~closed /\ ~busy /\ ~loading /\ s # {} /\ loadID < MaxLoad
    /\ StartLoader(s)
    /\ UNCHANGED <<window, closed, input, files, round, asking, stream, work>>

\* The goroutine skips what was attached at its start and what is beyond its
\* room, and any file may be unreadable.  The closure counts if no later load
\* and no new conversation came in between.
FilesLoaded(l, added) ==
    /\ l \in loaders /\ added \subseteq l.chosen \ l.seen /\ Cardinality(added) <= l.room
    /\ loaders' = loaders \ {l}
    /\ IF l.id = loadID /\ ~closed
         THEN loading' = FALSE /\ files' = files \o SetToSeq(added)
         ELSE UNCHANGED <<loading, files>>
    /\ UNCHANGED <<window, closed, input, loadID, round, asking, stream, work>>

RemoveFile(i) ==
    /\ ~closed /\ ~busy /\ ~loading /\ i \in DOMAIN files
    /\ files' = RemoveAt(files, i)
    /\ UNCHANGED <<window, closed, input, loads, round, asking, stream, work>>

\* A new conversation.
Clear ==
    /\ ~closed /\ ~busy /\ loadID < MaxLoad
    /\ turns' = <<>> /\ context' = 0 /\ input' = 0 /\ files' = <<>>
    /\ loading' = FALSE /\ loadID' = loadID + 1
    /\ UNCHANGED <<window, closed, loaders, asking, stream, work>>

-----------------------------------------------------------------------------
(* A question                                                                *)

\* submit: the first question of a round may be left out, the hint or the
\* attachments speak then.  In the assistant panel prepare chooses the packets
\* anew for each question; they are not followed here.
Submit ==
    /\ ~closed /\ ~busy /\ ~loading /\ requestID < MaxQuestion
    /\ \/ input # 0
       \/ turns = <<>> /\ (files # <<>> \/ window = "analysis")
    /\ LET q    == IF input # 0 THEN input ELSE requestID + 1
           data == IF window = "analysis" /\ turns = <<>> THEN context ELSE 0
       IN req' = [NoRequest EXCEPT !.kind = "ask", !.at = "running", !.q = q, !.files = files,
                                   !.turns = Append(turns, [data |-> data, q |-> q])]
    /\ input' = 0 /\ files' = <<>>
    /\ requestID' = requestID + 1 /\ busy' = TRUE /\ cancelled' = FALSE
    /\ stream' = NoStream
    /\ UNCHANGED <<window, closed, loads, round, work>>

\* onDelta: pieces are gathered, one timer at a time flushes them.
OnDelta ==
    /\ req.kind = "ask" /\ req.at = "running" /\ req.got < MaxPiece
    /\ req' = [req EXCEPT !.got = @ + 1]
    /\ stream' = [stream EXCEPT !.pending = @ + 1, !.posted = TRUE,
                                !.timer = @ \/ ~stream.posted]
    /\ UNCHANGED <<window, closed, input, files, loads, round, busy, requestID, cancelled, work>>

\* A bug: the flag stays set.
FlushKeepsPosted(s) == [s EXCEPT !.pending = 0, !.shown = @ + s.pending]

Flush(s) == [s EXCEPT !.pending = 0, !.posted = FALSE, !.shown = @ + s.pending]

TimerFlushes ==
    /\ stream.timer
    /\ stream' = [Flush(stream) EXCEPT !.timer = FALSE]
    /\ UNCHANGED <<window, closed, input, files, loads, round, asking, work>>

\* analysisAIStream returns: the service or the network may fail at any time, and
\* an empty answer is an error.
AskReturns(end) ==
    /\ req.kind = "ask" /\ req.at = "running"
    /\ end = "answer" => req.got > 0
    /\ end \in (IF cancelled THEN {"stopped", "error"} ELSE {"answer", "error"})
    /\ req' = [req EXCEPT !.at = "returned", !.end = end]
    /\ UNCHANGED <<window, closed, input, files, loads, round, busy, requestID, cancelled,
                   stream, work>>

\* restoreDraft
RestoreDraft ==
    /\ input' = IF input = 0 THEN req.q ELSE input
    /\ files' = IF files = <<>> THEN req.files ELSE files

\* The closure that ends the request: what is left is flushed, the text replaced
\* by the whole answer.
AskEnds ==
    /\ req.kind = "ask" /\ req.at = "returned"
    /\ req' = [req EXCEPT !.at = "over"]
    /\ IF closed
         THEN UNCHANGED <<input, files, turns, busy, cancelled, stream>>
         ELSE /\ stream' = [Flush(stream) EXCEPT !.shown = req.got]
              /\ busy' = FALSE /\ cancelled' = FALSE
              /\ IF req.end = "answer"
                   THEN turns' = req.turns /\ UNCHANGED <<input, files>>
                   ELSE RestoreDraft /\ UNCHANGED turns
    /\ UNCHANGED <<window, closed, loads, context, requestID, work>>

Stop ==
    /\ ~closed /\ busy /\ ~cancelled
    /\ cancelled' = TRUE
    /\ UNCHANGED <<window, closed, input, files, loads, round, busy, requestID, req, stream, work>>

-----------------------------------------------------------------------------
(* Local analysis                                                            *)

\* setContext: a new round, whose first question carries the report.
SetContext(report) == turns' = <<>> /\ context' = report

\* analyze: the check of packets in the assistant panel.
Analyze ==
    /\ ~closed /\ window = "assistant" /\ ~busy
    /\ requestID < MaxQuestion /\ reports < MaxReport
    /\ SetContext(0)
    /\ busy' = TRUE /\ cancelled' = FALSE /\ requestID' = requestID + 1
    /\ req' = [NoRequest EXCEPT !.kind = "local", !.at = "running"]
    /\ stream' = NoStream
    /\ UNCHANGED <<window, closed, input, files, loads, work>>

\* The job has ended and its closure runs: the report of a check that was stopped
\* is thrown away.
AnalyzeEnds(ok) ==
    /\ req.kind = "local" /\ req.at = "running"
    /\ req' = [req EXCEPT !.at = "over"]
    /\ IF closed
         THEN UNCHANGED <<context, busy, cancelled, reports>>
         ELSE /\ busy' = FALSE /\ cancelled' = FALSE
              /\ IF ok /\ ~cancelled
                   THEN context' = reports + 1 /\ reports' = reports + 1
                   ELSE UNCHANGED <<context, reports>>
    /\ UNCHANGED <<window, closed, input, files, loads, turns, requestID, stream, working>>

\* analysisWindow.work ...
Work ==
    /\ ~closed /\ window = "analysis" /\ ~working /\ ~busy /\ reports < MaxReport
    /\ working' = TRUE
    /\ UNCHANGED <<window, closed, input, files, loads, round, asking, stream, reports>>

\* ... and its closure, which does not ask whether a question is on its way.
WorkEnds(ok) ==
    /\ working
    /\ working' = FALSE
    /\ IF ok /\ ~closed
         THEN SetContext(reports + 1) /\ reports' = reports + 1
         ELSE UNCHANGED <<round, reports>>
    /\ UNCHANGED <<window, closed, input, files, loads, asking, stream>>

\* The window is closed, which stops the request.
CloseWindow ==
    /\ ~closed
    /\ closed' = TRUE
    /\ cancelled' = (cancelled \/ busy)
    /\ UNCHANGED <<window, input, files, loads, round, busy, requestID, req, stream, work>>

-----------------------------------------------------------------------------

UserStep ==
    \/ Edit \/ Clear \/ Submit \/ Stop \/ Analyze \/ Work \/ CloseWindow
    \/ \E s \in SUBSET Paths : LoadFiles(s)
    \/ \E i \in 1..Limit : RemoveFile(i)

Outcomes == {"answer", "stopped", "error"}

ProgramStep ==
    \/ OnDelta \/ TimerFlushes \/ AskEnds
    \/ \E l \in loaders : \E added \in SUBSET l.chosen : FilesLoaded(l, added)
    \/ \E end \in Outcomes : AskReturns(end)
    \/ \E ok \in BOOLEAN : AnalyzeEnds(ok) \/ WorkEnds(ok)

Next == UserStep \/ ProgramStep

\* Timers fire, the UI thread runs what is posted, a request whose context is
\* cancelled returns, and a job on local data ends.  The service need not answer.
Fairness ==
    /\ WF_vars(TimerFlushes)
    /\ WF_vars(AskEnds)
    /\ WF_vars(cancelled /\ \E end \in Outcomes : AskReturns(end))
    /\ WF_vars(\E ok \in BOOLEAN : AnalyzeEnds(ok))

Spec == Init /\ [][Next]_vars /\ Fairness

-----------------------------------------------------------------------------
(* Properties                                                                *)

Turn    == [data : 0..MaxReport, q : 1..MaxQuestion + 1]
Request == [kind : {"none", "ask", "local"}, at : {"running", "returned", "over"},
            turns : Seq(Turn), q : 0..MaxQuestion + 1, files : Seq(Paths), got : 0..MaxPiece,
            end : Outcomes \cup {"none"}]
Loader  == [id : 1..MaxLoad, chosen : SUBSET Paths, seen : SUBSET Paths, room : Int]
Stream  == [pending : 0..MaxPiece, posted : BOOLEAN, timer : BOOLEAN, shown : 0..MaxPiece]

\* The types of the variables.
TypeOK ==
    /\ window \in Windows /\ closed \in BOOLEAN
    /\ input \in 0..MaxQuestion + 1 /\ files \in Seq(Paths)
    /\ loading \in BOOLEAN /\ loadID \in 0..MaxLoad
    /\ loaders \subseteq Loader
    /\ turns \in Seq(Turn) /\ context \in 0..MaxReport
    /\ busy \in BOOLEAN /\ requestID \in 0..MaxQuestion /\ req \in Request
    /\ cancelled \in BOOLEAN
    /\ stream \in Stream
    /\ working \in BOOLEAN /\ reports \in 0..MaxReport

\* However often the user attaches files, starts new conversations and asks while
\* goroutines still read, no question has more than six attachments and none
\* twice: the goroutine decides with what it saw at its start.
AttachmentsFit == Len(files) <= Limit /\ IsInjective(files)

\* A question without an answer is given back: its text to the input, unless the
\* user has typed another meanwhile, and its attachments in any case.
FailedQuestionComesBack ==
    [][AskEnds /\ ~closed /\ req.end # "answer"
         => /\ files' = req.files
            /\ input' = req.q \/ (input # 0 /\ input' = input)]_vars

\* Each piece of an answer is shown although the answer may never end: no piece
\* is left behind by the flag that keeps the timers apart.
PiecesAppear ==
    \A n \in 1..MaxPiece :
        (busy /\ req.kind = "ask" /\ req.got >= n) ~> (stream.shown >= n \/ ~busy \/ closed)

=============================================================================
