---------------------------- MODULE AiChatProofs ----------------------------
(***************************************************************************)
(* Theorems about AiChat, for any number of files, questions, loads,        *)
(* reports and pieces of an answer.  The inductive invariant has the types, *)
(* what a running job may still count (Room), and why no attachment can     *)
(* come or go behind the back of a question (Loads, Question).              *)
(***************************************************************************)
EXTENDS AiChat, FiniteSetTheorems, TLAPS

\* What a job that is under way may still count.
Room ==
    /\ working => window = "analysis" /\ reports < MaxReport
    /\ req.kind = "local" /\ req.at = "running" => window = "assistant" /\ reports < MaxReport
    /\ stream.shown + stream.pending = req.got

Fits(s) == Len(s) <= Limit /\ IsInjective(s)

\* The goroutine whose files will be taken knows what is attached now: nothing is
\* attached or removed while it reads.
Loads ==
    /\ Fits(files)
    /\ \A l \in loaders : l.id <= loadID
    /\ \A l, m \in loaders : l.id = m.id => l = m
    /\ ~closed => \A l \in loaders : l.id = loadID =>
         loading /\ l.seen = ToSet(files) /\ l.room = Limit - Len(files)

\* While an answer is awaited nothing is attached.
Asked == req.kind = "ask" /\ req.at # "over" /\ ~closed

Question ==
    /\ Fits(req.files)
    /\ Asked => busy /\ ~loading /\ files = <<>>

Inv == TypeOK /\ Room /\ Loads /\ Question

-----------------------------------------------------------------------------
(* Sequences                                                                 *)

LEMMA SetToSeqFits ==
    ASSUME NEW S, IsFiniteSet(S)
    PROVE  /\ SetToSeq(S) \in [1..Cardinality(S) -> S]
           /\ IsInjective(SetToSeq(S))
           /\ Cardinality(S) \in Nat
<1>1. Cardinality(S) \in Nat /\ ExistsBijection(1..Cardinality(S), S)
  BY FS_CardinalityType
<1>2. \E f \in [1..Cardinality(S) -> S] : IsInjective(f)
  <2>1. PICK f : f \in Bijection(1..Cardinality(S), S)
    BY <1>1 DEF ExistsBijection
  <2>2. f \in [1..Cardinality(S) -> S] /\ IsInjective(f)
    BY <2>1 DEF Bijection, Injection
  <2> QED BY <2>2
<1> QED BY <1>1, <1>2 DEF SetToSeq

\* What is attached and what is new are different files, and there is room.
LEMMA AddedFit ==
    ASSUME NEW s \in Seq(Paths), Fits(s),
           NEW S \in SUBSET Paths, IsFiniteSet(S),
           \A f \in S : f \notin ToSet(s),
           Cardinality(S) <= Limit - Len(s)
    PROVE  s \o SetToSeq(S) \in Seq(Paths) /\ Fits(s \o SetToSeq(S))
<1> DEFINE t == SetToSeq(S)
           n == Cardinality(S)
<1>1. t \in [1..n -> S] /\ IsInjective(t) /\ n \in Nat
  BY SetToSeqFits
<1> HIDE DEF t, n
<1>2. t \in Seq(Paths) /\ Len(t) = n
  BY <1>1
<1>3. Len(s \o t) <= Limit
  BY <1>2, ChatAssumption DEF Fits, n
<1>4. IsInjective(s \o t)
  <2>0. DOMAIN (s \o t) = 1..(Len(s) + n)
    BY <1>1, <1>2
  <2> SUFFICES ASSUME NEW a \in 1..(Len(s) + n), NEW b \in 1..(Len(s) + n),
                      (s \o t)[a] = (s \o t)[b]
               PROVE  a = b
    BY <2>0, Zenon DEF IsInjective
  <2>1. \A i \in 1..Len(s), j \in 1..n : s[i] # t[j]
    BY <1>1 DEF ToSet
  <2>2. \A i \in 1..(Len(s) + n) :
          (s \o t)[i] = IF i <= Len(s) THEN s[i] ELSE t[i - Len(s)]
    BY <1>1, <1>2
  <2>3. CASE a <= Len(s) /\ b <= Len(s)
    <3>1. s[a] = s[b]
      BY <2>2, <2>3
    <3> QED BY <3>1, <2>3 DEF Fits, IsInjective
  <2>4. CASE a > Len(s) /\ b > Len(s)
    <3>1. a - Len(s) \in 1..n /\ b - Len(s) \in 1..n
      BY <2>4, <1>1
    <3>2. (s \o t)[a] = t[a - Len(s)] /\ (s \o t)[b] = t[b - Len(s)]
      BY <2>2, <2>4, <1>1
    <3>3. a - Len(s) = b - Len(s)
      BY <1>1, <3>1, <3>2, (s \o t)[a] = (s \o t)[b] DEF IsInjective
    <3> QED BY <3>3
  <2>5. CASE a <= Len(s) /\ b > Len(s)
    BY <2>1, <2>2, <2>5, <1>1
  <2>6. CASE a > Len(s) /\ b <= Len(s)
    BY <2>1, <2>2, <2>6, <1>1
  <2> QED BY <2>3, <2>4, <2>5, <2>6, <1>1
<1>5. s \o t \in Seq(Paths)
  BY <1>2
<1> QED BY <1>3, <1>4, <1>5 DEF Fits, t

LEMMA RemovedFits ==
    ASSUME NEW s \in Seq(Paths), Fits(s), NEW i \in 1..Len(s)
    PROVE  RemoveAt(s, i) \in Seq(Paths) /\ Fits(RemoveAt(s, i))
<1> DEFINE r == RemoveAt(s, i)
           x == SubSeq(s, 1, i - 1)
           y == SubSeq(s, i + 1, Len(s))
<1>1. x \in Seq(Paths) /\ Len(x) = i - 1 /\ \A j \in 1..(i - 1) : x[j] = s[j]
  OBVIOUS
<1>2. y \in Seq(Paths) /\ Len(y) = Len(s) - i /\ \A j \in 1..(Len(s) - i) : y[j] = s[i + j]
  OBVIOUS
<1>3. r = x \o y
  BY DEF RemoveAt
<1> HIDE DEF x, y
<1>4. r \in Seq(Paths) /\ Len(r) = Len(s) - 1
  <2> HIDE DEF r
  <2>1. x \in Seq(Paths) /\ y \in Seq(Paths) /\ Len(x) = i - 1 /\ Len(y) = Len(s) - i
    BY <1>1, <1>2
  <2>2. x \o y \in Seq(Paths)
    BY <2>1
  <2>3. Len(x \o y) = Len(x) + Len(y)
    BY <2>1
  <2> QED BY <1>3, <2>1, <2>2, <2>3
<1>5. \A j \in 1..(Len(s) - 1) : r[j] = IF j < i THEN s[j] ELSE s[j + 1]
  <2> HIDE DEF r
  <2> SUFFICES ASSUME NEW j \in 1..(Len(s) - 1)
               PROVE  r[j] = IF j < i THEN s[j] ELSE s[j + 1]
    OBVIOUS
  <2>1. CASE j < i
    BY <2>1, <1>1, <1>2, <1>3
  <2>2. CASE j >= i
    <3>1. r[j] = y[j - (i - 1)] /\ j - (i - 1) \in 1..(Len(s) - i)
      BY <2>2, <1>1, <1>2, <1>3
    <3> QED BY <3>1, <1>2, <2>2
  <2> QED BY <2>1, <2>2
<1> HIDE DEF r
<1>6. IsInjective(r)
  <2> SUFFICES ASSUME NEW a \in 1..(Len(s) - 1), NEW b \in 1..(Len(s) - 1), r[a] = r[b]
               PROVE  a = b
    BY <1>4 DEF IsInjective
  <2> DEFINE at(j) == IF j < i THEN j ELSE j + 1
  <2>1. at(a) \in 1..Len(s) /\ at(b) \in 1..Len(s) /\ s[at(a)] = s[at(b)]
    BY <1>5
  <2>2. at(a) = at(b)
    BY <2>1 DEF Fits, IsInjective
  <2> QED BY <2>2
<1>7. Len(r) <= Limit
  BY <1>4, ChatAssumption DEF Fits
<1> QED BY <1>4, <1>6, <1>7 DEF Fits, r

-----------------------------------------------------------------------------
(* Types                                                                     *)

LEMMA GotEdit ==
    ASSUME NEW r \in Request, NEW g \in 0..MaxPiece
    PROVE  /\ [r EXCEPT !.got = g] \in Request
           /\ [r EXCEPT !.got = g].kind = r.kind
           /\ [r EXCEPT !.got = g].at = r.at
           /\ [r EXCEPT !.got = g].got = g
           /\ [r EXCEPT !.got = g].files = r.files
BY DEF Request

LEMMA OverEdit ==
    ASSUME NEW r \in Request
    PROVE  /\ [r EXCEPT !.at = "over"] \in Request
           /\ [r EXCEPT !.at = "over"].kind = r.kind
           /\ [r EXCEPT !.at = "over"].at = "over"
           /\ [r EXCEPT !.at = "over"].got = r.got
           /\ [r EXCEPT !.at = "over"].files = r.files
BY DEF Request

LEMMA EndEdit ==
    ASSUME NEW r \in Request, NEW e \in Outcomes
    PROVE  /\ [r EXCEPT !.at = "returned", !.end = e] \in Request
           /\ [r EXCEPT !.at = "returned", !.end = e].kind = r.kind
           /\ [r EXCEPT !.at = "returned", !.end = e].at = "returned"
           /\ [r EXCEPT !.at = "returned", !.end = e].got = r.got
           /\ [r EXCEPT !.at = "returned", !.end = e].files = r.files
BY DEF Request

LEMMA QuestionEdit ==
    ASSUME NEW r \in Request, NEW q \in 0..MaxQuestion + 1,
           NEW f \in Seq(Paths), NEW t \in Seq(Turn)
    PROVE  LET s == [r EXCEPT !.kind = "ask", !.at = "running", !.q = q, !.files = f, !.turns = t]
           IN  s \in Request /\ s.kind = "ask" /\ s.got = r.got /\ s.files = f
BY DEF Request

LEMMA NoRequestFits ==
    /\ NoRequest \in Request /\ NoRequest.got = 0 /\ NoRequest.files = <<>>
    /\ NoStream \in Stream /\ NoStream.shown + NoStream.pending = 0
BY ChatAssumption DEF NoRequest, Request, NoStream, Stream

LEMMA PieceEdit ==
    ASSUME NEW s \in Stream, NEW p \in 0..MaxPiece, NEW c \in BOOLEAN
    PROVE  /\ [s EXCEPT !.pending = p, !.posted = TRUE, !.timer = c] \in Stream
           /\ [s EXCEPT !.pending = p, !.posted = TRUE, !.timer = c].pending = p
           /\ [s EXCEPT !.pending = p, !.posted = TRUE, !.timer = c].shown = s.shown
BY DEF Stream

LEMMA FlushEdit ==
    ASSUME NEW s \in Stream, NEW n \in 0..MaxPiece, 0 \in 0..MaxPiece
    PROVE  /\ [s EXCEPT !.pending = 0, !.posted = FALSE, !.shown = n] \in Stream
           /\ [s EXCEPT !.pending = 0, !.posted = FALSE, !.shown = n].pending = 0
           /\ [s EXCEPT !.pending = 0, !.posted = FALSE, !.shown = n].shown = n
BY DEF Stream

LEMMA TimerEdit ==
    ASSUME NEW s \in Stream
    PROVE  /\ [s EXCEPT !.timer = FALSE] \in Stream
           /\ [s EXCEPT !.timer = FALSE].pending = s.pending
           /\ [s EXCEPT !.timer = FALSE].shown = s.shown
BY DEF Stream

LEMMA ShownEdit ==
    ASSUME NEW s \in Stream, NEW n \in 0..MaxPiece
    PROVE  /\ [s EXCEPT !.shown = n] \in Stream
           /\ [s EXCEPT !.shown = n].pending = s.pending
           /\ [s EXCEPT !.shown = n].shown = n
BY DEF Stream

\* What is shown and what is pending is what has arrived.
LEMMA PieceArrives ==
    ASSUME NEW s \in Stream, NEW n \in 0..MaxPiece, s.shown + s.pending = n, n < MaxPiece
    PROVE  LET t == [s EXCEPT !.pending = @ + 1, !.posted = TRUE, !.timer = @ \/ ~s.posted]
           IN  t \in Stream /\ t.shown + t.pending = n + 1
<1> DEFINE k == s.pending + 1
           c == s.timer \/ ~s.posted
           t == [s EXCEPT !.pending = k, !.posted = TRUE, !.timer = c]
<1>1. s.shown \in Nat /\ s.pending \in Nat
  BY ChatAssumption DEF Stream
<1>2. k \in 0..MaxPiece
  BY <1>1, ChatAssumption
<1>3. c \in BOOLEAN
  OBVIOUS
<1>4. t \in Stream /\ t.pending = k /\ t.shown = s.shown
  <2> HIDE DEF k, c
  <2>1. t \in Stream
    BY <1>2, <1>3, PieceEdit, Zenon
  <2>2. t.pending = k
    BY <1>2, <1>3, PieceEdit, Zenon
  <2>3. t.shown = s.shown
    BY <1>2, <1>3, PieceEdit, Zenon
  <2> QED BY <2>1, <2>2, <2>3
<1>5. t.shown + t.pending = n + 1
  <2> HIDE DEF t
  <2> QED BY <1>1, <1>4
<1> QED BY <1>4, <1>5

LEMMA FlushFits ==
    ASSUME NEW s \in Stream, NEW n \in 0..MaxPiece, s.shown + s.pending = n
    PROVE  /\ [Flush(s) EXCEPT !.timer = FALSE] \in Stream
           /\ [Flush(s) EXCEPT !.timer = FALSE].shown + [Flush(s) EXCEPT !.timer = FALSE].pending = n
           /\ [Flush(s) EXCEPT !.shown = n] \in Stream
           /\ [Flush(s) EXCEPT !.shown = n].shown + [Flush(s) EXCEPT !.shown = n].pending = n
<1>1. 0 \in 0..MaxPiece /\ n + 0 = n
  BY ChatAssumption
<1>2. Flush(s) = [s EXCEPT !.pending = 0, !.posted = FALSE, !.shown = n]
  BY DEF Flush
<1>3. Flush(s) \in Stream /\ Flush(s).pending = 0 /\ Flush(s).shown = n
  <2>1. [s EXCEPT !.pending = 0, !.posted = FALSE, !.shown = n] \in Stream
    BY <1>1, FlushEdit, Zenon
  <2>2. [s EXCEPT !.pending = 0, !.posted = FALSE, !.shown = n].pending = 0
    BY <1>1, FlushEdit, Zenon
  <2>3. [s EXCEPT !.pending = 0, !.posted = FALSE, !.shown = n].shown = n
    BY <1>1, FlushEdit, Zenon
  <2> QED BY <1>2, <2>1, <2>2, <2>3, Zenon
<1> DEFINE f == Flush(s)
           x == [f EXCEPT !.timer = FALSE]
           y == [f EXCEPT !.shown = n]
<1> HIDE DEF f
<1>4. f \in Stream /\ f.pending = 0 /\ f.shown = n
  BY <1>3 DEF f
<1>5. x \in Stream /\ x.pending = 0 /\ x.shown = n
  BY <1>4, TimerEdit
<1>6. y \in Stream /\ y.pending = 0 /\ y.shown = n
  BY <1>4, ShownEdit
<1>7. x.shown + x.pending = n /\ y.shown + y.pending = n
  <2> HIDE DEF x, y
  <2> QED BY <1>1, <1>5, <1>6
<1> QED BY <1>5, <1>6, <1>7, Zenon DEF f

\* Truth values and the other variables, which the provers treat apart.
Flags ==
    /\ closed \in BOOLEAN /\ loading \in BOOLEAN /\ busy \in BOOLEAN
    /\ cancelled \in BOOLEAN /\ working \in BOOLEAN

Values ==
    /\ window \in Windows
    /\ input \in 0..MaxQuestion + 1 /\ files \in Seq(Paths)
    /\ loadID \in 0..MaxLoad /\ loaders \subseteq Loader
    /\ turns \in Seq(Turn) /\ context \in 0..MaxReport
    /\ requestID \in 0..MaxQuestion /\ req \in Request
    /\ stream \in Stream /\ reports \in 0..MaxReport

LEMMA Types == TypeOK <=> Flags /\ Values
BY Zenon DEF TypeOK, Flags, Values

LEMMA InitInv == Init => Inv
<1> SUFFICES ASSUME Init PROVE Inv
  OBVIOUS
<1> USE ChatAssumption DEF Init
<1>1. req \in Request /\ req.kind = "none" /\ req.got = 0 /\ req.files = <<>>
  BY DEF NoRequest, Request
<1>2. stream \in Stream /\ stream.shown + stream.pending = 0
  BY DEF NoStream, Stream
<1>3. Fits(<<>>)
  BY DEF Fits, IsInjective
<1>4. Flags
  BY DEF Flags
<1>5. Values
  BY <1>1, <1>2 DEF Values
<1>6. Room
  BY <1>1, <1>2 DEF Room
<1>7. Loads /\ Question
  BY <1>1, <1>3 DEF Loads, Question, Asked
<1> QED BY <1>4, <1>5, <1>6, <1>7, Types DEF Inv

LEMMA FlagsKept ==
    ASSUME Flags, Next
    PROVE  Flags'
<1> USE DEF Flags
<1> USE DEF loads, round, asking, work
<1>1. CASE Edit         BY <1>1 DEF Edit
<1>2. CASE Clear        BY <1>2 DEF Clear
<1>3. CASE Submit       BY <1>3 DEF Submit
<1>4. CASE Stop         BY <1>4 DEF Stop
<1>5. CASE Analyze      BY <1>5 DEF Analyze
<1>6. CASE Work         BY <1>6 DEF Work
<1>7. CASE CloseWindow  BY <1>7 DEF CloseWindow
<1>8. CASE \E s \in SUBSET Paths : LoadFiles(s)
  BY <1>8 DEF LoadFiles, StartLoader
<1>9. CASE \E i \in 1..Limit : RemoveFile(i)
  BY <1>9 DEF RemoveFile
<1>10. CASE OnDelta      BY <1>10 DEF OnDelta
<1>11. CASE TimerFlushes BY <1>11 DEF TimerFlushes
<1>12. CASE AskEnds      BY <1>12 DEF AskEnds
<1>13. CASE \E l \in loaders : \E added \in SUBSET l.chosen : FilesLoaded(l, added)
  BY <1>13 DEF FilesLoaded
<1>14. CASE \E end \in Outcomes : AskReturns(end)
  BY <1>14 DEF AskReturns
<1>15. CASE \E ok \in BOOLEAN : AnalyzeEnds(ok)
  BY <1>15 DEF AnalyzeEnds
<1>16. CASE \E ok \in BOOLEAN : WorkEnds(ok)
  BY <1>16 DEF WorkEnds
<1> QED BY <1>1, <1>2, <1>3, <1>4, <1>5, <1>6, <1>7, <1>8, <1>9, <1>10, <1>11, <1>12,
           <1>13, <1>14, <1>15, <1>16 DEF Next, UserStep, ProgramStep

LEMMA ValuesKept ==
    ASSUME Values, Room, Loads, Next
    PROVE  Values'
<1> USE ChatAssumption
<1> USE DEF loads, round, asking, work
<1>0. /\ window \in Windows /\ loadID \in 0..MaxLoad
      /\ input \in 0..MaxQuestion + 1 /\ files \in Seq(Paths) /\ loaders \subseteq Loader
      /\ turns \in Seq(Turn) /\ context \in 0..MaxReport
      /\ requestID \in 0..MaxQuestion /\ req \in Request
      /\ stream \in Stream /\ reports \in 0..MaxReport
      /\ req.got \in 0..MaxPiece /\ stream.shown + stream.pending = req.got
  BY DEF Values, Room, Request
<1>1. CASE Edit
  BY <1>0, <1>1 DEF Edit, Values
<1>2. CASE Clear
  BY <1>0, <1>2 DEF Clear, Values
<1>3. CASE Submit
  <2> DEFINE q == IF input # 0 THEN input ELSE requestID + 1
             data == IF window = "analysis" /\ turns = <<>> THEN context ELSE 0
             t == Append(turns, [data |-> data, q |-> q])
  <2>0. requestID + 1 \in 0..MaxQuestion /\ requestID + 1 # 0
    <3>1. requestID < MaxQuestion
      BY <1>3 DEF Submit
    <3> QED BY <1>0, <3>1
  <2>1. q \in 1..MaxQuestion + 1 /\ q \in 0..MaxQuestion + 1 /\ data \in 0..MaxReport
    BY <1>0, <2>0
  <2>2. req' = [NoRequest EXCEPT !.kind = "ask", !.at = "running", !.q = q, !.files = files,
                                 !.turns = t]
    BY <1>3 DEF Submit
  <2>3. t \in Seq(Turn)
    BY <1>0, <2>1 DEF Turn
  <2> HIDE DEF q, t
  <2>4. req' \in Request
    <3>1. [NoRequest EXCEPT !.kind = "ask", !.at = "running", !.q = q, !.files = files,
                            !.turns = t] \in Request
      BY <1>0, <2>1, <2>3, QuestionEdit, NoRequestFits, Zenon
    <3> QED BY <2>2, <3>1
  <2>5. stream' \in Stream
    BY <1>3, NoRequestFits DEF Submit
  <2>6. requestID' \in 0..MaxQuestion
    BY <1>3, <2>0 DEF Submit
  <2>7. input' \in 0..MaxQuestion + 1 /\ files' \in Seq(Paths)
    BY <1>3 DEF Submit
  <2>8. UNCHANGED <<window, loadID, loaders, turns, context, reports>>
    BY <1>3 DEF Submit
  <2> QED BY <1>0, <2>4, <2>5, <2>6, <2>7, <2>8 DEF Values
<1>4. CASE Stop
  BY <1>0, <1>4 DEF Stop, Values
<1>5. CASE Analyze
  <2>1. req' \in Request
    BY <1>5, NoRequestFits DEF Analyze, Request
  <2>2. stream' \in Stream
    BY <1>5, NoRequestFits DEF Analyze
  <2> QED BY <1>0, <1>5, <2>1, <2>2 DEF Analyze, SetContext, Values
<1>6. CASE Work
  BY <1>0, <1>6 DEF Work, Values
<1>7. CASE CloseWindow
  BY <1>0, <1>7 DEF CloseWindow, Values
<1>8. ASSUME NEW s \in SUBSET Paths, LoadFiles(s)
      PROVE  Values'
  <2> DEFINE l == [id |-> loadID + 1, chosen |-> s, seen |-> ToSet(files), room |-> Limit - Len(files)]
  <2>1. ToSet(files) \in SUBSET Paths /\ Limit - Len(files) \in Int
    BY <1>0 DEF ToSet
  <2>2. loadID + 1 \in 1..MaxLoad /\ loadID' = loadID + 1
    BY <1>0, <1>8 DEF LoadFiles, StartLoader
  <2>3. l \in Loader
    BY <2>1, <2>2 DEF Loader
  <2>4. loaders' = loaders \cup {l}
    BY <1>8 DEF LoadFiles, StartLoader
  <2> HIDE DEF l
  <2>5. loaders' \subseteq Loader
    BY <1>0, <2>3, <2>4
  <2>6. UNCHANGED <<window, input, files, turns, context, requestID, req, stream, reports>>
    BY <1>8 DEF LoadFiles
  <2> QED BY <1>0, <2>2, <2>5, <2>6 DEF Values
<1>9. ASSUME NEW i \in 1..Limit, RemoveFile(i)
      PROVE  Values'
  <2>1. files' \in Seq(Paths)
    BY <1>0, <1>9, RemovedFits DEF RemoveFile, Loads
  <2> QED BY <1>0, <1>9, <2>1 DEF RemoveFile, Values
<1>10. CASE OnDelta
  <2>1. req' \in Request
    <3>1. req.got < MaxPiece /\ req' = [req EXCEPT !.got = @ + 1]
      BY <1>10 DEF OnDelta
    <3>2. req.got + 1 \in 0..MaxPiece
      BY <1>0, <3>1
    <3>3. [req EXCEPT !.got = @ + 1] \in Request
      BY <1>0, <3>2, GotEdit, Zenon
    <3> QED BY <3>1, <3>3
  <2>2. stream' \in Stream
    <3>1. [stream EXCEPT !.pending = @ + 1, !.posted = TRUE,
                         !.timer = @ \/ ~stream.posted] \in Stream
      BY <1>0, <1>10, PieceArrives, Zenon DEF OnDelta
    <3> QED BY <1>10, <3>1 DEF OnDelta
  <2> QED BY <1>0, <1>10, <2>1, <2>2 DEF OnDelta, Values
<1>11. CASE TimerFlushes
  <2>1. stream' \in Stream
    BY <1>0, <1>11, FlushFits DEF TimerFlushes
  <2> QED BY <1>0, <1>11, <2>1 DEF TimerFlushes, Values
<1>12. CASE AskEnds
  <2>1. req' \in Request
    BY <1>0, <1>12, OverEdit DEF AskEnds
  <2>2. stream' \in Stream
    BY <1>0, <1>12, FlushFits DEF AskEnds
  <2>3. /\ req.turns \in Seq(Turn) /\ req.files \in Seq(Paths) /\ req.q \in 0..MaxQuestion + 1
    BY <1>0 DEF Request
  <2>4. input' \in 0..MaxQuestion + 1 /\ files' \in Seq(Paths) /\ turns' \in Seq(Turn)
    BY <1>0, <1>12, <2>3 DEF AskEnds, RestoreDraft
  <2>5. UNCHANGED <<window, loadID, loaders, context, requestID, reports>>
    BY <1>12 DEF AskEnds
  <2> QED BY <1>0, <2>1, <2>2, <2>4, <2>5 DEF Values
<1>13. ASSUME NEW l \in loaders, NEW added \in SUBSET l.chosen, FilesLoaded(l, added)
       PROVE  Values'
  <2>1. l.chosen \in SUBSET Paths
    BY <1>0 DEF Loader
  <2>2. IsFiniteSet(added)
    BY <2>1, FS_Subset
  <2>3. SetToSeq(added) \in [1..Cardinality(added) -> Paths] /\ Cardinality(added) \in Nat
    BY <2>1, <2>2, SetToSeqFits
  <2>4. SetToSeq(added) \in Seq(Paths)
    BY <2>3
  <2>5. files' = files \o SetToSeq(added) \/ files' = files
    BY <1>13 DEF FilesLoaded
  <2>6. files' \in Seq(Paths)
    <3> DEFINE t == SetToSeq(added)
    <3>1. t \in Seq(Paths)
      BY <2>4
    <3> HIDE DEF t
    <3>2. files \o t \in Seq(Paths)
      BY <1>0, <3>1
    <3> QED BY <1>0, <2>5, <3>2 DEF t
  <2> QED BY <1>0, <1>13, <2>6 DEF FilesLoaded, Values
<1>14. ASSUME NEW end \in Outcomes, AskReturns(end)
       PROVE  Values'
  <2>1. req' \in Request
    <3>1. [req EXCEPT !.at = "returned", !.end = end] \in Request
      BY <1>0, EndEdit, Zenon
    <3> QED BY <1>14, <3>1 DEF AskReturns
  <2> QED BY <1>0, <1>14, <2>1 DEF AskReturns, Values
<1>15. ASSUME NEW ok \in BOOLEAN, AnalyzeEnds(ok)
       PROVE  Values'
  <2>1. req' \in Request
    BY <1>0, <1>15, OverEdit DEF AnalyzeEnds
  <2>2. reports < MaxReport
    BY <1>15 DEF AnalyzeEnds, Room
  <2>3. context' \in 0..MaxReport /\ reports' \in 0..MaxReport
    BY <1>0, <1>15, <2>2 DEF AnalyzeEnds
  <2> QED BY <1>0, <1>15, <2>1, <2>3 DEF AnalyzeEnds, Values
<1>16. ASSUME NEW ok \in BOOLEAN, WorkEnds(ok)
       PROVE  Values'
  <2>1. reports < MaxReport
    BY <1>16 DEF WorkEnds, Room
  <2>2. \/ turns' = <<>> /\ context' = reports + 1 /\ reports' = reports + 1
        \/ turns' = turns /\ context' = context /\ reports' = reports
    BY <1>16 DEF WorkEnds, SetContext
  <2>3. context' \in 0..MaxReport /\ reports' \in 0..MaxReport
    BY <1>0, <2>1, <2>2
  <2>4. turns' \in Seq(Turn)
    <3>1. <<>> \in Seq(Turn)
      OBVIOUS
    <3> QED BY <1>0, <2>2, <3>1, Zenon
  <2> QED BY <1>0, <1>16, <2>3, <2>4 DEF WorkEnds, Values
<1> QED BY <1>1, <1>2, <1>3, <1>4, <1>5, <1>6, <1>7, <1>8, <1>9, <1>10, <1>11, <1>12,
           <1>13, <1>14, <1>15, <1>16 DEF Next, UserStep, ProgramStep

-----------------------------------------------------------------------------
(* What jobs may still count                                                 *)

LEMMA RoomKept ==
    ASSUME Values, Room, Next
    PROVE  Room'
<1> USE ChatAssumption
<1> USE DEF loads, round, asking, work
<1>0. /\ req \in Request /\ stream \in Stream
      /\ req.got \in 0..MaxPiece /\ stream.shown + stream.pending = req.got
  BY DEF Values, Room, Request
\* Most steps leave alone what Room speaks of.
<1>1. CASE Edit \/ Clear \/ Stop \/ CloseWindow
           \/ (\E s \in SUBSET Paths : LoadFiles(s)) \/ (\E i \in 1..Limit : RemoveFile(i))
           \/ (\E l \in loaders : \E added \in SUBSET l.chosen : FilesLoaded(l, added))
  <2>1. UNCHANGED <<working, window, reports, req, stream>>
    BY <1>1 DEF Edit, Clear, Stop, CloseWindow, LoadFiles, RemoveFile, FilesLoaded
  <2> QED BY <2>1 DEF Room
<1>2. CASE Submit
  <2>1. req'.kind = "ask" /\ req'.got = 0
    BY <1>2, NoRequestFits DEF Submit, Request
  <2>2. stream'.shown + stream'.pending = 0
    BY <1>2, NoRequestFits DEF Submit
  <2>3. UNCHANGED <<working, window, reports>>
    BY <1>2 DEF Submit
  <2> QED BY <2>1, <2>2, <2>3 DEF Room
<1>3. CASE Analyze
  <2>1. req'.got = 0 /\ stream'.shown + stream'.pending = 0
    BY <1>3, NoRequestFits DEF Analyze, Request
  <2>2. window' = "assistant" /\ reports' < MaxReport /\ UNCHANGED <<working, window, reports>>
    BY <1>3 DEF Analyze
  <2> QED BY <2>1, <2>2 DEF Room
<1>4. CASE Work
  <2>1. window' = "analysis" /\ reports' < MaxReport /\ UNCHANGED <<window, reports, req, stream>>
    BY <1>4 DEF Work
  <2> QED BY <2>1 DEF Room
<1>5. CASE OnDelta
  <2>1. [req EXCEPT !.got = @ + 1].got = req.got + 1
    BY <1>0, <1>5 DEF Request
  <2>2. req'.kind = "ask" /\ req'.got = req.got + 1
    BY <1>0, <1>5, <2>1 DEF OnDelta, Request
  <2>3. stream'.shown + stream'.pending = req.got + 1
    <3>1. LET t == [stream EXCEPT !.pending = @ + 1, !.posted = TRUE, !.timer = @ \/ ~stream.posted]
          IN  t.shown + t.pending = req.got + 1
      BY <1>0, <1>5, PieceArrives, Zenon DEF OnDelta
    <3> QED BY <1>5, <3>1 DEF OnDelta
  <2>4. UNCHANGED <<working, window, reports>>
    BY <1>5 DEF OnDelta
  <2> QED BY <2>2, <2>3, <2>4 DEF Room
<1>6. CASE TimerFlushes
  <2>1. stream'.shown + stream'.pending = req.got
    BY <1>0, <1>6, FlushFits DEF TimerFlushes
  <2>2. UNCHANGED <<working, window, reports, req>>
    BY <1>6 DEF TimerFlushes
  <2> QED BY <2>1, <2>2 DEF Room
<1>7. CASE AskEnds
  <2>1. req'.kind = "ask" /\ req'.got = req.got
    BY <1>0, <1>7, OverEdit DEF AskEnds
  <2>2. stream'.shown + stream'.pending = req.got
    BY <1>0, <1>7, FlushFits DEF AskEnds
  <2>3. UNCHANGED <<working, window, reports>>
    BY <1>7 DEF AskEnds
  <2> QED BY <2>1, <2>2, <2>3 DEF Room
<1>8. ASSUME NEW end \in Outcomes, AskReturns(end)
      PROVE  Room'
  <2>1. /\ [req EXCEPT !.at = "returned", !.end = end].kind = req.kind
        /\ [req EXCEPT !.at = "returned", !.end = end].got = req.got
    BY <1>0, EndEdit, Zenon
  <2>2. req'.kind = "ask" /\ req'.got = req.got
    BY <1>8, <2>1 DEF AskReturns
  <2>3. UNCHANGED <<working, window, reports, stream>>
    BY <1>8 DEF AskReturns
  <2> QED BY <2>2, <2>3 DEF Room
<1>9. ASSUME NEW ok \in BOOLEAN, AnalyzeEnds(ok)
      PROVE  Room'
  <2>1. req'.at = "over" /\ req'.got = req.got
    BY <1>0, <1>9, OverEdit DEF AnalyzeEnds
  <2>2. ~working /\ UNCHANGED <<working, window, stream>>
    BY <1>9 DEF AnalyzeEnds, Room
  <2> QED BY <2>1, <2>2 DEF Room
<1>10. ASSUME NEW ok \in BOOLEAN, WorkEnds(ok)
      PROVE  Room'
  <2>1. ~working' /\ UNCHANGED <<window, req, stream>>
    BY <1>10 DEF WorkEnds
  <2>2. ~(req.kind = "local" /\ req.at = "running")
    BY <1>10 DEF WorkEnds, Room
  <2> QED BY <2>1, <2>2 DEF Room
<1> QED BY <1>1, <1>2, <1>3, <1>4, <1>5, <1>6, <1>7, <1>8, <1>9, <1>10
        DEF Next, UserStep, ProgramStep

-----------------------------------------------------------------------------
(* Attachments                                                               *)

LEMMA NothingFits == Fits(<<>>)
BY ChatAssumption DEF Fits, IsInjective

LEMMA LoadsKept ==
    ASSUME Flags, Values, Loads, Question, Next
    PROVE  Loads'
<1> USE ChatAssumption
<1> USE DEF loads, round, asking, work
<1>0. /\ files \in Seq(Paths) /\ loaders \subseteq Loader /\ loadID \in Nat
      /\ req \in Request /\ \A l \in loaders : l.id \in Nat /\ l.chosen \in SUBSET Paths
  BY DEF Values, Loader
<1>1. CASE \/ Edit \/ Stop \/ Analyze \/ Work \/ OnDelta \/ TimerFlushes
           \/ (\E end \in Outcomes : AskReturns(end))
           \/ (\E ok \in BOOLEAN : AnalyzeEnds(ok) \/ WorkEnds(ok))
  <2>1. UNCHANGED <<closed, files, loading, loadID, loaders>>
    <3>1. CASE Edit \/ Stop \/ Analyze \/ Work
      BY <3>1 DEF Edit, Stop, Analyze, Work
    <3>2. CASE OnDelta \/ TimerFlushes \/ \E end \in Outcomes : AskReturns(end)
      BY <3>2 DEF OnDelta, TimerFlushes, AskReturns
    <3>3. CASE \E ok \in BOOLEAN : AnalyzeEnds(ok) \/ WorkEnds(ok)
      BY <3>3 DEF AnalyzeEnds, WorkEnds
    <3> QED BY <1>1, <3>1, <3>2, <3>3
  <2> QED BY <2>1 DEF Loads
<1>2. CASE CloseWindow
  <2>1. closed' /\ UNCHANGED <<files, loading, loadID, loaders>>
    BY <1>2 DEF CloseWindow
  <2> QED BY <2>1 DEF Loads
<1>3. CASE Clear
  <2>1. /\ files' = <<>> /\ loadID' = loadID + 1 /\ loaders' = loaders
    BY <1>3 DEF Clear
  <2>2. \A l \in loaders : l.id <= loadID /\ l.id # loadID + 1 /\ l.id <= loadID + 1
    BY <1>0 DEF Loads
  <2> QED BY <2>1, <2>2, NothingFits DEF Loads
<1>4. CASE Submit
  <2>1. /\ ~closed /\ ~loading /\ files' = <<>>
        /\ UNCHANGED <<closed, loading, loadID, loaders>>
    BY <1>4 DEF Submit
  <2>2. \A l \in loaders : l.id # loadID
    BY <2>1 DEF Loads
  <2> QED BY <2>1, <2>2, NothingFits DEF Loads
<1>5. ASSUME NEW s \in SUBSET Paths, LoadFiles(s)
      PROVE  Loads'
  <2> DEFINE n == [id |-> loadID + 1, chosen |-> s, seen |-> ToSet(files), room |-> Limit - Len(files)]
  <2>1. /\ loading' /\ loadID' = loadID + 1 /\ loaders' = loaders \cup {n}
        /\ files' = files
    BY <1>5 DEF LoadFiles, StartLoader
  <2>2. n.id = loadID + 1 /\ n.seen = ToSet(files) /\ n.room = Limit - Len(files)
    OBVIOUS
  <2> HIDE DEF n
  <2>3. \A l \in loaders : l.id <= loadID /\ l.id # loadID + 1 /\ l.id <= loadID + 1
    BY <1>0 DEF Loads
  <2>4. \A l \in loaders' : l.id <= loadID'
    BY <1>0, <2>1, <2>2, <2>3
  <2>5. \A l, m \in loaders' : l.id = m.id => l = m
    BY <2>1, <2>2, <2>3 DEF Loads
  <2>6. \A l \in loaders' : l.id = loadID' =>
          loading' /\ l.seen = ToSet(files') /\ l.room = Limit - Len(files')
    BY <2>1, <2>2, <2>3
  <2>7. Fits(files')
    BY <2>1 DEF Loads
  <2> QED BY <2>4, <2>5, <2>6, <2>7 DEF Loads
<1>6. ASSUME NEW i \in 1..Limit, RemoveFile(i)
      PROVE  Loads'
  <2>1. /\ ~closed /\ ~loading /\ i \in 1..Len(files) /\ files' = RemoveAt(files, i)
        /\ UNCHANGED <<closed, loading, loadID, loaders>>
    BY <1>0, <1>6 DEF RemoveFile
  <2>2. Fits(files')
    BY <1>0, <2>1, RemovedFits DEF Loads
  <2>3. \A l \in loaders : l.id # loadID
    BY <2>1 DEF Loads
  <2> QED BY <2>1, <2>2, <2>3 DEF Loads
<1>7. ASSUME NEW l \in loaders, NEW added \in SUBSET l.chosen, FilesLoaded(l, added)
      PROVE  Loads'
  <2>1. /\ added \subseteq l.chosen \ l.seen /\ Cardinality(added) <= l.room
        /\ loaders' = loaders \ {l} /\ UNCHANGED <<closed, loadID>>
    BY <1>7 DEF FilesLoaded
  <2>2. /\ \A m \in loaders' : m.id <= loadID'
        /\ \A m, n \in loaders' : m.id = n.id => m = n
    BY <2>1 DEF Loads
  <2>3. CASE l.id = loadID /\ ~closed
    <3>1. files' = files \o SetToSeq(added)
      BY <1>7, <2>3 DEF FilesLoaded
    <3>2. l.seen = ToSet(files) /\ l.room = Limit - Len(files)
      BY <2>3 DEF Loads
    <3>3. added \in SUBSET Paths /\ IsFiniteSet(added)
      BY <1>0, FS_Subset
    <3>4. Fits(files')
      BY <1>0, <2>1, <3>1, <3>2, <3>3, AddedFit DEF Loads
    <3>5. \A m \in loaders' : m.id # loadID'
      BY <2>1, <2>3 DEF Loads
    <3> QED BY <2>2, <3>4, <3>5 DEF Loads
  <2>4. CASE ~(l.id = loadID /\ ~closed)
    <3>1. UNCHANGED <<loading, files>>
      BY <1>7, <2>4 DEF FilesLoaded
    <3> QED BY <2>1, <2>2, <3>1 DEF Loads
  <2> QED BY <2>3, <2>4
<1>8. CASE AskEnds
  <2>1. UNCHANGED <<closed, loading, loadID, loaders>>
    BY <1>8 DEF AskEnds
  <2>2. CASE closed
    <3>1. files' = files
      BY <1>8, <2>2 DEF AskEnds
    <3> QED BY <2>1, <3>1 DEF Loads
  <2>3. CASE ~closed
    <3>1. ~loading
      BY <1>8, <2>3 DEF AskEnds, Question, Asked
    <3>2. \A l \in loaders : l.id # loadID
      BY <2>3, <3>1 DEF Loads
    <3>3. files' = files \/ files' = req.files
      BY <1>8, <2>3 DEF AskEnds, RestoreDraft
    <3>4. Fits(files')
      BY <3>3 DEF Loads, Question
    <3> QED BY <2>1, <3>2, <3>4 DEF Loads
  <2> QED BY <2>2, <2>3
<1> QED BY <1>1, <1>2, <1>3, <1>4, <1>5, <1>6, <1>7, <1>8 DEF Next, UserStep, ProgramStep

LEMMA QuestionKept ==
    ASSUME Flags, Values, Loads, Question, Next
    PROVE  Question'
<1> USE ChatAssumption
<1> USE DEF loads, round, asking, work
<1>0. req \in Request
  BY DEF Values
<1>1. CASE Edit \/ Clear \/ Stop \/ Work
           \/ (\E s \in SUBSET Paths : LoadFiles(s)) \/ (\E i \in 1..Limit : RemoveFile(i))
  <2>1. ~closed /\ UNCHANGED <<closed, req, busy>>
    BY <1>1 DEF Edit, Clear, Stop, Work, LoadFiles, RemoveFile
  <2>2. CASE busy
    <3>1. UNCHANGED <<loading, files>>
      BY <1>1, <2>2 DEF Edit, Clear, Stop, Work, LoadFiles, RemoveFile
    <3> QED BY <2>1, <3>1 DEF Question, Asked
  <2>3. CASE ~busy
    BY <2>1, <2>3 DEF Question, Asked
  <2> QED BY <2>2, <2>3
<1>2. CASE CloseWindow
  BY <1>2 DEF CloseWindow, Question, Asked
<1>3. CASE Submit
  <2>1. req'.files = files
    BY <1>3, NoRequestFits DEF Submit, Request
  <2>2. busy' /\ ~loading' /\ files' = <<>>
    BY <1>3 DEF Submit
  <2> QED BY <2>1, <2>2 DEF Question, Loads
<1>4. CASE Analyze
  <2>1. req'.kind = "local" /\ req'.files = <<>>
    BY <1>4, NoRequestFits DEF Analyze, Request
  <2> QED BY <2>1, NothingFits DEF Question, Asked
<1>5. CASE OnDelta
  <2>1. req'.files = req.files /\ req.kind = "ask" /\ req.at = "running"
    BY <1>0, <1>5 DEF OnDelta, Request
  <2>2. UNCHANGED <<closed, busy, loading, files>>
    BY <1>5 DEF OnDelta
  <2> QED BY <2>1, <2>2 DEF Question, Asked
<1>6. CASE TimerFlushes
  BY <1>6 DEF TimerFlushes, Question, Asked
<1>7. CASE AskEnds
  <2>1. req'.files = req.files /\ req'.at = "over"
    BY <1>0, <1>7, OverEdit DEF AskEnds
  <2> QED BY <2>1 DEF Question, Asked
<1>8. ASSUME NEW end \in Outcomes, AskReturns(end)
      PROVE  Question'
  <2>1. [req EXCEPT !.at = "returned", !.end = end].files = req.files
    BY <1>0, EndEdit, Zenon
  <2>2. req'.files = req.files /\ req.kind = "ask" /\ req.at = "running"
    BY <1>8, <2>1 DEF AskReturns
  <2>3. UNCHANGED <<closed, busy, loading, files>>
    BY <1>8 DEF AskReturns
  <2> QED BY <2>2, <2>3 DEF Question, Asked
<1>9. ASSUME NEW ok \in BOOLEAN, AnalyzeEnds(ok)
      PROVE  Question'
  <2>1. req'.files = req.files /\ req'.at = "over"
    BY <1>0, <1>9, OverEdit DEF AnalyzeEnds
  <2> QED BY <2>1 DEF Question, Asked
<1>10. CASE \E ok \in BOOLEAN : WorkEnds(ok)
  BY <1>10 DEF WorkEnds, Question, Asked
<1>11. ASSUME NEW l \in loaders, NEW added \in SUBSET l.chosen, FilesLoaded(l, added)
      PROVE  Question'
  <2>1. UNCHANGED <<closed, req, busy>>
    BY <1>11 DEF FilesLoaded
  <2>2. CASE Asked
    <3>1. ~(l.id = loadID /\ ~closed)
      BY <2>2 DEF Question, Loads
    <3>2. UNCHANGED <<loading, files>>
      BY <1>11, <3>1 DEF FilesLoaded
    <3> QED BY <2>1, <3>2 DEF Question, Asked
  <2>3. CASE ~Asked
    BY <2>1, <2>3 DEF Question, Asked
  <2> QED BY <2>2, <2>3
<1> QED BY <1>1, <1>2, <1>3, <1>4, <1>5, <1>6, <1>7, <1>8, <1>9, <1>10, <1>11
        DEF Next, UserStep, ProgramStep

-----------------------------------------------------------------------------
(* Theorems                                                                  *)

LEMMA InvKept == Inv /\ [Next]_vars => Inv'
<1> SUFFICES ASSUME Inv, [Next]_vars PROVE Inv'
  OBVIOUS
<1>1. Flags /\ Values /\ Room /\ Loads /\ Question
  BY Types DEF Inv
<1>2. CASE Next
  <2>1. Flags' /\ Values' /\ Room' /\ Loads' /\ Question'
    BY <1>1, <1>2, FlagsKept, ValuesKept, RoomKept, LoadsKept, QuestionKept
  <2>2. TypeOK'
    BY <2>1 DEF TypeOK, Flags, Values
  <2> QED BY <2>1, <2>2 DEF Inv
<1>3. CASE UNCHANGED vars
  BY <1>3 DEF Inv, vars, loads, round, asking, work, TypeOK, Room, Loads, Question, Asked
<1> QED BY <1>2, <1>3

LEMMA InvHolds == Spec => []Inv
<1> QED BY InitInv, InvKept, PTL DEF Spec

\* Every variable of the chat keeps its type; the pieces shown and those that are
\* pending are never more than have arrived: onDelta, ai_chat.go.
THEOREM ChatTypeCorrect == Spec => []TypeOK
<1>1. Inv => TypeOK
  BY DEF Inv
<1> QED BY <1>1, InvHolds, PTL

\* However files are chosen, read, removed and asked with, a question has at most
\* as many attachments as are allowed, and none twice: loadFiles, ai_chat.go.
THEOREM QuestionsFit == Spec => []AttachmentsFit
<1>1. Inv => AttachmentsFit
  BY DEF Inv, Loads, Fits, AttachmentsFit
<1> QED BY <1>1, InvHolds, PTL

\* A question that fails or is stopped is given back with its attachments, because
\* nothing else can be attached meanwhile: restoreDraft, ai_chat.go.
THEOREM DraftComesBack == Spec => FailedQuestionComesBack
<1> DEFINE Back == AskEnds /\ ~closed /\ req.end # "answer"
                     => /\ files' = req.files
                        /\ input' = req.q \/ (input # 0 /\ input' = input)
<1>1. Inv => Back
  <2> SUFFICES ASSUME Inv, AskEnds, ~closed, req.end # "answer"
               PROVE  /\ files' = req.files
                      /\ input' = req.q \/ (input # 0 /\ input' = input)
    OBVIOUS
  <2>1. files = <<>>
    BY DEF AskEnds, Inv, Question, Asked
  <2>2. RestoreDraft
    BY DEF AskEnds
  <2> QED BY <2>1, <2>2 DEF RestoreDraft
<1>2. Spec => [][Back]_vars
  BY <1>1, InvHolds, PTL DEF Spec
<1> QED BY <1>2 DEF FailedQuestionComesBack
=============================================================================
