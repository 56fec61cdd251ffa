--------------------------- MODULE StoreRotation ---------------------------
(***************************************************************************)
(* The files of the session store (core/storage.go, core/storage_packet.go) *)
(* under rotation: a data file per day and per 100 MiB, the main session     *)
(* and the background sessions of the virtual serial ports, whose rows are   *)
(* made again in every new file, restarts of the program and the clean-up of *)
(* old files.                                                                *)
(*                                                                         *)
(* Every operation holds the lock of the store, so each is one step.  Sizes  *)
(* are left out: a file may turn out to be full at any write.  A file is     *)
(* <<day, index>>; the row id of a session counts from 1 in each file.       *)
(***************************************************************************)
EXTENDS Naturals, FiniteSets

CONSTANTS
    Tasks,          \* background sessions (virtual serials), one handle each
    MaxDay, MaxIndex, MaxSession,  \* bounds: days, files a day, main sessions
    MaxRow,         \* bound on the session rows of a file
    OpenMayFail,    \* a new file may fail to open
    InsertMayFail   \* the INSERT of a session row may fail

ASSUME BoundsAssumption == /\ MaxDay \in Nat \ {0} /\ MaxIndex \in Nat \ {0}
                           /\ MaxSession \in Nat /\ MaxRow \in Nat
                           /\ OpenMayFail \in BOOLEAN /\ InsertMayFail \in BOOLEAN

ASSUME TasksAssumption == IsFiniteSet(Tasks) /\ Tasks \cap Nat = {}

Days  == 1..MaxDay
Files == Days \X (1..MaxIndex)
NoFile == <<0, 0>>

\* Main sessions are numbered, 0 is none; a background session is its task.
Owners == 1..MaxSession \cup Tasks

VARIABLES
    clock, disk,                      \* today, and the files that exist
    cur, main, sessionID, bg, rowID,  \* Store: db and path, the configuration
                                      \* of the main session, s.bg
    sessions, count, ended,           \* the table sessions of every file
    data,                             \* the table received_data of every file
    started, abandoned                \* main sessions so far, and the rows a
                                      \* dead process left without an end

tables == <<sessions, count, ended, data>>
vars   == <<clock, disk, cur, main, sessionID, bg, rowID, tables, started, abandoned>>

Live == {t \in Tasks : bg[t] = "live"}

\* The session rows the store writes to at the moment.
MainRow  == IF sessionID # 0 THEN {<<cur, sessionID>>} ELSE {}
OpenRows == IF cur # NoFile THEN MainRow \cup {<<cur, rowID[t]>> : t \in Live} ELSE {}

Init ==
    /\ clock = 1 /\ disk = {<<1, 1>>} /\ cur = <<1, 1>>
    /\ main = 0 /\ sessionID = 0
    /\ bg = [t \in Tasks |-> "new"] /\ rowID = [t \in Tasks |-> 0]
    /\ sessions = {} /\ count = [f \in Files |-> 0] /\ ended = {} /\ data = {}
    /\ started = 0 /\ abandoned = {}

NextDay == clock < MaxDay /\ clock' = clock + 1
           /\ UNCHANGED <<disk, cur, main, sessionID, bg, rowID, tables, started, abandoned>>

-----------------------------------------------------------------------------
(* Sessions                                                                  *)

Row(f, i, o) == [file |-> f, id |-> i, owner |-> o]

\* StartSession on an open file; an INSERT that fails leaves no session.
StartSession ==
    /\ cur # NoFile /\ started < MaxSession /\ count[cur] < MaxRow
    /\ started' = started + 1 /\ main' = started + 1
    /\ ended' = ended \cup MainRow
    /\ \/ /\ sessionID' = count[cur] + 1
          /\ sessions' = sessions \cup {Row(cur, count[cur] + 1, started + 1)}
          /\ count' = [count EXCEPT ![cur] = @ + 1]
       \/ /\ InsertMayFail /\ sessionID' = 0
          /\ UNCHANGED <<sessions, count>>
    /\ UNCHANGED <<clock, disk, cur, bg, rowID, data, abandoned>>

EndSession ==
    /\ main # 0
    /\ main' = 0 /\ sessionID' = 0
    /\ ended' = ended \cup MainRow
    /\ UNCHANGED <<clock, disk, cur, bg, rowID, sessions, count, data, started, abandoned>>

\* NewSession; without a file, or if the INSERT fails, the task goes unrecorded.
NewSession(t) ==
    /\ bg[t] = "new"
    /\ \/ /\ cur # NoFile /\ count[cur] < MaxRow
          /\ bg' = [bg EXCEPT ![t] = "live"]
          /\ rowID' = [rowID EXCEPT ![t] = count[cur] + 1]
          /\ sessions' = sessions \cup {Row(cur, count[cur] + 1, t)}
          /\ count' = [count EXCEPT ![cur] = @ + 1]
       \/ /\ cur = NoFile \/ InsertMayFail
          /\ bg' = [bg EXCEPT ![t] = "ended"]
          /\ UNCHANGED <<rowID, sessions, count>>
    /\ UNCHANGED <<clock, disk, cur, main, sessionID, ended, data, started, abandoned>>

EndSessionID(t) ==
    /\ bg[t] = "live"
    /\ bg' = [bg EXCEPT ![t] = "ended"]
    /\ ended' = IF cur # NoFile THEN ended \cup {<<cur, rowID[t]>>} ELSE ended
    /\ rowID' = [rowID EXCEPT ![t] = 0]
    /\ UNCHANGED <<clock, disk, cur, main, sessionID, sessions, count, data, started, abandoned>>

-----------------------------------------------------------------------------
(* rotateIfNeededLocked                                                      *)

\* The current file may serve a packet of this day, unless it is full.
Stays(day) == day = cur[1]

Indices(day) == {i \in 1..MaxIndex : <<day, i>> \in disk}

\* The newest file of a day has the greatest index.
Newest(day) == {f \in disk : f[1] = day /\ \A g \in disk : g[1] = day => g[2] <= f[2]}

\* openFileLocked: the newest file of the day, or the one after it if it is
\* full or a new one is asked for, or the first.
Targets(day, forceNew) ==
    {f \in Files :
        \/ Newest(day) = {} /\ f = <<day, 1>>
        \/ <<f[1], f[2] - 1>> \in Newest(day)
        \/ ~forceNew /\ f \in Newest(day)}

\* A bug: only the row of the main session is ended in the old file.
LeftRowsOfMain == MainRow

\* The rows that are ended before the old file is closed.
LeftRows == OpenRows

\* A bug: the background sessions keep the row ids of the old file.
MovedRowIDsKept(moved, f, pos) == rowID

\* The background sessions point to the rows they got in f.
MovedRowIDs(moved, f, pos) ==
    [t \in Tasks |-> IF t \in moved THEN count[f] + pos[t] ELSE rowID[t]]

\* A bug: whether it is active is asked after it was finished.
MainMovesNot == FALSE

\* The main session goes on in the new file.
MainMoves == sessionID # 0

\* The map of the background sessions is ranged over in any order.
Orders(moved) == {p \in [moved -> 1..Cardinality(moved)] :
                     \A s, t \in moved : p[s] = p[t] => s = t}

\* The old file is left for f, where `moved' and perhaps the main session get
\* their rows.
Reopen(f, moved, withMain) ==
    LET n == count[f] + Cardinality(moved)
        m == IF withMain THEN n + 1 ELSE n IN
    /\ m <= MaxRow
    /\ cur' = f /\ disk' = disk \cup {f}
    /\ ended' = ended \cup LeftRows
    /\ \E pos \in Orders(moved) :
          /\ rowID' = MovedRowIDs(moved, f, pos)
          /\ sessions' = sessions \cup {Row(f, count[f] + pos[t], t) : t \in moved}
                                  \cup (IF withMain THEN {Row(f, m, main)} ELSE {})
    /\ count' = [count EXCEPT ![f] = m]
    /\ sessionID' = IF withMain THEN m ELSE 0

\* The file cannot be opened: the store has no file from now on.
OpenFails(f) ==
    /\ OpenMayFail
    /\ cur' = NoFile /\ disk' \in {disk, disk \cup {f}}
    /\ ended' = ended \cup LeftRows
    /\ sessionID' = 0
    /\ UNCHANGED <<rowID, sessions, count>>

\* An INSERT fails on the way: the sessions that come after it are not in the
\* new file, and the packet that made the store rotate is not stored.
InsertFails(f) ==
    /\ InsertMayFail
    /\ \/ \E moved \in SUBSET Live : Reopen(f, moved, FALSE)
       \/ Reopen(f, Live, MainMoves)

-----------------------------------------------------------------------------
(* Record and ReceivedForSession                                             *)

\* A packet of an owner, stamped on a day, is inserted under row i of f.
Insert(f, i, o, day) ==
    data' = data \cup {[file |-> f, id |-> i, owner |-> o, day |-> day]}

\* The store changes files because of a packet of this day, and cannot store it.
RotationFails(day) ==
    /\ \E f \in Targets(day, day = cur[1]) : OpenFails(f) \/ InsertFails(f)
    /\ UNCHANGED data

\* The store changes files because of a packet of this day.
Rotate(day) == \E f \in Targets(day, day = cur[1]) : Reopen(f, Live, MainMoves)

StayInFile(day) ==
    /\ Stays(day)
    /\ UNCHANGED <<disk, cur, sessionID, rowID, sessions, count, ended>>

\* Record: a packet of the main session, stamped today or before midnight.
Record(day) ==
    /\ cur # NoFile /\ sessionID # 0 /\ day \in {clock, clock - 1}
    /\ \/ (StayInFile(day) \/ Rotate(day)) /\ Insert(cur', sessionID', main, day)
       \/ RotationFails(day)
    /\ UNCHANGED <<clock, main, bg, started, abandoned>>

\* ReceivedForSession: data of a background session, stamped now.
ReceivedForSession(t) ==
    /\ cur # NoFile /\ bg[t] = "live"
    /\ \/ (StayInFile(clock) \/ Rotate(clock)) /\ Insert(cur', rowID'[t], t, clock)
       \/ RotationFails(clock)
    /\ UNCHANGED <<clock, main, bg, started, abandoned>>

-----------------------------------------------------------------------------
(* The end of the program, OpenStore and cleanupOldFiles                     *)

Before(f, g) == f[1] < g[1] \/ (f[1] = g[1] /\ f[2] < g[2])

\* The process ends with its sessions open, or after Engine.Close has ended
\* them; the next one has f open and only the files `kept' are left.
Begin(f, crash, kept) ==
    LET Keep(table) == {r \in table : r[1] \in kept} IN
    /\ disk' = kept /\ cur' = f
    /\ main' = 0 /\ sessionID' = 0
    /\ bg' = [t \in Tasks |-> IF bg[t] = "live" THEN "ended" ELSE bg[t]]
    /\ rowID' = [t \in Tasks |-> 0]
    /\ ended' = Keep(IF crash THEN ended ELSE ended \cup OpenRows)
    /\ abandoned' = Keep(IF crash THEN abandoned \cup OpenRows ELSE abandoned)
    /\ sessions' = {r \in sessions : r.file \in kept}
    /\ data' = {d \in data : d.file \in kept}
    /\ count' = [g \in Files |-> IF g \in kept THEN count[g] ELSE 0]
    /\ UNCHANGED <<clock, started>>

\* A file of today is opened and the files before `oldest' are deleted.  A
\* crash is also what StartSession does without a file: it uses a nil db.
Restart ==
    \E f \in Targets(clock, FALSE), crash \in BOOLEAN :
    \E oldest \in disk \cup {f} :
       Begin(f, crash, {g \in disk \cup {f} : ~Before(g, oldest)})

-----------------------------------------------------------------------------
Next ==
    \/ NextDay \/ StartSession \/ EndSession \/ Restart
    \/ \E t \in Tasks : NewSession(t) \/ EndSessionID(t) \/ ReceivedForSession(t)
    \/ \E day \in Days : Record(day)

Spec == Init /\ [][Next]_vars

-----------------------------------------------------------------------------
(* Properties                                                                *)

Rows == [file : Files, id : 1..MaxRow, owner : Owners]
Keys == Files \X (1..MaxRow)

\* Every variable holds values of its kind.
TypeOK ==
    /\ clock \in Days /\ disk \subseteq Files /\ cur \in Files \cup {NoFile}
    /\ main \in 0..MaxSession /\ started \in 0..MaxSession
    /\ sessionID \in 0..MaxRow
    /\ bg \in [Tasks -> {"new", "live", "ended"}] /\ rowID \in [Tasks -> 0..MaxRow]
    /\ sessions \subseteq Rows /\ count \in [Files -> 0..MaxRow]
    /\ ended \subseteq Keys /\ abandoned \subseteq Keys
    /\ data \subseteq [file : Files, id : 1..MaxRow, owner : Owners, day : Days]

\* storage.go:42: after a change of files the data of a session does not hang
\* on a session that does not exist or is somebody else's: each row belongs to
\* exactly one session row of its file, and this one has the same owner.
RowsHangOnTheirSession ==
    \A d \in data :
        {r \in sessions : r.file = d.file /\ r.id = d.id} = {Row(d.file, d.id, d.owner)}

\* The same for the main session alone: Record writes under a row id that the
\* store was given in this file, whatever INSERT failed before.
MainRowsHangOnTheirSession ==
    \A d \in data : d.owner \notin Tasks =>
        {r \in sessions : r.file = d.file /\ r.id = d.id} = {Row(d.file, d.id, d.owner)}

\* A session row has no end exactly as long as the store still writes under it
\* (or the process died meanwhile): nothing is ended early, nothing forgotten.
SessionsEndOnce ==
    {<<r.file, r.id>> : r \in sessions} \ (ended \cup abandoned) = OpenRows

\* A row is in a file of the day it was stamped on, also around midnight.
RowsInTheirDay == \A d \in data : d.day = d.file[1]

\* Rotation does not end the main session: as long as there is a file the
\* session that was started goes on.
MainGoesOn == main # 0 /\ cur # NoFile => sessionID # 0

-----------------------------------------------------------------------------
(* The table sessions that a reader of all files sees                        *)

Asked == ({main} \ {0}) \cup Live
Begun == 1..started \cup {t \in Tasks : bg[t] # "new"}

\* The owners of rows without an end.
Running == {r.owner : r \in {s \in sessions : <<s.file, s.id>> \notin ended \cup abandoned}}

\* The data joined with the session rows, on the day of their file.
Joined == {x \in data \X sessions : x[1].file = x[2].file /\ x[1].id = x[2].id}
Kept   == {[owner |-> x[2].owner, day |-> x[1].file[1]] : x \in Joined}

Table == INSTANCE SessionTable WITH
    Mains <- 1..MaxSession, today <- clock, up <- cur # NoFile,
    asked <- Asked, begun <- Begun, running <- Running, kept <- Kept

\* The files implement one table (storage.go:42): a rotation of either kind, into a
\* new file or back into an old one, is nothing to a reader who joins the tables of
\* each file; the sessions without an end are those the program has asked for; every
\* packet is found under its session and its day until its file is cleaned up.
RefinesSessionTable == Table!Spec
=============================================================================
